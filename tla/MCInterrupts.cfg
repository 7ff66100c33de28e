SPECIFICATION FairSpec
CONSTANTS
  Irqs = {1, 3}
  MaxNesting = 2
  MaxRaises = 2
INVARIANTS SectionsAreExclusive EnabledExactlyOutside HandlersAreComplete
PROPERTIES InterruptsAreServed
