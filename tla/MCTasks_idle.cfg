SPECIFICATION Spec
CONSTANTS
  Blocks = {b1, b2, b3, b4}
  Idle = idle
  Null = null
  MaxTasks = 7
SYMMETRY AnyBlock
CHECK_DEADLOCK FALSE
INVARIANTS IdleKeepsUsCompany
