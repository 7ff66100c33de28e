SPECIFICATION Spec
CONSTANTS
  ArmBase = 0
  ArmSize = 30
  HeapStart = 2
  PageSize = 6
  BucketSizes = {1, 2}
  RequestSizes = {1, 2, 3}
  Overshoot = 4
  thread = thread
  interrupt = interrupt
  Callers = {thread, interrupt}
  Null = Null
  PageBucket = PageBucket
INVARIANTS HeapIsSound
PROPERTIES ImplementsHeap
SYMMETRY CallerSymmetry
CHECK_DEADLOCK FALSE
