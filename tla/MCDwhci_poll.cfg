SPECIFICATION FairSpec
CONSTANTS
  NChannels = 1
  NTimers = 1
  Sync = Sync
  keyboard = keyboard
  mouse = mouse
  midi = midi
  Async = {keyboard}
  Periodic = {keyboard}
  Split = {keyboard}
  Delay <- MCDelay
  MaxPackets = 2
  Microframes = {4}
  InQEMU = FALSE
  NoUrb = NoUrb
  NoChannel = NoChannel
INVARIANTS SchedulerAsserts
PROPERTIES BlockingRequestReturns StreamsAreServed
