SPECIFICATION Spec
CONSTANTS
  NChannels = 2
  NTimers = 2
  Sync = Sync
  keyboard = keyboard
  mouse = mouse
  midi = midi
  Async = {keyboard, mouse, midi}
  Periodic = {keyboard, mouse}
  Split = {keyboard}
  Delay <- MCDelay
  MaxPackets = 1
  Microframes = {4}
  InQEMU = FALSE
  NoUrb = NoUrb
  NoChannel = NoChannel
INVARIANTS ChannelOwnership InterruptsAreExpected StageHasFuture TimerOwnership WaitingMatchesRequest StreamsNeverDie
PROPERTIES NeverReprogramsRunningChannel ImplementsRequests
