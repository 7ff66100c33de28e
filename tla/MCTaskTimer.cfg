SPECIFICATION FairSpec
CONSTANTS
  ClockSize = 7
  Period = 3
  Latency = 2
  TickSize = 8
  NTimers = 2
  channel1 = channel1
  channel2 = channel2
  Clients = {channel1, channel2}
  Delays = {0, 1, 3}
  NoClient = NoClient
INVARIANTS TickKeepsUp
PROPERTIES ImplementsTimers TimersFire
