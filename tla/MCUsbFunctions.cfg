CONSTANTS
  Settings <- MCSettings
  MaxSettings = 3
  USBDEV_MAX_FUNCTIONS = 2
  MaxOffset = 512
  ReadyTries = 3
  MediumBlocks = 1
  Contents = {a}
  Offsets = {0, 512}
  Counts = {0, 512, 513, 33554432}
  MaxCalls = 2
  Obedience = {{}, {"clear1"}, {"reset", "clear1"}, {"reset", "clear2"}}
  MaxFaults = 4
  MaxStray = 2
  KeyCodes = {4, 57, 83, 89, 58, 76}
  Chords = {{}, {"Shift"}, {"Alt", "Ctrl"}}
  HandlerSets = {{"key", "console", "shutdown"}, {"raw"}}
  MaxHeld = 2
  MaxPresses = 2
  MaxReports = 2
  WaitReads = 2
  Lengths = {1514, 1592, 1593}
  MaxFrames = 2
  MaxUnplugs = 1
  Layouts <- MCLayouts
  Bytes = {0, 90, 165, 255}
  MaxPolls = 2
SPECIFICATION Spec
INVARIANTS FunctionsOwnEndpoints SuccessIsReal RetriesSuffice TypedIsPressed LedsFollowLocks EthernetWorks ReportIsDecoded
CHECK_DEADLOCK FALSE
