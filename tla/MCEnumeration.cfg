SPECIFICATION FairSpec
CONSTANTS
  NDevices = 4
  Parent <- HubOf
  PortOf <- PortThere
  NPorts = 2
  MayBe <- PluggedIn
  MaxAddress = 3
CHECK_DEADLOCK FALSE
INVARIANTS OneDeviceAnswers TranslatorIsNearest UsableWhenDone
PROPERTIES EnumerationEnds
