SPECIFICATION Spec
CONSTANTS
  ep0 = ep0
  epIn = epIn
  epOut = epOut
  Control = ep0
  BulkIn = {epIn}
  BulkOut = {epOut}
  MaxPackets = 3
  None = None
INVARIANTS DeviceAccepts SuccessMeansDone
