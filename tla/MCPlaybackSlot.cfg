SPECIFICATION SlotSpec
CONSTANTS
  a1 = a1
  a2 = a2
  a3 = a3
  b1 = b1
  kitchen = kitchen
  office = office
  None = None
  Attempts = {a1, a2, a3, b1}
  Devices = {kitchen, office}
  DeviceOf <- MCDeviceOf
INVARIANTS
  SlotTypeOK
  OneHolderPerDevice
  SlotsInUseAreMapped
PROPERTIES
  EveryRequestServed
