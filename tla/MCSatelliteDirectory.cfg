SPECIFICATION HistorySpec
CONSTANTS
  k1 = k1
  k2 = k2
  kitchen = kitchen
  office = office
  speaker = speaker
  tablet = tablet
  None = None
  Attempts = {k1, k2}
  Devices = {kitchen, office}
  Entities = {speaker, tablet}
  Override <- MCOverride
  MaxTime = 2
INVARIANTS
  RegistryMapsAgree
  DepartedDevicesLeaveNoEvent
  IdleStretchIsUnbroken
PROPERTIES
  ChangesWakeListeners
