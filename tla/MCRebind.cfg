SPECIFICATION DeliverySafety
CONSTANTS
  k1 = k1
  k2 = k2
  butler = butler
  kitchen = kitchen
  office = office
  speaker = speaker
  tablet = tablet
  job = job
  other = other
  None = None
  Attempts = {k1, k2}
  Devices = {kitchen, office}
  Entities = {speaker, tablet}
  Managers = {butler}
  Jobs = {job, other}
  DeviceOf <- MCDeviceOf
  JobOf <- MCJobOf
  ManagerOf <- MCManagerOf
  Expires <- MCExpires
  Stability <- MCStability
  Override <- MCOverride
  LruSize = 1
  MaxTime = 2
  Closable = {}
INVARIANTS
  ParkedHearsChanges
PROPERTIES
  PlaybackStartsEntitled
