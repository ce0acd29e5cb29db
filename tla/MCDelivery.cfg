SPECIFICATION DeliverySafety
CONSTANTS
  b1 = b1
  c1 = c1
  butler = butler
  concierge = concierge
  kitchen = kitchen
  speaker = speaker
  butlerJob = butlerJob
  conciergeJob = conciergeJob
  None = None
  Attempts = {b1, c1}
  Devices = {kitchen}
  Entities = {speaker}
  Managers = {butler, concierge}
  Jobs = {butlerJob, conciergeJob}
  DeviceOf <- MCDeviceOf
  JobOf <- MCJobOf
  ManagerOf <- MCManagerOf
  Expires <- MCExpires
  Stability <- MCStability
  Override <- MCOverride
  LruSize = 1
  MaxTime = 2
  Closable = {butler}
INVARIANTS
  DeliveryTypeOK
  OneAnnouncementPerDevice
  NothingLeaks
PROPERTIES
  PlaybackStartsEntitled
  LeaseLossSilences
