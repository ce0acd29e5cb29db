SPECIFICATION DeliverySafety
CONSTANTS
  first = first
  retry = retry
  other = other
  butler = butler
  kitchen = kitchen
  speaker = speaker
  job = job
  otherJob = otherJob
  None = None
  Attempts = {first, retry, other}
  Devices = {kitchen}
  Entities = {speaker}
  Managers = {butler}
  Jobs = {job, otherJob}
  DeviceOf <- MCDeviceOf
  JobOf <- MCJobOf
  ManagerOf <- MCManagerOf
  Expires <- MCExpires
  Stability <- MCStability
  Override <- MCOverride
  LruSize = 1
  MaxTime = 1
  Closable = {butler}
INVARIANTS
  EveryOfferHasAWorker
PROPERTIES
  KeepsThePromise
  NoRepeatedAnnouncement
