SPECIFICATION EntrySpec
CONSTANTS
  butler = butler
  concierge = concierge
  manual = manual
  discovered = discovered
  old = old
  new = new
  Manual = {manual}
  Discovered = {discovered}
  Concurrent = FALSE
  Roles = {butler, concierge}
  Secrets = {old, new}
  MaxReloads = 2
INVARIANTS
  EntryTypeOK
  NothingSurvives
  RejectedAgentsAreHandled
  RunningConfigIsStored
PROPERTIES
  CatalogKeepsSettings
  RejectedAgentsRecover
CHECK_DEADLOCK FALSE
