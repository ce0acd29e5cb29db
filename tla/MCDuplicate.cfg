SPECIFICATION FlowSpec
CONSTANTS
  one = one
  another = another
  Manual = {one, another}
  Discovered = {}
  Concurrent = TRUE
INVARIANTS
  EndpointsAreUnique
CHECK_DEADLOCK FALSE
