SPECIFICATION FairSpec
CONSTANTS
  Channels = {c1}
  Requests = {r1, r2}
  MaxFlows = 2
  MaxFaults = 1
INVARIANTS EnabledIsAuthorised StopKept FlowIsOver
PROPERTIES Authorised
CHECK_DEADLOCK FALSE
