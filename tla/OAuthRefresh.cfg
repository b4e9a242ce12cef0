\* The scan and two requests; two faults.  A revoked credential rests until the user
\* authorises it again, and one without an expiry is never due, so the system may stop.
CHECK_DEADLOCK FALSE
CONSTANTS
  Scanner = scan
  Relays = {r1, r2}
  FaultKinds = {"redis", "slow", "settings", "network", "db", "crash", "reauth"}
  MaxFaults = 2
  Manners = {"coded", "worded", "always"}
  MaxTokens = 2
SPECIFICATION FairSpec
INVARIANTS
  MutualExclusion
  TokenNeverLost
PROPERTIES
  DueIsTried
  DueIsHandled
