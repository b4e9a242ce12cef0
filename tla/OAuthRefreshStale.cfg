CHECK_DEADLOCK FALSE
\* Nothing fails.
CONSTANTS
  Scanner = scan
  Relays = {r1}
  FaultKinds = {}
  MaxFaults = 0
  Manners = {"coded"}
  MaxTokens = 2
SPECIFICATION Spec
INVARIANT RevokedIsUnrecoverable
