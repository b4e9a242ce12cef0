\* One place for three requests; each kind of fault at most once.
CONSTANTS
  Requests = {r1, r2, r3}
  RPMPerKey = 3
  ConcurrencyPerKey = 1
  FaultKinds = {"incr", "decr", "set", "lost", "hangup", "crash"}
  MaxFaults = 1
SPECIFICATION Spec
INVARIANTS
  CapHeld
  BoundedLeak
