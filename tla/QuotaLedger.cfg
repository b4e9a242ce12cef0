\* Two requests, a queue of one, three disturbances of any kind.
CONSTANTS
  Requests = {r1, r2}
  Limit = 2
  QueueSize = 1
  BatchSize = 2
  MaxSpent = 6
  Kinds = {"get", "setnx", "add", "del", "lost", "db", "flush", "evict", "crash", "edit", "reset"}
  MaxEvents = 3
  Absent = Absent
SPECIFICATION Spec
CHECK_DEADLOCK FALSE
INVARIANTS
  TypeOK
  LedgerExact
  NeverOvercharged
  SpendBounded
