SPECIFICATION SignalsSpec
CONSTANTS
  Calls = {k1, k2}
  MinInterval = 2
  Timeout = 1
  MaxProbes = 2
  MaxMisses = 1
  Channels = {a, b}
  Cap = 1
  Minute = 2
  QueueSize = 1
  BatchSize = 2
  MaxDiags = 3
  MaxRestarts = 1
SYMMETRY Alike
INVARIANTS CreditsKept OneProbe Sampled Conserved
CHECK_DEADLOCK FALSE
