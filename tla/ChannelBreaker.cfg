\* Threshold 3 in a window of 2 ticks; the lease outlives the open period, as
\* in the code (2 min against 30 s), so a probe can still be in flight when the
\* channel has tripped and cooled again.
CONSTANTS
  FailThreshold = 3
  FailWindow = 2
  OpenDuration = 2
  ProbeTimeout = 3
  Holders = {r1, r2, r3}
  NoProbe = NoProbe
SPECIFICATION ChFairSpec
INVARIANTS
  TypeOK
  BreakerInv
PROPERTIES
  ProbeSpacing
  RefinesCircuit
  NeverStuck
