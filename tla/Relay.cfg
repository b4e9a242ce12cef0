\* Threshold 2 and a window of one tick: one request cannot trip a channel alone.
CONSTANTS
  FailThreshold = 2
  FailWindow = 1
  OpenDuration = 1
  ProbeTimeout = 1
  Holders = {r1, r2}
  NoProbe = NoProbe
  steady = steady
  flaky = flaky
  Channels = {steady, flaky}
  Checked = {steady, flaky}
  Priority <- MCPriority
  Faults <- MCFaults
  Upstream <- MCUpstream
SPECIFICATION Spec
INVARIANTS
  ProbesAccounted
  OneResponse
  HealthyStaysClosed
PROPERTIES
  FlakyKeepsPromise
