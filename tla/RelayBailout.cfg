\* The steady channel is an OAuth channel whose token is refreshed on the way.
CONSTANTS
  FailThreshold = 2
  FailWindow = 1
  OpenDuration = 1
  ProbeTimeout = 1
  Holders = {r1, r2}
  NoProbe = NoProbe
  steady = steady
  flaky = flaky
  Channels = {steady, flaky}
  Checked = {steady, flaky}
  Priority <- MCPriority
  Faults <- MCBailout
  Upstream <- MCUpstream
SPECIFICATION Spec
INVARIANTS
  HealthyStaysClosed
