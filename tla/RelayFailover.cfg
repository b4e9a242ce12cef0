\* Two requests share the breaker of the failing channel: with a threshold of one each
\* failure of the one opens the circuit under the other, or ends its probe.  The channel
\* after it fails as well and is not checked.
CONSTANTS
  FailThreshold = 1
  FailWindow = 1
  OpenDuration = 1
  ProbeTimeout = 1
  Holders = {r1, r2}
  NoProbe = NoProbe
  steady = steady
  flaky = flaky
  Channels = {flaky, plain}
  Checked = {flaky}
  Priority <- MCPriority
  Faults <- MCFaults
  Upstream <- MCEffects
SPECIFICATION FairSpec
PROPERTIES
  Terminates
