------------------------------- MODULE MCRelay -------------------------------
(***************************************************************************)
(* Channels: steady answers every call, flaky fails in every way; both have*)
(* the same priority, any other channel comes after them and is not        *)
(* healthy either.  MCFaults gives the others unusable settings, MCBailout *)
(* gives steady an OAuth token to refresh on the way.                      *)
(***************************************************************************)
EXTENDS Relay

CONSTANTS steady, flaky

MCPriority == [c \in Channels |-> IF c \in {steady, flaky} THEN 1 ELSE 0]
MCFaults == [c \in Channels |-> IF c = steady THEN {} ELSE {"settings"}]
MCBailout == [c \in Channels |-> IF c = steady THEN {"refresh"} ELSE {}]
MCUpstream ==
  [c \in Channels |->
     IF c = steady THEN {"rejected"}
     ELSE {"refused", "rejected", "overloaded", "peeked", "inband", "cut"}]

\* One error of each effect on the loop: blamed or not, answered or final.
MCEffects ==
  [c \in Channels |-> IF c = steady THEN {"rejected"} ELSE {"refused", "rejected", "cut"}]

\* The circuit of the failing channel, as the requests and the clock move it.
FlakyCircuit == INSTANCE CircuitSpec WITH
  serving  <- breaker[flaky].state = "closed",
  recent   <- Recent(breaker[flaky].fails),
  cutAge   <- CutAge(breaker[flaky]),
  lease    <- breaker[flaky].probe,
  leaseAge <- breaker[flaky].probeAge

\* The failing channel keeps the promise CircuitSpec under the requests relayCore
\* really makes: admissions, blame, success and late returns of its tokens.
FlakyKeepsPromise == FlakyCircuit!CSpec
==============================================================================
