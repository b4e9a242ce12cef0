------------------------------- MODULE Breaker -------------------------------
(***************************************************************************)
(* The circuit breaker of one channel (internal/relay/state.go) as pure    *)
(* operators on its record, one per method of State.  Every method runs    *)
(* under the State's mutex, so a method is one operator and a call of it   *)
(* is one step.                                                            *)
(*                                                                         *)
(* The code keeps instants and only ever reads their distance to now, so   *)
(* an instant is kept as its age in ticks, saturated just beyond the       *)
(* largest bound it is compared with.  The probe token, a fresh number in  *)
(* the code, is the request that holds it: a request asks a channel for a  *)
(* token at most once.                                                     *)
(***************************************************************************)
EXTENDS Integers, Sequences, FiniteSets

CONSTANTS
  FailThreshold,  \* failures inside the window that trip the breaker
  FailWindow,     \* length of the sliding window
  OpenDuration,   \* how long a tripped breaker stays open
  ProbeTimeout,   \* lease of a half-open probe
  Holders,        \* the requests that may hold a probe token
  NoProbe         \* no probe in flight (token 0)

ASSUME BreakerAssumption ==
  /\ FailThreshold \in Nat \ {0}
  /\ FailWindow \in Nat \ {0}
  /\ OpenDuration \in Nat \ {0}
  /\ ProbeTimeout \in Nat \ {0}
  /\ NoProbe \notin Holders

BreakerStates == {"closed", "open", "half-open"}

\* The record of one channel's State.
Channel ==
  [state    : BreakerStates,
   fails    : Seq(0..(FailWindow + 1)),   \* ages of the failures, oldest first
   openAge  : 0..OpenDuration,
   probe    : Holders \cup {NoProbe},
   probeAge : 0..ProbeTimeout]

\* Mutant: a State built without NewState(): its empty state string is neither
\* closed nor half-open, so Allow() refuses for ever.
ZeroState ==
  [state |-> "", fails |-> <<>>, openAge |-> 0,
   probe |-> NoProbe, probeAge |-> 0]

NewState ==
  [state |-> "closed", fails |-> <<>>, openAge |-> 0,
   probe |-> NoProbe, probeAge |-> 0]

ClearProbe(s) == [s EXCEPT !.probe = NoProbe, !.probeAge = 0]

------------------------------------------------------------------------------
(* Lazy transition and admission *)

\* Nothing moves an expired open breaker to half-open until somebody looks at it.
Transition(s) ==
  IF s.state = "open" /\ s.openAge >= OpenDuration
    THEN ClearProbe([s EXCEPT !.state = "half-open"])
    ELSE s

\* Mutant: an issued probe blocks the channel until it is returned, however long.
LeaseWithoutTimeout(s) == s.probe # NoProbe

LeaseLive(s) == s.probe # NoProbe /\ s.probeAge < ProbeTimeout

IssuesProbe(s) ==
  /\ Transition(s).state = "half-open"
  /\ ~LeaseLive(Transition(s))

Allows(s) == Transition(s).state = "closed" \/ IssuesProbe(s)

\* The record after Allow() was called on behalf of h, admitted or not.
Allow(s, h) ==
  IF IssuesProbe(s)
    THEN [Transition(s) EXCEPT !.probe = h, !.probeAge = 0]
    ELSE Transition(s)

------------------------------------------------------------------------------
(* Outcomes *)

\* Mutant: the token is not compared, so a late return frees another's probe.
ReleaseAny(s, h) == ClearProbe(s)

ReleaseOne(s, h) == IF s.probe = h THEN ClearProbe(s) ELSE s

Converge(s) == ClearProbe([s EXCEPT !.state = "closed", !.fails = <<>>])

OnSuccess(s) == Converge(s)

Reset(s) == Converge(s)

Trip(s) == ClearProbe([s EXCEPT !.state = "open", !.openAge = 0, !.fails = <<>>])

\* Mutant: a failure exactly FailWindow old is already dropped.
ExpiredEarly(fails) == {i \in DOMAIN fails : fails[i] >= FailWindow}

\* Failures ascend in time, so the expired ones are a prefix.
Expired(fails) == {i \in DOMAIN fails : fails[i] > FailWindow}

Trim(fails) == SubSeq(fails, Cardinality(Expired(fails)) + 1, Len(fails))

\* OnFailure judges the stored state: an open breaker past its time that nobody
\* looked at ignores the failure, one already moved to half-open trips again.
OnFailure(s) ==
  LET kept == Trim(Append(s.fails, 0)) IN
  CASE s.state = "half-open" -> Trip(s)
    [] s.state = "open"      -> s
    [] s.state = "closed"    -> IF Len(kept) >= FailThreshold
                                  THEN Trip(s)
                                  ELSE [s EXCEPT !.fails = kept]

------------------------------------------------------------------------------
(* A record the methods can reach: a probe is outstanding only while the      *)
(* breaker is half-open, a failure list only while it is closed, and then it  *)
(* is shorter than the threshold (no trip was missed).                        *)
WellShaped(s) ==
  /\ s.probe # NoProbe => s.state = "half-open"
  /\ s.state # "closed" => s.fails = <<>>
  /\ s.state = "closed" => Len(s.fails) < FailThreshold

------------------------------------------------------------------------------
(* What CircuitSpec reads off a record: the list of failures as the number of *)
(* failures at most k ticks old, the time since the trip while it is cut.     *)
Recent(fails) ==
  [k \in 0..FailWindow |-> Cardinality({i \in DOMAIN fails : fails[i] <= k})]

CutAge(s) == IF s.state = "closed" THEN 0 ELSE s.openAge

------------------------------------------------------------------------------
(* Time *)

Older(age, cap) == IF age < cap THEN age + 1 ELSE cap

\* One tick of the clock, as the record sees it.
Aged(s) ==
  [s EXCEPT !.fails    = [i \in DOMAIN s.fails |-> Older(s.fails[i], FailWindow + 1)],
            !.openAge  = Older(s.openAge, OpenDuration),
            !.probeAge = IF s.probe = NoProbe THEN 0 ELSE Older(s.probeAge, ProbeTimeout)]
==============================================================================
