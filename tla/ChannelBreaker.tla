---------------------------- MODULE ChannelBreaker ----------------------------
(***************************************************************************)
(* One channel's breaker used by concurrent requests.  A request asks for  *)
(* admission, works on the channel for as long as it likes, reports a      *)
(* success, a failure or nothing (a 4xx answer, a client that left), and   *)
(* returns its probe token much later: relayCore defers ReleaseOne to the  *)
(* end of the whole request, after it has tried further channels.  An      *)
(* administrator may reset the breaker or open the health page at any      *)
(* time, and time passes by itself.                                        *)
(***************************************************************************)
EXTENDS Breaker

VARIABLES
  ch,  \* the channel's breaker record
  at   \* the requests using the channel

chVars == <<ch, at>>

\* token:  the request was admitted as the half-open probe
\* since:  ticks since its admission, capped at ProbeTimeout
\* same:   no success, trip or reset has touched the breaker since its admission
Attempt ==
  [pc : {"idle", "working", "reported"}, token : BOOLEAN,
   since : 0..ProbeTimeout, same : BOOLEAN]

Away == [pc |-> "idle", token |-> FALSE, since |-> 0, same |-> FALSE]

ChInit ==
  /\ ch = NewState
  /\ at = [h \in Holders |-> Away]

------------------------------------------------------------------------------
(* The requests *)

Admit(h) ==
  /\ at[h].pc = "idle"
  /\ Allows(ch)
  /\ ch' = Allow(ch, h)
  /\ at' = [at EXCEPT ![h] = [pc |-> "working", token |-> IssuesProbe(ch),
                              since |-> 0, same |-> TRUE]]

\* "circuit open": the request moves on, the look may still open the half gate.
Deny(h) ==
  /\ at[h].pc = "idle"
  /\ ~Allows(ch)
  /\ ch' = Allow(ch, h)
  /\ UNCHANGED at

\* Everybody's history with the breaker ends when it closes or trips.
Forget(a) == [g \in Holders |-> [a[g] EXCEPT !.same = FALSE]]

Reported(h) == [at EXCEPT ![h].pc = "reported"]

Succeed(h) ==
  /\ at[h].pc = "working"
  /\ ch' = OnSuccess(ch)
  /\ at' = Forget(Reported(h))

Fail(h) ==
  /\ at[h].pc = "working"
  /\ ch' = OnFailure(ch)
  /\ at' = IF OnFailure(ch).state # ch.state \/ ch.state = "half-open"
             THEN Forget(Reported(h))
             ELSE Reported(h)

\* An outcome that says nothing about the channel.
Abstain(h) ==
  /\ at[h].pc = "working"
  /\ at' = Reported(h)
  /\ UNCHANGED ch

\* The deferred return of the token when the request is over.
Leave(h) ==
  /\ at[h].pc = "reported"
  /\ ch' = IF at[h].token THEN ReleaseOne(ch, h) ELSE ch
  /\ at' = [at EXCEPT ![h] = Away]

------------------------------------------------------------------------------
(* The operator, the health page and time *)

ResetByAdmin ==
  /\ ch' = Reset(ch)
  /\ at' = Forget(at)

\* Snapshot() moves an expired open breaker to half-open like Allow() does.
Inspect ==
  /\ ch' = Transition(ch)
  /\ UNCHANGED at

ChTick ==
  /\ ch' = Aged(ch)
  /\ at' = [h \in Holders |->
              IF at[h].pc = "idle" THEN at[h]
              ELSE [at[h] EXCEPT !.since = Older(@, ProbeTimeout)]]

Use(h) == Admit(h) \/ Deny(h) \/ Succeed(h) \/ Fail(h) \/ Abstain(h) \/ Leave(h)

ChNext ==
  \/ \E h \in Holders : Use(h)
  \/ ResetByAdmin \/ Inspect \/ ChTick

ChSpec == ChInit /\ [][ChNext]_chVars

\* Time never stops.  Nothing else is fair: a request may hang on its upstream.
ChFairSpec == ChSpec /\ WF_chVars(ChTick)

------------------------------------------------------------------------------
(* Properties *)

TypeOK ==
  /\ ch \in Channel
  /\ at \in [Holders -> Attempt]

\* The outstanding probe belongs to a request that is still there to return it,
\* and a probe the breaker has not converged since is the outstanding one, is
\* past its lease, or reported nothing wrong: its lease runs with the breaker's.
LeaseInv ==
  /\ ch.probe # NoProbe =>
       /\ at[ch.probe].pc # "idle"
       /\ at[ch.probe].token
       /\ at[ch.probe].same
  /\ \A h \in Holders :
       at[h].pc # "idle" /\ at[h].token /\ at[h].same =>
         \/ ch.probe = h /\ ch.probeAge = at[h].since
         \/ at[h].since = ProbeTimeout

\* No trip is missed, no probe outlives its half-open period, and the lease the
\* breaker counts is that of its holder: the invariant behind ProbeSpacing.
\* state.go:23-27 asks that a probe token is always returned, whatever path the
\* request takes.
BreakerInv == WellShaped(ch) /\ LeaseInv

\* A second probe is never issued inside the lease of a first one that is still
\* in flight, unless the breaker closed or tripped in between: late returns of
\* old tokens and hung requests do not let two requests test a sick channel at
\* once (state.go:117-118).
ProbeSpacing ==
  [][\A h \in Holders :
       (at[h].pc = "idle" /\ at'[h].pc = "working" /\ at'[h].token) =>
         \A g \in Holders \ {h} :
           (at[g].pc # "idle" /\ at[g].token /\ at[g].same) =>
             at[g].since = ProbeTimeout]_chVars

\* The channel keeps its promise CircuitSpec: cut exactly when the window fills,
\* for at least the cool-down, one leased probe at a time (state.go:16-27).
Circuit == INSTANCE CircuitSpec WITH
  serving  <- ch.state = "closed",
  recent   <- Recent(ch.fails),
  cutAge   <- CutAge(ch),
  lease    <- ch.probe,
  leaseAge <- ch.probeAge

RefinesCircuit == Circuit!CSpec

\* No channel is lost for good: again and again a request would be admitted,
\* even when the holder of a probe never comes back (state.go:25-27).
NeverStuck == []<>Allows(ch)
==============================================================================
