----------------------------- MODULE RateLimiter -----------------------------
(***************************************************************************)
(* The limits of one API key (internal/relay/ratelimit.go): two Redis      *)
(* counters, one per calendar minute and one of running requests, that the *)
(* requests of the gateway increment and decrement with separate commands. *)
(* A command that fails lets the request pass.                             *)
(*                                                                         *)
(* Redis itself is external: a command takes effect or not, and may report *)
(* an error in either case.  The client library sends a command again when *)
(* its reply was lost, so one call may take effect several times before it *)
(* returns.  A missing counter is a counter at 0.                          *)
(***************************************************************************)
EXTENDS Integers, FiniteSets

CONSTANTS
  Requests,
  RPMPerKey,          \* admissions per minute bucket
  ConcurrencyPerKey,  \* requests running at once
  FaultKinds,         \* which of Faults happen
  MaxFaults           \* bound on the number of each kind

\* "incr", "decr", "set": the command returns an error, with or without effect.
\* "lost": the command takes effect, its reply is lost and the client sends it again.
\* "hangup": the client leaves inside Check, whose commands use its context.
\* "crash": the gateway dies and its requests with it; Redis lives on.
Faults == {"incr", "decr", "set", "lost", "hangup", "crash"}

ASSUME LimiterAssumption ==
  /\ IsFiniteSet(Requests)
  /\ RPMPerKey \in Nat \ {0}
  /\ ConcurrencyPerKey \in Nat \ {0}
  /\ FaultKinds \subseteq Faults
  /\ MaxFaults \in Nat

VARIABLES
  rpm,     \* the current minute's bucket, capped just above RPMPerKey
  conc,    \* the counter of running requests
  ttl,     \* whether that key will expire
  pc,      \* where each request is
  gone,    \* requests whose client hung up inside Check: its context is cancelled
  faults   \* how many faults of each kind have happened

vars == <<rpm, conc, ttl, pc, gone, faults>>

\* over: counted, found itself beyond the limit;  healing: saw a negative counter
Places == {"idle", "counting", "over", "running", "healing"}

Init ==
  /\ rpm = 0
  /\ conc = 0
  /\ ttl = FALSE
  /\ pc = [r \in Requests |-> "idle"]
  /\ gone = {}
  /\ faults = [kind \in Faults |-> 0]

Goto(r, place) ==
  /\ pc' = [pc EXCEPT ![r] = place]
  /\ gone' = IF place = "idle" THEN gone \ {r} ELSE gone

Fault(kind) ==
  /\ kind \in FaultKinds
  /\ faults[kind] < MaxFaults
  /\ faults' = [faults EXCEPT ![kind] = @ + 1]

------------------------------------------------------------------------------
(* Check *)

Bump(n) == IF n <= RPMPerKey THEN n + 1 ELSE n

\* INCR of the minute's bucket; beyond RPMPerKey the answer is 429.
CountMinute(r) ==
  /\ pc[r] = "idle" /\ r \notin gone
  /\ rpm' = Bump(rpm)
  /\ IF Bump(rpm) > RPMPerKey THEN UNCHANGED <<pc, gone>> ELSE Goto(r, "counting")
  /\ UNCHANGED <<conc, ttl, faults>>

CountMinuteFails(r) ==
  /\ pc[r] = "idle"
  /\ \/ r \notin gone /\ Fault("incr") /\ rpm' \in {rpm, Bump(rpm)}
     \/ r \in gone /\ UNCHANGED <<rpm, faults>>
  /\ Goto(r, "counting")
  /\ UNCHANGED <<conc, ttl>>

\* Mutant: the request looks at the counter before it adds itself.
AdmitsBefore(n) == n - 1 <= ConcurrencyPerKey

Admits(n) == n <= ConcurrencyPerKey

\* INCR of the running requests.
CountRunning(r) ==
  /\ pc[r] = "counting" /\ r \notin gone
  /\ conc' = conc + 1
  /\ Goto(r, IF Admits(conc + 1) THEN "running" ELSE "over")
  /\ UNCHANGED <<rpm, ttl, faults>>

CountRunningFails(r) ==
  /\ pc[r] = "counting"
  /\ \/ r \notin gone /\ Fault("incr") /\ conc' \in {conc, conc + 1}
     \/ r \in gone /\ UNCHANGED <<conc, faults>>
  /\ Goto(r, "running")
  /\ UNCHANGED <<rpm, ttl>>

\* Mutant: the rejected request keeps its place in the counter.
UndoneForgets(n) == n

Undone(n) == n - 1

\* DECR of a request beyond the limit, then 429.
Undo(r) ==
  /\ pc[r] = "over" /\ r \notin gone
  /\ conc' = Undone(conc)
  /\ Goto(r, "idle")
  /\ UNCHANGED <<rpm, ttl, faults>>

UndoFails(r) ==
  /\ pc[r] = "over"
  /\ \/ r \notin gone /\ Fault("decr") /\ conc' \in {conc, conc - 1}
     \/ r \in gone /\ UNCHANGED <<conc, faults>>
  /\ Goto(r, "idle")
  /\ UNCHANGED <<rpm, ttl>>

------------------------------------------------------------------------------
(* release, with a context of its own *)

Release(r) ==
  /\ pc[r] = "running"
  /\ conc' = conc - 1
  /\ Goto(r, IF conc - 1 < 0 THEN "healing" ELSE "idle")
  /\ UNCHANGED <<rpm, ttl, faults>>

ReleaseFails(r) ==
  /\ pc[r] = "running"
  /\ Fault("decr")
  /\ conc' \in {conc, conc - 1}
  /\ Goto(r, "idle")
  /\ UNCHANGED <<rpm, ttl>>

\* SET 0 with a minute to live, whatever has been counted since the DECR.
Heal(r) ==
  /\ pc[r] = "healing"
  /\ conc' = 0
  /\ ttl' = TRUE
  /\ Goto(r, "idle")
  /\ UNCHANGED <<rpm, faults>>

HealFails(r) ==
  /\ pc[r] = "healing"
  /\ Fault("set")
  /\ Goto(r, "idle")
  /\ UNCHANGED <<rpm, conc, ttl>>

------------------------------------------------------------------------------
(* Redis and the process *)

\* The command a request waits for took effect, its reply was lost, and go-redis
\* sends it again: the request is where it was.  A cancelled context stops that.
Resent(r) ==
  /\ r \in gone => pc[r] \in {"running", "healing"}
  /\ Fault("lost")
  /\ \/ pc[r] = "idle" /\ rpm' = Bump(rpm) /\ UNCHANGED <<conc, ttl>>
     \/ pc[r] = "counting" /\ conc' = conc + 1 /\ UNCHANGED <<rpm, ttl>>
     \/ pc[r] = "over" /\ conc' = Undone(conc) /\ UNCHANGED <<rpm, ttl>>
     \/ pc[r] = "running" /\ conc' = conc - 1 /\ UNCHANGED <<rpm, ttl>>
     \/ pc[r] = "healing" /\ conc' = 0 /\ ttl' = TRUE /\ UNCHANGED rpm
  /\ UNCHANGED <<pc, gone>>

NewMinute ==
  /\ rpm' = 0
  /\ UNCHANGED <<conc, ttl, pc, gone, faults>>

\* A cancelled context makes every later command of Check fail before it is sent.
HangUp(r) ==
  /\ pc[r] \in {"idle", "counting", "over"} /\ r \notin gone
  /\ Fault("hangup")
  /\ gone' = gone \cup {r}
  /\ UNCHANGED <<rpm, conc, ttl, pc>>

Expire ==
  /\ ttl
  /\ conc' = 0
  /\ ttl' = FALSE
  /\ UNCHANGED <<rpm, pc, gone, faults>>

Crash ==
  /\ Fault("crash")
  /\ pc' = [r \in Requests |-> "idle"]
  /\ gone' = {}
  /\ UNCHANGED <<rpm, conc, ttl>>

Request(r) ==
  \/ CountMinute(r) \/ CountRunning(r) \/ Undo(r) \/ Release(r) \/ Heal(r)

Failure(r) ==
  \/ CountMinuteFails(r) \/ CountRunningFails(r) \/ UndoFails(r) \/ ReleaseFails(r)
  \/ HealFails(r) \/ Resent(r) \/ HangUp(r)

Next ==
  \/ \E r \in Requests : Request(r) \/ Failure(r)
  \/ NewMinute \/ Expire \/ Crash

Spec == Init /\ [][Next]_vars

------------------------------------------------------------------------------
(* Properties *)

Running == {r \in Requests : pc[r] = "running"}
Counted == {r \in Requests : pc[r] \in {"running", "over"}}

Faultless == \A kind \in Faults : faults[kind] = 0

\* While nothing has failed the counter is exact, requests that found themselves
\* beyond the limit included, so the cap holds however the INCRs and DECRs of the
\* requests interleave.
CapHeld ==
  Faultless =>
    /\ conc = Cardinality(Counted)
    /\ Cardinality(Running) <= ConcurrencyPerKey

\* A crash apart, what the counter keeps beyond the requests that will still
\* decrement it is at most one place per failed DECR, per lost reply and per client
\* that hung up inside Check.  Failed INCRs and failed healings cost the key no place
\* at all: what was admitted unseen drives the counter down, and the SET of the
\* healing may run while others count themselves (ratelimit.go:57-72).  A place that is
\* kept is gone for good, for the counter has no TTL of its own: ratelimit.go:13, that the
\* limits must not shut users out, holds but for these faults and crashes.
BoundedLeak ==
  faults["crash"] = 0 =>
    conc <= Cardinality(Counted) + faults["decr"] + faults["lost"] + faults["hangup"]
==============================================================================
