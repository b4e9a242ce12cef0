--------------------------- MODULE QuotaSnapshot ---------------------------
(***************************************************************************)
(* The usage snapshot of one OAuth channel (internal/quota/sync.go and     *)
(* op/quota.go): probes of the provider on the user's demand, and          *)
(* observations of the headers of forwarded answers, which are merged into *)
(* the snapshot in goroutines of their own.  The clock is of module        *)
(* ChannelSignals.                                                         *)
(***************************************************************************)
EXTENDS Integers

CONSTANTS
  Calls,        \* refreshes and observations that may run at once
  MinInterval,  \* between two probes, in ticks (30 s)
  Timeout,      \* of a probe, in ticks (15 s)
  MaxProbes,    \* bound on the probes answered
  MaxMisses     \* bound on the reads of the snapshot that fail

ASSUME SnapshotAssumption == MinInterval \in Nat /\ Timeout \in Nat /\ Timeout < MinInterval

VARIABLES
  row,      \* the snapshot: none, ok or error; the probe its credits are from, 0 for none
  attempt,  \* age of lastAttempt, at most MinInterval; unset counts as old
  call,     \* pc, the age of a probe, the credits at hand
  probes,   \* probes answered
  probed,   \* ghosts: the one stored last,
  passed,   \* and whether a merge begun before it has been written after it
  misses

svars == <<row, attempt, call, probes, probed, passed, misses>>

Silent == [pc |-> "idle", age |-> 0, credits |-> 0, late |-> FALSE]

SInit ==
  /\ row = [status |-> "none", credits |-> 0]
  /\ attempt = MinInterval
  /\ call = [k \in Calls |-> Silent]
  /\ probes = 0 /\ probed = 0 /\ passed = FALSE /\ misses = 0

Move(k, c) == call' = [call EXCEPT ![k] = c]
Exists == row.status # "none"

\* Mutant: the attempt is not recorded.
Unreserved == attempt

Reserved == 0

\* RefreshProvider: a call within MinInterval of the last is answered from the table,
\* any other takes the interval under the lock, and probes.
RefreshProvider(k) ==
  /\ call[k].pc = "idle" /\ attempt >= MinInterval
  /\ attempt' = Reserved
  /\ Move(k, [Silent EXCEPT !.pc = "probe"])
  /\ UNCHANGED <<row, probes, probed, passed, misses>>

ProbeAnswered(k) ==
  /\ call[k].pc = "probe" /\ probes < MaxProbes
  /\ probes' = probes + 1
  /\ Move(k, [Silent EXCEPT !.pc = "store", !.credits = probes + 1])
  /\ UNCHANGED <<row, attempt, probed, passed, misses>>

\* No token, no proxy, refused, or out of time.
ProbeFails(k) ==
  /\ call[k].pc = "probe"
  /\ Move(k, [Silent EXCEPT !.pc = "mark"])
  /\ UNCHANGED <<row, attempt, probes, probed, passed, misses>>

\* UpsertQuotaSnapshot replaces the whole row.
Store(k) ==
  /\ call[k].pc = "store"
  /\ row' = [status |-> "ok", credits |-> call[k].credits]
  /\ probed' = call[k].credits /\ passed' = FALSE
  /\ call' = [j \in Calls |-> IF j = k THEN Silent
                              ELSE [call[j] EXCEPT !.late = call[j].pc = "merge"]]
  /\ UNCHANGED <<attempt, probes, misses>>

\* Mutant: the error takes the row's place.
MarkedAnew == [status |-> "error", credits |-> 0]

Marked == [row EXCEPT !.status = "error"]

\* MarkQuotaSnapshotError updates the status of the row, or else creates one.
Mark(k) ==
  /\ call[k].pc = "mark"
  /\ IF Exists THEN row' = Marked /\ Move(k, Silent)
               ELSE Move(k, [Silent EXCEPT !.pc = "create"]) /\ UNCHANGED row
  /\ UNCHANGED <<attempt, probes, probed, passed, misses>>

\* By now a row may be there, and the unique index refuses a second one.
Create(k) ==
  /\ call[k].pc = "create"
  /\ row' = IF Exists THEN row ELSE [status |-> "error", credits |-> 0]
  /\ Move(k, Silent)
  /\ UNCHANGED <<attempt, probes, probed, passed, misses>>

\* Mutant: a row that cannot be read counts as none.
GoesOnAlways(failed) == TRUE

GoesOn(failed) == ~failed

\* mergeObservation reads the row for the credits, which the headers do not have.
Observe(k) ==
  /\ call[k].pc = "idle"
  /\ \E failed \in BOOLEAN :
       /\ failed => misses < MaxMisses
       /\ misses' = IF failed THEN misses + 1 ELSE misses
       /\ Move(k, IF GoesOn(failed)
                     THEN [Silent EXCEPT !.pc = "merge",
                                         !.credits = IF failed THEN 0 ELSE row.credits]
                     ELSE Silent)
  /\ UNCHANGED <<row, attempt, probes, probed, passed>>

Merge(k) ==
  /\ call[k].pc = "merge"
  /\ row' = [status |-> "ok", credits |-> call[k].credits]
  /\ passed' = (passed \/ call[k].late)
  /\ Move(k, Silent)
  /\ UNCHANGED <<attempt, probes, probed, misses>>

\* Time for the calls and the attempt; a probe does not outlast its timeout.
InTime == \A k \in Calls : call[k].age < Timeout \/ call[k].pc # "probe"

STick ==
  /\ InTime
  /\ attempt' = IF attempt < MinInterval THEN attempt + 1 ELSE attempt
  /\ call' = [k \in Calls |-> IF call[k].pc = "probe" THEN [call[k] EXCEPT !.age = @ + 1]
                                                      ELSE call[k]]
  /\ UNCHANGED <<row, probes, probed, passed, misses>>

SRestart ==
  /\ attempt' = MinInterval /\ call' = [k \in Calls |-> Silent]
  /\ UNCHANGED <<row, probes, probed, passed, misses>>

SNext ==
  \E k \in Calls :
    \/ RefreshProvider(k) \/ ProbeAnswered(k) \/ ProbeFails(k) \/ Store(k)
    \/ Mark(k) \/ Create(k) \/ Observe(k) \/ Merge(k)

------------------------------------------------------------------------------
(* Properties *)

\* The credits shown are those of the last probe stored, whatever observations and
\* failures came between, but for a merge that had read the row before that probe was
\* stored and is written after it (sync.go:100-102).
CreditsKept == row.credits = probed \/ passed

\* The provider is not asked about a channel twice at once, however many refreshes the
\* user sends: the interval is taken before the probe and is longer than its timeout
\* (sync.go:68-75).
OneProbe == \A j, k \in Calls : call[j].pc = "probe" /\ call[k].pc = "probe" => j = k
==============================================================================
