----------------------------- MODULE Diagnostics -----------------------------
(***************************************************************************)
(* The diagnostics of failed requests (internal/relay/reqerr.go,           *)
(* noteFailure in handler.go): sampled by channel and minute, queued, and  *)
(* stored in batches by one goroutine.  Diagnostics are numbered in the    *)
(* order they are recorded.  The clock is of module ChannelSignals.        *)
(***************************************************************************)
EXTENDS Integers, Sequences, FiniteSets, SequencesExt, FiniteSetsExt

CONSTANTS
  Channels,
  Cap,        \* maxErrorsPerProviderPerMinute
  Minute,     \* the sampling window, in ticks
  QueueSize, BatchSize,
  MaxDiags    \* bound on the diagnostics sampled

ASSUME DiagnosticsAssumption ==
  Cap \in Nat \ {0} /\ Minute \in Nat \ {0} /\ BatchSize \in Nat \ {0} /\ MaxDiags \in Nat

VARIABLES
  window,   \* age of winStart, at most Minute; unset counts as old
  count,    \* winCount
  queue, batch,
  flushing, \* the writer is in InsertRequestErrors
  stored,   \* how often each diagnostic is in request_errors
  recent,   \* ghosts: the diagnostics sampled within the last Minute, channel and age,
  lost      \* and those dropped, failed to be stored, or gone with the process

dvars == <<window, count, queue, batch, flushing, stored, recent, lost>>

None == [c \in Channels |-> 0]

DInit ==
  /\ window = Minute /\ count = None
  /\ queue = <<>> /\ batch = <<>> /\ flushing = FALSE
  /\ stored = <<>>
  /\ recent = {}
  /\ lost = {}

Fresh == window >= Minute

Noted(c) == IF Fresh THEN 0 ELSE count[c]

Allows(c) == Noted(c) < Cap

\* Mutant: the start of the window is not moved.
StartKept == window

Start == IF Fresh THEN 0 ELSE window

\* allow, and the diagnostic goes on the queue or, if it is full, is dropped.
Record(c) ==
  LET d == Len(stored) + 1 IN
  /\ d <= MaxDiags /\ Allows(c)
  /\ window' = Start
  /\ count' = [(IF Fresh THEN None ELSE count) EXCEPT ![c] = @ + 1]
  /\ recent' = recent \cup {[diag |-> d, chan |-> c, age |-> 0]}
  /\ stored' = Append(stored, 0)
  /\ IF Len(queue) < QueueSize THEN queue' = Append(queue, d) /\ UNCHANGED lost
                               ELSE lost' = lost \cup {d} /\ UNCHANGED queue
  /\ UNCHANGED <<batch, flushing>>

\* run: one diagnostic from the queue, and a full batch is flushed.
Take ==
  /\ ~flushing /\ queue # <<>>
  /\ queue' = Tail(queue) /\ batch' = Append(batch, Head(queue))
  /\ flushing' = (Len(batch') >= BatchSize)
  /\ UNCHANGED <<window, count, stored, recent, lost>>

Ticker ==
  /\ ~flushing /\ batch # <<>>
  /\ flushing' = TRUE
  /\ UNCHANGED <<window, count, queue, batch, stored, recent, lost>>

\* Mutant: a batch that failed is tried again, in part stored already.
LeftAfterRetry(failed) == IF failed THEN batch ELSE <<>>

\* The batch is given up when it could not be stored.
LeftAfter(failed) == <<>>

Flush ==
  /\ flushing
  /\ \E failed \in BOOLEAN :
       /\ batch' = LeftAfter(failed)
       /\ stored' = IF failed THEN stored
                    ELSE [d \in DOMAIN stored |-> IF Contains(batch, d) THEN stored[d] + 1
                                                                        ELSE stored[d]]
       /\ lost' = IF failed THEN lost \cup ToSet(batch) ELSE lost
  /\ flushing' = FALSE
  /\ UNCHANGED <<window, count, queue, recent>>

DTick ==
  /\ window' = IF Fresh THEN window ELSE window + 1
  /\ recent' = {[r EXCEPT !.age = @ + 1] : r \in {s \in recent : s.age + 1 < Minute}}
  /\ UNCHANGED <<count, queue, batch, flushing, stored, lost>>

\* Nobody calls ErrorWriter.Stop: what the writer holds goes with the process.
DRestart ==
  /\ window' = Minute /\ count' = None
  /\ lost' = lost \cup ToSet(queue) \cup ToSet(batch)
  /\ queue' = <<>> /\ batch' = <<>> /\ flushing' = FALSE
  /\ recent' = {}
  /\ UNCHANGED stored

DNext == (\E c \in Channels : Record(c)) \/ Take \/ Ticker \/ Flush

------------------------------------------------------------------------------
(* Properties *)

Recent(c) == Cardinality({r \in recent : r.chan = c})

\* The windows are turned when the next failure comes, and are those of all channels:
\* even so no channel has more than two windows' samples within a minute, and one that
\* has had less than a window's is heard whatever the others do (reqerr.go:208-222).
Sampled == \A c \in Channels : Recent(c) <= 2 * Cap /\ (Recent(c) < Cap => Allows(c))

\* A diagnostic that was sampled is in one place: on its way, stored once, or lost by a
\* full queue, a failed insert or the end of the process (reqerr.go:224-272).
Where(s, d) == {i \in DOMAIN s : s[i] = d}

Conserved ==
  \A d \in DOMAIN stored :
    stored[d] + Cardinality(Where(queue, d)) + Cardinality(Where(batch, d))
              + (IF d \in lost THEN 1 ELSE 0) = 1
==============================================================================
