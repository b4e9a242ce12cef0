----------------------------- MODULE CircuitSpec -----------------------------
(***************************************************************************)
(* What a channel's breaker promises, without its lazy bookkeeping: the    *)
(* channel either serves everybody or is cut.  It is cut only when         *)
(* FailThreshold failures fell into the last FailWindow ticks, stays cut   *)
(* at least OpenDuration unless a success or the operator restores it, and *)
(* while cut and cooled lends at most one probe per lease.                 *)
(*                                                                         *)
(* Failures are counted by age, and a failure is forgotten the very tick   *)
(* it leaves the window: a definition of "failures in the window" that     *)
(* shares nothing with the trimmed list of the code.                       *)
(***************************************************************************)
EXTENDS Integers

CONSTANTS FailThreshold, FailWindow, OpenDuration, ProbeTimeout, Holders, NoProbe

VARIABLES
  serving,   \* requests are admitted freely
  recent,    \* recent[k] = failures reported at most k ticks ago, k in the window
  cutAge,    \* ticks since the channel was cut, capped at OpenDuration
  lease,     \* the request holding the probe, or NoProbe
  leaseAge   \* ticks since it was lent, capped at ProbeTimeout

cvars == <<serving, recent, cutAge, lease, leaseAge>>

Quiet == [k \in 0..FailWindow |-> 0]
InWindow == recent[FailWindow]
Cooled == cutAge >= OpenDuration
Plus1(age, cap) == IF age < cap THEN age + 1 ELSE cap

CInit ==
  /\ serving = TRUE
  /\ recent = Quiet
  /\ cutAge = 0
  /\ lease = NoProbe
  /\ leaseAge = 0

Cut ==
  /\ serving' = FALSE
  /\ recent' = Quiet
  /\ cutAge' = 0
  /\ lease' = NoProbe
  /\ leaseAge' = 0

\* A failure the channel survives.
Tolerate ==
  /\ serving
  /\ InWindow + 1 < FailThreshold
  /\ recent' = [k \in 0..FailWindow |-> recent[k] + 1]
  /\ UNCHANGED <<serving, cutAge, lease, leaseAge>>

\* The failure that fills the window, or one after the cool-down.
CutOff ==
  /\ IF serving THEN InWindow + 1 >= FailThreshold ELSE Cooled
  /\ Cut

Restore ==
  /\ serving' = TRUE
  /\ recent' = Quiet
  /\ cutAge' = 0
  /\ lease' = NoProbe
  /\ leaseAge' = 0

Lend(h) ==
  /\ ~serving
  /\ Cooled
  /\ lease = NoProbe \/ leaseAge >= ProbeTimeout
  /\ lease' = h
  /\ leaseAge' = 0
  /\ UNCHANGED <<serving, recent, cutAge>>

GiveBack ==
  /\ lease # NoProbe
  /\ lease' = NoProbe
  /\ leaseAge' = 0
  /\ UNCHANGED <<serving, recent, cutAge>>

Pass ==
  /\ recent' = [k \in 0..FailWindow |-> IF k = 0 THEN 0 ELSE recent[k - 1]]
  /\ cutAge' = IF serving THEN 0 ELSE Plus1(cutAge, OpenDuration)
  /\ leaseAge' = IF lease = NoProbe THEN 0 ELSE Plus1(leaseAge, ProbeTimeout)
  /\ UNCHANGED <<serving, lease>>

CNext ==
  \/ Tolerate \/ CutOff \/ Restore \/ GiveBack \/ Pass
  \/ \E h \in Holders : Lend(h)

CSpec == CInit /\ [][CNext]_cvars
==============================================================================
