--------------------------- MODULE ChannelSignals ---------------------------
(***************************************************************************)
(* What the relay writes down about its channels beside the answers: the   *)
(* usage snapshot of an OAuth channel and the diagnostics of failed        *)
(* requests.  The two share the clock and the process, which may restart.  *)
(***************************************************************************)
EXTENDS QuotaSnapshot, Diagnostics

CONSTANT MaxRestarts

VARIABLE restarts

cvars == <<svars, dvars, restarts>>

SignalsInit == SInit /\ DInit /\ restarts = 0

Tick == STick /\ DTick /\ UNCHANGED restarts

Restart ==
  /\ restarts < MaxRestarts /\ restarts' = restarts + 1
  /\ SRestart /\ DRestart

SignalsNext ==
  \/ SNext /\ UNCHANGED <<dvars, restarts>>
  \/ DNext /\ UNCHANGED <<svars, restarts>>
  \/ Tick
  \/ Restart

SignalsSpec == SignalsInit /\ [][SignalsNext]_cvars
==============================================================================
