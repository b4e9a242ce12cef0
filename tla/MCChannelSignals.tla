-------------------------- MODULE MCChannelSignals --------------------------
(***************************************************************************)
(* An instance of ChannelSignals; calls, and channels, are alike.          *)
(***************************************************************************)
EXTENDS ChannelSignals, TLC

Alike == Permutations(Calls) \cup Permutations(Channels)
==============================================================================
