-------------------------- MODULE MCStandstillBias --------------------------
(***************************************************************************)
(* StandstillBias for TLC: a window of two magnitudes, a queue of two      *)
(* messages and a hold of three ticks, longer than either, so that a       *)
(* change can leave the window and the queue within the hold.              *)
(***************************************************************************)
EXTENDS StandstillBias

MCLevels == {"rest", "turn"}

=============================================================================
