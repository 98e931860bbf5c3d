-------------------------- MODULE MCFrameCounters --------------------------
(***************************************************************************)
(* Instances of FrameCounters for TLC: the 16-bit counter becomes a        *)
(* counter of 4 values and uint32_t a few bits, so that rollovers,         *)
(* wraps and gaps as long as the counter happen within a few frames.       *)
(***************************************************************************)
EXTENDS FrameCounters

=============================================================================
