---------------------------- MODULE MCFlushPort ----------------------------
(***************************************************************************)
(* FlushPort for TLC: timeouts out of range on both sides, the two ends of *)
(* the range and one between two full seconds, on a clock of half seconds  *)
(* that is set back and forward by more than a second.                     *)
(***************************************************************************)
EXTENDS FlushPort

MCParams == {0, 500, 1600, 3000, 5000}

MCShifts == {-1500, 2000}

=============================================================================
