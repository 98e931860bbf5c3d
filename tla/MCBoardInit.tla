---------------------------- MODULE MCBoardInit ----------------------------
(***************************************************************************)
(* BoardInit for TLC: as many failing calls as recoverBoard makes attempts *)
(* and one more, so that the last attempt can be the one that works and    *)
(* all of them can fail.  The status begins with none of its bits, with    *)
(* each of them alone, with all, or with all that are no errors.           *)
(***************************************************************************)
EXTENDS BoardInit

MCFirstStatus ==
  {{b} : b \in StatusBits} \cup {{}, Infos \cup Warnings, StatusBits}

MCNewBits == {"TEMP_WARNING", "OVERRUN", "WATCHDOG"}

=============================================================================
