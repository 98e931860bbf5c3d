--------------------------- MODULE MCDeviceConfig ---------------------------
(***************************************************************************)
(* DeviceConfig for TLC: the settings of the parameters the flow depends   *)
(* on, or one setting per product.  The two bias updates are switched      *)
(* together, and so are the PPS and the clock mode it is used with, and    *)
(* the burst count goes with both kinds of burst: the blocks do not depend *)
(* on each other.  1200 is a decimation that leaves a rate far from a      *)
(* whole number, 9999 one that leaves none.                                *)
(***************************************************************************)
EXTENDS DeviceConfig

MCAllOptions ==
  {o \in Option : /\ o.acclBias = o.gyroBias /\ o.sync = o.pps
                  /\ o.burst = IF o.pps THEN 4 ELSE IF o.imuBurst THEN 1 ELSE 0}

MCOneOption ==
  {o \in Option : /\ ~o.sync /\ ~o.biasCorr /\ ~o.acclBias /\ ~o.gyroBias
                  /\ ~o.scales /\ ~o.pps /\ o.imuBurst /\ o.msgValid /\ o.burst = 1}

=============================================================================
