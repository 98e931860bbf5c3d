----------------------------- MODULE MCImuNode -----------------------------
(***************************************************************************)
(* ImuNode for TLC.  One IMU with and one without the bias correction      *)
(* command stand for the three products.                                   *)
(***************************************************************************)
EXTENDS ImuNode

MCProdIds == {16470, 16500}

=============================================================================
