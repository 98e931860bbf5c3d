---------------------------- MODULE FrameLedger ----------------------------
(***************************************************************************)
(* What a subscriber of the AdiImu topic is promised about the three       *)
(* counters of a message (msg/AdiImu.msg): imu_count is the position of    *)
(* the frame in the numbering of the capture, driver_count advances by one *)
(* per published frame, and drop_count is every frame that was lost        *)
(* between them.  A capture may be stopped and started again; drop_count   *)
(* then keeps the value it has until the losses of the new capture exceed  *)
(* it.  No 16-bit counter, rollover or modular arithmetic appears here.    *)
(***************************************************************************)
EXTENDS Naturals

CONSTANTS NoMsg,      \* nothing published yet
          FirstCount  \* the frame numbers a stream may begin with

VARIABLES pub,          \* the last published message
          outstanding,  \* frames lost since the last published one
          missed,       \* losses of this capture that were reported
          published,    \* messages of this capture
          carried       \* drop_count when the capture was started

ledgerVars == <<pub, outstanding, missed, published, carried>>

Init ==
  /\ pub = NoMsg
  /\ outstanding = 0 /\ missed = 0 /\ published = 0 /\ carried = 0

\* A frame is lost on its way: it will be reported with the next good one.
Lose ==
  /\ published > 0
  /\ outstanding' = outstanding + 1
  /\ UNCHANGED <<pub, missed, published, carried>>

\* A capture is numbered from its first frame; one that began with frame 0 may
\* be numbered again from its second frame.
Anchor ==
  /\ published = 0 \/ pub.driver = 0
  /\ \E c \in FirstCount : pub' = [imu |-> c, driver |-> c, drop |-> carried]
  /\ outstanding' = 0 /\ missed' = 0 /\ published' = 1
  /\ UNCHANGED carried

\* A frame is published: the frames lost before it are reported, all of them.
Publish ==
  /\ published > 0
  /\ missed' = missed + outstanding
  /\ pub' = [imu    |-> pub.imu + outstanding + 1,
             driver |-> pub.driver + 1,
             drop   |-> IF missed' > carried THEN missed' ELSE carried]
  /\ outstanding' = 0 /\ published' = published + 1
  /\ UNCHANGED carried

\* The capture is stopped and started again.
Restart ==
  /\ carried' = IF pub = NoMsg THEN 0 ELSE pub.drop
  /\ outstanding' = 0 /\ missed' = 0 /\ published' = 0
  /\ UNCHANGED pub

Next == Lose \/ Anchor \/ Publish \/ Restart

Spec == Init /\ [][Next]_ledgerVars

=============================================================================
