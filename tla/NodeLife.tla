------------------------------ MODULE NodeLife ------------------------------
(***************************************************************************)
(* What those around the driver node may rely on, whatever fails: the      *)
(* clients of its services, and the board, whose capture the node starts   *)
(* and stops.  A node starts, serves in one of two modes, and ends; it     *)
(* never changes the mode it serves in and never comes back.  Its services *)
(* are there for as long as it serves, unless ROS is shut down from        *)
(* outside, and all go at once.  It touches the capture only while it      *)
(* streams and when it ends, leaves it off only after a failure, and never *)
(* touches it again after the end.  Calls, callbacks, ports and the        *)
(* locations of main do not appear here.                                   *)
(***************************************************************************)

CONSTANTS Always,   \* services of every node
          Stream,   \* services that a streaming node may offer besides
          Recovery  \* services that a node in RECOVERY offers besides

VARIABLES
  phase,     \* "starting", "STREAMING", "RECOVERY", or "ended"
  services,  \* services that can be called
  capturing, \* the board's data capture is on
  trouble,   \* the library or the board has failed
  sigint,    \* the node was told to end
  killed,    \* ROS was shut down from outside
  valid      \* the parameters are fit for streaming

lifeVars == <<phase, services, capturing, trouble, sigint, killed, valid>>

Init ==
  /\ phase = "starting" /\ services = {}
  /\ capturing \in BOOLEAN /\ trouble = FALSE
  /\ sigint = FALSE /\ killed = FALSE /\ valid \in BOOLEAN

\* Something may fail in this step.
MayFail == trouble' \in {trouble, TRUE}

\* What is offered of these services.
Online(servs) == IF killed THEN {} ELSE servs

\* The start goes on, and services are there before all of it is done.
Prepare ==
  /\ phase = "starting"
  /\ services \subseteq services' /\ services' \subseteq Online(Always \cup Recovery)
  /\ MayFail
  /\ UNCHANGED <<phase, capturing, sigint, killed, valid>>

\* The start is done.
Serve ==
  /\ phase = "starting" /\ services \subseteq services'
  /\ \/ phase' = "STREAMING" /\ valid /\ services' \in {Online(Always), Online(Always \cup Stream)}
     \/ phase' = "RECOVERY" /\ services' = Online(Always \cup Recovery)
  /\ UNCHANGED <<capturing, trouble, sigint, killed, valid>>

\* A streaming node reads, or pauses the capture to do something else.
Capture ==
  /\ phase = "STREAMING"
  /\ MayFail
  /\ capturing' \/ trouble' \/ UNCHANGED capturing
  /\ UNCHANGED <<phase, services, sigint, killed, valid>>

\* A node in RECOVERY carries out a command, the capture is none of them.
Recover ==
  /\ phase = "RECOVERY"
  /\ MayFail
  /\ UNCHANGED <<phase, services, capturing, sigint, killed, valid>>

Signal ==
  /\ sigint' = TRUE
  /\ UNCHANGED <<phase, services, capturing, trouble, killed, valid>>

\* ROS is shut down: the services go, and the node is to follow.
Kill ==
  /\ killed' = TRUE /\ services' = {}
  /\ UNCHANGED <<phase, capturing, trouble, sigint, valid>>

\* Why a node may end.
Cause ==
  \/ phase = "starting" /\ (trouble' \/ ~valid)
  \/ phase = "STREAMING" /\ (sigint \/ killed \/ trouble)
  \/ phase = "RECOVERY" /\ (sigint \/ killed)

\* The node ends.
End ==
  /\ Cause
  /\ phase' = "ended" /\ services' = {}
  /\ MayFail
  /\ capturing' => capturing
  /\ phase = "STREAMING" => ~capturing' \/ trouble'
  /\ UNCHANGED <<sigint, killed, valid>>

Next == Prepare \/ Serve \/ Capture \/ Recover \/ Signal \/ Kill \/ End

Spec == Init /\ [][Next]_lifeVars

=============================================================================
