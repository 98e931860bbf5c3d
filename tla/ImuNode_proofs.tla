--------------------------- MODULE ImuNode_proofs ---------------------------
(***************************************************************************)
(* Proofs about ImuNode: the safety of the process for every choice of     *)
(* products, every order of timer, services and SIGINT, and every failure. *)
(***************************************************************************)
EXTENDS ImuNode, FiniteSetTheorems, TLAPS

\* TypeOK in three parts: the Boolean variables, the locations and modes, and
\* the sets of callbacks.
Flags ==
  /\ msgValid \in BOOLEAN /\ alive \in BOOLEAN /\ rosOk \in BOOLEAN
  /\ killed \in BOOLEAN /\ sigint \in BOOLEAN
  /\ readOk \in BOOLEAN /\ firstRead \in BOOLEAN
  /\ timer \in BOOLEAN /\ uart \in BOOLEAN /\ capturing \in BOOLEAN
  /\ trouble \in BOOLEAN /\ stopFailed \in BOOLEAN

Places == prodId \in ProdIds /\ pc \in Locations /\ mode \in Modes /\ bufMode \in Modes

Offers == services \subseteq Services /\ batch \subseteq Services \cup {"timer"}

\* What every callback leaves alone, and where it may lead.
LEMMA CallbackFrame ==
  ASSUME Callback
  PROVE  /\ pc = "spin" /\ pc' \in {"loop", "spin"}
         /\ batch' \subseteq batch
         /\ UNCHANGED <<config, mode, bufMode, process, sigint, uart, stopFailed>>
<1>1. ASSUME NEW cb, Called(cb), Return(cb)
      PROVE  /\ pc = "spin" /\ pc' \in {"loop", "spin"}
             /\ batch' \subseteq batch
             /\ UNCHANGED <<config, mode, bufMode, process, sigint, uart, stopFailed>>
  BY <1>1 DEF Called, Return
<1> QED BY <1>1 DEF Callback, ReadPubData, GetBufferStatus, TriggerBias,
           TriggerRefused, RecoveryCommand

\* The library's answers leave the capture on or off.
LEMMA CallbackFlags ==
  ASSUME Flags, Callback
  PROVE  /\ readOk' \in BOOLEAN /\ firstRead' \in BOOLEAN
         /\ capturing' \in BOOLEAN /\ trouble' \in BOOLEAN
<1> USE DEF Flags, Paused, StopsTo, StartsTo, reading
<1>1. CASE ReadPubData
  BY <1>1, Zenon DEF ReadPubData
<1>2. CASE GetBufferStatus
  BY <1>2, Zenon DEF GetBufferStatus
<1>3. CASE TriggerBias
  BY <1>3, Zenon DEF TriggerBias
<1>4. CASE TriggerRefused
  BY <1>4, Zenon DEF TriggerRefused
<1>5. ASSUME NEW srv \in RecoveryServices, RecoveryCommand(srv)
      PROVE  /\ readOk' \in BOOLEAN /\ firstRead' \in BOOLEAN
             /\ capturing' \in BOOLEAN /\ trouble' \in BOOLEAN
  BY <1>5, Zenon DEF RecoveryCommand
<1> QED BY <1>1, <1>2, <1>3, <1>4, <1>5, Zenon DEF Callback

\* The process starts within the types.
LEMMA InitTypes == Init => Flags /\ Places /\ Offers
<1> SUFFICES ASSUME Init PROVE Flags /\ Places /\ Offers
  OBVIOUS
<1>1. Flags
  BY Zenon DEF Init, Flags
<1>2. Places
  BY DEF Init, Places, Locations, Modes
<1>3. Offers
  BY DEF Init, Offers
<1> QED BY <1>1, <1>2, <1>3

\* Every step keeps the Boolean variables Boolean.
LEMMA NextFlags == Flags /\ [Next]_vars => Flags'
<1> SUFFICES ASSUME Flags, [Next]_vars PROVE Flags'
  OBVIOUS
<1> USE DEF Flags, config, process, reading, board
<1>1. CASE Open
  BY <1>1, Zenon DEF Open
<1>2. CASE OpenFails
  BY <1>2, Zenon DEF OpenFails
<1>3. CASE UseAfterShutdown
  BY <1>3, Zenon DEF UseAfterShutdown
<1>4. CASE InitStreaming
  BY <1>4, Zenon DEF InitStreaming
<1>5. CASE InitOther
  BY <1>5, Zenon DEF InitOther
<1>6. CASE ChooseMode
  BY <1>6, Zenon DEF ChooseMode
<1>7. CASE ConfigDone
  BY <1>7, Zenon DEF ConfigDone
<1>8. ASSUME NEW failed \in BOOLEAN, Shutdown(failed),
             UNCHANGED <<config, mode, bufMode, sigint, reading, batch, uart>>
      PROVE  Flags'
  <2>1. PICK bad \in BOOLEAN : /\ StopOnDelete(capturing', bad)
                               /\ trouble' = (trouble \/ failed \/ bad)
                               /\ stopFailed' = (stopFailed \/ bad)
    BY <1>8, Zenon DEF Shutdown
  <2>2. trouble' \in BOOLEAN /\ stopFailed' \in BOOLEAN
    BY <2>1, Zenon
  <2>3. capturing' \in BOOLEAN
    BY <2>1, Zenon DEF StopOnDelete, StopsTo
  <2>4. /\ alive' = FALSE /\ rosOk' = FALSE /\ killed' = killed /\ timer' = FALSE
        /\ UNCHANGED <<msgValid, sigint, readOk, firstRead, uart>>
    BY <1>8, Zenon DEF Shutdown
  <2> QED BY <2>2, <2>3, <2>4, Zenon
<1>9. CASE ConfigFails
  BY <1>8, <1>9, Zenon DEF ConfigFails
<1>10. CASE Close
  BY <1>8, <1>10, Zenon DEF Close
<1>11. CASE SpinOnce
  BY <1>11, Zenon DEF SpinOnce
<1>12. CASE LeaveLoop
  BY <1>12, Zenon DEF LeaveLoop
<1>13. CASE Callback
  BY <1>13, CallbackFrame, CallbackFlags, Zenon
<1>14. CASE Sigint
  BY <1>14, Zenon DEF Sigint
<1>15. CASE RosStops
  BY <1>15, Zenon DEF RosStops
<1>16. CASE UNCHANGED vars
  BY <1>16, Zenon DEF vars
<1> QED BY <1>1, <1>2, <1>3, <1>4, <1>5, <1>6, <1>7, <1>9, <1>10, <1>11, <1>12, <1>13,
           <1>14, <1>15, <1>16, Zenon DEF Next, Main

\* Every step stays among the locations and modes.
LEMMA NextPlaces == Places /\ [Next]_vars => Places'
<1> SUFFICES ASSUME Places, [Next]_vars PROVE Places'
  OBVIOUS
<1> USE DEF Places, Locations, Modes, config
<1>1. CASE Open \/ OpenFails \/ UseAfterShutdown
  BY <1>1 DEF Open, OpenFails, UseAfterShutdown
<1>2. CASE InitStreaming \/ InitOther
  BY <1>2 DEF InitStreaming, InitOther
<1>3. CASE ChooseMode \/ ConfigDone \/ ConfigFails
  BY <1>3 DEF ChooseMode, AfterInit, ConfigDone, ConfigFails
<1>4. CASE SpinOnce \/ LeaveLoop \/ Close \/ Sigint \/ RosStops
  BY <1>4 DEF SpinOnce, LeaveLoop, Close, Sigint, RosStops
<1>5. CASE Callback
  BY <1>5, CallbackFrame
<1>6. CASE UNCHANGED vars
  BY <1>6 DEF vars
<1> QED BY <1>1, <1>2, <1>3, <1>4, <1>5, <1>6 DEF Next, Main

\* Only services that exist are advertised, and only they or the timer called.
LEMMA NextOffers == Offers /\ [Next]_vars => Offers'
<1> SUFFICES ASSUME Offers, [Next]_vars PROVE Offers'
  OBVIOUS
<1> USE DEF Offers, process
<1>1. CASE \/ Open \/ OpenFails \/ UseAfterShutdown \/ ChooseMode \/ LeaveLoop
           \/ Sigint \/ RosStops
  BY <1>1 DEF Open, OpenFails, UseAfterShutdown, ChooseMode, LeaveLoop, Sigint, RosStops
<1>2. CASE InitStreaming \/ InitOther \/ ConfigDone
  BY <1>2 DEF InitStreaming, InitOther, ConfigDone, OfferedServices, Online, Services
<1>3. CASE ConfigFails \/ Close
  BY <1>3 DEF ConfigFails, Close, Shutdown
<1>4. CASE SpinOnce
  BY <1>4 DEF SpinOnce, Ready
<1>5. CASE Callback
  BY <1>5, CallbackFrame
<1>6. CASE UNCHANGED vars
  BY <1>6 DEF vars
<1> QED BY <1>1, <1>2, <1>3, <1>4, <1>5, <1>6 DEF Next, Main

\* The process stays within its types, its services and callbacks within those
\* the node has (main, AdiImuBuf, ImuBuf), whatever fails.
THEOREM NodeTypes == Spec => []TypeOK
<1>1. Flags /\ Places /\ Offers => TypeOK
  BY Zenon DEF Flags, Places, Offers, TypeOK
<1> QED BY <1>1, InitTypes, NextFlags, NextPlaces, NextOffers, PTL DEF Spec

-----------------------------------------------------------------------------
\* ROS ends when the object is deleted, or before that from outside; until main
\* closes, and in every callback, the object is there, but for a start or a
\* configuration that failed.
Together ==
  /\ rosOk => alive /\ ~killed
  /\ alive => rosOk \/ killed
  /\ pc \in {"start", "opened", "chosen", "config", "spin"} => alive
  /\ pc = "exited" => ~alive

\* The services a node that runs in its mode is to offer.
NodeServices ==
  OfferedServices(mode) \cup
    (IF mode = "STREAMING" /\ prodId \in BiasCorrectable
     THEN {"trigger_imu_glob_cmd"} ELSE {})

\* What the node has advertised by the time it is at pc.
Advertised ==
  /\ pc \in {"start", "opened"} => services = {} /\ ~timer
  /\ pc = "chosen" =>
       /\ bufMode = mode /\ ~timer
       /\ mode # "UNDEFINED" => services = Online(OfferedServices(mode))
  /\ pc = "config" =>
       /\ bufMode = mode /\ mode = "STREAMING" /\ ~timer
       /\ services = Online(OfferedServices("STREAMING"))
  /\ pc \in {"loop", "spin"} => mode \in {"STREAMING", "RECOVERY"}
  /\ pc \in {"loop", "spin"} /\ alive =>
       /\ bufMode = mode
       /\ services = Online(NodeServices)
       /\ timer <=> mode = "STREAMING"

\* The start has an object, and nothing is advertised.
LEMMA InitAdvertised == Init => Together /\ Advertised
<1> SUFFICES ASSUME Init PROVE Together /\ Advertised
  OBVIOUS
<1>1. /\ pc = "start" /\ alive = TRUE /\ rosOk = TRUE /\ killed = FALSE
      /\ services = {} /\ timer = FALSE
  BY Zenon DEF Init
<1>2. Together
  BY <1>1 DEF Together
<1>3. Advertised
  BY <1>1 DEF Advertised
<1> QED BY <1>2, <1>3

\* The object is deleted by shutdown() only, which ends ROS as well; from outside
\* only ROS is ended.
LEMMA NextTogether == Together /\ [Next]_vars => Together'
<1> SUFFICES ASSUME Together, [Next]_vars PROVE Together'
  OBVIOUS
<1> USE DEF Together, process
<1>1. CASE Open \/ OpenFails \/ UseAfterShutdown
  BY <1>1 DEF Open, OpenFails, UseAfterShutdown
<1>2. CASE InitStreaming \/ InitOther
  <2>1. /\ pc = "opened" /\ pc' = "chosen"
        /\ alive' = alive /\ rosOk' = rosOk /\ killed' = killed
    BY <1>2, Zenon DEF InitStreaming, InitOther
  <2> QED BY <2>1
<1>3. CASE ChooseMode \/ ConfigDone
  BY <1>3 DEF ChooseMode, AfterInit, ConfigDone
<1>4. CASE ConfigFails \/ Close
  BY <1>4 DEF ConfigFails, Close, Shutdown
<1>5. CASE SpinOnce \/ LeaveLoop \/ Sigint \/ RosStops
  BY <1>5 DEF SpinOnce, LeaveLoop, Sigint, RosStops, LoopGuard
<1>6. CASE Callback
  BY <1>6, CallbackFrame
<1>7. CASE UNCHANGED vars
  BY <1>7 DEF vars
<1> QED BY <1>1, <1>2, <1>3, <1>4, <1>5, <1>6, <1>7 DEF Next, Main

\* The services follow the mode from init to the loop.
LEMMA NextAdvertised ==
  Places /\ Together /\ Advertised /\ [Next]_vars => Advertised'
<1> SUFFICES ASSUME Places, Together, Advertised, [Next]_vars PROVE Advertised'
  OBVIOUS
<1> USE DEF Places, Modes, Together, Advertised, NodeServices, Online, config, process
<1>1. CASE Open \/ OpenFails \/ UseAfterShutdown
  BY <1>1 DEF Open, OpenFails, UseAfterShutdown
<1>2. CASE InitStreaming
  BY <1>2 DEF InitStreaming
<1>3. CASE InitOther
  BY <1>3 DEF InitOther
<1>4. CASE ChooseMode
  BY <1>4 DEF ChooseMode, AfterInit, OfferedServices
<1>5. CASE ConfigDone
  BY <1>5 DEF ConfigDone
<1>6. CASE ConfigFails \/ Close
  BY <1>6 DEF ConfigFails, Close, Shutdown
<1>7. CASE SpinOnce \/ LeaveLoop \/ Sigint \/ RosStops
  BY <1>7 DEF SpinOnce, LeaveLoop, Sigint, RosStops
<1>8. CASE Callback
  BY <1>8, CallbackFrame
<1>9. CASE UNCHANGED vars
  BY <1>9 DEF vars
<1> QED BY <1>1, <1>2, <1>3, <1>4, <1>5, <1>6, <1>7, <1>8, <1>9 DEF Next, Main

\* Whatever failed on the way, a running node offers the services of the mode
\* it runs in, the bias correction for the products that know it, and has a
\* timer exactly if it streams (initServiceServers, AdiImuBuf::config).
THEOREM ServicesFit == Spec => []ServicesMatchMode
<1>1. Places /\ Together /\ Advertised => ServicesMatchMode
  BY ProdAssumption
     DEF Places, Together, Advertised, Online, NodeServices, ServicesMatchMode,
         OfferedServices, RecoveryServices, BiasCorrectable
<1> QED BY <1>1, InitTypes, InitAdvertised, NextPlaces, NextTogether,
           NextAdvertised, PTL DEF Spec

-----------------------------------------------------------------------------
\* The capture after the first read: on, unless something has failed.
CaptureKnown ==
  /\ pc \in {"start", "opened", "chosen", "config"} => firstRead
  /\ pc \in {"loop", "spin"} /\ alive /\ ~firstRead => capturing \/ trouble
  /\ ~readOk => trouble

\* A streaming node's port can be used.
PortKnown ==
  mode = "STREAMING" /\ pc \in {"chosen", "config", "loop", "spin", "closing", "exited"}
    => uart

\* A node whose object is gone has stopped the board, or tried to in vain.
Stopped == ~alive /\ pc \notin {"deref", "crashed"} => ~capturing \/ stopFailed \/ ~uart

\* A stop that is reported as done is done, a start as well, and one that
\* failed leaves trouble or a capture that was on.
LEMMA PauseKnown ==
  ASSUME NEW workOk \in BOOLEAN, Paused(workOk)
  PROVE  /\ capturing' \/ trouble'
         /\ trouble => trouble'
BY Zenon DEF Paused, StopsTo, StartsTo, StartTrouble

\* What the callbacks do to the capture and to the result of the read.
LEMMA CallbackKnown ==
  ASSUME CaptureKnown, Together, Callback
  PROVE  /\ ~firstRead' => capturing' \/ trouble'
         /\ ~readOk' => trouble'
         /\ trouble => trouble'
<1> USE DEF CaptureKnown, Together, Called
<1>1. CASE ReadPubData
  <2>1. ~firstRead => capturing \/ trouble
    BY <1>1 DEF ReadPubData
  <2>2. PICK on \in BOOLEAN, started \in BOOLEAN, ok \in BOOLEAN :
          /\ IF firstRead THEN StartsTo(capturing, started, on)
             ELSE on = capturing /\ started = TRUE
          /\ ReadOutcome(on, ok)
          /\ capturing' = on /\ readOk' = ok
          /\ trouble' = (\/ trouble
                         \/ firstRead /\ StartTrouble(capturing, started)
                         \/ on /\ ~ok)
    BY <1>1, Zenon DEF ReadPubData
  <2>3. trouble => trouble'
    BY <2>2, Zenon
  <2>4. capturing' \/ trouble'
    <3>1. CASE firstRead
      <4>1. StartsTo(capturing, started, on)
        BY <2>2, <3>1, Zenon
      <4>2. on \/ StartTrouble(capturing, started)
        BY <4>1, Zenon DEF StartsTo, StartTrouble
      <4> QED BY <2>2, <3>1, <4>2, Zenon
    <3>2. CASE ~firstRead
      BY <2>1, <2>2, <3>2, Zenon
    <3> QED BY <3>1, <3>2, Zenon
  <2>5. ~readOk' => trouble'
    BY <2>2, <2>4, Zenon
  <2> QED BY <2>3, <2>4, <2>5, Zenon
<1>2. CASE GetBufferStatus
  <2>1. CASE bufMode = "STREAMING"
    <3>1. (capturing' \/ trouble') /\ (trouble => trouble')
      BY <1>2, <2>1, PauseKnown, Zenon DEF GetBufferStatus
    <3>2. firstRead' = firstRead /\ readOk' = readOk
      BY <1>2, Zenon DEF GetBufferStatus, reading
    <3> QED BY <3>1, <3>2, Zenon
  <2>2. CASE bufMode # "STREAMING"
    <3>1. /\ pc = "spin" /\ capturing' = capturing
          /\ firstRead' = firstRead /\ readOk' = readOk
      BY <1>2, <2>2, Zenon DEF GetBufferStatus, reading
    <3>2. trouble => trouble'
      BY <1>2, <2>2, Zenon DEF GetBufferStatus
    <3> QED BY <3>1, <3>2
  <2> QED BY <2>1, <2>2, Zenon
<1>3. CASE TriggerBias
  <2>1. (capturing' \/ trouble') /\ (trouble => trouble')
    BY <1>3, PauseKnown, Zenon DEF TriggerBias
  <2>2. firstRead' = firstRead /\ readOk' = readOk
    BY <1>3, Zenon DEF TriggerBias, reading
  <2> QED BY <2>1, <2>2, Zenon
<1>4. CASE TriggerRefused
  BY <1>4 DEF TriggerRefused, reading
<1>5. ASSUME NEW srv \in RecoveryServices, RecoveryCommand(srv)
      PROVE  /\ ~firstRead' => capturing' \/ trouble'
             /\ ~readOk' => trouble'
             /\ trouble => trouble'
  <2>1. /\ pc = "spin" /\ capturing' = capturing
        /\ firstRead' = firstRead /\ readOk' = readOk
    BY <1>5, Zenon DEF RecoveryCommand, reading
  <2>2. trouble => trouble'
    BY <1>5, Zenon DEF RecoveryCommand
  <2> QED BY <2>1, <2>2
<1> QED BY <1>1, <1>2, <1>3, <1>4, <1>5, Zenon DEF Callback

\* The process starts with the first read to come.
LEMMA InitKnown == Init => CaptureKnown /\ PortKnown /\ Stopped
<1> SUFFICES ASSUME Init PROVE CaptureKnown /\ PortKnown /\ Stopped
  OBVIOUS
<1>1. pc = "start" /\ alive = TRUE /\ readOk = TRUE /\ firstRead = TRUE
  BY Zenon DEF Init
<1> QED BY <1>1 DEF CaptureKnown, PortKnown, Stopped

\* The first read is the timer's, and only callbacks touch the capture while
\* the object exists.
LEMMA NextCapture == CaptureKnown /\ Together /\ [Next]_vars => CaptureKnown'
<1> SUFFICES ASSUME CaptureKnown, Together, [Next]_vars PROVE CaptureKnown'
  OBVIOUS
<1> USE DEF CaptureKnown, Together, process, reading, board
<1>1. CASE Open \/ OpenFails \/ UseAfterShutdown
  BY <1>1 DEF Open, OpenFails, UseAfterShutdown
<1>2. CASE InitStreaming
  BY <1>2 DEF InitStreaming
<1>3. CASE InitOther
  BY <1>3 DEF InitOther
<1>4. CASE ChooseMode \/ ConfigDone
  BY <1>4 DEF ChooseMode, ConfigDone
<1>5. CASE ConfigFails \/ Close
  <2>1. /\ alive' = FALSE /\ pc' \in {"loop", "exited"} /\ readOk' = readOk
    BY <1>5, Zenon DEF ConfigFails, Close, Shutdown
  <2>2. trouble => trouble'
    BY <1>5, Zenon DEF ConfigFails, Close, Shutdown
  <2> QED BY <2>1, <2>2
<1>6. CASE SpinOnce \/ LeaveLoop \/ Sigint \/ RosStops
  BY <1>6 DEF SpinOnce, LeaveLoop, Sigint, RosStops
<1>7. CASE Callback
  BY <1>7, CallbackFrame, CallbackKnown
<1>8. CASE UNCHANGED vars
  BY <1>8 DEF vars
<1> QED BY <1>1, <1>2, <1>3, <1>4, <1>5, <1>6, <1>7, <1>8 DEF Next, Main

\* A read fails only after the library or the board has failed: no order of
\* timer and services makes the node leave its own capture off (readPubData
\* against the services that pause the capture).
THEOREM ReadFailures == Spec => []ReadFailureHasCause
<1>1. CaptureKnown => ReadFailureHasCause
  BY DEF CaptureKnown, ReadFailureHasCause
<1> QED BY <1>1, InitKnown, InitAdvertised, NextTogether, NextCapture, PTL DEF Spec

\* What shutdown() does to the capture: an object whose port can be used stops
\* it, unless the board refuses.
LEMMA ShutdownKnown ==
  ASSUME NEW failed \in BOOLEAN, Shutdown(failed)
  PROVE  /\ alive /\ uart => ~capturing' \/ (stopFailed' /\ trouble')
         /\ ~alive => capturing' = capturing
         /\ stopFailed => stopFailed'
         /\ trouble \/ failed => trouble'
<1>1. PICK bad \in BOOLEAN : /\ StopOnDelete(capturing', bad)
                             /\ trouble' = (trouble \/ failed \/ bad)
                             /\ stopFailed' = (stopFailed \/ bad)
  BY Zenon DEF Shutdown
<1>2. trouble \/ failed \/ bad => trouble'
  BY <1>1, Zenon
<1>3. stopFailed \/ bad => stopFailed'
  BY <1>1, Zenon
<1>4. ASSUME alive, uart PROVE ~capturing' \/ bad
  <2>1. StopsTo(capturing, ~bad, capturing')
    BY <1>1, <1>4, Zenon DEF StopOnDelete
  <2> QED BY <2>1, Zenon DEF StopsTo
<1>5. ~alive => capturing' = capturing
  BY <1>1, Zenon DEF StopOnDelete
<1> QED BY <1>2, <1>3, <1>4, <1>5, Zenon

\* Only the library's init makes a node stream.
LEMMA NextPort == PortKnown /\ [Next]_vars => PortKnown'
<1> SUFFICES ASSUME PortKnown, [Next]_vars PROVE PortKnown'
  OBVIOUS
<1> USE DEF PortKnown, process, board
<1>1. CASE Open \/ OpenFails \/ UseAfterShutdown
  BY <1>1 DEF Open, OpenFails, UseAfterShutdown
<1>2. CASE InitStreaming \/ InitOther
  BY <1>2 DEF InitStreaming, InitOther
<1>3. CASE ChooseMode \/ ConfigDone
  BY <1>3 DEF ChooseMode, AfterInit, ConfigDone
<1>4. CASE ConfigFails \/ Close
  BY <1>4 DEF ConfigFails, Close
<1>5. CASE SpinOnce \/ LeaveLoop \/ Sigint \/ RosStops
  BY <1>5 DEF SpinOnce, LeaveLoop, Sigint, RosStops
<1>6. CASE Callback
  BY <1>6, CallbackFrame
<1>7. CASE UNCHANGED vars
  BY <1>7 DEF vars
<1> QED BY <1>1, <1>2, <1>3, <1>4, <1>5, <1>6, <1>7 DEF Next, Main

\* Only shutdown() deletes the object, and nothing touches the board after it.
LEMMA NextStopped == Together /\ Stopped /\ [Next]_vars => Stopped'
<1> SUFFICES ASSUME Together, Stopped, [Next]_vars PROVE Stopped'
  OBVIOUS
<1> USE DEF Together, Stopped, process, board
<1>1. CASE Open \/ OpenFails \/ UseAfterShutdown
  BY <1>1 DEF Open, OpenFails, UseAfterShutdown
<1>2. CASE InitStreaming \/ InitOther
  BY <1>2 DEF InitStreaming, InitOther
<1>3. CASE ChooseMode \/ ConfigDone
  BY <1>3 DEF ChooseMode, ConfigDone
<1>4. CASE ConfigFails \/ Close
  <2>1. PICK failed \in BOOLEAN : Shutdown(failed)
    BY <1>4, Zenon DEF ConfigFails, Close
  <2>2. pc \in {"config", "closing"} /\ uart' = uart
    BY <1>4 DEF ConfigFails, Close
  <2> QED BY <2>1, <2>2, ShutdownKnown
<1>5. CASE SpinOnce \/ LeaveLoop \/ Sigint \/ RosStops
  BY <1>5 DEF SpinOnce, LeaveLoop, Sigint, RosStops
<1>6. CASE Callback
  BY <1>6, CallbackFrame
<1>7. CASE UNCHANGED vars
  BY <1>7 DEF vars
<1> QED BY <1>1, <1>2, <1>3, <1>4, <1>5, <1>6, <1>7 DEF Next, Main

\* However the node ends, the board is left capturing only if it refused the
\* destructor's stop, or if its port could never be used, which is not so for a
\* node that has streamed (ImuBuf's destructor).
THEOREM BoardStopped == Spec => []NoOrphanCapture
<1>1. Together /\ PortKnown /\ Stopped => NoOrphanCapture
  BY DEF Together, PortKnown, Stopped, NoOrphanCapture
<1> QED BY <1>1, InitKnown, InitAdvertised, NextTogether, NextPort, NextStopped, PTL DEF Spec

-----------------------------------------------------------------------------
\* Why a node may be at its end.
Ending ==
  \/ sigint \/ killed
  \/ mode = "UNDEFINED"
  \/ mode = "STREAMING" /\ (trouble \/ ~msgValid)

EndKnown ==
  /\ pc \in {"loop", "spin"} /\ ~rosOk => Ending
  /\ pc \in {"closing", "exited"} => Ending

\* No step takes a reason back.
LEMMA EndingStays ==
  ASSUME CaptureKnown, Together, Next, pc \notin {"start", "opened"}, Ending
  PROVE  Ending'
<1> USE DEF Ending, config, process, board
<1>1. CASE Open \/ OpenFails \/ InitStreaming \/ InitOther
  BY <1>1 DEF Open, OpenFails, InitStreaming, InitOther
<1>2. CASE UseAfterShutdown \/ ChooseMode \/ ConfigDone
  BY <1>2 DEF UseAfterShutdown, ChooseMode, ConfigDone
<1>3. CASE SpinOnce \/ LeaveLoop
  BY <1>3 DEF SpinOnce, LeaveLoop
<1>4. CASE Sigint \/ RosStops
  BY <1>4 DEF Sigint, RosStops
<1>5. CASE ConfigFails \/ Close
  <2>1. sigint' = sigint /\ killed' = killed /\ mode' = mode /\ msgValid' = msgValid
    BY <1>5, Zenon DEF ConfigFails, Close, Shutdown
  <2>2. trouble => trouble'
    BY <1>5, Zenon DEF ConfigFails, Close, Shutdown
  <2> QED BY <2>1, <2>2
<1>6. CASE Callback
  BY <1>6, CallbackFrame, CallbackKnown
<1> QED BY <1>1, <1>2, <1>3, <1>4, <1>5, <1>6 DEF Next, Main

\* Whatever leads towards the end brings a reason.
LEMMA NextEnd ==
  Places /\ Together /\ Advertised /\ CaptureKnown /\ EndKnown /\ [Next]_vars
    => EndKnown'
<1> SUFFICES ASSUME Places, Together, Advertised, CaptureKnown, EndKnown, [Next]_vars
             PROVE  EndKnown'
  OBVIOUS
<1> USE DEF EndKnown, process
<1>1. CASE Open \/ OpenFails \/ UseAfterShutdown
  BY <1>1 DEF Open, OpenFails, UseAfterShutdown
<1>2. CASE InitStreaming \/ InitOther
  BY <1>2 DEF InitStreaming, InitOther
<1>3. CASE ChooseMode
  BY <1>3 DEF ChooseMode, AfterInit, Ending, Places, Modes, Together
<1>4. CASE ConfigDone
  BY <1>4 DEF ConfigDone, Together, Ending
<1>5. CASE ConfigFails
  <2>1. pc' = "loop" /\ mode' = "STREAMING" /\ msgValid' = msgValid
    BY <1>5 DEF ConfigFails, Advertised, config
  <2>2. trouble' \/ ~msgValid
    BY <1>5, Zenon DEF ConfigFails, Shutdown
  <2> QED BY <2>1, <2>2 DEF Ending
<1>6. CASE LeaveLoop
  <2>1. pc = "loop" /\ pc' = "closing" /\ ~LoopGuard
    BY <1>6 DEF LeaveLoop
  <2>2. Ending
    BY <2>1 DEF LoopGuard, Ending, CaptureKnown
  <2>3. Ending'
    BY <1>6, <2>2 DEF LeaveLoop, Ending, config, process, board
  <2> QED BY <2>1, <2>3
<1>7. CASE SpinOnce
  BY <1>7 DEF SpinOnce, LoopGuard
<1>8. CASE Close
  <2>1. pc = "closing" /\ Ending
    BY <1>8 DEF Close
  <2>2. Ending'
    BY <1>8, <2>1, EndingStays DEF Next, Main
  <2> QED BY <2>2
<1>9. CASE Sigint \/ RosStops
  BY <1>9 DEF Sigint, RosStops, Ending
<1>10. CASE Callback
  <2>1. Ending => Ending'
    BY <1>10, CallbackFrame, EndingStays DEF Next, Main
  <2>2. pc = "spin" /\ pc' \in {"loop", "spin"} /\ rosOk' = rosOk
    BY <1>10, CallbackFrame
  <2> QED BY <2>1, <2>2
<1>11. CASE UNCHANGED vars
  BY <1>11 DEF vars, Ending, config, process, board
<1> QED BY <1>1, <1>2, <1>3, <1>4, <1>5, <1>6, <1>7, <1>8, <1>9, <1>10, <1>11
        DEF Next, Main

\* The process starts far from its end.
LEMMA InitEnd == Init => EndKnown
<1> SUFFICES ASSUME Init PROVE EndKnown
  OBVIOUS
<1>1. pc = "start"
  BY Zenon DEF Init
<1> QED BY <1>1 DEF EndKnown

\* The node ends only because it was told to, by SIGINT or by ROS, for a failure,
\* or for parameters it cannot run with (both loops of main).
THEOREM ExitCaused == Spec => []ExitHasCause
<1>1. EndKnown => ExitHasCause
  BY DEF EndKnown, Ending, ExitHasCause
<1> QED BY <1>1, InitEnd, InitTypes, InitKnown, InitAdvertised, NextPlaces,
           NextTogether, NextAdvertised, NextCapture, NextEnd, PTL DEF Spec

\* In RECOVERY the node and its recovery services stay, whatever fails, until it
\* is told to end by SIGINT or by ROS.
THEOREM RecoveryStays == Spec => []RecoveryUntilTold
<1>1. Together /\ Advertised /\ EndKnown => RecoveryUntilTold
  BY DEF Together, Advertised, Online, NodeServices, OfferedServices, EndKnown, Ending,
         RecoveryUntilTold
<1> QED BY <1>1, InitEnd, InitTypes, InitKnown, InitAdvertised, NextPlaces,
           NextTogether, NextAdvertised, NextCapture, NextEnd, PTL DEF Spec

-----------------------------------------------------------------------------
(***************************************************************************)
(* The process implements NodeLife.                                        *)
(***************************************************************************)
\* A node that serves as STREAMING has a message type.
Fit == pc \in {"loop", "spin", "closing"} /\ alive /\ mode = "STREAMING" => msgValid

\* What main is about to call was advertised when it was taken, or is the timer.
Taken ==
  pc = "spin" => batch \subseteq NodeServices \cup (IF timer THEN {"timer"} ELSE {})

\* Once ROS is shut down nothing is offered.
Gone == ~rosOk => services = {}

\* Only a node with a message type is configured.
LEMMA NextFit == Places /\ Fit /\ [Next]_vars => Fit'
<1> SUFFICES ASSUME Places, Fit, [Next]_vars PROVE Fit'
  OBVIOUS
<1> USE DEF Fit, config, process
<1>1. CASE Open \/ OpenFails \/ UseAfterShutdown
  BY <1>1 DEF Open, OpenFails, UseAfterShutdown
<1>2. CASE InitStreaming \/ InitOther
  BY <1>2 DEF InitStreaming, InitOther
<1>3. CASE ChooseMode \/ ConfigDone
  BY <1>3 DEF ChooseMode, AfterInit, ConfigDone, Places, Modes
<1>4. CASE ConfigFails \/ Close
  BY <1>4 DEF ConfigFails, Close, Shutdown
<1>5. CASE SpinOnce \/ LeaveLoop \/ Sigint \/ RosStops
  BY <1>5 DEF SpinOnce, LeaveLoop, Sigint, RosStops
<1>6. CASE Callback
  BY <1>6, CallbackFrame
<1>7. CASE UNCHANGED vars
  BY <1>7 DEF vars
<1> QED BY <1>1, <1>2, <1>3, <1>4, <1>5, <1>6, <1>7 DEF Next, Main

\* Neither the mode nor the timer changes while callbacks are waiting.
LEMMA NextTaken == Together /\ Advertised /\ Taken /\ [Next]_vars => Taken'
<1> SUFFICES ASSUME Together, Advertised, Taken, [Next]_vars PROVE Taken'
  OBVIOUS
<1> USE DEF Taken, NodeServices, config, process
<1>1. CASE Open \/ OpenFails \/ UseAfterShutdown
  BY <1>1 DEF Open, OpenFails, UseAfterShutdown
<1>2. CASE InitStreaming \/ InitOther
  BY <1>2 DEF InitStreaming, InitOther
<1>3. CASE ChooseMode \/ ConfigDone
  BY <1>3 DEF ChooseMode, AfterInit, ConfigDone
<1>4. CASE ConfigFails \/ Close
  BY <1>4 DEF ConfigFails, Close
<1>5. CASE SpinOnce
  BY <1>5 DEF SpinOnce, LoopGuard, Ready, Together, Advertised, Online
<1>6. CASE LeaveLoop \/ Sigint \/ RosStops
  BY <1>6 DEF LeaveLoop, Sigint, RosStops
<1>7. CASE Callback
  BY <1>7, CallbackFrame
<1>8. CASE UNCHANGED vars
  BY <1>8 DEF vars
<1> QED BY <1>1, <1>2, <1>3, <1>4, <1>5, <1>6, <1>7, <1>8 DEF Next, Main

\* Nothing is advertised by a node that ROS has left.
LEMMA NextGone == Together /\ Advertised /\ Gone /\ [Next]_vars => Gone'
<1> SUFFICES ASSUME Together, Advertised, Gone, [Next]_vars PROVE Gone'
  OBVIOUS
<1> USE DEF Gone, Together, process
<1>1. CASE Open \/ OpenFails \/ UseAfterShutdown
  BY <1>1 DEF Open, OpenFails, UseAfterShutdown, Advertised
<1>2. CASE InitStreaming \/ InitOther
  <2>1. rosOk' = rosOk /\ (~rosOk => services' = {})
    BY <1>2, Zenon DEF InitStreaming, InitOther, Online
  <2> QED BY <2>1
<1>3. CASE ChooseMode \/ ConfigDone
  BY <1>3 DEF ChooseMode, ConfigDone, Online
<1>4. CASE ConfigFails \/ Close
  BY <1>4 DEF ConfigFails, Close, Shutdown
<1>5. CASE SpinOnce \/ LeaveLoop \/ Sigint \/ RosStops
  BY <1>5 DEF SpinOnce, LeaveLoop, Sigint, RosStops
<1>6. CASE Callback
  BY <1>6, CallbackFrame
<1>7. CASE UNCHANGED vars
  BY <1>7 DEF vars
<1> QED BY <1>1, <1>2, <1>3, <1>4, <1>5, <1>6, <1>7 DEF Next, Main

\* The process starts with its object, and with nothing to call.
LEMMA InitLife == Init => Fit /\ Taken /\ Gone
<1> SUFFICES ASSUME Init PROVE Fit /\ Taken /\ Gone
  OBVIOUS
<1>1. pc = "start" /\ rosOk = TRUE
  BY Zenon DEF Init
<1> QED BY <1>1 DEF Fit, Taken, Gone

\* Whether the parameters are fit for streaming.
Valid == msgValid /\ mode # "UNDEFINED"

\* The start is no more than preparation, until it serves or ends.
LEMMA LifeStarts ==
  ASSUME Flags, Places, Together, Advertised,
         Open \/ InitStreaming \/ InitOther \/ ChooseMode \/ ConfigDone
  PROVE  \/ Life!Prepare \/ Life!Serve
         \/ UNCHANGED <<Phase, services, capturing, trouble, sigint, killed, Valid>>
<1> USE DEF config, process, Together, Advertised, Phase, Valid, Online, Life!Online
<1>1. CASE Open
  BY <1>1 DEF Open
<1>2. CASE InitStreaming
  <2>1. /\ pc = "opened" /\ pc' = "chosen" /\ alive /\ alive' = alive
        /\ services = {} /\ mode # "UNDEFINED" /\ mode' # "UNDEFINED"
        /\ UNCHANGED <<msgValid, capturing, sigint, rosOk, killed>>
    BY <1>2 DEF InitStreaming
  <2>2. services' \subseteq Life!Online({"get_buffer_status"} \cup RecoveryServices)
    BY <1>2, <2>1 DEF InitStreaming, OfferedServices
  <2>3. trouble' \in {trouble, TRUE}
    BY <1>2, Zenon DEF InitStreaming, Flags
  <2> QED BY <2>1, <2>2, <2>3 DEF Life!Prepare, Life!MayFail
<1>3. CASE InitOther
  <2>1. /\ pc = "opened" /\ pc' = "chosen" /\ alive /\ alive' = alive
        /\ services = {}
        /\ UNCHANGED <<mode, msgValid, capturing, sigint, rosOk, killed, trouble>>
    BY <1>3 DEF InitOther, board
  <2>2. services' \subseteq Life!Online({"get_buffer_status"} \cup RecoveryServices)
    BY <1>3, <2>1 DEF InitOther, OfferedServices
  <2> QED BY <2>1, <2>2 DEF Life!Prepare, Life!MayFail
<1>4. CASE ChooseMode
  <2>1. /\ pc = "chosen" /\ pc' = AfterInit(mode) /\ alive /\ alive' = alive
        /\ UNCHANGED <<mode, services, msgValid, capturing, sigint, rosOk, killed, trouble>>
    BY <1>4 DEF ChooseMode, board
  <2>2. CASE mode = "RECOVERY"
    <3>1. /\ pc' = "loop"
          /\ services = Life!Online({"get_buffer_status"} \cup RecoveryServices)
      BY <2>1, <2>2 DEF AfterInit, OfferedServices
    <3> QED BY <2>1, <2>2, <3>1 DEF Life!Serve
  <2>3. CASE mode # "RECOVERY"
    <3>1. mode = "UNDEFINED" \/ pc' = "config"
      BY <2>1, <2>3 DEF AfterInit, Places, Modes
    <3> QED BY <2>1, <3>1
  <2> QED BY <2>2, <2>3
<1>5. CASE ConfigDone
  <2>1. /\ pc = "config" /\ pc' = "loop" /\ alive /\ alive' = alive /\ msgValid
        /\ mode = "STREAMING" /\ services = Life!Online({"get_buffer_status"})
        /\ UNCHANGED <<mode, msgValid, capturing, sigint, rosOk, killed, trouble>>
    BY <1>5 DEF ConfigDone, OfferedServices, board
  <2>2. \/ services' = Life!Online({"get_buffer_status"})
        \/ services' = Life!Online({"get_buffer_status"} \cup {"trigger_imu_glob_cmd"})
    BY <1>5, <2>1 DEF ConfigDone
  <2>3. services \subseteq services'
    BY <1>5 DEF ConfigDone
  <2> QED BY <2>1, <2>2, <2>3 DEF Life!Serve
<1> QED BY <1>1, <1>2, <1>3, <1>4, <1>5

\* A callback of a streaming node leaves the capture on, or something failed;
\* in RECOVERY it does not touch it.
LEMMA LifeServes ==
  ASSUME Flags, Together, Advertised, CaptureKnown, Taken, Callback
  PROVE  \/ Life!Capture \/ Life!Recover
         \/ UNCHANGED <<Phase, services, capturing, trouble, sigint, killed, Valid>>
<1>1. /\ pc = "spin" /\ pc' \in {"loop", "spin"}
      /\ UNCHANGED <<mode, bufMode, alive, services, sigint, killed, msgValid>>
  BY CallbackFrame DEF config, process
<1>2. alive /\ bufMode = mode /\ mode \in {"STREAMING", "RECOVERY"}
  BY <1>1 DEF Together, Advertised
<1>3. Phase = mode /\ Phase' = mode /\ Valid' = Valid
  BY <1>1, <1>2 DEF Phase, Valid
<1>4. trouble' \in {trouble, TRUE}
  BY CallbackKnown, CallbackFlags, Zenon DEF Flags
<1>5. CASE mode = "STREAMING"
  <2>1. capturing' \/ trouble' \/ capturing' = capturing
    <3>1. CASE firstRead'
      <4>1. CASE ReadPubData
        BY <3>1, <4>1, Zenon DEF ReadPubData
      <4>2. CASE GetBufferStatus
        BY <1>2, <1>5, <4>2, PauseKnown, Zenon DEF GetBufferStatus
      <4>3. CASE TriggerBias
        BY <4>3, PauseKnown, Zenon DEF TriggerBias
      <4>4. CASE TriggerRefused
        BY <4>4, Zenon DEF TriggerRefused
      <4>5. ASSUME NEW srv \in RecoveryServices, RecoveryCommand(srv)
            PROVE  capturing' = capturing
        BY <4>5, Zenon DEF RecoveryCommand
      <4> QED BY <4>1, <4>2, <4>3, <4>4, <4>5, Zenon DEF Callback
    <3>2. CASE ~firstRead'
      BY <3>2, CallbackKnown, Zenon
    <3> QED BY <3>1, <3>2
  <2> QED BY <1>1, <1>3, <1>4, <1>5, <2>1 DEF Life!Capture, Life!MayFail
<1>6. CASE mode = "RECOVERY"
  <2>1. NodeServices = OfferedServices("RECOVERY") /\ ~timer
    BY <1>1, <1>2, <1>6 DEF Advertised, NodeServices
  <2>2. "timer" \notin batch /\ "trigger_imu_glob_cmd" \notin batch
    BY <1>1, <2>1 DEF Taken, OfferedServices, RecoveryServices
  <2>3. ~ReadPubData /\ ~TriggerBias /\ ~TriggerRefused
    BY <2>2, Zenon DEF ReadPubData, TriggerBias, TriggerRefused, Called
  <2>4. GetBufferStatus => capturing' = capturing
    <3> SUFFICES ASSUME GetBufferStatus PROVE capturing' = capturing
      OBVIOUS
    <3>1. bufMode # "STREAMING"
      BY <1>2, <1>6
    <3> QED BY <3>1, Zenon DEF GetBufferStatus
  <2>5. (\E srv \in RecoveryServices : RecoveryCommand(srv)) => capturing' = capturing
    BY Zenon DEF RecoveryCommand
  <2>6. capturing' = capturing
    BY <2>3, <2>4, <2>5, Zenon DEF Callback
  <2> QED BY <1>1, <1>3, <1>4, <1>6, <2>6 DEF Life!Recover, Life!MayFail
<1> QED BY <1>2, <1>5, <1>6

\* What shutdown() does to a node that still has its object, and to one that
\* has not.
LEMMA ShutdownEnds ==
  ASSUME Flags, NEW failed \in BOOLEAN, Shutdown(failed)
  PROVE  /\ ~alive' /\ services' = {} /\ (capturing' => capturing)
         /\ killed' = killed
         /\ failed => trouble'
         /\ trouble' \in {trouble, TRUE}
         /\ ~alive /\ ~failed => capturing' = capturing /\ trouble' = trouble
<1> USE DEF Flags
<1>1. PICK bad \in BOOLEAN : /\ StopOnDelete(capturing', bad)
                             /\ trouble' = (trouble \/ failed \/ bad)
  BY Zenon DEF Shutdown
<1>2. ~alive' /\ services' = {} /\ killed' = killed
  BY DEF Shutdown
<1>3. capturing' => capturing
  BY <1>1, Zenon DEF StopOnDelete, StopsTo
<1>4. failed => trouble'
  BY <1>1, Zenon
<1>5. trouble' \in {trouble, TRUE}
  BY <1>1, Zenon
<1>6. ~alive => capturing' = capturing /\ bad = FALSE
  BY <1>1, Zenon DEF StopOnDelete
<1>7. ~alive /\ ~failed => trouble' = trouble
  BY <1>1, <1>6, Zenon
<1> QED BY <1>2, <1>3, <1>4, <1>5, <1>6, <1>7, Zenon

\* The node ends once, for a reason, and takes its services along.
LEMMA LifeEnds ==
  ASSUME Flags, Places, Together, Advertised, PortKnown, EndKnown, Fit, Gone,
         OpenFails \/ ConfigFails \/ Close
  PROVE  \/ Life!End
         \/ UNCHANGED <<Phase, services, capturing, trouble, sigint, killed, Valid>>
<1> USE DEF config, Phase, Valid
<1>1. CASE OpenFails
  <2>1. /\ pc = "start" /\ alive /\ ~alive' /\ services = {} /\ services' = services
        /\ UNCHANGED <<mode, msgValid, sigint, killed>>
    BY <1>1 DEF OpenFails, Together, Advertised
  <2>2. (capturing' => capturing) /\ trouble' = TRUE
    BY <1>1, Zenon DEF OpenFails
  <2> QED BY <2>1, <2>2 DEF Life!End, Life!Cause, Life!MayFail
<1>2. CASE ConfigFails
  <2>1. PICK failed \in BOOLEAN : Shutdown(failed) /\ (msgValid => failed)
    BY <1>2, Zenon DEF ConfigFails
  <2>2. pc = "config" /\ alive /\ UNCHANGED <<mode, msgValid, sigint>>
    BY <1>2 DEF ConfigFails, Together
  <2>3. /\ ~alive' /\ services' = {} /\ (capturing' => capturing) /\ killed' = killed
        /\ trouble' \in {trouble, TRUE}
    BY <2>1, ShutdownEnds, Zenon
  <2>4. trouble' \/ ~msgValid
    BY <2>1, ShutdownEnds, Zenon
  <2>5. Phase = "starting" /\ Phase' = "ended" /\ Valid' = Valid
    BY <2>2, <2>3
  <2>6. Life!Cause
    BY <2>4, <2>5, Zenon DEF Life!Cause
  <2> QED BY <2>2, <2>3, <2>5, <2>6 DEF Life!End, Life!MayFail
<1>3. CASE Close
  <2>1. Shutdown(FALSE)
    BY <1>3, Zenon DEF Close
  <2>2. pc = "closing" /\ pc' = "exited" /\ UNCHANGED <<mode, msgValid, sigint>>
    BY <1>3 DEF Close
  <2>3. /\ ~alive' /\ services' = {} /\ (capturing' => capturing) /\ killed' = killed
        /\ trouble' \in {trouble, TRUE}
        /\ ~alive => capturing' = capturing /\ trouble' = trouble
    BY <2>1, ShutdownEnds, Zenon
  <2>4. CASE ~alive
    BY <2>2, <2>3, <2>4 DEF Gone, Together
  <2>5. CASE alive
    <3>1. Phase' = "ended" /\ Valid' = Valid
      BY <2>2, <2>3
    <3>2. Phase = IF mode = "UNDEFINED" THEN "starting" ELSE mode
      BY <2>2, <2>5
    <3>3. Ending /\ (mode = "STREAMING" => msgValid)
      BY <2>2, <2>5 DEF EndKnown, Fit
    <3>4. trouble => trouble'
      BY <2>3, Zenon DEF Flags
    <3>5. Life!Cause
      BY <3>2, <3>3 DEF Life!Cause, Ending, Places, Modes
    <3>6. mode = "STREAMING" => uart
      BY <2>2, <2>5 DEF PortKnown
    <3>7. mode = "STREAMING" => ~capturing' \/ trouble'
      BY <2>1, <2>5, <3>6, ShutdownKnown, Zenon
    <3>8. Phase = "STREAMING" => ~capturing' \/ trouble'
      BY <3>2, <3>7
    <3> QED BY <2>2, <2>3, <3>1, <3>5, <3>8 DEF Life!End, Life!MayFail
  <2> QED BY <2>4, <2>5
<1> QED BY <1>1, <1>2, <1>3

\* Every step of the process is a step of the life, or none.
LEMMA LifeSteps ==
  ASSUME Flags, Places, Together, Advertised, CaptureKnown, PortKnown, EndKnown,
         Fit, Taken, Gone, [Next]_vars
  PROVE  \/ Life!Next
         \/ UNCHANGED <<Phase, services, capturing, trouble, sigint, killed, Valid>>
<1> USE DEF Life!Next
<1>1. CASE Open \/ InitStreaming \/ InitOther \/ ChooseMode \/ ConfigDone
  BY <1>1, LifeStarts, Zenon
<1>2. CASE OpenFails \/ ConfigFails \/ Close
  BY <1>2, LifeEnds, Zenon
<1>3. CASE Callback
  BY <1>3, LifeServes, Zenon
<1>4. CASE UseAfterShutdown \/ SpinOnce \/ LeaveLoop
  BY <1>4 DEF UseAfterShutdown, SpinOnce, LeaveLoop, config, process, board, Phase, Valid
<1>5. CASE Sigint
  BY <1>5 DEF Sigint, Life!Signal, config, process, board, Phase, Valid
<1>6. CASE RosStops
  <2>1. /\ pc' = pc \/ (pc = "spin" /\ pc' = "loop")
        /\ killed' = TRUE /\ services' = {}
        /\ UNCHANGED <<alive, mode, msgValid, capturing, trouble, sigint>>
    BY <1>6 DEF RosStops, config, board
  <2> QED BY <2>1 DEF Life!Kill, Phase, Valid
<1>7. CASE UNCHANGED vars
  BY <1>7 DEF vars, config, process, board, Phase, Valid
<1> QED BY <1>1, <1>2, <1>3, <1>4, <1>5, <1>6, <1>7 DEF Next, Main

\* The process implements NodeLife: through every failure and every order of
\* callbacks it starts, serves in one mode with the services of that mode, and
\* ends for a reason, with its services gone and the capture off or a failure
\* behind it; in RECOVERY it leaves the capture alone (main, AdiImuBuf, the
\* callbacks and the destructor of ImuBuf).
THEOREM ImplementsLife == Spec => LifeSpec
<1> DEFINE Inv == /\ Flags /\ Places /\ Together /\ Advertised /\ CaptureKnown
                  /\ PortKnown /\ EndKnown /\ Fit /\ Taken /\ Gone
<1>1. Init => Inv
  BY InitTypes, InitAdvertised, InitKnown, InitEnd, InitLife
<1>2. Inv /\ [Next]_vars => Inv'
  BY NextFlags, NextPlaces, NextTogether, NextAdvertised, NextCapture, NextPort,
     NextEnd, NextFit, NextTaken, NextGone
<1>3. Init => Life!Init
  <2> SUFFICES ASSUME Init PROVE Life!Init
    OBVIOUS
  <2>1. /\ pc = "start" /\ alive = TRUE /\ services = {} /\ trouble = FALSE
        /\ sigint = FALSE /\ killed = FALSE
        /\ capturing \in BOOLEAN /\ msgValid \in BOOLEAN
    BY Zenon DEF Init
  <2>2. Phase = "starting"
    BY <2>1 DEF Phase
  <2>3. (msgValid /\ mode # "UNDEFINED") \in BOOLEAN
    OBVIOUS
  <2> QED BY <2>1, <2>2, <2>3 DEF Life!Init
<1>4. Inv /\ [Next]_vars => [Life!Next]_Life!lifeVars
  BY LifeSteps DEF Valid, Life!lifeVars
<1> HIDE DEF Inv
<1> QED BY <1>1, <1>2, <1>3, <1>4, PTL DEF Spec, LifeSpec, Life!Spec

-----------------------------------------------------------------------------
(***************************************************************************)
(* After SIGINT or ROS's own end, and after a failed read, every step      *)
(* brings the end nearer (the safety half of SignalEndsNode and            *)
(* FailedReadEndsNode).                                                    *)
(***************************************************************************)
\* How many steps of main and of its callbacks are left at most, if no loop is
\* gone through again.
StepsLeft ==
  IF pc = "spin" THEN 2 + Cardinality(batch)
  ELSE IF pc = "start"  THEN 6
  ELSE IF pc = "opened" THEN 5
  ELSE IF pc = "chosen" THEN 4
  ELSE IF pc = "config" THEN 3
  ELSE IF pc = "loop"   THEN 2
  ELSE IF pc \in {"closing", "deref"} THEN 1
  ELSE 0

\* Nothing reads after a failed read: its timer has left the batch, and main
\* starts no other round.
ReadOver ==
  /\ ~readOk => mode = "STREAMING" /\ pc \in {"loop", "spin", "closing", "exited"}
  /\ ~readOk /\ pc = "spin" => "timer" \notin batch

\* The callbacks of a round are few.
LEMMA BatchFinite ==
  ASSUME Offers
  PROVE  IsFiniteSet(batch) /\ Cardinality(batch) \in 0 .. 6
<1> DEFINE S1 == {"factory_reset"}
           S2 == S1 \cup {"clear_fault"}
           S3 == S2 \cup {"flash_update"}
           S4 == S3 \cup {"get_buffer_status"}
           S5 == S4 \cup {"trigger_imu_glob_cmd"}
           S6 == S5 \cup {"timer"}
<1>1. Services \cup {"timer"} = S6
  BY DEF Services, RecoveryServices
<1> HIDE DEF S1, S2, S3, S4, S5, S6
<1>2. ASSUME NEW S, NEW x, NEW n \in Nat, IsFiniteSet(S), Cardinality(S) \in 0 .. n
      PROVE  IsFiniteSet(S \cup {x}) /\ Cardinality(S \cup {x}) \in 0 .. n + 1
  <2>1. /\ IsFiniteSet(S \cup {x})
        /\ Cardinality(S \cup {x}) = IF x \in S THEN Cardinality(S) ELSE Cardinality(S) + 1
    BY <1>2, FS_AddElement, Zenon
  <2> QED BY <1>2, <2>1
<1>3. IsFiniteSet(S1) /\ Cardinality(S1) \in 0 .. 1
  <2>1. IsFiniteSet({}) /\ Cardinality({}) \in 0 .. 0
    BY FS_EmptySet
  <2>2. IsFiniteSet({} \cup {"factory_reset"}) /\ Cardinality({} \cup {"factory_reset"}) \in 0 .. 0 + 1
    BY <1>2, <2>1
  <2>3. {} \cup {"factory_reset"} = S1
    BY DEF S1
  <2> QED BY <2>2, <2>3
<1>4. IsFiniteSet(S2) /\ Cardinality(S2) \in 0 .. 2
  <2>1. IsFiniteSet(S2) /\ Cardinality(S2) \in 0 .. 1 + 1
    BY <1>2, <1>3 DEF S2
  <2> QED BY <2>1
<1>5. IsFiniteSet(S3) /\ Cardinality(S3) \in 0 .. 3
  <2>1. IsFiniteSet(S3) /\ Cardinality(S3) \in 0 .. 2 + 1
    BY <1>2, <1>4 DEF S3
  <2> QED BY <2>1
<1>6. IsFiniteSet(S4) /\ Cardinality(S4) \in 0 .. 4
  <2>1. IsFiniteSet(S4) /\ Cardinality(S4) \in 0 .. 3 + 1
    BY <1>2, <1>5 DEF S4
  <2> QED BY <2>1
<1>7. IsFiniteSet(S5) /\ Cardinality(S5) \in 0 .. 5
  <2>1. IsFiniteSet(S5) /\ Cardinality(S5) \in 0 .. 4 + 1
    BY <1>2, <1>6 DEF S5
  <2> QED BY <2>1
<1>8. IsFiniteSet(S6) /\ Cardinality(S6) \in 0 .. 6
  <2>1. IsFiniteSet(S6) /\ Cardinality(S6) \in 0 .. 5 + 1
    BY <1>2, <1>7 DEF S6
  <2> QED BY <2>1
<1>9. batch \in SUBSET S6
  BY <1>1 DEF Offers
<1>10. IsFiniteSet(batch) /\ Cardinality(batch) <= Cardinality(S6)
  BY <1>8, <1>9, FS_Subset, Zenon
<1>11. Cardinality(batch) \in Nat
  BY <1>10, FS_CardinalityType
<1> QED BY <1>8, <1>10, <1>11

\* A callback that returns has left the batch.
LEMMA CallbackCounts ==
  ASSUME Offers, Callback
  PROVE  StepsLeft' < StepsLeft
<1>1. IsFiniteSet(batch) /\ Cardinality(batch) \in Nat
  BY BatchFinite
<1>2. PICK cb : Called(cb) /\ Return(cb)
  BY DEF Callback, ReadPubData, GetBufferStatus, TriggerBias, TriggerRefused, RecoveryCommand
<1>3. pc = "spin" /\ cb \in batch /\ batch' = batch \ {cb}
  BY <1>2 DEF Called, Return
<1>4. pc' = IF batch' = {} THEN "loop" ELSE "spin"
  BY <1>2 DEF Return
<1>5. Cardinality(batch') = Cardinality(batch) - 1
  BY <1>1, <1>3, FS_RemoveElement
<1>6. batch # {} /\ Cardinality(batch) # 0
  BY <1>1, <1>3, FS_EmptySet
<1> QED BY <1>1, <1>3, <1>4, <1>5, <1>6 DEF StepsLeft

\* Only the timer reads, once in a round, and only in STREAMING.
LEMMA NextReadOver ==
  Together /\ Advertised /\ Taken /\ ReadOver /\ [Next]_vars => ReadOver'
<1> SUFFICES ASSUME Together, Advertised, Taken, ReadOver, [Next]_vars PROVE ReadOver'
  OBVIOUS
<1> USE DEF ReadOver, reading
<1>1. CASE Open \/ OpenFails \/ UseAfterShutdown
  BY <1>1 DEF Open, OpenFails, UseAfterShutdown
<1>2. CASE InitStreaming \/ InitOther
  BY <1>2 DEF InitStreaming, InitOther
<1>3. CASE ChooseMode \/ ConfigDone
  BY <1>3 DEF ChooseMode, ConfigDone
<1>4. CASE ConfigFails \/ Close
  BY <1>4 DEF ConfigFails, Close
<1>5. CASE SpinOnce \/ LeaveLoop \/ Sigint \/ RosStops
  BY <1>5 DEF SpinOnce, LeaveLoop, Sigint, RosStops, LoopGuard
<1>6. CASE ReadPubData
  <2>1. pc = "spin" /\ "timer" \in batch /\ batch' = batch \ {"timer"}
    BY <1>6 DEF ReadPubData, Called, Return
  <2>2. mode' = mode /\ pc' \in {"loop", "spin"}
    BY <1>6, CallbackFrame DEF Callback
  <2>3. timer
    BY <2>1 DEF Taken, NodeServices, OfferedServices, RecoveryServices
  <2>4. mode = "STREAMING"
    BY <2>1, <2>3 DEF Advertised, Together
  <2> QED BY <2>1, <2>2, <2>4
<1>7. CASE Callback /\ ~ReadPubData
  <2>1. readOk' = readOk
    BY <1>7, Zenon DEF Callback, GetBufferStatus, TriggerBias, TriggerRefused, RecoveryCommand
  <2> QED BY <1>7, <2>1, CallbackFrame
<1>8. CASE UNCHANGED vars
  BY <1>8 DEF vars
<1> QED BY <1>1, <1>2, <1>3, <1>4, <1>5, <1>6, <1>7, <1>8 DEF Next, Main

\* Told to end, or with nothing more to read.
Doomed == sigint \/ killed \/ ~readOk

\* A shorter batch is called in fewer steps.
LEMMA BatchShrinks ==
  ASSUME Offers, batch' \subseteq batch
  PROVE  Cardinality(batch) \in Nat /\ Cardinality(batch') \in Nat
         /\ Cardinality(batch') <= Cardinality(batch)
<1>1. IsFiniteSet(batch)
  BY BatchFinite
<1>2. IsFiniteSet(batch') /\ Cardinality(batch') <= Cardinality(batch)
  BY <1>1, FS_Subset
<1> QED BY <1>1, <1>2, FS_CardinalityType

\* A step of a process that is to end.
LEMMA EndingStep ==
  ASSUME Places, Offers, Together, ReadOver, Doomed, Next
  PROVE  /\ \/ StepsLeft' < StepsLeft
            \/ (sigint' # sigint \/ killed' # killed) /\ StepsLeft' <= StepsLeft
         /\ sigint => sigint'
         /\ killed => killed'
         /\ ~readOk => ~readOk'
<1> USE DEF process, reading
<1>1. CASE Callback
  <2>1. StepsLeft' < StepsLeft
    BY <1>1, CallbackCounts
  <2>2. sigint' = sigint /\ killed' = killed
    BY <1>1, CallbackFrame
  <2>3. ~readOk => ~ReadPubData
    BY DEF ReadPubData, Called, ReadOver
  <2>4. ~readOk => ~readOk'
    BY <1>1, <2>3, Zenon DEF Callback, GetBufferStatus, TriggerBias, TriggerRefused, RecoveryCommand
  <2> QED BY <2>1, <2>2, <2>4, Zenon
<1>2. CASE Sigint
  <2>1. /\ ~sigint /\ sigint' /\ killed' = killed /\ readOk' = readOk
        /\ pc' = pc /\ batch' = batch
    BY <1>2, Zenon DEF Sigint
  <2>2. Cardinality(batch) \in Nat
    BY BatchFinite
  <2>3. StepsLeft' <= StepsLeft
    BY <2>1, <2>2 DEF StepsLeft
  <2> QED BY <2>1, <2>3, Zenon
<1>3. CASE RosStops
  <2>1. /\ ~killed /\ killed' = TRUE /\ sigint' = sigint /\ readOk' = readOk
        /\ pc' = IF pc = "spin" /\ batch' = {} THEN "loop" ELSE pc
        /\ batch' \subseteq batch
    BY <1>3 DEF RosStops, Together
  <2>2. /\ Cardinality(batch) \in Nat /\ Cardinality(batch') \in Nat
        /\ Cardinality(batch') <= Cardinality(batch)
    BY <2>1, BatchShrinks
  <2>3. StepsLeft' <= StepsLeft
    BY <2>1, <2>2 DEF StepsLeft
  <2> QED BY <2>1, <2>3, Zenon
<1>4. ~SpinOnce
  BY DEF SpinOnce, LoopGuard, ReadOver, Doomed, Together
<1>5. CASE Main /\ ~Callback
  <2>1. sigint' = sigint /\ killed' = killed /\ readOk' = readOk
    BY <1>4, <1>5, Zenon DEF Main, Open, OpenFails, UseAfterShutdown, InitStreaming, InitOther,
       ChooseMode, ConfigDone, ConfigFails, LeaveLoop, Close, Shutdown
  <2>2. ASSUME Open \/ OpenFails \/ UseAfterShutdown \/ InitStreaming \/ InitOther
        PROVE  StepsLeft' < StepsLeft
    <3>1. \/ pc = "start" /\ pc' \in {"opened", "deref"}
          \/ pc = "opened" /\ pc' = "chosen"
          \/ pc = "deref" /\ pc' = "crashed"
      BY <2>2, Zenon DEF Open, OpenFails, UseAfterShutdown, InitStreaming, InitOther
    <3> QED BY <3>1 DEF StepsLeft
  <2>3. ASSUME ChooseMode PROVE StepsLeft' < StepsLeft
    <3>1. pc = "chosen" /\ pc' \in {"config", "loop", "closing"}
      BY <2>3 DEF ChooseMode, AfterInit, Places, Modes
    <3> QED BY <3>1 DEF StepsLeft
  <2>4. ASSUME ConfigDone \/ ConfigFails \/ LeaveLoop \/ Close
        PROVE  StepsLeft' < StepsLeft
    <3>1. \/ pc = "config" /\ pc' = "loop"
          \/ pc = "loop" /\ pc' = "closing"
          \/ pc = "closing" /\ pc' = "exited"
      BY <2>4, Zenon DEF ConfigDone, ConfigFails, LeaveLoop, Close
    <3> QED BY <3>1 DEF StepsLeft
  <2>5. StepsLeft' < StepsLeft
    BY <1>4, <1>5, <2>2, <2>3, <2>4, Zenon DEF Main
  <2> QED BY <2>1, <2>5, Zenon
<1> QED BY <1>1, <1>2, <1>3, <1>5, Zenon DEF Next

\* Once SIGINT has come, ROS was shut down or a read has failed, the loop of main
\* is not gone through again: every step but these orders to end is one of at most
\* eight that are left, the callbacks of the running spinOnce included, and neither
\* the order nor the failure is forgotten meanwhile.
THEOREM EndsInSteps ==
  Spec => /\ [](StepsLeft \in 0 .. 8)
          /\ [][Doomed =>
                 /\ \/ StepsLeft' < StepsLeft
                    \/ (sigint' # sigint \/ killed' # killed) /\ StepsLeft' <= StepsLeft
                 /\ sigint => sigint'
                 /\ killed => killed'
                 /\ ~readOk => ~readOk']_vars
<1>1. Init => ReadOver
  <2> SUFFICES ASSUME Init PROVE ReadOver
    OBVIOUS
  <2>1. readOk = TRUE
    BY Zenon DEF Init
  <2> QED BY <2>1 DEF ReadOver
<1>2. Offers => StepsLeft \in 0 .. 8
  BY BatchFinite DEF StepsLeft
<1>3. Places /\ Offers /\ Together /\ ReadOver /\ [Next]_vars =>
        [Doomed =>
           /\ \/ StepsLeft' < StepsLeft
              \/ (sigint' # sigint \/ killed' # killed) /\ StepsLeft' <= StepsLeft
           /\ sigint => sigint'
           /\ killed => killed'
           /\ ~readOk => ~readOk']_vars
  BY EndingStep
<1> QED BY <1>1, <1>2, <1>3, InitTypes, InitAdvertised, InitLife, NextPlaces, NextOffers,
           NextTogether, NextAdvertised, NextTaken, NextReadOver, PTL DEF Spec

=============================================================================
