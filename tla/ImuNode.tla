------------------------------ MODULE ImuNode ------------------------------
(***************************************************************************)
(* The adrd2121_imu_node process: main (adrd2121_imu_node.cpp), AdiImuBuf  *)
(* (adi_imu_buf.cpp) and the callbacks of ImuBuf (imu_buf.cpp), from start *)
(* to exit.  There is one thread: ros::spinOnce takes the callbacks that   *)
(* are ready and runs them one after the other; main tests its loop        *)
(* condition only between two calls of spinOnce.  SIGINT comes at any      *)
(* time and sets a flag; at any time ROS may be shut down from outside,    *)
(* by roscpp's own threads.                                                *)
(*                                                                         *)
(* The board is external.  Every library call may fail, and a command that *)
(* is reported as failed may or may not have reached the board.  How       *)
(* ImuBuf::init, AdiImu::config and ImuBuf::config come to their result is *)
(* the subject of BoardInit and DeviceConfig; here it is a choice.         *)
(***************************************************************************)
EXTENDS Naturals

CONSTANTS
  ProdIds   \* values of imu_prod_id to consider, out of 16470, 16495, 16500

ASSUME ProdAssumption == ProdIds \subseteq {16470, 16495, 16500}

Modes == {"STREAMING", "RECOVERY", "UNDEFINED"}

RecoveryServices == {"factory_reset", "clear_fault", "flash_update"}

Services == RecoveryServices \cup {"get_buffer_status", "trigger_imu_glob_cmd"}

\* The IMUs that know the bias correction command.
BiasCorrectable == {16470, 16495}

VARIABLES
  prodId,    \* imu_prod_id
  msgValid,  \* whether msg_type names one of the two message types
  pc,        \* where main is
  mode,      \* AdiImuBuf::mode_of_operation_
  bufMode,   \* ImuBuf::mode_of_operation_
  alive,     \* p_adi_imu_buf is not nullptr
  rosOk,     \* ros::ok()
  killed,    \* history: ROS was shut down from outside
  sigint,    \* g_shutdown_signal
  readOk,    \* b_read_pub_data_success_
  firstRead, \* b_first_read
  timer,     \* imu_pub_timer_callback_ has been created
  services,  \* services advertised
  batch,     \* callbacks taken by the running spinOnce, not yet called
  uart,      \* uartDev.status >= IMUBUF_UART_CONFIGURED
  capturing, \* the board: data capture is on
  trouble,   \* history: the library or the board has failed
  stopFailed \* history: the destructor's stop of the capture has failed

config  == <<prodId, msgValid>>
process == <<alive, rosOk, killed, timer, services>>
reading == <<readOk, firstRead>>
board   == <<uart, capturing, trouble, stopFailed>>
vars == <<config, pc, mode, bufMode, process, sigint, reading, batch, board>>

-----------------------------------------------------------------------------
\* The library and the board.

\* StopCapture: what the board does of it when the call returns ok.
StopsTo(from, ok, to) ==
  \/ ok /\ uart /\ to = FALSE
  \/ ~ok /\ to \in {from, FALSE} /\ (~uart => to = from)

\* Mutant of StartsTo: startBufferRead only discards a burst.
StartsToNothing(from, ok, to) == to = from

\* StartCapture and the burst that is discarded after it.
StartsTo(from, ok, to) ==
  \/ ok /\ to = TRUE
  \/ ~ok /\ to \in {from, TRUE}

\* A failure is trouble unless it only says that a capture was on already.
StartTrouble(from, ok) == ~ok /\ ~from

-----------------------------------------------------------------------------
\* Before init: the parameters are whatever the user set.
Init ==
  /\ prodId \in ProdIds /\ msgValid \in BOOLEAN
  /\ pc = "start"
  /\ mode \in Modes /\ bufMode = "STREAMING"
  /\ alive = TRUE /\ rosOk = TRUE /\ killed = FALSE /\ sigint = FALSE
  /\ readOk = TRUE /\ firstRead = TRUE
  /\ timer = FALSE /\ services = {} /\ batch = {}
  /\ uart = FALSE /\ capturing \in BOOLEAN
  /\ trouble = FALSE /\ stopFailed = FALSE

\* Mutant of StopOnDelete: the destructor leaves the capture to the board.
StopOnDeleteNot(to, bad) == to = capturing /\ bad = FALSE

\* ImuBuf::~ImuBuf, when there is an object: stop the capture if the port can
\* be used.  Nothing looks at the result.
StopOnDelete(to, bad) ==
  IF alive /\ uart THEN StopsTo(capturing, ~bad, to)
  ELSE to = capturing /\ bad = FALSE

\* shutdown(): delete the object, if there is one, and end ROS.
Shutdown(failed) ==
  /\ rosOk' = FALSE /\ alive' = FALSE /\ timer' = FALSE /\ services' = {}
  /\ \E bad \in BOOLEAN : /\ StopOnDelete(capturing', bad)
                          /\ trouble' = (trouble \/ failed \/ bad)
                          /\ stopFailed' = (stopFailed \/ bad)
  /\ UNCHANGED killed

\* AdiImuBuf::init, hw_Init fails: main calls shutdown() and goes on.  The
\* device record was never initialised, so its uart status is anything.
OpenFails ==
  /\ pc = "start"
  /\ pc' = "deref"
  /\ uart' \in BOOLEAN
  /\ rosOk' = FALSE /\ alive' = FALSE
  /\ capturing' \in {capturing, capturing /\ ~uart'}
  /\ trouble' = TRUE /\ stopFailed' = (uart' /\ capturing')
  /\ UNCHANGED <<config, mode, bufMode, killed, timer, services, sigint, reading, batch>>

\* main reads the mode of operation through p_adi_imu_buf, a null pointer by
\* now: the process is killed.
UseAfterShutdown ==
  /\ pc = "deref"
  /\ pc' = "crashed"
  /\ UNCHANGED <<config, mode, bufMode, process, sigint, reading, batch, board>>

\* AdiImuBuf::init, hw_Init succeeds.
Open ==
  /\ pc = "start"
  /\ pc' = "opened"
  /\ uart' \in BOOLEAN
  /\ UNCHANGED <<config, mode, bufMode, process, sigint, reading, batch, capturing, trouble,
                 stopFailed>>

\* Mutant of OfferedServices: one name is misspelt.
OfferedMisspelt(m) ==
  {"get_buffer_status"} \cup
    (IF m = "RECOVERY" THEN {"factory_reset", "clear_faults", "flash_update"} ELSE {})

\* Mutant of OfferedServices: the services do not depend on the mode.
OfferedAlways(m) == RecoveryServices \cup {"get_buffer_status"}

\* ImuBuf::initServiceServers.
OfferedServices(m) ==
  {"get_buffer_status"} \cup (IF m = "RECOVERY" THEN RecoveryServices ELSE {})

\* What advertising services comes to: nothing once ROS is shut down.
Online(servs) == IF rosOk THEN servs ELSE {}

\* AdiImuBuf::init after hw_Init, mode STREAMING: a board or an IMU that
\* cannot be initialised leaves the node in RECOVERY.
InitStreaming ==
  /\ pc = "opened" /\ mode = "STREAMING"
  /\ \E ok \in BOOLEAN :
       /\ mode' = IF ok THEN "STREAMING" ELSE "RECOVERY"
       /\ uart' = IF ok THEN TRUE ELSE uart
       /\ trouble' = (trouble \/ ~ok)
  /\ bufMode' = mode'
  /\ services' = Online(OfferedServices(mode'))
  /\ pc' = "chosen"
  /\ UNCHANGED <<config, alive, rosOk, killed, timer, sigint, reading, batch,
                 capturing, stopFailed>>

\* AdiImuBuf::init after hw_Init, mode RECOVERY or a number that is neither.
InitOther ==
  /\ pc = "opened" /\ mode # "STREAMING"
  /\ bufMode' = mode
  /\ services' = IF mode = "RECOVERY" THEN Online(OfferedServices(mode)) ELSE {}
  /\ pc' = "chosen"
  /\ UNCHANGED <<config, mode, alive, rosOk, killed, timer, sigint, reading, batch, board>>

\* Mutant of AfterInit: only a node that streams enters a loop.
AfterInitStreamOnly(m) == IF m = "STREAMING" THEN "config" ELSE "closing"

\* main: where a node in this mode goes.
AfterInit(m) ==
  CASE m = "STREAMING" -> "config"
    [] m = "RECOVERY"  -> "loop"
    [] OTHER           -> "closing"

ChooseMode ==
  /\ pc = "chosen"
  /\ pc' = AfterInit(mode)
  /\ UNCHANGED <<config, mode, bufMode, process, sigint, reading, batch, board>>

\* AdiImuBuf::config succeeds.
ConfigDone ==
  /\ pc = "config" /\ msgValid
  /\ timer' = TRUE
  /\ services' = services \cup
       Online(IF prodId \in BiasCorrectable THEN {"trigger_imu_glob_cmd"} ELSE {})
  /\ pc' = "loop"
  /\ UNCHANGED <<config, mode, bufMode, alive, rosOk, killed, sigint, reading, batch, board>>

\* AdiImuBuf::config fails, in the library or for a msg_type that is unknown:
\* shutdown(), then the loop whose first test is ros::ok().
ConfigFails ==
  /\ pc = "config"
  /\ \E failed \in BOOLEAN : Shutdown(failed) /\ (msgValid => failed)
  /\ pc' = "loop"
  /\ UNCHANGED <<config, mode, bufMode, sigint, reading, batch, uart>>

-----------------------------------------------------------------------------
\* The loops of main.

\* Mutants of LoopGuard: SIGINT is not looked at; nor is a failed read; the
\* loop ends with the capture.
LoopGuardNoSignal == rosOk /\ (mode = "STREAMING" => readOk)
LoopGuardNoRead   == rosOk /\ ~sigint
LoopGuardCapture  == rosOk /\ ~sigint /\ readOk /\ (mode = "STREAMING" => capturing)

\* The condition of the loop main is in.
LoopGuard == rosOk /\ ~sigint /\ (mode = "STREAMING" => readOk)

\* The callbacks ros::spinOnce may find ready: calls of the advertised
\* services, and the timer, which is queued again only after it has run.
Ready == services \cup (IF timer THEN {"timer"} ELSE {})

\* ros::spinOnce takes what is ready now; what comes later waits.
SpinOnce ==
  /\ pc = "loop" /\ LoopGuard
  /\ \E ready \in SUBSET Ready :
       /\ batch' = ready
       /\ pc' = IF ready = {} THEN "loop" ELSE "spin"
  /\ UNCHANGED <<config, mode, bufMode, process, sigint, reading, board>>

LeaveLoop ==
  /\ pc = "loop" /\ ~LoopGuard
  /\ pc' = "closing"
  /\ UNCHANGED <<config, mode, bufMode, process, sigint, reading, batch, board>>

\* The last shutdown() of main; the object may be gone already.
Close ==
  /\ pc = "closing"
  /\ Shutdown(FALSE)
  /\ pc' = "exited"
  /\ UNCHANGED <<config, mode, bufMode, sigint, reading, batch, uart>>

\* gracefulShutdownHandler, whenever the signal comes.
Sigint ==
  /\ ~sigint /\ pc \notin {"exited", "crashed"}
  /\ sigint' = TRUE
  /\ UNCHANGED <<config, pc, mode, bufMode, process, reading, batch, board>>

\* ROS is shut down from outside, by rosnode kill or because a second node took
\* the name: the services are withdrawn, calls of them that wait may be dropped,
\* and no more callbacks are taken.  A timer's callback that was taken still runs.
RosStops ==
  /\ rosOk
  /\ rosOk' = FALSE /\ killed' = TRUE /\ services' = {}
  /\ batch' \in SUBSET batch /\ batch \ batch' \subseteq services
  /\ pc' = IF pc = "spin" /\ batch' = {} THEN "loop" ELSE pc
  /\ UNCHANGED <<config, mode, bufMode, alive, timer, sigint, reading, board>>

\* A callback has returned; spinOnce returns after the last one.
Return(cb) ==
  /\ batch' = batch \ {cb}
  /\ pc' = IF batch' = {} THEN "loop" ELSE "spin"
  /\ UNCHANGED <<config, mode, bufMode, process, sigint, uart, stopFailed>>

Called(cb) == pc = "spin" /\ cb \in batch

\* Mutant of ReadOutcome: readPubData reports that the capture was started.
ReadOutcomeStarted(on, ok) == ok = TRUE

\* imubuf_ReadBurstN: no frames come from a board that does not capture.
ReadOutcome(on, ok) == ok => on

\* AdiImuBuf::readPubData and ImuBuf::readPubData: the first call starts the
\* capture, and whether that succeeded is forgotten for the read's result.
ReadPubData ==
  /\ Called("timer")
  /\ \E on \in BOOLEAN, started \in BOOLEAN, ok \in BOOLEAN :
       /\ IF firstRead THEN StartsTo(capturing, started, on)
          ELSE on = capturing /\ started = TRUE
       /\ ReadOutcome(on, ok)
       /\ capturing' = on /\ readOk' = ok
       /\ trouble' = (\/ trouble
                      \/ firstRead /\ StartTrouble(capturing, started)
                      \/ on /\ ~ok)
  /\ firstRead' = FALSE
  /\ Return("timer")

\* stopBufferRead, then the work that needs the capture stopped, then
\* startBufferRead; a stop that failed skips the rest.
Paused(workOk) ==
  \E stopped \in BOOLEAN, off \in BOOLEAN, started \in BOOLEAN :
    /\ StopsTo(capturing, stopped, off)
    /\ IF stopped THEN StartsTo(off, started, capturing')
       ELSE capturing' = off
    /\ trouble' = (\/ trouble \/ ~stopped \/ ~workOk
                   \/ StartTrouble(off, started))

\* Mutant of GetBufferStatus: the capture is paused in the other mode.
GetBufferStatusSwapped ==
  /\ Called("get_buffer_status")
  /\ \E statusOk \in BOOLEAN :
       IF bufMode = "RECOVERY" THEN Paused(statusOk)
       ELSE trouble' = (trouble \/ ~statusOk) /\ UNCHANGED capturing
  /\ UNCHANGED reading
  /\ Return("get_buffer_status")

\* ImuBuf::getStatusCallback: by its own copy of the mode.
GetBufferStatus ==
  /\ Called("get_buffer_status")
  /\ \E statusOk \in BOOLEAN :
       IF bufMode = "STREAMING" THEN Paused(statusOk)
       ELSE trouble' = (trouble \/ ~statusOk) /\ UNCHANGED capturing
  /\ UNCHANGED reading
  /\ Return("get_buffer_status")

\* AdiImuBuf::triggerImuGlobCmd for the bit of the bias correction.
TriggerBias ==
  /\ Called("trigger_imu_glob_cmd")
  /\ \E updateOk \in BOOLEAN : Paused(updateOk)
  /\ UNCHANGED reading
  /\ Return("trigger_imu_glob_cmd")

\* AdiImuBuf::triggerImuGlobCmd for any other bit: refused.
TriggerRefused ==
  /\ Called("trigger_imu_glob_cmd")
  /\ UNCHANGED <<reading, capturing, trouble>>
  /\ Return("trigger_imu_glob_cmd")

\* factoryResetCallback, clearFaultCallback, flashUpdateCallback.
RecoveryCommand(srv) ==
  /\ Called(srv)
  /\ trouble' \in {trouble, TRUE}
  /\ UNCHANGED <<reading, capturing>>
  /\ Return(srv)

Callback ==
  \/ ReadPubData
  \/ GetBufferStatus
  \/ TriggerBias
  \/ TriggerRefused
  \/ \E srv \in RecoveryServices : RecoveryCommand(srv)

Main ==
  \/ Open \/ OpenFails \/ UseAfterShutdown
  \/ InitStreaming \/ InitOther \/ ChooseMode
  \/ ConfigDone \/ ConfigFails
  \/ SpinOnce \/ LeaveLoop \/ Close
  \/ Callback

Next == Main \/ Sigint \/ RosStops

\* The process keeps running, and while it spins its timer keeps firing.
Fairness ==
  /\ WF_vars(Main)
  /\ SF_vars(SpinOnce /\ "timer" \in batch')

Spec == Init /\ [][Next]_vars /\ Fairness

-----------------------------------------------------------------------------
Locations == {"start", "opened", "deref", "chosen", "config", "loop", "spin",
              "closing", "exited", "crashed"}

TypeOK ==
  /\ prodId \in ProdIds /\ msgValid \in BOOLEAN
  /\ pc \in Locations /\ mode \in Modes /\ bufMode \in Modes
  /\ alive \in BOOLEAN /\ rosOk \in BOOLEAN /\ killed \in BOOLEAN /\ sigint \in BOOLEAN
  /\ readOk \in BOOLEAN /\ firstRead \in BOOLEAN /\ timer \in BOOLEAN
  /\ services \in SUBSET Services /\ batch \in SUBSET (Services \cup {"timer"})
  /\ uart \in BOOLEAN /\ capturing \in BOOLEAN
  /\ trouble \in BOOLEAN /\ stopFailed \in BOOLEAN

\* A read never fails for want of a capture the node itself left off: however
\* the timer and the services interleave, and even when a service ran before
\* the first read, readPubData fails only after a failure of the library.
ReadFailureHasCause == ~readOk => trouble

\* README, "Advertised services": the recovery services only in RECOVERY,
\* trigger_imu_glob_cmd only in STREAMING and never for an ADIS16500; a node
\* that fell back to RECOVERY offers what one configured for it offers, and
\* ImuBuf answers by the mode main runs in.
ServicesMatchMode ==
  pc \in {"loop", "spin"} /\ rosOk =>
    /\ bufMode = mode
    /\ "get_buffer_status" \in services
    /\ RecoveryServices \cap services =
         (IF mode = "RECOVERY" THEN RecoveryServices ELSE {})
    /\ "trigger_imu_glob_cmd" \in services
         <=> mode = "STREAMING" /\ prodId # 16500
    /\ timer <=> mode = "STREAMING"

\* The node ends only for a reason: it was told to, by SIGINT or by ROS, the
\* board failed, or it cannot run with its parameters.
ExitHasCause ==
  pc = "exited" => sigint \/ killed \/ trouble \/ ~msgValid \/ mode = "UNDEFINED"

\* In RECOVERY, whatever led there and whatever fails, the node goes on and the
\* recovery services stay until it is told to end, by SIGINT or by ROS.
RecoveryUntilTold ==
  pc \in {"loop", "spin", "closing", "exited"} /\ mode = "RECOVERY"
    => sigint \/ killed \/ RecoveryServices \subseteq services

\* However the node ends, after a failed read or a failed configuration as well
\* as when it is told to, the board is left capturing only if it refused the
\* destructor's own command to stop, or if its port could never be used, which
\* is not so for a node that has streamed (ImuBuf::~ImuBuf).
NoOrphanCapture ==
  pc = "exited" /\ capturing => stopFailed \/ (~uart /\ mode # "STREAMING")

\* Told to end, by SIGINT or by ROS, the process ends (gracefulShutdownHandler
\* and both loops).
SignalEndsNode == sigint \/ killed ~> pc \in {"exited", "crashed"}

\* After a failed read the process ends.
FailedReadEndsNode == ~readOk ~> pc = "exited"

\* A capture that a service could not restart is not left silent: the next
\* timer read fails and ends the node, unless the capture was started again
\* ("No data will be published. Need to re-launch node").
StoppedStreamEndsNode ==
  (pc = "loop" /\ mode = "STREAMING" /\ ~capturing) ~> (capturing \/ pc = "exited")

\* The comment before the test says that without hardware the node is not
\* allowed to run on; shutdown() is the end of it.
NeverUsesDeletedObject == pc # "crashed"

\* What the life of the node is to those around it.  Until a loop is entered it
\* is starting, and in a mode that is neither it never does more.
Phase ==
  IF ~alive THEN "ended"
  ELSE IF mode = "UNDEFINED" \/ pc \in {"start", "opened", "chosen", "config"}
  THEN "starting"
  ELSE mode

Life == INSTANCE NodeLife
          WITH phase <- Phase, valid <- msgValid /\ mode # "UNDEFINED",
               Always <- {"get_buffer_status"}, Stream <- {"trigger_imu_glob_cmd"},
               Recovery <- RecoveryServices

\* The process implements NodeLife: through every failure and order of
\* callbacks the mode, the services and the capture of the board change only as
\* it says (main, AdiImuBuf::init and config, shutdown, the service callbacks).
LifeSpec == Life!Spec

=============================================================================
