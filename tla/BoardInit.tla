----------------------------- MODULE BoardInit -----------------------------
(***************************************************************************)
(* How a node that is to stream brings up the board and the IMU: ImuBuf's  *)
(* init and recoverBoard (imu_buf.cpp) and AdiImu::init (adi_imu.cpp), in  *)
(* the order AdiImuBuf::init calls them, one library call per step.        *)
(*                                                                         *)
(* The board is external: it has a status word, registers in RAM and a     *)
(* copy of them in flash.  A bit of the status may be set at any time, at  *)
(* most MaxFaults times.  At most                                          *)
(* MaxFails library calls fail; a command reported as failed may have      *)
(* reached the board all the same.                                         *)
(***************************************************************************)
EXTENDS Integers

CONSTANTS
  MaxFails,     \* bound: library calls that fail
  MaxFaults,    \* bound: bits of the status that are set after the start
  FirstStatus,  \* bound: what the status may be at the start
  NewBits       \* bound: the bits that may be set after the start

\* The status word as getStatusDescription reports it.
Infos == {"BUF_WTRMRK", "BUF_FULL", "PPS_UNLOCK", "SCRIPT_ACTIVE"}
Warnings == {"TEMP_WARNING"}
Errors == {"SPI_ERROR", "SPI_OVRFLW", "OVERRUN", "DMA_ERROR", "SCRIPT_ERROR",
           "FLASH_ERROR", "FLASH_UPD_ERROR", "FAULT", "WATCHDOG"}
StatusBits == Infos \cup Warnings \cup Errors

\* status_error_mask of recoverBoard.
RecoverMask == {"SPI_ERROR", "SPI_OVRFLW", "OVERRUN", "DMA_ERROR", "SCRIPT_ERROR",
                "FLASH_ERROR", "FLASH_UPD_ERROR", "FAULT", "WATCHDOG"}

\* Mutant of InitMask: the last line of the mask is missing.
InitMaskShort == RecoverMask \ {"WATCHDOG"}

\* Mutant of InitMask: whatever the board has to say.
InitMaskAll == StatusBits

\* status_error_mask of init, written out a second time.
InitMask == {"SPI_ERROR", "SPI_OVRFLW", "OVERRUN", "DMA_ERROR", "SCRIPT_ERROR",
             "FLASH_ERROR", "FLASH_UPD_ERROR", "FAULT", "WATCHDOG"}

ASSUME BoundAssumption ==
  /\ MaxFails \in Nat /\ MaxFaults \in Nat
  /\ FirstStatus \subseteq SUBSET StatusBits /\ NewBits \subseteq StatusBits

TryCount == 3     \* try_count of recoverBoard, "Fixed to 3 for now"
IdRetries == 3    \* attempts of AdiImu::init to verify the product ID

VARIABLES
  enabled,    \* b_enable_init_recovery_
  pc,         \* the library call to be made next, or the mode of the node
  tries,      \* try_count
  hasError,   \* b_has_error
  detected,   \* b_buffer_detected
  idTry,      \* retry_id_check
  status,     \* the board: the bits of the status word that are set
  stuck,      \* the board: clearing the fault does not help
  ram,        \* the board: "user" or "default" registers
  flash,      \* the board: "user" or "default" registers kept
  fails,      \* history: calls of the recovery loop that failed
  lateFails,  \* history: later calls that failed, the product ID aside
  faults,     \* history: faults that appeared after the start
  fresh,      \* history: a fault appeared after the status was last read
  cause       \* history: in this attempt an error was read or no board detected

code    == <<enabled, pc, tries, hasError, detected, idTry>>
board   == <<status, stuck, ram, flash>>
history == <<fails, lateFails, faults, fresh, cause>>
vars    == <<code, board, history>>

\* The board reports an error.
error == status \cap Errors # {}

-----------------------------------------------------------------------------
\* recoverBoard runs first if it is enabled.
Init ==
  /\ enabled \in BOOLEAN
  /\ pc = IF enabled THEN "detect" ELSE "getStatus"
  /\ tries = TryCount /\ hasError = TRUE /\ detected = FALSE /\ idTry = 0
  /\ status \in FirstStatus /\ stuck \in BOOLEAN
  /\ ram = "user" /\ flash = "user"
  /\ fails = 0 /\ lateFails = 0 /\ faults = 0
  /\ fresh = FALSE /\ cause = FALSE

Modes == {"streaming", "recovery"}

\* Something new sets a bit of the status.
FaultAppears ==
  /\ pc \notin Modes /\ faults < MaxFaults
  /\ \E b \in NewBits : /\ status' = status \cup {b}
                         /\ fresh' = (fresh \/ b \in Errors)
  /\ faults' = faults + 1
  /\ UNCHANGED <<code, stuck, ram, flash, fails, lateFails, cause>>

\* Mutant of NextAttempt: the test sees try_count before it is decremented.
NextAttemptLate(errorLeft) ==
  /\ tries' = tries - 1 /\ hasError' = errorLeft
  /\ pc' = IF tries >= 0 /\ errorLeft THEN "detect" ELSE "getStatus"

\* Mutant of NextAttempt: an attempt that fails is not counted.
NextAttemptFree(errorLeft) ==
  /\ tries' = tries /\ hasError' = errorLeft
  /\ pc' = IF errorLeft THEN "detect" ELSE "getStatus"

\* Mutant of NextAttempt: init gives up when recoverBoard returns false.
NextAttemptHonoured(errorLeft) ==
  /\ tries' = tries - 1 /\ hasError' = errorLeft
  /\ pc' = CASE ~errorLeft              -> "getStatus"
             [] errorLeft /\ tries > 0  -> "detect"
             [] errorLeft /\ tries <= 0 -> "recovery"

\* The end of an attempt: try_count--, then the test of the while.  What
\* recoverBoard returns in the end is not looked at by init, which reads the
\* status again.
NextAttempt(errorLeft) ==
  /\ tries' = tries - 1 /\ hasError' = errorLeft
  /\ pc' = IF tries' >= 0 /\ errorLeft THEN "detect" ELSE "getStatus"

\* A call of the recovery loop fails.
LoopFailure == fails + lateFails < MaxFails /\ fails' = fails + 1

LateFailure == fails + lateFails < MaxFails /\ lateFails' = lateFails + 1

-----------------------------------------------------------------------------
\* The recovery loop.

\* detect: the result is kept until the status has been read.
Detect ==
  /\ pc = "detect"
  /\ detected' \in BOOLEAN
  /\ IF detected' THEN UNCHANGED fails ELSE LoopFailure
  /\ cause' = ~detected'
  /\ pc' = "loopStatus"
  /\ UNCHANGED <<enabled, tries, hasError, idTry, board, lateFails, faults, fresh>>

\* Mutant of Suspect: the recovery runs at every start.
SuspectAlways == TRUE

\* The condition to try a recovery once the status is known.
Suspect == status \cap RecoverMask # {} \/ ~detected

\* getStatus succeeds.
LoopStatus ==
  /\ pc = "loopStatus"
  /\ fresh' = FALSE /\ cause' = (cause \/ error)
  /\ IF Suspect THEN pc' = "factoryReset" /\ UNCHANGED <<tries, hasError>>
     ELSE NextAttempt(FALSE)
  /\ UNCHANGED <<enabled, detected, idTry, board, fails, lateFails, faults>>

\* getStatus fails: nothing is tried.
LoopStatusFails ==
  /\ pc = "loopStatus"
  /\ LoopFailure
  /\ NextAttempt(TRUE)
  /\ UNCHANGED <<enabled, detected, idTry, board, lateFails, faults, fresh, cause>>

\* factoryReset: the registers take their defaults.
FactoryReset ==
  /\ pc = "factoryReset"
  /\ \/ ram' = "default" /\ pc' = "clearFault" /\ UNCHANGED <<tries, hasError, fails>>
     \/ ram' \in {ram, "default"} /\ LoopFailure /\ NextAttempt(TRUE)
  /\ UNCHANGED <<enabled, detected, idTry, status, stuck, flash, lateFails, faults, fresh, cause>>

\* The status after the board was told to clear its fault.
Cleared == IF stuck THEN status ELSE status \ Errors

\* clearFault, only after the reset succeeded.
ClearFault ==
  /\ pc = "clearFault"
  /\ \/ /\ status' = Cleared
        /\ pc' = "flashUpdate" /\ UNCHANGED <<tries, hasError, fails>>
     \/ /\ status' \in {status, Cleared}
        /\ LoopFailure /\ NextAttempt(TRUE)
  /\ UNCHANGED <<enabled, detected, idTry, stuck, ram, flash, lateFails, faults, fresh, cause>>

\* flashUpdate, only after the fault was cleared: the registers are kept.
\* The status is not read again in this attempt.
FlashUpdate ==
  /\ pc = "flashUpdate"
  /\ \/ flash' = ram /\ UNCHANGED fails
     \/ flash' \in {flash, ram} /\ LoopFailure
  /\ NextAttempt(TRUE)
  /\ UNCHANGED <<enabled, detected, idTry, status, stuck, ram, lateFails, faults, fresh, cause>>

-----------------------------------------------------------------------------
\* The rest of ImuBuf::init and AdiImu::init; a failure leaves the node in
\* RECOVERY (AdiImuBuf::init).

StatusOk == status \cap InitMask = {}

GetStatus ==
  /\ pc = "getStatus"
  /\ \/ /\ fresh' = FALSE
        /\ pc' = IF StatusOk THEN "detectAgain" ELSE "recovery"
        /\ UNCHANGED lateFails
     \/ LateFailure /\ pc' = "recovery" /\ UNCHANGED fresh
  /\ UNCHANGED <<enabled, tries, hasError, detected, idTry, board, fails, faults, cause>>

\* The second detect and imubuf_init.
Proceed(from, to) ==
  /\ pc = from
  /\ \/ pc' = to /\ UNCHANGED lateFails
     \/ LateFailure /\ pc' = "recovery"
  /\ UNCHANGED <<enabled, tries, hasError, detected, idTry, board, fails, faults, fresh, cause>>

\* AdiImu::init's loop condition after n failed attempts.
RetryId(n) == n < IdRetries

\* adi_imu_Init cannot verify the product ID.
IdVerifyFails ==
  /\ pc = "imuInit"
  /\ idTry' = idTry + 1
  /\ pc' = IF RetryId(idTry') THEN "imuInit" ELSE "recovery"
  /\ UNCHANGED <<enabled, tries, hasError, detected, board, history>>

Next ==
  \/ FaultAppears
  \/ Detect
  \/ LoopStatus
  \/ LoopStatusFails
  \/ FactoryReset
  \/ ClearFault
  \/ FlashUpdate
  \/ GetStatus
  \/ Proceed("detectAgain", "bufInit")
  \/ Proceed("bufInit", "imuInit")
  \/ Proceed("imuInit", "streaming")
  \/ IdVerifyFails

Spec == Init /\ [][Next]_vars /\ WF_vars(Next)

-----------------------------------------------------------------------------
Calls == {"detect", "loopStatus", "factoryReset", "clearFault", "flashUpdate",
          "getStatus", "detectAgain", "bufInit", "imuInit"}

TypeOK ==
  /\ enabled \in BOOLEAN /\ pc \in Calls \cup Modes
  /\ tries \in -1 .. TryCount /\ hasError \in BOOLEAN
  /\ detected \in BOOLEAN /\ idTry \in 0 .. IdRetries
  /\ status \in SUBSET StatusBits /\ stuck \in BOOLEAN
  /\ ram \in {"user", "default"} /\ flash \in {"user", "default"}
  /\ fails \in 0 .. MaxFails /\ lateFails \in 0 .. MaxFails
  /\ faults \in 0 .. MaxFaults /\ fresh \in BOOLEAN /\ cause \in BOOLEAN

\* ImuBuf::init: a node never streams from a board with a bit set that
\* getStatusDescription calls an error and that it could have seen; only one
\* set after the last status read escapes.
StreamsOnlyClean == pc = "streaming" /\ error => fresh

\* recoverBoard and AdiImu::init together: with recovery enabled, a fault that
\* can be cleared and at most three failed calls in the loop still end in
\* STREAMING, even when the fourth attempt is the one that works and
\* recoverBoard itself reports failure; two failed product ID checks as well.
RecoversWithinRetries ==
  /\ enabled /\ ~stuck /\ faults = 0
  /\ fails <= 3 /\ lateFails = 0 /\ idTry < IdRetries
  => pc # "recovery"

\* What getStatusDescription calls information or a warning - a full buffer, a
\* temperature, a PPS that is not locked - never keeps a node from streaming:
\* RECOVERY has an error of the board, a failed call of init, or an IMU whose
\* product ID was refused three times as its cause (ImuBuf::init,
\* AdiImu::init).
RecoveryHasCause ==
  pc = "recovery" => error \/ lateFails > 0 \/ idTry = IdRetries

\* The registers a user has set are reset, and the flash that keeps them is
\* overwritten, only in an attempt that has read an error itself or has not
\* detected the board: not for a warning, for a status that could not be read, or
\* for what an earlier attempt found (recoverBoard's condition).  That one failed
\* detection suffices is the code's own choice.
FlashWriteHasCause == [][ram' # ram \/ flash' # flash => enabled /\ cause]_vars

\* The bring-up ends, in STREAMING or in RECOVERY.
ComesUp == <>(pc \in Modes)

=============================================================================
