-------------------------- MODULE BoardInit_proofs --------------------------
(***************************************************************************)
(* Proofs about BoardInit for every number of failing calls and of faults. *)
(***************************************************************************)
EXTENDS BoardInit, TLAPS

\* The calls of recoverBoard's loop, and those after the last status.
LoopCalls == {"detect", "loopStatus", "factoryReset", "clearFault", "flashUpdate"}
Confirmed == {"detectAgain", "bufInit", "imuInit", "streaming"}

\* The two masks of the code and the bits it calls errors are the same.
LEMMA Masks == (Suspect <=> error \/ ~detected) /\ (StatusOk <=> ~error)
BY DEF Suspect, StatusOk, error, RecoverMask, InitMask, Errors

LEMMA SameStatus == status' = status => (error' <=> error)
BY DEF error

LEMMA Bounds == MaxFails \in Nat /\ MaxFaults \in Nat
BY BoundAssumption

\* What clearing a fault does to the status.
LEMMA ClearedStatus ==
  /\ status \in SUBSET StatusBits => Cleared \in SUBSET StatusBits
  /\ status' = Cleared => (error' => error) /\ (~stuck => ~error')
BY DEF Cleared, error

\* TypeOK in two parts, the Boolean variables with the status and the others.
Flags ==
  /\ enabled \in BOOLEAN /\ hasError \in BOOLEAN /\ detected \in BOOLEAN
  /\ status \in SUBSET StatusBits /\ stuck \in BOOLEAN
  /\ fresh \in BOOLEAN /\ cause \in BOOLEAN

\* try_count is above -1 while the loop runs, and retry_id_check below 3
\* while it is tested.
Counting ==
  /\ pc \in Calls \cup Modes
  /\ tries \in -1 .. TryCount /\ idTry \in 0 .. IdRetries
  /\ ram \in {"user", "default"} /\ flash \in {"user", "default"}
  /\ fails \in 0 .. MaxFails /\ lateFails \in 0 .. MaxFails
  /\ faults \in 0 .. MaxFaults
  /\ pc \in LoopCalls => tries >= 0
  /\ pc \in Calls \ {"imuInit"} => idTry = 0
  /\ pc = "imuInit" => idTry < IdRetries

\* The constructor and the board start within the types.
LEMMA InitTypes == Init => Flags /\ Counting
<1> SUFFICES ASSUME Init PROVE Flags /\ Counting
  OBVIOUS
<1>1. Flags
  BY BoundAssumption, Zenon DEF Init, Flags
<1>2. /\ pc \in {"detect", "getStatus"} /\ tries = TryCount /\ idTry = 0
      /\ ram = "user" /\ flash = "user"
      /\ fails = 0 /\ lateFails = 0 /\ faults = 0
  BY Zenon DEF Init
<1>3. Counting
  BY <1>2, Bounds DEF Counting, Calls, Modes, LoopCalls, TryCount, IdRetries
<1> QED BY <1>1, <1>3

\* Every step keeps the Boolean variables Boolean.
LEMMA NextFlags == Flags /\ [Next]_vars => Flags'
<1> SUFFICES ASSUME Flags, [Next]_vars PROVE Flags'
  OBVIOUS
<1> USE DEF Flags, NextAttempt, board, code, history
<1>1. CASE FaultAppears
  <2>1. status' \in SUBSET StatusBits
    BY <1>1, BoundAssumption DEF FaultAppears
  <2> QED BY <1>1, <2>1, Zenon DEF FaultAppears
<1>2. CASE Detect
  BY <1>2, Zenon DEF Detect
<1>3. CASE LoopStatus
  BY <1>3, Zenon DEF LoopStatus
<1>4. CASE LoopStatusFails
  BY <1>4, Zenon DEF LoopStatusFails
<1>5. CASE FactoryReset
  BY <1>5, Zenon DEF FactoryReset
<1>6. CASE ClearFault
  BY <1>6, ClearedStatus, Zenon DEF ClearFault
<1>7. CASE FlashUpdate
  BY <1>7, Zenon DEF FlashUpdate
<1>8. CASE GetStatus
  BY <1>8, Zenon DEF GetStatus
<1>9. CASE Proceed("detectAgain", "bufInit")
  BY <1>9, Zenon DEF Proceed
<1>10. CASE Proceed("bufInit", "imuInit")
  BY <1>10, Zenon DEF Proceed
<1>11. CASE Proceed("imuInit", "streaming")
  BY <1>11, Zenon DEF Proceed
<1>12. CASE IdVerifyFails
  BY <1>12, Zenon DEF IdVerifyFails, RetryId
<1>13. CASE UNCHANGED vars
  BY <1>13, Zenon DEF vars
<1> QED BY <1>1, <1>2, <1>3, <1>4, <1>5, <1>6, <1>7, <1>8, <1>9, <1>10,
           <1>11, <1>12, <1>13 DEF Next

\* Every step keeps the locations and the range of the two retry counters.
LEMMA NextCounting == Counting /\ [Next]_vars => Counting'
<1> SUFFICES ASSUME Counting, [Next]_vars PROVE Counting'
  OBVIOUS
<1> USE Bounds DEF Counting, Calls, Modes, LoopCalls, TryCount, IdRetries,
      NextAttempt, LoopFailure, LateFailure, board, code, history
<1>1. CASE FaultAppears
  BY <1>1 DEF FaultAppears
<1>2. CASE Detect
  BY <1>2 DEF Detect
<1>3. CASE LoopStatus
  BY <1>3, Masks DEF LoopStatus
<1>4. CASE LoopStatusFails
  BY <1>4 DEF LoopStatusFails
<1>5. CASE FactoryReset
  BY <1>5 DEF FactoryReset
<1>6. CASE ClearFault
  BY <1>6 DEF ClearFault
<1>7. CASE FlashUpdate
  BY <1>7 DEF FlashUpdate
<1>8. CASE GetStatus
  BY <1>8 DEF GetStatus
<1>9. CASE Proceed("detectAgain", "bufInit")
  BY <1>9 DEF Proceed
<1>10. CASE Proceed("bufInit", "imuInit")
  BY <1>10 DEF Proceed
<1>11. CASE Proceed("imuInit", "streaming")
  BY <1>11 DEF Proceed
<1>12. CASE IdVerifyFails
  BY <1>12 DEF IdVerifyFails, RetryId
<1>13. CASE UNCHANGED vars
  BY <1>13 DEF vars
<1> QED BY <1>1, <1>2, <1>3, <1>4, <1>5, <1>6, <1>7, <1>8, <1>9, <1>10,
           <1>11, <1>12, <1>13 DEF Next

\* The counters of the retries stay in their ranges, try_count down to -1 and
\* no further, whatever fails (recoverBoard, AdiImu::init).
THEOREM BringUpTypes == Spec => []TypeOK
<1>1. Flags /\ Counting => TypeOK
  BY DEF Flags, Counting, TypeOK
<1> QED BY <1>1, InitTypes, NextFlags, NextCounting, PTL DEF Spec

-----------------------------------------------------------------------------
\* Once the last status was found good, an error is one that came later.
StatusFresh == pc \in Confirmed /\ error => fresh

\* Nothing after the last status changes the board.
LEMMA NextFresh == Counting /\ StatusFresh /\ [Next]_vars => StatusFresh'
<1> SUFFICES ASSUME Counting, StatusFresh, [Next]_vars PROVE StatusFresh'
  OBVIOUS
<1> USE SameStatus DEF Counting, StatusFresh, Confirmed, NextAttempt, board, code, history, Modes
<1>1. CASE FaultAppears
  <2>1. PICK b \in NewBits : /\ status' = status \cup {b}
                             /\ fresh' = (fresh \/ b \in Errors)
    BY <1>1 DEF FaultAppears
  <2>2. error' => error \/ fresh'
    BY <2>1 DEF error
  <2>3. fresh => fresh'
    BY <2>1
  <2>4. pc' = pc
    BY <1>1 DEF FaultAppears
  <2> QED BY <2>2, <2>3, <2>4
<1>2. CASE Detect
  BY <1>2 DEF Detect
<1>3. CASE LoopStatus
  BY <1>3, Masks DEF LoopStatus
<1>4. CASE LoopStatusFails
  BY <1>4 DEF LoopStatusFails
<1>5. CASE FactoryReset
  BY <1>5 DEF FactoryReset
<1>6. CASE ClearFault
  BY <1>6 DEF ClearFault
<1>7. CASE FlashUpdate
  BY <1>7 DEF FlashUpdate
<1>8. CASE GetStatus
  BY <1>8, Masks DEF GetStatus
<1>9. CASE Proceed("detectAgain", "bufInit")
  BY <1>9 DEF Proceed
<1>10. CASE Proceed("bufInit", "imuInit")
  BY <1>10 DEF Proceed
<1>11. CASE Proceed("imuInit", "streaming")
  BY <1>11 DEF Proceed
<1>12. CASE IdVerifyFails
  BY <1>12 DEF IdVerifyFails, RetryId
<1>13. CASE UNCHANGED vars
  BY <1>13 DEF vars
<1> QED BY <1>1, <1>2, <1>3, <1>4, <1>5, <1>6, <1>7, <1>8, <1>9, <1>10,
           <1>11, <1>12, <1>13 DEF Next

\* A node never streams from a board with an error it could have seen
\* (ImuBuf::init), whatever fails and however many faults appear.
THEOREM CleanStream == Spec => []StreamsOnlyClean
<1>1. Init => StatusFresh
  BY DEF Init, StatusFresh, Confirmed
<1>2. StatusFresh => StreamsOnlyClean
  BY DEF StatusFresh, StreamsOnlyClean, Confirmed
<1> QED BY <1>1, <1>2, InitTypes, NextCounting, NextFresh, PTL DEF Spec

-----------------------------------------------------------------------------
\* Why the registers are reset and the flash is written: the recovery commands
\* are given only in an attempt that read an error or did not detect the board.
FlashReason ==
  /\ pc \in LoopCalls => enabled
  /\ pc = "loopStatus" /\ ~detected => cause
  /\ pc \in {"factoryReset", "clearFault", "flashUpdate"} => cause

\* The cause is known before the first command of an attempt.
LEMMA NextReason == FlashReason /\ [Next]_vars => FlashReason'
<1> SUFFICES ASSUME FlashReason, [Next]_vars PROVE FlashReason'
  OBVIOUS
<1> USE SameStatus DEF FlashReason, LoopCalls, NextAttempt, board, code, history
<1>1. CASE FaultAppears
  BY <1>1 DEF FaultAppears
<1>2. CASE Detect
  BY <1>2 DEF Detect
<1>3. CASE LoopStatus
  BY <1>3, Masks DEF LoopStatus
<1>4. CASE LoopStatusFails
  BY <1>4 DEF LoopStatusFails
<1>5. CASE FactoryReset
  BY <1>5 DEF FactoryReset
<1>6. CASE ClearFault
  BY <1>6 DEF ClearFault
<1>7. CASE FlashUpdate
  BY <1>7 DEF FlashUpdate
<1>8. CASE GetStatus
  BY <1>8 DEF GetStatus
<1>9. CASE Proceed("detectAgain", "bufInit")
  BY <1>9 DEF Proceed
<1>10. CASE Proceed("bufInit", "imuInit")
  BY <1>10 DEF Proceed
<1>11. CASE Proceed("imuInit", "streaming")
  BY <1>11 DEF Proceed
<1>12. CASE IdVerifyFails
  BY <1>12 DEF IdVerifyFails, RetryId
<1>13. CASE UNCHANGED vars
  BY <1>13 DEF vars
<1> QED BY <1>1, <1>2, <1>3, <1>4, <1>5, <1>6, <1>7, <1>8, <1>9, <1>10,
           <1>11, <1>12, <1>13 DEF Next

\* Whatever fails, the registers a user has set are reset and the flash is
\* overwritten only in an attempt that has itself read an error or not detected
\* the board (recoverBoard).
THEOREM FlashKept == Spec => FlashWriteHasCause
<1>1. Init => FlashReason
  BY DEF Init, FlashReason, LoopCalls
<1>2. FlashReason /\ [Next]_vars => [ram' # ram \/ flash' # flash => enabled /\ cause]_vars
  <2> SUFFICES ASSUME FlashReason, Next, ram' # ram \/ flash' # flash
               PROVE  enabled /\ cause
    OBVIOUS
  <2>1. FactoryReset \/ FlashUpdate
    BY Zenon DEF Next, FaultAppears, Detect, LoopStatus, LoopStatusFails, ClearFault,
       GetStatus, Proceed, IdVerifyFails, board
  <2>2. pc \in {"factoryReset", "flashUpdate"}
    BY <2>1 DEF FactoryReset, FlashUpdate
  <2> QED BY <2>2 DEF FlashReason, LoopCalls
<1> QED BY <1>1, <1>2, NextReason, PTL DEF Spec, FlashWriteHasCause

-----------------------------------------------------------------------------
\* Every attempt of the loop that leaves a clearable fault had a call that
\* failed: after four attempts there were four.
Clearable == ~stuck /\ faults = 0

AttemptsPaid ==
  /\ pc \in LoopCalls /\ Clearable /\ error => fails >= TryCount - tries
  /\ pc = "flashUpdate" /\ Clearable => ~error
  /\ pc \notin LoopCalls /\ Clearable /\ error /\ enabled => fails > TryCount
  /\ pc = "recovery" => error \/ lateFails > 0 \/ idTry = IdRetries

\* The sum of failures keeps up with the attempts.
LEMMA NextPaid == Counting /\ AttemptsPaid /\ [Next]_vars => AttemptsPaid'
<1> SUFFICES ASSUME Counting, AttemptsPaid, [Next]_vars PROVE AttemptsPaid'
  OBVIOUS
<1> USE Bounds, SameStatus DEF Counting, AttemptsPaid, Clearable, Calls, Modes, LoopCalls,
      TryCount, IdRetries, NextAttempt, LoopFailure, LateFailure, board, code, history
<1>1. CASE FaultAppears
  BY <1>1 DEF FaultAppears
<1>2. CASE Detect
  BY <1>2 DEF Detect
<1>3. CASE LoopStatus
  BY <1>3, Masks DEF LoopStatus
<1>4. CASE LoopStatusFails
  BY <1>4 DEF LoopStatusFails
<1>5. CASE FactoryReset
  BY <1>5 DEF FactoryReset
<1>6. CASE ClearFault
  <2>1. /\ pc = "clearFault"
        /\ UNCHANGED <<enabled, idTry, stuck, lateFails, faults>>
    BY <1>6, Zenon DEF ClearFault
  <2>2. CASE /\ status' = Cleared /\ pc' = "flashUpdate"
             /\ tries' = tries /\ fails' = fails
    <3>1. Clearable' => ~error'
      BY <2>1, <2>2, ClearedStatus, Zenon DEF Clearable
    <3> QED BY <2>1, <2>2, <3>1
  <2>3. CASE /\ status' \in {status, Cleared}
             /\ LoopFailure /\ NextAttempt(TRUE)
    <3>1. error' => error
      BY <2>3, ClearedStatus, SameStatus, Zenon
    <3> QED BY <2>1, <2>3, <3>1
  <2> QED BY <1>6, <2>2, <2>3, Zenon DEF ClearFault
<1>7. CASE FlashUpdate
  BY <1>7 DEF FlashUpdate
<1>8. CASE GetStatus
  BY <1>8, Masks DEF GetStatus
<1>9. CASE Proceed("detectAgain", "bufInit")
  BY <1>9 DEF Proceed
<1>10. CASE Proceed("bufInit", "imuInit")
  BY <1>10 DEF Proceed
<1>11. CASE Proceed("imuInit", "streaming")
  BY <1>11 DEF Proceed
<1>12. CASE IdVerifyFails
  BY <1>12 DEF IdVerifyFails, RetryId
<1>13. CASE UNCHANGED vars
  BY <1>13 DEF vars
<1> QED BY <1>1, <1>2, <1>3, <1>4, <1>5, <1>6, <1>7, <1>8, <1>9, <1>10,
           <1>11, <1>12, <1>13 DEF Next

LEMMA AttemptsInit == Init => AttemptsPaid
<1> SUFFICES ASSUME Init PROVE AttemptsPaid
  OBVIOUS
<1>1. /\ pc = IF enabled THEN "detect" ELSE "getStatus"
      /\ tries = TryCount /\ fails = 0
  BY Zenon DEF Init
<1> QED BY <1>1 DEF AttemptsPaid, LoopCalls, TryCount

\* With recovery enabled, three failed calls of the loop and two failed checks
\* of the product ID do not keep a board with a clearable fault from streaming
\* (recoverBoard's four attempts, AdiImu::init's three).
THEOREM Recovers == Spec => []RecoversWithinRetries
<1>1. Init => AttemptsPaid
  BY AttemptsInit
<1>2. Counting /\ AttemptsPaid => RecoversWithinRetries
  BY Bounds DEF Counting, AttemptsPaid, Clearable, RecoversWithinRetries,
     LoopCalls, TryCount, IdRetries
<1> QED BY <1>1, <1>2, InitTypes, NextCounting, NextPaid, PTL DEF Spec

\* The node is in RECOVERY only for an error of the board, a failed call of
\* init or an IMU whose product ID was refused three times, never for what the
\* status merely informs of or warns about (ImuBuf::init, AdiImu::init).
THEOREM RecoveryCaused == Spec => []RecoveryHasCause
<1>1. Init => AttemptsPaid
  BY AttemptsInit
<1>2. AttemptsPaid => RecoveryHasCause
  BY DEF AttemptsPaid, RecoveryHasCause
<1> QED BY <1>1, <1>2, InitTypes, NextCounting, NextPaid, PTL DEF Spec

-----------------------------------------------------------------------------
\* How many library calls are left at most: every attempt of the loop has five,
\* what follows has six with the three checks of the product ID.
CallsLeft ==
  IF pc \in LoopCalls
  THEN 6 + 5 * tries + (IF pc = "detect" THEN 5
                        ELSE IF pc = "loopStatus" THEN 4
                        ELSE IF pc = "factoryReset" THEN 3
                        ELSE IF pc = "clearFault" THEN 2 ELSE 1)
  ELSE IF pc = "getStatus" THEN 6
  ELSE IF pc = "detectAgain" THEN 5
  ELSE IF pc = "bufInit" THEN 4
  ELSE IF pc = "imuInit" THEN IdRetries - idTry
  ELSE 0

\* The end of an attempt is nearer to the end than any call of it.
LEMMA AttemptCounts ==
  ASSUME Counting, NEW e \in BOOLEAN, NextAttempt(e), pc \in LoopCalls
  PROVE  CallsLeft' < CallsLeft
<1>1. tries \in 0 .. 3 /\ tries' = tries - 1
  BY DEF Counting, TryCount, NextAttempt
<1>2. pc' = "getStatus" \/ (pc' = "detect" /\ tries' >= 0)
  BY DEF NextAttempt
<1>3. PICK n \in 1 .. 5 : CallsLeft = 6 + 5 * tries + n
  BY <1>1 DEF CallsLeft
<1>4. CASE pc' = "getStatus"
  <2>1. CallsLeft' = 6
    BY <1>4 DEF CallsLeft, LoopCalls
  <2> QED BY <1>1, <1>3, <2>1
<1>5. CASE pc' = "detect"
  <2>1. CallsLeft' = 6 + 5 * tries' + 5
    BY <1>5 DEF CallsLeft, LoopCalls
  <2>2. CallsLeft' = 6 + 5 * tries
    BY <1>1, <2>1
  <2> QED BY <1>1, <1>3, <2>2
<1> QED BY <1>2, <1>4, <1>5

\* Every call counts; a fault that appears does not.
LEMMA CallCounts ==
  ASSUME Counting, Next
  PROVE  CallsLeft' < CallsLeft \/ (faults' = faults + 1 /\ CallsLeft' = CallsLeft)
<1> USE DEF Counting, LoopCalls, Calls, Modes, TryCount, IdRetries
<1>1. CASE FaultAppears
  <2>1. faults' = faults + 1 /\ pc' = pc /\ tries' = tries /\ idTry' = idTry
    BY <1>1 DEF FaultAppears, code
  <2> QED BY <2>1 DEF CallsLeft
<1>2. CASE Detect
  <2>1. pc = "detect" /\ pc' = "loopStatus" /\ tries' = tries
    BY <1>2 DEF Detect
  <2> QED BY <2>1 DEF CallsLeft
<1>3. CASE LoopStatus
  <2>1. pc = "loopStatus" /\ (NextAttempt(FALSE) \/ (pc' = "factoryReset" /\ tries' = tries))
    BY <1>3 DEF LoopStatus
  <2>2. CASE NextAttempt(FALSE)
    BY <2>1, <2>2, AttemptCounts
  <2>3. CASE pc' = "factoryReset" /\ tries' = tries
    BY <2>1, <2>3 DEF CallsLeft
  <2> QED BY <2>1, <2>2, <2>3
<1>4. CASE LoopStatusFails
  BY <1>4, AttemptCounts DEF LoopStatusFails
<1>5. CASE FactoryReset
  <2>1. pc = "factoryReset" /\ (NextAttempt(TRUE) \/ (pc' = "clearFault" /\ tries' = tries))
    BY <1>5 DEF FactoryReset
  <2>2. CASE NextAttempt(TRUE)
    BY <2>1, <2>2, AttemptCounts
  <2>3. CASE pc' = "clearFault" /\ tries' = tries
    BY <2>1, <2>3 DEF CallsLeft
  <2> QED BY <2>1, <2>2, <2>3
<1>6. CASE ClearFault
  <2>1. pc = "clearFault" /\ (NextAttempt(TRUE) \/ (pc' = "flashUpdate" /\ tries' = tries))
    BY <1>6 DEF ClearFault
  <2>2. CASE NextAttempt(TRUE)
    BY <2>1, <2>2, AttemptCounts
  <2>3. CASE pc' = "flashUpdate" /\ tries' = tries
    BY <2>1, <2>3 DEF CallsLeft
  <2> QED BY <2>1, <2>2, <2>3
<1>7. CASE FlashUpdate
  BY <1>7, AttemptCounts DEF FlashUpdate
<1>8. CASE GetStatus
  <2>1. pc = "getStatus" /\ pc' \in {"detectAgain", "recovery"}
    BY <1>8 DEF GetStatus
  <2> QED BY <2>1 DEF CallsLeft
<1>9. CASE Proceed("detectAgain", "bufInit")
  <2>1. pc = "detectAgain" /\ pc' \in {"bufInit", "recovery"}
    BY <1>9 DEF Proceed
  <2> QED BY <2>1 DEF CallsLeft
<1>10. CASE Proceed("bufInit", "imuInit")
  <2>1. pc = "bufInit" /\ pc' \in {"imuInit", "recovery"} /\ idTry' = idTry /\ idTry = 0
    BY <1>10 DEF Proceed
  <2> QED BY <2>1 DEF CallsLeft
<1>11. CASE Proceed("imuInit", "streaming")
  <2>1. pc = "imuInit" /\ pc' \in {"streaming", "recovery"} /\ idTry \in 0 .. 2
    BY <1>11 DEF Proceed
  <2> QED BY <2>1 DEF CallsLeft
<1>12. CASE IdVerifyFails
  <2>1. /\ pc = "imuInit" /\ pc' \in {"imuInit", "recovery"}
        /\ idTry \in 0 .. 2 /\ idTry' = idTry + 1
    BY <1>12 DEF IdVerifyFails, RetryId
  <2> QED BY <2>1 DEF CallsLeft
<1> QED BY <1>1, <1>2, <1>3, <1>4, <1>5, <1>6, <1>7, <1>8, <1>9, <1>10,
           <1>11, <1>12 DEF Next

\* Whatever fails and however often, the bring-up is over after at most 26
\* library calls: no fault, no failure and no retry gives any of them back
\* (recoverBoard's try_count, AdiImu::init's retry_id_check).
THEOREM BringUpBounded ==
  Spec => /\ [](CallsLeft \in 0 .. 26 /\ (CallsLeft = 0 <=> pc \in Modes))
          /\ [][CallsLeft' < CallsLeft \/ (faults' = faults + 1 /\ CallsLeft' = CallsLeft)]_vars
<1>1. Counting => CallsLeft \in 0 .. 26 /\ (CallsLeft = 0 <=> pc \in Modes)
  <2> SUFFICES ASSUME Counting
               PROVE  CallsLeft \in 0 .. 26 /\ (CallsLeft = 0 <=> pc \in Modes)
    OBVIOUS
  <2>1. CASE pc \in LoopCalls
    <3>1. tries \in 0 .. 3
      BY <2>1 DEF Counting, TryCount
    <3>2. pc \notin Modes
      BY <2>1 DEF LoopCalls, Modes
    <3>3. CallsLeft \in 1 .. 26
      BY <2>1, <3>1 DEF CallsLeft
    <3> QED BY <3>2, <3>3
  <2>2. CASE pc \notin LoopCalls
    BY <2>2 DEF CallsLeft, Counting, LoopCalls, Calls, Modes, IdRetries
  <2> QED BY <2>1, <2>2
<1>2. Counting /\ [Next]_vars =>
        [CallsLeft' < CallsLeft \/ (faults' = faults + 1 /\ CallsLeft' = CallsLeft)]_vars
  BY CallCounts
<1> QED BY <1>1, <1>2, InitTypes, NextCounting, PTL DEF Spec

=============================================================================
