------------------------ MODULE FrameCounters_proofs ------------------------
(***************************************************************************)
(* Proofs about FrameCounters for every width of the counters.             *)
(*                                                                         *)
(* Type correctness needs only FrameAssumption.  The counters are exact    *)
(* under Faithful: fewer than CntMod frames are lost in a row, and no      *)
(* session is so long that a uint32_t wraps.                               *)
(***************************************************************************)
EXTENDS FrameCounters, TLAPS

Faithful == MaxGap < CntMod /\ CntMod + 2 * MaxDist < WordMod

\* A remainder is within the width, and is the number itself if that fits.
LEMMA ModRange ==
  ASSUME NEW x \in Int, NEW m \in Nat, m > 0
  PROVE  /\ x % m \in 0 .. m - 1
         /\ (x \in 0 .. m - 1) => x % m = x
BY SMT

\* Adding zero; stated apart because the sum of two primed variables is more
\* than the provers see through.
LEMMA PlusZero ==
  ASSUME NEW x \in Int, NEW y, y = 0
  PROVE  x + y = x
OBVIOUS

-----------------------------------------------------------------------------
\* The types of the shared parts of a frame's handling.
LEMMA TickType ==
  ASSUME NEW c \in 0 .. CntMod - 1
  PROVE  Tick(c) \in 0 .. CntMod - 1
BY FrameAssumption DEF Tick

\* The longest action keeps the types: the counters of a valid frame.
LEMMA FrameValidType == TypeOK /\ FrameValid => TypeOK'
<1> SUFFICES ASSUME TypeOK, FrameValid PROVE TypeOK'
  OBVIOUS
<1> USE FrameAssumption
<1> DEFINE c == Tick(imuCnt)
<1>1. c \in 0 .. CntMod - 1
  BY TickType DEF TypeOK
<1>2. /\ prev' = c /\ imuCnt' = c
      /\ driver' \in Nat /\ start' \in 0 .. CntMod - 1
      /\ dist' \in 0 .. MaxDist /\ got' \in Nat /\ hidden' \in Nat
  BY <1>1 DEF TypeOK, FrameValid, SetAnchor, CountFrame
<1>3. rollover' \in 0 .. WordMod - 1
  <2>1. (rollover + 1) % WordMod \in 0 .. WordMod - 1
    BY ModRange DEF TypeOK
  <2> QED BY <2>1 DEF TypeOK, FrameValid
<1>4. imu' \in 0 .. WordMod - 1
  <2>1. c + rollover' * CntMod \in Int
    BY <1>1, <1>3
  <2> QED BY <2>1, ModRange DEF FrameValid
<1>5. drop' \in 0 .. WordMod - 1
  <2>1. drop + (imu' - Total(driver')) \in Int
    <3>1. driver' + drop \in Int
      BY <1>2 DEF TypeOK
    <3> QED BY <3>1, <1>4, ModRange DEF TypeOK, Total
  <2>2. (drop + (imu' - Total(driver'))) % WordMod \in 0 .. WordMod - 1
    BY <2>1, ModRange
  <2> QED BY <2>2 DEF TypeOK, FrameValid, DropAfter
<1>6. pub' \in Message
  BY <1>2, <1>4, <1>5 DEF FrameValid, Message
<1> QED BY <1>1, <1>2, <1>3, <1>4, <1>5, <1>6 DEF TypeOK, FrameValid

\* The constructor leaves every variable in its type.
LEMMA InitType == Init => TypeOK
<1> SUFFICES ASSUME Init PROVE TypeOK
  OBVIOUS
<1>1. jumped \in BOOLEAN /\ streaming \in BOOLEAN
  BY Zenon DEF Init
<1>2. pub \in Message \cup {NoMsg}
  BY Zenon DEF Init
<1>3. /\ imuCnt \in 0 .. CntMod - 1 /\ slot = BurstCount
      /\ prev = 0 /\ imu = 0 /\ start = 0
      /\ driver = 0 /\ rollover = 0 /\ drop = 0
      /\ ahead = 0 /\ dist = 0 /\ got = 0
      /\ hidden = 0 /\ carried = 0 /\ session = 0
  BY Zenon DEF Init
<1> QED BY <1>1, <1>2, <1>3, FrameAssumption DEF TypeOK

\* Every action keeps the types.
LEMMA NextType == TypeOK /\ [Next]_vars => TypeOK'
<1> SUFFICES ASSUME TypeOK, [Next]_vars PROVE TypeOK'
  OBVIOUS
<1> USE FrameAssumption
<1>1. CASE FrameLost
  BY <1>1, TickType DEF TypeOK, FrameLost, Lost, counters
<1>2. CASE ReadBurst
  BY <1>2 DEF TypeOK, ReadBurst, counters, history
<1>3. CASE ReadFails
  <2>1. streaming' \in BOOLEAN
    BY <1>3, Zenon DEF ReadFails
  <2>2. slot' \in 0 .. BurstCount
    BY <1>3 DEF ReadFails
  <2>3. UNCHANGED <<imuCnt, counters, pub, history>>
    BY <1>3 DEF ReadFails
  <2> QED BY <2>1, <2>2, <2>3 DEF TypeOK, counters, history
<1>4. CASE FrameRejected
  BY <1>4, TickType DEF TypeOK, FrameRejected, Lost, counters
<1>5. CASE FrameValid
  BY <1>5, FrameValidType
<1>6. CASE Restart
  <2>1. jumped' \in BOOLEAN /\ streaming' \in BOOLEAN
    BY <1>6, Zenon DEF TypeOK, Restart
  <2>2. /\ driver' = 0 /\ rollover' = 0 /\ imuCnt' \in 0 .. CntMod - 1
        /\ session < MaxSessions /\ session' = session + 1
        /\ carried' = drop /\ ahead' = 0 /\ dist' = 0
        /\ got' = 0 /\ hidden' = 0
        /\ prev' = prev /\ imu' = imu /\ start' = start
        /\ drop' = drop /\ pub' = pub /\ slot' = slot
    BY <1>6, Zenon DEF Restart
  <2> QED BY <2>1, <2>2 DEF TypeOK
<1>7. CASE UNCHANGED vars
  BY <1>7 DEF TypeOK, vars, counters, history
<1> QED BY <1>1, <1>2, <1>3, <1>4, <1>5, <1>6, <1>7 DEF Next

\* The counters stay within their C++ types whatever is lost, however often
\* the capture is restarted (validateData, stopBufferRead).
THEOREM TypeCorrect == Spec => []TypeOK
BY InitType, NextType, PTL DEF Spec

-----------------------------------------------------------------------------
(***************************************************************************)
(* The inductive invariant: before the anchor frame of a session nothing   *)
(* is counted; from then on the rollover count and the last data count     *)
(* give the position, and the IMU is fewer than CntMod frames ahead.       *)
(***************************************************************************)
NotAnchored ==
  got = 0 => /\ driver = 0 /\ rollover = 0 /\ dist = 0 /\ ahead = 0
             /\ drop = carried

ZeroAnchor ==
  driver = 0 => /\ rollover = 0
                /\ got > 0 => got = 1 /\ dist = 0 /\ prev = 0

Position ==
  got > 0 => /\ rollover * CntMod + prev = start + dist
             /\ imu = start + dist
             /\ driver = start + got - 1
             /\ got <= dist + 1

ImuAhead ==
  got > 0 => /\ ahead + 1 < CntMod
             /\ imuCnt = IF prev + ahead < CntMod THEN prev + ahead
                         ELSE prev + ahead - CntMod

CarriedBounded == carried <= MaxDist /\ drop <= MaxDist

IndInv ==
  /\ TypeOK
  /\ NotAnchored
  /\ ZeroAnchor
  /\ Position
  /\ ImuAhead
  /\ CarriedBounded
  /\ DropAccounted

\* The invariant holds before the first frame.
LEMMA IndInit == Init => IndInv
<1> SUFFICES ASSUME Init PROVE IndInv
  OBVIOUS
<1>1. TypeOK
  BY InitType
<1> QED BY <1>1, FrameAssumption DEF Init, IndInv, NotAnchored, ZeroAnchor,
          Position, ImuAhead, CarriedBounded, DropAccounted

\* A frame that is lost moves the IMU one further ahead, and only the IMU.
LEMMA LossPreserves ==
  ASSUME Faithful, IndInv, TypeOK', MayLose, Lost, imuCnt' = Tick(imuCnt),
         UNCHANGED <<counters, dist, got, carried>>
  PROVE  IndInv'
<1> USE FrameAssumption
<1>1. ImuAhead'
  BY DEF IndInv, TypeOK, ImuAhead, MayLose, Lost, Tick, Faithful, counters
<1>2. NotAnchored' /\ ZeroAnchor' /\ Position' /\ CarriedBounded' /\ DropAccounted'
  BY DEF IndInv, TypeOK, NotAnchored, ZeroAnchor, Position, CarriedBounded,
     DropAccounted, Missed, Lost, counters
<1> QED BY <1>1, <1>2 DEF IndInv

\* The first valid frame of a session, or the second after a frame 0.
LEMMA AnchorPreserves ==
  ASSUME Faithful, IndInv, TypeOK', FrameValid, driver = 0
  PROVE  IndInv'
<1> USE FrameAssumption
<1> DEFINE c == Tick(imuCnt)
<1>1. c \in 0 .. CntMod - 1
  BY TickType DEF IndInv, TypeOK
<1>2. /\ prev' = c /\ driver' = c /\ start' = c /\ dist' = 0 /\ got' = 1
      /\ ahead' = 0 /\ imuCnt' = c /\ carried' = carried
  BY DEF FrameValid, SetAnchor
<1>3. rollover' = 0
  BY <1>1 DEF FrameValid, Rolled, PrevSeen, IndInv, ZeroAnchor
<1>4. imu' = c
  <2>1. c + rollover' * CntMod = c
    BY <1>1, <1>3
  <2>2. c \in 0 .. WordMod - 1
    BY <1>1 DEF Faithful
  <2>3. imu' = (c + rollover' * CntMod) % WordMod
    BY Zenon DEF FrameValid
  <2> QED BY <2>1, <2>2, <2>3, ModRange
<1>5. Total(driver') = c + drop
  <2>1. c + drop \in 0 .. WordMod - 1
    BY <1>1 DEF Faithful, IndInv, TypeOK, CarriedBounded
  <2> QED BY <2>1, <1>2, ModRange DEF Total
<1>6. drop' = drop
  BY <1>1, <1>4, <1>5 DEF FrameValid, DropAfter, IndInv, TypeOK
<1>7. drop = carried
  BY DEF IndInv, TypeOK, NotAnchored, ZeroAnchor, DropAccounted, Missed
<1>8. NotAnchored' /\ ZeroAnchor' /\ Position'
  BY <1>1, <1>2, <1>3, <1>4 DEF NotAnchored, ZeroAnchor, Position
<1>9. ImuAhead' /\ CarriedBounded' /\ DropAccounted'
  BY <1>1, <1>2, <1>6, <1>7 DEF ImuAhead, CarriedBounded, DropAccounted,
     Missed, IndInv, TypeOK
<1> QED BY <1>8, <1>9 DEF IndInv

\* What validateData computes for a frame of a session that has its anchor.
LEMMA CountedFrame ==
  ASSUME Faithful, IndInv, TypeOK', FrameValid, driver # 0
  PROVE  /\ got > 0
         /\ prev' = imuCnt' /\ driver' = start + got /\ start' = start
         /\ dist' = dist + ahead + 1 /\ got' = got + 1
         /\ rollover' * CntMod + prev' = start + dist'
         /\ imu' = start + dist'
         /\ drop' = IF Missed' > carried THEN Missed' ELSE carried
<1> USE FrameAssumption
<1> DEFINE c == Tick(imuCnt)
<1>1. c \in 0 .. CntMod - 1
  BY TickType DEF IndInv, TypeOK
<1>2. got > 0
  BY DEF IndInv, TypeOK, NotAnchored
<1>3. /\ prev' = c /\ driver' = driver + 1 /\ start' = start
      /\ dist' = dist + ahead + 1 /\ got' = got + 1
      /\ imuCnt' = c /\ PrevSeen(c) = prev
  BY DEF FrameValid, CountFrame, PrevSeen
<1>4. driver' = start + got
  BY <1>2, <1>3 DEF IndInv, TypeOK, Position
<1>5. start + dist' < WordMod /\ start + dist' \in Nat
  BY <1>3 DEF TypeOK, Faithful, IndInv
<1>6. rollover' * CntMod + c = start + dist'
  <2>1. CASE prev + ahead + 1 < CntMod
    <3>1. c = prev + ahead + 1
      BY <2>1, <1>2 DEF IndInv, TypeOK, ImuAhead, Tick
    <3>2. rollover' = rollover
      BY <3>1, <1>3 DEF FrameValid, Rolled, IndInv, TypeOK
    <3> QED BY <3>1, <3>2, <1>2, <1>3 DEF IndInv, TypeOK, Position
  <2>2. CASE prev + ahead + 1 >= CntMod
    <3>1. c = prev + ahead + 1 - CntMod
      BY <2>2, <1>2 DEF IndInv, TypeOK, ImuAhead, Tick
    <3>2. Rolled(c)
      BY <3>1, <2>2, <1>2, <1>3 DEF Rolled, IndInv, TypeOK, ImuAhead
    <3>3. rollover * CntMod + prev = start + dist
      BY <1>2 DEF IndInv, Position
    <3>4. (rollover + 1) * CntMod = rollover * CntMod + CntMod
      BY DEF IndInv, TypeOK
    <3>5. rollover * CntMod \in Nat /\ rollover * CntMod >= rollover
      BY DEF IndInv, TypeOK
    <3>6. rollover + 1 \in 0 .. WordMod - 1
      <4>1. PICK r \in Nat : r = rollover * CntMod
        BY <3>5
      <4>2. r + prev = start + dist /\ r >= rollover
        BY <4>1, <3>3, <3>5
      <4>3. r + CntMod + c = start + dist'
        BY <4>2, <3>1, <1>3 DEF IndInv, TypeOK
      <4>4. rollover \in Nat
        BY DEF IndInv, TypeOK
      <4> HIDE DEF c
      <4> QED BY <4>2, <4>3, <4>4, <1>1, <1>5
    <3>7. rollover' = rollover + 1
      BY <3>2, <3>6, ModRange DEF FrameValid
    <3> QED BY <3>1, <3>3, <3>4, <3>5, <3>7, <1>3 DEF IndInv, TypeOK
  <2> QED BY <2>1, <2>2 DEF IndInv, TypeOK
<1>7. imu' = start + dist'
  <2>1. start + dist' \in 0 .. WordMod - 1
    BY <1>5
  <2>2. c + rollover' * CntMod = rollover' * CntMod + c
    BY <1>1 DEF TypeOK
  <2> QED BY <2>1, <2>2, <1>6, ModRange DEF FrameValid
<1>8. Total(driver') = start + got + drop
  <2>1. start + got + drop \in 0 .. WordMod - 1
    BY <1>2, <1>3 DEF IndInv, TypeOK, Position, CarriedBounded, Faithful
  <2> QED BY <2>1, <1>4, ModRange DEF Total
<1>9. drop' = IF Missed' > carried THEN Missed' ELSE carried
  <2>1. drop = IF Missed > carried THEN Missed ELSE carried
    BY <1>2 DEF IndInv, DropAccounted
  <2>2. Missed' = Missed + ahead /\ Missed \in Int
    BY <1>3 DEF Missed, IndInv, TypeOK
  <2>3. /\ imu' \in Int /\ Total(driver') \in Int /\ drop \in Int
        /\ Missed' = imu' - Total(driver') + drop
    BY <1>7, <1>8, <1>3 DEF Missed, IndInv, TypeOK
  <2>4. CASE Missed' > drop
    <3>1. imu' > Total(driver') /\ drop + (imu' - Total(driver')) = Missed'
      BY <2>3, <2>4
    <3>2. Missed' \in 0 .. WordMod - 1
      BY <2>2, <2>4, <1>2, <1>3, <1>5 DEF Missed, IndInv, TypeOK
    <3>3. drop' = Missed'
      BY <3>1, <3>2, ModRange DEF FrameValid, DropAfter
    <3> QED BY <3>3, <2>1, <2>2, <2>4 DEF IndInv, TypeOK
  <2>5. CASE ~(Missed' > drop)
    <3>1. ~(imu' > Total(driver'))
      BY <2>3, <2>5
    <3>2. drop' = drop
      BY <3>1 DEF FrameValid, DropAfter
    <3> QED BY <3>2, <2>1, <2>2, <2>5 DEF IndInv, TypeOK
  <2> QED BY <2>4, <2>5
<1> QED BY <1>2, <1>3, <1>4, <1>6, <1>7, <1>9

\* A later frame of a session.
LEMMA CountPreserves ==
  ASSUME Faithful, IndInv, TypeOK', FrameValid, driver # 0
  PROVE  IndInv'
<1> USE FrameAssumption
<1>0. /\ got > 0
      /\ prev' = imuCnt' /\ driver' = start + got /\ start' = start
      /\ dist' = dist + ahead + 1 /\ got' = got + 1
      /\ rollover' * CntMod + prev' = start + dist'
      /\ imu' = start + dist'
      /\ drop' = IF Missed' > carried THEN Missed' ELSE carried
  BY CountedFrame
<1>1. ahead' = 0 /\ carried' = carried
  BY DEF FrameValid
<1>2. NotAnchored' /\ ZeroAnchor'
  BY <1>0 DEF NotAnchored, ZeroAnchor, IndInv, TypeOK
<1>3. Position'
  <2>1. got <= dist + 1
    BY <1>0 DEF IndInv, Position
  <2>2. driver' = start' + got' - 1 /\ got' <= dist' + 1
    BY <1>0, <2>1 DEF IndInv, TypeOK
  <2> QED BY <1>0, <2>2 DEF Position
<1>4. ImuAhead'
  <2>1. prev' + ahead' < CntMod /\ imuCnt' = prev' + ahead'
    <3>1. prev' \in Int /\ prev' < CntMod
      BY DEF TypeOK
    <3>2. prev' + ahead' = prev'
      BY <1>1, <3>1, PlusZero
    <3>3. imuCnt' = prev'
      BY <1>0
    <3> QED BY <3>1, <3>2, <3>3
  <2> QED BY <1>1, <2>1 DEF ImuAhead
<1>5. DropAccounted'
  BY <1>0, <1>1 DEF DropAccounted
<1>6. CarriedBounded'
  BY <1>0, <1>1, <1>3 DEF CarriedBounded, Missed, IndInv, TypeOK, Position
<1> QED BY <1>2, <1>3, <1>4, <1>5, <1>6 DEF IndInv

\* Every action keeps the invariant.
LEMMA IndNext ==
  ASSUME Faithful, IndInv, [Next]_vars
  PROVE  IndInv'
<1> USE FrameAssumption
<1>0. TypeOK'
  BY NextType DEF IndInv
<1>1. CASE FrameLost
  BY <1>0, <1>1, LossPreserves DEF FrameLost
<1>2. CASE ReadBurst
  BY <1>0, <1>2 DEF ReadBurst, IndInv, NotAnchored, ZeroAnchor, Position,
     ImuAhead, CarriedBounded, DropAccounted, Missed, counters, history
<1>3. CASE ReadFails
  BY <1>0, <1>3 DEF ReadFails, IndInv, NotAnchored, ZeroAnchor, Position,
     ImuAhead, CarriedBounded, DropAccounted, Missed, counters, history
<1>4. CASE FrameRejected
  BY <1>0, <1>4, LossPreserves DEF FrameRejected
<1>5. CASE FrameValid
  BY <1>0, <1>5, AnchorPreserves, CountPreserves
<1>6. CASE Restart
  BY <1>0, <1>6 DEF Restart, IndInv, NotAnchored, ZeroAnchor, Position,
     ImuAhead, CarriedBounded, DropAccounted
<1>7. CASE UNCHANGED vars
  BY <1>0, <1>7 DEF vars, IndInv, NotAnchored, ZeroAnchor, Position,
     ImuAhead, CarriedBounded, DropAccounted, Missed, counters, history
<1> QED BY <1>1, <1>2, <1>3, <1>4, <1>5, <1>6, <1>7 DEF Next

\* The strengthening the safety theorems rest on: in any session the counters
\* agree with the frames that really passed.
THEOREM Inductive == ASSUME Faithful PROVE Spec => []IndInv
<1>1. Init => IndInv
  BY IndInit
<1>2. IndInv /\ [Next]_vars => IndInv'
  BY IndNext
<1> QED BY <1>1, <1>2, PTL DEF Spec

\* imu_count is the true position of the frame, for every width of the data
\* counter, every burst length and every pattern of losses and restarts.
THEOREM PositionCorrect == ASSUME Faithful PROVE Spec => []PositionExact
<1>1. IndInv => PositionExact
  BY DEF IndInv, Position, PositionExact
<1> QED BY <1>1, Inductive, PTL

\* drop_count is the larger of the losses of the session and the value that
\* stopBufferRead left behind.
THEOREM DropCorrect == ASSUME Faithful PROVE Spec => []DropAccounted
<1>1. IndInv => DropAccounted
  BY DEF IndInv
<1> QED BY <1>1, Inductive, PTL

-----------------------------------------------------------------------------
(***************************************************************************)
(* What subscribers see: the last message carries the counters of the last *)
(* valid frame.                                                            *)
(***************************************************************************)
PubCurrent ==
  got > 0 => pub = [imu |-> imu, driver |-> driver, drop |-> drop]

\* Every action keeps the published counters equal to the internal ones.
LEMMA PubNext ==
  ASSUME IndInv, IndInv', PubCurrent, [Next]_vars
  PROVE  PubCurrent'
<1>1. CASE FrameValid
  BY <1>1 DEF FrameValid, PubCurrent
<1>2. CASE FrameLost \/ ReadBurst \/ ReadFails \/ FrameRejected \/ UNCHANGED vars
  BY <1>2 DEF FrameLost, ReadBurst, ReadFails, FrameRejected, vars, counters,
     history, PubCurrent
<1>3. CASE Restart
  <2>1. ~(got' > 0)
    BY <1>3 DEF Restart
  <2> QED BY <2>1 DEF PubCurrent
<1> QED BY <1>1, <1>2, <1>3 DEF Next

\* Between two frames the last message holds the counters validateData works
\* with, once a session has a valid frame.
THEOREM PubInvariant == ASSUME Faithful PROVE Spec => []PubCurrent
<1>1. Init => PubCurrent
  BY DEF Init, PubCurrent
<1>2. IndInv /\ IndInv' /\ PubCurrent /\ [Next]_vars => PubCurrent'
  BY PubNext
<1> QED BY <1>1, <1>2, Inductive, PTL DEF Spec

\* The step from one message of a session to the next.
MessageStep ==
  pub' # pub /\ driver > 0 =>
    /\ pub'.imu = pub.imu + ahead + 1
    /\ pub'.driver = pub.driver + 1
    /\ pub'.drop \in pub.drop .. pub.drop + ahead

\* The message of a later frame against the one before it.
LEMMA CountedMessage ==
  ASSUME Faithful, IndInv, TypeOK', PubCurrent, FrameValid, driver # 0
  PROVE  /\ got > 0
         /\ pub = [imu |-> imu, driver |-> driver, drop |-> drop]
         /\ pub' = [imu |-> imu + ahead + 1, driver |-> driver + 1, drop |-> drop']
         /\ drop' \in drop .. drop + ahead
<1> USE FrameAssumption
<1>1. /\ got > 0 /\ driver' = start + got
      /\ dist' = dist + ahead + 1 /\ got' = got + 1
      /\ imu' = start + dist'
      /\ drop' = IF Missed' > carried THEN Missed' ELSE carried
  BY CountedFrame
<1>2. /\ imu = start + dist /\ driver = start + got - 1 /\ got <= dist + 1
      /\ drop = IF Missed > carried THEN Missed ELSE carried
  BY <1>1 DEF IndInv, Position, DropAccounted
<1>3. imu' = imu + ahead + 1 /\ driver' = driver + 1
  BY <1>1, <1>2 DEF IndInv, TypeOK
<1>4. /\ Missed \in Nat /\ carried \in Nat /\ ahead \in Nat
      /\ Missed' = Missed + ahead
  BY <1>1, <1>2 DEF Missed, IndInv, TypeOK
<1>5. drop' \in drop .. drop + ahead
  BY <1>1, <1>2, <1>4
<1>6. pub' = [imu |-> imu', driver |-> driver', drop |-> drop']
  BY DEF FrameValid
<1> QED BY <1>1, <1>3, <1>5, <1>6 DEF PubCurrent

\* Between two messages of a session imu_count advances by exactly the frames
\* in between, driver_count by one, and drop_count by no more than was lost.
THEOREM MessagesInStep == ASSUME Faithful PROVE Spec => MessageSteps
<1> USE FrameAssumption
<1>1. IndInv /\ IndInv' /\ PubCurrent /\ [Next]_vars => [MessageStep]_vars
  <2> SUFFICES ASSUME IndInv, IndInv', PubCurrent, Next,
                      pub' # pub, driver > 0
               PROVE  MessageStep
    BY DEF MessageStep
  <2>1. FrameValid /\ driver # 0
    BY DEF Next, FrameLost, ReadBurst, ReadFails, FrameRejected, Restart,
       IndInv, TypeOK
  <2>2. /\ pub = [imu |-> imu, driver |-> driver, drop |-> drop]
        /\ pub' = [imu |-> imu + ahead + 1, driver |-> driver + 1, drop |-> drop']
        /\ drop' \in drop .. drop + ahead
    BY <2>1, CountedMessage DEF IndInv
  <2>3. /\ pub.imu = imu /\ pub.driver = driver /\ pub.drop = drop
        /\ pub'.imu = imu + ahead + 1 /\ pub'.driver = driver + 1
        /\ pub'.drop = drop'
    BY <2>2
  <2> QED BY <2>2, <2>3 DEF MessageStep
<1> QED BY <1>1, Inductive, PubInvariant, PTL DEF Spec, MessageSteps, MessageStep

-----------------------------------------------------------------------------
(***************************************************************************)
(* The counters implement FrameLedger.  What a restart carries over is the *)
(* drop count of the last message, whether or not the capture that ends    *)
(* has published one.                                                      *)
(***************************************************************************)
LastDrop == drop = IF pub = NoMsg THEN 0 ELSE pub.drop

\* Only a message changes the drop count.
LEMMA LastDropNext ==
  ASSUME IndInv, IndInv', LastDrop, [Next]_vars
  PROVE  LastDrop'
<1> USE FrameAssumption
<1>1. CASE FrameValid
  <2>1. pub' = [imu |-> imu', driver |-> driver', drop |-> drop']
    BY <1>1 DEF FrameValid
  <2>2. pub' \in Message
    BY <2>1 DEF IndInv, TypeOK, Message
  <2>3. pub' # NoMsg /\ pub'.drop = drop'
    BY <2>1, <2>2 DEF Message
  <2> QED BY <2>3 DEF LastDrop
<1>2. CASE FrameLost \/ ReadBurst \/ ReadFails \/ FrameRejected \/ Restart \/ UNCHANGED vars
  BY <1>2 DEF FrameLost, ReadBurst, ReadFails, FrameRejected, Restart, vars, counters, LastDrop
<1> QED BY <1>1, <1>2 DEF Next

\* The first frame of a capture, or the second after a frame 0, is numbered.
LEMMA LedgerAnchor ==
  ASSUME Faithful, IndInv, IndInv', PubCurrent, FrameValid, driver = 0
  PROVE  Ledger!Anchor
<1> USE FrameAssumption
<1>1. got = 0 \/ pub.driver = 0
  BY DEF PubCurrent, IndInv, TypeOK
<1>2. /\ ahead' = 0 /\ imuCnt' \in 0 .. CntMod - 1
      /\ driver' = imuCnt' /\ got' = 1 /\ dist' = 0 /\ start' = imuCnt'
      /\ carried' = carried
      /\ pub' = [imu |-> imu', driver |-> driver', drop |-> drop']
  BY DEF FrameValid, SetAnchor, IndInv, TypeOK
<1>3. imu' = imuCnt'
  <2>1. imu' = start' + dist' /\ start' \in Int
    BY <1>2 DEF IndInv, TypeOK, Position
  <2>2. start' + dist' = start'
    BY <1>2, <2>1, PlusZero
  <2> QED BY <1>2, <2>1, <2>2
<1>4. Missed' = 0
  BY <1>2 DEF Missed
<1>5. drop' = carried
  BY <1>2, <1>4 DEF IndInv, DropAccounted, TypeOK
<1>6. Reported' = 0
  BY <1>2, <1>4 DEF Reported
<1>7. pub' = [imu |-> imuCnt', driver |-> imuCnt', drop |-> carried]
  BY <1>2, <1>3, <1>5
<1> QED BY <1>1, <1>2, <1>6, <1>7 DEF Ledger!Anchor

\* Any later frame is published with all that was lost before it.
LEMMA LedgerPublish ==
  ASSUME Faithful, IndInv, IndInv', PubCurrent, FrameValid, driver # 0
  PROVE  Ledger!Publish
<1> USE FrameAssumption
<1>1. /\ got > 0
      /\ pub = [imu |-> imu, driver |-> driver, drop |-> drop]
      /\ pub' = [imu |-> imu + ahead + 1, driver |-> driver + 1, drop |-> drop']
  BY CountedMessage DEF IndInv
<1>2. /\ dist' = dist + ahead + 1 /\ got' = got + 1
      /\ drop' = IF Missed' > carried THEN Missed' ELSE carried
  BY CountedFrame DEF IndInv
<1>3. Missed' = Missed + ahead
  BY <1>2 DEF Missed, IndInv, TypeOK
<1>4. Reported = Missed /\ Reported' = Missed'
  BY <1>1, <1>2 DEF Reported, IndInv, TypeOK
<1>5. ahead' = 0 /\ carried' = carried
  BY DEF FrameValid
<1>6. pub' = [imu    |-> pub.imu + ahead + 1,
              driver |-> pub.driver + 1,
              drop   |-> IF Reported' > carried THEN Reported' ELSE carried]
  BY <1>1, <1>2, <1>4
<1> QED BY <1>1, <1>2, <1>3, <1>4, <1>5, <1>6 DEF Ledger!Publish

\* Every step of the counters is a step of the ledger, or leaves it alone.
LEMMA LedgerStep ==
  ASSUME Faithful, IndInv, IndInv', PubCurrent, LastDrop, [Next]_vars
  PROVE  [Ledger!Next]_<<pub, ahead, Reported, got, carried>>
<1> USE FrameAssumption
<1>1. CASE FrameValid
  BY <1>1, LedgerAnchor, LedgerPublish DEF Ledger!Next
<1>2. CASE FrameLost \/ FrameRejected
  <2>1. UNCHANGED <<pub, dist, got, carried>> /\ Lost
    BY <1>2 DEF FrameLost, FrameRejected, counters
  <2>2. Reported' = Reported
    BY <2>1 DEF Reported, Missed
  <2>3. CASE got > 0
    BY <2>1, <2>2, <2>3 DEF Lost, Ledger!Next, Ledger!Lose
  <2>4. CASE ~(got > 0)
    <3>1. ahead' = ahead
      BY <2>1, <2>4 DEF Lost, IndInv, TypeOK, NotAnchored
    <3> QED BY <2>1, <2>2, <3>1
  <2> QED BY <2>3, <2>4
<1>3. CASE ReadBurst \/ ReadFails \/ UNCHANGED vars
  <2>1. UNCHANGED <<pub, ahead, dist, got, carried>>
    BY <1>3 DEF ReadBurst, ReadFails, vars, history
  <2> QED BY <2>1 DEF Reported, Missed
<1>4. CASE Restart
  <2>1. /\ carried' = drop /\ ahead' = 0 /\ got' = 0 /\ UNCHANGED pub
    BY <1>4 DEF Restart
  <2>2. Reported' = 0
    BY <2>1 DEF Reported
  <2> QED BY <2>1, <2>2 DEF LastDrop, Ledger!Next, Ledger!Restart
<1> QED BY <1>1, <1>2, <1>3, <1>4 DEF Next

\* Subscribers get what FrameLedger promises, for every width of the counters
\* and any number of restarts: every lost frame is reported, in the message
\* that follows it, once the losses exceed what was carried over.
THEOREM ImplementsLedger ==
  ASSUME Faithful
  PROVE  Spec => LedgerSpec
<1> USE FrameAssumption
<1>1. Init => Ledger!Init /\ LastDrop
  BY DEF Init, Ledger!Init, LastDrop, Reported
<1>2. IndInv /\ IndInv' /\ LastDrop /\ [Next]_vars => LastDrop'
  BY LastDropNext
<1>3. IndInv /\ IndInv' /\ PubCurrent /\ LastDrop /\ [Next]_vars
        => [Ledger!Next]_<<pub, ahead, Reported, got, carried>>
  BY LedgerStep
<1> QED BY <1>1, <1>2, <1>3, Inductive, PubInvariant, PTL
        DEF Spec, LedgerSpec, Ledger!Spec, Ledger!ledgerVars

=============================================================================
