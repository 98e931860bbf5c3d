--------------------------- MODULE FrameCounters ---------------------------
(***************************************************************************)
(* ImuBuf::readPubBufBurstData and ImuBuf::validateData (imu_buf.cpp): the *)
(* driver reads bursts of frames from the ADRD2121 board, checks each one  *)
(* and derives imu_count, driver_count and drop_count from the 16-bit data *)
(* counter of the IMU.  ImuBuf::stopBufferRead resets some of them when a  *)
(* service call stops and restarts the capture.                            *)
(*                                                                         *)
(* The widths are parameters: CntMod is 65536 (the IMU's data counter) and *)
(* WordMod is 2^32 (uint32_t) in the code.  driver_data_count_ is 64 bits  *)
(* wide and does not overflow within the life of the hardware.             *)
(***************************************************************************)
EXTENDS Integers

CONSTANTS
  CntMod,      \* modulus of the IMU's data counter
  WordMod,     \* modulus of uint32_t
  BurstCount,  \* buf_burst_count_: frames asked of the board per read
  MaxGap,      \* bound: how far two successive valid frames are apart
  MaxDist,     \* bound: frames from the first to the last of a session
  MaxSessions, \* bound: captures started
  NoMsg        \* nothing has been published

ASSUME FrameAssumption ==
  /\ CntMod \in Nat /\ CntMod > 1
  /\ WordMod \in Nat /\ WordMod >= CntMod
  /\ BurstCount \in Nat \ {0}
  /\ MaxGap \in Nat /\ MaxDist \in Nat
  /\ MaxSessions \in Nat
  /\ NoMsg \notin [imu : Nat, driver : Nat, drop : Nat]

VARIABLES
  imuCnt,     \* the IMU: data counter of the newest frame
  prev,       \* prev_data_count_
  imu,        \* imu_data_count_
  start,      \* start_data_count_
  driver,     \* driver_data_count_
  rollover,   \* rollover_count_
  drop,       \* drop_count_
  pub,        \* the counters of the last message on the AdiImu topic
  slot,       \* index i of the burst loop; BurstCount between two reads
  streaming,  \* FALSE once a read has failed: the node shuts down
  ahead,      \* history: frames lost since the last valid one
  dist,       \* history: frames from the anchor frame to the last valid one
  got,        \* history: valid frames since the anchor frame, with it
  hidden,     \* history: losses forgotten when the anchor frame moved
  jumped,     \* history: a gap of CntMod frames or more in this session
  carried,    \* history: drop_count_ when the session began
  session     \* history: captures restarted

counters == <<prev, imu, start, driver, rollover, drop>>
history  == <<ahead, dist, got, hidden, jumped, carried, session>>
vars     == <<imuCnt, counters, pub, slot, streaming, history>>

Message == [imu : Nat, driver : Nat, drop : Nat]

-----------------------------------------------------------------------------
\* ImuBuf::ImuBuf; the IMU has been counting since it was powered.
Init ==
  /\ imuCnt \in 0 .. CntMod - 1
  /\ prev = 0 /\ imu = 0 /\ start = 0
  /\ driver = 0 /\ rollover = 0 /\ drop = 0
  /\ pub = NoMsg
  /\ slot = BurstCount
  /\ streaming = TRUE
  /\ ahead = 0 /\ dist = 0 /\ got = 0
  /\ hidden = 0 /\ jumped = FALSE /\ carried = 0 /\ session = 0

\* The IMU's data counter after one more frame.
Tick(c) == IF c + 1 = CntMod THEN 0 ELSE c + 1

\* The bounds on what may still be lost.  65536 frames in a row are more than
\* half a minute of silence, on which ReadBurstN fails: MaxGap < CntMod is the
\* normal case.  Frames that pass before the first valid one do not count.
MayLose ==
  got > 0 => ahead + 1 < MaxGap /\ hidden + dist + ahead + 1 < MaxDist

\* One more frame that will never be published.
Lost == ahead' = IF got > 0 THEN ahead + 1 ELSE 0

-----------------------------------------------------------------------------
\* A frame is overwritten in the board's buffer or lost on the USB link.
FrameLost ==
  /\ streaming /\ MayLose
  /\ imuCnt' = Tick(imuCnt)
  /\ Lost
  /\ UNCHANGED <<counters, pub, slot, streaming, dist, got, hidden, jumped, carried, session>>

\* imubuf_ReadBurstN succeeds and the loop over its frames begins.
ReadBurst ==
  /\ streaming /\ slot = BurstCount
  /\ slot' = 0
  /\ UNCHANGED <<imuCnt, counters, pub, streaming, history>>

\* imubuf_ReadBurstN, imubuf_ScaleBurstOut or adi_imu_ScaleBurstOut fails: no
\* later frame of the burst is used and readPubData returns false, on which
\* the node leaves its loop.
ReadFails ==
  /\ streaming
  /\ streaming' = FALSE
  /\ slot' = BurstCount
  /\ UNCHANGED <<imuCnt, counters, pub, history>>

\* A frame of the burst is not usable: BurstFrameInvalid (continue) or a CRC
\* that does not match (validateData returns false, nothing is published).
FrameRejected ==
  /\ streaming /\ slot < BurstCount /\ MayLose
  /\ imuCnt' = Tick(imuCnt)
  /\ Lost
  /\ slot' = slot + 1
  /\ UNCHANGED <<counters, pub, streaming, dist, got, hidden, jumped, carried, session>>

\* validateData, the counters for the first time of a session.
SetAnchor(c) ==
  /\ prev' = c
  /\ driver' = c
  /\ start' = c
  /\ dist' = 0 /\ got' = 1
  /\ hidden' = IF got > 0 THEN hidden + ahead ELSE hidden

\* Mutant of CountFrame: start_data_count_ follows every frame.
CountFrameMovesStart(c) ==
  /\ prev' = c
  /\ driver' = driver + 1
  /\ start' = driver + 1
  /\ dist' = dist + ahead + 1 /\ got' = got + 1
  /\ hidden' = hidden

\* validateData, the counters of any later frame.
CountFrame(c) ==
  /\ prev' = c
  /\ driver' = driver + 1
  /\ start' = start
  /\ dist' = dist + ahead + 1 /\ got' = got + 1
  /\ hidden' = hidden

\* Mutant of PrevSeen: a new session keeps the last count of the one before.
PrevSeenStale(c) == prev

\* prev_data_count_ as the rollover test sees it.
PrevSeen(c) ==
  IF driver = 0 THEN (IF c > 0 THEN c - 1 ELSE 0) ELSE prev

\* Mutant of Rolled: a rollover is frame 0 ("65535 to 0 transition").
RolledAtZero(c) == PrevSeen(c) > 0 /\ c = 0

\* Mutant of Rolled: off by one.
RolledLate(c) == PrevSeen(c) > 0 /\ c + 1 < PrevSeen(c)

\* The 16-bit counter went down: it rolled over.
Rolled(c) == PrevSeen(c) > 0 /\ c < PrevSeen(c)

\* Mutant of Total: the frames already known to be lost are left out.
TotalNoDrop(d) == d % WordMod

\* Mutant of Total: the sum is kept in 64 bits, imu_data_count_ is not.
TotalWide(d) == d + drop

\* total_data_count, a uint32_t.
Total(d) == (d + drop) % WordMod

\* drop_count_ for position i and driver count d: it grows, or is cut to 32 bits.
DropAfter(i, d) ==
  IF i > Total(d) THEN (drop + (i - Total(d))) % WordMod ELSE drop

\* A frame with a matching CRC: validateData updates the counters, reports
\* the frames found missing, and publishData publishes the message.
FrameValid ==
  LET c == Tick(imuCnt) IN
  /\ streaming /\ slot < BurstCount
  /\ dist + ahead + 1 <= MaxDist
  /\ imuCnt' = c
  /\ IF driver = 0 THEN SetAnchor(c) ELSE CountFrame(c)
  /\ rollover' = IF Rolled(c) THEN (rollover + 1) % WordMod ELSE rollover
  /\ imu' = (c + rollover' * CntMod) % WordMod
  /\ drop' = DropAfter(imu', driver')
  /\ pub' = [imu |-> imu', driver |-> driver', drop |-> drop']
  /\ ahead' = 0
  /\ jumped' = (jumped \/ ahead + 1 >= CntMod)
  /\ slot' = slot + 1
  /\ UNCHANGED <<streaming, carried, session>>

\* stopBufferRead succeeds and startBufferRead begins a new capture (the
\* get_buffer_status and trigger_imu_glob_cmd services, between two reads).
\* Only the driver and the rollover count are reset.  The IMU counts on: any
\* number of frames passes before the first one of the new capture.
Restart ==
  /\ streaming /\ slot = BurstCount /\ session < MaxSessions
  /\ driver' = 0
  /\ rollover' = 0
  /\ imuCnt' \in 0 .. CntMod - 1
  /\ session' = session + 1
  /\ carried' = drop
  /\ ahead' = 0 /\ dist' = 0 /\ got' = 0 /\ hidden' = 0 /\ jumped' = FALSE
  /\ UNCHANGED <<prev, imu, start, drop, pub, slot, streaming>>

Next ==
  \/ FrameLost
  \/ ReadBurst
  \/ ReadFails
  \/ FrameRejected
  \/ FrameValid
  \/ Restart

Spec == Init /\ [][Next]_vars

-----------------------------------------------------------------------------
\* Every variable stays within its C++ type; the history within its bounds.
TypeOK ==
  /\ imuCnt \in 0 .. CntMod - 1 /\ prev \in 0 .. CntMod - 1
  /\ imu \in 0 .. WordMod - 1 /\ drop \in 0 .. WordMod - 1
  /\ rollover \in 0 .. WordMod - 1
  /\ start \in 0 .. CntMod - 1 /\ driver \in Nat
  /\ pub \in Message \cup {NoMsg}
  /\ slot \in 0 .. BurstCount /\ streaming \in BOOLEAN
  /\ ahead \in Nat /\ dist \in 0 .. MaxDist /\ got \in Nat
  /\ hidden \in Nat /\ jumped \in BOOLEAN /\ carried \in 0 .. WordMod - 1
  /\ session \in 0 .. MaxSessions

\* The frames lost between the anchor frame and the last valid one.
Missed == dist + 1 - got

\* imu_count is the true position of the last valid frame, however many times
\* the 16-bit counter rolled over and whatever was lost around a rollover
\* (validateData, rollover_count_ and prev_data_count_).
PositionExact == got > 0 => imu = start + dist

\* drop_count is the larger of what the session really lost and what earlier
\* sessions had left in it: never a frame too many, never one too few once
\* the carried value is exceeded (validateData against stopBufferRead).
DropAccounted ==
  got > 0 => drop = IF Missed > carried THEN Missed ELSE carried

\* The frames between two messages are exactly the advance of imu_count,
\* driver_count counts messages, and no message reports more losses than
\* happened just before it (publishData after validateData).
MessageSteps ==
  [][pub' # pub /\ driver > 0 =>
       /\ pub'.imu = pub.imu + ahead + 1
       /\ pub'.driver = pub.driver + 1
       /\ pub'.drop \in pub.drop .. pub.drop + ahead]_vars

\* After uint32_t wraps, imu_count is still the position modulo 2^32, as long
\* as no gap was too long for the data counter.
WrappedPosition == got > 0 /\ ~jumped => imu = (start + dist) % WordMod

\* However the words wrap, drop_count is never above the losses of the capture,
\* except for a value it still carries from the ones before; and a loss that
\* straddles a wrap, which is not seen at once, is in it as soon as the sum of
\* the counters has wrapped as often as the position.
DropCatchesUp ==
  got > 0 /\ ~jumped =>
    /\ drop <= Missed \/ drop = carried
    /\ (driver + drop) \div WordMod = (start + dist) \div WordMod => drop >= Missed

\* Even when as many frames are lost in a row as the data counter can count,
\* until uint32_t wraps: the position is never overstated, and no loss is
\* invented, unless a carried value alone makes the sum of the counters wrap.
NeverOverReports ==
  got > 0 /\ start + dist < WordMod =>
    /\ start + dist + carried < WordMod => drop <= Missed \/ drop = carried
    /\ imu <= start + dist
    /\ (start + dist - imu) % CntMod = 0

\* The comments name the sum "driverCntPlusDropCnt" and the code warns "Data
\* count invalid" when imu_count is less: in a published message of a valid
\* frame the three counters balance.
CountsBalance == pub # NoMsg => pub.imu = pub.driver + pub.drop

\* Of the losses of this capture, those that a message has reported.
Reported == IF got = 0 THEN 0 ELSE Missed

\* The promise to subscribers, with the message as its interface.
Ledger == INSTANCE FrameLedger
            WITH outstanding <- ahead, missed <- Reported, published <- got,
                 FirstCount <- 0 .. CntMod - 1

\* The counters of the messages are those of FrameLedger, through rollovers,
\* rejected frames and any number of restarts (validateData, publishData,
\* stopBufferRead).
LedgerSpec == Ledger!Spec

=============================================================================
