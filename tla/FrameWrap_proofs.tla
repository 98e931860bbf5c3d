-------------------------- MODULE FrameWrap_proofs --------------------------
(***************************************************************************)
(* What is left of the counters without Faithful: sessions that wrap       *)
(* uint32_t any number of times, gaps of any length, and any number of     *)
(* captures, each with what the ones before have left in drop_count.       *)
(***************************************************************************)
EXTENDS FrameCounters_proofs

-----------------------------------------------------------------------------
\* Quotient and remainder by m.
LEMMA DivMod ==
  ASSUME NEW x \in Nat, NEW m \in Nat \ {0}
  PROVE  /\ x \div m \in Nat /\ x % m \in 0 .. m - 1
         /\ x = (x \div m) * m + (x % m)
BY SMTT(30)

\* A factor that is greater makes a greater product, by one m at least.
LEMMA Multiples ==
  ASSUME NEW p \in Nat, NEW q \in Nat, NEW m \in Nat \ {0}
  PROVE  /\ p * m \in Nat /\ q * m \in Nat
         /\ p < q => p * m + m <= q * m
         /\ (p + q) * m = p * m + q * m
         /\ (p + 1) * m = p * m + m
<1>1. p * m \in Nat /\ q * m \in Nat
  OBVIOUS
<1>2. ASSUME p < q PROVE p * m + m <= q * m
  <2>1. PICK k \in Nat : q = p + 1 + k
    <3>1. q - (p + 1) \in Nat /\ q = p + 1 + (q - (p + 1))
      BY <1>2
    <3> QED BY <3>1
  <2>2. (p + 1 + k) * m = p * m + m + k * m /\ k * m >= 0 /\ k * m \in Nat
    BY SMTT(30)
  <2> QED BY <1>1, <2>1, <2>2
<1>3. (p + q) * m = p * m + q * m /\ (p + 1) * m = p * m + m
  BY SMTT(30)
<1> QED BY <1>1, <1>2, <1>3

\* A number between two multiples has the lower one's quotient.
LEMMA Unique ==
  ASSUME NEW q \in Nat, NEW m \in Nat \ {0}, NEW r \in 0 .. m - 1
  PROVE  (q * m + r) % m = r /\ (q * m + r) \div m = q
<1> DEFINE x == q * m + r
           d == x \div m
           e == x % m
<1>1. q * m \in Nat /\ x \in Nat
  OBVIOUS
<1>2. d \in Nat /\ e \in 0 .. m - 1 /\ x = d * m + e
  BY <1>1, DivMod
<1> HIDE DEF d, e
<1>3. PICK u \in Nat : u = q * m
  BY <1>1
<1>4. PICK v \in Nat : v = d * m
  BY <1>2
<1>5. u + r = v + e
  BY <1>2, <1>3, <1>4
<1>6. ~(q < d)
  <2>1. q < d => u + m <= v
    BY <1>2, <1>3, <1>4, Multiples
  <2> QED BY <2>1, <1>2, <1>5
<1>7. ~(d < q)
  <2>1. d < q => v + m <= u
    BY <1>2, <1>3, <1>4, Multiples
  <2> QED BY <2>1, <1>2, <1>5
<1>8. d = q
  BY <1>2, <1>6, <1>7
<1>9. e = r
  BY <1>2, <1>3, <1>4, <1>5, <1>8
<1> QED BY <1>8, <1>9 DEF d, e

\* A remainder counts up like the number itself.
LEMMA ModNext ==
  ASSUME NEW x \in Nat, NEW m \in Nat \ {0}
  PROVE  ((x % m) + 1) % m = (x + 1) % m
<1> DEFINE q == x \div m
           r == x % m
<1>1. q \in Nat /\ r \in 0 .. m - 1 /\ x = q * m + r
  BY DivMod
<1> HIDE DEF q, r
<1>2. CASE r + 1 < m
  <2>1. (r + 1) % m = r + 1
    BY <1>1, <1>2, ModRange
  <2>2. x + 1 = q * m + (r + 1) /\ r + 1 \in 0 .. m - 1
    BY <1>1, <1>2, Multiples
  <2>3. (x + 1) % m = r + 1
    BY <1>1, <2>2, Unique
  <2> QED BY <2>1, <2>3 DEF r
<1>3. CASE ~(r + 1 < m)
  <2>1. r + 1 = 1 * m + 0 /\ 0 \in 0 .. m - 1
    BY <1>1, <1>3
  <2>2. (r + 1) % m = 0
    BY <2>1, Unique
  <2>3. x + 1 = (q + 1) * m + 0 /\ q + 1 \in Nat
    <3>1. PICK u \in Nat : u = q * m
      BY <1>1
    <3>2. (q + 1) * m = u + m
      BY <1>1, <3>1, Multiples
    <3> QED BY <1>1, <2>1, <3>1, <3>2
  <2>4. (x + 1) % m = 0
    BY <2>1, <2>3, Unique
  <2> QED BY <2>2, <2>4 DEF r
<1> QED BY <1>2, <1>3

\* A multiple of m changes no remainder.
LEMMA ModShift ==
  ASSUME NEW x \in Nat, NEW k \in Nat, NEW m \in Nat \ {0}
  PROVE  (x + k * m) % m = x % m
<1> DEFINE q == x \div m
           r == x % m
<1>1. q \in Nat /\ r \in 0 .. m - 1 /\ x = q * m + r
  BY DivMod
<1> HIDE DEF q, r
<1>2. x + k * m = (q + k) * m + r /\ q + k \in Nat
  <2>1. PICK u \in Nat : u = q * m
    BY <1>1
  <2>2. PICK v \in Nat : v = k * m
    OBVIOUS
  <2>3. (q + k) * m = u + v
    BY <1>1, <2>1, <2>2, Multiples
  <2> QED BY <1>1, <2>1, <2>2, <2>3
<1>3. (x + k * m) % m = r
  BY <1>1, <1>2, Unique
<1> QED BY <1>3 DEF r

\* It does not matter that the rollover count is cut before it is multiplied.
LEMMA CutRollovers ==
  ASSUME NEW c \in Nat, NEW r \in Nat, NEW w \in Nat, NEW m \in Nat \ {0}
  PROVE  (c + (r % m) * w) % m = (c + r * w) % m
<1> DEFINE q == r \div m
           e == r % m
<1>1. q \in Nat /\ e \in 0 .. m - 1 /\ r = q * m + e
  BY DivMod
<1> HIDE DEF q, e
<1>2. PICK u \in Nat : u = e * w
  <2>1. e * w \in Nat
    BY <1>1
  <2> QED BY <2>1
<1>3. PICK k \in Nat : k = q * w
  <2>1. q * w \in Nat
    BY <1>1
  <2> QED BY <2>1
<1>4. r * w = u + k * m
  <2>1. (q * m + e) * w = (q * w) * m + e * w
    BY <1>1, SMTT(30)
  <2>2. k * m \in Nat
    OBVIOUS
  <2> QED BY <1>1, <1>2, <1>3, <2>1, <2>2
<1>5. c + r * w = (c + u) + k * m /\ c + u \in Nat
  <2>1. PICK v \in Nat : v = k * m
    OBVIOUS
  <2> QED BY <1>4, <2>1
<1>6. ((c + u) + k * m) % m = (c + u) % m
  BY <1>5, ModShift
<1> QED BY <1>2, <1>5, <1>6 DEF e

\* The update of drop_count x when position t and the sum s of driver_count and
\* drop_count are known only modulo m.
DropStep(x, s, t, m) ==
  IF t % m > s % m THEN (x + ((t % m) - (s % m))) % m ELSE x

\* A sum of two remainders and less than m is cut once at most.
LEMMA CutOnce ==
  ASSUME NEW m \in Nat \ {0}, NEW z \in Nat, z < m + m
  PROVE  z % m = IF z < m THEN z ELSE z - m
<1>1. CASE z < m
  BY <1>1, ModRange
<1>2. CASE ~(z < m)
  <2>1. z - m \in 0 .. m - 1 /\ z = 1 * m + (z - m)
    BY <1>2
  <2>2. (1 * m + (z - m)) % m = z - m
    BY <2>1, Unique
  <2> QED BY <1>2, <2>1, <2>2
<1> QED BY <1>1, <1>2

\* With driver count d and k losses to report: the update never reports more,
\* unless it leaves x alone; and nothing is missing if the quotients agree.
LEMMA DropStepSafe ==
  ASSUME NEW m \in Nat \ {0}, NEW d \in Nat, NEW k \in Nat, NEW x \in 0 .. m - 1
  PROVE  LET y == DropStep(x, d + x, d + k, m)
         IN  /\ y \in Nat
             /\ y <= k \/ y = x
             /\ (d + y) \div m = (d + k) \div m => y >= k
<1> DEFINE s == d + x
           t == d + k
           a == t \div m
           i == t % m
           b == s \div m
           j == s % m
           z == x + (i - j)
           y == DropStep(x, s, t, m)
           v == d + y
<1>0. s \in Nat /\ t \in Nat /\ (a + 1) * m = a * m + m
  <2>1. s \in Nat /\ t \in Nat
    OBVIOUS
  <2>2. a \in Nat
    BY <2>1, DivMod
  <2> HIDE DEF a
  <2>3. (a + 1) * m = a * m + m
    BY <2>2, Multiples
  <2> QED BY <2>1, <2>3
<1>1. PICK A \in Nat, B \in Nat :
        /\ A = a * m /\ B = b * m
        /\ t = A + i /\ s = B + j
        /\ b < a => B + m <= A
        /\ a < b => A + m <= B
        /\ a + 1 < b => A + m + m <= B
  <2>1. /\ a \in Nat /\ i \in 0 .. m - 1 /\ t = a * m + i
        /\ b \in Nat /\ j \in 0 .. m - 1 /\ s = b * m + j
    BY <1>0, DivMod
  <2> HIDE DEF a, b, i, j, s, t
  <2>2. a + 1 < b => (a + 1) * m + m <= b * m
    BY <2>1, Multiples
  <2>3. /\ b < a => b * m + m <= a * m
        /\ a < b => a * m + m <= b * m
        /\ a * m \in Nat /\ b * m \in Nat
    BY <2>1, Multiples
  <2> QED BY <1>0, <2>1, <2>2, <2>3
<1>2. a \in Nat /\ b \in Nat /\ i \in 0 .. m - 1 /\ j \in 0 .. m - 1
  BY <1>0, DivMod
<1>3. y = IF i > j THEN z % m ELSE x
  BY DEF DropStep
<1> HIDE DEF a, b, i, j, y
<1>4. i > j => z \in Nat /\ y = IF z < m THEN z ELSE z - m
  <2> SUFFICES ASSUME i > j PROVE z \in Nat /\ y = IF z < m THEN z ELSE z - m
    OBVIOUS
  <2>1. z \in Nat /\ z < m + m
    BY <1>2
  <2> HIDE DEF z
  <2> QED BY <1>3, <2>1, CutOnce
<1>5. y \in Nat
  BY <1>3, <1>4
<1>6. y <= k \/ y = x
  <2>1. CASE ~(i > j)
    BY <1>3, <2>1
  <2>2. CASE i > j /\ ~(a < b)
    <3>1. B <= A
      BY <1>1, <1>2, <2>2
    <3> QED BY <1>1, <1>2, <1>4, <2>2, <3>1
  <2>3. CASE i > j /\ a < b
    <3>1. B = A + m
      BY <1>1, <1>2, <2>3
    <3>2. k = z - m
      BY <1>1, <1>2, <3>1
    <3> QED BY <1>2, <1>4, <2>3, <3>2
  <2> QED BY <2>1, <2>2, <2>3
<1>7. ASSUME v \div m = a PROVE y >= k
  <2>1. v \in Nat
    BY <1>5
  <2>2. v >= A
    <3> HIDE DEF v
    <3>1. v = (v \div m) * m + (v % m) /\ v % m \in 0 .. m - 1
      BY <2>1, DivMod
    <3>2. v = A + (v % m)
      BY <1>1, <1>7, <3>1
    <3> QED BY <2>1, <3>1, <3>2
  <2>3. CASE b < a
    <3>1. B + m <= A
      BY <1>1, <2>3
    <3> QED BY <1>1, <1>2, <1>3, <1>4, <2>2, <3>1
  <2>4. CASE b = a
    <3>1. A = B
      BY <1>1, <2>4
    <3> QED BY <1>1, <1>2, <1>3, <1>4, <2>2, <3>1
  <2>5. CASE a < b /\ i > j
    <3>1. B = A + m
      BY <1>1, <1>2, <2>5
    <3>2. k = z - m
      BY <1>1, <1>2, <3>1
    <3> QED BY <1>2, <1>4, <2>5, <3>2
  <2>6. CASE a < b /\ ~(i > j)
    <3>1. v = s
      BY <1>3, <2>6
    <3> QED BY <1>7, <2>6, <3>1 DEF b
  <2> QED BY <1>2, <2>3, <2>4, <2>5, <2>6
<1> QED BY <1>5, <1>6, <1>7 DEF y, a

-----------------------------------------------------------------------------
(***************************************************************************)
(* The invariant.  It says where the IMU is without a bound on the gap     *)
(* (Behind), and separately what the position is when no gap was too long  *)
(* (Wrapped) and when no word has wrapped (Short).                         *)
(***************************************************************************)
Fresh == got = 0 => driver = 0 /\ rollover = 0 /\ dist = 0 /\ ahead = 0

ZeroDriver ==
  driver = 0 => /\ rollover = 0
                /\ got > 0 => got = 1 /\ dist = 0 /\ start = 0

Carrying == driver = 0 => drop = carried

Numbered == got > 0 => driver = start + got - 1 /\ got <= dist + 1

Behind == got > 0 => \E j \in Nat : prev + ahead = imuCnt + j * CntMod

Wrapped ==
  got > 0 /\ ~jumped =>
    /\ \E r \in Nat : start + dist = r * CntMod + prev /\ rollover = r % WordMod
    /\ imu = (start + dist) % WordMod
    /\ drop <= Missed \/ drop = carried
    /\ (driver + drop) \div WordMod = (start + dist) \div WordMod => drop >= Missed

Short ==
  got > 0 /\ start + dist < WordMod =>
    /\ \E k \in Nat : start + dist = rollover * CntMod + prev + k * CntMod
    /\ imu = rollover * CntMod + prev
    /\ start + dist + carried < WordMod => drop <= Missed \/ drop = carried

WrapInv ==
  /\ TypeOK /\ Fresh /\ ZeroDriver /\ Carrying /\ Numbered
  /\ Behind /\ Wrapped /\ Short

\* The invariant holds before the first frame.
LEMMA WrapInit == Init => WrapInv
<1> SUFFICES ASSUME Init PROVE WrapInv
  OBVIOUS
<1>1. TypeOK
  BY InitType
<1> QED BY <1>1 DEF Init, WrapInv, Fresh, ZeroDriver, Carrying, Numbered, Behind, Wrapped, Short

\* One more frame at the IMU.
LEMMA TickBehind ==
  ASSUME FrameAssumption, NEW c \in 0 .. CntMod - 1, NEW p \in Nat, NEW j \in Nat,
         p = c + j * CntMod
  PROVE  \E i \in Nat : p + 1 = Tick(c) + i * CntMod
<1>1. CASE c + 1 = CntMod
  <2>1. (j + 1) * CntMod = j * CntMod + CntMod /\ j * CntMod \in Nat
    BY FrameAssumption, Multiples
  <2>2. p + 1 = Tick(c) + (j + 1) * CntMod
    <3>1. PICK u \in Nat : u = j * CntMod
      BY <2>1
    <3> QED BY <1>1, <2>1, <3>1, FrameAssumption DEF Tick
  <2>3. j + 1 \in Nat
    OBVIOUS
  <2> QED BY <2>2, <2>3, Zenon
<1>2. CASE c + 1 # CntMod
  <2>1. p + 1 = Tick(c) + j * CntMod
    <3>1. PICK u \in Nat : u = j * CntMod
      BY FrameAssumption
    <3> QED BY <1>2, <3>1, FrameAssumption DEF Tick
  <2> QED BY <2>1
<1> QED BY <1>1, <1>2

\* A frame that is lost moves the IMU one further ahead, and only the IMU.
LEMMA LossKeeps ==
  ASSUME WrapInv, TypeOK', Lost, imuCnt' = Tick(imuCnt),
         UNCHANGED <<counters, dist, got, jumped, carried>>
  PROVE  WrapInv'
<1>1. Behind'
  <2> SUFFICES ASSUME got > 0
               PROVE  \E i \in Nat : prev + (ahead + 1) = Tick(imuCnt) + i * CntMod
    BY DEF Behind, Lost, counters
  <2>1. PICK j \in Nat : prev + ahead = imuCnt + j * CntMod
    BY DEF WrapInv, Behind
  <2>2. prev + ahead \in Nat /\ imuCnt \in 0 .. CntMod - 1
    BY FrameAssumption DEF WrapInv, TypeOK
  <2>3. \E i \in Nat : (prev + ahead) + 1 = Tick(imuCnt) + i * CntMod
    BY <2>1, <2>2, FrameAssumption, TickBehind
  <2>4. prev + (ahead + 1) = (prev + ahead) + 1
    BY FrameAssumption DEF WrapInv, TypeOK
  <2> QED BY <2>3, <2>4
<1>2. Fresh' /\ ZeroDriver' /\ Carrying' /\ Numbered'
  BY DEF WrapInv, Fresh, ZeroDriver, Carrying, Numbered, Lost, counters
<1>3. Wrapped' /\ Short'
  BY DEF WrapInv, Wrapped, Short, Missed, counters
<1> QED BY <1>1, <1>2, <1>3 DEF WrapInv

\* The first valid frame, or the second after a frame 0.
LEMMA AnchorKeeps ==
  ASSUME WrapInv, TypeOK', FrameValid, driver = 0
  PROVE  WrapInv'
<1> USE FrameAssumption
<1> DEFINE c == Tick(imuCnt)
<1>1. c \in 0 .. CntMod - 1 /\ c \in 0 .. WordMod - 1
  BY TickType DEF WrapInv, TypeOK
<1>2. /\ prev' = c /\ driver' = c /\ start' = c /\ dist' = 0 /\ got' = 1
      /\ ahead' = 0 /\ imuCnt' = c /\ carried' = carried
  BY DEF FrameValid, SetAnchor
<1>3. rollover' = 0 /\ drop = carried /\ drop \in 0 .. WordMod - 1
  BY <1>1 DEF FrameValid, Rolled, PrevSeen, WrapInv, TypeOK, ZeroDriver, Carrying
<1>4. imu' = c
  <2>1. c + rollover' * CntMod = c
    BY <1>1, <1>3
  <2>2. imu' = (c + rollover' * CntMod) % WordMod
    BY Zenon DEF FrameValid
  <2> QED BY <1>1, <2>1, <2>2, ModRange
<1>5. drop' = DropStep(drop, c + drop, c + 0, WordMod)
  <2>1. c % WordMod = c /\ c + 0 = c
    BY <1>1, ModRange
  <2>2. drop' = IF imu' > Total(driver') THEN (drop + (imu' - Total(driver'))) % WordMod ELSE drop
    BY Zenon DEF FrameValid, DropAfter
  <2>3. Total(driver') = (c + drop) % WordMod
    BY <1>2, Zenon DEF Total
  <2> QED BY <1>4, <2>1, <2>2, <2>3, Zenon DEF DropStep
<1> HIDE DEF c
<1>6. drop' \in Nat /\ (drop' <= 0 \/ drop' = carried)
  <2>1. c \in Nat /\ 0 \in Nat /\ WordMod \in Nat \ {0}
    BY <1>1
  <2>2. LET y == DropStep(drop, c + drop, c + 0, WordMod)
        IN  y \in Nat /\ (y <= 0 \/ y = drop)
    BY <1>3, <2>1, DropStepSafe, Zenon
  <2> QED BY <1>3, <1>5, <2>2
<1>7. Missed' = 0 /\ start' + dist' = c
  BY <1>1, <1>2 DEF Missed
<1>8. Fresh' /\ ZeroDriver' /\ Numbered'
  BY <1>1, <1>2, <1>3 DEF Fresh, ZeroDriver, Numbered
<1>9. Behind'
  <2>1. prev' + ahead' = imuCnt' + 0 * CntMod
    BY <1>1, <1>2
  <2> QED BY <2>1 DEF Behind
<1>10. Wrapped'
  <2>1. start' + dist' = 0 * CntMod + prev'
    BY <1>1, <1>2, <1>7
  <2>2. rollover' = 0 % WordMod
    BY <1>3, ModRange
  <2>3. imu' = (start' + dist') % WordMod
    BY <1>1, <1>4, <1>7, ModRange
  <2>4. (drop' <= Missed' \/ drop' = carried') /\ drop' >= Missed'
    BY <1>2, <1>6, <1>7
  <2> QED BY <2>1, <2>2, <2>3, <2>4 DEF Wrapped
<1>11. Short'
  <2>1. start' + dist' = rollover' * CntMod + prev' + 0 * CntMod
    BY <1>1, <1>2, <1>3, <1>7
  <2>2. imu' = rollover' * CntMod + prev'
    BY <1>1, <1>2, <1>3, <1>4
  <2> QED BY <1>2, <1>6, <1>7, <2>1, <2>2 DEF Short
<1>12. Carrying'
  <2> SUFFICES ASSUME c = 0 PROVE drop' = drop
    BY <1>2, <1>3 DEF Carrying
  <2>1. (c + 0) % WordMod = 0 /\ (c + drop) % WordMod = drop
    BY <1>3, ModRange
  <2>2. ~(0 > drop)
    BY <1>3
  <2> QED BY <1>5, <2>1, <2>2 DEF DropStep
<1> QED BY <1>8, <1>9, <1>10, <1>11, <1>12 DEF WrapInv

\* A later frame: what it is numbered, and where the IMU is.
LEMMA LaterFrame ==
  ASSUME WrapInv, TypeOK', FrameValid, driver # 0
  PROVE  /\ got > 0 /\ got \in Nat /\ start \in Nat /\ dist \in Nat /\ ahead \in Nat
         /\ prev' = Tick(imuCnt) /\ driver' = start + got /\ start' = start
         /\ dist' = dist + ahead + 1 /\ got' = got + 1
         /\ ahead' = 0 /\ imuCnt' = Tick(imuCnt) /\ carried' = carried
         /\ PrevSeen(Tick(imuCnt)) = prev
         /\ start' + dist' = start + dist + ahead + 1
         /\ Missed' = Missed + ahead /\ Missed \in Nat
         /\ start' + dist' = driver' + Missed'
         /\ \E j \in Nat : prev + (ahead + 1) = Tick(imuCnt) + j * CntMod
<1> USE FrameAssumption
<1>1. got > 0 /\ got \in Nat /\ start \in Nat /\ dist \in Nat /\ ahead \in Nat /\ driver \in Nat
  BY DEF WrapInv, TypeOK, Fresh
<1>2. /\ prev' = Tick(imuCnt) /\ driver' = driver + 1 /\ start' = start
      /\ dist' = dist + ahead + 1 /\ got' = got + 1
      /\ ahead' = 0 /\ imuCnt' = Tick(imuCnt) /\ carried' = carried
      /\ PrevSeen(Tick(imuCnt)) = prev
  BY DEF FrameValid, CountFrame, PrevSeen
<1>3. driver = start + got - 1 /\ got <= dist + 1
  BY <1>1 DEF WrapInv, Numbered
<1>4. \E j \in Nat : prev + (ahead + 1) = Tick(imuCnt) + j * CntMod
  <2>1. PICK j \in Nat : prev + ahead = imuCnt + j * CntMod
    BY <1>1 DEF WrapInv, Behind
  <2>2. prev + ahead \in Nat /\ imuCnt \in 0 .. CntMod - 1
    BY DEF WrapInv, TypeOK
  <2>3. \E i \in Nat : (prev + ahead) + 1 = Tick(imuCnt) + i * CntMod
    BY <2>1, <2>2, TickBehind
  <2>4. prev + (ahead + 1) = (prev + ahead) + 1
    BY DEF WrapInv, TypeOK
  <2> QED BY <2>3, <2>4
<1>5. driver' = start + got /\ start' + dist' = start + dist + ahead + 1
  BY <1>1, <1>2, <1>3
<1>6. Missed' = Missed + ahead /\ Missed \in Nat /\ start' + dist' = driver' + Missed'
  BY <1>1, <1>2, <1>3 DEF Missed
<1> QED BY <1>1, <1>2, <1>4, <1>5, <1>6

\* When no gap was too long, the count rolls over exactly when it went down.
LEMMA WrappedNext ==
  ASSUME WrapInv, TypeOK', FrameValid, driver # 0
  PROVE  Wrapped'
<1> USE FrameAssumption
<1> DEFINE c == Tick(imuCnt)
           T == start + dist + ahead + 1
<1> SUFFICES ASSUME ~jumped' PROVE Wrapped'
  BY DEF Wrapped
<1>1. c \in 0 .. CntMod - 1 /\ prev \in 0 .. CntMod - 1
  BY TickType DEF WrapInv, TypeOK
<1>2. ~jumped /\ ahead + 1 < CntMod
  <2>1. ~jumped /\ ~(ahead + 1 >= CntMod)
    BY Zenon DEF FrameValid
  <2>2. ahead + 1 < CntMod
    BY <2>1 DEF WrapInv, TypeOK
  <2> QED BY <2>1, <2>2
<1>3. /\ got > 0 /\ got \in Nat /\ start \in Nat /\ dist \in Nat /\ ahead \in Nat
      /\ prev' = c /\ driver' = start + got /\ start' = start
      /\ dist' = dist + ahead + 1 /\ got' = got + 1
      /\ PrevSeen(c) = prev
      /\ start' + dist' = T
      /\ Missed' = Missed + ahead /\ Missed \in Nat
      /\ T = driver' + Missed' /\ carried' = carried
  BY LaterFrame
<1>4. PICK j \in Nat : prev + (ahead + 1) = c + j * CntMod
  BY LaterFrame
<1>5. PICK r \in Nat : start + dist = r * CntMod + prev /\ rollover = r % WordMod
  BY <1>2, <1>3 DEF WrapInv, Wrapped
<1>6. (drop <= Missed \/ drop = carried) /\ drop \in 0 .. WordMod - 1
  BY <1>2, <1>3 DEF WrapInv, TypeOK, Wrapped
<1> HIDE DEF c
<1>7. \E q \in Nat : T = q * CntMod + c /\ rollover' = q % WordMod
  <2>1. j = 0 \/ j = 1
    <3>1. 1 < j => 1 * CntMod + CntMod <= j * CntMod
      BY Multiples
    <3>2. PICK u \in Nat : u = j * CntMod
      OBVIOUS
    <3> QED BY <1>1, <1>2, <1>3, <1>4, <3>1, <3>2
  <2>2. PICK v \in Nat : v = r * CntMod
    OBVIOUS
  <2>3. CASE j = 0
    <3>1. c = prev + (ahead + 1)
      BY <1>1, <1>3, <1>4, <2>3
    <3>2. rollover' = rollover
      BY <1>1, <1>3, <3>1 DEF FrameValid, Rolled, c
    <3>3. T = r * CntMod + c
      BY <1>1, <1>3, <1>5, <2>2, <3>1
    <3> QED BY <1>5, <3>2, <3>3
  <2>4. CASE j = 1
    <3>1. c = prev + (ahead + 1) - CntMod
      BY <1>1, <1>3, <1>4, <2>4
    <3>2. Rolled(c)
      BY <1>1, <1>2, <1>3, <3>1 DEF Rolled
    <3>3. rollover' = (r + 1) % WordMod
      <4>1. rollover' = (rollover + 1) % WordMod
        BY <3>2 DEF FrameValid, c
      <4>2. WordMod \in Nat \ {0}
        OBVIOUS
      <4>3. ((r % WordMod) + 1) % WordMod = (r + 1) % WordMod
        BY <4>2, ModNext
      <4> QED BY <1>5, <4>1, <4>3, Zenon
    <3>4. T = (r + 1) * CntMod + c
      <4>1. (r + 1) * CntMod = v + CntMod
        BY <2>2, Multiples
      <4> QED BY <1>1, <1>3, <1>5, <2>2, <3>1, <4>1
    <3>5. r + 1 \in Nat
      OBVIOUS
    <3> QED BY <3>3, <3>4, <3>5, Zenon
  <2> QED BY <2>1, <2>3, <2>4
<1>8. imu' = T % WordMod
  <2>1. PICK q \in Nat : T = q * CntMod + c /\ rollover' = q % WordMod
    BY <1>7
  <2>2. imu' = (c + rollover' * CntMod) % WordMod
    BY DEF FrameValid, c
  <2>3. (c + (q % WordMod) * CntMod) % WordMod = (c + q * CntMod) % WordMod
    <3>1. c \in Nat
      BY <1>1
    <3>2. CntMod \in Nat
      OBVIOUS
    <3>3. WordMod \in Nat \ {0}
      OBVIOUS
    <3>4. q \in Nat
      OBVIOUS
    <3>5. \A w \in Nat, m \in Nat \ {0} : (c + (q % m) * w) % m = (c + q * w) % m
      BY <3>1, <3>4, CutRollovers, Zenon
    <3> QED BY <3>2, <3>3, <3>5, Zenon
  <2>4. c + q * CntMod = T
    <3>1. PICK u \in Nat : u = q * CntMod
      OBVIOUS
    <3> QED BY <1>1, <2>1, <3>1
  <2> QED BY <2>1, <2>2, <2>3, <2>4
<1>9. PICK d \in Nat, k \in Nat, y \in Nat :
        /\ d = driver' /\ k = Missed' /\ y = drop' /\ T = d + k
        /\ y <= k \/ y = drop
        /\ (d + y) \div WordMod = (d + k) \div WordMod => y >= k
  <2>1. driver' \in Nat /\ Missed' \in Nat
    BY <1>3
  <2>2. PICK d \in Nat, k \in Nat : d = driver' /\ k = Missed'
    BY <2>1
  <2>3. T = d + k
    BY <1>3, <2>2
  <2>4. drop' = DropStep(drop, d + drop, d + k, WordMod)
    <3>1. drop' = IF imu' > Total(driver') THEN (drop + (imu' - Total(driver'))) % WordMod ELSE drop
      BY Zenon DEF FrameValid, DropAfter
    <3>2. Total(driver') = (d + drop) % WordMod /\ imu' = (d + k) % WordMod
      BY <1>8, <2>2, <2>3, Zenon DEF Total
    <3> QED BY <3>1, <3>2, Zenon DEF DropStep
  <2> HIDE DEF T
  <2>0. WordMod \in Nat \ {0}
    OBVIOUS
  <2>5. LET y == DropStep(drop, d + drop, d + k, WordMod)
        IN  /\ y \in Nat
            /\ y <= k \/ y = drop
            /\ (d + y) \div WordMod = (d + k) \div WordMod => y >= k
    BY <1>6, <2>0, DropStepSafe, Zenon
  <2>6. /\ drop' \in Nat /\ (drop' <= k \/ drop' = drop)
        /\ (d + drop') \div WordMod = (d + k) \div WordMod => drop' >= k
    BY <2>4, <2>5, Zenon
  <2> QED BY <2>2, <2>3, <2>6, Zenon
<1>10. drop' <= Missed' \/ drop' = carried'
  <2>1. Missed <= k
    BY <1>3, <1>9
  <2> QED BY <1>3, <1>6, <1>9, <2>1
<1>11. (driver' + drop') \div WordMod = (start' + dist') \div WordMod => drop' >= Missed'
  <2> HIDE DEF T
  <2> QED BY <1>3, <1>9
<1> QED BY <1>3, <1>7, <1>8, <1>10, <1>11 DEF Wrapped

\* Whatever the gap, the position is never overstated, and it is off by whole
\* rounds of the data counter.
LEMMA ShortNext ==
  ASSUME WrapInv, TypeOK', FrameValid, driver # 0
  PROVE  Short'
<1> USE FrameAssumption
<1> DEFINE c == Tick(imuCnt)
           T == start + dist + ahead + 1
<1>1. c \in 0 .. CntMod - 1 /\ prev \in 0 .. CntMod - 1
  BY TickType DEF WrapInv, TypeOK
<1>2. /\ got > 0 /\ got \in Nat /\ start \in Nat /\ dist \in Nat /\ ahead \in Nat
      /\ prev' = c /\ driver' = start + got
      /\ PrevSeen(c) = prev
      /\ start' + dist' = T
      /\ Missed' = Missed + ahead /\ Missed \in Nat
      /\ T = driver' + Missed' /\ carried' = carried
  BY LaterFrame
<1>3. PICK j \in Nat : prev + (ahead + 1) = c + j * CntMod
  BY LaterFrame
<1> SUFFICES ASSUME T < WordMod PROVE Short'
  BY <1>2 DEF Short
<1>4. PICK k \in Nat : start + dist = rollover * CntMod + prev + k * CntMod
  BY <1>2 DEF WrapInv, Short
<1>5. T + carried < WordMod => drop <= Missed \/ drop = carried
  BY <1>2 DEF WrapInv, TypeOK, Short
<1>6. rollover \in Nat
  BY DEF WrapInv, TypeOK
<1> HIDE DEF c
<1>7. PICK R \in Nat, J \in Nat, K \in Nat :
        R = rollover * CntMod /\ J = j * CntMod /\ K = k * CntMod
  <2>1. rollover * CntMod \in Nat /\ j * CntMod \in Nat /\ k * CntMod \in Nat
    BY <1>6
  <2> QED BY <2>1
<1>8. T = R + c + J + K
  <2>1. prev + (ahead + 1) = c + J
    BY <1>3, <1>7
  <2>2. start + dist = R + prev + K
    BY <1>4, <1>7
  <2> QED BY <1>1, <1>2, <2>1, <2>2
<1>9. \E q \in Nat : T = rollover' * CntMod + c + q * CntMod
  <2>1. CASE Rolled(c)
    <3>1. c < prev
      BY <1>2, <2>1 DEF Rolled
    <3>2. j > 0
      BY <1>1, <1>2, <1>3, <3>1
    <3>3. PICK i \in Nat : j = i + 1
      <4>1. j - 1 \in Nat /\ j = (j - 1) + 1
        BY <3>2
      <4> QED BY <4>1
    <3>4. PICK I \in Nat : I = i * CntMod
      OBVIOUS
    <3>5. J = I + CntMod
      BY <1>7, <3>3, <3>4, Multiples
    <3>6. rollover <= R
      <4>1. rollover * CntMod >= rollover
        BY <1>6
      <4> QED BY <1>7, <4>1
    <3>7. rollover' = rollover + 1
      <4>1. rollover + 1 \in 0 .. WordMod - 1
        BY <1>1, <1>6, <1>8, <3>5, <3>6
      <4>2. rollover' = (rollover + 1) % WordMod
        BY <2>1 DEF FrameValid, c
      <4> QED BY <4>1, <4>2, ModRange
    <3>8. rollover' * CntMod = R + CntMod
      BY <1>6, <1>7, <3>7, Multiples
    <3>9. (i + k) * CntMod = I + K /\ i + k \in Nat
      BY <1>7, <3>4, Multiples
    <3>10. T = rollover' * CntMod + c + (i + k) * CntMod
      BY <1>1, <1>8, <3>5, <3>8, <3>9
    <3> QED BY <3>9, <3>10, Zenon
  <2>2. CASE ~Rolled(c)
    <3>1. rollover' = rollover
      BY <2>2 DEF FrameValid, c
    <3>2. (j + k) * CntMod = J + K /\ j + k \in Nat
      BY <1>7, Multiples
    <3>3. T = rollover' * CntMod + c + (j + k) * CntMod
      BY <1>1, <1>7, <1>8, <3>1, <3>2
    <3> QED BY <3>2, <3>3, Zenon
  <2> QED BY <2>1, <2>2
<1>10. PICK Q \in Nat : Q = rollover' * CntMod /\ Q + c <= T
  <2>1. rollover' * CntMod \in Nat
    <3>1. PICK z \in Nat : z = rollover'
      BY DEF TypeOK
    <3>2. z * CntMod \in Nat
      OBVIOUS
    <3> QED BY <3>1, <3>2
  <2>2. PICK q \in Nat : T = rollover' * CntMod + c + q * CntMod
    BY <1>9
  <2>3. PICK v \in Nat : v = q * CntMod
    OBVIOUS
  <2> QED BY <1>1, <2>1, <2>2, <2>3
<1>11. T \in Nat
  BY <1>2
<1>12. imu' = Q + c
  <2>1. c + Q \in 0 .. WordMod - 1
    BY <1>1, <1>10, <1>11
  <2>2. imu' = (c + rollover' * CntMod) % WordMod
    BY DEF FrameValid, c
  <2> QED BY <1>1, <1>10, <2>1, <2>2, ModRange
<1>13. ASSUME T + carried < WordMod
       PROVE  drop' <= Missed' \/ drop' = carried'
  <2>1. drop \in Nat /\ driver' \in Nat /\ (drop <= Missed \/ drop = carried)
    BY <1>2, <1>5, <1>13 DEF WrapInv, TypeOK
  <2>2. Total(driver') = driver' + drop
    <3>1. driver' + drop \in 0 .. WordMod - 1
      BY <1>2, <1>11, <1>13, <2>1 DEF WrapInv, TypeOK
    <3> QED BY <3>1, ModRange DEF Total
  <2>3. CASE imu' > Total(driver')
    <3>1. drop + (imu' - Total(driver')) = imu' - driver'
      BY <1>1, <1>10, <1>12, <2>1, <2>2
    <3>2. imu' - driver' \in 0 .. WordMod - 1
      BY <1>1, <1>10, <1>11, <1>12, <2>1, <2>2, <2>3
    <3>3. drop' = imu' - driver'
      BY <2>3, <3>1, <3>2, ModRange DEF FrameValid, DropAfter
    <3> QED BY <1>1, <1>2, <1>10, <1>12, <2>1, <3>3
  <2>4. CASE ~(imu' > Total(driver'))
    <3>1. drop' = drop
      BY <2>4 DEF FrameValid, DropAfter
    <3> QED BY <1>2, <2>1, <3>1
  <2> QED BY <2>3, <2>4
<1>14. start' + dist' + carried' < WordMod => drop' <= Missed' \/ drop' = carried'
  BY <1>2, <1>13
<1>15. \E q \in Nat : start' + dist' = rollover' * CntMod + prev' + q * CntMod
  BY <1>2, <1>9, Zenon
<1>16. imu' = rollover' * CntMod + prev'
  BY <1>2, <1>10, <1>12
<1> QED BY <1>14, <1>15, <1>16 DEF Short

\* A later frame of the capture.
LEMMA CountKeeps ==
  ASSUME WrapInv, TypeOK', FrameValid, driver # 0
  PROVE  WrapInv'
<1> USE FrameAssumption
<1>1. /\ got > 0 /\ got \in Nat /\ start \in Nat
      /\ prev' = Tick(imuCnt) /\ driver' = start + got /\ start' = start
      /\ got' = got + 1 /\ ahead' = 0 /\ imuCnt' = Tick(imuCnt)
      /\ start' + dist' = driver' + Missed'
      /\ Missed' = Missed + ahead /\ Missed \in Nat /\ ahead \in Nat /\ dist' \in Nat
  <2>1. dist' \in Nat
    BY DEF TypeOK
  <2> QED BY <2>1, LaterFrame
<1>2. Fresh' /\ ZeroDriver' /\ Carrying' /\ Numbered'
  <2>1. got' > 0 /\ driver' # 0 /\ driver' = start' + got' - 1
    BY <1>1
  <2>2. dist' + 1 - got' \in Nat
    <3>1. Missed' \in Nat
      BY <1>1
    <3> QED BY <3>1 DEF Missed
  <2>3. got' <= dist' + 1
    <3>1. PICK g \in Nat, d \in Nat : g = got' /\ d = dist'
      BY <1>1
    <3>2. d + 1 - g \in Nat
      BY <2>2, <3>1
    <3>3. g <= d + 1
      BY <3>2
    <3> QED BY <3>1, <3>3
  <2> QED BY <2>1, <2>3 DEF Fresh, ZeroDriver, Carrying, Numbered
<1>3. Behind'
  <2>1. prev' + ahead' = imuCnt' + 0 * CntMod
    BY <1>1, TickType DEF WrapInv, TypeOK
  <2> QED BY <2>1 DEF Behind
<1> QED BY <1>2, <1>3, WrappedNext, ShortNext DEF WrapInv

\* Every action keeps the invariant; a restart leaves nothing to say but what
\* drop_count carries over.
LEMMA WrapNext ==
  ASSUME WrapInv, [Next]_vars
  PROVE  WrapInv'
<1> USE FrameAssumption
<1>0. TypeOK'
  BY NextType DEF WrapInv
<1>1. CASE FrameLost
  BY <1>0, <1>1, LossKeeps DEF FrameLost
<1>2. CASE ReadBurst \/ ReadFails \/ UNCHANGED vars
  BY <1>0, <1>2 DEF ReadBurst, ReadFails, vars, WrapInv, Fresh, ZeroDriver, Carrying, Numbered,
     Behind, Wrapped, Short, Missed, counters, history
<1>3. CASE FrameRejected
  BY <1>0, <1>3, LossKeeps DEF FrameRejected
<1>4. CASE FrameValid
  BY <1>0, <1>4, AnchorKeeps, CountKeeps
<1>5. CASE Restart
  BY <1>0, <1>5 DEF Restart, WrapInv, Fresh, ZeroDriver, Carrying, Numbered, Behind,
     Wrapped, Short
<1> QED BY <1>1, <1>2, <1>3, <1>4, <1>5 DEF Next

\* The strengthening for long sessions, long gaps and any number of captures.
THEOREM WrapInductive == Spec => []WrapInv
<1>1. Init => WrapInv
  BY WrapInit
<1>2. WrapInv /\ [Next]_vars => WrapInv'
  BY WrapNext
<1> QED BY <1>1, <1>2, PTL DEF Spec

\* However often uint32_t and the rollover count wrap, imu_count is the
\* position modulo 2^32 until a gap is too long for the data counter.
THEOREM WrappedCorrect == Spec => []WrappedPosition
<1>1. WrapInv => WrappedPosition
  BY DEF WrapInv, Wrapped, WrappedPosition
<1> QED BY <1>1, WrapInductive, PTL

\* In every capture drop_count is no more than the losses or what it carried
\* over, and no less whenever the sum of the counters has wrapped as often as
\* the position.
THEOREM DropRecovers == Spec => []DropCatchesUp
<1>1. WrapInv => DropCatchesUp
  BY DEF WrapInv, Wrapped, DropCatchesUp
<1> QED BY <1>1, WrapInductive, PTL

\* Gaps of any length make the driver miss losses, never invent them.
THEOREM NothingInvented == Spec => []NeverOverReports
<1> USE FrameAssumption
<1>1. WrapInv => NeverOverReports
  <2> SUFFICES ASSUME WrapInv, got > 0, start + dist < WordMod
               PROVE  /\ imu <= start + dist
                      /\ (start + dist - imu) % CntMod = 0
    BY DEF WrapInv, Short, NeverOverReports
  <2>1. imu = rollover * CntMod + prev
    BY DEF WrapInv, Short
  <2>2. PICK k \in Nat : start + dist = rollover * CntMod + prev + k * CntMod
    BY DEF WrapInv, Short
  <2>3. PICK u \in Nat : u = k * CntMod
    OBVIOUS
  <2>4. imu \in Nat /\ start + dist \in Nat
    BY DEF WrapInv, TypeOK
  <2>5. start + dist = imu + u
    BY <2>1, <2>2, <2>3
  <2>6. start + dist - imu = k * CntMod + 0
    <3>1. start + dist - imu = u
      BY <2>4, <2>5 DEF WrapInv, TypeOK
    <3> QED BY <2>3, <3>1
  <2>7. (k * CntMod + 0) % CntMod = 0
    BY Unique
  <2> QED BY <2>1, <2>3, <2>4, <2>5, <2>6, <2>7
<1> QED BY <1>1, WrapInductive, PTL

=============================================================================
