----------------------------- MODULE FrameCheck -----------------------------
(***************************************************************************)
(* The checksum of ImuBuf::validateData (imu_buf.cpp) and crc32_block      *)
(* (adrd2121_imu_common.cpp): the IMU appends a checksum to the frame it   *)
(* sends, the frame is damaged on its way, and the driver computes the     *)
(* checksum again and compares.  FrameCounters counts a frame when this    *)
(* comparison succeeds.                                                    *)
(*                                                                         *)
(* A byte is the set of its one bits, and so is the CRC register: x ^ y is *)
(* the symmetric difference and x >> n the set of the bits b - n.  The     *)
(* sum is a number.  Positions are indices of buf_burst_out_.data.         *)
(***************************************************************************)
EXTENDS Integers

CONSTANTS
  crc32_tab,  \* the table of crc32_block, by the byte that indexes it
  Poly,       \* the polynomial of the CRC, lowest power in bit 31
  Contents,   \* bound: the frames the IMU sends
  Damages,    \* bound: the bits that arrive inverted
  Offsets     \* bound: how far a damaged checksum is off, for a byte sum

Size == 40
Byte == SUBSET (0 .. 7)
Word == SUBSET (0 .. 31)
Ones == 0 .. 31
UInt16 == {n \in Nat : n < 65536}
Data == [0 .. Size - 1 -> Byte]

Xor(a, b) == (a \ b) \cup (b \ a)

\* One bit of the polynomial division that defines the CRC, and eight.
Divide(r) ==
  Xor({b \in 0 .. 31 : b + 1 \in r}, IF 0 \in r THEN Poly ELSE {})

DivideByte(r) ==
  Divide(Divide(Divide(Divide(Divide(Divide(Divide(Divide(r))))))))

ASSUME TableAssumption ==
  /\ Poly \in Word /\ 31 \in Poly
  /\ crc32_tab \in [Byte -> Word]
  /\ \A b \in Byte : crc32_tab[b] = DivideByte(b)
ASSUME BoundAssumption ==
  /\ Contents \subseteq Data /\ Damages \subseteq Data
  /\ Offsets \subseteq UInt16 \ {0}

VARIABLES
  prodId,      \* p_device_->prodId
  dataFormat,  \* p_device_->dataFormat, 16 or 32
  sent,        \* the bytes the IMU sends
  damage,      \* the bits of each byte that arrive inverted
  at,          \* position of the next word
  sum,         \* calculated_crc while bytes are added up
  crc,         \* calculated_crc while crc32_block runs
  dueSum,      \* the IMU: sum of the bytes it has sent
  dueCrc,      \* the IMU: CRC register over the bytes it has sent
  verdict      \* "none" until the comparison, then what it says

vars == <<prodId, dataFormat, sent, damage, at, sum, crc, dueSum, dueCrc, verdict>>

-----------------------------------------------------------------------------
\* Products and formats the driver can be set to: nothing checks that they fit.
Model == prodId \in {16470, 16495, 16500} /\ dataFormat \in {16, 32}

\* The format is one that the product sends: the burst of an ADIS16470 has
\* 16-bit values, that of an ADIS16495 32-bit, whatever the parameter says.
Matching ==
  /\ prodId = 16470 => dataFormat = 16
  /\ prodId = 16495 => dataFormat = 32

\* The IMU: the positions its checksum is taken over, and those it is put at.  For
\* the sums they follow the layouts quoted in validateData.  The layout quoted for
\* the 16495 (with fsclk < 3MHz) begins the data two bytes earlier than the code
\* does: here the data begins at the code's offset of 6, and what is checked of the
\* 16495 says nothing about which of the two is right.
Protected ==
  IF prodId = 16495 THEN 6 .. 35
  ELSE IF prodId = 16500 /\ dataFormat = 32 THEN 2 .. 31
  ELSE 2 .. 19

Field ==
  IF prodId = 16495 THEN 36 .. 39
  ELSE IF prodId = 16500 /\ dataFormat = 32 THEN 32 .. 33
  ELSE 20 .. 21

\* validateData: how the driver computes the checksum.
Method ==
  IF dataFormat = 16 \/ prodId = 16500 THEN "sum"
  ELSE IF prodId = 16495 THEN "crc"
  ELSE "none"

\* Mutant of Checked: the last word is left out.
CheckedShort ==
  IF dataFormat = 16 THEN 2 .. 17
  ELSE IF prodId = 16500 THEN 2 .. 29
  ELSE 6 .. 33

\* validateData: the positions the driver computes the checksum over.
Checked ==
  IF dataFormat = 16 THEN 2 .. 19
  ELSE IF prodId = 16500 THEN 2 .. 31
  ELSE 6 .. 6 + 2 * 15 - 1

\* The byte at a position as it arrives.
Got(k) == Xor(sent[k], damage[k])

\* A byte as a number.
Value(b) ==
  LET Bit(i, w) == IF i \in b THEN w ELSE 0
  IN  Bit(0, 1) + Bit(1, 2) + Bit(2, 4) + Bit(3, 8)
      + Bit(4, 16) + Bit(5, 32) + Bit(6, 64) + Bit(7, 128)

\* validateData: a byte joins the sum, cut to uint16_t.
AddByte(s, b) == (s + Value(b)) % 65536

\* Mutant of TableStep: the register is moved the other way.
TableStepLeft(c, b) ==
  Xor({i + 8 : i \in c}, crc32_tab[Xor(c, b) \cap 0 .. 7])

\* Mutant of TableStep: the register is not in the index.
TableStepBare(c, b) ==
  Xor({i \in 0 .. 23 : i + 8 \in c}, crc32_tab[b])

\* crc32_block, one byte: (crc >> 8) ^ crc32_tab[(crc ^ c) & 0xFF].
TableStep(c, b) ==
  Xor({i \in 0 .. 23 : i + 8 \in c}, crc32_tab[Xor(c, b) \cap 0 .. 7])

\* The IMU: the CRC, one byte.
DueStep(c, b) == DivideByte(Xor(c, b))

-----------------------------------------------------------------------------
\* validateData is called with the next frame.
Init ==
  /\ Model
  /\ sent \in Contents /\ damage \in Damages
  /\ at = 0
  /\ sum = 0 /\ crc = Ones
  /\ dueSum = 0 /\ dueCrc = Ones
  /\ verdict = "none"

\* The driver: one word of the sum, one round of the loop of crc32_block (the
\* lower byte first), or nothing.
CheckWord ==
  /\ sum' = IF Method = "sum" /\ at \in Checked
            THEN AddByte(AddByte(sum, Got(at)), Got(at + 1)) ELSE sum
  /\ crc' = IF Method = "crc" /\ at \in Checked
            THEN TableStep(TableStep(crc, Got(at)), Got(at + 1)) ELSE crc

\* The IMU: the same word when it was sent.
DueWord ==
  /\ dueSum' = IF at \in Protected
               THEN AddByte(AddByte(dueSum, sent[at]), sent[at + 1]) ELSE dueSum
  /\ dueCrc' = IF prodId = 16495 /\ at \in Protected
               THEN DueStep(DueStep(dueCrc, sent[at]), sent[at + 1]) ELSE dueCrc

NextWord ==
  /\ at < Size
  /\ at' = at + 2
  /\ CheckWord /\ DueWord
  /\ UNCHANGED <<prodId, dataFormat, sent, damage, verdict>>

\* The CRC that arrives: the one the IMU sent, inverted and with the damage.
ReceivedCrc ==
  Xor(Xor(dueCrc, Ones), {i \in 0 .. 31 : i % 8 \in damage[36 + i \div 8]})

\* The sums that may arrive: the one the IMU sent or, damaged, another one; in a
\* format that does not fit, the library may take the right number or another.
ReceivedSums ==
  LET wrong == {(dueSum + d) % 65536 : d \in Offsets}
  IN  IF ~Matching THEN wrong \cup {dueSum}
      ELSE IF \A k \in Field : damage[k] = {} THEN {dueSum} ELSE wrong

Decide(accepted) == verdict' = IF accepted THEN "accepted" ELSE "refused"

\* burst_out_.crc == calculated_crc; with no method calculated_crc is zero.
Compare ==
  /\ at = Size /\ verdict = "none"
  /\ \/ Method = "crc" /\ Decide(ReceivedCrc = Xor(crc, Ones))
     \/ Method = "sum" /\ \E r \in ReceivedSums : Decide(r = sum)
     \/ Method = "none" /\ \E r \in ReceivedSums : Decide(r = 0)
  /\ UNCHANGED <<prodId, dataFormat, sent, damage, at, sum, crc, dueSum, dueCrc>>

Next == NextWord \/ Compare

Spec == Init /\ [][Next]_vars

-----------------------------------------------------------------------------
\* Every register has the width of its type.
TypeOK ==
  /\ Model
  /\ sent \in Data /\ damage \in Data
  /\ at \in 0 .. Size /\ at % 2 = 0
  /\ sum \in UInt16 /\ dueSum \in UInt16
  /\ crc \in Word /\ dueCrc \in Word
  /\ verdict \in {"none", "accepted", "refused"}

\* The positions the checksum protects, its own included, that are damaged.
Damaged == {k \in Protected \cup Field : damage[k] # {}}

\* Damage of one byte or, where there is a CRC, of bits that are among 32 in a
\* row, in the order in which crc32_block takes them in.
Confined ==
  \A j, k \in Damaged :
    IF prodId = 16495
    THEN \A a \in damage[j], b \in damage[k] : (8 * k + b) - (8 * j + a) < 32
    ELSE j = k

\* No frame is accepted that one damaged byte - with the CRC: a burst of up to
\* 32 bits, wherever it begins, in a byte or between two, and whether it is in
\* the data or the checksum - has changed: whatever crc32_block's table and the
\* loop make of the damage, it does not cancel out (validateData, crc32_block).
DamageRefused ==
  verdict = "accepted" /\ Matching /\ Confined => Damaged = {}

\* Every frame that arrives as it was sent is accepted: the sum takes in the
\* bytes the IMU sums up, and the table-driven loop, begun and ended with all
\* ones, computes the CRC the polynomial defines (validateData, crc32_block).
\* That the data of a 16495 begins at byte 6 is taken from the code.
IntactAccepted ==
  verdict = "refused" /\ Matching => Damaged # {}
=============================================================================
