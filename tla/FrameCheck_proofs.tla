-------------------------- MODULE FrameCheck_proofs --------------------------
(***************************************************************************)
(* For every frame, every damage and every polynomial with a constant term *)
(* (whose table is the one TableAssumption describes): the driver computes *)
(* the checksum the IMU computed, and damage of one byte, or of up to 32   *)
(* bits in a row where there is a CRC, makes the two differ.               *)
(*                                                                         *)
(* The CRC register is linear in what it has seen, so the difference of    *)
(* the driver's register and the IMU's depends on the damage alone.  Add   *)
(* to it the damage of the next four bytes, where the register would meet  *)
(* it: as long as no later byte is damaged, one more byte divides this sum *)
(* by the polynomial, and a division never makes it empty.  A burst may    *)
(* reach into a fifth byte while the register meets its first bits; these  *)
(* leave a bit above all that the fifth byte brings.                       *)
(***************************************************************************)
EXTENDS FrameCheck, TLAPS

-----------------------------------------------------------------------------
\* The division.

LEMMA XorMember ==
  ASSUME NEW a, NEW b, NEW x
  PROVE  x \in Xor(a, b) <=> ~(x \in a <=> x \in b)
BY DEF Xor

\* Equal sets, and no others, have nothing between them.
LEMMA XorEmpty ==
  ASSUME NEW a, NEW b
  PROVE  Xor(a, b) = {} <=> a = b
BY DEF Xor

LEMMA XorWord ==
  ASSUME NEW a \in Word, NEW b \in Word
  PROVE  Xor(a, b) \in Word
BY DEF Xor, Word

LEMMA DivideMember ==
  ASSUME NEW r, NEW i \in 0 .. 31
  PROVE  i \in Divide(r) <=> ~(i + 1 \in r <=> (0 \in r /\ i \in Poly))
BY DEF Divide, Xor

LEMMA DivideType ==
  ASSUME NEW r
  PROVE  Divide(r) \in Word
BY TableAssumption DEF Divide, Xor, Word

\* A step of the division is linear.
LEMMA DivideXor ==
  ASSUME NEW a, NEW b
  PROVE  Divide(Xor(a, b)) = Xor(Divide(a), Divide(b))
<1>1. ASSUME NEW i \in 0 .. 31
      PROVE  i \in Divide(Xor(a, b)) <=> i \in Xor(Divide(a), Divide(b))
  BY DivideMember, XorMember
<1>2. Divide(Xor(a, b)) \in Word /\ Divide(a) \in Word /\ Divide(b) \in Word
  BY DivideType
<1>3. Xor(Divide(a), Divide(b)) \in Word
  BY <1>2 DEF Xor, Word
<1> QED BY <1>1, <1>2, <1>3 DEF Word

\* It loses nothing: the constant term takes the place of the bit shifted out.
LEMMA DivideSome ==
  ASSUME NEW r \in Word, r # {}
  PROVE  Divide(r) # {}
<1>1. CASE 0 \in r
  <2>1. 32 \notin r
    BY DEF Word
  <2>2. 31 \in Divide(r)
    <3>1. 31 \in 0 .. 31 /\ 31 + 1 = 32
      OBVIOUS
    <3> QED BY <1>1, <2>1, <3>1, DivideMember, TableAssumption
  <2> QED BY <2>2
<1>2. CASE 0 \notin r
  <2>1. PICK x \in r : TRUE
    OBVIOUS
  <2>2. x \in 0 .. 31 /\ x # 0
    BY <1>2, <2>1 DEF Word
  <2>3. x - 1 \in 0 .. 31 /\ (x - 1) + 1 = x
    BY <2>2
  <2>4. x - 1 \in Divide(r)
    BY <1>2, <2>1, <2>3, DivideMember
  <2> QED BY <2>4
<1> QED BY <1>1, <1>2

\* A low bit that is clear is shifted out.
LEMMA DivideShift ==
  ASSUME NEW r \in Word, 0 \notin r
  PROVE  Divide(r) = {i \in 0 .. 31 : i + 1 \in r}
BY DEF Divide, Xor

LEMMA DivideByteType ==
  ASSUME NEW r
  PROVE  DivideByte(r) \in Word
BY DivideType DEF DivideByte

LEMMA DivideByteXor ==
  ASSUME NEW a, NEW b
  PROVE  DivideByte(Xor(a, b)) = Xor(DivideByte(a), DivideByte(b))
<1> DEFINE a1 == Divide(a)  b1 == Divide(b)
           a2 == Divide(a1) b2 == Divide(b1)
           a3 == Divide(a2) b3 == Divide(b2)
           a4 == Divide(a3) b4 == Divide(b3)
           a5 == Divide(a4) b5 == Divide(b4)
           a6 == Divide(a5) b6 == Divide(b5)
           a7 == Divide(a6) b7 == Divide(b6)
<1>1. Divide(Xor(a, b)) = Xor(a1, b1)
  BY DivideXor
<1>2. Divide(Xor(a1, b1)) = Xor(a2, b2)
  BY DivideXor
<1>3. Divide(Xor(a2, b2)) = Xor(a3, b3)
  BY DivideXor
<1>4. Divide(Xor(a3, b3)) = Xor(a4, b4)
  BY DivideXor
<1>5. Divide(Xor(a4, b4)) = Xor(a5, b5)
  BY DivideXor
<1>6. Divide(Xor(a5, b5)) = Xor(a6, b6)
  BY DivideXor
<1>7. Divide(Xor(a6, b6)) = Xor(a7, b7)
  BY DivideXor
<1>8. Divide(Xor(a7, b7)) = Xor(Divide(a7), Divide(b7))
  BY DivideXor
<1>9. DivideByte(a) = Divide(a7) /\ DivideByte(b) = Divide(b7)
  BY DEF DivideByte
<1> QED BY <1>1, <1>2, <1>3, <1>4, <1>5, <1>6, <1>7, <1>8, <1>9, Zenon DEF DivideByte

LEMMA DivideByteSome ==
  ASSUME NEW r \in Word, r # {}
  PROVE  DivideByte(r) # {}
<1> DEFINE a1 == Divide(r)
           a2 == Divide(a1)
           a3 == Divide(a2)
           a4 == Divide(a3)
           a5 == Divide(a4)
           a6 == Divide(a5)
           a7 == Divide(a6)
<1>1. a1 \in Word /\ a1 # {}
  BY DivideType, DivideSome
<1>2. a2 \in Word /\ a2 # {}
  BY <1>1, DivideType, DivideSome
<1>3. a3 \in Word /\ a3 # {}
  BY <1>2, DivideType, DivideSome
<1>4. a4 \in Word /\ a4 # {}
  BY <1>3, DivideType, DivideSome
<1>5. a5 \in Word /\ a5 # {}
  BY <1>4, DivideType, DivideSome
<1>6. a6 \in Word /\ a6 # {}
  BY <1>5, DivideType, DivideSome
<1>7. a7 \in Word /\ a7 # {}
  BY <1>6, DivideType, DivideSome
<1>8. Divide(a7) # {}
  BY <1>7, DivideSome
<1> QED BY <1>8 DEF DivideByte

\* Eight low bits that are clear are shifted out.
LEMMA DivideByteShift ==
  ASSUME NEW r \in Word, r \cap 0 .. 7 = {}
  PROVE  DivideByte(r) = {i \in 0 .. 23 : i + 8 \in r}
<1> DEFINE S(n) == {i \in 0 .. 31 : i + n \in r}
<1>1. ASSUME NEW n \in 0 .. 7
      PROVE  Divide(S(n)) = S(n + 1)
  <2>1. n \notin r /\ S(n) \in Word
    BY DEF Word
  <2>2. 0 \notin S(n)
    BY <2>1
  <2>3. Divide(S(n)) = {i \in 0 .. 31 : i + 1 \in S(n)}
    BY <2>1, <2>2, DivideShift
  <2>4. ASSUME NEW i \in 0 .. 31
        PROVE  i + 1 \in S(n) <=> i + (n + 1) \in r
    BY DEF Word
  <2> QED BY <2>3, <2>4
<1>2. S(0) = r
  <2>1. ASSUME NEW i \in 0 .. 31
        PROVE  i + 0 = i
    OBVIOUS
  <2>2. S(0) = {i \in 0 .. 31 : i \in r}
    BY <2>1
  <2> QED BY <2>2 DEF Word
<1>3. S(8) = {i \in 0 .. 23 : i + 8 \in r}
  <2>1. ASSUME NEW i \in 0 .. 31, i + 8 \in r
        PROVE  i \in 0 .. 23
    BY <2>1 DEF Word
  <2>2. 0 .. 23 \subseteq 0 .. 31
    OBVIOUS
  <2> QED BY <2>1, <2>2
<1> HIDE DEF S
<1>4. /\ Divide(r) = S(1) /\ Divide(S(1)) = S(2) /\ Divide(S(2)) = S(3)
      /\ Divide(S(3)) = S(4) /\ Divide(S(4)) = S(5) /\ Divide(S(5)) = S(6)
      /\ Divide(S(6)) = S(7) /\ Divide(S(7)) = S(8)
  BY <1>1, <1>2
<1> QED BY <1>3, <1>4, Zenon DEF DivideByte

\* Where a register begins: with bit n, or, for a negative n, n bits ago, and
\* what has been shifted out since left a bit no lower than this.
Lead(r, n) ==
  IF n >= 0 THEN n \in r /\ r \subseteq n .. 31 ELSE \E x \in r : x >= 32 + n

LEMMA DivideLead ==
  ASSUME NEW r \in Word, NEW n \in -7 .. 7, Lead(r, n)
  PROVE  Lead(Divide(r), n - 1)
<1>1. CASE n > 0
  <2>1. n \in r /\ r \subseteq n .. 31 /\ 0 \notin r
    BY <1>1 DEF Lead
  <2>2. Divide(r) = {i \in 0 .. 31 : i + 1 \in r}
    BY <2>1, DivideShift
  <2>3. n - 1 \in Divide(r) /\ Divide(r) \subseteq n - 1 .. 31
    BY <1>1, <2>1, <2>2
  <2> QED BY <1>1, <2>3 DEF Lead
<1>2. ASSUME 0 \in r
      PROVE  31 \in Divide(r)
  <2>1. 31 \in 0 .. 31 /\ 31 + 1 = 32 /\ 32 \notin r
    BY DEF Word
  <2> QED BY <1>2, <2>1, DivideMember, TableAssumption
<1>3. CASE n = 0
  <2>1. 31 \in Divide(r)
    BY <1>2, <1>3 DEF Lead
  <2> QED BY <1>3, <2>1 DEF Lead
<1>4. CASE n < 0
  <2>1. PICK x \in r : x >= 32 + n
    BY <1>4 DEF Lead
  <2>2. x \in 0 .. 31
    BY <2>1 DEF Word
  <2>3. CASE 0 \in r
    BY <1>2, <1>4, <2>3 DEF Lead
  <2>4. CASE 0 \notin r
    <3>1. Divide(r) = {i \in 0 .. 31 : i + 1 \in r}
      BY <2>4, DivideShift
    <3>2. x - 1 \in Divide(r)
      BY <2>1, <2>2, <2>4, <3>1
    <3> QED BY <1>4, <2>1, <2>2, <3>2 DEF Lead
  <2> QED BY <2>3, <2>4
<1> QED BY <1>1, <1>3, <1>4

\* A register that begins with bit n of a byte leaves a bit that is at least as
\* high in the byte that comes in.
LEMMA DivideByteLead ==
  ASSUME NEW r \in Word, NEW n \in 0 .. 7, n \in r, r \subseteq n .. 31
  PROVE  \E x \in DivideByte(r) : x >= 24 + n
<1> DEFINE a1 == Divide(r)
           a2 == Divide(a1)
           a3 == Divide(a2)
           a4 == Divide(a3)
           a5 == Divide(a4)
           a6 == Divide(a5)
           a7 == Divide(a6)
           a8 == Divide(a7)
<1>1. Lead(r, n)
  BY DEF Lead
<1>2. /\ a1 \in Word /\ a2 \in Word /\ a3 \in Word /\ a4 \in Word
      /\ a5 \in Word /\ a6 \in Word /\ a7 \in Word
  BY DivideType
<1>3. DivideByte(r) = a8
  BY DEF DivideByte
<1> HIDE DEF a1, a2, a3, a4, a5, a6, a7, a8
<1>4. ASSUME NEW j \in 0 .. 7
      PROVE  n - j \in -7 .. 7 /\ (n - j) - 1 = n - (j + 1)
  OBVIOUS
<1>5. ASSUME NEW a \in Word, NEW j \in 0 .. 7, Lead(a, n - j)
      PROVE  Lead(Divide(a), n - (j + 1))
  BY <1>4, <1>5, DivideLead
<1>6. Lead(a1, n - 1)
  BY <1>1, <1>5 DEF a1
<1>7. Lead(a2, n - 2)
  BY <1>2, <1>5, <1>6 DEF a2
<1>8. Lead(a3, n - 3)
  BY <1>2, <1>5, <1>7 DEF a3
<1>9. Lead(a4, n - 4)
  BY <1>2, <1>5, <1>8 DEF a4
<1>10. Lead(a5, n - 5)
  BY <1>2, <1>5, <1>9 DEF a5
<1>11. Lead(a6, n - 6)
  BY <1>2, <1>5, <1>10 DEF a6
<1>12. Lead(a7, n - 7)
  BY <1>2, <1>5, <1>11 DEF a7
<1>13. Lead(a8, n - 8)
  BY <1>2, <1>5, <1>12 DEF a8
<1> QED BY <1>3, <1>13 DEF Lead

\* The table-driven step of the driver is the division of the IMU.
LEMMA TableDivides ==
  ASSUME NEW c \in Word, NEW b \in Byte
  PROVE  TableStep(c, b) = DivideByte(Xor(c, b))
<1> DEFINE low  == Xor(c, b) \cap 0 .. 7
           high == Xor(c, b) \ 0 .. 7
<1>1. low \in Byte /\ high \in Word /\ high \cap 0 .. 7 = {}
  BY DEF Byte, Word, Xor
<1>2. Xor(c, b) = Xor(high, low)
  BY DEF Xor
<1>3. DivideByte(high) = {i \in 0 .. 23 : i + 8 \in high}
  BY <1>1, DivideByteShift
<1>4. {i \in 0 .. 23 : i + 8 \in high} = {i \in 0 .. 23 : i + 8 \in c}
  <2>1. ASSUME NEW i \in 0 .. 23
        PROVE  i + 8 \in high <=> i + 8 \in c
    BY XorMember DEF Byte
  <2> QED BY <2>1
<1>5. crc32_tab[low] = DivideByte(low)
  BY <1>1, TableAssumption
<1>6. DivideByte(Xor(c, b)) = Xor(DivideByte(high), DivideByte(low))
  BY <1>2, DivideByteXor
<1> QED BY <1>3, <1>4, <1>5, <1>6 DEF TableStep

LEMMA StepType ==
  ASSUME NEW c \in Word, NEW b \in Byte
  PROVE  TableStep(c, b) \in Word /\ DueStep(c, b) \in Word
BY TableDivides, DivideByteType DEF DueStep

-----------------------------------------------------------------------------
\* The byte sum.

LEMMA ValueRange ==
  ASSUME NEW b
  PROVE  Value(b) \in 0 .. 255
BY DEF Value

\* A byte that arrives changed has another value.
LEMMA ValueDiffers ==
  ASSUME NEW a \in Byte, NEW b \in Byte, b # {}
  PROVE  Value(Xor(a, b)) # Value(a)
<1>1. PICK i \in 0 .. 7 : i \in b
  BY DEF Byte
<1>2. ~(i \in Xor(a, b) <=> i \in a)
  BY <1>1, XorMember
<1>3. i = 0 \/ i = 1 \/ i = 2 \/ i = 3 \/ i = 4 \/ i = 5 \/ i = 6 \/ i = 7
  OBVIOUS
<1> QED BY <1>2, <1>3, SMTT(60) DEF Value

LEMMA AddByteType ==
  ASSUME NEW s \in UInt16, NEW b
  PROVE  AddByte(s, b) \in UInt16
<1>1. s + Value(b) \in Nat
  BY ValueRange DEF UInt16
<1>2. ASSUME NEW n \in Nat
      PROVE  n % 65536 \in Nat /\ n % 65536 < 65536
  OBVIOUS
<1> QED BY <1>1, <1>2 DEF AddByte, UInt16

-----------------------------------------------------------------------------
\* Types.

LEMMA XorByte ==
  ASSUME NEW a \in Byte, NEW b \in Byte
  PROVE  Xor(a, b) \in Byte
BY DEF Xor, Byte

\* Where the next word is.
LEMMA Positions ==
  ASSUME TypeOK, at < Size
  PROVE  /\ at + 2 \in 0 .. Size /\ (at + 2) % 2 = 0
         /\ at \in 0 .. Size - 1 /\ at + 1 \in 0 .. Size - 1
<1>1. at \in 0 .. 40 /\ at < 40 /\ at % 2 = 0
  BY DEF TypeOK, Size
<1>2. at # 39
  BY <1>1
<1>3. (at + 2) % 2 = 0
  BY <1>1
<1> QED BY <1>1, <1>2, <1>3 DEF Size

LEMMA GotType ==
  ASSUME TypeOK, NEW k \in 0 .. Size - 1
  PROVE  sent[k] \in Byte /\ damage[k] \in Byte /\ Got(k) \in Byte
<1>1. sent[k] \in Byte /\ damage[k] \in Byte
  BY DEF TypeOK, Data
<1> QED BY <1>1, XorByte DEF Got

LEMMA TypeStep ==
  ASSUME TypeOK, [Next]_vars
  PROVE  TypeOK'
<1>1. CASE NextWord
  <2>1. at' \in 0 .. Size /\ at' % 2 = 0
    BY <1>1, Positions DEF NextWord
  <2>2. /\ Got(at) \in Byte /\ Got(at + 1) \in Byte
        /\ sent[at] \in Byte /\ sent[at + 1] \in Byte
    BY <1>1, Positions, GotType DEF NextWord
  <2>3. sum' \in UInt16 /\ dueSum' \in UInt16
    BY <1>1, AddByteType DEF NextWord, CheckWord, DueWord, TypeOK
  <2>4. crc' \in Word
    BY <1>1, <2>2, StepType DEF NextWord, CheckWord, TypeOK
  <2>5. dueCrc' \in Word
    BY <1>1, <2>2, StepType DEF NextWord, DueWord, TypeOK
  <2>6. Model' /\ sent' = sent /\ damage' = damage /\ verdict' = verdict
    BY <1>1 DEF NextWord, TypeOK, Model
  <2> QED BY <2>1, <2>3, <2>4, <2>5, <2>6 DEF TypeOK
<1>2. CASE Compare
  <2>1. verdict' \in {"accepted", "refused"}
    BY <1>2 DEF Compare, Decide
  <2>2. Model'
    BY <1>2 DEF Compare, TypeOK, Model
  <2> QED BY <1>2, <2>1, <2>2 DEF Compare, TypeOK
<1>3. CASE UNCHANGED vars
  BY <1>3 DEF vars, TypeOK, Model
<1> QED BY <1>1, <1>2, <1>3 DEF Next

LEMMA TypeInit ==
  ASSUME Init
  PROVE  TypeOK
<1>1. 0 \in 0 .. Size /\ 0 % 2 = 0 /\ Ones \in Word /\ 0 \in UInt16
  BY DEF Ones, Word, Size, UInt16
<1>2. sent \in Data /\ damage \in Data
  BY BoundAssumption DEF Init
<1> QED BY <1>1, <1>2 DEF Init, TypeOK

\* Registers stay within the width of their C++ types in every execution.
THEOREM CheckTypes == Spec => []TypeOK
<1>1. Init => TypeOK
  BY TypeInit
<1>2. TypeOK /\ [Next]_vars => TypeOK'
  BY TypeStep
<1> QED BY <1>1, <1>2, PTL DEF Spec

-----------------------------------------------------------------------------
\* The CRC.

\* The damage of the four bytes from position k on, where the register would
\* meet it.
Ahead(k) == {i \in 0 .. 31 : i % 8 \in damage[k + i \div 8]}

\* No byte of the frame has arrived changed before position k.
Clean(k) == \A j \in 6 .. k - 1 : damage[j] = {}

\* What holds of the driver's register c and the IMU's d at position k.
CrcRelated(c, d, k) ==
  /\ c \in Word /\ d \in Word
  /\ Clean(k) => c = d
  /\ Confined /\ ~Clean(k) => Xor(Xor(c, d), Ahead(k)) # {}

LEMMA BitPlaces ==
  ASSUME NEW i \in 0 .. 31
  PROVE  /\ i % 8 \in 0 .. 7 /\ i \div 8 \in 0 .. 3
         /\ i < 24 => (i + 8) % 8 = i % 8 /\ (i + 8) \div 8 = i \div 8 + 1
         /\ i >= 24 => i \div 8 = 3
         /\ i < 8 => i % 8 = i /\ i \div 8 = 0
         /\ i >= 8 => i \div 8 > 0
OBVIOUS

LEMMA PlaceOfBit ==
  ASSUME NEW j \in 0 .. 3, NEW b \in 0 .. 7
  PROVE  8 * j + b \in 0 .. 31 /\ (8 * j + b) % 8 = b /\ (8 * j + b) \div 8 = j
OBVIOUS

\* The damage ahead is some, exactly if one of the four bytes is damaged.
LEMMA AheadEmpty ==
  ASSUME TypeOK, NEW k \in 6 .. 36
  PROVE  Ahead(k) = {} <=> \A j \in 0 .. 3 : damage[k + j] = {}
<1>1. ASSUME NEW j \in 0 .. 3, NEW b \in damage[k + j]
      PROVE  8 * j + b \in Ahead(k)
  <2>1. k + j \in 0 .. Size - 1
    BY DEF Size
  <2>2. b \in 0 .. 7
    BY <2>1, GotType DEF Byte
  <2> QED BY <2>2, PlaceOfBit DEF Ahead
<1>2. ASSUME NEW i \in Ahead(k)
      PROVE  \E j \in 0 .. 3 : damage[k + j] # {}
  <2>1. i \div 8 \in 0 .. 3 /\ i % 8 \in damage[k + i \div 8]
    BY BitPlaces DEF Ahead
  <2> QED BY <2>1
<1> QED BY <1>1, <1>2

\* The damage of a byte that comes into view when the byte at k is met.
Coming(k) == {i \in 24 .. 31 : i - 24 \in damage[k + 4]}

\* The register meets the next byte of the damage, the rest moves up by a byte,
\* and another byte comes into view.
LEMMA AheadStep ==
  ASSUME TypeOK, NEW k \in 6 .. 35
  PROVE  Ahead(k + 1) = Xor(DivideByte(Xor(Ahead(k), damage[k])), Coming(k))
<1> DEFINE rest == Xor(Ahead(k), damage[k])
<1>1. damage[k] \in Byte
  BY GotType DEF Size
<1>2. ASSUME NEW i \in 0 .. 31
      PROVE  i \in rest <=> i >= 8 /\ i \in Ahead(k)
  <2>1. i < 8 => (i \in Ahead(k) <=> i \in damage[k])
    <3>1. i < 8 => i % 8 = i /\ i \div 8 = 0 /\ k + 0 = k
      BY BitPlaces
    <3> QED BY <3>1 DEF Ahead
  <2>2. i >= 8 => i \notin damage[k]
    BY <1>1 DEF Byte
  <2> QED BY <2>1, <2>2, XorMember
<1>3. rest \in Word
  BY <1>1 DEF Word, Byte, Xor, Ahead
<1>4. rest \cap 0 .. 7 = {}
  BY <1>2
<1>5. DivideByte(rest) = {i \in 0 .. 23 : i + 8 \in rest}
  BY <1>3, <1>4, DivideByteShift
<1>6. ASSUME NEW i \in 0 .. 23
      PROVE  i + 8 \in rest <=> i \in Ahead(k + 1)
  <2>1. i + 8 \in 0 .. 31 /\ i + 8 >= 8 /\ i \in 0 .. 31
    OBVIOUS
  <2>2. (i + 8) % 8 = i % 8 /\ k + (i + 8) \div 8 = (k + 1) + i \div 8
    BY BitPlaces
  <2>3. i + 8 \in rest <=> i + 8 \in Ahead(k)
    BY <1>2, <2>1
  <2> QED BY <2>1, <2>2, <2>3 DEF Ahead
<1>7. ASSUME NEW i \in 24 .. 31
      PROVE  i \in Ahead(k + 1) <=> i \in Coming(k)
  <2>1. i \in 0 .. 31 /\ i \div 8 = 3 /\ i % 8 = i - 24 /\ (k + 1) + 3 = k + 4
    OBVIOUS
  <2> QED BY <2>1 DEF Ahead, Coming
<1> DEFINE low == DivideByte(rest)
<1>8. low \subseteq 0 .. 23 /\ Coming(k) \subseteq 24 .. 31 /\ Ahead(k + 1) \subseteq 0 .. 31
  BY <1>5 DEF Coming, Ahead
<1>9. ASSUME NEW i \in 0 .. 23
      PROVE  i \in Ahead(k + 1) <=> i \in low
  BY <1>5, <1>6, <1>9
<1> HIDE DEF low, rest
<1>10. ASSUME NEW i \in 0 .. 31
       PROVE  i \in Ahead(k + 1) <=> i \in Xor(low, Coming(k))
  <2>1. CASE i \in 0 .. 23
    <3>1. i \notin 24 .. 31
      BY <2>1
    <3> QED BY <1>8, <1>9, <2>1, <3>1, XorMember
  <2>2. CASE i \in 24 .. 31
    <3>1. i \notin 0 .. 23
      BY <2>2
    <3> QED BY <1>7, <1>8, <2>2, <3>1, XorMember
  <2>3. i \in 0 .. 23 \/ i \in 24 .. 31
    OBVIOUS
  <2> QED BY <2>1, <2>2, <2>3
<1>11. Xor(low, Coming(k)) \subseteq 0 .. 31
  <2>1. 0 .. 23 \subseteq 0 .. 31 /\ 24 .. 31 \subseteq 0 .. 31
    OBVIOUS
  <2>2. Xor(low, Coming(k)) \subseteq low \cup Coming(k)
    BY DEF Xor
  <2> QED BY <1>8, <2>1, <2>2, Zenon
<1> QED BY <1>8, <1>10, <1>11 DEF low, rest

LEMMA LowestBit ==
  ASSUME NEW b \in Byte, b # {}
  PROVE  \E n \in b : n \in 0 .. 7 /\ \A x \in b : n <= x
<1>1. b \subseteq 0 .. 7
  BY DEF Byte
<1>2. PICK y \in 0 .. 7 : y \in b
  BY <1>1
<1>3. \/ 0 \in b \/ 1 \in b \/ 2 \in b \/ 3 \in b
      \/ 4 \in b \/ 5 \in b \/ 6 \in b \/ 7 \in b
  <2>1. y = 0 \/ y = 1 \/ y = 2 \/ y = 3 \/ y = 4 \/ y = 5 \/ y = 6 \/ y = 7
    OBVIOUS
  <2> QED BY <1>2, <2>1, Zenon
<1>4. CASE 0 \in b
  BY <1>1, <1>4
<1>5. CASE 0 \notin b /\ 1 \in b
  BY <1>1, <1>5
<1>6. CASE 0 \notin b /\ 1 \notin b /\ 2 \in b
  BY <1>1, <1>6
<1>7. CASE 0 \notin b /\ 1 \notin b /\ 2 \notin b /\ 3 \in b
  BY <1>1, <1>7
<1>8. CASE 0 \notin b /\ 1 \notin b /\ 2 \notin b /\ 3 \notin b /\ 4 \in b
  BY <1>1, <1>8
<1>9. CASE /\ 0 \notin b /\ 1 \notin b /\ 2 \notin b /\ 3 \notin b /\ 4 \notin b
           /\ 5 \in b
  BY <1>1, <1>9
<1>10. CASE /\ 0 \notin b /\ 1 \notin b /\ 2 \notin b /\ 3 \notin b /\ 4 \notin b
            /\ 5 \notin b /\ 6 \in b
  BY <1>1, <1>10
<1>11. CASE /\ 0 \notin b /\ 1 \notin b /\ 2 \notin b /\ 3 \notin b /\ 4 \notin b
            /\ 5 \notin b /\ 6 \notin b /\ 7 \in b
  BY <1>1, <1>11
<1> QED BY <1>3, <1>4, <1>5, <1>6, <1>7, <1>8, <1>9, <1>10, <1>11

\* When damage comes into view that is among 32 bits with some that have been
\* met, the register has just met the first of it, and what comes is lower in
\* its byte than that.
LEMMA Window ==
  ASSUME TypeOK, prodId = 16495, Confined, NEW k \in 6 .. 35, ~Clean(k + 1),
         damage[k + 4] # {}
  PROVE  /\ Clean(k) /\ damage[k] # {}
         /\ \A a \in damage[k], i \in Coming(k) : i < 24 + a
<1>1. k + 4 \in Damaged
  BY DEF Protected, Field, Damaged
<1>2. ASSUME NEW j \in 6 .. k, NEW a \in damage[j], NEW b \in damage[k + 4]
      PROVE  j = k /\ b < a /\ a \in 0 .. 7 /\ b \in 0 .. 7
  <2>1. j \in Damaged
    BY DEF Protected, Field, Damaged
  <2>2. (8 * (k + 4) + b) - (8 * j + a) < 32
    BY <1>1, <2>1 DEF Confined
  <2>3. a \in 0 .. 7 /\ b \in 0 .. 7
    BY GotType DEF Size, Byte
  <2> QED BY <2>2, <2>3
<1>3. PICK j \in 6 .. k : damage[j] # {}
  BY DEF Clean
<1>4. PICK a \in damage[j] : TRUE
  BY <1>3
<1>5. PICK b \in damage[k + 4] : TRUE
  OBVIOUS
<1>6. damage[k] # {}
  BY <1>2, <1>3, <1>4, <1>5
<1>7. Clean(k)
  <2> SUFFICES ASSUME NEW l \in 6 .. k - 1, damage[l] # {}
               PROVE  FALSE
    BY DEF Clean
  <2>1. PICK c \in damage[l] : TRUE
    OBVIOUS
  <2>2. l \in 6 .. k /\ l # k
    OBVIOUS
  <2> QED BY <1>2, <1>5, <2>1, <2>2
<1>8. ASSUME NEW c \in damage[k], NEW i \in Coming(k)
      PROVE  i < 24 + c
  <2>1. k \in 6 .. k /\ i - 24 \in damage[k + 4] /\ i \in 24 .. 31
    BY DEF Coming
  <2>2. i - 24 < c /\ c \in 0 .. 7
    BY <1>2, <2>1
  <2> QED BY <2>1, <2>2
<1> QED BY <1>6, <1>7, <1>8

\* The first damaged byte and the three after it do not cancel out with what
\* comes into view.
LEMMA FirstByte ==
  ASSUME TypeOK, prodId = 16495, Confined, NEW k \in 6 .. 35, ~Clean(k + 1),
         damage[k + 4] # {}
  PROVE  Xor(DivideByte(Ahead(k)), Coming(k)) # {}
<1>1. /\ damage[k] # {} /\ damage[k] \in Byte
      /\ \A a \in damage[k], i \in Coming(k) : i < 24 + a
  BY Window, GotType DEF Size
<1>2. PICK n \in damage[k] : n \in 0 .. 7 /\ \A x \in damage[k] : n <= x
  BY <1>1, LowestBit
<1>3. Ahead(k) \in Word
  BY DEF Ahead, Word
<1>4. ASSUME NEW i \in 0 .. 7
      PROVE  i \in Ahead(k) <=> i \in damage[k]
  <2>1. i \in 0 .. 31 /\ i % 8 = i /\ k + i \div 8 = k
    BY BitPlaces
  <2> QED BY <2>1 DEF Ahead
<1>5. n \in Ahead(k) /\ Ahead(k) \subseteq n .. 31
  <2>1. n \in Ahead(k)
    BY <1>2, <1>4
  <2>2. ASSUME NEW i \in Ahead(k)
        PROVE  i \in n .. 31
    <3>1. i \in 0 .. 31
      BY DEF Ahead
    <3>2. i \in 0 .. 7 => n <= i
      BY <1>2, <1>4, <2>2
    <3> QED BY <1>2, <3>1, <3>2
  <2> QED BY <2>1, <2>2
<1>6. PICK x \in DivideByte(Ahead(k)) : x >= 24 + n
  BY <1>2, <1>3, <1>5, DivideByteLead
<1>7. x \notin Coming(k)
  <2>1. x \in 0 .. 31
    BY <1>6, DivideByteType DEF Word
  <2> QED BY <1>1, <1>2, <1>6, <2>1
<1> QED BY <1>6, <1>7, XorMember, XorEmpty

\* One byte, taken in by both registers.
LEMMA CrcByte ==
  ASSUME TypeOK, prodId = 16495, NEW k \in 6 .. 35, NEW c, NEW d, CrcRelated(c, d, k)
  PROVE  CrcRelated(TableStep(c, Got(k)), DueStep(d, sent[k]), k + 1)
<1> DEFINE c1 == TableStep(c, Got(k))
           d1 == DueStep(d, sent[k])
<1>1. sent[k] \in Byte /\ damage[k] \in Byte /\ Got(k) \in Byte
  BY GotType DEF Size
<1>2. c \in Word /\ d \in Word
  BY DEF CrcRelated
<1>3. c1 = DivideByte(Xor(c, Got(k))) /\ d1 = DivideByte(Xor(d, sent[k]))
  BY <1>1, <1>2, TableDivides DEF DueStep
<1>4. c1 \in Word /\ d1 \in Word
  BY <1>3, DivideByteType
<1>5. Clean(k + 1) <=> Clean(k) /\ damage[k] = {}
  BY DEF Clean
<1>6. ASSUME Clean(k + 1)
      PROVE  c1 = d1
  <2>1. c = d /\ Got(k) = sent[k]
    BY <1>5, <1>6 DEF CrcRelated, Got, Xor
  <2> QED BY <1>3, <2>1
<1>7. ASSUME Confined, ~Clean(k + 1)
      PROVE  Xor(Xor(c1, d1), Ahead(k + 1)) # {}
  <2> DEFINE all  == Xor(Xor(c, d), Ahead(k))
             rest == Xor(Ahead(k), damage[k])
             seen == Xor(Xor(c, d), damage[k])
  <2>1. all # {}
    <3>1. CASE Clean(k)
      <4>1. c = d /\ damage[k + 0] # {}
        BY <1>5, <1>7, <3>1 DEF CrcRelated
      <4>2. Ahead(k) # {}
        <5>1. k \in 6 .. 36 /\ 0 \in 0 .. 3
          OBVIOUS
        <5> QED BY <4>1, <5>1, AheadEmpty
      <4> QED BY <4>1, <4>2 DEF Xor
    <3>2. CASE ~Clean(k)
      BY <1>7, <3>2 DEF CrcRelated
    <3> QED BY <3>1, <3>2
  <2>2. all \in Word
    <3>1. Ahead(k) \in Word
      BY DEF Word, Ahead
    <3> QED BY <1>2, <3>1, XorWord
  <2>3. Xor(seen, rest) = all
    BY DEF Xor
  <2>4. Xor(Xor(c, Got(k)), Xor(d, sent[k])) = seen
    BY DEF Xor, Got
  <2>5. Xor(c1, d1) = DivideByte(seen)
    BY <1>3, <2>4, DivideByteXor
  <2>6. Ahead(k + 1) = Xor(DivideByte(rest), Coming(k))
    BY AheadStep
  <2>7. DivideByte(all) = Xor(DivideByte(seen), DivideByte(rest))
    BY <2>3, DivideByteXor
  <2>8. Xor(Xor(c1, d1), Ahead(k + 1)) = Xor(DivideByte(all), Coming(k))
    <3>1. ASSUME NEW x, NEW y, NEW z
          PROVE  Xor(x, Xor(y, z)) = Xor(Xor(x, y), z)
      BY DEF Xor
    <3> QED BY <2>5, <2>6, <2>7, <3>1
  <2>9. CASE damage[k + 4] = {}
    <3>1. Xor(DivideByte(all), Coming(k)) = DivideByte(all)
      BY <2>9 DEF Coming, Xor
    <3> QED BY <2>1, <2>2, <2>8, <3>1, DivideByteSome
  <2>10. CASE damage[k + 4] # {}
    <3>1. all = Ahead(k)
      <4>1. c = d
        BY <1>7, <2>10, Window DEF CrcRelated
      <4> QED BY <4>1 DEF Xor
    <3> QED BY <1>7, <2>8, <2>10, <3>1, FirstByte
  <2> QED BY <2>9, <2>10
<1> QED BY <1>4, <1>6, <1>7 DEF CrcRelated

-----------------------------------------------------------------------------
\* The sum.

\* No byte that is summed up has arrived changed before position k.
CleanSum(k) == \A j \in Protected : j < k => damage[j] = {}

\* What holds of the driver's sum s and the IMU's d at position k.  Neither
\* can reach 65536: forty bytes are at most 10200.
SumRelated(s, d, k) ==
  /\ s \in Nat /\ d \in Nat /\ s <= 255 * k /\ d <= 255 * k
  /\ CleanSum(k) => s = d
  /\ Confined /\ ~CleanSum(k) => s # d

LEMMA NoWrap ==
  ASSUME NEW s \in Nat, NEW k \in 0 .. 39, s <= 255 * k, NEW b
  PROVE  /\ AddByte(s, b) = s + Value(b) /\ AddByte(s, b) \in Nat
         /\ AddByte(s, b) <= 255 * (k + 1)
<1> DEFINE v == Value(b)
<1>1. v \in 0 .. 255
  BY ValueRange
<1> HIDE DEF v
<1>2. s + v \in Nat /\ s + v < 65536 /\ s + v <= 255 * (k + 1)
  BY <1>1
<1>3. (s + v) % 65536 = s + v
  BY <1>2
<1> QED BY <1>2, <1>3 DEF AddByte, v

\* One byte, taken in by both sums.
LEMMA SumByte ==
  ASSUME TypeOK, Matching, Method = "sum", NEW k \in Protected, NEW s, NEW d, SumRelated(s, d, k)
  PROVE  SumRelated(AddByte(s, Got(k)), AddByte(d, sent[k]), k + 1)
<1>1. k \in 0 .. 39 /\ prodId # 16495
  BY DEF Protected, Method, Matching, TypeOK, Model
<1>2. sent[k] \in Byte /\ damage[k] \in Byte
  BY <1>1, GotType DEF Size
<1>3. s \in Nat /\ d \in Nat /\ s <= 255 * k /\ d <= 255 * k
  BY DEF SumRelated
<1>4. /\ AddByte(s, Got(k)) = s + Value(Got(k)) /\ AddByte(s, Got(k)) \in Nat
      /\ AddByte(s, Got(k)) <= 255 * (k + 1)
  BY <1>1, <1>3, NoWrap
<1>5. /\ AddByte(d, sent[k]) = d + Value(sent[k]) /\ AddByte(d, sent[k]) \in Nat
      /\ AddByte(d, sent[k]) <= 255 * (k + 1)
  BY <1>1, <1>3, NoWrap
<1>6. CleanSum(k + 1) <=> CleanSum(k) /\ damage[k] = {}
  <2>1. \A j \in Protected : j < k + 1 <=> j < k \/ j = k
    BY <1>1 DEF Protected
  <2> QED BY <2>1 DEF CleanSum
<1>7. damage[k] = {} => Got(k) = sent[k]
  BY DEF Got, Xor
<1>8. ASSUME CleanSum(k + 1)
      PROVE  AddByte(s, Got(k)) = AddByte(d, sent[k])
  BY <1>6, <1>7, <1>8 DEF SumRelated
<1>9. ASSUME Confined, ~CleanSum(k + 1)
      PROVE  AddByte(s, Got(k)) # AddByte(d, sent[k])
  <2>1. CASE CleanSum(k)
    <3>1. s = d /\ damage[k] # {}
      BY <1>6, <1>9, <2>1 DEF SumRelated
    <3>2. Value(Got(k)) # Value(sent[k])
      BY <1>2, <3>1, ValueDiffers DEF Got
    <3>3. Value(Got(k)) \in 0 .. 255 /\ Value(sent[k]) \in 0 .. 255
      BY ValueRange
    <3> QED BY <1>3, <1>4, <1>5, <3>1, <3>2, <3>3
  <2>2. CASE ~CleanSum(k)
    <3>1. PICK j \in Protected : j < k /\ damage[j] # {}
      BY <2>2 DEF CleanSum
    <3>2. damage[k] = {}
      <4>1. j \in 0 .. 39
        BY DEF Protected
      <4> QED BY <1>1, <1>9, <3>1, <4>1 DEF Confined, Damaged
    <3>3. s # d
      BY <1>9, <2>2 DEF SumRelated
    <3>4. Value(sent[k]) \in 0 .. 255
      BY ValueRange
    <3> QED BY <1>3, <1>4, <1>5, <1>7, <3>2, <3>3, <3>4
  <2> QED BY <2>1, <2>2
<1> QED BY <1>4, <1>5, <1>8, <1>9 DEF SumRelated

-----------------------------------------------------------------------------
\* The frame.

\* Where crc32_block is in the frame.
CrcAt(k) == IF k < 6 THEN 6 ELSE IF k > 36 THEN 36 ELSE k

CheckInv ==
  /\ TypeOK
  /\ Method = "crc" => CrcRelated(crc, dueCrc, CrcAt(at))
  /\ Matching /\ Method = "sum" => SumRelated(sum, dueSum, at)
  /\ verdict # "none" => at = Size

\* A step does not change the frame or the settings.
LEMMA SameFrame ==
  ASSUME [Next]_vars
  PROVE  /\ prodId' = prodId /\ dataFormat' = dataFormat
         /\ sent' = sent /\ damage' = damage
BY DEF Next, NextWord, Compare, vars

LEMMA SameRelations ==
  ASSUME [Next]_vars
  PROVE  /\ CrcRelated(crc, dueCrc, CrcAt(at))' <=> CrcRelated(crc', dueCrc', CrcAt(at'))
         /\ SumRelated(sum, dueSum, at)' <=> SumRelated(sum', dueSum', at')
         /\ Method' = Method /\ Matching' = Matching
         /\ Confined' = Confined /\ Damaged' = Damaged
<1>1. /\ Protected' = Protected /\ Field' = Field
      /\ Method' = Method /\ Matching' = Matching
  BY SameFrame DEF Protected, Field, Method, Matching
<1>2. Damaged' = Damaged
  BY <1>1, SameFrame DEF Damaged
<1>3. Confined' = Confined
  BY <1>2, SameFrame DEF Confined
<1>4. CrcRelated(crc, dueCrc, CrcAt(at))' <=> CrcRelated(crc', dueCrc', CrcAt(at'))
  BY <1>3, SameFrame DEF CrcRelated, CrcAt, Clean, Ahead
<1>5. SumRelated(sum, dueSum, at)' <=> SumRelated(sum', dueSum', at')
  BY <1>1, <1>3, SameFrame DEF SumRelated, CleanSum
<1> QED BY <1>1, <1>2, <1>3, <1>4, <1>5

LEMMA CrcWord ==
  ASSUME CheckInv, NextWord, Method = "crc"
  PROVE  CrcRelated(crc', dueCrc', CrcAt(at'))
<1>1. TypeOK /\ CrcRelated(crc, dueCrc, CrcAt(at))
  BY DEF CheckInv
<1>2. at \in 0 .. 39 /\ at % 2 = 0 /\ at' = at + 2
  BY <1>1 DEF NextWord, TypeOK, Size
<1>3. /\ prodId = 16495 /\ Checked = 6 .. 35 /\ Protected = 6 .. 35
  BY <1>1 DEF Method, Checked, Protected, TypeOK, Model
<1>4. CASE at \notin 6 .. 35
  <2>1. crc' = crc /\ dueCrc' = dueCrc
    BY <1>3, <1>4 DEF NextWord, CheckWord, DueWord
  <2>2. at # 5
    BY <1>2
  <2>3. CrcAt(at') = CrcAt(at)
    BY <1>2, <1>4, <2>2 DEF CrcAt
  <2> QED BY <1>1, <2>1, <2>3
<1>5. CASE at \in 6 .. 35
  <2> DEFINE c1 == TableStep(crc, Got(at))
             d1 == DueStep(dueCrc, sent[at])
  <2>1. at # 35
    BY <1>2
  <2>2. at + 1 \in 6 .. 35 /\ (at + 1) + 1 = at + 2
    BY <1>2, <1>5, <2>1
  <2>3. CrcAt(at) = at /\ CrcAt(at') = at + 2
    BY <1>2, <1>5, <2>1 DEF CrcAt
  <2>4. CrcRelated(c1, d1, at + 1)
    BY <1>1, <1>3, <1>5, <2>3, CrcByte
  <2> HIDE DEF c1, d1
  <2>5. CrcRelated(TableStep(c1, Got(at + 1)), DueStep(d1, sent[at + 1]), at + 2)
    BY <1>1, <1>3, <2>2, <2>4, CrcByte
  <2>6. crc' = TableStep(c1, Got(at + 1)) /\ dueCrc' = DueStep(d1, sent[at + 1])
    BY <1>3, <1>5 DEF NextWord, CheckWord, DueWord, c1, d1
  <2> QED BY <2>3, <2>5, <2>6
<1> QED BY <1>4, <1>5

LEMMA SumWord ==
  ASSUME CheckInv, NextWord, Matching, Method = "sum"
  PROVE  SumRelated(sum', dueSum', at')
<1>1. TypeOK /\ SumRelated(sum, dueSum, at)
  BY DEF CheckInv
<1>2. at \in 0 .. 39 /\ at % 2 = 0 /\ at' = at + 2
  BY <1>1 DEF NextWord, TypeOK, Size
<1>3. /\ Protected = 2 .. 19 \/ Protected = 2 .. 31
      /\ Checked = Protected
  BY <1>1 DEF Method, Checked, Protected, Matching, TypeOK, Model
<1>4. at # 1 /\ at # 19 /\ at # 31
  BY <1>2
<1>5. CASE at \notin Protected
  <2>1. sum' = sum /\ dueSum' = dueSum
    BY <1>3, <1>5 DEF NextWord, CheckWord, DueWord
  <2>2. CleanSum(at + 2) <=> CleanSum(at)
    <3>1. \A j \in Protected : j < at + 2 <=> j < at
      BY <1>2, <1>3, <1>4, <1>5
    <3> QED BY <3>1 DEF CleanSum
  <2>3. 255 * at <= 255 * (at + 2)
    BY <1>2
  <2> QED BY <1>1, <1>2, <2>1, <2>2, <2>3 DEF SumRelated
<1>6. CASE at \in Protected
  <2> DEFINE s1 == AddByte(sum, Got(at))
             d1 == AddByte(dueSum, sent[at])
  <2>1. at + 1 \in Protected /\ (at + 1) + 1 = at + 2
    BY <1>2, <1>3, <1>4, <1>6
  <2>2. SumRelated(s1, d1, at + 1)
    BY <1>1, <1>6, SumByte
  <2> HIDE DEF s1, d1
  <2>3. SumRelated(AddByte(s1, Got(at + 1)), AddByte(d1, sent[at + 1]), at + 2)
    BY <1>1, <2>1, <2>2, SumByte
  <2>4. sum' = AddByte(s1, Got(at + 1)) /\ dueSum' = AddByte(d1, sent[at + 1])
    BY <1>3, <1>6 DEF NextWord, CheckWord, DueWord, s1, d1
  <2> QED BY <1>2, <2>3, <2>4
<1> QED BY <1>5, <1>6

\* What has been received equals what is computed exactly if the checksum of
\* the driver's register and that of the IMU's, with the damage, agree.
LEMMA ReceivedIs ==
  ReceivedCrc = Xor(crc, Ones) <=> Xor(Xor(crc, dueCrc), Ahead(36)) = {}
<1>1. ReceivedCrc = Xor(Xor(dueCrc, Ones), Ahead(36))
  BY DEF ReceivedCrc, Ahead
<1> HIDE DEF Ahead
<1>2. ASSUME NEW c, NEW d, NEW o, NEW a
      PROVE  Xor(Xor(d, o), a) = Xor(c, o) <=> Xor(Xor(c, d), a) = {}
  BY DEF Xor
<1> QED BY <1>1, <1>2

\* The comparison of the CRC.
LEMMA CrcCompare ==
  ASSUME CheckInv, at = Size, Method = "crc"
  PROVE  /\ Confined /\ ReceivedCrc = Xor(crc, Ones) => Damaged = {}
         /\ Damaged = {} => ReceivedCrc = Xor(crc, Ones)
<1>1. TypeOK /\ CrcRelated(crc, dueCrc, 36) /\ 36 \in 6 .. 36
  BY DEF CheckInv, CrcAt, Size
<1>2. Protected = 6 .. 35 /\ Field = 36 .. 39
  BY DEF Method, Protected, Field
<1>3. Damaged = {} <=> Clean(36) /\ Ahead(36) = {}
  <2>1. Ahead(36) = {} <=> \A j \in 0 .. 3 : damage[36 + j] = {}
    BY <1>1, AheadEmpty
  <2>2. (\A j \in 0 .. 3 : damage[36 + j] = {}) <=> \A k \in 36 .. 39 : damage[k] = {}
    <3>1. \A k \in 36 .. 39 : k - 36 \in 0 .. 3 /\ 36 + (k - 36) = k
      OBVIOUS
    <3>2. \A j \in 0 .. 3 : 36 + j \in 36 .. 39
      OBVIOUS
    <3> QED BY <3>1, <3>2
  <2>3. Clean(36) <=> \A k \in 6 .. 35 : damage[k] = {}
    BY DEF Clean
  <2> QED BY <1>2, <2>1, <2>2, <2>3 DEF Damaged
<1>4. ASSUME Clean(36)
      PROVE  Xor(Xor(crc, dueCrc), Ahead(36)) = Ahead(36)
  <2>1. crc = dueCrc
    BY <1>1, <1>4 DEF CrcRelated
  <2> QED BY <2>1 DEF Xor
<1>5. Confined /\ ~Clean(36) => Xor(Xor(crc, dueCrc), Ahead(36)) # {}
  BY <1>1 DEF CrcRelated
<1> QED BY <1>3, <1>4, <1>5, ReceivedIs

\* The comparison of the sum.
LEMMA SumCompare ==
  ASSUME CheckInv, at = Size, Method = "sum", Matching, NEW r \in ReceivedSums
  PROVE  /\ Confined /\ r = sum => Damaged = {}
         /\ Damaged = {} => r = sum
<1>1. TypeOK /\ SumRelated(sum, dueSum, 40)
  BY DEF CheckInv, Size
<1>2. prodId # 16495
  BY <1>1 DEF Method, Matching, TypeOK, Model
<1>3. /\ Protected \subseteq 2 .. 31 /\ Field \subseteq 20 .. 33
      /\ \A j \in Protected, k \in Field : j < k
  BY <1>1, <1>2 DEF Protected, Field, Matching, TypeOK, Model
<1>4. CleanSum(40) <=> \A j \in Protected : damage[j] = {}
  BY <1>3 DEF CleanSum
<1> DEFINE FieldClean == \A k \in Field : damage[k] = {}
<1>5. Damaged = {} <=> CleanSum(40) /\ FieldClean
  BY <1>4 DEF Damaged
<1>6. FieldClean => r = dueSum
  BY DEF ReceivedSums
<1>7. CleanSum(40) => sum = dueSum
  BY <1>1 DEF SumRelated
<1>8. Confined /\ ~CleanSum(40) => sum # dueSum
  BY <1>1 DEF SumRelated
<1>9. ASSUME ~FieldClean
      PROVE  r # dueSum
  <2>1. PICK o \in Offsets : r = (dueSum + o) % 65536
    BY <1>9 DEF ReceivedSums
  <2>2. o \in Nat /\ o # 0 /\ o < 65536
    BY BoundAssumption DEF UInt16
  <2>3. dueSum \in Nat /\ dueSum < 65536
    BY <1>1 DEF TypeOK, UInt16
  <2>4. (dueSum + o) % 65536 # dueSum
    BY <2>2, <2>3
  <2> QED BY <2>1, <2>4
<1>10. ASSUME Confined, ~FieldClean
       PROVE  CleanSum(40)
  <2>1. PICK k \in Field : damage[k] # {}
    BY <1>10
  <2>2. ASSUME NEW j \in Protected, damage[j] # {}
        PROVE  FALSE
    <3>1. k - j < 1 /\ j < k
      BY <1>2, <1>3, <1>10, <2>1, <2>2 DEF Confined, Damaged
    <3>2. k \in 20 .. 33 /\ j \in 2 .. 31
      BY <1>3
    <3> QED BY <3>1, <3>2
  <2> QED BY <1>4, <2>2
<1> QED BY <1>5, <1>6, <1>7, <1>8, <1>9, <1>10, Zenon

LEMMA InvInit ==
  ASSUME Init
  PROVE  CheckInv /\ DamageRefused /\ IntactAccepted
<1>1. TypeOK /\ verdict = "none"
  BY TypeInit DEF Init
<1>2. Ones \in Word
  BY DEF Ones, Word
<1>3. CrcRelated(crc, dueCrc, CrcAt(at))
  <2>1. CrcAt(at) = 6 /\ Clean(6)
    BY DEF Init, CrcAt, Clean
  <2> QED BY <1>2, <2>1 DEF Init, CrcRelated
<1>4. SumRelated(sum, dueSum, at)
  <2>1. CleanSum(0)
    BY DEF CleanSum, Protected
  <2> QED BY <2>1 DEF Init, SumRelated
<1> QED BY <1>1, <1>3, <1>4 DEF CheckInv, DamageRefused, IntactAccepted

LEMMA InvStep ==
  ASSUME CheckInv, DamageRefused, IntactAccepted, [Next]_vars
  PROVE  (CheckInv /\ DamageRefused /\ IntactAccepted)'
<1>1. TypeOK /\ TypeOK'
  BY TypeStep DEF CheckInv
<1>2. CASE NextWord
  <2>1. verdict' = "none"
    <3>1. at < Size /\ at \in 0 .. Size
      BY <1>1, <1>2 DEF NextWord, TypeOK
    <3>2. at # Size
      BY <3>1 DEF Size
    <3> QED BY <1>2, <3>2 DEF CheckInv, NextWord
  <2>2. Method' = "crc" => CrcRelated(crc, dueCrc, CrcAt(at))'
    BY <1>2, CrcWord, SameFrame, SameRelations
  <2>3. Matching' /\ Method' = "sum" => SumRelated(sum, dueSum, at)'
    BY <1>2, SumWord, SameRelations
  <2> QED BY <1>1, <2>1, <2>2, <2>3 DEF CheckInv, DamageRefused, IntactAccepted
<1>3. CASE Compare
  <2>1. at = Size /\ at' = at /\ crc' = crc /\ dueCrc' = dueCrc /\ sum' = sum /\ dueSum' = dueSum
    BY <1>3 DEF Compare
  <2>2. CheckInv'
    <3>1. CrcRelated(crc, dueCrc, CrcAt(at))' <=> CrcRelated(crc, dueCrc, CrcAt(at))
      BY <2>1, SameRelations
    <3>2. SumRelated(sum, dueSum, at)' <=> SumRelated(sum, dueSum, at)
      BY <2>1, SameRelations
    <3>3. Matching' = Matching /\ Method' = Method /\ Size' = Size
      BY SameFrame, SameRelations DEF Size
    <3> QED BY <1>1, <2>1, <3>1, <3>2, <3>3 DEF CheckInv
  <2>3. ASSUME Matching
        PROVE  /\ verdict' = "accepted" /\ Confined => Damaged = {}
               /\ verdict' = "refused" => Damaged # {}
    <3>1. CASE Method = "crc"
      <4>1. verdict' = IF ReceivedCrc = Xor(crc, Ones) THEN "accepted" ELSE "refused"
        BY <1>3, <3>1 DEF Compare, Decide
      <4> QED BY <2>1, <3>1, <4>1, CrcCompare
    <3>2. CASE Method = "sum"
      <4>1. PICK r \in ReceivedSums : verdict' = IF r = sum THEN "accepted" ELSE "refused"
        BY <1>3, <3>2 DEF Compare, Decide
      <4> QED BY <2>1, <2>3, <3>2, <4>1, SumCompare
    <3>3. Method = "crc" \/ Method = "sum"
      BY <1>1, <2>3 DEF Method, Matching, TypeOK, Model
    <3> QED BY <3>1, <3>2, <3>3
  <2> QED BY <2>2, <2>3, SameRelations DEF DamageRefused, IntactAccepted
<1>4. CASE UNCHANGED vars
  <2>1. /\ at' = at /\ crc' = crc /\ dueCrc' = dueCrc /\ sum' = sum /\ dueSum' = dueSum
        /\ verdict' = verdict /\ prodId' = prodId /\ Size' = Size
    BY <1>4 DEF vars, Size
  <2> QED BY <1>1, <2>1, SameRelations DEF CheckInv, DamageRefused, IntactAccepted
<1> QED BY <1>2, <1>3, <1>4 DEF Next

\* In every execution, for every polynomial and every frame: a frame damaged
\* in one byte, or in up to 32 bits in a row under the CRC, is never accepted.
THEOREM FrameDamageRefused == Spec => []DamageRefused
<1>1. Init => CheckInv /\ DamageRefused /\ IntactAccepted
  BY InvInit
<1>2. CheckInv /\ DamageRefused /\ IntactAccepted /\ [Next]_vars
      => (CheckInv /\ DamageRefused /\ IntactAccepted)'
  BY InvStep
<1> QED BY <1>1, <1>2, PTL DEF Spec

\* In every execution, for every polynomial and every frame: a frame that
\* arrives as it was sent is accepted.
THEOREM FrameIntactAccepted == Spec => []IntactAccepted
<1>1. Init => CheckInv /\ DamageRefused /\ IntactAccepted
  BY InvInit
<1>2. CheckInv /\ DamageRefused /\ IntactAccepted /\ [Next]_vars
      => (CheckInv /\ DamageRefused /\ IntactAccepted)'
  BY InvStep
<1> QED BY <1>1, <1>2, PTL DEF Spec
=============================================================================
