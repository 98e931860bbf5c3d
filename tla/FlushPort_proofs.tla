-------------------------- MODULE FlushPort_proofs --------------------------
(***************************************************************************)
(* Proofs about FlushPort for every timeout a user can set, every step of  *)
(* the clock and every amount of late bytes.                               *)
(***************************************************************************)
EXTENDS FlushPort, TLAPS

\* What the cut to seconds keeps of a time that is not negative, and that it
\* makes no time longer.
LEMMA WholeSeconds ==
  ASSUME NEW t \in Int
  PROVE  /\ DurationMs(t) \in Int
         /\ t >= 0 => DurationMs(t) <= t
         /\ t < 0 => DurationMs(t) <= 0
         /\ \A u \in Nat : t >= 0 /\ DurationMs(t) < u => t < NextSecond(u)
<1>1. CASE t >= 0
  <2>1. PICK q \in Nat : q = t \div 1000 /\ q * 1000 <= t /\ t < (q + 1) * 1000
    BY <1>1, SMT
  <2>2. DurationMs(t) = q * 1000
    BY <1>1, <2>1 DEF DurationMs
  <2>3. ASSUME NEW u \in Nat, q * 1000 < u PROVE t < NextSecond(u)
    <3>1. PICK r \in Nat : /\ r = (u + 999) \div 1000
                           /\ r * 1000 <= u + 999 /\ u + 999 < (r + 1) * 1000
      BY SMT
    <3>2. q < r
      BY <2>3, <3>1
    <3> QED BY <2>1, <3>1, <3>2 DEF NextSecond
  <2> QED BY <1>1, <2>1, <2>2, <2>3
<1>2. CASE t < 0
  <2>1. PICK q \in Nat : q = (-t) \div 1000
    BY <1>2, SMT
  <2>2. DurationMs(t) = -(q * 1000)
    BY <1>2, <2>1 DEF DurationMs
  <2> QED BY <1>2, <2>2
<1> QED BY <1>1, <1>2

\* The next full second is not before the second, for any timeout.
LEMMA NextSecondType ==
  ASSUME NEW u \in Nat
  PROVE  NextSecond(u) \in Nat /\ u <= NextSecond(u)
<1>1. PICK r \in Nat : r = (u + 999) \div 1000 /\ u + 999 < (r + 1) * 1000
  BY SMT
<1> QED BY <1>1 DEF NextSecond

\* The Boolean variables, and the others.
Flags ==
  /\ reached \in BOOLEAN /\ sending \in BOOLEAN /\ late \in BOOLEAN
  /\ forward \in BOOLEAN /\ back \in BOOLEAN

Sizes ==
  /\ timeout \in 500 .. 3000
  /\ pc \in {"clock", "flush", "count", "test", "done"}
  /\ spent \in Nat /\ shift \in Int /\ readAt \in 0 .. spent /\ sets \in 0 .. MaxSets
  /\ size \in 0 .. PortSize /\ flight \in 0 .. MaxFlight /\ port \in 0 .. PortSize

\* The sign of what the clock was set by.
ClockKnown == (~forward => shift <= 0) /\ (~back => shift >= 0)

\* The clock that was read decides whether the iteration flushes, and what the
\* port held when it was asked is what it holds, if nothing came since.
Flushing ==
  /\ reached /\ ~forward => readAt >= timeout
  /\ pc \in {"flush", "count"} /\ ~back => readAt < NextSecond(timeout)
  /\ pc \in {"test", "done"} /\ ~reached /\ ~late => port = size
  /\ pc = "done" /\ ~reached => size = 0

\* The flush starts within the types, its timeout in the range of loadParams.
LEMMA InitInv == Init => Flags /\ Sizes /\ ClockKnown /\ Flushing
<1> SUFFICES ASSUME Init PROVE Flags /\ Sizes /\ ClockKnown /\ Flushing
  OBVIOUS
<1>1. Flags
  BY Zenon DEF Init, Flags
<1>2. timeout \in 500 .. 3000
  BY FlushAssumption DEF Init, Clamp
<1>3. /\ pc = "clock" /\ spent = 0 /\ shift = 0 /\ readAt = 0 /\ sets = 0
      /\ size = 0 /\ reached = FALSE
      /\ flight \in 0 .. MaxFlight /\ port \in 0 .. PortSize
  BY Zenon DEF Init
<1>4. Sizes
  BY <1>2, <1>3, FlushAssumption DEF Sizes
<1>5. Flushing
  BY <1>3 DEF Flushing
<1>6. ClockKnown
  BY <1>3 DEF ClockKnown
<1> QED BY <1>1, <1>4, <1>5, <1>6

\* Every step keeps the Boolean variables Boolean.
LEMMA NextFlags == Flags /\ [Next]_vars => Flags'
<1> SUFFICES ASSUME Flags, [Next]_vars PROVE Flags'
  OBVIOUS
<1>1. CASE ClockSet
  <2>1. forward' \in BOOLEAN /\ back' \in BOOLEAN
    BY <1>1 DEF ClockSet
  <2>2. UNCHANGED <<reached, sending, late>>
    BY <1>1 DEF ClockSet, env
  <2> QED BY <2>1, <2>2, Zenon DEF Flags
<1>2. CASE ~ClockSet
  BY <1>2, Zenon DEF Flags, Next, Loop, TimePasses, Arrive, ReadClock, Flush,
     CountBytes, LoopTest, clock, env, vars
<1> QED BY <1>1, <1>2

\* Every step keeps the types of the others.
LEMMA NextSizes == Sizes /\ [Next]_vars => Sizes'
<1> SUFFICES ASSUME Sizes, [Next]_vars PROVE Sizes'
  OBVIOUS
<1> USE FlushAssumption DEF Sizes, clock, env
<1>1. CASE TimePasses
  BY <1>1 DEF TimePasses
<1>2. CASE Arrive
  BY <1>2 DEF Arrive
<1>3. CASE ReadClock
  BY <1>3 DEF ReadClock
<1>4. CASE ClockSet
  <2>1. PICK d \in Shifts : shift' = shift + d
    BY <1>4 DEF ClockSet
  <2>2. shift' \in Int
    BY <2>1
  <2>3. sets' \in 0 .. MaxSets /\ UNCHANGED <<timeout, pc, spent, readAt, size, flight, port>>
    BY <1>4 DEF ClockSet
  <2> QED BY <2>2, <2>3
<1>5. CASE Flush
  BY <1>5 DEF Flush
<1>6. CASE CountBytes
  <2>1. /\ pc' = "test" /\ size' = port
        /\ UNCHANGED <<timeout, spent, shift, readAt, sets, flight, port>>
    BY <1>6 DEF CountBytes
  <2> QED BY <2>1
<1>7. CASE LoopTest
  BY <1>7 DEF LoopTest
<1>8. CASE UNCHANGED vars
  BY <1>8 DEF vars
<1> QED BY <1>1, <1>2, <1>3, <1>4, <1>5, <1>6, <1>7, <1>8 DEF Next, Loop

\* Setting the clock leaves its trace, and nothing else moves it.
LEMMA NextClock == Sizes /\ ClockKnown /\ [Next]_vars => ClockKnown'
<1> SUFFICES ASSUME Sizes, ClockKnown, [Next]_vars PROVE ClockKnown'
  OBVIOUS
<1>1. CASE ClockSet
  <2>1. PICK d \in Shifts : /\ shift' = shift + d
                            /\ forward' = (forward \/ d > 0)
                            /\ back' = (back \/ d < 0)
    BY <1>1, Zenon DEF ClockSet
  <2>2. d \in Int /\ shift \in Int
    BY FlushAssumption DEF Sizes
  <2>3. ~forward' => ~forward /\ ~(d > 0)
    BY <2>1, Zenon
  <2>4. ~back' => ~back /\ ~(d < 0)
    BY <2>1, Zenon
  <2> QED BY <2>1, <2>2, <2>3, <2>4 DEF ClockKnown
<1>2. CASE UNCHANGED <<shift, forward, back>>
  BY <1>2 DEF ClockKnown
<1> QED BY <1>1, <1>2 DEF Next, Loop, TimePasses, Arrive, ReadClock, Flush,
           CountBytes, LoopTest, clock, vars

\* A clock that was set forward, or back, stays so.
LEMMA TracesStay == ClockSet => (~forward' => ~forward) /\ (~back' => ~back)
<1> SUFFICES ASSUME ClockSet PROVE (~forward' => ~forward) /\ (~back' => ~back)
  OBVIOUS
<1>1. PICK d \in Shifts : /\ forward' = (forward \/ d > 0)
                          /\ back' = (back \/ d < 0)
  BY Zenon DEF ClockSet
<1> QED BY <1>1, Zenon

\* The steps of the loop, with the clock and the bytes between them.
LEMMA NextFlushing == Sizes /\ ClockKnown /\ Flushing /\ [Next]_vars => Flushing'
<1> SUFFICES ASSUME Sizes, ClockKnown, Flushing, [Next]_vars PROVE Flushing'
  OBVIOUS
<1> USE FlushAssumption DEF Sizes, Flushing, clock, env
<1>1. CASE TimePasses
  BY <1>1 DEF TimePasses
<1>2. CASE Arrive
  BY <1>2 DEF Arrive
<1>3. CASE ReadClock
  <2>1. /\ readAt' = spent /\ Now \in Int /\ timeout \in Nat
        /\ UNCHANGED <<timeout, forward, back, port, size, late>>
    BY <1>3 DEF ReadClock, Now
  <2>2. CASE DurationMs(Now) < timeout
    <3>1. pc' = "flush" /\ reached' = reached
      BY <1>3, <2>2 DEF ReadClock
    <3>2. ~back => spent <= Now /\ Now >= 0
      BY DEF Now, ClockKnown
    <3>3. ~back => spent < NextSecond(timeout)
      BY <2>1, <2>2, <3>2, WholeSeconds, NextSecondType
    <3>4. reached /\ ~forward => readAt' >= timeout'
      BY <2>1
    <3> QED BY <2>1, <3>1, <3>3, <3>4
  <2>3. CASE ~(DurationMs(Now) < timeout)
    <3>1. pc' = "test" /\ reached' = TRUE
      BY <1>3, <2>3 DEF ReadClock
    <3>2. ~forward => Now <= spent
      BY DEF Now, ClockKnown
    <3>3. Now >= timeout
      BY <2>1, <2>3, WholeSeconds
    <3> QED BY <2>1, <3>1, <3>2, <3>3
  <2> QED BY <2>2, <2>3
<1>4. CASE ClockSet
  <2>2. (~forward' => ~forward) /\ (~back' => ~back)
    BY <1>4, TracesStay
  <2>3. UNCHANGED <<timeout, pc, readAt, size, reached, port, late>>
    BY <1>4 DEF ClockSet, env
  <2> QED BY <2>2, <2>3
<1>5. CASE Flush
  BY <1>5 DEF Flush
<1>6. CASE CountBytes
  BY <1>6 DEF CountBytes
<1>7. CASE LoopTest
  BY <1>7 DEF LoopTest, Again
<1>8. CASE UNCHANGED vars
  BY <1>8 DEF vars
<1> QED BY <1>1, <1>2, <1>3, <1>4, <1>5, <1>6, <1>7, <1>8 DEF Next, Loop

\* The timeout stays in the range loadParams keeps it in, and the clock and the
\* sizes in theirs.
THEOREM FlushTypes == Spec => []TypeOK
<1>1. Flags /\ Sizes => TypeOK
  BY DEF Flags, Sizes, TypeOK
<1> QED BY <1>1, InitInv, NextFlags, NextSizes, PTL DEF Spec

\* Only a clock set forward makes the flush give up before its timeout, and
\* only one set back lets an iteration begin after the full second the timeout
\* falls in (stopBufferRead).
THEOREM InTime == Spec => []GivesUpInTime
<1>1. Flushing => GivesUpInTime
  BY DEF Flushing, GivesUpInTime
<1> QED BY <1>1, InitInv, NextSizes, NextClock, NextFlushing, PTL DEF Spec

\* A flush that ends by itself leaves nothing in the port but what came after
\* it had looked (tcflush, then FIONREAD).
THEOREM PortLeftEmpty == Spec => []NothingLeftBehind
<1>1. Sizes /\ Flushing => NothingLeftBehind
  BY DEF Sizes, Flushing, NothingLeftBehind
<1> QED BY <1>1, InitInv, NextSizes, NextClock, NextFlushing, PTL DEF Spec

=============================================================================
