------------------------ MODULE StandstillBias_proofs ------------------------
(***************************************************************************)
(* Proofs about StandstillBias for every window, queue, hold time and set  *)
(* of magnitudes.                                                          *)
(***************************************************************************)
EXTENDS StandstillBias, TLAPS

\* The last element of a sequence.
Final(s) == s[Len(s)]

\* A longer sequence ends with what was appended.
LEMMA AppendFacts ==
  ASSUME NEW S, NEW s \in Seq(S), NEW m \in S
  PROVE  /\ Append(s, m) \in Seq(S) /\ Len(Append(s, m)) = Len(s) + 1
         /\ Final(Append(s, m)) = m
         /\ \A i \in 1 .. Len(s) : Append(s, m)[i] = s[i]
BY DEF Final

\* A queue without its first element.
LEMMA TailFacts ==
  ASSUME NEW S, NEW s \in Seq(S), s # <<>>
  PROVE  /\ Head(s) = s[1] /\ Head(s) \in S
         /\ Len(s) \in Nat \ {0}
         /\ Tail(s) \in Seq(S) /\ Len(Tail(s)) = Len(s) - 1
         /\ \A i \in 1 .. Len(s) - 1 : Tail(s)[i] = s[i + 1]
OBVIOUS

\* The window ends with the new magnitude and the one before it.
LEMMA RememberFacts ==
  ASSUME NEW m \in Levels, mags \in Seq(Levels), Len(mags) <= Window
  PROVE  /\ Remember(m) \in Seq(Levels)
         /\ Len(Remember(m)) \in 1 .. Window
         /\ Final(Remember(m)) = m
         /\ Len(mags) > 0 => /\ Len(Remember(m)) > 1
                             /\ Remember(m)[Len(Remember(m)) - 1] = Final(mags)
<1> USE StandstillAssumption
<1>1. CASE Len(mags) = Window
  <2>1. mags # <<>> /\ Len(mags) > 1
    BY <1>1
  <2>2. /\ Tail(mags) \in Seq(Levels) /\ Len(Tail(mags)) = Window - 1
        /\ Tail(mags)[Window - 1] = mags[Window]
    BY <1>1, <2>1, TailFacts
  <2>3. Remember(m) = Append(Tail(mags), m)
    BY <1>1 DEF Remember
  <2>4. /\ Remember(m) \in Seq(Levels) /\ Len(Remember(m)) = Window
        /\ Final(Remember(m)) = m
        /\ Remember(m)[Window - 1] = mags[Window]
    <3>1. PICK t \in Seq(Levels) : t = Tail(mags)
      BY <2>2
    <3>2. /\ Append(t, m) \in Seq(Levels) /\ Len(Append(t, m)) = Len(t) + 1
          /\ Final(Append(t, m)) = m
          /\ \A i \in 1 .. Len(t) : Append(t, m)[i] = t[i]
      BY <3>1, AppendFacts
    <3>3. Len(t) = Window - 1 /\ Window - 1 \in 1 .. Len(t) /\ t[Window - 1] = mags[Window]
      BY <2>2, <3>1
    <3>4. Append(t, m)[Window - 1] = mags[Window]
      BY <3>2, <3>3
    <3>5. Len(Append(t, m)) = Window
      BY <3>2, <3>3
    <3>6. Remember(m) = Append(t, m)
      BY <2>3, <3>1
    <3> QED BY <3>2, <3>4, <3>5, <3>6
  <2> QED BY <1>1, <2>4 DEF Final
<1>2. CASE Len(mags) # Window
  <2>1. Remember(m) = Append(mags, m)
    BY <1>2 DEF Remember
  <2>2. /\ Remember(m) \in Seq(Levels) /\ Len(Remember(m)) = Len(mags) + 1
        /\ Final(Remember(m)) = m
        /\ \A i \in 1 .. Len(mags) : Remember(m)[i] = mags[i]
    BY <2>1, AppendFacts
  <2> QED BY <1>2, <2>2 DEF Final
<1> QED BY <1>1, <1>2

-----------------------------------------------------------------------------
\* TypeOK in two parts, the Boolean variables and the others.
Flags == calling \in BOOLEAN /\ evaluated \in BOOLEAN /\ unseen \in BOOLEAN /\ forward \in BOOLEAN

Values ==
  /\ node \in {"waiting", "running", "exited"}
  /\ topic \in TopicTypes \cup {"none"} /\ sub \in TopicTypes \cup {"none"}
  /\ magnitude \in Levels
  /\ inbox \in Seq(Levels) /\ Len(inbox) <= QueueSize
  /\ request \in 0 .. Len(inbox) \cup {NoRequest}
  /\ mags \in Seq(Levels) /\ Len(mags) <= Window
  /\ state \in States /\ prevState \in States
  /\ beginAge \in -Hold .. Hold /\ steady \in 0 .. Hold
  /\ report \in [state : States, secs : -Hold .. Hold] \cup {NoReport}
  /\ quiet \in 0 .. 2 /\ sets \in 0 .. MaxSets

\* Ages stay within Hold, never shrink by getting older, and keep their order.
LEMMA AgeFacts ==
  ASSUME NEW a \in -Hold .. Hold, NEW b \in 0 .. Hold
  PROVE  /\ Older(a) \in -Hold .. Hold /\ Older(b) \in 0 .. Hold
         /\ a <= b => Older(a) <= Older(b)
BY StandstillAssumption DEF Older

\* The subscriber's queue keeps its limit and ends with the new message.
LEMMA QueuedFacts ==
  ASSUME NEW m \in Levels, inbox \in Seq(Levels), Len(inbox) <= QueueSize
  PROVE  /\ Queued(m) \in Seq(Levels) /\ Len(Queued(m)) <= QueueSize
         /\ Len(Queued(m)) >= Len(inbox) /\ Len(Queued(m)) > 0
         /\ Final(Queued(m)) = m
         /\ Len(inbox) # QueueSize => Queued(m) = Append(inbox, m)
<1> USE StandstillAssumption
<1>1. CASE Len(inbox) = QueueSize
  <2>1. inbox # <<>>
    BY <1>1
  <2>2. PICK t \in Seq(Levels) : t = Tail(inbox) /\ Len(t) = QueueSize - 1
    BY <1>1, <2>1, TailFacts
  <2>3. Queued(m) = Append(t, m)
    BY <1>1, <2>2 DEF Queued
  <2>4. /\ Append(t, m) \in Seq(Levels) /\ Len(Append(t, m)) = Len(t) + 1
        /\ Final(Append(t, m)) = m
    BY AppendFacts
  <2> QED BY <1>1, <2>2, <2>3, <2>4
<1>2. CASE Len(inbox) # QueueSize
  <2>1. Queued(m) = Append(inbox, m)
    BY <1>2 DEF Queued
  <2> QED BY <1>2, <2>1, AppendFacts
<1> QED BY <1>1, <1>2

\* The node starts within the types.
LEMMA InitTypes == Init => Flags /\ Values
<1> SUFFICES ASSUME Init PROVE Flags /\ Values
  OBVIOUS
<1>1. Flags
  BY Zenon DEF Init, Flags
<1>2. Values
  BY StandstillAssumption DEF Init, Values, States, NoReport, TopicTypes
<1> QED BY <1>1, <1>2

\* Every step keeps the Boolean variables Boolean.
LEMMA NextFlags == Flags /\ [Next]_vars => Flags'
<1> SUFFICES ASSUME Flags, [Next]_vars PROVE Flags'
  OBVIOUS
<1> USE DEF Flags, imu, queues, checker, startup, clock
<1>1. CASE Measure
  BY <1>1, Zenon DEF Measure
<1>2. CASE ImuCallback
  BY <1>2, Zenon DEF ImuCallback
<1>3. CASE Call \/ CallReturns
  BY <1>3, Zenon DEF Call, CallReturns
<1>4. CASE BiasEstimateCB
  BY <1>4, Zenon DEF BiasEstimateCB, LongEnough
<1>5. CASE UNCHANGED vars
  BY <1>5, Zenon DEF vars
<1>6. CASE TopicAppears \/ Initialize
  BY <1>6, Zenon DEF TopicAppears, Initialize
<1>7. CASE ClockSet
  BY <1>7, Zenon DEF ClockSet
<1> QED BY <1>1, <1>2, <1>3, <1>4, <1>5, <1>6, <1>7, Zenon DEF Next

\* Every step keeps the queue, the window and the ages in their limits.
LEMMA NextValues == Values /\ [Next]_vars => Values'
<1> SUFFICES ASSUME Values, [Next]_vars PROVE Values'
  OBVIOUS
<1> USE StandstillAssumption DEF Values, imu, queues, checker, startup, clock
<1>1. CASE Measure
  <2>1. PICK m \in Levels, sent \in BOOLEAN :
          /\ magnitude' = m
          /\ steady' = IF m = magnitude THEN Older(steady) ELSE 0
          /\ beginAge' = Older(beginAge)
          /\ inbox' = IF sent /\ sub = topic THEN Queued(m) ELSE inbox
          /\ quiet' = IF ~sent \/ m # magnitude THEN 0 ELSE IF quiet = 1 THEN 2 ELSE 1
          /\ UNCHANGED <<node, topic, sub, sets>>
          /\ UNCHANGED <<request, mags, state, prevState, report>>
    BY <1>1, Zenon DEF Measure
  <2>2. beginAge' \in -Hold .. Hold /\ steady' \in 0 .. Hold
    BY <2>1, AgeFacts
  <2>3. /\ inbox' \in Seq(Levels) /\ Len(inbox') <= QueueSize
        /\ Len(inbox') >= Len(inbox)
    BY <2>1, QueuedFacts
  <2>4. request' \in 0 .. Len(inbox') \cup {NoRequest}
    BY <2>1, <2>3
  <2> QED BY <2>1, <2>2, <2>3, <2>4
<1>2. CASE ImuCallback
  <2>1. /\ inbox # <<>> /\ request # 0 /\ inbox' = Tail(inbox)
        /\ request' = IF request = NoRequest THEN request ELSE request - 1
    BY <1>2 DEF ImuCallback
  <2>2. /\ Tail(inbox) \in Seq(Levels) /\ Len(Tail(inbox)) = Len(inbox) - 1
        /\ Head(inbox) \in Levels
    BY <2>1, TailFacts
  <2>3. request' \in 0 .. Len(inbox') \cup {NoRequest}
    BY <2>1, <2>2
  <2>4. mags' \in Seq(Levels) /\ Len(mags') <= Window
    <3>1. mags' = Remember(Head(inbox))
      BY <1>2 DEF ImuCallback
    <3> QED BY <2>2, <3>1, RememberFacts
  <2>5. state' \in States /\ prevState' \in States
    BY <1>2 DEF ImuCallback, Evaluate, States
  <2>6. beginAge' \in -Hold .. Hold
    BY <1>2 DEF ImuCallback
  <2>7. report' \in [state : States, secs : -Hold .. Hold]
    BY <1>2, <2>5, <2>6 DEF ImuCallback
  <2>8. UNCHANGED <<magnitude, steady, quiet, node, topic, sub, sets>>
    BY <1>2 DEF ImuCallback
  <2> QED BY <2>1, <2>2, <2>3, <2>4, <2>5, <2>6, <2>7, <2>8
<1>3. CASE Call
  BY <1>3 DEF Call
<1>4. CASE BiasEstimateCB \/ CallReturns
  BY <1>4 DEF BiasEstimateCB, CallReturns
<1>5. CASE UNCHANGED vars
  BY <1>5 DEF vars
<1>6. CASE TopicAppears \/ Initialize
  BY <1>6 DEF TopicAppears, Initialize, SubscribedType, TopicTypes
<1>7. CASE ClockSet
  <2>1. beginAge' \in -Hold .. Hold /\ sets' \in 0 .. MaxSets
    BY <1>7 DEF ClockSet
  <2> QED BY <1>7, <2>1 DEF ClockSet
<1> QED BY <1>1, <1>2, <1>3, <1>4, <1>5, <1>6, <1>7 DEF Next

\* The window, the queue and the queued call stay in their limits (imuCallback
\* and the subscriber's queue), however messages and calls are interleaved.
THEOREM CheckerTypes == Spec => []TypeOK
<1>1. Flags /\ Values => TypeOK
  BY DEF Flags, Values, TypeOK
<1> QED BY <1>1, InitTypes, NextFlags, NextValues, PTL DEF Spec

-----------------------------------------------------------------------------
(***************************************************************************)
(* The inductive invariant, as long as no measurement is unseen and the    *)
(* clock has not been set forward: nothing is queued or evaluated before   *)
(* the node runs, the newest messages - those that wait, and behind them   *)
(* the last one evaluated - are what was measured since the last change,   *)
(* messages that wait all equal to the last one evaluated mean that no     *)
(* change is on its way, and then a standstill began no earlier than the   *)
(* last change was measured.                                               *)
(***************************************************************************)
Evaluated ==
  /\ ~evaluated => mags = <<>> /\ prevState = "MOVING"
  /\ evaluated => Len(mags) > 0 /\ state = prevState

Idle == node # "running" => inbox = <<>> /\ ~evaluated /\ sub = "none"

Newest ==
  ~unseen =>
    /\ \A i \in 1 .. Len(inbox) : Len(inbox) - i <= steady => inbox[i] = magnitude
    /\ evaluated /\ Len(inbox) <= steady => Final(mags) = magnitude

NoChangeWaits == \A i \in 1 .. Len(inbox) : inbox[i] = Final(mags)

Held ==
  ~unseen /\ ~forward /\ evaluated /\ state = "STANDSTILL" /\ NoChangeWaits
    => beginAge <= steady

HoldInv == Idle /\ Evaluated /\ Newest /\ Held

\* Without messages there is nothing to say about them.
LEMMA NoneNewest == inbox = <<>> /\ ~evaluated => Newest
<1> SUFFICES ASSUME inbox = <<>>, ~evaluated PROVE Newest
  OBVIOUS
<1>1. 1 .. Len(inbox) = {}
  OBVIOUS
<1> QED BY <1>1, Zenon DEF Newest

\* Nothing has been evaluated at the start.
LEMMA InitHold == Init => HoldInv
<1> SUFFICES ASSUME Init PROVE HoldInv
  OBVIOUS
<1>1. /\ evaluated = FALSE /\ mags = <<>> /\ inbox = <<>> /\ prevState = "MOVING"
      /\ sub = "none"
  BY Zenon DEF Init
<1>2. Newest
  BY <1>1, NoneNewest, Zenon
<1> QED BY <1>1, <1>2, Zenon DEF HoldInv, Idle, Evaluated, Held

\* A measurement makes both ages older, or is a change that waits.
LEMMA MeasureHold ==
  ASSUME Values, HoldInv, Measure
  PROVE  HoldInv'
<1> USE StandstillAssumption
<1>1. PICK m \in Levels, sent \in BOOLEAN :
        /\ magnitude' = m
        /\ steady' = IF m = magnitude THEN Older(steady) ELSE 0
        /\ beginAge' = Older(beginAge)
        /\ inbox' = IF sent /\ sub = topic THEN Queued(m) ELSE inbox
        /\ unseen' = (unseen \/ (node = "running" /\ inbox' # Append(inbox, m)))
        /\ sent => topic # "none"
        /\ UNCHANGED <<node, sub, forward, mags, state, prevState, evaluated>>
  BY Zenon DEF Measure, startup, clock
<1>2. Evaluated'
  BY <1>1 DEF HoldInv, Evaluated
<1>3. Idle'
  <2> SUFFICES ASSUME node # "running" PROVE inbox' = inbox
    BY <1>1, Zenon DEF HoldInv, Idle
  <2>1. ~(sent /\ sub = topic)
    BY <1>1, Zenon DEF HoldInv, Idle
  <2> QED BY <1>1, <2>1, Zenon
<1>4. CASE unseen'
  BY <1>2, <1>3, <1>4, Zenon DEF HoldInv, Newest, Held
<1>5. CASE node # "running"
  <2>1. inbox' = <<>> /\ ~evaluated'
    BY <1>1, <1>3, <1>5, Zenon DEF Idle
  <2>2. Newest'
    <3>1. 1 .. Len(inbox') = {}
      BY <2>1
    <3> QED BY <2>1, <3>1, Zenon DEF Newest
  <2> QED BY <1>2, <1>3, <2>1, <2>2, Zenon DEF HoldInv, Held
<1>6. CASE ~unseen' /\ node = "running"
  <2>1. ~unseen /\ inbox' = Append(inbox, m)
    BY <1>1, <1>6, Zenon
  <2>2. PICK q \in Seq(Levels) :
          /\ q = inbox' /\ q = Append(inbox, m)
          /\ Len(q) = Len(inbox) + 1 /\ Final(q) = m
          /\ \A i \in 1 .. Len(inbox) : q[i] = inbox[i]
    <3>1. inbox \in Seq(Levels) /\ Len(inbox) <= QueueSize
      BY DEF Values
    <3>2. /\ Append(inbox, m) \in Seq(Levels) /\ Len(Append(inbox, m)) = Len(inbox) + 1
          /\ Final(Append(inbox, m)) = m
          /\ \A i \in 1 .. Len(inbox) : Append(inbox, m)[i] = inbox[i]
      BY <3>1, AppendFacts
    <3> QED BY <2>1, <3>2, Zenon
  <2>3. Newest'
    <3>1. /\ \A i \in 1 .. Len(inbox) : Len(inbox) - i <= steady => inbox[i] = magnitude
          /\ evaluated /\ Len(inbox) <= steady => Final(mags) = magnitude
      BY <2>1 DEF HoldInv, Newest
    <3>2. steady' \in Nat /\ (m = magnitude => steady' <= steady + 1) /\ (m # magnitude => steady' = 0)
      BY <1>1 DEF Older, Values
    <3>3. ASSUME NEW i \in 1 .. Len(q), Len(q) - i <= steady'
          PROVE  q[i] = m
      <4>1. CASE i = Len(q)
        BY <2>2, <4>1 DEF Final
      <4>2. CASE i # Len(q)
        <5>1. i \in 1 .. Len(inbox) /\ m = magnitude /\ Len(inbox) - i <= steady
          BY <2>2, <3>2, <3>3, <4>2 DEF Values
        <5> QED BY <2>2, <3>1, <5>1
      <4> QED BY <4>1, <4>2
    <3>4. ASSUME evaluated, Len(q) <= steady'
          PROVE  Final(mags) = m
      <4>1. m = magnitude /\ Len(inbox) <= steady
        BY <2>2, <3>2, <3>4 DEF Values
      <4> QED BY <3>1, <3>4, <4>1
    <3> QED BY <1>1, <2>2, <3>3, <3>4 DEF Newest, Final
  <2>4. Held'
    <3> SUFFICES ASSUME ~forward, evaluated, state = "STANDSTILL", NoChangeWaits'
                 PROVE  beginAge' <= steady'
      BY <1>1, Zenon DEF Held
    <3>1. \A i \in 1 .. Len(q) : q[i] = Final(mags)
      BY <1>1, <2>2 DEF NoChangeWaits, Final
    <3>2. NoChangeWaits
      BY <2>2, <3>1 DEF NoChangeWaits, Values
    <3>3. beginAge <= steady
      BY <2>1, <3>2 DEF HoldInv, Held
    <3>4. m = Final(mags)
      <4>1. Len(q) \in 1 .. Len(q) /\ q[Len(q)] = m
        BY <2>2 DEF Values, Final
      <4> QED BY <3>1, <4>1
    <3>5. magnitude = Final(mags)
      <4>1. CASE Len(inbox) = 0
        BY <2>1, <4>1 DEF HoldInv, Newest, Values
      <4>2. CASE Len(inbox) # 0
        <5>1. Len(inbox) \in 1 .. Len(inbox) /\ Len(inbox) - Len(inbox) <= steady
          BY <4>2 DEF Values
        <5>2. inbox[Len(inbox)] = magnitude
          BY <2>1, <5>1 DEF HoldInv, Newest
        <5> QED BY <3>2, <5>1, <5>2 DEF NoChangeWaits
      <4> QED BY <4>1, <4>2
    <3>6. steady' = Older(steady) /\ beginAge' = Older(beginAge)
      BY <1>1, <3>4, <3>5
    <3> QED BY <3>3, <3>6, AgeFacts DEF Values
  <2> QED BY <1>2, <1>3, <2>3, <2>4 DEF HoldInv
<1> QED BY <1>4, <1>5, <1>6, Zenon

\* A change that is evaluated is in the window together with the magnitude
\* before it, which is MOVING; a standstill that follows begins now.
LEMMA ImuCallbackHold ==
  ASSUME Values, HoldInv, ImuCallback
  PROVE  HoldInv'
<1> USE StandstillAssumption
<1>1. /\ inbox # <<>> /\ inbox' = Tail(inbox)
      /\ mags' = Remember(Head(inbox))
      /\ state' = Evaluate(mags')
      /\ beginAge' = IF StandstillBegins(state') THEN 0 ELSE beginAge
      /\ prevState' = state' /\ evaluated' = TRUE
      /\ magnitude' = magnitude /\ steady' = steady /\ unseen' = unseen
      /\ node' = node /\ forward' = forward
  BY Zenon DEF ImuCallback, imu, startup, clock
<1>2. PICK h \in Levels :
        /\ h = Head(inbox) /\ h = inbox[1] /\ Len(inbox) \in Nat \ {0}
        /\ inbox' \in Seq(Levels) /\ Len(inbox') = Len(inbox) - 1
        /\ \A i \in 1 .. Len(inbox) - 1 : inbox'[i] = inbox[i + 1]
  BY <1>1, TailFacts DEF Values
<1>3. /\ mags' \in Seq(Levels) /\ Len(mags') \in 1 .. Window /\ Final(mags)' = h
      /\ Len(mags) > 0 => /\ Len(mags') > 1
                          /\ mags'[Len(mags') - 1] = Final(mags)
  BY <1>1, <1>2, RememberFacts DEF Values, Final
<1>4. Evaluated'
  BY <1>1, <1>3 DEF Evaluated
<1>5. Newest'
  <2> SUFFICES ASSUME ~unseen
               PROVE  /\ \A i \in 1 .. Len(inbox') :
                           Len(inbox') - i <= steady => inbox'[i] = magnitude
                      /\ Len(inbox') <= steady => h = magnitude
    BY <1>1, <1>3 DEF Newest
  <2>1. \A i \in 1 .. Len(inbox) : Len(inbox) - i <= steady => inbox[i] = magnitude
    BY DEF HoldInv, Newest
  <2>2. ASSUME NEW i \in 1 .. Len(inbox'), Len(inbox') - i <= steady
        PROVE  inbox'[i] = magnitude
    <3>1. /\ i + 1 \in 1 .. Len(inbox) /\ i \in 1 .. Len(inbox) - 1
          /\ Len(inbox) - (i + 1) <= steady
      BY <1>2, <2>2 DEF Values
    <3> QED BY <1>2, <2>1, <3>1
  <2>3. ASSUME Len(inbox') <= steady PROVE h = magnitude
    <3>1. 1 \in 1 .. Len(inbox) /\ Len(inbox) - 1 <= steady
      BY <1>2, <2>3
    <3> QED BY <1>2, <2>1, <3>1
  <2> QED BY <2>2, <2>3
<1>6. Held'
  <2> SUFFICES ASSUME ~unseen, ~forward, state' = "STANDSTILL", NoChangeWaits'
               PROVE  beginAge' <= steady
    BY <1>1 DEF Held
  <2>1. CASE prevState = "MOVING"
    BY <1>1, <2>1 DEF StandstillBegins, Values
  <2>2. CASE prevState # "MOVING"
    <3>1. evaluated /\ Len(mags) > 0 /\ state = "STANDSTILL"
      BY <2>2 DEF HoldInv, Evaluated, Values, States
    <3>2. \A i, j \in 1 .. Len(mags') : mags'[i] = mags'[j]
      BY <1>1, <1>3 DEF Evaluate
    <3>3. h = Final(mags)
      <4>1. /\ Len(mags') \in 1 .. Len(mags') /\ Len(mags') - 1 \in 1 .. Len(mags')
        BY <1>3, <3>1
      <4> QED BY <1>3, <3>1, <3>2, <4>1 DEF Final
    <3>4. NoChangeWaits
      <4> SUFFICES ASSUME NEW i \in 1 .. Len(inbox) PROVE inbox[i] = Final(mags)
        BY DEF NoChangeWaits
      <4>1. CASE i = 1
        BY <1>2, <3>3, <4>1
      <4>2. CASE i # 1
        <5>1. i - 1 \in 1 .. Len(inbox') /\ (i - 1) + 1 = i
          BY <1>2, <4>2
        <5>2. inbox'[i - 1] = h
          BY <1>3, <5>1 DEF NoChangeWaits
        <5> QED BY <1>2, <3>3, <5>1, <5>2
      <4> QED BY <4>1, <4>2
    <3>5. beginAge <= steady
      BY <3>1, <3>4 DEF HoldInv, Held
    <3> QED BY <1>1, <2>2, <3>5 DEF StandstillBegins
  <2> QED BY <2>1, <2>2
<1>7. Idle'
  BY <1>1, Zenon DEF HoldInv, Idle
<1> QED BY <1>4, <1>5, <1>6, <1>7 DEF HoldInv

\* A clock set back makes a standstill look younger.
LEMMA ClockSetHold ==
  ASSUME Values, HoldInv, ClockSet
  PROVE  HoldInv'
<1>1. /\ UNCHANGED <<node, sub, magnitude, steady, unseen>>
      /\ UNCHANGED <<inbox, mags, state, prevState, evaluated>>
  BY DEF ClockSet, startup, imu, queues
<1>2. Idle' /\ Evaluated' /\ Newest' /\ NoChangeWaits' = NoChangeWaits
  BY <1>1 DEF HoldInv, Idle, Evaluated, Newest, NoChangeWaits, Final
<1>3. Held'
  <2>1. CASE forward'
    BY <2>1, Zenon DEF Held
  <2>2. CASE ~forward'
    <3>1. ~forward /\ beginAge' \in -Hold .. beginAge
      <4>1. beginAge' \in -Hold .. beginAge /\ forward' = forward
        BY <2>2, SMT DEF ClockSet
      <4> QED BY <2>2, <4>1, Zenon
    <3>2. beginAge' <= beginAge /\ beginAge' \in Int
      BY <3>1, StandstillAssumption DEF Values
    <3> QED BY <1>1, <1>2, <3>1, <3>2, StandstillAssumption DEF HoldInv, Held, Values
  <2> QED BY <2>1, <2>2
<1> QED BY <1>2, <1>3 DEF HoldInv

\* The start and the service leave the checker alone.
LEMMA NextHold == Values /\ HoldInv /\ [Next]_vars => HoldInv'
<1> SUFFICES ASSUME Values, HoldInv, [Next]_vars PROVE HoldInv'
  OBVIOUS
<1>1. CASE Measure
  BY <1>1, MeasureHold
<1>2. CASE ImuCallback
  BY <1>2, ImuCallbackHold
<1>3. CASE TopicAppears \/ Initialize \/ Call \/ BiasEstimateCB \/ CallReturns \/ UNCHANGED vars
  <2>1. /\ UNCHANGED <<magnitude, steady, unseen, forward>>
        /\ UNCHANGED <<inbox, mags, state, prevState, beginAge, evaluated>>
    BY <1>3 DEF TopicAppears, Initialize, Call, BiasEstimateCB, CallReturns,
                vars, imu, queues, checker, clock
  <2>2. Idle'
    <3>1. CASE Initialize
      <4>1. CASE node' = "running"
        BY <4>1 DEF Idle
      <4>2. CASE node' # "running"
        BY <2>1, <3>1, <4>2, Zenon DEF Initialize, HoldInv, Idle
      <4> QED BY <4>1, <4>2
    <3>2. CASE UNCHANGED <<node, sub>>
      BY <2>1, <3>2, Zenon DEF HoldInv, Idle
    <3> QED BY <1>3, <3>1, <3>2
            DEF TopicAppears, Call, BiasEstimateCB, CallReturns, vars, startup
  <2> QED BY <2>1, <2>2 DEF HoldInv, Evaluated, Newest, Held, NoChangeWaits, Final
<1>4. CASE ClockSet
  BY <1>4, ClockSetHold
<1> QED BY <1>1, <1>2, <1>3, <1>4 DEF Next

\* A change that is no longer in the queue has been evaluated.
LEMMA ChangeEvaluated ==
  ASSUME Values, Newest, ~unseen, evaluated, ~(steady < Len(inbox))
  PROVE  NoChangeWaits
<1>1. Final(mags) = magnitude
  BY DEF Newest, Values
<1>2. ASSUME NEW i \in 1 .. Len(inbox) PROVE inbox[i] = magnitude
  <2>1. Len(inbox) - i <= steady
    BY <1>2 DEF Values
  <2> QED BY <1>2, <2>1 DEF Newest
<1> QED BY <1>1, <1>2 DEF NoChangeWaits

\* When every measurement since the subscription has reached the node, a
\* trigger of the bias correction means that the IMU has measured no change for
\* Hold, or that the change is still in the queue: for every queue and every
\* window of at least two magnitudes, unless the clock was set forward
\* (evaluateStandstillBegin, biasEstimateCB).
THEOREM TriggerSafe == Spec => FreshTriggerIsSafe
<1>1. Flags /\ Values /\ HoldInv /\ [Next]_vars
        => (Triggers /\ evaluated /\ ~unseen /\ ~forward
              => steady >= Hold \/ steady < Len(inbox))
  <2> SUFFICES ASSUME Values, HoldInv, [Next]_vars, Triggers,
                      evaluated, ~unseen, ~(steady < Len(inbox)), ~forward
               PROVE  steady >= Hold
    OBVIOUS
  <2>1. LongEnough
    <3>1. CASE TopicAppears \/ Initialize \/ Measure \/ ClockSet
      BY <3>1, Zenon DEF TopicAppears, Initialize, Measure, ClockSet, Triggers
    <3>2. CASE ImuCallback \/ Call \/ CallReturns
      BY <3>2, Zenon DEF ImuCallback, Call, CallReturns, Triggers
    <3>3. CASE BiasEstimateCB
      BY <3>3, Zenon DEF BiasEstimateCB, Triggers
    <3>4. CASE UNCHANGED vars
      BY <3>4, Zenon DEF vars, Triggers
    <3> QED BY <3>1, <3>2, <3>3, <3>4, Zenon DEF Next
  <2>2. NoChangeWaits
    BY ChangeEvaluated DEF HoldInv
  <2>3. beginAge <= steady
    BY <2>1, <2>2 DEF LongEnough, HoldInv, Held
  <2> QED BY <2>1, <2>3, StandstillAssumption DEF LongEnough, Values
<1> QED BY <1>1, InitTypes, InitHold, NextFlags, NextValues, NextHold, PTL
        DEF Spec, FreshTriggerIsSafe

\* A standstill reported on imu_state has lasted as long as it says, when every
\* measurement since the subscription has reached the node and the clock was
\* not set forward, unless its end is still in the queue
\* (evaluateStandstillBegin).
THEOREM ReportHolds == Spec => ReportedStandstillHeld
<1>1. Values /\ HoldInv /\ [Next]_vars
        => (/\ report' # report /\ report'.state = "STANDSTILL"
            /\ ~unseen /\ ~forward
            => steady >= report'.secs \/ steady < Len(inbox'))
  <2> SUFFICES ASSUME Values, HoldInv, [Next]_vars, report' # report,
                      report'.state = "STANDSTILL", ~unseen, ~forward,
                      ~(steady < Len(inbox'))
               PROVE  steady >= report'.secs
    OBVIOUS
  <2>1. ImuCallback
    BY DEF Next, TopicAppears, Initialize, Measure, ClockSet, Call, BiasEstimateCB,
           CallReturns, vars, checker
  <2>2. /\ report' = [state |-> state', secs |-> beginAge']
        /\ evaluated' = TRUE /\ unseen' = unseen /\ steady' = steady /\ forward' = forward
    BY <2>1, Zenon DEF ImuCallback, imu, clock
  <2>3. Held' /\ Newest' /\ Values'
    BY NextHold, NextValues DEF HoldInv
  <2>6. NoChangeWaits'
    <3>1. Final(mags)' = magnitude'
      BY <2>2, <2>3 DEF Newest, Values
    <3>2. ASSUME NEW i \in 1 .. Len(inbox') PROVE inbox'[i] = magnitude'
      <4>1. Len(inbox') - i <= steady'
        BY <2>2, <2>3, <3>2 DEF Values
      <4> QED BY <2>2, <2>3, <3>2, <4>1 DEF Newest
    <3> QED BY <3>1, <3>2 DEF NoChangeWaits
  <2>4. report'.secs = beginAge' /\ state' = "STANDSTILL"
    BY <2>2
  <2>5. beginAge' <= steady'
    BY <2>2, <2>3, <2>4, <2>6 DEF Held
  <2> QED BY <2>2, <2>4, <2>5, NextValues DEF Values
<1> QED BY <1>1, InitTypes, InitHold, NextValues, NextHold, PTL
        DEF Spec, ReportedStandstillHeld

=============================================================================
