--------------------------- MODULE StandstillBias ---------------------------
(***************************************************************************)
(* The bias_estimate_node: ImuStateChecker (imu_state_checker.cpp) decides *)
(* from the messages of the IMU topic whether the IMU stands still, and    *)
(* since when; BiasEstimate::biasEstimateCB (bias_estimate_node.cpp)       *)
(* triggers the bias correction once that has lasted Hold.  The node has   *)
(* one thread: the callbacks of messages and of the service run one after  *)
(* the other in the order they were queued, and none runs while            *)
(* biasEstimateCB waits for trigger_imu_glob_cmd.  At its start it looks   *)
(* once whether the topic is there and subscribes with the type it found.  *)
(*                                                                         *)
(* A message is the magnitude it carries, one of Levels; two magnitudes    *)
(* differ when their spread is above the thresholds.  The clock advances   *)
(* in ticks, one measurement each.  Ages are in ticks and saturate at      *)
(* Hold, which is all the code asks of them: standstill_begin_ is zero at  *)
(* first, and that is longer ago.  ros::Time is the clock of the host: set *)
(* forward or back, it changes an age, which may become negative.          *)
(***************************************************************************)
EXTENDS Integers, Sequences

CONSTANTS
  Levels,    \* magnitudes that differ by more than the thresholds
  Window,    \* magnitudes kept in gyro_mag_q_ and accl_mag_q_, 10 in the code
  QueueSize, \* messages the subscriber queues, 1000 in the code
  Hold,      \* 40 seconds
  MaxSets,   \* bound: how often the clock is set
  NoRequest  \* no call of bias_estimate is queued

ASSUME StandstillAssumption ==
  /\ Window \in Nat /\ Window > 1
  /\ QueueSize \in Nat \ {0} /\ Hold \in Nat \ {0}
  /\ MaxSets \in Nat
  /\ NoRequest \notin Nat

States == {"MOVING", "STANDSTILL"}

NoReport == [state |-> "none", secs |-> 0]

\* The types a topic may have; the driver publishes one of the first two.
TopicTypes == {"AdiImu", "Imu", "Other"}

VARIABLES
  node,      \* "waiting" in loadParams, "running" in ros::spin, or "exited"
  topic,     \* type of the IMU topic, or "none" while nobody has advertised it
  sub,       \* type the node has subscribed with
  magnitude, \* the IMU: what it measured last
  inbox,     \* messages queued by the subscriber
  request,   \* messages that are handled before the queued call
  mags,      \* gyro_mag_q_ and accl_mag_q_
  state,     \* state_
  prevState, \* prev_state_
  beginAge,  \* now - standstill_begin_
  report,    \* the last message on imu_state
  calling,   \* biasEstimateCB waits in trigger_imu_glob_cmd_.call
  steady,    \* history: ticks since the IMU measured a change
  evaluated, \* history: a message has been evaluated
  unseen,    \* history: a measurement did not reach the node
  quiet,     \* history: 0 after a tick without a message or with a change, then
             \* 1, 2, 1, ... so that no tick is a stuttering step
  sets,      \* history: how often the clock was set
  forward    \* history: it was set forward

queues  == <<inbox, request>>
checker == <<mags, state, prevState, beginAge, report, evaluated>>
imu     == <<magnitude, steady, unseen, quiet>>
startup == <<node, topic, sub>>
clock   == <<sets, forward>>
vars    == <<startup, imu, queues, checker, calling, clock>>

-----------------------------------------------------------------------------
\* Nothing initialises state_.
Init ==
  /\ node = "waiting" /\ sub = "none" /\ topic \in TopicTypes \cup {"none"}
  /\ sets = 0 /\ forward = FALSE
  /\ magnitude \in Levels /\ steady = 0
  /\ inbox = <<>> /\ request = NoRequest
  /\ mags = <<>> /\ state \in States /\ prevState = "MOVING"
  /\ beginAge = Hold /\ report = NoReport /\ evaluated = FALSE
  /\ calling = FALSE /\ unseen = FALSE /\ quiet = 0

Older(age) == IF age < Hold THEN age + 1 ELSE age

\* Mutant of Queued: a full queue has room for one more.
QueuedBeyond(m) == Append(inbox, m)

\* The subscriber's queue when message m arrives: it drops the oldest.
Queued(m) == Append(IF Len(inbox) = QueueSize THEN Tail(inbox) ELSE inbox, m)

\* The clock ticks, the IMU measures m, and the message may not get here (the
\* driver stopped, the frame was lost).  roscpp does not connect a subscriber
\* of another type.
Measure ==
  \E m \in Levels, sent \in BOOLEAN :
    /\ magnitude' = m
    /\ steady' = IF m = magnitude THEN Older(steady) ELSE 0
    /\ beginAge' = Older(beginAge)
    /\ inbox' = IF sent /\ sub = topic THEN Queued(m) ELSE inbox
    /\ unseen' = (unseen \/ (node = "running" /\ inbox' # Append(inbox, m)))
    /\ quiet' = IF ~sent \/ m # magnitude THEN 0 ELSE IF quiet = 1 THEN 2 ELSE 1
    /\ sent => topic # "none"
    /\ UNCHANGED <<startup, request, mags, state, prevState, report, evaluated, calling, clock>>

\* Someone, or a time service, sets the clock of the host.
ClockSet ==
  /\ sets < MaxSets
  /\ sets' = sets + 1
  /\ \/ beginAge' \in beginAge .. Hold /\ forward' = TRUE
     \/ beginAge' \in -Hold .. beginAge /\ UNCHANGED forward
  /\ UNCHANGED <<startup, imu, queues, mags, state, prevState, report, evaluated, calling>>

-----------------------------------------------------------------------------
\* The driver advertises its topic.
TopicAppears ==
  /\ topic = "none"
  /\ topic' \in TopicTypes
  /\ UNCHANGED <<node, sub, imu, queues, checker, calling, clock>>

\* Mutant of NotedType: only one of the two tests is the wrong way round.
NotedTypeRight(type) == IF type = "AdiImu" THEN "ADI_IMU_MSG" ELSE "SENSOR_MSGS_IMU"

\* ImuStateChecker::loadParams: string::compare is zero when the names agree,
\* so each type is noted as the other one.
NotedType(type) == IF type # "AdiImu" THEN "ADI_IMU_MSG" ELSE "SENSOR_MSGS_IMU"

\* ImuStateChecker::initialize: and taken for the other one again.
SubscribedType(noted) == IF noted = "SENSOR_MSGS_IMU" THEN "AdiImu" ELSE "Imu"

\* The delay is over; the topics are looked at once.
Initialize ==
  /\ node = "waiting"
  /\ IF topic = "none" THEN node' = "exited" /\ UNCHANGED sub
     ELSE node' = "running" /\ sub' = SubscribedType(NotedType(topic))
  /\ UNCHANGED <<topic, imu, queues, checker, calling, clock>>

-----------------------------------------------------------------------------
\* Mutant of Remember: the window keeps only the newest magnitude.
RememberOne(m) == <<m>>

\* The window after magnitude m.
Remember(m) == Append(IF Len(mags) = Window THEN Tail(mags) ELSE mags, m)

\* evaluateState: a deviation below both thresholds is a standstill, also of
\* one magnitude.
Evaluate(window) ==
  IF \A i, j \in DOMAIN window : window[i] = window[j] THEN "STANDSTILL" ELSE "MOVING"

\* Mutant of StandstillBegins: the states are compared the wrong way round.
StandstillBeginsSwapped(new) == prevState = "STANDSTILL" /\ new = "MOVING"

\* evaluateStandstillBegin: the test for the transition.
StandstillBegins(new) == prevState = "MOVING" /\ new = "STANDSTILL"

\* imuCallback: evaluate, note when a standstill begins, publish imu_state.
ImuCallback ==
  /\ ~calling /\ inbox # <<>> /\ request # 0
  /\ inbox' = Tail(inbox)
  /\ request' = IF request = NoRequest THEN request ELSE request - 1
  /\ mags' = Remember(Head(inbox))
  /\ state' = Evaluate(mags')
  /\ beginAge' = IF StandstillBegins(state') THEN 0 ELSE beginAge
  /\ prevState' = state'
  /\ report' = [state |-> state', secs |-> beginAge']
  /\ evaluated' = TRUE
  /\ UNCHANGED <<startup, imu, calling, clock>>

\* A client calls bias_estimate: the call is queued behind the messages that
\* are queued already.
Call ==
  /\ node = "running" /\ request = NoRequest
  /\ request' = Len(inbox)
  /\ UNCHANGED <<startup, imu, inbox, checker, calling, clock>>

\* The state is STANDSTILL and checkStandstillDuration returns true.
LongEnough == state = "STANDSTILL" /\ beginAge >= Hold

\* biasEstimateCB: trigger and wait, or refuse.
BiasEstimateCB ==
  /\ ~calling /\ request = 0
  /\ request' = NoRequest
  /\ calling' = LongEnough
  /\ UNCHANGED <<startup, imu, inbox, checker, clock>>

\* trigger_imu_glob_cmd_.call returns; the answer is passed on.
CallReturns ==
  /\ calling
  /\ calling' = FALSE
  /\ UNCHANGED <<startup, imu, queues, checker, clock>>

Next ==
  \/ TopicAppears \/ Initialize \/ Measure \/ ClockSet
  \/ ImuCallback \/ Call \/ BiasEstimateCB \/ CallReturns

\* Time passes; the node starts and runs its callbacks, and the service answers.
Fairness ==
  /\ WF_vars(Initialize) /\ WF_vars(Measure)
  /\ WF_vars(ImuCallback \/ BiasEstimateCB)
  /\ WF_vars(CallReturns)

Spec == Init /\ [][Next]_vars /\ Fairness

-----------------------------------------------------------------------------
TypeOK ==
  /\ node \in {"waiting", "running", "exited"}
  /\ topic \in TopicTypes \cup {"none"} /\ sub \in TopicTypes \cup {"none"}
  /\ magnitude \in Levels
  /\ inbox \in Seq(Levels) /\ Len(inbox) <= QueueSize
  /\ request \in 0 .. Len(inbox) \cup {NoRequest}
  /\ mags \in Seq(Levels) /\ Len(mags) <= Window
  /\ state \in States /\ prevState \in States
  /\ beginAge \in -Hold .. Hold /\ steady \in 0 .. Hold
  /\ report \in [state : States, secs : -Hold .. Hold] \cup {NoReport}
  /\ {calling, evaluated, unseen, forward} \subseteq BOOLEAN
  /\ quiet \in 0 .. 2 /\ sets \in 0 .. MaxSets

Triggers == ~calling /\ calling'

\* When every measurement since the subscription has reached the node, a trigger
\* means that the IMU has measured no change for Hold, or that the message of
\* the change is still in the queue: what was measured after the last message
\* evaluated is all that can be missed.  However long messages waited, a change
\* is seen as MOVING, and what follows counts from then; a clock set back only
\* delays it (evaluateStandstillBegin, biasEstimateCB).
FreshTriggerIsSafe ==
  [][Triggers /\ evaluated /\ ~unseen /\ ~forward
       => steady >= Hold \/ steady < Len(inbox)]_vars

\* An IMU that has come to rest for good is found at standstill long enough,
\* whichever of its two messages the driver publishes and whatever the clock
\* was set to: the bias correction becomes possible (loadParams, initialize,
\* evaluateState).
RestIsRecognised ==
  <>[](node = "running" /\ topic # "Other" /\ quiet # 0) => <>[]LongEnough

\* A standstill reported on imu_state lasts as long as it says, when every
\* measurement since the subscription has reached the node and the clock was
\* not set forward, unless the end of it is still in the queue
\* (evaluateStandstillBegin).
ReportedStandstillHeld ==
  [][/\ report' # report /\ report'.state = "STANDSTILL" /\ ~unseen /\ ~forward
     => steady >= report'.secs \/ steady < Len(inbox')]_vars

\* README on bias_estimate_node: it "makes sure that the IMU is standstill for
\* at least 40s before triggering".
StillBeforeTrigger == [][Triggers => steady >= Hold]_vars

=============================================================================
