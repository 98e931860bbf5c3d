---------------------------- MODULE DeviceConfig ----------------------------
(***************************************************************************)
(* AdiImuBuf::config: AdiImu::config, then ImuBuf::config, then the topic  *)
(* and the timer.  Each of the first two is a list of library calls, any   *)
(* of which may fail, and what a failure does to the result differs from   *)
(* call to call:                                                           *)
(*                                                                         *)
(*   decide   b_success becomes the result of the call                     *)
(*   ignore   the failure is only logged                                   *)
(*   return   "return ret": the negative code, as a bool, is true          *)
(*                                                                         *)
(* and so does when it is made: while b_success holds, with the call       *)
(* before it (the same if-block), or always.                               *)
(***************************************************************************)
EXTENDS Integers, Sequences

CONSTANTS
  Bursts,       \* values of buf_burst_count, which nothing checks
  OptionSets,   \* the parameter settings to consider, a set of Option
  Decimations,  \* what the decimation register of the IMU may hold
  Unknown,      \* a number nobody can tell: a member before it is assigned, or
                \* the int that an infinite double is converted to
  NoTimer       \* the read timer has not been created

\* The parameters the flow of the three functions depends on.
Option ==
  [prod : {16470, 16495, 16500}, sync : BOOLEAN, biasCorr : BOOLEAN,
   acclBias : BOOLEAN, gyroBias : BOOLEAN, scales : BOOLEAN,
   pps : BOOLEAN, imuBurst : BOOLEAN, msgValid : BOOLEAN, burst : Bursts]

ASSUME OptionAssumption ==
  /\ Bursts \subseteq Int /\ OptionSets \subseteq Option
  /\ Decimations \subseteq Nat
  /\ Unknown \notin Int /\ NoTimer \notin Int /\ NoTimer # Unknown

VARIABLES
  opt,       \* the parameters
  phase,     \* "adi", "buf", "node", then "done"
  step,      \* next call of the phase
  ok,        \* b_success
  reached,   \* the block of the previous call was entered
  failed,    \* history: calls that failed, those whose failure is ignored aside
  last,      \* history: the last call made
  decimation,\* the IMU's register
  rate,      \* actual_imu_data_rate_
  timer,     \* ros_loop_rate_hz_ of the read timer, or NoTimer
  result     \* what AdiImuBuf::config returned

vars == <<opt, phase, step, ok, reached, failed, last, decimation, rate, timer, result>>

-----------------------------------------------------------------------------
Call(name, when, fails) == [name |-> name, when |-> when, fails |-> fails]

\* The calls of a block, if the parameters ask for it.
If(cond, calls) == IF cond THEN calls ELSE <<>>

\* For the 16495 the enable command is sent even when the configuration has
\* failed, and its result is the one that counts.
DataReady(prod) ==
  IF prod = 16495
  THEN <<Call("ConfigDataReady", "success", "decide"),
         Call("SetDataReady", "block", "decide")>>
  ELSE <<Call("ConfigDataReady", "success", "decide")>>

BiasCorrection ==
  <<Call("ConfigBiasCorrectionTime", "success", "ignore"),
    Call("SelectBiasConfigAxes", "block", "ignore"),
    Call("UpdateBiasCorrection", "block", "decide")>>

\* Write a bias or a scale and read it back.
WriteBack(set, get) == <<Call(set, "success", "ignore"), Call(get, "block", "return")>>

\* AdiImu::config, the registers it writes.
AdiWrites(o) ==
     <<Call("SetOutputDataRate", "always", "decide")>>
  \o DataReady(o.prod)
  \o If(o.sync, <<Call("ConfigSyncClkMode", "success", "decide")>>)
  \o <<Call("SetLineargComp", "success", "decide"),
       Call("SetPPercAlignment", "success", "decide")>>
  \o If(o.biasCorr /\ o.prod # 16500, BiasCorrection)
  \o If(o.acclBias, WriteBack("SetAcclBias", "GetAcclBias"))
  \o If(o.gyroBias, WriteBack("SetGyroBias", "GetGyroBias"))
  \o If(o.scales /\ o.prod = 16495,
          WriteBack("SetAcclScale", "GetAcclScale")
       \o WriteBack("SetGyroScale", "GetGyroScale"))
  \o If(o.prod = 16500, <<Call("ConfigBurstDataFormat", "success", "decide")>>)

\* AdiImu::config, the report it ends with, from which it takes the data rate.
AdiReport ==
  <<Call("GetDevInfo", "always", "return"), Call("PrintDevInfo", "always", "return")>>

\* Mutant of AdiCalls: only an IMU with a sync clock is asked for its rate.
AdiCallsNoRate(o) == AdiWrites(o) \o If(o.sync, AdiReport)

\* AdiImu::config.
AdiCalls(o) == AdiWrites(o) \o AdiReport

\* PPS is disabled, or enabled with the time set and read back; UTCNotBehind
\* stands for the comparison of the two times.
Pps(on) ==
  IF on THEN <<Call("EnablePPSSync", "success", "decide"),
               Call("SetUTC", "success", "decide"),
               Call("GetUTC", "success", "decide"),
               Call("UTCNotBehind", "success", "decide")>>
  ELSE <<Call("DisablePPSSync", "success", "decide")>>

\* ImuBuf::config.
BufCalls(o) ==
     <<Call("SetDioConfig", "always", "decide")>>
  \o Pps(o.pps)
  \o If(o.imuBurst, <<Call("SetPatternImuBurst", "success", "decide")>>)
  \o If(~o.imuBurst /\ o.prod = 16495, <<Call("SetPatternRaw", "success", "decide")>>)
  \o <<Call("SetBufConfig", "success", "decide"),
       Call("GetInfo", "always", "return"), Call("PrintInfo", "always", "return")>>

Calls == IF phase = "adi" THEN AdiCalls(opt) ELSE BufCalls(opt)

-----------------------------------------------------------------------------
Init ==
  /\ opt \in OptionSets
  /\ phase = "adi" /\ step = 1 /\ ok = FALSE /\ reached = FALSE
  /\ failed = {} /\ last = "none"
  /\ decimation \in Decimations /\ rate = Unknown
  /\ timer = NoTimer /\ result = FALSE

\* Mutant of Made: a call is made whatever happened before it.
MadeAlways(c) == TRUE

\* Whether the flow comes to call c.
Made(c) ==
  CASE c.when = "always"  -> TRUE
    [] c.when = "success" -> ok
    [] c.when = "block"   -> reached

\* Mutant of Finish: the step counter is not reset for the next function.
FinishNoReset(value) ==
  /\ phase' = IF value THEN (IF phase = "adi" THEN "buf" ELSE "node") ELSE "done"
  /\ step' = step + 1 /\ reached' = FALSE /\ ok' = value

\* One of the two config functions has returned: false ends the configuration.
Finish(value) ==
  /\ phase' = IF value THEN (IF phase = "adi" THEN "buf" ELSE "node") ELSE "done"
  /\ step' = 1 /\ reached' = FALSE /\ ok' = value

Working == phase \in {"adi", "buf"}

\* The flow passes over a call.
Skip ==
  /\ Working /\ step <= Len(Calls) /\ ~Made(Calls[step])
  /\ step' = step + 1 /\ reached' = FALSE
  /\ UNCHANGED <<opt, phase, ok, failed, last, decimation, rate, timer, result>>

\* Samples per second of an IMU that does not decimate.
BaseRate(prod) == IF prod = 16495 THEN 4250 ELSE 2000

\* The rate that AdiImu::config works out after its report: whole hertz.
DataRate(d) == BaseRate(opt.prod) \div (d + 1)

\* SetOutputDataRate writes a decimation that leaves a rate, PrintDevInfo is
\* followed by the assignment of actual_imu_data_rate_.
RateSteps(name) ==
  /\ IF name = "SetOutputDataRate"
     THEN decimation' \in {d \in Decimations : d < BaseRate(opt.prod)}
     ELSE UNCHANGED decimation
  /\ rate' = IF name = "PrintDevInfo" THEN DataRate(decimation) ELSE rate

CallSucceeds ==
  /\ Working /\ step <= Len(Calls) /\ Made(Calls[step])
  /\ last' = Calls[step].name
  \* an ignored call sets b_success when it succeeds, a read-back does not
  /\ ok' = IF Calls[step].fails = "return" THEN ok ELSE TRUE
  /\ RateSteps(Calls[step].name)
  /\ step' = step + 1 /\ reached' = TRUE
  /\ UNCHANGED <<opt, phase, failed, timer, result>>

\* Mutant of AfterFailure: a failed read-back returns false.
AfterFailureFalse(c) ==
  CASE c.fails = "decide" -> ok' = FALSE /\ step' = step + 1 /\ reached' = TRUE /\ UNCHANGED phase
    [] c.fails = "ignore" -> step' = step + 1 /\ reached' = TRUE /\ UNCHANGED <<ok, phase>>
    [] c.fails = "return" -> Finish(FALSE)

\* Mutant of AfterFailure: the result of a deciding call is only logged.
AfterFailureLogged(c) ==
  CASE c.fails # "return" -> step' = step + 1 /\ reached' = TRUE /\ UNCHANGED <<ok, phase>>
    [] c.fails = "return" -> Finish(TRUE)

\* What the failure of call c does.
AfterFailure(c) ==
  CASE c.fails = "decide" -> ok' = FALSE /\ step' = step + 1 /\ reached' = TRUE /\ UNCHANGED phase
    [] c.fails = "ignore" -> step' = step + 1 /\ reached' = TRUE /\ UNCHANGED <<ok, phase>>
    [] c.fails = "return" -> Finish(TRUE)

CallFails ==
  /\ Working /\ step <= Len(Calls) /\ Made(Calls[step])
  /\ failed' = IF Calls[step].fails = "ignore" THEN failed ELSE failed \cup {Calls[step].name}
  /\ last' = Calls[step].name
  /\ AfterFailure(Calls[step])
  /\ UNCHANGED <<opt, decimation, rate, timer, result>>

\* "return b_success" at the end of either function.
ReturnResult ==
  /\ Working /\ step > Len(Calls)
  /\ Finish(ok)
  /\ UNCHANGED <<opt, failed, last, decimation, rate, timer, result>>

\* The quotient a by b of doubles, cut to an int towards zero.
Cut(a, b) ==
  IF a = Unknown \/ b = 0 THEN Unknown ELSE IF b > 0 THEN a \div b ELSE -(a \div (-b))

\* Mutant of LoopRate: the quotient of two ints, since imu_data_rate_hz is one.
LoopRateOfInts ==
  IF rate = Unknown \/ opt.burst = 0 THEN Unknown ELSE 2 * Cut(rate, opt.burst)

\* The rate of the timer: ros_loop_rate_hz_ is an int.
LoopRate == Cut(IF rate = Unknown THEN Unknown ELSE 2 * rate, opt.burst)

\* The rest of AdiImuBuf::config: advertise the topic and create the timer.
Advertise ==
  /\ phase = "node"
  /\ phase' = "done"
  /\ timer' = IF opt.msgValid THEN LoopRate ELSE NoTimer
  /\ result' = opt.msgValid /\ ok' = opt.msgValid
  /\ UNCHANGED <<opt, step, reached, failed, last, decimation, rate>>

Next == Skip \/ CallSucceeds \/ CallFails \/ ReturnResult \/ Advertise

Spec == Init /\ [][Next]_vars

-----------------------------------------------------------------------------
Names(calls) == {calls[i].name : i \in DOMAIN calls}

Deciding(calls) == {calls[i].name : i \in {j \in DOMAIN calls : calls[j].fails = "decide"}}

Returning(calls) == {calls[i].name : i \in {j \in DOMAIN calls : calls[j].fails = "return"}}

CallNames == Names(AdiCalls(opt)) \cup Names(BufCalls(opt))

TypeOK ==
  /\ opt \in OptionSets
  /\ phase \in {"adi", "buf", "node", "done"}
  /\ step \in 1 .. Len(Calls) + 1
  /\ ok \in BOOLEAN /\ reached \in BOOLEAN
  /\ failed \subseteq CallNames /\ last \in CallNames \cup {"none"}
  /\ decimation \in Decimations /\ rate \in Nat \cup {Unknown}
  /\ timer \in Int \cup {Unknown, NoTimer} /\ result \in BOOLEAN

\* The calls that only read what the devices are.
Reports == {"GetDevInfo", "PrintDevInfo", "GetInfo", "PrintInfo"}

\* The failures so far that decide, of either function.
DecidingFailures == failed \cap (Deciding(AdiCalls(opt)) \cup Deciding(BufCalls(opt)))

\* The two ways in which deciding failures are overlooked: a report that fails
\* returns true, and SetDataReady of the 16495 makes good that ConfigDataReady
\* failed, but no other failure.
Overlooked ==
  \/ failed \cap Reports # {}
  \/ DecidingFailures \subseteq IF opt.prod = 16495 THEN {"ConfigDataReady"} ELSE {}

\* However long ago a deciding call has failed, in this function or in the one
\* before, nothing but the reports is called any more; only failures that are
\* overlooked let the configuration go on (b_success, and "return ret").
NoWriteAfterFailure == [][last' # last /\ last' \notin Reports => Overlooked]_vars

\* A configuration is refused only for a failure that the code decides by, or
\* for a message type it does not know.
RefusedForCause ==
  phase = "done" /\ ~result => ~opt.msgValid \/ DecidingFailures # {}

\* Where failures disappear: a configuration that is accepted has no deciding
\* failures but those that are overlooked.
AcceptedFailures == result => Overlooked

\* adi_imu.h and imu_buf.h on config: "Boolean if successful (true) or not
\* (false)".
TrueMeansSuccessful == result => failed \cap Deciding(AdiCalls(opt) \o BufCalls(opt)) = {}

\* The timer's rate is that of the IMU; it comes from an unset member only if
\* a call failed that returns early, or it is a quotient by a burst count of 0.
TimerRateKnown ==
  timer = Unknown => opt.burst = 0 \/ failed \cap Returning(AdiCalls(opt)) # {}

\* A timer of a known rate reads frames faster than the IMU measures them for
\* every burst of at most two seconds of frames: neither cutting the data rate
\* and then the loop rate to whole hertz, nor an IMU left at its old rate makes
\* it too slow (AdiImuBuf::config: "Make sure the ROS loop rate is greater than
\* (IMU data rate/Burst Count)").
TimerKeepsUp ==
  timer \notin {NoTimer, Unknown} /\ opt.burst \in 1 .. 2 * rate
    => timer * opt.burst * (decimation + 1) > BaseRate(opt.prod)

=============================================================================
