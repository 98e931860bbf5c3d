----------------------------- MODULE FlushPort -----------------------------
(***************************************************************************)
(* The end of ImuBuf::stopBufferRead (imu_buf.cpp): once StopCapture has   *)
(* returned, the serial port is flushed until it is seen empty or          *)
(* clear_buffer_timeout_ has passed.  Bytes sent before the board stopped  *)
(* still arrive, and a board whose stop command failed keeps on sending.   *)
(* Time advances in steps of Tick milliseconds between any two steps of    *)
(* the loop.  ros::Time is the clock of the host, which may be set forward *)
(* and back meanwhile.                                                     *)
(***************************************************************************)
EXTENDS Integers

CONSTANTS
  Params,    \* values of the parameter clear_buffer_timeout, in milliseconds
  Tick,      \* step of the clock, in milliseconds
  MaxTime,   \* bound of the clock
  Shifts,    \* by how much the clock may be set, forward or back
  MaxSets,   \* bound: how often the clock is set
  MaxFlight, \* bound: blocks of bytes on their way when the flush begins
  PortSize   \* bound: blocks the port of the host holds

ASSUME FlushAssumption ==
  /\ Params \subseteq Nat
  /\ Tick \in Nat \ {0} /\ MaxTime \in Nat /\ MaxTime >= 3000 + Tick
  /\ Shifts \subseteq Int /\ MaxSets \in Nat
  /\ MaxFlight \in Nat /\ PortSize \in Nat \ {0}

VARIABLES
  timeout,  \* clear_buffer_timeout_
  pc,       \* next step of the loop
  spent,    \* milliseconds that have passed since start_time
  shift,    \* by how much the clock has been set since then
  size,     \* buffer_size
  reached,  \* b_clear_timeout_reached
  sending,  \* the board still captures: StopCapture failed
  flight,   \* blocks on their way
  port,     \* blocks in the input buffer of the port
  late,     \* history: a block came after the last FIONREAD
  readAt,   \* history: when the iteration read the clock
  sets,     \* history: how often the clock was set
  forward,  \* history: it was set forward
  back      \* history: it was set back

clock == <<spent, shift, sets, forward, back>>
env   == <<sending, flight>>
vars  == <<timeout, pc, clock, readAt, size, reached, env, port, late>>

-----------------------------------------------------------------------------
\* Mutant of Clamp: the parameter is used as it is.
ClampNot(p) == p

\* ImuBuf::loadParams: a timeout out of range is replaced by the default.
Clamp(p) == IF p < 500 \/ p > 3000 THEN 500 ELSE p

Init ==
  /\ timeout \in {Clamp(p) : p \in Params}
  /\ pc = "clock" /\ size = 0 /\ reached = FALSE
  /\ spent = 0 /\ shift = 0 /\ readAt = 0
  /\ sets = 0 /\ forward = FALSE /\ back = FALSE
  /\ sending \in BOOLEAN /\ flight \in 0 .. MaxFlight
  /\ port \in 0 .. PortSize /\ late = FALSE

\* What the clock shows, counted from start_time.
Now == spent + shift

TimePasses ==
  /\ pc # "done" /\ Now < MaxTime
  /\ spent' = spent + Tick
  /\ UNCHANGED <<timeout, pc, shift, sets, forward, back, readAt, size, reached, env, port, late>>

\* Someone, or a time service, sets the clock of the host.
ClockSet ==
  /\ pc # "done" /\ sets < MaxSets
  /\ sets' = sets + 1
  /\ \E d \in Shifts : /\ shift' = shift + d
                       /\ forward' = (forward \/ d > 0)
                       /\ back' = (back \/ d < 0)
  /\ UNCHANGED <<timeout, pc, spent, readAt, size, reached, env, port, late>>

\* A block arrives at the port.
Arrive ==
  /\ sending \/ flight > 0
  /\ port < PortSize
  /\ flight' = IF sending THEN flight ELSE flight - 1
  /\ port' = port + 1
  /\ late' = TRUE
  /\ UNCHANGED <<timeout, pc, clock, readAt, size, reached, sending>>

\* Mutant of DurationMs: a negative duration is converted to unsigned.
DurationMsUnsigned(t) == IF t < 0 THEN 2147483647 ELSE (t \div 1000) * 1000

\* duration_ms: the seconds are cut to an int, towards zero, before they are
\* multiplied.
DurationMs(t) ==
  IF t < 0 THEN -(((-t) \div 1000) * 1000) ELSE (t \div 1000) * 1000

\* current_time is read and compared with the timeout.
ReadClock ==
  /\ pc = "clock"
  /\ readAt' = spent
  /\ IF DurationMs(Now) < timeout THEN pc' = "flush" /\ UNCHANGED reached
     ELSE pc' = "test" /\ reached' = TRUE
  /\ UNCHANGED <<timeout, clock, size, env, port, late>>

\* tcflush(TCIFLUSH).
Flush ==
  /\ pc = "flush"
  /\ port' = 0 /\ pc' = "count"
  /\ UNCHANGED <<timeout, clock, readAt, size, reached, env, late>>

\* ioctl(FIONREAD).
CountBytes ==
  /\ pc = "count"
  /\ size' = port /\ late' = FALSE /\ pc' = "test"
  /\ UNCHANGED <<timeout, clock, readAt, reached, env, port>>

\* Mutants of Again: the timeout does not end the loop; one flush is enough.
AgainRegardless == size > 0
AgainNever == FALSE

\* The condition of the do-while.
Again == ~reached /\ size > 0

LoopTest ==
  /\ pc = "test"
  /\ pc' = IF Again THEN "clock" ELSE "done"
  /\ UNCHANGED <<timeout, clock, readAt, size, reached, env, port, late>>

Loop == ReadClock \/ Flush \/ CountBytes \/ LoopTest

Next == Loop \/ TimePasses \/ ClockSet \/ Arrive

\* The process runs and time passes; nothing has to arrive.
Spec == Init /\ [][Next]_vars /\ WF_vars(Loop) /\ WF_vars(TimePasses)

-----------------------------------------------------------------------------
TypeOK ==
  /\ timeout \in 500 .. 3000
  /\ pc \in {"clock", "flush", "count", "test", "done"}
  /\ spent \in Nat /\ shift \in Int /\ readAt \in 0 .. spent
  /\ size \in 0 .. PortSize /\ reached \in BOOLEAN
  /\ sending \in BOOLEAN /\ flight \in 0 .. MaxFlight
  /\ port \in 0 .. PortSize /\ late \in BOOLEAN
  /\ sets \in 0 .. MaxSets /\ forward \in BOOLEAN /\ back \in BOOLEAN

\* The next full second at or after t.
NextSecond(t) == ((t + 999) \div 1000) * 1000

\* In the time that really passes, only a clock set forward makes the flush
\* give up before its timeout, and only a clock set back makes an iteration
\* begin after the full second the timeout falls in (stopBufferRead,
\* duration_ms).  The README gives the timeout in milliseconds; the code keeps
\* whole seconds.
GivesUpInTime ==
  /\ reached /\ ~forward => readAt >= timeout
  /\ pc \in {"flush", "count"} /\ ~back => readAt < NextSecond(timeout)

\* A flush that ends by itself leaves nothing in the port but what came after
\* it had looked: bytes between tcflush and FIONREAD are not left behind.
NothingLeftBehind == pc = "done" /\ ~reached /\ port > 0 => late

\* The flush ends although the board keeps on sending, and although the clock
\* is set back, as long as that comes to an end.
FlushEnds == <>(pc = "done")

=============================================================================
