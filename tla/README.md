# Verification of adrd2121_imu_ros

TLA+ models of the ROS driver for the ADRD2121 board and the ADIS164xx/165xx
IMUs behind it, the TLC runs that check them and the TLAPS proofs about the
core. `PROJECT.json` holds the lists a tool can read: components, runs,
mutants, the map from definitions to source lines, findings, hazards, theorems.

## The system

| Part | Source | State it keeps | Operations |
|---|---|---|---|
| `adrd2121_imu_node` process | `src/adrd2121_imu_node.cpp` | the object pointer, `g_shutdown_signal` | start, one of two loops around `ros::spinOnce`, `shutdown()`, SIGINT handler |
| `AdiImuBuf` | `src/adi_imu_buf.cpp` | mode of operation, timer, services, result of the last read | `init`, `config`, `readPubData` (timer), `triggerImuGlobCmd` (service), destructor |
| `ImuBuf`, stream | `src/imu_buf.cpp` | `prev_`, `imu_`, `start_`, `driver_data_count_`, `rollover_count_`, `drop_count_`, `b_first_read` | `startBufferRead`, `readPubBufBurstData`, `validateData`, `publishData`, `stopBufferRead` |
| frame checksum | `src/imu_buf.cpp`, `src/adrd2121_imu_common.cpp`, `include/adrd2121_imu/adrd2121_imu_common.h` | none | byte sum or `crc32_block` in `validateData` |
| `ImuBuf`, board | `src/imu_buf.cpp` | its copy of the mode | `init`, `recoverBoard`, `config`, `getStatus`, `clearFault`, `flashUpdate`, `factoryReset` and their services |
| `AdiImu` | `src/adi_imu.cpp` | parameters, `actual_imu_data_rate_` | `init` (with retries), `config`, `triggerBiasCorrectionUpdate` |
| `bias_estimate_node` | `src/bias_estimate_node.cpp`, `src/imu_state_checker.cpp` | window of magnitudes, `state_`, `prev_state_`, `standstill_begin_` | message callback, `biasEstimateCB` |

The board, the IMU, the vendor library `adi_imu_driver` and roscpp are not in
the repository; they are modelled from how the code uses them: a library call
may fail, and a command that is reported as failed may have been carried out.

How the parts interact: `main` owns one `AdiImuBuf`, which owns an `ImuBuf` and
an `AdiImu` on one device record. A timer reads bursts and publishes; services
stop the capture, do their work, and start it again, which resets some of the
counters. `bias_estimate_node` subscribes to the published messages and calls
the driver's `trigger_imu_glob_cmd`, blocking its only thread meanwhile.

What is hard here: the 16-bit counter of the IMU against 32-bit sums, with
losses and restarts; callbacks and services in any order on one thread, with a
signal or a shutdown of ROS at any time; every library call failing, and failures that are passed
over; a retry loop that drives a board; a flush that races with incoming bytes
on a coarse clock that may be set; decisions on messages that are old or not
there. The list with lines is `hazards` in `PROJECT.json`.

What would make each part correct:

- stream: a subscriber can tell from three counters where a message stands and
  how many frames are missing;
- checksum: what is damaged is refused, what is intact is accepted;
- process: it ends when it must, only when it must, with the board stopped; the
  services it offers fit the mode it runs in;
- configuration: accepted means done, refused means there was a cause, and the
  timer is fast enough for the IMU;
- bring-up: a fault that can be cleared does not keep the node from streaming,
  what is only a warning does not either, and user registers in flash are not
  lost without cause;
- flush: it ends, in time, and leaves nothing behind;
- bias correction: only triggered at standstill, and possible at standstill.

## Modules

| Module | Models | MC module |
|---|---|---|
| `FrameLedger` | abstract: what a subscriber is promised about the counters | |
| `FrameCounters` | burst loop, `validateData`, counters of `publishData`, reset of `stopBufferRead` | `MCFrameCounters` |
| `FrameCheck` | the checksum in `validateData`: byte sum, `crc32_block`, its table | `MCFrameCheck` |
| `NodeLife` | abstract: what clients and the board may rely on over the life of the driver process | |
| `ImuNode` | the driver process from start to exit | `MCImuNode` |
| `DeviceConfig` | `AdiImuBuf::config`, `AdiImu::config`, `ImuBuf::config`, the timer's rate | `MCDeviceConfig` |
| `BoardInit` | `ImuBuf::init`, `recoverBoard`, `AdiImu::init`, the status word | `MCBoardInit` |
| `FlushPort` | the flush loop of `stopBufferRead`, range check of its timeout | `MCFlushPort` |
| `StandstillBias` | `ImuStateChecker` and `BiasEstimate`, from the search for the topic on | `MCStandstillBias` |
| `FrameCounters_proofs`, `FrameWrap_proofs` | theorems about `FrameCounters`: the normal case, and long sessions and gaps | |
| `FrameCheck_proofs`, `ImuNode_proofs`, `DeviceConfig_proofs`, `BoardInit_proofs`, `FlushPort_proofs`, `StandstillBias_proofs` | the theorems about these modules | |

### FrameCounters

Variables carry the code's names without `_data_count_` and `_count_`; `pub` is
the last message, `slot` the index of the burst loop. `FrameValid` is
`validateData` with a matching CRC followed by `publishData`; `FrameRejected` is
an invalid frame or a CRC that does not match; `ReadFails` any failing library
call of the read; `Restart` a successful `stopBufferRead` followed by
`startBufferRead`. The widths 65536 and 2^32 are the constants `CntMod` and
`WordMod`, so that TLC sees rollovers and wraps after a few frames and the
proofs hold for every width. `Message` leaves out what is not a counter. The
history variables say what really happened: `ahead` (frames lost since the last
valid one), `dist` and `got` (frames passed and valid frames since the session's
anchor), `carried` (`drop` when the session began), `hidden` (losses that a
second anchor forgot), `jumped` (a gap was too long for the data counter).

`FrameLedger` promises: position advances by the frames that passed,
`driver_count` by one, and `drop_count` is exactly what was lost, all of it in
the next message - or, after a restart, the larger of that and what the captures
before left in it. Its `Anchor` may happen a second time when the first frame has
number 0; these two are the exceptions the code makes (see findings).

### FrameCheck

A byte is the set of its one bits, and so is the CRC register; `>>` and `^` are
then a shift of the elements and a symmetric difference. The driver's registers
`sum` and `crc` and those of the sender, `dueSum` and `dueCrc`, take in the same
frame, one word per step: the driver's from what arrives, over the positions
`validateData` names, through the table; the sender's from what was sent, over
the positions its checksum protects (`Protected`), by the polynomial division
that defines the CRC. `DivideByte` is that division and is not in the code.
`damage` is the bits that arrive inverted. The words of the 16495 are read
through a `uint16_t*`, lower byte first, as on the little-endian hosts the driver
is built for.

Where `Protected` comes from: for the two products with a sum, from the layouts
the comments of `validateData` quote, which is then a check of the code's
offsets. For the 16495 the quoted layout and the code contradict each other (see
Findings) and nothing in the repository decides between them, so the code's
offset is taken for the sender as well. `IntactAccepted` thus checks the table,
the loop and the byte order for the 16495, not the offset.

`MCTable` is made of all 256 entries of `crc32_tab`, copied as halves of 16 bits
(`Halves`), since TLC's integers end at 2^31. `TableAssumption` compares each with
the polynomial division; a single wrong bit makes it false and the run fail.

`Model` lets product and format be any pair, as the parameters do. Both
properties are about the pairs a product really sends (`Matching`); in any other
the library may hand over any number.

A damaged checksum of a sum arrives as any other number (`Offsets`). What a sum
does not see is left out of the property: two bytes whose changes cancel. A CRC
of 32 bits sees every burst of up to 32 bits, wherever it begins within a byte
(`Confined`).

### ImuNode

`pc` is the place in `main`; `SpinOnce` takes the set of callbacks that are
ready, the callback actions run them in any order, and only then does the loop
test its condition, as `ros::spinOnce` does it. The timer is ready again at any
time after it ran. `capturing` is the board's side of the capture, which the
node cannot see; `trouble` records that the library or the board failed, and
`stopFailed` that the destructor's own stop did, so that `NoOrphanCapture` speaks
of every end, those by an error too. A service call that pauses the capture is
`Paused`; the discarded first burst is part of `StartsTo`.

`ros::ok()` is `rosOk`. It becomes false by the node's own `shutdown()`, or from
outside: `RosStops` is `rosnode kill` or a second node of the same name, at any
point, in init, configuration or a callback as well. roscpp's own threads then
withdraw the services, calls that wait may be dropped, and `spinOnce` takes no
more, while the timer's callback may still run and `main` goes on to its next
test of `ros::ok()`; what it advertises after that is offered to nobody
(`Online`). `killed` remembers it.

`NodeLife` says the same without calls, callbacks and ports: one mode for the
whole service, the services of that mode, which come one by one and go all at once
- with the node, or before it when ROS is shut down (`Kill`) -, an end that has a
cause, and a capture that only a streaming node and the end touch. `Phase` maps
`pc` and the modes of the objects to its phases.

### DeviceConfig

The two functions are sequences of calls built from the parameters. Each call
has a rule for when it is made (always, while `b_success`, within the block of
the call before) and for what its failure does (decide, be ignored, or return).
The history variable `failed` collects failed calls except those whose failure
the code only logs.

A failed call that decides makes `b_success` false, and what follows is skipped;
but `b_success` can become true again. `Overlooked` names the two ways:
`ConfigDataReady` of the 16495 fails and `SetDataReady`, called in the same block
whatever came of it, succeeds (`adi_imu.cpp:253-271`); or a report fails, whose
`return ret` counts as success. `NoWriteAfterFailure` says that no other failure,
of whichever call and however long ago, is followed by a write; `AcceptedFailures`
that no other is in a configuration that is accepted.

Of the registers only `decimation` matters: after the report `AdiImu::config`
works out `actual_imu_data_rate_` (`rate`) from it in whole hertz, and
`AdiImuBuf::config` the timer's rate (`timer`) from that and `buf_burst_count`,
cut to an `int` again. `Unknown` is a number nobody can tell: the member before
it is assigned, or the `int` made from an infinite double. `buf_burst_count` may
be anything, as nothing checks it.

### BoardInit

`pc` is the library call to come. `status` is the set of bits of the status word
that are set. `Infos`, `Warnings` and `Errors` are what the texts of
`getStatusDescription` call a bit; `RecoverMask` and `InitMask` are the two masks
the code tests it with, each written out where the code does. Bits may be set at
any time; clearing a fault clears the errors, unless it is `stuck`. `cause` says
that the running attempt of the recovery has read an error or not detected the
board; each attempt begins without one. That a single failed detection is enough
to reset the registers and write the flash is the code's own condition:
`FlashWriteHasCause` takes it as given.

### FlushPort

`ReadClock`, `Flush`, `CountBytes`, `LoopTest` are the steps of one iteration;
time passes, blocks of bytes arrive and the clock of the host is set between any
two of them. `spent` is the time that has really passed, `Now` what `ros::Time`
shows of it.

### StandstillBias

A tick measures one magnitude, which reaches the node or not. `inbox` is the
subscriber's queue, which drops its oldest message; `request` is how many
messages are handled before the queued service call. The deviation below the
thresholds is "all magnitudes in the window are the same". Ages saturate at
`Hold`, since the code only compares them with 40 s; setting the clock
(`ClockSet`) makes an age any other one, negative ones included. `Initialize`
looks for the topic once, as the node does, and notes its type: `NotedType` and
`SubscribedType` each take it for the other one, as the code does.

## Runs

All runs switch the deadlock check off: the processes end, a frame is checked
once, and the frame counters stop at their bounds.

| Run | Question |
|---|---|
| `frames_restart` | are the counters exact over losses, rollovers and two restarts, and do they implement `FrameLedger`? |
| `frames_wrap` | what remains true when `uint32_t` wraps, or when more frames are lost than the data counter counts, with losses carried over a restart or not? |
| `frame_check` | is a damaged frame refused and an intact one accepted, for every product and format? |
| `node` | read failures, services, exit, recovery mode (`RecoveryUntilTold`), board stopped at exit; does the node end after SIGINT, a shutdown of ROS, a failed read, a lost capture; does it implement `NodeLife`? |
| `config_all` | when is a configuration refused, accepted, what is written after a failure, is the timer's rate known and high enough? |
| `board_up` | when does the node stream, when not, when are registers reset and flash written, does the bring-up end? |
| `flush_port` | does the flush end, in time, with an empty port, on a clock that is set? |
| `bias_rest` | is a trigger on complete data safe, is a reported standstill one, even with messages that still wait in the queue, is rest recognised, whichever type the topic has? |
| `frames_balance`, `node_shutdown`, `config_result`, `bias_trigger` | one statement each of a comment or a document that the code does not keep; see findings |

### Bounds, and why they are enough

- `frames_*`: a data counter of 4 values rolls over several times within
  `MaxDist` frames (14, and 26 in `frames_wrap`); `MaxGap` is below `CntMod`
  (the normal case) except in `frames_wrap`, where it is half as large again;
  `WordMod` is out of reach except in `frames_wrap`, where it is passed more
  than once (12 values), with one restart. Two restarts give every combination
  of a carried and a new loss. The proofs remove these bounds.
- `frame_check`: the real frame of 40 bytes and the real table, entry by entry; a frame of zeroes
  and one of 40 different bytes; damage of up to four bytes in a row at every
  place, each byte by none, one or three bits, and bursts of up to 32 bits that
  end in a fifth byte; a damaged sum that is off by 1,
  256 or 65535. The proofs are for every frame, every damage and every table.
- `node`, `node_shutdown`: two products stand for the three, as only the bias
  correction command distinguishes them. Nothing else is bounded.
- `config_all`: independent blocks that have the same shape are switched
  together; burst counts of 0, 1 and 4; decimations that leave all of the rate,
  a few hertz, one, and less than that (0, 999, 1200, 9999).
- `board_up`: five failing calls are one more than there are attempts; the status
  begins with no bit, each bit alone, all, or all that are no errors; two bits
  are set after the start, of a warning, an error and the last error of the mask.
- `flush_port`: timeouts at both ends of the range, outside of it, a full second
  and not; clock steps of 500 ms; the clock is set twice, by -1.5 s or +2 s; two
  blocks in flight.
- `bias_*`: a window of 2 and a queue of 2 are shorter than the hold of 3, as
  10 messages and 1000 messages at IMU rates are shorter than 40 s; the clock is
  set once, to make any age.

### Fairness

- `ImuNode`: the process runs (weak fairness of `Main`), and while it spins the
  timer is taken again and again (strong fairness of a spin with the timer: a
  ROS timer is rescheduled after every run and the loop does not block). SIGINT,
  a shutdown of ROS and services are never required to come.
- `BoardInit`: the bring-up runs on. Faults and failures are bounded in number.
- `FlushPort`: the loop runs and the clock advances; nothing has to arrive, and
  the clock is set a bounded number of times.
- `StandstillBias`: the wait for the topic ends, measurements go on, callbacks
  are run when they can be, and the blocking service call returns.
- `FrameCounters`, `FrameCheck` and `DeviceConfig` have safety properties only.

## Findings

1. `frames_balance`: `stopBufferRead` does not reset `drop_count_`, so after a
   service call the counters of messages do not add up, and losses go uncounted,
   until as many new losses have happened as there were old ones.
2. `node_shutdown`: without hardware `main` goes on after `shutdown()` and reads
   through a null pointer.
3. `config_result`: `return ret` in functions that return `bool` turns errors
   into success.
4. `bias_trigger`: a bias correction can be triggered on messages that are out of
   date, or, since `state_` is not initialised and `standstill_begin_` is zero,
   before any message was evaluated.

Noted without a run:

- a session whose first frame has data count 0 is anchored twice
  (`driver_data_count_ == 0`, `imu_buf.cpp:656`, is meant to say "for the first
  time"); losses between the first two frames disappear. `FrameLedger` allows it,
  and `hidden` counts them;
- when the report after the configuration of the IMU fails, the read timer gets
  its rate from `actual_imu_data_rate_`, which was never assigned
  (`adi_imu_buf.cpp:185`); `TimerRateKnown` states that this and a
  burst count of 0 are the only ways;
- `recoverBoard` makes four attempts for `try_count = 3` (`imu_buf.cpp:1117`);
- the flush cuts the elapsed time to whole seconds (`imu_buf.cpp:777`), so a
  timeout of 500 ms lasts a second. `GivesUpInTime` allows for it;
- `stand_still_secs` grows while the IMU moves (`imu_state_checker.cpp:164`);
  `ReportedStandstillHeld` is about reports of STANDSTILL;
- the last branch of `recoverBoard` (lines 1165-1169) cannot
  be reached, because `b_success` holds whenever the error is gone;
- `imu_state_checker.cpp:215` takes each of the two types of the IMU topic for
  the other one, and so does line 31. The mistakes cancel (`RestIsRecognised`
  breaks when one of them is corrected), but a topic of a third type is
  subscribed to as `sensor_msgs/Imu`, and never delivers a message;
- `bias_estimate_node` looks for the topic once, 20 s after its start, and exits
  if the driver is later than that;
- at a data rate of 1 Hz a burst count of 3 or more gives a loop rate of 0 Hz
  (`adi_imu_buf.cpp:185`, an `int`), against the comment at line 183;
  `TimerKeepsUp` excludes bursts of more than two seconds of frames for it;
- an ADIS16470 with the default `imu_data_format` (32-bit) has no checksum
  computed (`imu_buf.cpp:540`): `calculated_crc` stays zero and practically every
  frame is refused. README.md:331 says that the format of its bursts is fixed to
  16 bits; nothing in the code enforces it;
- the comment on the burst of the 16495 (`imu_buf.cpp:584-590`) lists
  `SYS_E_FLAG` as the third word of 19, at byte 4, while the CRC is taken over 15
  words from byte 6 on. The two fit if the burst begins with one more word, as
  the 40 bytes that are logged suggest; the model takes the code's offset for the
  sender too, so it does not decide which of the two is right;
- the comment at `imu_buf.cpp:700` says that `validateData` always returns true,
  and it does not.

## Proofs

`FrameCounters_proofs` proves for every value of the constants:

- `TypeCorrect`: the type invariant, from `FrameAssumption` alone.
- `PositionCorrect`, `DropCorrect`: the properties of `frames_restart`, and
  `MessagesInStep`, what two messages in a row have to do with each other, under
  `Faithful`: fewer than `CntMod` frames are lost in a row, and no session is
  long enough to wrap `WordMod`.
- `ImplementsLedger`: `Spec` implements `FrameLedger` under `Faithful`, with any
  number of restarts.

The invariants are not inductive by themselves. `IndInv` adds what ties the
counters to the frames that passed: `Position` (`rollover * CntMod + prev` is
the position of the last valid frame), `ImuAhead` (the IMU is `ahead` frames
past `prev`, fewer than `CntMod`, so that a smaller count always and only means
one rollover), `NotAnchored` and `ZeroAnchor` (the states around the first
frame, where `driver = 0`), and `CarriedBounded` (sums stay below `WordMod`).
The main step is `CountedFrame`: a frame `ahead + 1` further on rolls over
exactly if its count is below `prev`, hence `imu` is the new position; then
`driver + drop` lags behind it by exactly the losses not yet counted.
`PubCurrent` carries this to messages, `LastDrop` what a restart carries over.
The ledger's proof maps each action to `Lose`, `Anchor`, `Publish`, `Restart` or
a stutter.

`FrameWrap_proofs` proves the properties of `frames_wrap`, for every width, gap
and length and for any number of captures: `WrappedCorrect`, `DropRecovers`,
`NothingInvented`. `Behind` says where the IMU is relative to `prev`, up to
whole rounds of the data counter. Without a long gap (`Wrapped`) the position is
`r * CntMod + prev` for an `r` that the rollover count is the remainder of;
`CutRollovers` shows that cutting it before the multiplication does not matter.
`DropStepSafe` is the arithmetic of the update of `drop_count` when both sides
are known only modulo the word: the new value is at most what was missed, or it
is the old one, and nothing is left out if the quotients agree. So in every
capture `drop_count` is at most what was missed there, or exactly what was
carried into it (`Carrying`: before the first message it is what was carried).
With long gaps (`Short`) the position lags by whole rounds and never leads.

`FrameCheck_proofs`: `CheckTypes`, `FrameDamageRefused`, `FrameIntactAccepted`,
for every polynomial with a constant term whose table is `DivideByte` of each
byte (`TableAssumption`, which TLC evaluates for the table of the source). The
division is linear (`DivideByteXor`), never maps a register with a bit set to
zero (`DivideByteSome`, from the constant term), and moves the upper three bytes
down (`DivideByteShift`); hence one step through the table is eight divisions
(`TableDivides`), and the two registers agree as long as no byte was damaged.
From the first damaged byte on, `CrcRelated` says that their difference and the
damage of the next four bytes (`Ahead`) do not cancel; at the checksum, that is
the comparison. A burst that ends in a fifth byte needs more: such a burst
begins in the byte the register is about to meet, and the fifth byte's damage
lies below the first one's lowest bit (`Window`, `LowestBit`). Eight divisions
leave a bit that is at least as high as that one (`DivideByteLead`), so what
comes into view with the fifth byte (`Coming`) does not cancel it (`FirstByte`).
For the sum, `SumByte` keeps the difference a damaged byte has made, which is
less than 256.

`DeviceConfig_proofs`, for every set of parameters: `ConfigTypes`,
`RefusalsCaused`, `LostFailures`, `WritesStop`, `RateSources`, `TimerFast`. All
that is needed of the lists of calls is `Chain`: a call that is made although
`b_success` is false depends on its block, whose call before was ignored or is
`ConfigDataReady`, or it is a report. `FailureInv` ties `b_success` to the
failures: `FalseHasCause` says that it is false only after one that decides, and
`GraveStops` that after one that is not overlooked it is false, and stays so,
because the only call that could mend it, `SetDataReady`, is then not the next
(`Mending`). So all that is still made is reports (`GraveMakesReports`).
`TimerFast` is arithmetic (`WholeHertz`: a quotient of one or more, cut to a whole
number, is more than half of it) and `RateTrue`: the rate is worked out after the
last write of the register.

`BoardInit_proofs`, for every number of failing calls and of faults:
`BringUpTypes`, `CleanStream`, `FlashKept`, `RecoveryCaused`, `Recovers`. `Masks`
shows that both masks are the bits that are called errors. `FlashKept` is about
steps: `FlashReason` says that the cause is known, in the same attempt, before the
first of the three commands. The last two rest on
`AttemptsPaid`: as long as a clearable fault is there, every attempt so far had
a call that failed (`fails >= TryCount - tries`), so that a loop that ends with
the fault has seen more than three. `BringUpBounded` is what `ComesUp` rests on:
`CallsLeft`, at most 26, falls with every library call and stays as it is when a
fault appears, so only a call that never returns can keep a node from its mode.

`ImuNode_proofs`, for every set of products: `NodeTypes`, `ServicesFit`,
`ReadFailures`, `BoardStopped`, `ExitCaused`, `RecoveryStays`. `Together` says
that ROS ends with the object, or before it from outside; `Advertised` what is
advertised where main is, as long as ROS runs; `CaptureKnown` that after the first
read the capture is on unless something has failed, which is what the services
could break; `PortKnown` that the destructor of a streaming node can stop the
board, and `Stopped` that, once the object is gone, it has, or the board refused;
`EndKnown` that whatever leads to the end - `ros::ok()` false included - has left
a reason that no later step takes back.

`ImplementsLife` maps every step of the process to one of `NodeLife` or a
stutter. It needs three invariants more: `Fit` (a node that serves as STREAMING
has a valid message type), `Taken` (the callbacks of a round are of services the
mode has, `NodeServices`, offered still or not, or the timer) and `Gone` (without
ROS nothing is offered). `EndsInSteps` is the safety half of `SignalEndsNode` and
`FailedReadEndsNode`: once SIGINT has come, ROS was shut down or a read has
failed, `StepsLeft`, at most eight, falls with every step but the orders to end
themselves, and none of the three is forgotten (`ReadOver`). What remains for
fairness is only that the process takes steps.

`FlushPort_proofs`, for every parameter, clock step and way to set the clock:
`FlushTypes`, `InTime`, `PortLeftEmpty`. `WholeSeconds` is what the cut to
seconds does to a time.

`StandstillBias_proofs`, for every window of at least two, every queue and hold
time: `CheckerTypes`, `TriggerSafe`, `ReportHolds`. The invariant `Held` says that
at standstill, with no change waiting in the queue, the standstill began no
earlier than the last change was measured. It needs `Newest` (the newest messages,
those that wait and behind them the last one evaluated, are what was measured
since the last change): a change that is evaluated is then in the window next to
the magnitude before it, which is MOVING (`ChangeEvaluated`). Neither theorem asks
for an empty queue; they except the time in which the change itself still waits
in it, when the code cannot know.

The assumptions are those of the constants (`FrameAssumption`,
`TableAssumption`, `OptionAssumption`, `ProdAssumption`, `BoundAssumption`,
`FlushAssumption`, `StandstillAssumption`) and `Faithful` where
it is named. Every safety property of the passing runs is a theorem.

Only model-checked: liveness (`SignalEndsNode`, `FailedReadEndsNode`,
`StoppedStreamEndsNode`, `ComesUp`, `FlushEnds`, `RestIsRecognised`), since fairness
is out of the prover's reach. For the first two and for `ComesUp` the bound on
the number of steps is proved, so that only "a step is taken" is left.

## Not modelled

- Parameter loading, except the range check of the flush timeout: it reads
  values with defaults and passes them on.
- Formatting: `BUFDIOtoString`, the wording of the status texts, time stamps,
  debug output.
- The scaled values of messages and the registers that only hold settings: no
  decision of the program depends on them.
- SIGTERM and SIGKILL: the node has no handler for them, the process ends at
  once, and nothing of its code runs any more.
- What services answer: a call that could not start the capture again answers
  with success (`imu_buf.cpp:1016`), and `StoppedStreamEndsNode` is about what
  becomes of the capture.
- Movements whose messages never reach `bias_estimate_node`: the node cannot see
  them, and `FreshTriggerIsSafe` and `ReportedStandstillHeld` except them.
- A driver that is started again with another message type while
  `bias_estimate_node` runs.
- Tests and launch files, which hold no logic of the program.
- The modules are checked one by one; what one leaves open (whether a frame's
  checksum matches, whether a configuration succeeds, when a capture is
  restarted) is a free choice of either outcome in the other, so that each holds
  for whatever the others do.

## Plan

Done: the modules above, with every safety property of the passing runs proved;
`FrameCounters` implements `FrameLedger` and `ImuNode` implements `NodeLife`,
and the counters' properties under wraps hold in every capture. Left, most
important first:

1. Refinement between modules: `BoardInit` and `DeviceConfig` implement the
   choices `InitStreaming` and `ConfigDone`/`ConfigFails` of `ImuNode`.
2. Composition: `ImuNode`'s callbacks driving `FrameCounters` (a restart only
   through a service, a failed read ending the node), and `StandstillBias` calling
   the service of `ImuNode`.
3. A bound on the steps of the flush and of the search for the topic, as there
   is for the bring-up and the end of the node.
