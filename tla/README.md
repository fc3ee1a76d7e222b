# Verification of the DER26 ECU firmware

The repository holds the firmware of the ECU of a Formula SAE electric car. It reads the driver's
pedals, takes power authority from the AMS (the battery's controller), sends torque commands to the
CM200 inverter over CAN, and decides when the inverter has power and when the shutdown circuit is
closed. This directory holds TLA+ models of its control logic, TLC configurations that check them on
small instances, and TLAPS proofs of their main properties for every value of the constants.

`PROJECT.json` lists components, runs, seeded faults, findings, hazards and theorems, and maps every
definition to the source lines it stands for. Line numbers below are those of `Core/Src` unless a
document is named.

## 1. The system

FreeRTOS tasks on one core share one application record (`app_data_t`, `app.h`) with each other and
with interrupts. A critical section masks the CAN interrupts, so in the models it is one step; what
lies between two critical sections interleaves. Priorities: error 17, RTD 15, CAN 14, APPS 10, BPPC 8,
BSE 7, CLI 6, accelerometer 5, dashboard 4, cooling 3, log and data logger 2.

| component | state it keeps | operations | talks to |
|---|---|---|---|
| CAN transmit path: `canbus_task.c`, `canbus.c`, callbacks in `stm32f7xx_it.c` | one-slot queue, three masks of mailboxes, "outcome unknown" latch, rolling counter, command history | take the newest request, wait for the transmitter, commit, wait, abort, reconcile, note; TXOK, abort and error callbacks | APPS task (queue), bxCAN, CM200 |
| Torque request and commit: `apps_task.c`, `canbus_task.c`, `ecu_torque_clamp.c` | unlock count, slewed request, overruns, the contract, committed torque and its transition | snapshot, slew, clamp, publish; verify, commit, note | flags of all tasks, AMS authority, CM200 feedback |
| AMS power consumer: `ams_power_consumer.c`, cache in `ams.c` | staged bundle, streak, authority in force, advisory data, cached copy | ingest, invalidate, the getters, refresh | CAN receive interrupt, error task, APPS and CAN tasks |
| Error task: `error_task.c`, supervisor and filters in `ecu_safety.c` | filters of the fault lines, MTR_EN and Cascadia_ON with their ticks, supervisor latches, trip pulse | one pass per 10 ms | every flag; drives power and Firmware_OK |
| RTD task: `rtd_task.c`, `ecu_rtd_step` | mode, buzzer tick, TSAL and OK filters | one pass per 20 ms | reads flags of the error task, requests its trip pulse |
| CM200 driver: `cm200.c` | command history, counter and echo correlation, validity and age of frames, power-on timer, fault words | parse, invalidate, note a command, update stale, the verdicts | CAN receive interrupt, CAN task, error task |
| AMS driver: `ams.c` | compact frames and their ages, sequence fault, diagnostic frame of the current, logger fragments | parse, invalidate, update stale, torque gate | CAN receive interrupt, error, APPS and CAN tasks |
| Residual monitor: `ecu_current_residual_monitor.c` | source epoch, settling, persistence, fault and latch | update | CAN task |
| Pedals and brake: `apps_task.c`, `bse_task.c`, `bppc_task.c` | plausibility timers, pedals as published, BPPC latch | one pass each | each other, RTD task, flags |
| Cooling: `cool_task.c`, `cooling_control.c` | startup, trip and clear counts | one pass | display only |
| Data logger: `ecu_data_logger.c` | receive ring, one-slot request, session of four files, error count | put (interrupt), request (CLI), task cycle | SD card service, CLI |
| SD card service: `sdcard_service.c` | recursive mutex, mounted flag, FatFs's volume and drive table | init, mount, unmount, test, lock | data logger, CLI |

### What is hard here, and what correctness means

* **Transmit path.** A frame's outcome may come late, come while an abort is under way, or never. The
  inverter only follows an unbroken rolling counter, so the ECU's history and counter must be what the
  inverter received, whatever deadlines and errors occur.
* **Torque.** A command is computed from one snapshot, published later, and sent later again; authority
  may go in between, and the APPS task may stop. A torque nobody allows any more must not be sent, and
  one already sent must be replaced within a known time.
* **Power authority.** Four frames that share a four-bit counter become one authority, over a bus that
  loses, repeats and damages frames. Nothing but the counter and time windows holds a bundle together.
* **Shutdown path.** Latches, filters, a staged power-up and a trip pulse interact over many periods and
  across two tasks, one of which interrupts the other between any two reads.
* **CM200 feedback.** The ECU concludes from a counter and an echo, both lagging and both cyclic, that
  the inverter follows it. It must not trust one that does not, and must not blame one that does.
  Ages, a power-on timer and fault words come from the same frames; a restart must show, lost frames
  must not pass for good ones, and the task that ages them does not hold the interrupt off for long.
* **Pedals.** Three tasks of different periods and priorities read each other's last values; a failed
  reading, or one published half a pass early, must neither hide a conflict of brake and throttle nor
  pass for a brake the driver pressed.
* **AMS frames and the residual monitor.** A current, the frame that says when it was sampled and the
  prediction it is compared with come at three different times, and flags are aged by another task than
  the one that reads them.
* **Data logger and SD card.** An interrupt, a task and the CLI share a ring and a file system without
  common locks; the card may fail or lose power at any write. The logger has to stop on a dead card,
  obey a stop, and start again by itself.

`hazards` in `PROJECT.json` lists these in detail, each at the line where it bites, with the properties
that cover it, or the reason why none does.

## 2. Modules

| module | models | composed of |
|---|---|---|
| `CommandChannel` | abstract: what the transmit path promises about CM200 commands | |
| `CanTx` | the transmit path, in detail | implements `CommandChannel` |
| `Cm200Commands` | the CM200 driver's counter, echo and command history, with an inverter | uses `CommandChannel` |
| `PowerConsumer` | AMS bundles, consumer, cache | |
| `TorquePath` | APPS task, clamp's promise, queue, CAN task, outcome, in ticks | one frame at a time, as in `CanTx` |
| `PowerSequence` | the error task, for any verdict on the CM200 | |
| `Cm200Feedback` | the CM200 driver's frames, ages and timer, and a CM200 the outputs switch | implements `PowerSequence` |
| `ReadyToDrive` | the RTD task, for any sample of its inputs | |
| `DriverInputs` | the APPS, BPPC and BSE tasks | implements `ReadyToDrive` |
| `Shutdown` | error and RTD tasks on the scheduler | extends `PowerSequence`, implements it and `ReadyToDrive` |
| `AmsDriver` | compact frames, torque gate, residual monitor | |
| `DataLogger` | logger task, SD card service, CLI, card, FatFs's part | |
| `MCCanTx`, `MCPowerConsumer` | symmetry of mailboxes and of frame slots | |
| `*Proofs` | inductive invariants and theorems | |

Definitions named "faulty form" are plausible bugs. Each property is shown to be violated when the
definition of the code is replaced by one of them (`mutants` in `PROJECT.json`).

**CanTx.** `pc` is where `canbus_task_fn` stands; `pending`, `complete`, `aborted` and `uncertain` are
`canbus_t`; `box`, `rqcp` and `abrq` are bxCAN's mailboxes, `inverter` the last command received. A
critical section is one action (`Enqueue`, `PollComplete`, `LatchUncertain`); callbacks are actions
of the interrupt, and the error callback's abort, a read-modify-write of `CAN_TSR`, is separate from the
test before it. Deadlines may expire at any poll that does not find its condition. The contents of a
command, the clamp's decision, are a choice between the requested torque and zero.

**Cm200Commands.** `Offer`, `Deliver`, `Drop`, `Close` and `Note` are the actions of `CommandChannel`;
`Note` is `cm200_note_command_tx`. `ReceiveStates` and `ReceiveTimer` are `cm200_parse_can_frame` for
0x0AA and 0x0AC. The inverter is external: it takes a command only with the counter it expects, and
may be left expecting any counter by an earlier sender, as the comment at `cm200.c:188` says.

**PowerConsumer.** `bundle` and `wire` are the AMS and the bus; `stage`, `streak`, `last`, `active`,
`advisory` are `der26_power_consumer_t`; `cache` is the copy in `ams_t`. The data of a frame is the
number of its bundle, which the code cannot see and the properties can.

**TorquePath.** `AppsSnapshot` and `AppsPublish` are the two ends of a cycle of `apps_task_fn`;
`Receive` to `Completed` follow the loop of `canbus_task_fn`. The CAN task has the higher priority and
polls without sleeping for a mailbox (`canbus_wait_tx_ready`), so the APPS task runs only in the states
of `CanSleeps`. The calibrated current model is the predicate `Fits`: a torque, and for a rise its
transient, is within the limit. Throttle is never negative, so there is no reversal.

**PowerSequence, ReadyToDrive, Shutdown.** A step is a period of the task and ticks are counts of
periods, up to the largest the code compares. Lines, flags and the CM200's verdict change in any way
from period to period. `Shutdown` splits a pass of the RTD task into wake and rest: the error task may
come in between, and the fault flags are then a mixture of before and after. The pass reads each
flag once; `MayFindClear` and `MayFindFault` say which mixtures there are. A torn pass is still a pass of
`ReadyToDrive` and an error task on the scheduler still one of `PowerSequence`: what is proved of either holds here. After a power removal a
CM200 that comes back has its timer below the one the driver holds, which is a fault until a reset (section 6):
`cut` records that, so that `Shutdown` does not promise a second power-up the code does not give.

**Cm200Feedback.** `ReceiveTimer`, `ReceiveState` and `ReceiveMalformed` are what the interrupt does with
a good and a malformed required frame; `Supervision` is `cm200_update_stale` and a whole pass of the error task,
whose verdict is now computed from the frames. The code takes the time inside the critical section
(`error_task.c:85-89`), so aging is one step and no frame is younger than the check. The CM200 is
external: it may restart while powered, loses its timer with its power, and may fall silent or hang.

**DriverInputs.** `due` holds the tasks that have not ended their pass, `late` those of them that had not at the
last tick; a task runs only when no task of a higher priority is due. BPPC may be preempted between reading
the pedals and writing its verdict, BSE between its fault and its brake, and BSE may wait for BPPC or for
`adc3_mutex`, which cooling takes too, over a tick; what is late at a tick ends before the next. The error task takes a request
within a tick, its period. A sample of the RTD task is what the others have published by then; each pass of RTD
is a step of `ReadyToDrive`, so its theorems hold here (`DriverImplements`).

**AmsDriver.** `ReceiveCompact`, `SendElectrical`, `SendDiagnostic` and the losses are what the receive interrupt
makes of each frame; `ErrorTick` is `ams_update_stale` and the flag the error task takes from it; `CanPass` is the
feeding of the monitor in the CAN task with `ecu_current_residual_monitor_update`, and `Gate` what
`safety_gate_valid_locked` asks of the two. `frame`, `current`, `diag` are `ams_t`; whether a current lies in
the predicted interval is a choice at each comparison. The AMS sends a current and then its diagnostic frame,
either of which may be lost, and may change the source epoch with any of them.

**DataLogger.** `pc` is where the logger task stands between two times it takes or gives back the mutex
(`owner`); `request` is the one slot the CLI writes. `file` has FatFs's `FA_MODIFIED`, `FA_DIRTY` and `err` of a file, and `stale`
says that its volume has been mounted anew, on which `validate` refuses every operation. `drive` is
`is_initialized` of FatFs's drive table with the driver's `Stat`. The four files are created one by one, with
the card and the power free to fail in between. `text` stands for the decoded and the event file, `raw` for the raw
one. `deadFor` and `staleFor` are history: for how many cycles in a row a session had records or rows to write and
no card for them, and for how many its files have been stale.

## 3. Runs

Times are on two cores.

| run | question | size |
|---|---|---|
| `cantx` | Do ownership, history and counter hold, does the path implement the channel, does every wait end, does silence of the APPS task remove torque? | 536 000 states, 2 min |
| `cm200_commands` | When exactly is a following inverter blamed, does torque go only to one in step, is a deaf one found out? | 5.4 million, 130 s |
| `cm200_feedback` | Is power earned, does silence end it, does Firmware_OK need it, do latches hold -- over real frames; does every good frame count, is every restart seen? | 586 000, 40 s |
| `power_consumer` | Is authority one bundle's, of the right age, recovered only after two, and the cache honest? | at most 12 ticks |
| `torque_path` | Does the newest contract win, is no torque sent late, how long may the inverter exceed the limit? | 4.4 million, 115 s |
| `driver_inputs` | Does a conflict of the pedals end torque and drive, a lasting split of the brake sensors become a fault, is drive started only deliberately and with the brake seen? | 1.7 million, 110 s |
| `ams_driver` | Does torque pass only on fresh frames, when may a current count twice, what suspends the monitor? | 2.3 million, 100 s |
| `shutdown` | Does each loss of drive open the circuit, does drive end with power, do both tasks recover? | 271 000, 100 s |
| `data_logger` | How much can a session lose that has something to write in every cycle, is a stop ever forgotten, is a new session really new, does the automatic start recover? | 529 000, 110 s |
| `cantx_lost_outcome`, `power_sequence_loss`, `logger_dead_card` | the findings of section 6 | stop at the violation |

### Bounds

* `cantx`: three mailboxes, as bxCAN has, interchangeable because any free one is filled; a counter of
  three values tells repeated, next and skipped apart; zero and one torque.
* `cm200_commands`: mismatch limit 2 (3 in the code) and counter modulus 5 (16), the smallest for which
  a frozen counter is found before it fits again: `(MismatchLimit + Period) * Burst + 1 < CounterMod`,
  which the code's values meet with one command to a broadcast, and with up to three
  (`(3 + 1) * 3 + 1 < 16`). Nothing bounds how many
  broadcasts in a row come before the note: both are sent at 100 Hz and may stay in phase.
* `power_consumer`: two of the four core frames, interchangeable, and one of the two advisory frames;
  counter modulus 2, the worst case of aliasing; `Period` 3, `Delay` 1 and `MaxSkew` 1 are the smallest
  with `Delay + MaxSkew < Period` (the code: 50 ms of skew to 100 ms); `Horizon` 12 is time for three
  bundles after the first and for authority to age out. The clock stops there, so deadlock is not checked.
* `torque_path`: torques 0 to 2 with an overshoot of 1, so that a limit may allow a torque but not its
  rise; all waits 1 but `CommandWait` 3; one unlock cycle and one overrun to trip.
* `cm200_feedback`: two required frames of the six, one with the timer and one with the contents, as the
  others only repeat the second; delays of two or three periods that differ from each other, so that no
  two counters can stand in for one another.
* `driver_inputs`: periods of 2 and 3 ticks of RTD and BPPC against 1 of APPS and BSE, so that every
  order and offset of passes occurs (code: 2 and 5); the split limit is one tick, the smallest that differs from none
  (10 in the code). Theorem `SplitIsFaultedHolds` covers all.
* `ams_driver`: the status and the electrical frame, as the thermal one (`Payload` in the proofs) is
  aged and gated like the latter and feeds nothing; timeout 2 and sample age 1, so that a frame may be
  fresh with an old sample; two samples to trip and one to settle.
* `shutdown`: one line and the smallest delays, as the run is about the two tasks' interleaving, but a sound of two
  periods, so that a pass may find it neither begun nor over.
* `data_logger`: three disturbances in all -- a request, a command, a change of the card or a power
  cut each cost one (`Budget`); four sessions, so that power cuts during creation do not use them up; the sync
  every second cycle, so that cycles without one lie in between; errors 3, as in the code. The bound on
  `deadFor` in `UnbrokenLossIsBrief` is reached: one cycle less is violated. `logger_dead_card` needs one pull of the
  card and nothing else.

### Fairness

* `cantx`: the CAN task runs (strong fairness of its steps, as higher-priority tasks and interrupts
  always yield) and the interrupt's abort is done. Nothing is assumed of the bus: `WaitEnds` rests on
  deadlines alone, and `SilenceRemovesTorque` says what follows if CM200 frames do get through.
* `shutdown`: nothing is assumed before `Settle`, and nothing fails after it: liveness under faults that go on is
  not promised. From then on both tasks run periodically (`osDelayUntil`), and the driver keeps releasing and
  pressing the button, for strong fairness on a pass with each.
* `data_logger`: the logger task runs and a command of the CLI ends (weak fairness of each). Nothing is
  assumed of the card. A stop, a sync or an open that finds the mutex taken may time out; the budget keeps
  the CLI from having it every time.
* The other runs are about safety and assume none.

## 4. Proofs

TLAPS proves for all values of the constants, under the `ASSUME`s of the modules:

* **CanTxProofs**: types, `Ownership`, `ReadyUntilCommit`, `HistoryAgrees`, `CountersInSequence`,
  `UncertainIsFinal`, and that `CanTx` implements `CommandChannel`. None of these is inductive: the
  invariant adds what each value of `pc` says about the mailbox waited for, its token and its frame,
  that tokens exist only for mailboxes not pending, and that while an outcome is open the inverter has
  either the command before or this one.
* **PowerConsumerProofs**: types, `SingleBundle`, `AdvisoryMatches`, `Superseded`, `RecoveryNeedsTwo`,
  `CacheHonest`. Assumed: bundles are `Period` apart, a frame takes at most `Delay`, and
  `Delay + MaxSkew < Period`. Then a stage still in its window holds frames of the bundle under way only
  (lemma `Window`); the other conjuncts tie streak and stage to what became of the last bundle. A second
  completion of a bundle has a counter that is not the successor, so the streak starts again.
* **PowerSequenceProofs**: types, `PowerIsEarned`, `SilenceRemovesPower`, `FirmwareNeedsPower`,
  `LatchesHold`. The invariant bounds how long the worst line, the flags and the supervisor have been
  good from below by the filters and `enabledFor`.
* The same module on `Cm200Feedback`: every step of `Cm200Feedback` is a step of `PowerSequence` or leaves its variables
  alone (`FeedbackImplements`), so `PowerIsEarned` and `LatchesHold` hold over the frames too. `EveryFrameHeard` and
  `RestartIsSeen` need what the driver holds of the timer against the CM200's (`clock`), and that a valid
  frame's age is the time since it was really heard.
* The same module on `Shutdown`: with the RTD task preempted between any two reads, every step is one of `PowerSequence`
  (`SchedulerImplementsPower`) and one of `ReadyToDrive` (`SchedulerImplementsRtd`: whatever mixture of flags a torn pass
  finds is a sample), so `PowerIsEarned`, `SilenceRemovesPower`, `FirmwareNeedsPower` and `LatchesHold` hold on the scheduler.
  Two results are about both tasks: for `TripHolds`, a loss of drive is requested until the error task takes it and then
  held for what is left of the pulse (`PulseHeld`); for `DriveNeedsPower`, a pass of the RTD task that began with the CM200
  off has its flag among those it may not find clear, so power lost under a torn pass is missed at most once
  (`DriveBound`). Assumed is only that a pass ends within a period of the error task, by the scheduler's priorities.
* **ReadyToDriveProofs**: types and `DeliberateStart`, by two conjuncts that say what mode and buzzer
  time remember of the samples before; that `DriverInputs` implements `ReadyToDrive`, its types, and
  `SplitIsFaulted`. `StartSawBrake`, if RTD has a longer period than BSE: a light lit for a fault before the last
  sample is replaced before the next (`LightExplained`). `ConflictEndsDrive`, if BPPC has: how long both pedals
  can have been pressed without a fault follows from where BPPC's pass stands (`Detected`).
* **AmsDriverProofs**: types, `GateIsFresh`, `CountedTwiceIfSkewed`, `SuspendedByMetadata`. For the gate the
  invariant adds that what the error task let through was fresh then and has not aged since; for the monitor, that a new
  current is not compared before its metadata, and that a pass which left the monitor alone had reason to wait.
* **TorquePathProofs**: types, `NewestWins`, `NoLateTorque`, `ExcessIsBrief`. The invariant charges the
  ticks for which the inverter was above the limit to the command in flight and to the stages of the
  next: `CommandWait + ReadyWait + 2 * (CompleteWait + Reconcile)`, 41 ms with the code's values,
  counted since the limit last fell or a command last failed. A frame may raise torque after the limit
  is gone only within the wait for its outcome, or if that outcome was given up as unknown.
* **Cm200CommandsProofs**: types, that its commands are those of `CommandChannel` (`CommandsOfTheChannel`), which `CanTx`
  implements, `TorqueInStep`, `FrozenIsSeen`, and `BlamedIffEarly` for any two schedules. Only
  a command taken changes the counter the inverter expects. So when that differs from one observed
  before (`Taken`), the inverter has taken a command and takes each that follows: it is in step
  (`TakenFollows`), its broadcasts lag by at most one command or are early, and the count of mismatches
  is that of early broadcasts in a row for the counter (`CounterCounted`), and at most that for the echo (`EchoCounted`). Before the counter is
  synchronised all torques are zero, so the echo may have synchronised only on zero (`IdleEcho`). For a deaf
  inverter the invariant follows how far the ECU's counter leads the frozen one (`Lead`): in a run it fits at
  most twice before it has come round, and what went before the fits was `MismatchLimit` mismatches and less
  than a period of the error task, since a fault that lasts longer is latched (`Missed`, `FrozenCounted`).
  The bound is `FrozenLimit`, twice the mismatch limit and the period: with a period of two broadcasts a
  fault can come and be cleared by a fit between two passes.
* **DataLoggerProofs**: types, `UnbrokenLossIsBrief`, `SessionIsNew`, `StopNotForgotten`, `MissedForGood`. The invariant adds who holds the mutex
  where and that the drive has been tried once a session is open (`Control`): as FatFs never tries again, a card lost
  during a session stays lost to it. On stale handles no sync works, so the sync that falls due fails and each cycle
  after it is an error (`StaleCount`). On a dead card each write fails until one fits in a sector buffer, which no sync
  can then empty (`DeadCount`); hence the bound has the errors twice. `MissedForGood` needs no more than that a session
  being created has its drive up. For the stop: as long as it is owed no other request is in the slot, and a session that is being created
  finds it there (`Owed`).

The types of all modules are proved and so not run again. Every invariant and action property of the runs is proved.
Two theorems have a hypothesis beyond the modules' assumptions, that RTD or BPPC has a longer period than BSE and APPS,
which the code's periods meet (20 and 50 ms to 10).

Only model-checked: liveness -- `WaitEnds`, `SilenceRemovesTorque`, `Recovers`, `AutostartRecovers`, `StopCloses` -- as
the prover has no `ENABLED`, and the violations. No module here has a `RECURSIVE` operator, and nothing rests on
induction over data.

## 5. Not modelled

* A full card: a write fails only as the card does. The logger's receive ring, its rates, markers and raw on and off: a record is traffic or none. The ring's tail has a
  race of its own (section 6). Counters, geometry and the SPI protocol of the card.
* The AMS driver's health, estimator and telemetry frames and the fragments of its logger stream: nothing in
  the control path reads them.
* The current model and its calibration: interpolation in floating point; `Fits` stands for it, so
  `TorquePath` says nothing about the numbers. The cell search, the settled anchor, the reversal through zero and
  the span history inside the clamp, for the same reason: the clamp's promise is checked, not its
  computation. The starting state an APPS cycle takes (`apps_task.c:215`) may be older than the outcome
  of the command before; the commit checks the candidate again, which `NoLateTorque` covers.
* Filters and calibration of the sensors. Pedals are classes against the thresholds. A brake reading that waited for
  `adc3_mutex` is timed when it is taken, the code times it when its pass began.
* Cooling: an observer in one loop that no gate reads.
* Watchdog and reset: every module but `DataLogger` starts after `app_create` and ends with a reset.
* Display, log and CLI tasks, the HAL and vendored code, but for the parts of the HAL's CAN driver that
  `CanTx` and of FatFs that `DataLogger` needs. Nine tenths of the repository's lines are these.

## 6. Findings

Each of these is a run that finds the violation; `findings` in `PROJECT.json` quotes the documents.

* **A lost outcome stalls the transmit path** (`cantx_lost_outcome`; `canbus.c:471`). The error
  callback's abort is a read-modify-write of `CAN_TSR` and clears completion flags set since. The
  mailbox stays owned with no callback to come.
* **A loss that is not latched** (`power_sequence_loss`; `ecu_safety.c:385`). When another fault comes in
  the same period, power goes first and the supervisor forgets the loss.
* **A dead card is written to for ever** (`logger_dead_card`; `ecu_data_logger.c:898`). A cycle without an error
  clears the count of errors also if it had nothing to write, and a file that has failed and is not modified
  syncs well. On a quiet bus, or after `log raw off`, rows fail one by one and the session never ends, which the
  comment at `ecu_data_logger.c:886` rules out. `UnbrokenLossIsBrief` says what does hold.

Met while modelling, part of the models, and stated here rather than run:

* Transmit and torque: an inverter that broadcasts between its receipt of a command and the ECU's note
  of it is a mismatch though in step (`cm200.c:159`; `docs/CM200_CAN_CONTRACT_AND_BRINGUP.md:64,66`). At 100 Hz
  against 100 Hz nothing keeps that from repeating, and a follower is then faulted: `BlamedIffEarly` says exactly when. The five disables before torque are counted
  in cycles of the APPS task, not in frames sent (`ecu_safety.c:335`; line 60 of the same document), and one
  not yet sent may be overwritten in the queue.
* CM200 power: `valid` of the timer frame outlives a power removal, so a CM200 powered again has gone
  back in time and is a latched fault: a second power-up needs a reset of the MCU.
* Power authority: after an outage of a whole round of the counter, one bundle is enough, as the streak from
  before it stands (`ams_power_consumer.c:326`; `docs/ECU_AMS_POWER_PROTOCOL_V2.md:7`).
* Residual monitor: a lost electrical frame, or the first diagnostic frame, makes the same current count
  twice (`CountedTwiceIfSkewed`). Diagnostic frames that parse but are not sane refresh the receive time
  (`ams.c:690`), and while they come the monitor neither measures nor faults (`SuspendedByMetadata`;
  `docs/ECU_AMS_POWER_PROTOCOL_V2.md:33`). At boot, a second pass of the CAN task before the first AMS frames
  latches the residual fault until a reset.
* Pedals: a failed brake reading publishes a brake of zero, so readings that fail in step with the passes
  of BPPC hide a conflict; `ConflictEndsDrive` is about the pedals as published. If BSE has a fault at
  every sample of RTD, drive may start without the brake, and `StartSawBrake` says so. A failed second APPS
  reading compares a fresh count with an old one and may restart the timer of the split.
* Logger: a card put in after a first attempt without one is never found, as FatFs notes that it has initialised a
  drive before it knows the result (`diskio.c:57-62`, `sdcard_service.c:106`; `docs/ECU_SD_CAN_DATA_LOGGER.md:27`):
  theorem `MissedForGoodHolds`, and the reason for the premise `Usable` of `AutostartRecovers`. A failed
  automatic stop leaves files open, and a later start opens over them. `log stop` takes one batch of 64
  records and drops the rest (`docs/ECU_SD_CAN_DATA_LOGGER.md:99`). `set_raw` (`ecu_data_logger.c:1018-1026`) moves the
  tail of the ring against the task, which may write old records again. The CLI's check before an unmount
  is not repeated under the mutex (line 101 of the document); `UnbrokenLossIsBrief` says how soon the session then ends.

## 7. Plan

Done: `CanTx` over `CommandChannel`; `PowerConsumer`; `PowerSequence`, `ReadyToDrive`, `Shutdown`;
`TorquePath`; `Cm200Commands`; `Cm200Feedback` under `PowerSequence`; `DriverInputs` under `ReadyToDrive`;
`AmsDriver` with the residual monitor; `DataLogger`; proofs for all of them.

Left, in this order:

1. The logger's ring, over an abstract log that only grows by records in capture order.
2. The clamp's committed state in full, and the snapshot against an open outcome.
3. `Shutdown` over `Cm200Feedback` and `DriverInputs`, if its states allow.
4. Cooling.
