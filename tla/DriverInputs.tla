------------------------------ MODULE DriverInputs ------------------------------
(***************************************************************************)
(* The pedals: the APPS, BPPC and BSE tasks (Core/Src/tasks) with the RTD  *)
(* task of ReadyToDrive, which preempts them and reads what they publish.  *)
(*                                                                         *)
(* A tick is one period of APPS and BSE (10 ms).  A task that is due runs  *)
(* before every task of a lower priority: RTD, APPS, BPPC, BSE.  BPPC and  *)
(* BSE, the lowest, may be preempted within their passes; a pass that has  *)
(* not ended at a tick ends within one more.                               *)
(***************************************************************************)
EXTENDS ReadyToDrive

CONSTANTS
  RtdPeriod,   \* ticks between two passes of the RTD task
  BppcPeriod,  \* ticks between two passes of the BPPC task
  SplitLimit   \* ECU_APPS_ and ECU_BSE_IMPLAUSIBILITY_LIMIT_MS, in ticks

ASSUME PeriodAssumption == {RtdPeriod, BppcPeriod, SplitLimit} \subseteq Nat \ {0}

VARIABLES
  due,       \* the tasks that have not ended their pass
  late,     \* those of them that had not at the last tick
  rtdIn,     \* ticks to the next pass of the RTD task
  bppcIn,    \* ticks to the next pass of the BPPC task
  apps,      \* what the APPS task publishes, and its plausibility timer
  bppc,      \* bppc_fault, and the value a pass is about to give it
  bse,       \* what the BSE task publishes, its timer, and the brake of a pass
             \* that has published its fault only
  torque,    \* the last pass of the APPS task allowed torque
  bothFor,   \* ticks both pedals have been published as pressed
  pressed,   \* the last reading of the brake was good and had it pressed
  faulted,   \* a pass of BSE found a fault since the last pass of RTD
  splitFor   \* ticks since a good reading saw the brake sensors disagree, if
             \* they have not agreed since

tickVars == <<due, late, rtdIn, bppcIn>>
inputVars == <<apps, bppc, bse, torque>>
seenVars == <<bothFor, pressed, faulted, splitFor>>
driverVars == <<vars, tickVars, inputVars, seenVars>>

-------------------------------------------------------------------------------
Task == {"rtd", "apps", "bppc", "bse"}

\* throttle: below BPPC_APPS_L_THRESH, between, above BPPC_APPS_H_THRESH.
Throttle == {"released", "part", "pressed"}

\* brake: below BRAKE_LIGHT_THRESH, between, above BPPC_BSE_THRESH.
Brake == {"released", "light", "hard"}

Idle == "none"          \* of a task between two passes
Off == SplitLimit + 1   \* of a timer that is not active, and of splitFor

BothCap == BppcPeriod + RtdPeriod + 2

Cap(limit, n) == IF n < limit THEN n ELSE limit

\* ecu_elapsed_fault_timer_update: the timer after a sample.  It has run out
\* if it is at the limit.
Elapsed(timer, split) == IF ~split THEN Off ELSE IF timer = Off THEN 0 ELSE timer

\* The time up to the next tick.
Pass(timer) == IF timer = Off THEN Off ELSE Cap(SplitLimit, timer + 1)

DriverInit ==
  /\ Init
  /\ due = {} /\ late = {}
  /\ rtdIn = 0 /\ bppcIn = 0
  /\ apps = [fault |-> FALSE, throttle |-> "released", timer |-> Off]
  /\ bppc = [fault |-> FALSE, next |-> Idle]
  /\ bse = [fault |-> FALSE, brake |-> "released", light |-> FALSE, timer |-> Off,
            next |-> Idle]
  /\ torque = FALSE
  /\ bothFor = 0 /\ pressed = FALSE /\ faulted = FALSE /\ splitFor = Off

\* The task of the highest priority that is due runs.
First(task) ==
  /\ task \in due
  /\ task # "rtd" => "rtd" \notin due
  /\ task \in {"bppc", "bse"} => "apps" \notin due
  /\ task = "bse" => "bppc" \notin due

\* osDelayUntil: a pass of BSE that ends after its period is followed at once.
Ends(task) ==
  /\ due' = IF task = "bse" /\ "bse" \in late THEN due ELSE due \ {task}
  /\ late' = late \ {task}
  /\ UNCHANGED <<rtdIn, bppcIn>>

BothPressed == apps.throttle = "pressed" /\ bse.brake = "hard"

FollowPedals == bothFor' = IF BothPressed' THEN bothFor ELSE 0

-------------------------------------------------------------------------------
\* The time of the next tick: RTD, APPS and what was due before the last have
\* ended.  BPPC or BSE may be in the middle of its pass, and BSE may wait for
\* BPPC or for adc3_mutex (ADC3_MUTEX_TIMEOUT_MS is one tick).  The error task,
\* above all of them, has run in between.
Tick ==
  /\ ~requested
  /\ due \subseteq {"bppc", "bse"} \ late
  /\ "bppc" \in due => bppc.next # Idle
  /\ late' = due
  /\ due' = due \union {"apps", "bse"}
                \union (IF rtdIn = 0 THEN {"rtd"} ELSE {})
                \union (IF bppcIn = 0 THEN {"bppc"} ELSE {})
  /\ rtdIn' = IF rtdIn = 0 THEN RtdPeriod - 1 ELSE rtdIn - 1
  /\ bppcIn' = IF bppcIn = 0 THEN BppcPeriod - 1 ELSE bppcIn - 1
  /\ apps' = [apps EXCEPT !.timer = Pass(@)]
  /\ bse' = [bse EXCEPT !.timer = Pass(@)]
  /\ bothFor' = IF BothPressed THEN Cap(BothCap, bothFor + 1) ELSE 0
  /\ splitFor' = Pass(splitFor)
  /\ UNCHANGED <<vars, bppc, torque, pressed, faulted>>

\* Faulty form: bppc_fault is not among the faults RTD reads.
PedalsClearButBppc == ~apps.fault /\ ~bse.fault

\* The faults of the pedals in ecu_rtd_inputs_t.
PedalsClear == ~apps.fault /\ ~bse.fault /\ ~bppc.fault

\* A pass of the RTD task on the published inputs; others: no fault elsewhere.
RtdPass(tsalLine, okLine, button, others) ==
  LET clear == others /\ PedalsClear
  IN  /\ First("rtd")
      /\ RtdTask(tsalLine, okLine, button, bse.light, clear)
      /\ Remember(button, bse.light, clear)
      /\ Ends("rtd")
      /\ faulted' = FALSE
      /\ UNCHANGED <<inputVars, bothFor, pressed, splitFor>>

\* A pass of the APPS task; valid: both readings taken and in range.  A failed
\* reading leaves the counts of an earlier one, and the timer goes on.
AppsPass(valid, split, throttle, others) ==
  LET timer == Elapsed(apps.timer, split)
      fault == ~valid \/ timer = SplitLimit
  IN  /\ First("apps")
      /\ apps' = [fault |-> fault, throttle |-> throttle, timer |-> timer]
      /\ torque' = (mode = "ENABLED" /\ Ok /\ others
                      /\ ~fault /\ ~bppc.fault /\ ~bse.fault)
      /\ Ends("apps")
      /\ UNCHANGED <<vars, bppc, bse, pressed, faulted, splitFor>>
      /\ FollowPedals

\* The value bppc_task_fn finds for bppc_fault.
BppcVerdict ==
  IF bppc.fault THEN apps.throttle # "released" ELSE BothPressed

\* A pass of the BPPC task: it reads the pedals, and then writes.
BppcRead ==
  /\ First("bppc") /\ bppc.next = Idle
  /\ bppc' = [bppc EXCEPT !.next = IF BppcVerdict THEN "fault" ELSE "clear"]
  /\ UNCHANGED <<vars, tickVars, apps, bse, torque, seenVars>>

BppcWrite ==
  /\ First("bppc") /\ bppc.next # Idle
  /\ bppc' = [fault |-> bppc.next = "fault", next |-> Idle]
  /\ Ends("bppc")
  /\ UNCHANGED <<vars, apps, bse, torque, seenVars>>

\* Faulty form: a failed reading starts the timer anew.
BseFailsAnew ==
  bse' = [fault |-> TRUE, brake |-> "released", light |-> TRUE, timer |-> Off,
          next |-> Idle]

\* A failed reading, or no mutex: the timer is left as it was.
BseFails ==
  bse' = [bse EXCEPT !.fault = TRUE, !.brake = "released", !.light = TRUE]

\* Faulty form: the light is not put out.
BseLightStays ==
  bse' = [bse EXCEPT !.brake = bse.next, !.next = Idle,
                     !.light = @ \/ bse.fault \/ bse.next # "released"]

\* The brake, and its light.
BseLight ==
  bse' = [bse EXCEPT !.brake = bse.next, !.next = Idle,
                     !.light = bse.fault \/ bse.next # "released"]

\* A pass of the BSE task: the reading fails;
BseFailedPass ==
  /\ First("bse") /\ bse.next = Idle
  /\ BseFails
  /\ pressed' = FALSE
  /\ faulted' = TRUE
  /\ Ends("bse")
  /\ UNCHANGED <<vars, apps, bppc, torque, splitFor>>
  /\ FollowPedals

\* or it is good, and the fault is published,
BseFaultPass(inRange, split, brake) ==
  LET timer == Elapsed(bse.timer, split)
  IN  /\ First("bse") /\ bse.next = Idle
      /\ bse' = [bse EXCEPT !.fault = ~inRange \/ timer = SplitLimit,
                            !.timer = timer, !.next = brake]
      /\ faulted' = (faulted \/ bse'.fault)
      /\ splitFor' = IF ~split THEN Off ELSE IF splitFor = Off THEN 0 ELSE splitFor
      /\ UNCHANGED <<vars, tickVars, apps, bppc, torque, bothFor, pressed>>

\* and then the brake.
BseBrakePass ==
  /\ First("bse") /\ bse.next # Idle
  /\ BseLight
  /\ pressed' = (bse.next # "released")
  /\ Ends("bse")
  /\ UNCHANGED <<vars, apps, bppc, torque, faulted, splitFor>>
  /\ FollowPedals

\* The error task takes a request for a trip.
ErrorTakes ==
  /\ TakeRequest
  /\ UNCHANGED <<tickVars, inputVars, seenVars>>

DriverNext ==
  \/ Tick
  \/ \E tsalLine, okLine, button, others \in BOOLEAN :
       RtdPass(tsalLine, okLine, button, others)
  \/ \E valid, split, others \in BOOLEAN, throttle \in Throttle :
       AppsPass(valid, split, throttle, others)
  \/ BppcRead
  \/ BppcWrite
  \/ BseFailedPass
  \/ \E inRange, split \in BOOLEAN, brake \in Brake : BseFaultPass(inRange, split, brake)
  \/ BseBrakePass
  \/ ErrorTakes

DriverSpec == DriverInit /\ [][DriverNext]_driverVars

-------------------------------------------------------------------------------
DriverTypeOK ==
  /\ TypeOK
  /\ due \subseteq Task /\ late \subseteq due
  /\ rtdIn \in 0 .. RtdPeriod - 1 /\ bppcIn \in 0 .. BppcPeriod - 1
  /\ apps \in [fault : BOOLEAN, throttle : Throttle, timer : 0 .. Off]
  /\ bppc \in [fault : BOOLEAN, next : {"fault", "clear", Idle}]
  /\ bse \in [fault : BOOLEAN, brake : Brake, light : BOOLEAN, timer : 0 .. Off,
              next : Brake \union {Idle}]
  /\ torque \in BOOLEAN
  /\ bothFor \in 0 .. BothCap
  /\ pressed \in BOOLEAN /\ faulted \in BOOLEAN
  /\ splitFor \in 0 .. Off

\* Both pedals pressed end torque within a period of the BPPC task and the two
\* ticks it may be late, and drive with the next pass of the RTD task ("brake above 10% plus APPS above 25%
\* latches BPPC", ECU_HARDWARE_BRINGUP.md:65).
ConflictEndsDrive ==
  /\ torque => bothFor <= BppcPeriod + 2
  /\ mode = "ENABLED" => bothFor <= BppcPeriod + RtdPeriod + 1

\* Every sample of the RTD task that counts for a start saw the brake really
\* pressed, or the BSE task found a fault since the sample before: without a
\* fault before each of them, drive is not enabled without the brake
\* (rtd_task.c:84, bse_task.c:109-113).
StartSawBrake ==
  [][("rtd" \in due \ due') /\ armedFor' # Unarmed => pressed \/ faulted]_driverVars

\* Brake sensors that disagree for the limit after a good reading saw it are a
\* fault, however many readings fail in between (bse_task.c:76-103).
SplitIsFaulted == splitFor = SplitLimit /\ "bse" \notin due => bse.fault

===============================================================================
