--------------------------- MODULE ReadyToDriveProofs ---------------------------
(***************************************************************************)
(* Proofs about ReadyToDrive for every sound time and filter length: its   *)
(* type invariant and that drive is enabled only deliberately.  Then the   *)
(* same for DriverInputs, which implements it, and for all periods: brake  *)
(* sensors in disagreement are a fault in time, a start saw the brake, and *)
(* both pedals pressed end torque and drive.                               *)
(***************************************************************************)
EXTENDS DriverInputs, TLAPS

\* The task waits for the press only right after it saw the button released.
ReadyForPress == mode = "AWAIT_CONDITIONS" => released

\* While the sound plays, the conditions have held at least as long.
Armed == mode = "BUZZING" => armedFor \in buzzFor .. BuzzTime

IndInv == TypeOK /\ ReadyForPress /\ Armed

-------------------------------------------------------------------------------
\* One more sample keeps a count in its range.
LEMMA SampleType ==
  ASSUME NEW n \in 0 .. FilterSamples, NEW good \in BOOLEAN
  PROVE  Sample(n, good) \in 0 .. FilterSamples
BY RtdAssumption DEF Sample

LEMMA InitInvariant == Init => IndInv
<1> SUFFICES ASSUME Init PROVE IndInv
  OBVIOUS
<1>1. BuzzTime \in Nat /\ BuzzTime > 0 /\ FilterSamples \in Nat
  BY RtdAssumption
<1>2. TypeOK
  <2>1. buzzFor \in 0 .. BuzzTime - 1 /\ armedFor \in 0 .. Unarmed
    BY <1>1 DEF Init, Unarmed
  <2>2. tsalUp \in 0 .. FilterSamples /\ motorOk \in 0 .. FilterSamples
    BY <1>1 DEF Init
  <2>3. QED
    BY <2>1, <2>2 DEF Init, TypeOK, Mode
<1>3. QED
  BY <1>2 DEF Init, IndInv, ReadyForPress, Armed

\* A period keeps the types.
LEMMA PeriodType ==
  ASSUME NEW tsalLine \in BOOLEAN, NEW okLine \in BOOLEAN, NEW button \in BOOLEAN,
         NEW brake \in BOOLEAN, NEW clear \in BOOLEAN, TypeOK,
         RtdTask(tsalLine, okLine, button, brake, clear),
         Remember(button, brake, clear)
  PROVE  TypeOK'
<1>1. tsalUp' \in 0 .. FilterSamples /\ motorOk' \in 0 .. FilterSamples
  BY SampleType DEF RtdTask, TypeOK
<1>2. mode' \in Mode
  BY DEF RtdTask, Proceed, Press, Buzz, TypeOK, Mode
<1>3. buzzFor' \in 0 .. BuzzTime - 1
  BY RtdAssumption DEF RtdTask, Proceed, Press, Buzz, TypeOK
<1>4. requested' \in BOOLEAN
  BY DEF RtdTask, TypeOK
<1>5. released' \in BOOLEAN
  BY DEF Remember
<1>6. armedFor' \in 0 .. Unarmed
  BY RtdAssumption DEF Remember, TypeOK, Unarmed
<1>7. QED
  BY <1>1, <1>2, <1>3, <1>4, <1>5, <1>6 DEF TypeOK

\* A period keeps the invariant, and enables drive only deliberately.
LEMMA PeriodInvariant ==
  ASSUME NEW tsalLine \in BOOLEAN, NEW okLine \in BOOLEAN, NEW button \in BOOLEAN,
         NEW brake \in BOOLEAN, NEW clear \in BOOLEAN, IndInv,
         RtdTask(tsalLine, okLine, button, brake, clear),
         Remember(button, brake, clear)
  PROVE  /\ IndInv'
         /\ mode' = "ENABLED" /\ mode # "ENABLED" => armedFor' = BuzzTime
<1> DEFINE good == Tsal' /\ Ok' /\ brake /\ clear
<1>1. TypeOK /\ TypeOK'
  BY PeriodType DEF IndInv
<1>2. /\ released' = (Tsal' /\ ~button)
      /\ armedFor' = IF ~good THEN Unarmed
                     ELSE IF armedFor # Unarmed
                     THEN IF armedFor < BuzzTime THEN armedFor + 1 ELSE armedFor
                     ELSE IF button /\ released THEN 0 ELSE Unarmed
  BY DEF Remember
<1>3. ReadyForPress'
  <2> SUFFICES ASSUME mode' = "AWAIT_CONDITIONS" PROVE released'
    BY DEF ReadyForPress
  <2>1. Tsal' /\ ~button
    BY DEF RtdTask, Proceed, Press, Buzz
  <2>2. QED
    BY <1>2, <2>1
<1>4. ASSUME mode' = "BUZZING"
      PROVE  /\ good
             /\ \/ mode = "AWAIT_CONDITIONS" /\ button /\ buzzFor' = 0
                \/ mode = "BUZZING" /\ buzzFor' = buzzFor + 1
  BY <1>4 DEF RtdTask, Proceed, Press, Buzz
<1>5. ASSUME mode' = "ENABLED", mode # "ENABLED"
      PROVE  good /\ mode = "BUZZING" /\ buzzFor + 1 >= BuzzTime
  BY <1>5 DEF RtdTask, Proceed, Press, Buzz
<1> HIDE DEF good
<1>6. Armed'
  <2> SUFFICES ASSUME mode' = "BUZZING" PROVE armedFor' \in buzzFor' .. BuzzTime
    BY DEF Armed
  <2>1. CASE mode = "AWAIT_CONDITIONS" /\ button /\ buzzFor' = 0
    <3>1. released
      BY <2>1 DEF IndInv, ReadyForPress
    <3>2. QED
      BY <1>1, <1>2, <1>4, <2>1, <3>1, RtdAssumption DEF TypeOK, Unarmed
  <2>2. CASE mode = "BUZZING" /\ buzzFor' = buzzFor + 1
    <3>1. armedFor \in buzzFor .. BuzzTime
      BY <2>2 DEF IndInv, Armed
    <3>2. buzzFor' \in 0 .. BuzzTime - 1
      BY <1>1 DEF TypeOK
    <3>3. QED
      BY <1>1, <1>2, <1>4, <2>2, <3>1, <3>2, RtdAssumption DEF TypeOK, Unarmed
  <2>3. QED
    BY <1>4, <2>1, <2>2
<1>7. ASSUME mode' = "ENABLED", mode # "ENABLED"
      PROVE  armedFor' = BuzzTime
  <2>1. armedFor \in buzzFor .. BuzzTime
    BY <1>5, <1>7 DEF IndInv, Armed
  <2>2. QED
    BY <1>1, <1>2, <1>5, <1>7, <2>1, RtdAssumption DEF TypeOK, Unarmed
<1>8. QED
  BY <1>1, <1>3, <1>6, <1>7 DEF IndInv

LEMMA NextInvariant ==
  IndInv /\ [Next]_vars =>
    /\ IndInv'
    /\ mode' = "ENABLED" /\ mode # "ENABLED" => armedFor' = BuzzTime
<1> SUFFICES ASSUME IndInv, [Next]_vars
             PROVE  /\ IndInv'
                    /\ mode' = "ENABLED" /\ mode # "ENABLED" => armedFor' = BuzzTime
  OBVIOUS
<1>1. ASSUME requested' \in BOOLEAN, UNCHANGED <<taskVars, historyVars>>
      PROVE  /\ IndInv'
             /\ mode' = "ENABLED" /\ mode # "ENABLED" => armedFor' = BuzzTime
  BY <1>1 DEF IndInv, TypeOK, ReadyForPress, Armed, taskVars, historyVars, Unarmed
<1>2. ASSUME NEW tsalLine \in BOOLEAN, NEW okLine \in BOOLEAN, NEW button \in BOOLEAN,
             NEW brake \in BOOLEAN, NEW clear \in BOOLEAN,
             RtdTask(tsalLine, okLine, button, brake, clear),
             Remember(button, brake, clear)
      PROVE  /\ IndInv'
             /\ mode' = "ENABLED" /\ mode # "ENABLED" => armedFor' = BuzzTime
  BY <1>2, PeriodInvariant
<1>3. CASE TakeRequest
  BY <1>1, <1>3 DEF TakeRequest
<1>4. CASE UNCHANGED vars
  BY <1>1, <1>4 DEF vars, IndInv, TypeOK
<1>5. QED
  BY <1>2, <1>3, <1>4 DEF Next

\* The variables keep their types: filters and sound stay in their ranges.
THEOREM TypeCorrect == Spec => []TypeOK
<1>1. IndInv => TypeOK
  BY DEF IndInv
<1>2. QED
  BY <1>1, InitInvariant, NextInvariant, PTL DEF Spec

\* Whatever the pins, the brake and the faults do, drive is enabled only after
\* a release, a press and the whole sound under good conditions.
THEOREM StartIsDeliberate == Spec => DeliberateStart
<1>1. Spec => []IndInv
  BY InitInvariant, NextInvariant, PTL DEF Spec
<1>2. QED
  BY <1>1, NextInvariant, PTL DEF Spec, DeliberateStart

-------------------------------------------------------------------------------
(* The pedal tasks.                                                        *)

LEMMA DriverStepImplements == [DriverNext]_driverVars => [Next]_vars
<1> SUFFICES ASSUME [DriverNext]_driverVars PROVE [Next]_vars
  OBVIOUS
<1>1. ASSUME NEW tsalLine \in BOOLEAN, NEW okLine \in BOOLEAN, NEW button \in BOOLEAN,
             NEW others \in BOOLEAN, RtdPass(tsalLine, okLine, button, others)
      PROVE  Next
  <2>1. PICK brake, clear \in BOOLEAN :
          RtdTask(tsalLine, okLine, button, brake, clear) /\ Remember(button, brake, clear)
    <3>1. PICK clear \in BOOLEAN : clear = (others /\ PedalsClear)
      BY DEF PedalsClear
    <3>2. PICK brake \in BOOLEAN : brake = (bse.light = TRUE)
      OBVIOUS
    <3>3. QED
      BY <1>1, <3>1, <3>2 DEF RtdPass, RtdTask, Remember, Proceed, Press, Buzz
  <2>2. QED
    BY <2>1 DEF Next
<1>2. CASE ErrorTakes
  BY <1>2 DEF ErrorTakes, Next
<1>3. CASE Tick \/ BppcRead \/ BppcWrite \/ BseFailedPass \/ BseBrakePass
  BY <1>3 DEF Tick, BppcRead, BppcWrite, BseFailedPass, BseBrakePass
<1>4. ASSUME NEW valid, NEW split, NEW others, NEW throttle,
             AppsPass(valid, split, throttle, others)
      PROVE  UNCHANGED vars
  BY <1>4 DEF AppsPass
<1>5. ASSUME NEW inRange, NEW split, NEW brake, BseFaultPass(inRange, split, brake)
      PROVE  UNCHANGED vars
  BY <1>5 DEF BseFaultPass
<1>6. CASE UNCHANGED driverVars
  BY <1>6 DEF driverVars
<1>7. QED
  BY <1>1, <1>2, <1>3, <1>4, <1>5, <1>6 DEF DriverNext

\* The RTD task over the published pedals does what ReadyToDrive allows.
THEOREM DriverImplements == DriverSpec => Spec
<1>1. DriverInit => Init
  BY DEF DriverInit
<1>2. QED
  BY <1>1, DriverStepImplements, PTL DEF DriverSpec, Spec

\* So drive is enabled only deliberately with the pedal tasks running too.
THEOREM DriverStartIsDeliberate == DriverSpec => DeliberateStart
BY DriverImplements, StartIsDeliberate, PTL

-------------------------------------------------------------------------------
\* A pass of BSE under way is due; its fault is already that of its timer; and
\* the timer runs at least as long as the sensors are known to disagree.
UnderWay == bse.next # Idle => "bse" \in due
FaultFirst == bse.next # Idle /\ splitFor = SplitLimit /\ "bse" \notin late => bse.fault
TimerRuns == splitFor # Off => bse.timer # Off /\ splitFor <= bse.timer

DriverInv ==
  /\ IndInv
  /\ DriverTypeOK
  /\ UnderWay
  /\ FaultFirst
  /\ TimerRuns
  /\ SplitIsFaulted

\* What a sample and a tick make of a timer.
LEMMA TimerType ==
  ASSUME NEW timer \in 0 .. Off, NEW split \in BOOLEAN
  PROVE  /\ Elapsed(timer, split) \in 0 .. Off
         /\ Pass(timer) \in 0 .. Off
         /\ timer # Off => Pass(timer) # Off
BY PeriodAssumption DEF Elapsed, Pass, Cap, Off

LEMMA DriverInitInvariant == DriverInit => DriverInv
<1> SUFFICES ASSUME DriverInit PROVE DriverInv
  OBVIOUS
<1>1. IndInv
  BY InitInvariant DEF DriverInit
<1>2. Off \in 0 .. Off /\ 0 \in 0 .. RtdPeriod - 1 /\ 0 \in 0 .. BppcPeriod - 1
      /\ 0 \in 0 .. BothCap /\ Off # SplitLimit
  BY PeriodAssumption DEF Off, BothCap
<1>3. DriverTypeOK
  BY <1>1, <1>2 DEF DriverInit, DriverTypeOK, IndInv, Throttle, Brake, Idle
<1>4. UnderWay /\ FaultFirst /\ TimerRuns /\ SplitIsFaulted
  BY <1>2 DEF DriverInit, UnderWay, FaultFirst, TimerRuns, SplitIsFaulted, Idle
<1>5. QED
  BY <1>1, <1>3, <1>4 DEF DriverInv

\* A step that leaves the BSE task and its place among the tasks alone.
LEMMA BseAlone ==
  ASSUME DriverInv, UNCHANGED <<bse, splitFor>>,
         "bse" \in due' <=> "bse" \in due, "bse" \in late' <=> "bse" \in late
  PROVE  UnderWay' /\ FaultFirst' /\ TimerRuns' /\ SplitIsFaulted'
BY DEF DriverInv, UnderWay, FaultFirst, TimerRuns, SplitIsFaulted, Off, Idle

\* The end of a pass of another task.
LEMMA OtherEnds ==
  ASSUME DriverTypeOK, NEW task \in Task \ {"bse"}, Ends(task)
  PROVE  /\ due' \subseteq Task /\ late' \subseteq due'
         /\ "bse" \in due' <=> "bse" \in due
         /\ "bse" \in late' <=> "bse" \in late
         /\ UNCHANGED <<rtdIn, bppcIn>>
BY DEF Ends, DriverTypeOK

\* The end of a pass of the BSE task.
LEMMA BseEnds ==
  ASSUME DriverTypeOK, Ends("bse")
  PROVE  /\ due' \subseteq Task /\ late' \subseteq due'
         /\ "bse" \notin late'
         /\ "bse" \in late => "bse" \in due'
         /\ UNCHANGED <<rtdIn, bppcIn>>
BY DEF Ends, DriverTypeOK

\* How long both pedals are pressed after a pass.
LEMMA FollowType ==
  ASSUME DriverTypeOK, FollowPedals PROVE bothFor' \in 0 .. BothCap
<1>1. BothCap \in Nat
  BY PeriodAssumption DEF BothCap
<1>2. QED
  BY <1>1 DEF FollowPedals, DriverTypeOK

LEMMA DriverNextInvariant == DriverInv /\ [DriverNext]_driverVars => DriverInv'
<1> SUFFICES ASSUME DriverInv, [DriverNext]_driverVars PROVE DriverInv'
  OBVIOUS
<1>i. IndInv'
  BY DriverStepImplements, NextInvariant DEF DriverInv
<1>t. DriverTypeOK /\ TypeOK' /\ UnderWay /\ FaultFirst /\ TimerRuns /\ SplitIsFaulted
  BY <1>i DEF DriverInv, IndInv
<1>b. bse \in [fault : BOOLEAN, brake : Brake, light : BOOLEAN, timer : 0 .. Off,
               next : Brake \union {Idle}]
  BY <1>t DEF DriverTypeOK
<1>n. SplitLimit \in Nat \ {0} /\ Off = SplitLimit + 1 /\ splitFor \in 0 .. Off
  BY <1>t, PeriodAssumption DEF Off, DriverTypeOK
<1>1. CASE Tick
  <2>1. DriverTypeOK'
    <3>1. /\ due' \subseteq Task /\ late' \subseteq due'
          /\ rtdIn' \in 0 .. RtdPeriod - 1 /\ bppcIn' \in 0 .. BppcPeriod - 1
      BY <1>1, <1>t, PeriodAssumption DEF Tick, DriverTypeOK, Task
    <3>2. apps' \in [fault : BOOLEAN, throttle : Throttle, timer : 0 .. Off]
      BY <1>1, <1>t, TimerType DEF Tick, DriverTypeOK
    <3>3. bse' \in [fault : BOOLEAN, brake : Brake, light : BOOLEAN, timer : 0 .. Off,
                    next : Brake \union {Idle}]
      BY <1>1, <1>b, TimerType DEF Tick
    <3>4. bothFor' \in 0 .. BothCap
      BY <1>1, <1>t, PeriodAssumption DEF Tick, DriverTypeOK, Cap, BothCap
    <3>5. splitFor' \in 0 .. Off
      BY <1>1, <1>t, TimerType DEF Tick, DriverTypeOK
    <3>6. UNCHANGED <<bppc, torque, pressed, faulted>>
      BY <1>1 DEF Tick
    <3>7. QED
      BY <3>1, <3>2, <3>3, <3>4, <3>5, <3>6, <1>t DEF DriverTypeOK
  <2>2. "bse" \in due' /\ ("bse" \in due => "bse" \in late')
    BY <1>1 DEF Tick
  <2>3. bse' = [bse EXCEPT !.timer = Pass(bse.timer)] /\ splitFor' = Pass(splitFor)
    BY <1>1 DEF Tick
  <2>4. TimerRuns'
    <3>1. bse'.timer = Pass(bse.timer)
      BY <2>3, <1>b
    <3>2. bse.timer \in 0 .. Off
      BY <1>b
    <3>3. QED
      BY <2>3, <3>1, <3>2, <1>n, <1>t DEF TimerRuns, Pass, Cap, Off
  <2>5. bse'.next = bse.next
    BY <2>3, <1>b
  <2>6. UnderWay' /\ FaultFirst' /\ SplitIsFaulted'
    BY <2>2, <2>5, <1>t DEF UnderWay, FaultFirst, SplitIsFaulted, Idle
  <2>7. QED
    BY <1>i, <2>1, <2>4, <2>6 DEF DriverInv
<1>2. ASSUME NEW tsalLine \in BOOLEAN, NEW okLine \in BOOLEAN, NEW button \in BOOLEAN,
             NEW others \in BOOLEAN, RtdPass(tsalLine, okLine, button, others)
      PROVE  DriverInv'
  <2>1. Ends("rtd") /\ faulted' = FALSE /\ UNCHANGED <<inputVars, bothFor, pressed, splitFor>>
    BY <1>2 DEF RtdPass
  <2>2. DriverTypeOK'
    BY <2>1, <1>t, OtherEnds DEF DriverTypeOK, inputVars, Task, BothCap, Off
  <2>3. UnderWay' /\ FaultFirst' /\ TimerRuns' /\ SplitIsFaulted'
    BY <2>1, <1>t, OtherEnds, BseAlone DEF inputVars, Task
  <2>4. QED
    BY <1>i, <2>2, <2>3 DEF DriverInv
<1>3. ASSUME NEW valid \in BOOLEAN, NEW split \in BOOLEAN, NEW others \in BOOLEAN,
             NEW throttle \in Throttle, AppsPass(valid, split, throttle, others)
      PROVE  DriverInv'
  <2>1. /\ Ends("apps") /\ FollowPedals
        /\ UNCHANGED <<vars, bppc, bse, pressed, faulted, splitFor>>
    BY <1>3 DEF AppsPass
  <2>2. apps' \in [fault : BOOLEAN, throttle : Throttle, timer : 0 .. Off]
    <3>1. apps.timer \in 0 .. Off
      BY <1>t DEF DriverTypeOK
    <3>2. Elapsed(apps.timer, split) \in 0 .. Off
      BY <3>1, TimerType
    <3>3. QED
      BY <3>2, <1>3 DEF AppsPass
  <2>3. torque' \in BOOLEAN
    BY <1>3 DEF AppsPass
  <2>4. DriverTypeOK'
    BY <2>1, <2>2, <2>3, <1>t, OtherEnds, FollowType DEF DriverTypeOK, Task, BothCap, Off
  <2>5. UnderWay' /\ FaultFirst' /\ TimerRuns' /\ SplitIsFaulted'
    BY <2>1, <1>t, OtherEnds, BseAlone DEF Task
  <2>6. QED
    BY <1>i, <2>4, <2>5 DEF DriverInv
<1>4. CASE BppcRead
  <2>1. /\ UNCHANGED <<vars, tickVars, apps, bse, torque, seenVars>>
        /\ bppc' = [bppc EXCEPT !.next = IF BppcVerdict THEN "fault" ELSE "clear"]
    BY <1>4 DEF BppcRead
  <2>2. DriverTypeOK'
    BY <2>1, <1>t DEF DriverTypeOK, tickVars, seenVars, BothCap, Off
  <2>3. UnderWay' /\ FaultFirst' /\ TimerRuns' /\ SplitIsFaulted'
    BY <2>1, BseAlone DEF tickVars, seenVars
  <2>4. QED
    BY <1>i, <2>2, <2>3 DEF DriverInv
<1>5. CASE BppcWrite
  <2>1. /\ UNCHANGED <<vars, apps, bse, torque, seenVars>> /\ Ends("bppc")
        /\ bppc' = [fault |-> bppc.next = "fault", next |-> Idle]
    BY <1>5 DEF BppcWrite
  <2>2. DriverTypeOK'
    BY <2>1, <1>t, OtherEnds DEF DriverTypeOK, seenVars, Task, BothCap, Off
  <2>3. UnderWay' /\ FaultFirst' /\ TimerRuns' /\ SplitIsFaulted'
    BY <2>1, <1>t, OtherEnds, BseAlone DEF seenVars, Task
  <2>4. QED
    BY <1>i, <2>2, <2>3 DEF DriverInv
<1>6. CASE BseFailedPass
  <2>1. /\ bse.next = Idle /\ Ends("bse") /\ FollowPedals
        /\ pressed' = FALSE /\ faulted' = TRUE
        /\ bse' = [bse EXCEPT !.fault = TRUE, !.brake = "released", !.light = TRUE]
        /\ UNCHANGED <<vars, apps, bppc, torque, splitFor>>
    BY <1>6 DEF BseFailedPass, BseFails
  <2>2. /\ bse' \in [fault : BOOLEAN, brake : Brake, light : BOOLEAN, timer : 0 .. Off,
                     next : Brake \union {Idle}]
        /\ bse'.fault /\ bse'.next = Idle /\ bse'.timer = bse.timer
    BY <2>1, <1>b DEF Brake
  <2>3. DriverTypeOK'
    BY <2>1, <2>2, <1>t, BseEnds, FollowType DEF DriverTypeOK, BothCap, Off
  <2>4. UnderWay' /\ FaultFirst' /\ TimerRuns' /\ SplitIsFaulted'
    BY <2>1, <2>2, <1>t DEF UnderWay, FaultFirst, TimerRuns, SplitIsFaulted, Off, Idle
  <2>5. QED
    BY <1>i, <2>3, <2>4 DEF DriverInv
<1>7. ASSUME NEW inRange \in BOOLEAN, NEW split \in BOOLEAN, NEW brake \in Brake,
             BseFaultPass(inRange, split, brake)
      PROVE  DriverInv'
  <2> DEFINE timer == Elapsed(bse.timer, split)
  <2>1. /\ First("bse") /\ bse.next = Idle
        /\ bse' = [bse EXCEPT !.fault = ~inRange \/ timer = SplitLimit,
                              !.timer = timer, !.next = brake]
        /\ faulted' = (faulted \/ bse'.fault)
        /\ splitFor' = IF ~split THEN Off ELSE IF splitFor = Off THEN 0 ELSE splitFor
        /\ UNCHANGED <<vars, tickVars, apps, bppc, torque, bothFor, pressed>>
    BY <1>7 DEF BseFaultPass
  <2>2. timer \in 0 .. Off
    BY <1>b, TimerType
  <2>3. /\ bse' \in [fault : BOOLEAN, brake : Brake, light : BOOLEAN, timer : 0 .. Off,
                     next : Brake \union {Idle}]
        /\ bse'.fault = (~inRange \/ timer = SplitLimit) /\ bse'.timer = timer
    <3> HIDE DEF timer
    <3>1. QED
      BY <2>1, <2>2, <1>b
  <2>4. splitFor' # Off => timer # Off /\ splitFor' <= timer
    BY <2>1, <1>n, <1>b, <1>t DEF TimerRuns, Elapsed, Off
  <2>5. splitFor' = SplitLimit => bse'.fault
    BY <2>2, <2>3, <2>4, <1>n
  <2>6. DriverTypeOK'
    <3>1. splitFor' \in 0 .. Off
      BY <2>1, <1>n
    <3>2. faulted' \in BOOLEAN
      BY <2>1
    <3>3. QED
      BY <2>1, <2>3, <3>1, <3>2, <1>t DEF DriverTypeOK, tickVars, BothCap, Off
  <2>7. UnderWay' /\ FaultFirst' /\ TimerRuns' /\ SplitIsFaulted'
    BY <2>1, <2>3, <2>4, <2>5
    DEF First, UnderWay, FaultFirst, TimerRuns, SplitIsFaulted, tickVars, Off, Idle
  <2>8. QED
    BY <1>i, <2>6, <2>7 DEF DriverInv
<1>8. CASE BseBrakePass
  <2>1. /\ bse.next # Idle /\ Ends("bse") /\ FollowPedals
        /\ pressed' = (bse.next # "released")
        /\ bse' = [bse EXCEPT !.brake = bse.next, !.next = Idle,
                              !.light = bse.fault \/ bse.next # "released"]
        /\ UNCHANGED <<vars, apps, bppc, torque, faulted, splitFor>>
    BY <1>8 DEF BseBrakePass, BseLight
  <2>2. /\ bse' \in [fault : BOOLEAN, brake : Brake, light : BOOLEAN, timer : 0 .. Off,
                     next : Brake \union {Idle}]
        /\ bse'.fault = bse.fault /\ bse'.next = Idle /\ bse'.timer = bse.timer
    BY <2>1, <1>b
  <2>3. DriverTypeOK'
    BY <2>1, <2>2, <1>t, BseEnds, FollowType DEF DriverTypeOK, BothCap, Off
  <2>4. SplitIsFaulted'
    BY <2>1, <2>2, <1>t, BseEnds DEF FaultFirst, SplitIsFaulted
  <2>5. UnderWay' /\ FaultFirst' /\ TimerRuns'
    BY <2>1, <2>2, <1>t DEF UnderWay, FaultFirst, TimerRuns, Off, Idle
  <2>6. QED
    BY <1>i, <2>3, <2>4, <2>5 DEF DriverInv
<1>9. ASSUME UNCHANGED <<tickVars, inputVars, seenVars>>
      PROVE  DriverInv'
  <2>1. DriverTypeOK'
    BY <1>9, <1>t DEF DriverTypeOK, tickVars, inputVars, seenVars, BothCap, Off
  <2>2. UnderWay' /\ FaultFirst' /\ TimerRuns' /\ SplitIsFaulted'
    BY <1>9, BseAlone DEF tickVars, inputVars, seenVars
  <2>3. QED
    BY <1>i, <2>1, <2>2 DEF DriverInv
<1>10. CASE ErrorTakes
  BY <1>9, <1>10 DEF ErrorTakes
<1>11. CASE UNCHANGED driverVars
  BY <1>9, <1>11 DEF driverVars
<1>12. QED
  BY <1>1, <1>2, <1>3, <1>4, <1>5, <1>6, <1>7, <1>8, <1>10, <1>11 DEF DriverNext

\* The variables of the pedal tasks keep their types.
THEOREM DriverTypeCorrect == DriverSpec => []DriverTypeOK
<1>1. DriverInv => DriverTypeOK
  BY DEF DriverInv
<1>2. QED
  BY <1>1, DriverInitInvariant, DriverNextInvariant, PTL DEF DriverSpec

\* Failed readings do not put off the fault of sensors that disagree.
THEOREM SplitIsFaultedHolds == DriverSpec => []SplitIsFaulted
<1>1. DriverInv => SplitIsFaulted
  BY DEF DriverInv
<1>2. QED
  BY <1>1, DriverInitInvariant, DriverNextInvariant, PTL DEF DriverSpec

-------------------------------------------------------------------------------
(* The brake an RTD sample sees.                                           *)

\* While RTD is due no pass of BSE goes on, and one under way is a late one.
RtdFirst ==
  "rtd" \in due =>
    /\ "bse" \in due /\ rtdIn = RtdPeriod - 1
    /\ bse.next # Idle => "bse" \in late

\* A fault found by a pass under way is remembered, unless RTD ran just now.
FaultRemembered ==
  bse.next # Idle /\ bse.fault /\ ~faulted =>
    "rtd" \notin due /\ rtdIn = RtdPeriod - 1 /\ "bse" \in late

\* A light that neither a pressed brake nor a fault explains is one that was lit
\* for a fault before the last sample; BSE replaces it before the next.
LightExplained ==
  bse.light /\ ~pressed /\ ~faulted =>
    /\ "rtd" \notin due
    /\ \/ rtdIn = RtdPeriod - 1 /\ "bse" \in due
       \/ rtdIn = RtdPeriod - 2 /\ "bse" \in late

BrakeInv == RtdFirst /\ FaultRemembered /\ LightExplained

\* A pass of a task that is not RTD or BSE.
LEMMA BrakeAlone ==
  ASSUME BrakeInv, UNCHANGED <<bse, pressed, faulted, rtdIn>>,
         "rtd" \in due' <=> "rtd" \in due, "bse" \in due' <=> "bse" \in due,
         "bse" \in late' <=> "bse" \in late
  PROVE  BrakeInv'
BY DEF BrakeInv, RtdFirst, FaultRemembered, LightExplained, Idle

LEMMA BrakeInitInvariant == DriverInit => BrakeInv
BY DEF DriverInit, BrakeInv, RtdFirst, FaultRemembered, LightExplained, Idle

LEMMA BrakeInvariant ==
  ASSUME RtdPeriod > 1, DriverInv, BrakeInv, [DriverNext]_driverVars
  PROVE  BrakeInv'
<1>b. /\ bse \in [fault : BOOLEAN, brake : Brake, light : BOOLEAN, timer : 0 .. Off,
                  next : Brake \union {Idle}]
      /\ UnderWay /\ late \subseteq due /\ rtdIn \in 0 .. RtdPeriod - 1
      /\ RtdPeriod \in Nat
  BY PeriodAssumption DEF DriverInv, DriverTypeOK
<1>1. CASE Tick
  <2>1. /\ due \subseteq {"bppc", "bse"} \ late
        /\ late' = due
        /\ "rtd" \in due' => rtdIn = 0
        /\ "bse" \in due'
        /\ rtdIn' = IF rtdIn = 0 THEN RtdPeriod - 1 ELSE rtdIn - 1
        /\ bse' = [bse EXCEPT !.timer = Pass(bse.timer)]
        /\ UNCHANGED <<pressed, faulted>>
    BY <1>1 DEF Tick
  <2>2. bse'.next = bse.next /\ bse'.fault = bse.fault /\ bse'.light = bse.light
    BY <2>1, <1>b
  <2>3. "bse" \notin late
    BY <2>1, <1>b
  <2>4. RtdFirst'
    BY <2>1, <2>2, <1>b DEF RtdFirst, UnderWay, Idle
  <2>5. FaultRemembered'
    BY <2>1, <2>2, <2>3 DEF BrakeInv, FaultRemembered, Idle
  <2>6. LightExplained'
    BY <2>1, <2>2, <2>3, <1>b DEF BrakeInv, LightExplained
  <2>7. QED
    BY <2>4, <2>5, <2>6 DEF BrakeInv
<1>2. ASSUME NEW tsalLine, NEW okLine, NEW button, NEW others,
             RtdPass(tsalLine, okLine, button, others)
      PROVE  BrakeInv'
  <2>1. /\ "rtd" \in due /\ due' = due \ {"rtd"} /\ late' = late \ {"rtd"}
        /\ UNCHANGED <<bse, pressed, rtdIn>>
    BY <1>2 DEF RtdPass, First, Ends, inputVars
  <2>2. QED
    BY <2>1 DEF BrakeInv, RtdFirst, FaultRemembered, LightExplained, Idle
<1>3. ASSUME NEW valid, NEW split, NEW others, NEW throttle,
             AppsPass(valid, split, throttle, others)
      PROVE  BrakeInv'
  <2>1. /\ due' = due \ {"apps"} /\ late' = late \ {"apps"}
        /\ UNCHANGED <<bse, pressed, faulted, rtdIn>>
    BY <1>3 DEF AppsPass, Ends
  <2>2. QED
    BY <2>1, BrakeAlone
<1>4. CASE BppcRead
  BY <1>4, BrakeAlone DEF BppcRead, tickVars, seenVars
<1>5. CASE BppcWrite
  <2>1. /\ due' = due \ {"bppc"} /\ late' = late \ {"bppc"}
        /\ UNCHANGED <<bse, pressed, faulted, rtdIn>>
    BY <1>5 DEF BppcWrite, Ends, seenVars
  <2>2. QED
    BY <2>1, BrakeAlone
<1>6. CASE BseFailedPass
  <2>1. /\ "rtd" \notin due /\ bse.next = Idle
        /\ bse' = [bse EXCEPT !.fault = TRUE, !.brake = "released", !.light = TRUE]
        /\ faulted' = TRUE
        /\ due' \subseteq due
    BY <1>6 DEF BseFailedPass, BseFails, First, Ends
  <2>2. bse'.next = Idle
    BY <2>1, <1>b
  <2>3. QED
    BY <2>1, <2>2 DEF BrakeInv, RtdFirst, FaultRemembered, LightExplained
<1>7. ASSUME NEW inRange, NEW split, NEW brake, BseFaultPass(inRange, split, brake)
      PROVE  BrakeInv'
  <2> DEFINE timer == Elapsed(bse.timer, split)
             fault == ~inRange \/ timer = SplitLimit
  <2>1. /\ "rtd" \notin due
        /\ bse' = [bse EXCEPT !.fault = fault, !.timer = timer, !.next = brake]
        /\ faulted' = (faulted \/ bse'.fault)
        /\ UNCHANGED <<due, late, rtdIn, pressed>>
    BY <1>7 DEF BseFaultPass, First, tickVars
  <2>2. bse'.light = bse.light
    <3> HIDE DEF timer, fault
    <3>1. QED
      BY <2>1, <1>b
  <2>3. ~faulted' => ~faulted /\ ~bse'.fault
    BY <2>1
  <2>4. QED
    BY <2>1, <2>2, <2>3 DEF BrakeInv, RtdFirst, FaultRemembered, LightExplained
<1>8. CASE BseBrakePass
  <2>1. /\ "rtd" \notin due /\ bse.next # Idle
        /\ bse' = [bse EXCEPT !.brake = bse.next, !.next = Idle,
                              !.light = bse.fault \/ bse.next # "released"]
        /\ pressed' = (bse.next # "released")
        /\ due' = IF "bse" \in late THEN due ELSE due \ {"bse"}
        /\ UNCHANGED <<faulted, rtdIn>>
    BY <1>8 DEF BseBrakePass, BseLight, First, Ends
  <2>2. bse'.next = Idle /\ bse'.light = (bse.fault \/ bse.next # "released")
    BY <2>1, <1>b
  <2>3. LightExplained'
    BY <2>1, <2>2, <1>b DEF BrakeInv, FaultRemembered, LightExplained
  <2>4. QED
    BY <2>1, <2>2, <2>3 DEF BrakeInv, RtdFirst, FaultRemembered
<1>9. CASE ErrorTakes \/ UNCHANGED driverVars
  BY <1>9, BrakeAlone DEF ErrorTakes, driverVars, tickVars, inputVars, seenVars
<1>10. QED
  BY <1>1, <1>2, <1>3, <1>4, <1>5, <1>6, <1>7, <1>8, <1>9 DEF DriverNext

\* Only its own pass ends that of RTD; its sample counts only with the light lit.
LEMMA SampleSawBrake ==
  ASSUME BrakeInv, [DriverNext]_driverVars, "rtd" \in due \ due', armedFor' # Unarmed
  PROVE  pressed \/ faulted
<1>1. ASSUME NEW tsalLine, NEW okLine, NEW button, NEW others,
             RtdPass(tsalLine, okLine, button, others)
      PROVE  pressed \/ faulted
  <2>1. bse.light
    BY <1>1 DEF RtdPass, Remember
  <2>2. QED
    BY <2>1 DEF BrakeInv, LightExplained
<1>2. ASSUME NEW task \in {"apps", "bppc", "bse"}, Ends(task)
      PROVE  FALSE
  BY <1>2 DEF Ends
<1>3. CASE Tick
  BY <1>3 DEF Tick
<1>4. ASSUME due' = due
      PROVE  FALSE
  BY <1>4
<1>5. ASSUME NEW valid, NEW split, NEW others, NEW throttle,
             AppsPass(valid, split, throttle, others)
      PROVE  FALSE
  BY <1>2, <1>5 DEF AppsPass
<1>6. CASE BppcWrite \/ BseFailedPass \/ BseBrakePass
  BY <1>2, <1>6 DEF BppcWrite, BseFailedPass, BseBrakePass
<1>7. ASSUME NEW inRange, NEW split, NEW brake, BseFaultPass(inRange, split, brake)
      PROVE  FALSE
  BY <1>4, <1>7 DEF BseFaultPass, tickVars
<1>8. CASE BppcRead \/ ErrorTakes \/ UNCHANGED driverVars
  BY <1>4, <1>8 DEF BppcRead, ErrorTakes, driverVars, tickVars
<1>9. QED
  BY <1>1, <1>3, <1>5, <1>6, <1>7, <1>8 DEF DriverNext

\* Drive is not enabled without the brake unless BSE has a fault before every
\* sample, for every period of RTD above that of BSE (bse_task.c:109-113).
THEOREM StartSawBrakeHolds ==
  ASSUME RtdPeriod > 1
  PROVE  DriverSpec => StartSawBrake
<1>1. DriverInit => DriverInv /\ BrakeInv
  BY DriverInitInvariant, BrakeInitInvariant
<1>2. DriverInv /\ BrakeInv /\ [DriverNext]_driverVars => (DriverInv /\ BrakeInv)'
  BY DriverNextInvariant, BrakeInvariant
<1>3. DriverInv /\ BrakeInv /\ [DriverNext]_driverVars
        => [("rtd" \in due \ due') /\ armedFor' # Unarmed => pressed \/ faulted]_driverVars
  BY SampleSawBrake
<1>4. QED
  BY <1>1, <1>2, <1>3, PTL DEF DriverSpec, StartSawBrake

-------------------------------------------------------------------------------
(* Both pedals pressed.                                                    *)

\* Ticks since BPPC was last due, and since RTD was.
BppcAgo == BppcPeriod - 1 - bppcIn
RtdAgo == RtdPeriod - 1 - rtdIn

\* Pedals that are not both pressed are counted from anew.
CountedAnew == ~BothPressed => bothFor = 0

\* A pass of BPPC that is due has not read the pedals, or ends within a tick.
BppcPlace ==
  /\ "bppc" \notin due => bppc.next = Idle
  /\ "bppc" \in due => BppcAgo = 0 \/ (BppcAgo = 1 /\ bppc.next # Idle /\ "bppc" \in late)

\* For how long both can have been pressed without a fault: before a pass has
\* read them, while it is to write it, and since it wrote.
Detected ==
  \/ bppc.fault /\ "bppc" \notin due
  \/ bothFor <= BppcAgo
  \/ "bppc" \in due /\ bppc.next = "fault" /\ (bppc.fault \/ bothFor <= BppcPeriod + BppcAgo)
  \/ "bppc" \in due /\ bppc.next = Idle /\ (bppc.fault \/ bothFor <= BppcPeriod)

\* Torque and drive go on until the next pass of APPS and of RTD.
TorqueEnds ==
  torque => bothFor <= BppcPeriod + 1 + (IF "apps" \in due THEN 1 ELSE 0)
DriveEnds ==
  mode = "ENABLED" =>
    bothFor <= BppcPeriod + 1 + (IF "rtd" \in due THEN RtdPeriod ELSE RtdAgo)

ConflictInv ==
  CountedAnew /\ BppcPlace /\ Detected /\ TorqueEnds /\ DriveEnds

LEMMA ConflictTypes ==
  ASSUME DriverInv
  PROVE  /\ BppcPeriod \in Nat \ {0} /\ RtdPeriod \in Nat \ {0}
         /\ bppcIn \in 0 .. BppcPeriod - 1 /\ rtdIn \in 0 .. RtdPeriod - 1
         /\ bothFor \in Nat
         /\ bppc \in [fault : BOOLEAN, next : {"fault", "clear", Idle}]
         /\ late \subseteq due
         /\ "fault" # Idle /\ "clear" # Idle
BY PeriodAssumption DEF DriverInv, DriverTypeOK, BothCap, Idle

\* Without a fault both pedals have not been pressed for long.
LEMMA NoFaultYet ==
  ASSUME DriverInv, ConflictInv, BppcPeriod > 1, ~bppc.fault
  PROVE  bothFor <= BppcPeriod + 1
BY ConflictTypes DEF ConflictInv, Detected, BppcPlace, BppcAgo

LEMMA ConflictInitInvariant == DriverInit => ConflictInv
<1> SUFFICES ASSUME DriverInit PROVE ConflictInv
  OBVIOUS
<1>1. bothFor = 0 /\ bppcIn = 0 /\ due = {} /\ torque = FALSE /\ mode = "AWAIT_TSAL"
  BY DEF DriverInit, Init
<1>2. BppcPeriod \in Nat \ {0} /\ bppc.next = Idle
  BY PeriodAssumption DEF DriverInit
<1>3. QED
  BY <1>1, <1>2
  DEF ConflictInv, CountedAnew, BppcPlace, Detected, TorqueEnds, DriveEnds, BppcAgo

\* A pass of a task that publishes a pedal.
LEMMA PedalPublished ==
  ASSUME DriverInv, ConflictInv, FollowPedals,
         UNCHANGED <<bppc, bppcIn>>,
         "bppc" \in due' <=> "bppc" \in due, "bppc" \in late' <=> "bppc" \in late
  PROVE  /\ CountedAnew' /\ BppcPlace' /\ Detected'
         /\ bothFor' <= bothFor
BY ConflictTypes
DEF FollowPedals, ConflictInv, CountedAnew, BppcPlace, Detected, BppcAgo, Idle

\* A step that leaves the pedals and BPPC alone.
LEMMA ConflictAlone ==
  ASSUME ConflictInv, UNCHANGED <<apps, bse, bothFor, bppc, bppcIn>>,
         "bppc" \in due' <=> "bppc" \in due, "bppc" \in late' <=> "bppc" \in late
  PROVE  CountedAnew' /\ BppcPlace' /\ Detected'
BY DEF ConflictInv, CountedAnew, BothPressed, BppcPlace, Detected, BppcAgo, Idle

\* What a pass of another task leaves of torque and drive.
LEMMA OutputsAlone ==
  ASSUME DriverInv, ConflictInv, UNCHANGED <<torque, mode, rtdIn>>,
         bothFor' \in Nat, bothFor' <= bothFor,
         "apps" \in due' <=> "apps" \in due, "rtd" \in due' <=> "rtd" \in due
  PROVE  TorqueEnds' /\ DriveEnds'
BY ConflictTypes DEF ConflictInv, TorqueEnds, DriveEnds, RtdAgo

\* Drive goes on, or is begun, only by a pass that found no fault.
LEMMA EnabledIsClear ==
  ASSUME NEW tsalLine, NEW okLine, NEW button, NEW brake, NEW clear,
         RtdTask(tsalLine, okLine, button, brake, clear), mode' = "ENABLED"
  PROVE  clear
BY DEF RtdTask, Proceed, Press, Buzz

LEMMA ConflictInvariant ==
  ASSUME BppcPeriod > 1, DriverInv, ConflictInv, [DriverNext]_driverVars
  PROVE  ConflictInv'
<1>d. DriverInv'
  BY DriverNextInvariant
<1>n. bothFor' \in Nat
  BY <1>d, PeriodAssumption DEF DriverInv, DriverTypeOK, BothCap
<1>1. CASE Tick
  <2>1. /\ due \subseteq {"bppc", "bse"} \ late
        /\ "bppc" \in due => bppc.next # Idle
        /\ late' = due
        /\ "rtd" \in due' <=> rtdIn = 0
        /\ "bppc" \in due' <=> bppcIn = 0 \/ "bppc" \in due
        /\ "apps" \in due'
        /\ rtdIn' = IF rtdIn = 0 THEN RtdPeriod - 1 ELSE rtdIn - 1
        /\ bppcIn' = IF bppcIn = 0 THEN BppcPeriod - 1 ELSE bppcIn - 1
        /\ bothFor' = IF BothPressed THEN Cap(BothCap, bothFor + 1) ELSE 0
        /\ UNCHANGED <<vars, bppc, torque>>
    BY <1>1 DEF Tick
  <2>2. BothPressed' = BothPressed
    <3>1. apps' = [apps EXCEPT !.timer = Pass(apps.timer)]
          /\ bse' = [bse EXCEPT !.timer = Pass(bse.timer)]
      BY <1>1 DEF Tick
    <3>2. apps \in [fault : BOOLEAN, throttle : Throttle, timer : 0 .. Off]
          /\ bse \in [fault : BOOLEAN, brake : Brake, light : BOOLEAN, timer : 0 .. Off,
                      next : Brake \union {Idle}]
      BY DEF DriverInv, DriverTypeOK
    <3>3. QED
      BY <3>1, <3>2 DEF BothPressed
  <2>3. bothFor' <= bothFor + 1
    BY <2>1, ConflictTypes, PeriodAssumption DEF Cap, BothCap
  <2>4. "bppc" \notin due \/ (bppc.next # Idle /\ BppcAgo = 0)
    BY <2>1 DEF ConflictInv, BppcPlace
  <2>5. CountedAnew'
    BY <2>1, <2>2 DEF CountedAnew
  <2>6. ASSUME bppcIn = 0 PROVE BppcPlace' /\ Detected'
    <3>1. "bppc" \notin due /\ BppcAgo = BppcPeriod - 1 /\ BppcAgo' = 0
      BY <2>1, <2>4, <2>6, ConflictTypes DEF BppcAgo
    <3>2. bppc.fault \/ bothFor' <= BppcPeriod
      BY <2>3, <3>1, ConflictTypes, <1>n DEF ConflictInv, Detected
    <3>3. bppc'.next = Idle
      BY <2>1, <3>1 DEF ConflictInv, BppcPlace
    <3>4. QED
      BY <2>1, <2>6, <3>1, <3>2, <3>3 DEF BppcPlace, Detected
  <2>7. ASSUME bppcIn # 0 PROVE BppcPlace' /\ Detected'
    <3>1. BppcAgo' = BppcAgo + 1 /\ BppcAgo \in Nat
      BY <2>1, <2>7, ConflictTypes DEF BppcAgo
    <3>2. BppcPlace'
      BY <2>1, <2>4, <2>7, <3>1 DEF ConflictInv, BppcPlace
    <3>3. ("bppc" \in due' <=> "bppc" \in due) /\ bppc' = bppc
      BY <2>1, <2>7
    <3>4. Detected'
      <4>1. CASE bothFor <= BppcAgo
        BY <2>3, <3>1, <4>1, <1>n, ConflictTypes DEF Detected
      <4>2. CASE "bppc" \in due /\ bppc.next = "fault" /\ bppc.fault
        BY <3>3, <4>2 DEF Detected
      <4>3. CASE "bppc" \in due /\ bppc.next = "fault" /\ bothFor <= BppcPeriod + BppcAgo
        BY <2>3, <3>1, <3>3, <4>3, <1>n, ConflictTypes DEF Detected
      <4>4. CASE bppc.fault /\ "bppc" \notin due
        BY <3>3, <4>4 DEF Detected
      <4>5. QED
        BY <2>4, <4>1, <4>2, <4>3, <4>4, ConflictTypes DEF ConflictInv, Detected
    <3>5. QED
      BY <3>2, <3>4
  <2>8. TorqueEnds'
    BY <2>1, <2>3, <1>n, ConflictTypes DEF ConflictInv, TorqueEnds
  <2>9. DriveEnds'
    BY <2>1, <2>3, <1>n, ConflictTypes DEF ConflictInv, DriveEnds, RtdAgo, vars, taskVars
  <2>10. QED
    BY <2>5, <2>6, <2>7, <2>8, <2>9 DEF ConflictInv
<1>2. ASSUME NEW tsalLine \in BOOLEAN, NEW okLine \in BOOLEAN, NEW button \in BOOLEAN,
             NEW others \in BOOLEAN, RtdPass(tsalLine, okLine, button, others)
      PROVE  ConflictInv'
  <2>1. /\ due' = due \ {"rtd"} /\ late' = late \ {"rtd"}
        /\ RtdTask(tsalLine, okLine, button, bse.light, others /\ PedalsClear)
        /\ UNCHANGED <<apps, bse, bppc, torque, bothFor, rtdIn, bppcIn>>
    BY <1>2 DEF RtdPass, Ends, inputVars
  <2>2. CountedAnew' /\ BppcPlace' /\ Detected'
    BY <2>1, ConflictAlone
  <2>3. TorqueEnds'
    BY <2>1 DEF ConflictInv, TorqueEnds
  <2>4. mode' = "ENABLED" => bothFor <= BppcPeriod + 1
    BY <2>1, EnabledIsClear, NoFaultYet DEF PedalsClear
  <2>5. DriveEnds'
    BY <2>1, <2>4, ConflictTypes DEF DriveEnds, RtdAgo
  <2>6. QED
    BY <2>2, <2>3, <2>5 DEF ConflictInv
<1>3. ASSUME NEW valid, NEW split, NEW others, NEW throttle,
             AppsPass(valid, split, throttle, others)
      PROVE  ConflictInv'
  <2>1. /\ due' = due \ {"apps"} /\ late' = late \ {"apps"}
        /\ torque' => ~bppc.fault
        /\ FollowPedals
        /\ UNCHANGED <<vars, bppc, rtdIn, bppcIn>>
    BY <1>3 DEF AppsPass, Ends
  <2>2. CountedAnew' /\ BppcPlace' /\ Detected' /\ bothFor' <= bothFor
    BY <2>1, PedalPublished
  <2>3. TorqueEnds'
    BY <2>1, <2>2, <1>n, NoFaultYet, ConflictTypes DEF TorqueEnds
  <2>4. DriveEnds'
    BY <2>1, <2>2, <1>n, ConflictTypes DEF ConflictInv, DriveEnds, RtdAgo, vars, taskVars
  <2>5. QED
    BY <2>2, <2>3, <2>4 DEF ConflictInv
<1>4. CASE BppcRead
  <2>1. /\ "bppc" \in due /\ bppc.next = Idle
        /\ bppc' = [bppc EXCEPT !.next = IF BppcVerdict THEN "fault" ELSE "clear"]
        /\ UNCHANGED <<vars, due, late, rtdIn, bppcIn, apps, bse, torque, bothFor>>
    BY <1>4 DEF BppcRead, First, tickVars, seenVars
  <2>2. /\ bppc'.fault = bppc.fault
        /\ bppc'.next = IF BppcVerdict THEN "fault" ELSE "clear"
    BY <2>1, ConflictTypes
  <2>3. BppcAgo = 0 /\ BppcAgo' = BppcAgo
    BY <2>1 DEF ConflictInv, BppcPlace, BppcAgo
  <2>4. ~BppcVerdict => bothFor = 0
    BY DEF BppcVerdict, BothPressed, ConflictInv, CountedAnew
  <2>5. Detected'
    BY <2>1, <2>2, <2>3, <2>4, ConflictTypes DEF ConflictInv, Detected
  <2>6. CountedAnew' /\ BppcPlace'
    BY <2>1, <2>3 DEF ConflictInv, CountedAnew, BothPressed, BppcPlace
  <2>7. QED
    BY <2>1, <2>5, <2>6, <1>n, OutputsAlone, ConflictTypes DEF ConflictInv, vars, taskVars
<1>5. CASE BppcWrite
  <2>1. /\ "bppc" \in due /\ bppc.next # Idle
        /\ bppc' = [fault |-> bppc.next = "fault", next |-> Idle]
        /\ due' = due \ {"bppc"} /\ late' = late \ {"bppc"}
        /\ UNCHANGED <<vars, rtdIn, bppcIn, apps, bse, torque, bothFor>>
    BY <1>5 DEF BppcWrite, First, Ends, seenVars
  <2>2. bppc'.fault = (bppc.next = "fault") /\ bppc'.next = Idle
    BY <2>1
  <2>3. BppcAgo' = BppcAgo
    BY <2>1 DEF BppcAgo
  <2>4. Detected'
    BY <2>1, <2>2, <2>3 DEF ConflictInv, Detected
  <2>5. CountedAnew' /\ BppcPlace'
    BY <2>1, <2>2 DEF ConflictInv, CountedAnew, BothPressed, BppcPlace
  <2>6. QED
    BY <2>1, <2>4, <2>5, <1>n, OutputsAlone, ConflictTypes DEF ConflictInv, vars, taskVars
<1>6. CASE BseFailedPass \/ BseBrakePass
  <2>1. /\ due' = IF "bse" \in late THEN due ELSE due \ {"bse"}
        /\ late' = late \ {"bse"}
        /\ FollowPedals
        /\ UNCHANGED <<vars, bppc, torque, rtdIn, bppcIn>>
    BY <1>6 DEF BseFailedPass, BseBrakePass, Ends
  <2>2. CountedAnew' /\ BppcPlace' /\ Detected' /\ bothFor' <= bothFor
    BY <2>1, PedalPublished
  <2>3. QED
    BY <2>1, <2>2, <1>n, OutputsAlone DEF ConflictInv, vars, taskVars
<1>7. ASSUME NEW inRange, NEW split, NEW brake, BseFaultPass(inRange, split, brake)
      PROVE  ConflictInv'
  <2> DEFINE timer == Elapsed(bse.timer, split)
             fault == ~inRange \/ timer = SplitLimit
  <2>1. /\ bse' = [bse EXCEPT !.fault = fault, !.timer = timer, !.next = brake]
        /\ UNCHANGED <<vars, due, late, rtdIn, bppcIn, apps, bppc, torque, bothFor>>
    BY <1>7 DEF BseFaultPass, tickVars
  <2>2. bse'.brake = bse.brake
    <3> HIDE DEF timer, fault
    <3>1. QED
      BY <2>1 DEF DriverInv, DriverTypeOK
  <2>3. CountedAnew' /\ BppcPlace' /\ Detected'
    BY <2>1, <2>2
    DEF ConflictInv, CountedAnew, BothPressed, BppcPlace, Detected, BppcAgo, Idle
  <2>4. QED
    BY <2>1, <2>3, <1>n, OutputsAlone, ConflictTypes DEF ConflictInv, vars, taskVars
<1>8. CASE ErrorTakes \/ UNCHANGED driverVars
  <2>1. UNCHANGED <<mode, due, late, rtdIn, bppcIn, apps, bse, bppc, torque, bothFor>>
    BY <1>8 DEF ErrorTakes, TakeRequest, driverVars, vars, taskVars, tickVars, inputVars,
                seenVars
  <2>2. CountedAnew' /\ BppcPlace' /\ Detected'
    BY <2>1, ConflictAlone
  <2>3. QED
    BY <2>1, <2>2, <1>n, OutputsAlone, ConflictTypes DEF ConflictInv
<1>9. QED
  BY <1>1, <1>2, <1>3, <1>4, <1>5, <1>6, <1>7, <1>8 DEF DriverNext

\* Both pedals pressed end torque and drive within the periods of the tasks and
\* the two ticks BPPC may be late, for all periods (ECU_HARDWARE_BRINGUP.md:65).
THEOREM ConflictEndsDriveHolds ==
  ASSUME BppcPeriod > 1
  PROVE  DriverSpec => []ConflictEndsDrive
<1>1. DriverInit => DriverInv /\ ConflictInv
  BY DriverInitInvariant, ConflictInitInvariant
<1>2. DriverInv /\ ConflictInv /\ [DriverNext]_driverVars => (DriverInv /\ ConflictInv)'
  BY DriverNextInvariant, ConflictInvariant
<1>3. DriverInv /\ ConflictInv => ConflictEndsDrive
  BY ConflictTypes
  DEF ConflictInv, TorqueEnds, DriveEnds, ConflictEndsDrive, RtdAgo
<1>4. QED
  BY <1>1, <1>2, <1>3, PTL DEF DriverSpec

===============================================================================
