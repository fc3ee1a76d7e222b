------------------------------ MODULE ReadyToDrive ------------------------------
(***************************************************************************)
(* The RTD task (Core/Src/tasks/rtd_task.c) and its state machine          *)
(* ecu_rtd_step (Core/Src/ext_drivers/ecu_safety.c).                       *)
(*                                                                         *)
(* A step is one period of the task: it samples the pins, filters TSAL and *)
(* the motor controller's OK line, and moves the mode.  buzz_start_tick is *)
(* held as the number of periods since.                                    *)
(***************************************************************************)
EXTENDS Naturals

CONSTANTS
  BuzzTime,       \* ECU_RTD_BUZZ_TIME_MS, in periods
  FilterSamples   \* samples before TSAL or OK count as up (3)

ASSUME RtdAssumption == {BuzzTime, FilterSamples} \subseteq Nat \ {0}

VARIABLES
  mode,       \* rtd_mode
  buzzFor,    \* periods since buzz_start_tick
  tsalUp,     \* healthy_samples of the TSAL filter
  motorOk,    \* healthy_samples of the OK filter
  requested,  \* rtd_trip_pulse_requested
  released,   \* the last sample had TSAL up and the button released
  armedFor    \* periods since a press after a release, with every condition
              \* met since, for the properties

taskVars == <<mode, buzzFor, tsalUp, motorOk>>
historyVars == <<released, armedFor>>
vars == <<taskVars, requested, historyVars>>

-------------------------------------------------------------------------------
Mode == {"AWAIT_TSAL", "AWAIT_BUTTON_FALSE", "AWAIT_CONDITIONS", "BUZZING",
         "ENABLED"}

Unarmed == BuzzTime + 1

Init ==
  /\ mode = "AWAIT_TSAL"
  /\ buzzFor = 0
  /\ tsalUp = 0
  /\ motorOk = 0
  /\ requested = FALSE
  /\ released = FALSE
  /\ armedFor = Unarmed

\* ecu_discrete_fault_update: the count of good samples after one more.
Sample(n, good) ==
  IF ~good THEN 0 ELSE IF n < FilterSamples THEN n + 1 ELSE n

\* The filtered TSAL and OK: tsal, cascadia_ok.
Tsal == tsalUp = FilterSamples
Ok == motorOk = FilterSamples

\* Faulty form: a press without the conditions is not consumed.
PressKept(button, conditions) ==
  /\ mode = "AWAIT_CONDITIONS"
  /\ \/ button /\ conditions /\ mode' = "BUZZING" /\ buzzFor' = 0
     \/ ~(button /\ conditions) /\ mode' = mode /\ UNCHANGED buzzFor

\* A press starts the sound if every condition is met, and is consumed if not.
Press(button, conditions) ==
  /\ mode = "AWAIT_CONDITIONS"
  /\ \/ button /\ conditions /\ mode' = "BUZZING" /\ buzzFor' = 0
     \/ button /\ ~conditions /\ mode' = "AWAIT_BUTTON_FALSE" /\ UNCHANGED buzzFor
     \/ ~button /\ mode' = mode /\ UNCHANGED buzzFor

\* The conditions must last through the sound; the button need not.
Buzz(conditions) ==
  /\ mode = "BUZZING"
  /\ \/ ~conditions /\ mode' = "AWAIT_BUTTON_FALSE" /\ UNCHANGED buzzFor
     \/ conditions /\ buzzFor + 1 >= BuzzTime /\ mode' = "ENABLED" /\ UNCHANGED buzzFor
     \/ conditions /\ buzzFor + 1 < BuzzTime /\ mode' = mode /\ buzzFor' = buzzFor + 1

\* ecu_rtd_step while TSAL is up.
Proceed(ok, button, brake, clear) ==
  \/ mode = "AWAIT_TSAL" /\ mode' = "AWAIT_BUTTON_FALSE" /\ UNCHANGED buzzFor
  \/ /\ mode = "AWAIT_BUTTON_FALSE"
     /\ mode' = IF button THEN mode ELSE "AWAIT_CONDITIONS"
     /\ UNCHANGED buzzFor
  \/ Press(button, ok /\ brake /\ clear)
  \/ Buzz(ok /\ brake /\ clear)
  \/ /\ mode = "ENABLED"
     /\ mode' = IF ok /\ clear THEN mode ELSE "AWAIT_BUTTON_FALSE"
     /\ UNCHANGED buzzFor

\* Faulty form: losing TSAL requests no trip.
RtdTaskSilentTsal(tsalLine, okLine, button, brake, clear) ==
  /\ tsalUp' = Sample(tsalUp, tsalLine)
  /\ motorOk' = Sample(motorOk, okLine)
  /\ \/ ~Tsal' /\ mode' = "AWAIT_TSAL" /\ UNCHANGED buzzFor
     \/ Tsal' /\ Proceed(Ok', button, brake, clear)
  /\ requested' = (requested \/ (mode = "ENABLED" /\ mode' = "AWAIT_BUTTON_FALSE"))

\* One period of the task: the raw TSAL and OK lines, the button and the brake
\* light, and whether every fault flag it reads is clear.
RtdTask(tsalLine, okLine, button, brake, clear) ==
  /\ tsalUp' = Sample(tsalUp, tsalLine)
  /\ motorOk' = Sample(motorOk, okLine)
  /\ \/ ~Tsal' /\ mode' = "AWAIT_TSAL" /\ UNCHANGED buzzFor
     \/ Tsal' /\ Proceed(Ok', button, brake, clear)
  /\ requested' = (requested \/ (mode = "ENABLED" /\ mode' # "ENABLED"))

\* What the property remembers of a period.
Remember(button, brake, clear) ==
  /\ released' = (Tsal' /\ ~button)
  /\ armedFor' = IF ~(Tsal' /\ Ok' /\ brake /\ clear) THEN Unarmed
                 ELSE IF armedFor # Unarmed
                 THEN IF armedFor < BuzzTime THEN armedFor + 1 ELSE armedFor
                 ELSE IF button /\ released THEN 0 ELSE Unarmed

\* The error task takes the request.
TakeRequest ==
  /\ requested
  /\ requested' = FALSE
  /\ UNCHANGED <<taskVars, historyVars>>

Next ==
  \/ \E tsalLine, okLine, button, brake, clear \in BOOLEAN :
       /\ RtdTask(tsalLine, okLine, button, brake, clear)
       /\ Remember(button, brake, clear)
  \/ TakeRequest

Spec == Init /\ [][Next]_vars

-------------------------------------------------------------------------------
TypeOK ==
  /\ mode \in Mode
  /\ buzzFor \in 0 .. BuzzTime - 1
  /\ tsalUp \in 0 .. FilterSamples
  /\ motorOk \in 0 .. FilterSamples
  /\ requested \in BOOLEAN
  /\ released \in BOOLEAN
  /\ armedFor \in 0 .. Unarmed

\* Drive is enabled only by a deliberate action: the button was released with
\* TSAL up, then pressed, and every condition was met at that sample and at
\* each of the next BuzzTime (ecu_safety.c:120-129).
DeliberateStart ==
  [][mode' = "ENABLED" /\ mode # "ENABLED" => armedFor' = BuzzTime]_vars

===============================================================================
