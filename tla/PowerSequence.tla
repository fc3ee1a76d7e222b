----------------------------- MODULE PowerSequence -----------------------------
(***************************************************************************)
(* The error task (Core/Src/tasks/error_task.c): it filters the discrete   *)
(* fault lines, sequences the power of the CM200, supervises its feedback, *)
(* holds the trip pulse of the RTD task and drives Firmware_OK.            *)
(*                                                                         *)
(* Each step of the task is one of its periods, and every tick it keeps is *)
(* held as the number of periods since, up to the largest one compared.    *)
(* The vehicle profile is modelled: the other profiles inhibit all outputs.*)
(***************************************************************************)
EXTENDS Naturals

CONSTANTS
  Line,          \* the discrete fault lines: MTR_Fault, IMD, BMS, BSPD
  MotorLine,     \* MTR_Fault, which the CM200 drives
  ClearSamples,  \* ECU_DISCRETE_CLEAR_SAMPLES
  PowerDelay,    \* ECU_CM200_POWER_SEQUENCE_DELAY_MS
  Grace,         \* ECU_CM200_STARTUP_GRACE_MS
  TripPulse      \* ECU_RTD_TRIP_PULSE_MS

ASSUME SequenceAssumption ==
  /\ MotorLine \in Line
  /\ {ClearSamples, PowerDelay, TripPulse} \subseteq Nat \ {0}
  /\ Grace \in Nat

VARIABLES
  raised,      \* a fault flag of another task or an interrupt is up
  requested,   \* rtd_trip_pulse_requested
  samples,     \* healthy_samples of each line's filter
  cascadiaEn,  \* cascadia_en, MTR_EN
  cascadiaOn,  \* cascadia_on, Cascadia_ON
  enabledFor,  \* periods since cascadia_enable_tick
  supervisor,  \* ecu_cm200_supervisor_t
  pulse,       \* periods left of the trip pulse
  fwState,     \* fw_state, Firmware_OK
  flags,       \* what the task publishes: hard_fault, the faults of AMS, CAN
               \* and shutdown lines, cm200_fault, and not cm200_ready
  calm,        \* periods in a row without any fault, for the properties
  lineCalm,    \* the same for the raw discrete lines alone
  unheard      \* periods since the powered CM200 had healthy feedback

taskVars == <<samples, cascadiaEn, cascadiaOn, enabledFor, supervisor, pulse>>
outputVars == <<fwState, flags>>
historyVars == <<calm, lineCalm, unheard>>
vars == <<raised, requested, taskVars, outputVars, historyVars>>

-------------------------------------------------------------------------------
\* What the CM200 driver reports: no healthy feedback, an immediate fault,
\* healthy feedback, or feedback that also allows torque.
Cm200 == {"silent", "faulted", "healthy", "ready"}
Feedback == {"healthy", "ready"}

UpTo(bound, n) == IF n < bound THEN n ELSE bound
Longest == ClearSamples + PowerDelay + 1

NotPowered == [powered |-> FALSE, everReady |-> FALSE, startup |-> FALSE,
               runtime |-> FALSE, poweredFor |-> 0]

\* app_create
Init ==
  /\ raised = TRUE
  /\ requested = FALSE
  /\ samples = [l \in Line |-> 0]
  /\ cascadiaEn = FALSE
  /\ cascadiaOn = FALSE
  /\ enabledFor = 0
  /\ supervisor = NotPowered
  /\ pulse = 0
  /\ fwState = FALSE
  /\ flags = [hard |-> FALSE, comms |-> TRUE, cm200 |-> TRUE, unready |-> TRUE]
  /\ calm = 0
  /\ lineCalm = 0
  /\ unheard = 0

\* Another task or interrupt raises or clears a fault flag of its own.
SetRaised(up) ==
  /\ raised' = up
  /\ UNCHANGED <<requested, taskVars, outputVars, historyVars>>

\* The RTD task left RTD_ENABLED.
RequestTrip ==
  /\ requested' = TRUE
  /\ UNCHANGED <<raised, taskVars, outputVars, historyVars>>

-------------------------------------------------------------------------------
\* ecu_discrete_fault_update on every line; those in low read a fault.
FilterLines(low) ==
  samples' = [l \in Line |->
                IF l \in low THEN 0 ELSE UpTo(ClearSamples, samples[l] + 1)]

LineFault(l) == samples[l] < ClearSamples

Latched == supervisor.startup \/ supervisor.runtime

\* Faulty form: the enable tick is not taken when MTR_EN rises.
SequenceKeepsTick(allowed) ==
  /\ cascadiaEn' = allowed
  /\ cascadiaOn' = (allowed /\ cascadiaEn /\ enabledFor + 1 >= PowerDelay)
  /\ enabledFor' = IF allowed THEN UpTo(PowerDelay, enabledFor + 1) ELSE 0

\* MTR_EN comes up first, Cascadia_ON after it was up for the delay.
Sequence(allowed) ==
  /\ cascadiaEn' = allowed
  /\ cascadiaOn' = (allowed /\ cascadiaEn /\ enabledFor + 1 >= PowerDelay)
  /\ enabledFor' = IF allowed /\ cascadiaEn
                   THEN UpTo(PowerDelay, enabledFor + 1) ELSE 0

\* Faulty form: every period without feedback restarts the grace time.
SuperviseRestarts(on, cm) ==
  LET s == supervisor
  IN  IF ~on
      THEN IF Latched THEN s ELSE NotPowered
      ELSE [powered |-> TRUE, poweredFor |-> 0,
            everReady |-> s.everReady \/ cm \in Feedback,
            runtime |-> \/ s.runtime \/ cm = "faulted"
                        \/ cm = "silent" /\ s.everReady,
            startup |-> s.startup]

\* Faulty form: removing power clears the latches.
SuperviseForgets(on, cm) ==
  LET s == supervisor
      for == IF s.powered THEN UpTo(Grace + 1, s.poweredFor + 1) ELSE 0
  IN  IF ~on
      THEN NotPowered
      ELSE [powered |-> TRUE, poweredFor |-> for,
            everReady |-> s.everReady \/ cm \in Feedback,
            runtime |-> \/ s.runtime \/ cm = "faulted"
                        \/ cm = "silent" /\ s.everReady,
            startup |-> \/ s.startup
                        \/ cm = "silent" /\ ~s.everReady /\ for > Grace]

\* ecu_cm200_supervisor_update: the supervisor after it.
Supervise(on, cm) ==
  LET s == supervisor
      for == IF s.powered THEN UpTo(Grace + 1, s.poweredFor + 1) ELSE 0
  IN  IF ~on
      THEN IF Latched THEN s ELSE NotPowered
      ELSE [powered |-> TRUE, poweredFor |-> for,
            everReady |-> s.everReady \/ cm \in Feedback,
            runtime |-> \/ s.runtime \/ cm = "faulted"
                        \/ cm = "silent" /\ s.everReady,
            startup |-> \/ s.startup
                        \/ cm = "silent" /\ ~s.everReady /\ for > Grace]

\* Faulty form: a controller without power is no fault.
Cm200FaultWhenOn(on, cm) == on /\ (cm \notin Feedback \/ Latched')

\* Its result, once the supervisor is updated.
Cm200Fault(on, cm) == ~on \/ cm \notin Feedback \/ Latched'

\* A request of the RTD task is consumed and starts the pulse anew.
HoldTrip ==
  /\ pulse' = IF requested THEN TripPulse ELSE IF pulse > 0 THEN pulse - 1 ELSE 0
  /\ requested' = FALSE

-------------------------------------------------------------------------------
MotorFault == LineFault(MotorLine)
LinesFault == \E l \in Line \ {MotorLine} : LineFault(l)

\* Faulty form: missing feedback prevents powering the controller.
PowerFaultUnheard(hard, comms) ==
  hard \/ comms \/ raised \/ MotorFault' \/ LinesFault' \/ flags.cm200

\* ecu_faults_clear(&power_faults) is false, once the lines are filtered.
\* hard: coolant, clamp overrun, startup or heartbeat fault; comms: AMS or CAN.
PowerFault(hard, comms) == hard \/ comms \/ raised \/ MotorFault' \/ LinesFault'

\* One period of the task; the lines in low read a fault.
ErrorTask(low, hard, comms, cm) ==
  LET allowed == ~PowerFault(hard, comms) /\ ~Latched
      powered == allowed /\ cascadiaEn /\ enabledFor + 1 >= PowerDelay
      cm200Fault == Cm200Fault(powered, cm)
  IN  /\ FilterLines(low)
      /\ HoldTrip
      /\ supervisor' = Supervise(powered, cm)
      \* A latch set just now removes the power granted just now.
      /\ Sequence(allowed /\ ~Latched')
      /\ flags' = [hard |-> hard \/ MotorFault' \/ Latched',
                   comms |-> comms \/ LinesFault',
                   cm200 |-> cm200Fault,
                   unready |-> cm # "ready"]
      /\ fwState' = (/\ pulse' = 0
                     /\ ~PowerFault(hard, comms) /\ ~Latched' /\ ~cm200Fault)
      /\ UNCHANGED raised

\* What the properties remember of a period.
Remember(low, hard, comms, cm) ==
  /\ calm' = IF PowerFault(hard, comms) THEN 0 ELSE UpTo(Longest, calm + 1)
  /\ lineCalm' = IF low # {} THEN 0 ELSE UpTo(Longest, lineCalm + 1)
  /\ unheard' = IF ~cascadiaOn \/ cm \in Feedback THEN 0 ELSE UpTo(Grace + 2, unheard + 1)

Next ==
  \/ \E up \in BOOLEAN : SetRaised(up)
  \/ RequestTrip
  \/ \E low \in SUBSET Line, hard, comms \in BOOLEAN, cm \in Cm200 :
       ErrorTask(low, hard, comms, cm) /\ Remember(low, hard, comms, cm)

Spec == Init /\ [][Next]_vars

-------------------------------------------------------------------------------
TypeOK ==
  /\ raised \in BOOLEAN
  /\ requested \in BOOLEAN
  /\ samples \in [Line -> 0 .. ClearSamples]
  /\ cascadiaEn \in BOOLEAN
  /\ cascadiaOn \in BOOLEAN
  /\ enabledFor \in 0 .. PowerDelay
  /\ supervisor \in [powered : BOOLEAN, everReady : BOOLEAN, startup : BOOLEAN,
                     runtime : BOOLEAN, poweredFor : 0 .. Grace + 1]
  /\ pulse \in 0 .. TripPulse
  /\ fwState \in BOOLEAN
  /\ flags \in [hard : BOOLEAN, comms : BOOLEAN, cm200 : BOOLEAN, unready : BOOLEAN]
  /\ calm \in 0 .. Longest
  /\ lineCalm \in 0 .. Longest
  /\ unheard \in 0 .. Grace + 2

\* The CM200 is powered only after PowerDelay periods in a row without any
\* fault, and after every raw discrete line was good for ClearSamples more.
PowerIsEarned ==
  cascadiaOn => calm > PowerDelay /\ lineCalm >= ClearSamples + PowerDelay

\* It stays powered without healthy feedback for the startup grace at most,
\* and not at all once the feedback was healthy.
SilenceRemovesPower ==
  cascadiaOn => unheard = 0 \/ (~supervisor.everReady /\ unheard <= Grace)

\* Firmware_OK closes the shutdown circuit only while the CM200 is powered
\* with healthy feedback and no trip pulse is held.
FirmwareNeedsPower == fwState => cascadiaOn /\ unheard = 0 /\ pulse = 0

\* "The latches require an MCU reset" (CM200_CAN_CONTRACT_AND_BRINGUP.md:77):
\* no step clears them, powers the CM200 or closes the shutdown circuit.
LatchesHold ==
  [][Latched => Latched' /\ ~cascadiaEn' /\ ~cascadiaOn' /\ ~fwState']_vars

\* "Once feedback has been healthy, loss of a required frame, integrity
\* failure, controller reset, VSM fault/recycle state, or nonzero fault word
\* latches a runtime fault" (CM200_CAN_CONTRACT_AND_BRINGUP.md:75).
LossLatches ==
  [][cascadiaOn /\ supervisor.everReady /\ unheard' > unheard => Latched']_vars

===============================================================================
