-------------------------------- MODULE Shutdown --------------------------------
(***************************************************************************)
(* The error task (PowerSequence) and the RTD task (ReadyToDrive) together *)
(* on the scheduler: the error task has the higher priority and may come   *)
(* between the reads of one pass of the RTD task, which then sees some     *)
(* fault flags from before it and some from after.  They share the fault   *)
(* flags and rtd_trip_pulse_requested.                                     *)
(*                                                                         *)
(* Each step of the error task is the next period of the clock.            *)
(***************************************************************************)
EXTENDS PowerSequence

CONSTANTS
  BuzzTime, FilterSamples,   \* of ReadyToDrive
  RtdPeriod   \* periods of the error task in one of the RTD task (2)

ASSUME ShutdownAssumption == RtdPeriod \in Nat \ {0}

VARIABLES
  mode, buzzFor, tsalUp, motorOk, released, armedFor,   \* of ReadyToDrive
  rtdAt,     \* RTD task: idle, reading, or torn by a period of the error task
  rtdAge,    \* periods of the error task since it woke
  early,     \* the fault flags when it woke
  cut,       \* the CM200 lost its power once: the driver takes its restarted
             \* timer for a reset, and reports a fault from then on
  steady,    \* nothing fails from now on
  lostFor,   \* periods since drive was lost, for the properties
  offFor     \* periods since the CM200 lost its power, for the properties

Rtd == INSTANCE ReadyToDrive

powerOwn == <<raised, taskVars, outputVars, historyVars>>
rtdOwn == <<mode, buzzFor, tsalUp, motorOk, released, armedFor>>
schedule == <<rtdAt, rtdAge, early>>
watched == <<lostFor, offFor>>
shutdownVars == <<powerOwn, requested, rtdOwn, schedule, cut, steady, watched>>

-------------------------------------------------------------------------------
LongLost == TripPulse + 1
LongOff == RtdPeriod + 2

ShutdownInit ==
  /\ Init
  /\ Rtd!Init
  /\ rtdAt = "idle" /\ rtdAge = 0 /\ early = {}
  /\ cut = FALSE
  /\ steady = FALSE
  /\ lostFor = LongLost
  /\ offFor = LongOff

\* The fault flags that are up, by the task that owns them.
Up == {f \in DOMAIN flags : flags[f]} \union {f \in {"raised"} : raised}

\* The RTD task may find no fault.  Of several flags behind one name it may
\* read each on the side where it is down; of a single one it sees either.
MayFindClear == early \intersect Up \subseteq {"comms", "raised"}
MayFindFault == early \union Up # {}

\* Another task or an interrupt, between two passes or under the RTD task.
FlagChanges ==
  /\ ~steady
  /\ \E up \in BOOLEAN : SetRaised(up)
  /\ UNCHANGED <<rtdOwn, schedule, cut, steady, watched>>

\* One period of the error task.  A pass of the RTD task that is due comes
\* before the next one, and lasts less than a period.
ErrorPeriod(low, hard, comms, cm) ==
  /\ rtdAt = "idle" => rtdAge < RtdPeriod
  /\ rtdAt # "torn"
  /\ ErrorTask(low, hard, comms, cm)
  /\ Remember(low, hard, comms, cm)
  /\ rtdAge' = rtdAge + 1
  /\ rtdAt' = IF rtdAt = "reading" THEN "torn" ELSE rtdAt
  /\ lostFor' = UpTo(LongLost, lostFor + 1)
  /\ offFor' = IF cascadiaOn' THEN 0 ELSE UpTo(LongOff, offFor + 1)
  /\ cut' = (cut \/ (cascadiaOn /\ ~cascadiaOn'))
  /\ UNCHANGED <<rtdOwn, early, steady>>

\* Once nothing fails, the CM200 answers when it is powered.
SteadyPeriod ==
  /\ steady
  /\ ErrorPeriod({}, FALSE, FALSE, IF cascadiaOn THEN "ready" ELSE "silent")

ErrorRuns ==
  \/ /\ ~steady
     /\ \E low \in SUBSET Line, hard, comms \in BOOLEAN, cm \in Cm200 :
          ErrorPeriod(low, hard, comms, cm)
  \/ SteadyPeriod

RtdWake ==
  /\ rtdAt = "idle" /\ rtdAge = RtdPeriod
  /\ rtdAt' = "reading" /\ rtdAge' = 0
  /\ early' = Up
  /\ UNCHANGED <<powerOwn, requested, rtdOwn, cut, steady, watched>>

\* The rest of its pass.
RtdPass(tsalLine, okLine, button, brake, clear) ==
  /\ rtdAt # "idle"
  /\ rtdAt = "reading" => clear = (Up = {})
  /\ rtdAt = "torn" => IF clear THEN MayFindClear ELSE MayFindFault
  /\ Rtd!RtdTask(tsalLine, okLine, button, brake, clear)
  /\ Rtd!Remember(button, brake, clear)
  /\ rtdAt' = "idle" /\ early' = {}
  /\ lostFor' = IF mode = "ENABLED" /\ mode' # "ENABLED" THEN 0 ELSE lostFor
  /\ UNCHANGED <<powerOwn, rtdAge, cut, steady, offFor>>

SteadyPass(button) ==
  /\ steady
  /\ \E clear \in BOOLEAN : RtdPass(TRUE, TRUE, button, TRUE, clear)

RtdTask ==
  \/ /\ ~steady
     /\ \E tsalLine, okLine, button, brake, clear \in BOOLEAN :
          RtdPass(tsalLine, okLine, button, brake, clear)
  \/ \E button \in BOOLEAN : SteadyPass(button)

\* From now on nothing fails, and the driver keeps the brake pressed.  Once
\* its power was cut the CM200 cannot be without fault (Cm200Feedback).
Settle ==
  /\ ~steady /\ ~raised /\ ~cut
  /\ steady' = TRUE
  /\ UNCHANGED <<powerOwn, requested, rtdOwn, schedule, cut, watched>>

ShutdownNext == FlagChanges \/ ErrorRuns \/ RtdWake \/ RtdTask \/ Settle

ShutdownSpec == ShutdownInit /\ [][ShutdownNext]_shutdownVars

\* Once nothing fails both tasks run, and the driver keeps releasing and pressing
\* the button.
Fairness ==
  /\ WF_shutdownVars(SteadyPeriod)
  /\ WF_shutdownVars(RtdWake)
  /\ SF_shutdownVars(SteadyPass(FALSE))
  /\ SF_shutdownVars(SteadyPass(TRUE))

FairSpec == ShutdownSpec /\ Fairness

-------------------------------------------------------------------------------
\* Every loss of drive opens the shutdown circuit for TripPulse periods, from
\* the first period of the error task after it
\* (ECU_HARDWARE_BRINGUP.md:160).
TripHolds == lostFor \in 1 .. TripPulse => ~fwState

\* Drive does not outlast the power of the CM200, whatever fault removed it
\* and however briefly, by more than a pass of the RTD task.
DriveNeedsPower == mode = "ENABLED" => offFor <= RtdPeriod + 1

\* Once nothing fails any more, no latch is set and the CM200 never lost its
\* power, a driver who keeps releasing and pressing the button gets the
\* vehicle ready to drive.
Recovers == steady /\ ~Latched ~> mode = "ENABLED" /\ fwState

===============================================================================
