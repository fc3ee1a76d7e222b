-------------------------- MODULE PowerSequenceProofs --------------------------
(***************************************************************************)
(* Proofs about PowerSequence for every set of lines and all delays: its   *)
(* type invariant, that power is earned, that silence removes it, that the *)
(* shutdown circuit closes only over a powered CM200, and that the latches *)
(* of the supervisor hold.                                                 *)
(*                                                                         *)
(* Then about Cm200Feedback: the error task over real frames is the error  *)
(* task of PowerSequence, so that what is proved there holds here; a       *)
(* powered CM200 was heard on every frame; and a restart opens the         *)
(* shutdown circuit.                                                       *)
(*                                                                         *)
(* Last about Shutdown: the error task and the RTD task on the scheduler   *)
(* are those of their own modules; each loss of drive opens the shutdown   *)
(* circuit for the trip pulse, and drive does not outlast the power of the *)
(* CM200.                                                                  *)
(***************************************************************************)
EXTENDS Cm200Feedback, Shutdown, TLAPS

\* The line that was bad last has no more healthy samples than the periods
\* since any line was bad.
WorstLine == \E l \in Line : samples[l] <= lineCalm

\* MTR_EN is up only through an unbroken good stretch that began before it.
Earned ==
  cascadiaEn =>
    /\ enabledFor + 1 <= calm
    /\ ClearSamples + enabledFor <= lineCalm

\* Cascadia_ON follows MTR_EN by the whole delay.
OnAfterEnable == cascadiaOn => cascadiaEn /\ enabledFor = PowerDelay

\* While the CM200 is powered, the supervisor has counted every period of
\* silence.
Supervised ==
  cascadiaOn =>
    /\ supervisor.powered
    /\ ~Latched
    /\ unheard <= supervisor.poweredFor
    /\ supervisor.poweredFor <= Grace \/ unheard = 0
    /\ supervisor.everReady => unheard = 0

LatchedIsOff == Latched => ~cascadiaEn /\ ~cascadiaOn /\ ~fwState

IndInv ==
  /\ TypeOK
  /\ WorstLine
  /\ Earned
  /\ OnAfterEnable
  /\ Supervised
  /\ LatchedIsOff
  /\ FirmwareNeedsPower

-------------------------------------------------------------------------------
(* What an operator returns.                                               *)

\* The supervisor after an update: nothing clears a latch, and without a new
\* latch silence was within the grace.
LEMMA SuperviseResult ==
  ASSUME TypeOK, NEW on \in BOOLEAN, NEW cm \in Cm200,
         supervisor' = Supervise(on, cm)
  PROVE  /\ supervisor' \in [powered : BOOLEAN, everReady : BOOLEAN,
                             startup : BOOLEAN, runtime : BOOLEAN,
                             poweredFor : 0 .. Grace + 1]
         /\ Latched => Latched'
         /\ on => supervisor'.powered
         /\ on /\ supervisor.powered /\ supervisor.poweredFor <= Grace =>
              supervisor'.poweredFor = supervisor.poweredFor + 1
         /\ on /\ cm = "silent" /\ ~Latched' =>
              /\ ~supervisor.everReady
              /\ ~supervisor'.everReady
              /\ supervisor'.poweredFor <= Grace
         /\ on /\ cm = "faulted" => Latched'
<1> DEFINE for == IF supervisor.powered
                  THEN UpTo(Grace + 1, supervisor.poweredFor + 1) ELSE 0
<1>1. for \in 0 .. Grace + 1
  BY SequenceAssumption DEF TypeOK, UpTo
<1>2. supervisor.powered /\ supervisor.poweredFor <= Grace =>
        for = supervisor.poweredFor + 1
  BY SequenceAssumption DEF TypeOK, UpTo
<1>3. CASE ~on
  BY <1>3, SequenceAssumption DEF Supervise, NotPowered, Latched, TypeOK
<1>4. CASE on
  <2>1. supervisor' = [powered |-> TRUE, poweredFor |-> for,
          everReady |-> supervisor.everReady \/ cm \in Feedback,
          runtime |-> \/ supervisor.runtime \/ cm = "faulted"
                      \/ cm = "silent" /\ supervisor.everReady,
          startup |-> \/ supervisor.startup
                      \/ cm = "silent" /\ ~supervisor.everReady /\ for > Grace]
    BY <1>4 DEF Supervise
  <2> HIDE DEF for
  <2>2. cm = "silent" /\ ~Latched' => ~supervisor.everReady /\ for <= Grace
    BY <2>1, <1>1, SequenceAssumption DEF Latched, TypeOK
  <2>3. QED
    BY <2>1, <2>2, <1>1, <1>2, <1>4 DEF Latched, Feedback, TypeOK
<1>5. QED
  BY <1>3, <1>4

\* After the lines were filtered, no line faults only if none was bad now and
\* all were good for ClearSamples periods.
LEMMA FilterResult ==
  ASSUME TypeOK, WorstLine, NEW low \in SUBSET Line, FilterLines(low),
         lineCalm' = IF low # {} THEN 0 ELSE UpTo(Longest, lineCalm + 1)
  PROVE  /\ samples' \in [Line -> 0 .. ClearSamples]
         /\ lineCalm' \in 0 .. Longest
         /\ WorstLine'
         /\ ~MotorFault' /\ ~LinesFault' =>
              /\ lineCalm' = UpTo(Longest, lineCalm + 1)
              /\ ClearSamples <= lineCalm'
<1>1. Longest \in Nat /\ ClearSamples < Longest
  BY SequenceAssumption DEF Longest
<1>2. lineCalm' \in 0 .. Longest
  BY <1>1 DEF TypeOK, UpTo
<1>3. samples' \in [Line -> 0 .. ClearSamples]
  BY SequenceAssumption DEF FilterLines, TypeOK, UpTo
<1>4. WorstLine'
  <2>1. CASE low = {}
    <3>1. PICK l \in Line : samples[l] <= lineCalm
      BY DEF WorstLine
    <3>2. samples'[l] <= lineCalm'
      BY <2>1, <3>1, <1>1, SequenceAssumption DEF FilterLines, TypeOK, UpTo
    <3>3. QED
      BY <3>2 DEF WorstLine
  <2>2. CASE low # {}
    <3>1. PICK l \in low : TRUE
      BY <2>2
    <3>2. samples'[l] = 0 /\ lineCalm' = 0
      BY <2>2 DEF FilterLines
    <3>3. QED
      BY <3>2 DEF WorstLine
  <2>3. QED
    BY <2>1, <2>2
<1>5. ASSUME ~MotorFault', ~LinesFault'
      PROVE  low = {} /\ ClearSamples <= lineCalm'
  <2>1. \A l \in Line : samples'[l] = ClearSamples
    BY <1>3, <1>5, SequenceAssumption DEF MotorFault, LinesFault, LineFault
  <2>2. \A l \in low : samples'[l] = 0
    BY DEF FilterLines
  <2>3. low = {}
    BY <2>1, <2>2, SequenceAssumption
  <2>4. QED
    BY <2>1, <2>3, <1>4 DEF WorstLine
<1>6. QED
  BY <1>2, <1>3, <1>4, <1>5

-------------------------------------------------------------------------------
(* One period of the error task.                                           *)

\* Power and Firmware_OK after a period, in terms of what it found.
LEMMA PeriodResult ==
  ASSUME NEW low \in SUBSET Line, NEW hard \in BOOLEAN, NEW comms \in BOOLEAN,
         NEW cm \in Cm200, TypeOK, ErrorTask(low, hard, comms, cm)
  PROVE  /\ Latched => Latched'
         /\ Latched' => ~cascadiaEn' /\ ~cascadiaOn' /\ ~fwState'
         /\ cascadiaEn' => ~PowerFault(hard, comms)
         /\ enabledFor' = IF cascadiaEn' /\ cascadiaEn
                          THEN UpTo(PowerDelay, enabledFor + 1) ELSE 0
         /\ cascadiaOn' =>
              /\ supervisor' = Supervise(TRUE, cm)
              /\ ~Latched' /\ cascadiaEn' /\ cascadiaEn
              /\ enabledFor + 1 >= PowerDelay
         /\ fwState' => cascadiaOn' /\ cm \in Feedback /\ pulse' = 0
<1> DEFINE allowed == ~PowerFault(hard, comms) /\ ~Latched
           powered == allowed /\ cascadiaEn /\ enabledFor + 1 >= PowerDelay
<1>1. /\ supervisor' = Supervise(powered, cm)
      /\ Sequence(allowed /\ ~Latched')
      /\ fwState' = (/\ pulse' = 0 /\ ~PowerFault(hard, comms)
                     /\ ~Latched' /\ ~Cm200Fault(powered, cm))
  BY DEF ErrorTask
<1> HIDE DEF powered
<1>2. powered \in BOOLEAN
  BY DEF powered, TypeOK
<1>3. Latched => Latched'
  BY <1>1, <1>2, SuperviseResult
<1>4. /\ cascadiaEn' = (allowed /\ ~Latched')
      /\ cascadiaOn' = (powered /\ ~Latched')
      /\ enabledFor' = IF allowed /\ ~Latched' /\ cascadiaEn
                       THEN UpTo(PowerDelay, enabledFor + 1) ELSE 0
  BY <1>1 DEF Sequence, powered
<1>5. fwState' => powered /\ ~Latched' /\ cm \in Feedback /\ pulse' = 0
  BY <1>1 DEF Cm200Fault
<1>6. cascadiaOn' => supervisor' = Supervise(TRUE, cm)
  BY <1>1, <1>2, <1>4
<1>7. cascadiaOn' => cascadiaEn' /\ cascadiaEn /\ enabledFor + 1 >= PowerDelay
  BY <1>4 DEF powered
<1>8. Latched' => ~fwState'
  BY <1>1
<1>9. QED
  BY <1>3, <1>4, <1>5, <1>6, <1>7, <1>8

\* A period keeps the types.
LEMMA PeriodType ==
  ASSUME NEW low \in SUBSET Line, NEW hard \in BOOLEAN, NEW comms \in BOOLEAN,
         NEW cm \in Cm200, TypeOK, WorstLine,
         ErrorTask(low, hard, comms, cm), Remember(low, hard, comms, cm)
  PROVE  TypeOK'
<1> DEFINE allowed == ~PowerFault(hard, comms) /\ ~Latched
           powered == allowed /\ cascadiaEn /\ enabledFor + 1 >= PowerDelay
<1>1. samples' \in [Line -> 0 .. ClearSamples] /\ lineCalm' \in 0 .. Longest
  BY FilterResult DEF ErrorTask, Remember
<1>2. supervisor' \in [powered : BOOLEAN, everReady : BOOLEAN, startup : BOOLEAN,
                       runtime : BOOLEAN, poweredFor : 0 .. Grace + 1]
  <2>1. powered \in BOOLEAN /\ supervisor' = Supervise(powered, cm)
    BY DEF ErrorTask, TypeOK
  <2>2. QED
    BY <2>1, SuperviseResult
<1>3. cascadiaEn' \in BOOLEAN /\ cascadiaOn' \in BOOLEAN
  BY DEF ErrorTask, Sequence, TypeOK
<1>4. enabledFor' \in 0 .. PowerDelay
  <2>1. enabledFor' = IF cascadiaEn' /\ cascadiaEn
                      THEN UpTo(PowerDelay, enabledFor + 1) ELSE 0
    BY PeriodResult
  <2>2. QED
    BY <2>1, SequenceAssumption DEF TypeOK, UpTo
<1>5. requested' \in BOOLEAN /\ pulse' \in 0 .. TripPulse
  <2>1. /\ pulse' = IF requested THEN TripPulse ELSE IF pulse > 0 THEN pulse - 1 ELSE 0
        /\ requested' = FALSE
    BY DEF ErrorTask, HoldTrip
  <2>2. TripPulse \in Nat /\ pulse \in 0 .. TripPulse
    BY SequenceAssumption DEF TypeOK
  <2>3. pulse' \in 0 .. TripPulse
    BY <2>1, <2>2
  <2>4. QED
    BY <2>1, <2>3
<1>6. raised' \in BOOLEAN /\ fwState' \in BOOLEAN
  BY DEF ErrorTask, TypeOK
<1>7. flags' \in [hard : BOOLEAN, comms : BOOLEAN, cm200 : BOOLEAN, unready : BOOLEAN]
  <2>1. /\ flags' = [hard |-> hard \/ MotorFault' \/ Latched',
                     comms |-> comms \/ LinesFault',
                     cm200 |-> Cm200Fault(powered, cm),
                     unready |-> cm # "ready"]
    BY DEF ErrorTask
  <2>2. /\ (hard \/ MotorFault' \/ Latched') \in BOOLEAN
        /\ (comms \/ LinesFault') \in BOOLEAN
        /\ Cm200Fault(powered, cm) \in BOOLEAN
        /\ (cm # "ready") \in BOOLEAN
    BY DEF Cm200Fault
  <2>3. QED
    BY <2>1, <2>2
<1>8. calm' \in 0 .. Longest /\ unheard' \in 0 .. Grace + 2
  <2>1. Longest \in Nat /\ Grace + 2 \in Nat
    BY SequenceAssumption DEF Longest
  <2>2. QED
    BY <2>1 DEF Remember, TypeOK, UpTo
<1>9. QED
  BY <1>1, <1>2, <1>3, <1>4, <1>5, <1>6, <1>7, <1>8 DEF TypeOK

\* A period keeps the invariant.
LEMMA PeriodInvariant ==
  ASSUME NEW low \in SUBSET Line, NEW hard \in BOOLEAN, NEW comms \in BOOLEAN,
         NEW cm \in Cm200, IndInv,
         ErrorTask(low, hard, comms, cm), Remember(low, hard, comms, cm)
  PROVE  IndInv'
<1>1. TypeOK /\ TypeOK'
  BY PeriodType DEF IndInv
<1>2. /\ Latched' => ~cascadiaEn' /\ ~cascadiaOn' /\ ~fwState'
      /\ cascadiaEn' => ~PowerFault(hard, comms)
      /\ enabledFor' = IF cascadiaEn' /\ cascadiaEn
                       THEN UpTo(PowerDelay, enabledFor + 1) ELSE 0
      /\ cascadiaOn' =>
           /\ supervisor' = Supervise(TRUE, cm)
           /\ ~Latched' /\ cascadiaEn' /\ cascadiaEn
           /\ enabledFor + 1 >= PowerDelay
      /\ fwState' => cascadiaOn' /\ cm \in Feedback /\ pulse' = 0
  BY <1>1, PeriodResult
<1>3. /\ WorstLine'
      /\ ~MotorFault' /\ ~LinesFault' =>
           lineCalm' = UpTo(Longest, lineCalm + 1) /\ ClearSamples <= lineCalm'
  BY <1>1, FilterResult DEF ErrorTask, Remember, IndInv
<1>4. Earned'
  <2> SUFFICES ASSUME cascadiaEn'
               PROVE  /\ enabledFor' + 1 <= calm'
                      /\ ClearSamples + enabledFor' <= lineCalm'
    BY DEF Earned
  <2>1. /\ calm' = UpTo(Longest, calm + 1)
        /\ lineCalm' = UpTo(Longest, lineCalm + 1)
        /\ ClearSamples <= lineCalm'
    BY <1>2, <1>3 DEF PowerFault, Remember
  <2>2. CASE cascadiaEn
    <3>1. enabledFor' = UpTo(PowerDelay, enabledFor + 1)
      BY <1>2, <2>2
    <3>2. enabledFor + 1 <= calm /\ ClearSamples + enabledFor <= lineCalm
      BY <2>2 DEF IndInv, Earned
    <3>3. QED
      BY <2>1, <3>1, <3>2, <1>1, SequenceAssumption DEF TypeOK, UpTo, Longest
  <2>3. CASE ~cascadiaEn
    BY <2>1, <2>3, <1>1, <1>2, SequenceAssumption DEF TypeOK, UpTo, Longest
  <2>4. QED
    BY <2>2, <2>3
<1>5. OnAfterEnable'
  BY <1>1, <1>2, SequenceAssumption DEF OnAfterEnable, TypeOK, UpTo
<1>6. Supervised'
  <2> SUFFICES ASSUME cascadiaOn'
               PROVE  /\ supervisor'.powered
                      /\ ~Latched'
                      /\ unheard' <= supervisor'.poweredFor
                      /\ supervisor'.poweredFor <= Grace \/ unheard' = 0
                      /\ supervisor'.everReady => unheard' = 0
    BY DEF Supervised
  <2>1. supervisor' = Supervise(TRUE, cm) /\ ~Latched'
    BY <1>2
  <2>2. /\ supervisor'.powered
        /\ supervisor.powered /\ supervisor.poweredFor <= Grace =>
             supervisor'.poweredFor = supervisor.poweredFor + 1
        /\ cm = "silent" =>
             /\ ~supervisor.everReady
             /\ ~supervisor'.everReady
             /\ supervisor'.poweredFor <= Grace
        /\ cm # "faulted"
    BY <1>1, <2>1, SuperviseResult
  <2>3. unheard' = IF ~cascadiaOn \/ cm \in Feedback THEN 0
                   ELSE UpTo(Grace + 2, unheard + 1)
    BY DEF Remember
  <2>4. CASE ~cascadiaOn \/ cm \in Feedback
    <3>1. unheard' = 0
      BY <2>3, <2>4
    <3>2. supervisor'.poweredFor \in 0 .. Grace + 1
      BY <1>1 DEF TypeOK
    <3>3. unheard' <= supervisor'.poweredFor
      BY <3>1, <3>2, SequenceAssumption
    <3>4. QED
      BY <2>1, <2>2, <3>1, <3>3
  <2>5. CASE cascadiaOn /\ cm \notin Feedback
    <3>1. cm = "silent"
      BY <2>2, <2>5 DEF Cm200, Feedback
    <3>2. supervisor.powered /\ unheard <= supervisor.poweredFor
      BY <2>5 DEF IndInv, Supervised
    <3>3. supervisor.poweredFor <= Grace
      <4>1. supervisor.poweredFor \in 0 .. Grace + 1
        BY <1>1 DEF TypeOK
      <4>2. supervisor.poweredFor = Grace + 1 => supervisor'.poweredFor = Grace + 1
        BY <2>1, <3>2, <4>1, SequenceAssumption DEF Supervise, UpTo
      <4>3. QED
        BY <2>2, <3>1, <4>1, <4>2, SequenceAssumption
    <3>4. supervisor'.poweredFor = supervisor.poweredFor + 1
      BY <2>2, <3>2, <3>3
    <3>5. unheard' <= unheard + 1
      BY <2>3, <2>5, <1>1, SequenceAssumption DEF TypeOK, UpTo
    <3>6. unheard' <= supervisor'.poweredFor
      BY <3>2, <3>4, <3>5, <1>1 DEF TypeOK
    <3>7. QED
      BY <2>1, <2>2, <3>1, <3>6
  <2>6. QED
    BY <2>4, <2>5
<1>7. LatchedIsOff'
  BY <1>2 DEF LatchedIsOff
<1>8. FirmwareNeedsPower'
  BY <1>2 DEF FirmwareNeedsPower, Remember
<1>9. QED
  BY <1>1, <1>3, <1>4, <1>5, <1>6, <1>7, <1>8 DEF IndInv

-------------------------------------------------------------------------------
LEMMA InitInvariant == Init => IndInv
<1> SUFFICES ASSUME Init PROVE IndInv
  OBVIOUS
<1>1. TypeOK
  <2>1. {ClearSamples, PowerDelay, TripPulse, Grace, Longest} \subseteq Nat
    BY SequenceAssumption DEF Longest
  <2>2. samples \in [Line -> 0 .. ClearSamples]
    BY <2>1 DEF Init
  <2>3. supervisor \in [powered : BOOLEAN, everReady : BOOLEAN, startup : BOOLEAN,
                        runtime : BOOLEAN, poweredFor : 0 .. Grace + 1]
    BY <2>1 DEF Init, NotPowered
  <2>4. flags \in [hard : BOOLEAN, comms : BOOLEAN, cm200 : BOOLEAN, unready : BOOLEAN]
    BY DEF Init
  <2>5. enabledFor \in 0 .. PowerDelay /\ pulse \in 0 .. TripPulse
    BY <2>1 DEF Init
  <2>6. calm \in 0 .. Longest /\ lineCalm \in 0 .. Longest /\ unheard \in 0 .. Grace + 2
    BY <2>1 DEF Init
  <2>7. QED
    BY <2>2, <2>3, <2>4, <2>5, <2>6 DEF Init, TypeOK
<1>2. WorstLine
  BY SequenceAssumption DEF Init, WorstLine
<1>3. QED
  BY <1>1, <1>2 DEF IndInv, Init, Earned, OnAfterEnable, Supervised,
     LatchedIsOff, Latched, NotPowered, FirmwareNeedsPower

\* Steps that leave the task's variables alone.
LEMMA OtherStep ==
  ASSUME IndInv, raised' \in BOOLEAN, requested' \in BOOLEAN,
         UNCHANGED <<taskVars, outputVars, historyVars>>
  PROVE  IndInv'
<1> USE DEF taskVars, outputVars, historyVars
<1>1. TypeOK'
  BY DEF IndInv, TypeOK, Longest
<1>2. QED
  BY <1>1 DEF IndInv, WorstLine, Earned, OnAfterEnable, Supervised,
     LatchedIsOff, Latched, FirmwareNeedsPower

LEMMA NextInvariant == IndInv /\ [Next]_vars => IndInv'
<1> SUFFICES ASSUME IndInv, [Next]_vars PROVE IndInv'
  OBVIOUS
<1>1. ASSUME NEW up \in BOOLEAN, SetRaised(up) PROVE IndInv'
  BY <1>1, OtherStep DEF SetRaised, IndInv, TypeOK
<1>2. CASE RequestTrip
  BY <1>2, OtherStep DEF RequestTrip, IndInv, TypeOK
<1>3. ASSUME NEW low \in SUBSET Line, NEW hard \in BOOLEAN, NEW comms \in BOOLEAN,
             NEW cm \in Cm200,
             ErrorTask(low, hard, comms, cm), Remember(low, hard, comms, cm)
      PROVE  IndInv'
  BY <1>3, PeriodInvariant
<1>4. CASE UNCHANGED vars
  BY <1>4, OtherStep DEF vars, IndInv, TypeOK
<1>5. QED
  BY <1>1, <1>2, <1>3, <1>4 DEF Next

\* The inductive invariant: lines, power, supervisor and latches agree with
\* what the last periods found.
THEOREM IndInvariant == Spec => []IndInv
BY InitInvariant, NextInvariant, PTL DEF Spec

\* The variables keep their types.
THEOREM TypeCorrect == Spec => []TypeOK
<1>1. IndInv => TypeOK
  BY DEF IndInv
<1>2. QED
  BY <1>1, IndInvariant, PTL

\* Power is earned by an unbroken good stretch of lines and flags.
THEOREM PowerIsEarnedHolds == Spec => []PowerIsEarned
<1>1. IndInv => PowerIsEarned
  BY SequenceAssumption DEF IndInv, TypeOK, Earned, OnAfterEnable, PowerIsEarned
<1>2. QED
  BY <1>1, IndInvariant, PTL

\* A silent CM200 is powered for the startup grace at most.
THEOREM SilenceHolds == Spec => []SilenceRemovesPower
<1>1. IndInv => SilenceRemovesPower
  BY SequenceAssumption DEF IndInv, TypeOK, Supervised, SilenceRemovesPower
<1>2. QED
  BY <1>1, IndInvariant, PTL

\* Firmware_OK is given only over a powered and healthy CM200.
THEOREM FirmwareHolds == Spec => []FirmwareNeedsPower
<1>1. IndInv => FirmwareNeedsPower
  BY DEF IndInv
<1>2. QED
  BY <1>1, IndInvariant, PTL

\* No step of the error task or of another task undoes a latch.
LEMMA LatchStep ==
  IndInv /\ [Next]_vars =>
    (Latched => Latched' /\ ~cascadiaEn' /\ ~cascadiaOn' /\ ~fwState')
<1> SUFFICES ASSUME IndInv, [Next]_vars, Latched
             PROVE  Latched' /\ ~cascadiaEn' /\ ~cascadiaOn' /\ ~fwState'
  OBVIOUS
<1>1. ASSUME UNCHANGED <<supervisor, cascadiaEn, cascadiaOn, fwState>>
      PROVE  Latched' /\ ~cascadiaEn' /\ ~cascadiaOn' /\ ~fwState'
  BY <1>1 DEF IndInv, LatchedIsOff, Latched
<1>2. ASSUME NEW low \in SUBSET Line, NEW hard \in BOOLEAN, NEW comms \in BOOLEAN,
             NEW cm \in Cm200, ErrorTask(low, hard, comms, cm)
      PROVE  Latched' /\ ~cascadiaEn' /\ ~cascadiaOn' /\ ~fwState'
  BY <1>2, PeriodResult DEF IndInv
<1>3. QED
  BY <1>1, <1>2 DEF Next, SetRaised, RequestTrip, vars, taskVars, outputVars

\* "The latches require an MCU reset": they keep power and Firmware_OK off.
THEOREM LatchesHoldAlways == Spec => LatchesHold
<1>1. Spec => [][IndInv /\ [Next]_vars]_vars
  BY IndInvariant, PTL DEF Spec
<1>2. QED
  BY <1>1, LatchStep, PTL DEF LatchesHold

-------------------------------------------------------------------------------
(* The error task over the CM200's frames.                                 *)

\* While a frame is not yet stale, its age is the time since it was heard.
AgeHonest ==
  \A f \in Frame :
    health[f].valid /\ health[f].age <= Timeout => heard[f] <= health[f].age

\* The driver holds a timer value once a timer frame was good.
TimerHeld == health["timer"].valid => clock # "none"

\* A loss of the timer that still counts is noticed already, or the next timer
\* frame will show it; until then no timer frame has come.
LossPending ==
  restarted # Never =>
    \/ timerFault
    \/ /\ clock = "below" /\ health["timer"].valid
       /\ health["timer"].age >= restarted \/ health["timer"].age > Timeout

FeedbackInv ==
  /\ IndInv
  /\ FeedbackTypeOK
  /\ AgeHonest
  /\ TimerHeld
  /\ LossPending
  /\ EveryFrameHeard
  /\ RestartIsSeen

-------------------------------------------------------------------------------
(* The error task over frames is that of PowerSequence.                    *)

LEMMA VerdictType == Verdict \in Cm200
BY DEF Verdict, Cm200

\* A period over frames is a period with some verdict.
LEMMA PeriodOverFrames ==
  ASSUME NEW low, NEW hard, NEW comms, Supervision(low, hard, comms)
  PROVE  \E cm \in Cm200 :
           cm = Verdict /\ ErrorTask(low, hard, comms, cm) /\ Remember(low, hard, comms, cm)
<1>1. ErrorTask(low, hard, comms, Verdict) /\ Remember(low, hard, comms, Verdict)
  BY DEF Supervision
<1>2. PICK cm \in Cm200 : cm = Verdict
  BY VerdictType
<1>3. ErrorTask(low, hard, comms, cm) /\ Remember(low, hard, comms, cm)
  BY <1>1, <1>2 DEF ErrorTask, Remember, Cm200Fault, Supervise
<1>4. QED
  BY <1>2, <1>3

LEMMA StepImplements == [FeedbackNext]_feedbackVars => [Next]_vars
<1> SUFFICES ASSUME [FeedbackNext]_feedbackVars PROVE [Next]_vars
  OBVIOUS
<1>1. ASSUME NEW low \in SUBSET Line, NEW hard \in BOOLEAN, NEW comms \in BOOLEAN,
             Supervision(low, hard, comms)
      PROVE  Next
  BY <1>1, PeriodOverFrames DEF Next
<1>2. ASSUME NEW up \in BOOLEAN, SetRaised(up) PROVE Next
  BY <1>2 DEF Next
<1>3. CASE RequestTrip
  BY <1>3 DEF Next
<1>4. ASSUME ReceiveTimer \/ Restart \/ (\E c \in Content : ReceiveState(c))
             \/ (\E f \in Frame : ReceiveMalformed(f)) \/ UNCHANGED feedbackVars
      PROVE  UNCHANGED vars
  BY <1>4 DEF ReceiveTimer, Restart, ReceiveState, ReceiveMalformed, feedbackVars
<1>5. QED
  BY <1>1, <1>2, <1>3, <1>4 DEF FeedbackNext

\* Over real frames the error task does what PowerSequence allows.
THEOREM FeedbackImplements == FeedbackSpec => Spec
<1>1. FeedbackInit => Init
  BY DEF FeedbackInit
<1>2. QED
  BY <1>1, StepImplements, PTL DEF FeedbackSpec, Spec

-------------------------------------------------------------------------------
LEMMA FeedbackInitInvariant == FeedbackInit => FeedbackInv
<1> SUFFICES ASSUME FeedbackInit PROVE FeedbackInv
  OBVIOUS
<1>1. IndInv
  BY InitInvariant DEF FeedbackInit
<1>2. FeedbackTypeOK
  <2>1. Unheard \in [valid : BOOLEAN, stale : BOOLEAN, age : 0 .. Timeout + 1]
    BY FeedbackAssumption DEF Unheard
  <2>2. health \in [Frame -> [valid : BOOLEAN, stale : BOOLEAN, age : 0 .. Timeout + 1]]
    BY <2>1 DEF FeedbackInit
  <2>3. Never \in 0 .. Never /\ 0 \in 0 .. RepeatLimit
    BY FeedbackAssumption DEF Never
  <2>4. heard \in [Frame -> 0 .. Never]
    BY <2>3 DEF FeedbackInit
  <2>5. QED
    BY <1>1, <2>2, <2>3, <2>4 DEF FeedbackInit, FeedbackTypeOK, IndInv, Content, Clock
<1>3. AgeHonest /\ TimerHeld /\ LossPending
  BY DEF FeedbackInit, AgeHonest, TimerHeld, LossPending, Unheard, Frame
<1>4. EveryFrameHeard /\ RestartIsSeen
  BY DEF FeedbackInit, Init, EveryFrameHeard, RestartIsSeen
<1>5. QED
  BY <1>1, <1>2, <1>3, <1>4 DEF FeedbackInv

\* A step of the driver alone: what is left to show.
LEMMA DriverStep ==
  ASSUME FeedbackInv, UNCHANGED vars, FeedbackTypeOK', AgeHonest', TimerHeld', LossPending',
         \A f \in Frame : heard'[f] = heard[f] \/ heard'[f] = 0,
         restarted' \in {restarted, 0, Never}
  PROVE  FeedbackInv'
<1>1. IndInv'
  BY OtherStep DEF FeedbackInv, IndInv, TypeOK, vars
<1>2. EveryFrameHeard'
  BY FeedbackAssumption
  DEF FeedbackInv, EveryFrameHeard, vars, taskVars
<1>3. RestartIsSeen'
  BY FeedbackAssumption
  DEF FeedbackInv, RestartIsSeen, vars, outputVars, Never
<1>4. QED
  BY <1>1, <1>2, <1>3 DEF FeedbackInv

LEMMA FeedbackNextInvariant == FeedbackInv /\ [FeedbackNext]_feedbackVars => FeedbackInv'
<1> SUFFICES ASSUME FeedbackInv, [FeedbackNext]_feedbackVars PROVE FeedbackInv'
  OBVIOUS
<1> USE DEF Frame
<1>t. FeedbackTypeOK /\ AgeHonest /\ TimerHeld /\ LossPending /\ TypeOK
  BY DEF FeedbackInv, FeedbackTypeOK
<1>n. Timeout \in Nat /\ RepeatLimit \in Nat /\ Never \in Nat /\ Never = Timeout + 3
  BY FeedbackAssumption DEF Never
<1>1. CASE ReceiveTimer
  <2>1. UNCHANGED <<vars, content, restarted>> /\ TypeOK'
    BY <1>1, <1>t DEF ReceiveTimer, TypeOK, vars, taskVars, outputVars, historyVars, Longest
  <2>2. /\ health' = [health EXCEPT !["timer"] = [valid |-> TRUE, stale |-> FALSE, age |-> 0]]
        /\ heard' = [heard EXCEPT !["timer"] = 0]
        /\ clock' = "same"
    BY <1>1 DEF ReceiveTimer, Mark, UpdateTimer
  <2>3. FeedbackTypeOK'
    <3>1. repeats' \in 0 .. RepeatLimit
      BY <1>1, <1>t, <1>n DEF ReceiveTimer, UpdateTimer, FeedbackTypeOK, UpTo
    <3>2. progress' \in BOOLEAN /\ timerFault' \in BOOLEAN
      BY <1>1, <1>t DEF ReceiveTimer, UpdateTimer, FeedbackTypeOK
    <3>3. health' \in [Frame -> [valid : BOOLEAN, stale : BOOLEAN, age : 0 .. Timeout + 1]]
      BY <2>2, <1>t, <1>n DEF FeedbackTypeOK
    <3>4. heard' \in [Frame -> 0 .. Never]
      BY <2>2, <1>t, <1>n DEF FeedbackTypeOK
    <3>5. QED
      BY <2>1, <2>2, <3>1, <3>2, <3>3, <3>4, <1>t DEF FeedbackTypeOK, Clock
  <2>4. AgeHonest' /\ TimerHeld'
    BY <2>2, <1>t DEF AgeHonest, TimerHeld, FeedbackTypeOK
  <2>5. LossPending'
    <3>1. health["timer"].valid /\ clock = "below" => timerFault'
      BY <1>1 DEF ReceiveTimer, UpdateTimer
    <3>2. timerFault => timerFault'
      BY <1>1 DEF ReceiveTimer, UpdateTimer
    <3>3. QED
      BY <2>1, <3>1, <3>2, <1>t DEF LossPending
  <2>6. QED
    BY <2>1, <2>2, <2>3, <2>4, <2>5, <1>t, DriverStep DEF FeedbackTypeOK
<1>2. ASSUME NEW c \in Content, ReceiveState(c) PROVE FeedbackInv'
  <2>1. /\ UNCHANGED <<vars, progress, repeats, timerFault, clock, restarted>>
        /\ health' = [health EXCEPT !["state"] = [valid |-> TRUE, stale |-> FALSE, age |-> 0]]
        /\ heard' = [heard EXCEPT !["state"] = 0]
        /\ content' = c
    BY <1>2 DEF ReceiveState, Mark
  <2>2. TypeOK'
    BY <2>1, <1>t DEF TypeOK, vars, taskVars, outputVars, historyVars, Longest
  <2>3. FeedbackTypeOK'
    BY <2>1, <2>2, <1>t, <1>n DEF FeedbackTypeOK
  <2>4. AgeHonest' /\ TimerHeld' /\ LossPending'
    BY <2>1, <1>t DEF AgeHonest, TimerHeld, LossPending, FeedbackTypeOK
  <2>5. QED
    BY <2>1, <2>3, <2>4, <1>t, DriverStep DEF FeedbackTypeOK
<1>3. ASSUME NEW g \in Frame, ReceiveMalformed(g) PROVE FeedbackInv'
  <2>1. /\ UNCHANGED <<vars, content, progress, repeats, timerFault, clock, heard>>
        /\ health' = [health EXCEPT ![g].valid = FALSE, ![g].stale = TRUE]
        /\ restarted' = IF g = "timer" THEN Never ELSE restarted
    BY <1>3 DEF ReceiveMalformed
  <2>2. TypeOK'
    BY <2>1, <1>t DEF TypeOK, vars, taskVars, outputVars, historyVars, Longest
  <2>3. FeedbackTypeOK'
    <3>1. health' \in [Frame -> [valid : BOOLEAN, stale : BOOLEAN, age : 0 .. Timeout + 1]]
      <4>1. health \in [Frame -> [valid : BOOLEAN, stale : BOOLEAN, age : 0 .. Timeout + 1]]
        BY <1>t DEF FeedbackTypeOK
      <4>2. health' = [health EXCEPT ![g] = [health[g] EXCEPT !.valid = FALSE, !.stale = TRUE]]
        BY <2>1, <4>1
      <4>3. [health[g] EXCEPT !.valid = FALSE, !.stale = TRUE]
              \in [valid : BOOLEAN, stale : BOOLEAN, age : 0 .. Timeout + 1]
        BY <4>1
      <4>4. QED
        BY <4>1, <4>2, <4>3
    <3>2. restarted' \in 0 .. Never
      BY <2>1, <1>t, <1>n DEF FeedbackTypeOK
    <3>3. QED
      BY <2>1, <2>2, <3>1, <3>2, <1>t, <1>n DEF FeedbackTypeOK
  <2>4. AgeHonest' /\ TimerHeld' /\ LossPending'
    BY <2>1, <1>t DEF AgeHonest, TimerHeld, LossPending, FeedbackTypeOK
  <2>5. QED
    BY <2>1, <2>3, <2>4, <1>t, DriverStep DEF FeedbackTypeOK
<1>4. CASE Restart
  <2>1. /\ UNCHANGED <<vars, driverVars, heard>> /\ clock' = "below"
        /\ restarted' = IF health["timer"].valid THEN 0 ELSE restarted
    BY <1>4 DEF Restart
  <2>2. TypeOK'
    BY <2>1, <1>t DEF TypeOK, vars, taskVars, outputVars, historyVars, Longest
  <2>3. FeedbackTypeOK'
    BY <2>1, <2>2, <1>t, <1>n DEF FeedbackTypeOK, driverVars, Clock
  <2>4. AgeHonest' /\ TimerHeld' /\ LossPending'
    BY <2>1, <1>t DEF AgeHonest, TimerHeld, LossPending, FeedbackTypeOK, driverVars
  <2>5. QED
    BY <2>1, <2>3, <2>4, <1>t, DriverStep DEF FeedbackTypeOK
<1>5. ASSUME NEW low \in SUBSET Line, NEW hard \in BOOLEAN, NEW comms \in BOOLEAN,
             Supervision(low, hard, comms)
      PROVE  FeedbackInv'
  <2>1. PICK cm \in Cm200 :
          /\ cm = Verdict
          /\ ErrorTask(low, hard, comms, cm) /\ Remember(low, hard, comms, cm)
    BY <1>5, PeriodOverFrames
  <2>2. IndInv'
    BY <2>1, PeriodInvariant DEF FeedbackInv
  <2>3. /\ health' = UpdateStale
        /\ heard' = [f \in Frame |-> UpTo(Never, heard[f] + 1)]
        /\ UNCHANGED <<content, progress, repeats, timerFault>>
        /\ RunClock
        /\ restarted' =
             IF ~cascadiaOn' /\ cascadiaOn /\ health["timer"].valid THEN 0
             ELSE IF clock = "below" /\ clock' = "passed" THEN Never
             ELSE IF restarted >= Timeout + 2 THEN restarted
             ELSE restarted + 1
    BY <1>5 DEF Supervision
  <2>4. \A f \in Frame :
          /\ health'[f].valid = health[f].valid
          /\ health'[f].stale = (~health[f].valid \/ health[f].age > Timeout)
          /\ health'[f].age = UpTo(Timeout + 1, health[f].age + 1)
    BY <2>3, <1>t DEF UpdateStale, FeedbackTypeOK
  <2>5. FeedbackTypeOK'
    <3>1. health' \in [Frame -> [valid : BOOLEAN, stale : BOOLEAN, age : 0 .. Timeout + 1]]
      <4>1. ASSUME NEW f \in Frame
            PROVE  [health[f] EXCEPT !.stale = ~health[f].valid \/ health[f].age > Timeout,
                                     !.age = UpTo(Timeout + 1, @ + 1)]
                   \in [valid : BOOLEAN, stale : BOOLEAN, age : 0 .. Timeout + 1]
        <5>1. health[f] \in [valid : BOOLEAN, stale : BOOLEAN, age : 0 .. Timeout + 1]
          BY <1>t DEF FeedbackTypeOK
        <5>2. UpTo(Timeout + 1, health[f].age + 1) \in 0 .. Timeout + 1
          BY <5>1, <1>n DEF UpTo
        <5>3. (~health[f].valid \/ health[f].age > Timeout) \in BOOLEAN
          OBVIOUS
        <5>4. QED
          BY <5>1, <5>2, <5>3
      <4>2. QED
        BY <4>1, <2>3 DEF UpdateStale
    <3>2. heard' \in [Frame -> 0 .. Never]
      BY <2>3, <1>t, <1>n DEF FeedbackTypeOK, UpTo
    <3>3. clock' \in Clock
      BY <2>3, <1>t DEF RunClock, FeedbackTypeOK, Clock
    <3>4. restarted' \in 0 .. Never
      BY <2>3, <1>t, <1>n DEF FeedbackTypeOK
    <3>5. QED
      BY <3>1, <3>2, <3>3, <3>4, <2>2, <2>3, <1>t DEF FeedbackTypeOK, IndInv
  <2>6. AgeHonest'
    <3> SUFFICES ASSUME NEW f \in Frame, health'[f].valid, health'[f].age <= Timeout
                 PROVE  heard'[f] <= health'[f].age
      BY DEF AgeHonest
    <3>1. health[f].age \in 0 .. Timeout + 1 /\ heard[f] \in 0 .. Never
      BY <1>t DEF FeedbackTypeOK
    <3>2. health[f].valid /\ health[f].age + 1 <= Timeout /\ health'[f].age = health[f].age + 1
      BY <2>4, <3>1, <1>n DEF UpTo
    <3>3. heard[f] <= health[f].age
      BY <3>1, <3>2, <1>n, <1>t DEF AgeHonest
    <3>4. heard'[f] = UpTo(Never, heard[f] + 1)
      BY <2>3
    <3>5. QED
      BY <3>1, <3>2, <3>3, <3>4, <1>n DEF UpTo
  <2>7. TimerHeld'
    BY <2>3, <2>4, <1>t DEF RunClock, TimerHeld
  <2>8. LossPending'
    <3> SUFFICES ASSUME restarted' # Never, ~timerFault
                 PROVE  /\ clock' = "below" /\ health'["timer"].valid
                        /\ \/ health'["timer"].age >= restarted'
                           \/ health'["timer"].age > Timeout
      BY <2>3 DEF LossPending
    <3>1. /\ health["timer"].age \in 0 .. Timeout + 1
          /\ health'["timer"].age = UpTo(Timeout + 1, health["timer"].age + 1)
          /\ restarted \in 0 .. Never /\ health'["timer"].valid = health["timer"].valid
      BY <2>4, <1>t DEF FeedbackTypeOK
    <3>2. CASE ~cascadiaOn' /\ cascadiaOn /\ health["timer"].valid
      <4>1. restarted' = 0 /\ clock' = "below"
        BY <2>3, <3>2, <1>t DEF RunClock, TimerHeld
      <4>2. QED
        BY <4>1, <3>1, <3>2, <1>n DEF UpTo
    <3>3. CASE ~(~cascadiaOn' /\ cascadiaOn /\ health["timer"].valid)
      <4>1. /\ ~(clock = "below" /\ clock' = "passed")
            /\ restarted' = IF restarted >= Timeout + 2 THEN restarted ELSE restarted + 1
        BY <2>3, <3>3
      <4>2. restarted # Never
        BY <4>1, <1>n
      <4>3. /\ clock = "below" /\ health["timer"].valid
            /\ health["timer"].age >= restarted \/ health["timer"].age > Timeout
        BY <4>2, <1>t DEF LossPending
      <4>4. clock' = "below"
        BY <4>1, <4>3, <2>3 DEF RunClock
      <4>5. QED
        BY <4>1, <4>3, <4>4, <3>1, <1>n DEF UpTo
    <3>4. QED
      BY <3>2, <3>3
  <2>9. cm \in Feedback =>
          /\ ~timerFault
          /\ \A f \in Frame : health[f].valid /\ health[f].age <= Timeout
    <3> SUFFICES ASSUME cm \in Feedback, NEW f \in Frame
                 PROVE  ~timerFault /\ health[f].valid /\ health[f].age <= Timeout
      OBVIOUS
    <3>1. ~timerFault /\ HealthOk(f)
      BY <2>1 DEF Verdict, Feedback
    <3>2. health[f].age \in 0 .. Timeout + 1
      BY <1>t DEF FeedbackTypeOK
    <3>3. QED
      <4>1. health[f].valid /\ ~(health[f].age > Timeout)
        BY <3>1, <2>4, Zenon DEF HealthOk
      <4>2. QED
        BY <3>1, <3>2, <4>1, <1>n
  <2>10. EveryFrameHeard'
    <3> SUFFICES ASSUME cascadiaOn', supervisor'.everReady, NEW f \in Frame
                 PROVE  heard'[f] <= Timeout + 1
      BY DEF EveryFrameHeard
    <3>1. supervisor' = Supervise(TRUE, cm) /\ ~Latched'
      BY <2>1, <1>t, PeriodResult
    <3>2. cm # "silent" /\ cm # "faulted"
      BY <3>1, <1>t, SuperviseResult
    <3>3. health[f].valid /\ health[f].age <= Timeout
      BY <2>9, <3>2 DEF Cm200, Feedback
    <3>4. heard[f] <= health[f].age
      BY <3>3, <1>t DEF AgeHonest
    <3>5. health[f].age \in 0 .. Timeout + 1 /\ heard[f] \in 0 .. Never
      BY <1>t DEF FeedbackTypeOK
    <3>6. QED
      BY <3>3, <3>4, <3>5, <2>3, <1>n DEF UpTo
  <2>11. RestartIsSeen'
    <3> SUFFICES ASSUME fwState', restarted' # Never PROVE restarted' \in 0 .. Timeout + 1
      BY DEF RestartIsSeen
    <3>1. cascadiaOn' /\ cm \in Feedback
      BY <2>1, <1>t, PeriodResult
    <3>2. /\ restarted' = IF restarted >= Timeout + 2 THEN restarted ELSE restarted + 1
          /\ restarted # Never
      BY <3>1, <2>3, <1>n
    <3>3. health["timer"].age <= Timeout /\ health["timer"].age >= restarted
      <4>1. ~timerFault /\ health["timer"].age <= Timeout
        BY <3>1, <2>9
      <4>2. health["timer"].age \in 0 .. Timeout + 1
        BY <1>t DEF FeedbackTypeOK
      <4>3. QED
        BY <4>1, <4>2, <3>2, <1>t, <1>n DEF LossPending
    <3>4. restarted \in 0 .. Never /\ health["timer"].age \in 0 .. Timeout + 1
      BY <1>t DEF FeedbackTypeOK
    <3>5. QED
      BY <3>2, <3>3, <3>4, <1>n
  <2>12. QED
    BY <2>2, <2>5, <2>6, <2>7, <2>8, <2>10, <2>11 DEF FeedbackInv
<1>6. ASSUME raised' \in BOOLEAN, requested' \in BOOLEAN,
             UNCHANGED <<taskVars, outputVars, historyVars, cmVars, watchVars>>
      PROVE  FeedbackInv'
  <2>1. IndInv'
    BY <1>6, OtherStep DEF FeedbackInv
  <2>2. FeedbackTypeOK' /\ AgeHonest' /\ TimerHeld' /\ LossPending'
    BY <1>6, <1>t, <2>1
    DEF FeedbackTypeOK, AgeHonest, TimerHeld, LossPending, cmVars, driverVars, watchVars,
        IndInv, Never
  <2>3. EveryFrameHeard' /\ RestartIsSeen'
    BY <1>6
    DEF FeedbackInv, EveryFrameHeard, RestartIsSeen, taskVars, outputVars, watchVars, Never
  <2>4. QED
    BY <2>1, <2>2, <2>3 DEF FeedbackInv
<1>7. ASSUME NEW up \in BOOLEAN, SetRaised(up), UNCHANGED <<cmVars, watchVars>>
      PROVE  FeedbackInv'
  BY <1>7, <1>6, <1>t DEF SetRaised, TypeOK
<1>8. CASE RequestTrip /\ UNCHANGED <<cmVars, watchVars>>
  BY <1>8, <1>6, <1>t DEF RequestTrip, TypeOK
<1>9. CASE UNCHANGED feedbackVars
  BY <1>9, <1>6, <1>t DEF feedbackVars, vars, TypeOK
<1>10. QED
  BY <1>1, <1>2, <1>3, <1>4, <1>5, <1>7, <1>8, <1>9 DEF FeedbackNext

\* The inductive invariant: the driver's ages and its timer against the frames.
THEOREM FeedbackInvariant == FeedbackSpec => []FeedbackInv
BY FeedbackInitInvariant, FeedbackNextInvariant, PTL DEF FeedbackSpec

\* The variables keep their types.
THEOREM FeedbackTypeCorrect == FeedbackSpec => []FeedbackTypeOK
<1>1. FeedbackInv => FeedbackTypeOK
  BY DEF FeedbackInv
<1>2. QED
  BY <1>1, FeedbackInvariant, PTL

\* A CM200 healthy once is powered only while every frame is really heard.
THEOREM EveryFrameHeardHolds == FeedbackSpec => []EveryFrameHeard
<1>1. FeedbackInv => EveryFrameHeard
  BY DEF FeedbackInv
<1>2. QED
  BY <1>1, FeedbackInvariant, PTL

\* A restart opens the shutdown circuit within the timeout, for good.
THEOREM RestartIsSeenHolds == FeedbackSpec => []RestartIsSeen
<1>1. FeedbackInv => RestartIsSeen
  BY DEF FeedbackInv
<1>2. QED
  BY <1>1, FeedbackInvariant, PTL

\* What is proved of PowerSequence holds over real frames.
THEOREM PowerOverFrames ==
  FeedbackSpec => [](PowerIsEarned /\ SilenceRemovesPower /\ FirmwareNeedsPower)
BY FeedbackImplements, PowerIsEarnedHolds, SilenceHolds, FirmwareHolds, PTL

\* So does the hold of the latches.
THEOREM LatchesHoldOverFrames == FeedbackSpec => LatchesHold
BY FeedbackImplements, LatchesHoldAlways, PTL

-------------------------------------------------------------------------------
(* Shutdown: each of the two tasks on the scheduler is the task of its own *)
(* module, whatever the other one does and however its reads are torn.     *)

\* A period of the error task on the scheduler is one with some verdict.
LEMMA PeriodOnScheduler ==
  ASSUME ErrorRuns
  PROVE  \E low \in SUBSET Line, hard, comms \in BOOLEAN, cm \in Cm200 :
           ErrorPeriod(low, hard, comms, cm)
<1>1. (IF cascadiaOn THEN "ready" ELSE "silent") \in Cm200
  BY DEF Cm200
<1>2. PICK low \in SUBSET Line, hard \in BOOLEAN, comms \in BOOLEAN,
           cm \in {"silent", "faulted", "healthy", "ready"} :
        ErrorPeriod(low, hard, comms, cm)
  <2>1. CASE steady
    <3>1. ErrorPeriod({}, FALSE, FALSE, IF cascadiaOn THEN "ready" ELSE "silent")
      BY <2>1 DEF ErrorRuns, SteadyPeriod
    <3>2. CASE cascadiaOn
      <4>1. ErrorPeriod({}, FALSE, FALSE, "ready")
        BY <3>1, <3>2
      <4>2. QED
        BY <4>1
    <3>3. CASE ~cascadiaOn
      <4>1. ErrorPeriod({}, FALSE, FALSE, "silent")
        BY <3>1, <3>3
      <4>2. QED
        BY <4>1
    <3>4. QED
      BY <3>2, <3>3
  <2>2. CASE ~steady
    BY <2>2 DEF ErrorRuns, SteadyPeriod, Cm200
  <2>3. QED
    BY <2>1, <2>2
<1>3. QED
  BY <1>2 DEF Cm200

\* A pass of the RTD task is, for the error task, a request of a trip or nothing.
LEMMA PassOnScheduler ==
  ASSUME requested \in BOOLEAN, RtdTask
  PROVE  /\ \E tsalLine, okLine, button, brake, clear \in BOOLEAN :
              /\ Rtd!RtdTask(tsalLine, okLine, button, brake, clear)
              /\ Rtd!Remember(button, brake, clear)
         /\ requested' = requested \/ requested' = TRUE
         /\ UNCHANGED powerOwn
<1>1. PICK tsalLine \in BOOLEAN, okLine \in BOOLEAN, button \in BOOLEAN,
           brake \in BOOLEAN, clear \in BOOLEAN :
        RtdPass(tsalLine, okLine, button, brake, clear)
  BY DEF RtdTask, SteadyPass
<1>2. /\ Rtd!RtdTask(tsalLine, okLine, button, brake, clear)
      /\ Rtd!Remember(button, brake, clear)
      /\ UNCHANGED powerOwn
  BY <1>1 DEF RtdPass
<1>3. requested' = (requested \/ (mode = "ENABLED" /\ mode' # "ENABLED"))
  BY <1>2 DEF Rtd!RtdTask
<1>4. requested' = requested \/ requested' = TRUE
  BY <1>3
<1>5. QED
  BY <1>2, <1>4, Zenon

LEMMA SchedulerStepsPower ==
  ASSUME requested \in BOOLEAN, [ShutdownNext]_shutdownVars
  PROVE  [Next]_vars
<1>1. CASE FlagChanges
  BY <1>1 DEF FlagChanges, Next
<1>2. CASE ErrorRuns
  BY <1>2, PeriodOnScheduler DEF ErrorPeriod, Next
<1>3. CASE RtdWake \/ Settle \/ UNCHANGED shutdownVars
  BY <1>3 DEF RtdWake, Settle, shutdownVars, powerOwn, vars
<1>4. CASE RtdTask
  BY <1>4, PassOnScheduler DEF powerOwn, vars, Next, RequestTrip
<1>5. QED
  BY <1>1, <1>2, <1>3, <1>4 DEF ShutdownNext

LEMMA SchedulerStepsRtd ==
  ASSUME requested \in BOOLEAN, [ShutdownNext]_shutdownVars
  PROVE  [Rtd!Next]_(Rtd!vars)
<1>1. CASE FlagChanges \/ RtdWake \/ Settle \/ UNCHANGED shutdownVars
  BY <1>1 DEF FlagChanges, SetRaised, RtdWake, Settle, shutdownVars, rtdOwn,
              Rtd!vars, Rtd!taskVars, Rtd!historyVars
<1>2. CASE ErrorRuns
  <2>1. UNCHANGED rtdOwn /\ requested' = FALSE
    BY <1>2, PeriodOnScheduler DEF ErrorPeriod, ErrorTask, HoldTrip
  <2>2. QED
    BY <2>1 DEF rtdOwn, Rtd!Next, Rtd!TakeRequest, Rtd!vars, Rtd!taskVars, Rtd!historyVars
<1>3. CASE RtdTask
  BY <1>3, PassOnScheduler DEF Rtd!Next
<1>4. QED
  BY <1>1, <1>2, <1>3 DEF ShutdownNext

\* The request of a trip is a flag.
LEMMA RequestIsFlag == ShutdownSpec => [](requested \in BOOLEAN)
<1>1. ShutdownInit => requested \in BOOLEAN
  BY DEF ShutdownInit, Init
<1>2. requested \in BOOLEAN /\ [ShutdownNext]_shutdownVars => (requested \in BOOLEAN)'
  <2> SUFFICES ASSUME requested \in BOOLEAN, [ShutdownNext]_shutdownVars
               PROVE  requested' \in BOOLEAN
    OBVIOUS
  <2>1. CASE ErrorRuns
    BY <2>1, PeriodOnScheduler DEF ErrorPeriod, ErrorTask, HoldTrip
  <2>2. CASE RtdTask
    BY <2>2, PassOnScheduler
  <2>3. CASE FlagChanges \/ RtdWake \/ Settle \/ UNCHANGED shutdownVars
    BY <2>3 DEF FlagChanges, SetRaised, RtdWake, Settle, shutdownVars
  <2>4. QED
    BY <2>1, <2>2, <2>3 DEF ShutdownNext
<1>3. QED
  BY <1>1, <1>2, PTL DEF ShutdownSpec

\* With the RTD task on the scheduler the error task does what PowerSequence
\* allows: a torn pass only ever asks it for a trip.
THEOREM SchedulerImplementsPower == ShutdownSpec => Spec
<1>1. ShutdownInit => Init
  BY DEF ShutdownInit
<1>2. requested \in BOOLEAN /\ [ShutdownNext]_shutdownVars => [Next]_vars
  BY SchedulerStepsPower
<1>3. QED
  BY <1>1, <1>2, RequestIsFlag, PTL DEF ShutdownSpec, Spec

\* And a torn pass of the RTD task is a pass of ReadyToDrive: no mixture of
\* flags from before and after a preemption gives it a step of its own.
THEOREM SchedulerImplementsRtd == ShutdownSpec => Rtd!Spec
<1>1. ShutdownInit => Rtd!Init
  BY DEF ShutdownInit
<1>2. requested \in BOOLEAN /\ [ShutdownNext]_shutdownVars => [Rtd!Next]_(Rtd!vars)
  BY SchedulerStepsRtd
<1>3. QED
  BY <1>1, <1>2, RequestIsFlag, PTL DEF ShutdownSpec, Rtd!Spec

\* So power is earned, ends with silence, and carries the shutdown circuit on
\* the scheduler too.
THEOREM PowerOnScheduler ==
  ShutdownSpec => [](PowerIsEarned /\ SilenceRemovesPower /\ FirmwareNeedsPower)
BY SchedulerImplementsPower, PowerIsEarnedHolds, SilenceHolds, FirmwareHolds, PTL

\* And the latches hold there.
THEOREM LatchesHoldOnScheduler == ShutdownSpec => LatchesHold
BY SchedulerImplementsPower, LatchesHoldAlways, PTL

-------------------------------------------------------------------------------
(* Shutdown: what the two tasks do together.  The torn reads are what is   *)
(* hard: the fault flag of the CM200 counts for a pass only if it was up   *)
(* when the pass began and is up now, so power lost under a pass may go    *)
(* unseen until the next.                                                  *)

\* What the results on the two tasks need of the types.
ShutdownTypes ==
  /\ pulse \in Nat
  /\ lostFor \in 0 .. LongLost
  /\ offFor \in 0 .. LongOff
  /\ rtdAge \in 0 .. RtdPeriod
  /\ rtdAt \in {"idle", "reading", "torn"}

\* A loss of drive is requested as a trip until the error task takes it, and is
\* then held for what is left of the pulse.
PulseHeld ==
  /\ lostFor = 0 => requested
  /\ lostFor \in 1 .. TripPulse => pulse + lostFor > TripPulse

PulseOpens == fwState => pulse = 0

\* A CM200 without power is a fault the RTD task can read.
OffIsFault ==
  offFor # 0 => "cm200" \in DOMAIN flags /\ flags["cm200"] = TRUE

\* For how long the CM200 may have been off when drive is still enabled, by
\* where the RTD task is; a pass that began with it off has seen the flag.
DriveBound ==
  /\ rtdAt = "idle" /\ mode = "ENABLED" => offFor <= rtdAge
  /\ rtdAt = "reading" =>
       /\ rtdAge = 0
       /\ mode = "ENABLED" => offFor <= RtdPeriod
       /\ offFor # 0 => "cm200" \in early
  /\ rtdAt = "torn" =>
       /\ rtdAge = 1
       /\ mode = "ENABLED" => offFor <= RtdPeriod + 1
       /\ offFor > 1 => "cm200" \in early

ShutdownInv ==
  /\ ShutdownTypes
  /\ PulseHeld
  /\ PulseOpens
  /\ OffIsFault
  /\ DriveBound

-------------------------------------------------------------------------------
LEMMA ShutdownNumbers ==
  /\ RtdPeriod \in Nat \ {0} /\ TripPulse \in Nat \ {0}
  /\ LongLost = TripPulse + 1 /\ LongOff = RtdPeriod + 2
BY ShutdownAssumption, SequenceAssumption DEF LongLost, LongOff

LEMMA ShutdownInitInvariant == ShutdownInit => ShutdownInv
<1> SUFFICES ASSUME ShutdownInit PROVE ShutdownInv
  OBVIOUS
<1>1. /\ pulse = 0 /\ fwState = FALSE /\ mode = "AWAIT_TSAL"
      /\ flags = [hard |-> FALSE, comms |-> TRUE, cm200 |-> TRUE, unready |-> TRUE]
  BY DEF ShutdownInit, Init, Rtd!Init
<1>2. ShutdownTypes
  BY <1>1, ShutdownNumbers DEF ShutdownInit, ShutdownTypes
<1>3. PulseHeld /\ PulseOpens
  BY <1>1, ShutdownNumbers DEF ShutdownInit, PulseHeld, PulseOpens
<1>4. OffIsFault
  BY <1>1 DEF OffIsFault
<1>5. DriveBound
  BY <1>1 DEF ShutdownInit, DriveBound
<1>6. QED
  BY <1>2, <1>3, <1>4, <1>5 DEF ShutdownInv

\* Nothing the invariant speaks of changes between two passes.
LEMMA OtherShutdownSteps ==
  ASSUME ShutdownInv, UNCHANGED <<pulse, fwState, flags, requested, mode, rtdAt, rtdAge,
                             early, lostFor, offFor>>
  PROVE  ShutdownInv'
BY DEF ShutdownInv, ShutdownTypes, PulseHeld, PulseOpens, OffIsFault, DriveBound, LongLost, LongOff

-------------------------------------------------------------------------------
(* The error task.                                                         *)

\* Whatever removes the CM200's power raises its fault flag in the same period.
LEMMA CutRaisesFlag ==
  ASSUME NEW low, NEW hard, NEW comms, NEW cm, ErrorTask(low, hard, comms, cm),
         ~cascadiaOn'
  PROVE  "cm200" \in DOMAIN flags' /\ flags'["cm200"] = TRUE
<1> DEFINE allowed == ~PowerFault(hard, comms) /\ ~Latched
           powered == allowed /\ cascadiaEn /\ enabledFor + 1 >= PowerDelay
<1>1. Sequence(allowed /\ ~Latched')
  BY DEF ErrorTask
<1>2. ~powered \/ Latched'
  BY <1>1 DEF Sequence
<1>3. Cm200Fault(powered, cm) = TRUE
  BY <1>2 DEF Cm200Fault
<1>4. flags' = [hard |-> hard \/ MotorFault' \/ Latched',
                comms |-> comms \/ LinesFault',
                cm200 |-> Cm200Fault(powered, cm),
                unready |-> cm # "ready"]
  BY DEF ErrorTask
<1>5. QED
  BY <1>3, <1>4

LEMMA PeriodKeeps ==
  ASSUME ShutdownInv, NEW low, NEW hard, NEW comms, NEW cm,
         ErrorPeriod(low, hard, comms, cm)
  PROVE  ShutdownInv'
<1>1. /\ ErrorTask(low, hard, comms, cm)
      /\ rtdAt = "idle" => rtdAge < RtdPeriod
      /\ rtdAt # "torn"
      /\ rtdAge' = rtdAge + 1
      /\ rtdAt' = IF rtdAt = "reading" THEN "torn" ELSE rtdAt
      /\ lostFor' = UpTo(LongLost, lostFor + 1)
      /\ offFor' = IF cascadiaOn' THEN 0 ELSE UpTo(LongOff, offFor + 1)
      /\ mode' = mode /\ early' = early
  BY DEF ErrorPeriod, rtdOwn
<1>2. /\ pulse' = IF requested THEN TripPulse ELSE IF pulse > 0 THEN pulse - 1 ELSE 0
      /\ fwState' => pulse' = 0
  BY <1>1 DEF ErrorTask, HoldTrip
<1>3. ShutdownTypes'
  <2>1. pulse' \in Nat
    BY <1>2, ShutdownNumbers DEF ShutdownInv, ShutdownTypes
  <2>2. lostFor' \in 0 .. LongLost' /\ offFor' \in 0 .. LongOff'
    BY <1>1, ShutdownNumbers DEF ShutdownInv, ShutdownTypes, UpTo, LongLost, LongOff
  <2>3. rtdAge' \in 0 .. RtdPeriod
    BY <1>1, ShutdownNumbers DEF ShutdownInv, ShutdownTypes, DriveBound
  <2>4. rtdAt' \in {"idle", "reading", "torn"}
    BY <1>1 DEF ShutdownInv, ShutdownTypes
  <2>5. QED
    BY <2>1, <2>2, <2>3, <2>4 DEF ShutdownTypes
<1>4. PulseHeld'
  BY <1>1, <1>2, ShutdownNumbers DEF ShutdownInv, ShutdownTypes, PulseHeld, UpTo
<1>5. PulseOpens'
  BY <1>2 DEF PulseOpens
<1>6. OffIsFault'
  <2>1. SUFFICES ASSUME offFor' # 0 PROVE "cm200" \in DOMAIN flags' /\ flags'["cm200"] = TRUE
    BY DEF OffIsFault
  <2>2. ~cascadiaOn'
    BY <1>1, <2>1
  <2>3. QED
    BY <1>1, <2>2, CutRaisesFlag
<1>7. DriveBound'
  <2>1. offFor' <= offFor + 1
    BY <1>1, ShutdownNumbers DEF ShutdownInv, ShutdownTypes, UpTo
  <2>2. CASE rtdAt = "idle"
    BY <1>1, <2>1, <2>2, <1>3, ShutdownNumbers DEF ShutdownInv, ShutdownTypes, DriveBound
  <2>3. CASE rtdAt = "reading"
    BY <1>1, <2>1, <2>3, <1>3, ShutdownNumbers DEF ShutdownInv, ShutdownTypes, DriveBound
  <2>4. QED
    BY <1>1, <2>2, <2>3 DEF ShutdownInv, ShutdownTypes
<1>8. QED
  BY <1>3, <1>4, <1>5, <1>6, <1>7 DEF ShutdownInv

-------------------------------------------------------------------------------
(* The RTD task.                                                           *)

LEMMA WakeKeeps ==
  ASSUME ShutdownInv, RtdWake
  PROVE  ShutdownInv'
<1>1. /\ rtdAt = "idle" /\ rtdAge = RtdPeriod
      /\ rtdAt' = "reading" /\ rtdAge' = 0 /\ early' = Up
      /\ UNCHANGED <<pulse, fwState, flags, requested, mode, lostFor, offFor>>
  BY DEF RtdWake, powerOwn, taskVars, outputVars, rtdOwn, watched
<1>2. ShutdownTypes' /\ PulseHeld' /\ PulseOpens' /\ OffIsFault'
  BY <1>1, ShutdownNumbers
  DEF ShutdownInv, ShutdownTypes, PulseHeld, PulseOpens, OffIsFault, LongLost, LongOff
<1>3. offFor # 0 => "cm200" \in Up
  BY DEF ShutdownInv, OffIsFault, Up
<1>4. DriveBound'
  BY <1>1, <1>3, ShutdownNumbers DEF ShutdownInv, ShutdownTypes, DriveBound
<1>5. QED
  BY <1>2, <1>4 DEF ShutdownInv

\* Drive goes on, or is begun, only by a pass that found no fault.
LEMMA DriveIsClear ==
  ASSUME NEW tsalLine, NEW okLine, NEW button, NEW brake, NEW clear,
         Rtd!RtdTask(tsalLine, okLine, button, brake, clear), mode' = "ENABLED"
  PROVE  clear
BY DEF Rtd!RtdTask, Rtd!Proceed, Rtd!Press, Rtd!Buzz

LEMMA PassKeeps ==
  ASSUME ShutdownInv, NEW tsalLine, NEW okLine, NEW button, NEW brake, NEW clear \in BOOLEAN,
         RtdPass(tsalLine, okLine, button, brake, clear)
  PROVE  ShutdownInv'
<1>1. /\ rtdAt # "idle"
      /\ rtdAt = "reading" => clear = (Up = {})
      /\ rtdAt = "torn" => IF clear THEN MayFindClear ELSE MayFindFault
      /\ Rtd!RtdTask(tsalLine, okLine, button, brake, clear)
      /\ rtdAt' = "idle" /\ early' = {}
      /\ lostFor' = IF mode = "ENABLED" /\ mode' # "ENABLED" THEN 0 ELSE lostFor
      /\ UNCHANGED <<pulse, fwState, flags, rtdAge, offFor>>
  BY DEF RtdPass, powerOwn, taskVars, outputVars
<1>2. requested' = (requested \/ (mode = "ENABLED" /\ mode' # "ENABLED"))
  BY <1>1 DEF Rtd!RtdTask
<1>3. ShutdownTypes' /\ PulseOpens' /\ OffIsFault'
  BY <1>1, ShutdownNumbers DEF ShutdownInv, ShutdownTypes, PulseOpens, OffIsFault, LongLost, LongOff
<1>4. PulseHeld'
  <2>1. lostFor' = 0 => requested'
    BY <1>1, <1>2 DEF ShutdownInv, PulseHeld
  <2>2. lostFor' \in 1 .. TripPulse => lostFor' = lostFor
    BY <1>1, ShutdownNumbers
  <2>3. lostFor' \in 1 .. TripPulse => pulse' + lostFor' > TripPulse
    BY <1>1, <2>2 DEF ShutdownInv, PulseHeld
  <2>4. QED
    BY <2>1, <2>3 DEF PulseHeld
<1>5. mode' = "ENABLED" => offFor <= rtdAge
  <2> SUFFICES ASSUME mode' = "ENABLED" PROVE offFor <= rtdAge
    OBVIOUS
  <2>1. clear
    BY <1>1, DriveIsClear
  <2>2. offFor # 0 => "cm200" \in Up
    BY DEF ShutdownInv, OffIsFault, Up
  <2>3. CASE rtdAt = "reading"
    <3>1. Up = {}
      BY <1>1, <2>1, <2>3
    <3>2. QED
      BY <2>2, <2>3, <3>1 DEF ShutdownInv, DriveBound
  <2>4. CASE rtdAt = "torn"
    <3>1. offFor # 0 => "cm200" \notin early
      BY <1>1, <2>1, <2>2, <2>4 DEF MayFindClear
    <3>2. QED
      BY <2>4, <3>1, ShutdownNumbers DEF ShutdownInv, ShutdownTypes, DriveBound
  <2>5. QED
    BY <1>1, <2>3, <2>4 DEF ShutdownInv, ShutdownTypes
<1>6. DriveBound'
  BY <1>1, <1>5 DEF DriveBound
<1>7. QED
  BY <1>3, <1>4, <1>6 DEF ShutdownInv

-------------------------------------------------------------------------------
LEMMA ShutdownStepInvariant == ShutdownInv /\ [ShutdownNext]_shutdownVars => ShutdownInv'
<1> SUFFICES ASSUME ShutdownInv, [ShutdownNext]_shutdownVars PROVE ShutdownInv'
  OBVIOUS
<1>1. CASE FlagChanges \/ Settle \/ UNCHANGED shutdownVars
  <2>1. UNCHANGED <<pulse, fwState, flags, requested, mode, rtdAt, rtdAge, early,
                    lostFor, offFor>>
    BY <1>1 DEF FlagChanges, Settle, shutdownVars, SetRaised, taskVars,
                outputVars, historyVars, powerOwn, rtdOwn, schedule, watched
  <2>2. QED
    BY <2>1, OtherShutdownSteps
<1>2. CASE ErrorRuns
  <2>1. PICK low, hard, comms, cm : ErrorPeriod(low, hard, comms, cm)
    BY <1>2 DEF ErrorRuns, SteadyPeriod
  <2>2. QED
    BY <2>1, PeriodKeeps
<1>3. CASE RtdWake
  BY <1>3, WakeKeeps
<1>4. CASE RtdTask
  <2>1. PICK tsalLine, okLine, button, brake \in BOOLEAN, clear \in BOOLEAN :
          RtdPass(tsalLine, okLine, button, brake, clear)
    BY <1>4 DEF RtdTask, SteadyPass
  <2>2. QED
    BY <2>1, PassKeeps
<1>5. QED
  BY <1>1, <1>2, <1>3, <1>4 DEF ShutdownNext

\* The invariant that carries the two results below.
THEOREM ShutdownInvariant == ShutdownSpec => []ShutdownInv
<1>1. ShutdownInit => ShutdownInv
  BY ShutdownInitInvariant
<1>2. ShutdownInv /\ [ShutdownNext]_shutdownVars => ShutdownInv'
  BY ShutdownStepInvariant
<1>3. QED
  BY <1>1, <1>2, PTL DEF ShutdownSpec

\* However long the pulse is and however the two tasks interleave, a loss of
\* drive keeps the shutdown circuit open for all of it (error_task.c:184-194).
THEOREM TripHoldsAlways == ShutdownSpec => []TripHolds
<1>1. ShutdownInv => TripHolds
  BY ShutdownNumbers DEF ShutdownInv, ShutdownTypes, PulseHeld, PulseOpens, TripHolds
<1>2. QED
  BY <1>1, ShutdownInvariant, PTL

\* Drive ends at most a pass of the RTD task after the power of the CM200, for
\* every ratio of the two periods, although a pass may miss the flag
\* (rtd_task.c:84).
THEOREM DriveNeedsPowerHolds == ShutdownSpec => []DriveNeedsPower
<1>1. ShutdownInv => DriveNeedsPower
  BY ShutdownNumbers DEF ShutdownInv, ShutdownTypes, DriveBound, DriveNeedsPower
<1>2. QED
  BY <1>1, ShutdownInvariant, PTL

===============================================================================
