------------------------------- MODULE AmsDriver -------------------------------
(***************************************************************************)
(* The AMS's compact frames (Core/Src/ext_drivers/ams.c), the gate torque  *)
(* passes in the CAN task, and the monitor of the pack current             *)
(* (Core/Src/power/ecu_current_residual_monitor.c), which the CAN task     *)
(* feeds from the electrical frame and its diagnostic frame.               *)
(*                                                                         *)
(* The receive interrupt takes a frame in one step.  A tick is a period of *)
(* the error task, which ages the frames.  The CAN task makes at least one *)
(* pass in a tick, and one between two bundles of the AMS.  Frames may be  *)
(* lost or malformed; the AMS may stop, restart or change its source.      *)
(*                                                                         *)
(* The power authority is PowerConsumer and taken as given here; whether a *)
(* current lies in the predicted interval is chosen at each comparison.    *)
(***************************************************************************)
EXTENDS Naturals

CONSTANTS
  Payload,       \* the compact frames but the status: electrical, thermal
  Timeout,       \* AMS_STALE_TIMEOUT_MS, in ticks
  MaxAge,        \* maximum_measurement_age_us, in ticks
  TripSamples,   \* trip_samples (3)
  SettleSamples  \* source_settling_samples (5)

ASSUME AmsAssumption ==
  /\ "electrical" \in Payload /\ "status" \notin Payload
  /\ Timeout \in Nat /\ MaxAge \in Nat /\ MaxAge <= Timeout
  /\ {TripSamples, SettleSamples} \subseteq Nat \ {0}

VARIABLES
  \* ams_t
  frame,     \* compact_*_valid, compact_*_stale, the age of its last arrival,
             \* and whether its content allows torque
  current,   \* current_valid of the status
  sequence,  \* compact_sequence_fault
  diag,      \* current_diag_*: one arrived, it is valid and sane, its age, that
             \* of the sample it names, and it came after the electrical frame
  epoch,     \* current_source_epoch of the last diagnostic frame
  \* app_data_t
  amsFault,  \* ams_fault
  monitor,   \* current_residual_monitor, and current_model_residual_fault
  \* the AMS and the CAN task
  awaited,   \* the frame of the bundle that comes next
  polled,    \* the CAN task made a pass since the tick and the last bundle
  \* for the properties
  counted,   \* how often the current held has been compared as a sample
  skewed,    \* since the current held, an electrical frame was lost or the
             \* first metadata came
  unfed      \* ticks since the monitor last looked at the measurement

amsVars == <<frame, current, sequence, diag, epoch>>
taskVars == <<amsFault, monitor>>
vars == <<amsVars, taskVars, awaited, polled, counted, skewed, unfed>>

-------------------------------------------------------------------------------
Frame == {"status"} \union Payload
Epoch == {1, 2}
AgeCap == Timeout + 2
UnfedCap == MaxAge + 2

UpTo(limit, n) == IF n < limit THEN n ELSE limit

\* Of a frame that is not valid, age and content are never read.
Invalid == [valid |-> FALSE, stale |-> TRUE, age |-> AgeCap, good |-> FALSE]

\* ams_init, ecu_current_residual_monitor_init, app_create.
Init ==
  /\ frame = [f \in Frame |-> Invalid]
  /\ current = FALSE
  /\ sequence = FALSE
  /\ diag = [seen |-> FALSE, usable |-> FALSE, age |-> AgeCap, sample |-> AgeCap,
             after |-> FALSE]
  /\ epoch = 1
  /\ amsFault = TRUE
  /\ monitor = [epoch |-> 0, fresh |-> TRUE, violations |-> 0,
                settling |-> 0, fault |-> FALSE]
  /\ awaited = "electrical"
  /\ polled = FALSE
  /\ counted = 0 /\ skewed = FALSE /\ unfed = 0

-------------------------------------------------------------------------------
(* The receive interrupt.                                                  *)

Mark(f, good) ==
  frame' = [frame EXCEPT ![f] = [valid |-> TRUE, stale |-> FALSE, age |-> 0,
                                 good |-> good]]

\* ams_parse_compact_status_frame: a gap or a repetition of the counter is seen
\* if the last status was valid.
StatusFields(currentValid, inSequence) ==
  /\ current' = currentValid
  /\ sequence' = (frame["status"].valid /\ ~inSequence)

\* The status, or a payload that comes on its own (ams_parse_compact_thermal_frame).
ReceiveCompact(f, good, currentValid, inSequence) ==
  /\ Mark(f, good)
  /\ IF f = "status"
     THEN (good => currentValid) /\ StatusFields(currentValid, inSequence)
     ELSE UNCHANGED <<current, sequence>>
  /\ UNCHANGED <<diag, epoch, taskVars, awaited, polled, counted, skewed, unfed>>

\* ams_invalidate_can_frame: a known identifier with a wrong length or kind.
ReceiveMalformed(f) ==
  /\ frame' = [frame EXCEPT ![f] = Invalid]
  /\ UNCHANGED <<current, sequence, diag, epoch, taskVars, awaited, polled, counted,
                 skewed, unfed>>

\* The AMS sends a bundle: the electrical frame, which may be lost,
SendElectrical(arrives, good) ==
  /\ awaited = "electrical" /\ polled
  /\ awaited' = "diagnostic"
  /\ skewed' = ~arrives
  /\ IF arrives
     THEN /\ Mark("electrical", good)
          /\ diag' = [diag EXCEPT !.after = FALSE]
          /\ monitor' = [monitor EXCEPT !.fresh = @ \/ ~diag.seen]
          /\ counted' = 0
     ELSE UNCHANGED <<frame, diag, monitor, counted>>
  /\ UNCHANGED <<current, sequence, epoch, amsFault, polled, unfed>>

\* and the diagnostic frame (ams_parse_current_diag_frame), which may be lost or
\* malformed.  The sample it names is new; a first one may fit by chance the
\* number the monitor has counted from electrical frames.
SendDiagnostic(sane, sampleAge, source) ==
  /\ awaited = "diagnostic"
  /\ awaited' = "electrical" /\ polled' = FALSE
  /\ diag' = [seen |-> TRUE, usable |-> sane, age |-> 0,
              sample |-> IF sane THEN sampleAge ELSE AgeCap, after |-> TRUE]
  /\ epoch' = IF sane THEN source ELSE epoch
  /\ \E new \in (IF diag.seen THEN {TRUE} ELSE BOOLEAN) :
       monitor' = [monitor EXCEPT !.fresh = new]
  /\ skewed' = (skewed \/ ~diag.seen)
  /\ UNCHANGED <<frame, current, sequence, amsFault, counted, unfed>>

LoseDiagnostic(malformed) ==
  /\ awaited = "diagnostic"
  /\ awaited' = "electrical" /\ polled' = FALSE
  /\ diag' = IF malformed THEN [diag EXCEPT !.usable = FALSE, !.sample = AgeCap]
             ELSE diag
  /\ UNCHANGED <<frame, current, sequence, epoch, taskVars, counted, skewed, unfed>>

-------------------------------------------------------------------------------
(* The monitor.                                                            *)

\* The metadata are those of the current that is held.
DiagIsCurrent == diag.usable /\ diag.after

\* Faulty form: without current metadata the monitor waits for ever.
WaitsForEver == diag.seen /\ ~DiagIsCurrent

\* update_current_residual_monitor: it waits for the metadata of a current.
Waits == diag.seen /\ ~DiagIsCurrent /\ diag.age <= MaxAge

MeasurementValid ==
  /\ current /\ frame["electrical"].valid /\ ~frame["electrical"].stale
  /\ diag.seen => DiagIsCurrent

MeasurementAge == IF diag.seen THEN diag.sample ELSE frame["electrical"].age

\* source_epoch: 1 until metadata are current, and then the last that were.
Source == IF DiagIsCurrent THEN epoch ELSE IF monitor.epoch = 0 THEN 1 ELSE monitor.epoch

\* Faulty form: every pass counts as a sample.
CountsAlways(violates) == TRUE

\* The sample is one the monitor has not taken.
Counts(violates) == monitor.fresh

\* ecu_current_residual_monitor_update: a change of the source,
SwitchSource ==
  /\ Source # monitor.epoch
  /\ monitor' = [monitor EXCEPT !.epoch = Source, !.fresh = TRUE, !.violations = 0,
                                !.settling = SettleSamples]
  /\ UNCHANGED counted

\* no measurement, or one too old,
NoMeasurement ==
  /\ Source = monitor.epoch
  /\ ~(MeasurementValid /\ MeasurementAge <= MaxAge)
  /\ monitor' = [monitor EXCEPT !.fault = TRUE]
  /\ UNCHANGED counted

\* or a measurement: one that was taken before, one of a source that settles, or
\* one that is compared with the prediction.
Measurement(violates) ==
  /\ Source = monitor.epoch
  /\ MeasurementValid /\ MeasurementAge <= MaxAge
  /\ IF ~Counts(violates) THEN UNCHANGED <<monitor, counted>>
     ELSE LET settles == monitor.settling > 0
              n == IF violates /\ ~settles THEN UpTo(TripSamples, monitor.violations + 1)
                   ELSE 0
          IN  /\ monitor' = [monitor EXCEPT
                               !.fresh = FALSE, !.violations = n,
                               !.settling = IF settles THEN @ - 1 ELSE 0,
                               !.fault = @ \/ n = TripSamples]
              /\ counted' = IF settles THEN counted ELSE UpTo(2, counted + 1)

\* A pass of the CAN task.
CanPass(violates) ==
  /\ polled' = TRUE
  /\ IF Waits THEN UNCHANGED <<monitor, counted, unfed>>
     ELSE /\ SwitchSource \/ NoMeasurement \/ Measurement(violates)
          /\ unfed' = 0
  /\ UNCHANGED <<amsVars, amsFault, awaited, skewed>>

-------------------------------------------------------------------------------
(* The error task and the gate.                                            *)

\* ams_update_stale, and the time up to the next tick: nothing is aged while the
\* status is invalid.
UpdateStale ==
  [f \in Frame |->
     [frame[f] EXCEPT
        !.age = UpTo(AgeCap, @ + 1),
        !.stale = IF ~frame["status"].valid THEN @
                  ELSE ~frame[f].valid \/ frame[f].age >= Timeout + 1]]

\* ams_allows_torque on given frames.
Allows(frames) ==
  /\ \A f \in Frame : frames[f].valid /\ ~frames[f].stale /\ frames[f].good
  /\ ~sequence

\* A period of the error task, and the tick after it.
ErrorTick ==
  /\ polled
  /\ polled' = FALSE
  /\ frame' = UpdateStale
  /\ amsFault' = ~Allows(frame')
  /\ diag' = [diag EXCEPT !.age = UpTo(AgeCap, @ + 1), !.sample = UpTo(AgeCap, @ + 1)]
  /\ unfed' = UpTo(UnfedCap, unfed + 1)
  /\ UNCHANGED <<current, sequence, epoch, monitor, awaited, counted, skewed>>

Next ==
  \/ \E f \in Frame \ {"electrical"}, good, currentValid, inSequence \in BOOLEAN :
       ReceiveCompact(f, good, currentValid, inSequence)
  \/ \E f \in Frame : ReceiveMalformed(f)
  \/ \E arrives, good \in BOOLEAN : SendElectrical(arrives, good)
  \/ \E sane \in BOOLEAN, sampleAge \in {0, MaxAge + 1}, source \in Epoch :
       SendDiagnostic(sane, sampleAge, source)
  \/ \E malformed \in BOOLEAN : LoseDiagnostic(malformed)
  \/ \E violates \in BOOLEAN : CanPass(violates)
  \/ ErrorTick

Spec == Init /\ [][Next]_vars

\* Faulty form: the CAN task asks the AMS driver only.
GateAlone == Allows(frame) /\ ~monitor.fault

\* safety_gate_valid_locked, as far as it is about the AMS.
Gate == Allows(frame) /\ ~amsFault /\ ~monitor.fault

-------------------------------------------------------------------------------
TypeOK ==
  /\ frame \in [Frame -> [valid : BOOLEAN, stale : BOOLEAN, age : 0 .. AgeCap,
                          good : BOOLEAN]]
  /\ current \in BOOLEAN /\ sequence \in BOOLEAN
  /\ diag \in [seen : BOOLEAN, usable : BOOLEAN, age : 0 .. AgeCap,
               sample : 0 .. AgeCap, after : BOOLEAN]
  /\ epoch \in Epoch
  /\ amsFault \in BOOLEAN
  /\ monitor \in [epoch : {0} \union Epoch, fresh : BOOLEAN,
                  violations : 0 .. TripSamples, settling : 0 .. SettleSamples,
                  fault : BOOLEAN]
  /\ awaited \in {"electrical", "diagnostic"}
  /\ polled \in BOOLEAN /\ counted \in 0 .. 2 /\ skewed \in BOOLEAN
  /\ unfed \in 0 .. UnfedCap

\* The gate is open only over frames that really arrived within the timeout and
\* a period, although nothing is aged while the status is invalid and a status
\* that comes back finds the flags of before (ams.c:961, canbus_task.c:95-98).
GateIsFresh == Gate => \A f \in Frame : frame[f].age <= Timeout + 1

\* A current is compared as two samples only if the electrical frame of a bundle
\* was lost, or the first metadata replace the ECU's own count: "rather than ...
\* double-counting the same physical sample" (canbus_task.c:220-222).
CountedTwiceIfSkewed == counted = 2 => skewed

\* The monitor is left without measurement and verdict for longer than the age it
\* allows only while metadata keep coming that are not sane: a lost frame, or one
\* of the two out of turn, does not do it (canbus_task.c:210-217).
SuspendedByMetadata ==
  polled /\ unfed > MaxAge + 1 => ~diag.usable /\ diag.age <= MaxAge

===============================================================================
