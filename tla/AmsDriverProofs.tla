---------------------------- MODULE AmsDriverProofs ----------------------------
(***************************************************************************)
(* Proofs about AmsDriver for every timeout, age and number of samples:    *)
(* its type invariant, that the gate opens over fresh frames only, that a  *)
(* current counts twice only after a loss, and what can suspend the        *)
(* monitor.                                                                *)
(***************************************************************************)
EXTENDS AmsDriver, TLAPS

\* What the error task let through was fresh then, and has not aged since.
FreshWhenAllowed ==
  ~amsFault => \A f \in Frame : ~frame[f].valid \/ frame[f].age <= Timeout + 1

\* Until its metadata come, a new current is not compared.
NotYetCounted ==
  awaited = "diagnostic" /\ diag.seen /\ ~skewed => counted = 0 /\ ~diag.after

\* A current compared once is not new to the monitor, or the source settles.
NotFresh == counted > 0 /\ ~skewed /\ monitor.fresh => monitor.settling > 0

\* Metadata that can be used were looked at when they came.
UsableWasTaken ==
  diag.usable =>
    \/ unfed <= diag.age
    \/ diag.age = AgeCap
    \/ diag.age = 0 /\ diag.after /\ awaited = "electrical" /\ ~polled

\* A pass of the CAN task that left the monitor alone had reason to wait.
PassWaited ==
  polled => unfed = 0 \/ (~DiagIsCurrent /\ diag.age <= MaxAge)

IndInv ==
  /\ TypeOK
  /\ FreshWhenAllowed
  /\ NotYetCounted
  /\ NotFresh
  /\ CountedTwiceIfSkewed
  /\ UsableWasTaken
  /\ PassWaited

FrameState == [valid : BOOLEAN, stale : BOOLEAN, age : 0 .. AgeCap, good : BOOLEAN]

DiagState == [seen : BOOLEAN, usable : BOOLEAN, age : 0 .. AgeCap,
              sample : 0 .. AgeCap, after : BOOLEAN]

MonitorState == [epoch : {0} \union Epoch, fresh : BOOLEAN,
                 violations : 0 .. TripSamples, settling : 0 .. SettleSamples,
                 fault : BOOLEAN]

-------------------------------------------------------------------------------
LEMMA Numbers ==
  /\ Timeout \in Nat /\ MaxAge \in Nat /\ MaxAge <= Timeout
  /\ TripSamples \in Nat \ {0} /\ SettleSamples \in Nat \ {0}
  /\ AgeCap \in Nat /\ AgeCap = Timeout + 2
  /\ UnfedCap \in Nat /\ UnfedCap = MaxAge + 2
BY AmsAssumption DEF AgeCap, UnfedCap

LEMMA FrameNames == "electrical" \in Frame /\ "status" \in Frame
BY AmsAssumption DEF Frame

LEMMA InitInvariant == Init => IndInv
<1> SUFFICES ASSUME Init PROVE IndInv
  OBVIOUS
<1>1. Invalid \in FrameState
  BY Numbers DEF Invalid, FrameState
<1>2. diag \in DiagState
  BY Numbers DEF Init, DiagState
<1>3. monitor \in MonitorState
  BY Numbers DEF Init, MonitorState
<1>4. TypeOK
  <2>1. frame \in [Frame -> FrameState]
    BY <1>1 DEF Init
  <2>2. /\ current \in BOOLEAN /\ sequence \in BOOLEAN /\ amsFault \in BOOLEAN
        /\ polled \in BOOLEAN /\ skewed \in BOOLEAN
    <3>1. /\ current = FALSE /\ sequence = FALSE /\ amsFault = TRUE
          /\ polled = FALSE /\ skewed = FALSE
      BY DEF Init
    <3>2. QED
      BY <3>1
  <2>3. epoch \in Epoch /\ awaited \in {"electrical", "diagnostic"} /\ counted \in 0 .. 2
    BY DEF Init, Epoch
  <2>4. unfed \in 0 .. UnfedCap
    BY Numbers DEF Init
  <2>5. QED
    BY <1>2, <1>3, <2>1, <2>2, <2>3, <2>4 DEF TypeOK, FrameState, DiagState, MonitorState
<1>5. FreshWhenAllowed /\ NotYetCounted /\ NotFresh /\ CountedTwiceIfSkewed
      /\ UsableWasTaken /\ PassWaited
  BY DEF Init, FreshWhenAllowed, NotYetCounted, NotFresh, CountedTwiceIfSkewed,
         UsableWasTaken, PassWaited
<1>6. QED
  BY <1>4, <1>5 DEF IndInv

-------------------------------------------------------------------------------
(* Steps that change frames only.                                          *)

\* A frame that arrives or is invalidated is no staler than before.
LEMMA FrameStep ==
  ASSUME IndInv, NEW g \in Frame, NEW state \in FrameState,
         frame' = [frame EXCEPT ![g] = state], state.valid => state.age = 0,
         UNCHANGED amsFault
  PROVE  frame' \in [Frame -> FrameState] /\ FreshWhenAllowed'
<1>1. frame \in [Frame -> FrameState]
  BY DEF IndInv, TypeOK, FrameState
<1>2. frame' \in [Frame -> FrameState]
  BY <1>1
<1>3. ASSUME ~amsFault', NEW f \in Frame
      PROVE  ~frame'[f].valid \/ frame'[f].age <= Timeout + 1
  <2>1. CASE f = g
    BY <1>1, <2>1, Numbers
  <2>2. CASE f # g
    BY <1>1, <1>3, <2>2 DEF IndInv, FreshWhenAllowed
  <2>3. QED
    BY <2>1, <2>2
<1>4. QED
  BY <1>2, <1>3 DEF FreshWhenAllowed

\* The rest of the invariant reads neither frames nor the status.
LEMMA RestUnchanged ==
  ASSUME IndInv, frame' \in [Frame -> FrameState], FreshWhenAllowed',
         current' \in BOOLEAN, sequence' \in BOOLEAN,
         UNCHANGED <<diag, epoch, taskVars, awaited, polled, counted, skewed, unfed>>
  PROVE  IndInv'
<1> USE DEF taskVars
<1>1. TypeOK'
  BY DEF IndInv, TypeOK, FrameState, AgeCap, UnfedCap
<1>2. NotYetCounted' /\ NotFresh' /\ CountedTwiceIfSkewed' /\ UsableWasTaken' /\ PassWaited'
  BY DEF IndInv, NotYetCounted, NotFresh, CountedTwiceIfSkewed, UsableWasTaken, PassWaited,
         DiagIsCurrent, AgeCap
<1>3. QED
  BY <1>1, <1>2 DEF IndInv

LEMMA Marked ==
  ASSUME NEW good \in BOOLEAN
  PROVE  [valid |-> TRUE, stale |-> FALSE, age |-> 0, good |-> good] \in FrameState
BY Numbers DEF FrameState

-------------------------------------------------------------------------------
LEMMA NextInvariant == IndInv /\ [Next]_vars => IndInv'
<1> SUFFICES ASSUME IndInv, [Next]_vars PROVE IndInv'
  OBVIOUS
<1> USE Numbers
<1>t. /\ TypeOK /\ frame \in [Frame -> FrameState] /\ diag \in DiagState
      /\ monitor \in MonitorState
      /\ FreshWhenAllowed /\ NotYetCounted /\ NotFresh /\ CountedTwiceIfSkewed
      /\ UsableWasTaken /\ PassWaited
  BY DEF IndInv, TypeOK, FrameState, DiagState, MonitorState
<1>1. ASSUME NEW f \in Frame \ {"electrical"}, NEW good \in BOOLEAN,
             NEW currentValid \in BOOLEAN, NEW inSequence \in BOOLEAN,
             ReceiveCompact(f, good, currentValid, inSequence)
      PROVE  IndInv'
  <2>1. current' \in BOOLEAN /\ sequence' \in BOOLEAN
    BY <1>1, <1>t DEF ReceiveCompact, StatusFields, TypeOK
  <2>2. frame' \in [Frame -> FrameState] /\ FreshWhenAllowed'
    BY <1>1, FrameStep, Marked DEF ReceiveCompact, Mark, taskVars
  <2>3. QED
    BY <1>1, <2>1, <2>2, RestUnchanged DEF ReceiveCompact
<1>2. ASSUME NEW f \in Frame, ReceiveMalformed(f) PROVE IndInv'
  <2>1. Invalid \in FrameState /\ ~Invalid.valid
    BY DEF Invalid, FrameState
  <2>2. frame' \in [Frame -> FrameState] /\ FreshWhenAllowed'
    BY <1>2, <2>1, FrameStep DEF ReceiveMalformed, taskVars
  <2>3. current' \in BOOLEAN /\ sequence' \in BOOLEAN
    BY <1>2, <1>t DEF ReceiveMalformed, TypeOK
  <2>4. QED
    BY <1>2, <2>2, <2>3, RestUnchanged DEF ReceiveMalformed
<1>3. ASSUME NEW arrives \in BOOLEAN, NEW good \in BOOLEAN, SendElectrical(arrives, good)
      PROVE  IndInv'
  <2>1. /\ awaited = "electrical" /\ polled /\ awaited' = "diagnostic"
        /\ skewed' = ~arrives
        /\ UNCHANGED <<current, sequence, epoch, amsFault, polled, unfed>>
    BY <1>3 DEF SendElectrical
  <2>2. CASE arrives
    <3>1. /\ Mark("electrical", good)
          /\ diag' = [diag EXCEPT !.after = FALSE]
          /\ monitor' = [monitor EXCEPT !.fresh = monitor.fresh \/ ~diag.seen]
          /\ counted' = 0
      BY <1>3, <2>2 DEF SendElectrical
    <3>2. frame' \in [Frame -> FrameState] /\ FreshWhenAllowed'
      BY <2>1, <3>1, FrameStep, Marked, FrameNames DEF Mark
    <3>3. /\ diag' \in DiagState /\ ~diag'.after /\ diag'.seen = diag.seen
          /\ diag'.usable = diag.usable /\ diag'.age = diag.age
      BY <3>1, <1>t DEF DiagState
    <3>4. monitor' \in MonitorState
      BY <3>1, <1>t DEF MonitorState
    <3>5. TypeOK'
      BY <1>t, <2>1, <3>1, <3>2, <3>3, <3>4
      DEF TypeOK, FrameState, DiagState, MonitorState
    <3>6. NotYetCounted' /\ NotFresh' /\ CountedTwiceIfSkewed'
      BY <3>1, <3>3 DEF NotYetCounted, NotFresh, CountedTwiceIfSkewed
    <3>7. UsableWasTaken' /\ PassWaited'
      BY <1>t, <2>1, <3>3 DEF UsableWasTaken, PassWaited, DiagIsCurrent
    <3>8. QED
      BY <3>2, <3>5, <3>6, <3>7 DEF IndInv
  <2>3. CASE ~arrives
    <3>1. UNCHANGED <<frame, diag, monitor, counted>> /\ skewed'
      BY <1>3, <2>3 DEF SendElectrical
    <3>2. TypeOK'
      BY <1>t, <2>1, <3>1 DEF TypeOK
    <3>3. QED
      BY <1>t, <2>1, <3>1, <3>2
      DEF IndInv, FreshWhenAllowed, NotYetCounted, NotFresh, CountedTwiceIfSkewed,
          UsableWasTaken, PassWaited, DiagIsCurrent
  <2>4. QED
    BY <2>2, <2>3
<1>4. ASSUME NEW sane \in BOOLEAN, NEW sampleAge \in {0, MaxAge + 1}, NEW source \in Epoch,
             SendDiagnostic(sane, sampleAge, source)
      PROVE  IndInv'
  <2>1. /\ awaited = "diagnostic" /\ awaited' = "electrical" /\ polled' = FALSE
        /\ diag' = [seen |-> TRUE, usable |-> sane, age |-> 0,
                    sample |-> IF sane THEN sampleAge ELSE AgeCap, after |-> TRUE]
        /\ epoch' = IF sane THEN source ELSE epoch
        /\ skewed' = (skewed \/ ~diag.seen)
        /\ UNCHANGED <<frame, current, sequence, amsFault, counted, unfed>>
    BY <1>4 DEF SendDiagnostic
  <2>2. PICK new \in BOOLEAN : monitor' = [monitor EXCEPT !.fresh = new]
    BY <1>4 DEF SendDiagnostic
  <2>3. TypeOK'
    <3>1. diag' \in DiagState
      BY <2>1 DEF DiagState
    <3>2. monitor' \in MonitorState
      BY <2>2, <1>t DEF MonitorState
    <3>3. epoch' \in Epoch
      BY <2>1, <1>t DEF TypeOK
    <3>4. QED
      <4>1. skewed' \in BOOLEAN
        BY <2>1, <1>t DEF TypeOK
      <4>2. frame' \in [Frame -> FrameState]
        BY <2>1, <1>t
      <4>3. /\ current' \in BOOLEAN /\ sequence' \in BOOLEAN /\ amsFault' \in BOOLEAN
            /\ awaited' \in {"electrical", "diagnostic"} /\ polled' \in BOOLEAN
            /\ counted' \in 0 .. 2 /\ unfed' \in 0 .. UnfedCap
        <5> HIDE DEF DiagState
        <5>1. QED
          BY <2>1, <1>t DEF TypeOK, UnfedCap
      <4>4. QED
        BY <3>1, <3>2, <3>3, <4>1, <4>2, <4>3 DEF TypeOK, FrameState, DiagState, MonitorState
  <2>4. NotFresh' /\ CountedTwiceIfSkewed'
    <3>1. ~skewed' => ~skewed /\ diag.seen
      BY <2>1
    <3>2. ~skewed' => counted' = 0
      BY <2>1, <3>1, <1>t DEF NotYetCounted
    <3>3. QED
      BY <3>2 DEF NotFresh, CountedTwiceIfSkewed
  <2>5. FreshWhenAllowed' /\ NotYetCounted' /\ UsableWasTaken' /\ PassWaited'
    BY <2>1, <1>t DEF FreshWhenAllowed, NotYetCounted, UsableWasTaken, PassWaited
  <2>6. QED
    BY <2>3, <2>4, <2>5 DEF IndInv
<1>5. ASSUME NEW malformed \in BOOLEAN, LoseDiagnostic(malformed) PROVE IndInv'
  <2>1. /\ awaited = "diagnostic" /\ awaited' = "electrical" /\ polled' = FALSE
        /\ diag' = IF malformed THEN [diag EXCEPT !.usable = FALSE, !.sample = AgeCap]
                   ELSE diag
        /\ UNCHANGED <<frame, current, sequence, epoch, taskVars, counted, skewed, unfed>>
    BY <1>5 DEF LoseDiagnostic
  <2>2. /\ diag' \in DiagState /\ diag'.age = diag.age
        /\ diag'.usable => diag.usable
    <3>1. CASE malformed
      <4>1. diag' = [diag EXCEPT !.usable = FALSE, !.sample = AgeCap]
        BY <2>1, <3>1
      <4>2. FALSE \in BOOLEAN /\ AgeCap \in 0 .. AgeCap
        OBVIOUS
      <4>3. QED
        BY <4>1, <4>2, <1>t DEF DiagState
    <3>2. CASE ~malformed
      BY <2>1, <3>2, <1>t
    <3>3. QED
      BY <3>1, <3>2
  <2>3. TypeOK'
    BY <2>1, <2>2, <1>t DEF TypeOK, DiagState, taskVars
  <2>4. QED
    BY <2>1, <2>2, <2>3, <1>t
    DEF IndInv, FreshWhenAllowed, NotYetCounted, NotFresh, CountedTwiceIfSkewed,
        UsableWasTaken, PassWaited, taskVars
<1>6. ASSUME NEW violates \in BOOLEAN, CanPass(violates) PROVE IndInv'
  <2>1. polled' = TRUE /\ UNCHANGED <<amsVars, amsFault, awaited, skewed>>
    BY <1>6 DEF CanPass
  <2>2. CASE Waits
    <3>1. UNCHANGED <<monitor, counted, unfed>>
      BY <1>6, <2>2 DEF CanPass
    <3>2. TypeOK'
      BY <2>1, <3>1, <1>t DEF TypeOK, amsVars
    <3>3. FreshWhenAllowed' /\ NotYetCounted' /\ NotFresh' /\ CountedTwiceIfSkewed'
      BY <2>1, <3>1, <1>t
      DEF FreshWhenAllowed, NotYetCounted, NotFresh, CountedTwiceIfSkewed, amsVars
    <3>4. UsableWasTaken' /\ PassWaited'
      BY <2>1, <2>2, <3>1, <1>t
      DEF UsableWasTaken, PassWaited, Waits, DiagIsCurrent, amsVars
    <3>5. QED
      BY <3>2, <3>3, <3>4 DEF IndInv
  <2>3. CASE ~Waits
    <3>1. unfed' = 0 /\ (SwitchSource \/ NoMeasurement \/ Measurement(violates))
      BY <1>6, <2>3 DEF CanPass
    <3>2. /\ monitor' \in MonitorState /\ counted' \in 0 .. 2
          /\ NotYetCounted' /\ NotFresh' /\ CountedTwiceIfSkewed'
      <4>0. counted \in 0 .. 2
        BY <1>t DEF TypeOK
      <4>1. CASE SwitchSource
        <5>1. /\ monitor' = [monitor EXCEPT !.epoch = Source, !.fresh = TRUE,
                               !.violations = 0, !.settling = SettleSamples]
              /\ counted' = counted
          BY <4>1 DEF SwitchSource
        <5>2. Source \in {0} \union Epoch
          BY <1>t DEF Source, TypeOK, MonitorState, Epoch
        <5>3. monitor' \in MonitorState /\ monitor'.settling = SettleSamples
          <6>1. /\ TRUE \in BOOLEAN /\ 0 \in 0 .. TripSamples
                /\ SettleSamples \in 0 .. SettleSamples
            OBVIOUS
          <6>2. QED
            BY <5>1, <5>2, <6>1, <1>t DEF MonitorState
        <5>4. NotFresh'
          BY <5>3 DEF NotFresh
        <5>5. NotYetCounted' /\ CountedTwiceIfSkewed'
          BY <2>1, <5>1, <1>t DEF NotYetCounted, CountedTwiceIfSkewed, amsVars
        <5>6. QED
          BY <4>0, <5>1, <5>3, <5>4, <5>5
      <4>2. CASE NoMeasurement
        <5>1. monitor' = [monitor EXCEPT !.fault = TRUE] /\ counted' = counted
          BY <4>2 DEF NoMeasurement
        <5>2. /\ monitor' \in MonitorState
              /\ monitor'.fresh = monitor.fresh /\ monitor'.settling = monitor.settling
          BY <5>1, <1>t DEF MonitorState
        <5>3. QED
          BY <2>1, <4>0, <5>1, <5>2, <1>t
          DEF NotYetCounted, NotFresh, CountedTwiceIfSkewed, amsVars
      <4>3. CASE Measurement(violates) /\ ~monitor.fresh
        <5>1. UNCHANGED <<monitor, counted>>
          BY <4>3 DEF Measurement, Counts
        <5>2. QED
          BY <2>1, <4>0, <5>1, <1>t
          DEF NotYetCounted, NotFresh, CountedTwiceIfSkewed, amsVars
      <4>4. CASE Measurement(violates) /\ monitor.fresh
        <5> DEFINE settles == monitor.settling > 0
                   n == IF violates /\ ~settles
                        THEN UpTo(TripSamples, monitor.violations + 1) ELSE 0
        <5>1. /\ MeasurementValid
              /\ monitor' = [monitor EXCEPT
                               !.fresh = FALSE, !.violations = n,
                               !.settling = IF settles THEN monitor.settling - 1 ELSE 0,
                               !.fault = monitor.fault \/ n = TripSamples]
              /\ counted' = IF settles THEN counted ELSE UpTo(2, counted + 1)
          BY <4>4 DEF Measurement, Counts
        <5>2. n \in 0 .. TripSamples
          BY <1>t DEF MonitorState, UpTo
        <5>3. (IF settles THEN monitor.settling - 1 ELSE 0) \in 0 .. SettleSamples
          BY <1>t DEF MonitorState
        <5>4. monitor' \in MonitorState /\ ~monitor'.fresh
          <6> HIDE DEF n, settles
          <6>1. QED
            BY <5>1, <5>2, <5>3, <1>t DEF MonitorState
        <5>5. counted' \in 0 .. 2 /\ (counted' = 2 => counted > 0 \/ counted = 2)
          BY <5>1, <4>0 DEF UpTo
        <5>6. NotFresh'
          BY <5>4 DEF NotFresh
        <5>7. CountedTwiceIfSkewed'
          <6> SUFFICES ASSUME counted' = 2, ~skewed PROVE FALSE
            BY <2>1 DEF CountedTwiceIfSkewed
          <6>1. counted = 1
            BY <5>5, <4>0, <1>t DEF CountedTwiceIfSkewed
          <6>2. settles
            BY <6>1, <4>4, <1>t DEF NotFresh
          <6>3. QED
            BY <5>1, <6>1, <6>2
        <5>8. NotYetCounted'
          <6>1. diag.seen => diag.after
            BY <5>1 DEF MeasurementValid, DiagIsCurrent
          <6>2. QED
            BY <2>1, <6>1, <1>t DEF NotYetCounted, amsVars
        <5>9. QED
          BY <5>4, <5>5, <5>6, <5>7, <5>8
      <4>5. QED
        BY <3>1, <4>1, <4>2, <4>3, <4>4
    <3>3. TypeOK'
      BY <2>1, <3>1, <3>2, <1>t DEF TypeOK, MonitorState, amsVars
    <3>4. FreshWhenAllowed' /\ UsableWasTaken' /\ PassWaited'
      BY <2>1, <3>1, <1>t DEF FreshWhenAllowed, UsableWasTaken, PassWaited, DiagState, amsVars
    <3>5. QED
      BY <3>2, <3>3, <3>4 DEF IndInv
  <2>4. QED
    BY <2>2, <2>3
<1>7. CASE ErrorTick
  <2>1. /\ polled /\ polled' = FALSE
        /\ frame' = UpdateStale
        /\ amsFault' = ~Allows(frame')
        /\ diag' = [diag EXCEPT !.age = UpTo(AgeCap, diag.age + 1),
                                !.sample = UpTo(AgeCap, diag.sample + 1)]
        /\ unfed' = UpTo(UnfedCap, unfed + 1)
        /\ UNCHANGED <<current, sequence, epoch, monitor, awaited, counted, skewed>>
    BY <1>7 DEF ErrorTick
  <2>2. ASSUME NEW f \in Frame
        PROVE  /\ frame'[f] \in FrameState
               /\ frame'[f].valid = frame[f].valid
               /\ frame'[f].age = UpTo(AgeCap, frame[f].age + 1)
               /\ frame["status"].valid /\ ~frame'[f].stale => frame[f].age <= Timeout
    <3> DEFINE stale == IF ~frame["status"].valid THEN frame[f].stale
                        ELSE ~frame[f].valid \/ frame[f].age >= Timeout + 1
    <3>1. frame'[f] = [frame[f] EXCEPT !.age = UpTo(AgeCap, frame[f].age + 1),
                                       !.stale = stale]
      BY <2>1 DEF UpdateStale
    <3>2. frame[f] \in FrameState /\ frame["status"] \in FrameState
      BY <1>t, FrameNames
    <3>3. stale \in BOOLEAN
      BY <3>2 DEF FrameState
    <3>4. UpTo(AgeCap, frame[f].age + 1) \in 0 .. AgeCap
      BY <3>2 DEF FrameState, UpTo
    <3>5. frame'[f] \in FrameState /\ frame'[f].valid = frame[f].valid
          /\ frame'[f].age = UpTo(AgeCap, frame[f].age + 1) /\ frame'[f].stale = stale
      <4> HIDE DEF stale
      <4>1. QED
        BY <3>1, <3>2, <3>3, <3>4 DEF FrameState
    <3>6. frame["status"].valid /\ ~stale => ~(frame[f].age >= Timeout + 1)
      OBVIOUS
    <3>7. ~(frame[f].age >= Timeout + 1) => frame[f].age <= Timeout
      BY <3>2 DEF FrameState
    <3>8. QED
      BY <3>5, <3>6, <3>7
  <2>3. frame' \in [Frame -> FrameState]
    BY <2>1, <2>2 DEF UpdateStale
  <2>4. FreshWhenAllowed'
    <3> SUFFICES ASSUME ~amsFault', NEW f \in Frame
                 PROVE  frame'[f].age <= Timeout + 1
      BY DEF FreshWhenAllowed
    <3>1. \A g \in Frame : frame'[g].valid /\ ~frame'[g].stale
      BY <2>1 DEF Allows
    <3>2. frame[f].age <= Timeout
      BY <2>2, <3>1, FrameNames
    <3>3. frame[f].age \in 0 .. AgeCap
      BY <1>t DEF FrameState
    <3>4. QED
      BY <2>2, <3>2, <3>3 DEF UpTo
  <2>5. /\ diag' \in DiagState /\ diag'.seen = diag.seen /\ diag'.after = diag.after
        /\ diag'.usable = diag.usable /\ diag'.age = UpTo(AgeCap, diag.age + 1)
    <3>1. /\ UpTo(AgeCap, diag.age + 1) \in 0 .. AgeCap
          /\ UpTo(AgeCap, diag.sample + 1) \in 0 .. AgeCap
      BY <1>t DEF DiagState, UpTo
    <3>2. QED
      BY <2>1, <3>1, <1>t DEF DiagState
  <2>6. unfed' \in 0 .. UnfedCap /\ unfed' <= unfed + 1
    BY <2>1, <1>t DEF TypeOK, UpTo
  <2>7. TypeOK'
    BY <2>1, <2>3, <2>5, <2>6, <1>t DEF TypeOK, FrameState, DiagState
  <2>8. NotYetCounted' /\ NotFresh' /\ CountedTwiceIfSkewed' /\ PassWaited'
    BY <2>1, <2>5, <1>t DEF NotYetCounted, NotFresh, CountedTwiceIfSkewed, PassWaited
  <2>9. UsableWasTaken'
    <3>1. diag.age \in 0 .. AgeCap /\ unfed \in 0 .. UnfedCap
      BY <1>t DEF DiagState, TypeOK
    <3>2. diag.usable => unfed <= diag.age \/ diag.age = AgeCap
      BY <2>1, <1>t DEF UsableWasTaken
    <3>3. QED
      BY <2>5, <2>6, <3>1, <3>2 DEF UsableWasTaken, UpTo
  <2>10. QED
    BY <2>4, <2>7, <2>8, <2>9 DEF IndInv
<1>8. CASE UNCHANGED vars
  BY <1>8, <1>t, RestUnchanged
  DEF vars, amsVars, taskVars, FreshWhenAllowed, TypeOK
<1>9. QED
  BY <1>1, <1>2, <1>3, <1>4, <1>5, <1>6, <1>7, <1>8 DEF Next

\* The variables keep their types.
THEOREM TypeCorrect == Spec => []TypeOK
<1>1. IndInv => TypeOK
  BY DEF IndInv
<1>2. QED
  BY <1>1, InitInvariant, NextInvariant, PTL DEF Spec

\* The gate is open only over frames that came within the timeout and a period.
THEOREM GateIsFreshHolds == Spec => []GateIsFresh
<1>1. IndInv => GateIsFresh
  BY DEF IndInv, FreshWhenAllowed, GateIsFresh, Gate, Allows
<1>2. QED
  BY <1>1, InitInvariant, NextInvariant, PTL DEF Spec

\* A current is compared twice only after a loss or with the first metadata.
THEOREM CountedTwiceHolds == Spec => []CountedTwiceIfSkewed
<1>1. IndInv => CountedTwiceIfSkewed
  BY DEF IndInv
<1>2. QED
  BY <1>1, InitInvariant, NextInvariant, PTL DEF Spec

\* Only metadata that are not sane suspend the monitor.
THEOREM SuspensionHolds == Spec => []SuspendedByMetadata
<1>1. IndInv => SuspendedByMetadata
  <2> SUFFICES ASSUME IndInv, polled, unfed > MaxAge + 1
               PROVE  ~diag.usable /\ diag.age <= MaxAge
    BY DEF SuspendedByMetadata
  <2>1. diag.age \in 0 .. AgeCap /\ unfed \in 0 .. UnfedCap
    BY DEF IndInv, TypeOK
  <2>2. diag.age <= MaxAge
    BY <2>1, Numbers DEF IndInv, PassWaited
  <2>3. ~diag.usable
    BY <2>1, <2>2, Numbers DEF IndInv, UsableWasTaken
  <2>4. QED
    BY <2>2, <2>3
<1>2. QED
  BY <1>1, InitInvariant, NextInvariant, PTL DEF Spec

===============================================================================
