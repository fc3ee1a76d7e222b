--------------------------- MODULE PowerConsumerProofs -------------------------
(***************************************************************************)
(* Proofs about PowerConsumer for every number of frames, every counter    *)
(* range and every timing that satisfies LinkAssumption.                   *)
(***************************************************************************)
EXTENDS PowerConsumer, TLAPS

\* Bundle a was over, and its skew window too, when b was sent.
Before(a, b) == a.number < b.number /\ a.sent + Period <= b.sent

\* Something received at time r consists of one bundle, then under way.
FromOne(parts, r) ==
  /\ parts # {}
  /\ \A a, b \in parts : a = b
  /\ \A b \in parts : b.sent <= r /\ r <= b.sent + Delay
  /\ r <= now

Clock ==
  /\ now > 0 /\ bundle.sent <= now
  /\ refreshed <= now /\ now <= refreshed + RefreshPeriod
  /\ heardAt <= now

Ordered ==
  /\ \A b \in stage.parts \union active.parts : b = bundle \/ Before(b, bundle)
  /\ \A x \in Advisory : \A b \in advisory[x].parts :
       /\ b = bundle \/ Before(b, bundle)
       /\ \A a \in active.parts : a = b \/ Before(a, b) \/ Before(b, a)

Staged ==
  IF stage.active
  THEN /\ FromOne(stage.parts, stage.started)
       /\ \A b \in stage.parts : b.counter = stage.counter
       /\ stage.mask # {} /\ stage.mask # Slot
  ELSE stage = IdleStage

InForce ==
  /\ active.valid => streak >= RequiredGood
  /\ streak > 0 => active.parts # {}
  /\ active.parts # {} => FromOne(active.parts, active.received)
  /\ \A b \in active.parts : b.counter = last

Advised ==
  \A x \in Advisory :
    advisory[x].valid => FromOne(advisory[x].parts, advisory[x].received)

\* What the last bundle has done to the consumer.
Heard ==
  IF heardAt = Never
  THEN bundle \notin stage.parts \union active.parts
  ELSE \/ bundle \in active.parts
       \/ streak = 0
       \/ stage.active /\ bundle \in stage.parts /\ stage.started = heardAt

\* An older bundle stuck in the stage, past its window.
Stalled ==
  stage.active /\ now - stage.started > MaxSkew /\ bundle \notin stage.parts

Repaired ==
  /\ broken <= bundle.number
  /\ broken # 0 =>
       \/ streak = 0
       \/ Stalled
       \/ \A b \in active.parts : broken + 2 <= b.number
       \/ streak = 1 /\ \A b \in active.parts : broken + 1 <= b.number

\* A bundle with a malformed frame cannot be completed any more.
Spoilt ==
  broken = bundle.number /\ broken # 0 =>
    /\ bundle \notin active.parts \/ streak = 0
    /\ \E s \in Slot \ wire : bundle \in stage.parts => s \notin stage.mask

CacheInv ==
  cache.valid =>
    /\ active.valid
    /\ cache.parts = active.parts
    /\ refreshed <= active.received + MaxAge

IndInv ==
  /\ TypeOK
  /\ Clock
  /\ Ordered
  /\ Staged
  /\ InForce
  /\ Advised
  /\ Heard
  /\ Repaired
  /\ Spoilt
  /\ CacheInv

-------------------------------------------------------------------------------
(* Type correctness.                                                       *)

LEMMA NextCounterType ==
  ASSUME NEW c \in Counter
  PROVE  NextCounter(c) \in Counter
BY LinkAssumption DEF Counter, NextCounter

LEMMA ZeroCounter == 0 \in Counter
BY LinkAssumption DEF Counter

LEMMA IdleType ==
  IdleStage \in [active : BOOLEAN, counter : Counter, mask : SUBSET Slot,
                 started : Nat, parts : SUBSET Bundle]
BY ZeroCounter DEF IdleStage

LEMMA TypeInit == Init => TypeOK
BY LinkAssumption, ZeroCounter, IdleType
   DEF Init, TypeOK, NoBundle, NothingReceived, NoCounter, Never, Bundle,
       Received

\* The stage a frame finds or starts.
LEMMA FoundType ==
  ASSUME TypeOK
  PROVE  StageFor(bundle.counter) \in
           [active : BOOLEAN, counter : Counter, mask : SUBSET Slot,
            started : Nat, parts : SUBSET Bundle]
BY DEF TypeOK, StageFor, Bundle

LEMMA CachedType ==
  ASSUME TypeOK, NEW act \in Received, NEW stg, NEW t
  PROVE  Cached(t, act, stg) \in [valid : BOOLEAN, parts : SUBSET Bundle]
BY DEF Cached, Received

LEMMA RevokedType ==
  ASSUME NEW r \in Received
  PROVE  [r EXCEPT !.valid = FALSE] \in Received
BY DEF Received

LEMMA InvalidatedType ==
  ASSUME TypeOK, InvalidateTransport
  PROVE  /\ stage' \in [active : BOOLEAN, counter : Counter, mask : SUBSET Slot,
                        started : Nat, parts : SUBSET Bundle]
         /\ streak' \in 0 .. StreakMax
         /\ active' \in Received
<1>1. stage' \in [active : BOOLEAN, counter : Counter, mask : SUBSET Slot,
                  started : Nat, parts : SUBSET Bundle]
  BY IdleType DEF InvalidateTransport
<1>2. streak' \in 0 .. StreakMax
  BY LinkAssumption DEF InvalidateTransport
<1>3. active' \in Received
  BY RevokedType DEF InvalidateTransport, TypeOK
<1>. QED
  BY <1>1, <1>2, <1>3

LEMMA IngestType ==
  ASSUME TypeOK, NEW s \in Slot, Ingest(bundle, s)
  PROVE  /\ stage' \in [active : BOOLEAN, counter : Counter, mask : SUBSET Slot,
                        started : Nat, parts : SUBSET Bundle]
         /\ streak' \in 0 .. StreakMax
         /\ last' \in Counter \union {NoCounter}
         /\ active' \in Received
<1>. DEFINE found == StageFor(bundle.counter)
            staged == [found EXCEPT !.mask = @ \union {s},
                                    !.parts = @ \union {bundle}]
<1>1. staged \in [active : BOOLEAN, counter : Counter, mask : SUBSET Slot,
                  started : Nat, parts : SUBSET Bundle]
  BY FoundType DEF TypeOK
<1>2. /\ staged.counter \in Counter
      /\ staged.parts \in SUBSET Bundle
  BY <1>1
<1>3. CASE InvalidateTransport /\ UNCHANGED last
  BY <1>3, InvalidatedType DEF TypeOK
<1>. HIDE DEF staged
<1>4. CASE StageOnly(staged)
  <2>1. stage' = staged /\ last' = last
    BY <1>4 DEF StageOnly
  <2>2. streak' \in {0, streak}
    BY <1>4 DEF StageOnly
  <2>3. active' \in {active, [active EXCEPT !.valid = FALSE]}
    BY <1>4 DEF StageOnly
  <2>4. streak' \in 0 .. StreakMax
    BY <2>2, LinkAssumption DEF TypeOK
  <2>. QED
    BY <1>1, <2>1, <2>3, <2>4, RevokedType DEF TypeOK
<1>5. CASE Complete(staged)
  <2>1. stage' = IdleStage /\ last' = staged.counter
    BY <1>5 DEF Complete
  <2>2. streak' \in 0 .. StreakMax
    BY <1>5, LinkAssumption DEF Complete, TypeOK
  <2>3. active' = [valid |-> streak' >= RequiredGood, counter |-> staged.counter,
                   received |-> now, parts |-> staged.parts]
    BY <1>5 DEF Complete
  <2>4. active' \in Received
    BY <1>2, <2>3 DEF Received, TypeOK
  <2>. QED
    BY <1>2, <2>1, <2>2, <2>4, IdleType
<1>. QED
  BY <1>3, <1>4, <1>5 DEF Ingest, staged

LEMMA TypeStep == TypeOK /\ [Next]_vars => TypeOK'
<1> SUFFICES ASSUME TypeOK, [Next]_vars PROVE TypeOK'
  OBVIOUS
<1>. USE DEF TypeOK, amsVars, consumerVars
<1>1. ASSUME NEW s \in Slot, ReceiveCore(s) PROVE TypeOK'
  BY <1>1, IngestType, CachedType DEF ReceiveCore, RefreshCache, HeardNow
<1>2. ASSUME NEW s \in Slot, ReceiveBadCore(s) PROVE TypeOK'
  BY <1>2, InvalidatedType, CachedType
     DEF ReceiveBadCore, RefreshCache, HeardNow, Bundle
<1>3. ASSUME NEW a \in Advisory, ReceiveAdvisory(a) PROVE TypeOK'
  <2>. DEFINE taken == [valid |-> TRUE, counter |-> bundle.counter,
                        received |-> now, parts |-> {bundle}]
              left == [advisory[a] EXCEPT !.valid = FALSE]
  <2>1. taken \in Received
    BY DEF Received, Bundle
  <2>2. left \in Received
    BY RevokedType
  <2>3. \/ advisory' = [advisory EXCEPT ![a] = taken]
        \/ advisory' = [advisory EXCEPT ![a] = left]
    BY <1>3 DEF ReceiveAdvisory
  <2>. HIDE DEF taken, left
  <2>4. advisory \in [Advisory -> Received]
    OBVIOUS
  <2>5. advisory' \in [Advisory -> Received]
    BY <2>1, <2>2, <2>3, <2>4
  <2>. QED
    BY <1>3, <2>5 DEF ReceiveAdvisory
<1>4. CASE UpdateStale
  BY <1>4, CachedType DEF UpdateStale
<1>5. ASSUME NEW c \in Counter, Send(c) PROVE TypeOK'
  BY <1>5 DEF Send, Bundle, Never
<1>6. CASE Tick \/ UNCHANGED vars
  BY <1>6 DEF Tick, vars
<1>7. bundle.counter \in Counter
  BY DEF Bundle
<1>. QED
  BY <1>1, <1>2, <1>3, <1>4, <1>5, <1>6, <1>7, NextCounterType
     DEF Next, SendNext, SendFirst

\* The variables of the consumer keep their types.
THEOREM TypeCorrect == Spec => []TypeOK
BY TypeInit, TypeStep, PTL DEF Spec

-------------------------------------------------------------------------------
(* The inductive invariant.                                                *)

\* What the types say of the numbers the arguments compare.
LEMMA Numbers ==
  ASSUME TypeOK
  PROVE  /\ now \in Nat /\ bundle.number \in Nat /\ bundle.sent \in Nat
         /\ bundle.counter \in Counter /\ refreshed \in Nat /\ heardAt \in Nat
         /\ broken \in Nat /\ streak \in Nat
         /\ stage.started \in Nat /\ active.received \in Nat
         /\ \A x \in Advisory : advisory[x].received \in Nat
         /\ \A b \in stage.parts \union active.parts :
              b.number \in Nat /\ b.sent \in Nat /\ b.counter \in Counter
         /\ \A x \in Advisory : \A b \in advisory[x].parts :
              b.number \in Nat /\ b.sent \in Nat
<1>. USE DEF TypeOK
<1>1. /\ bundle.number \in Nat /\ bundle.sent \in Nat
      /\ bundle.counter \in Counter
  BY DEF Bundle
<1>2. /\ stage.started \in Nat
      /\ stage.parts \subseteq Bundle
  OBVIOUS
<1>3. /\ active.received \in Nat
      /\ active.parts \subseteq Bundle
  BY DEF Received
<1>4. \A x \in Advisory : /\ advisory[x].received \in Nat
                          /\ advisory[x].parts \subseteq Bundle
  BY DEF Received
<1>5. \A b \in Bundle : b.number \in Nat /\ b.sent \in Nat /\ b.counter \in Counter
  BY DEF Bundle
<1>6. streak \in Nat
  BY LinkAssumption
<1>. QED
  BY <1>1, <1>2, <1>3, <1>4, <1>5, <1>6

LEMMA InitInv == Init => IndInv
<1> SUFFICES ASSUME Init PROVE IndInv
  OBVIOUS
<1>1. TypeOK
  BY TypeInit
<1>2. /\ stage.parts = {} /\ active.parts = {} /\ ~active.valid
      /\ stage = IdleStage /\ ~stage.active /\ ~cache.valid
      /\ bundle.sent = 0 /\ bundle.number = 0
      /\ \A x \in Advisory : advisory[x].parts = {} /\ ~advisory[x].valid
  BY DEF Init, IdleStage, NothingReceived, NoBundle
<1>3. now > 0 /\ now = Period
  BY LinkAssumption DEF Init
<1>. QED
  BY <1>1, <1>2, <1>3, LinkAssumption
     DEF IndInv, Clock, Ordered, Staged, InForce, Advised, Heard, Repaired,
         Spoilt, CacheInv, Init, Never

\* A stage that is still in its window holds frames of the bundle under way.
LEMMA Window ==
  ASSUME IndInv, UnderWay, stage.active, ~(now - stage.started > MaxSkew)
  PROVE  stage.parts = {bundle}
<1>. USE Numbers DEF IndInv
<1>1. FromOne(stage.parts, stage.started)
  BY DEF Staged
<1>2. ASSUME NEW b \in stage.parts PROVE b = bundle
  <2>1. stage.started <= b.sent + Delay
    BY <1>1 DEF FromOne
  <2>2. ~(b.sent + Period <= bundle.sent)
    BY <2>1, LinkAssumption DEF Clock
  <2>. QED
    BY <2>2 DEF Ordered, Before
<1>. QED
  BY <1>1, <1>2 DEF FromOne

StagedBy(s) ==
  [StageFor(bundle.counter) EXCEPT !.mask = @ \union {s},
                                   !.parts = @ \union {bundle}]
Accepted(s) ==
  /\ ~(now - StageFor(bundle.counter).started > MaxSkew)
  /\ s \notin StageFor(bundle.counter).mask

LEMMA IngestCases ==
  ASSUME NEW s, Ingest(bundle, s)
  PROVE  \/ InvalidateTransport /\ last' = last
         \/ Accepted(s) /\ StagedBy(s).mask # Slot /\ StageOnly(StagedBy(s))
         \/ Accepted(s) /\ StagedBy(s).mask = Slot /\ Complete(StagedBy(s))
BY DEF Ingest, Accepted, StagedBy

\* An accepted frame joins a stage of its own bundle, or starts one.
LEMMA Joined ==
  ASSUME IndInv, UnderWay, NEW s \in Slot, Accepted(s)
  PROVE  /\ StagedBy(s).active
         /\ StagedBy(s).counter = bundle.counter
         /\ StagedBy(s).parts = {bundle}
         /\ \/ /\ stage.active /\ stage.counter = bundle.counter
               /\ stage.parts = {bundle}
               /\ ~(now - stage.started > MaxSkew)
               /\ StagedBy(s).started = stage.started
               /\ StagedBy(s).mask = stage.mask \union {s}
            \/ /\ ~(stage.active /\ stage.counter = bundle.counter)
               /\ StagedBy(s).started = now
               /\ StagedBy(s).mask = {s}
<1>. DEFINE found == StageFor(bundle.counter)
<1>1. found \in [active : BOOLEAN, counter : Counter, mask : SUBSET Slot,
                 started : Nat, parts : SUBSET Bundle]
  BY FoundType DEF IndInv
<1>2. /\ StagedBy(s).active = found.active
      /\ StagedBy(s).counter = found.counter
      /\ StagedBy(s).parts = found.parts \union {bundle}
      /\ StagedBy(s).started = found.started
      /\ StagedBy(s).mask = found.mask \union {s}
  BY <1>1 DEF StagedBy
<1>3. CASE stage.active /\ stage.counter = bundle.counter
  <2>1. found = stage
    BY <1>3 DEF StageFor
  <2>2. stage.parts = {bundle}
    BY <1>3, <2>1, Window DEF Accepted
  <2>. QED
    BY <1>2, <1>3, <2>1, <2>2 DEF Accepted
<1>4. CASE ~(stage.active /\ stage.counter = bundle.counter)
  <2>1. /\ found.active /\ found.counter = bundle.counter /\ found.parts = {}
        /\ found.started = now /\ found.mask = {}
    BY <1>4 DEF StageFor
  <2>. QED
    BY <1>2, <1>4, <2>1
<1>. QED
  BY <1>3, <1>4

-------------------------------------------------------------------------------
(* Each action keeps the invariant.                                        *)

\* The fields that a revocation leaves alone.
LEMMA RevokedFields ==
  ASSUME TypeOK, active' = [active EXCEPT !.valid = FALSE]
  PROVE  /\ ~active'.valid
         /\ active'.parts = active.parts /\ active'.received = active.received
         /\ active'.counter = active.counter
BY DEF TypeOK, Received

\* A refreshed cache says what the consumer says.
LEMMA Refreshed ==
  ASSUME IndInv, TypeOK', now' = now,
         cache' = Cached(now, active', stage'),
         refreshed' = refreshed \/ refreshed' = now
  PROVE  CacheInv'
<1>. USE Numbers DEF IndInv
<1>1. refreshed' <= now
  BY DEF Clock
<1>2. active'.received \in Nat
  BY DEF TypeOK, Received
<1>3. CASE Fresh(now, active', stage')
  <2>1. /\ cache'.parts = active'.parts
        /\ active'.valid /\ now - active'.received <= MaxAge
    BY <1>3 DEF Cached, Fresh
  <2>2. refreshed' <= active'.received + MaxAge
    BY <1>1, <1>2, <2>1, LinkAssumption
  <2>. QED
    BY <2>1, <2>2 DEF CacheInv
<1>4. CASE ~Fresh(now, active', stage')
  <2>1. ~cache'.valid
    BY <1>4 DEF Cached
  <2>. QED
    BY <2>1 DEF CacheInv
<1>. QED
  BY <1>3, <1>4

LEMMA HeardClock ==
  ASSUME IndInv, HeardNow, UNCHANGED <<now, bundle, refreshed>>
  PROVE  Clock' /\ heardAt' # Never
BY Numbers DEF IndInv, HeardNow, Clock, Never

\* A refused or malformed frame.
LEMMA RevokeInv ==
  ASSUME IndInv, TypeOK', InvalidateTransport, last' = last, RefreshCache, HeardNow,
         UNCHANGED <<now, bundle, advisory, refreshed>>,
         NEW s \in Slot, s \in wire, wire' \in {wire, wire \ {s}},
         \/ broken' = broken
         \/ broken' = bundle.number /\ wire' = wire \ {s}
  PROVE  IndInv'
<1>. USE Numbers DEF IndInv
<1>1. /\ stage' = IdleStage /\ ~stage'.active /\ stage'.parts = {}
      /\ streak' = 0
  BY DEF InvalidateTransport, IdleStage
<1>2. /\ ~active'.valid
      /\ active'.parts = active.parts /\ active'.received = active.received
  BY RevokedFields DEF InvalidateTransport
<1>3. Clock' /\ heardAt' # Never
  BY HeardClock
<1>4. Ordered'
  BY <1>1, <1>2 DEF Ordered, Before
<1>5. Staged'
  BY <1>1 DEF Staged
<1>6. InForce'
  BY <1>1, <1>2 DEF InForce, FromOne
<1>7. Advised'
  BY DEF Advised, FromOne
<1>8. Heard'
  BY <1>1, <1>3 DEF Heard
<1>9. Repaired'
  BY <1>1 DEF Repaired
<1>10. Spoilt'
  <2> SUFFICES ASSUME broken' = bundle.number, broken' # 0
               PROVE  \E t \in Slot : t \notin wire'
    BY <1>1 DEF Spoilt
  <2>. QED
    BY DEF Spoilt
<1>11. CacheInv'
  BY Refreshed DEF RefreshCache
<1>. QED
  BY <1>3, <1>4, <1>5, <1>6, <1>7, <1>8, <1>9, <1>10, <1>11

\* A frame of an incomplete bundle.
LEMMA StageInv ==
  ASSUME IndInv, TypeOK', UnderWay, RefreshCache, HeardNow,
         NEW s \in Slot, s \in wire, wire' \in {wire, wire \ {s}},
         Accepted(s), StagedBy(s).mask # Slot, StageOnly(StagedBy(s)),
         UNCHANGED <<now, bundle, advisory, refreshed, broken>>
  PROVE  IndInv'
<1>. USE Numbers DEF IndInv
<1>1. /\ stage'.active /\ stage'.counter = bundle.counter
      /\ stage'.parts = {bundle} /\ stage'.mask # Slot /\ stage'.mask # {}
      /\ last' = last
  BY Joined DEF StageOnly
<1>2. /\ active'.parts = active.parts /\ active'.received = active.received
      /\ \/ streak' = 0 /\ ~active'.valid
         \/ streak' = streak /\ active'.valid = active.valid
  BY RevokedFields DEF StageOnly
<1>3. \/ /\ stage.active /\ stage.counter = bundle.counter
         /\ stage.parts = {bundle} /\ stage'.started = stage.started
         /\ ~(now - stage.started > MaxSkew)
         /\ stage'.mask = stage.mask \union {s}
      \/ /\ ~(stage.active /\ stage.counter = bundle.counter)
         /\ stage'.started = now /\ stage'.mask = {s}
  BY Joined DEF StageOnly
<1>4. stage.active /\ stage.counter # bundle.counter => streak' = 0
  <2>1. stage.active => stage.mask # Slot
    BY DEF Staged
  <2>. QED
    BY <2>1, Joined DEF StageOnly, Interrupts
<1>5. Clock' /\ heardAt' # Never
  BY HeardClock
<1>6. Ordered'
  BY <1>1, <1>2 DEF Ordered, Before
<1>7. Staged'
  <2>1. bundle.sent <= stage'.started /\ stage'.started <= bundle.sent + Delay
    BY <1>3, LinkAssumption DEF UnderWay, Clock, Staged, FromOne
  <2>2. stage'.started <= now
    BY <1>3 DEF Staged, FromOne
  <2>. QED
    BY <1>1, <2>1, <2>2 DEF Staged, FromOne
<1>8. InForce'
  BY <1>1, <1>2 DEF InForce, FromOne
<1>9. Advised'
  BY DEF Advised, FromOne
<1>10. Heard'
  <2>1. CASE heardAt = Never
    <3>1. heardAt' = now
      BY <2>1 DEF HeardNow
    <3>2. bundle \notin stage.parts
      BY <2>1 DEF Heard
    <3>. QED
      BY <1>1, <1>3, <1>5, <3>1, <3>2 DEF Heard
  <2>2. CASE heardAt # Never
    <3>1. heardAt' = heardAt
      BY <2>2 DEF HeardNow
    <3>2. CASE bundle \in active.parts \/ streak = 0
      BY <1>2, <1>5, <3>2 DEF Heard
    <3>3. CASE stage.active /\ bundle \in stage.parts /\ stage.started = heardAt
      <4>1. stage.counter = bundle.counter
        BY <3>3 DEF Staged
      <4>. QED
        BY <1>1, <1>3, <1>5, <3>1, <3>3, <4>1 DEF Heard
    <3>. QED
      BY <2>2, <3>2, <3>3 DEF Heard
  <2>. QED
    BY <2>1, <2>2
<1>11. Repaired'
  <2>1. Stalled => streak' = 0
    BY <1>3, <1>4 DEF Stalled
  <2>. QED
    BY <1>2, <2>1 DEF Repaired
<1>12. Spoilt'
  <2> SUFFICES ASSUME broken = bundle.number, broken # 0
               PROVE  /\ bundle \notin active.parts \/ streak = 0
                      /\ \E t \in Slot \ wire' : t \notin stage'.mask
    BY <1>2 DEF Spoilt
  <2>1. PICK t \in Slot \ wire : bundle \in stage.parts => t \notin stage.mask
    BY DEF Spoilt
  <2>2. t \notin stage'.mask /\ t \notin wire'
    BY <1>3, <2>1
  <2>. QED
    BY <2>2 DEF Spoilt
<1>13. CacheInv'
  BY Refreshed DEF RefreshCache
<1>. QED
  BY <1>5, <1>6, <1>7, <1>8, <1>9, <1>10, <1>11, <1>12, <1>13

\* The frame that completes a bundle.
LEMMA CompleteInv ==
  ASSUME IndInv, TypeOK', UnderWay, RefreshCache, HeardNow,
         NEW s \in Slot, s \in wire, wire' \in {wire, wire \ {s}},
         Accepted(s), StagedBy(s).mask = Slot, Complete(StagedBy(s)),
         UNCHANGED <<now, bundle, advisory, refreshed, broken>>
  PROVE  IndInv'
<1>. USE Numbers DEF IndInv
<1>. DEFINE kept == IF Interrupts(bundle.counter)
                       \/ (last # NoCounter /\ bundle.counter # NextCounter(last))
                    THEN 0 ELSE streak
<1>1. StagedBy(s).counter = bundle.counter /\ StagedBy(s).parts = {bundle}
  BY Joined
<1>2. /\ stage' = IdleStage /\ last' = bundle.counter
      /\ streak' = IF kept < StreakMax THEN kept + 1 ELSE kept
      /\ active' = [valid |-> streak' >= RequiredGood, counter |-> bundle.counter,
                    received |-> now, parts |-> {bundle}]
  BY <1>1 DEF Complete
<1>3. /\ ~stage'.active /\ stage'.parts = {}
      /\ active'.valid => streak' >= RequiredGood
      /\ active'.parts = {bundle} /\ active'.received = now
  BY <1>2 DEF IdleStage
<1>4. Clock' /\ heardAt' # Never
  BY HeardClock
<1>5. kept \in Nat
  OBVIOUS
<1>6. streak' > 0 /\ (kept = 0 => streak' = 1)
  BY <1>2, <1>5, LinkAssumption
<1>7. Ordered'
  BY <1>3 DEF Ordered, Before
<1>8. Staged'
  BY <1>2, <1>3 DEF Staged
<1>9. InForce'
  <2>1. bundle.sent <= now /\ now <= bundle.sent + Delay
    BY LinkAssumption DEF UnderWay, Clock
  <2>. QED
    BY <1>2, <1>3, <2>1 DEF InForce, FromOne
<1>10. Advised'
  BY DEF Advised, FromOne
<1>11. Heard'
  BY <1>3, <1>4 DEF Heard
\* A malformed frame of this bundle would have left a gap in the mask.
<1>12. broken # bundle.number \/ broken = 0
  <2> SUFFICES ASSUME broken = bundle.number, broken # 0
               PROVE  FALSE
    OBVIOUS
  <2>1. PICK t \in Slot \ wire : bundle \in stage.parts => t \notin stage.mask
    BY DEF Spoilt
  <2>2. t \in StagedBy(s).mask /\ t # s
    BY <2>1
  <2>3. StagedBy(s).mask = {s} \/ (stage.parts = {bundle} /\ t \in stage.mask)
    BY <2>2, Joined
  <2>. QED
    BY <2>1, <2>2, <2>3
<1>13. Repaired'
  <2> SUFFICES ASSUME broken # 0
               PROVE  \/ broken + 2 <= bundle.number
                      \/ streak' = 1 /\ broken + 1 <= bundle.number
    BY <1>3 DEF Repaired
  <2>1. broken + 1 <= bundle.number
    BY <1>12 DEF Repaired
  <2>2. CASE kept = 0
    BY <1>6, <2>1, <2>2
  <2>3. CASE kept # 0
    <3>1. /\ streak = kept /\ streak > 0 /\ ~Interrupts(bundle.counter)
          /\ last # NoCounter => bundle.counter = NextCounter(last)
      BY <2>3
    <3>2. PICK a \in active.parts : a.counter = last
      BY <3>1 DEF InForce
    <3>3. last \in Counter /\ bundle.counter = NextCounter(last)
      BY <3>1, <3>2, LinkAssumption DEF Counter, NoCounter
    <3>4. NextCounter(last) # last
      BY <3>3, LinkAssumption DEF Counter, NextCounter
    <3>5. a.number + 1 <= bundle.number
      BY <3>2, <3>3, <3>4 DEF Ordered, Before
    <3>6. ~Stalled
      <4>1. stage.active => stage.counter = bundle.counter
        BY <3>1 DEF Interrupts, Staged
      <4>. QED
        BY <4>1, Joined DEF Stalled
    <3>. QED
      BY <3>1, <3>2, <3>5, <3>6 DEF Repaired
  <2>. QED
    BY <2>2, <2>3
<1>14. Spoilt'
  BY <1>12 DEF Spoilt
<1>15. CacheInv'
  BY Refreshed DEF RefreshCache
<1>. QED
  BY <1>4, <1>7, <1>8, <1>9, <1>10, <1>11, <1>13, <1>14, <1>15

LEMMA CoreInv ==
  ASSUME IndInv, TypeOK', NEW s \in Slot, ReceiveCore(s)
  PROVE  IndInv'
<1>1. /\ UnderWay /\ s \in wire /\ RefreshCache /\ HeardNow
      /\ wire' \in {wire, wire \ {s}} /\ Ingest(bundle, s)
      /\ UNCHANGED <<now, bundle, advisory, refreshed, broken>>
  BY DEF ReceiveCore
<1>2. CASE InvalidateTransport /\ last' = last
  BY <1>1, <1>2, RevokeInv
<1>3. CASE Accepted(s) /\ StagedBy(s).mask # Slot /\ StageOnly(StagedBy(s))
  BY <1>1, <1>3, StageInv
<1>4. CASE Accepted(s) /\ StagedBy(s).mask = Slot /\ Complete(StagedBy(s))
  BY <1>1, <1>4, CompleteInv
<1>. QED
  BY <1>1, <1>2, <1>3, <1>4, IngestCases

LEMMA BadCoreInv ==
  ASSUME IndInv, TypeOK', NEW s \in Slot, ReceiveBadCore(s)
  PROVE  IndInv'
BY RevokeInv DEF ReceiveBadCore

LEMMA AdvisoryInv ==
  ASSUME IndInv, TypeOK', NEW x \in Advisory, ReceiveAdvisory(x)
  PROVE  IndInv'
<1>. USE Numbers DEF IndInv
<1>1. /\ UNCHANGED <<now, bundle, stage, streak, last, active, cache,
                     refreshed, heardAt, broken>>
      /\ wire' = wire \ {x}
  BY DEF ReceiveAdvisory
<1>2. \A y \in Advisory :
        \/ /\ advisory'[y].parts = advisory[y].parts
           /\ advisory'[y].received = advisory[y].received
           /\ advisory'[y].valid => advisory[y].valid
        \/ advisory'[y].parts = {bundle} /\ advisory'[y].received = now
  <2> SUFFICES ASSUME NEW y \in Advisory
               PROVE  \/ /\ advisory'[y].parts = advisory[y].parts
                         /\ advisory'[y].received = advisory[y].received
                         /\ advisory'[y].valid => advisory[y].valid
                      \/ advisory'[y].parts = {bundle} /\ advisory'[y].received = now
    OBVIOUS
  <2>1. advisory \in [Advisory -> Received]
    BY DEF TypeOK
  <2>2. CASE x = y
    <3>1. \/ advisory'[y] = [valid |-> TRUE, counter |-> bundle.counter,
                             received |-> now, parts |-> {bundle}]
          \/ advisory'[y] = [advisory[y] EXCEPT !.valid = FALSE]
      BY <2>1, <2>2 DEF ReceiveAdvisory
    <3>. QED
      BY <2>1, <3>1 DEF Received
  <2>3. CASE x # y
    <3>1. advisory'[y] = advisory[y]
      BY <2>1, <2>3 DEF ReceiveAdvisory
    <3>. QED
      BY <3>1
  <2>. QED
    BY <2>2, <2>3
<1>3. bundle.sent <= now /\ now <= bundle.sent + Delay
  BY LinkAssumption DEF ReceiveAdvisory, UnderWay, Clock
<1>4. Clock'
  BY <1>1 DEF Clock
<1>5. Ordered'
  BY <1>1, <1>2 DEF Ordered, Before
<1>6. Staged' /\ InForce' /\ Heard' /\ Repaired' /\ CacheInv'
  BY <1>1 DEF Staged, FromOne, InForce, Heard, Repaired, Stalled, CacheInv
<1>7. Advised'
  BY <1>1, <1>2, <1>3 DEF Advised, FromOne
<1>8. Spoilt'
  BY <1>1 DEF Spoilt
<1>. QED
  BY <1>4, <1>5, <1>6, <1>7, <1>8

LEMMA StaleInv ==
  ASSUME IndInv, TypeOK', UpdateStale
  PROVE  IndInv'
<1>. USE DEF IndInv, amsVars, consumerVars
<1>1. UNCHANGED <<now, bundle, wire, stage, streak, last, active, advisory,
                  heardAt, broken>> /\ refreshed' = now
  BY DEF UpdateStale
<1>2. CacheInv'
  <2>1. cache' = Cached(now, active', stage') /\ now' = now
    BY <1>1 DEF UpdateStale
  <2>. QED
    BY <1>1, <2>1, Refreshed
<1>3. Clock'
  BY <1>1, Numbers, LinkAssumption DEF Clock
<1>. QED
  BY <1>1, <1>2, <1>3
     DEF Ordered, Before, Staged, FromOne, InForce, Advised, Heard, Repaired,
         Stalled, Spoilt

LEMMA SendInv ==
  ASSUME IndInv, TypeOK', NEW c \in Counter, Send(c)
  PROVE  IndInv'
<1>. USE Numbers DEF IndInv
<1>1. /\ UNCHANGED <<now, stage, streak, last, active, advisory, cache, refreshed>>
      /\ bundle'.number = bundle.number + 1 /\ bundle'.sent = now
      /\ bundle.sent + Period <= now /\ heardAt' = Never
  BY LinkAssumption DEF Send, consumerVars, Clock
<1>2. Clock'
  BY <1>1 DEF Clock, Never
<1>3. /\ \A b \in stage.parts \union active.parts : Before(b, bundle')
      /\ \A x \in Advisory : \A b \in advisory[x].parts : Before(b, bundle')
  BY <1>1, LinkAssumption DEF Ordered, Before
<1>4. Ordered'
  BY <1>1, <1>3 DEF Ordered, Before
<1>5. Staged' /\ InForce' /\ Advised' /\ CacheInv'
  BY <1>1 DEF Staged, FromOne, InForce, Advised, CacheInv
<1>6. bundle' \notin stage.parts \union active.parts
  <2>1. \A b \in stage.parts \union active.parts : b.number # bundle'.number
    BY <1>1, <1>3 DEF Before
  <2>. QED
    BY <2>1
<1>7. Heard'
  BY <1>1, <1>6 DEF Heard
<1>8. /\ broken' <= bundle.number /\ broken' <= bundle'.number
  <2>1. broken' \in {bundle.number, broken}
    BY DEF Send
  <2>2. broken' <= bundle.number /\ broken' \in Nat
    BY <2>1 DEF Repaired
  <2>. QED
    BY <1>1, <2>2
<1>9. Spoilt'
  BY <1>1, <1>8 DEF Spoilt
<1>10. Repaired'
  <2>1. CASE heardAt # Never /\ bundle \notin active.parts
    <3>1. CASE streak = 0
      BY <1>1, <1>8, <3>1 DEF Repaired
    <3>2. CASE stage.active /\ bundle \in stage.parts
      <4>1. stage.started <= bundle.sent + Delay
        BY <3>2 DEF Staged, FromOne
      <4>2. now - stage.started > MaxSkew
        BY <1>1, <4>1, LinkAssumption
      <4>. QED
        BY <1>1, <1>6, <1>8, <3>2, <4>2 DEF Repaired, Stalled
    <3>. QED
      BY <2>1, <3>1, <3>2 DEF Heard
  <2>2. CASE ~(heardAt # Never /\ bundle \notin active.parts)
    <3>1. broken' = broken
      BY <2>2 DEF Send
    <3>2. Stalled => Stalled'
      BY <1>1, <1>6 DEF Stalled
    <3>. QED
      BY <1>1, <1>8, <3>1, <3>2 DEF Repaired
  <2>. QED
    BY <2>1, <2>2
<1>. QED
  BY <1>2, <1>4, <1>5, <1>7, <1>9, <1>10

LEMMA TickInv ==
  ASSUME IndInv, TypeOK', Tick
  PROVE  IndInv'
<1>. USE Numbers DEF IndInv
<1>1. /\ UNCHANGED <<bundle, wire, stage, streak, last, active, advisory, cache,
                     refreshed, heardAt, broken>>
      /\ now' = now + 1 /\ now - refreshed < RefreshPeriod
  BY DEF Tick, amsVars, consumerVars
<1>2. Clock'
  BY <1>1, LinkAssumption DEF Clock
<1>3. Staged' /\ InForce' /\ Advised'
  BY <1>1 DEF Staged, FromOne, InForce, Advised
<1>4. Stalled => Stalled'
  BY <1>1, LinkAssumption DEF Stalled
<1>5. Repaired'
  BY <1>1, <1>4 DEF Repaired
<1>. QED
  BY <1>1, <1>2, <1>3, <1>5 DEF Ordered, Before, Heard, Spoilt, CacheInv

LEMMA StutterInv ==
  ASSUME IndInv, UNCHANGED vars
  PROVE  IndInv'
BY DEF IndInv, vars, amsVars, consumerVars, TypeOK, Clock, Ordered, Before, Staged,
       FromOne, InForce, Advised, Heard, Repaired, Stalled, Spoilt, CacheInv

LEMMA StepInv == IndInv /\ [Next]_vars => IndInv'
<1> SUFFICES ASSUME IndInv, [Next]_vars PROVE IndInv'
  OBVIOUS
<1>1. TypeOK'
  BY TypeStep DEF IndInv
<1>2. bundle.counter \in Counter
  BY Numbers DEF IndInv
<1>3. ASSUME NEW s \in Slot, ReceiveCore(s) \/ ReceiveBadCore(s) PROVE IndInv'
  BY <1>1, <1>3, CoreInv, BadCoreInv
<1>4. ASSUME NEW x \in Advisory, ReceiveAdvisory(x) PROVE IndInv'
  BY <1>1, <1>4, AdvisoryInv
<1>5. CASE UpdateStale
  BY <1>1, <1>5, StaleInv
<1>6. CASE SendNext \/ SendFirst
  BY <1>1, <1>2, <1>6, SendInv, NextCounterType DEF SendNext, SendFirst
<1>7. CASE Tick
  BY <1>1, <1>7, TickInv
<1>8. CASE UNCHANGED vars
  BY <1>8, StutterInv
<1>. QED
  BY <1>3, <1>4, <1>5, <1>6, <1>7, <1>8 DEF Next

\* The invariant holds in every reachable state.
THEOREM IndInvariant == Spec => []IndInv
BY InitInv, StepInv, PTL DEF Spec

-------------------------------------------------------------------------------
(* The properties.                                                         *)

\* What a usable authority says of the state.
LEMMA UsableFacts ==
  ASSUME IndInv, Usable
  PROVE  /\ streak >= 2 /\ FromOne(active.parts, active.received)
         /\ now - active.received <= MaxAge
         /\ ~(stage.active /\ now - stage.started > MaxSkew)
BY Numbers, LinkAssumption DEF IndInv, Usable, Fresh, InForce

\* A granted authority is one bundle, and a recent one.
THEOREM SingleBundleHolds == Spec => []SingleBundle
<1>1. IndInv => SingleBundle
  <2> SUFFICES ASSUME IndInv, Usable
               PROVE  \E b \in active.parts :
                        active.parts = {b} /\ now - b.sent <= MaxAge + Delay
    BY DEF SingleBundle
  <2>1. PICK b \in active.parts : active.parts = {b}
    BY UsableFacts DEF FromOne
  <2>2. active.received <= b.sent + Delay
    BY UsableFacts DEF FromOne
  <2>3. now - b.sent <= MaxAge + Delay
    BY <2>2, UsableFacts, Numbers, LinkAssumption DEF IndInv
  <2>. QED
    BY <2>1, <2>3
<1>. QED
  BY <1>1, IndInvariant, PTL

\* Advisory data that is given belongs to the bundle in force.
THEOREM AdvisoryHolds == Spec => []AdvisoryMatches
<1>1. IndInv => AdvisoryMatches
  <2> SUFFICES ASSUME IndInv, NEW x \in Advisory, AdvisoryUsable(x)
               PROVE  advisory[x].parts = active.parts
    BY DEF AdvisoryMatches
  <2>1. /\ FromOne(active.parts, active.received)
        /\ FromOne(advisory[x].parts, advisory[x].received)
    BY UsableFacts DEF AdvisoryUsable, IndInv, Advised
  <2>2. PICK a \in active.parts, b \in advisory[x].parts :
          active.parts = {a} /\ advisory[x].parts = {b}
    BY <2>1 DEF FromOne
  <2>3. /\ active.received - advisory[x].received <= MaxSkew
        /\ advisory[x].received - active.received <= MaxSkew
    BY Numbers, LinkAssumption DEF IndInv, AdvisoryUsable, Distance
  <2>4. /\ a.sent <= active.received /\ active.received <= a.sent + Delay
        /\ b.sent <= advisory[x].received /\ advisory[x].received <= b.sent + Delay
    BY <2>1 DEF FromOne
  <2>5. ~Before(a, b) /\ ~Before(b, a)
    BY <2>3, <2>4, Numbers, LinkAssumption DEF IndInv, Before
  <2>6. a = b
    BY <2>5 DEF IndInv, Ordered
  <2>. QED
    BY <2>2, <2>6
<1>. QED
  BY <1>1, IndInvariant, PTL

\* A newer bundle that stays incomplete ends the older authority.
THEOREM SupersededHolds == Spec => []Superseded
<1>1. IndInv => Superseded
  <2> SUFFICES ASSUME IndInv, Usable, heardAt # Never, bundle \notin active.parts
               PROVE  now - heardAt <= MaxSkew
    BY DEF Superseded
  <2>1. streak >= 2 /\ ~(stage.active /\ now - stage.started > MaxSkew)
    BY UsableFacts
  <2>2. stage.active /\ stage.started = heardAt
    BY <2>1 DEF IndInv, Heard
  <2>. QED
    BY <2>1, <2>2, Numbers, LinkAssumption DEF IndInv
<1>. QED
  BY <1>1, IndInvariant, PTL

\* A broken bundle costs the authority until two later ones were complete.
THEOREM RecoveryHolds == Spec => []RecoveryNeedsTwo
<1>1. IndInv => RecoveryNeedsTwo
  BY UsableFacts, Numbers DEF IndInv, RecoveryNeedsTwo, Repaired, Stalled
<1>. QED
  BY <1>1, IndInvariant, PTL

\* The cache never outlives a revocation.
THEOREM CacheHolds == Spec => []CacheHonest
<1>1. IndInv => CacheHonest
  <2> SUFFICES ASSUME IndInv, cache.valid PROVE CacheHonest
    BY DEF CacheHonest
  <2>1. /\ active.valid /\ cache.parts = active.parts
        /\ refreshed <= active.received + MaxAge
    BY DEF IndInv, CacheInv
  <2>2. now <= refreshed + RefreshPeriod
    BY DEF IndInv, Clock
  <2>3. now - active.received <= MaxAge + RefreshPeriod
    BY <2>1, <2>2, Numbers, LinkAssumption DEF IndInv
  <2>. QED
    BY <2>1, <2>3 DEF CacheHonest
<1>. QED
  BY <1>1, IndInvariant, PTL

===============================================================================
