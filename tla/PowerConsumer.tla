----------------------------- MODULE PowerConsumer -----------------------------
(***************************************************************************)
(* The ECU's consumer of AMS power authority                               *)
(* (Core/Src/ext_drivers/ams_power_consumer.c), the cache the AMS driver   *)
(* keeps of it (ams.c) and, as its environment, the AMS and the CAN bus.   *)
(*                                                                         *)
(* The AMS sends a bundle of core frames with a common rolling counter     *)
(* every period, and advisory frames with the same counter.  The consumer  *)
(* stages the core frames in any order, puts a complete bundle in force    *)
(* and grants authority after two bundles in a row.  Frames are lost,      *)
(* duplicated or malformed; the AMS may pause, or restart with any counter.*)
(*                                                                         *)
(* The CAN receive interrupt ingests a frame in one step; the getters run  *)
(* in critical sections.  Ticks are differences of 32-bit milliseconds,    *)
(* exact while no interval reaches 2^32 ms, so time is a natural number.   *)
(* A bundle carries its number and sending time, which the ECU cannot see. *)
(***************************************************************************)
EXTENDS Naturals, FiniteSets

CONSTANTS
  Slot,           \* the core frames: DCL, CCL, SoH, envelope
  Advisory,       \* the advisory frames: strategy, bindings
  CounterMod,     \* range of the rolling counter (16)
  MaxAge,         \* DER26_POWER_MAX_AGE_MS
  MaxSkew,        \* DER26_POWER_MAX_BUNDLE_SKEW_MS
  RequiredGood,   \* DER26_POWER_REQUIRED_GOOD_BUNDLES (2)
  StreakMax,      \* UINT8_MAX
  Period,         \* least time between two bundles of the AMS
  Delay,          \* longest time a frame is under way
  RefreshPeriod,  \* period of the error task
  Horizon         \* bound on the clock

\* A bundle and the skew window after it are over before the next is sent.
ASSUME LinkAssumption ==
  /\ Slot # {}
  /\ Slot \intersect Advisory = {}
  /\ CounterMod \in Nat \ {0, 1}
  /\ MaxAge \in Nat /\ MaxSkew \in Nat /\ Period \in Nat /\ Delay \in Nat
  /\ RefreshPeriod \in Nat /\ Horizon \in Nat
  /\ RequiredGood = 2 /\ StreakMax \in Nat /\ StreakMax >= RequiredGood
  /\ Delay + MaxSkew < Period

VARIABLES
  now,        \* the tick
  \* AMS and bus
  bundle,     \* the bundle last sent
  wire,       \* its frames that may still arrive
  \* der26_power_consumer_t
  stage,      \* stage_active, stage_counter, stage_mask, stage_started_ms,
              \* and the bundles whose frames payload holds
  streak,     \* good_bundle_streak
  last,       \* last_complete_counter, if complete_seen
  active,     \* active_valid, active_immediate
  advisory,   \* resource, binding_metadata
  \* ams_t
  cache,      \* power_authority_valid, power_authority
  refreshed,  \* when the error task last refreshed it
  \* what the bus has carried, for the properties
  heardAt,    \* when the first core frame of the last bundle arrived, or none
  broken      \* number of the last bundle heard but not completed, or none

amsVars == <<bundle, wire>>
consumerVars == <<stage, streak, last, active, advisory>>
vars == <<now, amsVars, consumerVars, cache, refreshed, heardAt, broken>>

-------------------------------------------------------------------------------
Counter == 0 .. CounterMod - 1
NextCounter(c) == (c + 1) % CounterMod
Bundle == [number : Nat, counter : Counter, sent : Nat]
NoBundle == [number |-> 0, counter |-> 0, sent |-> 0]
NoCounter == CounterMod  \* complete_seen is false
Never == 0              \* a time before the first bundle

\* The other fields of a stage that is not active are never read.
IdleStage == [active |-> FALSE, counter |-> 0, mask |-> {}, started |-> 0,
              parts |-> {}]
NothingReceived == [valid |-> FALSE, counter |-> 0, received |-> 0, parts |-> {}]

\* der26_power_consumer_init, ams_init; the AMS has sent nothing yet.
Init ==
  /\ now = Period
  /\ bundle = NoBundle
  /\ wire = {}
  /\ stage = IdleStage
  /\ streak = 0
  /\ last = NoCounter
  /\ active = NothingReceived
  /\ advisory = [a \in Advisory |-> NothingReceived]
  /\ cache = [valid |-> FALSE, parts |-> {}]
  /\ refreshed = now
  /\ heardAt = Never
  /\ broken = 0

-------------------------------------------------------------------------------
(* The getters.                                                            *)

Distance(a, b) == IF a >= b THEN a - b ELSE b - a

\* Faulty form: an incomplete newer bundle does not count against it.
FreshWhileStaging(t, act, stg) == act.valid /\ t - act.received <= MaxAge

\* active_bundle_fresh at time t, for a given consumer state.
Fresh(t, act, stg) ==
  /\ act.valid
  /\ t - act.received <= MaxAge
  /\ ~(stg.active /\ t - stg.started > MaxSkew)

\* der26_power_consumer_get_immediate_authority returns true.
Usable == Fresh(now, active, stage)

\* Faulty form: the counter alone ties advisory data to the authority.
AdvisoryUsableByCounter(a) ==
  /\ Usable
  /\ advisory[a].valid
  /\ advisory[a].counter = active.counter
  /\ now - advisory[a].received <= MaxAge

\* der26_power_consumer_get_resource_state returns true;
\* der26_power_consumer_get_feasibility_envelope returns binding metadata.
AdvisoryUsable(a) ==
  /\ Usable
  /\ advisory[a].valid
  /\ advisory[a].counter = active.counter
  /\ now - advisory[a].received <= MaxAge
  /\ Distance(advisory[a].received, active.received) <= MaxSkew

\* refresh_power_authority_cache at time t.
Cached(t, act, stg) ==
  IF Fresh(t, act, stg) THEN [valid |-> TRUE, parts |-> act.parts]
                        ELSE [valid |-> FALSE, parts |-> {}]

-------------------------------------------------------------------------------
(* Ingesting a core frame.  Each operator gives the next consumer state,   *)
(* and the receive interrupt refreshes the cache from it.                  *)

RefreshCache == cache' = Cached(now, active', stage')

\* Faulty form: the streak survives.
InvalidateTransportKeepsStreak ==
  /\ active' = [active EXCEPT !.valid = FALSE]
  /\ streak' = streak
  /\ stage' = IdleStage

\* invalidate_transport
InvalidateTransport ==
  /\ active' = [active EXCEPT !.valid = FALSE]
  /\ streak' = 0
  /\ stage' = IdleStage

\* The stage a frame with counter c finds or starts.
StageFor(c) ==
  IF stage.active /\ stage.counter = c
  THEN stage
  ELSE [active |-> TRUE, counter |-> c, mask |-> {}, started |-> now,
        parts |-> {}]

\* Its counter differs from that of an incomplete stage.
Interrupts(c) == stage.active /\ stage.counter # c /\ stage.mask # Slot

\* The frame is staged and the bundle is still incomplete.
StageOnly(staged) ==
  /\ stage' = staged
  /\ active' = IF Interrupts(staged.counter)
               THEN [active EXCEPT !.valid = FALSE] ELSE active
  /\ streak' = IF Interrupts(staged.counter) THEN 0 ELSE streak
  /\ UNCHANGED last

\* complete_bundle of a semantically valid bundle.
Complete(staged) ==
  LET c == staged.counter
      kept == IF Interrupts(c) \/ (last # NoCounter /\ c # NextCounter(last))
              THEN 0 ELSE streak
      good == IF kept < StreakMax THEN kept + 1 ELSE kept
  IN  /\ streak' = good
      /\ last' = c
      /\ active' = [valid |-> good >= RequiredGood, counter |-> c,
                    received |-> now, parts |-> staged.parts]
      /\ stage' = IdleStage

\* Faulty form: frames are staged however late they are.
IngestLate(b, s) ==
  LET found == StageFor(b.counter)
      staged == [found EXCEPT !.mask = @ \union {s}, !.parts = @ \union {b}]
      refused == s \in found.mask
  IN  \/ refused /\ InvalidateTransport /\ UNCHANGED last
      \/ ~refused /\ staged.mask # Slot /\ StageOnly(staged)
      \/ ~refused /\ staged.mask = Slot /\ Complete(staged)

\* der26_power_consumer_ingest of a well-formed core frame of bundle b in
\* slot s: late and repeated frames revoke the authority, and so does a
\* bundle whose frames do not fit together.
Ingest(b, s) ==
  LET found == StageFor(b.counter)
      staged == [found EXCEPT !.mask = @ \union {s}, !.parts = @ \union {b}]
      refused == now - found.started > MaxSkew \/ s \in found.mask
  IN  \/ refused /\ InvalidateTransport /\ UNCHANGED last
      \/ ~refused /\ staged.mask # Slot /\ StageOnly(staged)
      \/ /\ ~refused /\ staged.mask = Slot
         /\ Complete(staged) \/ (InvalidateTransport /\ UNCHANGED last)

-------------------------------------------------------------------------------
(* The receive interrupt, on frames of the bundle under way.               *)

UnderWay == now - bundle.sent <= Delay

HeardNow == heardAt' = IF heardAt = Never THEN now ELSE heardAt

\* A well-formed core frame, which CAN may deliver again.
ReceiveCore(s) ==
  /\ UnderWay /\ s \in wire
  /\ Ingest(bundle, s)
  /\ RefreshCache
  /\ wire' \in {wire, wire \ {s}}
  /\ HeardNow
  /\ UNCHANGED <<now, bundle, advisory, refreshed, broken>>

\* Faulty form: the cache is left for the error task to refresh.
ReceiveBadCoreCached(s) ==
  /\ UnderWay /\ s \in wire
  /\ InvalidateTransport
  /\ wire' = wire \ {s}
  /\ HeardNow
  /\ broken' = bundle.number
  /\ UNCHANGED <<now, bundle, last, advisory, cache, refreshed>>

\* A malformed one: not DLC 8, remote, or of the wrong version, CRC or range
\* (der26_power_consumer_invalidate_id and the error returns of ingest).
ReceiveBadCore(s) ==
  /\ UnderWay /\ s \in wire
  /\ InvalidateTransport
  /\ RefreshCache
  /\ wire' = wire \ {s}
  /\ HeardNow
  /\ broken' = bundle.number
  /\ UNCHANGED <<now, bundle, last, advisory, refreshed>>

\* An advisory frame replaces the one held; a malformed one only removes it.
ReceiveAdvisory(a) ==
  /\ UnderWay /\ a \in wire
  /\ \/ advisory' = [advisory EXCEPT ![a] =
           [valid |-> TRUE, counter |-> bundle.counter, received |-> now,
            parts |-> {bundle}]]
     \/ advisory' = [advisory EXCEPT ![a].valid = FALSE]
  /\ wire' = wire \ {a}
  /\ UNCHANGED <<now, bundle, stage, streak, last, active, cache,
                 refreshed, heardAt, broken>>

-------------------------------------------------------------------------------
\* The error task: ams_update_stale.
UpdateStale ==
  /\ cache' = Cached(now, active, stage)
  /\ refreshed' = now
  /\ UNCHANGED <<now, amsVars, consumerVars, heardAt, broken>>

\* The AMS sends a bundle; what is left of the previous one is lost.
Send(c) ==
  /\ now - bundle.sent >= Period
  /\ bundle' = [number |-> bundle.number + 1, counter |-> c, sent |-> now]
  /\ wire' = Slot \union Advisory
  /\ heardAt' = Never
  /\ broken' = IF heardAt # Never /\ bundle \notin active.parts
               THEN bundle.number ELSE broken
  /\ UNCHANGED <<now, consumerVars, cache, refreshed>>

SendNext == Send(NextCounter(bundle.counter))

\* The AMS restarted: its counter may be anything.
SendFirst == \E c \in Counter : Send(c)

\* The error task runs every period, so the clock waits for it.
Tick ==
  /\ now < Horizon
  /\ now - refreshed < RefreshPeriod
  /\ now' = now + 1
  /\ UNCHANGED <<amsVars, consumerVars, cache, refreshed, heardAt, broken>>

Next ==
  \/ \E s \in Slot : ReceiveCore(s) \/ ReceiveBadCore(s)
  \/ \E a \in Advisory : ReceiveAdvisory(a)
  \/ UpdateStale
  \/ SendNext
  \/ SendFirst
  \/ Tick

Spec == Init /\ [][Next]_vars

-------------------------------------------------------------------------------
Received == [valid : BOOLEAN, counter : Counter, received : Nat,
             parts : SUBSET Bundle]

TypeOK ==
  /\ now \in Nat
  /\ bundle \in Bundle
  /\ wire \subseteq Slot \union Advisory
  /\ stage \in [active : BOOLEAN, counter : Counter, mask : SUBSET Slot,
                started : Nat, parts : SUBSET Bundle]
  /\ streak \in 0 .. StreakMax
  /\ last \in Counter \union {NoCounter}
  /\ active \in Received
  /\ advisory \in [Advisory -> Received]
  /\ cache \in [valid : BOOLEAN, parts : SUBSET Bundle]
  /\ refreshed \in Nat
  /\ heardAt \in Nat
  /\ broken \in Nat

\* A granted authority comes from one bundle of the AMS, although only a
\* counter that repeats and a time window hold its frames together, and the
\* AMS sent that bundle at most MaxAge and a frame's delay ago.
SingleBundle ==
  Usable => \E b \in active.parts :
              active.parts = {b} /\ now - b.sent <= MaxAge + Delay

\* Advisory data is only given with the bundle it was sent with: a matching
\* counter of another bundle is kept out by the windows.
AdvisoryMatches ==
  \A a \in Advisory : AdvisoryUsable(a) => advisory[a].parts = active.parts

\* Once a frame of a newer bundle was heard, the older authority lasts for
\* the staging window at most.
Superseded ==
  Usable /\ heardAt # Never /\ bundle \notin active.parts =>
    now - heardAt <= MaxSkew

\* A bundle heard in part, or with a malformed frame, costs the authority
\* until two later bundles were complete (ECU_AMS_POWER_PROTOCOL_V2.md:7).
RecoveryNeedsTwo ==
  Usable => \A b \in active.parts : broken = 0 \/ broken + 2 <= b.number

\* The cache never outlives a revocation, and outlives the age limit by less
\* than a period of the error task.
CacheHonest ==
  cache.valid =>
    /\ active.valid
    /\ cache.parts = active.parts
    /\ now - active.received <= MaxAge + RefreshPeriod

===============================================================================
