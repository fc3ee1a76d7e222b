------------------------------ MODULE TorquePath ------------------------------
(***************************************************************************)
(* The way of a torque command from the pedal to the inverter.             *)
(*                                                                         *)
(* The APPS task (apps_task.c) takes a snapshot of the flags, of the AMS   *)
(* authority and of the committed torque, runs the torque clamp on it and, *)
(* later, puts the result - a contract - in a one-slot latest-value queue. *)
(* The CAN task (canbus_task.c), of higher priority, takes the newest      *)
(* contract or gives up waiting, waits for a mailbox, verifies the         *)
(* contract against what is true by then, sends a torque or a disable      *)
(* frame, and waits for the outcome: only a transmitted frame becomes the  *)
(* committed torque the next snapshot starts from.  Interrupts and the     *)
(* error task change authority, gates and operating point in between.      *)
(*                                                                         *)
(* The torque clamp is its promise: a torque no larger than the request,   *)
(* one the limit allows, and, for a rise or an unfinished transition, one  *)
(* whose transient (Overshoot above the torque) the limit allows too.      *)
(* Frames, mailboxes and the wait loops are those of CanTx, with one frame *)
(* at a time; time is in ticks.                                            *)
(***************************************************************************)
EXTENDS Naturals

CONSTANTS
  MaxTorque,     \* torques are 0..MaxTorque, 0 is the disable frame
  RiseStep,      \* largest rise of the comfort slew per period
  FallStep,      \* largest fall of the comfort slew per period
  Overshoot,     \* transient current of a rise above the steady one
  Period,        \* period of the APPS task and age limit of a contract
  HardBudget,    \* clamp time from which an overrun may be measured
  TripCount,     \* overruns in a row that latch a fault
  UnlockCycles,  \* disable cycles before torque
  CommandWait,   \* longest wait of the CAN task for a contract
  ReadyWait,     \* longest wait for a mailbox
  CompleteWait,  \* longest wait for a transmission
  Reconcile      \* window for its outcome after the abort

ASSUME TorqueAssumption ==
  /\ MaxTorque \in Nat \ {0} /\ Overshoot \in Nat
  /\ RiseStep \in Nat \ {0} /\ FallStep \in Nat \ {0}
ASSUME TimeAssumption ==
  /\ Period \in Nat \ {0} /\ HardBudget \in 1..Period
  /\ CommandWait \in Nat \ {0} /\ ReadyWait \in Nat \ {0}
  /\ CompleteWait \in Nat \ {0} /\ Reconcile \in Nat \ {0}
ASSUME CountAssumption == TripCount \in Nat \ {0} /\ UnlockCycles \in Nat

VARIABLES
  apps,       \* APPS task: "idle" or "computing"
  appsAge,    \* ticks since it last woke, up to Period
  unlock,     \* disable cycles still to come
  slew,       \* comfort-slewed request
  work,       \* the contract it computes
  overruns,   \* clamp overruns in a row
  overrunFault,
  queue,      \* the latest-value mailbox: {} or one contract
  can,        \* CAN task: "receive", "ready", "complete" or "reconcile"
  canAge,     \* ticks in that state
  due,        \* its 1 ms sleep between two polls is over
  request,    \* the contract it works on
  wire,       \* CM200 frame in bxCAN: "none", "pending", "sent", "failed"
  frame,      \* torque of that frame
  other,      \* an AMS feedback frame waits in bxCAN
  uncertain,  \* tx_outcome_uncertain_latched
  acked,      \* raw_committed_torque_nm
  settling,   \* transition.active
  txFault,    \* canbus_tx_fault
  flags,      \* ecu_torque_allowed of the published flags but txFault
  dcl,        \* torque AMS authority and inverter allow right now
  inverter,   \* torque the inverter was last told
  excess,     \* ticks the inverter has been above a limit that fell no more
  shut        \* ticks the limit has been 0

appsVars == <<apps, appsAge, unlock, slew, work, overruns, overrunFault>>
canVars  == <<can, canAge, due, request>>
wireVars == <<wire, frame, other, uncertain>>
ackVars  == <<acked, settling, txFault>>
envVars  == <<flags, dcl>>
seenVars == <<inverter, excess, shut>>
vars == <<appsVars, queue, canVars, wireVars, ackVars, envVars, seenVars>>

Torque == 0..MaxTorque
Lesser(a, b) == IF a < b THEN a ELSE b

Contract == [torque : Torque, certified : BOOLEAN, material : BOOLEAN,
             fresh : BOOLEAN, age : Nat]
Disable == [torque |-> 0, certified |-> FALSE, material |-> FALSE,
            fresh |-> TRUE, age |-> 0]
\* What the APPS task computes on: did the clamp run, from which torque.
Work == [clamped : BOOLEAN, from : Torque, contract : Contract]
NoWork == [clamped |-> FALSE, from |-> 0, contract |-> Disable]

ExcessBound == CommandWait + ReadyWait + 2 * (CompleteWait + Reconcile)

AppsTypes ==
  /\ apps \in {"idle", "computing"} /\ appsAge \in Nat
  /\ unlock \in 0..UnlockCycles /\ slew \in Torque /\ work \in Work
  /\ overruns \in 0..TripCount /\ overrunFault \in BOOLEAN
QueueTypes == queue \subseteq Contract /\ \A c, d \in queue : c = d
CanTypes ==
  /\ can \in {"receive", "ready", "complete", "reconcile"}
  /\ canAge \in Nat /\ due \in BOOLEAN /\ request \in Contract
WireTypes ==
  /\ wire \in {"none", "pending", "sent", "failed"} /\ frame \in Torque
  /\ other \in BOOLEAN /\ uncertain \in BOOLEAN
AckTypes == acked \in Torque /\ settling \in BOOLEAN /\ txFault \in BOOLEAN
EnvTypes == flags \in BOOLEAN /\ dcl \in Torque
SeenTypes == inverter \in Torque /\ excess \in Nat /\ shut \in Nat

TypeOK ==
  /\ AppsTypes /\ QueueTypes /\ CanTypes /\ WireTypes /\ AckTypes /\ EnvTypes
  /\ SeenTypes

-----------------------------------------------------------------------------
(* What the system may carry, and for how long it carried more.            *)

Limit == IF flags /\ ~txFault THEN dcl ELSE 0

Counted(count, condition, bound) ==
  IF condition THEN Lesser(count + 1, bound) ELSE 0

\* After a step that changes limit or inverter but takes no time.
Observe ==
  /\ excess' = IF inverter' > Limit' /\ Limit' >= Limit THEN excess ELSE 0
  /\ shut' = IF Limit' = 0 THEN shut ELSE 0

Init ==
  /\ apps = "idle" /\ appsAge = Period /\ unlock = UnlockCycles /\ slew = 0
  /\ work = NoWork
  /\ overruns = 0 /\ overrunFault = FALSE
  /\ queue = {} /\ can = "receive" /\ canAge = 0 /\ due = FALSE
  /\ request = Disable
  /\ wire = "none" /\ frame = 0 /\ other = FALSE /\ uncertain = FALSE
  /\ acked = 0 /\ settling = FALSE /\ txFault = FALSE
  /\ flags = FALSE /\ dcl = 0
  /\ inverter = 0 /\ excess = 0 /\ shut = 0

-----------------------------------------------------------------------------
(* The APPS task runs only while the CAN task sleeps: in the wait for a    *)
(* contract, or between two polls of the outcome.  The wait for a mailbox  *)
(* polls without sleeping.                                                 *)

\* Faulty form: a wait for a mailbox that sleeps.
ReadySleeps ==
  \/ can \in {"receive", "ready"} /\ queue = {}
  \/ can \in {"complete", "reconcile"} /\ ~due

CanSleeps ==
  \/ can = "receive" /\ queue = {}
  \/ can \in {"complete", "reconcile"} /\ ~due

Allowed == flags /\ ~txFault

Slewed(target) ==
  IF target > slew THEN Lesser(slew + RiseStep, target)
  ELSE IF slew > target + FallStep THEN slew - FallStep ELSE target

\* The limit lets a torque flow, with its transient when one is expected.
Fits(torque, transient) == torque + (IF transient THEN Overshoot ELSE 0) <= dcl

\* The contract for a torque; a microstep needs no transient.
Result(torque, microstep) ==
  [torque |-> torque,
   certified |-> /\ ~microstep /\ torque > 0
                 /\ torque > acked \/ (torque = acked /\ settling),
   material |-> ~microstep /\ torque # acked,
   fresh |-> TRUE, age |-> 0]

\* A small change of a settled torque is a microstep.
MayMicrostep(torque) == ~settling /\ acked > 0 /\ torque > 0 /\ torque # acked

\* What the clamp may return for a request: the calibration decides which.
Clamped(ask) ==
  {Result(t, FALSE) : t \in 0..ask}
    \cup {Result(t, TRUE) : t \in {u \in 0..ask : MayMicrostep(u)}}

\* ecu_cm200_update_unlock
NextUnlock ==
  IF ~Allowed THEN UnlockCycles ELSE IF unlock > 0 THEN unlock - 1 ELSE 0

AppsSnapshot ==
  /\ CanSleeps /\ apps = "idle" /\ appsAge = Period
  /\ apps' = "computing" /\ appsAge' = 0
  /\ unlock' = NextUnlock
  /\ IF Allowed /\ unlock = 0
     THEN \E target \in Torque :
            /\ slew' = Slewed(target)
            /\ \E c \in Clamped(slew') :
                 /\ c.torque > 0 => Fits(c.torque, c.certified)
                 /\ work' = [clamped |-> TRUE, from |-> acked, contract |-> c]
     ELSE slew' = 0 /\ work' = NoWork
  /\ UNCHANGED <<overruns, overrunFault, queue, canVars, wireVars, ackVars,
                 envVars, seenVars>>

\* The clamp took too long: by the tick, or by the cycle counter.
MayOverrun ==
  IF ~work.clamped \/ appsAge < HardBudget THEN {FALSE}
  ELSE IF appsAge = Period THEN {TRUE} ELSE BOOLEAN

\* The computed contract; after an overrun, zero.
Published(overrun) ==
  [torque |-> IF overrun THEN 0 ELSE work.contract.torque,
   certified |-> ~overrun /\ work.contract.certified,
   material |-> IF overrun THEN work.from # 0 ELSE work.contract.material,
   fresh |-> work.contract.fresh,
   age |-> appsAge]

AppsPublish ==
  /\ CanSleeps /\ apps = "computing"
  /\ apps' = "idle"
  /\ \E overrun \in MayOverrun :
       /\ queue' = {Published(overrun)}
       /\ slew' = IF overrun \/ work.contract.torque = 0 THEN 0 ELSE slew
       /\ overruns' = IF overrun THEN Lesser(overruns + 1, TripCount)
                      ELSE IF work.clamped THEN 0 ELSE overruns
       /\ overrunFault' = (overrunFault \/ (overrun /\ overruns' = TripCount))
  /\ work' = NoWork
  /\ UNCHANGED <<appsAge, unlock, canVars, wireVars, ackVars, envVars, seenVars>>

-----------------------------------------------------------------------------
(* The CAN task: newest contract or disable, mailbox, protected commit.    *)

StartReady(contract) ==
  /\ request' = contract
  /\ can' = "ready" /\ canAge' = 0

Receive ==
  /\ can = "receive" /\ queue # {}
  /\ \E c \in queue : StartReady(c)
  /\ queue' = {}
  /\ UNCHANGED <<due, appsVars, wireVars, ackVars, envVars, seenVars>>

\* Faulty form: without a contract the task just tries again.
ReceiveAgain ==
  /\ can = "receive" /\ queue = {} /\ canAge = CommandWait
  /\ canAge' = 0
  /\ UNCHANGED <<can, due, request, queue, appsVars, wireVars, ackVars, envVars,
                 seenVars>>

\* xQueueReceive timed out: the command is replaced by a disable.
ReceiveTimeout ==
  /\ can = "receive" /\ queue = {} /\ canAge = CommandWait
  /\ StartReady(Disable)
  /\ UNCHANGED <<due, queue, appsVars, wireVars, ackVars, envVars, seenVars>>

BackToReceive == can' = "receive" /\ canAge' = 0 /\ request' = Disable

MailboxReady == wire # "pending" /\ ~other /\ ~uncertain

\* The command failed: canbus_tx_fault, and the time of a loss starts anew.
Fail ==
  /\ BackToReceive
  /\ txFault' = TRUE
  /\ excess' = 0
  /\ shut' = shut

ReadyTimeout ==
  /\ can = "ready"
  /\ uncertain \/ (~MailboxReady /\ canAge = ReadyWait)
  /\ Fail
  /\ UNCHANGED <<due, queue, appsVars, wireVars, acked, settling, envVars,
                 inverter>>

\* Faulty form: what the snapshot saw is trusted.
VerifiedBefore(contract) == contract.fresh /\ contract.age <= Period

\* commit_reverify and the live gate, in the critical section.
Verified(contract) ==
  /\ flags /\ ~txFault
  /\ contract.fresh /\ contract.age <= Period
  /\ Fits(contract.torque, contract.certified)

Commit ==
  /\ can = "ready" /\ MailboxReady
  /\ frame' = IF Verified(request) THEN request.torque ELSE 0
  /\ wire' = "pending"
  /\ can' = "complete" /\ canAge' = 0 /\ due' = TRUE
  /\ request' = [request EXCEPT !.fresh = TRUE, !.age = 0]   \* no longer read
  /\ UNCHANGED <<queue, other, uncertain, appsVars, ackVars, envVars,
                 seenVars>>

-----------------------------------------------------------------------------
(* The outcome of the frame.                                               *)

\* ecu_torque_clamp_note_hardware_commit: the transition the frame starts,
\* keeps or lets settle.  A zero with no clamp result behind it changes what was
\* committed before; the contract does not tell which zero has one.
NoteCommit ==
  /\ acked' = frame
  /\ \E material \in (IF request.torque = frame THEN {request.material} ELSE {})
                       \union (IF frame = 0 THEN {acked # 0} ELSE {}) :
       settling' \in IF material /\ (~settling \/ frame = 0) THEN {TRUE}
                     ELSE IF settling THEN BOOLEAN ELSE {FALSE}

Completed ==
  /\ can \in {"complete", "reconcile"} /\ due /\ wire = "sent"
  /\ NoteCommit
  /\ wire' = "none" /\ frame' = 0 /\ txFault' = FALSE
  /\ other' \in BOOLEAN                \* canbus_try_send_ams_feedback
  /\ BackToReceive /\ due' = FALSE
  /\ UNCHANGED <<uncertain, queue, appsVars, envVars, inverter>>
  /\ Observe

Aborted ==
  /\ can \in {"complete", "reconcile"} /\ due /\ wire = "failed"
  /\ wire' = "none" /\ frame' = 0 /\ due' = FALSE
  /\ Fail
  /\ UNCHANGED <<other, uncertain, queue, appsVars, acked, settling,
                 envVars, inverter>>

AskAbort ==
  /\ can = "complete" /\ due /\ wire = "pending" /\ canAge = CompleteWait
  /\ can' = "reconcile" /\ canAge' = 0
  /\ UNCHANGED <<due, request, queue, appsVars, wireVars, ackVars, envVars,
                 seenVars>>

GiveUp ==
  /\ can = "reconcile" /\ due /\ wire = "pending" /\ canAge = Reconcile
  /\ uncertain' = TRUE /\ due' = FALSE
  /\ Fail
  /\ UNCHANGED <<wire, frame, other, queue, appsVars, acked, settling, envVars,
                 inverter>>

PollAgain ==
  /\ due /\ wire = "pending"
  /\ \/ can = "complete" /\ canAge < CompleteWait
     \/ can = "reconcile" /\ canAge < Reconcile
  /\ due' = FALSE
  /\ UNCHANGED <<can, canAge, request, queue, appsVars, wireVars, ackVars,
                 envVars, seenVars>>

-----------------------------------------------------------------------------
(* Hardware, interrupts and the other tasks.                               *)

Transmit ==
  /\ wire = "pending"
  /\ wire' = "sent" /\ inverter' = frame
  /\ excess' = IF inverter' > Limit THEN excess ELSE 0
  /\ UNCHANGED <<frame, other, uncertain, queue, appsVars, canVars, ackVars,
                 envVars, shut>>

TransmitFails ==
  /\ wire = "pending"
  /\ wire' = "failed"
  /\ UNCHANGED <<frame, other, uncertain, queue, appsVars, canVars, ackVars,
                 envVars, seenVars>>

OtherSent ==
  /\ other /\ other' = FALSE
  /\ UNCHANGED <<wire, frame, uncertain, queue, appsVars, canVars, ackVars,
                 envVars, seenVars>>

\* The tasks that publish flags; the error task ends them all on an overrun.
SetFlags ==
  /\ flags' = ~flags
  /\ flags' => ~overrunFault
  /\ UNCHANGED <<queue, appsVars, canVars, wireVars, ackVars, dcl,
                 inverter>>
  /\ Observe

\* A CAN receive interrupt changes the authority or the inverter's state.
SetAuthority ==
  /\ dcl' \in Torque \ {dcl}
  /\ UNCHANGED <<queue, appsVars, canVars, wireVars, ackVars, flags, inverter>>
  /\ Observe

Stale(contract) == [contract EXCEPT !.fresh = FALSE]

\* A newer operating point arrives: what was computed before does not match.
OperatingPoint ==
  /\ work' = IF work.clamped THEN [work EXCEPT !.contract = Stale(@)] ELSE work
  /\ queue' = {Stale(c) : c \in queue}
  /\ request' = IF can = "ready" THEN Stale(request) ELSE request
  /\ UNCHANGED <<apps, appsAge, unlock, slew, overruns, overrunFault, can, canAge,
                 due, wireVars, ackVars, envVars, seenVars>>

Older(contract) == [contract EXCEPT !.age = Lesser(@ + 1, Period + 1)]

\* A tick.  The CAN task acts on a contract, on its polls and on its limits
\* before the next one; the APPS task may be late by any time.
Tick ==
  /\ ~due
  /\ can = "receive" => queue = {} /\ canAge < CommandWait
  /\ can = "ready" => canAge < ReadyWait /\ ~uncertain
  /\ canAge' = canAge + 1
  /\ due' = (can \in {"complete", "reconcile"})
  /\ appsAge' = Lesser(appsAge + 1, Period)
  /\ queue' = {Older(c) : c \in queue}
  /\ request' = IF can = "ready" THEN Older(request) ELSE request
  /\ excess' = Counted(excess, inverter > Limit, ExcessBound + 1)
  /\ shut' = Counted(shut, Limit = 0, CompleteWait + Reconcile + 1)
  /\ UNCHANGED <<apps, unlock, slew, work, overruns, overrunFault, can, wireVars,
                 ackVars, envVars, inverter>>

Next ==
  \/ AppsSnapshot \/ AppsPublish
  \/ Receive \/ ReceiveTimeout \/ ReadyTimeout \/ Commit
  \/ Completed \/ Aborted \/ AskAbort \/ GiveUp \/ PollAgain
  \/ Transmit \/ TransmitFails \/ OtherSent
  \/ SetFlags \/ SetAuthority \/ OperatingPoint \/ Tick

Spec == Init /\ [][Next]_vars

-----------------------------------------------------------------------------
(* Properties.                                                             *)

\* A frame is handed to bxCAN.
Commits == wire # "pending" /\ wire' = "pending"

\* A torque frame is never sent while a newer contract, perhaps a disable,
\* waits in the queue: from the receive to the commit the CAN task lets the
\* APPS task publish nothing.
NewestWins ==
  [][Commits /\ frame' > 0 => queue = {}]_vars

\* Once flags, authority or limit are gone, no frame raises the torque of the
\* inverter but one already on its way, for at most the time the CAN task
\* waits for an outcome; only after an unknown outcome may it come later.
NoLateTorque ==
  [][inverter' > inverter =>
       shut <= CompleteWait + Reconcile \/ uncertain]_vars

\* The inverter carries more than the limit allows for at most ExcessBound
\* after the limit last fell, or after the last command that failed; the
\* APPS task may have stopped.
ExcessIsBrief == excess <= ExcessBound

-----------------------------------------------------------------------------
(* The inductive invariant.                                                *)

Waiting == can \in {"complete", "reconcile"}

\* Ticks since the frame that is waited for was committed.
Elapsed == IF can = "reconcile" THEN CompleteWait + canAge ELSE canAge

TimeKept ==
  /\ can = "receive" => canAge <= CommandWait
  /\ can = "ready" => canAge <= ReadyWait
  /\ can = "complete" => canAge < CompleteWait + (IF due THEN 1 ELSE 0)
  /\ can = "reconcile" => canAge < Reconcile + (IF due THEN 1 ELSE 0)
  /\ due => Waiting

\* From the receive to the commit the queue stays empty.
ReadyIsNewest == can = "ready" => queue = {}

\* A frame outlives the wait for it only when its outcome is unknown.
WireOwned ==
  /\ ~Waiting /\ wire # "none" => uncertain
  /\ Waiting => ~uncertain /\ wire # "none"
  /\ Waiting /\ wire = "sent" => inverter = frame

Counts ==
  /\ inverter <= Limit => excess = 0
  /\ Limit > 0 => shut = 0

\* What was committed was within the limit: it is above it only if the limit
\* fell since.
Committed ==
  Waiting =>
    /\ frame > 0 => shut <= Elapsed
    /\ frame > Limit => excess <= Elapsed

\* The excess is counted along the way of the next command.
ExcessSoFar ==
  /\ can = "receive" => excess <= CompleteWait + Reconcile + canAge
  /\ can = "ready" => excess <= CompleteWait + Reconcile + CommandWait + canAge
  /\ Waiting =>
       excess <= CompleteWait + Reconcile + CommandWait + ReadyWait + Elapsed

IndInv ==
  /\ TypeOK /\ TimeKept /\ ReadyIsNewest /\ WireOwned /\ Counts
  /\ Committed /\ ExcessSoFar
=============================================================================
