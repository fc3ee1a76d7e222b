----------------------------- MODULE Cm200Commands -----------------------------
(***************************************************************************)
(* How the ECU tells whether the CM200 takes its commands                  *)
(* (Core/Src/ext_drivers/cm200.c): it compares the rolling counter the     *)
(* inverter expects next (0x0AA) and the torque it shows (0x0AC) with the  *)
(* last commands known to be transmitted.                                  *)
(*                                                                         *)
(* Commands go through CommandChannel, which CanTx implements: a command   *)
(* has reached the inverter before the CAN task notes it.  The inverter    *)
(* handles a command before it receives the next, and takes it only with   *)
(* the counter it expects.                                                 *)
(*                                                                         *)
(* The age and validity of frames, the power-on timer and the fault words  *)
(* are not modelled; a malformed frame leaves the state here alone.        *)
(***************************************************************************)
EXTENDS Naturals

CONSTANTS
  CounterMod,     \* range of the rolling counter (16)
  Torque,         \* torque commands, 0 among them
  MismatchLimit,  \* CM200_INTEGRITY_MISMATCH_LIMIT (3)
  Period,         \* broadcasts of a kind between two passes of the error task
  Burst           \* commands between two broadcasts for which FrozenIsSeen

\* The counter has not come round before a mismatch is latched.
ASSUME CommandsAssumption ==
  /\ MismatchLimit \in Nat \ {0} /\ Period \in Nat \ {0}
  /\ Burst \in Nat \ {0}
  /\ CounterMod \in Nat /\ (MismatchLimit + Period) * Burst + 1 < CounterMod
  /\ 0 \in Torque

VARIABLES
  delivered, history, offered, closed,   \* of CommandChannel
  expects,    \* the CM200: the counter of the next command it takes
  shows,      \* the torque of the one it took last
  inbox,      \* it has still to handle the command received last
  deaf,       \* commands no longer reach it
  noted,      \* have_command_tx, have_previous_command_tx: 0, 1 or 2
  previous,   \* previous_command_torque_0p1nm
  counter,    \* counter_synced, counter_mismatch_count, counter_fault,
              \* have_counter_observation and last_observed_expected_counter
  echo,       \* torque_echo_synced, _mismatch_count, _fault
  tripped,    \* the supervisor has latched a fault
  since,      \* broadcasts of each kind since the last pass of the error task
  early,      \* broadcasts of each kind in a row that came before the note
  burst,      \* commands noted since the last 0x0AA
  frozenFor   \* 0x0AA of a deaf inverter with commands in between (FrozenLimit)

channelVars == <<delivered, history, offered, closed>>
inverterVars == <<expects, shows, inbox, deaf>>
driverVars == <<noted, previous, counter, echo>>
taskVars == <<tripped, since>>
seenVars == <<early, burst, frozenFor>>
vars == <<channelVars, inverterVars, driverVars, taskVars, seenVars>>

-------------------------------------------------------------------------------
Channel == INSTANCE CommandChannel

Frames == {"states", "timer"}
Unseen == CounterMod

\* A fault may be latched and cleared between two passes before it is there to
\* stay: mismatches up to a fault, a period, and as many mismatches again.
FrozenLimit == 2 * MismatchLimit + Period

UpTo(limit, n) == IF n < limit THEN n ELSE limit

\* cm200_init.  The inverter may expect the counter of an earlier sender.
Init ==
  /\ Channel!Init
  /\ expects \in 0 .. CounterMod - 1 /\ shows \in Torque
  /\ inbox = FALSE /\ deaf = FALSE
  /\ noted = 0 /\ previous = 0
  /\ counter = [synced |-> FALSE, mismatch |-> 0, fault |-> FALSE, seen |-> Unseen]
  /\ echo = [synced |-> FALSE, mismatch |-> 0, fault |-> FALSE]
  /\ tripped = FALSE /\ since = [f \in Frames |-> 0]
  /\ early = [f \in Frames |-> 0] /\ burst = 0 /\ frozenFor = 0

-------------------------------------------------------------------------------
(* Commands, from the CAN task to the inverter.                            *)

\* The part of cm200_feedback_healthy that is modelled.
Follows == counter.synced /\ ~counter.fault /\ echo.synced /\ ~echo.fault

\* safety_gate_valid_locked asks for it before each torque command.
Offer ==
  /\ \E t \in Torque : (t # 0 => Follows) /\ Channel!Offer(t)
  /\ UNCHANGED <<inverterVars, driverVars, taskVars, seenVars>>

\* The frame ends on the bus; another node acknowledges it for a deaf CM200.
Deliver ==
  /\ ~inbox
  /\ Channel!Deliver
  /\ inbox' = ~deaf
  /\ UNCHANGED <<expects, shows, deaf, driverVars, taskVars, seenVars>>

Drop ==
  /\ Channel!Drop
  /\ UNCHANGED <<inverterVars, driverVars, taskVars, seenVars>>

Close ==
  /\ ~closed /\ Channel!Close
  /\ UNCHANGED <<inverterVars, driverVars, taskVars, seenVars>>

\* Faulty form: the previous torque is not kept.
NoteForgetsPrevious ==
  /\ history # delivered
  /\ Channel!Acknowledge
  /\ noted' = UpTo(2, noted + 1)
  /\ burst' = UpTo(Burst + 1, burst + 1)
  /\ UNCHANGED <<previous, inverterVars, counter, echo, taskVars, early, frozenFor>>

\* cm200_note_command_tx
Note ==
  /\ history # delivered
  /\ Channel!Acknowledge
  /\ noted' = UpTo(2, noted + 1)
  /\ previous' = IF noted > 0 THEN history.torque ELSE previous
  /\ burst' = UpTo(Burst + 1, burst + 1)
  /\ UNCHANGED <<inverterVars, counter, echo, taskVars, early, frozenFor>>

Handle ==
  /\ inbox /\ inbox' = FALSE
  /\ IF delivered.counter = expects
     THEN expects' = Channel!Successor(expects) /\ shows' = delivered.torque
     ELSE UNCHANGED <<expects, shows>>
  /\ UNCHANGED <<channelVars, deaf, driverVars, taskVars, seenVars>>

GoDeaf ==
  /\ ~deaf /\ ~inbox
  /\ deaf' = TRUE
  /\ UNCHANGED <<channelVars, expects, shows, inbox, driverVars, taskVars, seenVars>>

-------------------------------------------------------------------------------
(* Broadcasts, and the receive interrupt that parses them.                 *)

\* The inverter, not deaf, has handled a command the CAN task has still to note.
IsEarly ==
  ~deaf /\ delivered # history /\ expects = Channel!Successor(delivered.counter)

Broadcast(f) ==
  /\ since[f] < Period /\ since' = [since EXCEPT ![f] = @ + 1]
  /\ early' = [early EXCEPT ![f] = IF IsEarly THEN UpTo(MismatchLimit, @ + 1) ELSE 0]

\* Faulty form: only the next counter is accepted, not that of one before.
CorrelatedExactly == expects = Channel!Successor(history.counter)

\* exact or one_command_lag
Correlated == expects \in {Channel!Successor(history.counter), history.counter}

\* Faulty form: the first counter that fits is taken for progress.
CounterFitsAtOnce ==
  [synced |-> TRUE, mismatch |-> 0, fault |-> FALSE, seen |-> expects]

\* In step once it has been seen to progress.
CounterFits ==
  [synced |-> counter.synced \/ counter.seen \notin {Unseen, expects},
   mismatch |-> 0, fault |-> FALSE, seen |-> expects]

\* Faulty form: a mismatch is a fault only as long as nothing ever fitted.
CounterDiffersBlind ==
  [counter EXCEPT !.mismatch = UpTo(MismatchLimit, @ + 1)]

CounterDiffers ==
  [counter EXCEPT !.mismatch = UpTo(MismatchLimit, @ + 1),
                  !.fault = counter.synced /\ counter.mismatch + 1 >= MismatchLimit]

\* update_counter_integrity, and the count of broadcasts of a deaf inverter
ReceiveStates ==
  /\ Broadcast("states")
  /\ counter' = IF noted = 0 THEN counter
                ELSE IF Correlated THEN CounterFits ELSE CounterDiffers
  /\ burst' = 0
  /\ frozenFor' = IF ~deaf \/ ~counter.synced \/ burst > Burst THEN 0
                  ELSE IF burst = 0 THEN frozenFor
                  ELSE UpTo(FrozenLimit, frozenFor + 1)
  /\ UNCHANGED <<channelVars, inverterVars, noted, previous, echo, tripped>>

EchoMatches ==
  \/ shows = history.torque
  \/ echo.synced /\ noted = 2 /\ shows = previous

\* update_torque_echo_integrity
UpdateEcho ==
  IF noted = 0 THEN echo
  ELSE IF EchoMatches THEN [synced |-> TRUE, mismatch |-> 0, fault |-> FALSE]
  ELSE [echo EXCEPT !.mismatch = UpTo(MismatchLimit, @ + 1),
                    !.fault = echo.synced /\ echo.mismatch + 1 >= MismatchLimit]

ReceiveTimer ==
  /\ Broadcast("timer")
  /\ echo' = UpdateEcho
  /\ UNCHANGED <<channelVars, inverterVars, noted, previous, counter, tripped,
                 burst, frozenFor>>

\* The error task's critical section: the supervisor latches either fault.
ErrorTask ==
  /\ \E f \in Frames : since[f] > 0
  /\ since' = [f \in Frames |-> 0]
  /\ tripped' = (tripped \/ counter.fault \/ echo.fault)
  /\ UNCHANGED <<channelVars, inverterVars, driverVars, seenVars>>

Next ==
  \/ Offer \/ Deliver \/ Drop \/ Close \/ Note
  \/ Handle \/ GoDeaf
  \/ ReceiveStates \/ ReceiveTimer
  \/ ErrorTask

Spec == Init /\ [][Next]_vars

-------------------------------------------------------------------------------
TypeOK ==
  /\ {delivered, history} \subseteq Channel!Command
  /\ offered \subseteq Channel!Command
  /\ expects \in 0 .. CounterMod - 1 /\ {shows, previous} \subseteq Torque
  /\ {closed, inbox, deaf, tripped} \subseteq BOOLEAN
  /\ noted \in 0 .. 2
  /\ counter \in [synced : BOOLEAN, mismatch : 0 .. MismatchLimit,
                  fault : BOOLEAN, seen : 0 .. Unseen]
  /\ echo \in [synced : BOOLEAN, mismatch : 0 .. MismatchLimit, fault : BOOLEAN]
  /\ since \in [Frames -> 0 .. Period]
  /\ early \in [Frames -> 0 .. MismatchLimit]
  /\ burst \in 0 .. Burst + 1
  /\ frozenFor \in 0 .. FrozenLimit

\* When an inverter is blamed that takes each command with the counter it
\* expects before it receives the next: exactly if it has broadcast its counter
\* MismatchLimit times in a row after it took a command and before the CAN task
\* noted that, and for its echo not otherwise.  The contract has it that 0x0AA
\* tracks one of two counters (CM200_CAN_CONTRACT_AND_BRINGUP.md:64,66); that of
\* an early broadcast is the one after, and nothing keeps broadcasts at 100 Hz
\* from falling there again and again among commands at 100 Hz.
BlamedIffEarly ==
  ~closed /\ ~deaf =>
    /\ counter.fault <=> counter.synced /\ early["states"] = MismatchLimit
    /\ echo.fault => early["timer"] = MismatchLimit

\* The inverter will take the command on its way, or expects the next one.
InStep ==
  expects = IF inbox THEN delivered.counter
            ELSE Channel!Successor(delivered.counter)

\* Torque is commanded only of an inverter that has come into step with the
\* ECU's counter and is still in step unless it has gone deaf, although the
\* counter left by an earlier sender may fit the ECU's now and then.
TorqueInStep ==
  [][\A c \in offered' \ offered : c.torque # 0 => deaf \/ InStep]_vars

\* An inverter that commands no longer reach, though they are acknowledged
\* on the bus, is found out in FrozenLimit broadcasts, although its frozen
\* counter may fit the ECU's twice, which clears the mismatches and even a fault
\* that the error task has not read, and again when the ECU's has come round.
FrozenIsSeen ==
  [][since' = [f \in Frames |-> 0] /\ since' # since
       /\ frozenFor = FrozenLimit => tripped']_vars

===============================================================================
