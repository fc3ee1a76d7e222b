-------------------------- MODULE Cm200CommandsProofs --------------------------
(***************************************************************************)
(* Proofs about Cm200Commands: when an inverter that follows is blamed, and *)
(* that torque goes only to one in step, for every range of the counter,   *)
(* every mismatch limit and all torques.                                   *)
(*                                                                         *)
(* Only a command taken changes the counter an inverter expects.  So, once *)
(* that counter differs from one observed before, the inverter has taken a *)
(* command and, unless it goes deaf, takes every one that follows.  From   *)
(* then on its broadcasts lag by at most one command, or are early.        *)
(***************************************************************************)
EXTENDS Cm200Commands, TLAPS

-------------------------------------------------------------------------------
(* The inductive invariant.                                                *)

Linked == ~closed /\ ~deaf

\* What is in the transmitter, delivered or noted is consecutive.
Consecutive ==
  /\ \A c \in offered : c.counter = Channel!Successor(delivered.counter)
  /\ offered # {} => history = delivered
  /\ history # delivered =>
       delivered.counter = Channel!Successor(history.counter)

\* Torque was commanded only after synchronisation.
ZeroBefore ==
  ~counter.synced =>
    /\ \A c \in offered : c.torque = 0
    /\ delivered.torque = 0 /\ history.torque = 0 /\ previous = 0

NothingNoted ==
  noted = 0 =>
    /\ ~counter.synced /\ counter.seen = Unseen
    /\ ~echo.synced

\* The inverter has taken a command since it was first observed.
Taken == counter.synced \/ counter.seen \notin {Unseen, expects}

\* It shows the command it handled last: the one delivered, noted or before.
ShowsLast ==
  IF ~inbox THEN shows = delivered.torque
  ELSE IF delivered # history THEN shows = history.torque
  ELSE shows = previous /\ noted = 2

TakenFollows == Linked /\ Taken => InStep /\ ShowsLast

IdleEcho == Linked /\ echo.synced /\ ~counter.synced => shows = 0

\* The mismatches of the counter are the early broadcasts.
CounterCounted ==
  /\ ~counter.synced => ~counter.fault
  /\ Linked /\ counter.synced =>
       /\ counter.mismatch = early["states"]
       /\ counter.fault <=> counter.mismatch = MismatchLimit

\* Those of the echo are among them.
EchoCounted ==
  /\ ~echo.synced => ~echo.fault
  /\ Linked /\ echo.synced =>
       /\ echo.mismatch <= early["timer"]
       /\ echo.fault => echo.mismatch = MismatchLimit

IndInv ==
  /\ TypeOK /\ Consecutive /\ ZeroBefore /\ NothingNoted
  /\ TakenFollows /\ IdleEcho /\ CounterCounted /\ EchoCounted

-------------------------------------------------------------------------------
(* Helpers.                                                                *)

\* The counter's range has more than two values.
LEMMA CounterRange == CounterMod \in Nat /\ CounterMod > 2
<1>1. (MismatchLimit + Period) * Burst \in Nat
  BY CommandsAssumption DEF CommandsAssumption
<1> QED BY <1>1, CommandsAssumption DEF CommandsAssumption

\* The next counter is one of the range, and another.
LEMMA SuccessorFacts ==
  ASSUME NEW c \in 0 .. CounterMod - 1
  PROVE  /\ Channel!Successor(c) \in 0 .. CounterMod - 1
         /\ Channel!Successor(c) # c
BY CounterRange DEF Channel!Successor

\* The counter that follows, without the remainder.
LEMMA SuccessorIs ==
  ASSUME NEW c \in 0 .. CounterMod - 1
  PROVE  Channel!Successor(c) = IF c + 1 = CounterMod THEN 0 ELSE c + 1
<1>1. CASE c + 1 = CounterMod
  BY <1>1, CounterRange DEF Channel!Successor
<1>2. CASE c + 1 # CounterMod
  BY <1>2, CounterRange DEF Channel!Successor
<1> QED BY <1>1, <1>2

-------------------------------------------------------------------------------
(* Types.                                                                  *)

\* The initial state is of the type.
LEMMA TypeInit == Init => TypeOK
<1> SUFFICES ASSUME Init PROVE TypeOK
    OBVIOUS
<1> USE CommandsAssumption, CounterRange DEF Init, CommandsAssumption
<1>1. {delivered, history} \subseteq Channel!Command /\ offered \subseteq Channel!Command
      /\ closed = FALSE
  BY DEF Channel!Init, Channel!NoCommandYet, Channel!Command
<1>2. counter \in [synced : BOOLEAN, mismatch : 0 .. MismatchLimit,
                   fault : BOOLEAN, seen : 0 .. Unseen]
  BY DEF Unseen
<1>3. echo \in [synced : BOOLEAN, mismatch : 0 .. MismatchLimit, fault : BOOLEAN]
  OBVIOUS
<1>4. since \in [Frames -> 0 .. Period] /\ early \in [Frames -> 0 .. MismatchLimit]
  OBVIOUS
<1>5. expects \in 0 .. CounterMod - 1 /\ {shows, previous} \subseteq Torque
  OBVIOUS
<1>6. {closed, inbox, deaf, tripped} \subseteq BOOLEAN
  BY <1>1
<1>7. noted \in 0 .. 2 /\ burst \in 0 .. Burst + 1 /\ frozenFor \in 0 .. FrozenLimit
  BY DEF FrozenLimit
<1> HIDE DEF Init
<1> QED BY <1>1, <1>2, <1>3, <1>4, <1>5, <1>6, <1>7 DEF TypeOK

\* Every step keeps the type.
LEMMA TypeStep == TypeOK /\ [Next]_vars => TypeOK'
<1> SUFFICES ASSUME TypeOK, [Next]_vars PROVE TypeOK'
    OBVIOUS
<1> USE CommandsAssumption, CounterRange DEF TypeOK, CommandsAssumption
<1> USE DEF channelVars, inverterVars, driverVars, taskVars, seenVars
<1>a. delivered.counter \in 0 .. CounterMod - 1 /\ history.torque \in Torque
      /\ delivered.torque \in Torque
  BY DEF Channel!Command
<1>1. CASE Offer
  BY <1>1, <1>a, SuccessorFacts DEF Offer, Channel!Offer, Channel!Command
<1>2. CASE Deliver
  BY <1>2 DEF Deliver, Channel!Deliver
<1>3. CASE Drop
  BY <1>3 DEF Drop, Channel!Drop
<1>4. CASE Close
  BY <1>4 DEF Close, Channel!Close
<1>5. CASE Note
  <2>1. UpTo(2, noted + 1) \in 0 .. 2 /\ UpTo(Burst + 1, burst + 1) \in 0 .. Burst + 1
    BY DEF UpTo
  <2> QED BY <1>5, <1>a, <2>1 DEF Note, Channel!Acknowledge
<1>6. CASE Handle
  BY <1>6, <1>a, SuccessorFacts DEF Handle
<1>7. CASE GoDeaf
  BY <1>7 DEF GoDeaf
<1>8. CASE ReceiveStates
  <2>1. counter' \in [synced : BOOLEAN, mismatch : 0 .. MismatchLimit,
                      fault : BOOLEAN, seen : 0 .. Unseen]
    <3>1. CounterFits \in [synced : BOOLEAN, mismatch : 0 .. MismatchLimit,
                           fault : BOOLEAN, seen : 0 .. Unseen]
      BY DEF CounterFits, Unseen
    <3>2. CounterDiffers \in [synced : BOOLEAN, mismatch : 0 .. MismatchLimit,
                              fault : BOOLEAN, seen : 0 .. Unseen]
      <4>1. UpTo(MismatchLimit, counter.mismatch + 1) \in 0 .. MismatchLimit
        BY DEF UpTo
      <4>2. (counter.synced /\ counter.mismatch + 1 >= MismatchLimit) \in BOOLEAN
        OBVIOUS
      <4> QED BY <4>1, <4>2 DEF CounterDiffers
    <3> QED BY <1>8, <3>1, <3>2 DEF ReceiveStates
  <2>2. frozenFor' \in 0 .. FrozenLimit
    <3>1. UpTo(FrozenLimit, frozenFor + 1) \in 0 .. FrozenLimit
      BY DEF UpTo, FrozenLimit
    <3>2. 0 \in 0 .. FrozenLimit
      BY DEF FrozenLimit
    <3> QED BY <1>8, <3>1, <3>2 DEF ReceiveStates
  <2>3. since' \in [Frames -> 0 .. Period] /\ early' \in [Frames -> 0 .. MismatchLimit]
    BY <1>8 DEF ReceiveStates, Broadcast, Frames, UpTo
  <2> QED BY <1>8, <2>1, <2>2, <2>3 DEF ReceiveStates
<1>9. CASE ReceiveTimer
  <2>1. echo' \in [synced : BOOLEAN, mismatch : 0 .. MismatchLimit, fault : BOOLEAN]
    <3>1. UpTo(MismatchLimit, echo.mismatch + 1) \in 0 .. MismatchLimit
      BY DEF UpTo
    <3>2. (echo.synced /\ echo.mismatch + 1 >= MismatchLimit) \in BOOLEAN
      OBVIOUS
    <3>3. [echo EXCEPT !.mismatch = UpTo(MismatchLimit, @ + 1),
                       !.fault = echo.synced /\ echo.mismatch + 1 >= MismatchLimit]
            \in [synced : BOOLEAN, mismatch : 0 .. MismatchLimit, fault : BOOLEAN]
      BY <3>1, <3>2
    <3> QED BY <1>9, <3>3 DEF ReceiveTimer, UpdateEcho
  <2>2. since' \in [Frames -> 0 .. Period] /\ early' \in [Frames -> 0 .. MismatchLimit]
    BY <1>9 DEF ReceiveTimer, Broadcast, Frames, UpTo
  <2> QED BY <1>9, <2>1, <2>2 DEF ReceiveTimer
<1>10. CASE ErrorTask
  BY <1>10 DEF ErrorTask, Frames
<1>11. CASE UNCHANGED vars
  BY <1>11 DEF vars
<1> QED
  BY <1>1, <1>2, <1>3, <1>4, <1>5, <1>6, <1>7, <1>8, <1>9, <1>10, <1>11 DEF Next

-------------------------------------------------------------------------------
(* Each conjunct is kept by every action.                                  *)

\* The actions that leave the variables of the channel alone.
Silent == UNCHANGED channelVars

\* A step moves a command on, or leaves the channel as it is.
LEMMA ChannelActions ==
  ASSUME [Next]_vars
  PROVE  Offer \/ Deliver \/ Drop \/ Close \/ Note \/ Silent
BY DEF Next, vars, channelVars, Handle, GoDeaf, ReceiveStates, ReceiveTimer,
       ErrorTask, Silent

\* Only Deliver and Note move a position, one command at a time.
LEMMA ConsecutiveStep == TypeOK /\ Consecutive /\ [Next]_vars => Consecutive'
<1> SUFFICES ASSUME TypeOK, Consecutive, [Next]_vars PROVE Consecutive'
    OBVIOUS
<1> USE DEF Consecutive
<1>1. CASE Offer
  BY <1>1 DEF Offer, Channel!Offer, Channel!Successor
<1>2. CASE Deliver
  BY <1>2 DEF Deliver, Channel!Deliver, Channel!Successor
<1>3. CASE Drop
  BY <1>3 DEF Drop, Channel!Drop, Channel!Successor
<1>4. CASE Close
  BY <1>4 DEF Close, Channel!Close, Channel!Successor
<1>5. CASE Note
  BY <1>5 DEF Note, Channel!Acknowledge
<1>6. CASE Silent
  BY <1>6 DEF Silent, channelVars, Channel!Successor
<1> QED BY <1>1, <1>2, <1>3, <1>4, <1>5, <1>6, ChannelActions

\* The counter's record changes only when its frame is received after a command.
LEMMA CounterStep ==
  ASSUME TypeOK, [Next]_vars
  PROVE  \/ counter' = counter
         \/ /\ ReceiveStates /\ noted # 0
            /\ counter' = IF Correlated THEN CounterFits ELSE CounterDiffers
<1>1. CASE ReceiveStates
  BY <1>1 DEF ReceiveStates
<1>2. CASE ~ReceiveStates
  BY <1>2 DEF Next, vars, driverVars, Offer, Deliver, Drop, Close, Note, Handle,
     GoDeaf, ReceiveTimer, ErrorTask
<1> QED BY <1>1, <1>2

\* Nothing in the driver takes synchronisation back.
LEMMA SyncedLasts ==
  ASSUME TypeOK, [Next]_vars
  PROVE  counter.synced => counter'.synced
<1>1. CounterFits.synced = (counter.synced \/ counter.seen \notin {Unseen, expects})
  BY DEF CounterFits
<1>2. CounterDiffers.synced = counter.synced
  BY DEF CounterDiffers, TypeOK
<1> QED BY <1>1, <1>2, CounterStep

\* safety_gate_valid_locked lets torque through only after synchronisation.
LEMMA ZeroBeforeStep ==
  TypeOK /\ Consecutive /\ ZeroBefore /\ [Next]_vars => ZeroBefore'
<1> SUFFICES ASSUME TypeOK, Consecutive, ZeroBefore, [Next]_vars, ~counter'.synced
             PROVE  /\ \A c \in offered' : c.torque = 0
                    /\ delivered'.torque = 0 /\ history'.torque = 0 /\ previous' = 0
    BY DEF ZeroBefore
<1>a. /\ ~counter.synced
      /\ \A c \in offered : c.torque = 0
      /\ delivered.torque = 0 /\ history.torque = 0 /\ previous = 0
  BY SyncedLasts DEF ZeroBefore
<1>1. CASE Offer
  BY <1>1, <1>a DEF Offer, Channel!Offer, Follows, driverVars
<1>2. CASE Deliver
  BY <1>2, <1>a DEF Deliver, Channel!Deliver, driverVars
<1>3. CASE Drop
  BY <1>3, <1>a DEF Drop, Channel!Drop, driverVars
<1>4. CASE Close
  BY <1>4, <1>a DEF Close, Channel!Close, driverVars
<1>5. CASE Note
  BY <1>5, <1>a DEF Note, Channel!Acknowledge
<1>6. CASE Silent
  <2>1. previous' = previous
    BY <1>6 DEF Next, vars, driverVars, channelVars, Silent, Offer, Deliver, Drop,
       Close, Note, Channel!Acknowledge, Handle, GoDeaf, ReceiveStates,
       ReceiveTimer, ErrorTask
  <2> QED BY <1>6, <1>a, <2>1 DEF Silent, channelVars
<1> QED BY <1>1, <1>2, <1>3, <1>4, <1>5, <1>6, ChannelActions

\* Before the first note neither comparison has begun.
LEMMA NothingNotedStep == TypeOK /\ NothingNoted /\ [Next]_vars => NothingNoted'
<1> SUFFICES ASSUME TypeOK, NothingNoted, [Next]_vars PROVE NothingNoted'
    OBVIOUS
<1> USE DEF NothingNoted, TypeOK
<1>1. CASE Note
  BY <1>1 DEF Note, UpTo
<1>2. CASE ReceiveStates
  BY <1>2 DEF ReceiveStates
<1>3. CASE ReceiveTimer
  BY <1>3 DEF ReceiveTimer, UpdateEcho
<1>4. CASE UNCHANGED driverVars
  BY <1>4 DEF driverVars
<1> QED
  BY <1>1, <1>2, <1>3, <1>4 DEF Next, vars, Offer, Deliver, Drop, Close, Handle,
     GoDeaf, ErrorTask

\* An inverter that has taken a command takes the next, and shows it.
LEMMA TakenFollowsStep == IndInv /\ [Next]_vars => TakenFollows'
<1> SUFFICES ASSUME IndInv, [Next]_vars, Linked', Taken' PROVE InStep' /\ ShowsLast'
    BY DEF TakenFollows
<1> USE DEF IndInv, channelVars, inverterVars, driverVars
<1>a. Linked
  BY DEF Linked, Next, vars, Offer, Channel!Offer, Deliver, Channel!Deliver, Drop,
     Channel!Drop, Close, Channel!Close, Note, Channel!Acknowledge, Handle,
     GoDeaf, ReceiveStates, ReceiveTimer, ErrorTask, TypeOK
<1>b. Taken => InStep /\ ShowsLast /\ noted > 0
  BY <1>a DEF TakenFollows, Taken, NothingNoted, TypeOK
<1>c. delivered.counter \in 0 .. CounterMod - 1
  BY DEF TypeOK, Channel!Command
<1>1. CASE Offer
  BY <1>1, <1>b DEF Offer, Channel!Offer, Taken, InStep, ShowsLast, Channel!Successor
<1>2. CASE Deliver
  <2>1. InStep /\ ShowsLast /\ ~inbox
    BY <1>2, <1>b DEF Deliver, Taken
  <2>2. inbox' = TRUE
    BY <1>2, <1>a DEF Deliver, Linked
  <2>3. history' = history /\ history = delivered
    BY <1>2 DEF Deliver, Channel!Deliver, Consecutive
  <2>4. delivered'.counter = Channel!Successor(delivered.counter)
    BY <1>2 DEF Deliver, Channel!Deliver, Consecutive
  <2>5. delivered' # history'
    BY <1>c, <2>3, <2>4, SuccessorFacts
  <2>6. expects' = expects /\ shows' = shows
    BY <1>2 DEF Deliver
  <2> QED BY <2>1, <2>2, <2>3, <2>4, <2>5, <2>6 DEF InStep, ShowsLast
<1>3. CASE Drop
  BY <1>3, <1>b DEF Drop, Channel!Drop, Taken, InStep, ShowsLast, Channel!Successor
<1>4. CASE Note
  <2>1. InStep /\ ShowsLast /\ noted > 0
    BY <1>4, <1>b DEF Note, Taken
  <2>2. history' = delivered' /\ delivered' = delivered /\ history # delivered
    BY <1>4 DEF Note, Channel!Acknowledge
  <2>3. previous' = history.torque /\ noted' = 2
    BY <1>4, <2>1 DEF Note, UpTo, TypeOK
  <2>4. expects' = expects /\ shows' = shows /\ inbox' = inbox
    BY <1>4 DEF Note
  <2> QED BY <2>1, <2>2, <2>3, <2>4 DEF InStep, ShowsLast, Channel!Successor
<1>5. CASE Handle
  <2>1. CASE delivered.counter = expects
    <3>1. expects' = Channel!Successor(expects) /\ shows' = delivered.torque
          /\ ~inbox' /\ delivered' = delivered
      BY <1>5, <2>1 DEF Handle
    <3> QED BY <2>1, <3>1 DEF InStep, ShowsLast, Channel!Successor
  <2>2. CASE delivered.counter # expects
    <3>1. expects' = expects /\ counter' = counter /\ inbox
      BY <1>5, <2>2 DEF Handle
    <3>2. InStep
      BY <1>b, <3>1 DEF Taken
    <3> QED BY <2>2, <3>1, <3>2 DEF InStep
  <2> QED BY <2>1, <2>2
<1>6. CASE ReceiveStates
  <2>1. Taken
    <3>1. CASE counter' = CounterFits
      <4>1. counter'.seen = expects' /\ expects' = expects
        BY <1>6, <3>1 DEF CounterFits, ReceiveStates, inverterVars
      <4>2. counter'.synced
        BY <1>b, <4>1 DEF Taken
      <4>3. counter'.synced = (counter.synced \/ counter.seen \notin {Unseen, expects})
        BY <3>1 DEF CounterFits
      <4> QED BY <4>2, <4>3 DEF Taken
    <3>2. CASE counter' = CounterDiffers
      <4>1. counter'.synced = counter.synced /\ counter'.seen = counter.seen
        BY <3>2 DEF CounterDiffers, TypeOK
      <4> QED BY <1>6, <4>1 DEF ReceiveStates, Taken
    <3>3. CASE counter' = counter
      BY <1>6, <3>3 DEF ReceiveStates, Taken
    <3> QED BY <1>6, <3>1, <3>2, <3>3 DEF ReceiveStates
  <2> QED BY <1>6, <1>b, <2>1 DEF ReceiveStates, InStep, ShowsLast, Channel!Successor
<1>7. CASE ReceiveTimer
  BY <1>7, <1>b DEF ReceiveTimer, Taken, InStep, ShowsLast, Channel!Successor
<1>8. CASE ErrorTask \/ UNCHANGED vars
  BY <1>8, <1>b DEF ErrorTask, vars, Taken, InStep, ShowsLast, Channel!Successor
<1>9. ~Close /\ ~GoDeaf
  BY DEF Close, Channel!Close, GoDeaf, Linked
<1> QED
  BY <1>1, <1>2, <1>3, <1>4, <1>5, <1>6, <1>7, <1>8, <1>9 DEF Next

\* A lost link is not regained.
LEMMA LinkedLasts ==
  ASSUME TypeOK, [Next]_vars, Linked'
  PROVE  Linked
BY DEF Linked, Next, vars, channelVars, inverterVars, Offer, Channel!Offer, Deliver,
   Channel!Deliver, Drop, Channel!Drop, Close, Channel!Close, Note,
   Channel!Acknowledge, Handle, GoDeaf, ReceiveStates, ReceiveTimer, ErrorTask, TypeOK

\* The echo changes only when its frame is received after a command.
LEMMA EchoStep ==
  ASSUME TypeOK, [Next]_vars
  PROVE  \/ echo' = echo
         \/ ReceiveTimer /\ noted # 0 /\ echo' = UpdateEcho
<1>1. CASE ReceiveTimer
  BY <1>1 DEF ReceiveTimer, UpdateEcho
<1>2. CASE ~ReceiveTimer
  BY <1>2 DEF Next, vars, driverVars, Offer, Deliver, Drop, Close, Note, Handle,
     GoDeaf, ReceiveStates, ErrorTask
<1> QED BY <1>1, <1>2

\* Without synchronisation all torques are zero, and the echo fits only zero.
LEMMA ZeroMatches ==
  ASSUME ZeroBefore, ~counter.synced
  PROVE  (shows = 0 => EchoMatches) /\ (EchoMatches => shows = 0)
BY DEF ZeroBefore, EchoMatches

\* An echo synchronised before the counter shows zero.
LEMMA IdleEchoStep == IndInv /\ [Next]_vars => IdleEcho'
<1> SUFFICES ASSUME IndInv, [Next]_vars, Linked', echo'.synced, ~counter'.synced
             PROVE  shows' = 0
    BY DEF IdleEcho
<1>a. TypeOK /\ ~counter.synced /\ Linked
  BY SyncedLasts, LinkedLasts DEF IndInv
<1>1. CASE ReceiveTimer
  <2>1. shows' = shows
    BY <1>1 DEF ReceiveTimer, inverterVars
  <2>2. CASE EchoMatches
    BY <1>a, <2>1, <2>2, ZeroMatches DEF IndInv
  <2>3. CASE ~EchoMatches
    <3>1. echo.synced
      BY <1>1, <1>a, <2>3 DEF ReceiveTimer, UpdateEcho, TypeOK
    <3> QED BY <1>a, <2>1, <3>1 DEF IndInv, IdleEcho
  <2> QED BY <2>2, <2>3
<1>2. CASE ~ReceiveTimer
  <2>1. echo.synced
    BY <1>2, <1>a, EchoStep
  <2>2. shows = 0
    BY <1>a, <2>1 DEF IndInv, IdleEcho
  <2>3. CASE Handle
    BY <1>a, <2>2, <2>3 DEF Handle, IndInv, ZeroBefore
  <2>4. CASE ~Handle
    BY <1>2, <2>2, <2>4 DEF Next, vars, inverterVars, Offer, Deliver, Drop, Close,
       Note, GoDeaf, ReceiveStates, ErrorTask
  <2> QED BY <2>3, <2>4
<1> QED BY <1>1, <1>2

\* A broadcast of an inverter in step differs only when it is early.
LEMMA StatesDiffer ==
  ASSUME IndInv, Linked, counter.synced, ~Correlated
  PROVE  IsEarly
<1>1. InStep
  BY DEF IndInv, TakenFollows, Taken
<1>2. delivered # history
  <2> SUFFICES ASSUME delivered = history PROVE FALSE
      OBVIOUS
  <2> QED BY <1>1 DEF InStep, Correlated
<1>3. delivered.counter = Channel!Successor(history.counter)
  BY <1>2 DEF IndInv, Consecutive
<1>4. ~inbox
  BY <1>1, <1>3 DEF InStep, Correlated
<1> QED BY <1>1, <1>2, <1>4 DEF InStep, IsEarly, Linked

\* And an early one differs: the inverter expects the counter after the two that
\* fit.
LEMMA EarlyDiffers ==
  ASSUME IndInv, IsEarly
  PROVE  ~Correlated
<1>1. /\ history.counter \in 0 .. CounterMod - 1
      /\ expects = Channel!Successor(Channel!Successor(history.counter))
  BY DEF IndInv, TypeOK, Channel!Command, Consecutive, IsEarly
<1>2. CounterMod \in Nat /\ CounterMod > 2
  BY CounterRange
<1>3. Channel!Successor(history.counter) \in 0 .. CounterMod - 1
  BY <1>1, SuccessorFacts
<1>4. /\ Channel!Successor(history.counter)
           = IF history.counter + 1 = CounterMod THEN 0 ELSE history.counter + 1
      /\ expects = IF Channel!Successor(history.counter) + 1 = CounterMod THEN 0
                   ELSE Channel!Successor(history.counter) + 1
  BY <1>1, <1>3, SuccessorIs
<1> QED BY <1>1, <1>2, <1>3, <1>4 DEF Correlated

\* The same for the echo.
LEMMA TimerDiffers ==
  ASSUME IndInv, Linked, echo.synced, ~EchoMatches
  PROVE  IsEarly
<1>1. counter.synced
  <2> SUFFICES ASSUME ~counter.synced PROVE FALSE
      OBVIOUS
  <2> QED BY ZeroMatches DEF IndInv, IdleEcho
<1>2. InStep /\ ShowsLast
  BY <1>1 DEF IndInv, TakenFollows, Taken
<1>3. ~inbox /\ delivered # history
  BY <1>2 DEF ShowsLast, EchoMatches
<1> QED BY <1>2, <1>3 DEF InStep, IsEarly, Linked

\* The count of early broadcasts in a row, as each is received.
LEMMA EarlyCount ==
  ASSUME TypeOK, NEW f \in Frames, Broadcast(f)
  PROVE  /\ IsEarly => early'[f] = UpTo(MismatchLimit, early[f] + 1)
         /\ ~IsEarly => early'[f] = 0
         /\ early[f] \in 0 .. MismatchLimit
BY DEF Broadcast, TypeOK

\* The mismatches of the counter in a row are the early broadcasts in a row.
LEMMA CounterCountedStep == IndInv /\ [Next]_vars => CounterCounted'
<1> SUFFICES ASSUME IndInv, [Next]_vars PROVE CounterCounted'
    OBVIOUS
<1>a. TypeOK /\ CounterCounted
  BY DEF IndInv
<1>b. MismatchLimit \in Nat \ {0}
  BY CommandsAssumption DEF CommandsAssumption
<1>c. Linked' => Linked
  BY <1>a, LinkedLasts
<1>1. CASE ReceiveStates /\ noted # 0
  <2>e. /\ IsEarly => early'["states"] = UpTo(MismatchLimit, early["states"] + 1)
        /\ ~IsEarly => early'["states"] = 0
        /\ early["states"] \in 0 .. MismatchLimit
    BY <1>1, <1>a, EarlyCount DEF ReceiveStates, Frames
  <2>1. CASE Correlated
    <3>1. counter'.fault = FALSE /\ counter'.mismatch = 0
      BY <1>1, <2>1 DEF ReceiveStates, CounterFits
    <3>2. early'["states"] = 0
      BY <2>1, <2>e, EarlyDiffers
    <3> QED BY <1>b, <3>1, <3>2 DEF CounterCounted
  <2>2. CASE ~Correlated
    <3>1. counter' = CounterDiffers
      BY <1>1, <2>2 DEF ReceiveStates
    <3>2. /\ counter'.synced = counter.synced
          /\ counter'.mismatch = UpTo(MismatchLimit, counter.mismatch + 1)
          /\ counter'.fault = (counter.synced /\ counter.mismatch + 1 >= MismatchLimit)
      BY <1>a, <3>1 DEF CounterDiffers, TypeOK
    <3>3. ~counter'.synced => ~counter'.fault
      BY <3>2
    <3>4. ASSUME Linked', counter'.synced
          PROVE  /\ counter'.mismatch = early'["states"]
                 /\ counter'.fault <=> counter'.mismatch = MismatchLimit
      <4>1. Linked /\ counter.synced
        BY <1>c, <3>2, <3>4
      <4>2. IsEarly
        BY <2>2, <4>1, StatesDiffer
      <4>3. counter.mismatch = early["states"]
        BY <1>a, <4>1 DEF CounterCounted
      <4>4. counter'.mismatch = early'["states"]
        BY <2>e, <3>2, <4>2, <4>3
      <4>5. counter.mismatch + 1 >= MismatchLimit
              <=> UpTo(MismatchLimit, counter.mismatch + 1) = MismatchLimit
        BY <1>b, <2>e, <4>3 DEF UpTo
      <4> QED BY <3>2, <4>1, <4>4, <4>5
    <3> QED BY <3>3, <3>4 DEF CounterCounted
  <2> QED BY <2>1, <2>2
<1>2. CASE ~(ReceiveStates /\ noted # 0)
  <2>1. counter' = counter
    BY <1>2, <1>a, CounterStep
  <2>2. CASE ReceiveStates
    <3>1. ~counter.synced
      BY <1>2, <2>2 DEF IndInv, NothingNoted
    <3> QED BY <1>a, <2>1, <3>1 DEF CounterCounted
  <2>3. CASE ~ReceiveStates
    <3>1. early'["states"] = early["states"]
      BY <1>a, <2>3 DEF Next, vars, seenVars, Offer, Deliver, Drop, Close, Note,
         Handle, GoDeaf, ReceiveTimer, Broadcast, ErrorTask, TypeOK, Frames
    <3> QED BY <1>a, <1>c, <2>1, <3>1 DEF CounterCounted
  <2> QED BY <2>2, <2>3
<1> QED BY <1>1, <1>2

\* The mismatches of the echo in a row are at most the early broadcasts in a row.
LEMMA EchoCountedStep == IndInv /\ [Next]_vars => EchoCounted'
<1> SUFFICES ASSUME IndInv, [Next]_vars PROVE EchoCounted'
    OBVIOUS
<1>a. TypeOK /\ EchoCounted
  BY DEF IndInv
<1>b. MismatchLimit \in Nat \ {0}
  BY CommandsAssumption DEF CommandsAssumption
<1>c. Linked' => Linked
  BY <1>a, LinkedLasts
<1>1. CASE ReceiveTimer /\ noted # 0
  <2>1. CASE EchoMatches
    <3>1. echo'.fault = FALSE /\ echo'.mismatch = 0
      BY <1>1, <2>1 DEF ReceiveTimer, UpdateEcho
    <3>2. early'["timer"] >= 0
      BY <1>1, <1>a, <1>b, EarlyCount DEF ReceiveTimer, Frames, UpTo
    <3> QED BY <3>1, <3>2 DEF EchoCounted
  <2>2. CASE ~EchoMatches
    <3>1. /\ echo'.synced = echo.synced
          /\ echo'.mismatch = UpTo(MismatchLimit, echo.mismatch + 1)
          /\ echo'.fault = (echo.synced /\ echo.mismatch + 1 >= MismatchLimit)
      BY <1>1, <1>a, <2>2 DEF ReceiveTimer, UpdateEcho, TypeOK
    <3>2. ~echo'.synced => ~echo'.fault
      BY <3>1
    <3>3. echo.mismatch \in 0 .. MismatchLimit
      BY <1>a DEF TypeOK
    <3>4. ASSUME Linked', echo'.synced
          PROVE  /\ echo'.mismatch <= early'["timer"]
                 /\ echo'.fault => echo'.mismatch = MismatchLimit
      <4>1. Linked /\ echo.synced
        BY <1>c, <3>1, <3>4
      <4>2. IsEarly
        BY <2>2, <4>1, TimerDiffers
      <4>3. /\ early'["timer"] = UpTo(MismatchLimit, early["timer"] + 1)
            /\ early["timer"] \in 0 .. MismatchLimit
        BY <1>1, <1>a, <4>2, EarlyCount DEF ReceiveTimer, Frames
      <4>4. echo.mismatch <= early["timer"]
        BY <1>a, <4>1 DEF EchoCounted
      <4>5. UpTo(MismatchLimit, echo.mismatch + 1) <= UpTo(MismatchLimit, early["timer"] + 1)
        BY <1>b, <3>3, <4>3, <4>4 DEF UpTo
      <4>6. echo.mismatch + 1 >= MismatchLimit
              => UpTo(MismatchLimit, echo.mismatch + 1) = MismatchLimit
        BY <1>b, <3>3 DEF UpTo
      <4> QED BY <3>1, <4>3, <4>5, <4>6
    <3> QED BY <3>2, <3>4 DEF EchoCounted
  <2> QED BY <2>1, <2>2
<1>2. CASE ~(ReceiveTimer /\ noted # 0)
  <2>1. echo' = echo
    BY <1>2, <1>a, EchoStep
  <2>2. CASE ReceiveTimer
    <3>1. ~echo.synced
      BY <1>2, <2>2 DEF IndInv, NothingNoted
    <3> QED BY <1>a, <2>1, <3>1 DEF EchoCounted
  <2>3. CASE ~ReceiveTimer
    <3>1. early'["timer"] = early["timer"]
      BY <1>a, <2>3 DEF Next, vars, seenVars, Offer, Deliver, Drop, Close, Note,
         Handle, GoDeaf, ReceiveStates, Broadcast, ErrorTask, TypeOK, Frames
    <3> QED BY <1>a, <1>c, <2>1, <3>1 DEF EchoCounted
  <2> QED BY <2>2, <2>3
<1> QED BY <1>1, <1>2

-------------------------------------------------------------------------------
(* A frozen inverter.  Lead is how far the ECU's counter is ahead of the   *)
(* frozen one, which fits it while Lead is 0 or 1.  In a run of broadcasts *)
(* with commands in between it fits once at most before the ECU's has come *)
(* round, which takes longer than the mismatches that follow and a period  *)
(* of the error task.                                                      *)

Lead ==
  LET next == Channel!Successor(history.counter)
  IN IF next >= expects THEN next - expects ELSE next - expects + CounterMod

\* At least the mismatches in a row of a fault still to be latched: it is there
\* to be read since MismatchLimit mismatches, and not for a whole period yet.
Missed ==
  IF counter.fault THEN MismatchLimit - 1 + since["states"] ELSE counter.mismatch

\* The lead at the last broadcast was q, and the counter has fitted before.
HasFitted(q) ==
  /\ Lead = q + burst
  /\ q <= 1 + Missed * Burst
  /\ q \in {0, 1} => Missed = 0
  /\ q = 0 => frozenFor < MismatchLimit + Period

FaultAtLimit ==
  counter.synced => (counter.fault <=> counter.mismatch = MismatchLimit)

DeafCounted == frozenFor # 0 => deaf /\ counter.synced

FrozenCounted ==
  deaf /\ counter.synced /\ ~tripped =>
    /\ frozenFor <= MismatchLimit + Period + Missed
    /\ \/ frozenFor <= Missed
       \/ burst > Burst
       \/ \E q \in 0 .. CounterMod - 1 : HasFitted(q)

FrozenInv == FaultAtLimit /\ DeafCounted /\ (deaf => ~inbox) /\ FrozenCounted

\* The constants are numbers, and the ECU's counter does not come round before
\* a mismatch is latched.
LEMMA Numbers ==
  /\ MismatchLimit \in Nat \ {0} /\ Period \in Nat \ {0} /\ Burst \in Nat \ {0}
  /\ CounterMod \in Nat /\ CounterMod > 1
  /\ FrozenLimit = 2 * MismatchLimit + Period
BY CommandsAssumption, CounterRange DEF CommandsAssumption, FrozenLimit

\* One more mismatch is Burst more commands.
LEMMA OneMore ==
  ASSUME NEW a \in Nat, NEW b \in Nat
  PROVE  (a + 1) * b = a * b + b /\ a * b \in Nat
OBVIOUS

\* More mismatches are no fewer commands.
LEMMA Monotone ==
  ASSUME NEW a \in Nat, NEW b \in Nat, NEW c \in Nat, a <= b
  PROVE  a * c <= b * c
OBVIOUS

\* The lead is within the range of the counter, and the frozen counter fits
\* where the lead is 0 or 1.
LEMMA LeadFacts ==
  ASSUME TypeOK
  PROVE  /\ Lead \in 0 .. CounterMod - 1
         /\ Correlated <=> Lead \in {0, 1}
<1>1. history.counter \in 0 .. CounterMod - 1 /\ expects \in 0 .. CounterMod - 1
  BY DEF TypeOK, Channel!Command
<1>2. Channel!Successor(history.counter)
        = IF history.counter + 1 = CounterMod THEN 0 ELSE history.counter + 1
  BY <1>1, SuccessorIs
<1> QED BY <1>1, <1>2, CounterRange DEF Lead, Correlated

\* The commands of all the mismatches that can still be missed, and of one more
\* broadcast, are fewer than the counter's range.
LEMMA NotRound ==
  ASSUME TypeOK, FaultAtLimit, counter.synced, NEW q \in Nat,
         q <= 1 + Missed * Burst,
         Missed < MismatchLimit + Period
  PROVE  /\ q + Burst < CounterMod
         /\ q + Burst <= 1 + (Missed + 1) * Burst
<1>1. Missed \in Nat
  BY Numbers DEF Missed, TypeOK, Frames
<1>2. (Missed + 1) * Burst <= (MismatchLimit + Period) * Burst
  BY <1>1, Numbers, Monotone
<1>3. (Missed + 1) * Burst = Missed * Burst + Burst /\ Missed * Burst \in Nat
  BY <1>1, Numbers, OneMore
<1>4. (MismatchLimit + Period) * Burst + 1 < CounterMod
  BY CommandsAssumption DEF CommandsAssumption
<1>5. (MismatchLimit + Period) * Burst \in Nat /\ (Missed + 1) * Burst \in Nat
  BY <1>1, Numbers
<1> QED BY <1>2, <1>3, <1>4, <1>5, Numbers

\* What has been missed before a broadcast, and what after it.
LEMMA MissedStep ==
  ASSUME TypeOK, FaultAtLimit, counter.synced, noted # 0, ReceiveStates
  PROVE  /\ Missed \in Nat /\ Missed < MismatchLimit + Period - 1
         /\ counter'.synced
         /\ Correlated => Missed' = 0 /\ ~counter'.fault /\ counter'.mismatch = 0
         /\ ~Correlated => /\ Missed' \in Nat /\ Missed' >= Missed + 1
                           /\ (counter'.fault <=> counter'.mismatch = MismatchLimit)
<1>1. since["states"] \in Nat /\ since["states"] < Period
      /\ since'["states"] = since["states"] + 1
  BY Numbers DEF ReceiveStates, Broadcast, TypeOK, Frames
<1>2. counter.mismatch \in Nat /\ counter.mismatch <= MismatchLimit
  BY Numbers DEF TypeOK
<1>3. Missed \in Nat /\ Missed < MismatchLimit + Period - 1
  BY <1>1, <1>2, Numbers DEF Missed, FaultAtLimit
<1>4. CASE Correlated
  <2>1. counter' = CounterFits
    BY <1>4 DEF ReceiveStates
  <2> QED BY <1>3, <1>4, <2>1 DEF CounterFits, Missed
<1>5. CASE ~Correlated
  <2>1. /\ counter'.synced
        /\ counter'.mismatch = UpTo(MismatchLimit, counter.mismatch + 1)
        /\ counter'.fault = (counter.synced /\ counter.mismatch + 1 >= MismatchLimit)
    BY <1>5 DEF ReceiveStates, CounterDiffers, TypeOK
  <2>2. Missed' \in Nat /\ Missed' >= Missed + 1
        /\ (counter'.fault <=> counter'.mismatch = MismatchLimit)
    <3>1. CASE counter.mismatch + 1 >= MismatchLimit
      <4>1. counter'.fault
        BY <2>1, <3>1
      <4>2. Missed' = MismatchLimit - 1 + since'["states"]
        BY <4>1 DEF Missed
      <4>3. Missed <= MismatchLimit - 1 + since["states"]
        <5>1. CASE counter.fault
          BY <1>1, <5>1, Numbers DEF Missed
        <5>2. CASE ~counter.fault
          BY <1>1, <1>2, <5>2, Numbers DEF Missed, FaultAtLimit
        <5> QED BY <5>1, <5>2
      <4>4. counter'.mismatch = MismatchLimit
        BY <1>2, <2>1, <3>1, Numbers DEF UpTo
      <4> QED BY <1>1, <1>3, <4>1, <4>2, <4>3, <4>4, Numbers
    <3>2. CASE ~(counter.mismatch + 1 >= MismatchLimit)
      <4>1. ~counter'.fault
        BY <2>1, <3>2
      <4>2. counter'.mismatch = counter.mismatch + 1
        BY <1>2, <2>1, <3>2, Numbers DEF UpTo
      <4>3. Missed' = counter.mismatch + 1
        BY <4>1, <4>2 DEF Missed
      <4>4. Missed = counter.mismatch \/ counter.fault
        BY DEF Missed
      <4>5. CASE ~counter.fault
        BY <1>2, <1>3, <3>2, <4>1, <4>2, <4>3, <4>4, <4>5, Numbers
      <4>6. CASE counter.fault
        BY <1>2, <3>2, <4>6, Numbers DEF FaultAtLimit
      <4> QED BY <4>5, <4>6
    <3> QED BY <3>1, <3>2
  <2> QED BY <1>3, <1>5, <2>1, <2>2
<1> QED BY <1>3, <1>4, <1>5

\* A fault of a synchronised counter stands for as many mismatches as the limit.
LEMMA FaultAtLimitStep ==
  TypeOK /\ NothingNoted /\ FaultAtLimit /\ [Next]_vars => FaultAtLimit'
<1> SUFFICES ASSUME TypeOK, NothingNoted, FaultAtLimit, [Next]_vars PROVE FaultAtLimit'
    OBVIOUS
<1>1. CASE counter' = counter
  BY <1>1 DEF FaultAtLimit
<1>2. CASE ReceiveStates /\ noted # 0 /\ counter.synced
  BY <1>2, MissedStep, Numbers DEF FaultAtLimit
<1>3. CASE ReceiveStates /\ noted # 0 /\ ~counter.synced
  <2>1. CASE Correlated
    BY <1>3, <2>1, Numbers DEF ReceiveStates, CounterFits, FaultAtLimit
  <2>2. CASE ~Correlated
    <3>1. counter'.synced = counter.synced
      BY <1>3, <2>2 DEF ReceiveStates, CounterDiffers, TypeOK
    <3> QED BY <1>3, <3>1 DEF FaultAtLimit
  <2> QED BY <2>1, <2>2
<1> QED BY <1>1, <1>2, <1>3, CounterStep

\* Only broadcasts of a deaf inverter in step are counted, and it stays deaf.
LEMMA DeafCountedStep ==
  TypeOK /\ DeafCounted /\ (deaf => ~inbox) /\ [Next]_vars
    => DeafCounted' /\ (deaf' => ~inbox')
<1> SUFFICES ASSUME TypeOK, DeafCounted, deaf => ~inbox, [Next]_vars
             PROVE  DeafCounted' /\ (deaf' => ~inbox')
    OBVIOUS
<1>1. deaf => deaf'
  BY DEF Next, vars, inverterVars, Offer, Deliver, Drop, Close, Note, Handle, GoDeaf,
     ReceiveStates, ReceiveTimer, ErrorTask
<1>2. counter.synced => counter'.synced
  BY SyncedLasts
<1>3. deaf' => ~inbox'
  BY DEF Next, vars, inverterVars, Offer, Deliver, Drop, Close, Note, Handle, GoDeaf,
     ReceiveStates, ReceiveTimer, ErrorTask
<1>4. frozenFor' = frozenFor \/ frozenFor' = 0 \/ (deaf /\ counter.synced)
  BY DEF Next, vars, seenVars, Offer, Deliver, Drop, Close, Note, Handle, GoDeaf,
     ReceiveStates, ReceiveTimer, ErrorTask
<1> QED BY <1>1, <1>2, <1>3, <1>4 DEF DeafCounted

\* The commands of a run that is not yet noted in full.
LEMMA FrozenNote ==
  ASSUME IndInv, FrozenInv, Note
  PROVE  FrozenCounted'
<1> SUFFICES ASSUME deaf, counter.synced, ~tripped
             PROVE  FrozenCounted'
    BY DEF Note, inverterVars, taskVars, FrozenCounted
<1>1. Missed' = Missed /\ frozenFor' = frozenFor
  BY DEF Note, Missed, taskVars
<1>2. FrozenCounted /\ TypeOK /\ Consecutive /\ FaultAtLimit
  BY DEF IndInv, FrozenInv
<1>3. frozenFor' <= MismatchLimit + Period + Missed'
  BY <1>1, <1>2 DEF FrozenCounted
<1>4. burst' = UpTo(Burst + 1, burst + 1) /\ burst \in 0 .. Burst + 1
  BY <1>2 DEF Note, TypeOK
<1>5. CASE frozenFor <= Missed \/ burst >= Burst
  <2>1. frozenFor' <= Missed' \/ burst' > Burst
    BY <1>1, <1>4, <1>5, Numbers DEF UpTo
  <2> QED BY <1>3, <2>1 DEF FrozenCounted
<1>6. CASE ~(frozenFor <= Missed) /\ ~(burst >= Burst)
  <2>1. PICK q \in 0 .. CounterMod - 1 : HasFitted(q)
    BY <1>2, <1>4, <1>6, Numbers DEF FrozenCounted
  <2>2. burst' = burst + 1
    BY <1>4, <1>6, Numbers DEF UpTo
  <2>3. Missed \in Nat /\ Missed < MismatchLimit + Period
    <3>1. since["states"] \in 0 .. Period /\ counter.mismatch \in 0 .. MismatchLimit
      BY <1>2, Numbers DEF TypeOK, Frames
    <3> QED BY <1>2, <3>1, Numbers DEF Missed, FaultAtLimit
  <2>4. q + Burst < CounterMod
    BY <1>2, <2>1, <2>3, NotRound DEF HasFitted
  <2>5. Lead' = Lead + 1
    <3>1. delivered.counter = Channel!Successor(history.counter)
          /\ history.counter \in 0 .. CounterMod - 1
          /\ expects \in 0 .. CounterMod - 1
      BY <1>2 DEF Note, Consecutive, TypeOK, Channel!Command
    <3>2. history' = delivered /\ expects' = expects
      BY DEF Note, Channel!Acknowledge, inverterVars
    <3>3. Lead = q + burst /\ Lead + 1 < CounterMod
      BY <1>4, <1>6, <2>1, <2>4, Numbers DEF HasFitted
    <3> DEFINE next == Channel!Successor(history.counter)
    <3>4. next \in 0 .. CounterMod - 1
      BY <3>1, SuccessorFacts
    <3>5. Lead = IF next >= expects THEN next - expects ELSE next - expects + CounterMod
      BY DEF Lead
    <3>6. Lead' = IF Channel!Successor(next) >= expects
                  THEN Channel!Successor(next) - expects
                  ELSE Channel!Successor(next) - expects + CounterMod
      BY <3>1, <3>2 DEF Lead, Channel!Successor
    <3>7. Channel!Successor(next) = IF next + 1 = CounterMod THEN 0 ELSE next + 1
      BY <3>4, SuccessorIs
    <3> HIDE DEF next
    <3> QED BY <3>1, <3>3, <3>4, <3>5, <3>6, <3>7, Numbers
  <2>6. HasFitted(q)'
    <3>1. Lead' = q + burst'
      BY <1>4, <2>1, <2>2, <2>5 DEF HasFitted
    <3> QED BY <1>1, <2>1, <3>1 DEF HasFitted
  <2> QED BY <1>3, <2>6 DEF FrozenCounted
<1> QED BY <1>5, <1>6

\* The broadcasts of a run: mismatches, at most two fits, mismatches again.
LEMMA FrozenStates ==
  ASSUME IndInv, FrozenInv, ReceiveStates
  PROVE  FrozenCounted'
<1> SUFFICES ASSUME deaf, counter'.synced, ~tripped
             PROVE  FrozenCounted'
    BY DEF ReceiveStates, inverterVars, FrozenCounted
<1>1. FrozenCounted /\ DeafCounted /\ TypeOK /\ NothingNoted /\ FaultAtLimit
  BY DEF IndInv, FrozenInv
<1>2. Lead' = Lead /\ burst' = 0
  BY DEF ReceiveStates, channelVars, inverterVars, Lead, Channel!Successor
<1>3. PICK after \in Nat : Missed' = after
  <2>1. TypeOK'
    BY <1>1, TypeStep DEF Next
  <2> QED BY <2>1, Numbers DEF Missed, TypeOK, Frames
<1>4. frozenFor \in Nat /\ burst \in Nat /\ burst <= Burst + 1
  BY <1>1, Numbers DEF TypeOK
<1>5. CASE ~counter.synced \/ burst > Burst
  <2>1. frozenFor' = 0
    BY <1>5 DEF ReceiveStates
  <2>2. 0 <= MismatchLimit + Period + after /\ 0 <= after
    BY Numbers
  <2> QED BY <1>3, <2>1, <2>2 DEF FrozenCounted
<1>6. CASE counter.synced /\ ~(burst > Burst)
  <2>1. /\ Missed \in Nat /\ Missed < MismatchLimit + Period - 1
        /\ Correlated => after = 0
        /\ ~Correlated => after >= Missed + 1
    BY <1>1, <1>3, <1>6, MissedStep DEF NothingNoted
  <2>2. /\ burst = 0 => frozenFor' = frozenFor
        /\ frozenFor' \in Nat /\ frozenFor' <= frozenFor + 1
    BY <1>4, <1>6, Numbers DEF ReceiveStates, UpTo
  <2>3. /\ frozenFor <= MismatchLimit + Period + Missed
        /\ frozenFor <= Missed \/ \E q \in 0 .. CounterMod - 1 : HasFitted(q)
    BY <1>1, <1>6 DEF FrozenCounted
  <2>4. Lead \in 0 .. CounterMod - 1 /\ (Correlated <=> Lead \in {0, 1})
    BY <1>1, LeadFacts
  <2>5. CASE frozenFor <= Missed /\ ~Correlated
    <3>1. frozenFor' <= after
      BY <1>4, <2>1, <2>2, <2>5
    <3>2. frozenFor' <= MismatchLimit + Period + after
      BY <2>2, <3>1, Numbers
    <3> QED BY <1>3, <3>1, <3>2 DEF FrozenCounted
  <2>6. CASE frozenFor <= Missed /\ Correlated
    <3>1. frozenFor' < MismatchLimit + Period /\ after = 0
      BY <1>4, <2>1, <2>2, <2>6, Numbers
    <3>2. frozenFor' <= MismatchLimit + Period + after
      BY <2>2, <3>1, Numbers
    <3>3. HasFitted(Lead)'
      <4>1. Lead <= 1 + after * Burst /\ Lead = Lead + burst'
        BY <1>2, <2>4, <2>6, <3>1, Numbers
      <4> QED BY <1>2, <1>3, <3>1, <4>1 DEF HasFitted
    <3> QED BY <1>2, <1>3, <2>4, <3>2, <3>3 DEF FrozenCounted
  <2>7. CASE ~(frozenFor <= Missed)
    <3>1. PICK q \in 0 .. CounterMod - 1 : HasFitted(q)
      BY <2>3, <2>7
    <3>2. q + burst = Lead /\ Lead <= 1 + (Missed + 1) * Burst
      <4>1. q + Burst <= 1 + (Missed + 1) * Burst
        BY <1>1, <1>6, <2>1, <3>1, NotRound, Numbers DEF HasFitted
      <4>2. (Missed + 1) * Burst \in Nat
        BY <2>1, Numbers
      <4> QED BY <1>4, <1>6, <3>1, <4>1, <4>2, Numbers DEF HasFitted
    <3>3. CASE ~Correlated
      <4>1. frozenFor' <= MismatchLimit + Period + after
        BY <1>4, <2>1, <2>2, <2>3, <3>3, Numbers
      <4>2. Lead <= 1 + after * Burst
        <5>1. (Missed + 1) * Burst <= after * Burst
          BY <2>1, <3>3, Monotone, Numbers
        <5>2. (Missed + 1) * Burst \in Nat /\ after * Burst \in Nat
          BY <2>1, Numbers
        <5> QED BY <2>4, <3>2, <5>1, <5>2
      <4>3. HasFitted(Lead)'
        BY <1>2, <1>3, <2>4, <3>3, <4>2 DEF HasFitted
      <4> QED BY <1>2, <1>3, <2>4, <4>1, <4>3 DEF FrozenCounted
    <3>4. CASE Correlated
      <4>1. after = 0 /\ q + burst \in {0, 1}
        BY <2>1, <2>4, <3>2, <3>4
      <4>2. q \in {0, 1} /\ Missed = 0
        BY <1>4, <3>1, <4>1 DEF HasFitted
      <4>3. Lead = 0 => frozenFor' < MismatchLimit + Period
        BY <1>4, <2>2, <3>1, <3>2, <4>1, <4>2 DEF HasFitted
      <4>4. frozenFor' <= MismatchLimit + Period + after
        BY <1>4, <2>2, <2>3, <3>1, <4>1, <4>2, Numbers DEF HasFitted
      <4>5. HasFitted(Lead)'
        BY <1>2, <1>3, <2>4, <3>4, <4>1, <4>3, Numbers DEF HasFitted
      <4> QED BY <1>2, <1>3, <2>4, <4>4, <4>5 DEF FrozenCounted
    <3> QED BY <3>3, <3>4
  <2> QED BY <2>5, <2>6, <2>7
<1> QED BY <1>5, <1>6

\* No other action loses count of what has been missed.
LEMMA FrozenStep == IndInv /\ FrozenInv /\ [Next]_vars => FrozenInv'
<1> SUFFICES ASSUME IndInv, FrozenInv, [Next]_vars PROVE FrozenCounted'
    BY FaultAtLimitStep, DeafCountedStep DEF IndInv, FrozenInv
<1>1. FrozenCounted /\ TypeOK /\ DeafCounted /\ (deaf => ~inbox)
  BY DEF IndInv, FrozenInv
<1>2. CASE Note
  BY <1>2, FrozenNote
<1>3. CASE ReceiveStates
  BY <1>3, FrozenStates
<1>4. CASE GoDeaf
  <2>1. frozenFor = 0 /\ frozenFor' = 0 /\ Missed' = Missed
    BY <1>1, <1>4 DEF GoDeaf, DeafCounted, seenVars, driverVars, taskVars, Missed
  <2>2. Missed \in Nat
    BY <1>1, Numbers DEF Missed, TypeOK, Frames
  <2> QED BY <2>1, <2>2, Numbers DEF FrozenCounted
<1>5. CASE ErrorTask
  <2>1. CASE counter.fault
    BY <1>5, <2>1 DEF ErrorTask, FrozenCounted
  <2>2. CASE ~counter.fault
    <3>1. Missed' = Missed /\ Lead' = Lead /\ frozenFor' = frozenFor /\ burst' = burst
      BY <1>5, <2>2 DEF ErrorTask, Missed, Lead, channelVars, inverterVars, driverVars,
         seenVars, Channel!Successor
    <3>2. deaf' = deaf /\ counter' = counter /\ (~tripped' => ~tripped)
      BY <1>5 DEF ErrorTask, inverterVars, driverVars
    <3> QED BY <1>1, <3>1, <3>2 DEF FrozenCounted, HasFitted
  <2> QED BY <2>1, <2>2
<1>6. CASE Offer \/ Deliver \/ Drop \/ Close \/ Handle \/ ReceiveTimer \/ UNCHANGED vars
  <2>1. deaf' = deaf /\ counter' = counter /\ tripped' = tripped
        /\ frozenFor' = frozenFor /\ burst' = burst /\ history' = history
    BY <1>6 DEF Offer, Channel!Offer, Deliver, Channel!Deliver, Drop, Channel!Drop,
       Close, Channel!Close, Handle, ReceiveTimer, vars, channelVars, inverterVars,
       driverVars, taskVars, seenVars
  <2>2. since'["states"] = since["states"]
    BY <1>1, <1>6 DEF Offer, Deliver, Drop, Close, Handle, ReceiveTimer, Broadcast,
       vars, taskVars, TypeOK, Frames
  <2>3. CASE ~deaf
    BY <2>1, <2>3 DEF FrozenCounted
  <2>4. CASE deaf
    <3>1. expects' = expects
      BY <1>1, <1>6, <2>4 DEF Offer, Deliver, Drop, Close, Handle, ReceiveTimer, vars,
         inverterVars
    <3>2. Missed' = Missed /\ Lead' = Lead
      BY <2>1, <2>2, <3>1 DEF Missed, Lead, Channel!Successor
    <3> QED BY <1>1, <2>1, <3>2 DEF FrozenCounted, HasFitted
  <2> QED BY <2>3, <2>4
<1> QED BY <1>2, <1>3, <1>4, <1>5, <1>6 DEF Next

-------------------------------------------------------------------------------
(* The theorems.                                                           *)

\* The invariant holds at the start.
LEMMA Initially == Init => IndInv
<1> SUFFICES ASSUME Init PROVE IndInv
    OBVIOUS
<1>1. TypeOK
  BY TypeInit
<1>2. Consecutive /\ ZeroBefore
  BY DEF Init, Channel!Init, Channel!NoCommandYet, Consecutive, ZeroBefore
<1>3. NothingNoted /\ TakenFollows /\ IdleEcho /\ CounterCounted /\ EchoCounted
  BY DEF Init, NothingNoted, TakenFollows, Taken, IdleEcho, CounterCounted, EchoCounted
<1> QED BY <1>1, <1>2, <1>3 DEF IndInv

\* Every step keeps the invariant.
LEMMA Inductive == IndInv /\ [Next]_vars => IndInv'
BY TypeStep, ConsecutiveStep, ZeroBeforeStep, NothingNotedStep, TakenFollowsStep,
   IdleEchoStep, CounterCountedStep, EchoCountedStep DEF IndInv

\* The inductive invariant: an inverter that has taken a command since it was
\* first observed takes every one that follows, and only early broadcasts
\* count as mismatches.
THEOREM IndInvariant == Spec => []IndInv
BY Initially, Inductive, PTL DEF Spec

\* Every step moves a command on as the channel does, or leaves it as it is.
LEMMA ChannelStep == [Next]_vars => [Channel!Next]_Channel!vars
<1> SUFFICES ASSUME [Next]_vars PROVE Channel!Next \/ UNCHANGED Channel!vars
    OBVIOUS
<1>1. CASE Offer
  BY <1>1 DEF Offer, Channel!Next
<1>2. CASE Deliver
  BY <1>2 DEF Deliver, Channel!Next
<1>3. CASE Drop
  BY <1>3 DEF Drop, Channel!Next
<1>4. CASE Close
  BY <1>4 DEF Close, Channel!Next
<1>5. CASE Note
  BY <1>5 DEF Note, Channel!Next
<1>6. CASE Silent
  BY <1>6 DEF Silent, channelVars, Channel!vars
<1> QED BY <1>1, <1>2, <1>3, <1>4, <1>5, <1>6, ChannelActions

\* The commands whose history cm200.c keeps are those of the channel that CanTx
\* implements: each carries the successor of the last one received, and is noted
\* before the next is offered.
THEOREM CommandsOfTheChannel == Spec => Channel!Spec
<1>1. Init => Channel!Init
  BY DEF Init
<1> QED BY <1>1, ChannelStep, PTL DEF Spec, Channel!Spec

\* The state of the CM200 driver keeps its types, for all limits.
THEOREM TypeCorrect == Spec => []TypeOK
<1>1. IndInv => TypeOK
  BY DEF IndInv
<1> QED BY <1>1, IndInvariant, PTL

\* cm200.c faults the counter of an inverter that takes its commands exactly when
\* that has broadcast it before the note as often in a row as the limit, and its
\* echo not otherwise, whatever the two schedules.
THEOREM BlameHolds == Spec => []BlamedIffEarly
<1>1. IndInv => BlamedIffEarly
  <2> SUFFICES ASSUME IndInv, Linked
               PROVE  /\ counter.fault <=> counter.synced /\ early["states"] = MismatchLimit
                      /\ echo.fault => early["timer"] = MismatchLimit
      BY DEF BlamedIffEarly, Linked
  <2>1. CounterCounted /\ EchoCounted
    BY DEF IndInv
  <2>2. early["timer"] \in 0 .. MismatchLimit /\ MismatchLimit \in Nat
    BY CommandsAssumption DEF IndInv, TypeOK, Frames, CommandsAssumption
  <2>3. counter.fault \in BOOLEAN /\ counter.synced \in BOOLEAN
    BY DEF IndInv, TypeOK
  <2>4. counter.fault <=> counter.synced /\ early["states"] = MismatchLimit
    BY <2>1, <2>3 DEF CounterCounted
  <2>5. echo.fault => early["timer"] = MismatchLimit
    BY <2>1, <2>2 DEF EchoCounted
  <2> QED BY <2>4, <2>5
<1> QED BY <1>1, IndInvariant, PTL

\* Torque is commanded only of an inverter in step, whatever counter an
\* earlier sender has left in it.
THEOREM TorqueInStepHolds == Spec => TorqueInStep
<1>1. IndInv /\ [Next]_vars =>
        [\A c \in offered' \ offered : c.torque # 0 => deaf \/ InStep]_vars
  <2> SUFFICES ASSUME IndInv, [Next]_vars,
                      NEW c \in offered' \ offered, c.torque # 0, ~deaf
               PROVE  InStep
      OBVIOUS
  <2>1. Offer
    BY DEF Next, vars, channelVars, Deliver, Channel!Deliver, Drop, Channel!Drop,
       Close, Channel!Close, Note, Channel!Acknowledge, Handle, GoDeaf,
       ReceiveStates, ReceiveTimer, ErrorTask
  <2>2. counter.synced /\ ~closed
    BY <2>1 DEF Offer, Channel!Offer, Follows
  <2> QED BY <2>2 DEF IndInv, TakenFollows, Taken, Linked
<1> QED BY <1>1, IndInvariant, PTL DEF Spec, TorqueInStep

\* cm200.c has the supervisor latch an inverter that no command reaches any more
\* within FrozenLimit broadcasts with commands in between, for every range of the
\* counter, mismatch limit and period of the error task.
THEOREM FrozenIsSeenHolds == Spec => FrozenIsSeen
<1>1. Init => FrozenInv
  BY Numbers DEF Init, FrozenInv, FaultAtLimit, DeafCounted, FrozenCounted
<1>2. IndInv /\ FrozenInv /\ [Next]_vars =>
        [since' = [f \in Frames |-> 0] /\ since' # since
           /\ frozenFor = FrozenLimit => tripped']_vars
  <2> SUFFICES ASSUME IndInv, FrozenInv, [Next]_vars,
                      since' = [f \in Frames |-> 0], since' # since,
                      frozenFor = FrozenLimit, ~tripped'
               PROVE  FALSE
      OBVIOUS
  <2>1. TypeOK /\ FrozenCounted /\ DeafCounted /\ FaultAtLimit
    BY DEF IndInv, FrozenInv
  <2>2. ErrorTask
    <3>1. ASSUME NEW f \in Frames, Broadcast(f)
          PROVE  FALSE
      <4>1. since'[f] = since[f] + 1 /\ since[f] \in Nat
        BY <2>1, <3>1, Numbers DEF Broadcast, TypeOK
      <4>2. since'[f] = 0
        OBVIOUS
      <4> QED BY <4>1, <4>2
    <3>2. ~ReceiveStates /\ ~ReceiveTimer
      BY <3>1 DEF ReceiveStates, ReceiveTimer, Frames
    <3> QED BY <3>2 DEF Next, vars, taskVars, Offer, Deliver, Drop, Close, Note,
               Handle, GoDeaf
  <2>3. ~tripped /\ ~counter.fault
    BY <2>2 DEF ErrorTask
  <2>4. deaf /\ counter.synced
    BY <2>1, Numbers DEF DeafCounted
  <2>5. Missed = counter.mismatch /\ counter.mismatch \in 0 .. MismatchLimit
        /\ counter.mismatch # MismatchLimit
    BY <2>1, <2>3, <2>4 DEF Missed, FaultAtLimit, TypeOK
  <2>6. frozenFor <= MismatchLimit + Period + Missed
    BY <2>1, <2>3, <2>4 DEF FrozenCounted
  <2> QED BY <2>5, <2>6, Numbers
<1>3. Spec => []FrozenInv
  <2>1. IndInv /\ FrozenInv /\ [Next]_vars => FrozenInv'
    BY FrozenStep
  <2> QED BY <1>1, <2>1, IndInvariant, PTL DEF Spec
<1> QED BY <1>2, <1>3, IndInvariant, PTL DEF Spec, FrozenIsSeen

===============================================================================
