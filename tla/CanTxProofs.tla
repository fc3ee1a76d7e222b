----------------------------- MODULE CanTxProofs ------------------------------
(***************************************************************************)
(* Proofs about CanTx for every set of mailboxes, every counter range and  *)
(* every set of torques: its type invariant, the ownership of mailboxes,   *)
(* the agreement of the command history with the inverter, the sequence of *)
(* rolling counters, and the refinement of CommandChannel.                 *)
(***************************************************************************)
EXTENDS CanTx, TLAPS

\* The command in the frame last enqueued.
Sent == [counter |-> rolling, torque |-> committed]

\* An occupied mailbox has no status, an owned one no token, and no mailbox
\* was both completed and aborted.
Tokens ==
  /\ \A m \in Mailbox : box[m].kind # "none" => rqcp[m] = "none"
  /\ pending \intersect (complete \union aborted) = {}
  /\ complete \intersect aborted = {}

\* A CM200 frame in the transmitter is the one the task waits for or gave up.
InFlight ==
  \A m \in Mailbox :
    box[m].kind = "cm200" =>
      /\ (Waiting /\ m = mailbox) \/ uncertain
      /\ box[m].counter = rolling
      /\ box[m].torque = committed
      /\ inverter = history

\* While the task waits, the inverter received its frame if the outcome says
\* so, did not if it says so, and either is possible while there is none.
Awaited ==
  Waiting =>
    /\ ~uncertain
    /\ mailbox \in pending \union complete \union aborted
    /\ mailbox \in complete => inverter = Sent
    /\ mailbox \in aborted => inverter = history
    /\ mailbox \in pending =>
         /\ box[mailbox].kind # "feedback"
         /\ rqcp[mailbox] = "txok" => inverter = Sent
         /\ rqcp[mailbox] \in {"error", "aborted"} => inverter = history
         /\ inverter \in {Sent, history}

\* Between the completion token and the history update.
Completed == pc = "completed" => ~uncertain /\ inverter = Sent

\* At any other point the history is up to date, unless it was given up.
Settled ==
  /\ ~uncertain /\ ~Waiting /\ pc # "completed" =>
       /\ inverter = history
       /\ reported # 0 => pc = "failed" \/ reported = inverter.torque
  /\ uncertain => pc \in {"failed", "receive", "ready"}

CounterFollows == rolling = NextCounter(history.counter)

IndInv ==
  /\ TypeOK
  /\ Ownership
  /\ Tokens
  /\ InFlight
  /\ Awaited
  /\ Completed
  /\ Settled
  /\ CounterFollows

-------------------------------------------------------------------------------
(* Arithmetic of the counter.                                              *)

LEMMA NextCounterType ==
  ASSUME NEW c \in Counter
  PROVE  NextCounter(c) \in Counter
BY CanTxAssumption DEF Counter, NextCounter

LEMMA FirstCounter == NextCounter(CounterMod - 1) = 0
BY CanTxAssumption DEF NextCounter

LEMMA InitialValues ==
  /\ 0 \in Counter
  /\ NoCommandYet \in Command
  /\ EmptyBox \in Frame
  /\ FeedbackFrame \in Frame
BY CanTxAssumption
   DEF Counter, NoCommandYet, Command, EmptyBox, FeedbackFrame, Frame

-------------------------------------------------------------------------------
(* Type correctness.                                                       *)

\* What an enqueue of a frame does to the variables it may change.
LEMMA EnqueueType ==
  ASSUME TypeOK, NEW m \in Mailbox, NEW f \in Frame, Enqueue(m, f)
  PROVE  /\ box' \in [Mailbox -> Frame]
         /\ rqcp' \in [Mailbox -> {"none", "txok", "error", "aborted"}]
         /\ pending' \subseteq Mailbox
         /\ complete' \subseteq Mailbox
         /\ aborted' \subseteq Mailbox
         /\ abrq' \subseteq Mailbox
         /\ uncertain' \in BOOLEAN
         /\ inverter' \in Command
BY DEF TypeOK, Enqueue

LEMMA TypeInit == Init => TypeOK
<1> SUFFICES ASSUME Init PROVE TypeOK
  OBVIOUS
<1>1. CounterMod - 1 \in Counter
  BY CanTxAssumption DEF Counter
<1>. QED
  BY <1>1, InitialValues, CanTxAssumption DEF Init, TypeOK

\* Every step of the CAN task keeps the types.
LEMMA TypeCanTask ==
  ASSUME TypeOK, CanTask
  PROVE  TypeOK'
<1>. USE DEF TypeOK, taskVars, driverVars, appVars, hardwareVars, TaskAt
<1>1. CASE Receive
  BY <1>1, CanTxAssumption DEF Receive
<1>2. CASE WaitReady \/ WaitReadyFails
  BY <1>2, CanTxAssumption DEF WaitReady, WaitReadyFails
<1>3. CASE Commit
  <2>1. PICK m \in Mailbox, t \in {0, request} :
          /\ Enqueue(m, Cm200Frame(t))
          /\ committed' = t
          /\ mailbox' = m
    BY <1>3 DEF Commit
  <2>2. Cm200Frame(t) \in Frame /\ t \in Torque
    BY CanTxAssumption DEF Cm200Frame, Frame
  <2>. QED
    BY <1>3, <2>1, <2>2, EnqueueType DEF Commit
<1>4. CASE PollComplete \/ PollAborted \/ Deadline
  BY <1>4 DEF PollComplete, PollAborted, Deadline, Outcome
<1>5. CASE Cancel
  BY <1>5 DEF Cancel, RequestAbort, ForgetOutcomes
<1>6. CASE LatchUncertain \/ ClearTxFault \/ ClearHwFault \/ SkipFeedback
  BY <1>6 DEF LatchUncertain, ClearTxFault, ClearHwFault, SkipFeedback
<1>7. CASE NoteCompletion
  BY <1>7, NextCounterType DEF NoteCompletion, Command
<1>8. CASE NoteFailure
  BY <1>8, CanTxAssumption DEF NoteFailure
<1>9. CASE SendFeedback
  BY <1>9, EnqueueType, InitialValues DEF SendFeedback
<1>. QED
  BY <1>1, <1>2, <1>3, <1>4, <1>5, <1>6, <1>7, <1>8, <1>9 DEF CanTask

\* Every step of the transmitter and of the interrupt handler keeps them.
LEMMA TypeHardware ==
  ASSUME TypeOK, Hardware
  PROVE  TypeOK'
<1>. USE DEF TypeOK, taskVars, driverVars, appVars
<1>1. PICK m \in Mailbox : Transmit(m) \/ TransmitFails(m) \/ AbortDone(m)
  BY DEF Hardware
<1>2. CASE Transmit(m)
  <2>1. [counter |-> box[m].counter, torque |-> box[m].torque] \in Command
    BY DEF Frame, Command
  <2>2. inverter' \in Command
    BY <1>2, <2>1 DEF Transmit
  <2>. QED
    BY <1>2, <2>2, InitialValues DEF Transmit, Release
<1>3. CASE TransmitFails(m) \/ AbortDone(m)
  BY <1>3, InitialValues DEF TransmitFails, AbortDone, Release
<1>. QED
  BY <1>1, <1>2, <1>3

LEMMA TypeIrq ==
  ASSUME TypeOK, Irq
  PROVE  TypeOK'
<1>. USE DEF TypeOK, taskVars, driverVars, appVars
<1>1. CASE \E e, f \in BOOLEAN : Interrupt(e, f)
  BY <1>1 DEF Interrupt, RetireMailboxes, ForgetOutcomes, Reported, ErrorRetired
<1>2. CASE InterruptAbort
  BY <1>2 DEF InterruptAbort, RequestAbort, ForgetOutcomes
<1>. QED
  BY <1>1, <1>2 DEF Irq

LEMMA TypeStep == TypeOK /\ [Next]_vars => TypeOK'
<1> SUFFICES ASSUME TypeOK, [Next]_vars PROVE TypeOK'
  OBVIOUS
<1>1. CASE \E t \in Torque : QueueTx(t)
  BY <1>1 DEF QueueTx, TypeOK, taskVars, driverVars, appVars, hardwareVars
<1>2. CASE UNCHANGED vars
  BY <1>2 DEF vars, TypeOK, taskVars, driverVars, appVars, hardwareVars
<1>. QED
  BY <1>1, <1>2, TypeCanTask, TypeHardware, TypeIrq DEF Next

\* The variables of the transmit path keep their types.
THEOREM TypeCorrect == Spec => []TypeOK
BY TypeInit, TypeStep, PTL DEF Spec

-------------------------------------------------------------------------------
(* The inductive invariant.                                                *)

LEMMA IndInit == Init => IndInv
<1> SUFFICES ASSUME Init PROVE IndInv
  OBVIOUS
<1>1. TypeOK
  BY TypeInit
<1>2. /\ NoCommandYet.counter = CounterMod - 1
      /\ NextCounter(NoCommandYet.counter) = 0
  BY FirstCounter DEF NoCommandYet
<1>3. Ownership /\ Tokens /\ InFlight
  BY DEF Init, Ownership, Tokens, InFlight, EmptyBox
<1>4. Awaited /\ Completed /\ Settled /\ CounterFollows
  BY <1>2 DEF Init, Awaited, Completed, Settled, CounterFollows, Waiting
<1>. QED
  BY <1>1, <1>3, <1>4 DEF IndInv

\* Steps that move the task outside the wait for an outcome, and stuttering:
\* the transmitter and what the driver knows of it are left alone.
LEMMA IndOutsideWait ==
  ASSUME IndInv, TypeOK',
         \/ \E t \in Torque : QueueTx(t)
         \/ Receive \/ WaitReady \/ WaitReadyFails
         \/ ClearTxFault \/ ClearHwFault \/ NoteFailure \/ SkipFeedback
         \/ UNCHANGED vars
  PROVE  IndInv'
<1>. USE DEF IndInv, Waiting, Sent, TaskAt, vars, taskVars, driverVars,
             appVars, hardwareVars
<1>1. UNCHANGED <<driverVars, rolling, history, hardwareVars>>
  BY DEF QueueTx, Receive, WaitReady, WaitReadyFails,
         ClearTxFault, ClearHwFault, NoteFailure, SkipFeedback
<1>2. ~Waiting' \/ UNCHANGED taskVars
  BY DEF QueueTx, Receive, WaitReady, WaitReadyFails,
         ClearTxFault, ClearHwFault, NoteFailure, SkipFeedback
<1>3. Ownership' /\ Tokens' /\ CounterFollows'
  BY <1>1 DEF Ownership, Tokens, CounterFollows
<1>4. Waiting' <=> Waiting
  BY <1>2 DEF QueueTx, Receive, WaitReady, WaitReadyFails,
         ClearTxFault, ClearHwFault, NoteFailure, SkipFeedback
<1>5. InFlight' /\ Awaited'
  BY <1>1, <1>2, <1>4 DEF InFlight, Awaited, QueueTx, Receive, WaitReady,
     WaitReadyFails, ClearTxFault, ClearHwFault, NoteFailure,
     SkipFeedback
<1>6. Completed' /\ Settled'
  <2>. USE DEF Completed, Settled
  <2>1. CASE Receive \/ WaitReady \/ WaitReadyFails
    BY <2>1 DEF Receive, WaitReady, WaitReadyFails, TxReady
  <2>2. CASE ClearTxFault \/ ClearHwFault \/ NoteFailure \/ SkipFeedback
    BY <2>2 DEF ClearTxFault, ClearHwFault, NoteFailure, SkipFeedback
  <2>3. CASE (\E t \in Torque : QueueTx(t)) \/ UNCHANGED vars
    BY <2>3 DEF QueueTx
  <2>. QED
    BY <2>1, <2>2, <2>3
<1>. QED
  BY <1>3, <1>5, <1>6

\* A frame enqueued into the free mailbox of an empty transmitter.
LEMMA IndCommit ==
  ASSUME IndInv, TypeOK', Commit
  PROVE  IndInv'
<1>. USE DEF IndInv, TypeOK, TaskAt, TxReady, Enqueue, Commit, Cm200Frame,
             Waiting, appVars
<1>1. PICK m \in Mailbox, t \in {0, request} :
        /\ Enqueue(m, Cm200Frame(t))
        /\ committed' = t
        /\ mailbox' = m
  OBVIOUS
<1>2. Ownership' /\ Tokens' /\ CounterFollows'
  BY <1>1 DEF Ownership, Tokens, CounterFollows
<1>3. inverter = history /\ \A n \in Mailbox : box[n].kind = "none"
  BY <1>1 DEF Settled, Ownership
<1>4. InFlight'
  BY <1>1, <1>3 DEF InFlight, Frame
<1>5. Awaited'
  BY <1>1, <1>3 DEF Awaited, Sent, Frame
<1>6. Completed' /\ Settled'
  BY <1>1 DEF Completed, Settled
<1>. QED
  BY <1>2, <1>4, <1>5, <1>6

LEMMA IndFeedback ==
  ASSUME IndInv, TypeOK', SendFeedback
  PROVE  IndInv'
<1>. USE DEF IndInv, TypeOK, TaskAt, TxReady, Enqueue, SendFeedback,
             FeedbackFrame, Waiting, Sent, appVars
<1>1. Ownership' /\ Tokens' /\ CounterFollows'
  BY DEF Ownership, Tokens, CounterFollows
<1>2. InFlight' /\ Awaited' /\ Completed' /\ Settled'
  BY DEF InFlight, Awaited, Completed, Settled, Frame
<1>. QED
  BY <1>1, <1>2

\* The wait for an outcome: the tokens decide between completed and failed,
\* and only a wait without a token ends in the latch.
LEMMA IndWait ==
  ASSUME IndInv, TypeOK',
         PollComplete \/ PollAborted \/ Deadline \/ Cancel \/ LatchUncertain
  PROVE  IndInv'
<1>. USE DEF IndInv, TypeOK, TaskAt, Outcome, RequestAbort, ForgetOutcomes,
             Waiting, Sent, appVars, driverVars, hardwareVars,
             PollComplete, PollAborted, Deadline, Cancel, LatchUncertain
<1>1. Ownership' /\ Tokens' /\ CounterFollows'
  BY DEF Ownership, Tokens, CounterFollows
<1>2. InFlight'
  BY DEF InFlight, Awaited, Ownership, Tokens
<1>3. Awaited'
  BY DEF Awaited
<1>4. Completed' /\ Settled'
  BY DEF Awaited, Completed, Settled
<1>. QED
  BY <1>1, <1>2, <1>3, <1>4

LEMMA IndNoteCompletion ==
  ASSUME IndInv, TypeOK', NoteCompletion
  PROVE  IndInv'
<1>. USE DEF IndInv, TypeOK, TaskAt, NoteCompletion, Waiting, Sent, driverVars,
             hardwareVars
<1>1. Ownership' /\ Tokens' /\ CounterFollows'
  BY DEF Ownership, Tokens, CounterFollows
<1>2. InFlight' /\ Awaited' /\ Completed' /\ Settled'
  BY DEF InFlight, Awaited, Completed, Settled
<1>. QED
  BY <1>1, <1>2

\* A frame reaches the wire: if it is a command, the inverter has it.
LEMMA IndTransmit ==
  ASSUME IndInv, TypeOK', NEW m \in Mailbox, Transmit(m)
  PROVE  IndInv'
<1>. USE DEF IndInv, TypeOK, Transmit, Release, EmptyBox, Waiting, Sent,
             taskVars, driverVars, appVars
<1>1. Ownership' /\ Tokens' /\ CounterFollows'
  BY DEF Ownership, Tokens, CounterFollows
<1>2. InFlight'
  BY DEF InFlight, Ownership
<1>3. Awaited'
  BY DEF Awaited, InFlight, Ownership, Tokens, Frame, Command
<1>4. Completed' /\ Settled'
  BY DEF InFlight, Completed, Settled, Frame
<1>. QED
  BY <1>1, <1>2, <1>3, <1>4

LEMMA IndNotTransmitted ==
  ASSUME IndInv, TypeOK', NEW m \in Mailbox, TransmitFails(m) \/ AbortDone(m)
  PROVE  IndInv'
<1>. USE DEF IndInv, TypeOK, TransmitFails, AbortDone, Release, EmptyBox,
             Waiting, Sent, taskVars, driverVars, appVars
<1>1. Ownership' /\ Tokens' /\ CounterFollows'
  BY DEF Ownership, Tokens, CounterFollows
<1>2. InFlight' /\ Completed' /\ Settled'
  BY DEF InFlight, Completed, Settled
<1>3. Awaited'
  BY DEF Awaited, InFlight, Ownership, Tokens, Frame
<1>. QED
  BY <1>1, <1>2, <1>3

\* An interrupt turns the statuses of owned mailboxes into tokens.
LEMMA IndInterrupt ==
  ASSUME IndInv, TypeOK', NEW e \in BOOLEAN, NEW f \in BOOLEAN, Interrupt(e, f)
  PROVE  IndInv'
<1>. USE DEF IndInv, TypeOK, Interrupt, RetireMailboxes, ForgetOutcomes,
             Reported, ErrorRetired, Waiting, Sent, taskVars
<1>1. Ownership' /\ Tokens' /\ CounterFollows'
  BY DEF Ownership, Tokens, CounterFollows
<1>2. InFlight' /\ Completed' /\ Settled'
  BY DEF InFlight, Completed, Settled
<1>3. Awaited'
  BY DEF Awaited, Ownership, Tokens
<1>. QED
  BY <1>1, <1>2, <1>3

\* The abort of the error callback may lose an outcome, but invents none.
LEMMA IndInterruptAbort ==
  ASSUME IndInv, TypeOK', InterruptAbort
  PROVE  IndInv'
<1>. USE DEF IndInv, TypeOK, InterruptAbort, RequestAbort, ForgetOutcomes,
             Waiting, Sent, taskVars, driverVars, appVars
<1>1. Ownership' /\ Tokens' /\ CounterFollows'
  BY DEF Ownership, Tokens, CounterFollows
<1>2. InFlight' /\ Completed' /\ Settled' /\ Awaited'
  BY DEF InFlight, Completed, Settled, Awaited
<1>. QED
  BY <1>1, <1>2

LEMMA IndStep == IndInv /\ [Next]_vars => IndInv'
<1> SUFFICES ASSUME IndInv, [Next]_vars PROVE IndInv'
  OBVIOUS
<1>1. TypeOK'
  BY TypeStep DEF IndInv
<1>2. CASE (\E t \in Torque : QueueTx(t)) \/ UNCHANGED vars
  BY <1>1, <1>2, IndOutsideWait
<1>3. CASE CanTask
  BY <1>1, <1>3, IndOutsideWait, IndCommit, IndFeedback, IndWait,
     IndNoteCompletion DEF CanTask
<1>4. CASE Hardware
  BY <1>1, <1>4, IndTransmit, IndNotTransmitted DEF Hardware
<1>5. CASE Irq
  BY <1>1, <1>5, IndInterrupt, IndInterruptAbort DEF Irq
<1>. QED
  BY <1>2, <1>3, <1>4, <1>5 DEF Next

\* The inductive invariant is an invariant.
THEOREM IndInvariant == Spec => []IndInv
BY IndInit, IndStep, PTL DEF Spec

-------------------------------------------------------------------------------
(* The safety invariants.                                                  *)

\* The driver owns every mailbox that holds a frame or an unreported outcome,
\* and never more than one.
THEOREM OwnershipHolds == Spec => []Ownership
<1>1. IndInv => Ownership
  BY DEF IndInv
<1>. QED
  BY <1>1, IndInvariant, PTL

\* Between commands the history is what the inverter received, and the
\* rolling counter is the one it expects next.
THEOREM HistoryHolds == Spec => []HistoryAgrees
<1>1. IndInv => HistoryAgrees
  BY DEF IndInv, Settled, CounterFollows, HistoryAgrees
<1>. QED
  BY <1>1, IndInvariant, PTL

\* Nothing but an enqueue of the CAN task itself takes a mailbox or adds to
\* the driver's ownership, and nothing but its wait sets the latch.
LEMMA ReadyStep ==
  ASSUME IndInv, ReadyUntilCommit, [Next]_vars
  PROVE  ReadyUntilCommit'
<1>. USE DEF ReadyUntilCommit, TxReady, FreeBoxes, vars, taskVars, driverVars,
             appVars, hardwareVars
<1>1. CASE CanTask
  <2>1. CASE WaitReady
    BY <2>1 DEF WaitReady
  <2>2. CASE ~WaitReady
    BY <1>1, <2>2 DEF CanTask, Outcome, Receive, WaitReadyFails, Commit,
       PollComplete, PollAborted, Deadline, Cancel, LatchUncertain,
       NoteCompletion, ClearTxFault, ClearHwFault, NoteFailure, SendFeedback,
       SkipFeedback
  <2>. QED
    BY <2>1, <2>2
<1>2. CASE Hardware
  <2>1. PICK m \in Mailbox : Transmit(m) \/ TransmitFails(m) \/ AbortDone(m)
    BY <1>2 DEF Hardware
  <2>2. /\ box' = [box EXCEPT ![m] = EmptyBox]
        /\ UNCHANGED <<taskVars, driverVars>>
    BY <2>1 DEF Transmit, TransmitFails, AbortDone, Release
  <2>3. \A n \in FreeBoxes : box'[n].kind = "none"
    BY <2>2 DEF EmptyBox, IndInv, TypeOK
  <2>. QED
    BY <2>2, <2>3
<1>3. CASE Irq \/ (\E t \in Torque : QueueTx(t)) \/ UNCHANGED vars
  BY <1>3 DEF Irq, Interrupt, RetireMailboxes, InterruptAbort, QueueTx
<1>. QED
  BY <1>1, <1>2, <1>3 DEF Next

\* The transmitter stays ready from the wait to the commit.
THEOREM ReadyHolds == Spec => []ReadyUntilCommit
<1>1. Init => ReadyUntilCommit
  BY DEF Init, ReadyUntilCommit
<1>2. IndInv /\ ReadyUntilCommit /\ [Next]_vars => ReadyUntilCommit'
  BY ReadyStep
<1>. QED
  BY <1>1, <1>2, IndInvariant, PTL DEF Spec

-------------------------------------------------------------------------------
(* The action properties.                                                  *)

\* Only a frame on the wire reaches the inverter, and InFlight makes its
\* counter the successor of the inverter's.
LEMMA InverterStep ==
  ASSUME IndInv, [Next]_vars, inverter' # inverter
  PROVE  inverter'.counter = NextCounter(inverter.counter)
<1>1. PICK m \in Mailbox : Transmit(m)
  BY DEF Next, vars, QueueTx, CanTask, Hardware, Irq, Interrupt, InterruptAbort,
         TransmitFails, AbortDone, hardwareVars, Enqueue, Outcome,
         Receive, WaitReady, WaitReadyFails, Commit,
         PollComplete, PollAborted, Deadline, Cancel, LatchUncertain,
         NoteCompletion, ClearTxFault, ClearHwFault, NoteFailure,
         SendFeedback, SkipFeedback
<1>2. inverter'.counter = box[m].counter /\ box[m].kind = "cm200"
  BY <1>1 DEF Transmit
<1>. QED
  BY <1>2 DEF IndInv, InFlight, CounterFollows

\* The inverter sees every rolling counter in turn.
THEOREM CountersHold == Spec => CountersInSequence
<1>1. IndInv /\ [Next]_vars =>
        [inverter' # inverter =>
           inverter'.counter = NextCounter(inverter.counter)]_vars
  BY InverterStep
<1>. QED
  BY <1>1, IndInvariant, PTL DEF Spec, CountersInSequence

\* The latch stays, the history stays and mailboxes are only emptied.
LEMMA UncertainStep ==
  ASSUME IndInv, [Next]_vars, uncertain
  PROVE  /\ uncertain'
         /\ history' = history
         /\ \A m \in Mailbox : box'[m] \in {box[m], EmptyBox}
<1>. USE DEF vars, taskVars, driverVars, appVars, hardwareVars
<1>1. CASE CanTask
  BY <1>1 DEF CanTask, IndInv, Completed, TaskAt, TxReady, Enqueue, Outcome,
         Receive, WaitReady, WaitReadyFails, Commit,
         PollComplete, PollAborted, Deadline, Cancel, LatchUncertain,
         NoteCompletion, ClearTxFault, ClearHwFault, NoteFailure,
         SendFeedback, SkipFeedback
<1>2. CASE Hardware
  BY <1>2 DEF Hardware, Transmit, TransmitFails, AbortDone, Release, IndInv,
              TypeOK
<1>3. CASE Irq \/ (\E t \in Torque : QueueTx(t)) \/ UNCHANGED vars
  BY <1>3 DEF Irq, Interrupt, InterruptAbort, QueueTx
<1>. QED
  BY <1>1, <1>2, <1>3 DEF Next

\* Once an outcome was given up as unknown, nothing is enqueued any more.
THEOREM UncertainHolds == Spec => UncertainIsFinal
<1>1. IndInv /\ [Next]_vars =>
        [uncertain =>
           /\ uncertain'
           /\ history' = history
           /\ \A m \in Mailbox : box'[m] \in {box[m], EmptyBox}]_vars
  BY UncertainStep
<1>. QED
  BY <1>1, IndInvariant, PTL DEF Spec, UncertainIsFinal

-------------------------------------------------------------------------------
(* CanTx implements CommandChannel.                                        *)

Offered == {[counter |-> box[m].counter, torque |-> box[m].torque] :
              m \in InTransmitter}

LEMMA ChannelInit == Init => Channel!Init
BY DEF Init, Channel!Init, InTransmitter, EmptyBox, NoCommandYet,
       Channel!NoCommandYet

\* Commit offers a command.
LEMMA CommitOffers ==
  ASSUME IndInv, TypeOK', Commit
  PROVE  \E t \in Torque : Channel!Offer(t)
<1>. USE DEF IndInv, TypeOK, TaskAt, TxReady, Enqueue, Commit, Cm200Frame,
             Waiting, InTransmitter, appVars
<1>1. PICK m \in Mailbox, t \in {0, request} :
        /\ Enqueue(m, Cm200Frame(t))
        /\ committed' = t
        /\ mailbox' = m
  OBVIOUS
<1>2. t \in Torque
  BY CanTxAssumption
<1>3. InTransmitter = {} /\ InTransmitter' = {m}
  BY <1>1 DEF Ownership
<1>4. Offered = {} /\ Offered' = {[counter |-> rolling, torque |-> t]}
  BY <1>1, <1>3 DEF Offered, Frame
<1>5. history = inverter /\ rolling = Channel!Successor(inverter.counter)
  BY DEF Settled, CounterFollows, NextCounter, Channel!Successor
<1>6. Channel!Offer(t)
  BY <1>1, <1>4, <1>5 DEF Channel!Offer, Offered
<1>. QED
  BY <1>2, <1>6

\* The transmission of a command delivers it, that of a feedback frame is a
\* stuttering step.
LEMMA TransmitDelivers ==
  ASSUME IndInv, TypeOK', NEW m \in Mailbox, Transmit(m)
  PROVE  Channel!Deliver \/ UNCHANGED Channel!vars
<1>. USE DEF IndInv, TypeOK, Transmit, Release, EmptyBox, InTransmitter,
             driverVars, appVars
<1>1. \A n \in Mailbox : n # m => box[n].kind = "none"
  BY DEF Ownership
<1>2. CASE box[m].kind = "cm200"
  <2>1. InTransmitter = {m} /\ InTransmitter' = {}
    BY <1>1, <1>2
  <2>2. Offered = {inverter'} /\ Offered' = {}
    BY <1>2, <2>1 DEF Offered
  <2>. QED
    BY <2>2 DEF Channel!Deliver, Offered
<1>3. CASE box[m].kind # "cm200"
  <2>1. InTransmitter = {} /\ InTransmitter' = {}
    BY <1>1, <1>3
  <2>2. Offered = {} /\ Offered' = {}
    BY <2>1 DEF Offered
  <2>. QED
    BY <1>3, <2>2 DEF Channel!vars, Offered
<1>. QED
  BY <1>2, <1>3

\* A frame that never reaches the wire is dropped.
LEMMA FailureDrops ==
  ASSUME IndInv, TypeOK', NEW m \in Mailbox, TransmitFails(m) \/ AbortDone(m)
  PROVE  Channel!Drop \/ UNCHANGED Channel!vars
<1>. USE DEF IndInv, TypeOK, TransmitFails, AbortDone, Release, EmptyBox,
             InTransmitter, driverVars, appVars
<1>1. InTransmitter' = {}
  BY DEF Ownership
<1>2. Offered' = {}
  BY <1>1 DEF Offered
<1>3. CASE Offered = {}
  BY <1>2, <1>3 DEF Channel!vars, Offered
<1>4. CASE Offered # {}
  BY <1>2, <1>4 DEF Channel!Drop, Offered
<1>. QED
  BY <1>3, <1>4

\* The history update acknowledges the command.
LEMMA CompletionAcknowledges ==
  ASSUME IndInv, NoteCompletion
  PROVE  Channel!Acknowledge
<1>. USE DEF IndInv, NoteCompletion, TaskAt, Waiting, Sent, driverVars,
             hardwareVars
<1>1. InTransmitter = {} /\ InTransmitter' = {}
  BY DEF InTransmitter, InFlight, Completed
<1>2. Offered = {} /\ Offered' = {}
  BY <1>1 DEF Offered
<1>3. history' = inverter
  BY DEF Completed
<1>. QED
  BY <1>2, <1>3 DEF Channel!Acknowledge, Offered

LEMMA ChannelStep == IndInv /\ [Next]_vars => [Channel!Next]_Channel!vars
<1> SUFFICES ASSUME IndInv, [Next]_vars
             PROVE  Channel!Next \/ UNCHANGED Channel!vars
  OBVIOUS
<1>1. TypeOK'
  BY TypeStep DEF IndInv
<1>. USE DEF Channel!Next
<1>2. CASE Commit
  BY <1>1, <1>2, CommitOffers
<1>3. CASE Hardware
  BY <1>1, <1>3, TransmitDelivers, FailureDrops DEF Hardware
<1>4. CASE NoteCompletion
  BY <1>4, CompletionAcknowledges
<1>5. CASE LatchUncertain
  BY <1>5 DEF LatchUncertain, Channel!Close, InTransmitter, appVars,
              hardwareVars
<1>6. CASE SendFeedback
  <2>1. InTransmitter' = InTransmitter
    BY <1>6 DEF SendFeedback, Enqueue, FeedbackFrame, FreeBoxes, InTransmitter,
                IndInv, TypeOK
  <2>2. \A m \in InTransmitter : box'[m] = box[m]
    BY <1>6 DEF SendFeedback, Enqueue, FreeBoxes, InTransmitter, IndInv, TypeOK
  <2>3. Offered' = Offered
    BY <2>1, <2>2 DEF Offered
  <2>. QED
    BY <1>6, <2>3 DEF SendFeedback, Enqueue, Offered, Channel!vars, appVars
<1>7. CASE \/ Receive \/ WaitReady \/ WaitReadyFails
           \/ PollComplete \/ PollAborted \/ Deadline \/ Cancel
           \/ ClearTxFault \/ ClearHwFault \/ NoteFailure \/ SkipFeedback
           \/ Irq \/ (\E t \in Torque : QueueTx(t)) \/ UNCHANGED vars
  <2>1. UNCHANGED <<box, inverter, history, uncertain>>
    BY <1>7 DEF Receive, WaitReady, WaitReadyFails,
         PollComplete, PollAborted, Deadline, Cancel, Outcome, ClearTxFault,
         ClearHwFault, NoteFailure, SkipFeedback, Irq, Interrupt,
         InterruptAbort, QueueTx, vars, taskVars, driverVars, appVars,
         hardwareVars
  <2>. QED
    BY <2>1 DEF Channel!vars, InTransmitter
<1>. QED
  BY <1>2, <1>3, <1>4, <1>5, <1>6, <1>7 DEF Next, CanTask

\* The transmit path implements the command channel, for every counter range,
\* every set of torques and every set of mailboxes.
THEOREM Refinement == Spec => ImplementsChannel
BY ChannelInit, ChannelStep, IndInvariant, PTL
   DEF Spec, ImplementsChannel, Channel!Spec

===============================================================================
