-------------------------------- MODULE CanTx ---------------------------------
(***************************************************************************)
(* The CAN transmit path of the ECU: the CAN task                          *)
(* (Core/Src/tasks/canbus_task.c), the mailbox driver                      *)
(* (Core/Src/ext_drivers/canbus.c), the bxCAN interrupt callbacks          *)
(* (Core/Src/stm32f7xx_it.c) and the bxCAN transmitter itself.             *)
(*                                                                         *)
(* The CAN task takes the latest command request from a one-slot queue,    *)
(* waits for the transmitter, enqueues one CM200 frame inside a critical   *)
(* section, waits for its outcome and only then advances the rolling       *)
(* counter and the command history.  The same transmitter carries a        *)
(* diagnostic frame nobody waits for.  Interrupts report outcomes          *)
(* asynchronously; a bus fault may make the error callback abort a         *)
(* mailbox; a deadline may race the outcome.                               *)
(*                                                                         *)
(* A critical section (taskENTER_CRITICAL .. taskEXIT_CRITICAL) masks the  *)
(* CAN interrupts, which share one priority and do not nest: it is one     *)
(* step.  Deadlines are nondeterministic: a bounded wait may expire at any *)
(* poll that does not find its condition.                                  *)
(***************************************************************************)
EXTENDS Naturals, FiniteSets

CONSTANTS
  Mailbox,     \* the bxCAN transmit mailboxes
  CounterMod,  \* range of the CM200 rolling counter (16)
  Torque       \* torque commands in 0.1 Nm; 0 is the disable packet

ASSUME CanTxAssumption ==
  /\ CounterMod \in Nat \ {0, 1}
  /\ 0 \in Torque

VARIABLES
  \* canbus_t
  queue,       \* tx_queue: the requested torques waiting, none or one
  pending,     \* tx_pending_mailbox_mask
  complete,    \* tx_complete_mailbox_mask
  aborted,     \* tx_abort_mailbox_mask
  uncertain,   \* tx_outcome_uncertain_latched
  \* app_data_t
  rolling,     \* cm200_rolling_counter
  history,     \* cm200_t last_command_counter, last_command_torque_0p1nm
  reported,    \* cm200_command_torque_0p1nm
  txFault,     \* canbus_tx_fault
  hwFault,     \* canbus_hw_fault
  \* the CAN task
  pc,          \* where the task loop stands
  request,     \* torque of the request being handled
  committed,   \* torque of the frame last enqueued
  mailbox,     \* mailbox of the frame last enqueued
  \* CAN interrupt
  isr,         \* "idle", or "abort": the error callback is about to abort
  \* bxCAN
  box,         \* frame in each mailbox (TXRQ set)
  rqcp,        \* request-completed status of each mailbox
  abrq,        \* mailboxes with an abort request
  \* CM200 inverter
  inverter     \* the last command it received

taskVars == <<pc, request, committed, mailbox>>
driverVars == <<pending, complete, aborted, uncertain>>
appVars == <<rolling, history, reported, txFault, hwFault>>
hardwareVars == <<box, rqcp, abrq, inverter>>
vars == <<queue, taskVars, driverVars, appVars, isr, hardwareVars>>

-------------------------------------------------------------------------------
Counter == 0 .. CounterMod - 1
Command == [counter : Counter, torque : Torque]
Frame == [kind : {"none", "cm200", "feedback"},
          counter : Counter, torque : Torque]

EmptyBox == [kind |-> "none", counter |-> 0, torque |-> 0]
FeedbackFrame == [kind |-> "feedback", counter |-> 0, torque |-> 0]
Cm200Frame(t) == [kind |-> "cm200", counter |-> rolling, torque |-> t]

\* The counter before any command is such that 0 comes next.
NoCommandYet == [counter |-> CounterMod - 1, torque |-> 0]

\* ecu_cm200_next_rolling_counter
NextCounter(c) == (c + 1) % CounterMod

\* HAL_CAN_GetTxMailboxesFreeLevel: the mailboxes with TME set.
FreeBoxes == {m \in Mailbox : box[m].kind = "none"}

TaskAt(label) == pc = label /\ isr = "idle"

Init ==
  /\ queue = {}
  /\ pending = {} /\ complete = {} /\ aborted = {} /\ uncertain = FALSE
  /\ rolling = 0
  /\ history = NoCommandYet
  /\ reported = 0
  /\ txFault = FALSE /\ hwFault = FALSE
  /\ pc = "receive"
  /\ request = 0 /\ committed = 0
  /\ mailbox \in Mailbox
  /\ isr = "idle"
  /\ box = [m \in Mailbox |-> EmptyBox]
  /\ rqcp = [m \in Mailbox |-> "none"]
  /\ abrq = {}
  /\ inverter = NoCommandYet

-------------------------------------------------------------------------------
(* The APPS task: canbus_queue_tx overwrites the one-slot queue.           *)

QueueTx(t) ==
  /\ isr = "idle"
  /\ queue' = {t}
  /\ UNCHANGED <<taskVars, driverVars, appVars, isr, hardwareVars>>

-------------------------------------------------------------------------------
(* The CAN task.                                                           *)

\* Faulty form: nothing received keeps the previous request.
ReceiveKeepsRequest ==
  /\ TaskAt("receive")
  /\ \/ request' \in queue
     \/ queue = {} /\ request' = request
  /\ queue' = {}
  /\ pc' = "ready"
  /\ UNCHANGED <<committed, mailbox, driverVars, appVars, isr, hardwareVars>>

\* xQueueReceive, with the disable packet when nothing arrives in 25 ms.
Receive ==
  /\ TaskAt("receive")
  /\ \/ request' \in queue
     \/ queue = {} /\ request' = 0
  /\ queue' = {}
  /\ pc' = "ready"
  /\ UNCHANGED <<committed, mailbox, driverVars, appVars, isr, hardwareVars>>

\* Faulty form: the uncertainty latch is not consulted.
TxReadyIgnoresLatch == pending = {} /\ FreeBoxes # {}

TxReady == ~uncertain /\ pending = {} /\ FreeBoxes # {}

\* Faulty form: a free mailbox is enough, whoever owns the others.
WaitReadyOnFreeMailbox ==
  /\ TaskAt("ready")
  /\ ~uncertain /\ FreeBoxes # {}
  /\ pc' = "commit"
  /\ UNCHANGED <<queue, request, committed, mailbox, driverVars, appVars, isr,
                 hardwareVars>>

\* canbus_wait_tx_ready returns HAL_OK.
WaitReady ==
  /\ TaskAt("ready")
  /\ TxReady
  /\ pc' = "commit"
  /\ UNCHANGED <<queue, request, committed, mailbox, driverVars, appVars, isr,
                 hardwareVars>>

\* It returns HAL_ERROR or HAL_TIMEOUT: the request is dropped.
WaitReadyFails ==
  /\ TaskAt("ready")
  /\ ~TxReady
  /\ txFault' = TRUE
  /\ reported' = 0
  /\ pc' = "receive"
  /\ UNCHANGED <<queue, request, committed, mailbox, driverVars, rolling,
                 history, hwFault, isr, hardwareVars>>

\* Faulty form: the tokens of the mailbox's previous frame are kept.
EnqueueKeepsTokens(m, frame) ==
  /\ TxReady
  /\ m \in FreeBoxes
  /\ box' = [box EXCEPT ![m] = frame]
  /\ rqcp' = [rqcp EXCEPT ![m] = "none"]
  /\ pending' = pending \union {m}
  /\ UNCHANGED <<complete, aborted, uncertain, abrq, inverter>>

\* canbus_transmit_ready_tracked once it has found the transmitter ready:
\* AddTxMessage fills a free mailbox, which clears its status in hardware,
\* and the driver takes ownership of it.
Enqueue(m, frame) ==
  /\ TxReady
  /\ m \in FreeBoxes
  /\ box' = [box EXCEPT ![m] = frame]
  /\ rqcp' = [rqcp EXCEPT ![m] = "none"]
  /\ pending' = pending \union {m}
  /\ complete' = complete \ {m}
  /\ aborted' = aborted \ {m}
  /\ UNCHANGED <<uncertain, abrq, inverter>>

\* The protected commit: the request or, when the final checks refuse it,
\* the disable packet is given the rolling counter and enqueued.  The enqueue
\* is refused if the transmitter is no longer ready: ReadyUntilCommit says
\* that this does not happen.
Commit ==
  /\ TaskAt("commit")
  /\ \E m \in Mailbox, t \in {0, request} :
       /\ Enqueue(m, Cm200Frame(t))
       /\ committed' = t
       /\ mailbox' = m
  /\ pc' = "wait"
  /\ UNCHANGED <<queue, request, appVars, isr>>

\* One poll of canbus_wait_tx_complete, in either of its two loops: the
\* completion or abort token of the mailbox is consumed.
Outcome(tokens, label) ==
  /\ mailbox \in tokens
  /\ pc' = label
  /\ UNCHANGED <<queue, request, committed, mailbox, pending, uncertain,
                 appVars, isr, hardwareVars>>

PollComplete ==
  /\ pc \in {"wait", "reconcile"} /\ isr = "idle"
  /\ Outcome(complete, "completed")
  /\ complete' = complete \ {mailbox}
  /\ UNCHANGED aborted

PollAborted ==
  /\ pc \in {"wait", "reconcile"} /\ isr = "idle"
  /\ mailbox \notin complete
  /\ Outcome(aborted, "failed")
  /\ aborted' = aborted \ {mailbox}
  /\ UNCHANGED complete

\* Faulty form: the reconcile loop has no deadline.
DeadlineOfWaitOnly ==
  /\ TaskAt("wait")
  /\ mailbox \notin complete \union aborted
  /\ pc' = "cancel"
  /\ UNCHANGED <<queue, request, committed, mailbox, driverVars, appVars, isr,
                 hardwareVars>>

\* A poll found no outcome and the deadline of its loop has passed: the
\* 4 ms deadline leads to an abort request, the 2 ms one to the latch.
Deadline ==
  /\ isr = "idle"
  /\ mailbox \notin complete \union aborted
  /\ \/ pc = "wait" /\ pc' = "cancel"
     \/ pc = "reconcile" /\ pc' = "latch"
  /\ UNCHANGED <<queue, request, committed, mailbox, driverVars, appVars, isr,
                 hardwareVars>>

\* HAL_CAN_AbortTxRequest.  It takes effect on an occupied mailbox only.
\* SET_BIT on TSR writes back as 1, and so clears, the RQCP flags it reads
\* as set: an outcome whose interrupt has not been taken yet may be lost.
RequestAbort(ms) == abrq' = abrq \union (ms \ FreeBoxes)

ForgetOutcomes == rqcp' = [m \in Mailbox |-> "none"]

Cancel ==
  /\ TaskAt("cancel")
  /\ RequestAbort({mailbox})
  /\ ForgetOutcomes \/ UNCHANGED rqcp
  /\ pc' = "reconcile"
  /\ UNCHANGED <<queue, request, committed, mailbox, driverVars, appVars, isr,
                 box, inverter>>

\* Faulty form: the expired wait is an ordinary failure.
LatchUncertainForgotten ==
  /\ TaskAt("latch")
  /\ pc' = "failed"
  /\ UNCHANGED <<queue, request, committed, mailbox, driverVars, appVars, isr,
                 hardwareVars>>

\* The outcome is unknown for good: no frame may be enqueued any more.
LatchUncertain ==
  /\ TaskAt("latch")
  /\ uncertain' = TRUE
  /\ pc' = "failed"
  /\ UNCHANGED <<queue, request, committed, mailbox, pending, complete, aborted,
                 appVars, isr, hardwareVars>>

\* TXOK: cm200_note_command_tx and the rolling counter, in one critical
\* section; the transmit fault is cleared.
NoteCompletion ==
  /\ TaskAt("completed")
  /\ history' = [counter |-> rolling, torque |-> committed]
  /\ reported' = committed
  /\ rolling' = NextCounter(rolling)
  /\ pc' = "clear_tx_fault"
  /\ UNCHANGED <<queue, request, committed, mailbox, driverVars, txFault,
                 hwFault, isr, hardwareVars>>

ClearTxFault ==
  /\ TaskAt("clear_tx_fault")
  /\ txFault' = FALSE
  /\ pc' = "clear_hw_fault"
  /\ UNCHANGED <<queue, request, committed, mailbox, driverVars, rolling,
                 history, reported, hwFault, isr, hardwareVars>>

\* HAL_CAN_ResetError and the hardware fault, outside a critical section, if
\* the peripheral is listening.
ClearHwFault ==
  /\ TaskAt("clear_hw_fault")
  /\ hwFault' = FALSE \/ UNCHANGED hwFault
  /\ pc' = "feedback"
  /\ UNCHANGED <<queue, request, committed, mailbox, driverVars, rolling,
                 history, reported, txFault, isr, hardwareVars>>

\* Faulty form: the counter advances although the command failed.
NoteFailureAdvances ==
  /\ TaskAt("failed")
  /\ txFault' = TRUE
  /\ reported' = 0
  /\ rolling' = NextCounter(rolling)
  /\ pc' = "receive"
  /\ UNCHANGED <<queue, request, committed, mailbox, driverVars, history,
                 hwFault, isr, hardwareVars>>

NoteFailure ==
  /\ TaskAt("failed")
  /\ txFault' = TRUE
  /\ reported' = 0
  /\ pc' = "receive"
  /\ UNCHANGED <<queue, request, committed, mailbox, driverVars, rolling,
                 history, hwFault, isr, hardwareVars>>

\* canbus_try_send_ams_feedback: the frame goes out when its period has
\* elapsed and the transmitter is ready; nobody waits for its outcome.
SendFeedback ==
  /\ TaskAt("feedback")
  /\ \E m \in Mailbox : Enqueue(m, FeedbackFrame)
  /\ pc' = "receive"
  /\ UNCHANGED <<queue, request, committed, mailbox, appVars, isr>>

SkipFeedback ==
  /\ TaskAt("feedback")
  /\ pc' = "receive"
  /\ UNCHANGED <<queue, request, committed, mailbox, driverVars, appVars, isr,
                 hardwareVars>>

CanTask ==
  \/ Receive \/ WaitReady \/ WaitReadyFails
  \/ Commit
  \/ PollComplete \/ PollAborted \/ Deadline \/ Cancel \/ LatchUncertain
  \/ NoteCompletion \/ ClearTxFault \/ ClearHwFault \/ NoteFailure
  \/ SendFeedback \/ SkipFeedback

-------------------------------------------------------------------------------
(* bxCAN.  Automatic retransmission is off: an attempt that fails ends the *)
(* request.  An abort is refused by a frame already on the wire.           *)

Release(m, status) ==
  /\ box[m].kind # "none"
  /\ box' = [box EXCEPT ![m] = EmptyBox]
  /\ rqcp' = [rqcp EXCEPT ![m] = status]
  /\ abrq' = abrq \ {m}
  /\ UNCHANGED <<queue, taskVars, driverVars, appVars, isr>>

Transmit(m) ==
  /\ Release(m, "txok")
  /\ inverter' = IF box[m].kind = "cm200"
                 THEN [counter |-> box[m].counter, torque |-> box[m].torque]
                 ELSE inverter

\* Arbitration lost (ALST) or transmission error (TERR).
TransmitFails(m) == Release(m, "error") /\ UNCHANGED inverter

AbortDone(m) == m \in abrq /\ Release(m, "aborted") /\ UNCHANGED inverter

Hardware == \E m \in Mailbox : Transmit(m) \/ TransmitFails(m) \/ AbortDone(m)

-------------------------------------------------------------------------------
(* HAL_CAN_IRQHandler with the ECU's callbacks.                            *)

Reported(statuses) == {m \in Mailbox : rqcp[m] \in statuses}

\* canbus_tx_callback_isr on each reported mailbox: only a mailbox the
\* driver owns gets a token.
RetireMailboxes(done, failed) ==
  /\ pending' = pending \ (done \union failed)
  /\ complete' = complete \union (done \intersect pending)
  /\ aborted' = aborted \union (failed \intersect pending)

\* Faulty form: any bus error retires whatever is pending.
ErrorRetiredAll(busError) == IF busError THEN pending ELSE Reported({"error"})

\* The mailboxes canbus_tx_error_isr retires: those with ALST or TERR only.
ErrorRetired(busError) == Reported({"error"})

\* One interrupt.  Errors that concern no mailbox may come with it (busError)
\* and may be of the fatal kind, for which the error callback requests the
\* abort of whatever is still pending.
Interrupt(busError, fatal) ==
  /\ isr = "idle"
  /\ fatal => busError
  /\ busError \/ Reported({"txok", "error", "aborted"}) # {}
  /\ RetireMailboxes(Reported({"txok"}),
                     Reported({"aborted"}) \union ErrorRetired(busError))
  /\ ForgetOutcomes
  /\ hwFault' = (hwFault \/ busError \/ Reported({"error"}) # {})
  /\ isr' = IF fatal /\ pending' # {} THEN "abort" ELSE "idle"
  /\ UNCHANGED <<queue, taskVars, uncertain, rolling, history, reported, txFault,
                 box, abrq, inverter>>

\* The error callback's HAL_CAN_AbortTxRequest of every pending mailbox.  The
\* interrupt is still being served, so an outcome set since it began is lost.
InterruptAbort ==
  /\ isr = "abort"
  /\ RequestAbort(pending)
  /\ ForgetOutcomes
  /\ isr' = "idle"
  /\ UNCHANGED <<queue, taskVars, driverVars, appVars, box, inverter>>

Irq == (\E e, f \in BOOLEAN : Interrupt(e, f)) \/ InterruptAbort

-------------------------------------------------------------------------------
Next ==
  \/ \E t \in Torque : QueueTx(t)
  \/ CanTask
  \/ Hardware
  \/ Irq

Spec == Init /\ [][Next]_vars

\* The tasks above the CAN task run for a bounded part of each of their
\* periods, its waits are bounded by the tick, an interrupt handler ends, and
\* bus errors come at most once a bit time, so that the task runs again and
\* again between interrupts (strong fairness).  Nothing is assumed of the bus.
TaskFairness == SF_vars(CanTask) /\ WF_vars(InterruptAbort)

FairSpec == Spec /\ TaskFairness

-------------------------------------------------------------------------------
TypeOK ==
  /\ queue \subseteq Torque
  /\ pending \subseteq Mailbox
  /\ complete \subseteq Mailbox
  /\ aborted \subseteq Mailbox
  /\ abrq \subseteq Mailbox
  /\ uncertain \in BOOLEAN /\ txFault \in BOOLEAN /\ hwFault \in BOOLEAN
  /\ rolling \in Counter
  /\ history \in Command
  /\ inverter \in Command
  /\ pc \in {"receive", "ready", "commit", "wait", "cancel", "reconcile",
             "latch", "completed", "clear_tx_fault", "clear_hw_fault",
             "feedback", "failed"}
  /\ request \in Torque
  /\ reported \in Torque
  /\ committed \in Torque
  /\ mailbox \in Mailbox
  /\ isr \in {"idle", "abort"}
  /\ box \in [Mailbox -> Frame]
  /\ rqcp \in [Mailbox -> {"none", "txok", "error", "aborted"}]

-------------------------------------------------------------------------------
(* What the transmitter holds and what the driver thinks it holds.         *)

\* Every frame in the transmitter, and every outcome not yet reported, has
\* its mailbox in tx_pending_mailbox_mask, and there is at most one: no
\* frame is enqueued behind an unresolved one (canbus.c:267-285).
Ownership ==
  /\ \A m \in Mailbox : box[m].kind # "none" \/ rqcp[m] # "none" => m \in pending
  /\ \A m, n \in pending : m = n

\* The transmitter the task found ready stays ready until the commit, although
\* interrupts run in between: no command is lost to a refused enqueue.
ReadyUntilCommit == pc = "commit" => TxReady

\* The CAN task is between enqueueing a CM200 frame and learning its outcome.
Waiting == pc \in {"wait", "cancel", "reconcile", "latch"}

\* Once the task has dealt with a command, its command history is what the
\* inverter last received, its rolling counter is the one the inverter
\* expects next, and a nonzero torque it reports is the inverter's torque:
\* whatever deadline, abort or bus error the command met on the way.
HistoryAgrees ==
  ~uncertain /\ ~Waiting /\ pc # "completed" =>
    /\ history = inverter
    /\ rolling = NextCounter(inverter.counter)
    /\ reported # 0 => pc = "failed" \/ reported = inverter.torque

\* The inverter never sees a repeated or skipped rolling counter.
CountersInSequence ==
  [][inverter' # inverter =>
       inverter'.counter = NextCounter(inverter.counter)]_vars

\* After an outcome was given up as unknown nothing new is enqueued and the
\* history is left alone (tx_outcome_uncertain_latched, canbus.h).
UncertainIsFinal ==
  [][uncertain =>
       /\ uncertain'
       /\ history' = history
       /\ \A m \in Mailbox : box'[m] \in {box[m], EmptyBox}]_vars

\* The transmit path as a command channel: the commands in the transmitter
\* are the ones offered.
InTransmitter == {m \in Mailbox : box[m].kind = "cm200"}

Channel == INSTANCE CommandChannel WITH
  delivered <- inverter,
  history <- history,
  offered <- {[counter |-> box[m].counter, torque |-> box[m].torque] :
                m \in InTransmitter},
  closed <- uncertain

\* The transmit path implements the command channel.
ImplementsChannel == Channel!Spec

\* The wait for an outcome ends, whatever the bus does
\* (CANBUS_CM200_TX_COMPLETE_TIMEOUT_MS, CANBUS_TX_ABORT_RECONCILE_MS).
WaitEnds == pc = "wait" ~> pc = "receive"

\* When the APPS task stops asking, and CM200 frames still get through, the
\* inverter is told to make no torque and stays so: loss of the APPS task
\* "must actively replace the last torque command" (canbus_task.c:382).
Cm200FrameSent == \E m \in InTransmitter : Transmit(m)

SilenceRemovesTorque ==
  <>[](queue = {}) /\ []<><<Cm200FrameSent>>_vars => <>[](inverter.torque = 0)

\* Ownership is given back by "the real hardware outcome" (canbus.c:462): an
\* owned mailbox nobody waits for still holds its frame or an unreported
\* outcome, so that its callback will come, unless the path is latched.
OwnerHasOutcome ==
  \A m \in pending :
    \/ box[m].kind # "none" \/ rqcp[m] # "none"
    \/ Waiting /\ m = mailbox
    \/ uncertain

===============================================================================
