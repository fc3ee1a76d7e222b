---------------------------- MODULE CommandChannel ----------------------------
(***************************************************************************)
(* What the ECU's CAN transmit path promises about CM200 commands.         *)
(*                                                                         *)
(* One command is offered at a time.  It carries the successor of the last *)
(* rolling counter that reached the inverter, it is either delivered or    *)
(* dropped, and the ECU's own command history is brought up to date with   *)
(* what was delivered before the next command is offered.  A channel whose *)
(* history can no longer be trusted is closed, and offers nothing more.    *)
(***************************************************************************)
EXTENDS Naturals

CONSTANTS
  CounterMod,  \* size of the rolling counter's range
  Torque       \* torque commands, zero among them

VARIABLES
  delivered,   \* the last command the inverter received
  history,     \* the last command the ECU knows it received
  offered,     \* the commands now in the transmitter: none or one
  closed       \* no further command may be offered

vars == <<delivered, history, offered, closed>>

Command == [counter : 0 .. CounterMod - 1, torque : Torque]

\* Before the first command the counter stands just below zero.
NoCommandYet == [counter |-> CounterMod - 1, torque |-> 0]

Successor(c) == (c + 1) % CounterMod

Init ==
  /\ delivered = NoCommandYet
  /\ history = NoCommandYet
  /\ offered = {}
  /\ closed = FALSE

Offer(t) ==
  /\ ~closed
  /\ offered = {}
  /\ history = delivered
  /\ offered' = {[counter |-> Successor(delivered.counter), torque |-> t]}
  /\ UNCHANGED <<delivered, history, closed>>

Deliver ==
  /\ \E c \in offered : delivered' = c
  /\ offered' = {}
  /\ UNCHANGED <<history, closed>>

Drop ==
  /\ offered # {}
  /\ offered' = {}
  /\ UNCHANGED <<delivered, history, closed>>

Acknowledge ==
  /\ offered = {}
  /\ history' = delivered
  /\ UNCHANGED <<delivered, offered, closed>>

Close ==
  /\ closed' = TRUE
  /\ UNCHANGED <<delivered, history, offered>>

Next ==
  \/ \E t \in Torque : Offer(t)
  \/ Deliver
  \/ Drop
  \/ Acknowledge
  \/ Close

Spec == Init /\ [][Next]_vars

===============================================================================
