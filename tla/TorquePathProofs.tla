--------------------------- MODULE TorquePathProofs ---------------------------
(***************************************************************************)
(* Proofs about TorquePath, for all torques, steps, periods and waits.     *)
(***************************************************************************)
EXTENDS TorquePath, TLAPS

(* Types.                                                                  *)

LEMMA DisableTyped == Disable \in Contract
  BY TorqueAssumption DEF Disable, Contract, Torque

LEMMA NoWorkTyped == NoWork \in Work
  BY TorqueAssumption, DisableTyped DEF NoWork, Work, Torque

LEMMA SlewTyped == \A s \in Torque, t \in Torque : slew = s => Slewed(t) \in Torque
  BY TorqueAssumption DEF Torque, Slewed, Lesser

\* What the clamp returns is a contract for at most what was asked.
LEMMA ClampTyped ==
  ASSUME NEW ask \in Torque, NEW c \in Clamped(ask)
  PROVE  c \in Contract
<1>1. \A t \in 0..ask, m \in BOOLEAN : Result(t, m) \in Contract
  BY TorqueAssumption DEF Result, Contract, Torque
<1>2. PICK t \in 0..ask, m \in BOOLEAN : c = Result(t, m)
  BY DEF Clamped
<1> QED
  BY <1>1, <1>2

LEMMA AppsTyped == TypeOK /\ [Next]_vars => AppsTypes'
<1> SUFFICES ASSUME TypeOK, [Next]_vars PROVE AppsTypes'
  OBVIOUS
<1> USE TorqueAssumption, TimeAssumption, CountAssumption DEF TypeOK,
     AppsTypes, vars, appsVars, canVars, wireVars, ackVars, envVars, seenVars
<1>1. CASE AppsSnapshot
  <2>1. slew' \in Torque /\ work' \in Work
    <3>1. CASE Allowed /\ unlock = 0
      <4>1. PICK target \in Torque : slew' = Slewed(target)
              /\ \E c \in Clamped(slew') :
                work' = [clamped |-> TRUE, from |-> acked, contract |-> c]
        BY <1>1, <3>1 DEF AppsSnapshot
      <4>2. slew' \in Torque
        BY <4>1, SlewTyped
      <4> QED
        BY <4>1, <4>2, ClampTyped DEF Work, AckTypes
    <3>2. CASE ~(Allowed /\ unlock = 0)
      BY <1>1, <3>2, NoWorkTyped DEF AppsSnapshot, Torque
    <3> QED
      BY <3>1, <3>2
  <2>2. unlock' \in 0..UnlockCycles
    BY <1>1 DEF AppsSnapshot, NextUnlock
  <2> QED
    BY <1>1, <2>1, <2>2 DEF AppsSnapshot
<1>2. CASE AppsPublish
  <2>1. work' \in Work
    BY <1>2, NoWorkTyped DEF AppsPublish
  <2>2. slew' \in Torque
    BY <1>2 DEF AppsPublish, Torque
  <2>3. overruns' \in 0..TripCount /\ overrunFault' \in BOOLEAN
    BY <1>2 DEF AppsPublish, MayOverrun, Lesser
  <2> QED
    BY <1>2, <2>1, <2>2, <2>3 DEF AppsPublish
<1>3. CASE Receive
  BY <1>3 DEF Receive
<1>4. CASE ReceiveTimeout
  BY <1>4 DEF ReceiveTimeout
<1>5. CASE ReadyTimeout
  BY <1>5 DEF ReadyTimeout
<1>6. CASE Commit
  BY <1>6 DEF Commit
<1>7. CASE Completed
  BY <1>7 DEF Completed
<1>8. CASE Aborted
  BY <1>8 DEF Aborted
<1>9. CASE AskAbort
  BY <1>9 DEF AskAbort
<1>10. CASE GiveUp
  BY <1>10 DEF GiveUp
<1>11. CASE PollAgain
  BY <1>11 DEF PollAgain
<1>12. CASE Transmit
  BY <1>12 DEF Transmit
<1>13. CASE TransmitFails
  BY <1>13 DEF TransmitFails
<1>14. CASE OtherSent
  BY <1>14 DEF OtherSent
<1>15. CASE SetFlags
  BY <1>15 DEF SetFlags
<1>16. CASE SetAuthority
  BY <1>16 DEF SetAuthority
<1>17. CASE OperatingPoint
  BY <1>17 DEF OperatingPoint, Stale, Work, Contract
<1>18. CASE Tick
  BY <1>18 DEF Tick, Lesser
<1>19. CASE UNCHANGED vars
  BY <1>19
<1> QED
  BY <1>1, <1>2, <1>3, <1>4, <1>5, <1>6, <1>7, <1>8, <1>9, <1>10, <1>11,
     <1>12, <1>13, <1>14, <1>15, <1>16, <1>17, <1>18, <1>19 DEF Next

LEMMA QueueTyped == TypeOK /\ [Next]_vars => QueueTypes'
<1> SUFFICES ASSUME TypeOK, [Next]_vars PROVE QueueTypes'
  OBVIOUS
<1> USE TorqueAssumption, TimeAssumption, CountAssumption DEF TypeOK,
     QueueTypes, vars, appsVars, canVars, wireVars, ackVars, envVars, seenVars
<1>1. CASE AppsSnapshot
  BY <1>1 DEF AppsSnapshot
<1>2. CASE AppsPublish
  <2>1. PICK overrun \in BOOLEAN : queue' = {Published(overrun)}
    BY <1>2 DEF AppsPublish, MayOverrun
  <2>2. work \in Work /\ appsAge \in Nat
    BY DEF AppsTypes
  <2>3. Published(overrun) \in Contract
    <3>1. work.contract \in Contract /\ 0 \in Torque
      BY <2>2, TorqueAssumption DEF Work, Torque
    <3>2. work.contract.certified \in BOOLEAN
          /\ work.contract.material \in BOOLEAN
          /\ work.contract.fresh \in BOOLEAN
      BY <3>1 DEF Contract
    <3>3. work.contract.torque \in Torque
      BY <3>1 DEF Contract
    <3> QED
      BY <2>2, <3>1, <3>2, <3>3 DEF Published, Contract
  <2> QED
    BY <2>1, <2>3
<1>3. CASE Receive
  BY <1>3 DEF Receive
<1>4. CASE ReceiveTimeout
  BY <1>4 DEF ReceiveTimeout
<1>5. CASE ReadyTimeout
  BY <1>5 DEF ReadyTimeout
<1>6. CASE Commit
  BY <1>6 DEF Commit
<1>7. CASE Completed
  BY <1>7 DEF Completed
<1>8. CASE Aborted
  BY <1>8 DEF Aborted
<1>9. CASE AskAbort
  BY <1>9 DEF AskAbort
<1>10. CASE GiveUp
  BY <1>10 DEF GiveUp
<1>11. CASE PollAgain
  BY <1>11 DEF PollAgain
<1>12. CASE Transmit
  BY <1>12 DEF Transmit
<1>13. CASE TransmitFails
  BY <1>13 DEF TransmitFails
<1>14. CASE OtherSent
  BY <1>14 DEF OtherSent
<1>15. CASE SetFlags
  BY <1>15 DEF SetFlags
<1>16. CASE SetAuthority
  BY <1>16 DEF SetAuthority
<1>17. CASE OperatingPoint
  BY <1>17 DEF OperatingPoint, Stale, Contract
<1>18. CASE Tick
  BY <1>18 DEF Tick, Older, Lesser, Contract
<1>19. CASE UNCHANGED vars
  BY <1>19
<1> QED
  BY <1>1, <1>2, <1>3, <1>4, <1>5, <1>6, <1>7, <1>8, <1>9, <1>10, <1>11,
     <1>12, <1>13, <1>14, <1>15, <1>16, <1>17, <1>18, <1>19 DEF Next

LEMMA CanTyped == TypeOK /\ [Next]_vars => CanTypes'
<1> SUFFICES ASSUME TypeOK, [Next]_vars PROVE CanTypes'
  OBVIOUS
<1> USE TorqueAssumption, TimeAssumption, CountAssumption DEF TypeOK,
     CanTypes, vars, appsVars, canVars, wireVars, ackVars, envVars, seenVars
<1>1. CASE AppsSnapshot
  BY <1>1 DEF AppsSnapshot, StartReady, BackToReceive, Fail, Disable,
     Contract, Torque
<1>2. CASE AppsPublish
  BY <1>2 DEF AppsPublish, StartReady, BackToReceive, Fail, Disable, Contract,
     Torque
<1>3. CASE Receive
  BY <1>3 DEF Receive, StartReady, QueueTypes
<1>4. CASE ReceiveTimeout
  BY <1>4 DEF ReceiveTimeout, StartReady, BackToReceive, Fail, Disable,
     Contract, Torque
<1>5. CASE ReadyTimeout
  BY <1>5 DEF ReadyTimeout, StartReady, BackToReceive, Fail, Disable,
     Contract, Torque
<1>6. CASE Commit
  BY <1>6 DEF Commit, Contract
<1>7. CASE Completed
  BY <1>7, DisableTyped DEF Completed, BackToReceive
<1>8. CASE Aborted
  BY <1>8, DisableTyped DEF Aborted, Fail, BackToReceive
<1>9. CASE AskAbort
  BY <1>9 DEF AskAbort, StartReady, BackToReceive, Fail, Disable, Contract,
     Torque
<1>10. CASE GiveUp
  BY <1>10, DisableTyped DEF GiveUp, Fail, BackToReceive
<1>11. CASE PollAgain
  BY <1>11 DEF PollAgain, StartReady, BackToReceive, Fail, Disable, Contract,
     Torque
<1>12. CASE Transmit
  BY <1>12 DEF Transmit, StartReady, BackToReceive, Fail, Disable, Contract,
     Torque
<1>13. CASE TransmitFails
  BY <1>13 DEF TransmitFails, StartReady, BackToReceive, Fail, Disable,
     Contract, Torque
<1>14. CASE OtherSent
  BY <1>14 DEF OtherSent, StartReady, BackToReceive, Fail, Disable, Contract,
     Torque
<1>15. CASE SetFlags
  BY <1>15 DEF SetFlags, StartReady, BackToReceive, Fail, Disable, Contract,
     Torque
<1>16. CASE SetAuthority
  BY <1>16 DEF SetAuthority, StartReady, BackToReceive, Fail, Disable,
     Contract, Torque
<1>17. CASE OperatingPoint
  BY <1>17 DEF OperatingPoint, Stale, Contract
<1>18. CASE Tick
  BY <1>18 DEF Tick, Older, Lesser, Contract
<1>19. CASE UNCHANGED vars
  BY <1>19
<1> QED
  BY <1>1, <1>2, <1>3, <1>4, <1>5, <1>6, <1>7, <1>8, <1>9, <1>10, <1>11,
     <1>12, <1>13, <1>14, <1>15, <1>16, <1>17, <1>18, <1>19 DEF Next

LEMMA WireTyped == TypeOK /\ [Next]_vars => WireTypes'
<1> SUFFICES ASSUME TypeOK, [Next]_vars PROVE WireTypes'
  OBVIOUS
<1> USE TorqueAssumption, TimeAssumption, CountAssumption DEF TypeOK,
     WireTypes, vars, appsVars, canVars, wireVars, ackVars, envVars, seenVars
<1>1. CASE AppsSnapshot
  BY <1>1 DEF AppsSnapshot
<1>2. CASE AppsPublish
  BY <1>2 DEF AppsPublish
<1>3. CASE Receive
  BY <1>3 DEF Receive
<1>4. CASE ReceiveTimeout
  BY <1>4 DEF ReceiveTimeout
<1>5. CASE ReadyTimeout
  BY <1>5 DEF ReadyTimeout
<1>6. CASE Commit
  BY <1>6 DEF Commit, CanTypes, Contract, Torque
<1>7. CASE Completed
  BY <1>7 DEF Completed, Torque
<1>8. CASE Aborted
  BY <1>8 DEF Aborted, Torque
<1>9. CASE AskAbort
  BY <1>9 DEF AskAbort
<1>10. CASE GiveUp
  BY <1>10 DEF GiveUp
<1>11. CASE PollAgain
  BY <1>11 DEF PollAgain
<1>12. CASE Transmit
  BY <1>12 DEF Transmit
<1>13. CASE TransmitFails
  BY <1>13 DEF TransmitFails
<1>14. CASE OtherSent
  BY <1>14 DEF OtherSent
<1>15. CASE SetFlags
  BY <1>15 DEF SetFlags
<1>16. CASE SetAuthority
  BY <1>16 DEF SetAuthority
<1>17. CASE OperatingPoint
  BY <1>17 DEF OperatingPoint
<1>18. CASE Tick
  BY <1>18 DEF Tick
<1>19. CASE UNCHANGED vars
  BY <1>19
<1> QED
  BY <1>1, <1>2, <1>3, <1>4, <1>5, <1>6, <1>7, <1>8, <1>9, <1>10, <1>11,
     <1>12, <1>13, <1>14, <1>15, <1>16, <1>17, <1>18, <1>19 DEF Next

LEMMA AckTyped == TypeOK /\ [Next]_vars => AckTypes'
<1> SUFFICES ASSUME TypeOK, [Next]_vars PROVE AckTypes'
  OBVIOUS
<1> USE TorqueAssumption, TimeAssumption, CountAssumption DEF TypeOK,
     AckTypes, vars, appsVars, canVars, wireVars, ackVars, envVars, seenVars
<1>1. CASE AppsSnapshot
  BY <1>1 DEF AppsSnapshot, Fail
<1>2. CASE AppsPublish
  BY <1>2 DEF AppsPublish, Fail
<1>3. CASE Receive
  BY <1>3 DEF Receive, Fail
<1>4. CASE ReceiveTimeout
  BY <1>4 DEF ReceiveTimeout, Fail
<1>5. CASE ReadyTimeout
  BY <1>5 DEF ReadyTimeout, Fail
<1>6. CASE Commit
  BY <1>6 DEF Commit, Fail
<1>7. CASE Completed
  BY <1>7 DEF Completed, NoteCommit, WireTypes
<1>8. CASE Aborted
  BY <1>8 DEF Aborted, Fail
<1>9. CASE AskAbort
  BY <1>9 DEF AskAbort, Fail
<1>10. CASE GiveUp
  BY <1>10 DEF GiveUp, Fail
<1>11. CASE PollAgain
  BY <1>11 DEF PollAgain, Fail
<1>12. CASE Transmit
  BY <1>12 DEF Transmit, Fail
<1>13. CASE TransmitFails
  BY <1>13 DEF TransmitFails, Fail
<1>14. CASE OtherSent
  BY <1>14 DEF OtherSent, Fail
<1>15. CASE SetFlags
  BY <1>15 DEF SetFlags, Fail
<1>16. CASE SetAuthority
  BY <1>16 DEF SetAuthority, Fail
<1>17. CASE OperatingPoint
  BY <1>17 DEF OperatingPoint, Fail
<1>18. CASE Tick
  BY <1>18 DEF Tick, Fail
<1>19. CASE UNCHANGED vars
  BY <1>19
<1> QED
  BY <1>1, <1>2, <1>3, <1>4, <1>5, <1>6, <1>7, <1>8, <1>9, <1>10, <1>11,
     <1>12, <1>13, <1>14, <1>15, <1>16, <1>17, <1>18, <1>19 DEF Next

LEMMA EnvTyped == TypeOK /\ [Next]_vars => EnvTypes'
<1> SUFFICES ASSUME TypeOK, [Next]_vars PROVE EnvTypes'
  OBVIOUS
<1> USE TorqueAssumption, TimeAssumption, CountAssumption DEF TypeOK,
     EnvTypes, vars, appsVars, canVars, wireVars, ackVars, envVars, seenVars
<1>1. CASE AppsSnapshot
  BY <1>1 DEF AppsSnapshot
<1>2. CASE AppsPublish
  BY <1>2 DEF AppsPublish
<1>3. CASE Receive
  BY <1>3 DEF Receive
<1>4. CASE ReceiveTimeout
  BY <1>4 DEF ReceiveTimeout
<1>5. CASE ReadyTimeout
  BY <1>5 DEF ReadyTimeout
<1>6. CASE Commit
  BY <1>6 DEF Commit
<1>7. CASE Completed
  BY <1>7 DEF Completed
<1>8. CASE Aborted
  BY <1>8 DEF Aborted
<1>9. CASE AskAbort
  BY <1>9 DEF AskAbort
<1>10. CASE GiveUp
  BY <1>10 DEF GiveUp
<1>11. CASE PollAgain
  BY <1>11 DEF PollAgain
<1>12. CASE Transmit
  BY <1>12 DEF Transmit
<1>13. CASE TransmitFails
  BY <1>13 DEF TransmitFails
<1>14. CASE OtherSent
  BY <1>14 DEF OtherSent
<1>15. CASE SetFlags
  BY <1>15 DEF SetFlags
<1>16. CASE SetAuthority
  BY <1>16 DEF SetAuthority
<1>17. CASE OperatingPoint
  BY <1>17 DEF OperatingPoint
<1>18. CASE Tick
  BY <1>18 DEF Tick
<1>19. CASE UNCHANGED vars
  BY <1>19
<1> QED
  BY <1>1, <1>2, <1>3, <1>4, <1>5, <1>6, <1>7, <1>8, <1>9, <1>10, <1>11,
     <1>12, <1>13, <1>14, <1>15, <1>16, <1>17, <1>18, <1>19 DEF Next

LEMMA SeenTyped == TypeOK /\ [Next]_vars => SeenTypes'
<1> SUFFICES ASSUME TypeOK, [Next]_vars PROVE SeenTypes'
  OBVIOUS
<1> USE TorqueAssumption, TimeAssumption, CountAssumption DEF TypeOK,
     SeenTypes, vars, appsVars, canVars, wireVars, ackVars, envVars, seenVars
<1>1. CASE AppsSnapshot
  BY <1>1 DEF AppsSnapshot, Fail, Observe
<1>2. CASE AppsPublish
  BY <1>2 DEF AppsPublish, Fail, Observe
<1>3. CASE Receive
  BY <1>3 DEF Receive, Fail, Observe
<1>4. CASE ReceiveTimeout
  BY <1>4 DEF ReceiveTimeout, Fail, Observe
<1>5. CASE ReadyTimeout
  BY <1>5 DEF ReadyTimeout, Fail, Observe
<1>6. CASE Commit
  BY <1>6 DEF Commit, Fail, Observe
<1>7. CASE Completed
  BY <1>7 DEF Completed, Fail, Observe
<1>8. CASE Aborted
  BY <1>8 DEF Aborted, Fail, Observe
<1>9. CASE AskAbort
  BY <1>9 DEF AskAbort, Fail, Observe
<1>10. CASE GiveUp
  BY <1>10 DEF GiveUp, Fail, Observe
<1>11. CASE PollAgain
  BY <1>11 DEF PollAgain, Fail, Observe
<1>12. CASE Transmit
  BY <1>12 DEF Transmit, WireTypes
<1>13. CASE TransmitFails
  BY <1>13 DEF TransmitFails, Fail, Observe
<1>14. CASE OtherSent
  BY <1>14 DEF OtherSent, Fail, Observe
<1>15. CASE SetFlags
  BY <1>15 DEF SetFlags, Fail, Observe
<1>16. CASE SetAuthority
  BY <1>16 DEF SetAuthority, Fail, Observe
<1>17. CASE OperatingPoint
  BY <1>17 DEF OperatingPoint, Fail, Observe
<1>18. CASE Tick
  BY <1>18 DEF Tick, Counted, Lesser, ExcessBound
<1>19. CASE UNCHANGED vars
  BY <1>19
<1> QED
  BY <1>1, <1>2, <1>3, <1>4, <1>5, <1>6, <1>7, <1>8, <1>9, <1>10, <1>11,
     <1>12, <1>13, <1>14, <1>15, <1>16, <1>17, <1>18, <1>19 DEF Next

LEMMA TypeStep == TypeOK /\ [Next]_vars => TypeOK'
  BY AppsTyped, QueueTyped, CanTyped, WireTyped, AckTyped, EnvTyped, SeenTyped
  DEF TypeOK

(* The way of a command.                                                   *)

LEMMA TimeStep == IndInv /\ [Next]_vars => TimeKept'
<1> SUFFICES ASSUME IndInv, [Next]_vars PROVE TimeKept'
  OBVIOUS
<1> USE TimeAssumption DEF IndInv, TypeOK, CanTypes, TimeKept, Waiting,
     StartReady, BackToReceive, Fail, vars, appsVars, canVars, wireVars,
     ackVars, envVars, seenVars
<1>1. CASE AppsSnapshot
  BY <1>1 DEF AppsSnapshot
<1>2. CASE AppsPublish
  BY <1>2 DEF AppsPublish
<1>3. CASE Receive
  BY <1>3 DEF Receive
<1>4. CASE ReceiveTimeout
  BY <1>4 DEF ReceiveTimeout
<1>5. CASE ReadyTimeout
  BY <1>5 DEF ReadyTimeout
<1>6. CASE Commit
  BY <1>6 DEF Commit
<1>7. CASE Completed
  BY <1>7 DEF Completed
<1>8. CASE Aborted
  BY <1>8 DEF Aborted
<1>9. CASE AskAbort
  BY <1>9 DEF AskAbort
<1>10. CASE GiveUp
  BY <1>10 DEF GiveUp
<1>11. CASE PollAgain
  BY <1>11 DEF PollAgain
<1>12. CASE Transmit
  BY <1>12 DEF Transmit
<1>13. CASE TransmitFails
  BY <1>13 DEF TransmitFails
<1>14. CASE OtherSent
  BY <1>14 DEF OtherSent
<1>15. CASE SetFlags
  BY <1>15 DEF SetFlags
<1>16. CASE SetAuthority
  BY <1>16 DEF SetAuthority
<1>17. CASE OperatingPoint
  BY <1>17 DEF OperatingPoint
<1>18. CASE Tick
  <2>1. can' = can /\ canAge' = canAge + 1 /\ ~due
    BY <1>18 DEF Tick
  <2>2. Waiting => due' = TRUE
    BY <1>18 DEF Tick
  <2>3. ~Waiting => due' = FALSE
    BY <1>18 DEF Tick
  <2>4. can = "receive" => canAge < CommandWait
    BY <1>18 DEF Tick
  <2>5. can = "ready" => canAge < ReadyWait
    BY <1>18 DEF Tick
  <2>6. can = "complete" => canAge < CompleteWait
    BY <2>1
  <2>7. can = "reconcile" => canAge < Reconcile
    BY <2>1
  <2> QED
    BY <2>1, <2>2, <2>3, <2>4, <2>5, <2>6, <2>7
<1>19. CASE UNCHANGED vars
  BY <1>19
<1> QED
  BY <1>1, <1>2, <1>3, <1>4, <1>5, <1>6, <1>7, <1>8, <1>9, <1>10, <1>11,
     <1>12, <1>13, <1>14, <1>15, <1>16, <1>17, <1>18, <1>19 DEF Next

LEMMA NewestStep == IndInv /\ [Next]_vars => ReadyIsNewest'
<1> SUFFICES ASSUME IndInv, [Next]_vars PROVE ReadyIsNewest'
  OBVIOUS
<1> USE TimeAssumption DEF IndInv, TypeOK, ReadyIsNewest, CanSleeps,
     StartReady, BackToReceive, Fail, vars, appsVars, canVars, wireVars,
     ackVars, envVars, seenVars
<1>1. CASE AppsSnapshot
  BY <1>1 DEF AppsSnapshot
<1>2. CASE AppsPublish
  BY <1>2 DEF AppsPublish
<1>3. CASE Receive
  BY <1>3 DEF Receive
<1>4. CASE ReceiveTimeout
  BY <1>4 DEF ReceiveTimeout
<1>5. CASE ReadyTimeout
  BY <1>5 DEF ReadyTimeout
<1>6. CASE Commit
  BY <1>6 DEF Commit
<1>7. CASE Completed
  BY <1>7 DEF Completed
<1>8. CASE Aborted
  BY <1>8 DEF Aborted
<1>9. CASE AskAbort
  BY <1>9 DEF AskAbort
<1>10. CASE GiveUp
  BY <1>10 DEF GiveUp
<1>11. CASE PollAgain
  BY <1>11 DEF PollAgain
<1>12. CASE Transmit
  BY <1>12 DEF Transmit
<1>13. CASE TransmitFails
  BY <1>13 DEF TransmitFails
<1>14. CASE OtherSent
  BY <1>14 DEF OtherSent
<1>15. CASE SetFlags
  BY <1>15 DEF SetFlags
<1>16. CASE SetAuthority
  BY <1>16 DEF SetAuthority
<1>17. CASE OperatingPoint
  BY <1>17 DEF OperatingPoint
<1>18. CASE Tick
  BY <1>18 DEF Tick
<1>19. CASE UNCHANGED vars
  BY <1>19
<1> QED
  BY <1>1, <1>2, <1>3, <1>4, <1>5, <1>6, <1>7, <1>8, <1>9, <1>10, <1>11,
     <1>12, <1>13, <1>14, <1>15, <1>16, <1>17, <1>18, <1>19 DEF Next

LEMMA OwnedStep == IndInv /\ [Next]_vars => WireOwned'
<1> SUFFICES ASSUME IndInv, [Next]_vars PROVE WireOwned'
  OBVIOUS
<1> USE TimeAssumption DEF IndInv, TypeOK, CanTypes, WireTypes, TimeKept,
     WireOwned, Waiting, StartReady, BackToReceive, Fail, MailboxReady,
     vars, appsVars, canVars, wireVars, ackVars, envVars, seenVars
<1>1. CASE AppsSnapshot
  BY <1>1 DEF AppsSnapshot
<1>2. CASE AppsPublish
  BY <1>2 DEF AppsPublish
<1>3. CASE Receive
  BY <1>3 DEF Receive
<1>4. CASE ReceiveTimeout
  BY <1>4 DEF ReceiveTimeout
<1>5. CASE ReadyTimeout
  BY <1>5 DEF ReadyTimeout
<1>6. CASE Commit
  BY <1>6 DEF Commit
<1>7. CASE Completed
  BY <1>7 DEF Completed
<1>8. CASE Aborted
  BY <1>8 DEF Aborted
<1>9. CASE AskAbort
  BY <1>9 DEF AskAbort
<1>10. CASE GiveUp
  BY <1>10 DEF GiveUp
<1>11. CASE PollAgain
  BY <1>11 DEF PollAgain
<1>12. CASE Transmit
  BY <1>12 DEF Transmit
<1>13. CASE TransmitFails
  BY <1>13 DEF TransmitFails
<1>14. CASE OtherSent
  BY <1>14 DEF OtherSent
<1>15. CASE SetFlags
  BY <1>15 DEF SetFlags
<1>16. CASE SetAuthority
  BY <1>16 DEF SetAuthority
<1>17. CASE OperatingPoint
  BY <1>17 DEF OperatingPoint
<1>18. CASE Tick
  BY <1>18 DEF Tick
<1>19. CASE UNCHANGED vars
  BY <1>19
<1> QED
  BY <1>1, <1>2, <1>3, <1>4, <1>5, <1>6, <1>7, <1>8, <1>9, <1>10, <1>11,
     <1>12, <1>13, <1>14, <1>15, <1>16, <1>17, <1>18, <1>19 DEF Next

LEMMA CountsStep == IndInv /\ [Next]_vars => Counts'
<1> SUFFICES ASSUME IndInv, [Next]_vars PROVE Counts'
  OBVIOUS
<1> USE TimeAssumption DEF IndInv, TypeOK, CanTypes, WireTypes, EnvTypes,
     AckTypes, SeenTypes, Torque, TimeKept, WireOwned, Counts, Waiting,
     Limit, Elapsed, StartReady, BackToReceive, Fail, Observe, Counted,
     Lesser, vars, appsVars, canVars, wireVars, ackVars, envVars, seenVars
<1>1. CASE AppsSnapshot
  BY <1>1 DEF AppsSnapshot
<1>2. CASE AppsPublish
  BY <1>2 DEF AppsPublish
<1>3. CASE Receive
  BY <1>3 DEF Receive
<1>4. CASE ReceiveTimeout
  BY <1>4 DEF ReceiveTimeout
<1>5. CASE ReadyTimeout
  BY <1>5 DEF ReadyTimeout
<1>6. CASE Commit
  BY <1>6 DEF Commit
<1>7. CASE Completed
  BY <1>7 DEF Completed
<1>8. CASE Aborted
  BY <1>8 DEF Aborted
<1>9. CASE AskAbort
  BY <1>9 DEF AskAbort
<1>10. CASE GiveUp
  BY <1>10 DEF GiveUp
<1>11. CASE PollAgain
  BY <1>11 DEF PollAgain
<1>12. CASE Transmit
  BY <1>12 DEF Transmit
<1>13. CASE TransmitFails
  BY <1>13 DEF TransmitFails
<1>14. CASE OtherSent
  BY <1>14 DEF OtherSent
<1>15. CASE SetFlags
  BY <1>15 DEF SetFlags
<1>16. CASE SetAuthority
  BY <1>16 DEF SetAuthority
<1>17. CASE OperatingPoint
  BY <1>17 DEF OperatingPoint
<1>18. CASE Tick
  BY <1>18 DEF Tick
<1>19. CASE UNCHANGED vars
  BY <1>19
<1> QED
  BY <1>1, <1>2, <1>3, <1>4, <1>5, <1>6, <1>7, <1>8, <1>9, <1>10, <1>11,
     <1>12, <1>13, <1>14, <1>15, <1>16, <1>17, <1>18, <1>19 DEF Next

LEMMA CommittedStep == IndInv /\ [Next]_vars => Committed'
<1> SUFFICES ASSUME IndInv, [Next]_vars PROVE Committed'
  OBVIOUS
<1> USE TimeAssumption DEF IndInv, TypeOK, CanTypes, WireTypes, EnvTypes,
     AckTypes, SeenTypes, Torque, TimeKept, WireOwned, Counts, Waiting,
     Limit, Elapsed, StartReady, BackToReceive, Fail, Observe, Counted,
     Lesser, Committed, ExcessBound, Verified, Fits, vars, appsVars,
     canVars, wireVars, ackVars, envVars, seenVars
<1>1. CASE AppsSnapshot
  BY <1>1 DEF AppsSnapshot
<1>2. CASE AppsPublish
  BY <1>2 DEF AppsPublish
<1>3. CASE Receive
  BY <1>3 DEF Receive
<1>4. CASE ReceiveTimeout
  BY <1>4 DEF ReceiveTimeout
<1>5. CASE ReadyTimeout
  BY <1>5 DEF ReadyTimeout
<1>6. CASE Commit
  <2>1. can' = "complete" /\ canAge' = 0 /\ Elapsed' = 0 /\ Limit' = Limit
        /\ shut' = shut /\ excess' = excess /\ inverter' = inverter
    BY <1>6 DEF Commit
  <2>2. CASE frame' = 0
    BY <2>1, <2>2
  <2>3. CASE frame' # 0
    <3>1. Verified(request) /\ frame' = request.torque
      BY <1>6, <2>3 DEF Commit
    <3>2. frame' \in Torque /\ frame' <= dcl
      BY <3>1, TorqueAssumption DEF Contract
    <3>3. Limit = dcl /\ Limit > 0
      BY <2>3, <3>1, <3>2
    <3> QED
      BY <2>1, <3>2, <3>3
  <2> QED
    BY <2>2, <2>3
<1>7. CASE Completed
  BY <1>7 DEF Completed
<1>8. CASE Aborted
  BY <1>8 DEF Aborted
<1>9. CASE AskAbort
  BY <1>9 DEF AskAbort
<1>10. CASE GiveUp
  BY <1>10 DEF GiveUp
<1>11. CASE PollAgain
  BY <1>11 DEF PollAgain
<1>12. CASE Transmit
  BY <1>12 DEF Transmit
<1>13. CASE TransmitFails
  BY <1>13 DEF TransmitFails
<1>14. CASE OtherSent
  BY <1>14 DEF OtherSent
<1>15. CASE SetFlags
  BY <1>15 DEF SetFlags
<1>16. CASE SetAuthority
  BY <1>16 DEF SetAuthority
<1>17. CASE OperatingPoint
  BY <1>17 DEF OperatingPoint
<1>18. CASE Tick
  BY <1>18 DEF Tick
<1>19. CASE UNCHANGED vars
  BY <1>19
<1> QED
  BY <1>1, <1>2, <1>3, <1>4, <1>5, <1>6, <1>7, <1>8, <1>9, <1>10, <1>11,
     <1>12, <1>13, <1>14, <1>15, <1>16, <1>17, <1>18, <1>19 DEF Next

LEMMA ExcessStep == IndInv /\ [Next]_vars => ExcessSoFar'
<1> SUFFICES ASSUME IndInv, [Next]_vars PROVE ExcessSoFar'
  OBVIOUS
<1> USE TimeAssumption DEF IndInv, TypeOK, CanTypes, WireTypes, EnvTypes,
     AckTypes, SeenTypes, Torque, TimeKept, WireOwned, Counts, Waiting,
     Limit, Elapsed, StartReady, BackToReceive, Fail, Observe, Counted,
     Lesser, Committed, ExcessSoFar, vars, appsVars, canVars, wireVars,
     ackVars, envVars, seenVars
<1>1. CASE AppsSnapshot
  BY <1>1 DEF AppsSnapshot
<1>2. CASE AppsPublish
  BY <1>2 DEF AppsPublish
<1>3. CASE Receive
  BY <1>3 DEF Receive
<1>4. CASE ReceiveTimeout
  BY <1>4 DEF ReceiveTimeout
<1>5. CASE ReadyTimeout
  BY <1>5 DEF ReadyTimeout
<1>6. CASE Commit
  BY <1>6 DEF Commit
<1>7. CASE Completed
  BY <1>7 DEF Completed
<1>8. CASE Aborted
  BY <1>8 DEF Aborted
<1>9. CASE AskAbort
  BY <1>9 DEF AskAbort
<1>10. CASE GiveUp
  BY <1>10 DEF GiveUp
<1>11. CASE PollAgain
  BY <1>11 DEF PollAgain
<1>12. CASE Transmit
  BY <1>12 DEF Transmit
<1>13. CASE TransmitFails
  BY <1>13 DEF TransmitFails
<1>14. CASE OtherSent
  BY <1>14 DEF OtherSent
<1>15. CASE SetFlags
  BY <1>15 DEF SetFlags
<1>16. CASE SetAuthority
  BY <1>16 DEF SetAuthority
<1>17. CASE OperatingPoint
  BY <1>17 DEF OperatingPoint
<1>18. CASE Tick
  BY <1>18 DEF Tick
<1>19. CASE UNCHANGED vars
  BY <1>19
<1> QED
  BY <1>1, <1>2, <1>3, <1>4, <1>5, <1>6, <1>7, <1>8, <1>9, <1>10, <1>11,
     <1>12, <1>13, <1>14, <1>15, <1>16, <1>17, <1>18, <1>19 DEF Next

LEMMA InitInv == Init => IndInv
<1> SUFFICES ASSUME Init PROVE IndInv
  OBVIOUS
<1> USE TorqueAssumption, TimeAssumption, CountAssumption DEF Init
<1>1. TypeOK
  <2>1. /\ overrunFault \in BOOLEAN /\ due \in BOOLEAN /\ other \in BOOLEAN
        /\ uncertain \in BOOLEAN /\ settling \in BOOLEAN
        /\ txFault \in BOOLEAN /\ flags \in BOOLEAN
    BY Zenon
  <2>2. AppsTypes
    BY <2>1, NoWorkTyped DEF AppsTypes, Torque
  <2>3. QueueTypes /\ CanTypes
    BY <2>1, DisableTyped DEF QueueTypes, CanTypes
  <2>4. 0 \in Torque
    BY DEF Torque
  <2>5. WireTypes /\ AckTypes
    BY <2>1, <2>4, Zenon DEF WireTypes, AckTypes
  <2>6. EnvTypes /\ SeenTypes
    BY <2>1, <2>4 DEF EnvTypes, SeenTypes
  <2> QED
    BY <2>2, <2>3, <2>5, <2>6 DEF TypeOK
<1>2. TimeKept /\ ReadyIsNewest /\ WireOwned /\ Counts
  BY DEF TimeKept, ReadyIsNewest, WireOwned, Counts, Waiting, Limit
<1>3. Committed /\ ExcessSoFar
  BY DEF Committed, ExcessSoFar, Waiting
<1> QED
  BY <1>1, <1>2, <1>3 DEF IndInv

\* The invariant of the path: types, the times of the CAN task, who owns the
\* mailbox, and what the counts of shut and excess owe to the command under
\* way.
THEOREM IndInvariant == Spec => []IndInv
<1>1. IndInv /\ [Next]_vars => IndInv'
  BY TypeStep, TimeStep, NewestStep, OwnedStep, CountsStep, CommittedStep,
     ExcessStep DEF IndInv
<1> QED
  BY InitInv, <1>1, PTL DEF Spec

\* Contracts, counters and states of both tasks keep their types: the unlock
\* and overrun counters of apps_task.c never leave their ranges.
THEOREM TypeCorrect == Spec => []TypeOK
<1>1. IndInv => TypeOK
  BY DEF IndInv
<1> QED
  BY <1>1, IndInvariant, PTL

\* canbus_task.c never sends a torque while a newer contract is queued.
THEOREM NewestWinsHolds == Spec => NewestWins
<1>1. IndInv /\ [Next]_vars => [Commits /\ frame' > 0 => queue = {}]_vars
  <2> SUFFICES ASSUME IndInv, Next, Commits PROVE queue = {}
    OBVIOUS
  <2>1. Commit
    BY DEF Next, Commits, AppsSnapshot, AppsPublish, Receive, ReceiveTimeout,
       ReadyTimeout, Completed, Aborted, AskAbort, GiveUp, PollAgain,
       Transmit, TransmitFails, OtherSent, SetFlags, SetAuthority,
       OperatingPoint, Tick, Fail, wireVars
  <2> QED
    BY <2>1 DEF Commit, IndInv, ReadyIsNewest
<1> QED
  BY <1>1, IndInvariant, PTL DEF Spec, NewestWins

\* Only the transmission of the frame waited for, or one whose outcome is
\* unknown, raises the torque of the inverter.
THEOREM NoLateTorqueHolds == Spec => NoLateTorque
<1> DEFINE Late == inverter' > inverter =>
                     shut <= CompleteWait + Reconcile \/ uncertain
<1>1. IndInv /\ [Next]_vars => [Late]_vars
  <2> SUFFICES ASSUME IndInv, Next, inverter' > inverter, ~uncertain
               PROVE  shut <= CompleteWait + Reconcile
    BY DEF IndInv, TypeOK, WireTypes
  <2>0. inverter \in Nat
    BY TorqueAssumption DEF IndInv, TypeOK, SeenTypes, Torque
  <2>1. Transmit
    BY <2>0 DEF Next, AppsSnapshot, AppsPublish, Receive, ReceiveTimeout,
       ReadyTimeout, Commit, Completed, Aborted, AskAbort, GiveUp, PollAgain,
       TransmitFails, OtherSent, SetFlags, SetAuthority,
       OperatingPoint, Tick, seenVars
  <2>2. Waiting
    BY <2>1 DEF Transmit, IndInv, WireOwned
  <2>3. frame > 0
    BY <2>0, <2>1, TorqueAssumption
    DEF Transmit, IndInv, TypeOK, WireTypes, Torque
  <2>4. shut <= Elapsed
    BY <2>2, <2>3 DEF IndInv, Committed
  <2>5. Elapsed <= CompleteWait + Reconcile /\ Elapsed \in Nat
    BY <2>2, TimeAssumption
    DEF IndInv, TypeOK, CanTypes, TimeKept, Waiting, Elapsed
  <2> QED
    BY <2>4, <2>5, TimeAssumption DEF IndInv, TypeOK, SeenTypes
<1> QED
  BY <1>1, IndInvariant, PTL DEF Spec, NoLateTorque

\* However late the tasks and frames, the inverter follows a fallen limit
\* within the waits of one command in flight and of the next.
THEOREM ExcessIsBriefHolds == Spec => []ExcessIsBrief
<1>1. IndInv => ExcessIsBrief
  <2> SUFFICES ASSUME IndInv PROVE excess <= ExcessBound
    BY DEF ExcessIsBrief
  <2> USE TimeAssumption
      DEF IndInv, TypeOK, CanTypes, SeenTypes, TimeKept, ExcessSoFar, Waiting,
          Elapsed, ExcessBound
  <2>1. CASE can = "receive"
    BY <2>1
  <2>2. CASE can = "ready"
    BY <2>2
  <2>3. CASE can = "complete"
    BY <2>3
  <2>4. CASE can = "reconcile"
    BY <2>4
  <2> QED
    BY <2>1, <2>2, <2>3, <2>4
<1> QED
  BY <1>1, IndInvariant, PTL
=============================================================================
