---------------------------- MODULE DataLoggerProofs ----------------------------
(***************************************************************************)
(* Proofs about the data logger for all sessions, sync periods and error   *)
(* limits: its types, for how long a session may lose what it writes in    *)
(* every cycle, that a new session overwrites nothing, that a stop is not  *)
(* forgotten, and that a drive once found without a card stays down.       *)
(*                                                                         *)
(* None of them is inductive.  The invariant adds who holds the mutex      *)
(* where (Control), what becomes of a request the user made last (Owed),   *)
(* and how far the time since the last sync and the errors in a row have   *)
(* counted for what was lost (StaleCount, DeadCount).                      *)
(***************************************************************************)
EXTENDS DataLogger, TLAPS

\* Where the logger is, what it holds and what it has stopped.
Control ==
  /\ pc \in {"open", "create", "header"} => ~active
  /\ pc = "stop" => ~active /\ ~autoStart
  /\ pc = "stop" <=> stopping # "none"
  /\ owner = "logger" <=> pc \in {"create", "header"}
  /\ pc = "create" => created # All
  /\ pc \in {"create", "header"} => drive = "up"
  /\ active => drive # "untried"

\* After a stop no other request waits, and a new session under way yields to it.
Owed ==
  owed => /\ request \in {"none", "stop"}
          /\ stopping = "new" => request = "stop"

\* The errors in a row since the sync is due.
FailedSyncs == IF sinceSync = SyncPeriod THEN errorCycles ELSE 0

\* No sync works on stale handles: the time since the last one goes on, and
\* then every cycle is an error.
StaleCount ==
  /\ ~active => staleFor = 0
  /\ active => /\ ~stale => staleFor = 0
               /\ staleFor <= sinceSync + FailedSyncs

Buffered(h) == \E f \in File : h[f].change = "buffered"

\* Until a write fits in a sector buffer, every cycle in the row is an error.
\* The buffer that then waits for the disk lets no sync work, and syncs are
\* counted as for a stale volume.
DeadCount ==
  /\ ~active => deadFor = 0
  /\ deadFor > 0 =>
       /\ ~Works
       /\ \/ Buffered(file) /\ deadFor <= MaxErrors - 1 + sinceSync + FailedSyncs
          \/ deadFor <= errorCycles

IndInv ==
  /\ TypeOK
  /\ Control
  /\ Owed
  /\ StopNotForgotten
  /\ SessionIsNew
  /\ StaleCount
  /\ DeadCount

-------------------------------------------------------------------------------
(* What the operators of the model give.                                   *)

Handle == [change : Change, err : BOOLEAN]

LEMMA Numbers ==
  /\ Sessions \in Nat \ {0} /\ MaxErrors \in Nat \ {0}
  /\ SyncPeriod \in Nat /\ RetryPeriod \in Nat /\ Budget \in Nat
  /\ All = 4 /\ 0 \in Index
BY LoggerAssumption DEF All, Index

\* With no card, a write that succeeds leaves data in the buffer, and data that
\* is in the buffer stays there.
LEMMA WriteResult ==
  ASSUME TypeOK, NEW f \in File, NEW w \in Write(f)
  PROVE  /\ w.file \in Handle /\ w.failed \in BOOLEAN
         /\ ~Works /\ ~w.failed => w.file.change = "buffered"
         /\ ~Works /\ file[f].change = "buffered" => w.file.change = "buffered"
<1>1. file[f] \in Handle
  BY DEF TypeOK, Handle
<1>2. CASE ~Valid \/ file[f].err
  <2>1. w = [file |-> file[f], failed |-> TRUE]
    BY <1>2 DEF Write
  <2>2. w.file = file[f] /\ w.failed = TRUE
    BY <2>1
  <2>3. QED
    BY <1>1, <2>2 DEF Handle
<1>3. CASE ~(~Valid \/ file[f].err)
  <2>1. \/ \E c \in IF Works THEN {"stored", "buffered"} ELSE {"buffered"} :
              w = [file |-> [file[f] EXCEPT !.change = c], failed |-> FALSE]
        \/ \E c \in IF Works THEN {} ELSE {file[f].change} \union Refilled(f) :
              w = [file |-> [change |-> c, err |-> TRUE], failed |-> TRUE]
    BY <1>3 DEF Write
  <2>2. CASE \E c \in IF Works THEN {"stored", "buffered"} ELSE {"buffered"} :
               w = [file |-> [file[f] EXCEPT !.change = c], failed |-> FALSE]
    <3>1. PICK c \in IF Works THEN {"stored", "buffered"} ELSE {"buffered"} :
            w = [file |-> [file[f] EXCEPT !.change = c], failed |-> FALSE]
      BY <2>2
    <3>2. w.file = [file[f] EXCEPT !.change = c] /\ w.failed = FALSE
      <4> DEFINE good == [file[f] EXCEPT !.change = c]
      <4>1. w = [file |-> good, failed |-> FALSE]
        BY <3>1
      <4> HIDE DEF good
      <4>2. w.file = good /\ w.failed = FALSE
        BY <4>1
      <4>3. QED
        BY <4>2 DEF good
    <3>3. c \in Change /\ (~Works => c = "buffered")
      BY DEF Change
    <3>4. QED
      BY <1>1, <3>2, <3>3 DEF Handle
  <2>3. CASE \E c \in IF Works THEN {} ELSE {file[f].change} \union Refilled(f) :
               w = [file |-> [change |-> c, err |-> TRUE], failed |-> TRUE]
    <3>1. PICK c \in IF Works THEN {} ELSE {file[f].change} \union Refilled(f) :
            w = [file |-> [change |-> c, err |-> TRUE], failed |-> TRUE]
      BY <2>3
    <3>2. w.file = [change |-> c, err |-> TRUE] /\ w.failed = TRUE
      BY <3>1
    <3>3. ~Works /\ c \in {file[f].change, "buffered"}
      BY DEF Refilled
    <3>4. file[f].change \in Change
      BY <1>1 DEF Handle
    <3>5. w.file \in Handle /\ w.file.change = c /\ c \in Change
      BY <3>2, <3>3, <3>4 DEF Handle, Change
    <3>6. QED
      BY <3>2, <3>3, <3>5
  <2>4. QED
    BY <2>1, <2>2, <2>3
<1>4. QED
  BY <1>2, <1>3

LEMMA IdleResult ==
  ASSUME TypeOK, NEW f \in File, NEW w \in Idle(f)
  PROVE  w.file \in Handle /\ w.file = file[f] /\ w.failed = FALSE
BY DEF Idle, TypeOK, Handle

\* A sync fails on a stale volume, and with no card on what is in a buffer, which
\* it leaves there.
LEMMA SyncFails ==
  ASSUME NEW h \in [File -> Handle]
  PROVE  /\ ~Works /\ Buffered(h) => ~Syncs(h)
         /\ stale => ~Syncs(h)
BY DEF Syncs, Valid, Buffered

LEMMA SyncResult ==
  ASSUME NEW h \in [File -> Handle], NEW g \in Synced(h)
  PROVE  /\ g \in [File -> Handle]
         /\ ~Works /\ Buffered(h) => Buffered(g)
<1>1. CASE ~Valid
  BY <1>1 DEF Synced
<1>2. CASE Valid
  <2>1. PICK done \in Cleared(h) : g = Without(h, done)
    BY <1>2 DEF Synced
  <2>2. \A f \in File : [h[f] EXCEPT !.change = "none"] \in Handle
    BY DEF Handle, Change
  <2>3. g \in [File -> Handle]
    BY <2>1, <2>2 DEF Without
  <2>4. ASSUME ~Works, NEW f \in File, h[f].change = "buffered"
        PROVE  g[f] = h[f]
    BY <2>1, <2>4 DEF Without, Cleared
  <2>5. QED
    BY <2>3, <2>4 DEF Buffered
<1>3. QED
  BY <1>1, <1>2

\* What is needed of the types, one by one.
LEMMA CountTypes ==
  ASSUME TypeOK
  PROVE  /\ sinceSync \in 0 .. SyncPeriod /\ errorCycles \in 0 .. MaxErrors - 1
         /\ deadFor \in Nat /\ staleFor \in Nat
         /\ FailedSyncs \in 0 .. MaxErrors - 1
BY Numbers DEF TypeOK, FailedSyncs

\* The same in the next state.
LEMMA NextTypes ==
  ASSUME TypeOK'
  PROVE  sinceSync' \in 0 .. SyncPeriod /\ errorCycles' \in 0 .. MaxErrors - 1
BY DEF TypeOK

-------------------------------------------------------------------------------
LEMMA InitInvariant == Init => IndInv
<1> SUFFICES ASSUME Init PROVE IndInv
  OBVIOUS
<1>1. TypeOK
  <2>1. file \in [File -> [change : Change, err : BOOLEAN]]
    BY DEF Init, Clean, Change
  <2>2. disk \in [Index -> 0 .. All]
    BY Numbers DEF Init
  <2>3. /\ errorCycles \in 0 .. MaxErrors - 1
        /\ sinceSync \in 0 .. SyncPeriod /\ sinceTry \in 0 .. RetryPeriod
        /\ session \in Index /\ created \in 0 .. All
        /\ budget \in 0 .. Budget /\ deadFor \in Nat /\ staleFor \in Nat
    BY Numbers DEF Init
  <2>4. {active, filesOpen, autoStart, stale, owed} \subseteq BOOLEAN
    BY DEF Init
  <2>5. QED
    BY <2>1, <2>2, <2>3, <2>4 DEF Init, TypeOK
<1>2. Control /\ Owed /\ StopNotForgotten /\ SessionIsNew /\ StaleCount /\ DeadCount
  BY DEF Init, Control, Owed, StopNotForgotten, SessionIsNew, StaleCount, DeadCount
<1>3. QED
  BY <1>1, <1>2 DEF IndInv

\* While no session is open there is nothing to count.
LEMMA NothingCounted ==
  ASSUME active' = FALSE, deadFor' = 0, staleFor' = 0
  PROVE  StaleCount' /\ DeadCount'
BY DEF StaleCount, DeadCount

\* A step that leaves what the counts speak of alone, and brings neither the
\* card nor the files of a session back, keeps them.
LEMMA CountsKept ==
  ASSUME TypeOK, StaleCount, DeadCount, active' = active,
         UNCHANGED <<errorCycles, sinceSync, file, deadFor, staleFor>>,
         active /\ stale' = FALSE => stale = FALSE,
         active /\ Works' => Works, active /\ Valid' => Valid
  PROVE  StaleCount' /\ DeadCount'
<1>1. FailedSyncs' = FailedSyncs
  BY DEF FailedSyncs
<1>2. StaleCount'
  BY <1>1 DEF StaleCount, TypeOK
<1>3. DeadCount'
  BY <1>1 DEF DeadCount
<1>4. QED
  BY <1>2, <1>3

-------------------------------------------------------------------------------
(* The logger.                                                             *)

LEMMA TakeRequestKeeps ==
  ASSUME IndInv, TakeRequest
  PROVE  IndInv'
<1>1. /\ pc = "request" /\ request' = "none"
      /\ autoStart' = (autoStart /\ request \in {"none", "flush"})
      /\ UNCHANGED <<filesOpen, counts, files, medium, owner, cli, budget, owed>>
  BY DEF TakeRequest
<1>2. \/ /\ request \in {"stop", "new"} /\ (active \/ filesOpen)
         /\ active' = FALSE /\ stopping' = request /\ pc' = "stop"
         /\ deadFor' = 0 /\ staleFor' = 0
      \/ /\ ~(request \in {"stop", "new"} /\ (active \/ filesOpen))
         /\ pc' = IF request = "new" \/ (request = "start" /\ ~active) THEN "open"
                  ELSE IF request = "flush" /\ filesOpen THEN "flush" ELSE "retry"
         /\ UNCHANGED <<active, stopping, loss>>
  <2>1. CASE request \in {"stop", "new"} /\ (active \/ filesOpen)
    BY <2>1 DEF TakeRequest, StopSession
  <2>2. CASE ~(request \in {"stop", "new"} /\ (active \/ filesOpen))
    <3>1. /\ pc' = IF request = "new" \/ (request = "start" /\ ~active) THEN "open"
                   ELSE IF request = "flush" /\ filesOpen THEN "flush" ELSE "retry"
          /\ UNCHANGED <<active, stopping, loss>>
      BY <2>2 DEF TakeRequest
    <3>2. QED
      BY <2>2, <3>1
  <2>3. QED
    BY <2>1, <2>2
<1>3. TypeOK'
  <2>1. autoStart' \in BOOLEAN
    BY <1>1
  <2>2. pc' \in {"stop", "open", "flush", "retry"} /\ active' \in BOOLEAN
        /\ stopping' \in {"none", "stop", "new", "errors"}
    BY <1>2 DEF IndInv, TypeOK
  <2>3. deadFor' \in Nat /\ staleFor' \in Nat
    <3>1. \/ deadFor' = 0 /\ staleFor' = 0
          \/ deadFor' = deadFor /\ staleFor' = staleFor
      BY <1>2 DEF loss
    <3>2. QED
      BY <3>1, CountTypes DEF IndInv
  <2>4. QED
    BY <1>1, <2>1, <2>2, <2>3 DEF IndInv, TypeOK, counts, files, medium
<1>4. Control'
  <2>1. request \in {"stop", "new"} => autoStart' = FALSE
    BY <1>1
  <2>2. QED
    BY <1>1, <1>2, <2>1 DEF IndInv, TypeOK, Control, files, medium
<1>5. Owed' /\ StopNotForgotten'
  BY <1>1, <1>2 DEF IndInv, TypeOK, Control, Owed, StopNotForgotten
<1>6. SessionIsNew'
  BY <1>1, <1>2 DEF IndInv, SessionIsNew
<1>7. StaleCount' /\ DeadCount'
  <2>1. CASE active' = FALSE /\ deadFor' = 0 /\ staleFor' = 0
    BY <2>1, NothingCounted
  <2>2. CASE UNCHANGED <<active, loss>>
    BY <1>1, <2>2, CountsKept DEF IndInv, counts, files, medium, loss, Works, Valid
  <2>3. QED
    BY <1>2, <2>1, <2>2
<1>8. QED
  BY <1>3, <1>4, <1>5, <1>6, <1>7 DEF IndInv

LEMMA StopKeeps ==
  ASSUME IndInv, Stop
  PROVE  IndInv'
<1>1. /\ pc = "stop" /\ owner = "none" /\ filesOpen' = FALSE /\ stopping' = "none"
      /\ UNCHANGED <<active, autoStart, request, counts, files, medium, owner, cli,
                     budget, owed, loss>>
  BY DEF Stop, CloseFiles
<1>2. /\ stopping = "new" => pc' = "open"
      /\ stopping = "stop" => pc' = "retry"
      /\ stopping = "errors" => pc' = "request"
  BY DEF Stop
<1>3. stopping \in {"new", "stop", "errors"}
  BY <1>1 DEF IndInv, TypeOK, Control
<1>4. TypeOK'
  BY <1>1, <1>2, <1>3 DEF IndInv, TypeOK, counts, files, medium, loss
<1>5. Control'
  BY <1>1, <1>2, <1>3 DEF IndInv, TypeOK, Control, files, medium
<1>6. Owed' /\ StopNotForgotten'
  BY <1>1, <1>2, <1>3 DEF IndInv, TypeOK, Control, Owed, StopNotForgotten
<1>7. SessionIsNew'
  BY <1>1, <1>2, <1>3 DEF IndInv, SessionIsNew
<1>8. StaleCount' /\ DeadCount'
  BY <1>1, CountsKept DEF IndInv, counts, files, medium, loss, Works, Valid, TypeOK
<1>9. QED
  BY <1>4, <1>5, <1>6, <1>7, <1>8 DEF IndInv

LEMMA StopFailsKeeps ==
  ASSUME IndInv, StopFails
  PROVE  IndInv'
<1>1. /\ pc = "stop" /\ stopping' = "none"
      /\ pc' = IF stopping = "errors" THEN "request" ELSE "retry"
      /\ UNCHANGED <<active, filesOpen, autoStart, counts, files, medium, owner, cli,
                     budget, owed, loss>>
  BY DEF StopFails
<1>2. request' = IF stopping # "errors" /\ request = "none" THEN stopping ELSE request
  BY DEF StopFails, Requeue
<1>3. stopping \in {"new", "stop", "errors"}
  BY <1>1 DEF IndInv, TypeOK, Control
<1>4. TypeOK'
  BY <1>1, <1>2, <1>3 DEF IndInv, TypeOK, counts, files, medium, loss
<1>5. Control'
  BY <1>1, <1>2, <1>3 DEF IndInv, TypeOK, Control, files, medium
<1>6. Owed' /\ StopNotForgotten'
  BY <1>1, <1>2, <1>3 DEF IndInv, TypeOK, Control, Owed, StopNotForgotten
<1>7. SessionIsNew'
  BY <1>1, <1>3 DEF IndInv, SessionIsNew
<1>8. StaleCount' /\ DeadCount'
  BY <1>1, CountsKept DEF IndInv, counts, files, medium, loss, Works, Valid, TypeOK
<1>9. QED
  BY <1>4, <1>5, <1>6, <1>7, <1>8 DEF IndInv

\* The automatic start, and a cycle without writing.
LEMMA RetryKeeps ==
  ASSUME IndInv, Retry
  PROVE  IndInv'
<1>1. /\ pc = "retry"
      /\ pc' = "cycle" \/ (pc' = "open" /\ autoStart /\ ~active)
      /\ sinceTry' = sinceTry \/ sinceTry' = 0
      /\ UNCHANGED <<stopping, active, filesOpen, autoStart, request, errorCycles, sinceSync,
                     files, medium, owner, cli, budget, owed, loss>>
  BY DEF Retry
<1>2. TypeOK'
  BY <1>1, Numbers DEF IndInv, TypeOK, files, medium, loss
<1>3. Control'
  BY <1>1 DEF IndInv, TypeOK, Control, files, medium
<1>4. Owed' /\ StopNotForgotten'
  BY <1>1 DEF IndInv, TypeOK, Control, Owed, StopNotForgotten
<1>5. SessionIsNew'
  BY <1>1 DEF IndInv, SessionIsNew
<1>6. StaleCount' /\ DeadCount'
  BY <1>1, CountsKept DEF IndInv, files, medium, loss, Works, Valid, TypeOK
<1>7. QED
  BY <1>2, <1>3, <1>4, <1>5, <1>6 DEF IndInv

LEMMA SkipCycleKeeps ==
  ASSUME IndInv, SkipCycle
  PROVE  IndInv'
<1>1. /\ pc = "cycle" /\ pc' = "request"
      /\ sinceSync' = Least(SyncPeriod, sinceSync + 1)
      /\ sinceTry' = Least(RetryPeriod, sinceTry + 1)
      /\ UNCHANGED <<stopping, active, filesOpen, autoStart, request, errorCycles, files,
                     medium, owner, cli, budget, owed, loss>>
  BY DEF SkipCycle
<1>2. sinceSync' \in 0 .. SyncPeriod /\ sinceTry' \in 0 .. RetryPeriod
  BY <1>1, Numbers DEF IndInv, TypeOK, Least
<1>3. TypeOK'
  BY <1>1, <1>2 DEF IndInv, TypeOK, files, medium, loss
<1>4. Control' /\ Owed' /\ StopNotForgotten' /\ SessionIsNew'
  BY <1>1 DEF IndInv, TypeOK, Control, Owed, StopNotForgotten, SessionIsNew, files, medium
<1>5. UNCHANGED <<active, file, stale, card, drive, deadFor, staleFor, errorCycles>>
  BY <1>1 DEF files, medium, loss
<1>6. ASSUME NEW n \in Nat, NEW m \in Nat, n <= m + sinceSync + FailedSyncs
      PROVE  n <= m + sinceSync' + FailedSyncs'
  BY <1>1, <1>5, <1>6, CountTypes, Numbers DEF IndInv, Least, FailedSyncs
<1>7. StaleCount'
  <2>1. active => staleFor <= sinceSync' + FailedSyncs'
    <3>1. active => staleFor <= 0 + sinceSync + FailedSyncs
      BY CountTypes, Numbers DEF IndInv, StaleCount
    <3>2. active => staleFor <= 0 + sinceSync' + FailedSyncs'
      BY <1>6, <3>1, CountTypes DEF IndInv
    <3>3. QED
      BY <1>3, <1>5, <3>2, CountTypes, NextTypes, Numbers DEF IndInv, FailedSyncs
  <2>2. QED
    BY <1>5, <2>1 DEF IndInv, StaleCount
<1>8. DeadCount'
  <2>1. Works' = Works /\ (Buffered(file)' <=> Buffered(file))
    BY <1>5 DEF Works, Buffered
  <2>2. deadFor <= MaxErrors - 1 + sinceSync + FailedSyncs
          => deadFor <= MaxErrors - 1 + sinceSync' + FailedSyncs'
    <3>1. MaxErrors - 1 \in Nat /\ deadFor \in Nat
      BY CountTypes, Numbers DEF IndInv
    <3>2. QED
      BY <1>6, <3>1
  <2>3. QED
    BY <1>5, <2>1, <2>2 DEF IndInv, DeadCount
<1>9. QED
  BY <1>3, <1>4, <1>7, <1>8 DEF IndInv

LEMMA FlushKeeps ==
  ASSUME IndInv, Flush
  PROVE  IndInv'
<1>1. /\ pc = "flush" /\ pc' = "retry"
      /\ UNCHANGED <<stopping, active, filesOpen, autoStart, request, errorCycles, sinceTry,
                     session, created, stale, medium, owner, cli, budget, owed, loss>>
  BY DEF Flush
<1>2. CASE UNCHANGED <<file, sinceSync>>
  <2>1. TypeOK'
    BY <1>1, <1>2 DEF IndInv, TypeOK, medium, loss
  <2>2. Control' /\ Owed' /\ StopNotForgotten' /\ SessionIsNew'
    BY <1>1 DEF IndInv, TypeOK, Control, Owed, StopNotForgotten, SessionIsNew, medium
  <2>3. StaleCount' /\ DeadCount'
    BY <1>1, <1>2, CountsKept DEF IndInv, medium, loss, Works, Valid
  <2>4. QED
    BY <2>1, <2>2, <2>3 DEF IndInv
<1>3. CASE \E w \in Write("raw") \union Idle("raw") :
             LET h == [file EXCEPT !["raw"] = w.file]
             IN  file' \in Synced(h) /\ sinceSync' = SinceSync(h)
  <2>1. PICK w \in Write("raw") \union Idle("raw") :
          LET h == [file EXCEPT !["raw"] = w.file]
          IN  file' \in Synced(h) /\ sinceSync' = SinceSync(h)
    BY <1>3
  <2> DEFINE h == [file EXCEPT !["raw"] = w.file]
  <2>2. file' \in Synced(h) /\ sinceSync' = SinceSync(h)
    BY <2>1
  <2>3. /\ w.file \in Handle
        /\ ~Works /\ file["raw"].change = "buffered" => w.file.change = "buffered"
    BY WriteResult, IdleResult DEF IndInv, File
  <2>4. h \in [File -> Handle] /\ (~Works /\ Buffered(file) => Buffered(h))
    <3>1. /\ h \in [File -> Handle] /\ h["raw"] = w.file
          /\ \A f \in File : f # "raw" => h[f] = file[f]
      BY <2>3 DEF IndInv, TypeOK, Handle, File
    <3> HIDE DEF h
    <3>2. QED
      BY <2>3, <3>1 DEF Buffered, File
  <2> HIDE DEF h
  <2>5. /\ file' \in [File -> Handle]
        /\ ~Works /\ Buffered(file) => Buffered(file') /\ sinceSync' = sinceSync
        /\ stale => sinceSync' = sinceSync
        /\ sinceSync' = sinceSync \/ sinceSync' = 0
    BY <2>2, <2>4, SyncResult, SyncFails DEF SinceSync
  <2>6. TypeOK'
    BY <1>1, <2>5, Numbers DEF IndInv, TypeOK, Handle, medium, loss
  <2>7. Control' /\ Owed' /\ StopNotForgotten' /\ SessionIsNew'
    BY <1>1 DEF IndInv, TypeOK, Control, Owed, StopNotForgotten, SessionIsNew, medium
  <2>8. StaleCount'
    <3>1. UNCHANGED <<active, stale, staleFor, errorCycles>> /\ stale \in BOOLEAN
      BY <1>1 DEF IndInv, TypeOK, loss
    <3>2. CASE stale
      BY <2>5, <3>1, <3>2 DEF IndInv, StaleCount, FailedSyncs
    <3>3. CASE ~stale
      <4>1. staleFor = 0
        BY <3>1, <3>3 DEF IndInv, TypeOK, StaleCount
      <4>2. 0 <= sinceSync' + FailedSyncs'
        BY <2>6, NextTypes, Numbers DEF FailedSyncs
      <4>3. QED
        BY <3>1, <4>1, <4>2 DEF StaleCount
    <3>4. QED
      BY <3>2, <3>3
  <2>9. DeadCount'
    <3>1. UNCHANGED <<active, deadFor, errorCycles>> /\ Works' = Works /\ Valid' = Valid
      BY <1>1 DEF loss, medium, Works, Valid
    <3>2. Buffered(file)' <=> Buffered(file')
      BY DEF Buffered
    <3>3. QED
      BY <2>5, <3>1, <3>2 DEF IndInv, DeadCount, FailedSyncs
  <2>10. QED
    BY <2>6, <2>7, <2>8, <2>9 DEF IndInv
<1>4. QED
  BY <1>2, <1>3 DEF Flush

LEMMA OpenKeeps ==
  ASSUME IndInv, Open
  PROVE  IndInv'
<1>1. /\ pc = "open"
      /\ UNCHANGED <<stopping, active, filesOpen, autoStart, request, counts, file, disk,
                     cli, budget, owed, loss>>
  BY DEF Open
<1>2. ~active /\ stopping = "none" /\ owner # "logger"
  BY <1>1 DEF IndInv, TypeOK, Control
<1>3. \/ /\ Mount /\ MountWorks /\ pc' = "create" /\ owner' = "logger" /\ created' = 0
         /\ session' \in Index /\ FirstFree(session')
      \/ /\ Mount /\ pc' = "cycle" /\ UNCHANGED <<session, created, owner>>
      \/ pc' = "cycle" /\ UNCHANGED <<session, created, owner, drive, card, stale>>
  BY DEF Open
<1>4. /\ drive' \in {"untried", "up", "down"} /\ card' \in {"out", "fresh", "ready"}
      /\ stale' \in BOOLEAN
      /\ Mount /\ MountWorks => drive' = "up"
  BY <1>3 DEF Mount, MountWorks, DriveTried, CardTried, IndInv, TypeOK
<1>5. TypeOK'
  BY <1>1, <1>3, <1>4, Numbers DEF IndInv, TypeOK, counts, loss
<1>6. Control'
  BY <1>1, <1>2, <1>3, <1>4, Numbers DEF IndInv, TypeOK, Control
<1>7. Owed' /\ StopNotForgotten'
  BY <1>1, <1>3 DEF IndInv, TypeOK, Control, Owed, StopNotForgotten
<1>8. SessionIsNew'
  <2>1. CASE FirstFree(session') /\ session' \in Index /\ created' = 0
    <3>1. disk[session'] = 0
      BY <2>1, Numbers DEF IndInv, TypeOK, FirstFree, Occupied
    <3>2. QED
      BY <1>1, <2>1, <3>1 DEF SessionIsNew
  <2>2. CASE pc' = "cycle"
    BY <2>2 DEF SessionIsNew
  <2>3. QED
    BY <1>3, <2>1, <2>2
<1>9. StaleCount' /\ DeadCount'
  BY <1>1, <1>2, NothingCounted DEF IndInv, TypeOK, StaleCount, DeadCount, loss
<1>10. QED
  BY <1>5, <1>6, <1>7, <1>8, <1>9 DEF IndInv

LEMMA CreateKeeps ==
  ASSUME IndInv, Create
  PROVE  IndInv'
<1>1. /\ pc = "create" /\ ~active /\ stopping = "none" /\ owner = "logger"
      /\ drive = "up" /\ created # All /\ disk[session] = created
      /\ UNCHANGED <<stopping, autoStart, request, errorCycles, sinceTry, session, card, drive,
                     cli, budget, owed, loss>>
  BY DEF Create, IndInv, TypeOK, Control, SessionIsNew
<1>2. \/ /\ disk' = [disk EXCEPT ![session] = @ + 1] /\ created' = created + 1
         /\ pc' = IF created' = All THEN "header" ELSE "create"
         /\ UNCHANGED <<active, filesOpen, owner, sinceSync, file, stale>>
      \/ /\ filesOpen' = FALSE /\ pc' = "cycle" /\ owner' = "none"
         /\ UNCHANGED <<active, sinceSync, file, stale, disk, created>>
  BY DEF Create, OpenFails, CloseFiles
<1>3. created' \in 0 .. All /\ disk' \in [Index -> 0 .. All] /\ session \in Index
  BY <1>1, <1>2, Numbers DEF IndInv, TypeOK
<1>4. TypeOK'
  BY <1>1, <1>2, <1>3 DEF IndInv, TypeOK, loss
<1>5. Control'
  BY <1>1, <1>2 DEF IndInv, TypeOK, Control
<1>6. Owed' /\ StopNotForgotten'
  BY <1>1, <1>2 DEF IndInv, TypeOK, Control, Owed, StopNotForgotten
<1>7. SessionIsNew'
  BY <1>1, <1>2, <1>3 DEF IndInv, TypeOK, SessionIsNew
<1>8. StaleCount' /\ DeadCount'
  BY <1>1, <1>2, NothingCounted DEF IndInv, TypeOK, StaleCount, DeadCount, loss
<1>9. QED
  BY <1>4, <1>5, <1>6, <1>7, <1>8 DEF IndInv

\* A session begins with nothing lost.
LEMMA HeaderKeeps ==
  ASSUME IndInv, Header
  PROVE  IndInv'
<1>1. /\ pc = "header" /\ ~active /\ stopping = "none" /\ drive = "up"
      /\ UNCHANGED <<stopping, autoStart, request, errorCycles, sinceTry, session, created,
                     medium, cli, budget, owed, loss>>
  BY DEF Header, IndInv, TypeOK, Control
<1>2. \/ /\ active' = TRUE /\ filesOpen' = TRUE /\ sinceSync' = 0 /\ stale' = FALSE
         /\ file' \in [File -> [change : IF Works THEN {"none"} ELSE Change, err : {FALSE}]]
         /\ pc' = "cycle" /\ owner' = "none"
      \/ /\ filesOpen' = FALSE /\ pc' = "cycle" /\ owner' = "none"
         /\ UNCHANGED <<active, sinceSync, file, stale>>
  BY DEF Header, OpenFails, CloseFiles
<1>3. file' \in [File -> Handle]
  <2>1. [change : IF Works THEN {"none"} ELSE Change, err : {FALSE}] \subseteq Handle
    BY DEF Handle, Change
  <2>2. file \in [File -> Handle]
    BY DEF IndInv, TypeOK, Handle
  <2>3. QED
    BY <1>2, <2>1, <2>2
<1>4. TypeOK'
  <2>1. /\ active' \in BOOLEAN /\ filesOpen' \in BOOLEAN /\ stale' \in BOOLEAN
    BY <1>2 DEF IndInv, TypeOK
  <2>2. sinceSync' \in 0 .. SyncPeriod /\ deadFor' \in Nat /\ staleFor' \in Nat
    <3>1. deadFor' = deadFor /\ staleFor' = staleFor
      BY <1>1 DEF loss
    <3>2. sinceSync' = 0 \/ sinceSync' = sinceSync
      BY <1>2
    <3>3. QED
      BY <3>1, <3>2, CountTypes, Numbers DEF IndInv
  <2>3. pc' = "cycle" /\ owner' = "none"
    BY <1>2
  <2>4. QED
    BY <1>1, <1>3, <2>1, <2>2, <2>3 DEF IndInv, TypeOK, Handle, medium
<1>5. Control'
  BY <1>1, <1>2 DEF IndInv, TypeOK, Control, medium
<1>6. Owed' /\ StopNotForgotten'
  BY <1>1, <1>2 DEF IndInv, TypeOK, Control, Owed, StopNotForgotten
<1>7. SessionIsNew'
  BY <1>2 DEF SessionIsNew
<1>8. StaleCount' /\ DeadCount'
  <2>1. FailedSyncs' \in Nat
    BY <1>4, Numbers DEF TypeOK, FailedSyncs
  <2>2. CASE UNCHANGED active
    BY <1>1, <2>2, NothingCounted DEF IndInv, TypeOK, StaleCount, DeadCount, loss
  <2>3. CASE active' /\ sinceSync' = 0
    <3>0. deadFor' = 0 /\ staleFor' = 0
      BY <1>1 DEF IndInv, StaleCount, DeadCount, loss
    <3>1. PICK after \in Nat : after = FailedSyncs'
      BY <2>1
    <3>2. after \in Nat
      BY <3>1
    <3>3. staleFor' <= sinceSync' + after
      BY <2>3, <3>0, <3>2
    <3>4. StaleCount'
      BY <2>3, <3>0, <3>1, <3>3 DEF StaleCount
    <3>5. DeadCount'
      BY <3>0 DEF DeadCount
    <3>6. QED
      BY <3>4, <3>5
  <2>4. QED
    BY <1>1, <1>2, <2>2, <2>3
<1>9. QED
  BY <1>4, <1>5, <1>6, <1>7, <1>8 DEF IndInv

\* A cycle with the mutex: what was lost in it is in the counts, or the session
\* is over.
LEMMA WriteCycleKeeps ==
  ASSUME IndInv, WriteCycle
  PROVE  IndInv'
<1>1. /\ pc = "cycle" /\ active /\ filesOpen /\ owner = "none"
      /\ sinceTry' = Least(RetryPeriod, sinceTry + 1)
      /\ UNCHANGED <<filesOpen, request, session, created, stale, medium, owner, cli, budget,
                     owed>>
  BY DEF WriteCycle
<1>a. PICK traffic \in BOOLEAN, row \in BOOLEAN :
        \E raw \in IF traffic THEN Write("raw") ELSE Idle("raw"),
           text \in IF row THEN Write("text") ELSE Idle("text") :
          LET h == [raw |-> raw.file, text |-> text.file]
              failed == Failed(raw, text) \/ (SyncDue /\ ~Syncs(h))
          IN  /\ file' \in IF SyncDue THEN Synced(h) ELSE {h}
              /\ sinceSync' = Least(SyncPeriod, IF SyncDue THEN SinceSync(h) + 1
                                                ELSE sinceSync + 1)
              /\ IF ErrorsAfter(failed) >= MaxErrors
                 THEN errorCycles' = 0 /\ autoStart' = FALSE /\ StopSession("errors")
                 ELSE /\ errorCycles' = ErrorsAfter(failed) /\ pc' = "request"
                      /\ deadFor' = IF (traffic \/ row) /\ ~Works THEN deadFor + 1 ELSE 0
                      /\ staleFor' = IF stale THEN staleFor + 1 ELSE 0
                      /\ UNCHANGED <<active, stopping, autoStart>>
  BY DEF WriteCycle
<1>2. PICK raw \in IF traffic THEN Write("raw") ELSE Idle("raw"),
           text \in IF row THEN Write("text") ELSE Idle("text") :
        LET h == [raw |-> raw.file, text |-> text.file]
            failed == Failed(raw, text) \/ (SyncDue /\ ~Syncs(h))
        IN  /\ file' \in IF SyncDue THEN Synced(h) ELSE {h}
            /\ sinceSync' = Least(SyncPeriod, IF SyncDue THEN SinceSync(h) + 1
                                              ELSE sinceSync + 1)
            /\ IF ErrorsAfter(failed) >= MaxErrors
               THEN errorCycles' = 0 /\ autoStart' = FALSE /\ StopSession("errors")
               ELSE /\ errorCycles' = ErrorsAfter(failed) /\ pc' = "request"
                    /\ deadFor' = IF (traffic \/ row) /\ ~Works THEN deadFor + 1 ELSE 0
                    /\ staleFor' = IF stale THEN staleFor + 1 ELSE 0
                    /\ UNCHANGED <<active, stopping, autoStart>>
  BY <1>a
<1> DEFINE h == [raw |-> raw.file, text |-> text.file]
           failed == Failed(raw, text) \/ (SyncDue /\ ~Syncs(h))
<1>3. /\ file' \in IF SyncDue THEN Synced(h) ELSE {h}
      /\ sinceSync' = Least(SyncPeriod, IF SyncDue THEN SinceSync(h) + 1 ELSE sinceSync + 1)
  BY <1>2
<1>4. \/ /\ errorCycles' = 0 /\ autoStart' = FALSE
         /\ active' = FALSE /\ stopping' = "errors" /\ pc' = "stop"
         /\ deadFor' = 0 /\ staleFor' = 0
      \/ /\ errorCycles' = (IF failed THEN errorCycles + 1 ELSE 0)
         /\ ~(errorCycles' >= MaxErrors)
         /\ deadFor' = IF (traffic \/ row) /\ ~Works THEN deadFor + 1 ELSE 0
         /\ staleFor' = IF stale THEN staleFor + 1 ELSE 0
         /\ pc' = "request" /\ UNCHANGED <<active, stopping, autoStart>>
  BY <1>2 DEF ErrorsAfter, StopSession
<1>5. /\ raw.file \in Handle /\ raw.failed \in BOOLEAN
      /\ ~Works /\ file["raw"].change = "buffered" => raw.file.change = "buffered"
      /\ ~Works /\ traffic => raw.failed \/ raw.file.change = "buffered"
  <2>1. CASE traffic
    BY <2>1, WriteResult DEF IndInv, File
  <2>2. CASE ~traffic
    BY <2>2, IdleResult DEF IndInv, File
  <2>3. QED
    BY <2>1, <2>2
<1>6. /\ text.file \in Handle /\ text.failed \in BOOLEAN
      /\ ~Works /\ file["text"].change = "buffered" => text.file.change = "buffered"
      /\ ~Works /\ row => text.failed \/ text.file.change = "buffered"
  <2>1. CASE row
    BY <2>1, WriteResult DEF IndInv, File
  <2>2. CASE ~row
    BY <2>2, IdleResult DEF IndInv, File
  <2>3. QED
    BY <2>1, <2>2
<1>7. h \in [File -> Handle] /\ h["raw"] = raw.file /\ h["text"] = text.file
  BY <1>5, <1>6 DEF File
<1>8. /\ raw.failed \/ text.failed => failed
      /\ SyncDue /\ ~Syncs(h) => failed
  BY DEF Failed
<1> HIDE DEF h, failed
<1>9. /\ file' \in [File -> Handle]
      /\ ~Works /\ Buffered(h) => Buffered(file')
  BY <1>3, <1>7, SyncResult
<1>10. /\ sinceSync' \in 0 .. SyncPeriod
       /\ ~Syncs(h) => sinceSync' = IF SyncDue THEN SyncPeriod ELSE sinceSync + 1
       /\ SyncDue <=> sinceSync = SyncPeriod
  BY <1>3, CountTypes, Numbers DEF IndInv, Least, SinceSync, SyncDue
<1>11. TypeOK'
  <2>1. /\ errorCycles' \in 0 .. MaxErrors - 1 /\ sinceTry' \in 0 .. RetryPeriod
        /\ deadFor' \in Nat /\ staleFor' \in Nat
    <3>1. errorCycles' \in 0 .. MaxErrors - 1
      BY <1>4, CountTypes, Numbers DEF IndInv
    <3>2. sinceTry' \in 0 .. RetryPeriod
      BY <1>1, Numbers DEF IndInv, TypeOK, Least
    <3>3. deadFor' \in Nat /\ staleFor' \in Nat
      BY <1>4, CountTypes DEF IndInv
    <3>4. QED
      BY <3>1, <3>2, <3>3
  <2>2. /\ active' \in BOOLEAN /\ autoStart' \in BOOLEAN
        /\ pc' \in {"request", "stop"} /\ stopping' \in {"none", "stop", "new", "errors"}
    BY <1>4 DEF IndInv, TypeOK
  <2>3. QED
    BY <1>1, <1>9, <1>10, <2>1, <2>2 DEF IndInv, TypeOK, Handle, medium
<1>12. Control' /\ Owed' /\ StopNotForgotten' /\ SessionIsNew'
  <2>1. Control'
    BY <1>1, <1>4 DEF IndInv, TypeOK, Control, medium
  <2>2. Owed' /\ StopNotForgotten'
    BY <1>1, <1>4 DEF IndInv, TypeOK, Control, Owed, StopNotForgotten
  <2>3. SessionIsNew'
    BY <1>4 DEF SessionIsNew
  <2>4. QED
    BY <2>1, <2>2, <2>3
<1>13. CASE active' = FALSE /\ deadFor' = 0 /\ staleFor' = 0
  BY <1>11, <1>12, <1>13, NothingCounted DEF IndInv
<1>14. CASE /\ active' = active
            /\ errorCycles' = (IF failed THEN errorCycles + 1 ELSE 0)
            /\ deadFor' = IF (traffic \/ row) /\ ~Works THEN deadFor + 1 ELSE 0
            /\ staleFor' = IF stale THEN staleFor + 1 ELSE 0
  <2>1. /\ active' /\ errorCycles' = IF failed THEN errorCycles + 1 ELSE 0
        /\ deadFor' = IF (traffic \/ row) /\ ~Works THEN deadFor + 1 ELSE 0
        /\ staleFor' = IF stale THEN staleFor + 1 ELSE 0
    BY <1>1, <1>14
  <2>2. ASSUME ~Syncs(h), NEW n \in Nat, n <= sinceSync + FailedSyncs
        PROVE  n + 1 <= sinceSync' + FailedSyncs'
    BY <1>8, <1>10, <2>1, <2>2, CountTypes, Numbers DEF IndInv, FailedSyncs
  <2>3. StaleCount'
    <3>1. CASE ~stale
      <4>1. staleFor' = 0 /\ active'
        BY <2>1, <3>1
      <4>2. 0 <= sinceSync' + FailedSyncs'
        BY <1>11, NextTypes, Numbers DEF FailedSyncs
      <4>3. QED
        BY <4>1, <4>2 DEF StaleCount
    <3>2. CASE stale
      <4>1. ~Syncs(h)
        BY <1>7, <3>2, SyncFails
      <4>2. staleFor \in Nat /\ staleFor <= sinceSync + FailedSyncs
        BY <1>1, CountTypes DEF IndInv, StaleCount
      <4>3. staleFor' <= sinceSync' + FailedSyncs'
        BY <2>1, <2>2, <3>2, <4>1, <4>2
      <4>4. QED
        BY <1>1, <2>1, <3>2, <4>3 DEF StaleCount
    <3>3. QED
      BY <3>1, <3>2
  <2>4. DeadCount'
    <3>1. SUFFICES ASSUME traffic \/ row, ~Works PROVE DeadCount'
      BY <2>1 DEF DeadCount
    <3>2. deadFor' = deadFor + 1 /\ ~Works'
      BY <1>1, <2>1, <3>1 DEF Works, medium
    <3>3. \/ Buffered(file) /\ deadFor <= MaxErrors - 1 + sinceSync + FailedSyncs
          \/ deadFor <= errorCycles
      BY CountTypes, Numbers DEF IndInv, DeadCount
    <3>4. CASE Buffered(h)
      <4>1. ~Syncs(h) /\ Buffered(file)'
        BY <1>7, <1>9, <3>1, <3>4, SyncFails DEF Buffered
      <4>2. CASE deadFor <= MaxErrors - 1 + sinceSync + FailedSyncs
        <5>1. sinceSync + FailedSyncs + 1 <= sinceSync' + FailedSyncs'
          BY <2>2, <4>1, CountTypes, Numbers DEF IndInv
        <5>2. deadFor' <= MaxErrors - 1 + sinceSync' + FailedSyncs'
          BY <1>11, <3>2, <4>2, <5>1, CountTypes, NextTypes, Numbers DEF IndInv, FailedSyncs
        <5>3. QED
          BY <2>1, <3>2, <4>1, <5>2 DEF DeadCount
      <4>3. CASE deadFor <= errorCycles
        <5>1. 1 <= sinceSync' + FailedSyncs'
          BY <2>2, <4>1, CountTypes, Numbers DEF IndInv
        <5>2. deadFor' <= MaxErrors - 1 + sinceSync' + FailedSyncs'
          BY <1>11, <3>2, <4>3, <5>1, CountTypes, NextTypes, Numbers DEF IndInv, FailedSyncs
        <5>3. QED
          BY <2>1, <3>2, <4>1, <5>2 DEF DeadCount
      <4>4. QED
        BY <3>3, <4>2, <4>3
    <3>5. CASE ~Buffered(h)
      <4>1. failed
        BY <1>5, <1>6, <1>7, <1>8, <3>1, <3>5 DEF Buffered, File
      <4>2. ~Buffered(file)
        BY <1>5, <1>6, <1>7, <3>1, <3>5 DEF Buffered, File
      <4>3. deadFor' <= errorCycles'
        BY <2>1, <3>2, <3>3, <4>1, <4>2, CountTypes, Numbers DEF IndInv
      <4>4. QED
        BY <2>1, <3>2, <4>3 DEF DeadCount
    <3>6. QED
      BY <3>4, <3>5
  <2>5. QED
    BY <1>11, <1>12, <2>3, <2>4 DEF IndInv
<1>15. QED
  BY <1>4, <1>13, <1>14

-------------------------------------------------------------------------------
(* The command line, the card and the power.                               *)

LEMMA RequestKeeps ==
  ASSUME IndInv, NEW r \in {"start", "stop", "flush", "new"}, Request(r)
  PROVE  IndInv'
<1>1. /\ budget > 0 /\ budget' = budget - 1 /\ request' = r /\ owed' = (r = "stop")
      /\ UNCHANGED <<pc, stopping, active, filesOpen, autoStart, counts, files, medium, owner,
                     cli, loss>>
  BY DEF Request
<1>2. budget' \in 0 .. Budget
  BY <1>1, Numbers DEF IndInv, TypeOK
<1>3. owed' \in BOOLEAN /\ (owed' => r = "stop")
  BY <1>1
<1>4. TypeOK'
  BY <1>1, <1>2, <1>3 DEF IndInv, TypeOK, counts, files, medium, loss
<1>5. Control' /\ SessionIsNew'
  BY <1>1 DEF IndInv, Control, SessionIsNew, files, medium
<1>6. Owed' /\ StopNotForgotten'
  BY <1>1, <1>3 DEF Owed, StopNotForgotten
<1>7. StaleCount' /\ DeadCount'
  BY <1>1, CountsKept DEF IndInv, counts, files, medium, loss, Works, Valid
<1>8. QED
  BY <1>4, <1>5, <1>6, <1>7 DEF IndInv

\* What the command line does to the card and the volume leaves the logger's
\* own part alone, and brings nothing back to a session.
LEMMA MediumKeeps ==
  ASSUME IndInv,
         UNCHANGED <<control, counts, session, created, file, disk, owed, loss>>,
         owner' \in {"none", "logger", "cli"}, owner' = "logger" <=> owner = "logger",
         cli' \in {"idle", "init", "mount", "unmount", "test"},
         budget' \in 0 .. Budget,
         drive' \in {"untried", "up", "down"}, card' \in {"out", "fresh", "ready"},
         stale' \in BOOLEAN, stale => stale',
         drive # "untried" => drive' # "untried" /\ (drive' = "up" => drive = "up"),
         owner = "logger" => drive' = drive,
         active /\ Works' => Works
  PROVE  IndInv'
<1>1. TypeOK'
  BY DEF IndInv, TypeOK, control, counts, loss
<1>2. Control' /\ Owed' /\ StopNotForgotten' /\ SessionIsNew'
  BY DEF IndInv, Control, Owed, StopNotForgotten, SessionIsNew, control
<1>3. active /\ Valid' => Valid
  BY DEF IndInv, Control, Valid
<1>4. StaleCount' /\ DeadCount'
  BY <1>3, CountsKept DEF IndInv, TypeOK, control, counts, loss
<1>5. QED
  BY <1>1, <1>2, <1>4 DEF IndInv

LEMMA CliAskKeeps ==
  ASSUME IndInv, NEW command \in {"init", "mount", "unmount", "test"}, CliAsk(command)
  PROVE  IndInv'
<1>1. /\ budget > 0 /\ budget' = budget - 1 /\ cli' = command
      /\ UNCHANGED <<control, counts, files, medium, owner, owed, loss>>
  BY DEF CliAsk
<1>2. budget' \in 0 .. Budget
  BY <1>1, Numbers DEF IndInv, TypeOK
<1>3. QED
  BY <1>1, <1>2, MediumKeeps DEF IndInv, TypeOK, files, medium, Works

LEMMA CliTakeKeeps ==
  ASSUME IndInv, CliTake
  PROVE  IndInv'
<1>1. /\ owner = "none" /\ owner' = "cli"
      /\ UNCHANGED <<control, counts, session, created, file, disk, cli, budget, owed, loss>>
  BY DEF CliTake
<1>2. \/ CardInit \/ Mount
      \/ stale' = TRUE /\ UNCHANGED <<card, drive>>
      \/ UNCHANGED <<card, drive, stale>>
  BY DEF CliTake
<1>3. /\ drive' \in {"untried", "up", "down"} /\ card' \in {"out", "fresh", "ready"}
      /\ stale' \in BOOLEAN /\ (stale => stale')
      /\ drive # "untried" => card' = card /\ drive' # "untried"
                              /\ (drive' = "up" => drive = "up")
  <2>1. /\ drive \in {"untried", "up", "down"} /\ card \in {"out", "fresh", "ready"}
        /\ stale \in BOOLEAN
    BY DEF IndInv, TypeOK
  <2>2. CASE CardInit
    BY <2>1, <2>2 DEF CardInit, MountWorks, DriveTried, CardTried
  <2>3. CASE Mount
    <3>1. stale' \in BOOLEAN /\ (stale => stale')
      BY <2>1, <2>3 DEF Mount
    <3>2. QED
      BY <2>1, <2>3, <3>1 DEF Mount, DriveTried, CardTried
  <2>4. CASE UNCHANGED <<card, drive>> /\ stale' \in {stale, TRUE}
    BY <2>1, <2>4
  <2>5. QED
    BY <1>2, <2>2, <2>3, <2>4
<1>4. active /\ Works' => Works
  BY <1>3 DEF IndInv, Control, Works
<1>5. QED
  BY <1>1, <1>3, <1>4, MediumKeeps DEF IndInv, TypeOK

LEMMA CliEndKeeps ==
  ASSUME IndInv, CliEnd
  PROVE  IndInv'
<1>1. /\ owner' = owner \/ (owner = "cli" /\ owner' = "none")
      /\ cli' = "idle"
      /\ UNCHANGED <<control, counts, files, medium, budget, owed, loss>>
  BY DEF CliEnd
<1>2. QED
  BY <1>1, MediumKeeps DEF IndInv, TypeOK, files, medium, Works

LEMMA CardChangeKeeps ==
  ASSUME IndInv, CardChange
  PROVE  IndInv'
<1>1. /\ budget > 0 /\ budget' = budget - 1 /\ card' \in {"out", "fresh"}
      /\ UNCHANGED <<control, counts, files, drive, disk, owner, cli, owed, loss>>
  BY DEF CardChange
<1>2. budget' \in 0 .. Budget
  BY <1>1, Numbers DEF IndInv, TypeOK
<1>3. ~Works'
  BY <1>1 DEF Works
<1>4. QED
  BY <1>1, <1>2, <1>3, MediumKeeps DEF IndInv, TypeOK, files

LEMMA PowerCutKeeps ==
  ASSUME IndInv, PowerCut
  PROVE  IndInv'
<1>1. /\ budget > 0 /\ budget' = budget - 1
      /\ pc' = "request" /\ stopping' = "none"
      /\ active' = FALSE /\ filesOpen' = FALSE /\ autoStart' = TRUE /\ request' = "none"
      /\ errorCycles' = 0 /\ sinceSync' = 0 /\ sinceTry' = 0
      /\ session' = 0 /\ created' = 0 /\ file' = Clean /\ stale' = FALSE
      /\ drive' = "untried" /\ owner' = "none" /\ cli' = "idle"
      /\ owed' = FALSE /\ deadFor' = 0 /\ staleFor' = 0
      /\ card' \in {"out", "fresh"}
  BY DEF PowerCut
<1>2. disk' \in [Index -> 0 .. All]
  BY Numbers DEF PowerCut, IndInv, TypeOK
<1>3. file' \in [File -> [change : Change, err : BOOLEAN]]
  BY <1>1 DEF Clean, Change
<1>4. /\ errorCycles' \in 0 .. MaxErrors - 1
      /\ sinceSync' \in 0 .. SyncPeriod /\ sinceTry' \in 0 .. RetryPeriod
      /\ session' \in Index /\ created' \in 0 .. All
      /\ budget' \in 0 .. Budget /\ deadFor' \in Nat /\ staleFor' \in Nat
  BY <1>1, Numbers DEF IndInv, TypeOK
<1>5. TypeOK'
  BY <1>1, <1>2, <1>3, <1>4 DEF TypeOK
<1>6. Control' /\ Owed' /\ StopNotForgotten' /\ SessionIsNew'
  BY <1>1 DEF Control, Owed, StopNotForgotten, SessionIsNew
<1>7. StaleCount' /\ DeadCount'
  BY <1>1, NothingCounted
<1>8. QED
  BY <1>5, <1>6, <1>7 DEF IndInv

-------------------------------------------------------------------------------
LEMMA NextInvariant == IndInv /\ [Next]_vars => IndInv'
<1> SUFFICES ASSUME IndInv, [Next]_vars PROVE IndInv'
  OBVIOUS
<1>1. CASE Logger
  BY <1>1, TakeRequestKeeps, StopKeeps, StopFailsKeeps, FlushKeeps, RetryKeeps, OpenKeeps,
     CreateKeeps, HeaderKeeps, WriteCycleKeeps, SkipCycleKeeps DEF Logger
<1>2. CASE Cli
  BY <1>2, CliTakeKeeps, CliEndKeeps DEF Cli
<1>3. CASE Outside
  BY <1>3, RequestKeeps, CliAskKeeps, CardChangeKeeps, PowerCutKeeps DEF Outside
<1>4. CASE UNCHANGED vars
  BY <1>4, MediumKeeps DEF vars, IndInv, TypeOK, control, files, medium, Works
<1>5. QED
  BY <1>1, <1>2, <1>3, <1>4 DEF Next

\* The invariant that carries the results below.
THEOREM IndInvariant == Spec => []IndInv
<1>1. Init => IndInv
  BY InitInvariant
<1>2. QED
  BY <1>1, NextInvariant, PTL DEF Spec

\* Counters, files and disk keep their types.
THEOREM TypeCorrect == Spec => []TypeOK
<1>1. IndInv => TypeOK
  BY DEF IndInv
<1>2. QED
  BY <1>1, IndInvariant, PTL

\* In a row of cycles that all have something to write, a session whose card or
\* whose volume is gone ends after a sync period and the errors allowed, twice
\* for the card (ecu_data_logger.c:877-898).  A cycle with nothing to write
\* begins another row.
THEOREM UnbrokenLossIsBriefHolds == Spec => []UnbrokenLossIsBrief
<1>1. IndInv => UnbrokenLossIsBrief
  <2> SUFFICES ASSUME IndInv, active PROVE UnbrokenLossIsBrief
    BY DEF UnbrokenLossIsBrief
  <2>1. staleFor < SyncPeriod + MaxErrors
    BY CountTypes, Numbers DEF IndInv, StaleCount, FailedSyncs
  <2>2. deadFor <= SyncPeriod + 2 * (MaxErrors - 1)
    BY CountTypes, Numbers DEF IndInv, DeadCount, FailedSyncs
  <2>3. QED
    BY <2>1, <2>2 DEF UnbrokenLossIsBrief
<1>2. QED
  BY <1>1, IndInvariant, PTL

\* A drive that is down stays down until power is cut, whatever card is put in and
\* however often the logger and the command line try, and no session begins on
\* it (diskio.c:57-62, sdcard_service.c:106).
THEOREM MissedForGoodHolds == Spec => MissedForGood
<1>1. IndInv /\ [Next]_vars =>
        [drive = "down" => PowerCut \/ (drive' = "down" /\ (active' => active))]_vars
  <2> SUFFICES ASSUME IndInv, Next, drive = "down", ~PowerCut
               PROVE  drive' = "down" /\ (active' => active)
    BY DEF vars
  <2>1. pc \notin {"create", "header"} /\ active \in BOOLEAN
    BY DEF IndInv, TypeOK, Control
  <2>2. DriveTried = "down" /\ ~MountWorks
    BY DEF DriveTried, MountWorks
  <2>3. CASE Logger
    <3>1. CASE TakeRequest
      BY <2>1, <3>1 DEF TakeRequest, StopSession, medium
    <3>2. CASE Open
      BY <2>2, <3>2 DEF Open, Mount
    <3>3. CASE WriteCycle
      BY <2>1, <3>3 DEF WriteCycle, StopSession, medium
    <3>4. CASE Stop \/ StopFails \/ Flush \/ Retry \/ SkipCycle
      BY <3>4 DEF Stop, StopFails, Flush, Retry, SkipCycle, medium
    <3>5. CASE Create \/ Header
      BY <2>1, <3>5 DEF Create, Header
    <3>6. QED
      BY <2>3, <3>1, <3>2, <3>3, <3>4, <3>5 DEF Logger
  <2>4. CASE Cli
    <3>1. CASE CliTake
      BY <2>2, <3>1 DEF CliTake, CardInit, Mount, control
    <3>2. CASE CliEnd
      BY <3>2 DEF CliEnd, control, medium
    <3>3. QED
      BY <2>4, <3>1, <3>2 DEF Cli
  <2>5. CASE Outside
    <3>1. CASE \E r \in {"start", "stop", "flush", "new"} : Request(r)
      BY <3>1 DEF Request, medium
    <3>2. CASE \E command \in {"init", "mount", "unmount", "test"} : CliAsk(command)
      BY <3>2 DEF CliAsk, control, medium
    <3>3. CASE CardChange
      BY <3>3 DEF CardChange, control
    <3>4. QED
      BY <2>5, <3>1, <3>2, <3>3 DEF Outside
  <2>6. QED
    BY <2>3, <2>4, <2>5 DEF Next
<1>2. QED
  BY <1>1, IndInvariant, PTL DEF Spec, MissedForGood

\* No file of an earlier session is taken for one of a new session
\* (ecu_data_logger.c:218-258).
THEOREM SessionIsNewHolds == Spec => []SessionIsNew
<1>1. IndInv => SessionIsNew
  BY DEF IndInv
<1>2. QED
  BY <1>1, IndInvariant, PTL

\* A stop the user asked for last is waiting, under way or done, and once done
\* nothing starts again by itself, although it is put back whenever the mutex is
\* not to be had (ecu_data_logger.c:990-1002).
THEOREM StopNotForgottenHolds == Spec => []StopNotForgotten
<1>1. IndInv => StopNotForgotten
  BY DEF IndInv
<1>2. QED
  BY <1>1, IndInvariant, PTL

===============================================================================
