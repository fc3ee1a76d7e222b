------------------------------ MODULE DataLogger ------------------------------
(***************************************************************************)
(* The data logger (Core/Src/ext_drivers/ecu_data_logger.c), the SD card   *)
(* service it shares with the command line (sdcard_service.c), and what    *)
(* they use of FatFs and of the card's driver.                             *)
(*                                                                         *)
(* The logger task goes round: take a request, start a session by itself   *)
(* when it is time, write a cycle.  Every file operation is made under the *)
(* service's mutex.  The command line has the higher priority: it sets     *)
(* requests at any time and takes the mutex when it is free.  The card may *)
(* be pulled and put back and power may fail between any two steps, also   *)
(* between the files of a new session.  A unit of time is a cycle.         *)
(*                                                                         *)
(* "text" stands for the decoded and the event file: both are written now  *)
(* and then, while "raw" is written in every cycle with traffic.           *)
(***************************************************************************)
EXTENDS Naturals

CONSTANTS
  Sessions,     \* the session numbers are 0 .. Sessions - 1 (1000)
  MaxErrors,    \* LOGGER_MAX_CONSECUTIVE_ERROR_CYCLES (3)
  SyncPeriod,   \* LOGGER_SYNC_PERIOD_MS, in cycles
  RetryPeriod,  \* LOGGER_RETRY_PERIOD_MS, in cycles
  Budget        \* bound: commands, card changes and power cuts together

ASSUME LoggerAssumption ==
  /\ Sessions \in Nat \ {0} /\ MaxErrors \in Nat \ {0}
  /\ SyncPeriod \in Nat /\ RetryPeriod \in Nat /\ Budget \in Nat

VARIABLES
  \* g_logger
  pc,           \* where the logger task is
  stopping,     \* who called stop_session: a request, or the error count
  active, filesOpen, autoStart, request, errorCycles,
  sinceSync,    \* cycles since last_sync_tick
  sinceTry,     \* cycles since last_retry_tick
  session,      \* session_index
  created,      \* the files of the session opened so far in open_session
  file,         \* FA_MODIFIED, FA_DIRTY and err of the open files
  stale,        \* the volume was mounted anew or unmounted since they were opened
  \* the card
  card,         \* out; fresh: put in, not yet initialised; ready
  drive,        \* FatFs's is_initialized and the driver's Stat
  disk,         \* how many of the four files of each session exist
  \* the service and the command line
  owner,        \* of fs_mutex
  cli,          \* the sdcard command under way
  budget,
  \* for the properties
  owed,         \* the user's last request is a stop
  deadFor,      \* cycles of the session in a row with records or rows to write
                \* and no card to write them to
  staleFor      \* cycles of the session since its files are stale

control == <<pc, stopping, active, filesOpen, autoStart, request>>
counts == <<errorCycles, sinceSync, sinceTry>>
files == <<session, created, file, stale>>
medium == <<card, drive, disk>>
loss == <<deadFor, staleFor>>
vars == <<control, counts, files, medium, owner, cli, budget, owed, loss>>

-------------------------------------------------------------------------------
File == {"text", "raw"}
Index == 0 .. Sessions - 1
All == 4   \* the files of a session: decoded, raw, event, meta

Least(a, b) == IF a < b THEN a ELSE b

\* FA_MODIFIED, without or with data in the sector buffer (FA_DIRTY).
Change == {"none", "stored", "buffered"}

Clean == [f \in File |-> [change |-> "none", err |-> FALSE]]

\* A disk operation succeeds.
Works == drive = "up" /\ card = "ready"

\* ecu_data_logger_init and sdcard_service_init.
Init ==
  /\ pc = "request" /\ stopping = "none"
  /\ active = FALSE /\ filesOpen = FALSE /\ autoStart = TRUE /\ request = "none"
  /\ errorCycles = 0 /\ sinceSync = 0 /\ sinceTry = 0
  /\ session = 0 /\ created = 0 /\ file = Clean /\ stale = FALSE
  /\ drive = "untried" /\ owner = "none" /\ cli = "idle"
  /\ owed = FALSE /\ deadFor = 0 /\ staleFor = 0
  /\ card \in {"out", "fresh"}
  /\ disk = [i \in Index |-> 0]
  /\ budget = Budget

-------------------------------------------------------------------------------
\* disk_initialize runs the driver's initialisation once, whatever it returns:
\* a later call answers 0 and the commands that follow find the drive not ready.
\* It follows at once when a volume is mounted whose drive is not up.
DriveTried == IF drive # "untried" THEN drive
              ELSE IF card = "out" THEN "down" ELSE "up"
CardTried == IF drive = "untried" /\ card = "fresh" THEN "ready" ELSE card

\* sdcard_service_mount: once the drive is up, f_mount discards the volume and
\* with it every open file's object, also if the mount fails then.
Mount ==
  /\ drive' = DriveTried /\ card' = CardTried
  /\ stale' = (stale \/ DriveTried = "up")

MountWorks == DriveTried = "up" /\ CardTried = "ready"

\* sdcard_service_card_init: a drive whose card does not answer is down for good.
CardInit ==
  /\ drive' = IF MountWorks THEN "up" ELSE "down"
  /\ card' = CardTried
  /\ UNCHANGED stale

-------------------------------------------------------------------------------
\* FatFs's validate.
Valid == ~stale /\ drive = "up"

\* A write that fails half way may have put its first part in the buffer.
Refilled(f) == IF file[f].change = "stored" THEN {"buffered"} ELSE {}

\* write_bytes (f_write): a file that failed once, or whose volume is gone,
\* refuses; with no card the data may still fit in the file's sector buffer.
Write(f) ==
  IF ~Valid \/ file[f].err THEN {[file |-> file[f], failed |-> TRUE]}
  ELSE {[file |-> [file[f] EXCEPT !.change = c], failed |-> FALSE] :
          c \in IF Works THEN {"stored", "buffered"} ELSE {"buffered"}}
       \union {[file |-> [change |-> c, err |-> TRUE], failed |-> TRUE] :
          c \in IF Works THEN {} ELSE {file[f].change} \union Refilled(f)}

Idle(f) == {[file |-> file[f], failed |-> FALSE]}

\* logger_sync_locked (f_sync of each file): an unmodified file needs no disk.
Syncs(h) == Valid /\ (Works \/ \A f \in File : h[f].change = "none")

\* If the disk fails after a file's buffer was written, FatFs may still take the
\* file for unmodified.
Cleared(h) == IF Works THEN {File} ELSE SUBSET {f \in File : h[f].change = "stored"}
Without(h, done) ==
  [f \in File |-> IF f \in done THEN [h[f] EXCEPT !.change = "none"] ELSE h[f]]
Synced(h) == IF Valid THEN {Without(h, done) : done \in Cleared(h)} ELSE {h}

\* Faulty form: a failed sync waits for the next period too.
SinceSyncAnyway(h) == 0
SinceSync(h) == IF Syncs(h) THEN 0 ELSE sinceSync

\* sdcard_service_lock gave up: only the command line can be in the way.
TimedOut == owner = "cli"

\* Faulty form: a stop or new that did not get the mutex is forgotten.
RequeueNever(r) == UNCHANGED request

\* Faulty form: it is put back over what the user asked for meanwhile.
RequeueOver(r) == request' = r

\* requeue_request_if_none
Requeue(r) == request' = IF request = "none" THEN r ELSE request

-------------------------------------------------------------------------------
\* stop_session begins before it has the mutex.
StopSession(by) ==
  /\ active' = FALSE /\ stopping' = by /\ pc' = "stop"
  /\ deadFor' = 0 /\ staleFor' = 0

\* handle_request
TakeRequest ==
  /\ pc = "request"
  /\ request' = "none"
  /\ autoStart' = (autoStart /\ request \in {"none", "flush"})
  /\ CASE request \in {"stop", "new"} /\ (active \/ filesOpen) -> StopSession(request)
       [] OTHER -> /\ pc' = IF request = "new" \/ (request = "start" /\ ~active) THEN "open"
                            ELSE IF request = "flush" /\ filesOpen THEN "flush"
                            ELSE "retry"
                   /\ UNCHANGED <<active, stopping, loss>>
  /\ UNCHANGED <<filesOpen, counts, files, medium, owner, cli, budget, owed>>

\* close_files_locked
CloseFiles == filesOpen' = FALSE

\* stop_session once it has the mutex.
Stop ==
  /\ pc = "stop" /\ owner = "none"
  /\ CloseFiles
  /\ pc' = CASE stopping = "new" -> "open" [] stopping = "stop" -> "retry"
             [] stopping = "errors" -> "request"
  /\ stopping' = "none"
  /\ UNCHANGED <<active, autoStart, request, counts, files, medium, owner, cli,
                 budget, owed, loss>>

\* The mutex did not come in time.  A request is put back; the stop after
\* errors is the only attempt.
StopFails ==
  /\ pc = "stop" /\ TimedOut
  /\ IF stopping = "errors" THEN UNCHANGED request ELSE Requeue(stopping)
  /\ pc' = IF stopping = "errors" THEN "request" ELSE "retry"
  /\ stopping' = "none"
  /\ UNCHANGED <<active, filesOpen, autoStart, counts, files, medium, owner, cli,
                 budget, owed, loss>>

\* LOGGER_REQUEST_FLUSH
Flush ==
  /\ pc = "flush"
  /\ pc' = "retry"
  /\ \/ /\ owner = "none"
        /\ \E w \in Write("raw") \union Idle("raw") :
             LET h == [file EXCEPT !["raw"] = w.file] IN
               file' \in Synced(h) /\ sinceSync' = SinceSync(h)
     \/ TimedOut /\ UNCHANGED <<file, sinceSync>>
  /\ UNCHANGED <<stopping, active, filesOpen, autoStart, request, errorCycles, sinceTry,
                 session, created, stale, medium, owner, cli, budget, owed, loss>>

\* The automatic start, every RetryPeriod.  The first is due a period after
\* boot, past LOGGER_AUTOSTART_DELAY_MS.
Retry ==
  /\ pc = "retry"
  /\ LET due == autoStart /\ ~active /\ sinceTry >= RetryPeriod IN
       /\ pc' = IF due THEN "open" ELSE "cycle"
       /\ sinceTry' = IF due THEN 0 ELSE sinceTry
  /\ UNCHANGED <<stopping, active, filesOpen, autoStart, request, errorCycles, sinceSync,
                 files, medium, owner, cli, budget, owed, loss>>

-------------------------------------------------------------------------------
\* open_session

\* Faulty form: only the last of the four files is looked for.
OccupiedByMeta(i) == disk[i] = All

\* choose_session: an index is occupied if any of its files exists.
Occupied(i) == disk[i] > 0
FirstFree(i) == ~Occupied(i) /\ \A j \in Index : j < i => Occupied(j)

Open ==
  /\ pc = "open"
  /\ \/ /\ owner = "none" /\ Mount
        /\ \/ /\ MountWorks
              /\ \E i \in Index :
                   /\ FirstFree(i) /\ session' = i /\ created' = 0
                   /\ pc' = "create" /\ owner' = "logger"
           \/ /\ ~MountWorks \/ \A i \in Index : Occupied(i)
              /\ pc' = "cycle" /\ UNCHANGED <<session, created, owner>>
     \/ /\ TimedOut
        /\ pc' = "cycle" /\ UNCHANGED <<session, created, owner, drive, card, stale>>
  /\ UNCHANGED <<stopping, active, filesOpen, autoStart, request, counts, file, disk,
                 cli, budget, owed, loss>>

\* The session's files cannot be had: close what is open.
OpenFails ==
  /\ CloseFiles /\ pc' = "cycle" /\ owner' = "none"
  /\ UNCHANGED <<active, sinceSync, file, stale>>

\* f_open with FA_CREATE_NEW of the next file: one that exists is an error.
Create ==
  /\ pc = "create"
  /\ IF Works /\ disk[session] = created
     THEN /\ disk' = [disk EXCEPT ![session] = @ + 1]
          /\ created' = created + 1
          /\ pc' = IF created' = All THEN "header" ELSE "create"
          /\ UNCHANGED <<active, filesOpen, owner, sinceSync, file, stale>>
     ELSE OpenFails /\ UNCHANGED <<disk, created>>
  /\ UNCHANGED <<stopping, autoStart, request, errorCycles, sinceTry, session, card, drive,
                 cli, budget, owed, loss>>

\* The headers and the first sync, whose result is ignored.
Header ==
  /\ pc = "header"
  /\ \/ /\ active' = TRUE /\ filesOpen' = TRUE /\ sinceSync' = 0
        /\ file' \in [File -> [change : IF Works THEN {"none"} ELSE Change, err : {FALSE}]]
        /\ stale' = FALSE
        /\ pc' = "cycle" /\ owner' = "none"
     \/ ~Works /\ OpenFails
  /\ UNCHANGED <<stopping, autoStart, request, errorCycles, sinceTry, session, created,
                 medium, cli, budget, owed, loss>>

-------------------------------------------------------------------------------
\* A cycle with the mutex: the raw batch, a decoded row or an event, the sync
\* when due; MaxErrors cycles in a row with an error stop the session.
SyncDue == sinceSync >= SyncPeriod

ErrorsAfter(failed) == IF failed THEN errorCycles + 1 ELSE 0

Failed(raw, text) == raw.failed \/ text.failed

WriteCycle ==
  /\ pc = "cycle" /\ active /\ filesOpen /\ owner = "none"
  /\ \E traffic, row \in BOOLEAN :
     \E raw \in IF traffic THEN Write("raw") ELSE Idle("raw"),
        text \in IF row THEN Write("text") ELSE Idle("text") :
       LET h == [raw |-> raw.file, text |-> text.file]
           failed == Failed(raw, text) \/ (SyncDue /\ ~Syncs(h))
       IN /\ file' \in IF SyncDue THEN Synced(h) ELSE {h}
          /\ sinceSync' = Least(SyncPeriod, IF SyncDue THEN SinceSync(h) + 1
                                            ELSE sinceSync + 1)
          /\ IF ErrorsAfter(failed) >= MaxErrors
             THEN errorCycles' = 0 /\ autoStart' = FALSE /\ StopSession("errors")
             ELSE /\ errorCycles' = ErrorsAfter(failed) /\ pc' = "request"
                  /\ deadFor' = IF (traffic \/ row) /\ ~Works THEN deadFor + 1 ELSE 0
                  /\ staleFor' = IF stale THEN staleFor + 1 ELSE 0
                  /\ UNCHANGED <<active, stopping, autoStart>>
  /\ sinceTry' = Least(RetryPeriod, sinceTry + 1)
  /\ UNCHANGED <<filesOpen, request, session, created, stale, medium, owner, cli, budget,
                 owed>>

\* No session, or the mutex did not come in time.
SkipCycle ==
  /\ pc = "cycle"
  /\ ~(active /\ filesOpen) \/ TimedOut
  /\ pc' = "request"
  /\ sinceSync' = Least(SyncPeriod, sinceSync + 1)
  /\ sinceTry' = Least(RetryPeriod, sinceTry + 1)
  /\ UNCHANGED <<stopping, active, filesOpen, autoStart, request, errorCycles, files,
                 medium, owner, cli, budget, owed, loss>>

Logger ==
  \/ TakeRequest \/ Stop \/ StopFails \/ Flush \/ Retry
  \/ Open \/ Create \/ Header \/ WriteCycle \/ SkipCycle

-------------------------------------------------------------------------------
\* set_request, from the command line: the last one set counts.
Request(r) ==
  /\ budget > 0 /\ budget' = budget - 1
  /\ request' = r
  /\ owed' = (r = "stop")
  /\ UNCHANGED <<pc, stopping, active, filesOpen, autoStart, counts, files, medium, owner,
                 cli, loss>>

\* sdcard: what disturbs open files is refused while the logger has any, and
\* the mutex is taken later.
Refused(command) == command \in {"unmount", "test"} /\ (active \/ filesOpen)

CliAsk(command) ==
  /\ cli = "idle" /\ ~Refused(command)
  /\ budget > 0 /\ budget' = budget - 1
  /\ cli' = command
  /\ UNCHANGED <<control, counts, files, medium, owner, owed, loss>>

\* The command has the mutex; a test of a mounted volume leaves the volume
\* alone, and one of an unmounted volume mounts it.
CliTake ==
  /\ cli # "idle" /\ owner = "none"
  /\ owner' = "cli"
  /\ \/ cli = "init" /\ CardInit
     \/ cli \in {"mount", "test"} /\ Mount
     \/ cli = "unmount" /\ stale' = TRUE /\ UNCHANGED <<card, drive>>
     \/ cli = "test" /\ UNCHANGED <<card, drive, stale>>
  /\ UNCHANGED <<control, counts, session, created, file, disk, cli, budget, owed, loss>>

\* The mutex is given back, or was not had in time.
CliEnd ==
  /\ \/ owner = "cli" /\ owner' = "none"
     \/ cli # "idle" /\ owner = "logger" /\ UNCHANGED owner
  /\ cli' = "idle"
  /\ UNCHANGED <<control, counts, files, medium, budget, owed, loss>>

Cli == CliTake \/ CliEnd

\* The card is pulled or put in.
CardChange ==
  /\ budget > 0 /\ budget' = budget - 1
  /\ card' = IF card = "out" THEN "fresh" ELSE "out"
  /\ UNCHANGED <<control, counts, files, drive, disk, owner, cli, owed, loss>>

\* Power fails, and what is in memory is as at the start.  Of a session being
\* created any prefix of the files remains.
PowerCut ==
  /\ budget > 0 /\ budget' = budget - 1
  /\ pc' = "request" /\ stopping' = "none"
  /\ active' = FALSE /\ filesOpen' = FALSE /\ autoStart' = TRUE /\ request' = "none"
  /\ errorCycles' = 0 /\ sinceSync' = 0 /\ sinceTry' = 0
  /\ session' = 0 /\ created' = 0 /\ file' = Clean /\ stale' = FALSE
  /\ drive' = "untried" /\ owner' = "none" /\ cli' = "idle"
  /\ owed' = FALSE /\ deadFor' = 0 /\ staleFor' = 0
  /\ card' = IF card = "out" THEN "out" ELSE "fresh"
  /\ \/ UNCHANGED disk
     \/ /\ pc \in {"create", "header"}
        /\ \E n \in 0 .. All : n < disk[session] /\ disk' = [disk EXCEPT ![session] = n]

Outside ==
  \/ \E r \in {"start", "stop", "flush", "new"} : Request(r)
  \/ \E command \in {"init", "mount", "unmount", "test"} : CliAsk(command)
  \/ CardChange \/ PowerCut

Next == Logger \/ Cli \/ Outside

\* The scheduler runs the logger and lets a command that was given finish.
Spec == Init /\ [][Next]_vars /\ WF_vars(Logger) /\ WF_vars(Cli)

-------------------------------------------------------------------------------
\* What a variable may hold.
TypeOK ==
  /\ pc \in {"request", "stop", "flush", "retry", "open", "create", "header", "cycle"}
  /\ stopping \in {"none", "stop", "new", "errors"}
  /\ {active, filesOpen, autoStart, stale, owed} \subseteq BOOLEAN
  /\ request \in {"none", "start", "stop", "flush", "new"}
  /\ errorCycles \in 0 .. MaxErrors - 1
  /\ sinceSync \in 0 .. SyncPeriod /\ sinceTry \in 0 .. RetryPeriod
  /\ session \in Index /\ created \in 0 .. All
  /\ file \in [File -> [change : Change, err : BOOLEAN]]
  /\ card \in {"out", "fresh", "ready"} /\ drive \in {"untried", "up", "down"}
  /\ disk \in [Index -> 0 .. All]
  /\ owner \in {"none", "logger", "cli"}
  /\ cli \in {"idle", "init", "mount", "unmount", "test"}
  /\ budget \in 0 .. Budget
  /\ deadFor \in Nat /\ staleFor \in Nat

\* A session that has something to write in every cycle does not go on losing
\* it.  Its card may be gone, and then a record may still fit in a sector buffer
\* and count as written, MaxErrors - 1 cycles after the first that failed; or
\* the command line has pulled the volume from under its files -- it may mount
\* at any time, and asks before it unmounts but not again when it has the
\* mutex.  A cycle with nothing to write breaks the row: see DeadCardStops.
UnbrokenLossIsBrief ==
  active => /\ deadFor <= SyncPeriod + 2 * (MaxErrors - 1)
            /\ staleFor < SyncPeriod + MaxErrors

\* A new session takes an index of which no file exists, whatever a power cut
\* left of the ones before, and nobody else gives it one (choose_session).
SessionIsNew == pc \in {"create", "header"} => disk[session] = created

\* A stop the user asked for last is waiting, under way or done, and once done
\* nothing starts again by itself: also when the mutex was not to be had, when
\* the errors stop the session meanwhile, or when it came during an open.
StopNotForgotten ==
  owed => \/ request = "stop" \/ stopping = "stop"
          \/ /\ ~active /\ ~filesOpen /\ ~autoStart
             /\ pc \notin {"open", "create", "header"}

\* While a usable card is in, the logger's own attempts come to a session,
\* whatever a power cut left on the disk.
Usable == card # "out" /\ (drive = "untried" \/ Works)
AutostartRecovers == (autoStart /\ Usable) ~> (active \/ ~autoStart \/ ~Usable)

\* A stop the user asked for last is carried out, also when the mutex was not
\* to be had at first and when an earlier stop had left the files open.
StopCloses == owed ~> (~owed \/ (~active /\ ~filesOpen))

\* "A removed/dead card must not trigger filesystem work forever"
\* (ecu_data_logger.c:886): a session that outlives its card for good has nothing
\* to write any more.
DeadCardStops == <>[](active /\ ~Works) => <>[](deadFor = 0)

\* The logger "retries every five seconds when no usable card is available"
\* (docs/ECU_SD_CAN_DATA_LOGGER.md:27), but a drive whose first initialisation
\* failed stays down, whatever is put in and retried, until power is cut.
MissedForGood ==
  [][drive = "down" => PowerCut \/ (drive' = "down" /\ (active' => active))]_vars
===============================================================================
