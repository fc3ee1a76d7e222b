------------------------------ MODULE Cm200Feedback ------------------------------
(***************************************************************************)
(* The CM200's broadcasts (Core/Src/ext_drivers/cm200.c) under the error   *)
(* task of PowerSequence: the receive interrupt parses a frame, the task   *)
(* ages the frames once a period, and the supervisor acts on the verdict.  *)
(* PowerSequence takes any verdict; here it comes from the frames of a     *)
(* CM200 that is powered, restarted and cut off by the outputs.            *)
(*                                                                         *)
(* The required frames are two: TORQUE_TIMER, with its power-on timer, and *)
(* the others, which carry the state and the fault words.  The counters    *)
(* and the torque echo are Cm200Commands; here they are in step.           *)
(***************************************************************************)
EXTENDS PowerSequence

CONSTANTS
  Timeout,      \* CM200_FAST_STALE_TIMEOUT_MS, in periods
  RepeatLimit   \* CM200_TIMER_REPEAT_LIMIT

ASSUME FeedbackAssumption == Timeout \in Nat /\ RepeatLimit \in Nat \ {0}

VARIABLES
  health,     \* cm200_frame_health_t of each frame, its age in periods
  content,    \* what the state frames last said
  progress,   \* timer_observed_progress
  repeats,    \* timer_repeat_count
  timerFault, \* timer_reset_fault
  clock,      \* the CM200's power-on timer against the one the driver holds
  heard,      \* periods since a good frame of each kind, for the properties
  restarted   \* periods since the CM200 lost the timer the driver holds, with
              \* nothing that could hide it since; for the properties

driverVars == <<health, content, progress, repeats, timerFault>>
cmVars == <<driverVars, clock>>
watchVars == <<heard, restarted>>
feedbackVars == <<vars, cmVars, watchVars>>

-------------------------------------------------------------------------------
Frame == {"timer", "state"}

\* A fault word or a VSM fault; no fault; no fault, ready and forward.
Content == {"fault", "idle", "ready"}

\* The driver holds none; the CM200's has not moved; it has; it restarted and
\* is below the one held.
Clock == {"none", "same", "passed", "below"}

Never == Timeout + 3   \* of heard and restarted: no such period is counted

Unheard == [valid |-> FALSE, stale |-> TRUE, age |-> 0]

\* cm200_init.  have_counter_observation and the echo are left out.
FeedbackInit ==
  /\ Init
  /\ health = [f \in Frame |-> Unheard]
  /\ content = "idle"
  /\ progress = FALSE
  /\ repeats = 0
  /\ timerFault = FALSE
  /\ clock = "none"
  /\ heard = [f \in Frame |-> Never]
  /\ restarted = Never

\* Faulty form: a timer that goes back only starts the count of repeats anew.
UpdateTimerLenient ==
  LET known == health["timer"].valid
  IN  /\ repeats' = CASE known /\ clock = "same" -> UpTo(RepeatLimit, repeats + 1)
                      [] known /\ clock # "same" -> 0
                      [] OTHER -> repeats
      /\ progress' = (progress \/ (known /\ clock = "passed"))
      /\ timerFault' = (timerFault \/ (known /\ clock = "same" /\ repeats' = RepeatLimit))
      /\ clock' = "same"

\* update_power_on_timer: the timer is compared if the last frame was good.
UpdateTimer ==
  LET known == health["timer"].valid
  IN  /\ repeats' = CASE known /\ clock = "same" -> UpTo(RepeatLimit, repeats + 1)
                      [] known /\ clock # "same" -> 0
                      [] OTHER -> repeats
      /\ progress' = (progress \/ (known /\ clock = "passed"))
      /\ timerFault' = \/ timerFault
                       \/ known /\ clock = "below"
                       \/ known /\ clock = "same" /\ repeats' = RepeatLimit
      /\ clock' = "same"

\* mark_frame.
Mark(f) == health' = [health EXCEPT ![f] = [valid |-> TRUE, stale |-> FALSE, age |-> 0]]

\* The interrupt takes a good frame.  A frame comes at most once a period.
Broadcasts(f) == cascadiaOn /\ heard[f] # 0

ReceiveTimer ==
  /\ Broadcasts("timer")
  /\ UpdateTimer
  /\ Mark("timer")
  /\ heard' = [heard EXCEPT !["timer"] = 0]
  /\ UNCHANGED <<vars, content, restarted>>

ReceiveState(c) ==
  /\ Broadcasts("state")
  /\ content' = c
  /\ Mark("state")
  /\ heard' = [heard EXCEPT !["state"] = 0]
  /\ UNCHANGED <<vars, progress, repeats, timerFault, clock, restarted>>

\* cm200_invalidate_can_frame: a frame of a wrong length or kind.  The next
\* timer frame is compared with nothing, which hides a restart before it.
ReceiveMalformed(f) ==
  /\ cascadiaOn
  /\ health' = [health EXCEPT ![f].valid = FALSE, ![f].stale = TRUE]
  /\ restarted' = IF f = "timer" THEN Never ELSE restarted
  /\ UNCHANGED <<vars, content, progress, repeats, timerFault, clock, heard>>

\* The CM200 restarts under power.
Restart ==
  /\ cascadiaOn /\ clock \in {"same", "passed"}
  /\ clock' = "below"
  /\ restarted' = IF health["timer"].valid THEN 0 ELSE restarted
  /\ UNCHANGED <<vars, driverVars, heard>>

-------------------------------------------------------------------------------
\* Faulty form: a frame once received is never stale.
UpdateStaleNever ==
  [f \in Frame |-> [health[f] EXCEPT !.stale = ~health[f].valid,
                                     !.age = UpTo(Timeout + 1, @ + 1)]]

\* cm200_update_stale, and the time up to the next period.
UpdateStale ==
  [f \in Frame |-> [health[f] EXCEPT !.stale = ~health[f].valid \/ health[f].age > Timeout,
                                     !.age = UpTo(Timeout + 1, @ + 1)]]

HealthOk(f) == health'[f].valid /\ ~health'[f].stale

\* cm200_has_immediate_fault, cm200_feedback_healthy, cm200_allows_torque.
Verdict ==
  IF timerFault \/ (health["state"].valid /\ content = "fault") THEN "faulted"
  ELSE IF ~(progress /\ (\A f \in Frame : HealthOk(f)) /\ content # "fault") THEN "silent"
  ELSE IF content = "ready" THEN "ready" ELSE "healthy"

\* The CM200 keeps its timer running while it is powered, or hangs; without
\* power it loses it.  A restarted one may pass the timer the driver holds.
RunClock ==
  \/ cascadiaOn' /\ clock \in {"same", "passed", "below"} /\ clock' = "passed"
  \/ cascadiaOn' /\ clock' = clock
  \/ ~cascadiaOn' /\ clock' = IF clock = "none" THEN "none" ELSE "below"

\* One period of the error task on these frames.
Supervision(low, hard, comms) ==
  /\ health' = UpdateStale
  /\ ErrorTask(low, hard, comms, Verdict)
  /\ Remember(low, hard, comms, Verdict)
  /\ RunClock
  /\ heard' = [f \in Frame |-> UpTo(Never, heard[f] + 1)]
  /\ restarted' =
       IF ~cascadiaOn' /\ cascadiaOn /\ health["timer"].valid THEN 0
       ELSE IF clock = "below" /\ clock' = "passed" THEN Never
       ELSE IF restarted >= Timeout + 2 THEN restarted
       ELSE restarted + 1
  /\ UNCHANGED <<content, progress, repeats, timerFault>>

FeedbackNext ==
  \/ (\E up \in BOOLEAN : SetRaised(up)) /\ UNCHANGED <<cmVars, watchVars>>
  \/ RequestTrip /\ UNCHANGED <<cmVars, watchVars>>
  \/ ReceiveTimer
  \/ \E c \in Content : ReceiveState(c)
  \/ \E f \in Frame : ReceiveMalformed(f)
  \/ Restart
  \/ \E low \in SUBSET Line, hard, comms \in BOOLEAN : Supervision(low, hard, comms)

FeedbackSpec == FeedbackInit /\ [][FeedbackNext]_feedbackVars

-------------------------------------------------------------------------------
FeedbackTypeOK ==
  /\ TypeOK
  /\ health \in [Frame -> [valid : BOOLEAN, stale : BOOLEAN, age : 0 .. Timeout + 1]]
  /\ content \in Content
  /\ progress \in BOOLEAN
  /\ repeats \in 0 .. RepeatLimit
  /\ timerFault \in BOOLEAN
  /\ clock \in Clock
  /\ heard \in [Frame -> 0 .. Never]
  /\ restarted \in 0 .. Never

\* A CM200 that was healthy once keeps its power only while each required
\* frame really arrived within the timeout and a period of the error task
\* ("loss of a required frame ... drops outputs",
\* CM200_CAN_CONTRACT_AND_BRINGUP.md:75).
EveryFrameHeard ==
  cascadiaOn /\ supervisor.everReady => \A f \in Frame : heard[f] <= Timeout + 1

\* A restart of the CM200, by itself or because its power was removed and
\* granted again, opens the shutdown circuit once frames from before it are
\* stale, and for good: only a malformed timer frame, or a timer that already
\* passed the one held, hides it.
RestartIsSeen == fwState => restarted \in {Never} \union 0 .. Timeout + 1

===============================================================================
