-------------------------- MODULE RefreshScheduler --------------------------
(***************************************************************************)
(* The refresh loop of backend/cmd/trmnl-remarkable/main.go: the trigger   *)
(* channel, the scheduler goroutine with its timer and backoff, the pacing *)
(* rules, the RTC wake alarm, suspend and resume, and the end of the       *)
(* process (cleanup, cancellation, exit, kill, next start).                *)
(*                                                                         *)
(* Time is relative: due, timer and rtc count ticks still to go, so the    *)
(* model needs no clock bound.  The monotonic timer stands still while the *)
(* tablet sleeps; the wall clock (tod, due) and the RTC do not.            *)
(***************************************************************************)
EXTENDS QuietHours, Sequences

CONSTANTS
  QueueCap,          \* capacity of the triggers channel (4)
  Prompts,           \* reasons the receive loop queues a trigger for
  Configs,           \* the settings a save may install
  Rates,             \* refresh_rate values of the server, 0 when absent
  RetryAfters,       \* Retry-After values of failures, 0 when absent
  DefaultRate,       \* 15 minutes
  UnconfiguredWait,  \* one hour
  FirstBackoff,      \* one minute
  BackoffLimit,      \* thirty minutes
  RetryAfterCap,     \* 24 hours
  SaverMultiplier,   \* config.BatterySaverMultiplier
  SaverMax,          \* config.BatterySaverMaxRefresh
  RtcMayFail         \* the RTC driver may refuse or garble a write

Config == [keyed : BOOLEAN, minimum : Nat \ {0}, saver : BOOLEAN,
           quiet : Window, wake : BOOLEAN]

ASSUME SchedulerAssumption ==
  /\ QueueCap \in Nat \ {0}
  /\ Configs # {}
  /\ Configs \subseteq Config
  /\ "scheduled" \notin Prompts
  /\ "resume" \in Prompts
  /\ Rates \subseteq Nat
  /\ RetryAfters \subseteq Nat
  /\ RtcMayFail \in BOOLEAN
  /\ {DefaultRate, UnconfiguredWait, FirstBackoff, BackoffLimit,
      RetryAfterCap, SaverMultiplier, SaverMax} \subseteq Nat \ {0}

Off == -1

VARIABLES
  cfg,         \* a.cfg, the settings in force
  tod,         \* local clock time
  awake,       \* the tablet is not suspended
  resumeDue,   \* the frontend has yet to send msgResume for the last wake-up
  life,        \* "running", "cleared", "cancelled", "exited", "killed"
  receiving,   \* main's receive loop still handles messages
  triggers,    \* a.triggers
  phase,       \* where the scheduler goroutine stands
  run,         \* the refresh it runs: its reason and the wait it asks for
  backoff,     \* scheduler's backoff
  timer,       \* ticks left on its timer, Off when stopped
  expired,     \* an unreceived value in timer.C
  due,         \* a.nextRefresh, in ticks from now; Off before the first
  alarmWanted, \* wakeEnabled as the last scheduleNext read it
  wakeError,   \* a.wakeAlarmError # ""
  hasRtc,      \* power.Discover found a wake alarm
  rtc          \* ticks until the RTC alarm, Off when none is set

clockVars == <<tod, awake, resumeDue>>
lifeVars == <<life, receiving>>
timerVars == <<timer, expired, due>>
alarmVars == <<alarmWanted, wakeError, rtc>>
vars == <<cfg, tod, awake, resumeDue, life, receiving, triggers, phase,
          run, backoff, timer, expired, due, alarmWanted, wakeError, hasRtc, rtc>>

Alive == life \in {"running", "cleared", "cancelled"}
Running == awake /\ Alive
NoRun == [reason |-> "none", wait |-> 0]

\* Doubled while below the limit, the backoff stays below twice the limit.
Backoffs == {b \in Nat \ {0} : b = FirstBackoff \/ b < 2 * BackoffLimit}

TypeOK ==
  /\ cfg \in Configs
  /\ tod \in ClockTime
  /\ awake \in BOOLEAN
  /\ resumeDue \in BOOLEAN
  /\ receiving \in BOOLEAN
  /\ expired \in BOOLEAN
  /\ alarmWanted \in BOOLEAN
  /\ wakeError \in BOOLEAN
  /\ hasRtc \in BOOLEAN
  /\ life \in {"running", "cleared", "cancelled", "exited", "killed"}
  /\ triggers \in Seq(Prompts)
  /\ Len(triggers) <= QueueCap
  /\ phase \in {"select", "fetch", "pace", "arm", "alarm", "stopped"}
  /\ run \in [reason : Prompts \cup {"scheduled", "none"}, wait : Nat]
  /\ backoff \in Backoffs
  /\ timer \in (Nat \ {0}) \cup {Off}
  /\ due \in Nat \cup {Off}
  /\ rtc \in (Nat \ {0}) \cup {Off}

Init ==
  /\ cfg \in Configs
  /\ tod \in ClockTime
  /\ awake = TRUE
  /\ resumeDue = FALSE
  /\ life = "running"
  /\ receiving = TRUE
  /\ triggers = <<>>
  /\ phase = "select"
  /\ run = NoRun
  /\ backoff = FirstBackoff
  /\ timer = Off
  /\ expired = FALSE
  /\ due = Off
  /\ alarmWanted = FALSE
  /\ wakeError = FALSE
  /\ hasRtc \in BOOLEAN
  /\ rtc = Off

-----------------------------------------------------------------------------
(* The receive loop. *)

\* Mutant: a buffer that grows instead of a bounded channel.
QueueUnbounded(reason) == triggers' = Append(triggers, reason)

\* app.queue: never blocks; drops the trigger when the channel is full.
Queue(reason) ==
  triggers' = IF Len(triggers) < QueueCap THEN Append(triggers, reason)
              ELSE triggers

\* msgInitialize, msgRefreshCurrent, msgNext, and msgResume when the app comes
\* to the front without a suspend.
Prompt(reason) ==
  /\ Running
  /\ receiving
  /\ Queue(reason)
  /\ UNCHANGED <<cfg, clockVars, lifeVars, phase, run, backoff, timerVars,
                 alarmVars, hasRtc>>

\* Mutant: msgResume only reapplies the brightness.
DeliverResumeQuietly ==
  /\ Running
  /\ receiving
  /\ resumeDue
  /\ resumeDue' = FALSE
  /\ UNCHANGED <<cfg, tod, awake, lifeVars, triggers, phase, run, backoff,
                 timerVars, alarmVars, hasRtc>>

\* The frontend becomes active again after a suspend and sends msgResume.
DeliverResume ==
  /\ Running
  /\ receiving
  /\ resumeDue
  /\ resumeDue' = FALSE
  /\ Queue("resume")
  /\ UNCHANGED <<cfg, tod, awake, lifeVars, phase, run, backoff, timerVars,
                 alarmVars, hasRtc>>

\* msgSaveConfig and msgResetSettings replace a.cfg; neither queues a refresh,
\* touches the timer nor programs the alarm.
SaveSettings(c) ==
  /\ Running
  /\ receiving
  /\ cfg' = c
  /\ UNCHANGED <<clockVars, lifeVars, triggers, phase, run, backoff,
                 timerVars, alarmVars, hasRtc>>

-----------------------------------------------------------------------------
(* The scheduler goroutine. *)

\* What run does with fetch's result: a success resets the backoff; a failure
\* without a delay of its own waits for the backoff, and doubles it.
Fetched(reason, ok, refresh) ==
  /\ run' = [reason |-> reason,
             wait |-> IF ok \/ refresh > 0 THEN refresh ELSE backoff]
  /\ backoff' = IF ok THEN FirstBackoff
                ELSE IF backoff < BackoffLimit THEN 2 * backoff ELSE backoff
  /\ phase' = "pace"

\* fetch returns at once without credentials, and when the context is already
\* cancelled; otherwise the request is on its way.
StartRun(reason) ==
  \/ ~cfg.keyed /\ Fetched(reason, TRUE, UnconfiguredWait)
  \/ cfg.keyed /\ life = "cancelled" /\ Fetched(reason, FALSE, 0)
  \/ /\ cfg.keyed
     /\ life # "cancelled"
     /\ run' = [reason |-> reason, wait |-> 0]
     /\ phase' = "fetch"
     /\ UNCHANGED backoff

\* Mutant: the trigger stays in the channel.
SelectTriggerPeek ==
  /\ Running
  /\ phase = "select"
  /\ triggers # <<>>
  /\ StartRun(Head(triggers))
  /\ UNCHANGED <<cfg, clockVars, lifeVars, triggers, timerVars, alarmVars,
                 hasRtc>>

SelectTrigger ==
  /\ Running
  /\ phase = "select"
  /\ triggers # <<>>
  /\ triggers' = Tail(triggers)
  /\ StartRun(Head(triggers))
  /\ UNCHANGED <<cfg, clockVars, lifeVars, timerVars, alarmVars, hasRtc>>

SelectTimer ==
  /\ Running
  /\ phase = "select"
  /\ expired
  /\ expired' = FALSE
  /\ StartRun("scheduled")
  /\ UNCHANGED <<cfg, clockVars, lifeVars, triggers, timer, due, alarmVars,
                 hasRtc>>

SelectDone ==
  /\ Running
  /\ phase = "select"
  /\ life = "cancelled"
  /\ phase' = "stopped"
  /\ UNCHANGED <<cfg, clockVars, lifeVars, triggers, run, backoff,
                 timerVars, alarmVars, hasRtc>>

\* The requests end: with a screen and the server's rate, or with a failure.
FetchSucceeds(rate) ==
  /\ Running
  /\ phase = "fetch"
  /\ Fetched(run.reason, TRUE, IF rate = 0 THEN DefaultRate ELSE rate)
  /\ UNCHANGED <<cfg, clockVars, lifeVars, triggers, timerVars, alarmVars,
                 hasRtc>>

\* retryDelay: the server's Retry-After, capped; 0 for every other failure.
FetchFails(after) ==
  /\ Running
  /\ phase = "fetch"
  /\ Fetched(run.reason, FALSE,
             IF after > RetryAfterCap THEN RetryAfterCap ELSE after)
  /\ UNCHANGED <<cfg, clockVars, lifeVars, triggers, timerVars, alarmVars,
                 hasRtc>>

AtLeast(n, m) == IF n < m THEN m ELSE n
AtMost(n, m) == IF n > m THEN m ELSE n

\* refreshInterval: the configured floor, then the battery saver's stretch.
RefreshInterval(c, low, refresh) ==
  LET floored == AtLeast(refresh, c.minimum)
  IN  IF c.saver /\ low THEN AtMost(SaverMultiplier * floored, SaverMax)
      ELSE floored

\* low: what the battery reads, at or below the threshold and not charging.
Pace(low) ==
  /\ Running
  /\ phase = "pace"
  /\ phase' = "arm"
  /\ run' = [run EXCEPT !.wait = RefreshInterval(cfg, low, @)]
  /\ UNCHANGED <<cfg, clockVars, lifeVars, triggers, backoff, timerVars,
                 alarmVars, hasRtc>>

\* Mutant: asks whether now, not the deadline, is in the window.
DeferredFromNow(c, clock, d) == d + NextActiveDelay(c.quiet, clock)

\* The wait, lengthened to the end of the quiet window when it would end in it.
Deferred(c, clock, d) == d + NextActiveDelay(c.quiet, (clock + d) % Day)

\* Mutant: Reset only when Stop finds the timer fired, so that a deadline that
\* replaces one still to come is left without a timer.
ResetTimerIfFired(d) == timer' = (IF timer = Off THEN d ELSE Off) /\ expired' = FALSE

\* resetTimer; a value still in timer.C is dropped, by its drain or by Go's Reset.
ResetTimer(d) == timer' = d /\ expired' = FALSE

\* Mutant: d is not recomputed for the deferred deadline.
ArmUndeferred ==
  /\ Running
  /\ phase = "arm"
  /\ phase' = "alarm"
  /\ due' = Deferred(cfg, tod, run.wait)
  /\ ResetTimer(run.wait)
  /\ alarmWanted' = cfg.wake
  /\ wakeError' = FALSE
  /\ UNCHANGED <<cfg, clockVars, lifeVars, triggers, run, backoff, hasRtc,
                 rtc>>

\* scheduleNext up to a.mu.Unlock: the deadline, the timer, the wish for a wake-up.
Arm ==
  /\ Running
  /\ phase = "arm"
  /\ phase' = "alarm"
  /\ due' = Deferred(cfg, tod, run.wait)
  /\ ResetTimer(due')
  /\ alarmWanted' = cfg.wake
  /\ wakeError' = FALSE
  /\ UNCHANGED <<cfg, clockVars, lifeVars, triggers, run, backoff, hasRtc,
                 rtc>>

\* Mutant: the alarm is set for the wait before its deferral.
RtcSetUndeferred == rtc' = run.wait /\ wakeError' = FALSE

\* power.RTC.Set: refuses a moment less than five seconds away; otherwise clears
\* the alarm, writes the new one and reads it back, and any of these may fail.
RtcSet ==
  \/ due > 0 /\ rtc' = due /\ wakeError' = FALSE
  \/ due = 0 /\ wakeError' = TRUE /\ rtc' = rtc
  \/ due > 0 /\ RtcMayFail /\ wakeError' = TRUE /\ rtc' \in {rtc, Off, due}

RtcClear ==
  \/ rtc' = Off /\ wakeError' = FALSE
  \/ RtcMayFail /\ rtc' = rtc /\ wakeError' = TRUE

\* The rest of scheduleNext; wakeError also tells that there is no alarm to set.
ProgramAlarm ==
  /\ Running
  /\ phase = "alarm"
  /\ phase' = "select"
  /\ run' = NoRun
  /\ \/ hasRtc /\ alarmWanted /\ RtcSet
     \/ hasRtc /\ ~alarmWanted /\ RtcClear
     \/ ~hasRtc /\ wakeError' = alarmWanted /\ UNCHANGED rtc
  /\ UNCHANGED <<cfg, clockVars, lifeVars, triggers, backoff, timerVars,
                 alarmWanted, hasRtc>>

-----------------------------------------------------------------------------
(* The end of the process and the next start. *)

\* cleanup up to wake.Clear, by the signal goroutine (the receive loop goes on)
\* or by main after the loop.  A failed Clear is only logged.
CleanupClear ==
  /\ Running
  /\ life = "running"
  /\ life' = "cleared"
  /\ receiving' \in BOOLEAN
  /\ rtc' \in (IF hasRtc THEN {Off} ELSE {rtc}) \cup (IF RtcMayFail THEN {rtc} ELSE {})
  /\ UNCHANGED <<cfg, clockVars, triggers, phase, run, backoff, timerVars,
                 alarmWanted, wakeError, hasRtc>>

\* a.cancel(), the last call of cleanup.
CleanupCancel ==
  /\ Running
  /\ life = "cleared"
  /\ life' = "cancelled"
  /\ UNCHANGED <<cfg, clockVars, receiving, triggers, phase, run, backoff,
                 timerVars, alarmVars, hasRtc>>

\* What a process that ends leaves behind: the settings on disk and the alarm.
Gone(how) ==
  /\ life' = how
  /\ receiving' = FALSE
  /\ resumeDue' = FALSE
  /\ triggers' = <<>>
  /\ phase' = "stopped"
  /\ run' = NoRun
  /\ backoff' = FirstBackoff
  /\ timer' = Off
  /\ expired' = FALSE
  /\ due' = Off
  /\ alarmWanted' = FALSE
  /\ wakeError' = FALSE
  /\ UNCHANGED <<cfg, tod, awake, hasRtc, rtc>>

\* main returns: it waits for no goroutine.
Exit ==
  /\ Running
  /\ life = "cancelled"
  /\ Gone("exited")

Kill ==
  /\ Running
  /\ Gone("killed")

\* The next process starts; it does not touch the alarm before its first refresh.
Start ==
  /\ awake
  /\ ~Alive
  /\ life' = "running"
  /\ receiving' = TRUE
  /\ phase' = "select"
  /\ UNCHANGED <<cfg, clockVars, triggers, run, backoff, timerVars,
                 alarmVars, hasRtc>>

-----------------------------------------------------------------------------
(* The tablet. *)

Suspend ==
  /\ awake
  /\ awake' = FALSE
  /\ UNCHANGED <<cfg, tod, resumeDue, lifeVars, triggers, phase, run,
                 backoff, timerVars, alarmVars, hasRtc>>

\* Waking up brings the frontend to the front when it is there.
Woken ==
  /\ awake' = TRUE
  /\ resumeDue' = (resumeDue \/ Alive)

WakeUp ==
  /\ ~awake
  /\ Woken
  /\ UNCHANGED <<cfg, tod, lifeVars, triggers, phase, run, backoff,
                 timerVars, alarmVars, hasRtc>>

Countdown(n) == IF n > 0 THEN n - 1 ELSE n

\* A tick: the timer runs only while awake; an alarm that goes off wakes the tablet.
Tick ==
  /\ tod' = (tod + 1) % Day
  /\ due' = Countdown(due)
  /\ rtc' = IF rtc = 1 THEN Off ELSE Countdown(rtc)
  /\ timer' = IF ~awake THEN timer ELSE IF timer = 1 THEN Off ELSE Countdown(timer)
  /\ expired' = (expired \/ (awake /\ timer = 1))
  /\ IF rtc = 1 /\ ~awake THEN Woken ELSE UNCHANGED <<awake, resumeDue>>
  /\ UNCHANGED <<cfg, lifeVars, triggers, phase, run, backoff, alarmWanted,
                 wakeError, hasRtc>>

-----------------------------------------------------------------------------
Next ==
  \/ \E reason \in Prompts : Prompt(reason)
  \/ DeliverResume
  \/ \E c \in Configs : SaveSettings(c)
  \/ SelectTrigger
  \/ SelectTimer
  \/ SelectDone
  \/ \E rate \in Rates : FetchSucceeds(rate)
  \/ \E after \in RetryAfters : FetchFails(after)
  \/ \E low \in BOOLEAN : Pace(low)
  \/ Arm
  \/ ProgramAlarm
  \/ CleanupClear
  \/ CleanupCancel
  \/ Exit
  \/ Kill
  \/ Start
  \/ Suspend
  \/ WakeUp
  \/ Tick

\* Go runs a ready goroutine, select picks among ready cases at random, the HTTP
\* client's timeouts end every request, cleanup once begun goes on to main's
\* return, and time passes.  Nothing obliges the owner, the server's answers or
\* the power switch.
Fairness ==
  /\ WF_vars(Tick)
  /\ WF_vars(DeliverResume)
  /\ SF_vars(SelectTrigger)
  /\ SF_vars(SelectTimer)
  /\ SF_vars(\E rate \in Rates : FetchSucceeds(rate)
             \/ \E after \in RetryAfters : FetchFails(after))
  /\ SF_vars(\E low \in BOOLEAN : Pace(low))
  /\ SF_vars(Arm)
  /\ SF_vars(ProgramAlarm)
  /\ SF_vars(CleanupCancel)
  /\ SF_vars(Exit)

Spec == Init /\ [][Next]_vars
FairSpec == Spec /\ Fairness

-----------------------------------------------------------------------------
(* What the scheduler keeps. *)

\* A timer that runs, or that has expired, is never ahead of the deadline shown
\* to the owner: resetTimer leaves no value of an earlier deadline behind.  Nor is
\* it lost: whenever the scheduler waits, something will end the wait.
TimerMatchesDeadline ==
  /\ timer # Off => due # Off /\ due <= timer /\ ~expired
  /\ expired => due = 0
  /\ due # Off /\ phase \in {"alarm", "select"} => timer # Off \/ expired

\* What may keep an unattended tablet from its next refresh: the process has ended,
\* no alarm could be set, or the tablet went to sleep with work still pending,
\* before the next alarm was programmed.
Busy == phase # "select" \/ triggers # <<>> \/ expired \/ resumeDue \/ due = Off

Interrupted ==
  \/ life # "running"
  \/ ~receiving
  \/ ~hasRtc
  \/ ~alarmWanted
  \/ wakeError
  \/ ~awake /\ Busy

\* While the process runs and no scheduleNext is under way, the alarm is set
\* for the announced deadline when a wake-up was wished for, and is off when it
\* was not, unless wake_alarm_error tells the owner otherwise.  And whenever the
\* tablet sleeps without one of the interruptions, the deadline is still to come
\* and the alarm is set for it.
AlarmMatchesDeadline ==
  /\ (life = "running" /\ phase # "alarm" /\ due # Off /\ hasRtc /\ ~wakeError)
       => rtc = IF alarmWanted /\ due > 0 THEN due ELSE Off
  /\ ~awake /\ ~Interrupted => due > 0 /\ rtc = due

\* The deadline announced is the first moment from the end of the wait on that is
\* outside the quiet window of the settings it is computed from: never one inside,
\* and not a tick later than that, whatever the hour, the wait and the window's wrap.
DeadlineIsFirstActive ==
  [][phase = "arm" /\ phase' = "alarm"
       => /\ ~InQuietHours(cfg.quiet, (tod' + due') % Day)
          /\ due' >= run.wait
          /\ \A d \in run.wait .. due' - 1 : InQuietHours(cfg.quiet, (tod' + d) % Day)]_vars

PromiseRunning ==
  CASE phase \in {"select", "stopped"} -> "none"
    [] phase = "alarm" -> "announced"
    [] OTHER -> IF run.reason = "scheduled" THEN "deadline" ELSE "asked"

Promise == INSTANCE RefreshPromise WITH
  MaxAsked <- QueueCap, up <- Alive, asked <- Len(triggers),
  running <- PromiseRunning, wait <- due

\* A refresh runs only for a trigger or a passed deadline, and only a refresh
\* moves the deadline: see RefreshPromise.
KeepsPromise == Promise!PSpec

\* The scheduler never stops taking triggers: a full channel gets room again
\* as long as the tablet is awake now and then.
FullQueueDrains ==
  []<>awake => (Len(triggers) = QueueCap ~> Len(triggers) < QueueCap)

\* With the wake-up wished for and the alarm accepted, an unattended tablet keeps
\* refreshing for ever, unless it is interrupted again and again.
KeepsRefreshing == []<>Interrupted \/ []<>(phase \in {"fetch", "pace"})
=============================================================================
