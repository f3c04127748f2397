----------------------- MODULE RefreshSchedulerProofs -----------------------
(***************************************************************************)
(* Theorems of RefreshScheduler, for every queue length, day length, set   *)
(* of settings and set of server answers.                                  *)
(***************************************************************************)
EXTENDS RefreshScheduler, TLAPS

\* A clock time stays one after any number of ticks.
LEMMA ClockWraps ==
  ASSUME NEW n \in Int
  PROVE  n % Day \in ClockTime
  BY DayAssumption DEF ClockTime

\* The quiet-hours deferral never moves a moment backwards, and stays below a day.
LEMMA DelayIsNat ==
  ASSUME NEW w \in Window, NEW t \in ClockTime
  PROVE  NextActiveDelay(w, t) \in Nat
  BY DayAssumption DEF NextActiveDelay, InQuietHours, Window, ClockTime

\* The deadline of a positive wait is a positive number of ticks away.
LEMMA DeferredIsPositive ==
  ASSUME NEW c \in Config, NEW clock \in ClockTime, NEW d \in Nat \ {0}
  PROVE  Deferred(c, clock, d) \in Nat \ {0}
  <1>1. clock + d \in Int
    BY DayAssumption DEF ClockTime
  <1>2. (clock + d) % Day \in ClockTime
    BY <1>1, ClockWraps
  <1>3. NextActiveDelay(c.quiet, (clock + d) % Day) \in Nat
    BY <1>2, DelayIsNat DEF Config
  <1> QED
    BY <1>3 DEF Deferred

\* Whatever the server asks for, the paced interval is positive.
LEMMA IntervalIsPositive ==
  ASSUME NEW c \in Config, NEW low \in BOOLEAN, NEW refresh \in Nat
  PROVE  RefreshInterval(c, low, refresh) \in Nat \ {0}
  <1> DEFINE floored == AtLeast(refresh, c.minimum)
  <1>1. floored \in Nat \ {0}
    BY DEF AtLeast, Config
  <1>2. SaverMultiplier \in Nat \ {0} /\ SaverMax \in Nat \ {0}
    BY SchedulerAssumption
  <1>3. SaverMultiplier * floored \in Nat \ {0}
    BY <1>1, <1>2
  <1> HIDE DEF floored
  <1>4. AtMost(SaverMultiplier * floored, SaverMax) \in Nat \ {0}
    BY <1>2, <1>3 DEF AtMost
  <1> QED
    BY <1>1, <1>4 DEF RefreshInterval, floored

-----------------------------------------------------------------------------
(* The inductive invariant.  TypeOK is not inductive by itself: that a timer  *)
(* is armed for a positive time needs the interval positive while it waits    *)
(* in "arm", and that a start finds no old deadline needs the ended process   *)
(* to have left neither a deadline nor a refresh.                             *)

WaitIsPositive == phase = "arm" => run.wait > 0

EndLeavesNothing == ~Alive => due = Off /\ phase = "stopped"

\* The first half of AlarmMatchesDeadline, which needs no history of the sleep.
AlarmSet ==
  (life = "running" /\ phase # "alarm" /\ due # Off /\ hasRtc /\ ~wakeError)
    => rtc = IF alarmWanted /\ due > 0 THEN due ELSE Off

\* A timer that has fallen behind the deadline in a suspend does not stay so: the
\* wake-up's resume, or a trigger that is there already, rearms it.
KeepsPace ==
  life = "running" /\ receiving /\ awake /\ phase \in {"alarm", "select"}
    /\ ~resumeDue /\ triggers = <<>>
  => due = Off \/ expired \/ timer = due

SleepsBeforeDeadline == ~awake /\ ~Interrupted => due > 0

IInv ==
  /\ TypeOK
  /\ WaitIsPositive
  /\ EndLeavesNothing
  /\ TimerMatchesDeadline
  /\ AlarmSet
  /\ KeepsPace
  /\ SleepsBeforeDeadline

\* Every initial state satisfies the invariant.
LEMMA InitIInv == Init => IInv
  <1> SUFFICES ASSUME Init PROVE IInv
    OBVIOUS
  <1> DEFINE empty == <<>>
  <1>e. empty \in Seq(Prompts) /\ Len(empty) = 0
    OBVIOUS
  <1>c. FirstBackoff \in Backoffs /\ QueueCap \in Nat \ {0}
    BY SchedulerAssumption DEF Backoffs
  <1>t. triggers \in Seq(Prompts) /\ Len(triggers) <= QueueCap
    BY <1>e, <1>c DEF Init
  <1>1. TypeOK
    BY <1>t, <1>c DEF Init, TypeOK, NoRun, Off
  <1> QED
    BY <1>1 DEF Init, IInv, WaitIsPositive, EndLeavesNothing, Alive,
        TimerMatchesDeadline, AlarmSet, KeepsPace, SleepsBeforeDeadline, Off

\* What fetch leaves for the scheduler is well typed: a natural wait, and a
\* backoff that stays positive.
LEMMA FetchedTypes ==
  ASSUME TypeOK, NEW reason \in Prompts \cup {"scheduled", "none"}, NEW ok \in BOOLEAN,
         NEW refresh \in Nat, Fetched(reason, ok, refresh)
  PROVE  /\ run' \in [reason : Prompts \cup {"scheduled", "none"}, wait : Nat]
         /\ backoff' \in Backoffs
         /\ phase' = "pace"
  <1>1. backoff \in Backoffs /\ backoff \in Nat \ {0}
    BY DEF TypeOK, Backoffs
  <1>2. FirstBackoff \in Nat \ {0} /\ BackoffLimit \in Nat \ {0}
    BY SchedulerAssumption
  <1>3. FirstBackoff \in Backoffs
    BY <1>2 DEF Backoffs
  <1>4. backoff < BackoffLimit => 2 * backoff \in Backoffs
    BY <1>1, <1>2 DEF Backoffs
  <1> QED
    BY <1>1, <1>2, <1>3, <1>4 DEF Fetched

\* So is what a run starts with.
LEMMA StartRunTypes ==
  ASSUME TypeOK, NEW reason \in Prompts \cup {"scheduled"}, StartRun(reason)
  PROVE  /\ run' \in [reason : Prompts \cup {"scheduled", "none"}, wait : Nat]
         /\ backoff' \in Backoffs
         /\ phase' \in {"fetch", "pace"}
  <1>1. UnconfiguredWait \in Nat
    BY SchedulerAssumption
  <1>2. CASE Fetched(reason, TRUE, UnconfiguredWait)
    BY <1>1, <1>2, FetchedTypes
  <1>3. CASE Fetched(reason, FALSE, 0)
    BY <1>3, FetchedTypes
  <1>4. CASE /\ run' = [reason |-> reason, wait |-> 0]
             /\ phase' = "fetch"
             /\ UNCHANGED backoff
    BY <1>4 DEF TypeOK
  <1> QED
    BY <1>2, <1>3, <1>4 DEF StartRun

\* A queued trigger is one of the prompts, and the channel keeps its bound.
LEMMA QueueTypes ==
  ASSUME TypeOK, NEW reason \in Prompts, Queue(reason)
  PROVE  triggers' \in Seq(Prompts) /\ Len(triggers') <= QueueCap
  BY SchedulerAssumption DEF TypeOK, Queue

\* Every step keeps the types.
LEMMA TypeStep ==
  ASSUME IInv, [Next]_vars
  PROVE  TypeOK'
  <1> USE DEF IInv, TypeOK
  <1>1. ASSUME NEW reason \in Prompts, Prompt(reason)
        PROVE  TypeOK'
    BY <1>1, QueueTypes DEF Prompt, clockVars, lifeVars, timerVars, alarmVars
  <1>2. CASE DeliverResume
    <2>1. "resume" \in Prompts
      BY SchedulerAssumption
    <2>2. triggers' \in Seq(Prompts) /\ Len(triggers') <= QueueCap
      BY <1>2, <2>1, QueueTypes DEF DeliverResume
    <2>3. resumeDue' \in BOOLEAN
      BY <1>2 DEF DeliverResume
    <2>4. UNCHANGED <<cfg, tod, awake, life, receiving, phase, run, backoff, timer,
                      expired, due, alarmWanted, wakeError, rtc, hasRtc>>
      BY <1>2 DEF DeliverResume, lifeVars, timerVars, alarmVars
    <2> QED
      BY <2>2, <2>3, <2>4
  <1>3. ASSUME NEW c \in Configs, SaveSettings(c)
        PROVE  TypeOK'
    BY <1>3 DEF SaveSettings, clockVars, lifeVars, timerVars, alarmVars
  <1>4. CASE SelectTrigger
    <2>1. Head(triggers) \in Prompts
      BY <1>4 DEF SelectTrigger
    <2>2. triggers' \in Seq(Prompts) /\ Len(triggers') <= QueueCap
      BY <1>4, SchedulerAssumption DEF SelectTrigger
    <2>3. /\ run' \in [reason : Prompts \cup {"scheduled", "none"}, wait : Nat]
          /\ backoff' \in Backoffs
          /\ phase' \in {"fetch", "pace"}
      BY <1>4, <2>1, StartRunTypes DEF SelectTrigger
    <2> QED
      BY <1>4, <2>2, <2>3
      DEF SelectTrigger, clockVars, lifeVars, timerVars, alarmVars
  <1>5. CASE SelectTimer
    <2>1. /\ run' \in [reason : Prompts \cup {"scheduled", "none"}, wait : Nat]
          /\ backoff' \in Backoffs
          /\ phase' \in {"fetch", "pace"}
      BY <1>5, StartRunTypes DEF SelectTimer
    <2>2. expired' \in BOOLEAN
      BY <1>5 DEF SelectTimer
    <2>3. UNCHANGED <<cfg, tod, awake, resumeDue, life, receiving, triggers, timer,
                      due, alarmWanted, wakeError, rtc, hasRtc>>
      BY <1>5 DEF SelectTimer, clockVars, lifeVars, alarmVars
    <2> QED
      BY <2>1, <2>2, <2>3
  <1>6. CASE SelectDone
    BY <1>6 DEF SelectDone, clockVars, lifeVars, timerVars, alarmVars
  <1>7. ASSUME NEW rate \in Rates, FetchSucceeds(rate)
        PROVE  TypeOK'
    <2> DEFINE refresh == IF rate = 0 THEN DefaultRate ELSE rate
    <2>1. refresh \in Nat
      BY SchedulerAssumption
    <2>2. run.reason \in Prompts \cup {"scheduled", "none"}
      OBVIOUS
    <2>3. Fetched(run.reason, TRUE, refresh)
      BY <1>7 DEF FetchSucceeds
    <2>4. /\ run' \in [reason : Prompts \cup {"scheduled", "none"}, wait : Nat]
          /\ backoff' \in Backoffs
          /\ phase' = "pace"
      BY <2>1, <2>2, <2>3, FetchedTypes
    <2> QED
      BY <1>7, <2>4
      DEF FetchSucceeds, clockVars, lifeVars, timerVars, alarmVars
  <1>8. ASSUME NEW after \in RetryAfters, FetchFails(after)
        PROVE  TypeOK'
    <2> DEFINE refresh == IF after > RetryAfterCap THEN RetryAfterCap ELSE after
    <2>1. refresh \in Nat
      BY SchedulerAssumption
    <2>2. run.reason \in Prompts \cup {"scheduled", "none"}
      OBVIOUS
    <2>3. Fetched(run.reason, FALSE, refresh)
      BY <1>8 DEF FetchFails
    <2>4. /\ run' \in [reason : Prompts \cup {"scheduled", "none"}, wait : Nat]
          /\ backoff' \in Backoffs
          /\ phase' = "pace"
      BY <2>1, <2>2, <2>3, FetchedTypes
    <2> QED
      BY <1>8, <2>4
      DEF FetchFails, clockVars, lifeVars, timerVars, alarmVars
  <1>9. ASSUME NEW low \in BOOLEAN, Pace(low)
        PROVE  TypeOK'
    <2>1. cfg \in Config
      BY SchedulerAssumption
    <2>2. RefreshInterval(cfg, low, run.wait) \in Nat
      BY <2>1, IntervalIsPositive
    <2> QED
      BY <1>9, <2>2 DEF Pace, clockVars, lifeVars, timerVars, alarmVars
  <1>10. CASE Arm
    <2>1. cfg \in Config
      BY SchedulerAssumption
    <2>2. run.wait \in Nat \ {0}
      BY <1>10 DEF Arm, WaitIsPositive
    <2>3. Deferred(cfg, tod, run.wait) \in Nat \ {0}
      BY <2>1, <2>2, DeferredIsPositive
    <2>4. cfg.wake \in BOOLEAN
      BY <2>1 DEF Config
    <2> QED
      BY <1>10, <2>3, <2>4 DEF Arm, ResetTimer, clockVars, lifeVars
  <1>11. CASE ProgramAlarm
    <2>1. CASE RtcSet
      <3>1. rtc' \in (Nat \ {0}) \cup {Off}
        BY <2>1 DEF RtcSet, Off
      <3>2. wakeError' \in BOOLEAN
        BY <2>1 DEF RtcSet
      <3> QED
        BY <1>11, <3>1, <3>2
        DEF ProgramAlarm, NoRun, clockVars, lifeVars, timerVars
    <2>2. CASE RtcClear
      <3>1. rtc' \in (Nat \ {0}) \cup {Off}
        BY <2>2 DEF RtcClear
      <3>2. wakeError' \in BOOLEAN
        BY <2>2 DEF RtcClear
      <3> QED
        BY <1>11, <3>1, <3>2
        DEF ProgramAlarm, NoRun, clockVars, lifeVars, timerVars
    <2>3. CASE wakeError' = alarmWanted /\ UNCHANGED rtc
      BY <1>11, <2>3 DEF ProgramAlarm, NoRun, clockVars, lifeVars, timerVars
    <2> QED
      BY <1>11, <2>1, <2>2, <2>3 DEF ProgramAlarm
  <1>12. CASE CleanupClear
    BY <1>12 DEF CleanupClear, clockVars, timerVars
  <1>13. CASE CleanupCancel
    BY <1>13 DEF CleanupCancel, clockVars, timerVars, alarmVars
  <1>14. ASSUME NEW how \in {"exited", "killed"}, Gone(how)
         PROVE  TypeOK'
    <2> DEFINE empty == <<>>
    <2>1. empty \in Seq(Prompts) /\ Len(empty) = 0
      OBVIOUS
    <2>2. FirstBackoff \in Backoffs /\ QueueCap \in Nat \ {0}
      BY SchedulerAssumption DEF Backoffs
    <2>3. triggers' \in Seq(Prompts) /\ Len(triggers') <= QueueCap
      BY <1>14, <2>1, <2>2 DEF Gone
    <2> QED
      BY <1>14, <2>2, <2>3 DEF Gone, NoRun
  <1>15. CASE Start
    BY <1>15 DEF Start, clockVars, timerVars, alarmVars
  <1>16. CASE Suspend
    <2>1. awake' \in BOOLEAN
      BY <1>16 DEF Suspend
    <2>2. UNCHANGED <<cfg, tod, resumeDue, life, receiving, triggers, phase, run,
                      backoff, timer, expired, due, alarmWanted, wakeError, rtc,
                      hasRtc>>
      BY <1>16 DEF Suspend, lifeVars, timerVars, alarmVars
    <2> QED
      BY <2>1, <2>2
  <1>17. CASE WakeUp
    <2>1. awake' \in BOOLEAN /\ resumeDue' \in BOOLEAN
      BY <1>17 DEF WakeUp, Woken
    <2>2. UNCHANGED <<cfg, tod, life, receiving, triggers, phase, run, backoff, timer,
                      expired, due, alarmWanted, wakeError, rtc, hasRtc>>
      BY <1>17 DEF WakeUp, lifeVars, timerVars, alarmVars
    <2> QED
      BY <2>1, <2>2
  <1>18. CASE Tick
    <2>1. tod' \in ClockTime
      <3>1. tod + 1 \in Int
        BY DayAssumption DEF ClockTime
      <3> QED
        BY <1>18, <3>1, ClockWraps DEF Tick
    <2>2. awake' \in BOOLEAN /\ resumeDue' \in BOOLEAN
      BY <1>18 DEF Tick, Woken, Alive
    <2>3. /\ due' \in Nat \cup {Off}
          /\ rtc' \in (Nat \ {0}) \cup {Off}
          /\ timer' \in (Nat \ {0}) \cup {Off}
      BY <1>18 DEF Tick, Countdown, Off
    <2>4. expired' \in BOOLEAN
      BY <1>18 DEF Tick
    <2> QED
      BY <1>18, <2>1, <2>2, <2>3, <2>4 DEF Tick, lifeVars
  <1>19. CASE UNCHANGED vars
    BY <1>19 DEF vars
  <1> QED
    BY <1>1, <1>2, <1>3, <1>4, <1>5, <1>6, <1>7, <1>8, <1>9, <1>10, <1>11,
       <1>12, <1>13, <1>14, <1>15, <1>16, <1>17, <1>18, <1>19
    DEF Next, Exit, Kill

\* What is left of the invariant holds after a step that leaves the timer, the
\* deadline and the alarm alone, provided it starts no process.
RestOfIInv ==
  /\ WaitIsPositive
  /\ EndLeavesNothing
  /\ TimerMatchesDeadline
  /\ AlarmSet

LEMMA BystanderStep ==
  ASSUME IInv,
         UNCHANGED <<timer, expired, due, alarmWanted, wakeError, rtc, hasRtc>>,
         life' = "running" => life = "running",
         Alive \/ ~Alive',
         ~Alive' => ~Alive,
         ~Alive => phase' = phase,
         phase = "alarm" => phase' = "alarm",
         phase' \in {"alarm", "select"} => phase \in {"alarm", "select"},
         phase' = "arm" => run'.wait > 0
  PROVE  RestOfIInv'
  BY DEF IInv, RestOfIInv, WaitIsPositive, EndLeavesNothing, TimerMatchesDeadline,
     AlarmSet

\* Every step keeps the rest of the invariant.
LEMMA RestStep ==
  ASSUME IInv, [Next]_vars
  PROVE  RestOfIInv'
  <1> USE DEF IInv
  <1>w. phase = "arm" => run.wait > 0
    BY DEF WaitIsPositive
  <1>1. ASSUME NEW reason \in Prompts, Prompt(reason)
        PROVE  RestOfIInv'
    BY <1>1, <1>w, BystanderStep
    DEF Prompt, clockVars, lifeVars, timerVars, alarmVars, Alive, Running
  <1>2. CASE DeliverResume
    BY <1>2, <1>w, BystanderStep
    DEF DeliverResume, lifeVars, timerVars, alarmVars, Alive, Running
  <1>3. ASSUME NEW c \in Configs, SaveSettings(c)
        PROVE  RestOfIInv'
    BY <1>3, <1>w, BystanderStep
    DEF SaveSettings, clockVars, lifeVars, timerVars, alarmVars, Alive, Running
  <1>4. CASE SelectTrigger
    <2>1. phase = "select" /\ phase' \in {"fetch", "pace"}
      BY <1>4 DEF SelectTrigger, StartRun, Fetched
    <2> QED
      BY <1>4, <2>1, BystanderStep
      DEF SelectTrigger, clockVars, lifeVars, timerVars, alarmVars, Alive, Running
  <1>5. CASE SelectTimer
    <2>1. phase = "select" /\ phase' \in {"fetch", "pace"}
      BY <1>5 DEF SelectTimer, StartRun, Fetched
    <2>2. /\ UNCHANGED <<life, timer, due, alarmWanted, wakeError, rtc, hasRtc>>
          /\ expired' = FALSE
      BY <1>5 DEF SelectTimer, lifeVars, alarmVars
    <2>3. TimerMatchesDeadline'
      BY <2>1, <2>2 DEF TimerMatchesDeadline
    <2>4. WaitIsPositive' /\ EndLeavesNothing'
      BY <2>1, <2>2 DEF WaitIsPositive, EndLeavesNothing, Alive
    <2>5. AlarmSet'
      BY <2>1, <2>2 DEF AlarmSet
    <2> QED
      BY <2>3, <2>4, <2>5 DEF RestOfIInv
  <1>6. CASE SelectDone
    BY <1>6, <1>w, BystanderStep
    DEF SelectDone, clockVars, lifeVars, timerVars, alarmVars, Alive, Running
  <1>7. ASSUME NEW rate \in Rates, FetchSucceeds(rate)
        PROVE  RestOfIInv'
    <2>1. phase = "fetch" /\ phase' = "pace"
      BY <1>7 DEF FetchSucceeds, Fetched
    <2> QED
      BY <1>7, <2>1, BystanderStep
      DEF FetchSucceeds, clockVars, lifeVars, timerVars, alarmVars, Alive, Running
  <1>8. ASSUME NEW after \in RetryAfters, FetchFails(after)
        PROVE  RestOfIInv'
    <2>1. phase = "fetch" /\ phase' = "pace"
      BY <1>8 DEF FetchFails, Fetched
    <2> QED
      BY <1>8, <2>1, BystanderStep
      DEF FetchFails, clockVars, lifeVars, timerVars, alarmVars, Alive, Running
  <1>9. ASSUME NEW low \in BOOLEAN, Pace(low)
        PROVE  RestOfIInv'
    <2>1. cfg \in Config
      BY SchedulerAssumption DEF TypeOK
    <2>w. run.wait \in Nat
      BY DEF TypeOK
    <2>i. RefreshInterval(cfg, low, run.wait) \in Nat \ {0}
      BY <2>1, <2>w, IntervalIsPositive
    <2>2. RefreshInterval(cfg, low, run.wait) > 0
      BY <2>i
    <2>3. run' = [run EXCEPT !.wait = RefreshInterval(cfg, low, run.wait)]
      BY <1>9 DEF Pace
    <2>4. run'.wait > 0
      BY <2>2, <2>3 DEF TypeOK
    <2> QED
      BY <1>9, <2>4, BystanderStep
      DEF Pace, clockVars, lifeVars, timerVars, alarmVars, Alive, Running
  <1>10. CASE Arm
    <2>1. cfg \in Config
      BY SchedulerAssumption DEF TypeOK
    <2>2. run.wait \in Nat \ {0}
      BY <1>10, <1>w DEF Arm, TypeOK
    <2>3. due' \in Nat \ {0}
      BY <1>10, <2>1, <2>2, DeferredIsPositive DEF Arm, TypeOK
    <2>4. phase' = "alarm" /\ timer' = due' /\ expired' = FALSE /\ life' = life
      BY <1>10 DEF Arm, ResetTimer, lifeVars
    <2>5. Alive
      BY <1>10 DEF Arm, Running
    <2>6. TimerMatchesDeadline'
      BY <2>3, <2>4 DEF TimerMatchesDeadline, Off
    <2> QED
      BY <2>4, <2>5, <2>6
      DEF RestOfIInv, WaitIsPositive, EndLeavesNothing, AlarmSet,
          Alive
  <1>11. CASE ProgramAlarm
    <2>1. /\ phase = "alarm" /\ phase' = "select"
          /\ UNCHANGED <<timer, expired, due, alarmWanted, hasRtc, life>>
      BY <1>11 DEF ProgramAlarm, timerVars, lifeVars
    <2>2. hasRtc /\ ~wakeError' => rtc' = IF alarmWanted /\ due > 0 THEN due ELSE Off
      BY <1>11 DEF ProgramAlarm, RtcSet, RtcClear
    <2>3. AlarmSet'
      BY <2>1, <2>2 DEF AlarmSet
    <2>4. Alive
      BY <1>11 DEF ProgramAlarm, Running
    <2> QED
      BY <2>1, <2>3, <2>4
      DEF RestOfIInv, WaitIsPositive, EndLeavesNothing, TimerMatchesDeadline, Alive
  <1>12. CASE CleanupClear
    <2>1. /\ life = "running" /\ life' = "cleared"
          /\ UNCHANGED <<timer, expired, due, phase, run>>
      BY <1>12 DEF CleanupClear, timerVars
    <2> QED
      BY <2>1
      DEF RestOfIInv, WaitIsPositive, EndLeavesNothing, TimerMatchesDeadline,
          AlarmSet, Alive
  <1>13. CASE CleanupCancel
    BY <1>13, <1>w, BystanderStep
    DEF CleanupCancel, clockVars, timerVars, alarmVars, Alive, Running
  <1>14. ASSUME NEW how \in {"exited", "killed"}, Gone(how)
         PROVE  RestOfIInv'
    <2>1. /\ life' = how /\ phase' = "stopped" /\ timer' = Off
          /\ expired' = FALSE /\ due' = Off
      BY <1>14 DEF Gone
    <2> QED
      BY <2>1
      DEF RestOfIInv, WaitIsPositive, EndLeavesNothing, TimerMatchesDeadline,
          AlarmSet
  <1>15. CASE Start
    <2>1. /\ due = Off /\ phase' = "select"
          /\ life' = "running"
          /\ UNCHANGED <<timer, expired, due>>
      BY <1>15 DEF Start, EndLeavesNothing, timerVars
    <2> QED
      BY <2>1
      DEF RestOfIInv, WaitIsPositive, EndLeavesNothing, TimerMatchesDeadline,
          AlarmSet, Alive
  <1>16. CASE Suspend
    BY <1>16, <1>w, BystanderStep
    DEF Suspend, lifeVars, timerVars, alarmVars, Alive, Running
  <1>17. CASE WakeUp
    BY <1>17, <1>w, BystanderStep
    DEF WakeUp, lifeVars, timerVars, alarmVars, Alive, Running
  <1>18. CASE Tick
    <2>1. /\ due' = Countdown(due)
          /\ rtc' = IF rtc = 1 THEN Off ELSE Countdown(rtc)
          /\ UNCHANGED <<life, phase, run, alarmWanted, wakeError, hasRtc>>
      BY <1>18 DEF Tick, lifeVars
    <2>2. /\ timer' \in {timer, IF timer = 1 THEN Off ELSE Countdown(timer)}
          /\ expired' <=> expired \/ (timer = 1 /\ timer' = Off)
          /\ timer # 1 => (timer' = Off <=> timer = Off)
      BY <1>18 DEF Tick, TypeOK, Countdown, Off
    <2>3. due \in Nat \cup {Off} /\ timer \in (Nat \ {0}) \cup {Off}
          /\ rtc \in (Nat \ {0}) \cup {Off}
      BY DEF TypeOK
    <2>4. TimerMatchesDeadline'
      BY <2>1, <2>2, <2>3 DEF TimerMatchesDeadline, Countdown, Off
    <2>5. AlarmSet'
      BY <2>1, <2>3 DEF AlarmSet, Countdown, Off
    <2>6. WaitIsPositive' /\ EndLeavesNothing'
      BY <2>1, <2>3
      DEF WaitIsPositive, EndLeavesNothing, Countdown, Alive, Off
    <2> QED
      BY <2>4, <2>5, <2>6 DEF RestOfIInv
  <1>19. CASE UNCHANGED vars
    BY <1>19, <1>w, BystanderStep DEF vars, Alive
  <1> QED
    BY <1>1, <1>2, <1>3, <1>4, <1>5, <1>6, <1>7, <1>8, <1>9, <1>10, <1>11,
       <1>12, <1>13, <1>14, <1>15, <1>16, <1>17, <1>18, <1>19
    DEF Next, Exit, Kill

\* A trigger that is queued, or dropped because the channel is full, leaves one there.
LEMMA QueueNotEmpty ==
  ASSUME TypeOK, NEW reason \in Prompts, Queue(reason)
  PROVE  triggers' # <<>>
  <1>1. QueueCap \in Nat \ {0} /\ triggers \in Seq(Prompts)
    BY SchedulerAssumption DEF TypeOK
  <1>2. Len(triggers') # 0
    BY <1>1 DEF Queue
  <1> QED
    BY <1>2

\* Every step keeps the timer at the deadline's pace while the tablet is awake.
LEMMA PaceStep ==
  ASSUME IInv, [Next]_vars
  PROVE  KeepsPace'
  <1> SUFFICES ASSUME life' = "running", receiving', awake', phase' \in {"alarm", "select"},
                      ~resumeDue', triggers' = <<>>
               PROVE  (due = Off \/ expired \/ timer = due)'
    BY DEF KeepsPace
  <1> USE DEF IInv, KeepsPace
  <1>u. ASSUME UNCHANGED <<life, receiving, awake, phase, resumeDue, triggers, due, expired, timer>>
        PROVE  (due = Off \/ expired \/ timer = due)'
    BY <1>u
  <1>1. ASSUME NEW reason \in Prompts, Prompt(reason)
        PROVE  FALSE
    BY <1>1, QueueNotEmpty DEF Prompt
  <1>2. ASSUME DeliverResume PROVE FALSE
    BY <1>2, QueueNotEmpty, SchedulerAssumption DEF DeliverResume
  <1>3. ASSUME NEW c \in Configs, SaveSettings(c)
        PROVE  (due = Off \/ expired \/ timer = due)'
    BY <1>3, <1>u DEF SaveSettings, clockVars, lifeVars, timerVars
  <1>4. ASSUME SelectTrigger \/ SelectTimer PROVE FALSE
    BY <1>4 DEF SelectTrigger, SelectTimer, StartRun, Fetched
  <1>5. ASSUME SelectDone PROVE FALSE
    BY <1>5 DEF SelectDone
  <1>6. ASSUME NEW n, FetchSucceeds(n) \/ FetchFails(n) \/ Pace(n) PROVE FALSE
    BY <1>6 DEF FetchSucceeds, FetchFails, Pace, Fetched
  <1>7. CASE Arm
    BY <1>7 DEF Arm, ResetTimer
  <1>8. CASE ProgramAlarm
    BY <1>8 DEF ProgramAlarm, clockVars, lifeVars, timerVars
  <1>9. ASSUME CleanupClear \/ CleanupCancel \/ Exit \/ Kill PROVE FALSE
    BY <1>9 DEF CleanupClear, CleanupCancel, Exit, Kill, Gone
  <1>10. CASE Start
    BY <1>10 DEF Start, EndLeavesNothing, timerVars
  <1>11. ASSUME Suspend \/ WakeUp PROVE FALSE
    BY <1>11 DEF Suspend, WakeUp, Woken, lifeVars, Alive
  <1>12. CASE Tick
    <2>1. UNCHANGED <<life, receiving, phase, triggers>>
      BY <1>12 DEF Tick, lifeVars
    <2>2. awake /\ resumeDue' = resumeDue
      BY <1>12, <2>1 DEF Tick, Woken, Alive
    <2>3. due = Off \/ expired \/ timer = due
      BY <2>1, <2>2
    <2>4. /\ due' = Countdown(due) /\ timer' = (IF timer = 1 THEN Off ELSE Countdown(timer))
          /\ expired' = (expired \/ timer = 1)
      BY <1>12, <2>2 DEF Tick
    <2>5. timer = due /\ timer # 1 => timer' = due'
      BY <2>4 DEF Countdown
    <2>6. due = Off => due' = Off
      BY <2>4 DEF Countdown, Off
    <2> QED
      BY <2>3, <2>4, <2>5, <2>6
  <1>13. CASE UNCHANGED vars
    BY <1>13, <1>u DEF vars
  <1> QED
    BY <1>1, <1>2, <1>3, <1>4, <1>5, <1>6, <1>7, <1>8, <1>9, <1>10, <1>11, <1>12, <1>13 DEF Next

\* Nothing but the alarm and the owner happens to a tablet that sleeps.
LEMMA SleepStep ==
  ASSUME IInv, [Next]_vars
  PROVE  SleepsBeforeDeadline'
  <1> SUFFICES ASSUME ~awake', ~Interrupted' PROVE due' > 0
    BY DEF SleepsBeforeDeadline
  <1> USE DEF IInv
  <1>1. CASE Suspend
    <2>1. /\ awake /\ UNCHANGED <<life, receiving, phase, resumeDue, triggers, due, expired, timer>>
      BY <1>1 DEF Suspend, lifeVars, timerVars
    <2>2. timer = due /\ due # Off
      BY <2>1 DEF Interrupted, Busy, KeepsPace
    <2> QED
      BY <2>1, <2>2 DEF TypeOK
  <1>2. CASE Tick
    <2>1. /\ ~awake /\ awake' = awake /\ rtc # 1 /\ resumeDue' = resumeDue
          /\ due' = Countdown(due) /\ expired' = expired
          /\ UNCHANGED <<life, receiving, phase, triggers, alarmWanted, wakeError, hasRtc>>
      BY <1>2 DEF Tick, Woken, lifeVars, TypeOK
    <2>2. ~Interrupted
      <3>1. due' = Off <=> due = Off
        BY <2>1 DEF TypeOK, Countdown, Off
      <3> QED
        BY <2>1, <3>1 DEF Interrupted, Busy
    <2>3. due > 0 /\ rtc = due
      BY <2>1, <2>2 DEF SleepsBeforeDeadline, AlarmSet, Interrupted, Busy
    <2> QED
      BY <2>1, <2>3 DEF Countdown, TypeOK
  <1>3. CASE UNCHANGED vars
    BY <1>3 DEF vars, SleepsBeforeDeadline, Interrupted, Busy
  <1>4. ASSUME Next, ~Suspend, ~Tick PROVE FALSE
    <2>1. awake' = awake
      BY <1>4 DEF Next, Prompt, DeliverResume, SaveSettings, SelectTrigger, SelectTimer, SelectDone,
         FetchSucceeds, FetchFails, Pace, Arm, ProgramAlarm, CleanupClear, CleanupCancel, Exit, Kill,
         Gone, Start, WakeUp, Woken, clockVars
    <2>2. awake
      BY <1>4, <2>1 DEF Next, Prompt, DeliverResume, SaveSettings, SelectTrigger, SelectTimer,
         SelectDone, FetchSucceeds, FetchFails, Pace, Arm, ProgramAlarm, CleanupClear, CleanupCancel,
         Exit, Kill, Start, WakeUp, Woken, Running
    <2> QED
      BY <2>1, <2>2
  <1> QED
    BY <1>1, <1>2, <1>3, <1>4

\* IInv holds in every reachable state.
LEMMA IInvHolds == Spec => []IInv
  <1>1. IInv /\ [Next]_vars => IInv'
    BY TypeStep, RestStep, PaceStep, SleepStep DEF IInv, RestOfIInv
  <1> QED
    BY InitIInv, <1>1, PTL DEF Spec

-----------------------------------------------------------------------------
\* Every variable keeps its type: the trigger channel never outgrows its
\* capacity and no interval, deadline or alarm ever becomes zero or negative.
THEOREM TypesHold == Spec => []TypeOK
  BY IInvHolds, PTL DEF IInv

\* The timer of scheduler never fires before the deadline shown to the owner,
\* through manual refreshes, suspends, quiet hours and failures alike.
THEOREM TimerIsNeverEarly == Spec => []TimerMatchesDeadline
  BY IInvHolds, PTL DEF IInv

\* Between two calls of scheduleNext the alarm and the announced deadline agree,
\* unless wake_alarm_error says they do not; and a tablet that sleeps with nothing
\* interrupted is about to be woken for its deadline.
THEOREM AlarmAgrees == Spec => []AlarmMatchesDeadline
  <1>1. IInv => AlarmMatchesDeadline
    BY DEF IInv, AlarmMatchesDeadline, AlarmSet, SleepsBeforeDeadline, Interrupted, Busy
  <1> QED
    BY IInvHolds, <1>1, PTL

-----------------------------------------------------------------------------
(* RefreshScheduler implements RefreshPromise. *)

USE DEF Promise!Off

LEMMA PromiseInit == Init => Promise!PInit
  BY DEF Init, Promise!PInit, Alive, PromiseRunning, Off

\* Every step of the scheduler is a step of the promise or a stutter.
LEMMA PromiseStep ==
  ASSUME IInv, [Next]_vars
  PROVE  [Promise!PNext]_(Promise!pvars)
  <1> USE DEF IInv, Promise!PNext, Promise!pvars
  <1>a. ASSUME NEW reason \in Prompts, Queue(reason), Alive,
               UNCHANGED <<life, phase, run, due>>
        PROVE  [Promise!PNext]_(Promise!pvars)
    <2>1. CASE Len(triggers) < QueueCap
      <3>1. Len(triggers') = Len(triggers) + 1
        BY <1>a, <2>1 DEF Queue, TypeOK
      <3>2. Promise!Ask
        BY <1>a, <2>1, <3>1 DEF Promise!Ask, Alive, PromiseRunning
      <3> QED
        BY <3>2
    <2>2. CASE ~(Len(triggers) < QueueCap)
      BY <1>a, <2>2 DEF Queue, Alive, PromiseRunning
    <2> QED
      BY <2>1, <2>2
  <1>b. ASSUME UNCHANGED <<triggers, due, PromiseRunning, Alive>>
        PROVE  [Promise!PNext]_(Promise!pvars)
    BY <1>b
  <1>1. ASSUME NEW reason \in Prompts, Prompt(reason)
        PROVE  [Promise!PNext]_(Promise!pvars)
    BY <1>1, <1>a DEF Prompt, Running, lifeVars, timerVars
  <1>2. CASE DeliverResume
    <2>1. "resume" \in Prompts
      BY SchedulerAssumption
    <2> QED
      BY <1>2, <1>a, <2>1 DEF DeliverResume, Running, lifeVars, timerVars
  <1>3. ASSUME NEW c \in Configs, SaveSettings(c)
        PROVE  [Promise!PNext]_(Promise!pvars)
    BY <1>3, <1>b DEF SaveSettings, lifeVars, timerVars, PromiseRunning, Alive
  <1>4. CASE SelectTrigger
    <2>1. Head(triggers) \in Prompts /\ Head(triggers) # "scheduled"
      BY <1>4, SchedulerAssumption DEF SelectTrigger, TypeOK
    <2>2. Len(triggers) > 0 /\ Len(triggers') = Len(triggers) - 1
      BY <1>4 DEF SelectTrigger, TypeOK
    <2>3. run'.reason = Head(triggers) /\ phase' \in {"fetch", "pace"}
      BY <1>4 DEF SelectTrigger, StartRun, Fetched
    <2>4. PromiseRunning = "none" /\ PromiseRunning' = "asked"
      BY <1>4, <2>1, <2>3 DEF SelectTrigger, PromiseRunning
    <2>5. Promise!StartAsked
      BY <1>4, <2>2, <2>4
      DEF SelectTrigger, Running, Promise!StartAsked, lifeVars, timerVars, Alive
    <2> QED
      BY <2>5
  <1>5. CASE SelectTimer
    <2>1. run'.reason = "scheduled" /\ phase' \in {"fetch", "pace"}
      BY <1>5 DEF SelectTimer, StartRun, Fetched
    <2>2. PromiseRunning = "none" /\ PromiseRunning' = "deadline"
      BY <1>5, <2>1 DEF SelectTimer, PromiseRunning
    <2>3. due = 0
      BY <1>5 DEF SelectTimer, TimerMatchesDeadline
    <2>4. Promise!StartDeadline
      BY <1>5, <2>2, <2>3
      DEF SelectTimer, Running, Promise!StartDeadline, lifeVars, Alive
    <2> QED
      BY <2>4
  <1>6. CASE SelectDone
    BY <1>6, <1>b DEF SelectDone, lifeVars, timerVars, PromiseRunning, Alive
  <1>7. ASSUME NEW rate \in Rates, FetchSucceeds(rate)
        PROVE  [Promise!PNext]_(Promise!pvars)
    <2>1. phase = "fetch" /\ phase' = "pace" /\ run'.reason = run.reason
      BY <1>7 DEF FetchSucceeds, Fetched
    <2> QED
      BY <1>7, <2>1, <1>b
      DEF FetchSucceeds, lifeVars, timerVars, PromiseRunning, Alive
  <1>8. ASSUME NEW after \in RetryAfters, FetchFails(after)
        PROVE  [Promise!PNext]_(Promise!pvars)
    <2>1. phase = "fetch" /\ phase' = "pace" /\ run'.reason = run.reason
      BY <1>8 DEF FetchFails, Fetched
    <2> QED
      BY <1>8, <2>1, <1>b
      DEF FetchFails, lifeVars, timerVars, PromiseRunning, Alive
  <1>9. ASSUME NEW low \in BOOLEAN, Pace(low)
        PROVE  [Promise!PNext]_(Promise!pvars)
    <2>1. phase = "pace" /\ phase' = "arm" /\ run'.reason = run.reason
      BY <1>9 DEF Pace, TypeOK
    <2> QED
      BY <1>9, <2>1, <1>b DEF Pace, lifeVars, timerVars, PromiseRunning, Alive
  <1>10. CASE Arm
    <2>1. cfg \in Config
      BY SchedulerAssumption DEF TypeOK
    <2>2. run.wait \in Nat \ {0}
      BY <1>10 DEF Arm, TypeOK, WaitIsPositive
    <2>3. due' \in Nat \ {0}
      BY <1>10, <2>1, <2>2, DeferredIsPositive DEF Arm, TypeOK
    <2>4. PromiseRunning \in {"asked", "deadline"} /\ PromiseRunning' = "announced"
      BY <1>10 DEF Arm, PromiseRunning
    <2>5. Promise!Announce
      BY <1>10, <2>3, <2>4
      DEF Arm, Running, Promise!Announce, lifeVars, Alive
    <2> QED
      BY <2>5
  <1>11. CASE ProgramAlarm
    <2>1. PromiseRunning = "announced" /\ PromiseRunning' = "none"
      BY <1>11 DEF ProgramAlarm, PromiseRunning
    <2>2. Promise!Finish
      BY <1>11, <2>1
      DEF ProgramAlarm, Running, Promise!Finish, lifeVars, timerVars, Alive
    <2> QED
      BY <2>2
  <1>12. CASE CleanupClear
    BY <1>12, <1>b DEF CleanupClear, timerVars, PromiseRunning, Alive
  <1>13. CASE CleanupCancel
    BY <1>13, <1>b DEF CleanupCancel, timerVars, PromiseRunning, Alive
  <1>14. ASSUME NEW how \in {"exited", "killed"}, Gone(how), Alive
         PROVE  [Promise!PNext]_(Promise!pvars)
    <2> DEFINE empty == <<>>
    <2>1. Len(empty) = 0
      OBVIOUS
    <2>2. Len(triggers') = 0
      BY <1>14, <2>1 DEF Gone
    <2>3. Alive = TRUE /\ Alive' = FALSE
      BY <1>14 DEF Gone, Alive
    <2>4. Promise!Stop
      BY <1>14, <2>2, <2>3 DEF Gone, Promise!Stop, PromiseRunning, Off
    <2> QED
      BY <2>4
  <1>15. CASE Start
    <2>1. PromiseRunning = "none" /\ PromiseRunning' = "none"
      BY <1>15 DEF Start, EndLeavesNothing, PromiseRunning
    <2>2. Alive = FALSE /\ Alive' = TRUE
      BY <1>15 DEF Start, Alive
    <2>3. Promise!Restart
      BY <1>15, <2>1, <2>2 DEF Start, Promise!Restart, timerVars
    <2> QED
      BY <2>3
  <1>16. CASE Suspend
    BY <1>16, <1>b DEF Suspend, lifeVars, timerVars, PromiseRunning, Alive
  <1>17. CASE WakeUp
    BY <1>17, <1>b DEF WakeUp, lifeVars, timerVars, PromiseRunning, Alive
  <1>18. CASE Tick
    <2>1. UNCHANGED <<triggers, PromiseRunning, Alive>>
      BY <1>18 DEF Tick, lifeVars, PromiseRunning, Alive
    <2>2. CASE due > 0
      <3>1. Promise!Pass
        BY <1>18, <2>1, <2>2 DEF Tick, Countdown, Promise!Pass
      <3> QED
        BY <3>1
    <2>3. CASE ~(due > 0)
      BY <1>18, <1>b, <2>1, <2>3 DEF Tick, Countdown
    <2> QED
      BY <2>2, <2>3
  <1>19. CASE UNCHANGED vars
    BY <1>19, <1>b DEF vars, PromiseRunning, Alive
  <1> QED
    BY <1>1, <1>2, <1>3, <1>4, <1>5, <1>6, <1>7, <1>8, <1>9, <1>10, <1>11,
       <1>12, <1>13, <1>14, <1>15, <1>16, <1>17, <1>18, <1>19
    DEF Next, Exit, Kill, Running

\* A refresh runs only because somebody asked or because the announced deadline
\* has passed, and only a refresh announces a deadline: the timer, the channel,
\* backoff, quiet hours, alarm and suspend implement just that.
THEOREM SchedulerKeepsPromise == Spec => KeepsPromise
  <1>1. IInv /\ [Next]_vars => [Promise!PNext]_(Promise!pvars)
    BY PromiseStep
  <1> QED
    BY PromiseInit, <1>1, IInvHolds, PTL DEF Spec, KeepsPromise, Promise!PSpec

-----------------------------------------------------------------------------
(* Deadlines and quiet hours. *)

LEMMA Division ==
  ASSUME NEW n \in Nat
  PROVE  /\ n = Day * (n \div Day) + (n % Day)
         /\ n \div Day \in Int
  BY DayAssumption

LEMMA WholeDaysVanish ==
  ASSUME NEW q \in Int, NEW t \in ClockTime
  PROVE  (q * Day + t) % Day = t
  BY DayAssumption DEF ClockTime

\* The end of a window is outside it: windows are half-open.
LEMMA WindowEnds ==
  ASSUME NEW w \in Window
  PROVE  ~InQuietHours(w, w.end)
  BY DayAssumption DEF Window, ClockTime, InQuietHours

\* A delay that ends in the window is lengthened to the window's end, today's or
\* tomorrow's.
LEMMA DeferralLeavesWindow ==
  ASSUME NEW w \in Window, NEW n \in Nat
  PROVE  ~InQuietHours(w, (n + NextActiveDelay(w, n % Day)) % Day)
  <1> DEFINE x == n % Day
             q == n \div Day
             later == NextActiveDelay(w, x)
  <1>1. x \in ClockTime /\ w.end \in ClockTime
    BY ClockWraps DEF Window
  <1>2. n = q * Day + x /\ q \in Int /\ q + 1 \in Int
    BY Division, DayAssumption
  <1>3. CASE ~InQuietHours(w, x)
    <2>1. later = 0
      BY <1>3 DEF NextActiveDelay
    <2> QED
      BY <1>3, <2>1
  <1>4. CASE InQuietHours(w, x) /\ w.end > x
    <2>1. later = w.end - x
      BY <1>4 DEF NextActiveDelay
    <2> HIDE DEF x, q, later
    <2>2. n + later = q * Day + w.end
      BY <1>1, <1>2, <2>1, DayAssumption DEF ClockTime
    <2>3. (n + later) % Day = w.end
      BY <1>1, <1>2, <2>2, WholeDaysVanish
    <2> QED
      BY <2>3, WindowEnds DEF later, x
  <1>5. CASE InQuietHours(w, x) /\ ~(w.end > x)
    <2>1. later = w.end + Day - x
      BY <1>5 DEF NextActiveDelay
    <2> HIDE DEF x, q, later
    <2>2. n + later = (q + 1) * Day + w.end
      BY <1>1, <1>2, <2>1, DayAssumption DEF ClockTime
    <2>3. (n + later) % Day = w.end
      BY <1>1, <1>2, <2>2, WholeDaysVanish
    <2> QED
      BY <2>3, WindowEnds DEF later, x
  <1> QED
    BY <1>3, <1>4, <1>5

\* And not a moment too late: what the deferral skips is all inside the window.
LEMMA DeferralIsMinimal ==
  ASSUME NEW w \in Window, NEW n \in Nat, NEW k \in Nat, k < NextActiveDelay(w, n % Day)
  PROVE  InQuietHours(w, (n + k) % Day)
  <1> DEFINE x == n % Day
             q == n \div Day
             later == NextActiveDelay(w, x)
  <1>1. /\ x \in ClockTime /\ w.end \in ClockTime /\ w.start \in ClockTime
        /\ Day \in Nat \ {0} /\ k < later
    BY ClockWraps, DayAssumption DEF Window
  <1>2. n = q * Day + x /\ q \in Int /\ q + 1 \in Int
    BY Division, DayAssumption
  <1>3. InQuietHours(w, x)
    BY <1>1 DEF NextActiveDelay
  <1>4. later = IF w.end > x THEN w.end - x ELSE w.end + Day - x
    BY <1>3 DEF NextActiveDelay
  <1> HIDE DEF x, q, later
  <1>5. CASE x + k < Day
    <2>1. n + k = q * Day + (x + k) /\ x + k \in ClockTime
      BY <1>1, <1>2, <1>5 DEF ClockTime
    <2>2. (n + k) % Day = x + k
      BY <2>1, <1>2, WholeDaysVanish
    <2>3. InQuietHours(w, x + k)
      BY <1>1, <1>3, <1>4 DEF InQuietHours, ClockTime
    <2> QED
      BY <2>2, <2>3
  <1>6. CASE x + k >= Day
    <2>1. n + k = (q + 1) * Day + (x + k - Day) /\ x + k - Day \in ClockTime
      BY <1>1, <1>2, <1>4, <1>6 DEF ClockTime
    <2>2. (n + k) % Day = x + k - Day
      BY <2>1, <1>2, WholeDaysVanish
    <2>3. InQuietHours(w, x + k - Day)
      BY <1>1, <1>3, <1>4, <1>6 DEF InQuietHours, ClockTime
    <2> QED
      BY <2>2, <2>3
  <1> QED
    BY <1>1, <1>5, <1>6 DEF ClockTime

\* The deadline announced is the first moment outside the quiet window from the end of
\* the wait on, for any length of the day, any window, wrapped or not, and any wait.
THEOREM DeadlinesAvoidQuietHours == Spec => DeadlineIsFirstActive
  <1> DEFINE FirstActive == /\ ~InQuietHours(cfg.quiet, (tod' + due') % Day)
                            /\ due' >= run.wait
                            /\ \A d \in run.wait .. due' - 1 :
                                 InQuietHours(cfg.quiet, (tod' + d) % Day)
  <1>1. IInv /\ [Next]_vars => [phase = "arm" /\ phase' = "alarm" => FirstActive]_vars
    <2> SUFFICES ASSUME IInv, Next, phase = "arm", phase' = "alarm"
                 PROVE  FirstActive
      OBVIOUS
    <2>1. Arm
      <3>1. UNCHANGED phase \/ phase' # "alarm" \/ phase # "arm" \/ Arm
        BY DEF Next, Prompt, DeliverResume, SaveSettings, SelectTrigger, SelectTimer,
               SelectDone, FetchSucceeds, FetchFails, Pace, ProgramAlarm,
               CleanupClear, CleanupCancel, Exit, Kill, Gone, Start, Suspend,
               WakeUp, Tick, lifeVars
      <3> QED
        BY <3>1
    <2>2. cfg.quiet \in Window /\ tod \in Nat /\ run.wait \in Nat
      BY SchedulerAssumption, DayAssumption DEF IInv, TypeOK, Config, ClockTime
    <2> DEFINE n == tod + run.wait
               later == NextActiveDelay(cfg.quiet, n % Day)
    <2>3. tod' = tod /\ due' = run.wait + later
      BY <2>1 DEF Arm, Deferred, clockVars
    <2>4. n \in Nat /\ later \in Nat
      BY <2>2, ClockWraps, DelayIsNat
    <2>5. ~InQuietHours(cfg.quiet, (n + later) % Day)
      BY <2>2, <2>4, DeferralLeavesWindow
    <2>6. \A k \in Nat : k < later => InQuietHours(cfg.quiet, (n + k) % Day)
      BY <2>2, <2>4, DeferralIsMinimal
    <2> HIDE DEF later
    <2>7. tod' + due' = n + later /\ due' >= run.wait
      BY <2>2, <2>3, <2>4
    <2>8. ASSUME NEW d \in run.wait .. due' - 1
          PROVE  InQuietHours(cfg.quiet, (tod' + d) % Day)
      <3>1. d - run.wait \in Nat /\ d - run.wait < later /\ tod' + d = n + (d - run.wait)
        BY <2>2, <2>3, <2>4
      <3> QED
        BY <2>6, <3>1
    <2> QED
      BY <2>5, <2>7, <2>8
  <1> QED
    BY <1>1, IInvHolds, PTL DEF Spec, DeadlineIsFirstActive

-----------------------------------------------------------------------------
(* The battery saver. *)

\* The configured minimum bounds the interval from below, except that a battery saver in
\* force cuts whatever is above SaverMax, also a minimum: exactly then it makes the
\* interval shorter than it would be on a full battery.
THEOREM SaverShortensLongIntervals ==
  ASSUME NEW c \in Config, NEW low \in BOOLEAN, NEW refresh \in Nat
  PROVE  /\ RefreshInterval(c, low, refresh) < RefreshInterval(c, FALSE, refresh)
              <=> c.saver /\ low /\ AtLeast(refresh, c.minimum) > SaverMax
         /\ RefreshInterval(c, low, refresh) < c.minimum
              <=> c.saver /\ low /\ c.minimum > SaverMax
  <1> DEFINE floored == AtLeast(refresh, c.minimum)
             saved == AtMost(SaverMultiplier * floored, SaverMax)
  <1>1. /\ floored \in Nat \ {0} /\ floored >= c.minimum
        /\ c.minimum \in Nat \ {0} /\ c.saver \in BOOLEAN
        /\ floored = c.minimum \/ floored = refresh
    BY DEF AtLeast, Config
  <1>2. SaverMultiplier \in Nat \ {0} /\ SaverMax \in Nat \ {0}
    BY SchedulerAssumption
  <1>3. RefreshInterval(c, low, refresh) = IF c.saver /\ low THEN saved ELSE floored
    BY DEF RefreshInterval
  <1>4. RefreshInterval(c, FALSE, refresh) = floored
    BY DEF RefreshInterval
  <1> HIDE DEF floored
  <1>5. SaverMultiplier * floored \in Nat /\ SaverMultiplier * floored >= floored
    BY <1>1, <1>2
  <1>6. saved < floored <=> floored > SaverMax
    BY <1>1, <1>2, <1>5 DEF AtMost
  <1>7. saved < c.minimum <=> c.minimum > SaverMax
    BY <1>1, <1>2, <1>5 DEF AtMost
  <1> HIDE DEF saved
  <1>8. CASE c.saver /\ low
    <2>1. RefreshInterval(c, low, refresh) = saved
      BY <1>3, <1>8
    <2> QED
      BY <2>1, <1>4, <1>6, <1>7, <1>8 DEF floored
  <1>9. CASE ~(c.saver /\ low)
    <2>1. RefreshInterval(c, low, refresh) = floored
      BY <1>3, <1>9
    <2>2. ~(RefreshInterval(c, low, refresh) < RefreshInterval(c, FALSE, refresh))
      <3>1. ~(floored < floored)
        BY <1>1
      <3> QED
        BY <2>1, <3>1, <1>4, Zenon
    <2>3. ~(RefreshInterval(c, low, refresh) < c.minimum)
      BY <2>1, <1>1
    <2> QED
      BY <2>2, <2>3, <1>9
  <1> QED
    BY <1>8, <1>9
=============================================================================
