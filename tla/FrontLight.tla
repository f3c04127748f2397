----------------------------- MODULE FrontLight -----------------------------
(***************************************************************************)
(* The front light: backend/internal/brightness/brightness.go, the parts of*)
(* main.go that drive it, and app/scripts/brightness_guard.sh.  Four actors*)
(* write the light: the receive loop, brightnessScheduler, cleanup, and the*)
(* guards of backends that have ended.  Every goroutine that sends a state *)
(* reads it: these two, the refresh scheduler and the update checks.       *)
(*                                                                         *)
(* A level stands for a percentage and the raw value it becomes.  The clock*)
(* is the half-hour slot.  The tablet's own brightness control is used only*)
(* while the backend is down.                                              *)
(***************************************************************************)
EXTENDS Integers, FiniteSets

CONSTANTS
  Levels,      \* brightness levels
  Slots,       \* the schedule: a level or Unset for each slot of the week
  Configs,     \* settings a save from the settings page may install
  Defaults,    \* config.Defaults()
  Reporters,   \* the other goroutines that call sendState
  SavesMayFail,
  MaxOrphans,  \* guards of ended backends at a start (bounds the run)
  Unset

Config == [system : BOOLEAN, percent : Levels, enabled : BOOLEAN, restore : BOOLEAN]

ASSUME LightAssumption ==
  /\ Unset \notin Levels
  /\ \A s \in DOMAIN Slots : Slots[s] \in Levels \cup {Unset}
  /\ Configs \subseteq Config
  /\ Defaults \in Config /\ ~(Defaults.system /\ Defaults.enabled)
  /\ Reporters \cap {"loop", "sched"} = {}
  /\ SavesMayFail \in BOOLEAN
  /\ MaxOrphans \in Nat

VARIABLES
  level,      \* the brightness file
  slot,       \* the half-hour of the week
  cfg,        \* a.cfg
  saved,      \* config.json
  life,       \* "up", cleanup's "restoring", "verifying", "restored", "disarmed" and
              \* "cancelled", or "down"
  current,    \* Device.Current, the cached level
  original,   \* Device.Original
  orphans,    \* guards of ended backends: the level they restore, or Unset once disarmed
  loop,       \* the receive loop: where it stands in a handler, its target, what is next
  sched,      \* the same of brightnessScheduler
  reading,    \* what each reporter has read and not yet stored in Current, or Unset
  changed,    \* brightnessScheduleChanged holds a signal
  timer,      \* brightnessScheduler's timer: "armed", "late" past its boundary, "fired"
  home,       \* history: the level before the backend started
  excused,    \* history: the owner, a straggler or an early restart spoiled the restore
  overtaken,  \* history: who has read a level that was written since
  misled      \* history: Current was last stored by one of these

goVars == <<loop, sched, reading, changed, timer>>
cacheGhosts == <<overtaken, misled>>
ghosts == <<home, excused, overtaken, misled>>
vars == <<level, slot, cfg, saved, life, current, original, orphans, loop,
          sched, reading, changed, timer, home, excused, overtaken, misled>>

Alive == life # "down"

\* Mutant: the two modes may both be stored.
NormalizedNot(c) == c

\* config.Normalize, as far as the light is concerned.
Normalized(c) == [c EXCEPT !.enabled = @ /\ ~c.system]

\* The level applyConfiguredBrightness goes for.
Wanted(c, s) == IF c.enabled /\ Slots[s] # Unset THEN Slots[s] ELSE c.percent

Step(at) == [at |-> at, target |-> Unset, next |-> "idle"]
Idle == Step("idle")

\* In SetValue: "write" waits for writeMu, "verify" holds it.  In sendState: "report"
\* signals first, "state" is about to read, "assign" has read.
LoopSteps == {"idle", "start", "apply", "write", "verify", "keep", "report", "state", "assign"}
SchedSteps == {"off", "idle", "apply", "write", "verify", "state", "assign", "done"}

TypeOK ==
  /\ level \in Levels
  /\ slot \in DOMAIN Slots
  /\ {cfg, saved} \subseteq Config
  /\ ~(saved.system /\ saved.enabled)
  /\ life \in {"up", "restoring", "verifying", "restored", "disarmed", "cancelled", "down"}
  /\ home \in Levels
  /\ {current, original} \subseteq IF Alive THEN Levels ELSE {Unset}
  /\ orphans \subseteq Levels \cup {Unset}
  /\ loop \in [at : LoopSteps, target : Levels \cup {Unset},
               next : {"idle", "start", "keep", "report"}]
  /\ sched \in [at : SchedSteps, target : Levels \cup {Unset}, next : {"idle", "state"}]
  /\ reading \in [Reporters -> Levels \cup {Unset}]
  /\ timer \in {"armed", "late", "fired"}
  /\ overtaken \subseteq {"loop", "sched"} \cup Reporters
  /\ {changed, excused, misled} \subseteq BOOLEAN

Init ==
  /\ level \in Levels
  /\ slot \in DOMAIN Slots
  /\ saved = Defaults
  /\ cfg = saved
  /\ life = "down"
  /\ current = Unset
  /\ original = Unset
  /\ orphans = {}
  /\ loop = Idle
  /\ sched = Step("off")
  /\ reading = [r \in Reporters |-> Unset]
  /\ changed = FALSE
  /\ timer = "armed"
  /\ home = level
  /\ excused = FALSE
  /\ overtaken = {}
  /\ misled = FALSE

-----------------------------------------------------------------------------
(* The device.  Read takes the file's value and stores it in Current afterwards;  *)
(* writeMu keeps other writes, but no Read, from between SetValue's steps.        *)

Writing == loop.at = "verify" \/ sched.at = "verify" \/ life = "verifying"

\* Who has read the file and not yet stored what was read.
Pending == {r \in Reporters : reading[r] # Unset}
           \cup (IF loop.at = "assign" THEN {"loop"} ELSE {})
           \cup (IF sched.at = "assign" THEN {"sched"} ELSE {})

\* SetValue's write, once it has writeMu.
WriteLight(v) ==
  /\ ~Writing
  /\ level' = v
  /\ overtaken' = overtaken \cup Pending
  /\ UNCHANGED <<current, misled>>

\* A write after cleanup has restored the light is a straggler's.
Excuse == excused' = (excused \/ life \in {"restored", "disarmed", "cancelled"})

\* Mutant: the read-back is compared with the value written and not stored.
ReadBackCompared ==
  /\ misled' = FALSE
  /\ UNCHANGED <<level, current, overtaken>>

\* SetValue's Read, under writeMu: nothing but a guard writes between its two steps.
ReadBack ==
  /\ current' = level
  /\ misled' = FALSE
  /\ UNCHANGED <<level, overtaken>>

\* The second step of a Read by who, which took v from the file.
StoreRead(who, v) ==
  /\ current' = v
  /\ misled' = (who \in overtaken)
  /\ overtaken' = overtaken \ {who}
  /\ UNCHANGED level

\* Mutant: the schedule is forgotten.
ApplyingDefault(c, next) ==
  IF c.system THEN Step(next)
  ELSE [at |-> "apply", target |-> c.percent, next |-> next]

\* What a goroutine is to do once applyConfiguredBrightness has read cfg.
Applying(c, next) ==
  IF c.system THEN Step(next)
  ELSE [at |-> "apply", target |-> Wanted(c, slot), next |-> next]

\* It writes only when the cached level is another.
Decided(g) ==
  IF current = g.target THEN Step(g.next) ELSE [g EXCEPT !.at = "write"]

-----------------------------------------------------------------------------
(* The receive loop.  It goes on handling messages while a signal's cleanup *)
(* runs, until the connection is closed.                                    *)

Handling == Alive /\ loop.at = "idle" /\ sched.at # "off"

Restoring == [at |-> "write", target |-> original, next |-> "report"]

\* What a handler does to the light once new settings are stored.
Follow(c) == loop' = IF c.system THEN Restoring ELSE Applying(c, "report")

\* A handler's start: settings and what is to follow.
Unmoved == UNCHANGED <<level, slot, life, current, original, orphans, sched, reading,
                       changed, timer, ghosts>>

\* msgSaveConfig; when the save fails nothing else happens.
SaveConfig(c) ==
  /\ Handling
  /\ cfg' = Normalized(c)
  /\ saved' = cfg'
  /\ Follow(cfg')
  /\ Unmoved

\* msgResetSettings restores the light whatever the defaults say.
ResetSettings ==
  /\ Handling
  /\ cfg' = Defaults
  /\ saved' = Defaults
  /\ loop' = Restoring
  /\ Unmoved

\* msgUpdatePreferences changes a.cfg first, unnormalized, and keeps that when
\* the save fails.
UpdatePreferences(system) ==
  /\ Handling
  /\ cfg' = [cfg EXCEPT !.system = system]
  /\ \/ saved' = Normalized(cfg') /\ Follow(cfg')
     \/ SavesMayFail /\ UNCHANGED <<saved, loop>>
  /\ Unmoved

\* msgSaveBrightnessSchedule: enabling the schedule ends system mode.
SaveBrightnessSchedule(enabled) ==
  /\ Handling
  /\ cfg' = Normalized([cfg EXCEPT !.enabled = enabled, !.system = @ /\ ~enabled])
  /\ saved' = cfg'
  /\ loop' = Applying(cfg', "report")
  /\ Unmoved

\* msgResume
Resume ==
  /\ Handling
  /\ loop' = Applying(cfg, "idle")
  /\ UNCHANGED <<cfg, saved>>
  /\ Unmoved

\* msgInitialize sends the state.
Initialize ==
  /\ Handling
  /\ loop' = Step("state")
  /\ UNCHANGED <<cfg, saved>>
  /\ Unmoved

\* msgSetBrightness, in whatever mode: the light first, then the settings.
SetBrightness(v) ==
  /\ Handling
  /\ loop' = [at |-> "write", target |-> v, next |-> "keep"]
  /\ UNCHANGED <<cfg, saved>>
  /\ Unmoved

LoopDecides ==
  /\ Alive
  /\ loop.at = "apply"
  /\ loop' = Decided(loop)
  /\ UNCHANGED <<cfg, saved>>
  /\ Unmoved

LoopWrites ==
  /\ Alive
  /\ loop.at = "write"
  /\ WriteLight(loop.target)
  /\ Excuse
  /\ loop' = [loop EXCEPT !.at = "verify"]
  /\ UNCHANGED <<slot, cfg, saved, life, original, orphans, sched, reading, changed,
                 timer, home>>

\* A slide whose read-back differs is not kept; the other handlers go on.
LoopVerifies ==
  /\ Alive
  /\ loop.at = "verify"
  /\ ReadBack
  /\ loop' = IF loop.next # "keep" THEN Step(loop.next)
             ELSE IF level = loop.target THEN [loop EXCEPT !.at = "keep"] ELSE Idle
  /\ UNCHANGED <<slot, cfg, saved, life, original, orphans, sched, reading, changed,
                 timer, home, excused>>

\* setBrightness after the write; a failed save is not noticed.
LoopKeeps ==
  /\ Alive
  /\ loop.at = "keep"
  /\ cfg' = [cfg EXCEPT !.percent = loop.target]
  /\ saved' \in {Normalized(cfg')} \cup (IF SavesMayFail THEN {saved} ELSE {})
  /\ loop' = Step("state")
  /\ Unmoved

\* signalBrightnessScheduleChanged where the handler calls it, then sendState.
LoopReads ==
  /\ Alive
  /\ loop.at \in {"report", "state"}
  /\ changed' = (changed \/ loop.at = "report")
  /\ loop' = [Step("assign") EXCEPT !.target = level]
  /\ UNCHANGED <<level, slot, cfg, saved, life, current, original, orphans, sched,
                 reading, timer, ghosts>>

LoopStores ==
  /\ Alive
  /\ loop.at = "assign"
  /\ StoreRead("loop", loop.target)
  /\ loop' = Idle
  /\ UNCHANGED <<slot, cfg, saved, life, original, orphans, sched, reading, changed,
                 timer, home, excused>>

-----------------------------------------------------------------------------
(* The refresh scheduler, in fetch and scheduleNext, and the update checks. *)

ReporterReads(r) ==
  /\ Alive
  /\ sched.at # "off"
  /\ reading[r] = Unset
  /\ reading' = [reading EXCEPT ![r] = level]
  /\ UNCHANGED <<level, slot, cfg, saved, life, current, original, orphans, loop, sched,
                 changed, timer, ghosts>>

ReporterStores(r) ==
  /\ Alive
  /\ reading[r] # Unset
  /\ StoreRead(r, reading[r])
  /\ reading' = [reading EXCEPT ![r] = Unset]
  /\ UNCHANGED <<slot, cfg, saved, life, original, orphans, loop, sched, changed, timer,
                 home, excused>>

-----------------------------------------------------------------------------
(* brightnessScheduler *)

\* A step of its own that touches nothing else.
SchedOnly == UNCHANGED <<level, slot, cfg, saved, life, current, original, orphans,
                         loop, reading, changed, ghosts>>

SchedTimer ==
  /\ Alive
  /\ sched.at = "idle"
  /\ timer = "fired"
  /\ timer' = "armed"
  /\ sched' = Applying(cfg, "state")
  /\ SchedOnly

SchedDecides ==
  /\ Alive
  /\ sched.at = "apply"
  /\ sched' = Decided(sched)
  /\ UNCHANGED timer
  /\ SchedOnly

SchedWrites ==
  /\ Alive
  /\ sched.at = "write"
  /\ WriteLight(sched.target)
  /\ Excuse
  /\ sched' = [sched EXCEPT !.at = "verify"]
  /\ UNCHANGED <<slot, cfg, saved, life, original, orphans, loop, reading, changed, timer,
                 home>>

\* After an error no state is sent.
SchedVerifies ==
  /\ Alive
  /\ sched.at = "verify"
  /\ ReadBack
  /\ sched' = IF level = sched.target THEN Step("state") ELSE Idle
  /\ UNCHANGED <<slot, cfg, saved, life, original, orphans, loop, reading, changed, timer,
                 home, excused>>

SchedReads ==
  /\ Alive
  /\ sched.at = "state"
  /\ sched' = [Step("assign") EXCEPT !.target = level]
  /\ UNCHANGED timer
  /\ SchedOnly

SchedStores ==
  /\ Alive
  /\ sched.at = "assign"
  /\ StoreRead("sched", sched.target)
  /\ sched' = Idle
  /\ UNCHANGED <<slot, cfg, saved, life, original, orphans, loop, reading, changed, timer,
                 home, excused>>

\* A signal rearms the timer and drops a boundary it has just reached.
SchedSignal ==
  /\ Alive
  /\ sched.at = "idle"
  /\ changed
  /\ changed' = FALSE
  /\ timer' = "armed"
  /\ UNCHANGED <<level, slot, cfg, saved, life, current, original, orphans, loop, sched,
                 reading, ghosts>>

SchedDone ==
  /\ life = "cancelled"
  /\ sched.at = "idle"
  /\ sched' = Step("done")
  /\ UNCHANGED timer
  /\ SchedOnly

-----------------------------------------------------------------------------
(* cleanup, the guards and the next start. *)

\* By main after the receive loop, or by the signal goroutine beside it.
CleanupBegins ==
  /\ life = "up"
  /\ sched.at # "off"
  /\ life' = IF cfg.restore THEN "restoring" ELSE "restored"
  /\ excused' = (excused \/ ~cfg.restore)
  /\ UNCHANGED <<level, slot, cfg, saved, current, original, orphans, goVars, home,
                 cacheGhosts>>

CleanupRestores ==
  /\ life = "restoring"
  /\ WriteLight(original)
  /\ life' = "verifying"
  /\ UNCHANGED <<slot, cfg, saved, original, orphans, goVars, home, excused>>

CleanupVerifies ==
  /\ life = "verifying"
  /\ ReadBack
  /\ life' = "restored"
  /\ UNCHANGED <<slot, cfg, saved, original, orphans, goVars, home, excused>>

CleanupDisarm ==
  /\ life = "restored"
  /\ life' = "disarmed"
  /\ UNCHANGED <<level, slot, cfg, saved, current, original, orphans, goVars,
                 ghosts>>

CleanupCancel ==
  /\ life = "disarmed"
  /\ life' = "cancelled"
  /\ UNCHANGED <<level, slot, cfg, saved, current, original, orphans, goVars,
                 ghosts>>

\* The process ends; its guard is on its own.
Ended(guard) ==
  /\ life' = "down"
  /\ cfg' = saved
  /\ orphans' = orphans \cup {guard}
  /\ loop' = Idle
  /\ sched' = Step("off")
  /\ reading' = [r \in Reporters |-> Unset]
  /\ changed' = FALSE
  /\ timer' = "armed"
  /\ current' = Unset
  /\ original' = Unset
  /\ overtaken' = {}
  /\ misled' = FALSE
  /\ UNCHANGED <<level, slot, saved, home, excused>>

\* main returns once its loop has ended; it waits for no other goroutine.
Exit ==
  /\ life = "cancelled"
  /\ loop.at = "idle"
  /\ Ended(Unset)

Kill ==
  /\ Alive
  /\ Ended(IF life \in {"disarmed", "cancelled"} THEN Unset ELSE original)

\* A guard finds its backend gone.
GuardActs(guard) ==
  /\ guard \in orphans
  /\ level' = IF guard = Unset THEN level ELSE guard
  /\ orphans' = orphans \ {guard}
  /\ UNCHANGED <<slot, cfg, saved, life, current, original, goVars, ghosts>>

\* Mutant: the light is set before the original level is read.
StartLightFirst ==
  /\ ~Alive
  /\ Cardinality(orphans) <= MaxOrphans
  /\ life' = "up"
  /\ level' = IF cfg.system THEN level ELSE Wanted(cfg, slot)
  /\ current' = level'
  /\ original' = level'
  /\ loop' = Step("start")
  /\ home' = IF orphans = {} THEN level ELSE home
  /\ excused' = (orphans # {})
  /\ UNCHANGED <<slot, cfg, saved, orphans, sched, reading, changed, timer, cacheGhosts>>

\* main up to its goroutines: Load, Discover, the guard; the light follows.
Start ==
  /\ ~Alive
  /\ Cardinality(orphans) <= MaxOrphans
  /\ life' = "up"
  /\ current' = level
  /\ original' = level
  /\ loop' = Applying(cfg, "start")
  /\ home' = IF orphans = {} THEN level ELSE home
  /\ excused' = (orphans # {})
  /\ UNCHANGED <<level, slot, cfg, saved, orphans, sched, reading, changed, timer,
                 cacheGhosts>>

\* The goroutines run and messages are received.
Started ==
  /\ Alive
  /\ loop.at = "start"
  /\ loop' = Idle
  /\ sched' = Idle
  /\ timer' = "armed"
  /\ UNCHANGED <<level, slot, cfg, saved, life, current, original, orphans, reading,
                 changed, ghosts>>

-----------------------------------------------------------------------------
(* The tablet. *)

\* The owner sets the tablet's own brightness.
SystemAdjusts(v) ==
  /\ ~Alive
  /\ orphans = {}
  /\ level' = v
  /\ home' = v
  /\ excused' = FALSE
  /\ UNCHANGED <<slot, cfg, saved, life, current, original, orphans, goVars,
                 cacheGhosts>>

\* A half-hour boundary, which the timer reaches at once or, after a suspend, later.
\* brightnessScheduler takes less than half an hour to write the light.
SlotTurns ==
  /\ sched.at \in {"off", "idle", "done"}
  /\ slot' \in DOMAIN Slots \ {slot}
  /\ timer' = IF sched.at = "idle" /\ timer = "armed" THEN "late" ELSE timer
  /\ UNCHANGED <<level, cfg, saved, life, current, original, orphans, loop, sched,
                 reading, changed, ghosts>>

TimerFires ==
  /\ timer = "late"
  /\ timer' = "fired"
  /\ UNCHANGED <<level, slot, cfg, saved, life, current, original, orphans,
                 loop, sched, reading, changed, ghosts>>

-----------------------------------------------------------------------------
LoopStep ==
  \/ \E c \in Configs : SaveConfig(c)
  \/ ResetSettings
  \/ \E system \in BOOLEAN : UpdatePreferences(system)
  \/ \E enabled \in BOOLEAN : SaveBrightnessSchedule(enabled)
  \/ Resume
  \/ Initialize
  \/ \E v \in Levels : SetBrightness(v)
  \/ LoopDecides
  \/ LoopWrites
  \/ LoopVerifies
  \/ LoopKeeps
  \/ LoopReads
  \/ LoopStores

\* brightnessScheduler handling a boundary.
Boundary ==
  \/ SchedTimer
  \/ SchedDecides
  \/ SchedWrites
  \/ SchedVerifies
  \/ SchedReads
  \/ SchedStores

LifeStep ==
  \/ CleanupBegins
  \/ CleanupRestores
  \/ CleanupVerifies
  \/ CleanupDisarm
  \/ CleanupCancel
  \/ Exit
  \/ Kill
  \/ \E guard \in Levels \cup {Unset} : GuardActs(guard)
  \/ Start
  \/ Started
  \/ \E v \in Levels : SystemAdjusts(v)

Next ==
  \/ LoopStep
  \/ \E r \in Reporters : ReporterReads(r) \/ ReporterStores(r)
  \/ Boundary
  \/ SchedSignal
  \/ SchedDone
  \/ LifeStep
  \/ SlotTurns
  \/ TimerFires

\* Half-hours pass, timers fire, and Go runs a ready goroutine.  Nothing is assumed of
\* the reporters, nor of what select takes when a signal is there as well.
Fairness ==
  /\ WF_vars(SlotTurns)
  /\ WF_vars(TimerFires)
  /\ WF_vars(Boundary)

Spec == Init /\ [][Next]_vars
FairSpec == Spec /\ Fairness

-----------------------------------------------------------------------------
\* docs/validation/device-baseline.md: "normal exit and SIGKILL both restored".
\* Once the backend has ended, at whatever point it was killed, and its guard has
\* seen it, the light is back at the level it had before the start, unless the
\* owner keeps the light on exit, a goroutine wrote it after cleanup had restored
\* it, or the backend was started again before an earlier guard had acted.
LightComesBack ==
  life = "down" /\ orphans = {} /\ ~excused => level = home

\* applyConfiguredBrightness skips a write on the word of the cached level.  Outside
\* SetValue that level is wrong only after a Read that was overtaken: one that took
\* its value from the file before a write and stored it after the write's read-back.
\* The next Read of any goroutine mends it.
StaleOnlyIfOvertaken ==
  Alive /\ ~excused /\ ~Writing /\ current # level => misled

\* main.go: "brightnessScheduler applies a changed slot exactly at each half-hour
\* edge".  Where it finds nothing to write for an assigned slot, no handler being at
\* work, the light is at the slot's level.
SlotsApplied ==
  /\ life = "up" /\ loop.at = "idle" /\ ~excused
  /\ sched.at = "apply" /\ cfg.enabled /\ sched.target = Slots[slot]
  /\ current = sched.target
  => level = sched.target

\* With the custom light on and the owner doing nothing, brightnessScheduler goes on
\* handling boundaries, and a level that slots ask for again and again is reached
\* again and again: an overtaken Read of another goroutine costs a boundary or more,
\* but not all of them.
Steady == life = "up" /\ loop.at = "idle" /\ ~cfg.system /\ orphans = {}
Handled(v) == sched.at = "state" /\ Wanted(cfg, slot) = v

LightFollowsSettings ==
  <>[]Steady => /\ []<>(sched.at = "state")
                /\ \A v \in Levels : []<>Handled(v) => []<>(Handled(v) /\ level = v)
=============================================================================
