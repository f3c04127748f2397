-------------------------- MODULE FrontLightProofs --------------------------
(***************************************************************************)
(* Proofs about FrontLight: for any levels, schedule, settings, reporters  *)
(* and number of guards.                                                   *)
(***************************************************************************)
EXTENDS FrontLight, TLAPS

\* main has not started the goroutines yet.
Starting ==
  loop.at = "start" \/ (loop.at \in {"apply", "write", "verify"} /\ loop.next = "start")

\* A goroutine at work on the light has a level to go for; cleanup can only begin when
\* main has started the goroutines; a backend that is down has none.
Targets ==
  /\ loop.at \in {"apply", "write", "verify", "keep", "assign"} => loop.target \in Levels
  /\ loop.at = "apply" => loop.next # "keep"
  /\ Starting => sched.at = "off"
  /\ sched.at \in {"apply", "write", "verify", "assign"} => sched.target \in Levels
  /\ sched.at = "off" => life \in {"up", "down"}
  /\ ~Alive => /\ overtaken = {}
               /\ loop.at = "idle" /\ sched.at = "off"
               /\ \A r \in Reporters : reading[r] = Unset

\* While nothing is excused no earlier guard is about, and the level to restore is
\* the one before the start.
Kept ==
  ~excused =>
    /\ Alive => orphans = {} /\ original = home
    /\ life \in {"verifying", "restored", "disarmed", "cancelled"} => level = home
    /\ life = "down" => \/ orphans \subseteq {Unset} /\ level = home
                        \/ orphans = {home}

\* While nothing is excused a Read that was not overtaken holds the file's level, and
\* the cached level is the file's, wrong by such a Read, or about to be read back.
Cached ==
  Alive /\ ~excused =>
    /\ \A r \in Reporters : reading[r] # Unset /\ r \notin overtaken => reading[r] = level
    /\ loop.at = "assign" /\ "loop" \notin overtaken => loop.target = level
    /\ sched.at = "assign" /\ "sched" \notin overtaken => sched.target = level
    /\ current = level \/ misled \/ Writing

IInv == TypeOK /\ Targets /\ Kept /\ Cached

LoopNexts == {"idle", "start", "keep", "report"}
Loops == [at : LoopSteps, target : Levels \cup {Unset}, next : LoopNexts]
Scheds == [at : SchedSteps, target : Levels \cup {Unset}, next : {"idle", "state"}]

-----------------------------------------------------------------------------
LEMMA StepType ==
  /\ \A a : Step(a).at = a /\ Step(a).target = Unset /\ Step(a).next = "idle"
  /\ \A a \in LoopSteps : Step(a) \in Loops
  /\ \A a \in SchedSteps : Step(a) \in Scheds
  BY DEF Step, Loops, LoopNexts, Scheds

\* Normalize leaves the two modes exclusive.
LEMMA NormalizedType ==
  ASSUME NEW c \in Config
  PROVE  Normalized(c) \in Config /\ ~(Normalized(c).system /\ Normalized(c).enabled)
  BY DEF Config, Normalized

\* What applyConfiguredBrightness goes for is a level.
LEMMA ApplyingType ==
  ASSUME slot \in DOMAIN Slots, NEW c \in Config, NEW next
  PROVE  \/ Applying(c, next) = Step(next)
         \/ \E v \in Levels :
              Applying(c, next) = [at |-> "apply", target |-> v, next |-> next]
  <1>1. Wanted(c, slot) \in Levels
    BY LightAssumption DEF Wanted, Config
  <1> QED
    BY <1>1 DEF Applying

\* What the receive loop is to do after a handler has decided.
LoopPlan(l) ==
  /\ l \in Loops
  /\ l.at \in {"idle", "report", "apply", "write"}
  /\ l.next # "start"
  /\ l.at \in {"apply", "write"} => l.target \in Levels
  /\ l.at = "apply" => l.next # "keep"

LEMMA PlanType ==
  ASSUME slot \in DOMAIN Slots, NEW c \in Config
  PROVE  \A next \in {"idle", "report"} : LoopPlan(Applying(c, next))
  <1> TAKE next \in {"idle", "report"}
  <1>1. CASE Applying(c, next) = Step(next)
    BY <1>1, StepType DEF LoopPlan, LoopSteps
  <1>2. CASE \E v \in Levels :
               Applying(c, next) = [at |-> "apply", target |-> v, next |-> next]
    BY <1>2 DEF LoopPlan, Loops, LoopNexts, LoopSteps
  <1> QED
    BY <1>1, <1>2, ApplyingType

-----------------------------------------------------------------------------
LEMMA InitHolds == Init => IInv
  <1> SUFFICES ASSUME Init PROVE IInv
    OBVIOUS
  <1>1. Idle \in Loops /\ Step("off") \in Scheds /\ Idle.at = "idle"
        /\ Step("off").at = "off"
    BY StepType DEF Idle, LoopSteps, SchedSteps
  <1>2. TypeOK
    BY LightAssumption, <1>1 DEF Init, TypeOK, Alive, Loops, LoopNexts, Scheds
  <1>3. Targets /\ Kept /\ Cached
    BY <1>1 DEF Init, Targets, Starting, Kept, Cached, Alive
  <1> QED
    BY <1>2, <1>3 DEF IInv

\* The handlers, up to the point where the receive loop knows what it is to do.
LEMMA PlanningStep ==
  ASSUME IInv,
         \/ \E c \in Configs : SaveConfig(c)
         \/ ResetSettings
         \/ \E system \in BOOLEAN : UpdatePreferences(system)
         \/ \E enabled \in BOOLEAN : SaveBrightnessSchedule(enabled)
         \/ Resume
         \/ Initialize
         \/ \E v \in Levels : SetBrightness(v)
  PROVE  IInv'
  <1> DEFINE Ready == LoopPlan(loop') \/ loop' = Step("state") \/ loop' = loop
  <1>1. Handling /\ Unmoved
    BY DEF SaveConfig, ResetSettings, UpdatePreferences, SaveBrightnessSchedule, Resume,
           Initialize, SetBrightness
  <1>2. original \in Levels
    BY <1>1 DEF Handling, IInv, TypeOK
  <1>3. LoopPlan(Restoring)
    BY <1>2 DEF Restoring, LoopPlan, Loops, LoopNexts, LoopSteps
  <1>4. \A c \in Config : Follow(c) => LoopPlan(loop')
    BY <1>3, PlanType DEF Follow, IInv, TypeOK
  <1>5. /\ {cfg', saved'} \subseteq Config /\ ~(saved'.system /\ saved'.enabled)
        /\ Ready
    <2>1. CASE \E c \in Configs : SaveConfig(c)
      BY <2>1, <1>4, NormalizedType, LightAssumption DEF SaveConfig
    <2>2. CASE ResetSettings
      BY <2>2, <1>3, LightAssumption DEF ResetSettings
    <2>3. CASE \E system \in BOOLEAN : UpdatePreferences(system)
      <3> PICK system \in BOOLEAN : UpdatePreferences(system)
        BY <2>3
      <3>1. cfg' \in Config
        BY DEF UpdatePreferences, IInv, TypeOK, Config
      <3> QED
        BY <3>1, <1>4, NormalizedType DEF UpdatePreferences, IInv, TypeOK
    <2>4. CASE \E enabled \in BOOLEAN : SaveBrightnessSchedule(enabled)
      <3> PICK enabled \in BOOLEAN : SaveBrightnessSchedule(enabled)
        BY <2>4
      <3>1. [cfg EXCEPT !.enabled = enabled, !.system = @ /\ ~enabled] \in Config
        BY DEF IInv, TypeOK, Config
      <3> QED
        BY <3>1, PlanType, NormalizedType DEF SaveBrightnessSchedule, IInv, TypeOK
    <2>5. CASE Resume
      BY <2>5, PlanType DEF Resume, IInv, TypeOK
    <2>6. CASE Initialize
      BY <2>6 DEF Initialize, IInv, TypeOK
    <2>7. CASE \E v \in Levels : SetBrightness(v)
      BY <2>7 DEF SetBrightness, LoopPlan, Loops, LoopNexts, LoopSteps, IInv, TypeOK
    <2> QED
      BY <2>1, <2>2, <2>3, <2>4, <2>5, <2>6, <2>7
  <1>6. /\ loop' \in Loops
        /\ loop'.at \in {"idle", "report", "state", "apply", "write"}
        /\ loop'.at \in {"apply", "write"} => loop'.target \in Levels
        /\ loop'.at = "apply" => loop'.next # "keep"
        /\ ~Starting'
    BY <1>1, <1>5, StepType
    DEF LoopPlan, Handling, Starting, IInv, TypeOK, Loops, LoopNexts, LoopSteps
  <1> HIDE DEF Ready
  <1>7. TypeOK' /\ Targets'
    BY <1>1, <1>5, <1>6
    DEF IInv, TypeOK, Targets, Starting, Alive, Handling, Unmoved, ghosts, Loops, LoopNexts
  <1>8. Kept' /\ Cached'
    BY <1>1, <1>6 DEF IInv, Kept, Cached, Alive, Writing, Handling, Unmoved, ghosts
  <1> QED
    BY <1>7, <1>8 DEF IInv

\* brightnessScheduler's own steps, a timer, a slot: the light and its cache stay.
LEMMA SchedulingStep ==
  ASSUME IInv,
         \/ SchedTimer
         \/ SchedDecides
         \/ SchedReads
         \/ SchedSignal
         \/ SchedDone
         \/ SlotTurns
         \/ TimerFires
  PROVE  IInv'
  <1>1. CASE SchedTimer \/ SchedDecides
    <2>1. /\ sched' \in Scheds
          /\ sched'.at \in {"idle", "state", "apply", "write"}
          /\ sched'.at \in {"apply", "write"} => sched'.target \in Levels
      <3>1. CASE SchedTimer
        <4>1. \/ sched' = Step("state")
              \/ \E v \in Levels :
                   sched' = [at |-> "apply", target |-> v, next |-> "state"]
          BY <3>1, ApplyingType DEF SchedTimer, IInv, TypeOK
        <4> QED
          BY <4>1, StepType DEF Scheds, SchedSteps
      <3>2. CASE SchedDecides
        BY <3>2, StepType DEF SchedDecides, Decided, IInv, TypeOK, Targets, Starting, Scheds, SchedSteps
      <3> QED
        BY <1>1, <3>1, <3>2
    <2>2. SchedOnly /\ Alive /\ sched.at # "off" /\ timer' \in {timer, "armed"}
      BY <1>1 DEF SchedTimer, SchedDecides
    <2>3. TypeOK'
      BY <2>1, <2>2 DEF SchedOnly, IInv, TypeOK, Alive, ghosts, Scheds
    <2>4. Targets'
      BY <2>1, <2>2 DEF SchedOnly, IInv, Targets, Starting, Alive, ghosts
    <2>5. Kept' /\ Cached'
      BY <1>1, <2>1, <2>2
      DEF SchedTimer, SchedDecides, SchedOnly, IInv, Kept, Cached, Alive, Writing, ghosts
    <2> QED
      BY <2>3, <2>4, <2>5 DEF IInv
  <1>2. CASE SchedReads
    <2>1. sched' \in Scheds /\ sched'.at = "assign" /\ sched'.target = level
      BY <1>2, StepType DEF SchedReads, IInv, TypeOK, Scheds, SchedSteps
    <2>2. SchedOnly /\ Alive /\ sched.at = "state" /\ timer' = timer
      BY <1>2 DEF SchedReads
    <2>3. TypeOK'
      BY <2>1, <2>2 DEF SchedOnly, IInv, TypeOK, Alive, ghosts, Scheds
    <2>4. Targets'
      BY <2>1, <2>2 DEF SchedOnly, IInv, TypeOK, Targets, Starting, Alive, ghosts
    <2>5. Kept'
      BY <2>1, <2>2 DEF SchedOnly, IInv, Kept, Alive, ghosts
    <2>6. Cached'
      BY <2>1, <2>2 DEF SchedOnly, IInv, Cached, Alive, Writing, ghosts
    <2> QED
      BY <2>3, <2>4, <2>5, <2>6 DEF IInv
  <1>3. CASE SchedSignal
    <2>1. TypeOK'
      BY <1>3 DEF SchedSignal, IInv, TypeOK, Alive, ghosts
    <2>2. Targets'
      BY <1>3 DEF SchedSignal, IInv, Targets, Starting, Alive, ghosts
    <2>3. Kept' /\ Cached'
      BY <1>3 DEF SchedSignal, IInv, Kept, Cached, Alive, Writing, ghosts
    <2> QED
      BY <2>1, <2>2, <2>3 DEF IInv
  <1>4. CASE SchedDone
    <2>1. sched' \in Scheds /\ sched'.at = "done"
      BY <1>4, StepType DEF SchedDone, SchedSteps
    <2>2. SchedOnly /\ life = "cancelled" /\ sched.at = "idle" /\ timer' = timer
      BY <1>4 DEF SchedDone
    <2>3. TypeOK'
      BY <2>1, <2>2 DEF SchedOnly, IInv, TypeOK, Alive, ghosts, Scheds
    <2>4. Targets'
      BY <2>1, <2>2 DEF SchedOnly, IInv, TypeOK, Targets, Starting, Alive, ghosts
    <2>5. Kept'
      BY <2>1, <2>2 DEF SchedOnly, IInv, Kept, Alive, ghosts
    <2>6. Cached'
      BY <2>1, <2>2 DEF SchedOnly, IInv, Cached, Alive, Writing, ghosts
    <2> QED
      BY <2>3, <2>4, <2>5, <2>6 DEF IInv
  <1>5. CASE SlotTurns \/ TimerFires
    <2>1. TypeOK'
      BY <1>5 DEF SlotTurns, TimerFires, IInv, TypeOK, Alive, ghosts
    <2>2. Targets'
      BY <1>5 DEF SlotTurns, TimerFires, IInv, Targets, Starting, Alive, ghosts
    <2>3. Kept' /\ Cached'
      BY <1>5 DEF SlotTurns, TimerFires, IInv, Kept, Cached, Alive, Writing, ghosts
    <2> QED
      BY <2>1, <2>2, <2>3 DEF IInv
  <1> QED
    BY <1>1, <1>2, <1>3, <1>4, <1>5

\* The receive loop's own steps, which leave light and cache alone too.
LEMMA LoopingStep ==
  ASSUME IInv, LoopDecides \/ LoopKeeps \/ LoopReads \/ Started
  PROVE  IInv'
  <1>1. CASE LoopDecides
    <2>1. /\ loop' \in Loops
          /\ loop'.at \in {"idle", "start", "report", "write"}
          /\ loop'.at = "write" => loop'.target \in Levels
          /\ Starting' => Starting
      BY <1>1, StepType
      DEF LoopDecides, Decided, IInv, TypeOK, Targets, Starting, Loops, LoopNexts,
          LoopSteps
    <2>2. Unmoved /\ cfg' = cfg /\ saved' = saved /\ Alive /\ loop.at = "apply"
      BY <1>1 DEF LoopDecides
    <2>3. TypeOK'
      BY <2>1, <2>2 DEF Unmoved, IInv, TypeOK, Alive, ghosts, Loops, LoopNexts
    <2>4. Targets'
      BY <2>1, <2>2 DEF Unmoved, IInv, Targets, Alive, ghosts
    <2>5. Kept' /\ Cached'
      BY <2>1, <2>2 DEF Unmoved, IInv, Kept, Cached, Alive, Writing, ghosts
    <2> QED
      BY <2>3, <2>4, <2>5 DEF IInv
  <1>2. CASE LoopKeeps
    <2>1. cfg' \in Config
      BY <1>2 DEF LoopKeeps, IInv, TypeOK, Targets, Starting, Config
    <2>2. saved' \in Config /\ ~(saved'.system /\ saved'.enabled)
      BY <1>2, <2>1, NormalizedType DEF LoopKeeps, IInv, TypeOK
    <2>3. loop' \in Loops /\ loop'.at = "state"
      BY <1>2, StepType DEF LoopKeeps, LoopSteps
    <2> QED
      BY <1>2, <2>1, <2>2, <2>3
      DEF LoopKeeps, Unmoved, IInv, TypeOK, Targets, Starting, Kept, Cached, Alive, Writing, ghosts,
          Loops, LoopNexts
  <1>3. CASE LoopReads
    <2>1. loop' \in Loops /\ loop'.at = "assign" /\ loop'.target = level
      BY <1>3, StepType DEF LoopReads, IInv, TypeOK, Loops, LoopNexts, LoopSteps
    <2>2. TypeOK' /\ Targets'
      BY <1>3, <2>1
      DEF LoopReads, IInv, TypeOK, Targets, Starting, Alive, ghosts, Loops, LoopNexts
    <2>3. Kept' /\ Cached'
      BY <1>3, <2>1 DEF LoopReads, IInv, Kept, Cached, Alive, Writing, ghosts
    <2> QED
      BY <2>2, <2>3 DEF IInv
  <1>4. CASE Started
    <2>1. /\ loop' \in Loops /\ loop'.at = "idle"
          /\ sched' \in Scheds /\ sched'.at = "idle"
      BY <1>4, StepType DEF Started, Idle, LoopSteps, SchedSteps
    <2>2. TypeOK'
      BY <1>4, <2>1 DEF Started, IInv, TypeOK, Alive, ghosts, Loops, LoopNexts, Scheds
    <2>3. Targets'
      BY <1>4, <2>1 DEF Started, IInv, Targets, Starting, Alive, ghosts
    <2>4. Kept' /\ Cached'
      <3>1. sched.at = "off" /\ loop.at = "start"
        BY <1>4 DEF Started, IInv, Targets, Starting
      <3> QED
        BY <1>4, <2>1, <3>1 DEF Started, IInv, Kept, Cached, Alive, Writing, ghosts
    <2> QED
      BY <2>2, <2>3, <2>4 DEF IInv
  <1> QED
    BY <1>1, <1>2, <1>3, <1>4

\* Every Read that is pending when the light is written is overtaken.
LEMMA WriteKeeps ==
  ASSUME IInv, Alive, NEW v \in Levels, WriteLight(v)
  PROVE  /\ level' \in Levels
         /\ overtaken' \subseteq {"loop", "sched"} \cup Reporters
         /\ \A r \in Reporters : reading[r] # Unset => r \in overtaken'
         /\ loop.at = "assign" => "loop" \in overtaken'
         /\ sched.at = "assign" => "sched" \in overtaken'
  BY DEF WriteLight, Pending, IInv, TypeOK

LEMMA WritingStep ==
  ASSUME IInv, LoopWrites \/ SchedWrites \/ CleanupRestores
  PROVE  IInv'
  <1>1. CASE LoopWrites
    <2>1. loop.target \in Levels /\ Alive
      BY <1>1 DEF LoopWrites, IInv, Targets, Starting
    <2>2. /\ loop' \in Loops /\ loop'.at = "verify" /\ loop'.target = loop.target
          /\ loop.at # "assign"
      BY <1>1, <2>1 DEF LoopWrites, IInv, TypeOK, Loops, LoopNexts, LoopSteps
    <2>3. TypeOK' /\ Targets'
      BY <1>1, <2>1, <2>2, WriteKeeps
      DEF LoopWrites, WriteLight, Excuse, IInv, TypeOK, Targets, Starting, Alive, Loops, LoopNexts
    <2>4. Kept'
      BY <1>1, <2>1 DEF LoopWrites, WriteLight, Writing, Excuse, IInv, TypeOK, Kept, Alive
    <2>5. Cached'
      BY <1>1, <2>1, <2>2, WriteKeeps DEF LoopWrites, IInv, Cached, Alive, Writing
    <2> QED
      BY <2>3, <2>4, <2>5 DEF IInv
  <1>2. CASE SchedWrites
    <2>1. sched.target \in Levels /\ Alive
      BY <1>2 DEF SchedWrites, IInv, Targets, Starting
    <2>2. sched' \in Scheds /\ sched'.at = "verify" /\ sched'.target = sched.target
      BY <1>2, <2>1 DEF SchedWrites, IInv, TypeOK, Scheds, SchedSteps
    <2>3. TypeOK' /\ Targets'
      BY <1>2, <2>1, <2>2, WriteKeeps
      DEF SchedWrites, WriteLight, Excuse, IInv, TypeOK, Targets, Starting, Alive, Scheds
    <2>4. Kept'
      BY <1>2, <2>1 DEF SchedWrites, WriteLight, Writing, Excuse, IInv, TypeOK, Kept, Alive
    <2>5. Cached'
      BY <1>2, <2>1, <2>2, WriteKeeps DEF SchedWrites, IInv, Cached, Alive, Writing
    <2> QED
      BY <2>3, <2>4, <2>5 DEF IInv
  <1>3. CASE CleanupRestores
    <2>1. original \in Levels /\ Alive /\ Alive'
      BY <1>3 DEF CleanupRestores, IInv, TypeOK, Alive
    <2>2. TypeOK' /\ Targets'
      BY <1>3, <2>1, WriteKeeps
      DEF CleanupRestores, WriteLight, IInv, TypeOK, Targets, Starting, Alive, goVars
    <2>3. Kept'
      BY <1>3, <2>1 DEF CleanupRestores, WriteLight, IInv, Kept, Alive
    <2>4. Cached'
      BY <1>3, <2>1, WriteKeeps DEF CleanupRestores, goVars, IInv, Cached, Alive, Writing
    <2> QED
      BY <2>2, <2>3, <2>4 DEF IInv
  <1> QED
    BY <1>1, <1>2, <1>3

\* The cached level is the file's when the mutex is released.
LEMMA VerifyingStep ==
  ASSUME IInv, LoopVerifies \/ SchedVerifies \/ CleanupVerifies
  PROVE  IInv'
  <1>1. CASE LoopVerifies
    <2>1. /\ loop' \in Loops
          /\ loop'.at \in {"idle", "start", "report", "keep"}
          /\ loop'.at = "keep" => loop'.target \in Levels
          /\ Starting' => Starting
      BY <1>1, StepType
      DEF LoopVerifies, Idle, IInv, TypeOK, Targets, Starting, Loops, LoopNexts, LoopSteps
    <2>2. TypeOK' /\ Targets'
      BY <1>1, <2>1
      DEF LoopVerifies, ReadBack, IInv, TypeOK, Targets, Alive, Loops, LoopNexts
    <2>3. Kept' /\ Cached'
      BY <1>1, <2>1 DEF LoopVerifies, ReadBack, IInv, Kept, Cached, Alive
    <2> QED
      BY <2>2, <2>3 DEF IInv
  <1>2. CASE SchedVerifies
    <2>1. sched' \in Scheds /\ sched'.at \in {"idle", "state"}
      BY <1>2, StepType DEF SchedVerifies, Idle, SchedSteps
    <2>2. TypeOK' /\ Targets'
      BY <1>2, <2>1 DEF SchedVerifies, ReadBack, IInv, TypeOK, Targets, Starting, Alive, Scheds
    <2>3. Kept' /\ Cached'
      BY <1>2, <2>1 DEF SchedVerifies, ReadBack, IInv, Kept, Cached, Alive
    <2> QED
      BY <2>2, <2>3 DEF IInv
  <1>3. CASE CleanupVerifies
    <2>1. TypeOK' /\ Targets'
      BY <1>3 DEF CleanupVerifies, ReadBack, IInv, TypeOK, Targets, Starting, Alive, goVars
    <2>2. Kept' /\ Cached'
      BY <1>3 DEF CleanupVerifies, ReadBack, IInv, Kept, Cached, Alive, goVars
    <2> QED
      BY <2>1, <2>2 DEF IInv
  <1> QED
    BY <1>1, <1>2, <1>3

\* A Read that stores a value the file no longer has is known to have been overtaken.
LEMMA StoringStep ==
  ASSUME IInv,
         \/ LoopStores
         \/ SchedStores
         \/ \E r \in Reporters : ReporterReads(r) \/ ReporterStores(r)
  PROVE  IInv'
  <1>1. CASE LoopStores
    <2>1. loop' \in Loops /\ loop'.at = "idle"
      BY <1>1, StepType DEF LoopStores, Idle, LoopSteps
    <2>2. TypeOK' /\ Targets'
      BY <1>1, <2>1
      DEF LoopStores, StoreRead, IInv, TypeOK, Targets, Starting, Alive, Loops, LoopNexts
    <2>3. Kept' /\ Cached'
      BY <1>1, <2>1, LightAssumption
      DEF LoopStores, StoreRead, IInv, TypeOK, Kept, Cached, Alive, Writing
    <2> QED
      BY <2>2, <2>3 DEF IInv
  <1>2. CASE SchedStores
    <2>1. sched' \in Scheds /\ sched'.at = "idle"
      BY <1>2, StepType DEF SchedStores, Idle, SchedSteps
    <2>2. TypeOK' /\ Targets'
      BY <1>2, <2>1 DEF SchedStores, StoreRead, IInv, TypeOK, Targets, Starting, Alive, Scheds
    <2>3. Kept' /\ Cached'
      BY <1>2, <2>1, LightAssumption
      DEF SchedStores, StoreRead, IInv, TypeOK, Kept, Cached, Alive, Writing
    <2> QED
      BY <2>2, <2>3 DEF IInv
  <1>3. ASSUME NEW r \in Reporters, ReporterReads(r) PROVE IInv'
    BY <1>3 DEF ReporterReads, IInv, TypeOK, Targets, Starting, Kept, Cached, Alive, Writing, ghosts
  <1>4. ASSUME NEW r \in Reporters, ReporterStores(r) PROVE IInv'
    <2>1. Alive /\ reading[r] \in Levels /\ reading' \in [Reporters -> Levels \cup {Unset}]
      BY <1>4 DEF ReporterStores, IInv, TypeOK
    <2>2. TypeOK'
      <3>1. /\ current' \in Levels /\ misled' \in BOOLEAN
            /\ overtaken' \subseteq {"loop", "sched"} \cup Reporters
        <4>1. current' \in Levels /\ overtaken' \subseteq {"loop", "sched"} \cup Reporters
          BY <1>4, <2>1 DEF ReporterStores, StoreRead, IInv, TypeOK
        <4>2. misled' \in BOOLEAN
          <5>1. misled' = (r \in overtaken)
            BY <1>4 DEF ReporterStores, StoreRead
          <5>2. (r \in overtaken) \in BOOLEAN
            OBVIOUS
          <5> QED
            BY <5>1, <5>2
        <4> QED
          BY <4>1, <4>2
      <3> QED
        BY <1>4, <2>1, <3>1 DEF ReporterStores, StoreRead, IInv, TypeOK, Alive
    <2>3. Targets'
      BY <1>4, <2>1 DEF ReporterStores, StoreRead, IInv, Targets, Starting, Alive
    <2>4. Kept' /\ Cached'
      BY <1>4, LightAssumption
      DEF ReporterStores, StoreRead, IInv, TypeOK, Kept, Cached, Alive, Writing
    <2> QED
      BY <2>2, <2>3, <2>4 DEF IInv
  <1> QED
    BY <1>1, <1>2, <1>3, <1>4

LEMMA CleanupStep ==
  ASSUME IInv, CleanupBegins \/ CleanupDisarm \/ CleanupCancel
  PROVE  IInv'
  <1>1. CASE CleanupBegins
    <2>1. TypeOK' /\ Targets' /\ Cached'
      BY <1>1
      DEF CleanupBegins, IInv, TypeOK, Targets, Starting, Cached, Alive, Writing, goVars, cacheGhosts,
          Config
    <2>2. Kept'
      BY <1>1 DEF CleanupBegins, IInv, TypeOK, Kept, Alive, Config
    <2> QED
      BY <2>1, <2>2 DEF IInv
  <1>2. CASE CleanupDisarm
    BY <1>2
    DEF CleanupDisarm, IInv, TypeOK, Targets, Starting, Kept, Cached, Alive, Writing, goVars, ghosts
  <1>3. CASE CleanupCancel
    BY <1>3
    DEF CleanupCancel, IInv, TypeOK, Targets, Starting, Kept, Cached, Alive, Writing, goVars, ghosts
  <1> QED
    BY <1>1, <1>2, <1>3

LEMMA EndingStep ==
  ASSUME IInv, Exit \/ Kill
  PROVE  IInv'
  <1>1. PICK guard : Ended(guard) /\ guard \in Levels \cup {Unset}
                     /\ Alive
                     /\ \/ guard = Unset /\ life \in {"disarmed", "cancelled"}
                        \/ guard = original
    BY DEF Exit, Kill, Alive, IInv, TypeOK
  <1>2. Idle \in Loops /\ Idle.at = "idle" /\ Step("off") \in Scheds /\ Step("off").at = "off"
    BY StepType DEF Idle, LoopSteps, SchedSteps
  <1>3. TypeOK' /\ Targets'
    BY <1>1, <1>2
    DEF Ended, IInv, TypeOK, Targets, Starting, Alive, Loops, LoopNexts, Scheds
  <1>4. Kept' /\ Cached'
    BY <1>1 DEF Ended, IInv, TypeOK, Kept, Cached, Alive
  <1> QED
    BY <1>3, <1>4 DEF IInv

\* What the next start finds.
LEMMA DownStep ==
  ASSUME IInv,
         \/ \E guard \in Levels \cup {Unset} : GuardActs(guard)
         \/ Start
         \/ \E v \in Levels : SystemAdjusts(v)
  PROVE  IInv'
  <1>1. CASE \E guard \in Levels \cup {Unset} : GuardActs(guard)
    <2> PICK guard \in Levels \cup {Unset} : GuardActs(guard)
      BY <1>1
    <2>1. TypeOK' /\ Targets'
      BY DEF GuardActs, IInv, TypeOK, Targets, Starting, Alive, goVars, ghosts
    <2>2. Kept'
      BY LightAssumption DEF GuardActs, IInv, TypeOK, Kept, Alive, ghosts
    <2>3. Cached'
      BY DEF GuardActs, IInv, Kept, Cached, Alive, Writing, goVars, ghosts
    <2> QED
      BY <2>1, <2>2, <2>3 DEF IInv
  <1>2. CASE Start
    <2>1. /\ loop' \in Loops
          /\ loop'.at \in {"start", "apply"}
          /\ loop'.at = "apply" => loop'.target \in Levels /\ loop'.next # "keep"
      <3>1. \/ loop' = Step("start")
            \/ \E v \in Levels :
                 loop' = [at |-> "apply", target |-> v, next |-> "start"]
        BY <1>2, ApplyingType DEF Start, IInv, TypeOK
      <3> QED
        BY <3>1, StepType DEF Loops, LoopNexts, LoopSteps
    <2>2. TypeOK' /\ Targets'
      BY <1>2, <2>1
      DEF Start, IInv, TypeOK, Targets, Starting, Alive, cacheGhosts, Loops, LoopNexts
    <2>3. Kept'
      BY <1>2 DEF Start, IInv, Kept, Alive
    <2>4. Cached'
      BY <1>2, <2>1 DEF Start, IInv, Targets, Starting, Cached, Alive
    <2> QED
      BY <2>2, <2>3, <2>4 DEF IInv
  <1>3. CASE \E v \in Levels : SystemAdjusts(v)
    BY <1>3
    DEF SystemAdjusts, IInv, TypeOK, Targets, Starting, Kept, Cached, Alive, goVars, cacheGhosts
  <1> QED
    BY <1>1, <1>2, <1>3

LEMMA StepHolds == IInv /\ [Next]_vars => IInv'
  <1> SUFFICES ASSUME IInv, [Next]_vars PROVE IInv'
    OBVIOUS
  <1>1. CASE UNCHANGED vars
    BY <1>1 DEF vars, IInv, TypeOK, Targets, Starting, Kept, Cached, Alive, Writing
  <1>2. CASE Next
    <2>1. CASE LoopStep
      BY <2>1, PlanningStep, LoopingStep, WritingStep, VerifyingStep, StoringStep
      DEF LoopStep
    <2>2. CASE Boundary \/ SchedSignal \/ SchedDone \/ SlotTurns \/ TimerFires
      BY <2>2, SchedulingStep, WritingStep, VerifyingStep, StoringStep DEF Boundary
    <2>3. CASE LifeStep
      BY <2>3, LoopingStep, WritingStep, VerifyingStep, CleanupStep, EndingStep, DownStep
      DEF LifeStep
    <2>4. CASE \E r \in Reporters : ReporterReads(r) \/ ReporterStores(r)
      BY <2>4, StoringStep
    <2> QED
      BY <1>2, <2>1, <2>2, <2>3, <2>4 DEF Next
  <1> QED
    BY <1>1, <1>2

LEMMA Invariant == Spec => []IInv
  BY InitHolds, StepHolds, PTL DEF Spec

-----------------------------------------------------------------------------
\* Every value stays in its type; in particular the cached and the original level
\* are known as long as the backend runs, and what is stored is normalized.
THEOREM LightTypes == Spec => []TypeOK
  <1>1. IInv => TypeOK
    BY DEF IInv
  <1> QED
    BY <1>1, Invariant, PTL

\* Once the backend has ended and its guard has acted, the light is where it was
\* before the start, but for the three exceptions LightComesBack names: for any
\* levels, schedule, settings and number of guards left behind.
THEOREM LightIsRestored == Spec => []LightComesBack
  <1>1. IInv => LightComesBack
    BY DEF IInv, Kept, LightComesBack
  <1> QED
    BY <1>1, Invariant, PTL

\* The cached level, which decides whether a write may be skipped, is the file's,
\* unless the last Read that stored it had been overtaken by a write: whatever the
\* number of goroutines that send a state.
THEOREM CacheIsMisledOnlyByReads == Spec => []StaleOnlyIfOvertaken
  <1>1. IInv => StaleOnlyIfOvertaken
    BY DEF IInv, Cached, StaleOnlyIfOvertaken
  <1> QED
    BY <1>1, Invariant, PTL
=============================================================================
