---------------------------- MODULE BatteryTest ----------------------------
(***************************************************************************)
(* The battery life test: backend/internal/batterytest/batterytest.go and  *)
(* the functions of main.go that three goroutines call on it.  Each reads  *)
(* the battery before it takes batteryMu, changes the state under the lock,*)
(* and writes its own copy to disk after the unlock.                       *)
(***************************************************************************)
EXTENDS Integers, Sequences

CONSTANTS
  MaxPercent,   \* a full battery (100)
  MaxSamples,   \* batterytest.MaxSamples
  DiskFails,    \* whether writes may fail, at any of their steps
  MaxEvents,    \* bound on Refreshes + Wakes
  Recorders     \* goroutines that only record: the scheduler's fetch, the sampler

ASSUME BatteryAssumption ==
  /\ MaxPercent \in Nat \ {0}
  /\ MaxSamples \in Nat \ {0}
  /\ MaxEvents \in Nat
  /\ DiskFails \in BOOLEAN
  /\ "loop" \notin Recorders

VARIABLES
  percent, plugged,   \* the battery
  mem,                \* a.batteryTest
  disk,               \* battery-test.json
  pc,                 \* per goroutine: "idle", "read" or "write"
  call,               \* per goroutine: the function it is in
  reading,            \* per goroutine: its local percent
  copy                \* per goroutine: its clone to write

vars == <<percent, plugged, mem, disk, pc, call, reading, copy>>

\* The receive loop handles the buttons and msgResume.
Goroutines == {"loop"} \cup Recorders

\* The functions each goroutine calls; "record" is recordBatterySample(false)
\* and "count" is recordBatteryRefresh or recordBatteryWake, which count an event.
Calls == [g \in Goroutines |->
            IF g = "loop" THEN {"start", "stop", "reset", "count"} ELSE {"record", "count"}]
AllCalls == UNION {Calls[g] : g \in Goroutines}

Unread == -1
Percent == 0 .. MaxPercent

State == [active : BOOLEAN, started : BOOLEAN, start : Percent,
          current : Percent, charging : BOOLEAN, events : 0 .. MaxEvents,
          samples : Seq(Percent)]

\* Reset: the zero State.
NoTest == [active |-> FALSE, started |-> FALSE, start |-> 0, current |-> 0,
           charging |-> FALSE, events |-> 0, samples |-> <<>>]

TypeOK ==
  /\ percent \in Percent
  /\ plugged \in BOOLEAN
  /\ {mem, disk} \subseteq State
  /\ copy \in [Goroutines -> State]
  /\ Len(mem.samples) <= MaxSamples
  /\ pc \in [Goroutines -> {"idle", "read", "write"}]
  /\ call \in [Goroutines -> AllCalls \cup {"none"}]
  /\ reading \in [Goroutines -> Percent \cup {Unread}]

Init ==
  /\ percent \in Percent
  /\ plugged \in BOOLEAN
  /\ mem = NoTest
  /\ disk = NoTest
  /\ pc = [g \in Goroutines |-> "idle"]
  /\ call = [g \in Goroutines |-> "none"]
  /\ reading = [g \in Goroutines |-> Unread]
  /\ copy = [g \in Goroutines |-> NoTest]

-----------------------------------------------------------------------------
\* Start replaces whatever test there was.
Started(p) ==
  [active |-> TRUE, started |-> TRUE, start |-> p, current |-> p,
   charging |-> FALSE, events |-> 0, samples |-> <<p>>]

\* Mutant: the sample list is never trimmed.
TrimmedNever(samples) == samples

Trimmed(samples) ==
  IF Len(samples) > MaxSamples
  THEN SubSeq(samples, Len(samples) - MaxSamples + 1, Len(samples))
  ELSE samples

\* Mutant: trusts the charger's status and never looks at the level.
SampledByStatus(s, p, charging, soon) ==
  IF ~s.active \/ p = Unread THEN s
  ELSE [s EXCEPT !.charging = @ \/ charging,
                 !.current = p,
                 !.samples = IF soon THEN @ ELSE Trimmed(Append(@, p))]

\* AddSampleWithStatus; soon: within five minutes of the last sample, not forced.
Sampled(s, p, charging, soon) ==
  IF ~s.active \/ p = Unread THEN s
  ELSE [s EXCEPT !.charging = @ \/ charging \/ (s.samples # <<>> /\ p > s.current),
                 !.current = p,
                 !.samples = IF soon /\ @ # <<>> THEN @ ELSE Trimmed(Append(@, p))]

\* What each call does under the lock, with a level that StopWithStatus reads there.
Applied(c, p, charging, soon) ==
  CASE c = "start" -> Started(p)
    [] c = "reset" -> NoTest
    [] c = "stop" -> [Sampled(mem, p, charging, FALSE) EXCEPT !.active = FALSE]
    [] c = "count" -> [Sampled(mem, p, charging, soon) EXCEPT
                         !.events = IF @ < MaxEvents THEN @ + 1 ELSE @]
    [] OTHER -> Sampled(mem, p, charging, soon)

\* Mutant: only the level is looked at, as if AddSample's own check were enough.
RefusedUnreadOnly(c, p) == c = "start" /\ p = Unread

\* The calls that return early, without a change or a write.
Refused(c, p) ==
  \/ c = "start" /\ p = Unread
  \/ c \notin {"start", "reset"} /\ ~mem.active

Finish(g) ==
  /\ pc' = [pc EXCEPT ![g] = "idle"]
  /\ call' = [call EXCEPT ![g] = "none"]
  /\ reading' = [reading EXCEPT ![g] = Unread]

\* A goroutine enters a call and reads the level, before the lock, unless the call
\* has no use for it; the sysfs file may be unreadable.
Readings(c) == IF c \in {"stop", "reset"} THEN {Unread} ELSE {percent, Unread}

Read(g, c) ==
  /\ pc[g] = "idle"
  /\ pc' = [pc EXCEPT ![g] = "read"]
  /\ call' = [call EXCEPT ![g] = c]
  /\ \E p \in Readings(c) : reading' = [reading EXCEPT ![g] = p]
  /\ UNCHANGED <<percent, plugged, mem, disk, copy>>

\* Lock, change, clone, unlock.  The charger's status file may be unreadable, or say
\* neither "Charging" nor "Full" of a plugged charger.
Apply(g) ==
  /\ pc[g] = "read"
  /\ ~Refused(call[g], reading[g])
  /\ \E p \in IF call[g] = "stop" THEN {percent, Unread} ELSE {reading[g]},
        charging \in {FALSE, plugged}, soon \in BOOLEAN :
       mem' = Applied(call[g], p, charging, soon)
  /\ copy' = [copy EXCEPT ![g] = mem']
  /\ pc' = [pc EXCEPT ![g] = "write"]
  /\ call' = [call EXCEPT ![g] = "none"]
  /\ reading' = [reading EXCEPT ![g] = Unread]
  /\ UNCHANGED <<percent, plugged, disk>>

Refuse(g) ==
  /\ pc[g] = "read"
  /\ Refused(call[g], reading[g])
  /\ Finish(g)
  /\ UNCHANGED <<percent, plugged, mem, disk, copy>>

\* atomicJSON: the file is replaced as a whole, and errors are ignored.  Without a
\* temporary file or its rename the old file stays; what a failed write of its bytes
\* leaves (a truncated file, renamed) does not parse, and Load returns no test.
Write(g) ==
  /\ pc[g] = "write"
  /\ disk' \in {copy[g]} \cup (IF DiskFails THEN {disk, NoTest} ELSE {})
  /\ copy' = [copy EXCEPT ![g] = NoTest]
  /\ Finish(g)
  /\ UNCHANGED <<percent, plugged, mem>>

\* The process ends and starts again: Load.
Restart ==
  /\ mem' = disk
  /\ pc' = [g \in Goroutines |-> "idle"]
  /\ call' = [g \in Goroutines |-> "none"]
  /\ reading' = [g \in Goroutines |-> Unread]
  /\ copy' = [g \in Goroutines |-> NoTest]
  /\ UNCHANGED <<percent, plugged, disk>>

\* The battery and the charger.
Plug ==
  /\ plugged' = ~plugged
  /\ UNCHANGED <<percent, mem, disk, pc, call, reading, copy>>

LevelMoves ==
  /\ percent' = IF plugged THEN percent + 1 ELSE percent - 1
  /\ percent' \in Percent
  /\ UNCHANGED <<plugged, mem, disk, pc, call, reading, copy>>

Next ==
  \/ \E g \in Goroutines : \E c \in Calls[g] : Read(g, c)
  \/ \E g \in Goroutines : Apply(g)
  \/ \E g \in Goroutines : Refuse(g)
  \/ \E g \in Goroutines : Write(g)
  \/ Restart
  \/ Plug
  \/ LevelMoves

Spec == Init /\ [][Next]_vars

-----------------------------------------------------------------------------
\* A test that has not seen the charger holds a discharge and nothing else: its
\* level never rises, whatever readings the three goroutines bring and in
\* whatever order, so no estimate is computed from a charge the samples show.
EstimateIsADischarge ==
  mem.started /\ ~mem.charging =>
    /\ mem.current <= mem.start
    /\ \A i, j \in 1 .. Len(mem.samples) : i < j => mem.samples[j] <= mem.samples[i]

RecordOf(s) ==
  IF s.started
  THEN [running |-> s.active, from |-> s.start, level |-> s.current,
        charged |-> s.charging, events |-> s.events, samples |-> s.samples]
  ELSE NoTest

Kept == {disk} \cup {copy[g] : g \in {h \in Goroutines : pc[h] = "write"}}

Promise == INSTANCE TestRecord WITH
  Levels <- Percent, NoRecord <- NoTest,
  test <- RecordOf(mem), kept <- {RecordOf(s) : s \in Kept}

\* A test is only extended while it runs and final once it is stopped, whatever was
\* read before a stop or a reset and takes the lock after it; its charge mark is
\* not lost; and a restart finds a state it has had, or none: see TestRecord.
KeepsRecord == Promise!RSpec
=============================================================================
