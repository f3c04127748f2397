------------------------- MODULE BatteryTestProofs -------------------------
(***************************************************************************)
(* Proofs about BatteryTest: for any number of recording goroutines, any   *)
(* limit on the samples, and a disk that may or may not fail.              *)
(***************************************************************************)
EXTENDS BatteryTest, TLAPS

\* A test that never saw the charger holds a discharge that ends at its level.
Discharge(s) ==
  s.started /\ ~s.charging =>
    /\ s.current <= s.start
    /\ \A i \in 1 .. Len(s.samples) : s.current <= s.samples[i]
    /\ \A i, j \in 1 .. Len(s.samples) : i < j => s.samples[j] <= s.samples[i]

Sound(s) ==
  /\ s \in State
  /\ Len(s.samples) <= MaxSamples
  /\ s.active => s.started /\ Len(s.samples) > 0
  /\ Discharge(s)

\* A state of the test lives in memory, on disk, and in the copies on their way
\* there; Restart may bring back any that was written.
IInv ==
  /\ TypeOK
  /\ Sound(mem)
  /\ Sound(disk)
  /\ \A g \in Goroutines : Sound(copy[g])

-----------------------------------------------------------------------------
\* Trimming keeps the end of the list.
LEMMA TrimmedIsTail ==
  ASSUME NEW s \in Seq(Percent), Len(s) <= MaxSamples + 1
  PROVE  /\ Trimmed(s) \in Seq(Percent)
         /\ Len(Trimmed(s)) <= MaxSamples
         /\ Len(s) > 0 => Len(Trimmed(s)) > 0
         /\ \E k \in Nat : /\ Len(Trimmed(s)) + k = Len(s)
                           /\ \A i \in 1 .. Len(Trimmed(s)) : Trimmed(s)[i] = s[i + k]
  <1>1. CASE Len(s) > MaxSamples
    <2>1. Trimmed(s) = SubSeq(s, 2, Len(s)) /\ Len(s) = MaxSamples + 1
      BY <1>1, BatteryAssumption DEF Trimmed
    <2>2. /\ SubSeq(s, 2, Len(s)) \in Seq(Percent)
          /\ Len(SubSeq(s, 2, Len(s))) = MaxSamples
          /\ \A i \in 1 .. MaxSamples : SubSeq(s, 2, Len(s))[i] = s[i + 1]
      BY <2>1, BatteryAssumption
    <2> QED
      BY <2>1, <2>2, BatteryAssumption
  <1>2. CASE ~(Len(s) > MaxSamples)
    <2>1. Trimmed(s) = s
      BY <1>2 DEF Trimmed
    <2> QED
      BY <1>2, <2>1, BatteryAssumption
  <1> QED
    BY <1>1, <1>2

LEMMA FirstSamples ==
  /\ Sound(NoTest)
  /\ \A p \in Percent : Sound(Started(p)) /\ Len(Started(p).samples) = 1
  <1>1. NoTest \in State /\ \A p \in Percent : Started(p) \in State
    BY BatteryAssumption DEF State, NoTest, Started, Percent
  <1> QED
    BY <1>1, BatteryAssumption DEF Sound, Discharge, NoTest, Started, Percent

\* AddSampleWithStatus keeps a discharge a discharge, or marks it as charging.
LEMMA SampledIsSound ==
  ASSUME NEW s, Sound(s), NEW p \in Percent \cup {Unread},
         NEW charging \in BOOLEAN, NEW soon \in BOOLEAN
  PROVE  Sound(Sampled(s, p, charging, soon))
  <1> DEFINE r == Sampled(s, p, charging, soon)
             added == Append(s.samples, p)
  <1>1. CASE ~s.active \/ p = Unread
    BY <1>1 DEF Sampled
  <1>2. CASE s.active /\ p # Unread
    <2>1. p \in Percent /\ s \in State /\ s.started /\ Len(s.samples) > 0 /\ s.samples # <<>>
      BY <1>2 DEF Sound, State
    <2>2. /\ added \in Seq(Percent)
          /\ Len(added) = Len(s.samples) + 1
          /\ \A i \in 1 .. Len(s.samples) : added[i] = s.samples[i]
          /\ added[Len(s.samples) + 1] = p
      BY <2>1 DEF State
    <2>3. Len(added) <= MaxSamples + 1 /\ Len(added) > 0
      BY <2>1, <2>2, BatteryAssumption DEF Sound, State
    <2>4. r = [s EXCEPT !.charging = @ \/ charging \/ p > s.current,
                        !.current = p,
                        !.samples = IF soon THEN @ ELSE Trimmed(added)]
      BY <1>2, <2>1 DEF Sampled
    <2> HIDE DEF r, added
    <2>5. /\ r \in State
          /\ r.started /\ r.active
          /\ r.start = s.start /\ r.current = p
          /\ r.charging = (s.charging \/ charging \/ p > s.current)
          /\ r.samples = IF soon THEN s.samples ELSE Trimmed(added)
      BY <1>2, <2>1, <2>2, <2>3, <2>4, TrimmedIsTail DEF State
    <2>6. Len(r.samples) <= MaxSamples /\ Len(r.samples) > 0
      BY <2>1, <2>2, <2>3, <2>5, TrimmedIsTail DEF Sound
    <2>7. Discharge(r)
      <3> SUFFICES ASSUME ~r.charging PROVE Discharge(r)
        BY DEF Discharge
      <3>1. /\ ~s.charging /\ p <= s.current /\ s.current <= s.start
            /\ \A i \in 1 .. Len(s.samples) : s.current <= s.samples[i]
            /\ \A i, j \in 1 .. Len(s.samples) : i < j => s.samples[j] <= s.samples[i]
        BY <2>1, <2>5 DEF Sound, Discharge, State, Percent
      <3>2. /\ \A i \in 1 .. Len(s.samples) : s.samples[i] \in Int
            /\ p \in Int /\ s.current \in Int /\ s.start \in Int /\ Len(s.samples) \in Nat
        BY <2>1, BatteryAssumption DEF State, Percent
      <3>3. CASE soon
        <4>1. r.samples = s.samples
          BY <2>5, <3>3
        <4> QED
          BY <2>5, <3>1, <3>2, <4>1 DEF Discharge
      <3>4. CASE ~soon
        <4>1. r.samples = Trimmed(added)
          BY <2>5, <3>4
        <4>2. PICK k \in Nat : /\ Len(Trimmed(added)) + k = Len(added)
                               /\ \A i \in 1 .. Len(Trimmed(added)) :
                                    Trimmed(added)[i] = added[i + k]
          BY <2>2, <2>3, TrimmedIsTail
        <4>3. /\ \A i \in 1 .. Len(added) : p <= added[i]
              /\ \A i, j \in 1 .. Len(added) : i < j => added[j] <= added[i]
          <5>1. \A i \in 1 .. Len(added) :
                  \/ i \in 1 .. Len(s.samples) /\ added[i] = s.samples[i]
                  \/ i = Len(s.samples) + 1 /\ added[i] = p
            BY <2>2, <3>2
          <5>2. \A i \in 1 .. Len(added) : p <= added[i]
            BY <3>1, <3>2, <5>1
          <5>3. ASSUME NEW i \in 1 .. Len(added), NEW j \in 1 .. Len(added), i < j
                PROVE  added[j] <= added[i]
            <6>1. i \in 1 .. Len(s.samples) /\ added[i] = s.samples[i]
              BY <2>2, <3>2, <5>1, <5>3
            <6>2. CASE j \in 1 .. Len(s.samples)
              BY <2>2, <3>1, <5>3, <6>1, <6>2
            <6>3. CASE j = Len(s.samples) + 1
              BY <2>2, <5>2, <6>1, <6>3
            <6> QED
              BY <5>1, <6>2, <6>3
          <5> QED
            BY <5>2, <5>3
        <4>4. Len(Trimmed(added)) \in Nat
          BY <2>2, <2>3, TrimmedIsTail
        <4>5. /\ \A i \in 1 .. Len(Trimmed(added)) : p <= Trimmed(added)[i]
              /\ \A i, j \in 1 .. Len(Trimmed(added)) :
                   i < j => Trimmed(added)[j] <= Trimmed(added)[i]
          <5>1. \A i \in 1 .. Len(Trimmed(added)) : i + k \in 1 .. Len(added)
            BY <4>2, <4>4
          <5> QED
            BY <4>2, <4>3, <4>4, <5>1
        <4> QED
          BY <2>5, <3>1, <3>2, <4>1, <4>5 DEF Discharge
      <3> QED
        BY <3>3, <3>4
    <2> QED
      BY <2>5, <2>6, <2>7 DEF Sound, r
  <1> QED
    BY <1>1, <1>2

\* What a call does under the lock.
LEMMA AppliedIsSound ==
  ASSUME IInv, NEW c, NEW p \in Percent \cup {Unread}, ~Refused(c, p),
         NEW charging \in BOOLEAN, NEW soon \in BOOLEAN
  PROVE  Sound(Applied(c, p, charging, soon))
  <1>1. CASE c = "start"
    BY <1>1, FirstSamples DEF Applied, Refused
  <1>2. CASE c = "reset"
    BY <1>2, FirstSamples DEF Applied
  <1>3. CASE c = "stop"
    <2>1. Sound(Sampled(mem, p, charging, FALSE))
      BY SampledIsSound DEF IInv
    <2>2. Applied(c, p, charging, soon)
            = [Sampled(mem, p, charging, FALSE) EXCEPT !.active = FALSE]
      BY <1>3 DEF Applied
    <2> QED
      BY <2>1, <2>2 DEF Sound, Discharge, State
  <1>4. CASE c = "count"
    <2>1. Sound(Sampled(mem, p, charging, soon))
      BY SampledIsSound DEF IInv
    <2>2. Applied(c, p, charging, soon)
            = [Sampled(mem, p, charging, soon) EXCEPT
                 !.events = IF @ < MaxEvents THEN @ + 1 ELSE @]
      BY <1>4 DEF Applied
    <2> QED
      BY <2>1, <2>2, BatteryAssumption DEF Sound, Discharge, State
  <1>5. CASE c \notin {"start", "reset", "stop", "count"}
    BY <1>5, SampledIsSound DEF Applied, IInv
  <1> QED
    BY <1>1, <1>2, <1>3, <1>4, <1>5

-----------------------------------------------------------------------------
LEMMA InitHolds == Init => IInv
  <1> SUFFICES ASSUME Init PROVE IInv
    OBVIOUS
  <1>1. Sound(mem) /\ Sound(disk) /\ \A g \in Goroutines : Sound(copy[g])
    BY FirstSamples DEF Init
  <1> QED
    BY <1>1 DEF IInv, Init, TypeOK, Sound

LEMMA StepHolds == IInv /\ [Next]_vars => IInv'
  <1> SUFFICES ASSUME IInv, [Next]_vars PROVE IInv'
    OBVIOUS
  <1> USE DEF IInv
  <1>1. CASE UNCHANGED vars
    BY <1>1 DEF vars, TypeOK, Sound, Discharge
  <1>2. CASE \E g \in Goroutines : \E c \in Calls[g] : Read(g, c)
    <2> PICK g \in Goroutines : \E c \in Calls[g] : Read(g, c)
      BY <1>2
    <2> PICK c \in Calls[g] : Read(g, c)
      OBVIOUS
    <2>1. c \in AllCalls
      BY DEF AllCalls
    <2> QED
      BY <2>1 DEF Read, Readings, TypeOK, Sound, Discharge
  <1>3. CASE \E g \in Goroutines : Apply(g)
    <2> PICK g \in Goroutines : Apply(g)
      BY <1>3
    <2>1. Sound(mem')
      <3>1. reading[g] \in Percent \cup {Unread} /\ percent \in Percent
        BY DEF TypeOK
      <3>2. plugged \in BOOLEAN
        BY DEF TypeOK
      <3>3. PICK p \in IF call[g] = "stop" THEN {percent, Unread} ELSE {reading[g]},
                 charging \in {FALSE, plugged}, soon \in BOOLEAN :
               mem' = Applied(call[g], p, charging, soon)
        BY DEF Apply
      <3>4. ~Refused(call[g], p)
        BY <3>3 DEF Apply, Refused
      <3>5. p \in Percent \cup {Unread} /\ charging \in BOOLEAN
        BY <3>1, <3>2
      <3>6. Sound(Applied(call[g], p, charging, soon))
        BY <3>4, <3>5, AppliedIsSound
      <3> QED
        BY <3>3, <3>6
    <2>2. \A h \in Goroutines : copy'[h] = IF h = g THEN mem' ELSE copy[h]
      BY DEF Apply, TypeOK
    <2>3. Sound(disk)'
      BY DEF Apply, Sound, Discharge
    <2>4. \A h \in Goroutines : Sound(copy'[h])
      BY <2>1, <2>2
    <2>5. TypeOK'
      BY <2>1, <2>3, <2>4 DEF Apply, TypeOK, Sound
    <2> QED
      BY <2>1, <2>3, <2>4, <2>5
  <1>4. CASE \E g \in Goroutines : Refuse(g)
    BY <1>4 DEF Refuse, Finish, TypeOK, Sound, Discharge
  <1>5. CASE \E g \in Goroutines : Write(g)
    <2> PICK g \in Goroutines : Write(g)
      BY <1>5
    <2>1. Sound(disk')
      BY FirstSamples DEF Write
    <2>2. copy' = [copy EXCEPT ![g] = NoTest]
      BY DEF Write
    <2>3. \A h \in Goroutines : Sound(copy'[h])
      BY <2>2, FirstSamples
    <2>4. Sound(mem')
      BY DEF Write
    <2>5. TypeOK'
      BY <2>1, <2>3, <2>4 DEF Write, Finish, TypeOK, Sound
    <2> QED
      BY <2>1, <2>3, <2>4, <2>5
  <1>6. CASE Restart
    <2>1. Sound(mem') /\ Sound(disk') /\ \A h \in Goroutines : Sound(copy'[h])
      BY <1>6, FirstSamples DEF Restart
    <2> QED
      BY <1>6, <2>1 DEF Restart, TypeOK, Sound
  <1>7. CASE Plug \/ LevelMoves
    BY <1>7 DEF Plug, LevelMoves, TypeOK, Sound, Discharge
  <1> QED
    BY <1>1, <1>2, <1>3, <1>4, <1>5, <1>6, <1>7 DEF Next

LEMMA Invariant == Spec => []IInv
  BY InitHolds, StepHolds, PTL DEF Spec

-----------------------------------------------------------------------------
\* Every value stays in its type, and the sample list within MaxSamples, in memory.
THEOREM BatteryTypes == Spec => []TypeOK
  <1>1. IInv => TypeOK
    BY DEF IInv
  <1> QED
    BY <1>1, Invariant, PTL

\* A test that has not seen the charger holds a discharge, for any number of
\* goroutines that record with levels they read before the lock, and after
\* restarts from whatever was written.
THEOREM EstimatesAreDischarges == Spec => []EstimateIsADischarge
  <1>1. IInv => EstimateIsADischarge
    BY DEF IInv, Sound, Discharge, EstimateIsADischarge
  <1> QED
    BY <1>1, Invariant, PTL

-----------------------------------------------------------------------------
(* BatteryTest implements TestRecord. *)

\* The zero state is no record.
LEMMA NoTestIsNone == NoTest \notin Promise!Record
  <1>1. \A r \in Promise!Record : DOMAIN r = {"running", "from", "level", "charged", "events",
                                               "samples"}
    BY DEF Promise!Record
  <1>2. "started" \in DOMAIN NoTest
    BY DEF NoTest
  <1> QED
    BY <1>1, <1>2

LEMMA RecordFacts ==
  ASSUME NEW s \in State, s.started
  PROVE  /\ RecordOf(s) \in Promise!Record /\ RecordOf(s) # NoTest
         /\ RecordOf(s).running = s.active /\ RecordOf(s).from = s.start
         /\ RecordOf(s).level = s.current /\ RecordOf(s).charged = s.charging
         /\ RecordOf(s).events = s.events /\ RecordOf(s).samples = s.samples
  <1>1. /\ s.active \in BOOLEAN /\ s.start \in Percent /\ s.current \in Percent
        /\ s.charging \in BOOLEAN /\ s.events \in Nat /\ s.samples \in Seq(Percent)
    BY BatteryAssumption DEF State
  <1>2. RecordOf(s) \in Promise!Record
    BY <1>1 DEF RecordOf, Promise!Record
  <1> QED
    BY <1>2, NoTestIsNone DEF RecordOf

\* What a call makes of a running test extends it, keeps its start and its charge mark.
LEMMA SampledExtends ==
  ASSUME NEW s, Sound(s), s.active, NEW p \in Percent \cup {Unread},
         NEW charging \in BOOLEAN, NEW soon \in BOOLEAN,
         NEW r, r = Sampled(s, p, charging, soon)
  PROVE  /\ r.started /\ r.start = s.start /\ r.events = s.events
         /\ s.charging \/ r.current > s.current => r.charging
         /\ \/ Promise!Latest(r.samples, s.samples)
            \/ Promise!Latest(r.samples, Append(s.samples, r.current))
  <1>1. /\ s \in State /\ s.started /\ s.samples # <<>> /\ s.current \in Percent
        /\ s.samples \in Seq(Percent) /\ Len(s.samples) > 0 /\ Len(s.samples) <= MaxSamples
    BY DEF Sound, State
  <1>0. Promise!Latest(s.samples, s.samples)
    BY <1>1 DEF Promise!Latest
  <1>2. CASE p = Unread
    BY <1>0, <1>1, <1>2, BatteryAssumption DEF Sampled, Percent
  <1>3. CASE p # Unread
    <2>1. r = [s EXCEPT !.charging = @ \/ charging \/ (s.samples # <<>> /\ p > s.current),
                        !.current = p,
                        !.samples = IF soon /\ @ # <<>> THEN @ ELSE Trimmed(Append(@, p))]
      BY <1>3 DEF Sampled
    <2>2. /\ r.charging = (s.charging \/ charging \/ (s.samples # <<>> /\ p > s.current))
          /\ r.current = p /\ r.started = s.started /\ r.start = s.start /\ r.events = s.events
          /\ r.samples = IF soon /\ s.samples # <<>> THEN s.samples
                         ELSE Trimmed(Append(s.samples, p))
      BY <1>1, <2>1 DEF State
    <2>3. Promise!Latest(Trimmed(Append(s.samples, p)), Append(s.samples, p))
      <3> DEFINE added == Append(s.samples, p)
                 some == Trimmed(added)
      <3>1. /\ added \in Seq(Percent) /\ Len(added) = Len(s.samples) + 1
            /\ Len(added) <= MaxSamples + 1 /\ Len(added) > 0
        BY <1>1, <1>3, BatteryAssumption
      <3> HIDE DEF added
      <3>2. /\ some \in Seq(Percent) /\ Len(some) > 0
            /\ \E k \in Nat : /\ Len(some) + k = Len(added)
                              /\ \A i \in 1 .. Len(some) : some[i] = added[i + k]
        BY <3>1, TrimmedIsTail
      <3> HIDE DEF some
      <3>3. some # <<>> /\ Len(some) \in Nat /\ Len(added) \in Nat
        BY <3>1, <3>2
      <3>a. PICK k \in Nat : /\ Len(some) + k = Len(added)
                             /\ \A i \in 1 .. Len(some) : some[i] = added[i + k]
        BY <3>2
      <3>b. k \in 0 .. Len(added)
        BY <3>3, <3>a
      <3>4. Promise!Latest(some, added)
        BY <3>3, <3>a, <3>b DEF Promise!Latest
      <3> QED
        BY <3>4 DEF some, added
    <2> QED
      BY <1>0, <1>1, <2>2, <2>3
  <1> QED
    BY <1>2, <1>3

LEMMA AppliedExtends ==
  ASSUME IInv, mem.active, NEW c, c \notin {"start", "reset"},
         NEW p \in Percent \cup {Unread}, NEW charging \in BOOLEAN, NEW soon \in BOOLEAN,
         NEW r, r = Applied(c, p, charging, soon), r \in State
  PROVE  RecordOf(r) \in Promise!Record /\ Promise!Extends(RecordOf(mem), RecordOf(r))
  <1>1. mem \in State /\ Sound(mem) /\ mem.started
    BY DEF IInv, Sound
  <1> DEFINE early == c # "stop" /\ soon
             q == Sampled(mem, p, charging, early)
  <1>a. early \in BOOLEAN
    OBVIOUS
  <1>b. (c = "stop" => early = FALSE) /\ (c # "stop" => early = soon)
    OBVIOUS
  <1> HIDE DEF early
  <1>2. /\ q.started /\ q.start = mem.start /\ q.events = mem.events
        /\ mem.charging \/ q.current > mem.current => q.charging
        /\ \/ Promise!Latest(q.samples, mem.samples)
           \/ Promise!Latest(q.samples, Append(mem.samples, q.current))
    BY <1>1, <1>a, SampledExtends
  <1>3. q \in State
    BY <1>1, <1>a, SampledIsSound DEF Sound
  <1> HIDE DEF q
  <1>4. /\ r.started = q.started /\ r.start = q.start /\ r.current = q.current
        /\ r.charging = q.charging /\ r.events >= q.events /\ r.samples = q.samples
    <2>0. q.events \in Nat
      BY <1>3, BatteryAssumption DEF State
    <2>1. CASE c = "stop"
      <3>1. r = [q EXCEPT !.active = FALSE]
        BY <1>b, <2>1 DEF Applied, q
      <3> QED
        BY <1>3, <2>0, <3>1 DEF State
    <2>2. CASE c = "count"
      <3>1. r = [q EXCEPT !.events = IF @ < MaxEvents THEN @ + 1 ELSE @]
        BY <1>b, <2>2 DEF Applied, q
      <3>2. r.events = IF q.events < MaxEvents THEN q.events + 1 ELSE q.events
        BY <1>3, <3>1 DEF State
      <3>3. r.events >= q.events
        BY <2>0, <3>2, BatteryAssumption
      <3> QED
        BY <1>3, <3>1, <3>3 DEF State
    <2>3. CASE c \notin {"stop", "count"}
      <3>1. r = q
        BY <1>b, <2>3 DEF Applied, q
      <3> QED
        BY <2>0, <3>1
    <2> QED
      BY <2>1, <2>2, <2>3
  <1>5. r.started
    BY <1>2, <1>4
  <1> QED
    BY <1>1, <1>2, <1>4, <1>5, RecordFacts DEF Promise!Extends

LEMMA PromiseInit == Init => Promise!RInit
  <1> SUFFICES ASSUME Init PROVE Promise!RInit
    OBVIOUS
  <1>1. RecordOf(NoTest) = NoTest
    BY DEF RecordOf, NoTest
  <1>2. Kept = {NoTest}
    BY DEF Init, Kept
  <1> QED
    BY <1>1, <1>2 DEF Init, Promise!RInit

LEMMA PromiseStep == IInv /\ IInv' /\ [Next]_vars => [Promise!RNext]_(Promise!rvars)
  <1> SUFFICES ASSUME IInv, IInv', [Next]_vars PROVE [Promise!RNext]_(Promise!rvars)
    OBVIOUS
  <1> DEFINE kept == {RecordOf(s) : s \in Kept}
  <1>0. /\ mem \in State /\ disk \in State /\ \A g \in Goroutines : copy[g] \in State
        /\ mem' \in State
    BY DEF IInv, TypeOK
  <1>1. ASSUME mem' = mem, Kept' = Kept PROVE [Promise!RNext]_(Promise!rvars)
    BY <1>1 DEF Promise!rvars
  <1>2. ASSUME UNCHANGED <<mem, disk, copy>>,
               \A g \in Goroutines : pc'[g] = "write" <=> pc[g] = "write"
        PROVE  [Promise!RNext]_(Promise!rvars)
    BY <1>1, <1>2 DEF Kept
  <1>3. CASE UNCHANGED vars \/ Plug \/ LevelMoves
    BY <1>2, <1>3 DEF vars, Plug, LevelMoves
  <1>4. ASSUME NEW g \in Goroutines, NEW c \in Calls[g], Read(g, c)
        PROVE  [Promise!RNext]_(Promise!rvars)
    BY <1>2, <1>4 DEF Read, IInv, TypeOK
  <1>5. ASSUME NEW g \in Goroutines, Refuse(g) PROVE [Promise!RNext]_(Promise!rvars)
    BY <1>2, <1>5 DEF Refuse, Finish, IInv, TypeOK
  <1>6. ASSUME NEW g \in Goroutines, Apply(g) PROVE [Promise!RNext]_(Promise!rvars)
    <2>1. /\ pc[g] = "read" /\ disk' = disk
          /\ pc' = [pc EXCEPT ![g] = "write"] /\ copy' = [copy EXCEPT ![g] = mem']
      BY <1>6 DEF Apply
    <2>2. /\ pc'[g] = "write" /\ copy'[g] = mem'
          /\ \A h \in Goroutines : h # g => pc'[h] = pc[h] /\ copy'[h] = copy[h]
      BY <2>1 DEF IInv, TypeOK
    <2>3. Kept' = Kept \cup {mem'}
      BY <2>1, <2>2 DEF Kept
    <2>4. kept' = kept \cup {RecordOf(mem)'}
      <3>1. RecordOf(mem)' = RecordOf(mem')
        BY DEF RecordOf
      <3>2. kept' = {RecordOf(s) : s \in Kept'}
        BY DEF RecordOf
      <3> QED
        BY <2>3, <3>1, <3>2
    <2> HIDE DEF kept
    <2>5. PICK p \in IF call[g] = "stop" THEN {percent, Unread} ELSE {reading[g]},
               charging \in {FALSE, plugged}, soon \in BOOLEAN :
             mem' = Applied(call[g], p, charging, soon)
      BY <1>6 DEF Apply
    <2>6. /\ p \in Percent \cup {Unread} /\ charging \in BOOLEAN
          /\ ~Refused(call[g], p)
      <3>1. reading[g] \in Percent \cup {Unread} /\ percent \in Percent /\ plugged \in BOOLEAN
        BY DEF IInv, TypeOK
      <3>2. ~Refused(call[g], p)
        BY <1>6, <2>5 DEF Apply, Refused
      <3> QED
        BY <3>1, <3>2
    <2>7. CASE call[g] = "start"
      <3>1. p \in Percent /\ mem' = Started(p)
        BY <2>5, <2>6, <2>7 DEF Applied, Refused
      <3>2. RecordOf(mem') = [running |-> TRUE, from |-> p, level |-> p,
                              charged |-> FALSE, events |-> 0, samples |-> <<p>>]
        BY <3>1 DEF Started, RecordOf
      <3>3. Promise!Begin(p)
        BY <2>4, <3>2 DEF Promise!Begin, Promise!Changed, kept
      <3> QED
        BY <3>1, <3>3 DEF Promise!RNext
    <2>8. CASE call[g] = "reset"
      <3>1. mem' = NoTest
        BY <2>5, <2>8 DEF Applied
      <3>2. RecordOf(mem') = NoTest
        BY <3>1 DEF NoTest, RecordOf
      <3>3. Promise!Discard
        BY <2>4, <3>2 DEF Promise!Discard, Promise!Changed, kept
      <3> QED
        BY <3>3 DEF Promise!RNext
    <2>9. CASE call[g] \notin {"start", "reset"}
      <3>1. mem.active /\ mem.started
        BY <2>6, <2>9 DEF Refused, IInv, Sound
      <3>2. RecordOf(mem') \in Promise!Record /\ Promise!Extends(RecordOf(mem), RecordOf(mem'))
        BY <1>0, <2>5, <2>6, <2>9, <3>1, AppliedExtends
      <3>3. RecordOf(mem) # NoTest /\ RecordOf(mem).running
        BY <1>0, <3>1, RecordFacts
      <3>4. RecordOf(mem)' = RecordOf(mem')
        BY DEF RecordOf
      <3>5. Promise!Continue
        BY <2>4, <3>2, <3>3, <3>4 DEF Promise!Continue, Promise!Changed, Promise!Extends, kept
      <3> QED
        BY <3>5 DEF Promise!RNext
    <2> QED
      BY <2>7, <2>8, <2>9
  <1>7. ASSUME NEW g \in Goroutines, Write(g) PROVE [Promise!RNext]_(Promise!rvars)
    <2>1. /\ mem' = mem /\ pc[g] = "write" /\ disk' \in {copy[g], disk, NoTest}
          /\ copy' = [copy EXCEPT ![g] = NoTest] /\ pc' = [pc EXCEPT ![g] = "idle"]
      BY <1>7 DEF Write, Finish
    <2>2. /\ pc'[g] # "write"
          /\ \A h \in Goroutines : h # g => pc'[h] = pc[h] /\ copy'[h] = copy[h]
      BY <2>1 DEF IInv, TypeOK
    <2>3. Kept' \subseteq Kept \cup {NoTest} /\ disk' \in Kept'
      BY <2>1, <2>2 DEF Kept
    <2>4. RecordOf(NoTest) = NoTest /\ RecordOf(mem)' = RecordOf(mem)
      BY <2>1 DEF RecordOf, NoTest
    <2>5. kept' = {RecordOf(s) : s \in Kept'}
      BY DEF RecordOf
    <2>6. kept' \subseteq kept \cup {NoTest} /\ kept' # {}
      BY <2>3, <2>4, <2>5
    <2> HIDE DEF kept
    <2>7. Promise!Save
      BY <2>4, <2>6 DEF Promise!Save, kept
    <2> QED
      BY <2>7 DEF Promise!RNext
  <1>8. CASE Restart
    <2>1. mem' = disk /\ disk' = disk /\ \A g \in Goroutines : pc'[g] # "write"
      BY <1>8 DEF Restart
    <2>2. Kept' = {disk} /\ disk \in Kept
      BY <2>1 DEF Kept
    <2>3. RecordOf(mem)' = RecordOf(disk) /\ kept' = {RecordOf(disk)} /\ RecordOf(disk) \in kept
      BY <2>1, <2>2 DEF RecordOf
    <2> HIDE DEF kept
    <2>4. Promise!Reload
      BY <2>3 DEF Promise!Reload, kept
    <2> QED
      BY <2>4 DEF Promise!RNext
  <1> QED
    BY <1>3, <1>4, <1>5, <1>6, <1>7, <1>8 DEF Next

\* A running test is only extended, a stopped one final, a charge mark kept, and what a
\* restart finds is a state the test has had, for any number of goroutines that read the
\* level before they take the lock and write their copies after it.
THEOREM RecordIsKept == Spec => KeepsRecord
  BY Invariant, PromiseInit, PromiseStep, PTL DEF Spec, KeepsRecord, Promise!RSpec
=============================================================================
