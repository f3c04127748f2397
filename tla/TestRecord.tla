----------------------------- MODULE TestRecord -----------------------------
(***************************************************************************)
(* What the battery test promises the owner who reads its estimate: a test *)
(* once started is only ever extended, one that was stopped stays as it is,*)
(* a rise of the level marks the test as charged for good, and a restart   *)
(* brings back a state the test has had, or none where the file was broken.*)
(* Goroutines, clones and writes are in BatteryTest, which implements this.*)
(***************************************************************************)
EXTENDS Integers, Sequences

CONSTANTS Levels, NoRecord

VARIABLES
  test,  \* the test in force, or NoRecord
  kept   \* what a restart may bring back: the file, and what may yet be written to it

rvars == <<test, kept>>

Record == [running : BOOLEAN, from : Levels, level : Levels, charged : BOOLEAN, events : Nat,
           samples : Seq(Levels)]

RInit == test = NoRecord /\ kept = {NoRecord}

\* Every change is on its way to the file, together with earlier ones.
Changed == kept' = kept \cup {test'}

Begin(level) ==
  /\ test' = [running |-> TRUE, from |-> level, level |-> level, charged |-> FALSE, events |-> 0,
               samples |-> <<level>>]
  /\ Changed

\* The latest of the samples, one at least.
Latest(some, samples) ==
  /\ some # <<>>
  /\ \E k \in 0 .. Len(samples) :
       /\ Len(some) + k = Len(samples)
       /\ \A i \in 1 .. Len(some) : some[i] = samples[i + k]

Extends(old, new) ==
  /\ new.from = old.from
  /\ new.events >= old.events
  /\ old.charged \/ new.level > old.level => new.charged
  /\ Latest(new.samples, old.samples) \/ Latest(new.samples, Append(old.samples, new.level))

\* A reading, an event, or the stop with its last reading.
Continue ==
  /\ test # NoRecord /\ test.running
  /\ test' \in Record /\ Extends(test, test')
  /\ Changed

Discard == test' = NoRecord /\ Changed

\* A write replaces the file, or breaks it.
Save ==
  /\ UNCHANGED test
  /\ kept' \subseteq kept \cup {NoRecord}
  /\ kept' # {}

Reload ==
  /\ test' \in kept
  /\ kept' = {test'}

RNext == Save \/ Reload \/ Discard \/ Continue \/ \E level \in Levels : Begin(level)

RSpec == RInit /\ [][RNext]_rvars
=============================================================================
