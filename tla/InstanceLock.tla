---------------------------- MODULE InstanceLock ----------------------------
(***************************************************************************)
(* backend.lock: acquireLock of main.go, run by every backend that AppLoad *)
(* starts, and what becomes of the lock when a backend ends.  A process is *)
(* named by its pid; pids are used again, by backends and other programs.  *)
(* The lock is a file, so a process may still write to one that has been   *)
(* removed under it: `lock` says who created the file now at the path.     *)
(***************************************************************************)
EXTENDS Integers

CONSTANTS
  Pids,
  MaxDeaths,  \* bound on backends that end without releasing the lock
  Nobody

Lock == [by : Pids, written : BOOLEAN]

ASSUME LockAssumption == MaxDeaths \in Nat /\ Nobody \notin Pids \cup Lock

VARIABLES
  pc,         \* per pid: "off", "other", or where a backend stands
  lock,       \* the file: who created it, and whether the pid is in it; or Nobody
  seen,       \* per pid: the pid acquireLock has read, Nobody for a blank file
  deaths,
  contended  \* history: two backends were in acquireLock at once

lockVars == <<pc, lock, seen, deaths, contended>>

Taking == {"create", "read", "signal", "remove", "recreate", "write"}

LockTypeOK ==
  /\ pc \in [Pids -> Taking \cup {"off", "other", "running"}]
  /\ lock \in Lock \cup {Nobody}
  /\ seen \in [Pids -> Pids \cup {Nobody}]
  /\ deaths \in 0 .. MaxDeaths
  /\ contended \in BOOLEAN

LockInit ==
  /\ pc = [p \in Pids |-> "off"]
  /\ lock = Nobody
  /\ seen = [p \in Pids |-> Nobody]
  /\ deaths = 0
  /\ contended = FALSE

Moves(p, from, to) == pc[p] = from /\ pc' = [pc EXCEPT ![p] = to]

Running == {p \in Pids : pc[p] = "running"}

-----------------------------------------------------------------------------
\* AppLoad opens the app, possibly while an earlier backend still ends.
Start(p) ==
  /\ Moves(p, "off", "create")
  /\ contended' = (contended \/ \E q \in Pids : pc[q] \in Taking)
  /\ UNCHANGED <<lock, seen, deaths>>

Created(p) == lock = Nobody /\ lock' = [by |-> p, written |-> FALSE]

\* The first OpenFile with O_EXCL.
Create(p) ==
  /\ \/ Moves(p, "create", "write") /\ Created(p)
     \/ Moves(p, "create", "read") /\ lock # Nobody /\ UNCHANGED lock
  /\ UNCHANGED <<seen, deaths, contended>>

\* Mutant: a blank file is read as pid 0.
ReadPidUnchecked(p) ==
  /\ Moves(p, "read", "signal")
  /\ seen' = [seen EXCEPT ![p] =
                IF lock = Nobody \/ ~lock.written THEN 0 ELSE lock.by]
  /\ UNCHANGED <<lock, deaths, contended>>

\* ReadFile and Atoi: a file that is gone, or not written yet, names nobody.
ReadPid(p) ==
  /\ Moves(p, "read", "signal")
  /\ seen' = [seen EXCEPT ![p] =
                IF lock = Nobody \/ ~lock.written THEN Nobody ELSE lock.by]
  /\ UNCHANGED <<lock, deaths, contended>>

\* Mutant: the file alone is enough to refuse the start.
HeldByFile(p) == lock # Nobody

\* Signal 0 reaches whatever process has that pid now.
Held(p) == seen[p] # Nobody /\ pc[seen[p]] # "off"

\* Mutant: the release is deferred before the lock is known to be free.
RefuseReleasing(p) ==
  /\ Held(p)
  /\ Moves(p, "signal", "off")
  /\ seen' = [seen EXCEPT ![p] = Nobody]
  /\ lock' = Nobody
  /\ UNCHANGED <<deaths, contended>>

\* "TRMNL backend is already running": main ends with log.Fatal.
Refuse(p) ==
  /\ Held(p)
  /\ Moves(p, "signal", "off")
  /\ seen' = [seen EXCEPT ![p] = Nobody]
  /\ UNCHANGED <<lock, deaths, contended>>

Stale(p) ==
  /\ ~Held(p)
  /\ Moves(p, "signal", "remove")
  /\ seen' = [seen EXCEPT ![p] = Nobody]
  /\ UNCHANGED <<lock, deaths, contended>>

\* os.Remove removes whatever file is at the path by now.
RemoveLock(p) ==
  /\ Moves(p, "remove", "recreate")
  /\ lock' = Nobody
  /\ UNCHANGED <<seen, deaths, contended>>

\* The second OpenFile; when somebody else was faster, main ends.
Recreate(p) ==
  /\ \/ Moves(p, "recreate", "write") /\ Created(p)
     \/ Moves(p, "recreate", "off") /\ lock # Nobody /\ UNCHANGED lock
  /\ UNCHANGED <<seen, deaths, contended>>

\* The pid is written to the file this process has open.
WritePid(p) ==
  /\ Moves(p, "write", "running")
  /\ lock' = IF lock # Nobody /\ lock.by = p THEN [lock EXCEPT !.written = TRUE] ELSE lock
  /\ UNCHANGED <<seen, deaths, contended>>

\* Mutant: the end of main does not remove the lock.
ReleaseNot(p) ==
  /\ Moves(p, "running", "off")
  /\ UNCHANGED <<lock, seen, deaths, contended>>

\* main returns: the deferred release removes the file at the path, whoever's it is.
Release(p) ==
  /\ Moves(p, "running", "off")
  /\ lock' = Nobody
  /\ UNCHANGED <<seen, deaths, contended>>

\* SIGKILL, a crash, or a log.Fatal after the lock was taken: nothing is released.
Die(p) ==
  /\ deaths < MaxDeaths
  /\ deaths' = deaths + 1
  /\ pc[p] \in Taking \cup {"running"}
  /\ pc' = [pc EXCEPT ![p] = "off"]
  /\ seen' = [seen EXCEPT ![p] = Nobody]
  /\ UNCHANGED <<lock, contended>>

\* The kernel gives the pid to another program, which ends at some time.
OtherProgram(p) ==
  /\ Moves(p, "off", "other") \/ Moves(p, "other", "off")
  /\ UNCHANGED <<lock, seen, deaths, contended>>

Acquire(p) ==
  Create(p) \/ ReadPid(p) \/ Refuse(p) \/ Stale(p) \/ RemoveLock(p) \/ Recreate(p)
    \/ WritePid(p)

LockNext ==
  \E p \in Pids : Start(p) \/ Acquire(p) \/ Release(p) \/ Die(p) \/ OtherProgram(p)

LockSpec == LockInit /\ [][LockNext]_lockVars

\* A process in acquireLock runs on.
FairLockSpec == LockSpec /\ \A p \in Pids : WF_lockVars(Acquire(p))

-----------------------------------------------------------------------------
\* One backend runs at a time, through kills, exits that overlap the next start
\* and pids used again, as long as no two starts overlap.  When they do, acquireLock
\* lets both run: the one reads a file the other has not written yet, or removes
\* the file the other has just created in place of a stale one.
OneBackend ==
  ~contended => \A p, q \in Running : p = q

\* Unless a backend was killed, whoever created the lock is there to remove it:
\* through refused and lost starts and removals of each other's files, the last
\* backend to end leaves no lock that could be taken for another program's.
NoLockLeft ==
  lock # Nobody /\ deaths = 0 => pc[lock.by] \in {"write", "running"}

\* The pid in the lock belongs to a process that has not created it.
Reused == lock # Nobody /\ pc[lock.by] \in (Taking \ {"write"}) \cup {"other"}

\* Nobody is locked out: an app that is opened again and again gets its backend,
\* whatever lock a kill has left, unless that lock's pid is taken time and again.
StaleLockYields ==
  []<>(\E p \in Pids : pc[p] = "create") => []<>(Running # {}) \/ []<>Reused
=============================================================================
