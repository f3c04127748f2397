----------------------------- MODULE UpdateCheck -----------------------------
(***************************************************************************)
(* The check for a newer release: update.Checker (update.go), used by the  *)
(* goroutine updateWatcher and by one that every save which turns the      *)
(* option on starts (main.go).  They share the Checker without a lock: its *)
(* fields become visible in any order, and a result that two goroutines    *)
(* write, or one writes and one reads, may come out mixed of both.  Check  *)
(* reads the wall clock, which a suspended tablet's goes on; the ticker    *)
(* runs on the monotonic clock, which stops.                               *)
(***************************************************************************)
EXTENDS Integers, Sequences, FiniteSets

CONSTANTS
  Watcher,    \* the goroutine updateWatcher
  Savers,     \* bound: goroutines of saves that check at once
  Current,    \* the running version
  Releases,   \* the tags GitHub may publish
  Drafts,     \* those of them it marks as drafts
  Period,     \* the ticker's six hours
  Interval,   \* Checker.Interval
  Back        \* bound on how far the wall clock is set back

\* parse: two or three numbers; anything else, like the version "dev", is no version.
IsVersion(v) == Len(v) \in {2, 3}
Part(v, i) == IF i <= Len(v) THEN v[i] ELSE 0

Newer(candidate, current) ==
  /\ IsVersion(candidate) /\ IsVersion(current)
  /\ \E i \in 1 .. 3 :
       /\ Part(candidate, i) > Part(current, i)
       /\ \A j \in 1 .. i - 1 : Part(candidate, j) = Part(current, j)

\* What fetch makes of the feed: a draft is reported, but never as available.
ResultOf(latest) ==
  [latest |-> latest, available |-> latest \notin Drafts /\ Newer(latest, Current)]

Never == -Back - 1   \* fetchedAt.IsZero
Blank == [latest |-> <<>>, available |-> FALSE]   \* the zero Result
Torn == <<0>>                                     \* a tag with parts of two others
Callers == {Watcher} \cup Savers
Fields == {"at", "failed", "last"}
Whole == {ResultOf(latest) : latest \in Releases} \cup {Blank}
Results == [latest : Releases \cup {Blank.latest, Torn}, available : BOOLEAN]

\* Two results of which one is copied over the other: each field is of one of them,
\* and the tag, a pointer and a length, may be of both.
Mixed(a, b) == [latest : {a.latest, b.latest, Torn}, available : {a.available, b.available}]

ASSUME UpdateAssumption ==
  /\ Period \in Nat \ {0} /\ Interval \in Nat \ {0} /\ Back \in Nat
  /\ Watcher \notin Savers
  /\ Drafts \subseteq Releases
  /\ {Blank.latest, Torn} \cap Releases = {}

VARIABLES
  on,         \* cfg.UpdateCheck
  checker,    \* Checker: at is the wall clock's time since fetchedAt
  pc,         \* per caller
  age,        \* per caller: the wall clock's time since its call of Check
  got,        \* per caller: the answer on its way to the Checker or the interface
  todo,       \* per caller: the fields its Check has yet to write
  shown,      \* updateResult
  due,        \* the ticker's time to its next tick
  ticked,     \* the ticker's channel holds a tick
  sinceAsk,   \* history: time since this process's last request, at most Interval
  irregular   \* history: two checks were under way at once, or the clock was set

calls == <<pc, age, got, todo>>
history == <<sinceAsk, irregular>>
vars == <<on, checker, calls, shown, due, ticked, history>>

Ages == -Back .. Interval
Failure == [result |-> Blank, failed |-> TRUE]
NewChecker == [at |-> Never, failed |-> FALSE, last |-> Blank]
NewCalls == [c \in Callers |-> IF c = Watcher THEN "start" ELSE "idle"]

TypeOK ==
  /\ on \in BOOLEAN
  /\ checker \in [at : {Never} \cup Ages, failed : BOOLEAN, last : Results]
  /\ pc \in [Callers -> {"idle", "start", "fetch", "write", "show"}]
  /\ age \in [Callers -> Ages]
  /\ got \in [Callers -> [result : Results, failed : BOOLEAN]]
  /\ todo \in [Callers -> SUBSET Fields]
  /\ shown \in Results
  /\ due \in 1 .. Period
  /\ ticked \in BOOLEAN
  /\ sinceAsk \in 0 .. Interval
  /\ irregular \in BOOLEAN

-----------------------------------------------------------------------------
\* main's `go a.updateWatcher()`, in a process that knows of no earlier check.
Init ==
  /\ on \in BOOLEAN
  /\ checker = NewChecker
  /\ pc = NewCalls
  /\ age = [c \in Callers |-> 0]
  /\ got = [c \in Callers |-> Failure]
  /\ todo = [c \in Callers |-> {}]
  /\ shown = Blank
  /\ due = Period
  /\ ticked = FALSE
  /\ sinceAsk = Interval
  /\ irregular = FALSE

\* The process ends at any point and is started again: only the settings survive.
Restart ==
  /\ checker' = NewChecker
  /\ pc' = NewCalls
  /\ age' = [c \in Callers |-> 0]
  /\ got' = [c \in Callers |-> Failure]
  /\ todo' = [c \in Callers |-> {}]
  /\ shown' = Blank
  /\ due' = Period
  /\ ticked' = FALSE
  /\ sinceAsk' = Interval
  /\ irregular' = FALSE
  /\ UNCHANGED on

\* msgSaveConfig: `go a.checkForUpdate()` when the option has just been turned on.
SaveSettings(enabled) ==
  /\ on' = enabled
  /\ IF enabled /\ ~on
       THEN \E s \in Savers : pc[s] = "idle" /\ pc' = [pc EXCEPT ![s] = "start"]
       ELSE UNCHANGED pc
  /\ UNCHANGED <<checker, age, got, todo, shown, due, ticked, history>>

\* Mutant: the watcher checks at its start only.
TakeTickIdly ==
  /\ ticked /\ pc[Watcher] = "idle"
  /\ ticked' = FALSE
  /\ UNCHANGED <<on, checker, calls, shown, due, history>>

\* The watcher's select takes the tick.
TakeTick ==
  /\ ticked /\ pc[Watcher] = "idle"
  /\ ticked' = FALSE
  /\ pc' = [pc EXCEPT ![Watcher] = "start"]
  /\ UNCHANGED <<on, checker, age, got, todo, shown, due, history>>

-----------------------------------------------------------------------------
UnderWay(c) == pc[c] \in {"fetch", "write", "show"}

\* Mutant: a failure is not kept for the interval.
FreshIfSucceeded == checker.at # Never /\ checker.at < Interval /\ ~checker.failed

\* The zero time is no answer; a clock set back makes the answer younger.
Fresh == checker.at # Never /\ checker.at < Interval

\* Check is about to copy its result to the Checker, or has just done so.
Copies(c) == pc[c] = "write" /\ ~got[c].failed

\* What comes out when c reads or writes the Checker's result.
Outcomes(c, value) ==
  {value} \cup UNION {Mixed(value, got[d].result) : d \in {d \in Callers \ {c} : Copies(d)}}

\* Mutant: the zero result of an error is shown as well.
CachedShowingErrors(c) ==
  /\ Fresh
  /\ pc' = [pc EXCEPT ![c] = "show"]
  /\ got' = [got EXCEPT ![c] =
       [result |-> IF checker.failed THEN Blank ELSE checker.last, failed |-> FALSE]]
  /\ UNCHANGED age

\* Check from the cache: the error is logged, the result goes to the interface.
Cached(c) ==
  /\ Fresh
  /\ IF checker.failed
       THEN pc' = [pc EXCEPT ![c] = "idle"] /\ UNCHANGED got
       ELSE /\ pc' = [pc EXCEPT ![c] = "show"]
            /\ \E result \in Outcomes(c, checker.last) :
                 got' = [got EXCEPT ![c] = [result |-> result, failed |-> FALSE]]
  /\ UNCHANGED age

\* Otherwise fetch sends a request.
Ask(c) ==
  /\ ~Fresh
  /\ pc' = [pc EXCEPT ![c] = "fetch"]
  /\ age' = [age EXCEPT ![c] = 0]
  /\ UNCHANGED got

Overlaps(c) == \E d \in Callers \ {c} : UnderWay(d)

\* checkForUpdate as far as the request: the option, then the Checker.
Check(c) ==
  /\ pc[c] = "start"
  /\ \/ ~on /\ pc' = [pc EXCEPT ![c] = "idle"] /\ UNCHANGED <<age, got, history>>
     \/ /\ on
        /\ irregular' = (irregular \/ Overlaps(c))
        /\ \/ Cached(c) /\ UNCHANGED sinceAsk
           \/ Ask(c) /\ sinceAsk' = IF irregular' THEN Interval ELSE 0
  /\ UNCHANGED <<on, checker, todo, shown, due, ticked>>

\* fetch returns; Check goes on to write these fields.
Ended(c, answer, fields) ==
  /\ pc[c] = "fetch"
  /\ pc' = [pc EXCEPT ![c] = "write"]
  /\ got' = [got EXCEPT ![c] = answer]
  /\ todo' = [todo EXCEPT ![c] = fields]
  /\ UNCHANGED <<on, checker, age, shown, due, ticked, history>>

Answered(c) ==
  \E latest \in Releases : Ended(c, [result |-> ResultOf(latest), failed |-> FALSE], Fields)

\* Mutant: the error is returned but not remembered.
FailsUnremembered(c) == Ended(c, Failure, {"at"})

\* No connection, a timeout, an HTTP error, or a feed without a tag.
Fails(c) == Ended(c, Failure, {"at", "failed"})

\* One assignment of Check becomes visible; fetchedAt is the time of the call.
Write(c, field) ==
  /\ pc[c] = "write" /\ field \in todo[c]
  /\ todo' = [todo EXCEPT ![c] = @ \ {field}]
  /\ CASE field = "at" -> checker' = [checker EXCEPT !.at = age[c]]
       [] field = "failed" -> checker' = [checker EXCEPT !.failed = got[c].failed]
       [] field = "last" -> \E result \in Outcomes(c, got[c].result) :
                              checker' = [checker EXCEPT !.last = result]
  /\ UNCHANGED <<on, pc, age, got, shown, due, ticked, history>>

\* Check returns: an error is logged, a result goes on to the interface.
Return(c) ==
  /\ pc[c] = "write" /\ todo[c] = {}
  /\ pc' = [pc EXCEPT ![c] = IF got[c].failed THEN "idle" ELSE "show"]
  /\ age' = [age EXCEPT ![c] = 0]
  /\ UNCHANGED <<on, checker, got, todo, shown, due, ticked, history>>

\* updateResult is stored and the state is sent.
Show(c) ==
  /\ pc[c] = "show"
  /\ pc' = [pc EXCEPT ![c] = "idle"]
  /\ shown' = got[c].result
  /\ got' = [got EXCEPT ![c] = Failure]
  /\ UNCHANGED <<on, checker, age, todo, due, ticked, history>>

-----------------------------------------------------------------------------
Clip(a) == IF a > Interval THEN Interval ELSE IF a < -Back THEN -Back ELSE a
Asking(c) == pc[c] \in {"fetch", "write"}
Older(a, d) == IF a = Never THEN a ELSE Clip(a + d)

\* One unit of time passes on the wall clock, also within a check.
Elapses ==
  /\ checker' = [checker EXCEPT !.at = Older(@, 1)]
  /\ age' = [c \in Callers |-> IF Asking(c) THEN Clip(age[c] + 1) ELSE 0]
  /\ sinceAsk' = IF sinceAsk < Interval THEN sinceAsk + 1 ELSE Interval
  /\ UNCHANGED <<on, pc, got, todo, shown, irregular>>

\* Mutant: a timer, which fires once, in the ticker's place.
TimeOnce ==
  /\ Elapses
  /\ due' = IF due = 0 THEN 0 ELSE due - 1
  /\ ticked' = (ticked \/ due = 1)

\* The tablet is awake.
Time ==
  /\ Elapses
  /\ due' = IF due = 1 THEN Period ELSE due - 1
  /\ ticked' = (ticked \/ due = 1)

\* The tablet is suspended.
Sleep == Elapses /\ UNCHANGED <<due, ticked>>

\* The wall clock, which Check reads, is set back.  (Setting it forward looks to
\* the Checker like time that passes.)
SetBack ==
  /\ irregular' = TRUE
  /\ sinceAsk' = Interval
  /\ checker' = [checker EXCEPT !.at = Older(@, -Back)]
  /\ age' = [c \in Callers |-> IF Asking(c) THEN Clip(age[c] - Back) ELSE 0]
  /\ UNCHANGED <<on, pc, got, todo, shown, due, ticked>>

Step(c) ==
  \/ Check(c) \/ Answered(c) \/ Fails(c) \/ Return(c) \/ Show(c)
  \/ \E field \in Fields : Write(c, field)

Next ==
  \/ Restart
  \/ \E enabled \in BOOLEAN : SaveSettings(enabled)
  \/ TakeTick
  \/ \E c \in Callers : Step(c)
  \/ Time
  \/ Sleep
  \/ SetBack

\* A goroutine runs on, the HTTP client's timeout ends every request, and the tablet
\* is awake from time to time.
Fairness ==
  /\ WF_vars(Time)
  /\ WF_vars(TakeTick)
  /\ \A c \in Callers : WF_vars(Step(c))

Spec == Init /\ [][Next]_vars /\ Fairness

-----------------------------------------------------------------------------
\* As long as no two checks overlap and the clock is not set, a process sends
\* one request per interval, whether it is answered or fails, however often the
\* ticker fires and the option is turned off and on.
OneRequestPerInterval ==
  [][(\E c \in Callers : pc[c] = "start" /\ pc'[c] = "fetch") /\ ~irregular'
       => sinceAsk = Interval]_vars

\* Whatever overlapping checks have mixed, an answer in the cache that is no error
\* names a release: the two branches of Check never combine to a fresh, successful,
\* empty result that later checks would hand out for a day.  (What such a result
\* names may be mixed of two answers, and whether it is available of the other one.)
CachedIsAnswer ==
  (\A c \in Callers : todo[c] = {}) /\ checker.at # Never /\ ~checker.failed
    => checker.last.latest # Blank.latest

\* As long as no two checks overlap and the clock is not set, the owner is told what
\* one answer said, never that a draft is available, and failures, their cached errors
\* and answers from the cache never withdraw or change the newest release seen.
BannerIsNewest ==
  ~irregular => /\ shown \in Whole
                /\ (\A c \in Callers : ~UnderWay(c)) => shown = checker.last

\* While the option is on, the feed is asked again and again: no failure is cached
\* for ever, no tick is lost for ever, and no clock set back once ends the checks.
Undisturbed == on' /\ ~Restart /\ ~SetBack

KeepsChecking ==
  <>[][Undisturbed]_vars => []<>(\E c \in Callers : pc[c] = "fetch")
=============================================================================
