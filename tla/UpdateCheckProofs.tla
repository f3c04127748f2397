------------------------- MODULE UpdateCheckProofs -------------------------
(***************************************************************************)
(* Proofs about UpdateCheck: for any number of saves that check at once,   *)
(* any releases, interval, and setting back of the clock.                  *)
(***************************************************************************)
EXTENDS UpdateCheck, TLAPS

Named(result) == result.latest # Blank.latest

\* Fields are pending only in Check; the result is among them only for an answer.
Shape ==
  \A c \in Callers :
    /\ todo[c] # {} => pc[c] = "write"
    /\ pc[c] = "write" => IF got[c].failed THEN "last" \notin todo[c]
                          ELSE Named(got[c].result)

\* An assignment is pending that will end the state "no error, and no result".
Pending(c) == "last" \in todo[c] \/ (got[c].failed /\ "failed" \in todo[c])

Repaired ==
  /\ \A c \in Callers : pc[c] = "write" /\ ~got[c].failed /\ "last" \notin todo[c]
                          => Named(checker.last)
  /\ ~Named(checker.last) /\ ~checker.failed =>
       \/ \E c \in Callers : Pending(c)
       \/ checker.at = Never /\ \A c \in Callers : pc[c] # "write"

\* What a check that is alone has in its hands.
Alone == \A c, d \in Callers : UnderWay(c) /\ UnderWay(d) => c = d

Told ==
  /\ shown \in Whole /\ checker.last \in Whole
  /\ \A c \in Callers : got[c].result \in Whole
  /\ (\A c \in Callers : ~UnderWay(c)) => shown = checker.last
  /\ \A c \in Callers :
       /\ pc[c] = "fetch" => shown = checker.last
       /\ pc[c] = "write" => IF got[c].failed \/ "last" \in todo[c] THEN shown = checker.last
                             ELSE got[c].result = checker.last
       /\ pc[c] = "show" => got[c].result = checker.last

\* The last request's time is with its caller or in the Checker.
Unstamped(c) == pc[c] = "fetch" \/ "at" \in todo[c]
Stamped ==
  /\ \A c \in Callers : Unstamped(c) => age[c] = sinceAsk
  /\ sinceAsk < Interval => (\E c \in Callers : Unstamped(c)) \/ checker.at = sinceAsk

IInv == TypeOK /\ Shape /\ Repaired /\ (~irregular => Alone /\ Told /\ Stamped)

-----------------------------------------------------------------------------
LEMMA Ranges ==
  /\ Never \notin Ages /\ 0 \in Ages /\ \A a \in Ages : a \in Int
  /\ \A a \in Ages : Clip(a + 1) \in Ages /\ Clip(a - Back) \in Ages
  /\ \A a \in Ages : \A i \in {1, -Back} : Older(a, i) = Clip(a + i)
  /\ \A i \in Int : Older(Never, i) = Never
  BY UpdateAssumption DEF Ages, Never, Clip, Older

LEMMA ResultTypes ==
  /\ Whole \subseteq Results /\ Blank \in Whole /\ ~Named(Blank)
  /\ Failure \in [result : Whole, failed : BOOLEAN]
  /\ Failure \in [result : Results, failed : BOOLEAN]
  /\ NewChecker \in [at : {Never} \cup Ages, failed : BOOLEAN, last : Results]
  /\ \A latest \in Releases : ResultOf(latest) \in Whole /\ Named(ResultOf(latest))
  <1>1. \A latest \in Releases : ResultOf(latest) \in Results /\ Named(ResultOf(latest))
    <2> SUFFICES ASSUME NEW latest \in Releases
                 PROVE  ResultOf(latest) \in Results /\ Named(ResultOf(latest))
      OBVIOUS
    <2>1. (latest \notin Drafts /\ Newer(latest, Current)) \in BOOLEAN
      OBVIOUS
    <2> QED
      BY <2>1, UpdateAssumption DEF ResultOf, Results, Named
  <1>2. Blank \in Results
    BY DEF Blank, Results
  <1>3. Whole \subseteq Results
    BY <1>1, <1>2 DEF Whole
  <1>4. Blank \in Whole /\ ~Named(Blank)
    BY DEF Whole, Named
  <1> QED
    BY <1>1, <1>2, <1>3, <1>4 DEF Whole, Failure, NewChecker

\* What comes out of a read or a write beside another write.
LEMMA OutcomeTypes ==
  ASSUME TypeOK, Shape, NEW c \in Callers, NEW value \in Results,
         NEW result \in Outcomes(c, value)
  PROVE  /\ result \in Results
         /\ Named(value) => Named(result)
         /\ result = value \/ \E d \in Callers \ {c} : UnderWay(d)
  <1>1. CASE result = value
    BY <1>1
  <1>2. ASSUME NEW d \in Callers \ {c}, Copies(d), result \in Mixed(value, got[d].result)
        PROVE  result \in Results /\ (Named(value) => Named(result)) /\ UnderWay(d)
    <2>1. /\ got[d].result \in Results /\ Named(got[d].result) /\ UnderWay(d)
      BY <1>2 DEF Copies, TypeOK, Shape, UnderWay
    <2>2. /\ result \in [latest : {value.latest, got[d].result.latest, Torn},
                         available : {value.available, got[d].result.available}]
      BY <1>2 DEF Mixed
    <2>3. Torn # Blank.latest
      BY DEF Torn, Blank
    <2>4. result \in Results
      BY <2>1, <2>2 DEF Results
    <2>5. Named(value) => Named(result)
      BY <2>1, <2>2, <2>3 DEF Named
    <2> QED
      BY <2>1, <2>4, <2>5
  <1> QED
    BY <1>1, <1>2 DEF Outcomes

-----------------------------------------------------------------------------
LEMMA InitHolds == Init => IInv
  <1> SUFFICES ASSUME Init PROVE IInv
    OBVIOUS
  <1>1. \A c \in Callers : NewCalls[c] \in {"start", "idle"}
    BY DEF NewCalls
  <1>2. TypeOK
    <2>1. NewCalls \in [Callers -> {"idle", "start", "fetch", "write", "show"}]
      BY DEF NewCalls
    <2>2. /\ [c \in Callers |-> 0] \in [Callers -> Ages]
          /\ [c \in Callers |-> Failure] \in [Callers -> [result : Results, failed : BOOLEAN]]
          /\ [c \in Callers |-> {}] \in [Callers -> SUBSET Fields]
      BY ResultTypes, Ranges
    <2>3. Period \in 1 .. Period /\ Interval \in 0 .. Interval
      BY UpdateAssumption
    <2> QED
      BY <2>1, <2>2, <2>3, ResultTypes DEF Init, TypeOK
  <1>3. Shape /\ Repaired /\ Alone /\ Told /\ Stamped
    BY <1>1, ResultTypes, UpdateAssumption
    DEF Init, Shape, Repaired, Alone, Told, Stamped, Unstamped, UnderWay, NewChecker, Failure
  <1> QED
    BY <1>2, <1>3 DEF IInv

LEMMA InitHoldsNext == Init' => IInv'
  BY InitHolds, PTL

\* A restart is a new process with the old settings.
LEMMA RestartStep == ASSUME IInv, Restart PROVE IInv'
  <1>1. Init'
    BY DEF Restart, Init, IInv, TypeOK
  <1> QED
    BY <1>1, InitHoldsNext

LEMMA SaveStep ==
  ASSUME IInv, (\E enabled \in BOOLEAN : SaveSettings(enabled)) \/ TakeTick
  PROVE  IInv'
  <1>1. /\ on' \in BOOLEAN /\ ticked' \in BOOLEAN
        /\ UNCHANGED <<checker, age, got, todo, shown, due, sinceAsk, irregular>>
    BY DEF SaveSettings, TakeTick, IInv, TypeOK, history
  <1>2. /\ pc' \in [Callers -> {"idle", "start", "fetch", "write", "show"}]
        /\ \A c \in Callers : pc'[c] = pc[c] \/ (pc[c] = "idle" /\ pc'[c] = "start")
    BY DEF SaveSettings, TakeTick, IInv, TypeOK, Callers
  <1>3. TypeOK'
    BY <1>1, <1>2 DEF IInv, TypeOK
  <1>4. Shape' /\ Repaired'
    BY <1>1, <1>2 DEF IInv, Shape, Repaired, Pending
  <1>5. ~irregular' => Alone' /\ Told' /\ Stamped'
    BY <1>1, <1>2 DEF IInv, Alone, Told, Stamped, Unstamped, UnderWay
  <1> QED
    BY <1>3, <1>4, <1>5 DEF IInv

\* Check either returns, takes the cached answer, or sends a request.
LEMMA CheckStep ==
  ASSUME IInv, NEW c \in Callers, Check(c)
  PROVE  IInv'
  <1> USE DEF IInv
  <1>1. UNCHANGED <<on, checker, todo, shown, due, ticked>> /\ pc[c] = "start" /\ todo[c] = {}
    BY DEF Check, Shape
  <1>2. \/ /\ pc' = [pc EXCEPT ![c] = "idle"]
           /\ UNCHANGED <<age, got, sinceAsk>>
           /\ ~irregular' => ~irregular
        \/ /\ pc' = [pc EXCEPT ![c] = "show"]
           /\ UNCHANGED <<age, sinceAsk>>
           /\ \E result \in Outcomes(c, checker.last) :
                got' = [got EXCEPT ![c] = [result |-> result, failed |-> FALSE]]
           /\ ~irregular' => ~irregular /\ ~Overlaps(c)
        \/ /\ pc' = [pc EXCEPT ![c] = "fetch"]
           /\ age' = [age EXCEPT ![c] = 0]
           /\ UNCHANGED got
           /\ sinceAsk' = IF irregular' THEN Interval ELSE 0
           /\ ~irregular' => ~irregular /\ ~Overlaps(c)
    BY DEF Check, Cached, Ask, history
  <1>3. /\ irregular' \in BOOLEAN /\ sinceAsk' \in 0 .. Interval
    BY UpdateAssumption DEF Check, Cached, Ask, history, TypeOK
  <1>4. /\ got' \in [Callers -> [result : Results, failed : BOOLEAN]]
        /\ \A d \in Callers \ {c} : got'[d] = got[d]
    <2>1. checker.last \in Results
      BY DEF TypeOK
    <2>2. \A result \in Outcomes(c, checker.last) :
            [result |-> result, failed |-> FALSE] \in [result : Results, failed : BOOLEAN]
      BY <2>1, OutcomeTypes
    <2>3. CASE UNCHANGED got
      BY <2>3 DEF TypeOK
    <2>4. CASE \E result \in Outcomes(c, checker.last) :
                 got' = [got EXCEPT ![c] = [result |-> result, failed |-> FALSE]]
      <3>1. PICK value \in [result : Results, failed : BOOLEAN] :
              got' = [got EXCEPT ![c] = value]
        BY <2>2, <2>4
      <3> QED
        BY <3>1 DEF TypeOK
    <2> QED
      BY <1>2, <2>3, <2>4
  <1>5. /\ pc' \in [Callers -> {"idle", "start", "fetch", "write", "show"}]
        /\ \A d \in Callers \ {c} : pc'[d] = pc[d]
        /\ pc'[c] \in {"idle", "fetch", "show"}
    BY <1>2 DEF TypeOK
  <1>6. age' \in [Callers -> Ages] /\ \A d \in Callers \ {c} : age'[d] = age[d]
    BY <1>2, Ranges DEF TypeOK
  <1>7. TypeOK'
    BY <1>1, <1>3, <1>4, <1>5, <1>6 DEF TypeOK
  <1>8. Shape'
    BY <1>1, <1>4, <1>5 DEF Shape
  <1>9. Repaired'
    BY <1>1, <1>4, <1>5 DEF Repaired, Pending
  <1>10. ASSUME ~irregular' PROVE Alone' /\ Told' /\ Stamped'
    <2>1. ~irregular
      BY <1>2, <1>10
    <2>2. CASE pc' = [pc EXCEPT ![c] = "idle"] /\ UNCHANGED <<age, got, sinceAsk>>
      BY <1>1, <2>1, <2>2 DEF Alone, Told, Stamped, Unstamped, UnderWay, TypeOK
    <2>3. CASE ~Overlaps(c)
      <3>1. /\ \A d \in Callers \ {c} : ~UnderWay(d) /\ todo[d] = {}
            /\ checker.last \in Whole /\ \A d \in Callers : got[d].result \in Whole
            /\ shown \in Whole
        BY <2>1, <2>3 DEF Overlaps, UnderWay, Shape, Told
      <3>2. shown = checker.last
        BY <1>1, <2>1, <3>1 DEF Told, UnderWay
      <3>3. Alone'
        BY <1>5, <3>1 DEF Alone, UnderWay
      <3>4. CASE pc' = [pc EXCEPT ![c] = "fetch"] /\ age' = [age EXCEPT ![c] = 0]
                 /\ sinceAsk' = 0 /\ UNCHANGED got
        <4>1. pc'[c] = "fetch" /\ age'[c] = 0
          BY <3>4 DEF TypeOK
        <4> QED
          BY <1>1, <1>5, <3>1, <3>2, <3>3, <3>4, <4>1
          DEF Told, Stamped, Unstamped, UnderWay
      <3>5. CASE /\ pc' = [pc EXCEPT ![c] = "show"]
                 /\ UNCHANGED <<age, sinceAsk>>
                 /\ \E result \in Outcomes(c, checker.last) :
                      got' = [got EXCEPT ![c] = [result |-> result, failed |-> FALSE]]
        <4>1. PICK result \in Outcomes(c, checker.last) :
                got' = [got EXCEPT ![c] = [result |-> result, failed |-> FALSE]]
          BY <3>5
        <4>2. result = checker.last
          BY <3>1, OutcomeTypes DEF TypeOK
        <4>3. pc'[c] = "show" /\ got'[c].result = checker.last
          BY <3>5, <4>1, <4>2 DEF TypeOK
        <4> QED
          BY <1>1, <1>5, <2>1, <3>1, <3>2, <3>3, <3>5, <4>3
          DEF Told, Stamped, Unstamped, UnderWay
      <3> QED
        BY <1>2, <1>10, <2>2, <3>4, <3>5
    <2> QED
      BY <1>2, <1>10, <2>2, <2>3
  <1> QED
    BY <1>7, <1>8, <1>9, <1>10

\* fetch returns with an answer or an error; nothing is written yet.
LEMMA EndedStep ==
  ASSUME IInv, NEW c \in Callers, Answered(c) \/ Fails(c)
  PROVE  IInv'
  <1> USE DEF IInv
  <1>1. PICK answer \in [result : Results, failed : BOOLEAN], fields \in SUBSET Fields :
          /\ Ended(c, answer, fields)
          /\ "at" \in fields
          /\ answer.result \in Whole
          /\ IF answer.failed THEN "failed" \in fields /\ "last" \notin fields
             ELSE "last" \in fields /\ Named(answer.result)
    <2>1. CASE Answered(c)
      <3> PICK latest \in Releases :
            Ended(c, [result |-> ResultOf(latest), failed |-> FALSE], Fields)
        BY <2>1 DEF Answered
      <3> DEFINE answer == [result |-> ResultOf(latest), failed |-> FALSE]
      <3>1. /\ ResultOf(latest) \in Whole /\ ResultOf(latest) \in Results
            /\ Named(ResultOf(latest))
        BY ResultTypes
      <3>2. /\ answer \in [result : Results, failed : BOOLEAN]
            /\ answer.result \in Whole /\ ~answer.failed /\ Named(answer.result)
        BY <3>1
      <3>3. Ended(c, answer, Fields)
        OBVIOUS
      <3>4. Fields \in SUBSET Fields /\ "at" \in Fields /\ "last" \in Fields
        BY DEF Fields
      <3> HIDE DEF answer
      <3> QED
        BY <3>2, <3>3, <3>4
    <2>2. CASE Fails(c)
      <3>1. Ended(c, Failure, {"at", "failed"})
        BY <2>2 DEF Fails
      <3>2. /\ Failure \in [result : Results, failed : BOOLEAN]
            /\ Failure.failed /\ Failure.result \in Whole
        BY ResultTypes DEF Failure
      <3>3. {"at", "failed"} \in SUBSET Fields
        BY DEF Fields
      <3> QED
        BY <3>1, <3>2, <3>3
    <2> QED
      BY <2>1, <2>2
  <1>2. /\ pc[c] = "fetch" /\ pc'[c] = "write" /\ got'[c] = answer /\ todo'[c] = fields
        /\ \A d \in Callers \ {c} : pc'[d] = pc[d] /\ got'[d] = got[d] /\ todo'[d] = todo[d]
        /\ UNCHANGED <<on, checker, age, shown, due, ticked, sinceAsk, irregular>>
    BY <1>1 DEF Ended, TypeOK, history
  <1>3. TypeOK'
    BY <1>1 DEF Ended, TypeOK, history
  <1>4. Shape'
    BY <1>1, <1>2 DEF Shape
  <1>5. Repaired'
    <2>1. Pending(c)'
      BY <1>1, <1>2 DEF Pending
    <2> QED
      BY <1>1, <1>2, <2>1 DEF Repaired
  <1>6. ~irregular' => Alone' /\ Told' /\ Stamped'
    BY <1>1, <1>2 DEF Alone, Told, Stamped, Unstamped, UnderWay
  <1> QED
    BY <1>3, <1>4, <1>5, <1>6

\* One field of the Checker at a time.
LEMMA WriteStep ==
  ASSUME IInv, NEW c \in Callers, NEW field \in Fields, Write(c, field)
  PROVE  IInv'
  <1> USE DEF IInv
  <1>1. /\ pc[c] = "write" /\ field \in todo[c]
        /\ todo'[c] = todo[c] \ {field}
        /\ \A d \in Callers \ {c} : todo'[d] = todo[d]
        /\ todo' \in [Callers -> SUBSET Fields]
        /\ UNCHANGED <<on, pc, age, got, shown, due, ticked, sinceAsk, irregular>>
    BY DEF Write, TypeOK, history
  <1>2. /\ field = "at" => checker' = [checker EXCEPT !.at = age[c]]
        /\ field = "failed" => checker' = [checker EXCEPT !.failed = got[c].failed]
        /\ field = "last" => \E result \in Outcomes(c, got[c].result) :
                               checker' = [checker EXCEPT !.last = result]
        /\ field \in {"at", "failed", "last"}
    BY DEF Write, Fields
  <1>3. \A result \in Outcomes(c, got[c].result) :
          /\ result \in Results
          /\ field = "last" => Named(result)
          /\ ~irregular => result = got[c].result
    <2>1. got[c].result \in Results
      BY DEF TypeOK
    <2>2. field = "last" => Named(got[c].result)
      BY <1>1 DEF Shape
    <2>3. ~irregular => \A d \in Callers \ {c} : ~UnderWay(d)
      BY <1>1 DEF Alone, UnderWay
    <2> QED
      BY <2>1, <2>2, <2>3, OutcomeTypes
  <1>4. /\ checker' \in [at : {Never} \cup Ages, failed : BOOLEAN, last : Results]
        /\ checker'.at = IF field = "at" THEN age[c] ELSE checker.at
        /\ checker'.failed = IF field = "failed" THEN got[c].failed ELSE checker.failed
        /\ field # "last" => checker'.last = checker.last
        /\ field = "last" => /\ Named(checker'.last)
                             /\ ~irregular => checker'.last = got[c].result
    BY <1>2, <1>3 DEF TypeOK
  <1>5. TypeOK'
    BY <1>1, <1>4 DEF TypeOK
  <1>6. Shape'
    BY <1>1 DEF Shape
  <1>7. Repaired'
    <2>1. ~Named(checker'.last) => ~Named(checker.last) /\ field # "last"
      BY <1>4
    <2>2. \A d \in Callers : pc'[d] = "write" /\ ~got'[d].failed /\ "last" \notin todo'[d]
                               => Named(checker'.last)
      BY <1>1, <1>4, <2>1 DEF Repaired
    <2>3. ASSUME ~Named(checker'.last), ~checker'.failed
          PROVE  \E d \in Callers : Pending(d)'
      <3>1. CASE field = "failed"
        <4>1. ~got[c].failed
          BY <1>4, <2>3, <3>1
        <4>2. "last" \in todo[c]
          BY <1>1, <2>1, <2>3, <4>1 DEF Repaired
        <4> QED
          BY <1>1, <3>1, <4>2 DEF Pending
      <3>2. CASE field = "at"
        <4>1. ~Named(checker.last) /\ ~checker.failed
          BY <1>4, <2>3, <3>2
        <4>2. PICK d \in Callers : Pending(d)
          BY <1>1, <4>1 DEF Repaired
        <4> QED
          BY <1>1, <3>2, <4>2 DEF Pending
      <3> QED
        BY <1>2, <2>1, <2>3, <3>1, <3>2
    <2> QED
      BY <2>2, <2>3 DEF Repaired
  <1>8. ASSUME ~irregular' PROVE Alone' /\ Told' /\ Stamped'
    <2>1. /\ ~irregular /\ Alone /\ Told /\ Stamped
          /\ \A d \in Callers \ {c} : ~UnderWay(d)
      BY <1>1, <1>8 DEF Alone, UnderWay
    <2>2. Alone'
      BY <1>1, <2>1 DEF Alone, UnderWay
    <2>3. Told'
      BY <1>1, <1>2, <1>4, <2>1 DEF Told, UnderWay, Shape
    <2>4. Stamped'
      BY <1>1, <1>2, <1>4, <2>1 DEF Stamped, Unstamped, UnderWay, Shape
    <2> QED
      BY <2>2, <2>3, <2>4
  <1> QED
    BY <1>5, <1>6, <1>7, <1>8

\* Check returns, and the answer is shown.
LEMMA ReturnStep ==
  ASSUME IInv, NEW c \in Callers, Return(c) \/ Show(c)
  PROVE  IInv'
  <1> USE DEF IInv
  <1>1. /\ todo[c] = {}
        /\ \/ pc[c] = "write" /\ got[c].failed /\ pc'[c] = "idle" /\ UNCHANGED <<got, shown>>
           \/ pc[c] = "write" /\ ~got[c].failed /\ pc'[c] = "show" /\ UNCHANGED <<got, shown>>
           \/ /\ pc[c] = "show" /\ pc'[c] = "idle"
              /\ shown' = got[c].result
        /\ \A d \in Callers \ {c} : pc'[d] = pc[d] /\ got'[d] = got[d] /\ age'[d] = age[d]
        /\ UNCHANGED <<on, checker, todo, due, ticked, sinceAsk, irregular>>
    BY DEF Return, Show, TypeOK, Shape, history
  <1>0. got'[c] \in {got[c], Failure} /\ Failure.result \in Whole
    BY ResultTypes DEF Return, Show, TypeOK
  <1>2. TypeOK'
    <2>1. CASE Return(c)
      BY <2>1, Ranges DEF Return, TypeOK, history
    <2>2. CASE Show(c)
      BY <2>2, ResultTypes DEF Show, TypeOK, history
    <2> QED
      BY <2>1, <2>2
  <1>3. Shape'
    BY <1>1 DEF Shape
  <1>4. Repaired'
    BY <1>1 DEF Repaired, Pending
  <1>5. ASSUME ~irregular' PROVE Alone' /\ Told' /\ Stamped'
    <2>1. /\ ~irregular /\ Alone /\ Told /\ Stamped
          /\ \A d \in Callers \ {c} : ~UnderWay(d)
      BY <1>1, <1>5 DEF Alone, UnderWay
    <2>2. /\ \A d \in Callers : got'[d].result \in Whole
          /\ shown' \in Whole /\ checker'.last \in Whole
      BY <1>0, <1>1, <2>1 DEF Told
    <2>3. Alone' /\ Told'
      BY <1>1, <2>1, <2>2 DEF Alone, Told, UnderWay
    <2>4. Stamped'
      BY <1>1, <2>1 DEF Stamped, Unstamped, UnderWay, Shape
    <2> QED
      BY <2>3, <2>4
  <1> QED
    BY <1>2, <1>3, <1>4, <1>5

\* Time passes for the Checker, the calls and the last request alike.
LEMMA TimeStep ==
  ASSUME IInv, Time \/ Sleep \/ SetBack
  PROVE  IInv'
  <1> USE DEF IInv
  <1>1. /\ checker'.last = checker.last /\ checker'.failed = checker.failed
        /\ checker.at = Never => checker'.at = Never
        /\ UNCHANGED <<on, pc, got, todo, shown>>
    BY Ranges, UpdateAssumption DEF Time, Sleep, Elapses, SetBack, TypeOK
  <1>2. TypeOK'
    <2>1. checker' \in [at : {Never} \cup Ages, failed : BOOLEAN, last : Results]
      <3>1. \A i \in {1, -Back} : Older(checker.at, i) \in {Never} \cup Ages
        <4>1. \A i \in {1, -Back} : i \in Int
          BY UpdateAssumption
        <4>2. CASE checker.at = Never
          BY <4>1, <4>2, Ranges
        <4>3. CASE checker.at \in Ages
          <5>1. Clip(checker.at + 1) \in Ages /\ Clip(checker.at + (-Back)) \in Ages
            BY <4>3, UpdateAssumption DEF Clip, Ages
          <5> QED
            BY <4>3, <5>1, Ranges
        <4> QED
          BY <4>2, <4>3 DEF TypeOK
      <3> QED
        BY <3>1 DEF Time, Sleep, Elapses, SetBack, TypeOK
    <2>2. age' \in [Callers -> Ages]
      BY Ranges DEF Time, Sleep, Elapses, SetBack, TypeOK
    <2>3. due' \in 1 .. Period /\ sinceAsk' \in 0 .. Interval
      BY UpdateAssumption DEF Time, Sleep, Elapses, SetBack, TypeOK
    <2>4. ticked' \in BOOLEAN /\ irregular' \in BOOLEAN
      BY DEF Time, Sleep, Elapses, SetBack, TypeOK
    <2> QED
      BY <1>1, <2>1, <2>2, <2>3, <2>4 DEF TypeOK
  <1>3. Shape' /\ Repaired'
    BY <1>1 DEF Shape, Repaired, Pending
  <1>4. ASSUME ~irregular' PROVE Alone' /\ Told' /\ Stamped'
    <2>1. ~irregular /\ Elapses /\ Alone /\ Told /\ Stamped
      BY <1>4 DEF Time, Sleep, Elapses, SetBack
    <2>2. Alone' /\ Told'
      BY <1>1, <2>1 DEF Alone, Told, UnderWay
    <2>3. sinceAsk \in 0 .. Interval /\ sinceAsk' = Clip(sinceAsk + 1)
      BY <2>1, UpdateAssumption DEF Elapses, TypeOK, Clip
    <2>4. \A d \in Callers : Unstamped(d)' => age'[d] = sinceAsk'
      <3> SUFFICES ASSUME NEW d \in Callers, Unstamped(d) PROVE age'[d] = sinceAsk'
        BY <1>1 DEF Unstamped
      <3>1. Asking(d)
        BY DEF Unstamped, Asking, Shape
      <3> QED
        BY <2>1, <2>3, <3>1 DEF Elapses, Stamped
    <2>5. ASSUME sinceAsk' < Interval
          PROVE  (\E d \in Callers : Unstamped(d)') \/ checker'.at = sinceAsk'
      <3>1. sinceAsk < Interval
        BY <2>1, <2>3, <2>5, UpdateAssumption DEF Elapses
      <3>2. CASE checker.at = sinceAsk
        <4>1. checker'.at = Older(sinceAsk, 1)
          BY <2>1, <3>2 DEF Elapses, TypeOK
        <4> QED
          BY <2>3, <4>1, Ranges, UpdateAssumption DEF Older, Never
      <3>3. CASE \E d \in Callers : Unstamped(d)
        BY <1>1, <3>3 DEF Unstamped
      <3> QED
        BY <2>1, <3>1, <3>2, <3>3 DEF Stamped
    <2> QED
      BY <2>2, <2>4, <2>5 DEF Stamped, Unstamped
  <1> QED
    BY <1>2, <1>3, <1>4

LEMMA StepHolds == IInv /\ [Next]_vars => IInv'
  <1> SUFFICES ASSUME IInv, [Next]_vars PROVE IInv'
    OBVIOUS
  <1>1. CASE UNCHANGED vars
    BY <1>1 DEF vars, calls, history, IInv, TypeOK, Shape, Repaired, Pending, Alone, Told,
                Stamped, Unstamped, UnderWay
  <1>2. CASE Next
    BY <1>2, RestartStep, SaveStep, CheckStep, EndedStep, WriteStep, ReturnStep, TimeStep
    DEF Next, Step
  <1> QED
    BY <1>1, <1>2

LEMMA Invariant == Spec => []IInv
  BY InitHolds, StepHolds, PTL DEF Spec

-----------------------------------------------------------------------------
\* Any number of unsynchronised checks never leave a fresh result that is empty.
THEOREM CachedAnswers == Spec => []CachedIsAnswer
  <1>1. IInv => CachedIsAnswer
    BY DEF IInv, Repaired, Pending, Named, CachedIsAnswer
  <1> QED
    BY <1>1, Invariant, PTL

\* What is shown is one answer's and no draft is offered, and errors and cached answers
\* never take it back, as long as no two checks overlap and the clock is not set.
THEOREM BannerStands == Spec => []BannerIsNewest
  <1>1. IInv => BannerIsNewest
    BY DEF IInv, Told, BannerIsNewest
  <1> QED
    BY <1>1, Invariant, PTL

\* At most one request per interval and process, for any interval and ticker.
THEOREM RequestsAreRare == Spec => OneRequestPerInterval
  <1> DEFINE Asks == \E c \in Callers : pc[c] = "start" /\ pc'[c] = "fetch"
  <1>1. IInv /\ [Next]_vars => [Asks /\ ~irregular' => sinceAsk = Interval]_vars
    <2> SUFFICES ASSUME IInv, Next, NEW c \in Callers, pc[c] = "start", pc'[c] = "fetch",
                        ~irregular'
                 PROVE  sinceAsk = Interval
      OBVIOUS
    <2>1. Check(c) /\ Ask(c)
      <3>1. CASE \E d \in Callers : Step(d)
        <4> PICK d \in Callers : Step(d)
          BY <3>1
        <4>1. d = c /\ Check(c)
          BY DEF Step, Check, Cached, Ask, Answered, Fails, Ended, Return, Show, Write,
                 IInv, TypeOK
        <4> QED
          BY <4>1 DEF Check, Cached, IInv, TypeOK
      <3>2. CASE Restart
        BY <3>2 DEF Restart, NewCalls
      <3> QED
        BY <3>1, <3>2 DEF Next, SaveSettings, TakeTick, Time, Sleep, Elapses, SetBack, IInv, TypeOK
    <2>2. ~irregular /\ ~Overlaps(c) /\ ~Fresh /\ Stamped
      <3>1. irregular' = (irregular \/ Overlaps(c)) /\ ~Fresh
        BY <2>1 DEF Check, Cached, Ask, IInv, TypeOK
      <3>2. ~irregular /\ ~Overlaps(c)
        BY <3>1
      <3> QED
        BY <3>1, <3>2 DEF IInv
    <2>3. \A d \in Callers : ~Unstamped(d)
      BY <2>2 DEF Unstamped, Overlaps, UnderWay, IInv, Shape
    <2>4. sinceAsk < Interval => checker.at = sinceAsk
      BY <2>2, <2>3 DEF Stamped
    <2> QED
      BY <2>2, <2>4, UpdateAssumption DEF Fresh, Never, IInv, TypeOK
  <1> QED
    BY <1>1, Invariant, PTL DEF Spec, OneRequestPerInterval

-----------------------------------------------------------------------------
(* The order of versions *)

\* Newer orders the versions, a missing third number counting as 0: none is newer than itself,
\* no two are newer than each other, and of two that differ one is newer.
THEOREM NewerOrdersVersions ==
  ASSUME NEW a \in Seq(Nat), NEW b \in Seq(Nat), NEW c \in Seq(Nat)
  PROVE  /\ ~Newer(a, a)
         /\ Newer(a, b) /\ Newer(b, c) => Newer(a, c)
         /\ IsVersion(a) /\ IsVersion(b) =>
              Newer(a, b) \/ Newer(b, a) \/ \A i \in 1 .. 3 : Part(a, i) = Part(b, i)
  <1>1. \A v \in Seq(Nat) : IsVersion(v) =>
          Part(v, 1) \in Nat /\ Part(v, 2) \in Nat /\ Part(v, 3) \in Nat
    BY DEF Part, IsVersion
  <1> DEFINE Beats(v, w) ==
        \/ Part(v, 1) > Part(w, 1)
        \/ Part(v, 1) = Part(w, 1) /\ Part(v, 2) > Part(w, 2)
        \/ Part(v, 1) = Part(w, 1) /\ Part(v, 2) = Part(w, 2) /\ Part(v, 3) > Part(w, 3)
  <1>2. ASSUME NEW v, NEW w
        PROVE  Newer(v, w) <=> IsVersion(v) /\ IsVersion(w) /\ Beats(v, w)
    <2>1. 1 .. 3 = {1, 2, 3} /\ 1 .. 1 - 1 = {} /\ 1 .. 2 - 1 = {1} /\ 1 .. 3 - 1 = {1, 2}
      OBVIOUS
    <2> HIDE DEF IsVersion, Part
    <2> QED
      BY <2>1 DEF Newer
  <1>3. ~Newer(a, a)
    <2>1. IsVersion(a) => ~Beats(a, a)
      BY <1>1
    <2> QED
      BY <1>2, <2>1
  <1>4. Newer(a, b) /\ Newer(b, c) => Newer(a, c)
    <2>1. IsVersion(a) /\ IsVersion(b) /\ IsVersion(c) /\ Beats(a, b) /\ Beats(b, c) => Beats(a, c)
      BY <1>1
    <2> HIDE DEF Beats
    <2> QED
      BY <1>2, <2>1
  <1>5. IsVersion(a) /\ IsVersion(b) =>
          Newer(a, b) \/ Newer(b, a) \/ \A i \in 1 .. 3 : Part(a, i) = Part(b, i)
    <2>1. IsVersion(a) /\ IsVersion(b) /\ ~Beats(a, b) /\ ~Beats(b, a) =>
            Part(a, 1) = Part(b, 1) /\ Part(a, 2) = Part(b, 2) /\ Part(a, 3) = Part(b, 3)
      BY <1>1
    <2>2. \A i \in 1 .. 3 : i = 1 \/ i = 2 \/ i = 3
      OBVIOUS
    <2> HIDE DEF Beats, Part
    <2> QED
      BY <1>2, <2>1, <2>2
  <1> QED
    BY <1>3, <1>4, <1>5
=============================================================================
