------------------------- MODULE KnownTabletsProofs -------------------------
(***************************************************************************)
(* Proofs about KnownTablets: for any number of tablets, addresses, tabs,  *)
(* installers and clicks.                                                  *)
(***************************************************************************)
EXTENDS KnownTablets, TLAPS

\* A call keeps its host and the ticked key; one that is connected holds
\* operationMu, and talks to the recorded tablet or to one the owner has accepted.
Calls ==
  \A t \in Tabs : Calling(t) =>
    /\ op[t].host \in Hosts /\ op[t].finger \in approved
    /\ op[t].accept => op[t].finger \in accepted

Connected ==
  \A t \in Tabs : op[t].key # None =>
    /\ Calling(t) /\ op[t].key \in approved
    /\ known[home[t]][op[t].host] \in {None, op[t].key} \/ op[t].key \in accepted
    /\ \A u \in Tabs : home[u] = home[t] /\ op[u].key # None => u = t

\* The tick stands for the key shown.
Ticks ==
  \A t \in Tabs : page[t].trust =>
    /\ page[t].finger \in approved
    /\ page[t].changed => page[t].finger \in accepted

\* Only ticked keys come into a record, and the file has what the one installer knows.
Records1 ==
  /\ \A i \in Installers, h \in Hosts : known[i][h] \in approved \cup {None}
  /\ \A h \in Hosts : file[h] \in approved \cup {None}
  /\ OneInstaller /\ ~unsaved => \A t \in Tabs : known[home[t]] = file

IInv == TypeOK /\ Calls /\ Connected /\ Ticks /\ Records1

-----------------------------------------------------------------------------
\* The records that the actions build.
LEMMA PageType ==
  ASSUME NEW p \in Page
  PROVE  /\ Busy(p) \in Page /\ Done(p) \in Page
         /\ \A q \in {Busy(p), Done(p)} :
              q.finger = p.finger /\ q.changed = p.changed /\ q.trust = p.trust
  BY DEF Page, Busy, Done

LEMMA AfterType ==
  ASSUME NEW p \in Page, NEW kind \in Kinds
  PROVE  /\ After(p, kind) \in Page
         /\ After(p, kind).finger = p.finger /\ After(p, kind).changed = p.changed
         /\ After(p, kind).trust = p.trust
  BY DEF Page, After, Kinds

LEMMA TickType ==
  ASSUME NEW p \in Page, NEW yes \in BOOLEAN
  PROVE  LET q == [p EXCEPT !.trust = yes, !.live = TRUE]
         IN q \in Page /\ q.finger = p.finger /\ q.changed = p.changed /\ q.trust = yes
  BY DEF Page

LEMMA BlankType == Fresh \in Page /\ NoSearch \in Search /\ NoOp \in Op
  BY DEF Fresh, NoSearch, NoOp, Page, Search, Op

LEMMA KeyType ==
  ASSUME NEW o \in Op, NEW k \in Keys
  PROVE  LET q == [o EXCEPT !.key = k]
         IN q \in Op /\ q.kind = o.kind /\ q.host = o.host /\ q.finger = o.finger
              /\ q.accept = o.accept /\ q.key = k
  BY DEF Op

LEMMA ExpectedType ==
  ASSUME TypeOK, Calls, NEW t \in Tabs, Calling(t)
  PROVE  op[t].host \in Hosts /\ op[t].finger \in Keys /\ Expected(t) \in Keys
  BY DEF TypeOK, Calls, Expected, Record

LEMMA RememberType ==
  ASSUME TypeOK, NEW i \in Installers, NEW h \in Hosts, NEW k \in Keys,
         Remember(i, h, k)
  PROVE  /\ known' \in [Installers -> Record] /\ file' \in Record
         /\ unsaved' \in BOOLEAN
  <1>1. known' \in [Installers -> Record]
    BY DEF TypeOK, Remember, Record
  <1> QED
    BY <1>1 DEF TypeOK, Remember

LEMMA ResultsType ==
  ASSUME TypeOK, NEW k \in Keys, NEW kind \in Kinds
  PROVE  Results(kind, k) \subseteq Tablet /\ LeftTo(k, kind) \subseteq Tablet
  <1>0. tablet[k] \in Tablet
    BY DEF TypeOK
  <1>1. Results(kind, k) \subseteq Tablet
    <2>1. CASE kind = "install"
      BY <2>1 DEF Results, Tablet
    <2>2. CASE kind = "reactivate"
      BY <1>0, <2>2 DEF Results, Tablet
    <2>3. CASE kind = "recover"
      <3>1. [bundle |-> "parked", active |-> FALSE] \in Tablet
        BY DEF Tablet
      <3> QED
        BY <2>3, <3>1 DEF Results
    <2>4. CASE kind = "uninstall"
      BY <2>4 DEF Results, Tablet
    <2> QED
      BY <2>1, <2>2, <2>3, <2>4 DEF Kinds
  <1> QED
    BY <1>0, <1>1 DEF LeftTo

LEMMA TypeStep == TypeOK /\ Calls /\ Connected /\ [Next]_vars => TypeOK'
  <1> SUFFICES ASSUME TypeOK, Calls, Connected, [Next]_vars PROVE TypeOK'
    OBVIOUS
  <1> USE TabletsAssumption DEF TypeOK, Act, history
  <1>1. CASE UNCHANGED vars
    BY <1>1 DEF vars
  <1>2. ASSUME NEW k \in Keys, Reboot(k) PROVE TypeOK'
    <2>1. [tablet[k] EXCEPT !.active = FALSE] \in Tablet
      BY DEF Tablet
    <2>2. tablet' = [tablet EXCEPT ![k] = [tablet[k] EXCEPT !.active = FALSE]]
      BY <1>2 DEF Reboot
    <2> QED
      BY <1>2, <2>1, <2>2 DEF Reboot
  <1>3. ASSUME NEW i \in Installers, Restart(i) PROVE TypeOK'
    <2>1. tablet' \in [Keys -> Tablet]
      <3>1. CASE UNCHANGED tablet
        BY <3>1
      <3>2. ASSUME NEW t \in Tabs, op[t].key # None, NEW s \in LeftTo(op[t].key, op[t].kind),
                   tablet' = [tablet EXCEPT ![op[t].key] = s]
            PROVE  tablet' \in [Keys -> Tablet]
        <4>1. op[t].key \in Keys /\ op[t].kind \in Kinds
          BY <3>2 DEF Connected, Calling, Op
        <4> QED
          BY <3>2, <4>1, ResultsType
      <3> QED
        BY <1>3, <3>1, <3>2 DEF Restart, CutOff, Mine
    <2>2. page' \in [Tabs -> Page] /\ search' \in [Tabs -> Search] /\ op' \in [Tabs -> Op]
      BY <1>3, BlankType DEF Restart, CutOff
    <2>3. unsure' \subseteq Tabs
      BY <1>3 DEF Restart, CutOff, Showing
    <2>4. known' \in [Installers -> Record]
      BY <1>3 DEF Restart
    <2> QED
      BY <1>3, <2>1, <2>2, <2>3, <2>4 DEF Restart
  <1>4. ASSUME NEW t \in Tabs, NEW k \in Keys, Preflight(t, k) PROVE TypeOK'
    <2>1. [host |-> search[t].host, key |-> k, seen |-> tablet[k]] \in Search
      BY <1>4 DEF Search, Preflight, Searching
    <2> QED
      BY <1>4, <2>1 DEF Preflight
  <1>5. ASSUME NEW t \in Tabs, Found(t) PROVE TypeOK'
    <2>1. search[t].key \in Keys /\ search[t].seen \in Tablet
      BY <1>5 DEF Found, Search
    <2>2. search[t].seen.active \in BOOLEAN
      BY <2>1 DEF Tablet
    <2>3. page' \in [Tabs -> Page]
      BY <1>5, <2>1, <2>2 DEF Found, Changed, Page
    <2> QED
      BY <1>5, <2>3, BlankType DEF Found
  <1>6. ASSUME NEW t \in Tabs, NotFound(t) PROVE TypeOK'
    BY <1>6, PageType, BlankType DEF NotFound
  <1>7. ASSUME NEW t \in Tabs, Connect(t) PROVE TypeOK'
    BY <1>7, KeyType, ExpectedType, RememberType DEF Connect
  <1>8. ASSUME NEW t \in Tabs, Refused(t) PROVE TypeOK'
    BY <1>8, PageType, BlankType DEF Refused
  <1>9. ASSUME NEW t \in Tabs, Complete(t) PROVE TypeOK'
    <2>1. op[t].key \in Keys /\ op[t].kind \in Kinds /\ op[t].host \in Hosts
      BY <1>9 DEF Complete, Connected, Calling, Calls, Op
    <2>2. tablet' \in [Keys -> Tablet]
      BY <1>9, <2>1, ResultsType DEF Complete
    <2>3. /\ known' \in [Installers -> Record] /\ file' \in Record
          /\ unsaved' \in BOOLEAN
      BY <1>9, <2>1, RememberType DEF Complete
    <2>4. page' \in [Tabs -> Page]
      BY <1>9, <2>1, PageType, AfterType DEF Complete
    <2> QED
      BY <1>9, <2>2, <2>3, <2>4, BlankType DEF Complete, Showing
  <1>10. ASSUME NEW t \in Tabs, Fail(t) PROVE TypeOK'
    <2>1. op[t].key \in Keys /\ op[t].kind \in Kinds
      BY <1>10 DEF Fail, Connected, Calling, Op
    <2>2. tablet' \in [Keys -> Tablet]
      BY <1>10, <2>1, ResultsType DEF Fail
    <2> QED
      BY <1>10, <2>2, PageType, BlankType DEF Fail, Showing
  <1>11. ASSUME NEW t \in Tabs, NEW h \in Hosts, Find(t, h) PROVE TypeOK'
    BY <1>11, PageType DEF Find, Search
  <1>12. ASSUME NEW t \in Tabs, NEW yes \in BOOLEAN, Tick(t, yes) PROVE TypeOK'
    <2>1. page[t].finger \in Keys
      BY <1>12 DEF Tick, Page
    <2>2. page' = [page EXCEPT ![t] = [page[t] EXCEPT !.trust = yes, !.live = TRUE]]
      BY <1>12 DEF Tick
    <2>3. page' \in [Tabs -> Page]
      BY <2>2, TickType
    <2> QED
      BY <1>12, <2>1, <2>3 DEF Tick
  <1>13. ASSUME NEW t \in Tabs, NEW kind \in Kinds, NEW h \in Hosts, Click(t, kind, h)
         PROVE TypeOK'
    BY <1>13, PageType DEF Click, Op, Offered, Page
  <1> QED
    BY <1>1, <1>2, <1>3, <1>4, <1>5, <1>6, <1>7, <1>8, <1>9, <1>10, <1>11, <1>12,
       <1>13 DEF Next

-----------------------------------------------------------------------------
\* What a call records is the key it has connected to; the file follows unless
\* it cannot be written.
LEMMA RememberKeeps ==
  ASSUME TypeOK, NEW i \in Installers, NEW h \in Hosts, NEW k \in Keys,
         Remember(i, h, k)
  PROVE  /\ \A j \in Installers, g \in Hosts :
              known'[j][g] = IF j = i /\ g = h THEN k ELSE known[j][g]
         /\ \A j \in Installers : j # i => known'[j] = known[j]
         /\ \/ file' = known'[i] /\ unsaved' = unsaved
            \/ file' = file /\ unsaved'
  <1>1. known' = [known EXCEPT ![i] = [known[i] EXCEPT ![h] = k]]
    BY DEF Remember
  <1>2. \A j \in Installers : known[j] \in Record
    BY DEF TypeOK
  <1>3. known'[i] = [known[i] EXCEPT ![h] = k] /\ \A j \in Installers : j # i => known'[j] = known[j]
    BY <1>1 DEF TypeOK
  <1>4. \A g \in Hosts : known'[i][g] = IF g = h THEN k ELSE known[i][g]
    BY <1>2, <1>3 DEF Record
  <1> QED
    BY <1>3, <1>4 DEF Remember

\* The key expected is the recorded one, or one that may take its place.
LEMMA ExpectedMayReplace ==
  ASSUME TypeOK, Calls, Records1, NEW t \in Tabs, Calling(t)
  PROVE  /\ Expected(t) \in approved
         /\ known[home[t]][op[t].host] \in {None, Expected(t)} \/ Expected(t) \in accepted
  <1>1. op[t].host \in Hosts /\ home[t] \in Installers /\ op[t].finger \in approved
    BY DEF Calls, TypeOK
  <1>2. known[home[t]][op[t].host] \in approved \cup {None}
    BY <1>1 DEF Records1
  <1> QED
    BY <1>1, <1>2 DEF Expected, Calls

\* The steps that change no record and no call but to end it.
LEMMA QuietStep ==
  ASSUME IInv, UNCHANGED <<home, known, file, unsaved>>,
         approved \subseteq approved', accepted \subseteq accepted',
         op' \in [Tabs -> Op],
         \A t \in Tabs : op'[t] = op[t] \/ op'[t] = NoOp
  PROVE  Calls' /\ Connected' /\ Records1'
  <1> USE DEF IInv, TypeOK
  <1>1. \A t \in Tabs : op'[t] = NoOp => ~Calling(t)' /\ op'[t].key = None
    BY DEF NoOp, Calling
  <1>2. Calls'
    BY <1>1 DEF Calls, Calling
  <1>3. Connected'
    BY <1>1 DEF Connected, Calling
  <1>4. Records1'
    BY DEF Records1, OneInstaller
  <1> QED
    BY <1>2, <1>3, <1>4

\* And those that change no tick.
LEMMA TicksKept ==
  ASSUME Ticks, approved \subseteq approved', accepted \subseteq accepted',
         \A t \in Tabs : \/ ~page'[t].trust
                        \/ /\ page'[t].finger = page[t].finger
                           /\ page'[t].changed = page[t].changed
                           /\ page'[t].trust = page[t].trust
  PROVE  Ticks'
  BY DEF Ticks

-----------------------------------------------------------------------------
LEMMA InitIInv == Init => IInv
  <1> SUFFICES ASSUME Init PROVE IInv
    OBVIOUS
  <1> USE TabletsAssumption DEF Init
  <1>1. file \in Record
    OBVIOUS
  <1>2. Recorded(file) \subseteq Keys
    BY <1>1 DEF Recorded, Record
  <1>3. TypeOK
    <2>1. tablet \in [Keys -> Tablet]
      BY DEF Tablet
    <2>2. page \in [Tabs -> Page] /\ search \in [Tabs -> Search] /\ op \in [Tabs -> Op]
      BY BlankType
    <2>3. known \in [Installers -> Record]
      BY <1>1
    <2>4. home \in [Tabs -> Installers] /\ unsaved \in BOOLEAN
      OBVIOUS
    <2>5. acts \in 0 .. MaxActs
      <3>1. acts = 0
        OBVIOUS
      <3> HIDE DEF Init
      <3> QED
        BY <3>1
    <2>6. approved \subseteq Keys /\ accepted \subseteq Keys /\ unsure \subseteq Tabs
      BY <1>2
    <2> HIDE DEF Init
    <2> QED
      BY <1>1, <2>1, <2>2, <2>3, <2>4, <2>5, <2>6 DEF TypeOK
  <1>4. Calls /\ Connected
    BY DEF Calls, Connected, Calling, NoOp
  <1>5. Ticks
    BY DEF Ticks, Fresh
  <1>6. \A h \in Hosts : file[h] \in approved \cup {None}
    BY DEF Recorded
  <1>7. Records1
    BY <1>3, <1>6 DEF Records1, TypeOK
  <1> QED
    BY <1>3, <1>4, <1>5, <1>7 DEF IInv

\* A call that has the connection of its installer is the only one there.
LEMMA RecordsAfter ==
  ASSUME IInv, NEW t \in Tabs, NEW h \in Hosts, NEW k \in approved,
         Remember(home[t], h, k), UNCHANGED <<home, approved>>
  PROVE  Records1'
  <1> USE DEF IInv, TypeOK
  <1> DEFINE i == home[t]
  <1>1. i \in Installers /\ k \in Keys
    OBVIOUS
  <1>2. /\ \A j \in Installers, g \in Hosts :
             known'[j][g] = IF j = i /\ g = h THEN k ELSE known[j][g]
        /\ \A j \in Installers : j # i => known'[j] = known[j]
        /\ \/ file' = known'[i] /\ unsaved' = unsaved
           \/ file' = file /\ unsaved'
    BY <1>1, RememberKeeps
  <1>3. \A j \in Installers, g \in Hosts : known'[j][g] \in approved' \cup {None}
    BY <1>2 DEF Records1
  <1>4. \A g \in Hosts : file'[g] \in approved' \cup {None}
    BY <1>1, <1>2, <1>3 DEF Records1
  <1>5. OneInstaller' /\ ~unsaved' => \A u \in Tabs : known'[home'[u]] = file'
    BY <1>2 DEF OneInstaller
  <1> QED
    BY <1>3, <1>4, <1>5 DEF Records1

LEMMA ConnectStep ==
  ASSUME IInv, NEW t \in Tabs, Connect(t)
  PROVE  Calls' /\ Connected' /\ Ticks' /\ Records1'
  <1> USE DEF IInv, TypeOK
  <1> DEFINE k == Expected(t)
  <1>1. /\ op[t].host \in Hosts /\ k \in Keys /\ k \in approved
        /\ known[home[t]][op[t].host] \in {None, k} \/ k \in accepted
    BY ExpectedType, ExpectedMayReplace DEF Connect
  <1>2. /\ op' = [op EXCEPT ![t].key = k] /\ op[t].key = None
        /\ UNCHANGED <<home, page, approved, accepted>>
    BY DEF Connect
  <1>3. /\ op'[t].key = k /\ op'[t].host = op[t].host /\ op'[t].kind = op[t].kind
        /\ op'[t].finger = op[t].finger /\ op'[t].accept = op[t].accept
        /\ \A u \in Tabs : u # t => op'[u] = op[u]
    BY <1>1, <1>2, KeyType
  <1>4. Calls'
    BY <1>2, <1>3 DEF Calls, Calling
  <1>5. Ticks'
    BY <1>2 DEF Ticks
  <1>6. CASE op[t].kind = "install"
    <2>1. UNCHANGED <<known, file, unsaved>>
      BY <1>6 DEF Connect
    <2>2. Records1'
      BY <1>2, <2>1 DEF Records1, OneInstaller
    <2>3. Connected'
      BY <1>1, <1>2, <1>3, <2>1 DEF Connected, Calling, Connect, MutexFree
    <2> QED
      BY <1>4, <1>5, <2>2, <2>3
  <1>7. CASE op[t].kind # "install"
    <2>1. Remember(home[t], op[t].host, k)
      BY <1>7 DEF Connect
    <2>2. Records1'
      BY <1>1, <1>2, <2>1, RecordsAfter
    <2>3. /\ known'[home[t]][op[t].host] = k
          /\ \A j \in Installers : j # home[t] => known'[j] = known[j]
      BY <1>1, <2>1, RememberKeeps
    <2>4. \A u \in Tabs : home[u] = home[t] => op[u].key = None
      BY DEF Connect, MutexFree
    <2>5. Connected'
      BY <1>1, <1>2, <1>3, <2>3, <2>4 DEF Connected, Calling, Connect
    <2> QED
      BY <1>4, <1>5, <2>2, <2>5
  <1> QED
    BY <1>6, <1>7

LEMMA CompleteStep ==
  ASSUME IInv, NEW t \in Tabs, Complete(t)
  PROVE  Calls' /\ Connected' /\ Ticks' /\ Records1'
  <1> USE DEF IInv, TypeOK
  <1> DEFINE k == op[t].key
  <1>1. /\ op[t].host \in Hosts /\ k \in Keys /\ k \in approved /\ op[t].kind \in Kinds
    BY DEF Complete, Connected, Calls, Calling, Op
  <1>2. /\ op' = [op EXCEPT ![t] = NoOp] /\ UNCHANGED <<home, approved, accepted>>
        /\ page' = [page EXCEPT ![t] = Done(After(page[t], op[t].kind))]
    BY DEF Complete
  <1>3. ~Calling(t)' /\ op'[t].key = None /\ \A u \in Tabs : u # t => op'[u] = op[u]
    BY <1>2 DEF NoOp, Calling
  <1>4. Calls'
    BY <1>2, <1>3 DEF Calls, Calling
  <1>5. Ticks'
    <2>1. /\ page'[t].finger = page[t].finger /\ page'[t].changed = page[t].changed
          /\ page'[t].trust = page[t].trust
          /\ \A u \in Tabs : u # t => page'[u] = page[u]
      BY <1>1, <1>2, PageType, AfterType
    <2> QED
      BY <1>2, <2>1, TicksKept
  <1>6. CASE op[t].kind = "install"
    <2>1. Remember(home[t], op[t].host, k)
      BY <1>6 DEF Complete
    <2>2. Records1'
      BY <1>1, <1>2, <2>1, RecordsAfter
    <2>3. \A j \in Installers : j # home[t] => known'[j] = known[j]
      BY <1>1, <2>1, RememberKeeps
    <2>4. \A u \in Tabs : u # t /\ op[u].key # None => home[u] # home[t]
      BY DEF Complete, Connected
    <2>5. Connected'
      BY <1>2, <1>3, <2>3, <2>4 DEF Connected, Calling
    <2> QED
      BY <1>4, <1>5, <2>2, <2>5
  <1>7. CASE op[t].kind # "install"
    <2>1. UNCHANGED <<known, file, unsaved>>
      BY <1>7 DEF Complete
    <2>2. Records1'
      BY <1>2, <2>1 DEF Records1, OneInstaller
    <2>3. Connected'
      BY <1>2, <1>3, <2>1 DEF Connected, Calling
    <2> QED
      BY <1>4, <1>5, <2>2, <2>3
  <1> QED
    BY <1>6, <1>7

\* The next start has the record of the file.
LEMMA RestartStep ==
  ASSUME IInv, NEW i \in Installers, Restart(i)
  PROVE  Calls' /\ Connected' /\ Ticks' /\ Records1'
  <1> USE DEF IInv, TypeOK
  <1>1. /\ known' = [known EXCEPT ![i] = file]
        /\ UNCHANGED <<home, file, approved, accepted, unsaved>>
        /\ op' = [t \in Tabs |-> IF home[t] = i THEN NoOp ELSE op[t]]
        /\ page' = [t \in Tabs |-> IF home[t] = i THEN Fresh ELSE page[t]]
    BY DEF Restart, CutOff, Mine
  <1>2. \A t \in Tabs : home[t] = i => ~Calling(t)' /\ op'[t].key = None /\ ~page'[t].trust
    BY <1>1 DEF NoOp, Calling, Fresh
  <1>3. Calls'
    BY <1>1, <1>2 DEF Calls, Calling
  <1>4. Connected'
    BY <1>1, <1>2 DEF Connected, Calling
  <1>5. Ticks'
    BY <1>1, <1>2 DEF Ticks
  <1>6. Records1'
    BY <1>1 DEF Records1, OneInstaller
  <1> QED
    BY <1>3, <1>4, <1>5, <1>6

LEMMA InvariantStep == IInv /\ [Next]_vars => IInv'
  <1> SUFFICES ASSUME IInv, [Next]_vars PROVE IInv'
    OBVIOUS
  <1>0. TypeOK'
    BY TypeStep DEF IInv
  <1> SUFFICES Calls' /\ Connected' /\ Ticks' /\ Records1'
    BY <1>0 DEF IInv
  <1> USE DEF IInv
  <1>1. CASE UNCHANGED vars
    BY <1>0, <1>1, QuietStep, TicksKept DEF vars, history, TypeOK
  <1>2. ASSUME NEW k \in Keys, Reboot(k) PROVE Calls' /\ Connected' /\ Ticks' /\ Records1'
    BY <1>0, <1>2, QuietStep, TicksKept DEF Reboot, history, TypeOK
  <1>3. ASSUME NEW i \in Installers, Restart(i)
        PROVE Calls' /\ Connected' /\ Ticks' /\ Records1'
    BY <1>3, RestartStep
  <1>4. ASSUME NEW t \in Tabs, NEW k \in Keys, Preflight(t, k)
        PROVE Calls' /\ Connected' /\ Ticks' /\ Records1'
    BY <1>0, <1>4, QuietStep, TicksKept DEF Preflight, history, TypeOK
  <1>5. ASSUME NEW t \in Tabs, Found(t) PROVE Calls' /\ Connected' /\ Ticks' /\ Records1'
    <2>1. \A u \in Tabs : page'[u] = page[u] \/ ~page'[u].trust
      BY <1>5 DEF Found, TypeOK
    <2> QED
      BY <1>0, <1>5, <2>1, QuietStep, TicksKept DEF Found, TypeOK
  <1>6. ASSUME NEW t \in Tabs, NotFound(t) PROVE Calls' /\ Connected' /\ Ticks' /\ Records1'
    BY <1>0, <1>6, QuietStep, TicksKept, PageType DEF NotFound, history, TypeOK
  <1>7. ASSUME NEW t \in Tabs, Connect(t) PROVE Calls' /\ Connected' /\ Ticks' /\ Records1'
    BY <1>7, ConnectStep
  <1>8. ASSUME NEW t \in Tabs, Refused(t) PROVE Calls' /\ Connected' /\ Ticks' /\ Records1'
    BY <1>0, <1>8, QuietStep, TicksKept, PageType DEF Refused, history, TypeOK
  <1>9. ASSUME NEW t \in Tabs, Complete(t) PROVE Calls' /\ Connected' /\ Ticks' /\ Records1'
    BY <1>9, CompleteStep
  <1>10. ASSUME NEW t \in Tabs, Fail(t) PROVE Calls' /\ Connected' /\ Ticks' /\ Records1'
    BY <1>0, <1>10, QuietStep, TicksKept, PageType DEF Fail, TypeOK
  <1>11. ASSUME NEW t \in Tabs, NEW h \in Hosts, Find(t, h)
         PROVE Calls' /\ Connected' /\ Ticks' /\ Records1'
    BY <1>0, <1>11, QuietStep, TicksKept, PageType DEF Find, history, TypeOK
  <1>12. ASSUME NEW t \in Tabs, NEW yes \in BOOLEAN, Tick(t, yes)
         PROVE Calls' /\ Connected' /\ Ticks' /\ Records1'
    <2>1. /\ page' = [page EXCEPT ![t] = [page[t] EXCEPT !.trust = yes, !.live = TRUE]]
          /\ UNCHANGED <<home, known, file, op, unsaved>>
      BY <1>12 DEF Tick
    <2>2. approved \subseteq approved' /\ accepted \subseteq accepted'
      BY <1>12 DEF Tick
    <2>3. Calls' /\ Connected' /\ Records1'
      BY <1>0, <2>1, <2>2, QuietStep DEF TypeOK
    <2>4. /\ page'[t].finger = page[t].finger /\ page'[t].changed = page[t].changed
          /\ page'[t].trust = yes /\ \A u \in Tabs : u # t => page'[u] = page[u]
      BY <2>1, TickType DEF TypeOK
    <2>5. yes => /\ page[t].finger \in approved'
                 /\ page[t].changed => page[t].finger \in accepted'
      BY <1>12 DEF Tick
    <2>6. Ticks'
      BY <2>2, <2>4, <2>5 DEF Ticks
    <2> QED
      BY <2>3, <2>6
  <1>13. ASSUME NEW t \in Tabs, NEW kind \in Kinds, NEW h \in Hosts, Click(t, kind, h)
         PROVE Calls' /\ Connected' /\ Ticks' /\ Records1'
    <2>1. /\ UNCHANGED <<home, known, file, approved, accepted, unsaved>>
          /\ ~Calling(t) /\ page[t].trust
          /\ op' = [op EXCEPT ![t] =
               [kind |-> kind, host |-> h, finger |-> page[t].finger,
                accept |-> page[t].changed /\ page[t].trust, key |-> None]]
          /\ page' = [page EXCEPT ![t] = Busy(page[t])]
      BY <1>13 DEF Click, Offered, history
    <2>2. /\ op'[t].host = h /\ op'[t].finger = page[t].finger /\ op'[t].key = None
          /\ op'[t].accept => page[t].changed
          /\ \A u \in Tabs : u # t => op'[u] = op[u]
      BY <2>1 DEF TypeOK
    <2>3. Calls'
      BY <2>1, <2>2 DEF Calls, Calling, Ticks
    <2>4. Connected'
      BY <2>1, <2>2 DEF Connected, Calling
    <2>5. Ticks'
      BY <2>1, TicksKept, PageType DEF TypeOK
    <2>6. Records1'
      BY <2>1 DEF Records1, OneInstaller
    <2> QED
      BY <2>3, <2>4, <2>5, <2>6
  <1> QED
    BY <1>1, <1>2, <1>3, <1>4, <1>5, <1>6, <1>7, <1>8, <1>9, <1>10, <1>11, <1>12,
       <1>13 DEF Next

THEOREM Invariance == Spec => []IInv
  BY InitIInv, InvariantStep, PTL DEF Spec

-----------------------------------------------------------------------------
\* The installer's calls are well formed, for any number of tablets and tabs.
THEOREM TabletTypes == Spec => []TypeOK
  BY Invariance, PTL DEF IInv

\* No command runs on a tablet whose key its owner has not ticked.
THEOREM ApprovedOnly == Spec => []OnlyApprovedTablets
  <1>1. IInv => OnlyApprovedTablets
    BY DEF IInv, Connected, OnlyApprovedTablets
  <1> QED
    BY <1>1, Invariance, PTL

\* What a call records is new, the same, or accepted.
LEMMA GivesWay ==
  ASSUME IInv, NEW t \in Tabs, NEW h \in Hosts, NEW k \in Keys,
         Remember(home[t], h, k), UNCHANGED accepted,
         known[home[t]][h] \in {None, k} \/ k \in accepted
  PROVE  /\ \A i \in Installers : KeyGivesWay(known[i], known'[i])
         /\ OneInstaller /\ ~unsaved => KeyGivesWay(file, file')
  <1> USE DEF IInv, TypeOK
  <1>1. /\ \A j \in Installers, g \in Hosts :
             known'[j][g] = IF j = home[t] /\ g = h THEN k ELSE known[j][g]
        /\ file' = known'[home[t]] \/ file' = file
    BY RememberKeeps
  <1>2. \A i \in Installers : KeyGivesWay(known[i], known'[i])
    BY <1>1 DEF KeyGivesWay
  <1>3. OneInstaller /\ ~unsaved => known[home[t]] = file
    BY DEF Records1
  <1>4. OneInstaller /\ ~unsaved => KeyGivesWay(file, file')
    BY <1>1, <1>2, <1>3 DEF KeyGivesWay
  <1> QED
    BY <1>2, <1>4

\* A key that has been recorded gives way only on purpose.
LEMMA KeysKept ==
  IInv /\ [Next]_vars =>
    /\ \A i \in Installers : KeyGivesWay(known[i], known'[i]) \/ Restart(i)
    /\ OneInstaller /\ ~unsaved => KeyGivesWay(file, file')
  <1> DEFINE Kept ==
        /\ \A i \in Installers : KeyGivesWay(known[i], known'[i]) \/ Restart(i)
        /\ OneInstaller /\ ~unsaved => KeyGivesWay(file, file')
  <1> SUFFICES ASSUME IInv, [Next]_vars PROVE Kept
    OBVIOUS
  <1> USE DEF IInv
  <1>1. CASE UNCHANGED <<known, file>>
    BY <1>1 DEF KeyGivesWay
  <1>2. ASSUME NEW i \in Installers, Restart(i) PROVE Kept
    BY <1>2 DEF Restart, KeyGivesWay, TypeOK
  <1>3. ASSUME NEW t \in Tabs, Connect(t) PROVE Kept
    <2>1. /\ op[t].host \in Hosts /\ Expected(t) \in Keys
          /\ known[home[t]][op[t].host] \in {None, Expected(t)} \/ Expected(t) \in accepted
      BY <1>3, ExpectedType, ExpectedMayReplace DEF Connect
    <2>2. CASE op[t].kind = "install"
      BY <1>1, <1>3, <2>2 DEF Connect
    <2>3. CASE op[t].kind # "install"
      BY <1>3, <2>1, <2>3, GivesWay DEF Connect
    <2> QED
      BY <2>2, <2>3
  <1>4. ASSUME NEW t \in Tabs, Complete(t) PROVE Kept
    <2>1. /\ op[t].host \in Hosts /\ op[t].key \in Keys
          /\ known[home[t]][op[t].host] \in {None, op[t].key} \/ op[t].key \in accepted
      BY <1>4 DEF Complete, Connected, Calls, Calling, Op, TypeOK
    <2>2. CASE op[t].kind = "install"
      BY <1>4, <2>1, <2>2, GivesWay DEF Complete
    <2>3. CASE op[t].kind # "install"
      BY <1>1, <1>4, <2>3 DEF Complete
    <2> QED
      BY <2>2, <2>3
  <1> QED
    BY <1>1, <1>2, <1>3, <1>4 DEF Next, vars, Reboot, Preflight, Found, NotFound, Refused,
       Fail, Find, Tick, Click

\* The record of a running installer, for any number of installers.
THEOREM KeysGiveWayOnPurpose ==
  Spec => [][\A i \in Installers : KeyGivesWay(known[i], known'[i]) \/ Restart(i)]_vars
  BY Invariance, KeysKept, PTL DEF Spec

\* The record in the file, while one installer is open and can write it.
THEOREM RecordsSurvive == Spec => RecordSurvives
  BY Invariance, KeysKept, PTL DEF Spec, RecordSurvives

-----------------------------------------------------------------------------
(* Trust on first use. *)

LEMMA CommandType ==
  ASSUME IInv, NEW t \in Tabs, op[t].key # None
  PROVE  /\ CommandOf(t) \in Trust!Work
         /\ CommandOf(t).by = home[t] /\ CommandOf(t).at = op[t].host
         /\ CommandOf(t).on = op[t].key
  <1>1. home[t] \in Installers /\ op[t].host \in Hosts /\ op[t].key \in Keys
    BY DEF IInv, TypeOK, Connected, Calls, Op
  <1> QED
    BY <1>1 DEF CommandOf, Trust!Work

LEMMA SameCommands ==
  ASSUME UNCHANGED home,
         \A t \in Tabs : op'[t].key = op[t].key,
         \A t \in Tabs : op[t].key # None => op'[t].host = op[t].host
  PROVE  Commands' = Commands
  <1>1. \A t \in Tabs : op[t].key # None => CommandOf(t)' = CommandOf(t)
    BY DEF CommandOf
  <1> QED
    BY <1>1 DEF Commands

\* A call that ends was the only one of its installer.
LEMMA CommandEnds ==
  ASSUME IInv, NEW t \in Tabs, op[t].key # None,
         op' = [op EXCEPT ![t] = NoOp], UNCHANGED home
  PROVE  CommandOf(t) \in Commands /\ Commands' = Commands \ {CommandOf(t)}
  <1>1. /\ op'[t].key = None
        /\ \A u \in Tabs : u # t => op'[u] = op[u]
    BY DEF NoOp, IInv, TypeOK
  <1>2. \A u \in Tabs : op'[u].key # None <=> u # t /\ op[u].key # None
    BY <1>1
  <1>3. \A u \in Tabs : u # t => CommandOf(u)' = CommandOf(u)
    BY <1>1 DEF CommandOf
  <1>4. \A u \in Tabs : u # t /\ op[u].key # None => CommandOf(u) # CommandOf(t)
    <2> SUFFICES ASSUME NEW u \in Tabs, u # t, op[u].key # None
                 PROVE  CommandOf(u) # CommandOf(t)
      OBVIOUS
    <2>1. home[u] # home[t]
      BY DEF IInv, Connected
    <2> QED
      BY <2>1, CommandType
  <1> QED
    BY <1>2, <1>3, <1>4 DEF Commands

LEMMA CommandBegins ==
  ASSUME IInv, NEW t \in Tabs, op[t].key = None, NEW k \in Keys,
         op' = [op EXCEPT ![t].key = k], UNCHANGED home
  PROVE  Commands' = Commands \cup {[by |-> home[t], at |-> op[t].host, on |-> k]}
  <1>1. /\ op'[t].key = k /\ op'[t].host = op[t].host
        /\ \A u \in Tabs : u # t => op'[u] = op[u]
    BY KeyType DEF IInv, TypeOK
  <1>2. \A u \in Tabs : op'[u].key # None <=> u = t \/ op[u].key # None
    BY <1>1, TabletsAssumption
  <1>3. /\ CommandOf(t)' = [by |-> home[t], at |-> op[t].host, on |-> k]
        /\ \A u \in Tabs : u # t => CommandOf(u)' = CommandOf(u)
    BY <1>1 DEF CommandOf
  <1> QED
    BY <1>2, <1>3 DEF Commands

\* Recording a key is a Note of the promise.
LEMMA RememberNotes ==
  ASSUME IInv, NEW w \in Trust!Work, Remember(w.by, w.at, w.on)
  PROVE  Trust!Note(w)
  BY DEF Remember, Trust!Note

LEMMA TrustInit == Init => Trust!TInit
  <1> SUFFICES ASSUME Init PROVE Trust!TInit
    OBVIOUS
  <1>1. file \in [Hosts -> Keys \cup {None}]
    BY TabletsAssumption DEF Init, Record
  <1>2. Commands = {}
    BY DEF Init, Commands, NoOp
  <1> QED
    BY <1>1, <1>2 DEF Init, Trust!TInit, Recorded

LEMMA TrustStep == IInv /\ [Next]_vars => [Trust!TNext]_(Trust!tvars)
  <1> SUFFICES ASSUME IInv, [Next]_vars PROVE [Trust!TNext]_(Trust!tvars)
    OBVIOUS
  <1> USE DEF history
  <1>1. ASSUME UNCHANGED <<known, file, approved, accepted>>, Commands' = Commands
        PROVE  [Trust!TNext]_(Trust!tvars)
    BY <1>1 DEF Trust!tvars
  <1>2. CASE UNCHANGED <<home, op, known, file, approved, accepted>>
    BY <1>1, <1>2, SameCommands
  <1>3. ASSUME NEW t \in Tabs, NEW yes \in BOOLEAN, Tick(t, yes)
        PROVE  [Trust!TNext]_(Trust!tvars)
    <2>1. Commands' = Commands
      BY <1>3, SameCommands DEF Tick
    <2>2. CASE yes
      <3>1. page[t].finger \in Keys
        BY <1>3 DEF Tick, IInv, TypeOK, Page
      <3>2. Trust!Trust(page[t].finger)
        BY <1>3, <2>1, <2>2 DEF Tick, Trust!Trust
      <3> QED
        BY <3>1, <3>2 DEF Trust!TNext
    <2>3. CASE ~yes
      BY <1>1, <1>3, <2>1, <2>3 DEF Tick
    <2> QED
      BY <2>2, <2>3
  <1>4. ASSUME NEW t \in Tabs, NEW kind \in Kinds, NEW h \in Hosts, Click(t, kind, h)
        PROVE  [Trust!TNext]_(Trust!tvars)
    <2>1. op[t].key = None
      BY <1>4 DEF Click, IInv, Connected
    <2>2. /\ \A u \in Tabs : u # t => op'[u] = op[u]
          /\ op'[t].key = None
      BY <1>4 DEF Click, IInv, TypeOK
    <2>3. Commands' = Commands
      BY <1>4, <2>1, <2>2, SameCommands DEF Click
    <2> QED
      BY <1>1, <1>4, <2>3 DEF Click
  <1>5. ASSUME NEW t \in Tabs, Connect(t) PROVE [Trust!TNext]_(Trust!tvars)
    <2> DEFINE w == [by |-> home[t], at |-> op[t].host, on |-> Expected(t)]
    <2>1. /\ home[t] \in Installers /\ op[t].host \in Hosts /\ Expected(t) \in Keys
          /\ Expected(t) \in approved
          /\ known[home[t]][op[t].host] \in {None, Expected(t)} \/ Expected(t) \in accepted
      BY <1>5, ExpectedType, ExpectedMayReplace DEF Connect, IInv, TypeOK
    <2>2. w \in Trust!Work /\ w.by = home[t] /\ w.at = op[t].host /\ w.on = Expected(t)
      BY <2>1 DEF Trust!Work
    <2>3. Commands' = Commands \cup {w}
      BY <1>5, <2>1, CommandBegins DEF Connect
    <2>4. \A v \in Commands : v.by # home[t]
      <3>1. \A u \in Tabs : op[u].key # None => home[u] # home[t]
        BY <1>5 DEF Connect, MutexFree
      <3> QED
        BY <3>1, CommandType DEF Commands
    <2>5. Trust!Noted(w)
      <3>1. CASE op[t].kind = "install"
        BY <1>5, <3>1 DEF Connect, Trust!Noted
      <3>2. CASE op[t].kind # "install"
        BY <1>5, <2>2, <3>2, RememberNotes DEF Connect, Trust!Noted
      <3> QED
        BY <3>1, <3>2
    <2>6. UNCHANGED <<approved, accepted>>
      BY <1>5 DEF Connect
    <2> HIDE DEF w
    <2>7. Trust!Begin(w)
      BY <2>1, <2>2, <2>3, <2>4, <2>5, <2>6 DEF Trust!Begin
    <2> QED
      BY <2>2, <2>7 DEF Trust!TNext
  <1>6. ASSUME NEW t \in Tabs, Refused(t) PROVE [Trust!TNext]_(Trust!tvars)
    <2>1. /\ op[t].key = None /\ op'[t].key = None
          /\ \A u \in Tabs : u # t => op'[u] = op[u]
      BY <1>6 DEF Refused, NoOp, IInv, TypeOK
    <2>2. Commands' = Commands
      BY <1>6, <2>1, SameCommands DEF Refused
    <2> QED
      BY <1>1, <1>6, <2>2 DEF Refused
  <1>7. ASSUME NEW t \in Tabs, Complete(t) \/ Fail(t) PROVE [Trust!TNext]_(Trust!tvars)
    <2> DEFINE w == CommandOf(t)
    <2>1. op[t].key # None /\ op' = [op EXCEPT ![t] = NoOp] /\ UNCHANGED <<home, approved, accepted>>
      BY <1>7 DEF Complete, Fail
    <2>2. /\ w \in Trust!Work
          /\ w.by = home[t] /\ w.at = op[t].host /\ w.on = op[t].key
      BY <2>1, CommandType
    <2>3. w \in Commands /\ Commands' = Commands \ {w}
      BY <2>1, CommandEnds
    <2>4. Trust!Noted(w)
      <3>1. CASE Complete(t) /\ op[t].kind = "install"
        BY <2>2, <3>1, RememberNotes DEF Complete, Trust!Noted
      <3>2. CASE Fail(t) \/ op[t].kind # "install"
        BY <1>7, <3>2 DEF Complete, Fail, Trust!Noted
      <3> QED
        BY <1>7, <3>1, <3>2
    <2> HIDE DEF w
    <2>5. Trust!End(w)
      BY <2>1, <2>3, <2>4 DEF Trust!End
    <2> QED
      BY <2>2, <2>5 DEF Trust!TNext
  <1>8. ASSUME NEW i \in Installers, Restart(i) PROVE [Trust!TNext]_(Trust!tvars)
    <2>1. /\ UNCHANGED <<home, file, approved, accepted>>
          /\ known' = [known EXCEPT ![i] = file]
          /\ \A u \in Tabs : op'[u] = IF home[u] = i THEN NoOp ELSE op[u]
      BY <1>8 DEF Restart, CutOff, Mine
    <2>2. NoOp.key = None
      BY DEF NoOp
    <2>3. \A u \in Tabs : op'[u].key # None <=> home[u] # i /\ op[u].key # None
      BY <2>1, <2>2
    <2>4. \A u \in Tabs : home[u] # i => CommandOf(u)' = CommandOf(u)
      BY <2>1 DEF CommandOf
    <2>5. \A u \in Tabs : op[u].key # None => CommandOf(u).by = home[u]
      BY CommandType
    <2>6. Commands' = {w \in Commands : w.by # i}
      BY <2>3, <2>4, <2>5 DEF Commands
    <2>7. Trust!Reload(i)
      BY <2>1, <2>6 DEF Trust!Reload
    <2> QED
      BY <2>7 DEF Trust!TNext
  <1> QED
    BY <1>2, <1>3, <1>4, <1>5, <1>6, <1>7, <1>8 DEF Next, vars, Reboot, Preflight, Found,
       NotFound, Find

\* The installers implement trust on first use, for any number of installers, tabs,
\* addresses and tablets, which may change places at any time.
THEOREM TrustIsKept == Spec => KeepsTrust
  BY Invariance, TrustInit, TrustStep, PTL DEF Spec, KeepsTrust, Trust!TSpec

-----------------------------------------------------------------------------
(* The page against the tablet it shows. *)

Fits(p, s) ==
  /\ p.installed => s.bundle # "none"
  /\ s.bundle = "there" => p.installed
  /\ s.active => p.active

\* Enabling buttons and ticking says nothing of the tablet.
LEMMA ButtonsOnly ==
  ASSUME NEW p \in Page, NEW yes \in BOOLEAN
  PROVE  \A q \in {Busy(p), Done(p), [p EXCEPT !.trust = yes, !.live = TRUE]} :
           q.finger = p.finger /\ q.installed = p.installed /\ q.active = p.active
  BY DEF Page, Busy, Done

\* What a handler makes of success fits what the command made of the tablet.
LEMMA AfterFits ==
  ASSUME TypeOK, NEW p \in Page, NEW k \in Keys, NEW kind \in Kinds,
         Fits(p, tablet[k]), NEW s \in Results(kind, k)
  PROVE  Fits(Done(After(p, kind)), s)
  <1>1. tablet[k] \in Tablet
    BY DEF TypeOK
  <1>2. CASE kind = "install"
    <2>1. s.bundle = "there"
      BY <1>2 DEF Results
    <2> QED
      BY <1>2, <2>1 DEF After, Done, Fits, Page
  <1>3. CASE kind = "reactivate"
    BY <1>1, <1>3 DEF Results, After, Done, Fits, Page, Tablet
  <1>4. CASE kind = "recover"
    <2>1. s = [bundle |-> "parked", active |-> FALSE]
      BY <1>4 DEF Results
    <2> QED
      BY <1>4, <2>1 DEF After, Done, Fits, Page
  <1>5. CASE kind = "uninstall"
    <2>1. s = [bundle |-> "none", active |-> FALSE]
      BY <1>5 DEF Results
    <2>2. ~After(p, kind).installed /\ After(p, kind) \in Page
      BY <1>5, AfterType DEF After, Page
    <2> QED
      BY <2>1, <2>2 DEF Done, Fits, Page
  <1> QED
    BY <1>2, <1>3, <1>4, <1>5 DEF Kinds

Fitting == \A t \in Tabs : page[t].finger # None /\ t \notin unsure =>
             Fits(page[t], tablet[page[t].finger])

\* A tablet changes under the tabs that show it only if they are unsure of it, or
\* show no tablet, afterwards.
LEMMA FitsElsewhere ==
  ASSUME TypeOK, Fitting, NEW u \in Tabs, NEW k \in Keys, NEW s,
         tablet' = tablet \/ tablet' = [tablet EXCEPT ![k] = s],
         page'[u] = page[u], page[u].finger # k \/ u \in unsure',
         u \in unsure => u \in unsure',
         page'[u].finger # None, u \notin unsure'
  PROVE  Fits(page'[u], tablet'[page'[u].finger])
  <1>1. page[u].finger \in Keys
    BY DEF TypeOK, Page
  <1>2. tablet'[page[u].finger] = tablet[page[u].finger]
    BY <1>1 DEF TypeOK
  <1> QED
    BY <1>2 DEF Fitting

LEMMA FittingStep == IInv /\ Fitting /\ [Next]_vars => Fitting'
  <1> SUFFICES ASSUME IInv, Fitting, [Next]_vars PROVE Fitting'
    OBVIOUS
  <1> USE DEF history
  <1>0. TypeOK /\ \A t \in Tabs : op[t].key # None => op[t].key \in Keys /\ op[t].kind \in Kinds
    BY DEF IInv, TypeOK, Connected, Calling, Op
  <1>1. CASE UNCHANGED <<tablet, page, unsure>>
    BY <1>1 DEF Fitting
  <1>2. ASSUME NEW k \in Keys, Reboot(k) PROVE Fitting'
    <2> SUFFICES ASSUME NEW u \in Tabs, page[u].finger # None, u \notin unsure
                 PROVE  Fits(page[u], tablet'[page[u].finger])
      BY <1>2 DEF Reboot, Fitting
    <2>1. /\ Fits(page[u], tablet[page[u].finger]) /\ page[u].finger \in Keys
          /\ tablet[page[u].finger] \in Tablet
      BY <1>0 DEF Fitting, TypeOK, Page
    <2>2. tablet' = [tablet EXCEPT ![k].active = FALSE]
      BY <1>2 DEF Reboot
    <2> QED
      BY <1>0, <2>1, <2>2 DEF Fits, TypeOK, Tablet
  <1>3. ASSUME NEW t \in Tabs, NEW yes \in BOOLEAN,
               NEW q \in {Busy(page[t]), Done(page[t]),
                          [page[t] EXCEPT !.trust = yes, !.live = TRUE]},
               page' = [page EXCEPT ![t] = q], UNCHANGED tablet,
               unsure' = unsure
        PROVE  Fitting'
    <2>1. q.finger = page[t].finger /\ q.installed = page[t].installed /\ q.active = page[t].active
      <3>1. page[t] \in Page
        BY <1>0 DEF TypeOK
      <3> QED
        BY <1>3, <3>1, ButtonsOnly
    <2>2. \A u \in Tabs : page'[u] = IF u = t THEN q ELSE page[u]
      BY <1>0, <1>3 DEF TypeOK
    <2> QED
      BY <1>3, <2>1, <2>2 DEF Fitting, Fits
  <1>4. ASSUME NEW t \in Tabs, Found(t) PROVE Fitting'
    <2> DEFINE found == search[t]
    <2>1. found.key \in Keys /\ found.seen \in Tablet
      BY <1>0, <1>4 DEF Found, TypeOK, Search
    <2>2. /\ \A u \in Tabs : u # t => page'[u] = page[u]
          /\ page'[t].finger = found.key
          /\ page'[t].installed = (found.seen.bundle = "there")
          /\ page'[t].active = found.seen.active
          /\ tablet' = tablet
          /\ \A u \in Tabs : u # t => (u \in unsure' <=> u \in unsure)
      BY <1>0, <1>4 DEF Found, TypeOK
    <2>3. t \notin unsure' => found.seen = tablet[found.key]
      BY <1>4 DEF Found
    <2>4. t \notin unsure' => Fits(page'[t], tablet'[page'[t].finger])
      BY <2>1, <2>2, <2>3 DEF Fits, Tablet
    <2> QED
      BY <2>2, <2>4 DEF Fitting
  <1>5. ASSUME NEW t \in Tabs, Complete(t) PROVE Fitting'
    <2> DEFINE k == op[t].key
               kind == op[t].kind
    <2>1. k \in Keys /\ kind \in Kinds /\ page[t] \in Page
      BY <1>0, <1>5 DEF Complete, TypeOK
    <2>2. PICK s \in Results(kind, k) : tablet' = [tablet EXCEPT ![k] = s]
      BY <1>5 DEF Complete
    <2>3. /\ page'[t] = Done(After(page[t], kind))
          /\ \A u \in Tabs : u # t => page'[u] = page[u]
          /\ unsure' = unsure \cup (Showing(k) \ {t}) \cup ({t} \ Showing(k))
      BY <1>0, <1>5 DEF Complete, TypeOK
    <2>4. page'[t].finger = page[t].finger
      BY <2>1, <2>3, AfterType, PageType
    <2>5. ASSUME page'[t].finger # None, t \notin unsure'
          PROVE  Fits(page'[t], tablet'[page'[t].finger])
      <3>1. page[t].finger = k /\ t \notin unsure
        BY <2>3, <2>5 DEF Showing
      <3>2. Fits(page[t], tablet[k])
        BY <2>4, <2>5, <3>1 DEF Fitting
      <3>3. tablet'[k] = s
        BY <1>0, <2>1, <2>2 DEF TypeOK
      <3> QED
        BY <1>0, <2>1, <2>3, <2>4, <3>1, <3>2, <3>3, AfterFits
    <2>6. ASSUME NEW u \in Tabs, u # t, page'[u].finger # None, u \notin unsure'
          PROVE  Fits(page'[u], tablet'[page'[u].finger])
      <3>1. page[u].finger # k \/ u \in unsure'
        BY <2>3, <2>6 DEF Showing
      <3> QED
        BY <1>0, <2>1, <2>2, <2>3, <2>6, <3>1, FitsElsewhere
    <2> QED
      BY <2>5, <2>6 DEF Fitting
  <1>6. ASSUME NEW t \in Tabs, Fail(t) PROVE Fitting'
    <2> DEFINE k == op[t].key
    <2>1. k \in Keys /\ page[t] \in Page
      BY <1>0, <1>6 DEF Fail, TypeOK
    <2>2. PICK s : tablet' = [tablet EXCEPT ![k] = s]
      BY <1>6 DEF Fail
    <2>3. /\ page'[t] = Done(page[t])
          /\ \A u \in Tabs : u # t => page'[u] = page[u]
          /\ unsure' = unsure \cup Showing(k)
      BY <1>0, <1>6 DEF Fail, TypeOK
    <2>4. /\ page'[t].finger = page[t].finger
          /\ page'[t].installed = page[t].installed /\ page'[t].active = page[t].active
      BY <2>1, <2>3, ButtonsOnly
    <2> SUFFICES ASSUME NEW u \in Tabs, page'[u].finger # None, u \notin unsure'
                 PROVE  Fits(page'[u], tablet'[page'[u].finger])
      BY DEF Fitting
    <2>5. page[u].finger = page'[u].finger /\ page[u].finger # k /\ u \notin unsure
      BY <2>3, <2>4 DEF Showing
    <2>6. page[u].finger \in Keys /\ Fits(page[u], tablet[page[u].finger])
      BY <1>0, <2>5 DEF Fitting, TypeOK, Page
    <2>7. tablet'[page[u].finger] = tablet[page[u].finger]
      BY <1>0, <2>2, <2>5, <2>6 DEF TypeOK
    <2> QED
      BY <2>3, <2>4, <2>5, <2>6, <2>7 DEF Fits
  <1>7. ASSUME NEW i \in Installers, Restart(i) PROVE Fitting'
    <2> DEFINE cut == {t \in Mine(i) : op[t].key # None}
    <2>1. /\ page' = [t \in Tabs |-> IF t \in Mine(i) THEN Fresh ELSE page[t]]
          /\ unsure' = (unsure \ Mine(i)) \cup UNION {Showing(op[t].key) : t \in cut}
          /\ \/ UNCHANGED tablet
             \/ \E t \in cut : \E s : tablet' = [tablet EXCEPT ![op[t].key] = s]
      BY <1>7 DEF Restart, CutOff
    <2> SUFFICES ASSUME NEW u \in Tabs, page'[u].finger # None, u \notin unsure'
                 PROVE  Fits(page'[u], tablet'[page'[u].finger])
      BY DEF Fitting
    <2>2. u \notin Mine(i) /\ page'[u] = page[u] /\ u \notin unsure
      BY <2>1 DEF Fresh
    <2>3. Fits(page[u], tablet[page[u].finger]) /\ page[u].finger \in Keys
      BY <1>0, <2>2 DEF Fitting, TypeOK, Page
    <2>4. ASSUME NEW t \in cut, NEW s, tablet' = [tablet EXCEPT ![op[t].key] = s]
          PROVE  tablet'[page[u].finger] = tablet[page[u].finger]
      <3>1. page[u].finger # op[t].key
        BY <2>1 DEF Showing
      <3> QED
        BY <1>0, <2>3, <2>4, <3>1 DEF TypeOK
    <2> QED
      BY <2>1, <2>2, <2>3, <2>4
  <1>8. ASSUME NEW t \in Tabs, NEW yes \in BOOLEAN,
               \/ \E h \in Hosts : Find(t, h) \/ \E kind \in Kinds : Click(t, kind, h)
               \/ NotFound(t) \/ Refused(t) \/ Tick(t, yes)
        PROVE  Fitting'
    <2>1. /\ UNCHANGED <<tablet, unsure>>
          /\ \E q \in {Busy(page[t]), Done(page[t]),
                       [page[t] EXCEPT !.trust = yes, !.live = TRUE]} :
               page' = [page EXCEPT ![t] = q]
      BY <1>8 DEF Find, Click, NotFound, Refused, Tick
    <2> QED
      BY <1>3, <2>1
  <1> QED
    BY <1>1, <1>2, <1>4, <1>5, <1>6, <1>7, <1>8
    DEF Next, vars, Preflight, Connect

\* The buttons are those for the tablet shown, for any number of tabs and tablets.
THEOREM PagesFit == Spec => []PageFitsTablet
  <1>1. Init => Fitting
    BY DEF Init, Fitting, Fresh
  <1>2. Fitting => PageFitsTablet
    BY DEF Fitting, Fits, PageFitsTablet
  <1> QED
    BY <1>1, <1>2, Invariance, FittingStep, PTL DEF Spec
=============================================================================
