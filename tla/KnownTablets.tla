---------------------------- MODULE KnownTablets ----------------------------
(***************************************************************************)
(* The installer: its page (web/index.html), its server (main.go), and the *)
(* record of tablets (knownhosts.go).  The owner finds a tablet, ticks the *)
(* key it shows, and has commands run on it, from one or two open tabs of  *)
(* one or two installers.  A tablet is named by its SSH host key: one that *)
(* is reset has a new key, and is another tablet.  At any time any tablet  *)
(* may be the one at an address, which the owner types anew for a click.   *)
(***************************************************************************)
EXTENDS Integers

CONSTANTS
  Hosts, Keys,
  Supported,   \* the tablets inspectDevice calls compatible
  Tabs,
  Installers,
  Records,     \* records that earlier runs may have left
  MaxActs,     \* bound: clicks on Find and on the buttons of commands
  None

Kinds == {"install", "reactivate", "recover", "uninstall"}  \* purge is as uninstall
Tablet == [bundle : {"none", "there", "parked"}, active : BOOLEAN]
Record == [Hosts -> Keys \cup {None}]

\* find and live: the Find button, and the others, are enabled.
Page == [finger : Keys \cup {None}, changed : BOOLEAN, trust : BOOLEAN,
         installed : BOOLEAN, active : BOOLEAN, find : BOOLEAN, live : BOOLEAN]
\* key: the key the tablet at the host had; None before the connection.
Search == [host : Hosts \cup {None}, key : {None}, seen : {None}]
            \cup [host : Hosts, key : Keys, seen : Tablet]
Op == [kind : Kinds \cup {"none"}, host : Hosts \cup {None}, finger : Keys \cup {None},
       accept : BOOLEAN, key : Keys \cup {None}]

ASSUME TabletsAssumption ==
  /\ Supported \subseteq Keys
  /\ Records \subseteq Record
  /\ MaxActs \in Nat
  /\ None \notin Hosts \cup Keys \cup Tablet

VARIABLES
  tablet,    \* per key: TRMNL's bundle, and whether XOVI is injected
  home,      \* the installer that serves a tab
  known,     \* per installer: knownHosts.Hosts
  file,      \* known-tablets.json
  page,      \* per tab: the script's variables, the tick and the buttons
  search,    \* per tab: Find under way
  op,        \* per tab: another call under way
  acts,      \* the clicks so far
  \* history
  approved,  \* keys the owner has ticked
  accepted,  \* those ticked when the page said that the key had changed; the tick goes
             \* to whatever address is typed by the time of a click
  unsaved,   \* a record could not be written
  unsure     \* tabs whose tablet was changed by anything but their own calls

history == <<approved, accepted, unsaved, unsure>>
vars == <<tablet, home, known, file, page, search, op, acts, history>>

Fresh == [finger |-> None, changed |-> FALSE, trust |-> FALSE, installed |-> FALSE,
          active |-> FALSE, find |-> TRUE, live |-> FALSE]
NoSearch == [host |-> None, key |-> None, seen |-> None]
NoOp == [kind |-> "none", host |-> None, finger |-> None, accept |-> FALSE, key |-> None]

Searching(t) == search[t].host # None
Calling(t) == op[t].kind # "none"

TypeOK ==
  /\ tablet \in [Keys -> Tablet]
  /\ home \in [Tabs -> Installers]
  /\ known \in [Installers -> Record]
  /\ file \in Record
  /\ page \in [Tabs -> Page]
  /\ search \in [Tabs -> Search]
  /\ op \in [Tabs -> Op]
  /\ acts \in 0 .. MaxActs
  /\ approved \subseteq Keys /\ accepted \subseteq Keys
  /\ unsaved \in BOOLEAN
  /\ unsure \subseteq Tabs

Recorded(record) == {record[h] : h \in Hosts} \ {None}

\* Earlier runs have left a record of tablets they installed TRMNL on.
Init ==
  /\ file \in Records
  /\ known = [i \in Installers |-> file]
  /\ tablet = [k \in Keys |->
       [bundle |-> IF k \in Recorded(file) THEN "there" ELSE "none", active |-> FALSE]]
  /\ home \in [Tabs -> Installers]
  /\ page = [t \in Tabs |-> Fresh]
  /\ search = [t \in Tabs |-> NoSearch]
  /\ op = [t \in Tabs |-> NoOp]
  /\ acts = 0
  /\ approved = Recorded(file) /\ accepted = {}
  /\ unsaved = FALSE
  /\ unsure = {}

-----------------------------------------------------------------------------
\* A reboot ends the injection.
Reboot(k) ==
  /\ tablet' = [tablet EXCEPT ![k].active = FALSE]
  /\ UNCHANGED <<home, known, file, page, search, op, acts, history>>

\* The page's busy() disables the buttons; done() enables Find and lets
\* updateButtons decide about the others.
Busy(p) == [p EXCEPT !.find = FALSE, !.live = FALSE]
Done(p) == [p EXCEPT !.find = TRUE, !.live = TRUE]

Act == acts < MaxActs /\ acts' = acts + 1

\* $('find').onclick
Find(t, h) ==
  /\ page[t].find /\ ~Searching(t)
  /\ search' = [search EXCEPT ![t] = [host |-> h, key |-> None, seen |-> None]]
  /\ page' = [page EXCEPT ![t] = Busy(@)] /\ Act
  /\ UNCHANGED <<tablet, home, known, file, op, history>>

\* Mutant: the answer does not wait for the inspection.
PreflightUninspected(t, k) ==
  /\ Searching(t) /\ search[t].key = None
  /\ search' = [search EXCEPT ![t] = [host |-> @.host, key |-> k, seen |-> @.seen]]
  /\ UNCHANGED <<tablet, home, known, file, page, op, acts, history>>

\* preflight: any key will do for a look at the tablet.
Preflight(t, k) ==
  /\ Searching(t) /\ search[t].key = None
  /\ search' = [search EXCEPT ![t] = [host |-> @.host, key |-> k, seen |-> tablet[k]]]
  /\ UNCHANGED <<tablet, home, known, file, page, op, acts, history>>

\* preflight looks the address up when it has inspected the tablet.
Changed(t) ==
  LET stored == known[home[t]][search[t].host]
  IN stored # None /\ stored # search[t].key

\* The page takes the answer and shows the key, unticked.
Found(t) ==
  LET found == search[t] IN
  /\ found.key # None
  /\ page' = [page EXCEPT ![t] =
       [finger |-> found.key, changed |-> Changed(t), trust |-> FALSE,
        installed |-> found.seen.bundle = "there", active |-> found.seen.active,
        find |-> TRUE, live |-> TRUE]]
  /\ unsure' = IF found.seen = tablet[found.key] THEN unsure \ {t} ELSE unsure \cup {t}
  /\ search' = [search EXCEPT ![t] = NoSearch]
  /\ UNCHANGED <<tablet, home, known, file, op, acts, approved, accepted, unsaved>>

\* No tablet, a wrong password, or no inspection: what the page showed stays.
NotFound(t) ==
  /\ Searching(t)
  /\ search' = [search EXCEPT ![t] = NoSearch]
  /\ page' = [page EXCEPT ![t] = Done(@)]
  /\ UNCHANGED <<tablet, home, known, file, op, acts, history>>

\* $('trust').onchange: the card with the tick is there once a tablet was found.
\* updateButtons enables the buttons even while a call is under way.
Tick(t, yes) ==
  /\ page[t].finger # None
  /\ page' = [page EXCEPT ![t].trust = yes, ![t].live = TRUE]
  /\ approved' = IF yes THEN approved \cup {page[t].finger} ELSE approved
  /\ accepted' = IF yes /\ page[t].changed THEN accepted \cup {page[t].finger} ELSE accepted
  /\ UNCHANGED <<tablet, home, known, file, search, op, acts, unsaved, unsure>>

-----------------------------------------------------------------------------
\* Mutant: the buttons that do not install need no tick.
OfferedUnticked(p, kind) ==
  /\ p.live
  /\ CASE kind = "install" -> p.trust /\ p.finger \in Supported
       [] kind = "reactivate" -> p.installed /\ ~p.active
       [] OTHER -> p.installed

\* updateButtons
Offered(p, kind) ==
  /\ p.live /\ p.trust
  /\ CASE kind = "install" -> p.finger \in Supported
       [] kind = "reactivate" -> p.installed /\ ~p.active
       [] OTHER -> p.installed

\* The handlers of the buttons: creds() goes to the server.
Click(t, kind, h) ==
  /\ ~Calling(t)
  /\ Offered(page[t], kind)
  /\ op' = [op EXCEPT ![t] =
       [kind |-> kind, host |-> h, finger |-> page[t].finger,
        accept |-> page[t].changed /\ page[t].trust, key |-> None]]
  /\ page' = [page EXCEPT ![t] = Busy(@)] /\ Act
  /\ UNCHANGED <<tablet, home, known, file, search, history>>

\* Mutant: the key that the page sends is always enough.
ExpectedAsSent(t) == op[t].finger

\* expectedFingerprint: the record comes first, unless the owner accepts the change.
Expected(t) ==
  LET stored == known[home[t]][op[t].host]
  IN IF op[t].accept \/ stored = None THEN op[t].finger ELSE stored

\* operationMu: one call at a time holds an installer's connection.
MutexFree(t) == \A u \in Tabs : home[u] = home[t] => op[u].key = None

\* Remember in memory, then the file, whole and from this installer's memory.
Remember(i, h, k) ==
  /\ known' = [known EXCEPT ![i][h] = k]
  /\ \/ file' = known'[i] /\ UNCHANGED unsaved
     \/ UNCHANGED file /\ unsaved' = TRUE

\* deviceAction and install as far as the connection; only deviceAction
\* records the key at once.
Connect(t) ==
  /\ Calling(t) /\ op[t].key = None /\ MutexFree(t)
  /\ op' = [op EXCEPT ![t].key = Expected(t)]
  /\ IF op[t].kind = "install" THEN UNCHANGED <<known, file, unsaved>>
     ELSE Remember(home[t], op[t].host, Expected(t))
  /\ UNCHANGED <<tablet, home, page, search, acts, approved, accepted, unsure>>

\* The tablet has another key, or does not answer.
Refused(t) ==
  /\ Calling(t) /\ op[t].key = None /\ MutexFree(t)
  /\ op' = [op EXCEPT ![t] = NoOp]
  /\ page' = [page EXCEPT ![t] = Done(@)]
  /\ UNCHANGED <<tablet, home, known, file, search, acts, history>>

\* What a command that succeeds makes of a tablet.  TRMNL_ACTIVATION_PENDING
\* leaves it installed and not injected.
Results(kind, k) ==
  CASE kind = "install" ->
         IF k \in Supported THEN [bundle : {"there"}, active : BOOLEAN] ELSE {}
    [] kind = "reactivate" ->
         IF tablet[k].bundle = "there" THEN {[tablet[k] EXCEPT !.active = TRUE]} ELSE {}
    [] kind = "recover" ->
         IF tablet[k].bundle = "none" THEN {}
         ELSE {[bundle |-> "parked", active |-> FALSE]}
    [] kind = "uninstall" -> {[bundle |-> "none", active |-> FALSE]}

\* Mutant: a removal leaves the page with an installed TRMNL.
AfterKept(p, kind) ==
  CASE kind = "install" -> [p EXCEPT !.installed = TRUE, !.active = TRUE]
    [] kind = "reactivate" -> [p EXCEPT !.active = TRUE]
    [] OTHER -> [p EXCEPT !.active = FALSE]

\* What the page's handlers make of success.
After(p, kind) ==
  CASE kind = "install" -> [p EXCEPT !.installed = TRUE, !.active = TRUE]
    [] kind = "reactivate" -> [p EXCEPT !.active = TRUE]
    [] kind = "recover" -> [p EXCEPT !.active = FALSE]
    [] kind = "uninstall" -> [p EXCEPT !.installed = FALSE, !.active = FALSE]

Showing(k) == {t \in Tabs : page[t].finger = k}

Complete(t) ==
  LET k == op[t].key IN
  /\ k # None
  /\ \E s \in Results(op[t].kind, k) : tablet' = [tablet EXCEPT ![k] = s]
  /\ IF op[t].kind = "install" THEN Remember(home[t], op[t].host, k)
     ELSE UNCHANGED <<known, file, unsaved>>
  /\ op' = [op EXCEPT ![t] = NoOp]
  /\ page' = [page EXCEPT ![t] = Done(After(@, op[t].kind))]
  /\ unsure' = unsure \cup (Showing(k) \ {t}) \cup ({t} \ Showing(k))
  /\ UNCHANGED <<home, search, acts, approved, accepted>>

\* A command that fails, or times out and is left to itself, may have done its work.
LeftTo(k, kind) == {tablet[k]} \cup Results(kind, k)

Fail(t) ==
  LET k == op[t].key IN
  /\ k # None
  /\ \E s \in LeftTo(k, op[t].kind) : tablet' = [tablet EXCEPT ![k] = s]
  /\ op' = [op EXCEPT ![t] = NoOp]
  /\ page' = [page EXCEPT ![t] = Done(@)]
  /\ unsure' = unsure \cup Showing(k)
  /\ UNCHANGED <<home, known, file, search, acts, approved, accepted, unsaved>>

Mine(i) == {t \in Tabs : home[t] = i}

\* The commands that end with installer i may have done their work or not.
CutOff(i) ==
  LET cut == {t \in Mine(i) : op[t].key # None} IN
  /\ \/ cut = {} /\ UNCHANGED tablet
     \/ \E t \in cut : \E s \in LeftTo(op[t].key, op[t].kind) :
          tablet' = [tablet EXCEPT ![op[t].key] = s]
  /\ page' = [t \in Tabs |-> IF t \in Mine(i) THEN Fresh ELSE page[t]]
  /\ search' = [t \in Tabs |-> IF t \in Mine(i) THEN NoSearch ELSE search[t]]
  /\ op' = [t \in Tabs |-> IF t \in Mine(i) THEN NoOp ELSE op[t]]
  /\ unsure' = (unsure \ Mine(i)) \cup UNION {Showing(op[t].key) : t \in cut}

\* Mutant: the record is not read again.
RestartBlank(i) ==
  /\ CutOff(i)
  /\ known' = [known EXCEPT ![i] = [h \in Hosts |-> None]]
  /\ UNCHANGED <<home, file, acts, approved, accepted, unsaved>>

\* quit, or a crash, and the next start with loadKnownHosts.
Restart(i) ==
  /\ CutOff(i)
  /\ known' = [known EXCEPT ![i] = file]
  /\ UNCHANGED <<home, file, acts, approved, accepted, unsaved>>

Next ==
  \/ \E k \in Keys : Reboot(k)
  \/ \E i \in Installers : Restart(i)
  \/ \E t \in Tabs :
       \/ \E k \in Keys : Preflight(t, k)
       \/ Found(t) \/ NotFound(t)
       \/ Connect(t) \/ Refused(t) \/ Complete(t) \/ Fail(t)
       \/ \E h \in Hosts : Find(t, h)
       \/ \E yes \in BOOLEAN : Tick(t, yes)
       \/ \E kind \in Kinds, h \in Hosts : Click(t, kind, h)

Spec == Init /\ [][Next]_vars

-----------------------------------------------------------------------------
OneInstaller == \A t, u \in Tabs : home[t] = home[u]

\* A command runs only on a tablet whose key the owner has ticked, now or before
\* it came into the record, wherever tablets move, whatever tabs are open, and
\* however late an answer to Find comes.
OnlyApprovedTablets == \A t \in Tabs : op[t].key # None => op[t].key \in approved

CommandOf(t) == [by |-> home[t], at |-> op[t].host, on |-> op[t].key]
Commands == {CommandOf(t) : t \in {u \in Tabs : op[u].key # None}}

Trust == INSTANCE TabletTrust WITH
  Keepers <- Installers, Addresses <- Hosts, Tablets <- Keys, Unknown <- None,
  trusted <- approved, replacing <- accepted, record <- known, stored <- file,
  working <- Commands

\* The installers trust on first use: a command runs only on a tablet the owner has
\* ticked, in place of a recorded one only when the page said that the tablet's key had
\* changed (at the address of that Find, which need not be the one of the command), one
\* command of an installer at a time, and only that tablet is recorded: see TabletTrust.
KeepsTrust == Trust!TSpec

\* The key recorded for an address gives way only to one that the owner ticked
\* when the page said it was not the recorded one, there or at another address.
KeyGivesWay(old, new) == \A h \in Hosts : new[h] # old[h] => old[h] = None \/ new[h] \in accepted

\* The file keeps its keys likewise, and so do future runs, as long as one installer is
\* open and its record can be written: two that are open take turns in forgetting what
\* the other learned.
RecordSurvives ==
  [][OneInstaller /\ ~unsaved => KeyGivesWay(file, file')]_vars

\* The page's buttons are those for the tablet it shows, unless something else has
\* changed that tablet since Find: calls of other tabs, calls that failed, or an
\* address that was edited.  A bundle put aside counts as installed, and after a
\* reboot or an activation that is pending the page may take it for active.
PageFitsTablet ==
  \A t \in Tabs : page[t].finger # None /\ t \notin unsure =>
    LET s == tablet[page[t].finger] IN
      /\ page[t].installed => s.bundle # "none"
      /\ s.bundle = "there" => page[t].installed
      /\ s.active => page[t].active

(* What the documentation says and the code does not keep. *)

\* docs/validation/v2.1.md: "Reactivate after recovery".  A Reactivate button that
\* the page offers, for a tablet nothing else has changed, is one that can work.
ReactivateCanWork ==
  \A t \in Tabs : Offered(page[t], "reactivate") /\ t \notin unsure =>
    tablet[page[t].finger].bundle = "there"
=============================================================================
