---------------------------- MODULE ScreenCache ----------------------------
(***************************************************************************)
(* The screen cache: backend/internal/cache/cache.go and the two goroutines*)
(* of main.go that use it without a lock.  The scheduler's fetch looks the *)
(* latest screen up, makes a conditional request and stores what it gets;  *)
(* the receive loop shows the latest or the previous screen and clears the *)
(* cache.  The process may be killed between any two file operations.      *)
(*                                                                         *)
(* The wall clock is taken to go forward, so the order of the index is the *)
(* order of SavedAt that Entries sorts by.                                 *)
(***************************************************************************)
EXTENDS Sequences, FiniteSets, Integers, SequencesExt

CONSTANTS
  Names,       \* screen files that can exist (bounds the run; the code never reuses one)
  Urls, Tags,  \* image URLs and the validators a server gives them
  Keep,        \* index entries kept (8; at least 2 whatever the caller asks)
  MaxKills,    \* kills of the process explored
  None

Image == [url : Urls, tag : Tags]
Entry == [name : Names, image : Image]

ASSUME CacheAssumption ==
  /\ Keep \in Nat /\ Keep >= 2
  /\ MaxKills \in Nat
  /\ None \notin Names \cup Urls \cup Tags \cup Entry

VARIABLES
  files,     \* screen-* files on disk
  index,     \* index.json: entries, newest first; <<>> also when the file is missing
  server,    \* the validator of what each URL serves now
  fpc,       \* where fetch stands
  want,      \* image_url of the display response
  latest,    \* what fetch's cache.Latest() returned, or None
  entry,     \* the entry fetch stores or shows
  answer,    \* the image the server had when it answered the download
  list,      \* es of Put
  rpc,       \* where the receive loop stands: "idle", "clear"
  doomed,    \* es of Clear: entries still to remove
  kills,
  overlapped \* history: a Clear and a Put ran at the same time, or a Put was killed

fetchVars == <<fpc, want, latest, entry, answer, list>>
clearVars == <<rpc, doomed>>
vars == <<files, index, server, fpc, want, latest, entry, answer, list, rpc,
          doomed, kills, overlapped>>

Storing == fpc \in {"renamed", "listed", "evicted"}

TypeOK ==
  /\ files \subseteq Names
  /\ index \in Seq(Entry) /\ Len(index) <= Keep
  /\ server \in [Urls -> Tags]
  /\ fpc \in {"idle", "asked", "looked", "got", "renamed", "listed", "evicted", "done"}
  /\ want \in Urls \cup {None}
  /\ latest \in Entry \cup {None}
  /\ entry \in Entry \cup {None}
  /\ answer \in Image \cup {None}
  /\ list \in Seq(Entry)
  /\ rpc \in {"idle", "clear"}
  /\ doomed \in Seq(Entry)
  /\ kills \in 0 .. MaxKills
  /\ overlapped \in BOOLEAN

Init ==
  /\ files = {}
  /\ index = <<>>
  /\ server \in [Urls -> Tags]
  /\ fpc = "idle"
  /\ want = None
  /\ latest = None
  /\ entry = None
  /\ answer = None
  /\ list = <<>>
  /\ rpc = "idle"
  /\ doomed = <<>>
  /\ kills = 0
  /\ overlapped = FALSE

-----------------------------------------------------------------------------
\* Entries: what the index lists and the directory still holds; valid[i] is the
\* slice after i rounds of the loop (SelectSeq, written out for the proofs).
Entries ==
  LET valid[i \in 0 .. Len(index)] ==
        IF i = 0 THEN <<>>
        ELSE IF index[i].name \in files THEN Append(valid[i - 1], index[i])
        ELSE valid[i - 1]
  IN valid[Len(index)]

Latest == IF Entries = <<>> THEN None ELSE Head(Entries)

\* The server replaces what a URL serves, or names another URL next time.
ServerChanges(u, t) ==
  /\ server' = [server EXCEPT ![u] = t]
  /\ UNCHANGED <<files, index, fetchVars, clearVars, kills, overlapped>>

-----------------------------------------------------------------------------
(* fetch *)

Display(u) ==
  /\ fpc = "idle"
  /\ fpc' = "asked"
  /\ want' = u
  /\ UNCHANGED <<files, index, server, latest, entry, answer, list, clearVars,
                 kills, overlapped>>

LookLatest ==
  /\ fpc = "asked"
  /\ fpc' = "looked"
  /\ latest' = Latest
  /\ UNCHANGED <<files, index, server, want, entry, answer, list, clearVars,
                 kills, overlapped>>

\* Mutant: sends the latest screen's validator whatever URL it is for.
ValidatorUnchecked == IF latest = None THEN None ELSE latest.image.tag

\* The validator sent is the latest screen's, when it came from the same URL.
Validator ==
  IF latest = None \/ latest.image.url # want THEN None ELSE latest.image.tag

Answer == [url |-> want, tag |-> server[want]]

\* 304: the latest screen is shown again.  Nothing is stored, and nothing looks
\* whether its file is still there.
NotModified ==
  /\ fpc = "looked"
  /\ Validator = server[want]
  /\ fpc' = "done"
  /\ answer' = Answer
  /\ entry' = latest
  /\ UNCHANGED <<files, index, server, want, latest, list, clearVars, kills, overlapped>>

\* 200 and a valid payload; without a matching validator there is no 304.
Downloaded ==
  /\ fpc = "looked"
  /\ Validator # server[want]
  /\ fpc' = "got"
  /\ answer' = Answer
  /\ UNCHANGED <<files, index, server, want, latest, entry, list, clearVars,
                 kills, overlapped>>

Forget ==
  /\ fpc' = "idle"
  /\ want' = None
  /\ latest' = None
  /\ entry' = None
  /\ answer' = None
  /\ list' = <<>>

\* A failed request, an invalid payload, a temporary file that cannot be written.
FetchFails ==
  /\ fpc \in {"asked", "looked", "got"}
  /\ Forget
  /\ UNCHANGED <<files, index, server, clearVars, kills, overlapped>>

\* Put: the complete, synced download becomes a screen file.
PutRename(n) ==
  /\ fpc = "got"
  /\ n \notin files
  /\ \A e \in (ToSet(index) \cup ToSet(doomed) \cup {latest}) \ {None} : e.name # n
  /\ fpc' = "renamed"
  /\ files' = files \cup {n}
  /\ entry' = [name |-> n, image |-> answer]
  /\ overlapped' = (overlapped \/ rpc = "clear")
  /\ UNCHANGED <<index, server, want, latest, answer, list, clearVars, kills>>

PutList ==
  /\ fpc = "renamed"
  /\ fpc' = "listed"
  /\ list' = <<entry>> \o Entries
  /\ UNCHANGED <<files, index, server, want, latest, entry, answer, clearVars,
                 kills, overlapped>>

\* Mutant: one screen kept too few.
KeptOneLess == SubSeq(list, 1, 1)

\* Mutant: nothing is evicted.
KeptAll == list

Kept == IF Len(list) > Keep THEN SubSeq(list, 1, Keep) ELSE list

\* Mutant: the oldest entries leave the index but not the disk.
PutEvictIndexOnly ==
  /\ fpc = "listed"
  /\ fpc' = "evicted"
  /\ list' = Kept
  /\ UNCHANGED <<files, index, server, want, latest, entry, answer, clearVars,
                 kills, overlapped>>

PutEvict ==
  /\ fpc = "listed"
  /\ fpc' = "evicted"
  /\ list' = Kept
  /\ files' = files \ {e.name : e \in ToSet(list) \ ToSet(Kept)}
  /\ UNCHANGED <<index, server, want, latest, entry, answer, clearVars, kills, overlapped>>

\* writeIndex renames the complete new index over the old one.
PutIndex ==
  /\ fpc = "evicted"
  /\ fpc' = "done"
  /\ index' = list
  /\ UNCHANGED <<files, server, want, latest, entry, answer, list, clearVars,
                 kills, overlapped>>

PutIndexFails ==
  /\ fpc = "evicted"
  /\ files' = files \ {entry.name}
  /\ Forget
  /\ UNCHANGED <<index, server, clearVars, kills, overlapped>>

\* sendImage and the success record; the entry shown is `entry`.
FetchEnds ==
  /\ fpc = "done"
  /\ Forget
  /\ UNCHANGED <<files, index, server, clearVars, kills, overlapped>>

-----------------------------------------------------------------------------
(* The receive loop: Clear.  Showing the latest or previous screen changes   *)
(* nothing here.                                                             *)

ClearRead ==
  /\ rpc = "idle"
  /\ rpc' = "clear"
  /\ doomed' = Entries
  /\ overlapped' = (overlapped \/ Storing)
  /\ UNCHANGED <<files, index, server, fetchVars, kills>>

ClearRemove ==
  /\ rpc = "clear"
  /\ doomed # <<>>
  /\ files' = files \ {Head(doomed).name}
  /\ doomed' = Tail(doomed)
  /\ UNCHANGED <<index, server, fetchVars, rpc, kills, overlapped>>

ClearIndex ==
  /\ rpc = "clear"
  /\ doomed = <<>>
  /\ rpc' = "idle"
  /\ index' = <<>>
  /\ UNCHANGED <<files, server, fetchVars, doomed, kills, overlapped>>

-----------------------------------------------------------------------------
\* The process is killed and starts again; cleanupTemps removes temporary files
\* only, so a screen file that never reached the index stays.
Kill ==
  /\ kills < MaxKills
  /\ kills' = kills + 1
  /\ Forget
  /\ rpc' = "idle"
  /\ doomed' = <<>>
  /\ overlapped' = (overlapped \/ Storing)
  /\ UNCHANGED <<files, index, server>>

Next ==
  \/ \E u \in Urls, t \in Tags : ServerChanges(u, t)
  \/ \E u \in Urls : Display(u)
  \/ LookLatest
  \/ NotModified
  \/ Downloaded
  \/ FetchFails
  \/ \E n \in Names : PutRename(n)
  \/ PutList
  \/ PutEvict
  \/ PutIndex
  \/ PutIndexFails
  \/ FetchEnds
  \/ ClearRead
  \/ ClearRemove
  \/ ClearIndex
  \/ Kill

Spec == Init /\ [][Next]_vars

-----------------------------------------------------------------------------
Incoming == IF Storing THEN entry ELSE None

Promise == INSTANCE LastScreen WITH
  Screens <- Entry, Nothing <- None, last <- Latest,
  incoming <- Incoming, clearing <- (rpc = "clear")

\* README: TRMNL "keeps the last one cached for when the network drops".  The latest
\* screen gives way only to one that is completely on disk, and otherwise only to a
\* Clear, through failed downloads, failed, killed and overlapping stores and
\* evictions: see LastScreen.
KeepsLastScreen == Promise!LSpec

\* What a refresh reports as current is what the server had when it answered,
\* also when the server only confirmed the cached screen.
ConfirmedIsCurrent == fpc = "done" => entry.image = answer

\* Unless a store was killed or a Clear ran beside it, every screen file is in
\* the index or about to be: the cache does not grow without bound.
NoOrphans ==
  ~overlapped => files \subseteq {e.name : e \in ToSet(index)}
                   \cup (IF Storing THEN {entry.name} ELSE {})
=============================================================================
