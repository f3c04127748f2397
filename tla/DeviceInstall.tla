--------------------------- MODULE DeviceInstall ---------------------------
(***************************************************************************)
(* Installing on the tablet: installer/main.go on the computer, and the    *)
(* scripts it runs over SSH: scripts/install-device-runtime.sh, which runs *)
(* device/install.sh, then device/uninstall.sh and device/recover-stock.sh.*)
(*                                                                         *)
(* Every command may fail (set -e), which runs the EXIT trap.  The scripts *)
(* trap signals too, but their traps do not exit: the script goes on.  The *)
(* connection may time out while the script runs on, and the tablet may    *)
(* lose power.  One install script runs at a time, and no signal meets a   *)
(* rollback, whose commands succeed.                                       *)
(*                                                                         *)
(* No script syncs what it writes: until the kernel has written a file back*)
(* a loss of power may tear it.  Renames and removals last, in their order.*)
(***************************************************************************)
EXTENDS Integers, Sequences, SequencesExt

CONSTANTS
  Versions,   \* releases
  KeepApps,   \* app bundles kept by install.sh (2)
  MaxSources, \* bound: project backups, which only a complete install prunes
  None, Torn  \* nothing there; something incomplete there

ASSUME InstallAssumption ==
  /\ None \notin Versions
  /\ Torn \notin Versions \cup {None}
  /\ \A v \in Versions : [unsynced |-> v] \notin Versions \cup {None, Torn}
  /\ KeepApps \in Nat \ {0}
  /\ MaxSources \in Nat \ {0}

\* A complete copy of a release, before and after the kernel has written it back.
Unsynced(v) == [unsynced |-> v]
Copies == {Unsynced(v) : v \in Versions}
Complete == Versions \cup Copies
Content == Complete \cup {None, Torn}

\* The release in a complete copy.
Release(c) == IF c \in Copies THEN c.unsynced ELSE c

WrittenBack == [c \in Content |-> IF c \in Copies THEN {Release(c)} ELSE {c}]
LosesPower == [c \in Content |-> IF c \in Copies THEN {Release(c), Torn} ELSE {c}]

\* The AppLoad extension and its shims: absent, somebody else's, half copied, ours.
Runtime == {"none", "other", "torn", "ours"}

VARIABLES
  stage,       \* /tmp/trmnl-install: the payload there
  copies,      \* its rollback directory: the saved runtime, "none" for no files
  xovi,        \* /home/root/xovi
  appload,     \* the runtime in it and in /home/root/shims
  project,     \* /home/root/trmnl-remarkable
  app,         \* the bundle in AppLoad's directory
  staged,      \* install.sh's copy of the bundle beside it
  sources,     \* project backups, oldest first
  apps,        \* the number of app backups, which nothing reads again
  unsynced,    \* what of xovi and appload the kernel has not written back
  script,      \* install-device-runtime.sh and, inside it, install.sh
  server,      \* the operation the installer is in
  before,      \* history: the runtime when the script started, until it is disturbed
  disturbed,   \* history: a signal or another operation met the script
  durable      \* history: an installed release was written back; no signal, uninstall
               \* or complete install came since

files == <<xovi, appload, project, app, staged, sources, apps, unsynced>>
ghosts == <<before, disturbed, durable>>
vars == <<stage, copies, xovi, appload, project, app, staged, sources, apps, unsynced,
          script, server, before, disturbed, durable>>

\* trap: the parts of rollback still to be done.
NoScript == [at |-> "none", trap |-> {}, createdXovi |-> FALSE, installedAppload |-> FALSE,
             projectCreated |-> FALSE, backup |-> "unset"]

\* Where the script stands; the names from "bundle" to "activate" are install.sh's.
Steps == {"check", "xovi", "save", "copy", "backup", "create", "extract",
          "bundle", "shelve", "prune", "place", "activate", "complete", "tidy"}
Parts == {"runtime", "xovi", "project", "backup"}

Bare == [xovi |-> "none", appload |-> "none"]
Now == [xovi |-> xovi, appload |-> appload]

TypeOK ==
  /\ stage \in Content /\ project \in Content /\ app \in Content /\ staged \in Content
  /\ copies \in Runtime /\ appload \in Runtime
  /\ xovi \in {"none", "partial", "ok"}
  /\ sources \in Seq(Content \ {None}) /\ Len(sources) <= MaxSources
  /\ apps \in 0 .. KeepApps + 1
  /\ unsynced \subseteq {"xovi", "appload"}
  /\ script \in [at : Steps \cup {"none", "failed", "installed", "untidy"},
                 trap : SUBSET Parts, createdXovi : BOOLEAN, installedAppload : BOOLEAN,
                 projectCreated : BOOLEAN, backup : {"unset", "there", "moved"}]
  /\ server \in {"idle", "upload", "install", "uninstall"}
  /\ disturbed \in BOOLEAN /\ durable \in BOOLEAN

\* A tablet without TRMNL, with or without XOVI and somebody's AppLoad.
Init ==
  /\ stage = None
  /\ copies = "none"
  /\ \/ xovi = "none" /\ appload = "none"
     \/ xovi = "partial" /\ appload = "none"
     \/ xovi = "ok" /\ appload \in {"none", "other"}
  /\ project = None
  /\ app = None
  /\ staged = None
  /\ sources = <<>>
  /\ apps = 0
  /\ unsynced = {}
  /\ script = NoScript
  /\ server = "idle"
  /\ before = Bare
  /\ disturbed = FALSE
  /\ durable = FALSE

-----------------------------------------------------------------------------
(* The script's commands.  Each disjunct that ends in Failing is a command that *)
(* fails; what it leaves half done is in its first conjuncts.                   *)

Running == script.at \in Steps /\ script.trap = {}
Bundling == script.at \in {"shelve", "prune", "place"}     \* install.sh's trap is set

\* What rollback has to do: nothing before completed, project_created and the others
\* are set.
Due == {part \in Parts :
          \/ part = "runtime" /\ script.installedAppload
          \/ part = "xovi" /\ script.createdXovi
          \/ part = "project" /\ script.projectCreated
          \/ part = "backup" /\ script.projectCreated /\ script.backup # "unset"}

\* A command fails: install.sh's trap, if it is set, then the EXIT trap.  Once the
\* bundle is in place install.sh succeeds whether XOVI starts or not.
Fail ==
  /\ Running
  /\ script.at \notin {"activate", "complete", "tidy"}
  /\ staged' = IF Bundling THEN None ELSE staged
  /\ script' = [script EXCEPT !.at = "failed", !.trap = Due]
  /\ UNCHANGED <<stage, copies, xovi, appload, project, app, sources, apps, unsynced,
                 server, ghosts>>

\* HUP, INT or TERM: the trap runs, and the script goes on with the next command.
\* A signal that meets install.sh runs its trap only.
Signal ==
  /\ Running
  /\ script.at # "tidy"
  /\ IF Bundling
     THEN staged' = None /\ UNCHANGED script
     ELSE script' = [script EXCEPT !.trap = Due] /\ UNCHANGED staged
  /\ disturbed' = TRUE
  /\ before' = Bare
  /\ durable' = FALSE
  /\ UNCHANGED <<stage, copies, xovi, appload, project, app, sources, apps, unsynced,
                 server>>

\* Part by part: the part is done, or more of it is left.
Undone(part) ==
  /\ part \in script.trap
  /\ UNCHANGED <<stage, copies, staged, apps, server, ghosts>>
Over(part) == script' = [script EXCEPT !.trap = @ \ {part}]

\* The rollback cannot go on, and set -e ends the script.
GivesUp == script' = [script EXCEPT !.trap = {}, !.at = "failed"]

\* The saved runtime goes back, file over file, or what was copied goes away.  After an
\* earlier rollback there may be no XOVI to copy it to.
RollbackRuntime ==
  /\ Undone("runtime")
  /\ \/ xovi # "none" /\ appload' = "torn" /\ UNCHANGED script
     \/ xovi # "none" /\ appload' = copies /\ Over("runtime")
     \/ /\ xovi = "none"
        /\ IF copies = "none" THEN Over("runtime") ELSE GivesUp
        /\ UNCHANGED appload
  /\ unsynced' = unsynced \cup {"appload"}
  /\ UNCHANGED <<xovi, project, app, sources>>

\* A recursive removal may be cut short.
Removed(dir) == IF dir = None THEN {None} ELSE {None, Torn}

\* A XOVI that was created goes away with all it holds, file by file.
RollbackXovi ==
  /\ Undone("xovi")
  /\ "runtime" \notin script.trap
  /\ \/ xovi' = "partial" /\ app' \in Removed(app) /\ UNCHANGED script
     \/ xovi' = "none" /\ app' = None /\ Over("xovi")
  /\ appload' = "none"
  /\ UNCHANGED <<project, sources, unsynced>>

RollbackProject ==
  /\ Undone("project")
  /\ script.trap \cap {"runtime", "xovi"} = {}
  /\ \/ project' \in Removed(project) /\ UNCHANGED script
     \/ project' = None /\ Over("project")
  /\ UNCHANGED <<xovi, appload, app, sources, unsynced>>

\* The backup can be moved back once; a second rollback finds it gone.
RollbackBackup ==
  /\ Undone("backup")
  /\ script.trap = {"backup"}
  /\ IF script.backup = "there" /\ sources # <<>>
     THEN /\ project' = Last(sources)
          /\ sources' = Front(sources)
          /\ script' = [script EXCEPT !.trap = {}, !.backup = "moved"]
     ELSE GivesUp /\ UNCHANGED <<project, sources>>
  /\ UNCHANGED <<xovi, appload, app, unsynced>>

\* Unless a trap runs, moves on to step at, with the script's variables as they stand in s.
At(s, at) == s.trap = {} /\ script' = [s EXCEPT !.at = at]

Check ==
  /\ script.at = "check"
  /\ stage \in Versions
  /\ At(script, "xovi")
  /\ UNCHANGED <<stage, copies, files, server, ghosts>>

\* created_xovi is set before the archive is unpacked.
CreateXovi ==
  /\ script.at = "xovi"
  /\ xovi = "none"
  /\ stage \in Versions
  /\ xovi' \in {"partial", "ok"}
  /\ unsynced' = unsynced \cup {"xovi"}
  /\ At([script EXCEPT !.createdXovi = TRUE], "xovi")
  /\ UNCHANGED <<stage, copies, appload, project, app, staged, sources, apps,
                 server, ghosts>>

CheckXovi ==
  /\ script.at = "xovi"
  /\ xovi = "ok"
  /\ At(script, "save")
  /\ UNCHANGED <<stage, copies, files, server, ghosts>>

\* The directories are made, also in a XOVI that is gone.
MakeDirectories == xovi' = IF xovi = "none" THEN "partial" ELSE xovi

\* Mutant: the flag that arms the rollback is set only after the copies.
SaveRuntimeUnarmed ==
  /\ script.at = "save"
  /\ copies' = appload
  /\ MakeDirectories
  /\ At(script, "copy")
  /\ UNCHANGED <<stage, appload, project, app, staged, sources, apps, unsynced, server,
                 ghosts>>

SaveRuntime ==
  /\ script.at = "save"
  /\ copies' = appload
  /\ MakeDirectories
  /\ At([script EXCEPT !.installedAppload = TRUE], "copy")
  /\ UNCHANGED <<stage, appload, project, app, staged, sources, apps, unsynced, server,
                 ghosts>>

\* Mutant: a copy that fails half way does not stop the script.
CopyRuntimeUnchecked ==
  /\ script.at = "copy"
  /\ xovi = "ok"
  /\ appload' \in {"torn", "ours"}
  /\ unsynced' = unsynced \cup {"appload"}
  /\ At(script, "backup")
  /\ UNCHANGED <<stage, copies, xovi, project, app, staged, sources, apps,
                 server, ghosts>>

CopyRuntime ==
  /\ script.at = "copy"
  /\ stage \in Versions
  /\ xovi = "ok"
  /\ \/ appload' = "torn" /\ At(script, "copy")
     \/ appload' = "ours" /\ At(script, "backup")
  /\ unsynced' = unsynced \cup {"appload"}
  /\ UNCHANGED <<stage, copies, xovi, project, app, staged, sources, apps,
                 server, ghosts>>

\* Mutant: the project is removed, not moved aside.
BackUpProjectRemoved ==
  /\ script.at = "backup"
  /\ project' = None
  /\ At(script, "create")
  /\ UNCHANGED <<stage, copies, xovi, appload, app, staged, sources, apps, unsynced,
                 server, ghosts>>

BackUpProject ==
  /\ script.at = "backup"
  /\ IF project = None
     THEN At(script, "create") /\ UNCHANGED <<project, sources>>
     ELSE /\ Len(sources) < MaxSources
          /\ project' = None
          /\ sources' = Append(sources, project)
          /\ At([script EXCEPT !.backup = "there"], "create")
  /\ UNCHANGED <<stage, copies, xovi, appload, app, staged, apps, unsynced, server,
                 ghosts>>

CreateProject ==
  /\ script.at = "create"
  /\ project' = IF project = None THEN Torn ELSE project
  /\ At([script EXCEPT !.projectCreated = TRUE], "extract")
  /\ UNCHANGED <<stage, copies, xovi, appload, app, staged, sources, apps, unsynced,
                 server, ghosts>>

Extract ==
  /\ script.at = "extract"
  /\ stage \in Versions
  /\ project # None
  /\ \/ project' = Torn /\ At(script, "extract")
     \/ project' = Unsynced(stage) /\ At(script, "bundle")
  /\ UNCHANGED <<stage, copies, xovi, appload, app, staged, sources, apps, unsynced,
                 server, ghosts>>

\* install.sh up to the self-check of its copy.
StageBundle ==
  /\ script.at = "bundle"
  /\ project \in Complete
  /\ xovi # "none"
  /\ staged' = Unsynced(Release(project))
  /\ At(script, "shelve")
  /\ UNCHANGED <<stage, copies, xovi, appload, project, app, sources, apps, unsynced,
                 server, ghosts>>

ShelveApp ==
  /\ script.at = "shelve"
  /\ app' = None
  /\ apps' = IF app = None THEN apps ELSE apps + 1
  /\ At(script, "prune")
  /\ UNCHANGED <<stage, copies, xovi, appload, project, staged, sources, unsynced,
                 server, ghosts>>

\* Mutant: prune_oldest keeps one more than it is told to.
PruneAppsLess ==
  /\ script.at = "prune"
  /\ apps' = IF apps > KeepApps + 1 THEN KeepApps + 1 ELSE apps
  /\ At(script, "place")
  /\ UNCHANGED <<stage, copies, xovi, appload, project, app, staged, sources, unsynced,
                 server, ghosts>>

\* What is left of a removal cut short is still a backup.
PruneApps ==
  /\ script.at = "prune"
  /\ apps' = IF apps > KeepApps THEN KeepApps ELSE apps
  /\ At(script, "place")
  /\ UNCHANGED <<stage, copies, xovi, appload, project, app, staged, sources, unsynced,
                 server, ghosts>>

\* Mutant: the bundle is copied into place, file by file.
PlaceAppCopied ==
  /\ script.at = "place"
  /\ staged # None
  /\ app' \in {staged, Torn}
  /\ staged' = None
  /\ At(script, "activate")
  /\ UNCHANGED <<stage, copies, xovi, appload, project, sources, apps, unsynced, server,
                 ghosts>>

PlaceApp ==
  /\ script.at = "place"
  /\ staged # None
  /\ app' = staged
  /\ staged' = None
  /\ At(script, "activate")
  /\ UNCHANGED <<stage, copies, xovi, appload, project, sources, apps, unsynced, server,
                 ghosts>>

\* The rest of install.sh waits for XOVI to start and succeeds either way.
Activate ==
  /\ script.at = "activate"
  /\ At(script, "complete")
  /\ UNCHANGED <<stage, copies, files, server, ghosts>>

\* completed=1 and the trap is taken off.
Completed ==
  /\ script.at = "complete"
  /\ At(script, "tidy")
  /\ durable' = FALSE
  /\ UNCHANGED <<stage, copies, files, server, before, disturbed>>

Newest(s, n) == IF Len(s) > n THEN SubSeq(s, Len(s) - n + 1, Len(s)) ELSE s

Tidy ==
  /\ script.at = "tidy"
  /\ \/ sources' = Newest(sources, 1) /\ At(script, "installed")
     \/ At(script, "untidy") /\ UNCHANGED sources
  /\ UNCHANGED <<stage, copies, xovi, appload, project, app, staged, apps, unsynced,
                 server, ghosts>>

-----------------------------------------------------------------------------
(* The installer on the computer: one operation at a time, under operationMu. *)

\* Another operation reaches the tablet while a script runs on.
Meets ==
  /\ disturbed' = (disturbed \/ script.at # "none")
  /\ before' = IF disturbed' THEN Bare ELSE before

\* install up to the staging directory, which it clears.
InstallBegins ==
  /\ server = "idle"
  /\ server' = "upload"
  /\ stage' = Torn
  /\ copies' = "none"
  /\ Meets
  /\ UNCHANGED <<files, script, durable>>

UploadFails ==
  /\ server = "upload"
  /\ server' = "idle"
  /\ UNCHANGED <<stage, copies, files, script, ghosts>>

\* install.sh names its copy after its process: one that an earlier process left
\* behind is nobody's from here on.
RunScript(v) ==
  /\ server = "upload"
  /\ script.at = "none"
  /\ server' = "install"
  /\ stage' = v
  /\ script' = [NoScript EXCEPT !.at = "check"]
  /\ before' = Now
  /\ staged' = None
  /\ UNCHANGED <<copies, xovi, appload, project, app, sources, apps, unsynced,
                 disturbed, durable>>

\* What is left of the staging directory is never read: the next install clears it.
ScriptGone ==
  /\ script' = NoScript
  /\ stage' = None
  /\ copies' = "none"
  /\ before' = Bare
  /\ disturbed' = FALSE

\* The script's exit status comes back: an error is reported as rolled back.
ScriptReturns ==
  /\ server = "install"
  /\ script.at \in {"failed", "installed", "untidy"}
  /\ script.trap = {}
  /\ server' = "idle"
  /\ ScriptGone
  /\ UNCHANGED <<files, durable>>

\* installTimeout, or the connection is lost: the script runs on.
InstallTimesOut ==
  /\ server = "install"
  /\ script.at # "none"
  /\ server' = "idle"
  /\ UNCHANGED <<stage, copies, files, script, ghosts>>

ScriptEndsAlone ==
  /\ server # "install"
  /\ script.at \in {"failed", "installed", "untidy"}
  /\ script.trap = {}
  /\ ScriptGone
  /\ UNCHANGED <<files, server, durable>>

\* uninstall.sh runs only where there is one in the project; purge does without.
UninstallApp ==
  /\ server = "idle"
  /\ project # None
  /\ app' \in Removed(app)
  /\ server' \in {"uninstall", "idle"}       \* idle: a later command failed
  /\ Meets
  /\ UNCHANGED <<stage, copies, xovi, appload, project, staged, sources, apps, unsynced,
                 script, durable>>

\* --purge removes the backups, and the owner gives up the release.
Forgotten(purge) ==
  /\ sources' = IF purge THEN <<>> ELSE sources
  /\ apps' = IF purge THEN 0 ELSE apps
  /\ durable' = FALSE
  /\ Meets

UninstallProject(purge) ==
  /\ server = "uninstall"
  /\ server' = "idle"
  /\ project' \in Removed(project)
  /\ Forgotten(purge)
  /\ UNCHANGED <<stage, copies, xovi, appload, app, staged, unsynced, script>>

PurgeWithoutProject ==
  /\ server = "idle"
  /\ project \notin Complete
  /\ app' \in Removed(app)
  /\ Forgotten(TRUE)
  /\ UNCHANGED <<stage, copies, xovi, appload, project, staged, unsynced, script, server>>

\* recover-stock.sh moves the bundle out of AppLoad's reach.
Recover ==
  /\ server = "idle"
  /\ project # None
  /\ app' = None
  /\ Meets
  /\ UNCHANGED <<stage, copies, xovi, appload, project, staged, sources, apps, unsynced,
                 script, server, durable>>

-----------------------------------------------------------------------------
(* The tablet. *)

\* Every content becomes one that fate allows.
FilesBecome(fate) ==
  /\ project' \in fate[project]
  /\ app' \in fate[app]
  /\ sources' \in {s \in [DOMAIN sources -> Content] :
                    \A i \in DOMAIN sources : s[i] \in fate[sources[i]]}
  /\ unsynced' = {}
  /\ UNCHANGED apps

\* The kernel writes back what has been written.
Writeback ==
  /\ FilesBecome(WrittenBack)
  /\ staged' \in WrittenBack[staged]
  /\ durable' = (durable \/ (script.at = "none" /\ project' \in Versions))
  /\ UNCHANGED <<stage, copies, xovi, appload, script, server, before, disturbed>>

\* The tablet loses power: no trap runs, /tmp is empty afterwards, and what was not
\* written back may be torn.
PowerLoss ==
  /\ FilesBecome(LosesPower)
  /\ staged' = None
  /\ xovi' \in IF "xovi" \in unsynced /\ xovi = "ok" THEN {"partial", "ok"} ELSE {xovi}
  /\ appload' \in IF "appload" \in unsynced /\ appload # "none" THEN {"torn", appload}
                  ELSE {appload}
  /\ ScriptGone
  /\ server' = "idle"
  /\ UNCHANGED durable

-----------------------------------------------------------------------------
ScriptStep ==
  \/ Check
  \/ CreateXovi
  \/ CheckXovi
  \/ SaveRuntime
  \/ CopyRuntime
  \/ BackUpProject
  \/ CreateProject
  \/ Extract
  \/ StageBundle
  \/ ShelveApp
  \/ PruneApps
  \/ PlaceApp
  \/ Activate
  \/ Completed
  \/ Tidy

TrapStep ==
  \/ RollbackRuntime
  \/ RollbackXovi
  \/ RollbackProject
  \/ RollbackBackup

Next ==
  \/ ScriptStep
  \/ TrapStep
  \/ Fail
  \/ Signal
  \/ InstallBegins
  \/ UploadFails
  \/ \E v \in Versions : RunScript(v)
  \/ ScriptReturns
  \/ InstallTimesOut
  \/ ScriptEndsAlone
  \/ UninstallApp
  \/ \E purge \in BOOLEAN : UninstallProject(purge)
  \/ PurgeWithoutProject
  \/ Recover
  \/ Writeback
  \/ PowerLoss

Spec == Init /\ [][Next]_vars

-----------------------------------------------------------------------------
\* Half a bundle where AppLoad looks is what is left of a removal, of uninstall, of
\* purge or of the XOVI that a rollback takes away, or of a bundle that the tablet lost
\* power over before it was written back.  Nothing else an install does leaves one, in
\* whatever state it found the tablet and wherever it fails, is signalled or loses
\* power: the bundle is renamed into place once its copy is complete and checked.
AppNeverTorn ==
  [][app # Torn /\ app' = Torn
       => \/ UninstallApp
          \/ PurgeWithoutProject
          \/ RollbackXovi /\ xovi' = "partial"
          \/ PowerLoss /\ app \in Copies]_vars

\* SECURITY.md: a script that fails by itself puts the runtime it found back, the
\* AppLoad of somebody else included, and removes a XOVI it had created.
FailureRestoresRuntime ==
  script.at = "failed" /\ script.trap = {} /\ ~disturbed
    => xovi = before.xovi /\ appload = before.appload

\* What the installer reports as installed is installed, all of the same release.
SuccessIsComplete ==
  server = "install" /\ script.at = "installed" /\ ~disturbed
    => /\ xovi = "ok" /\ appload = "ours"
       /\ {app, project} \subseteq {stage, Unsynced(stage)}

\* An installed release that has been written back stays on the tablet, with its
\* uninstaller, in place or as a backup, until the next install is complete: through
\* every failure and loss of power, a rollback cut short included.
WholeProjectKept ==
  durable => ({project} \cup ToSet(sources)) \cap Versions # {}
=============================================================================
