------------------------ MODULE DeviceInstallProofs ------------------------
(***************************************************************************)
(* Proofs about the device install, for every set of releases and every    *)
(* bound: what can leave half a bundle where AppLoad looks, that a script  *)
(* which fails by itself puts the runtime back, that a reported success is *)
(* complete, and that an installed release stays on the tablet.            *)
(***************************************************************************)
EXTENDS DeviceInstall, SequenceTheorems, TLAPS

-----------------------------------------------------------------------------
(* Contents and sequences of them. *)

\* A copy that is not written back is neither a durable one nor anything else, and
\* holds one release.
LEMMA ReleaseFacts ==
  /\ \A c \in Copies : Release(c) \in Versions /\ c \notin Versions \cup {None, Torn}
  /\ \A v \in Versions : /\ Unsynced(v) \in Copies /\ Release(Unsynced(v)) = v
                         /\ v \notin Copies /\ Release(v) = v
                         /\ v \notin {None, Torn}
  /\ None \notin Complete /\ Torn \notin Complete /\ None # Torn
  /\ Complete \subseteq Content
<1>1. \A v \in Versions : Unsynced(v).unsynced = v
  BY DEF Unsynced
<1>2. \A v \in Versions : Unsynced(v) \notin Versions \cup {None, Torn}
  BY InstallAssumption DEF Unsynced
<1>3. \A v \in Versions : v \notin Copies
  BY <1>2 DEF Copies
<1>4. \A c \in Copies : Release(c) \in Versions
  BY <1>1 DEF Copies, Release
<1>5. \A v \in Versions : Unsynced(v) \in Copies /\ Release(Unsynced(v)) = v /\ Release(v) = v
  BY <1>1, <1>3 DEF Copies, Release
<1>6. \A c \in Copies : c \notin Versions \cup {None, Torn}
  BY <1>2 DEF Copies
<1> QED
  BY <1>3, <1>4, <1>5, <1>6, InstallAssumption DEF Complete, Content

\* Writing back keeps what is there, and a loss of power tears a copy that was not
\* written back and nothing else.
LEMMA FateFacts ==
  ASSUME NEW c \in Content, NEW d
  PROVE  /\ d \in WrittenBack[c] => /\ d \in Content /\ (d = None <=> c = None)
                                    /\ d = Torn <=> c = Torn
                                    /\ Release(d) = Release(c)
                                    /\ c \notin Copies => d = c
         /\ d \in LosesPower[c] => /\ d \in Content /\ (d = None <=> c = None)
                                   /\ d = Torn => c = Torn \/ c \in Copies
                                   /\ c \notin Copies => d = c
<1>1. WrittenBack[c] = IF c \in Copies THEN {Release(c)} ELSE {c}
  BY DEF WrittenBack
<1>2. LosesPower[c] = IF c \in Copies THEN {Release(c), Torn} ELSE {c}
  BY DEF LosesPower
<1>3. Versions \subseteq Content /\ Torn \in Content
  BY DEF Content, Complete
<1> QED
  BY <1>1, <1>2, <1>3, ReleaseFacts

\* Neither changes the number of backups, or makes one a backup of nothing.
LEMMA FateOfBackups ==
  ASSUME NEW s \in Seq(Content \ {None}), NEW fate \in {WrittenBack, LosesPower},
         NEW t \in {u \in [DOMAIN s -> Content] : \A i \in DOMAIN s : u[i] \in fate[s[i]]}
  PROVE  /\ t \in Seq(Content \ {None}) /\ Len(t) = Len(s) /\ DOMAIN t = DOMAIN s
         /\ \A i \in DOMAIN s : s[i] \in Versions => t[i] = s[i]
<1>1. /\ DOMAIN s = 1 .. Len(s) /\ Len(s) \in Nat
      /\ \A i \in DOMAIN s : s[i] \in Content \ {None}
  OBVIOUS
<1>2. \A i \in DOMAIN s : t[i] \in Content \ {None} /\ (s[i] \in Versions => t[i] = s[i])
  BY <1>1, FateFacts, ReleaseFacts
<1>3. t \in [1 .. Len(s) -> Content \ {None}]
  BY <1>1, <1>2
<1>4. t \in Seq(Content \ {None}) /\ Len(t) = Len(s)
  BY <1>1, <1>3
<1> QED
  BY <1>1, <1>2, <1>4

\* Taking the newest from a sequence shortens it and adds nothing.
LEMMA NewestType ==
  ASSUME NEW S, NEW s \in Seq(S), NEW n \in Nat
  PROVE  Newest(s, n) \in Seq(S) /\ Len(Newest(s, n)) <= n
<1>1. CASE Len(s) > n
  <2>1. Newest(s, n) = SubSeq(s, Len(s) - n + 1, Len(s))
    BY <1>1 DEF Newest
  <2>2. /\ SubSeq(s, Len(s) - n + 1, Len(s)) \in Seq(S)
        /\ Len(SubSeq(s, Len(s) - n + 1, Len(s))) = n
    BY <1>1
  <2> QED
    BY <2>1, <2>2
<1>2. CASE ~(Len(s) > n)
  BY <1>2 DEF Newest
<1> QED
  BY <1>1, <1>2

\* The newest backup and the others.
LEMMA LastAndFront ==
  ASSUME NEW S, NEW s \in Seq(S), s # <<>>
  PROVE  /\ Last(s) \in S
         /\ Front(s) \in Seq(S) /\ Len(Front(s)) = Len(s) - 1
         /\ \A i \in DOMAIN s : s[i] = Last(s) \/ (i \in DOMAIN Front(s) /\ Front(s)[i] = s[i])
<1>1. Len(s) \in Nat /\ Len(s) > 0
  OBVIOUS
<1>2. /\ SubSeq(s, 1, Len(s) - 1) \in Seq(S)
      /\ Len(SubSeq(s, 1, Len(s) - 1)) = Len(s) - 1
      /\ \A i \in 1 .. Len(s) - 1 : SubSeq(s, 1, Len(s) - 1)[i] = s[i]
  <2> DEFINE n == Len(s) - 1
             front == SubSeq(s, 1, n)
  <2>1. n \in Nat /\ \A i \in 1 .. n : s[i] \in S
    BY <1>1
  <2> HIDE DEF n
  <2>2. /\ front \in Seq(S)
        /\ Len(front) = IF 1 <= n THEN n - 1 + 1 ELSE 0
        /\ \A i \in 1 .. n - 1 + 1 : front[i] = s[1 + i - 1]
    BY <2>1, SubSeqProperties
  <2>3. Len(front) = n /\ \A i \in 1 .. n : front[i] = s[i]
    BY <2>1, <2>2
  <2> QED
    BY <2>2, <2>3 DEF n
<1>3. DOMAIN s = 1 .. Len(s) /\ DOMAIN SubSeq(s, 1, Len(s) - 1) = 1 .. Len(s) - 1
  BY <1>1, <1>2
<1>4. \A i \in DOMAIN s : i = Len(s) \/ i \in 1 .. Len(s) - 1
  BY <1>1, <1>3
<1> QED
  BY <1>1, <1>2, <1>3, <1>4 DEF Last, Front

LEMMA EmptyType ==
  ASSUME NEW S, NEW s, s = <<>>
  PROVE  s \in Seq(S) /\ Len(s) = 0
OBVIOUS

-----------------------------------------------------------------------------
(* Types, and the backups of the project and of the bundle. *)

ScriptType ==
  script \in [at : Steps \cup {"none", "failed", "installed", "untidy"},
              trap : SUBSET Parts, createdXovi : BOOLEAN, installedAppload : BOOLEAN,
              projectCreated : BOOLEAN, backup : {"unset", "there", "moved"}]

FilesType ==
  /\ stage \in Content /\ project \in Content /\ app \in Content /\ staged \in Content
  /\ copies \in Runtime /\ appload \in Runtime
  /\ xovi \in {"none", "partial", "ok"}
  /\ unsynced \subseteq {"xovi", "appload"}

BackupsType ==
  /\ sources \in Seq(Content \ {None}) /\ Len(sources) <= MaxSources
  /\ apps \in 0 .. KeepApps + 1

RestType ==
  /\ ScriptType
  /\ server \in {"idle", "upload", "install", "uninstall"}
  /\ disturbed \in BOOLEAN /\ durable \in BOOLEAN

LEMMA TypeParts == TypeOK <=> FilesType /\ BackupsType /\ RestType
BY DEF TypeOK, FilesType, BackupsType, RestType, ScriptType

\* What prune_oldest has left room for: an app is in place only beside KeepApps backups.
RoomForApp ==
  /\ app # None => apps <= KeepApps
  /\ script.at = "place" => apps <= KeepApps

Types == FilesType /\ BackupsType /\ RestType /\ RoomForApp

LEMMA TypesInit == Init => Types
<1> SUFFICES ASSUME Init PROVE Types
  OBVIOUS
<1>1. FilesType /\ RoomForApp
  BY InstallAssumption DEF Init, FilesType, Content, Runtime, RoomForApp
<1>2. BackupsType
  <2>1. sources = <<>> /\ apps = 0
    BY DEF Init
  <2> QED
    BY <2>1, EmptyType, InstallAssumption DEF BackupsType
<1>3. RestType
  BY DEF Init, RestType, ScriptType, NoScript, Parts
<1> QED
  BY <1>1, <1>2, <1>3 DEF Types

\* Moving on changes where the script stands and nothing else of it.
LEMMA MovesOn ==
  ASSUME ScriptType, NEW at \in Steps \cup {"none", "failed", "installed", "untidy"},
         At(script, at)
  PROVE  /\ ScriptType'
         /\ script'.at = at
         /\ script.trap = {} /\ script'.trap = {}
         /\ script'.createdXovi = script.createdXovi
         /\ script'.installedAppload = script.installedAppload
         /\ script'.projectCreated = script.projectCreated
         /\ script'.backup = script.backup
BY DEF At, ScriptType

LEMMA StepNames ==
  {"check", "xovi", "save", "copy", "backup", "create", "extract", "bundle", "shelve",
   "prune", "place", "activate", "complete", "tidy"} = Steps
BY DEF Steps

LEMMA TypesScript == Types /\ ScriptStep => Types'
<1> SUFFICES ASSUME Types, ScriptStep PROVE Types'
  OBVIOUS
<1> USE DEF Types, RestType
<1>1. CASE Check \/ CheckXovi \/ Activate \/ Completed
  <2>1. PICK at \in {"xovi", "save", "complete", "tidy"} : At(script, at)
    BY <1>1 DEF Check, CheckXovi, Activate, Completed
  <2>2. ScriptType' /\ script'.at # "place"
    BY <2>1, MovesOn, StepNames
  <2> QED
    BY <1>1, <2>2
    DEF Check, CheckXovi, Activate, Completed, files, ghosts, FilesType, BackupsType,
        RoomForApp
<1>2. CASE CreateXovi
  <2>1. ScriptType' /\ script'.at # "place"
    BY <1>2, StepNames DEF CreateXovi, At, ScriptType
  <2> QED
    BY <1>2, <2>1 DEF CreateXovi, ghosts, FilesType, BackupsType, RoomForApp
<1>3. CASE SaveRuntime
  <2>1. ScriptType' /\ script'.at # "place"
    BY <1>3, StepNames DEF SaveRuntime, At, ScriptType
  <2> QED
    BY <1>3, <2>1
    DEF SaveRuntime, MakeDirectories, ghosts, FilesType, BackupsType, RoomForApp
<1>4. CASE CopyRuntime
  <2>1. PICK at \in {"copy", "backup"} : At(script, at)
    BY <1>4 DEF CopyRuntime
  <2>2. ScriptType' /\ script'.at # "place"
    BY <2>1, MovesOn, StepNames
  <2> QED
    BY <1>4, <2>2 DEF CopyRuntime, ghosts, FilesType, Runtime, BackupsType, RoomForApp
<1>5. CASE BackUpProject
  <2>1. ScriptType' /\ script'.at # "place"
    <3>1. "create" \in Steps
      BY StepNames
    <3>2. \/ script' = [script EXCEPT !.at = "create"]
          \/ script' = [[script EXCEPT !.backup = "there"] EXCEPT !.at = "create"]
      BY <1>5 DEF BackUpProject, At
    <3> QED
      BY <3>1, <3>2 DEF ScriptType
  <2>2. BackupsType'
    BY <1>5, InstallAssumption DEF BackUpProject, FilesType, BackupsType
  <2> QED
    BY <1>5, <2>1, <2>2 DEF BackUpProject, ghosts, FilesType, Content, RoomForApp
<1>6. CASE CreateProject
  <2>1. ScriptType' /\ script'.at # "place"
    BY <1>6, StepNames DEF CreateProject, At, ScriptType
  <2> QED
    BY <1>6, <2>1 DEF CreateProject, ghosts, FilesType, Content, BackupsType, RoomForApp
<1>7. CASE Extract
  <2>1. PICK at \in {"extract", "bundle"} : At(script, at)
    BY <1>7 DEF Extract
  <2>2. ScriptType' /\ script'.at # "place"
    BY <2>1, MovesOn, StepNames
  <2>3. project' \in Content
    BY <1>7, ReleaseFacts DEF Extract, Content, Complete
  <2> QED
    BY <1>7, <2>2, <2>3 DEF Extract, ghosts, FilesType, BackupsType, RoomForApp
<1>8. CASE StageBundle
  <2>1. ScriptType' /\ script'.at # "place"
    BY <1>8, MovesOn, StepNames DEF StageBundle
  <2>2. staged' \in Content
    BY <1>8, ReleaseFacts DEF StageBundle, Content, Complete
  <2> QED
    BY <1>8, <2>1, <2>2 DEF StageBundle, ghosts, FilesType, BackupsType, RoomForApp
<1>9. CASE ShelveApp
  <2>1. ScriptType' /\ script'.at # "place"
    BY <1>9, MovesOn, StepNames DEF ShelveApp
  <2>2. apps' \in 0 .. KeepApps + 1
    BY <1>9, InstallAssumption DEF ShelveApp, BackupsType, RoomForApp
  <2> QED
    BY <1>9, <2>1, <2>2 DEF ShelveApp, ghosts, FilesType, Content, BackupsType, RoomForApp
<1>10. CASE PruneApps
  <2>1. ScriptType'
    BY <1>10, MovesOn, StepNames DEF PruneApps
  <2>2. apps' \in 0 .. KeepApps + 1 /\ apps' <= KeepApps
    BY <1>10, InstallAssumption DEF PruneApps, BackupsType
  <2> QED
    BY <1>10, <2>1, <2>2 DEF PruneApps, ghosts, FilesType, BackupsType, RoomForApp
<1>11. CASE PlaceApp
  <2>1. ScriptType' /\ script'.at # "place"
    BY <1>11, MovesOn, StepNames DEF PlaceApp
  <2> QED
    BY <1>11, <2>1 DEF PlaceApp, ghosts, FilesType, Content, BackupsType, RoomForApp
<1>12. CASE Tidy
  <2>1. PICK at \in {"installed", "untidy"} : At(script, at)
    BY <1>12 DEF Tidy
  <2>2. ScriptType' /\ script'.at # "place"
    BY <2>1, MovesOn
  <2>3. BackupsType'
    <3>1. Newest(sources, 1) \in Seq(Content \ {None}) /\ Len(Newest(sources, 1)) <= 1
      BY NewestType DEF BackupsType
    <3>2. sources' = sources \/ sources' = Newest(sources, 1)
      BY <1>12 DEF Tidy
    <3>3. apps' = apps
      BY <1>12 DEF Tidy
    <3> QED
      BY <3>1, <3>2, <3>3, InstallAssumption DEF BackupsType
  <2> QED
    BY <1>12, <2>2, <2>3 DEF Tidy, ghosts, FilesType, RoomForApp
<1> QED
  BY <1>1, <1>2, <1>3, <1>4, <1>5, <1>6, <1>7, <1>8, <1>9, <1>10, <1>11, <1>12
  DEF ScriptStep

\* rollback, part by part.
LEMMA TypesTrap == Types /\ (TrapStep \/ Fail \/ Signal) => Types'
<1> SUFFICES ASSUME Types, TrapStep \/ Fail \/ Signal PROVE Types'
  OBVIOUS
<1> USE DEF Types, RestType
<1>1. /\ ScriptType'
      /\ script'.at \in {script.at, "failed"}
  <2>1. \/ UNCHANGED script
        \/ \E part \in Parts : script' = [script EXCEPT !.trap = script.trap \ {part}]
        \/ script' = [script EXCEPT !.trap = {}, !.at = "failed"]
        \/ script' = [script EXCEPT !.trap = {}, !.backup = "moved"]
        \/ script' = [script EXCEPT !.at = "failed", !.trap = Due]
        \/ script' = [script EXCEPT !.trap = Due]
    BY DEF TrapStep, RollbackRuntime, RollbackXovi, RollbackProject, RollbackBackup, Over,
           GivesUp, Fail, Signal, Parts
  <2>2. Due \subseteq Parts
    BY DEF Due
  <2> QED
    BY <2>1, <2>2 DEF ScriptType
<1>2. CASE RollbackRuntime
  BY <1>1, <1>2
  DEF RollbackRuntime, Undone, ghosts, FilesType, Runtime, BackupsType, RoomForApp
<1>3. CASE RollbackXovi
  BY <1>1, <1>3
  DEF RollbackXovi, Undone, Removed, ghosts, FilesType, Content, Runtime, BackupsType,
      RoomForApp
<1>4. CASE RollbackProject
  BY <1>1, <1>4
  DEF RollbackProject, Undone, Removed, ghosts, FilesType, Content, BackupsType, RoomForApp
<1>5. CASE RollbackBackup
  <2>1. sources # <<>> => /\ Last(sources) \in Content
                          /\ Front(sources) \in Seq(Content \ {None})
                          /\ Len(Front(sources)) <= MaxSources
    BY LastAndFront, InstallAssumption DEF BackupsType
  <2>2. project' \in Content /\ sources' \in Seq(Content \ {None}) /\ Len(sources') <= MaxSources
    BY <1>5, <2>1 DEF RollbackBackup, FilesType, BackupsType
  <2> QED
    BY <1>1, <1>5, <2>2 DEF RollbackBackup, Undone, ghosts, FilesType, BackupsType, RoomForApp
<1>6. CASE Fail
  BY <1>1, <1>6 DEF Fail, ghosts, FilesType, Content, BackupsType, RoomForApp
<1>7. CASE Signal
  BY <1>1, <1>7 DEF Signal, FilesType, Content, BackupsType, RoomForApp
<1> QED
  BY <1>2, <1>3, <1>4, <1>5, <1>6, <1>7 DEF TrapStep

\* The installer's operations, and what happens to the tablet.
OperationStep ==
  \/ InstallBegins
  \/ UploadFails
  \/ \E v \in Versions : RunScript(v)
  \/ ScriptReturns
  \/ InstallTimesOut
  \/ ScriptEndsAlone
  \/ UninstallApp
  \/ \E purge \in BOOLEAN : UninstallProject(purge)
  \/ PurgeWithoutProject
  \/ Recover

LEMMA NoScriptType ==
  /\ NoScript \in [at : Steps \cup {"none", "failed", "installed", "untidy"},
                   trap : SUBSET Parts, createdXovi : BOOLEAN, installedAppload : BOOLEAN,
                   projectCreated : BOOLEAN, backup : {"unset", "there", "moved"}]
  /\ NoScript.at = "none" /\ NoScript.trap = {} /\ ~NoScript.createdXovi
  /\ ~NoScript.installedAppload /\ ~NoScript.projectCreated
BY DEF NoScript

LEMMA TypesOperation == Types /\ OperationStep => Types'
<1> SUFFICES ASSUME Types, OperationStep PROVE Types'
  OBVIOUS
<1> USE DEF Types, RestType
<1>1. CASE InstallBegins
  BY <1>1
  DEF InstallBegins, Meets, files, FilesType, Content, Runtime, BackupsType, RoomForApp,
      ScriptType
<1>2. CASE UploadFails \/ InstallTimesOut
  BY <1>2
  DEF UploadFails, InstallTimesOut, files, ghosts, FilesType, BackupsType, RoomForApp,
      ScriptType
<1>3. ASSUME NEW v \in Versions, RunScript(v) PROVE Types'
  <2>1. ScriptType' /\ script'.at # "place"
    BY <1>3, StepNames DEF RunScript, NoScript, ScriptType
  <2> QED
    BY <1>3, <2>1
    DEF RunScript, FilesType, Content, Complete, BackupsType, RoomForApp
<1>4. CASE ScriptReturns \/ ScriptEndsAlone
  <2>1. /\ ScriptGone /\ UNCHANGED <<files, durable>>
        /\ server' \in {server, "idle"}
    BY <1>4 DEF ScriptReturns, ScriptEndsAlone
  <2>2. FilesType' /\ BackupsType' /\ RoomForApp'
    BY <2>1, NoScriptType
    DEF ScriptGone, files, FilesType, Content, Runtime, BackupsType, RoomForApp
  <2>3. ScriptType' /\ disturbed' \in BOOLEAN
    BY <2>1, NoScriptType DEF ScriptGone, ScriptType
  <2> QED
    BY <2>1, <2>2, <2>3
<1>5. CASE UninstallApp \/ Recover
  BY <1>5
  DEF UninstallApp, Recover, Removed, Meets, ScriptType, FilesType, Content, BackupsType,
      RoomForApp
<1>6. ASSUME NEW purge \in BOOLEAN, UninstallProject(purge) \/ PurgeWithoutProject
      PROVE  Types'
  <2>1. apps \in 0 .. KeepApps + 1 /\ (apps' = apps \/ apps' = 0)
    BY <1>6 DEF UninstallProject, PurgeWithoutProject, Forgotten, BackupsType
  <2>2. BackupsType'
    <3>1. sources' = sources \/ sources' = <<>>
      BY <1>6 DEF UninstallProject, PurgeWithoutProject, Forgotten
    <3> QED
      BY <2>1, <3>1, EmptyType, InstallAssumption DEF BackupsType
  <2>3. RoomForApp'
    BY <1>6, <2>1, InstallAssumption
    DEF UninstallProject, PurgeWithoutProject, Forgotten, Removed, RoomForApp
  <2>4. FilesType' /\ RestType'
    BY <1>6
    DEF UninstallProject, PurgeWithoutProject, Forgotten, Removed, Meets, ScriptType,
        FilesType, Content
  <2> QED
    BY <2>2, <2>3, <2>4
<1> QED
  BY <1>1, <1>2, <1>3, <1>4, <1>5, <1>6 DEF OperationStep

LEMMA TypesTablet == Types /\ (Writeback \/ PowerLoss) => Types'
<1> SUFFICES ASSUME Types, Writeback \/ PowerLoss PROVE Types'
  OBVIOUS
<1> USE DEF Types, RestType
<1>1. PICK fate \in {WrittenBack, LosesPower} : FilesBecome(fate)
  BY DEF Writeback, PowerLoss
<1>2. project' \in Content /\ app' \in Content /\ (app' = None <=> app = None)
  BY <1>1, FateFacts DEF FilesBecome, FilesType
<1>3. sources' \in Seq(Content \ {None}) /\ Len(sources') = Len(sources)
  BY <1>1, FateOfBackups DEF FilesBecome, BackupsType
<1>4. staged' \in Content
  BY FateFacts DEF Writeback, PowerLoss, FilesType, Content
<1>5. BackupsType'
  BY <1>1, <1>3 DEF FilesBecome, BackupsType
<1>6. ScriptType' /\ (script'.at = script.at \/ script'.at = "none")
  BY NoScriptType DEF Writeback, PowerLoss, ScriptGone, ScriptType
<1>7. RoomForApp'
  BY <1>1, <1>2, <1>6 DEF FilesBecome, RoomForApp
<1>8. FilesType'
  BY <1>1, <1>2, <1>4
  DEF Writeback, PowerLoss, ScriptGone, FilesBecome, FilesType, Content, Runtime
<1>9. server' \in {"idle", "upload", "install", "uninstall"}
  BY DEF Writeback, PowerLoss
<1>10. disturbed' \in BOOLEAN
  BY DEF Writeback, PowerLoss, ScriptGone
<1>11. durable' \in BOOLEAN
  <2>1. CASE PowerLoss
    BY <2>1 DEF PowerLoss
  <2>2. CASE Writeback
    BY <2>2, Zenon DEF Writeback
  <2> QED
    BY <2>1, <2>2
<1> QED
  BY <1>5, <1>6, <1>7, <1>8, <1>9, <1>10, <1>11

LEMMA TypesStep == Types /\ [Next]_vars => Types'
<1>1. Types /\ UNCHANGED vars => Types'
  BY DEF vars, Types, FilesType, BackupsType, RestType, ScriptType, RoomForApp
<1> QED
  BY <1>1, TypesScript, TypesTrap, TypesOperation, TypesTablet DEF Next, OperationStep

LEMMA TypesHold == Spec => []Types
BY TypesInit, TypesStep, PTL DEF Spec

\* Every value stays in its type, for any releases and limits on the backups; in
\* particular one app backup more than install.sh keeps is the most there ever is,
\* however often an install fails between shelving the app and pruning the backups.
THEOREM InstallTypes == Spec => []TypeOK
<1>1. Types => TypeOK
  BY TypeParts DEF Types
<1> QED
  BY <1>1, TypesHold, PTL

-----------------------------------------------------------------------------
(* The bundle AppLoad sees. *)

\* install.sh copies its bundle from a complete project only.
StagedWhole == staged # Torn

LEMMA StagedWholeStep == Types /\ StagedWhole /\ [Next]_vars => StagedWhole'
<1> SUFFICES ASSUME Types, StagedWhole, [Next]_vars PROVE StagedWhole'
  OBVIOUS
<1> USE DEF StagedWhole
<1>1. CASE UNCHANGED vars
  BY <1>1 DEF vars
<1>2. CASE ScriptStep
  <2>1. CASE StageBundle
    BY <2>1, ReleaseFacts DEF StageBundle, Complete
  <2>2. CASE PlaceApp
    BY <2>2, InstallAssumption DEF PlaceApp
  <2>3. CASE Check \/ CreateXovi \/ CheckXovi \/ SaveRuntime \/ CopyRuntime
    BY <2>3 DEF Check, CreateXovi, CheckXovi, SaveRuntime, CopyRuntime, files
  <2>4. CASE BackUpProject \/ CreateProject \/ Extract \/ ShelveApp \/ PruneApps
    BY <2>4 DEF BackUpProject, CreateProject, Extract, ShelveApp, PruneApps
  <2>5. CASE Activate \/ Completed \/ Tidy
    BY <2>5 DEF Activate, Completed, Tidy, files
  <2> QED
    BY <1>2, <2>1, <2>2, <2>3, <2>4, <2>5 DEF ScriptStep
<1>3. CASE TrapStep \/ Fail \/ Signal
  BY <1>3, InstallAssumption
  DEF TrapStep, RollbackRuntime, RollbackXovi, RollbackProject, RollbackBackup, Undone, Fail,
      Signal
<1>4. CASE OperationStep
  BY <1>4, InstallAssumption
  DEF OperationStep, InstallBegins, UploadFails, RunScript, ScriptReturns, InstallTimesOut,
      ScriptEndsAlone, UninstallApp, UninstallProject, PurgeWithoutProject, Recover, files
<1>5. CASE Writeback
  <2>1. staged \in Content /\ staged' \in WrittenBack[staged]
    BY <1>5 DEF Writeback, Types, FilesType
  <2> QED
    BY <2>1, FateFacts
<1>6. CASE PowerLoss
  BY <1>6, InstallAssumption DEF PowerLoss
<1> QED
  BY <1>1, <1>2, <1>3, <1>4, <1>5, <1>6 DEF Next, OperationStep

\* What one step does to the bundle AppLoad sees.
LEMMA AppStep ==
  ASSUME Types, StagedWhole, [Next]_vars, app # Torn, app' = Torn
  PROVE  \/ UninstallApp
         \/ PurgeWithoutProject
         \/ RollbackXovi /\ xovi' = "partial"
         \/ PowerLoss /\ app \in Copies
<1>1. CASE UNCHANGED vars
  BY <1>1 DEF vars
<1>2. CASE ScriptStep
  <2>1. CASE PlaceApp
    BY <2>1 DEF PlaceApp, StagedWhole
  <2>2. CASE ShelveApp
    BY <2>2, InstallAssumption DEF ShelveApp
  <2>3. CASE Check \/ CreateXovi \/ CheckXovi \/ SaveRuntime \/ CopyRuntime
    BY <2>3 DEF Check, CreateXovi, CheckXovi, SaveRuntime, CopyRuntime, files
  <2>4. CASE BackUpProject \/ CreateProject \/ Extract \/ StageBundle \/ PruneApps
    BY <2>4 DEF BackUpProject, CreateProject, Extract, StageBundle, PruneApps
  <2>5. CASE Activate \/ Completed \/ Tidy
    BY <2>5 DEF Activate, Completed, Tidy, files
  <2> QED
    BY <1>2, <2>1, <2>2, <2>3, <2>4, <2>5 DEF ScriptStep
<1>3. CASE RollbackXovi
  BY <1>3, InstallAssumption DEF RollbackXovi
<1>4. CASE RollbackRuntime \/ RollbackProject \/ RollbackBackup \/ Fail \/ Signal
  BY <1>4 DEF RollbackRuntime, RollbackProject, RollbackBackup, Fail, Signal
<1>5. CASE OperationStep
  BY <1>5, InstallAssumption
  DEF OperationStep, InstallBegins, UploadFails, RunScript, ScriptReturns, InstallTimesOut,
      ScriptEndsAlone, UninstallProject, Recover, files
<1>6. CASE Writeback \/ PowerLoss
  <2>1. PICK fate \in {WrittenBack, LosesPower} :
          FilesBecome(fate) /\ (fate = WrittenBack \/ PowerLoss)
    BY <1>6 DEF Writeback, PowerLoss
  <2>2. app \in Content /\ app' \in fate[app]
    BY <2>1 DEF FilesBecome, Types, FilesType
  <2> QED
    BY <2>1, <2>2, FateFacts
<1> QED
  BY <1>1, <1>2, <1>3, <1>4, <1>5, <1>6 DEF Next, TrapStep, OperationStep

\* Half a bundle where AppLoad looks comes from a removal cut short, a rollback's
\* included, or from a loss of power over a bundle not written back: for any releases,
\* and in whatever state the install found the tablet.
THEOREM AppIsNeverTorn == Spec => AppNeverTorn
<1>1. Types /\ StagedWhole /\ [Next]_vars
        => [app # Torn /\ app' = Torn
              => \/ UninstallApp
                 \/ PurgeWithoutProject
                 \/ RollbackXovi /\ xovi' = "partial"
                 \/ PowerLoss /\ app \in Copies]_vars
  BY AppStep
<1>2. Init => StagedWhole
  BY InstallAssumption DEF Init, StagedWhole
<1> QED
  BY <1>1, <1>2, TypesHold, StagedWholeStep, PTL DEF Spec, AppNeverTorn

-----------------------------------------------------------------------------
(* The runtime a failing script puts back. *)

\* AppLoad's extension lives in XOVI: without the one there is not the other.
\* A script beyond "xovi" that has not created XOVI found one.  Undisturbed, only a
\* script that has failed rolls back.
NoLooseRuntime ==
  /\ xovi = "none" => appload = "none"
  /\ ~script.createdXovi /\ (script.installedAppload \/ script.at = "save")
       => xovi # "none"
  /\ "xovi" \in script.trap => script.createdXovi
  /\ ~disturbed /\ script.trap # {} => script.at = "failed"

\* While nothing has disturbed the script: what its two flags say of the runtime it
\* found.  Until the first copy nothing but a XOVI of its own can have changed; from
\* then on the rollback directory holds what was there.
FlagsTell ==
  ~disturbed /\ script.at \in Steps =>
    /\ script.trap = {}
    /\ script.createdXovi => before.xovi = "none" /\ before.appload = "none"
    /\ ~script.createdXovi => xovi = before.xovi
    /\ ~script.installedAppload => appload = before.appload
    /\ script.installedAppload => copies = before.appload
    /\ script.at = "save" => ~script.installedAppload
    /\ script.at \in {"check", "xovi"} => ~script.installedAppload
    /\ script.at = "copy" => script.installedAppload
    /\ script.at \in {"backup", "create", "extract", "bundle", "shelve", "prune", "place"}
         => script.installedAppload

\* What is still to be done of the rollback of a script that has failed by itself.
TrapTells ==
  ~disturbed /\ script.at = "failed" =>
    /\ script.createdXovi =>
         /\ before.xovi = "none" /\ before.appload = "none"
         /\ "runtime" \in script.trap => "xovi" \in script.trap
         /\ "xovi" \notin script.trap => xovi = "none"
    /\ ~script.createdXovi =>
         /\ xovi = before.xovi
         /\ "runtime" \in script.trap => script.installedAppload /\ copies = before.appload
         /\ "runtime" \notin script.trap => appload = before.appload

RuntimeInv == NoLooseRuntime /\ FlagsTell /\ TrapTells

LEMMA RuntimeInvInit == Init => RuntimeInv
BY NoScriptType, StepNames DEF Init, RuntimeInv, NoLooseRuntime, FlagsTell, TrapTells, Steps

\* A step of the script that leaves the runtime alone and only moves on.
LEMMA RuntimeStays ==
  ASSUME Types, RuntimeInv, UNCHANGED <<copies, xovi, appload, disturbed, before>>,
         ScriptType', script'.trap = {},
         script'.createdXovi = script.createdXovi,
         script'.installedAppload = script.installedAppload,
         \/ script.at = "check" /\ script'.at = "xovi"
         \/ /\ script.at \in {"backup", "create", "extract", "bundle", "shelve", "prune",
                              "place", "activate", "complete", "tidy"}
            /\ script'.at \in {"create", "extract", "bundle", "shelve", "prune", "place",
                               "activate", "complete", "tidy", "installed", "untidy"}
            /\ script'.at \in {"create", "extract", "bundle", "shelve", "prune", "place"}
                 => script.at \in {"backup", "create", "extract", "bundle", "shelve",
                                   "prune"}
  PROVE  RuntimeInv'
BY StepNames DEF RuntimeInv, NoLooseRuntime, FlagsTell, TrapTells

LEMMA RuntimeScript == Types /\ RuntimeInv /\ ScriptStep => RuntimeInv'
<1> SUFFICES ASSUME Types, RuntimeInv, ScriptStep PROVE RuntimeInv'
  OBVIOUS
<1>0. ScriptType
  BY DEF Types, RestType
<1>1. CASE Check \/ Extract \/ StageBundle \/ ShelveApp \/ PruneApps \/ PlaceApp
           \/ Activate \/ Completed \/ Tidy
  <2>1. UNCHANGED <<copies, xovi, appload, disturbed, before>>
    BY <1>1 DEF Check, Extract, StageBundle, ShelveApp, PruneApps, PlaceApp, Activate,
                Completed, Tidy, files, ghosts
  <2>2. PICK at \in Steps \cup {"installed", "untidy"} :
          /\ At(script, at)
          /\ \/ script.at = "check" /\ at = "xovi"
             \/ script.at = "extract" /\ at \in {"extract", "bundle"}
             \/ script.at = "bundle" /\ at = "shelve"
             \/ script.at = "shelve" /\ at = "prune"
             \/ script.at = "prune" /\ at = "place"
             \/ script.at = "place" /\ at = "activate"
             \/ script.at = "activate" /\ at = "complete"
             \/ script.at = "complete" /\ at = "tidy"
             \/ script.at = "tidy" /\ at \in {"installed", "untidy"}
    BY <1>1, StepNames
    DEF Check, Extract, StageBundle, ShelveApp, PruneApps, PlaceApp, Activate, Completed, Tidy
  <2> QED
    BY <1>0, <2>1, <2>2, MovesOn, RuntimeStays
<1>2. CASE BackUpProject \/ CreateProject
  <2>1. UNCHANGED <<copies, xovi, appload, disturbed, before>>
    BY <1>2 DEF BackUpProject, CreateProject, ghosts
  <2>2. /\ ScriptType'
        /\ script.at \in {"backup", "create"} /\ script'.at \in {"create", "extract"}
        /\ script.trap = {} /\ script'.trap = {}
        /\ script'.createdXovi = script.createdXovi
        /\ script'.installedAppload = script.installedAppload
    <3>1. /\ script.at \in {"backup", "create"} /\ script.trap = {}
          /\ \/ script' = [script EXCEPT !.at = "create"]
             \/ script' = [[script EXCEPT !.backup = "there"] EXCEPT !.at = "create"]
             \/ script' = [[script EXCEPT !.projectCreated = TRUE] EXCEPT !.at = "extract"]
      BY <1>0, <1>2 DEF BackUpProject, CreateProject, At, ScriptType
    <3> QED
      BY <1>0, <3>1, StepNames DEF ScriptType
  <2> QED
    BY <2>1, <2>2, RuntimeStays
<1>3. CASE CreateXovi
  <2>1. /\ script.at = "xovi" /\ script'.at = "xovi"
        /\ script.trap = {} /\ script'.trap = {}
        /\ script'.createdXovi
        /\ script'.installedAppload = script.installedAppload
    BY <1>0, <1>3 DEF CreateXovi, At, ScriptType
  <2> QED
    BY <1>3, <2>1, StepNames
    DEF CreateXovi, ghosts, RuntimeInv, NoLooseRuntime, FlagsTell, TrapTells
<1>4. CASE CheckXovi
  <2>1. At(script, "save") /\ "save" \in Steps
    BY <1>4, StepNames DEF CheckXovi
  <2> QED
    BY <1>0, <1>4, <2>1, MovesOn, StepNames
    DEF CheckXovi, files, ghosts, RuntimeInv, NoLooseRuntime, FlagsTell, TrapTells
<1>5. CASE SaveRuntime
  <2>1. /\ script.at = "save" /\ script'.at = "copy"
        /\ script.trap = {} /\ script'.trap = {}
        /\ script'.createdXovi = script.createdXovi
        /\ script'.installedAppload
    BY <1>0, <1>5 DEF SaveRuntime, At, ScriptType
  <2>2. NoLooseRuntime'
    BY <1>5, <2>1 DEF SaveRuntime, MakeDirectories, RuntimeInv, NoLooseRuntime
  <2>3. FlagsTell' /\ TrapTells'
    BY <1>5, <2>1, StepNames
    DEF SaveRuntime, MakeDirectories, ghosts, RuntimeInv, NoLooseRuntime, FlagsTell,
        TrapTells
  <2> QED
    BY <2>2, <2>3 DEF RuntimeInv
<1>6. CASE CopyRuntime
  <2>1. PICK at \in {"copy", "backup"} : At(script, at)
    BY <1>6 DEF CopyRuntime
  <2>2. /\ script.at = "copy" /\ script'.at \in {"copy", "backup"}
        /\ script.trap = {} /\ script'.trap = {}
        /\ script'.createdXovi = script.createdXovi
        /\ script'.installedAppload = script.installedAppload
        /\ UNCHANGED <<copies, xovi, before, disturbed>>
        /\ xovi = "ok"
    BY <1>0, <1>6, <2>1, MovesOn, StepNames DEF CopyRuntime, ghosts
  <2>3. NoLooseRuntime' /\ TrapTells'
    BY <2>2 DEF RuntimeInv, NoLooseRuntime, TrapTells
  <2>4. ~disturbed => script.installedAppload
    BY <2>2, StepNames DEF RuntimeInv, FlagsTell
  <2>5. FlagsTell'
    BY <2>2, <2>4, StepNames DEF RuntimeInv, FlagsTell
  <2> QED
    BY <2>3, <2>5 DEF RuntimeInv
<1> QED
  BY <1>1, <1>2, <1>3, <1>4, <1>5, <1>6 DEF ScriptStep

LEMMA RuntimeTrap ==
  Types /\ RuntimeInv /\ (TrapStep \/ Fail \/ Signal) => RuntimeInv'
<1> SUFFICES ASSUME Types, RuntimeInv, TrapStep \/ Fail \/ Signal PROVE RuntimeInv'
  OBVIOUS
<1>0. ScriptType
  BY DEF Types, RestType
<1>1. CASE RollbackRuntime
  <2>1. /\ "runtime" \in script.trap
        /\ UNCHANGED <<copies, xovi, before, disturbed>>
        /\ script'.createdXovi = script.createdXovi
        /\ script'.installedAppload = script.installedAppload
        /\ \/ script' = script /\ xovi # "none"
           \/ /\ script'.at = script.at /\ script'.trap = script.trap \ {"runtime"}
              /\ \/ xovi # "none" /\ appload' = copies
                 \/ xovi = "none" /\ appload' = appload
           \/ /\ script'.at = "failed" /\ script'.trap = {}
              /\ xovi = "none" /\ appload' = appload
    BY <1>0, <1>1 DEF RollbackRuntime, Undone, Over, GivesUp, ghosts, ScriptType
  <2>2. NoLooseRuntime'
    BY <2>1 DEF RuntimeInv, NoLooseRuntime
  <2>3. ~disturbed => script.at = "failed" /\ "failed" \notin Steps
    BY <2>1, StepNames DEF RuntimeInv, NoLooseRuntime
  <2>4. FlagsTell'
    BY <2>1, <2>3 DEF FlagsTell
  <2>5. CASE script.createdXovi
    BY <2>1, <2>2, <2>3, <2>4, <2>5 DEF RuntimeInv, TrapTells
  <2>6. CASE ~script.createdXovi
    <3>1. ~disturbed => xovi # "none" /\ copies = before.appload /\ xovi = before.xovi
      BY <2>1, <2>3, <2>6 DEF RuntimeInv, NoLooseRuntime, TrapTells
    <3>2. TrapTells'
      BY <2>1, <2>3, <2>6, <3>1 DEF RuntimeInv, TrapTells
    <3> QED
      BY <2>2, <2>4, <3>2 DEF RuntimeInv
  <2> QED
    BY <2>5, <2>6
<1>2. CASE RollbackXovi
  <2>1. /\ "xovi" \in script.trap /\ "runtime" \notin script.trap
        /\ UNCHANGED <<copies, before, disturbed>>
        /\ appload' = "none"
        /\ script'.createdXovi = script.createdXovi
        /\ script'.installedAppload = script.installedAppload
        /\ script'.at = script.at
        /\ \/ script' = script /\ xovi' = "partial"
           \/ script'.trap = script.trap \ {"xovi"} /\ xovi' = "none"
    BY <1>0, <1>2 DEF RollbackXovi, Undone, Over, ghosts, ScriptType
  <2> QED
    BY <2>1, StepNames DEF RuntimeInv, NoLooseRuntime, FlagsTell, TrapTells
<1>3. CASE RollbackProject
  <2>1. /\ "project" \in script.trap
        /\ UNCHANGED <<copies, xovi, appload, before, disturbed>>
        /\ script'.createdXovi = script.createdXovi
        /\ script'.installedAppload = script.installedAppload
        /\ script'.at = script.at
        /\ script' = script \/ script'.trap = script.trap \ {"project"}
    BY <1>0, <1>3 DEF RollbackProject, Undone, Over, ghosts, ScriptType
  <2> QED
    BY <2>1, StepNames DEF RuntimeInv, NoLooseRuntime, FlagsTell, TrapTells
<1>4. CASE RollbackBackup
  <2>1. /\ script.trap = {"backup"} /\ script'.trap = {}
        /\ UNCHANGED <<copies, xovi, appload, before, disturbed>>
        /\ script'.createdXovi = script.createdXovi
        /\ script'.installedAppload = script.installedAppload
        /\ script'.at \in {script.at, "failed"}
    BY <1>0, <1>4 DEF RollbackBackup, Undone, GivesUp, ghosts, ScriptType
  <2> QED
    BY <2>1, StepNames DEF RuntimeInv, NoLooseRuntime, FlagsTell, TrapTells
<1>5. CASE Fail
  <2>1. /\ script'.at = "failed" /\ script'.trap = Due
        /\ script'.createdXovi = script.createdXovi
        /\ script'.installedAppload = script.installedAppload
        /\ UNCHANGED <<copies, xovi, appload, before, disturbed>>
        /\ script.at \in Steps \ {"activate", "complete", "tidy"} /\ script.trap = {}
    BY <1>0, <1>5 DEF Fail, Running, ghosts, ScriptType
  <2>2. /\ "runtime" \in Due <=> script.installedAppload
        /\ "xovi" \in Due <=> script.createdXovi
    BY DEF Due, Parts
  <2> QED
    BY <2>1, <2>2, StepNames DEF RuntimeInv, NoLooseRuntime, FlagsTell, TrapTells
<1>6. CASE Signal
  <2>1. /\ script'.at = script.at
        /\ script'.createdXovi = script.createdXovi
        /\ script'.installedAppload = script.installedAppload
        /\ UNCHANGED <<xovi, appload>> /\ disturbed'
        /\ "xovi" \in script'.trap => "xovi" \in script.trap \/ "xovi" \in Due
    BY <1>0, <1>6 DEF Signal, ScriptType
  <2>2. "xovi" \in Due => script.createdXovi
    BY DEF Due
  <2> QED
    BY <2>1, <2>2 DEF RuntimeInv, NoLooseRuntime, FlagsTell, TrapTells
<1> QED
  BY <1>1, <1>2, <1>3, <1>4, <1>5, <1>6 DEF TrapStep

LEMMA RuntimeInvStep == Types /\ RuntimeInv /\ [Next]_vars => RuntimeInv'
<1> SUFFICES ASSUME Types, RuntimeInv, [Next]_vars PROVE RuntimeInv'
  OBVIOUS
<1>1. CASE UNCHANGED vars
  BY <1>1 DEF vars, RuntimeInv, NoLooseRuntime, FlagsTell, TrapTells
<1>2. CASE ScriptStep \/ TrapStep \/ Fail \/ Signal
  BY <1>2, RuntimeScript, RuntimeTrap
<1>3. ASSUME NEW v \in Versions, RunScript(v) PROVE RuntimeInv'
  <2>1. /\ script'.at = "check" /\ script'.trap = {}
        /\ ~script'.createdXovi
        /\ ~script'.installedAppload
    BY <1>3 DEF RunScript, NoScript
  <2> QED
    BY <1>3, <2>1, StepNames
    DEF RunScript, Now, RuntimeInv, NoLooseRuntime, FlagsTell, TrapTells
<1>4. CASE ScriptReturns \/ ScriptEndsAlone \/ PowerLoss
  <2>1. script' = NoScript /\ (xovi' = "none" => xovi = "none")
        /\ (xovi = "none" => appload' = appload \/ appload # "none")
    BY <1>4 DEF ScriptReturns, ScriptEndsAlone, PowerLoss, ScriptGone, files
  <2> QED
    BY <2>1, NoScriptType, StepNames
    DEF RuntimeInv, NoLooseRuntime, FlagsTell, TrapTells, Steps
<1>5. CASE UploadFails \/ InstallTimesOut \/ Writeback
  BY <1>5 DEF UploadFails, InstallTimesOut, Writeback, files, ghosts, RuntimeInv,
     NoLooseRuntime, FlagsTell, TrapTells
<1>6. CASE \/ InstallBegins \/ UninstallApp \/ PurgeWithoutProject \/ Recover
           \/ \E purge \in BOOLEAN : UninstallProject(purge)
  <2>1. Meets /\ UNCHANGED <<xovi, appload, script>>
    BY <1>6 DEF InstallBegins, UninstallApp, PurgeWithoutProject, Recover,
       UninstallProject, Forgotten, files
  <2>2. script.at # "none" \/ disturbed => disturbed'
    BY <2>1 DEF Meets
  <2> QED
    BY <2>1, <2>2, StepNames DEF RuntimeInv, NoLooseRuntime, FlagsTell, TrapTells
<1> QED
  BY <1>1, <1>2, <1>3, <1>4, <1>5, <1>6 DEF Next

\* A script that fails by itself, at any command, has put back the runtime it found when
\* its rollback is over, the AppLoad of somebody else included, and removed a XOVI it
\* had created.
THEOREM FailuresRestoreRuntime == Spec => []FailureRestoresRuntime
<1>1. Types /\ RuntimeInv => FailureRestoresRuntime
  BY DEF RuntimeInv, NoLooseRuntime, TrapTells, FailureRestoresRuntime
<1> QED
  BY <1>1, TypesHold, RuntimeInvInit, RuntimeInvStep, PTL DEF Spec

-----------------------------------------------------------------------------
(* What a script that nobody disturbs has done, by where it stands. *)

Placed == {"activate", "complete", "tidy", "installed", "untidy"}
Bundled == {"shelve", "prune", "place"}
Extracted == {"bundle"} \cup Bundled \cup Placed
Copied == {"backup", "create", "extract"} \cup Extracted

\* A complete copy of the release in the staging directory.
Staged(c) == stage \in Versions /\ c \in {stage, Unsynced(stage)}

Done ==
  ~disturbed =>
    /\ script.at \in {"save", "copy"} \cup Copied => xovi = "ok"
    /\ script.at \in Copied => appload = "ours"
    /\ script.at \in Extracted => Staged(project)
    /\ script.at \in Bundled => Staged(staged)
    /\ script.at \in Placed => Staged(app)
    /\ script.trap # {} => script.at = "failed"

LEMMA DoneInit == Init => Done
BY NoScriptType DEF Init, NoScript, Done, Copied, Extracted, Bundled, Placed

\* The kernel's writing back makes no other release of a copy.
LEMMA StagedStays ==
  ASSUME NEW c \in Content, NEW d \in WrittenBack[c], Staged(c) PROVE Staged(d)
BY FateFacts, ReleaseFacts DEF Staged, WrittenBack

LEMMA DoneScript == Types /\ Done /\ ScriptStep => Done'
<1> SUFFICES ASSUME Types, Done, ScriptStep PROVE Done'
  OBVIOUS
<1> USE DEF Copied, Extracted, Bundled, Placed
<1>0. ScriptType
  BY DEF Types, RestType
<1>1. CASE Check \/ CheckXovi
  <2>1. /\ At(script, "xovi") \/ (At(script, "save") /\ xovi = "ok")
        /\ UNCHANGED <<stage, files, disturbed>>
    BY <1>1 DEF Check, CheckXovi, files, ghosts
  <2> QED
    BY <1>0, <2>1, MovesOn, StepNames DEF Done, Staged, files
<1>2. CASE CreateXovi
  BY <1>2, <1>0 DEF CreateXovi, At, ScriptType, ghosts, Done
<1>3. CASE SaveRuntime
  <2>1. script'.at = "copy" /\ script.at = "save" /\ script'.trap = {}
    BY <1>3, <1>0 DEF SaveRuntime, At, ScriptType
  <2> QED
    BY <1>3, <2>1 DEF SaveRuntime, MakeDirectories, ghosts, Done
<1>4. CASE CopyRuntime
  <2>1. /\ xovi' = "ok" /\ script'.trap = {}
        /\ script'.at = "copy" \/ (script'.at = "backup" /\ appload' = "ours")
    BY <1>4, <1>0 DEF CopyRuntime, At, ScriptType
  <2> QED
    BY <2>1 DEF Done
<1>5. CASE BackUpProject \/ CreateProject
  <2>1. /\ script.at \in {"backup", "create"} /\ script'.at \in {"create", "extract"}
        /\ script'.trap = {}
    BY <1>5, <1>0 DEF BackUpProject, CreateProject, At, ScriptType
  <2>2. UNCHANGED <<xovi, appload, disturbed>>
    BY <1>5 DEF BackUpProject, CreateProject, ghosts
  <2> QED
    BY <2>1, <2>2 DEF Done
<1>6. CASE Extract
  <2>1. /\ script.at = "extract" /\ script'.trap = {}
        /\ \/ script'.at = "extract"
           \/ script'.at = "bundle" /\ Staged(project)'
    BY <1>6, <1>0 DEF Extract, At, ScriptType, Staged
  <2>2. UNCHANGED <<xovi, appload, disturbed>>
    BY <1>6 DEF Extract, ghosts
  <2> QED
    BY <2>1, <2>2 DEF Done
<1>7. CASE StageBundle
  <2>1. /\ script.at = "bundle" /\ script'.at = "shelve" /\ script'.trap = {}
        /\ UNCHANGED <<stage, project, xovi, appload, disturbed>>
        /\ staged' = Unsynced(Release(project))
    BY <1>7, <1>0 DEF StageBundle, At, ScriptType, ghosts
  <2>2. ~disturbed => Staged(project)' /\ Staged(staged)'
    BY <2>1, ReleaseFacts DEF Done, Staged
  <2> QED
    BY <2>1, <2>2 DEF Done
<1>8. CASE ShelveApp \/ PruneApps \/ PlaceApp
  <2>1. /\ script.at \in Bundled /\ script'.trap = {}
        /\ \/ script'.at \in Bundled /\ staged' = staged
           \/ script'.at = "activate" /\ app' = staged
        /\ UNCHANGED <<stage, project, xovi, appload, disturbed>>
    BY <1>8, <1>0 DEF ShelveApp, PruneApps, PlaceApp, At, ScriptType, ghosts
  <2>2. ~disturbed => Staged(project)' /\ (script'.at \in Bundled => Staged(staged)')
                      /\ (script'.at = "activate" => Staged(app)')
    BY <2>1 DEF Done, Staged
  <2> QED
    BY <2>1, <2>2 DEF Done
<1>9. CASE Activate \/ Completed \/ Tidy
  <2>1. /\ script.at \in Placed /\ script'.at \in Placed /\ script'.trap = {}
        /\ UNCHANGED <<stage, app, project, xovi, appload, disturbed>>
    BY <1>9, <1>0 DEF Activate, Completed, Tidy, At, ScriptType, files, ghosts
  <2> QED
    BY <2>1 DEF Done, Staged
<1> QED
  BY <1>1, <1>2, <1>3, <1>4, <1>5, <1>6, <1>7, <1>8, <1>9 DEF ScriptStep

LEMMA DoneStep == Types /\ Done /\ [Next]_vars => Done'
<1> SUFFICES ASSUME Types, Done, [Next]_vars PROVE Done'
  OBVIOUS
<1> USE DEF Copied, Extracted, Bundled, Placed
<1>0. ScriptType
  BY DEF Types, RestType
<1>1. CASE UNCHANGED vars
  BY <1>1 DEF vars, Done, Staged
<1>2. CASE ScriptStep
  BY <1>2, DoneScript
<1>3. CASE TrapStep
  <2>1. script.trap # {} /\ disturbed' = disturbed
    BY <1>3
    DEF TrapStep, RollbackRuntime, RollbackXovi, RollbackProject, RollbackBackup, Undone, ghosts
  <2>2. script'.at \in {script.at, "failed"}
    BY <1>3, <1>0
    DEF TrapStep, RollbackRuntime, RollbackXovi, RollbackProject, RollbackBackup, Over, GivesUp,
        ScriptType
  <2>3. ~disturbed => script'.at = "failed"
    BY <2>1, <2>2 DEF Done
  <2> QED
    BY <2>1, <2>3 DEF Done
<1>4. CASE Fail
  <2>1. script'.at = "failed"
    BY <1>4, <1>0 DEF Fail, ScriptType
  <2> QED
    BY <2>1 DEF Done
<1>5. CASE Signal
  BY <1>5 DEF Signal, Done
<1>6. ASSUME NEW v \in Versions, RunScript(v) PROVE Done'
  BY <1>6 DEF RunScript, NoScript, Done
<1>7. CASE UploadFails \/ InstallTimesOut
  BY <1>7 DEF UploadFails, InstallTimesOut, files, ghosts, Done, Staged
<1>8. CASE ScriptReturns \/ ScriptEndsAlone \/ PowerLoss
  BY <1>8 DEF ScriptReturns, ScriptEndsAlone, PowerLoss, ScriptGone, NoScript, Done
<1>9. CASE \/ InstallBegins \/ UninstallApp \/ PurgeWithoutProject \/ Recover
           \/ \E purge \in BOOLEAN : UninstallProject(purge)
  <2>1. disturbed' = (disturbed \/ script.at # "none") /\ UNCHANGED script
    BY <1>9 DEF InstallBegins, UninstallApp, PurgeWithoutProject, Recover,
       UninstallProject, Forgotten, Meets
  <2> QED
    BY <2>1 DEF Done
<1>10. CASE Writeback
  <2>1. UNCHANGED <<stage, xovi, appload, script, disturbed>>
    BY <1>10 DEF Writeback
  <2>2. /\ project \in Content /\ app \in Content /\ staged \in Content
        /\ project' \in WrittenBack[project] /\ app' \in WrittenBack[app]
        /\ staged' \in WrittenBack[staged]
    BY <1>10 DEF Writeback, FilesBecome, Types, FilesType
  <2>3. /\ Staged(project) => Staged(project)'
        /\ Staged(app) => Staged(app)'
        /\ Staged(staged) => Staged(staged)'
    <3>1. \A c, d : Staged(c) /\ c \in Content /\ d \in WrittenBack[c] => Staged(d)
      BY StagedStays
    <3> QED
      BY <2>1, <2>2, <3>1 DEF Staged
  <2> QED
    BY <2>1, <2>3 DEF Done
<1> QED
  BY <1>1, <1>2, <1>3, <1>4, <1>5, <1>6, <1>7, <1>8, <1>9, <1>10 DEF Next

\* What the installer reports as installed is there as a whole, and of one release.
THEOREM SuccessesAreComplete == Spec => []SuccessIsComplete
<1>1. Done => SuccessIsComplete
  BY DEF Done, Staged, Copied, Extracted, Bundled, Placed, SuccessIsComplete
<1> QED
  BY <1>1, TypesHold, DoneInit, DoneStep, PTL DEF Spec

-----------------------------------------------------------------------------
(* The release that stays on the tablet. *)

HasRelease(backups) == \E i \in DOMAIN backups : backups[i] \in Versions

\* The steps between the backup of the project and the end of a rollback that could
\* still be due.
InPieces == {"create", "extract", "bundle", "shelve", "prune", "place", "activate", "complete"}

\* While the script has the project in pieces, and while a rollback still has to remove
\* them or to bring the backup back, a release is among the backups.
ReleaseKept ==
  /\ script.at \in {"check", "xovi", "save", "copy", "backup", "create"}
       => ~script.projectCreated
  /\ script.at = "none" => script.trap = {}
  /\ durable =>
       /\ project \in Versions \/ HasRelease(sources)
       /\ script.at \in InPieces => HasRelease(sources)
       /\ script.at \notin {"tidy", "installed", "untidy"}
       /\ script.trap # {} => script.at = "failed"
       /\ "project" \in script.trap \/ "backup" \in script.trap => HasRelease(sources)

LEMMA ReleaseKeptInit == Init => ReleaseKept
BY DEF Init, NoScript, ReleaseKept

\* Appending a backup keeps the others.
LEMMA AppendKeeps ==
  ASSUME NEW s \in Seq(Content), NEW c \in Content
  PROVE  c \in Versions \/ HasRelease(s) => HasRelease(Append(s, c))
<1>1. /\ DOMAIN Append(s, c) = 1 .. Len(s) + 1 /\ DOMAIN s = 1 .. Len(s) /\ Len(s) \in Nat
      /\ Append(s, c)[Len(s) + 1] = c
      /\ \A i \in 1 .. Len(s) : Append(s, c)[i] = s[i]
  OBVIOUS
<1>2. CASE c \in Versions
  BY <1>1, <1>2 DEF HasRelease
<1>3. CASE HasRelease(s)
  BY <1>1, <1>3 DEF HasRelease
<1> QED
  BY <1>2, <1>3

LEMMA ReleaseKeptScript == Types /\ ReleaseKept /\ ScriptStep => ReleaseKept'
<1> SUFFICES ASSUME Types, ReleaseKept, ScriptStep PROVE ReleaseKept'
  OBVIOUS
<1> USE DEF ReleaseKept, InPieces
<1>0. ScriptType /\ sources \in Seq(Content) /\ project \in Content
  BY DEF Types, FilesType, RestType, BackupsType
<1>1. CASE Check \/ CreateXovi \/ CheckXovi \/ SaveRuntime \/ CopyRuntime
  <2>1. /\ script.at \in {"check", "xovi", "save", "copy"}
        /\ script'.at \in {"xovi", "save", "copy", "backup"}
        /\ script'.projectCreated = script.projectCreated
        /\ script'.trap = {}
    BY <1>0, <1>1 DEF Check, CreateXovi, CheckXovi, SaveRuntime, CopyRuntime, At, ScriptType
  <2>2. UNCHANGED <<project, sources, durable>>
    BY <1>1 DEF Check, CreateXovi, CheckXovi, SaveRuntime, CopyRuntime, files, ghosts
  <2> QED
    BY <2>1, <2>2
<1>2. CASE BackUpProject
  <2>1. /\ script.at = "backup" /\ script'.at = "create" /\ script'.trap = {}
        /\ script'.projectCreated = script.projectCreated
        /\ durable' = durable
    <3>1. /\ script.trap = {} /\ script.at = "backup"
          /\ \/ script' = [script EXCEPT !.at = "create"]
             \/ script' = [[script EXCEPT !.backup = "there"] EXCEPT !.at = "create"]
      BY <1>0, <1>2 DEF BackUpProject, At, ScriptType
    <3>2. durable' = durable
      BY <1>2 DEF BackUpProject, ghosts
    <3> QED
      BY <1>0, <3>1, <3>2 DEF ScriptType
  <2>2. durable => HasRelease(sources')
    <3>1. CASE project = None
      BY <1>2, <3>1, InstallAssumption DEF BackUpProject
    <3>2. CASE project # None
      BY <1>0, <1>2, <3>2, AppendKeeps DEF BackUpProject
    <3> QED
      BY <3>1, <3>2
  <2> QED
    BY <2>1, <2>2
<1>3. CASE CreateProject \/ Extract \/ StageBundle
  <2>1. /\ script.at \in {"create", "extract", "bundle"}
        /\ script'.at \in {"extract", "bundle", "shelve"}
        /\ script'.trap = {}
    BY <1>0, <1>3 DEF CreateProject, Extract, StageBundle, At, ScriptType
  <2>2. UNCHANGED <<sources, durable>>
    BY <1>3 DEF CreateProject, Extract, StageBundle, ghosts
  <2> QED
    BY <2>1, <2>2
<1>4. CASE ShelveApp \/ PruneApps \/ PlaceApp \/ Activate
  <2>1. /\ script.at \in {"shelve", "prune", "place", "activate"}
        /\ script'.at \in {"prune", "place", "activate", "complete"}
        /\ script'.trap = {}
    BY <1>0, <1>4 DEF ShelveApp, PruneApps, PlaceApp, Activate, At, ScriptType
  <2>2. UNCHANGED <<project, sources, durable>>
    BY <1>4 DEF ShelveApp, PruneApps, PlaceApp, Activate, files, ghosts
  <2> QED
    BY <2>1, <2>2
<1>5. CASE Completed
  <2>1. script'.at = "tidy" /\ ~durable'
    BY <1>0, <1>5 DEF Completed, At, ScriptType
  <2> QED
    BY <2>1
<1>6. CASE Tidy
  <2>1. /\ script.at = "tidy" /\ script'.at \in {"installed", "untidy"}
        /\ durable' = durable
    BY <1>0, <1>6 DEF Tidy, At, ghosts, ScriptType
  <2> QED
    BY <2>1
<1> QED
  BY <1>1, <1>2, <1>3, <1>4, <1>5, <1>6 DEF ScriptStep

LEMMA ReleaseKeptTrap == Types /\ ReleaseKept /\ TrapStep => ReleaseKept'
<1> SUFFICES ASSUME Types, ReleaseKept, TrapStep PROVE ReleaseKept'
  OBVIOUS
<1> USE DEF ReleaseKept, InPieces
<1>0. ScriptType /\ sources \in Seq(Content \ {None})
  BY DEF Types, RestType, BackupsType
<1>1. CASE RollbackRuntime \/ RollbackXovi
  <2>1. /\ script.trap # {} /\ script'.trap \subseteq script.trap
        /\ script'.projectCreated = script.projectCreated
        /\ script'.at = script.at \/ script'.at = "failed"
    <3>1. /\ script.trap # {}
          /\ \/ script' = script
             \/ \E part \in {"runtime", "xovi"} : Over(part)
             \/ GivesUp
      BY <1>1 DEF RollbackRuntime, RollbackXovi, Undone
    <3> QED
      BY <1>0, <3>1 DEF Over, GivesUp, ScriptType
  <2>2. UNCHANGED <<project, sources, durable>>
    BY <1>1 DEF RollbackRuntime, RollbackXovi, Undone, ghosts
  <2> QED
    BY <2>1, <2>2
<1>2. CASE RollbackProject
  <2>1. /\ "project" \in script.trap /\ script'.trap \subseteq script.trap
        /\ script'.projectCreated = script.projectCreated
        /\ script'.at = script.at
    BY <1>0, <1>2 DEF RollbackProject, Undone, Over, ScriptType
  <2>2. UNCHANGED <<sources, durable>>
    BY <1>2 DEF RollbackProject, Undone, ghosts
  <2> QED
    BY <2>1, <2>2
<1>3. CASE RollbackBackup
  <2>1. /\ script.trap = {"backup"} /\ script'.trap = {}
        /\ script'.projectCreated = script.projectCreated
        /\ script'.at = script.at \/ script'.at = "failed"
    BY <1>0, <1>3 DEF RollbackBackup, GivesUp, ScriptType
  <2>2. /\ durable' = durable
        /\ \/ UNCHANGED <<project, sources>>
           \/ sources # <<>> /\ project' = Last(sources) /\ sources' = Front(sources)
    BY <1>3 DEF RollbackBackup, Undone, ghosts
  <2>3. durable => project' \in Versions \/ HasRelease(sources')
    <3>1. CASE UNCHANGED <<project, sources>>
      BY <3>1
    <3>2. CASE sources # <<>> /\ project' = Last(sources) /\ sources' = Front(sources)
      BY <1>0, <2>1, <3>2, LastAndFront DEF HasRelease
    <3> QED
      BY <2>2, <3>1, <3>2
  <2>4. durable => script'.at = "failed"
    BY <2>1
  <2> QED
    BY <2>1, <2>2, <2>3, <2>4
<1> QED
  BY <1>1, <1>2, <1>3 DEF TrapStep

LEMMA ReleaseKeptStep == Types /\ ReleaseKept /\ [Next]_vars => ReleaseKept'
<1> SUFFICES ASSUME Types, ReleaseKept, [Next]_vars PROVE ReleaseKept'
  OBVIOUS
<1> USE DEF ReleaseKept, InPieces
<1>0. ScriptType /\ sources \in Seq(Content \ {None}) /\ project \in Content
  BY DEF Types, FilesType, RestType, BackupsType
<1>1. CASE UNCHANGED vars
  BY <1>1 DEF vars
<1>2. CASE ScriptStep \/ TrapStep
  BY <1>2, ReleaseKeptScript, ReleaseKeptTrap
<1>3. CASE Fail
  <2>1. /\ script'.at = "failed" /\ script'.trap = Due
        /\ script.at \in Steps \ {"tidy"}
        /\ UNCHANGED <<project, sources, durable>>
    BY <1>0, <1>3 DEF Fail, Running, ghosts, ScriptType
  <2>2. "project" \in Due \/ "backup" \in Due => script.projectCreated
    BY DEF Due
  <2>3. durable /\ script.projectCreated => HasRelease(sources)
    BY <2>1, StepNames
  <2> QED
    BY <2>1, <2>2, <2>3
<1>4. CASE Signal
  <2>1. ~durable' /\ script.at \in Steps
        /\ script'.at = script.at /\ script'.projectCreated = script.projectCreated
    BY <1>0, <1>4 DEF Signal, Running, ScriptType
  <2> QED
    BY <2>1, StepNames, NoScriptType
<1>5. ASSUME NEW v \in Versions, RunScript(v) PROVE ReleaseKept'
  <2>1. /\ script'.at = "check" /\ script'.trap = {} /\ ~script'.projectCreated
        /\ UNCHANGED <<project, sources, durable>>
    BY <1>5 DEF RunScript, NoScript
  <2> QED
    BY <2>1
<1>6. CASE InstallBegins \/ UploadFails \/ InstallTimesOut \/ UninstallApp \/ Recover
  <2>1. UNCHANGED <<project, sources, script, durable>>
    BY <1>6 DEF InstallBegins, UploadFails, InstallTimesOut, UninstallApp, Recover, files,
       ghosts
  <2> QED
    BY <2>1
<1>7. CASE ScriptReturns \/ ScriptEndsAlone
  <2>1. UNCHANGED <<project, sources, durable>> /\ script' = NoScript
    BY <1>7 DEF ScriptReturns, ScriptEndsAlone, ScriptGone, files
  <2> QED
    BY <2>1 DEF NoScript
<1>8. ASSUME NEW purge \in BOOLEAN, UninstallProject(purge) \/ PurgeWithoutProject
      PROVE  ReleaseKept'
  <2>1. ~durable' /\ script' = script
    BY <1>8 DEF UninstallProject, PurgeWithoutProject, Forgotten
  <2> QED
    BY <2>1
<1>9. CASE Writeback \/ PowerLoss
  <2>1. PICK fate \in {WrittenBack, LosesPower} : FilesBecome(fate)
    BY <1>9 DEF Writeback, PowerLoss
  <2>2. project \in Versions => project' \in Versions
    BY <1>0, <2>1, FateFacts, ReleaseFacts DEF FilesBecome
  <2>3. HasRelease(sources) => HasRelease(sources')
    BY <1>0, <2>1, FateOfBackups DEF FilesBecome, HasRelease
  <2>4. CASE PowerLoss
    <3>1. durable' = durable /\ script' = NoScript
      BY <2>4 DEF PowerLoss, ScriptGone
    <3> QED
      BY <2>2, <2>3, <3>1 DEF NoScript
  <2>5. CASE Writeback
    <3>1. script' = script /\ durable' = (durable \/ (script.at = "none" /\ project' \in Versions))
      BY <2>5 DEF Writeback
    <3> QED
      BY <2>2, <2>3, <3>1
  <2> QED
    BY <1>9, <2>4, <2>5
<1> QED
  BY <1>1, <1>2, <1>3, <1>4, <1>5, <1>6, <1>7, <1>8, <1>9 DEF Next

\* Once installed and written back, a release stays on the tablet through every failing
\* command, every rollback cut short, timeout and loss of power, for any bound on the
\* backups.
THEOREM ReleaseStays == Spec => []WholeProjectKept
<1>1. ReleaseKept => WholeProjectKept
  BY DEF ReleaseKept, HasRelease, WholeProjectKept, ToSet
<1> QED
  BY <1>1, TypesHold, ReleaseKeptInit, ReleaseKeptStep, PTL DEF Spec
=============================================================================
