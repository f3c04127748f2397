---------------------------- MODULE SettingsPage ----------------------------
(***************************************************************************)
(* The settings between app/ui/TRMNL.qml, which shows and edits a copy, and*)
(* the receive loop of main.go, which alone changes a.cfg.  Requests and   *)
(* states travel in order over the AppLoad socket (internal/protocol);     *)
(* states are also sent by the scheduler, brightnessScheduler and the      *)
(* update check, each of which reads a.cfg first and sends later.          *)
(*                                                                         *)
(* Every setting is one of five kinds, told apart by how it is edited:     *)
(*   invert    on the settings page and as a control of its own            *)
(*   system    the same, but every state sets the page's field too         *)
(*   slider    the level: on both pages as well, sent only after a pause;  *)
(*             the control shows the light's level, the page the setting   *)
(*   schedule  on no page: a save sends back what the last state said; and *)
(*             the system brightness switches it off, on disk at once and  *)
(*             in memory only with a save of the page or a restart         *)
(*   key       entered on the page, never shown; a blank field keeps it    *)
(* The tablet has a front light that can be read.                          *)
(***************************************************************************)
EXTENDS Sequences, Integers

CONSTANTS
  Defaults,      \* config.Defaults()
  Stored,        \* settings a first start may find
  PageDefaults,  \* the interface's appConfig before the first state
  WritesMayFail, \* saves, and writes to the light
  Buffer,        \* messages each direction of the socket holds
  MaxActs,       \* bound: what the owner does in a run
  None

Fields == {"invert", "system", "slider"}
Settings == [Fields \cup {"schedule", "key"} -> BOOLEAN]
Sliders == {"control", "page"}

ASSUME SettingsAssumption ==
  /\ {Defaults, PageDefaults} \cup Stored \subseteq Settings
  /\ ~Defaults["key"] /\ ~PageDefaults["key"]
  /\ ~(Defaults["system"] /\ Defaults["schedule"])
  /\ WritesMayFail \in BOOLEAN
  /\ Buffer \in Nat \ {0}
  /\ MaxActs \in Nat
  /\ None \notin Settings

VARIABLES
  cfg,         \* a.cfg
  saved,       \* config.json
  owing,       \* the receive loop's handler has yet to call sendState
  snapshot,    \* what another goroutine's sendState has read, or None
  requests,    \* messages to the backend
  states,      \* msgState messages to the interface
  known,       \* appConfig
  initialized, \* the first state has come
  open,        \* settingsVisible
  fields,      \* the page's fields
  control,     \* the value of the slider among the controls
  typed,       \* a key stands in the key field
  pause,       \* the sliders whose timer runs: brightnessDebounce (control) and
               \* settingsBrightnessDebounce (page)
  acts,        \* what the owner has done so far
  chosen,      \* history: the owner's last choice for each setting
  edited,      \* history: what the owner set invert to on the open page, or None
  excused,     \* history: a choice has been lost in a way the code allows
  behind       \* history: a change went unreported, or an older state came last

backend == <<cfg, saved, owing, snapshot>>
interface == <<known, initialized, open, fields, control, typed, pause>>
history == <<chosen, edited>>
vars == <<backend, requests, states, interface, acts, history, excused, behind>>

Request ==
  [type : {"initialize", "reset"}] \cup [type : {"save"}, settings : Settings]
    \cup [type : {"prefer"}, setting : Fields, value : BOOLEAN]

TypeOK ==
  /\ cfg \in Settings /\ saved \in Settings
  /\ known \in Settings /\ chosen \in Settings
  /\ owing \in BOOLEAN /\ initialized \in BOOLEAN /\ open \in BOOLEAN
  /\ typed \in BOOLEAN /\ control \in BOOLEAN /\ pause \subseteq Sliders
  /\ excused \in BOOLEAN /\ behind \in BOOLEAN
  /\ snapshot \in Settings \cup {None}
  /\ edited \in BOOLEAN \cup {None}
  /\ requests \in Seq(Request) /\ Len(requests) <= Buffer
  /\ states \in Seq(Settings) /\ Len(states) <= Buffer
  /\ fields \in [Fields -> BOOLEAN]
  /\ acts \in 0 .. MaxActs

\* Config.Normalize: the system brightness and the schedule exclude each other.
Normalized(c) == [c EXCEPT !["schedule"] = @ /\ ~c["system"]]

\* The app is opened: main has loaded the settings, the interface has sent
\* msgInitialize.
Init ==
  /\ saved \in Stored
  /\ cfg = Normalized(saved)
  /\ owing = FALSE
  /\ snapshot = None
  /\ requests = <<[type |-> "initialize"]>>
  /\ states = <<>>
  /\ known = PageDefaults
  /\ initialized = FALSE
  /\ open = FALSE
  /\ fields = [k \in Fields |-> FALSE]
  /\ control = FALSE
  /\ typed = FALSE
  /\ pause = {}
  /\ acts = 0
  /\ chosen = Normalized(saved)
  /\ edited = None
  /\ excused = FALSE
  /\ behind = FALSE

-----------------------------------------------------------------------------
(* The owner at the interface. *)

Act == acts < MaxActs /\ acts' = acts + 1

Request_(r) == Len(requests) < Buffer /\ requests' = Append(requests, r)

Prefer(k, v) == [type |-> "prefer", setting |-> k, value |-> v]

\* configureFields: the fields show what the last state said.
Configured == [k \in Fields |-> known[k]]

\* A slide whose level is replaced before it was sent is lost.
SlideLost ==
  \/ "control" \in pause /\ control' # control
  \/ "page" \in pause /\ fields'["slider"] # fields["slider"]

TapInvert(v) ==
  /\ Act
  /\ ~open
  /\ Request_(Prefer("invert", v))
  /\ chosen' = [chosen EXCEPT !["invert"] = v]
  /\ UNCHANGED <<backend, states, interface, edited, excused, behind>>

TapSystem(v) ==
  /\ Act
  /\ Request_(Prefer("system", v))
  /\ fields' = [fields EXCEPT !["system"] = v]
  /\ chosen' = [chosen EXCEPT !["system"] = v]
  /\ UNCHANGED <<backend, states, known, initialized, open, control, typed, pause,
                 edited, excused, behind>>

\* A slider moves the other one along; only its own timer is restarted.
Slide(slider, v) ==
  /\ Act
  /\ slider = IF open THEN "page" ELSE "control"
  /\ initialized
  /\ ~fields["system"]
  /\ fields' = [fields EXCEPT !["slider"] = v]
  /\ control' = v
  /\ pause' = pause \cup {slider}
  /\ chosen' = [chosen EXCEPT !["slider"] = v]
  /\ UNCHANGED <<backend, requests, states, known, initialized, open, typed,
                 edited, excused, behind>>

\* The timer sends what its slider shows now.
SlideSent(slider) ==
  /\ slider \in pause
  /\ pause' = pause \ {slider}
  /\ Request_(Prefer("slider", IF slider = "page" THEN fields["slider"] ELSE control))
  /\ UNCHANGED <<backend, states, known, initialized, open, fields, control, typed,
                 acts, history, excused, behind>>

OpenSettings ==
  /\ Act
  /\ ~open
  /\ open' = TRUE
  /\ fields' = Configured
  /\ control' = known["slider"]
  /\ typed' = FALSE
  /\ edited' = None
  /\ excused' = (excused \/ SlideLost)
  /\ UNCHANGED <<backend, requests, states, known, initialized, pause, chosen,
                 behind>>

Edit(v) ==
  /\ Act
  /\ open
  /\ fields' = [fields EXCEPT !["invert"] = v]
  /\ edited' = v
  /\ UNCHANGED <<backend, requests, states, known, initialized, open, control, typed,
                 pause, chosen, excused, behind>>

TypeKey ==
  /\ Act
  /\ open
  /\ typed' = TRUE
  /\ UNCHANGED <<backend, requests, states, known, initialized, open, fields,
                 control, pause, history, excused, behind>>

\* configFromFields
FromFields ==
  [k \in DOMAIN known |-> IF k \in Fields THEN fields[k]
                          ELSE IF k = "key" THEN typed ELSE known[k]]

\* Save stores what the page shows, which is what the owner has edited there and
\* agrees to, the schedule that the system brightness excludes left off.
Save ==
  /\ Act
  /\ open
  /\ open' = FALSE
  /\ Request_([type |-> "save", settings |-> FromFields])
  /\ chosen' = Normalized([FromFields EXCEPT
                  !["schedule"] = chosen["schedule"],
                  !["key"] = typed \/ chosen["key"],
                  !["invert"] = IF edited = None THEN @ ELSE edited])
  /\ edited' = None
  /\ excused' = \/ excused
                \/ known["schedule"] # chosen["schedule"]
                \/ "control" \in pause /\ control # fields["slider"]
  /\ UNCHANGED <<backend, states, known, initialized, fields, control, typed, pause,
                 behind>>

Close ==
  /\ Act
  /\ open
  /\ open' = FALSE
  /\ edited' = None
  /\ UNCHANGED <<backend, requests, states, known, initialized, fields, control,
                 typed, pause, chosen, excused, behind>>

\* The page stays open, with its fields as they are.
Reset ==
  /\ Act
  /\ open
  /\ Request_([type |-> "reset"])
  /\ chosen' = Defaults
  /\ excused' = (excused \/ pause # {})
  /\ UNCHANGED <<backend, states, interface, edited, behind>>

-----------------------------------------------------------------------------
(* The interface receives a state. *)

\* Mutant: every state fills the whole page, edits included.
ShownAll(s) == [k \in Fields |-> s[k]]

\* applyState sets the page's slider and the system checkbox, of an open page too;
\* the other fields are filled by the first state only.
Shown(s) ==
  [k \in Fields |-> IF k = "invert" /\ initialized THEN fields[k] ELSE s[k]]

\* The state also carries the light's level, which the system, the schedule or a
\* failed write may keep from the setting; the control shows it, but for the first
\* state, after which configureFields shows the setting.  Without a key (and without a
\* device ID) the settings page comes up by itself.
StateArrives(level) ==
  /\ states # <<>>
  /\ states' = Tail(states)
  /\ known' = Head(states)
  /\ fields' = Shown(Head(states))
  /\ control' = IF initialized THEN level ELSE Head(states)["slider"]
  /\ typed' = (typed /\ initialized)
  /\ initialized' = TRUE
  /\ open' = (open \/ ~Head(states)["key"])
  /\ excused' = (excused \/ SlideLost \/ (edited # None /\ ~initialized))
  /\ UNCHANGED <<backend, requests, pause, acts, history, behind>>

-----------------------------------------------------------------------------
(* app.handle: one message at a time, and one sendState at its end. *)

Takes(type) ==
  /\ ~owing
  /\ requests # <<>>
  /\ Head(requests).type = type
  /\ requests' = Tail(requests)

\* Mutant: the interface is taken to know what it has asked for.
StoresQuietly(c) ==
  \/ cfg' = c /\ saved' = Normalized(c) /\ UNCHANGED <<owing, excused>>
  \/ /\ WritesMayFail
     /\ saved' \in {saved, Normalized(c)}
     /\ excused' = TRUE
     /\ UNCHANGED <<cfg, owing>>

\* The new settings are stored and kept, and a state is owed; or the save fails,
\* before or after the file's rename, and nothing else changes.  Save normalizes what
\* it writes, not what is kept.
Stores(c) ==
  \/ cfg' = c /\ saved' = Normalized(c) /\ owing' = TRUE /\ UNCHANGED excused
  \/ /\ WritesMayFail
     /\ saved' \in {saved, Normalized(c)}
     /\ excused' = TRUE
     /\ UNCHANGED <<cfg, owing>>

Initialize ==
  /\ Takes("initialize")
  /\ owing' = TRUE
  /\ UNCHANGED <<cfg, saved, snapshot, states, interface, acts, history, excused,
                 behind>>

\* A blank key field keeps the key in force.
Merged(s) == [s EXCEPT !["key"] = @ \/ cfg["key"]]

SaveConfig ==
  /\ Takes("save")
  /\ Stores(Normalized(Merged(Head(requests).settings)))
  /\ UNCHANGED <<snapshot, states, interface, acts, history, behind>>

ResetSettings ==
  /\ Takes("reset")
  /\ Stores(Defaults)
  /\ UNCHANGED <<snapshot, states, interface, acts, history, behind>>

\* Both handlers of a single setting change a.cfg before they save it.
Preferred == [cfg EXCEPT ![Head(requests).setting] = Head(requests).value]

\* msgUpdatePreferences.  The schedule stays in memory as it was while the file has it
\* off.  When the save fails no state is sent.
UpdatePreferences ==
  /\ Takes("prefer")
  /\ Head(requests).setting # "slider"
  /\ cfg' = Preferred
  /\ \/ saved' = Normalized(Preferred) /\ owing' = TRUE /\ UNCHANGED <<excused, behind>>
     \/ /\ WritesMayFail
        /\ saved' \in {saved, Normalized(Preferred)}
        /\ excused' = TRUE
        /\ behind' = TRUE
        /\ UNCHANGED owing
  /\ UNCHANGED <<snapshot, states, interface, acts, history>>

\* msgSetBrightness writes the light first and stops when it cannot; it does not notice
\* when the save fails.
SetBrightness ==
  /\ Takes("prefer")
  /\ Head(requests).setting = "slider"
  /\ \/ cfg' = Preferred /\ saved' = Normalized(Preferred) /\ owing' = TRUE
        /\ UNCHANGED excused
     \/ /\ WritesMayFail
        /\ cfg' = Preferred
        /\ saved' \in {saved, Normalized(Preferred)}
        /\ owing' = TRUE
        /\ excused' = TRUE
     \/ /\ WritesMayFail
        /\ excused' = TRUE
        /\ UNCHANGED <<cfg, saved, owing>>
  /\ UNCHANGED <<snapshot, states, interface, acts, history, behind>>

\* Mutant: the handler sends its state whether there is room or not.
ReplyUnblocked ==
  /\ owing
  /\ owing' = FALSE
  /\ states' = Append(states, cfg)
  /\ behind' = FALSE
  /\ UNCHANGED <<cfg, saved, snapshot, requests, interface, acts, history, excused>>

\* The receive loop's sendState; nobody else changes a.cfg meanwhile.
Reply ==
  /\ owing
  /\ owing' = FALSE
  /\ Len(states) < Buffer
  /\ states' = Append(states, cfg)
  /\ behind' = FALSE
  /\ UNCHANGED <<cfg, saved, snapshot, requests, interface, acts, history, excused>>

\* Another goroutine's sendState reads the settings ...
OtherReads ==
  /\ snapshot = None
  /\ snapshot' = cfg
  /\ UNCHANGED <<cfg, saved, owing, requests, states, interface, acts, history,
                 excused, behind>>

\* ... and sends them after it has read battery, light and cache.
OtherSends ==
  /\ snapshot # None
  /\ snapshot' = None
  /\ Len(states) < Buffer
  /\ states' = Append(states, snapshot)
  /\ behind' = (snapshot # cfg)
  /\ UNCHANGED <<cfg, saved, owing, requests, interface, acts, history, excused>>

-----------------------------------------------------------------------------
Settled == requests = <<>> /\ states = <<>> /\ ~owing /\ pause = {}

\* The owner leaves the app and opens it again; what is under way is lost, and a
\* schedule that the system brightness has switched off on disk.
Reopen ==
  /\ Act
  /\ cfg' = Normalized(saved)
  /\ owing' = FALSE
  /\ snapshot' = None
  /\ requests' = <<[type |-> "initialize"]>>
  /\ states' = <<>>
  /\ known' = PageDefaults
  /\ initialized' = FALSE
  /\ open' = FALSE
  /\ fields' = [k \in Fields |-> FALSE]
  /\ control' = FALSE
  /\ typed' = FALSE
  /\ pause' = {}
  /\ edited' = None
  /\ excused' = (excused \/ ~Settled)
  /\ behind' = FALSE
  /\ chosen' = Normalized(chosen)
  /\ UNCHANGED saved

Next ==
  \/ \E v \in BOOLEAN : TapInvert(v)
  \/ \E v \in BOOLEAN : TapSystem(v)
  \/ \E slider \in Sliders, v \in BOOLEAN : Slide(slider, v)
  \/ \E slider \in Sliders : SlideSent(slider)
  \/ OpenSettings
  \/ \E v \in BOOLEAN : Edit(v)
  \/ TypeKey
  \/ Save
  \/ Close
  \/ Reset
  \/ \E level \in BOOLEAN : StateArrives(level)
  \/ Initialize
  \/ SaveConfig
  \/ ResetSettings
  \/ UpdatePreferences
  \/ SetBrightness
  \/ Reply
  \/ OtherReads
  \/ OtherSends
  \/ Reopen

Spec == Init /\ [][Next]_vars

-----------------------------------------------------------------------------
\* When everything sent has been handled, the settings in force are the owner's last
\* choices, and those that the next start will load are the same but for a schedule
\* which the system brightness excludes: through whatever interleaving of both pages,
\* the debounced sliders, resets, reopenings and states sent by other goroutines.
\* Excused: a save or a write to the light that fails, a slide replaced by a state
\* before it was sent, an edit before the first state, and a save of the page with an
\* outdated copy of the schedule or with a slide of the control on its way.
ChoicesKept ==
  Settled /\ ~excused => cfg = chosen /\ Normalized(saved) = Normalized(chosen)

\* Every change of the settings is followed by a state that shows it, unless a
\* preference could not be saved or another goroutine's older state came last.
InterfaceAgrees == Settled /\ ~behind => known = cfg
=============================================================================
