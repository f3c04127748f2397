------------------------- MODULE SettingsPageProofs -------------------------
(***************************************************************************)
(* Theorems of SettingsPage, for sockets of every size and any number of   *)
(* acts of the owner.                                                      *)
(***************************************************************************)
EXTENDS SettingsPage, TLAPS

Keys == Fields \cup {"schedule", "key"}

-----------------------------------------------------------------------------
(* What a queue of requests leaves of a setting: the value of the last request  *)
(* that sets it, and the present value when none does.                        *)

Sets(r, k) ==
  \/ r.type = "reset"
  \/ r.type = "save" /\ (k = "key" => r.settings["key"])
  \/ r.type = "prefer" /\ r.setting = k

SetTo(r, k) ==
  CASE r.type = "reset" -> Defaults[k]
    [] r.type = "save" -> Normalized(r.settings)[k]
    [] OTHER -> r.value

Leaves(q, k, now, v) ==
  /\ \A i \in 1 .. Len(q) :
       /\ Sets(q[i], k)
       /\ \A j \in 1 .. Len(q) : j > i => ~Sets(q[j], k)
       => SetTo(q[i], k) = v
  /\ (\A i \in 1 .. Len(q) : ~Sets(q[i], k)) => now = v

LEMMA LeavesNow ==
  ASSUME NEW k, NEW now, NEW v, Leaves(<<>>, k, now, v)
  PROVE  now = v
  BY DEF Leaves

LEMMA AppendSets ==
  ASSUME NEW q \in Seq(Request), NEW r \in Request, NEW k, NEW now, NEW v,
         Sets(r, k), SetTo(r, k) = v
  PROVE  Leaves(Append(q, r), k, now, v)
  <1> HIDE DEF Request
  <1>1. Len(Append(q, r)) = Len(q) + 1 /\ Append(q, r)[Len(q) + 1] = r
    OBVIOUS
  <1>2. Len(q) \in Nat
    OBVIOUS
  <1> QED
    BY <1>1, <1>2 DEF Leaves

LEMMA AppendKeeps ==
  ASSUME NEW q \in Seq(Request), NEW r \in Request, NEW k, NEW now, NEW v,
         ~Sets(r, k), Leaves(q, k, now, v)
  PROVE  Leaves(Append(q, r), k, now, v)
  <1>1. Len(Append(q, r)) = Len(q) + 1 /\ Append(q, r)[Len(q) + 1] = r
    OBVIOUS
  <1>2. \A i \in 1 .. Len(q) : Append(q, r)[i] = q[i]
    OBVIOUS
  <1>3. Len(q) \in Nat
    OBVIOUS
  <1> QED
    BY <1>1, <1>2, <1>3 DEF Leaves

LEMMA TakeFirst ==
  ASSUME NEW q \in Seq(Request), q # <<>>, NEW k, NEW now, NEW after, NEW v,
         Leaves(q, k, now, v),
         Sets(Head(q), k) => after = SetTo(Head(q), k),
         ~Sets(Head(q), k) => after = now
  PROVE  Leaves(Tail(q), k, after, v)
  <1>1. Len(Tail(q)) = Len(q) - 1 /\ Len(q) \in Nat \ {0} /\ Head(q) = q[1]
    OBVIOUS
  <1>2. \A i \in 1 .. Len(Tail(q)) : Tail(q)[i] = q[i + 1]
    OBVIOUS
  <1>3. \A j \in 2 .. Len(q) : q[j] = Tail(q)[j - 1] /\ j - 1 \in 1 .. Len(Tail(q))
    BY <1>1, <1>2
  <1>4. ASSUME NEW i \in 1 .. Len(Tail(q)), Sets(Tail(q)[i], k),
               \A j \in 1 .. Len(Tail(q)) : j > i => ~Sets(Tail(q)[j], k)
        PROVE  SetTo(Tail(q)[i], k) = v
    <2>1. i + 1 \in 1 .. Len(q) /\ Sets(q[i + 1], k)
      BY <1>1, <1>2, <1>4
    <2>2. \A j \in 1 .. Len(q) : j > i + 1 => ~Sets(q[j], k)
      BY <1>1, <1>3, <1>4
    <2> QED
      BY <1>2, <2>1, <2>2 DEF Leaves
  <1>5. ASSUME \A i \in 1 .. Len(Tail(q)) : ~Sets(Tail(q)[i], k)
        PROVE  after = v
    <2>1. \A j \in 2 .. Len(q) : ~Sets(q[j], k)
      BY <1>3, <1>5
    <2>2. 1 \in 1 .. Len(q) /\ \A j \in 1 .. Len(q) : j = 1 \/ j \in 2 .. Len(q)
      BY <1>1
    <2>3. CASE Sets(Head(q), k)
      <3>1. \A j \in 1 .. Len(q) : j > 1 => ~Sets(q[j], k)
        BY <2>1, <2>2
      <3> QED
        BY <1>1, <2>2, <2>3, <3>1 DEF Leaves
    <2>4. CASE ~Sets(Head(q), k)
      <3>1. \A j \in 1 .. Len(q) : ~Sets(q[j], k)
        BY <1>1, <2>1, <2>2, <2>4
      <3> QED
        BY <2>4, <3>1 DEF Leaves
    <2> QED
      BY <2>3, <2>4
  <1> QED
    BY <1>4, <1>5 DEF Leaves

-----------------------------------------------------------------------------
(* The inductive invariant. *)

\* Unless a choice was lost in a way the code allows: memory and disk agree once
\* normalized, and for every setting what the queue leaves of it is the owner's
\* choice.  A slide not sent yet is still in its slider, and an edit that a save
\* would store is in its field.
ChoicesReach ==
  /\ Normalized(saved) = Normalized(cfg)
  /\ edited # None => fields["invert"] = edited
  /\ "page" \in pause => fields["slider"] = chosen["slider"]
  /\ "control" \in pause => control = chosen["slider"]
  /\ \A k \in Keys :
       ~(k = "slider" /\ pause # {}) => Leaves(requests, k, cfg[k], chosen[k])

\* The last state sent shows the settings in force, unless one is owed or asked for.
Seen == IF states = <<>> THEN known ELSE states[Len(states)]

Asked == \E i \in 1 .. Len(requests) : requests[i].type = "initialize"

IInv ==
  /\ TypeOK
  /\ ~excused => ChoicesReach
  /\ ~behind => owing \/ Asked \/ Seen = cfg

LEMMA SettingsTypes ==
  /\ Defaults \in Settings /\ PageDefaults \in Settings /\ Stored \subseteq Settings
  /\ None \notin Settings
  /\ Buffer \in Nat \ {0} /\ MaxActs \in Nat
  BY SettingsAssumption

\* Normalize touches the schedule only, and once is enough.
LEMMA NormalizedFacts ==
  ASSUME NEW c \in Settings
  PROVE  /\ Normalized(c) \in Settings
         /\ \A k \in Keys \ {"schedule"} : Normalized(c)[k] = c[k]
         /\ Normalized(c)["schedule"] = (c["schedule"] /\ ~c["system"])
         /\ Normalized(Normalized(c)) = Normalized(c)
  <1>1. DOMAIN c = Keys /\ c \in [Keys -> BOOLEAN]
    BY DEF Settings, Keys
  <1>2. (c["schedule"] /\ ~c["system"]) \in BOOLEAN
    OBVIOUS
  <1>3. Normalized(c) = [c EXCEPT !["schedule"] = c["schedule"] /\ ~c["system"]]
    BY DEF Normalized
  <1>4. Normalized(c) \in [Keys -> BOOLEAN]
    BY <1>1, <1>2, <1>3
  <1>5. \A k \in Keys \ {"schedule"} : Normalized(c)[k] = c[k]
    BY <1>1, <1>3
  <1>6. Normalized(c)["schedule"] = (c["schedule"] /\ ~c["system"])
    BY <1>1, <1>3 DEF Keys
  <1>7. Normalized(Normalized(c)) = Normalized(c)
    <2> DEFINE d == Normalized(c)
    <2>1. d["system"] = c["system"]
      BY <1>5 DEF Keys, Fields
    <2>2. (d["schedule"] /\ ~d["system"]) = d["schedule"]
      BY <1>6, <2>1
    <2>3. Normalized(d) = [d EXCEPT !["schedule"] = d["schedule"] /\ ~d["system"]]
      BY DEF Normalized
    <2>4. d \in [Keys -> BOOLEAN]
      BY <1>4
    <2> HIDE DEF d
    <2>5. Normalized(d) = d
      BY <2>2, <2>3, <2>4
    <2> QED
      BY <2>5 DEF d
  <1> QED
    BY <1>4, <1>5, <1>6, <1>7 DEF Settings, Keys

\* Requests of each kind.
LEMMA RequestTypes ==
  /\ [type |-> "initialize"] \in Request
  /\ [type |-> "reset"] \in Request
  /\ \A k \in Fields, v \in BOOLEAN : Prefer(k, v) \in Request
  /\ \A s \in Settings : [type |-> "save", settings |-> s] \in Request
  /\ \A r \in Request :
       /\ r.type = "save" => r.settings \in Settings
       /\ r.type = "prefer" => r.setting \in Fields /\ r.value \in BOOLEAN
  BY DEF Request, Prefer

LEMMA ActTypes ==
  ASSUME TypeOK, Act
  PROVE  acts' \in 0 .. MaxActs
  BY SettingsTypes DEF TypeOK, Act

LEMMA FormTypes ==
  ASSUME TypeOK
  PROVE  FromFields \in Settings
  BY DEF TypeOK, FromFields, Settings, Fields

LEMMA InitTypes == Init => TypeOK
  <1> SUFFICES ASSUME Init PROVE TypeOK
    OBVIOUS
  <1>1. requests \in Seq(Request) /\ Len(requests) = 1
    BY RequestTypes DEF Init
  <1>2. states \in Seq(Settings) /\ Len(states) = 0
    BY DEF Init
  <1>3. saved \in Settings /\ Normalized(saved) \in Settings
    BY SettingsTypes, NormalizedFacts DEF Init
  <1>4. fields \in [Fields -> BOOLEAN]
    BY DEF Init
  <1>5. Len(requests) <= Buffer /\ Len(states) <= Buffer /\ acts \in 0 .. MaxActs
    BY <1>1, <1>2, SettingsTypes DEF Init
  <1> QED
    BY <1>1, <1>2, <1>3, <1>4, <1>5, SettingsTypes DEF Init, TypeOK

\* Queues keep their type.
LEMMA QueueTypes ==
  ASSUME NEW S, NEW q \in Seq(S), Len(q) <= Buffer
  PROVE  /\ q # <<>> => Head(q) \in S /\ Tail(q) \in Seq(S) /\ Len(Tail(q)) <= Buffer
         /\ \A e \in S : Append(q, e) \in Seq(S)
         /\ \A e \in S : Len(q) < Buffer => Len(Append(q, e)) <= Buffer
  BY SettingsTypes

LEMMA TypeStep == TypeOK /\ [Next]_vars => TypeOK'
  <1> SUFFICES ASSUME TypeOK, [Next]_vars PROVE TypeOK'
    OBVIOUS
  <1> USE DEF backend, interface, history
  <1>1. ASSUME NEW v \in BOOLEAN, TapInvert(v) PROVE TypeOK'
    <2>1. Prefer("invert", v) \in Request
      BY RequestTypes DEF Fields
    <2>2. requests' \in Seq(Request) /\ Len(requests') <= Buffer
      BY <1>1, <2>1, QueueTypes DEF TapInvert, Request_, TypeOK
    <2> QED
      BY <1>1, <2>2, ActTypes DEF TapInvert, TypeOK, Settings
  <1>2. ASSUME NEW v \in BOOLEAN, TapSystem(v) PROVE TypeOK'
    <2>1. Prefer("system", v) \in Request
      BY RequestTypes DEF Fields
    <2>2. requests' \in Seq(Request) /\ Len(requests') <= Buffer
      BY <1>2, <2>1, QueueTypes DEF TapSystem, Request_, TypeOK
    <2> QED
      BY <1>2, <2>2, ActTypes DEF TapSystem, TypeOK, Settings
  <1>3. ASSUME NEW slider \in Sliders, NEW v \in BOOLEAN, Slide(slider, v) PROVE TypeOK'
    BY <1>3, ActTypes DEF Slide, TypeOK, Settings
  <1>4. ASSUME NEW slider \in Sliders, SlideSent(slider) PROVE TypeOK'
    <2> DEFINE value == IF slider = "page" THEN fields["slider"] ELSE control
    <2>1. value \in BOOLEAN /\ Prefer("slider", value) \in Request
      BY RequestTypes DEF Fields, TypeOK
    <2>2. requests' \in Seq(Request) /\ Len(requests') <= Buffer
      BY <1>4, <2>1, QueueTypes DEF SlideSent, Request_, TypeOK
    <2> HIDE DEF value
    <2> QED
      BY <1>4, <2>2 DEF SlideSent, TypeOK
  <1>5. CASE OpenSettings
    <2>1. Configured \in [Fields -> BOOLEAN] /\ known["slider"] \in BOOLEAN
      BY DEF TypeOK, Configured, Settings, Fields
    <2> QED
      BY <1>5, <2>1, ActTypes DEF OpenSettings, SlideLost, TypeOK
  <1>6. ASSUME NEW v \in BOOLEAN, Edit(v) PROVE TypeOK'
    BY <1>6, ActTypes DEF Edit, TypeOK
  <1>7. CASE TypeKey
    BY <1>7, ActTypes DEF TypeKey, TypeOK
  <1>8. CASE Save
    <2>1. FromFields \in Settings /\ [type |-> "save", settings |-> FromFields] \in Request
      BY FormTypes, RequestTypes
    <2>2. requests' \in Seq(Request) /\ Len(requests') <= Buffer
      BY <1>8, <2>1, QueueTypes DEF Save, Request_, TypeOK
    <2>3. chosen' \in Settings
      <3>1. (IF edited = None THEN FromFields["invert"] ELSE edited) \in BOOLEAN
        BY <2>1 DEF TypeOK, Settings, Fields
      <3>2. (typed \/ chosen["key"]) \in BOOLEAN /\ chosen["schedule"] \in BOOLEAN
        BY DEF TypeOK, Settings
      <3> DEFINE agreed == [FromFields EXCEPT
                  !["schedule"] = chosen["schedule"],
                  !["key"] = typed \/ chosen["key"],
                  !["invert"] = IF edited = None THEN @ ELSE edited]
      <3> HIDE DEF FromFields
      <3>3. agreed \in Settings
        BY <2>1, <3>1, <3>2 DEF Settings, Fields
      <3>4. chosen' = Normalized(agreed)
        BY <1>8 DEF Save
      <3> QED
        BY <3>3, <3>4, NormalizedFacts
    <2> HIDE DEF FromFields
    <2> QED
      BY <1>8, <2>2, <2>3, ActTypes DEF Save, TypeOK
  <1>9. CASE Close
    BY <1>9, ActTypes DEF Close, TypeOK
  <1>10. CASE Reset
    <2>1. requests' \in Seq(Request) /\ Len(requests') <= Buffer
      BY <1>10, RequestTypes, QueueTypes DEF Reset, Request_, TypeOK
    <2> QED
      BY <1>10, <2>1, SettingsTypes, ActTypes DEF Reset, TypeOK
  <1>11. ASSUME NEW level \in BOOLEAN, StateArrives(level) PROVE TypeOK'
    <2>1. Head(states) \in Settings /\ states' \in Seq(Settings) /\ Len(states') <= Buffer
      BY <1>11, QueueTypes DEF StateArrives, TypeOK
    <2>2. fields' \in [Fields -> BOOLEAN]
      BY <1>11, <2>1 DEF StateArrives, Shown, TypeOK, Settings
    <2>3. control' \in BOOLEAN
      BY <1>11, <2>1 DEF StateArrives, Settings, Fields
    <2> QED
      BY <1>11, <2>1, <2>2, <2>3 DEF StateArrives, SlideLost, TypeOK
  <1>12. ASSUME NEW type, Takes(type)
         PROVE  /\ requests' \in Seq(Request) /\ Len(requests') <= Buffer
                /\ Head(requests) \in Request
    BY <1>12, QueueTypes DEF Takes, TypeOK
  <1>13. ASSUME NEW c \in Settings, Stores(c)
         PROVE  /\ cfg' \in Settings /\ saved' \in Settings
                /\ owing' \in BOOLEAN /\ excused' \in BOOLEAN
    BY <1>13, NormalizedFacts DEF Stores, TypeOK
  <1>14. CASE Initialize
    BY <1>12, <1>14 DEF Initialize, TypeOK
  <1>15. CASE SaveConfig
    <2>1. Takes("save") /\ Head(requests).settings \in Settings
      BY <1>12, <1>15, RequestTypes DEF SaveConfig, Takes
    <2>2. Merged(Head(requests).settings) \in Settings
      <3>1. (Head(requests).settings["key"] \/ cfg["key"]) \in BOOLEAN
        OBVIOUS
      <3> QED
        BY <2>1, <3>1 DEF Merged, Settings
    <2>3. Normalized(Merged(Head(requests).settings)) \in Settings
      BY <2>2, NormalizedFacts
    <2> QED
      BY <1>12, <1>13, <1>15, <2>1, <2>3 DEF SaveConfig, TypeOK
  <1>16. CASE ResetSettings
    <2>1. Stores(Defaults) /\ Takes("reset")
      BY <1>16 DEF ResetSettings
    <2> QED
      BY <1>12, <1>13, <1>16, <2>1, SettingsTypes DEF ResetSettings, TypeOK
  <1>17. CASE UpdatePreferences \/ SetBrightness
    <2>1. /\ Takes("prefer") /\ Head(requests).setting \in Fields
          /\ Head(requests).value \in BOOLEAN
      BY <1>12, <1>17, RequestTypes DEF UpdatePreferences, SetBrightness, Takes
    <2>2. Preferred \in Settings
      BY <2>1 DEF Preferred, TypeOK, Settings
    <2>3. Normalized(Preferred) \in Settings
      BY <2>2, NormalizedFacts
    <2>4. /\ cfg' \in Settings /\ saved' \in Settings /\ owing' \in BOOLEAN
          /\ excused' \in BOOLEAN /\ behind' \in BOOLEAN
      BY <1>17, <2>2, <2>3 DEF UpdatePreferences, SetBrightness, TypeOK
    <2>5. requests' \in Seq(Request) /\ Len(requests') <= Buffer
      BY <1>12, <2>1
    <2>6. UNCHANGED <<snapshot, states, interface, acts, history>>
      BY <1>17 DEF UpdatePreferences, SetBrightness
    <2> QED
      BY <2>4, <2>5, <2>6 DEF TypeOK, interface, history
  <1>18. CASE Reply
    <2>1. states' \in Seq(Settings) /\ Len(states') <= Buffer
      BY <1>18, QueueTypes DEF Reply, TypeOK
    <2> QED
      BY <1>18, <2>1 DEF Reply, TypeOK
  <1>19. CASE OtherReads
    BY <1>19 DEF OtherReads, TypeOK
  <1>20. CASE OtherSends
    <2>1. states' \in Seq(Settings) /\ Len(states') <= Buffer
      BY <1>20, QueueTypes DEF OtherSends, TypeOK
    <2> QED
      BY <1>20, <2>1 DEF OtherSends, TypeOK
  <1>21. CASE Reopen
    <2>1. requests' \in Seq(Request) /\ Len(requests') = 1
      BY <1>21, RequestTypes DEF Reopen
    <2>2. states' \in Seq(Settings) /\ Len(states') = 0
      BY <1>21 DEF Reopen
    <2>3. fields' \in [Fields -> BOOLEAN]
      BY <1>21 DEF Reopen
    <2>4. Len(requests') <= Buffer /\ Len(states') <= Buffer
      BY <2>1, <2>2, SettingsTypes
    <2>5. /\ cfg' \in Settings /\ saved' \in Settings
          /\ known' \in Settings /\ chosen' \in Settings
      BY <1>21, NormalizedFacts, SettingsTypes DEF Reopen, TypeOK
    <2>6. excused' \in BOOLEAN /\ acts' \in 0 .. MaxActs
      BY <1>21, ActTypes DEF Reopen, TypeOK
    <2>7. /\ owing' \in BOOLEAN /\ initialized' \in BOOLEAN /\ open' \in BOOLEAN
          /\ typed' \in BOOLEAN /\ control' \in BOOLEAN /\ pause' \subseteq Sliders
          /\ behind' \in BOOLEAN
          /\ snapshot' \in Settings \cup {None} /\ edited' \in BOOLEAN \cup {None}
      BY <1>21 DEF Reopen
    <2> QED
      BY <2>1, <2>2, <2>3, <2>4, <2>5, <2>6, <2>7 DEF TypeOK
  <1>22. CASE UNCHANGED vars
    BY <1>22 DEF vars, TypeOK
  <1> QED
    BY <1>1, <1>2, <1>3, <1>4, <1>5, <1>6, <1>7, <1>8, <1>9, <1>10, <1>11, <1>14,
       <1>15, <1>16, <1>17, <1>18, <1>19, <1>20, <1>21, <1>22 DEF Next

-----------------------------------------------------------------------------
(* The owner's choices. *)

\* Once lost, a choice stays lost: nothing clears excused.
LEMMA ExcusesStay == [Next]_vars /\ excused => excused'
  BY DEF Next, vars, backend, interface, history, TapInvert, TapSystem, Slide,
         SlideSent, OpenSettings, Edit, TypeKey, Save, Close, Reset, StateArrives,
         Initialize, SaveConfig, ResetSettings, Stores, UpdatePreferences,
         SetBrightness, Reply,
         OtherReads, OtherSends, Reopen

\* A control of its own sends the one setting it stands for.
LEMMA PreferReaches ==
  ASSUME TypeOK, NEW x \in Fields, NEW v \in BOOLEAN,
         requests' = Append(requests, Prefer(x, v)),
         chosen'[x] = v,
         \A k \in Keys : k # x => chosen'[k] = chosen[k],
         NEW k \in Keys,
         k # x => Leaves(requests, k, cfg[k], chosen[k])
  PROVE  Leaves(requests', k, cfg[k], chosen'[k])
  <1>1. Prefer(x, v) \in Request /\ requests \in Seq(Request)
    BY RequestTypes DEF TypeOK
  <1>2. CASE k = x
    <2>1. Sets(Prefer(x, v), k) /\ SetTo(Prefer(x, v), k) = v
      BY <1>2 DEF Sets, SetTo, Prefer
    <2> QED
      BY <1>1, <1>2, <2>1, AppendSets
  <1>3. CASE k # x
    <2>1. ~Sets(Prefer(x, v), k)
      BY <1>3 DEF Sets, Prefer
    <2> QED
      BY <1>1, <1>3, <2>1, AppendKeeps
  <1> QED
    BY <1>2, <1>3

\* A handler takes a request and does to the settings what it says.
LEMMA HandledReaches ==
  ASSUME TypeOK, NEW type, Takes(type), NEW k,
         Leaves(requests, k, cfg[k], chosen[k]),
         NEW now,
         Sets(Head(requests), k) => now = SetTo(Head(requests), k),
         ~Sets(Head(requests), k) => now = cfg[k]
  PROVE  Leaves(requests', k, now, chosen[k])
  <1>1. requests \in Seq(Request) /\ requests # <<>> /\ requests' = Tail(requests)
    BY DEF TypeOK, Takes
  <1> QED
    BY <1>1, TakeFirst

LEMMA SaveReaches ==
  ASSUME TypeOK, ChoicesReach, Save, ~excused'
  PROVE  ChoicesReach'
  <1> DEFINE r == [type |-> "save", settings |-> FromFields]
  <1>1. r \in Request /\ requests \in Seq(Request) /\ requests' = Append(requests, r)
    BY RequestTypes, FormTypes DEF TypeOK, Save, Request_
  <1>2. /\ \A k \in Fields : FromFields[k] = fields[k]
        /\ FromFields["key"] = typed
        /\ FromFields["schedule"] = chosen["schedule"]
    BY DEF Save, FromFields, TypeOK, Settings, Fields
  <1>3. /\ \A k \in Fields : chosen'[k] = fields[k]
        /\ chosen'["key"] = (typed \/ chosen["key"])
        /\ chosen'["schedule"] = Normalized(FromFields)["schedule"]
    <2> DEFINE agreed == [FromFields EXCEPT
                  !["schedule"] = chosen["schedule"],
                  !["key"] = typed \/ chosen["key"],
                  !["invert"] = IF edited = None THEN @ ELSE edited]
    <2>1. FromFields \in Settings
      BY FormTypes
    <2>2. chosen' = Normalized(agreed)
      BY DEF Save
    <2>3. edited # None => fields["invert"] = edited
      BY DEF ChoicesReach
    <2>4. /\ (typed \/ chosen["key"]) \in BOOLEAN /\ chosen["schedule"] \in BOOLEAN
          /\ (IF edited = None THEN FromFields["invert"] ELSE edited) \in BOOLEAN
      BY <2>1 DEF TypeOK, Settings, Fields
    <2> HIDE DEF FromFields
    <2>5. /\ agreed \in Settings
          /\ \A k \in Fields : agreed[k] = fields[k]
          /\ agreed["key"] = (typed \/ chosen["key"])
          /\ agreed["schedule"] = FromFields["schedule"]
      BY <1>2, <2>1, <2>3, <2>4 DEF Settings, Fields
    <2> HIDE DEF agreed
    <2>6. /\ \A k \in Fields \cup {"key"} : Normalized(agreed)[k] = agreed[k]
          /\ Normalized(agreed)["schedule"] = (agreed["schedule"] /\ ~agreed["system"])
          /\ Normalized(FromFields)["schedule"]
               = (FromFields["schedule"] /\ ~FromFields["system"])
      BY <2>1, <2>5, NormalizedFacts DEF Keys, Fields
    <2>7. agreed["system"] = FromFields["system"]
      BY <1>2, <2>5 DEF Fields
    <2> QED
      BY <2>2, <2>5, <2>6, <2>7
  <1>4. ASSUME NEW k \in Keys, ~(k = "slider" /\ pause' # {})
        PROVE  Leaves(requests', k, cfg'[k], chosen'[k])
    <2>1. cfg' = cfg /\ pause' = pause
      BY DEF Save, backend
    <2>2. Leaves(requests, k, cfg[k], chosen[k])
      BY <1>4, <2>1 DEF ChoicesReach
    <2>3. \A x \in Keys \ {"schedule"} : Normalized(FromFields)[x] = FromFields[x]
      BY FormTypes, NormalizedFacts
    <2>4. CASE k # "key"
      <3>1. Normalized(FromFields)[k] = chosen'[k]
        BY <1>2, <1>3, <2>3, <2>4 DEF Keys, Fields
      <3>2. Sets(r, k) /\ SetTo(r, k) = chosen'[k]
        BY <2>4, <3>1 DEF Sets, SetTo
      <3> QED
        BY <1>1, <2>1, <3>2, AppendSets
    <2>5. CASE k = "key" /\ typed
      <3>1. FromFields["key"] = TRUE /\ chosen'["key"] = TRUE
        BY <1>2, <1>3, <2>5 DEF TypeOK
      <3>2. Normalized(FromFields)["key"] = TRUE
        BY <2>3, <3>1 DEF Keys
      <3>3. Sets(r, k) /\ SetTo(r, k) = chosen'[k]
        BY <2>5, <3>1, <3>2 DEF Sets, SetTo
      <3> QED
        BY <1>1, <2>1, <3>3, AppendSets
    <2>6. CASE k = "key" /\ ~typed
      <3>1. FromFields["key"] = FALSE /\ chosen'[k] = chosen[k]
        BY <1>2, <1>3, <2>6 DEF TypeOK, Settings
      <3>2. ~Sets(r, k)
        BY <2>6, <3>1 DEF Sets
      <3> QED
        BY <1>1, <2>1, <2>2, <3>1, <3>2, AppendKeeps
    <2> QED
      BY <2>4, <2>5, <2>6 DEF TypeOK
  <1>5. /\ UNCHANGED <<saved, cfg, fields, control, pause>> /\ edited' = None
        /\ "control" \in pause => control = fields["slider"]
    BY DEF Save, backend
  <1>6. chosen'["slider"] = fields["slider"]
    BY <1>3 DEF Fields
  <1>7. Normalized(saved') = Normalized(cfg')
    BY <1>5 DEF ChoicesReach
  <1> QED
    BY <1>4, <1>5, <1>6, <1>7 DEF ChoicesReach

LEMMA ChoicesStep ==
  ASSUME TypeOK, ChoicesReach, [Next]_vars, ~excused'
  PROVE  ChoicesReach'
  <1> USE DEF backend, interface, history
  <1>1. ASSUME NEW v \in BOOLEAN, TapInvert(v) PROVE ChoicesReach'
    <2>1. /\ chosen'["invert"] = v
          /\ \A k \in Keys : k # "invert" => chosen'[k] = chosen[k]
      BY <1>1 DEF TapInvert, TypeOK, Settings, Fields, Keys
    <2>2. requests' = Append(requests, Prefer("invert", v))
      BY <1>1 DEF TapInvert, Request_
    <2> QED
      BY <1>1, <2>1, <2>2, PreferReaches DEF TapInvert, ChoicesReach, Keys, Fields
  <1>2. ASSUME NEW v \in BOOLEAN, TapSystem(v) PROVE ChoicesReach'
    <2>1. /\ chosen'["system"] = v
          /\ \A k \in Keys : k # "system" => chosen'[k] = chosen[k]
      BY <1>2 DEF TapSystem, TypeOK, Settings, Fields, Keys
    <2>2. requests' = Append(requests, Prefer("system", v))
      BY <1>2 DEF TapSystem, Request_
    <2>3. fields'["invert"] = fields["invert"] /\ fields'["slider"] = fields["slider"]
      BY <1>2 DEF TapSystem, TypeOK, Fields
    <2> QED
      BY <1>2, <2>1, <2>2, <2>3, PreferReaches
      DEF TapSystem, ChoicesReach, Keys, Fields
  <1>3. ASSUME NEW slider \in Sliders, NEW v \in BOOLEAN, Slide(slider, v)
        PROVE  ChoicesReach'
    <2>1. /\ chosen'["slider"] = v
          /\ \A k \in Keys : k # "slider" => chosen'[k] = chosen[k]
      BY <1>3 DEF Slide, TypeOK, Settings, Fields, Keys
    <2>2. fields'["invert"] = fields["invert"] /\ fields'["slider"] = v
      BY <1>3 DEF Slide, TypeOK, Fields
    <2>3. /\ UNCHANGED <<saved, cfg, requests, edited>>
          /\ control' = v /\ pause' # {}
      BY <1>3 DEF Slide
    <2> QED
      BY <2>1, <2>2, <2>3 DEF ChoicesReach
  <1>4. ASSUME NEW slider \in Sliders, SlideSent(slider) PROVE ChoicesReach'
    <2> DEFINE value == IF slider = "page" THEN fields["slider"] ELSE control
    <2>1. requests' = Append(requests, Prefer("slider", value))
      BY <1>4 DEF SlideSent, Request_
    <2>2. chosen' = chosen /\ value = chosen["slider"]
      BY <1>4 DEF SlideSent, ChoicesReach, Sliders
    <2>3. value \in BOOLEAN /\ "slider" \in Fields
      BY DEF TypeOK, Fields
    <2> HIDE DEF value
    <2>4. /\ UNCHANGED <<saved, cfg, edited, fields, control>>
          /\ pause' \subseteq pause
      BY <1>4 DEF SlideSent
    <2>5. ASSUME NEW k \in Keys PROVE Leaves(requests', k, cfg[k], chosen'[k])
      <3>1. k # "slider" => Leaves(requests, k, cfg[k], chosen[k])
        BY DEF ChoicesReach
      <3> QED
        BY <2>1, <2>2, <2>3, <3>1, PreferReaches
    <2> QED
      BY <2>2, <2>4, <2>5 DEF ChoicesReach
  <1>5. CASE OpenSettings
    BY <1>5 DEF OpenSettings, SlideLost, ChoicesReach
  <1>6. ASSUME NEW v \in BOOLEAN, Edit(v) PROVE ChoicesReach'
    <2>1. fields'["invert"] = v /\ fields'["slider"] = fields["slider"]
      BY <1>6 DEF Edit, TypeOK, Fields
    <2> QED
      BY <1>6, <2>1 DEF Edit, ChoicesReach
  <1>7. CASE TypeKey
    BY <1>7 DEF TypeKey, ChoicesReach
  <1>8. CASE Save
    BY <1>8, SaveReaches
  <1>9. CASE Close
    BY <1>9 DEF Close, ChoicesReach
  <1>10. CASE Reset
    <2> DEFINE r == [type |-> "reset"]
    <2>1. r \in Request /\ requests \in Seq(Request) /\ requests' = Append(requests, r)
      BY <1>10, RequestTypes DEF Reset, Request_, TypeOK
    <2>2. ASSUME NEW k \in Keys PROVE Leaves(requests', k, cfg'[k], chosen'[k])
      <3>1. Sets(r, k) /\ SetTo(r, k) = chosen'[k]
        BY <1>10 DEF Reset, Sets, SetTo
      <3> QED
        BY <2>1, <3>1, AppendSets
    <2> QED
      BY <1>10, <2>2 DEF Reset, ChoicesReach
  <1>11. ASSUME NEW level \in BOOLEAN, StateArrives(level) PROVE ChoicesReach'
    <2>1. edited # None => fields'["invert"] = fields["invert"]
      BY <1>11 DEF StateArrives, Shown, TypeOK, Fields
    <2>2. ~SlideLost /\ UNCHANGED <<saved, cfg, requests, chosen, edited, pause>>
      BY <1>11 DEF StateArrives
    <2> QED
      BY <2>1, <2>2 DEF SlideLost, ChoicesReach
  <1>12. CASE Initialize
    <2>1. Takes("initialize") /\ cfg' = cfg
      BY <1>12 DEF Initialize
    <2>2. \A k : ~Sets(Head(requests), k)
      BY <2>1 DEF Takes, Sets
    <2> QED
      BY <1>12, <2>1, <2>2, HandledReaches DEF Initialize, ChoicesReach
  <1>13. CASE SaveConfig
    <2> DEFINE r == Head(requests)
    <2>1. Takes("save") /\ r.type = "save" /\ r.settings \in Settings
      BY <1>13, RequestTypes, QueueTypes DEF SaveConfig, Takes, TypeOK
    <2> DEFINE m == Merged(r.settings)
    <2>2. /\ m \in Settings
          /\ \A k \in Keys \ {"key"} : m[k] = r.settings[k]
          /\ m["key"] = (r.settings["key"] \/ cfg["key"])
      <3>1. (r.settings["key"] \/ cfg["key"]) \in BOOLEAN
        OBVIOUS
      <3> QED
        BY <2>1, <3>1 DEF Merged, Settings, Keys
    <2>3. cfg' = Normalized(m) /\ saved' = Normalized(Normalized(m))
      BY <1>13 DEF SaveConfig, Stores
    <2> HIDE DEF m
    <2>4. /\ \A k \in Keys \ {"schedule"} : cfg'[k] = m[k]
          /\ cfg'["schedule"] = (m["schedule"] /\ ~m["system"])
          /\ saved' = cfg'
      BY <2>2, <2>3, NormalizedFacts
    <2>5. /\ \A k \in Keys \ {"schedule"} : Normalized(r.settings)[k] = r.settings[k]
          /\ Normalized(r.settings)["schedule"]
               = (r.settings["schedule"] /\ ~r.settings["system"])
      BY <2>1, NormalizedFacts
    <2>6. ASSUME NEW k \in Keys
          PROVE  /\ Sets(r, k) => cfg'[k] = SetTo(r, k)
                 /\ ~Sets(r, k) => cfg'[k] = cfg[k]
      <3>1. CASE k # "key"
        <4>1. cfg'[k] = Normalized(r.settings)[k]
          BY <2>2, <2>4, <2>5, <3>1 DEF Keys, Fields
        <4> QED
          BY <2>1, <3>1, <4>1 DEF Sets, SetTo
      <3>2. CASE k = "key"
        <4>1. cfg'["key"] = (r.settings["key"] \/ cfg["key"])
          BY <2>2, <2>4 DEF Keys
        <4>2. r.settings["key"] \in BOOLEAN /\ cfg["key"] \in BOOLEAN
          BY <2>1 DEF TypeOK, Settings
        <4>3. Normalized(r.settings)["key"] = r.settings["key"]
          BY <2>5 DEF Keys
        <4>4. CASE r.settings["key"]
          BY <2>1, <3>2, <4>1, <4>2, <4>3, <4>4 DEF Sets, SetTo
        <4>5. CASE ~r.settings["key"]
          BY <2>1, <3>2, <4>1, <4>2, <4>5 DEF Sets
        <4> QED
          BY <4>4, <4>5
      <3> QED
        BY <3>1, <3>2
    <2> HIDE DEF r
    <2>7. UNCHANGED <<edited, fields, control, pause, chosen>>
      BY <1>13 DEF SaveConfig
    <2> QED
      BY <2>1, <2>4, <2>6, <2>7, HandledReaches DEF ChoicesReach, r
  <1>14. CASE ResetSettings
    <2>1. Takes("reset") /\ Head(requests).type = "reset"
      BY <1>14 DEF ResetSettings, Takes
    <2>2. cfg' = Defaults /\ saved' = Normalized(Defaults)
      BY <1>14 DEF ResetSettings, Stores
    <2>3. \A k : Sets(Head(requests), k) /\ SetTo(Head(requests), k) = cfg'[k]
      BY <2>1, <2>2 DEF Sets, SetTo
    <2>4. Normalized(saved') = Normalized(cfg')
      BY <2>2, SettingsTypes, NormalizedFacts
    <2> QED
      BY <1>14, <2>1, <2>3, <2>4, HandledReaches DEF ResetSettings, ChoicesReach
  <1>15. CASE UpdatePreferences \/ SetBrightness
    <2> DEFINE r == Head(requests)
    <2>1. /\ Takes("prefer") /\ r.type = "prefer"
          /\ r.setting \in Fields /\ r.value \in BOOLEAN
      BY <1>15, RequestTypes, QueueTypes DEF UpdatePreferences, SetBrightness, Takes, TypeOK
    <2>2. cfg' = [cfg EXCEPT ![r.setting] = r.value] /\ saved' = Normalized(cfg')
      BY <1>15 DEF UpdatePreferences, SetBrightness, Preferred
    <2>3. ASSUME NEW k \in Keys
          PROVE  /\ Sets(r, k) => cfg'[k] = SetTo(r, k)
                 /\ ~Sets(r, k) => cfg'[k] = cfg[k]
      BY <2>1, <2>2 DEF Sets, SetTo, TypeOK, Settings, Keys
    <2>4. Normalized(saved') = Normalized(cfg')
      <3>1. cfg' \in Settings
        BY <2>1, <2>2 DEF TypeOK, Settings
      <3> QED
        BY <2>2, <3>1, NormalizedFacts
    <2>5. UNCHANGED <<edited, fields, control, pause, chosen>>
      BY <1>15 DEF UpdatePreferences, SetBrightness
    <2> HIDE DEF r
    <2> QED
      BY <2>1, <2>3, <2>4, <2>5, HandledReaches DEF ChoicesReach, r
  <1>16. CASE Reply
    BY <1>16 DEF Reply, ChoicesReach
  <1>17. CASE OtherReads
    BY <1>17 DEF OtherReads, ChoicesReach
  <1>18. CASE OtherSends
    BY <1>18 DEF OtherSends, ChoicesReach
  <1>19. CASE Reopen
    <2> DEFINE r == [type |-> "initialize"]
    <2>1. requests = <<>> /\ pause = {} /\ cfg' = Normalized(saved) /\ saved' = saved
      BY <1>19 DEF Reopen, Settled
    <2>2. /\ requests' = Append(<<>>, r) /\ chosen' = Normalized(chosen)
          /\ edited' = None /\ pause' = {}
      BY <1>19 DEF Reopen
    <2>3. cfg' = chosen' /\ Normalized(saved') = Normalized(cfg')
      <3>1. \A k \in Keys : cfg[k] = chosen[k]
        BY <2>1, LeavesNow DEF ChoicesReach
      <3>2. cfg \in [Keys -> BOOLEAN] /\ chosen \in [Keys -> BOOLEAN] /\ saved \in Settings
        BY DEF TypeOK, Settings, Keys
      <3>3. cfg = chosen
        BY <3>1, <3>2
      <3> QED
        BY <2>1, <2>2, <3>2, <3>3, NormalizedFacts DEF ChoicesReach
    <2>4. ASSUME NEW k \in Keys PROVE Leaves(requests', k, cfg'[k], chosen'[k])
      <3>1. Leaves(<<>>, k, cfg'[k], chosen'[k])
        BY <2>3 DEF Leaves
      <3>2. ~Sets(r, k) /\ r \in Request /\ <<>> \in Seq(Request)
        BY RequestTypes DEF Sets
      <3> QED
        BY <2>2, <3>1, <3>2, AppendKeeps
    <2> QED
      BY <2>2, <2>3, <2>4 DEF ChoicesReach
  <1>20. CASE UNCHANGED vars
    BY <1>20 DEF vars, ChoicesReach
  <1> QED
    BY <1>1, <1>2, <1>3, <1>4, <1>5, <1>6, <1>7, <1>8, <1>9, <1>10, <1>11, <1>12,
       <1>13, <1>14, <1>15, <1>16, <1>17, <1>18, <1>19, <1>20 DEF Next

-----------------------------------------------------------------------------
(* What the interface shows. *)

Reported == ~behind => owing \/ Asked \/ Seen = cfg

\* No message but the first asks for a state without changing the settings.
LEMMA AskedStays ==
  ASSUME TypeOK, NEW r \in Request, requests' = Append(requests, r), Asked
  PROVE  Asked'
  <1>1. /\ Len(requests') = Len(requests) + 1 /\ Len(requests) \in Nat
        /\ \A i \in 1 .. Len(requests) : requests'[i] = requests[i]
    BY DEF TypeOK
  <1> QED
    BY <1>1 DEF Asked

LEMMA AskedBehind ==
  ASSUME TypeOK, NEW type, type # "initialize", Takes(type), Asked
  PROVE  Asked'
  <1>1. /\ requests # <<>> /\ requests[1].type = type /\ requests' = Tail(requests)
        /\ requests \in Seq(Request)
    BY DEF TypeOK, Takes
  <1>2. /\ Len(requests') = Len(requests) - 1 /\ Len(requests) \in Nat
        /\ \A i \in 2 .. Len(requests) : requests'[i - 1] = requests[i]
    BY <1>1
  <1>3. PICK i \in 1 .. Len(requests) : requests[i].type = "initialize"
    BY DEF Asked
  <1>4. i # 1 /\ i \in 2 .. Len(requests) /\ i - 1 \in 1 .. Len(requests')
    BY <1>1, <1>2, <1>3
  <1>5. requests'[i - 1].type = "initialize"
    BY <1>2, <1>3, <1>4
  <1> QED
    BY <1>4, <1>5 DEF Asked

\* Taking a state brings the interface nearer to the last one.
LEMMA SeenStays ==
  ASSUME TypeOK, NEW level \in BOOLEAN, StateArrives(level)
  PROVE  Seen' = Seen
  <1>1. states \in Seq(Settings) /\ states # <<>>
    BY DEF TypeOK, StateArrives
  <1>2. states' = Tail(states) /\ known' = Head(states)
    BY DEF StateArrives
  <1>3. CASE Len(states) = 1
    BY <1>1, <1>2, <1>3 DEF Seen
  <1>4. CASE Len(states) # 1
    <2> DEFINE n == Len(states)
    <2>1. n \in Nat /\ n > 1
      <3>1. n \in Nat /\ n # 0
        BY <1>1
      <3>2. n # 1
        BY <1>4
      <3> HIDE DEF n
      <3> QED
        BY <3>1, <3>2
    <2>2. Len(Tail(states)) = n - 1 /\ \A i \in 1 .. n - 1 : Tail(states)[i] = states[i + 1]
      BY <1>1
    <2> HIDE DEF n
    <2>3. n - 1 \in 1 .. n - 1 /\ (n - 1) + 1 = n
      BY <2>1
    <2>4. Tail(states)[n - 1] = states[n]
      BY <2>2, <2>3
    <2>5. Tail(states) # <<>>
      <3>1. Len(Tail(states)) # 0
        BY <2>1, <2>2
      <3>2. Len(<<>>) = 0
        OBVIOUS
      <3> QED
        BY <3>1, <3>2
    <2> QED
      BY <1>1, <1>2, <2>2, <2>4, <2>5 DEF Seen, n
  <1> QED
    BY <1>3, <1>4

LEMMA SentIsSeen ==
  ASSUME TypeOK, NEW s \in Settings, states' = Append(states, s)
  PROVE  Seen' = s
  <1>1. states \in Seq(Settings)
    BY DEF TypeOK
  <1>2. states' # <<>> /\ states'[Len(states')] = s
    BY <1>1
  <1> QED
    BY <1>2 DEF Seen

LEMMA ReportStep ==
  ASSUME TypeOK, Reported, [Next]_vars
  PROVE  Reported'
  <1> USE DEF backend, interface, history
  <1>1. CASE \/ \E v \in BOOLEAN : TapInvert(v) \/ TapSystem(v)
             \/ \E slider \in Sliders : SlideSent(slider)
             \/ Save \/ Reset
    <2>1. PICK r \in Request : requests' = Append(requests, r)
      BY <1>1, RequestTypes, FormTypes
      DEF TapInvert, TapSystem, SlideSent, Save, Reset, Request_, TypeOK, Fields
    <2>2. UNCHANGED <<behind, owing, states, known, cfg>>
      BY <1>1 DEF TapInvert, TapSystem, SlideSent, Save, Reset
    <2> QED
      BY <2>1, <2>2, AskedStays DEF Reported, Seen
  <1>2. CASE \/ \E slider \in Sliders, v \in BOOLEAN : Slide(slider, v)
             \/ \E v \in BOOLEAN : Edit(v)
             \/ OpenSettings \/ TypeKey \/ Close \/ OtherReads \/ UNCHANGED vars
    BY <1>2 DEF Slide, Edit, OpenSettings, TypeKey, Close, OtherReads, vars,
                Reported, Asked, Seen
  <1>3. ASSUME NEW level \in BOOLEAN, StateArrives(level) PROVE Reported'
    <2>1. UNCHANGED <<behind, owing, requests, cfg>>
      BY <1>3 DEF StateArrives
    <2> QED
      BY <1>3, <2>1, SeenStays DEF Reported, Asked
  <1>4. CASE Initialize
    BY <1>4 DEF Initialize, Reported
  <1>5. CASE SaveConfig \/ ResetSettings
    <2>1. PICK type \in {"save", "reset"} : Takes(type)
      BY <1>5 DEF SaveConfig, ResetSettings
    <2>2. owing' \/ (cfg' = cfg /\ owing' = owing)
      BY <1>5 DEF SaveConfig, ResetSettings, Stores
    <2>3. UNCHANGED <<behind, states, known>>
      BY <1>5 DEF SaveConfig, ResetSettings
    <2> QED
      BY <2>1, <2>2, <2>3, AskedBehind DEF Reported, Seen
  <1>6. CASE UpdatePreferences
    BY <1>6 DEF UpdatePreferences, Reported, TypeOK
  <1>10. CASE SetBrightness
    <2>1. Takes("prefer") /\ (owing' \/ (cfg' = cfg /\ owing' = owing))
      BY <1>10 DEF SetBrightness
    <2>2. UNCHANGED <<behind, states, known>>
      BY <1>10 DEF SetBrightness
    <2> QED
      BY <2>1, <2>2, AskedBehind DEF Reported, Seen
  <1>7. CASE Reply
    BY <1>7, SentIsSeen DEF Reply, Reported, TypeOK
  <1>8. CASE OtherSends
    <2>1. snapshot \in Settings
      BY <1>8, SettingsTypes DEF OtherSends, TypeOK
    <2>2. Seen' = snapshot /\ cfg' = cfg
      BY <1>8, <2>1, SentIsSeen DEF OtherSends
    <2> QED
      BY <1>8, <2>2 DEF OtherSends, Reported
  <1>9. CASE Reopen
    <2>1. requests' = <<[type |-> "initialize"]>>
      BY <1>9 DEF Reopen
    <2>2. 1 \in 1 .. Len(requests') /\ requests'[1].type = "initialize"
      BY <2>1
    <2> QED
      BY <2>2 DEF Reported, Asked
  <1> QED
    BY <1>1, <1>2, <1>3, <1>4, <1>5, <1>6, <1>7, <1>8, <1>9, <1>10 DEF Next

-----------------------------------------------------------------------------
(* The theorems. *)

LEMMA InitIInv == Init => IInv
  <1> SUFFICES ASSUME Init PROVE IInv
    OBVIOUS
  <1>1. requests = Append(<<>>, [type |-> "initialize"])
    BY DEF Init
  <1>2. 1 \in 1 .. Len(requests) /\ requests[1].type = "initialize"
    BY DEF Init
  <1>3. ASSUME NEW k \in Keys PROVE Leaves(requests, k, cfg[k], chosen[k])
    <2>1. Leaves(<<>>, k, cfg[k], chosen[k])
      BY DEF Leaves, Init
    <2>2. ~Sets([type |-> "initialize"], k) /\ <<>> \in Seq(Request)
      BY DEF Sets
    <2> QED
      BY <1>1, <2>1, <2>2, RequestTypes, AppendKeeps
  <1> QED
    <2>1. Normalized(saved) = Normalized(cfg)
      BY SettingsTypes, NormalizedFacts DEF Init
    <2> QED
      BY <1>2, <1>3, <2>1, InitTypes DEF Init, IInv, ChoicesReach, Asked

LEMMA IInvHolds == Spec => []IInv
  <1>1. IInv /\ [Next]_vars => IInv'
    BY TypeStep, ExcusesStay, ChoicesStep, ReportStep DEF IInv, Reported
  <1> QED
    BY <1>1, InitIInv, PTL DEF Spec

\* The queues are bounded by the socket, whatever is sent on them.
THEOREM SettingsTypesHold == Spec => []TypeOK
  <1> QED
    BY IInvHolds, PTL DEF IInv

\* When everything sent has been handled, the settings in force are the owner's last
\* choices, and those the next start will load are the same but for a schedule that the
\* system brightness excludes: for sockets of every size and any number of acts.
THEOREM ChoicesAreKept == Spec => []ChoicesKept
  <1>1. IInv => ChoicesKept
    <2> SUFFICES ASSUME IInv, Settled, ~excused
                 PROVE  cfg = chosen /\ Normalized(saved) = Normalized(chosen)
      BY DEF ChoicesKept
    <2>1. \A k \in Keys : cfg[k] = chosen[k]
      BY LeavesNow DEF IInv, ChoicesReach, Settled
    <2>2. cfg \in [Keys -> BOOLEAN] /\ chosen \in [Keys -> BOOLEAN]
      BY DEF IInv, TypeOK, Settings, Keys
    <2>3. cfg = chosen
      BY <2>1, <2>2
    <2> QED
      BY <2>3 DEF IInv, ChoicesReach
  <1> QED
    BY <1>1, IInvHolds, PTL

\* When everything sent has been handled, the interface shows the settings in force.
THEOREM PagesAgree == Spec => []InterfaceAgrees
  <1>1. IInv => InterfaceAgrees
    BY DEF IInv, TypeOK, InterfaceAgrees, Settled, Asked, Seen
  <1> QED
    BY <1>1, IInvHolds, PTL
=============================================================================
