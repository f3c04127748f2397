------------------------- MODULE BackendFilesProofs -------------------------
(***************************************************************************)
(* Proofs about the files the backend keeps beside its settings: the screen*)
(* cache (ScreenCache), for any number of screens kept, files, URLs and    *)
(* kills, and backend.lock (InstanceLock), for any set of pids.  The two   *)
(* have no state in common.                                                *)
(***************************************************************************)
EXTENDS ScreenCache, InstanceLock, SequenceTheorems, WellFoundedInduction, TLAPS

\* Induction over the natural numbers, for a set rather than a predicate.
LEMMA NatInduct ==
  ASSUME NEW T, 0 \in T, \A n \in Nat : n \in T => n + 1 \in T
  PROVE  Nat \subseteq T
  <1> DEFINE Bad == Nat \ T
  <1> SUFFICES ASSUME Bad # {} PROVE FALSE
    OBVIOUS
  <1>1. PICK n \in Bad : \A m \in Bad : ~(<<m, n>> \in OpToRel(<, Nat))
    <2> HIDE DEF Bad
    <2>1. Bad \subseteq Nat
      BY DEF Bad
    <2> QED
      BY <2>1, NatLessThanWellFounded, WFMin, Zenon
  <1>2. \A m \in Bad : ~(m < n)
    BY <1>1 DEF OpToRel
  <1>3. n # 0 /\ n - 1 \in Nat /\ n - 1 < n
    OBVIOUS
  <1>4. n - 1 \in T
    BY <1>2, <1>3
  <1> QED
    BY <1>3, <1>4

-----------------------------------------------------------------------------
(* The loop of Entries                                                       *)

NamesIn(s) == {e.name : e \in ToSet(s)}

\* No two entries of a list have the same screen file.
Distinct(s) == \A i, j \in DOMAIN s : s[i].name = s[j].name => i = j

\* What valid is, round by round.
Keeps(g, s, fs, n) ==
  g = [i \in 0 .. n |-> IF i = 0 THEN <<>>
                        ELSE IF s[i].name \in fs THEN Append(g[i - 1], s[i])
                        ELSE g[i - 1]]

\* The k-th entry is the first whose file exists.
FirstIn(k, s, fs) == s[k].name \in fs /\ \A j \in 1 .. k - 1 : s[j].name \notin fs

\* The loop ends with such a valid, whatever the length.
LEMMA KeepsExists ==
  ASSUME NEW s, NEW fs, NEW n \in Nat
  PROVE  \E g : Keeps(g, s, fs, n)
  <1> DEFINE T == {m \in Nat : \E g : Keeps(g, s, fs, m)}
  <1>1. 0 \in T
    <2> DEFINE g0 == [i \in 0 .. 0 |-> <<>>]
    <2>1. Keeps(g0, s, fs, 0)
      BY DEF Keeps
    <2> QED
      BY <2>1
  <1>2. ASSUME NEW m \in Nat, m \in T PROVE m + 1 \in T
    <2>1. PICK g : Keeps(g, s, fs, m)
      BY <1>2
    <2> DEFINE next == IF s[m + 1].name \in fs THEN Append(g[m], s[m + 1]) ELSE g[m]
               h == [i \in 0 .. m + 1 |-> IF i = m + 1 THEN next ELSE g[i]]
    <2>2. \A i \in 0 .. m : h[i] = g[i]
      OBVIOUS
    <2>3. h[m + 1] = next
      OBVIOUS
    <2>4. \A i \in 0 .. m : g[i] = IF i = 0 THEN <<>>
                        ELSE IF s[i].name \in fs THEN Append(g[i - 1], s[i])
                        ELSE g[i - 1]
      BY <2>1 DEF Keeps
    <2>5. \A i \in 0 .. m + 1 : h[i] = IF i = 0 THEN <<>>
                        ELSE IF s[i].name \in fs THEN Append(h[i - 1], s[i])
                        ELSE h[i - 1]
      <3> HIDE DEF h
      <3> QED
        BY <2>2, <2>3, <2>4
    <2>6. h = [i \in 0 .. m + 1 |-> h[i]]
      OBVIOUS
    <2>7. Keeps(h, s, fs, m + 1)
      <3> HIDE DEF h
      <3> QED
        BY <2>5, <2>6 DEF Keeps
    <2> QED
      BY <2>7
  <1> QED
    BY <1>1, <1>2, NatInduct

\* Entries is the last round of one.
LEMMA EntriesKeeps ==
  ASSUME index \in Seq(Entry)
  PROVE  \E g : Keeps(g, index, files, Len(index)) /\ Entries = g[Len(index)]
  <1>1. Len(index) \in Nat
    OBVIOUS
  <1>2. \E g : Keeps(g, index, files, Len(index))
    BY <1>1, KeepsExists
  <1> QED
    BY <1>2, Zenon DEF Entries, Keeps

\* One entry appended, one put in front, the first one taken off.
LEMMA Adding ==
  ASSUME NEW q \in Seq(Entry), NEW e \in Entry
  PROVE  /\ Append(q, e) \in Seq(Entry) /\ Append(q, e) # <<>>
         /\ Append(q, e)[1] = IF q = <<>> THEN e ELSE q[1]
         /\ ToSet(Append(q, e)) = ToSet(q) \cup {e}
         /\ Distinct(q) /\ e.name \notin NamesIn(q) => Distinct(Append(q, e))
  <1> DEFINE a == Append(q, e)
  <1>1. /\ a \in Seq(Entry) /\ a # <<>> /\ Len(a) = Len(q) + 1
        /\ \A i \in 1 .. Len(q) : a[i] = q[i]
        /\ a[Len(q) + 1] = e
    BY AppendProperties
  <1>2. Len(q) \in Nat /\ DOMAIN q = 1 .. Len(q) /\ DOMAIN a = 1 .. Len(q) + 1
    BY <1>1
  <1>3. q = <<>> => Len(q) = 0
    OBVIOUS
  <1>4. q # <<>> => Len(q) > 0
    OBVIOUS
  <1> HIDE DEF a
  <1>5. a[1] = IF q = <<>> THEN e ELSE q[1]
    BY <1>1, <1>2, <1>3, <1>4
  <1>6. ToSet(a) = ToSet(q) \cup {e}
    <2>1. \A i \in DOMAIN a : i \in DOMAIN q \/ i = Len(q) + 1
      BY <1>2
    <2>2. DOMAIN q \subseteq DOMAIN a /\ Len(q) + 1 \in DOMAIN a
      BY <1>2
    <2> QED
      BY <1>1, <1>2, <2>1, <2>2 DEF ToSet
  <1>7. Distinct(q) /\ e.name \notin NamesIn(q) => Distinct(a)
    <2> SUFFICES ASSUME Distinct(q), e.name \notin NamesIn(q),
                        NEW i \in DOMAIN a, NEW j \in DOMAIN a, a[i].name = a[j].name
                 PROVE  i = j
      BY DEF Distinct
    <2>1. \A k \in DOMAIN q : q[k].name # e.name
      BY DEF NamesIn, ToSet
    <2>2. CASE i \in DOMAIN q /\ j \in DOMAIN q
      BY <2>2, <1>1, <1>2 DEF Distinct
    <2>3. CASE i = Len(q) + 1 \/ j = Len(q) + 1
      BY <2>1, <2>3, <1>1, <1>2
    <2> QED
      BY <2>2, <2>3, <1>2
  <1> QED
    BY <1>1, <1>5, <1>6, <1>7 DEF a

\* What every round of the loop keeps: the entries seen so far whose file exists.
LEMMA ValidHolds ==
  ASSUME NEW s \in Seq(Entry), NEW fs, NEW g, Keeps(g, s, fs, Len(s))
  PROVE  \A i \in 0 .. Len(s) :
           /\ g[i] \in Seq(Entry)
           /\ ToSet(g[i]) = {s[j] : j \in {k \in 1 .. i : s[k].name \in fs}}
           /\ g[i] # <<>> => \E k \in 1 .. i : g[i][1] = s[k] /\ FirstIn(k, s, fs)
           /\ Distinct(s) => Distinct(g[i])
  <1> DEFINE Q(i) == /\ g[i] \in Seq(Entry)
                     /\ ToSet(g[i]) = {s[j] : j \in {k \in 1 .. i : s[k].name \in fs}}
                     /\ g[i] # <<>> => \E k \in 1 .. i : g[i][1] = s[k] /\ FirstIn(k, s, fs)
                     /\ Distinct(s) => Distinct(g[i])
             T == {m \in Nat : m <= Len(s) => Q(m)}
  <1>0. Len(s) \in Nat /\ DOMAIN s = 1 .. Len(s) /\ \A k \in 1 .. Len(s) : s[k] \in Entry
    OBVIOUS
  <1>g. \A i \in 0 .. Len(s) : g[i] = IF i = 0 THEN <<>>
                        ELSE IF s[i].name \in fs THEN Append(g[i - 1], s[i])
                        ELSE g[i - 1]
    BY DEF Keeps
  <1>1. 0 \in T
    <2>1. g[0] = <<>>
      BY <1>0, <1>g
    <2>2. ToSet(<<>>) = {} /\ Distinct(<<>>)
      BY DEF ToSet, Distinct
    <2>3. {s[j] : j \in {k \in 1 .. 0 : s[k].name \in fs}} = {}
      OBVIOUS
    <2>4. Q(0)
      BY <2>1, <2>2, <2>3
    <2> QED
      BY <2>4
  <1>2. ASSUME NEW m \in Nat, m \in T PROVE m + 1 \in T
    <2> SUFFICES ASSUME m + 1 <= Len(s) PROVE Q(m + 1)
      OBVIOUS
    <2>1. Q(m) /\ m + 1 \in 1 .. Len(s) /\ m \in 0 .. Len(s) /\ s[m + 1] \in Entry
      BY <1>0, <1>2
    <2>2. g[m + 1] = IF s[m + 1].name \in fs THEN Append(g[m], s[m + 1]) ELSE g[m]
      BY <2>1, <1>g
    <2> DEFINE W(i) == {s[j] : j \in {k \in 1 .. i : s[k].name \in fs}}
    <2>3. CASE s[m + 1].name \in fs
      <3>1. /\ Append(g[m], s[m + 1]) \in Seq(Entry)
            /\ Append(g[m], s[m + 1]) # <<>>
            /\ Append(g[m], s[m + 1])[1] = IF g[m] = <<>> THEN s[m + 1] ELSE g[m][1]
            /\ ToSet(Append(g[m], s[m + 1])) = ToSet(g[m]) \cup {s[m + 1]}
            /\ Distinct(g[m]) /\ s[m + 1].name \notin NamesIn(g[m]) => Distinct(Append(g[m], s[m + 1]))
        BY <2>1, Adding
      <3>2. g[m + 1] = Append(g[m], s[m + 1])
        BY <2>2, <2>3
      <3>3. W(m + 1) = W(m) \cup {s[m + 1]}
        <4>1. \A j : j \in {k \in 1 .. m + 1 : s[k].name \in fs}
                       <=> j \in {k \in 1 .. m : s[k].name \in fs} \/ j = m + 1
          BY <2>1, <2>3
        <4> QED
          BY <4>1
      <3>4. Distinct(s) => s[m + 1].name \notin NamesIn(g[m])
        <4> SUFFICES ASSUME Distinct(s), NEW e \in ToSet(g[m]), e.name = s[m + 1].name
                     PROVE  FALSE
          BY DEF NamesIn
        <4>1. PICK j \in 1 .. m : e = s[j]
          BY <2>1
        <4> QED
          BY <4>1, <1>0, <2>1 DEF Distinct
      <3>5. \E k \in 1 .. m + 1 : g[m + 1][1] = s[k] /\ FirstIn(k, s, fs)
        <4>1. CASE g[m] = <<>>
          <5>1. \A j \in 1 .. m : s[j].name \notin fs
            BY <4>1, <2>1 DEF ToSet
          <5>2. g[m + 1][1] = s[m + 1]
            BY <4>1, <3>1, <3>2
          <5>3. FirstIn(m + 1, s, fs)
            BY <5>1, <2>3 DEF FirstIn
          <5> QED
            BY <5>2, <5>3
        <4>2. CASE g[m] # <<>>
          <5>1. g[m + 1][1] = g[m][1]
            BY <4>2, <3>1, <3>2
          <5>2. 1 .. m \subseteq 1 .. m + 1
            OBVIOUS
          <5> QED
            BY <4>2, <5>1, <5>2, <2>1
        <4> QED
          BY <4>1, <4>2
      <3> QED
        BY <3>1, <3>2, <3>3, <3>4, <3>5, <2>1
    <2>4. CASE s[m + 1].name \notin fs
      <3>1. g[m + 1] = g[m]
        BY <2>2, <2>4
      <3>2. W(m + 1) = W(m)
        <4>1. \A j : j \in {k \in 1 .. m + 1 : s[k].name \in fs}
                       <=> j \in {k \in 1 .. m : s[k].name \in fs}
          BY <2>1, <2>4
        <4> QED
          BY <4>1
      <3>3. 1 .. m \subseteq 1 .. m + 1
        OBVIOUS
      <3> QED
        BY <3>1, <3>2, <3>3, <2>1
    <2> QED
      BY <2>3, <2>4
  <1>3. Nat \subseteq T
    <2> HIDE DEF T
    <2> QED
      BY <1>1, <1>2, NatInduct
  <1> QED
    <2> SUFFICES ASSUME NEW i \in 0 .. Len(s) PROVE Q(i)
      OBVIOUS
    <2>1. i \in Nat /\ i <= Len(s)
      BY <1>0
    <2>2. i \in T
      BY <1>3, <2>1
    <2> HIDE DEF Q
    <2> QED
      BY <2>1, <2>2

\* Entries holds exactly the entries of the index whose file exists, each once and the
\* first of them first.
LEMMA EntriesFacts ==
  ASSUME index \in Seq(Entry)
  PROVE  /\ Entries \in Seq(Entry)
         /\ ToSet(Entries) = {e \in ToSet(index) : e.name \in files}
         /\ Entries # <<>> =>
              \E k \in DOMAIN index : Entries[1] = index[k] /\ FirstIn(k, index, files)
         /\ Distinct(index) => Distinct(Entries)
  <1>1. PICK g : Keeps(g, index, files, Len(index)) /\ Entries = g[Len(index)]
    BY EntriesKeeps
  <1>2. Len(index) \in 0 .. Len(index) /\ DOMAIN index = 1 .. Len(index)
    OBVIOUS
  <1>3. /\ Entries \in Seq(Entry)
        /\ ToSet(Entries) = {index[j] : j \in {k \in DOMAIN index : index[k].name \in files}}
        /\ Entries # <<>> =>
             \E k \in DOMAIN index : Entries[1] = index[k] /\ FirstIn(k, index, files)
        /\ Distinct(index) => Distinct(Entries)
    <2>1. \A i \in 0 .. Len(index) :
           /\ g[i] \in Seq(Entry)
           /\ ToSet(g[i]) = {index[j] : j \in {k \in 1 .. i : index[k].name \in files}}
           /\ g[i] # <<>> => \E k \in 1 .. i : g[i][1] = index[k] /\ FirstIn(k, index, files)
           /\ Distinct(index) => Distinct(g[i])
      BY <1>1, ValidHolds
    <2> QED
      BY <2>1, <1>1, <1>2
  <1>4. ToSet(Entries) = {e \in ToSet(index) : e.name \in files}
    BY <1>3 DEF ToSet
  <1> QED
    BY <1>3, <1>4

\* What Latest finds: the first entry of the index whose file exists, if any does.
Found(x) ==
  \/ x = None /\ \A j \in DOMAIN index : index[j].name \notin files
  \/ \E k \in DOMAIN index : x = index[k] /\ FirstIn(k, index, files)

LEMMA LatestFound == index \in Seq(Entry) => Found(Latest)
  <1> SUFFICES ASSUME index \in Seq(Entry) PROVE Found(Latest)
    OBVIOUS
  <1>1. /\ Entries \in Seq(Entry)
        /\ ToSet(Entries) = {e \in ToSet(index) : e.name \in files}
        /\ Entries # <<>> =>
             \E k \in DOMAIN index : Entries[1] = index[k] /\ FirstIn(k, index, files)
    BY EntriesFacts
  <1>2. CASE Entries = <<>>
    <2>1. Latest = None
      BY <1>2 DEF Latest
    <2>2. ToSet(Entries) = {}
      BY <1>2 DEF ToSet
    <2>3. \A j \in DOMAIN index : index[j].name \notin files
      BY <1>1, <2>2 DEF ToSet
    <2> QED
      BY <2>1, <2>3 DEF Found
  <1>3. CASE Entries # <<>>
    <2>1. Latest = Entries[1]
      BY <1>1, <1>3 DEF Latest
    <2> QED
      BY <1>1, <1>3, <2>1 DEF Found
  <1> QED
    BY <1>2, <1>3

LEMMA Prepending ==
  ASSUME NEW e \in Entry, NEW q \in Seq(Entry)
  PROVE  /\ <<e>> \o q \in Seq(Entry) /\ <<e>> \o q # <<>> /\ (<<e>> \o q)[1] = e
         /\ ToSet(<<e>> \o q) = {e} \cup ToSet(q)
         /\ q # <<>> => Len(<<e>> \o q) > 1 /\ (<<e>> \o q)[2] = q[1]
         /\ Distinct(q) /\ e.name \notin NamesIn(q) => Distinct(<<e>> \o q)
  <1> DEFINE a == <<e>> \o q
  <1>1. <<e>> \in Seq(Entry) /\ Len(<<e>>) = 1 /\ <<e>>[1] = e
    OBVIOUS
  <1>2. /\ a \in Seq(Entry) /\ Len(a) = 1 + Len(q)
        /\ \A i \in 1 .. 1 + Len(q) : a[i] = IF i <= 1 THEN <<e>>[i] ELSE q[i - 1]
    BY <1>1, ConcatProperties
  <1>3. Len(q) \in Nat /\ DOMAIN q = 1 .. Len(q) /\ DOMAIN a = 1 .. 1 + Len(q)
    BY <1>2
  <1>4. q # <<>> => Len(q) > 0
    OBVIOUS
  <1> HIDE DEF a
  <1>5. a # <<>> /\ a[1] = e
    <2>1. a[1] = e /\ Len(a) # 0
      BY <1>1, <1>2, <1>3
    <2> QED
      BY <2>1, <1>2
  <1>6. \A i \in DOMAIN q : i + 1 \in DOMAIN a /\ a[i + 1] = q[i]
    BY <1>2, <1>3
  <1>7. \A i \in DOMAIN a : i = 1 \/ (i - 1 \in DOMAIN q /\ a[i] = q[i - 1])
    BY <1>2, <1>3
  <1>8. ToSet(a) = {e} \cup ToSet(q)
    <2>1. \A x \in ToSet(a) : x \in {e} \cup ToSet(q)
      BY <1>5, <1>7 DEF ToSet
    <2>2. \A x \in ToSet(q) : x \in ToSet(a)
      BY <1>6 DEF ToSet
    <2>3. e \in ToSet(a)
      <3>1. 1 \in DOMAIN a
        BY <1>3
      <3> QED
        BY <3>1, <1>5 DEF ToSet
    <2> QED
      BY <2>1, <2>2, <2>3
  <1>9. q # <<>> => Len(a) > 1 /\ a[2] = q[1]
    BY <1>2, <1>3, <1>4
  <1>10. Distinct(q) /\ e.name \notin NamesIn(q) => Distinct(a)
    <2> SUFFICES ASSUME Distinct(q), e.name \notin NamesIn(q),
                        NEW i \in DOMAIN a, NEW j \in DOMAIN a, a[i].name = a[j].name
                 PROVE  i = j
      BY DEF Distinct
    <2>1. \A k \in DOMAIN q : q[k].name # e.name
      BY DEF NamesIn, ToSet
    <2>2. CASE i = 1 \/ j = 1
      BY <2>1, <2>2, <1>5, <1>7
    <2>3. CASE i # 1 /\ j # 1
      <3>1. i - 1 = j - 1
        BY <2>3, <1>7 DEF Distinct
      <3> QED
        BY <3>1, <1>3
    <2> QED
      BY <2>2, <2>3
  <1> QED
    BY <1>2, <1>5, <1>8, <1>9, <1>10 DEF a

\* The files PutEvict removes.
Evicted == {e.name : e \in ToSet(list) \ ToSet(Kept)}

\* Eviction spares the two newest, and no file of those it keeps.
LEMMA Keeping ==
  ASSUME list \in Seq(Entry), list # <<>>, Distinct(list)
  PROVE  /\ Kept \in Seq(Entry) /\ Kept # <<>> /\ Kept[1] = list[1]
         /\ Len(Kept) <= Keep /\ Distinct(Kept)
         /\ NamesIn(list) \subseteq NamesIn(Kept) \cup Evicted
         /\ list[1].name \notin Evicted
         /\ Len(list) > 1 => list[2].name \notin Evicted
  <1>0. Keep \in Nat /\ Keep >= 2
    BY CacheAssumption
  <1>1. Len(list) \in Nat /\ Len(list) > 0 /\ DOMAIN list = 1 .. Len(list)
    OBVIOUS
  <1>2. /\ Kept \in Seq(Entry) /\ Len(Kept) <= Keep /\ Len(Kept) > 0 /\ Len(Kept) <= Len(list)
        /\ \A i \in 1 .. Len(Kept) : Kept[i] = list[i]
        /\ Len(list) > 1 => Len(Kept) > 1
    <2>1. CASE Len(list) > Keep
      <3>1. Kept = SubSeq(list, 1, Keep)
        BY <2>1 DEF Kept
      <3>2. \A i \in 1 .. Keep : list[i] \in Entry
        BY <1>0, <1>1, <2>1
      <3>3. /\ SubSeq(list, 1, Keep) \in Seq(Entry)
            /\ Len(SubSeq(list, 1, Keep)) = IF 1 <= Keep THEN Keep - 1 + 1 ELSE 0
            /\ \A i \in 1 .. Keep - 1 + 1 : SubSeq(list, 1, Keep)[i] = list[1 + i - 1]
        <4> QED
          BY <1>0, <3>2, SubSeqProperties
      <3>4. Len(Kept) = Keep
        BY <3>1, <3>3, <1>0
      <3>5. \A i \in 1 .. Keep : Kept[i] = list[i]
        BY <3>1, <3>3, <1>0
      <3> QED
        BY <3>1, <3>3, <3>4, <3>5, <1>0, <1>1, <2>1
    <2>2. CASE ~(Len(list) > Keep)
      <3>1. Kept = list
        BY <2>2 DEF Kept
      <3> QED
        BY <3>1, <2>2, <1>0, <1>1
    <2> QED
      BY <2>1, <2>2
  <1>3. DOMAIN Kept = 1 .. Len(Kept) /\ DOMAIN Kept \subseteq DOMAIN list /\ Len(Kept) \in Nat
    BY <1>1, <1>2
  <1>4. Kept # <<>> /\ Kept[1] = list[1]
    BY <1>2, <1>3
  <1>5. Distinct(Kept)
    BY <1>2, <1>3 DEF Distinct
  <1>6. NamesIn(list) \subseteq NamesIn(Kept) \cup Evicted
    BY DEF NamesIn, Evicted
  <1>7. \A i \in DOMAIN Kept : list[i].name \notin Evicted
    <2> SUFFICES ASSUME NEW i \in DOMAIN Kept, NEW e \in ToSet(list) \ ToSet(Kept),
                        e.name = list[i].name
                 PROVE  FALSE
      BY DEF Evicted
    <2>1. PICK j \in DOMAIN list : e = list[j]
      BY DEF ToSet
    <2>2. j = i
      BY <2>1, <1>3 DEF Distinct
    <2>3. e = Kept[i]
      BY <2>1, <2>2, <1>2, <1>3
    <2> QED
      BY <2>3 DEF ToSet
  <1>8. 1 \in DOMAIN Kept /\ (Len(list) > 1 => 2 \in DOMAIN Kept)
    BY <1>2, <1>3
  <1> QED
    BY <1>2, <1>4, <1>5, <1>6, <1>7, <1>8

LEMMA HeadAndTail ==
  ASSUME NEW q \in Seq(Entry), q # <<>>
  PROVE  ToSet(q) = {Head(q)} \cup ToSet(Tail(q))
  <1>1. /\ Tail(q) \in Seq(Entry) /\ Len(Tail(q)) = Len(q) - 1
        /\ \A i \in 1 .. Len(Tail(q)) : Tail(q)[i] = q[i + 1]
    BY HeadTailProperties
  <1>2. Head(q) = q[1] /\ Len(q) \in Nat /\ Len(q) > 0 /\ DOMAIN q = 1 .. Len(q)
    OBVIOUS
  <1>3. DOMAIN Tail(q) = 1 .. Len(q) - 1
    BY <1>1
  <1> DEFINE t == Tail(q)
  <1> HIDE DEF t
  <1>4. \A x \in ToSet(q) : x = q[1] \/ x \in ToSet(t)
    <2> SUFFICES ASSUME NEW i \in 1 .. Len(q), i # 1 PROVE q[i] \in ToSet(t)
      BY <1>2 DEF ToSet
    <2>1. i - 1 \in DOMAIN t /\ t[i - 1] = q[i]
      BY <1>1, <1>2, <1>3 DEF t
    <2> QED
      BY <2>1 DEF ToSet
  <1>5. ToSet(t) \subseteq ToSet(q) /\ q[1] \in ToSet(q)
    BY <1>1, <1>2, <1>3 DEF ToSet, t
  <1> QED
    BY <1>2, <1>4, <1>5 DEF t

-----------------------------------------------------------------------------
(* The screen cache                                                          *)

\* What fetch shows or stores is the image it was answered with.
Shown ==
  /\ fpc # "idle" => want \in Urls
  /\ fpc \notin {"idle", "asked", "looked"} => answer \in Image
  /\ fpc \in {"renamed", "listed", "evicted", "done"} =>
       entry \in Entry /\ entry.image = answer

\* A file is listed once; the file Put is storing is on disk and neither in the index
\* nor on Clear's list, so that nothing but Put itself removes it.
Stored ==
  /\ Distinct(index)
  /\ Storing => /\ entry.name \in files
                /\ entry.name \notin NamesIn(index) \cup NamesIn(doomed)
  /\ fpc \in {"listed", "evicted"} =>
       list # <<>> /\ list[1] = entry /\ Distinct(list)
  /\ fpc = "evicted" => Len(list) <= Keep

\* Unless a Clear runs or has just emptied the index, Put evicts from what it listed:
\* the latest screen comes second there, and Keep >= 2 spares it.
Listed == fpc = "listed" /\ rpc = "idle" => index = <<>> \/ list = <<entry>> \o Entries

\* Without an overlap a Clear has every file on its list, and so has a Put.
Accounted ==
  ~overlapped =>
    /\ rpc = "clear" => ~Storing /\ files \subseteq NamesIn(doomed)
    /\ fpc \in {"listed", "evicted"} => files \subseteq NamesIn(list)

IInv == TypeOK /\ Shown /\ Stored /\ Listed /\ Accounted /\ NoOrphans

LEMMA InitInv == Init => IInv
  <1> SUFFICES ASSUME Init PROVE IInv
    OBVIOUS
  <1> USE DEF Init
  <1>0. <<>> \in Seq(Entry) /\ Len(<<>>) = 0 /\ ToSet(<<>>) = {} /\ NamesIn(<<>>) = {}
        /\ Distinct(<<>>)
    BY DEF NamesIn, ToSet, Distinct
  <1>1. TypeOK
    <2>1. kills \in 0 .. MaxKills /\ Len(index) <= Keep
      BY <1>0, CacheAssumption
    <2> QED
      BY <1>0, <2>1 DEF TypeOK
  <1>2. Shown /\ Stored /\ Listed /\ Accounted /\ NoOrphans
    BY <1>0 DEF Shown, Stored, Listed, Accounted, NoOrphans, Storing
  <1> QED
    BY <1>1, <1>2 DEF IInv

LEMMA TypeStep ==
  ASSUME TypeOK, Shown, Stored, [Next]_vars
  PROVE  TypeOK'
  <1> USE DEF TypeOK, Forget, fetchVars, clearVars
  <1>0. <<>> \in Seq(Entry) /\ Keep \in Nat /\ MaxKills \in Nat
    BY CacheAssumption
  <1>1. CASE UNCHANGED vars
    BY <1>1 DEF vars
  <1>2. ASSUME NEW u \in Urls, NEW t \in Tags, ServerChanges(u, t) PROVE TypeOK'
    BY <1>2 DEF ServerChanges
  <1>3. ASSUME NEW u \in Urls, Display(u) PROVE TypeOK'
    BY <1>3 DEF Display
  <1>4. CASE LookLatest
    <2>1. Latest \in Entry \cup {None}
      BY EntriesFacts, HeadTailProperties DEF Latest
    <2> QED
      BY <1>4, <2>1 DEF LookLatest
  <1>5. ASSUME NotModified \/ Downloaded PROVE TypeOK'
    <2>1. Answer \in Image
      BY <1>5 DEF Answer, Image, Shown, NotModified, Downloaded
    <2> QED
      BY <1>5, <2>1 DEF NotModified, Downloaded
  <1>6. CASE FetchFails
    BY <1>0, <1>6 DEF FetchFails
  <1>7. ASSUME NEW n \in Names, PutRename(n) PROVE TypeOK'
    <2>1. [name |-> n, image |-> answer] \in Entry
      BY <1>7 DEF PutRename, Entry, Shown
    <2> QED
      BY <1>7, <2>1 DEF PutRename
  <1>8. CASE PutList
    <2>1. entry \in Entry
      BY <1>8 DEF PutList, Shown
    <2>2. <<entry>> \o Entries \in Seq(Entry)
      BY <2>1, EntriesFacts, Prepending
    <2> QED
      BY <1>8, <2>2 DEF PutList
  <1>9. CASE PutEvict
    <2>1. Kept \in Seq(Entry)
      BY <1>9, Keeping DEF PutEvict, Stored
    <2> QED
      BY <1>9, <2>1 DEF PutEvict
  <1>10. CASE PutIndex
    BY <1>10 DEF PutIndex, Stored
  <1>11. CASE PutIndexFails
    BY <1>0, <1>11 DEF PutIndexFails
  <1>12. CASE FetchEnds
    BY <1>0, <1>12 DEF FetchEnds
  <1>13. CASE ClearRead
    BY <1>13, EntriesFacts DEF ClearRead
  <1>14. CASE ClearRemove
    <2>1. Tail(doomed) \in Seq(Entry)
      BY <1>14, HeadTailProperties DEF ClearRemove
    <2> QED
      BY <1>14, <2>1 DEF ClearRemove
  <1>15. CASE ClearIndex
    BY <1>0, <1>15 DEF ClearIndex
  <1>16. CASE Kill
    <2>1. kills' \in 0 .. MaxKills
      BY <1>0, <1>16 DEF Kill
    <2> QED
      BY <1>0, <1>16, <2>1 DEF Kill
  <1> QED
    BY <1>1, <1>2, <1>3, <1>4, <1>5, <1>6, <1>7, <1>8, <1>9, <1>10, <1>11, <1>12, <1>13,
       <1>14, <1>15, <1>16 DEF Next

\* A 304 answers the latest screen's validator, which is sent only for its own URL.
LEMMA Confirms ==
  ASSUME TypeOK, Shown, NotModified
  PROVE  latest \in Entry /\ latest.image = Answer
  <1>1. want \in Urls /\ server[want] \in Tags
    BY DEF NotModified, Shown, TypeOK
  <1>2. server[want] # None
    BY <1>1, CacheAssumption
  <1>3. latest # None /\ latest.image.url = want /\ latest.image.tag = server[want]
    BY <1>2 DEF NotModified, Validator
  <1>4. latest \in Entry /\ latest.image \in Image
    BY <1>3 DEF TypeOK, Entry
  <1>5. latest.image = [url |-> latest.image.url, tag |-> latest.image.tag]
    BY <1>4 DEF Image
  <1> QED
    BY <1>3, <1>4, <1>5 DEF Answer

LEMMA ShownStep ==
  ASSUME TypeOK, Shown, [Next]_vars
  PROVE  Shown'
  <1> USE DEF TypeOK, Shown, Forget, fetchVars, clearVars
  <1>1. CASE UNCHANGED vars
    BY <1>1 DEF vars
  <1>2. ASSUME NEW u \in Urls, NEW t \in Tags, ServerChanges(u, t) PROVE Shown'
    BY <1>2 DEF ServerChanges
  <1>3. ASSUME NEW u \in Urls, Display(u) PROVE Shown'
    BY <1>3 DEF Display
  <1>4. CASE LookLatest
    BY <1>4 DEF LookLatest
  <1>5. ASSUME NotModified \/ Downloaded PROVE Shown'
    <2>1. Answer \in Image
      BY <1>5 DEF Answer, Image, NotModified, Downloaded
    <2>2. CASE NotModified
      BY <2>1, <2>2, Confirms DEF NotModified
    <2>3. CASE Downloaded
      BY <2>1, <2>3 DEF Downloaded
    <2> QED
      BY <1>5, <2>2, <2>3
  <1>6. CASE FetchFails \/ PutIndexFails \/ FetchEnds \/ Kill
    BY <1>6 DEF FetchFails, PutIndexFails, FetchEnds, Kill
  <1>7. ASSUME NEW n \in Names, PutRename(n) PROVE Shown'
    <2>1. [name |-> n, image |-> answer] \in Entry
      BY <1>7 DEF PutRename, Entry
    <2> QED
      BY <1>7, <2>1 DEF PutRename
  <1>8. CASE PutList \/ PutEvict \/ PutIndex
    BY <1>8 DEF PutList, PutEvict, PutIndex
  <1>9. CASE ClearRead \/ ClearRemove \/ ClearIndex
    BY <1>9 DEF ClearRead, ClearRemove, ClearIndex
  <1> QED
    BY <1>1, <1>2, <1>3, <1>4, <1>5, <1>6, <1>7, <1>8, <1>9 DEF Next

\* Put and Clear keep off each other's files.
LEMMA StoredStep ==
  ASSUME TypeOK, Shown, Stored, [Next]_vars
  PROVE  Stored'
  <1> USE DEF Stored, Storing, Forget, fetchVars, clearVars
  <1>0. Distinct(<<>>) /\ NamesIn(<<>>) = {}
    BY DEF Distinct, NamesIn, ToSet
  <1>T. index \in Seq(Entry) /\ list \in Seq(Entry) /\ doomed \in Seq(Entry)
    BY DEF TypeOK
  <1>1. CASE UNCHANGED vars
    BY <1>1 DEF vars
  <1>2. ASSUME NEW u \in Urls, NEW t \in Tags, ServerChanges(u, t) PROVE Stored'
    BY <1>2 DEF ServerChanges
  <1>3. ASSUME NEW u \in Urls, Display(u) PROVE Stored'
    BY <1>3 DEF Display
  <1>4. CASE LookLatest \/ NotModified \/ Downloaded \/ FetchFails \/ FetchEnds
    BY <1>4 DEF LookLatest, NotModified, Downloaded, FetchFails, FetchEnds
  <1>5. ASSUME NEW n \in Names, PutRename(n) PROVE Stored'
    <2>1. \A e \in ToSet(index) \cup ToSet(doomed) : e \in Entry
      BY <1>T DEF ToSet
    <2>2. n \notin NamesIn(index) \cup NamesIn(doomed)
      BY <1>5, <2>1, CacheAssumption DEF PutRename, NamesIn
    <2>3. entry'.name = n /\ n \in files'
      BY <1>5 DEF PutRename
    <2> QED
      BY <1>5, <2>2, <2>3 DEF PutRename
  <1>6. CASE PutList
    <2>1. entry \in Entry /\ entry.name \notin NamesIn(index)
      BY <1>6 DEF PutList, Shown
    <2>2. Entries \in Seq(Entry) /\ Distinct(Entries) /\ ToSet(Entries) \subseteq ToSet(index)
      BY <1>T, EntriesFacts
    <2>3. entry.name \notin NamesIn(Entries)
      BY <2>1, <2>2 DEF NamesIn
    <2>4. list' # <<>> /\ list'[1] = entry /\ Distinct(list')
      BY <1>6, <2>1, <2>2, <2>3, Prepending DEF PutList
    <2> QED
      BY <1>6, <2>4 DEF PutList
  <1>7. CASE PutEvict
    <2>1. /\ Kept # <<>> /\ Kept[1] = entry /\ Distinct(Kept) /\ Len(Kept) <= Keep
          /\ entry.name \notin Evicted
      BY <1>7, <1>T, Keeping DEF PutEvict
    <2> QED
      BY <1>7, <2>1 DEF PutEvict, Evicted
  <1>8. CASE PutIndex
    BY <1>8 DEF PutIndex
  <1>9. CASE PutIndexFails
    BY <1>9 DEF PutIndexFails
  <1>10. CASE ClearRead
    <2>1. NamesIn(Entries) \subseteq NamesIn(index)
      BY <1>T, EntriesFacts DEF NamesIn
    <2> QED
      BY <1>10, <2>1 DEF ClearRead
  <1>11. CASE ClearRemove
    <2>1. NamesIn(Tail(doomed)) \subseteq NamesIn(doomed) /\ Head(doomed).name \in NamesIn(doomed)
      BY <1>11, <1>T, HeadAndTail DEF ClearRemove, NamesIn
    <2> QED
      BY <1>11, <2>1 DEF ClearRemove
  <1>12. CASE ClearIndex
    BY <1>0, <1>12 DEF ClearIndex
  <1>13. CASE Kill
    BY <1>0, <1>13 DEF Kill
  <1> QED
    BY <1>1, <1>2, <1>3, <1>4, <1>5, <1>6, <1>7, <1>8, <1>9, <1>10, <1>11, <1>12, <1>13 DEF Next

\* Entries is what index and files make it.
LEMMA SameEntries ==
  ASSUME index' = index, files' = files
  PROVE  Entries' = Entries
  BY DEF Entries

LEMMA ListedStep ==
  ASSUME TypeOK, Listed, [Next]_vars
  PROVE  Listed'
  <1> SUFFICES ASSUME fpc' = "listed", rpc' = "idle", index' # <<>>
               PROVE  list' = <<entry'>> \o Entries'
    BY DEF Listed
  <1> USE DEF Listed, Forget, fetchVars, clearVars
  <1>1. CASE UNCHANGED vars
    BY <1>1, SameEntries DEF vars
  <1>2. ASSUME NEW u \in Urls, NEW t \in Tags, ServerChanges(u, t)
        PROVE list' = <<entry'>> \o Entries'
    BY <1>2, SameEntries DEF ServerChanges
  <1>3. ASSUME NEW u \in Urls, Display(u) PROVE FALSE
    BY <1>3 DEF Display
  <1>4. ASSUME LookLatest \/ NotModified \/ Downloaded \/ FetchFails \/ FetchEnds PROVE FALSE
    BY <1>4 DEF LookLatest, NotModified, Downloaded, FetchFails, FetchEnds
  <1>5. ASSUME NEW n \in Names, PutRename(n) PROVE FALSE
    BY <1>5 DEF PutRename
  <1>6. CASE PutList
    BY <1>6, SameEntries DEF PutList
  <1>7. ASSUME PutEvict \/ PutIndex \/ PutIndexFails PROVE FALSE
    BY <1>7 DEF PutEvict, PutIndex, PutIndexFails
  <1>8. ASSUME ClearRead \/ ClearRemove \/ ClearIndex \/ Kill PROVE FALSE
    BY <1>8 DEF ClearRead, ClearRemove, ClearIndex, Kill, TypeOK
  <1> QED
    BY <1>1, <1>2, <1>3, <1>4, <1>5, <1>6, <1>7, <1>8 DEF Next

LEMMA AccountedStep ==
  ASSUME TypeOK, Shown, Stored, Accounted, NoOrphans, [Next]_vars
  PROVE  Accounted' /\ NoOrphans'
  <1> SUFFICES ASSUME ~overlapped' PROVE Accounted' /\ NoOrphans'
    BY DEF Accounted, NoOrphans
  <1> USE DEF Accounted, NoOrphans, Storing, Forget, fetchVars, clearVars
  <1>T. index \in Seq(Entry) /\ list \in Seq(Entry) /\ doomed \in Seq(Entry) /\ overlapped \in BOOLEAN
        /\ rpc \in {"idle", "clear"}
    BY DEF TypeOK
  <1>N. \A s : NamesIn(s) = {e.name : e \in ToSet(s)}
    BY DEF NamesIn
  <1>0. NamesIn(<<>>) = {}
    BY DEF NamesIn, ToSet
  <1>1. CASE UNCHANGED vars
    BY <1>1 DEF vars
  <1>2. ASSUME NEW u \in Urls, NEW t \in Tags, ServerChanges(u, t) PROVE Accounted' /\ NoOrphans'
    BY <1>2 DEF ServerChanges
  <1>3. ASSUME NEW u \in Urls, Display(u) PROVE Accounted' /\ NoOrphans'
    BY <1>3 DEF Display
  <1>4. CASE LookLatest \/ NotModified \/ Downloaded \/ FetchFails \/ FetchEnds
    BY <1>4 DEF LookLatest, NotModified, Downloaded, FetchFails, FetchEnds
  <1>5. ASSUME NEW n \in Names, PutRename(n) PROVE Accounted' /\ NoOrphans'
    BY <1>5, <1>T DEF PutRename
  <1>6. CASE PutList
    <2>1. ToSet(Entries) = {e \in ToSet(index) : e.name \in files} /\ Entries \in Seq(Entry)
      BY <1>T, EntriesFacts
    <2>2. ToSet(list') = {entry} \cup ToSet(Entries)
      BY <1>6, <2>1, Prepending DEF PutList, Shown
    <2>3. files \subseteq NamesIn(list')
      BY <1>6, <2>1, <2>2 DEF PutList, NamesIn
    <2> QED
      BY <1>6, <2>3 DEF PutList
  <1>7. CASE PutEvict
    <2>1. NamesIn(list) \subseteq NamesIn(Kept) \cup Evicted
      BY <1>7, <1>T, Keeping DEF PutEvict, Stored
    <2> QED
      BY <1>7, <2>1 DEF PutEvict, Evicted
  <1>8. CASE PutIndex
    BY <1>8, <1>N DEF PutIndex
  <1>9. CASE PutIndexFails
    BY <1>9 DEF PutIndexFails
  <1>10. CASE ClearRead
    <2>1. files \subseteq NamesIn(index) /\ ~Storing
      BY <1>10, <1>T, <1>N DEF ClearRead
    <2>2. files \subseteq NamesIn(Entries)
      BY <2>1, <1>T, EntriesFacts DEF NamesIn
    <2> QED
      BY <1>10, <2>1, <2>2 DEF ClearRead
  <1>11. CASE ClearRemove
    <2>1. NamesIn(doomed) \subseteq NamesIn(Tail(doomed)) \cup {Head(doomed).name}
      BY <1>11, <1>T, HeadAndTail DEF ClearRemove, NamesIn
    <2> QED
      BY <1>11, <2>1 DEF ClearRemove
  <1>12. CASE ClearIndex
    BY <1>0, <1>12 DEF ClearIndex
  <1>13. CASE Kill
    BY <1>0, <1>13 DEF Kill
  <1> QED
    BY <1>1, <1>2, <1>3, <1>4, <1>5, <1>6, <1>7, <1>8, <1>9, <1>10, <1>11, <1>12, <1>13 DEF Next

LEMMA CacheInvariant == Spec => []IInv
  <1>1. IInv /\ [Next]_vars => IInv'
    BY TypeStep, ShownStep, StoredStep, ListedStep, AccountedStep DEF IInv
  <1> QED
    BY InitInv, <1>1, PTL DEF Spec

\* The types of the cache and of the goroutines at it; the index never exceeds Keep.
THEOREM CacheTypes == Spec => []TypeOK
  BY CacheInvariant, PTL DEF IInv

\* A confirmed screen is what the server has, for any servers, URLs and tags.
THEOREM ConfirmedScreens == Spec => []ConfirmedIsCurrent
  <1>1. IInv => ConfirmedIsCurrent
    BY DEF IInv, Shown, ConfirmedIsCurrent
  <1> QED
    BY CacheInvariant, <1>1, PTL

\* Without an overlap or a killed store no file is left outside the index.
THEOREM CacheIsAccounted == Spec => []NoOrphans
  <1>1. IInv => NoOrphans
    BY DEF IInv
  <1> QED
    BY CacheInvariant, <1>1, PTL

-----------------------------------------------------------------------------
(* ScreenCache implements LastScreen                                         *)

LEMMA LatestFoundNext == TypeOK' => Found(Latest)'
  <1>1. TypeOK => Found(Latest)
    BY LatestFound DEF TypeOK
  <1> QED
    BY <1>1, PTL

\* Two can only be found in the same place.
LEMMA SameFound ==
  ASSUME TypeOK, TypeOK', index' = index,
         \A j \in DOMAIN index : index[j].name \in files' => index[j].name \in files,
         Latest # None => Latest.name \in files'
  PROVE  Latest' = Latest
  <1>1. Found(Latest) /\ Found(Latest)'
    BY LatestFound, LatestFoundNext DEF TypeOK
  <1>2. DOMAIN index = 1 .. Len(index) /\ Len(index) \in Nat
    BY DEF TypeOK
  <1>3. \A j \in DOMAIN index : index[j] # None
    BY CacheAssumption DEF TypeOK
  <1> QED
    BY <1>1, <1>2, <1>3 DEF Found, FirstIn

LEMMA PromiseInit == Init => Promise!LInit
  <1> SUFFICES ASSUME Init PROVE Promise!LInit
    OBVIOUS
  <1>1. TypeOK /\ index = <<>>
    BY InitInv DEF IInv, Init
  <1>2. Found(Latest)
    BY <1>1, LatestFound DEF TypeOK
  <1>3. Latest = None
    BY <1>1, <1>2 DEF Found
  <1> QED
    BY <1>3 DEF Init, Promise!LInit, Incoming, Storing

LEMMA PromiseStep ==
  ASSUME IInv, TypeOK', [Next]_vars
  PROVE  [Promise!LNext]_(Promise!lvars)
  <1> USE DEF Promise!LNext, Promise!lvars
  <1>T. /\ TypeOK /\ Shown /\ Stored /\ Listed
        /\ index \in Seq(Entry) /\ list \in Seq(Entry) /\ doomed \in Seq(Entry)
        /\ rpc \in {"idle", "clear"}
    BY DEF IInv, TypeOK
  <1>L. /\ Latest \in Entry \cup {None} /\ (Latest # None => Latest.name \in NamesIn(index) \cap files)
        /\ Latest' \in Entry \cup {None} /\ (Latest' # None => Latest'.name \in NamesIn(index') \cap files')
    <2>1. Found(Latest) /\ Found(Latest)'
      BY <1>T, LatestFound, LatestFoundNext
    <2>2. index' \in Seq(Entry)
      BY DEF TypeOK
    <2> QED
      BY <2>1, <2>2, <1>T DEF Found, FirstIn, NamesIn, ToSet
  <1>I. Storing => Incoming = entry /\ entry \in Entry /\ entry # None /\ entry.name \in files
                   /\ entry.name \notin NamesIn(index) \cup NamesIn(doomed)
    BY <1>T, CacheAssumption DEF Incoming, Shown, Stored, Storing
  <1>a. ASSUME index' = index, files' = files PROVE Latest' = Latest
    BY <1>a, SameEntries DEF Latest
  <1>b. ASSUME fpc' = fpc, entry' = entry PROVE Incoming' = Incoming
    BY <1>b DEF Incoming, Storing
  <1> USE DEF Forget, fetchVars, clearVars
  <1>1. CASE UNCHANGED vars
    BY <1>1, <1>a, <1>b DEF vars
  <1>2. ASSUME NEW u \in Urls, NEW t \in Tags, ServerChanges(u, t)
        PROVE [Promise!LNext]_(Promise!lvars)
    BY <1>2, <1>a, <1>b DEF ServerChanges
  <1>3. ASSUME NEW u \in Urls, Display(u) PROVE [Promise!LNext]_(Promise!lvars)
    BY <1>3, <1>a DEF Display, Incoming, Storing
  <1>4. CASE LookLatest \/ NotModified \/ Downloaded \/ FetchFails \/ FetchEnds
    <2>1. ~Storing /\ ~Storing' /\ index' = index /\ files' = files /\ rpc' = rpc
      BY <1>4 DEF LookLatest, NotModified, Downloaded, FetchFails, FetchEnds, Storing
    <2> QED
      BY <2>1, <1>a DEF Incoming
  <1>5. ASSUME NEW n \in Names, PutRename(n) PROVE [Promise!LNext]_(Promise!lvars)
    <2>1. [name |-> n, image |-> answer] \in Entry
      BY <1>5, <1>T DEF PutRename, Shown, Entry
    <2>2. Incoming = None /\ Incoming' = [name |-> n, image |-> answer]
      BY <1>5 DEF PutRename, Incoming, Storing
    <2>3. \A e \in ToSet(index) : e # None
      BY <1>T, CacheAssumption DEF ToSet
    <2>4. n \notin NamesIn(index)
      BY <1>5, <2>3 DEF PutRename, NamesIn
    <2>5. \A j \in DOMAIN index : index[j].name \in files' => index[j].name \in files
      BY <1>5, <2>4 DEF PutRename, NamesIn, ToSet
    <2>6. index' = index /\ files' = files \cup {n} /\ rpc' = rpc
      BY <1>5 DEF PutRename
    <2>7. Latest' = Latest
      BY <2>5, <2>6, <1>T, <1>L, SameFound
    <2>8. [name |-> n, image |-> answer] # Latest
      <3>1. [name |-> n, image |-> answer].name = n
        OBVIOUS
      <3> QED
        BY <1>L, <2>1, <2>4, <3>1, CacheAssumption
    <2>9. Promise!Receive
      BY <2>1, <2>2, <2>6, <2>7, <2>8 DEF Promise!Receive
    <2> QED
      BY <2>9
  <1>6. CASE PutList
    BY <1>6, <1>a DEF PutList, Incoming, Storing
  <1>7. CASE PutEvict
    <2>1. Incoming' = Incoming /\ rpc' = rpc /\ index' = index /\ files' = files \ Evicted
      BY <1>7 DEF PutEvict, Incoming, Storing, Evicted
    <2>2. CASE rpc = "clear"
      <3>1. Latest' = None \/ Latest' \in Entry \ {Incoming}
        BY <1>7, <1>I, <1>L, <2>1 DEF PutEvict, Storing
      <3>2. Promise!Lose
        BY <3>1, <2>1, <2>2 DEF Promise!Lose
      <3> QED
        BY <3>2
    <2>3. CASE rpc = "idle"
      <3>1. Latest # None => Latest.name \notin Evicted
        <4> SUFFICES ASSUME Latest # None PROVE Latest.name \notin Evicted
          OBVIOUS
        <4>1. index # <<>>
          BY <1>L DEF NamesIn, ToSet
        <4>2. list = <<entry>> \o Entries
          BY <1>7, <1>T, <2>3, <4>1 DEF Listed, PutEvict
        <4>3. Entries \in Seq(Entry) /\ Entries # <<>> /\ Latest = Entries[1]
          BY <1>T, EntriesFacts DEF Latest
        <4>4. Len(list) > 1 /\ list[2] = Latest
          BY <1>7, <1>I, <4>2, <4>3, Prepending DEF PutEvict, Storing
        <4>5. list # <<>> /\ Distinct(list)
          BY <1>7, <1>T DEF PutEvict, Stored
        <4> QED
          BY <4>4, <4>5, <1>T, Keeping
      <3>2. Latest' = Latest
        BY <3>1, <2>1, <1>T, <1>L, SameFound
      <3> QED
        BY <3>2, <2>1
    <2> QED
      BY <2>2, <2>3, <1>T
  <1>8. CASE PutIndex
    <2>1. /\ Incoming = entry /\ entry # None /\ Incoming' = None /\ rpc' = rpc
          /\ index' # <<>> /\ index'[1] = entry /\ files' = files /\ entry.name \in files
      BY <1>8, <1>I, <1>T DEF PutIndex, Storing, Incoming, Stored
    <2>2. Found(Latest)' /\ index' \in Seq(Entry)
      BY LatestFoundNext DEF TypeOK
    <2>3. 1 \in DOMAIN index' /\ DOMAIN index' \subseteq Nat \ {0}
      BY <2>1, <2>2
    <2>4. Latest' = entry
      BY <2>1, <2>2, <2>3 DEF Found, FirstIn
    <2>5. Promise!Replace
      BY <2>1, <2>4 DEF Promise!Replace
    <2> QED
      BY <2>5
  <1>9. CASE PutIndexFails
    <2>1. /\ Incoming # None /\ Incoming' = None /\ rpc' = rpc /\ index' = index
          /\ files' = files \ {entry.name} /\ entry.name \notin NamesIn(index)
      BY <1>9, <1>I DEF PutIndexFails, Storing, Incoming
    <2>2. Latest' = Latest
      BY <2>1, <1>T, <1>L, SameFound
    <2>3. Promise!Drop
      BY <2>1, <2>2 DEF Promise!Drop
    <2> QED
      BY <2>3
  <1>10. CASE ClearRead
    <2>1. Latest' = Latest /\ Incoming' = Incoming /\ rpc = "idle" /\ rpc' = "clear"
      BY <1>10, <1>a, <1>b DEF ClearRead
    <2>2. Promise!BeginClear
      BY <2>1 DEF Promise!BeginClear
    <2> QED
      BY <2>2
  <1>11. CASE ClearRemove
    <2>1. Incoming' = Incoming /\ rpc = "clear" /\ rpc' = rpc /\ index' = index
      BY <1>11, <1>b DEF ClearRemove
    <2>2. Latest' = None \/ Latest' \in Entry \ {Incoming}
      BY <2>1, <1>I, <1>L DEF Incoming
    <2>3. Promise!Lose
      BY <2>1, <2>2 DEF Promise!Lose
    <2> QED
      BY <2>3
  <1>12. CASE ClearIndex
    <2>1. Incoming' = Incoming /\ rpc = "clear" /\ rpc' = "idle" /\ index' = <<>>
      BY <1>12, <1>b DEF ClearIndex
    <2>2. Latest' = None
      BY <2>1, <1>L DEF NamesIn, ToSet
    <2>3. Promise!EndClear
      BY <2>1, <2>2 DEF Promise!EndClear
    <2> QED
      BY <2>3
  <1>13. CASE Kill
    <2>1. Incoming' = None /\ rpc' = "idle" /\ Latest' = Latest
      BY <1>13, <1>a DEF Kill, Incoming, Storing
    <2>2. Promise!Stop
      BY <2>1 DEF Promise!Stop
    <2> QED
      BY <2>2
  <1> QED
    BY <1>1, <1>2, <1>3, <1>4, <1>5, <1>6, <1>7, <1>8, <1>9, <1>10, <1>11, <1>12, <1>13 DEF Next

\* The latest screen gives way only to one that is completely stored, and otherwise only
\* while the owner clears the cache: for every Keep >= 2, any files and any number of kills.
THEOREM LastScreenIsKept == Spec => KeepsLastScreen
  <1>1. IInv /\ [Next]_vars => [Promise!LNext]_(Promise!lvars)
    <2> SUFFICES ASSUME IInv, [Next]_vars PROVE [Promise!LNext]_(Promise!lvars)
      OBVIOUS
    <2>1. TypeOK'
      BY TypeStep DEF IInv
    <2> QED
      BY <2>1, PromiseStep
  <1> QED
    BY CacheInvariant, PromiseInit, <1>1, PTL DEF Spec, KeepsLastScreen, Promise!LSpec

-----------------------------------------------------------------------------
(* The instance lock                                                         *)

\* What keeps a second backend out, as long as starts do not overlap: a running
\* backend's pid is in the lock, and a process on its way past acquireLock either
\* has that pid before it or no backend runs.
Serial ==
  ~contended =>
    /\ \A p, q \in Pids : pc[p] \in Taking /\ pc[q] \in Taking => p = q
    /\ \A p \in Running : lock = [by |-> p, written |-> TRUE]
    /\ \A p \in Pids :
         /\ pc[p] = "signal" => \A r \in Running : r = seen[p]
         /\ pc[p] \in {"remove", "recreate", "write"} => Running = {}
         /\ pc[p] = "recreate" => lock = Nobody
         /\ pc[p] = "write" => lock = [by |-> p, written |-> FALSE]

LockIInv == LockTypeOK /\ Serial /\ NoLockLeft

LEMMA LockInitInv == LockInit => LockIInv
  <1> SUFFICES ASSUME LockInit PROVE LockIInv
    OBVIOUS
  <1>1. LockTypeOK
    <2>1. deaths \in 0 .. MaxDeaths
      BY LockAssumption DEF LockInit
    <2>2. pc \in [Pids -> Taking \cup {"off", "other", "running"}]
      BY DEF LockInit
    <2>3. seen \in [Pids -> Pids \cup {Nobody}] /\ lock \in Lock \cup {Nobody} /\ contended \in BOOLEAN
      BY DEF LockInit
    <2> QED
      BY <2>1, <2>2, <2>3 DEF LockTypeOK
  <1>2. Serial
    BY DEF LockInit, Serial, Running, Taking
  <1>3. NoLockLeft
    BY DEF LockInit, NoLockLeft
  <1> QED
    BY <1>1, <1>2, <1>3 DEF LockIInv

LEMMA CreatedType ==
  ASSUME NEW p \in Pids, Created(p) PROVE lock' \in Lock
  BY DEF Created, Lock

LEMMA LockTypeStep == LockTypeOK /\ [LockNext]_lockVars => LockTypeOK'
  <1> SUFFICES ASSUME LockTypeOK, [LockNext]_lockVars PROVE LockTypeOK'
    OBVIOUS
  <1> USE LockAssumption DEF LockTypeOK, Taking, Moves
  <1>1. CASE UNCHANGED lockVars
    BY <1>1 DEF lockVars
  <1>2. ASSUME NEW p \in Pids, Start(p) PROVE LockTypeOK'
    BY <1>2 DEF Start
  <1>3. ASSUME NEW p \in Pids, Create(p) PROVE LockTypeOK'
    BY <1>3, CreatedType DEF Create
  <1>4. ASSUME NEW p \in Pids, ReadPid(p) PROVE LockTypeOK'
    BY <1>4 DEF ReadPid, Lock
  <1>5. ASSUME NEW p \in Pids, Refuse(p) \/ Stale(p) PROVE LockTypeOK'
    BY <1>5 DEF Refuse, Stale
  <1>6. ASSUME NEW p \in Pids, RemoveLock(p) PROVE LockTypeOK'
    BY <1>6 DEF RemoveLock
  <1>7. ASSUME NEW p \in Pids, Recreate(p) PROVE LockTypeOK'
    BY <1>7, CreatedType DEF Recreate
  <1>8. ASSUME NEW p \in Pids, WritePid(p) PROVE LockTypeOK'
    BY <1>8 DEF WritePid, Lock
  <1>9. ASSUME NEW p \in Pids, Release(p) PROVE LockTypeOK'
    BY <1>9 DEF Release
  <1>10. ASSUME NEW p \in Pids, Die(p) PROVE LockTypeOK'
    BY <1>10 DEF Die
  <1>11. ASSUME NEW p \in Pids, OtherProgram(p) PROVE LockTypeOK'
    BY <1>11 DEF OtherProgram
  <1> QED
    BY <1>1, <1>2, <1>3, <1>4, <1>5, <1>6, <1>7, <1>8, <1>9, <1>10, <1>11
    DEF LockNext, Acquire

LEMMA LockStep == LockTypeOK /\ NoLockLeft /\ [LockNext]_lockVars => NoLockLeft'
  <1> SUFFICES ASSUME LockTypeOK, NoLockLeft, [LockNext]_lockVars PROVE NoLockLeft'
    OBVIOUS
  <1> USE LockAssumption DEF LockTypeOK, NoLockLeft, Taking, Lock, Moves, Created
  <1>1. CASE UNCHANGED lockVars
    BY <1>1 DEF lockVars
  <1>2. ASSUME NEW p \in Pids, Start(p) \/ OtherProgram(p) PROVE NoLockLeft'
    BY <1>2 DEF Start, OtherProgram
  <1>3. ASSUME NEW p \in Pids, Create(p) PROVE NoLockLeft'
    BY <1>3 DEF Create
  <1>4. ASSUME NEW p \in Pids, ReadPid(p) \/ Refuse(p) \/ Stale(p) PROVE NoLockLeft'
    BY <1>4 DEF ReadPid, Refuse, Stale
  <1>5. ASSUME NEW p \in Pids, RemoveLock(p) \/ Release(p) PROVE NoLockLeft'
    BY <1>5 DEF RemoveLock, Release
  <1>6. ASSUME NEW p \in Pids, Recreate(p) PROVE NoLockLeft'
    BY <1>6 DEF Recreate
  <1>7. ASSUME NEW p \in Pids, WritePid(p) PROVE NoLockLeft'
    BY <1>7 DEF WritePid
  <1>8. ASSUME NEW p \in Pids, Die(p) PROVE NoLockLeft'
    BY <1>8 DEF Die
  <1> QED
    BY <1>1, <1>2, <1>3, <1>4, <1>5, <1>6, <1>7, <1>8 DEF LockNext, Acquire

LEMMA SerialStep == LockTypeOK /\ Serial /\ [LockNext]_lockVars => Serial'
  <1> SUFFICES ASSUME LockTypeOK, Serial, [LockNext]_lockVars, ~contended' PROVE Serial'
    BY DEF Serial
  <1>0. ~contended
    BY DEF LockTypeOK, lockVars, LockNext, Start, Acquire, Create, ReadPid, Refuse, Stale, RemoveLock,
           Recreate, WritePid, Release, Die, OtherProgram
  <1> USE <1>0, LockAssumption DEF LockTypeOK, Serial, Running, Taking, Lock, Moves, Created
  <1>R. \A r \in Running : lock # Nobody /\ lock.by = r /\ lock.written
    <2> TAKE r \in Running
    <2>1. lock = [by |-> r, written |-> TRUE] /\ r \in Pids
      OBVIOUS
    <2>2. lock \in Lock
      BY <2>1
    <2> QED
      BY <2>1, <2>2
  <1>1. CASE UNCHANGED lockVars
    BY <1>1 DEF lockVars
  <1>2. ASSUME NEW p \in Pids, Start(p) PROVE Serial'
    BY <1>2 DEF Start
  <1>3. ASSUME NEW p \in Pids, Create(p) PROVE Serial'
    <2>1. CASE Moves(p, "create", "write") /\ Created(p)
      <3>1. Running = {}
        BY <2>1, <1>R
      <3> QED
        BY <1>3, <2>1, <3>1 DEF Create
    <2>2. CASE Moves(p, "create", "read") /\ UNCHANGED lock
      BY <1>3, <2>2 DEF Create
    <2> QED
      BY <1>3, <2>1, <2>2 DEF Create
  <1>4. ASSUME NEW p \in Pids, ReadPid(p) PROVE Serial'
    <2>1. \A r \in Running : r = seen'[p]
      BY <1>4, <1>R DEF ReadPid
    <2> QED
      BY <1>4, <2>1 DEF ReadPid
  <1>5. ASSUME NEW p \in Pids, Refuse(p) PROVE Serial'
    BY <1>5 DEF Refuse
  <1>6. ASSUME NEW p \in Pids, Stale(p) PROVE Serial'
    BY <1>6 DEF Stale, Held
  <1>7. ASSUME NEW p \in Pids, RemoveLock(p) PROVE Serial'
    BY <1>7 DEF RemoveLock
  <1>8. ASSUME NEW p \in Pids, Recreate(p) PROVE Serial'
    <2>1. Running = {} /\ lock = Nobody
      BY <1>8 DEF Recreate
    <2>2. Moves(p, "recreate", "write") /\ Created(p) /\ contended' = contended
      BY <1>8, <2>1 DEF Recreate
    <2> QED
      BY <2>1, <2>2
  <1>9. ASSUME NEW p \in Pids, WritePid(p) PROVE Serial'
    <2>1. Running = {} /\ lock = [by |-> p, written |-> FALSE]
      BY <1>9 DEF WritePid
    <2>2. lock' = [by |-> p, written |-> TRUE]
      <3>a. [by |-> p, written |-> FALSE] \in Lock
        BY <1>9
      <3>1. lock # Nobody /\ lock.by = p
        BY <2>1, <3>a
      <3>2. lock' = [lock EXCEPT !.written = TRUE]
        BY <1>9, <3>1 DEF WritePid
      <3> QED
        BY <2>1, <3>2
    <2>3. Running' = {p} /\ \A q \in Pids : pc'[q] \notin Taking
      BY <1>9, <2>1 DEF WritePid
    <2> QED
      BY <2>2, <2>3
  <1>10. ASSUME NEW p \in Pids, Release(p) PROVE Serial'
    BY <1>10 DEF Release
  <1>11. ASSUME NEW p \in Pids, Die(p) PROVE Serial'
    BY <1>11 DEF Die
  <1>12. ASSUME NEW p \in Pids, OtherProgram(p) PROVE Serial'
    BY <1>12 DEF OtherProgram
  <1> QED
    BY <1>1, <1>2, <1>3, <1>4, <1>5, <1>6, <1>7, <1>8, <1>9, <1>10, <1>11, <1>12
    DEF LockNext, Acquire

LEMMA LockInvariance == LockSpec => []LockIInv
  <1>1. LockIInv /\ [LockNext]_lockVars => LockIInv'
    BY LockTypeStep, LockStep, SerialStep DEF LockIInv
  <1> QED
    BY <1>1, LockInitInv, PTL DEF LockSpec

\* The types of the lock's protocol, for any pids.
THEOREM LockTypes == LockSpec => []LockTypeOK
  <1>1. LockIInv => LockTypeOK
    BY DEF LockIInv
  <1> QED
    BY <1>1, LockInvariance, PTL

\* Backends whose starts do not overlap exclude each other.
THEOREM BackendsExclude == LockSpec => []OneBackend
  <1>1. LockIInv => OneBackend
    BY DEF LockIInv, Serial, OneBackend, Running
  <1> QED
    BY <1>1, LockInvariance, PTL

\* A lock without its creator takes a kill.
THEOREM LocksAreReleased == LockSpec => []NoLockLeft
  <1>1. LockIInv => NoLockLeft
    BY DEF LockIInv
  <1> QED
    BY <1>1, LockInvariance, PTL
=============================================================================
