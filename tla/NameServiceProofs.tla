------------------------- MODULE NameServiceProofs -------------------------
(***************************************************************************)
(* Proofs about the naming system, for any paths, servers and programs.    *)
(***************************************************************************)
EXTENDS NameService, SequenceTheorems, TLAPS

\* What InsertAt does.
LEMMA InsertFacts ==
  ASSUME NEW S, NEW d \in Seq(S), NEW e \in S, NEW k \in 1 .. Len(d) + 1
  PROVE  /\ Added(d, e, k) \in Seq(S)
         /\ Len(Added(d, e, k)) = Len(d) + 1
         /\ \A i \in 1 .. Len(d) + 1 :
              Added(d, e, k)[i] = IF i < k THEN d[i] ELSE IF i = k THEN e ELSE d[i - 1]
<1> DEFINE a == SubSeq(d, 1, k - 1)
           b == SubSeq(d, k, Len(d))
<1>0. Len(d) \in Nat /\ k \in Nat \ {0} /\ k <= Len(d) + 1
  OBVIOUS
<1>1. a \in Seq(S) /\ Len(a) = k - 1 /\ \A i \in 1 .. k - 1 : a[i] = d[i]
  OBVIOUS
<1>2. b \in Seq(S) /\ Len(b) = Len(d) - k + 1 /\ \A i \in 1 .. Len(b) : b[i] = d[k + i - 1]
  OBVIOUS
<1>3. Added(d, e, k) = a \o <<e>> \o b
  BY DEF Added, InsertAt
<1> HIDE DEF a, b
<1>4. a \o <<e>> \in Seq(S) /\ Len(a \o <<e>>) = k
      /\ \A i \in 1 .. k : (a \o <<e>>)[i] = IF i < k THEN d[i] ELSE e
  BY <1>1
<1> DEFINE c == a \o <<e>>
<1> HIDE DEF c
<1>5. c \in Seq(S) /\ Len(c) = k /\ \A i \in 1 .. k : c[i] = IF i < k THEN d[i] ELSE e
  BY <1>4 DEF c
<1>6. /\ c \o b \in Seq(S)
      /\ Len(c \o b) = Len(c) + Len(b)
      /\ \A i \in 1 .. Len(c) + Len(b) :
           (c \o b)[i] = IF i <= Len(c) THEN c[i] ELSE b[i - Len(c)]
  <2>1. b \in Seq(S) /\ c \in Seq(S)
    BY <1>2, <1>5
  <2> QED
    BY <2>1, ConcatProperties
<1>7. ASSUME NEW i \in 1 .. Len(d) + 1
      PROVE  (c \o b)[i] = IF i < k THEN d[i] ELSE IF i = k THEN e ELSE d[i - 1]
  <2>0. i \in Int /\ k \in Int
    BY <1>0
  <2>1. CASE i <= k
    BY <1>0, <1>2, <1>5, <1>6, <2>1
  <2>2. CASE i > k
    <3>1. i - k \in 1 .. Len(b) /\ ~ (i <= k) /\ ~ (i < k) /\ i # k
      BY <1>0, <1>2, <2>0, <2>2
    <3>2. (c \o b)[i] = b[i - k]
      BY <1>0, <1>2, <1>5, <1>6, <3>1
    <3>3. b[i - k] = d[k + (i - k) - 1] /\ k + (i - k) - 1 = i - 1
      BY <1>0, <1>2, <2>0, <3>1
    <3> QED
      BY <3>1, <3>2, <3>3
  <2>3. i <= k \/ i > k
    BY <2>0
  <2> QED
    BY <2>1, <2>2, <2>3, Zenon
<1>8. Len(c) + Len(b) = Len(d) + 1
  BY <1>0, <1>2, <1>5
<1> QED
  BY <1>3, <1>6, <1>7, <1>8 DEF c

\* Two names that begin the same path and are equally long are equal.
LEMMA EqualPrefixes ==
  ASSUME NEW m \in Path, NEW n \in Path, NEW p \in Path,
         IsPrefix(m, p), IsPrefix(n, p), Len(m) = Len(n)
  PROVE  m = n
<1>1. m = SubSeq(m, 1, Len(m)) /\ n = SubSeq(n, 1, Len(n))
  BY DEF Path
<1> QED
  BY <1>1 DEF IsPrefix

-----------------------------------------------------------------------------
(* The inductive invariant.  The list is ordered by the length of the       *)
(* names, and by age among names of equal length; the numbers of the        *)
(* entries are exactly 1 .. Len(dir); an entry's own object, if it is a     *)
(* path of hermes, is an older entry; programs hold no others.              *)
Entry == [name : Path \ {<<>>}, cap : Capability, id : Nat \ {0}]

Ordered(d) ==
  \A i, j \in 1 .. Len(d) : i < j =>
    \/ Len(d[j].name) < Len(d[i].name)
    \/ Len(d[j].name) = Len(d[i].name) /\ d[i].id < d[j].id

Numbered(d) ==
  /\ \A i \in 1 .. Len(d) : d[i].id \in 1 .. Len(d)
  /\ \A id \in 1 .. Len(d) : \E i \in 1 .. Len(d) : d[i].id = id

PointsBack(d) ==
  \A i \in 1 .. Len(d) : d[i].cap.server = Hermes => d[i].cap.object < d[i].id

CallType == [state : {"idle", "resolving", "found", "failed", "astray", "lost"},
             cap : Capability, rest : Path]

DirInv ==
  /\ dir \in Seq(Entry) /\ Len(dir) <= MaxEntries
  /\ Ordered(dir) /\ Numbered(dir) /\ PointsBack(dir)
  /\ granted \subseteq [server : {Hermes}, object : 0 .. Len(dir)]

CallInv ==
  /\ call \in [Clients -> CallType]
  /\ \A c \in Clients : call[c].cap.server = Hermes => call[c].cap.object \in 0 .. Len(dir)

IInv == DirInv /\ CallInv /\ NeverAstray

\* The capabilities that exist are well formed.
LEMMA CapTypes ==
  /\ RootCap \in Capability /\ RootCap.server = Hermes /\ RootCap.object = 0
  /\ AFile \in Capability /\ AFile.server # Hermes
  /\ FileRoot \in Capability /\ FileRoot.server # Hermes
  /\ \A s \in Others : Cap(s, 0) \in Capability /\ Cap(s, 0).server # Hermes
BY ServerAssumption DEF RootCap, AFile, FileRoot, Cap, Capability

\* The start.
LEMMA InitInv == NamingInit => IInv
<1> SUFFICES ASSUME NamingInit PROVE IInv
  OBVIOUS
<1>1. dir = <<>> /\ Len(dir) = 0 /\ dir \in Seq(Entry)
  BY DEF NamingInit
<1>2. DirInv
  BY <1>1, CapTypes, BoundAssumption
     DEF NamingInit, DirInv, Ordered, Numbered, PointsBack, RootCap, Cap
<1>3. <<>> \in Path
  BY DEF Path
<1>4. CallInv /\ NeverAstray
  BY <1>1, <1>3, CapTypes DEF NamingInit, CallInv, CallType, NeverAstray
<1> QED
  BY <1>2, <1>4 DEF IInv

\* NameOf finds the name of an entry.
LEMMA NameOfEntry ==
  ASSUME DirInv, NEW id \in 1 .. Len(dir)
  PROVE  \E i \in 1 .. Len(dir) : dir[i].id = id /\ NameOf(id) = dir[i].name
<1>1. PICK i \in 1 .. Len(dir) : dir[i].id = id
  BY DEF DirInv, Numbered
<1> DEFINE entries == {dir[j] : j \in 1 .. Len(dir)}
<1>2. \E e \in entries : e.id = id
  BY <1>1
<1>3. PICK e \in entries : e.id = id /\ e = CHOOSE f \in entries : f.id = id
  BY <1>2
<1>4. NameOf(id) = e.name
  BY <1>3 DEF NameOf
<1> QED
  BY <1>3, <1>4

\* The name of a parent is a path.
LEMMA NameOfPath ==
  ASSUME DirInv, NEW id \in 0 .. Len(dir)
  PROVE  NameOf(id) \in Path
<1>1. CASE id = 0
  BY <1>1 DEF NameOf, Path
<1>2. CASE id # 0
  <2>1. PICK i \in 1 .. Len(dir) : NameOf(id) = dir[i].name
    BY <1>2, NameOfEntry
  <2>2. dir[i] \in Entry
    BY DEF DirInv
  <2> QED
    BY <2>1, <2>2 DEF Entry
<1> QED
  BY <1>1, <1>2

\* RegisterPath keeps the directory in order.
LEMMA RegisterKeeps ==
  ASSUME DirInv, Register
  PROVE  /\ DirInv'
         /\ Len(dir') = Len(dir) + 1
         /\ \E e \in Entry, k \in 1 .. Len(dir) + 1 :
              /\ Place(dir, e.name, k)
              /\ \A i \in 1 .. Len(dir) + 1 :
                   dir'[i] = IF i < k THEN dir[i] ELSE IF i = k THEN e ELSE dir[i - 1]
<1>1. PICK parent \in granted, path \in Names, object \in Objects, k \in 1 .. Len(dir) + 1 :
        RegisterPath(parent, path, object, k)
  BY DEF Register
<1> DEFINE id == Len(dir) + 1
           name == NameOf(parent.object) \o path
           e == [name |-> name, cap |-> object, id |-> id]
<1>2. Place(dir, name, k) /\ dir' = Added(dir, e, k) /\ granted' = granted \cup {Cap(Hermes, id)}
  BY <1>1 DEF RegisterPath
<1>0. Len(dir) \in Nat
  BY DEF DirInv
<1>3. name \in Path \ {<<>>}
  <2>1. NameOf(parent.object) \in Path
    BY NameOfPath DEF DirInv
  <2>2. path \in Path /\ path # <<>>
    BY CharacterAssumption, AbsoluteAssumption
  <2> QED
    BY <2>1, <2>2 DEF Path
<1>4. object \in Capability /\ (object.server = Hermes => object.object < id)
  <2>1. CASE object \in granted
    BY <1>0, <2>1 DEF DirInv, Capability
  <2>2. CASE object \notin granted
    BY <2>2, CapTypes DEF Objects
  <2> QED
    BY <2>1, <2>2
<1> HIDE DEF name
<1>5. e \in Entry /\ e.name = name /\ e.cap = object /\ e.id = id
  BY <1>0, <1>3, <1>4 DEF Entry
<1> HIDE DEF e
<1>6. /\ dir' \in Seq(Entry)
      /\ Len(dir') = Len(dir) + 1
      /\ \A i \in 1 .. Len(dir) + 1 :
           dir'[i] = IF i < k THEN dir[i] ELSE IF i = k THEN e ELSE dir[i - 1]
  <2>1. dir \in Seq(Entry)
    BY DEF DirInv
  <2>2. /\ Added(dir, e, k) \in Seq(Entry)
        /\ Len(Added(dir, e, k)) = Len(dir) + 1
        /\ \A i \in 1 .. Len(dir) + 1 :
             Added(dir, e, k)[i] = IF i < k THEN dir[i] ELSE IF i = k THEN e ELSE dir[i - 1]
    BY <1>5, <2>1, InsertFacts
  <2> QED
    BY <1>2, <2>2
<1>7. Ordered(dir')
  <2> SUFFICES ASSUME NEW i \in 1 .. Len(dir) + 1, NEW j \in 1 .. Len(dir) + 1, i < j
               PROVE  \/ Len(dir'[j].name) < Len(dir'[i].name)
                      \/ Len(dir'[j].name) = Len(dir'[i].name) /\ dir'[i].id < dir'[j].id
    BY <1>6 DEF Ordered
  <2>0. Ordered(dir) /\ \A m \in 1 .. Len(dir) : dir[m].id <= Len(dir) /\ dir[m].id \in Nat
                                             /\ Len(dir[m].name) \in Nat
    <3>1. \A m \in 1 .. Len(dir) : dir[m] \in Entry
      BY DEF DirInv
    <3>2. \A m \in 1 .. Len(dir) : dir[m].id \in Nat /\ Len(dir[m].name) \in Nat
      BY <3>1 DEF Entry, Path
    <3>3. \A m \in 1 .. Len(dir) : dir[m].id <= Len(dir)
      BY <1>0 DEF DirInv, Numbered
    <3> QED
      BY <3>2, <3>3 DEF DirInv
  <2>1. CASE j < k
    <3>1. dir'[i] = dir[i] /\ dir'[j] = dir[j] /\ i \in 1 .. Len(dir) /\ j \in 1 .. Len(dir)
      BY <1>0, <1>6, <2>1
    <3> QED
      BY <2>0, <3>1 DEF Ordered
  <2>5. CASE i > k
    <3>1. /\ dir'[i] = dir[i - 1] /\ dir'[j] = dir[j - 1]
          /\ i - 1 \in 1 .. Len(dir) /\ j - 1 \in 1 .. Len(dir) /\ i - 1 < j - 1
      BY <1>0, <1>6, <2>5
    <3>2. \/ Len(dir[j - 1].name) < Len(dir[i - 1].name)
          \/ Len(dir[j - 1].name) = Len(dir[i - 1].name) /\ dir[i - 1].id < dir[j - 1].id
      BY <2>0, <3>1 DEF Ordered
    <3> QED
      BY <3>1, <3>2
  <2>2. CASE i < k /\ j > k
    <3>1. /\ dir'[i] = dir[i] /\ dir'[j] = dir[j - 1]
          /\ i \in 1 .. Len(dir) /\ j - 1 \in 1 .. Len(dir) /\ i < j - 1
      BY <1>0, <1>6, <2>2
    <3> QED
      BY <2>0, <3>1 DEF Ordered
  <2>3. CASE j = k
    <3>1. Len(name) <= Len(dir[i].name) /\ dir[i].id < id
      BY <1>0, <1>2, <2>0, <2>3 DEF Place
    <3> QED
      BY <1>0, <1>3, <1>5, <1>6, <2>0, <2>3, <3>1 DEF Path
  <2>4. CASE i = k
    <3>1. k <= Len(dir) /\ Len(dir[k].name) < Len(name)
      BY <1>0, <1>2, <2>4 DEF Place
    <3>2. Len(dir[j - 1].name) <= Len(dir[k].name)
      <4>1. CASE j - 1 = k
        BY <4>1, <2>0, <3>1
      <4>2. CASE j - 1 > k
        BY <4>2, <2>0, <3>1, <1>0, SMTT(30) DEF Ordered
      <4> QED
        BY <2>4, <4>1, <4>2
    <3>3. dir'[j] = dir[j - 1] /\ dir'[i] = e
      BY <1>6, <2>4
    <3>4. j - 1 \in 1 .. Len(dir)
      BY <2>4, <1>0
    <3>5. Len(name) \in Nat
      BY <1>3 DEF Path
    <3> QED
      BY <1>5, <2>0, <3>1, <3>2, <3>3, <3>4, <3>5
  <2> QED
    BY <2>1, <2>2, <2>3, <2>4, <2>5, <1>0
<1>8. Numbered(dir')
  <2>1. \A i \in 1 .. Len(dir) : dir[i].id \in 1 .. Len(dir)
    BY DEF DirInv, Numbered
  <2>2. \A i \in 1 .. Len(dir') : dir'[i].id \in 1 .. Len(dir')
    BY <1>0, <1>5, <1>6, <2>1
  <2>3. ASSUME NEW n \in 1 .. Len(dir') PROVE \E i \in 1 .. Len(dir') : dir'[i].id = n
    <3>1. CASE n = id
      BY <1>5, <1>6, <1>0, <3>1
    <3>2. CASE n # id
      <4>0. n \in 1 .. Len(dir)
        BY <1>6, <1>0, <3>2
      <4>1. PICK i \in 1 .. Len(dir) : dir[i].id = n
        BY <4>0 DEF DirInv, Numbered
      <4>2. dir'[IF i < k THEN i ELSE i + 1] = dir[i]
        BY <1>6, <1>0
      <4> QED
        BY <1>6, <1>0, <4>1, <4>2
    <3> QED
      BY <3>1, <3>2
  <2> QED
    BY <2>2, <2>3 DEF Numbered
<1>9. PointsBack(dir')
  <2>1. PointsBack(dir)
    BY DEF DirInv
  <2> SUFFICES ASSUME NEW i \in 1 .. Len(dir) + 1, dir'[i].cap.server = Hermes
               PROVE  dir'[i].cap.object < dir'[i].id
    BY <1>6 DEF PointsBack
  <2>2. CASE i = k
    BY <1>4, <1>5, <1>6, <2>2
  <2>3. CASE i < k
    BY <1>0, <1>6, <2>1, <2>3 DEF PointsBack
  <2>4. CASE i > k
    <3>1. i - 1 \in 1 .. Len(dir) /\ dir'[i] = dir[i - 1]
      BY <1>0, <1>6, <2>4
    <3> QED
      BY <2>1, <3>1 DEF PointsBack
  <2> QED
    BY <2>2, <2>3, <2>4, <1>0
<1>10. granted' \subseteq [server : {Hermes}, object : 0 .. Len(dir')]
  BY <1>0, <1>2, <1>6 DEF DirInv, Cap
<1>11. Len(dir') <= MaxEntries
  BY <1>0, <1>6, BoundAssumption DEF Register
<1>12. Place(dir, e.name, k)
  BY <1>2, <1>5
<1>13. DirInv'
  BY <1>6, <1>7, <1>8, <1>9, <1>10, <1>11 DEF DirInv
<1> QED
  BY <1>5, <1>6, <1>12, <1>13

-----------------------------------------------------------------------------
\* A path under hermes' entry id (0: the root) is covered by that entry, so the
\* first entry that covers it is not behind it: its name is longer, or as long
\* and the entry no younger.
LEMMA FirstIsBefore ==
  ASSUME DirInv, NEW id \in 0 .. Len(dir), NEW rest \in Path,
         rest # <<>>, rest[1] = Slash,
         NEW i \in 1 .. Len(dir), First(dir, NameOf(id) \o rest, i)
  PROVE  \/ Len(dir[i].name) > Len(NameOf(id))
         \/ Len(dir[i].name) = Len(NameOf(id)) /\ dir[i].id <= id
<1> DEFINE base == NameOf(id)
<1>1. dir[i] \in Entry /\ base \in Path
  BY NameOfPath DEF DirInv
<1>2. Len(dir[i].name) \in Nat /\ dir[i].id \in Nat /\ Len(dir[i].name) # 0
  BY <1>1 DEF Entry, Path
<1>3. CASE id = 0
  <2>1. Len(base) = 0
    BY <1>3 DEF NameOf
  <2> QED
    BY <1>2, <2>1
<1>4. CASE id # 0
  <2>1. PICK m \in 1 .. Len(dir) : dir[m].id = id /\ base = dir[m].name
    BY <1>4, NameOfEntry
  <2> HIDE DEF base
  <2>2. Covers(dir[m], base \o rest)
    <3>1. /\ base \in Seq(Characters) /\ rest \in Seq(Characters)
          /\ Len(base) \in Nat /\ Len(rest) \in Nat /\ Len(base) # 0 /\ Len(rest) # 0
      <4>0. dir[m] \in Entry
        BY DEF DirInv
      <4>1. dir[m].name # <<>>
        BY <4>0 DEF Entry
      <4> QED
        BY <1>1, <2>1, <4>1 DEF Path
    <3>2. /\ Len(base \o rest) = Len(base) + Len(rest)
          /\ (base \o rest)[Len(base) + 1] = rest[1]
      <4>1. (base \o rest)[Len(base) + 1] = rest[Len(base) + 1 - Len(base)]
        BY <3>1, ConcatProperties
      <4>2. Len(base) + 1 - Len(base) = 1
        BY <3>1
      <4> QED
        BY <3>1, <4>1, <4>2, ConcatProperties
    <3>3. SubSeq(base, 1, Len(base)) = SubSeq(base \o rest, 1, Len(base))
      BY <3>1, SubSeqOfConcat1
    <3>4. IsPrefix(base, base \o rest)
      BY <3>1, <3>2, <3>3 DEF IsPrefix
    <3> QED
      BY <2>1, <3>2, <3>4 DEF Covers
  <2>3. i \in Int /\ m \in Int /\ i <= m
    <3>1. ~ (m < i)
      BY <2>2 DEF First, base
    <3> QED
      BY <3>1
  <2>4. CASE i = m
    BY <2>1, <2>4, <1>2 DEF base
  <2>5. CASE i < m
    <3>1. \/ Len(dir[m].name) < Len(dir[i].name)
          \/ Len(dir[m].name) = Len(dir[i].name) /\ dir[i].id < dir[m].id
      BY <2>5 DEF DirInv, Ordered
    <3> QED
      BY <2>1, <3>1, <1>1, <1>2 DEF Path, base
  <2> QED
    BY <2>3, <2>4, <2>5
<1> QED
  BY <1>3, <1>4

\* What hermes' answer does to the call: it leads on.
LEMMA HermesKeeps ==
  ASSUME IInv, NEW c \in Clients, HermesResolves(c)
  PROVE  /\ CallInv' /\ NeverAstray'
         /\ UNCHANGED <<dir, granted>>
         /\ \/ Len(call'[c].rest) < Len(call[c].rest)
            \/ call'[c].cap.server # Hermes
            \/ call'[c].cap.object < call[c].cap.object
<1> DEFINE id == call[c].cap.object
           base == NameOf(id)
           rest == call[c].rest
           path == base \o rest
<1>1. /\ call \in [Clients -> CallType]
      /\ rest # <<>> /\ rest[1] = Slash /\ rest \in Path
      /\ id \in 0 .. Len(dir)
      /\ UNCHANGED <<dir, granted>>
  BY DEF IInv, CallInv, CallType, HermesResolves, Asks
<1>2. base \in Path /\ Len(base) \in Nat
  BY <1>1, NameOfPath DEF IInv, Path
<1>3. PICK i \in 1 .. Len(dir) :
        /\ First(dir, path, i)
        /\ IF Len(dir[i].name) < Len(base) THEN End(c, "astray")
           ELSE Answer(c, dir[i].cap, Drop(path, Len(dir[i].name)))
  BY DEF HermesResolves
<1>4. \/ Len(dir[i].name) > Len(base)
      \/ Len(dir[i].name) = Len(base) /\ dir[i].id <= id
  BY <1>1, <1>3, FirstIsBefore DEF IInv
<1>5. dir[i] \in Entry /\ Len(dir[i].name) \in Nat
  <2>1. dir[i] \in Entry
    BY DEF IInv, DirInv
  <2> QED
    BY <2>1 DEF Entry, Path
<1> DEFINE n == Len(dir[i].name)
<1>6. Answer(c, dir[i].cap, Drop(path, n))
  BY <1>2, <1>3, <1>4, <1>5
<1>7. path \in Path /\ Len(path) = Len(base) + Len(rest) /\ Len(rest) \in Nat /\ n <= Len(path)
  <2>1. path \in Path /\ Len(path) = Len(base) + Len(rest) /\ Len(rest) \in Nat
    BY <1>1, <1>2, ConcatProperties DEF Path
  <2> QED
    BY <1>3, <2>1 DEF First, Covers, IsPrefix
<1>0. n \in Nat
  BY <1>5
<1> HIDE DEF path, rest, base, id, n
<1>8. Drop(path, n) \in Path /\ Len(Drop(path, n)) = Len(path) - n
  <2>1. path \in Seq(Characters) /\ n + 1 \in Int /\ Len(path) \in Int /\ n \in Nat
    BY <1>0, <1>7 DEF Path
  <2>2. \A j \in n + 1 .. Len(path) : path[j] \in Characters
    BY <2>1
  <2>3. /\ SubSeq(path, n + 1, Len(path)) \in Seq(Characters)
        /\ Len(SubSeq(path, n + 1, Len(path))) = IF n + 1 <= Len(path) THEN Len(path) - (n + 1) + 1 ELSE 0
    BY <2>1, <2>2, SubSeqProperties
  <2>4. Len(path) \in Nat /\ n <= Len(path)
    BY <1>7, <2>1 DEF Path
  <2>5. \A x, y \in Nat : x <= y => (IF x + 1 <= y THEN y - (x + 1) + 1 ELSE 0) = y - x
    OBVIOUS
  <2>6. Len(SubSeq(path, n + 1, Len(path))) = Len(path) - n
    BY <1>0, <2>3, <2>4, <2>5
  <2> QED
    BY <2>3, <2>6, Zenon DEF Drop, Path
<1> DEFINE new == [state |-> "resolving", cap |-> dir[i].cap, rest |-> Drop(path, n)]
<1>9. new \in CallType /\ call' = [call EXCEPT ![c] = new]
  BY <1>5, <1>6, <1>8 DEF Answer, CallType, Entry
<1>10. dir[i].cap.server = Hermes => dir[i].cap.object < dir[i].id
                                    /\ dir[i].cap.object \in Nat /\ dir[i].id \in 1 .. Len(dir)
  BY <1>5 DEF IInv, DirInv, PointsBack, Numbered, Entry, Capability
<1>11. dir[i].cap.server = Hermes => dir[i].cap.object \in 0 .. Len(dir)
  BY <1>10 DEF IInv, DirInv
<1>12. call'[c] = new /\ \A d \in Clients \ {c} : call'[d] = call[d]
  BY <1>1, <1>9
<1>13. CallInv'
  <2>1. call' \in [Clients -> CallType]
    BY <1>1, <1>9
  <2>2. ASSUME NEW d \in Clients, call'[d].cap.server = Hermes
        PROVE  call'[d].cap.object \in 0 .. Len(dir)
    <3>1. CASE d = c
      BY <1>11, <1>12, <2>2, <3>1
    <3>2. CASE d # c
      BY <1>12, <2>2, <3>2 DEF IInv, CallInv
    <3> QED
      BY <3>1, <3>2
  <2> QED
    BY <1>1, <2>1, <2>2 DEF CallInv
<1>14. NeverAstray'
  BY <1>12 DEF NeverAstray, IInv
<1>15. CASE n > Len(base)
  <2>0. \A x, y, z \in Nat : x > y => (y + z) - x < z
    OBVIOUS
  <2>1. Len(Drop(path, n)) < Len(rest)
    BY <1>0, <1>2, <1>7, <1>8, <1>15, <2>0
  <2> QED
    BY <1>1, <1>12, <1>13, <1>14, <2>1 DEF rest
<1>16. CASE n = Len(base) /\ dir[i].id <= id
  <2>1. dir[i].cap.server = Hermes => dir[i].cap.object < id
    BY <1>1, <1>10, <1>16 DEF IInv, DirInv
  <2> QED
    BY <1>1, <1>12, <1>13, <1>14, <2>1 DEF id
<1> QED
  BY <1>4, <1>15, <1>16 DEF n

\* No program's step disturbs the invariant.
LEMMA StepKeeps ==
  ASSUME IInv, NEW c \in Clients,
         Step(c) \/ \E p \in Targets : Begin(c, p)
  PROVE  CallInv' /\ NeverAstray' /\ UNCHANGED <<dir, granted>>
<1>0. call \in [Clients -> CallType] /\ CallInv /\ NeverAstray
  BY DEF IInv, CallInv
<1>1. ASSUME NEW state \in {"failed", "found", "lost"}, End(c, state),
             UNCHANGED <<dir, granted>>
      PROVE  CallInv' /\ NeverAstray'
  BY <1>0, <1>1 DEF CallInv, NeverAstray, End, CallType
<1>2. ASSUME NEW cap \in Capability, NEW rest \in Path, Answer(c, cap, rest),
             cap.server = Hermes => cap.object = 0, UNCHANGED <<dir, granted>>
      PROVE  CallInv' /\ NeverAstray'
  <2> DEFINE new == [state |-> "resolving", cap |-> cap, rest |-> rest]
  <2>1. new \in CallType /\ call' = [call EXCEPT ![c] = new]
    BY <1>2 DEF Answer, CallType
  <2>2. call'[c] = new /\ \A d \in Clients \ {c} : call'[d] = call[d]
    BY <1>0, <2>1
  <2>3. call' \in [Clients -> CallType]
    BY <1>0, <2>1
  <2>4. 0 \in 0 .. Len(dir)
    BY DEF IInv, DirInv
  <2>5. ASSUME NEW d \in Clients
        PROVE  /\ call'[d].cap.server = Hermes => call'[d].cap.object \in 0 .. Len(dir)
               /\ call'[d].state # "astray"
    <3>1. CASE d = c
      BY <1>2, <2>2, <2>4, <3>1
    <3>2. CASE d # c
      BY <1>0, <2>2, <3>2 DEF CallInv, NeverAstray
    <3> QED
      BY <3>1, <3>2
  <2> QED
    BY <1>2, <2>3, <2>5 DEF CallInv, NeverAstray
<1>3. <<>> \in Path
  BY DEF Path
<1>4. CASE HermesResolves(c)
  BY <1>4, HermesKeeps
<1>5. CASE HermesRefuses(c)
  BY <1>1, <1>5 DEF HermesRefuses
<1>6. CASE FileServerResolves(c)
  <2>1. CASE Answer(c, AFile, <<>>)
    BY <1>2, <1>3, <1>6, <2>1, CapTypes DEF FileServerResolves
  <2>2. ASSUME NEW n \in 0 .. Len(call[c].rest), Answer(c, AFile, Drop(call[c].rest, n))
        PROVE  CallInv' /\ NeverAstray'
    <3>1. call[c].rest \in Seq(Characters)
      BY <1>0 DEF CallType, Path
    <3>2. \A j \in n + 1 .. Len(call[c].rest) : call[c].rest[j] \in Characters
      BY <3>1
    <3>3. Drop(call[c].rest, n) \in Path
      BY <3>1, <3>2, SubSeqProperties DEF Drop, Path
    <3> QED
      BY <1>2, <1>6, <2>2, <3>3, CapTypes DEF FileServerResolves
  <2>3. CASE End(c, "lost")
    BY <1>1, <1>6, <2>3 DEF FileServerResolves
  <2> QED
    BY <1>6, <2>1, <2>2, <2>3 DEF FileServerResolves
<1>7. CASE FileServerRefuses(c)
  BY <1>1, <1>7 DEF FileServerRefuses
<1>8. CASE OthersRefuse(c)
  BY <1>1, <1>8 DEF OthersRefuse
<1>9. CASE Finish(c)
  BY <1>1, <1>9 DEF Finish
<1>10. CASE \E p \in Targets : Begin(c, p)
  <2>1. PICK p \in Targets : Begin(c, p)
    BY <1>10
  <2>2. p \in Path /\ Len(p) \in Nat /\ \A j \in 1 .. Len(p) : p[j] \in Characters
    BY CharacterAssumption DEF Path
  <2>3. PICK i \in 1 .. 1 : Answer(c, RootCap, Drop(p, 0))
    BY <2>1 DEF Begin, LocalDirectory
  <2>4. SubSeq(p, 0 + 1, Len(p)) \in Seq(Characters)
    BY <2>2, SubSeqProperties
  <2>5. Drop(p, 0) \in Path
    BY <2>4 DEF Drop, Path
  <2> QED
    BY <1>2, <2>1, <2>3, <2>5, CapTypes DEF Begin
<1> QED
  BY <1>4, <1>5, <1>6, <1>7, <1>8, <1>9, <1>10 DEF Step

\* Every step keeps the invariant.
LEMMA NextInv ==
  ASSUME IInv, [NamingNext]_namingvars
  PROVE  IInv'
<1>1. CASE Register
  <2>1. DirInv' /\ Len(dir') = Len(dir) + 1 /\ Len(dir) \in Nat /\ UNCHANGED call
    BY <1>1, RegisterKeeps DEF IInv, DirInv, Register
  <2> QED
    BY <2>1 DEF IInv, CallInv, NeverAstray
<1>2. CASE \E c \in Clients : Step(c) \/ \E p \in Targets : Begin(c, p)
  <2>1. CallInv' /\ NeverAstray' /\ UNCHANGED <<dir, granted>>
    BY <1>2, StepKeeps
  <2> QED
    BY <2>1 DEF IInv, DirInv
<1>3. CASE UNCHANGED namingvars
  BY <1>3 DEF namingvars, IInv, DirInv, CallInv, NeverAstray
<1> QED
  BY <1>1, <1>2, <1>3 DEF NamingNext

\* The invariant holds in every reachable state.
THEOREM Invariant == NamingSpec => []IInv
<1>1. IInv /\ [NamingNext]_namingvars => IInv'
  BY NextInv
<1> QED
  BY InitInv, <1>1, PTL DEF NamingSpec

-----------------------------------------------------------------------------
\* hpf_resolve's pointer never leaves the path, whatever a file server answers.
THEOREM NeverRunsAstray == NamingSpec => []NeverAstray
<1>1. IInv => NeverAstray
  BY DEF IInv
<1> QED
  BY <1>1, Invariant, PTL

\* Whatever is registered, an answer of hermes leads on: the path gets shorter,
\* or the next question goes to another server or to an older entry.
THEOREM HermesAlwaysLeadsOn == NamingSpec => HermesLeadsOn
<1> DEFINE Leads ==
      \A c \in Clients : HermesResolves(c) =>
         \/ Len(call'[c].rest) < Len(call[c].rest)
         \/ call'[c].cap.server # Hermes
         \/ call'[c].cap.object < call[c].cap.object
<1>1. IInv /\ [NamingNext]_namingvars => [Leads]_namingvars
  BY HermesKeeps
<1> QED
  BY <1>1, Invariant, PTL DEF NamingSpec, HermesLeadsOn

\* The first match is the longest and, among equals, the oldest.
LEMMA FirstMatch ==
  ASSUME DirInv, NEW p \in Path, NEW i \in 1 .. Len(dir), NEW j \in 1 .. Len(dir),
         First(dir, p, i), Covers(dir[j], p)
  PROVE  \/ Len(dir[j].name) < Len(dir[i].name)
         \/ dir[j].name = dir[i].name /\ dir[i].id <= dir[j].id
<1>1. i \in Int /\ j \in Int /\ i <= j
  BY DEF First
<1>2. dir[i] \in Entry /\ dir[j] \in Entry
  BY DEF DirInv
<1>3. CASE i = j
  BY <1>2, <1>3 DEF Entry
<1>4. CASE i < j
  <2>1. \/ Len(dir[j].name) < Len(dir[i].name)
        \/ Len(dir[j].name) = Len(dir[i].name) /\ dir[i].id < dir[j].id
    BY <1>4 DEF DirInv, Ordered
  <2>2. Len(dir[j].name) = Len(dir[i].name) => dir[j].name = dir[i].name
    BY <1>2, EqualPrefixes DEF Entry, First, Covers
  <2> QED
    BY <1>2, <2>1, <2>2 DEF Entry
<1> QED
  BY <1>1, <1>3, <1>4

\* Stopping at the first match is enough.
THEOREM FirstMatchIsBest == NamingSpec => []LongestOldestWins
<1>1. IInv => LongestOldestWins
  BY FirstMatch, CharacterAssumption DEF IInv, LongestOldestWins
<1> QED
  BY <1>1, Invariant, PTL

-----------------------------------------------------------------------------
(* The refinement: every bound name is found, and what is found never       *)
(* changes.  BoundInv strengthens the invariant for it.                     *)
BoundInv == \A n \in Bound : \E i \in 1 .. Len(dir) : First(dir, n, i)

\* A binding is the capability of the first entry that covers the name.
LEMMA BindingIs ==
  ASSUME NEW n, NEW i \in 1 .. Len(dir), Len(dir) \in Nat, First(dir, n, i)
  PROVE  Binding(n) = dir[i].cap
<1>1. ASSUME NEW j \in 1 .. Len(dir), First(dir, n, j) PROVE j = i
  <2>1. ~ (j < i) /\ ~ (i < j) /\ i \in Int /\ j \in Int
    BY <1>1 DEF First
  <2> QED
    BY <2>1
<1> DEFINE f == CHOOSE j \in 1 .. Len(dir) : First(dir, n, j)
<1>2. f \in 1 .. Len(dir) /\ First(dir, n, f)
  OBVIOUS
<1> QED
  BY <1>1, <1>2 DEF Binding

\* A name covers itself, and no longer name covers it.
LEMMA CoversLength ==
  ASSUME NEW e, NEW n \in Path
  PROVE  /\ e.name = n => Covers(e, n)
         /\ Covers(e, n) => Len(e.name) <= Len(n)
BY DEF Covers, IsPrefix, Path

\* A registration binds one more name, if any, and leaves the others alone.
LEMMA RegisterBinds ==
  ASSUME DirInv, BoundInv, Register
  PROVE  BoundInv' /\ (Abstract!Bind \/ UNCHANGED [n \in Bound |-> Binding(n)])
<1>1. PICK e \in Entry, k \in 1 .. Len(dir) + 1 :
        /\ Place(dir, e.name, k)
        /\ \A i \in 1 .. Len(dir) + 1 :
             dir'[i] = IF i < k THEN dir[i] ELSE IF i = k THEN e ELSE dir[i - 1]
  BY RegisterKeeps
<1> DEFINE name == e.name
<1>2. Place(dir, name, k)
  BY <1>1
<1>3. dir \in Seq(Entry) /\ Len(dir) \in Nat /\ dir' \in Seq(Entry) /\ Len(dir') = Len(dir) + 1
  BY RegisterKeeps DEF DirInv
<1>4. name \in Path /\ Len(name) \in Nat
  BY DEF Entry, Path
<1>5. e.name = name
  OBVIOUS
<1> HIDE DEF name
<1>6. \A i \in 1 .. Len(dir) + 1 :
        dir'[i] = IF i < k THEN dir[i] ELSE IF i = k THEN e ELSE dir[i - 1]
  BY <1>1
<1>7. \A i \in 1 .. Len(dir) : dir[i] \in Entry /\ Len(dir[i].name) \in Nat /\ dir[i].name \in Path
  <2>1. \A i \in 1 .. Len(dir) : dir[i] \in Entry
    BY <1>3
  <2> QED
    BY <2>1 DEF Entry, Path
<1>8. Bound' = Bound \cup {name}
  <2>1. ASSUME NEW i \in 1 .. Len(dir) PROVE dir[i].name \in Bound'
    <3>1. CASE i < k
      BY <1>3, <1>6, <3>1 DEF Bound
    <3>2. CASE ~ (i < k)
      <4>1. i + 1 \in 1 .. Len(dir') /\ dir'[i + 1] = dir[i]
        BY <1>3, <1>6, <3>2
      <4> QED
        BY <4>1 DEF Bound
    <3> QED
      BY <3>1, <3>2
  <2>2. name \in Bound'
    BY <1>3, <1>5, <1>6 DEF Bound
  <2>3. ASSUME NEW i \in 1 .. Len(dir') PROVE dir'[i].name \in Bound \cup {name}
    <3>1. CASE i < k
      BY <1>3, <1>6, <3>1 DEF Bound
    <3>2. CASE i = k
      BY <1>3, <1>5, <1>6, <3>2
    <3>3. CASE i > k
      <4>1. i - 1 \in 1 .. Len(dir) /\ dir'[i] = dir[i - 1]
        BY <1>3, <1>6, <3>3
      <4> QED
        BY <4>1 DEF Bound
    <3> QED
      BY <3>1, <3>2, <3>3
  <2> QED
    BY <2>1, <2>2, <2>3 DEF Bound
<1>9. ASSUME NEW n \in Bound
      PROVE  Binding(n)' = Binding(n) /\ \E i \in 1 .. Len(dir') : First(dir', n, i)
  <2>1. PICK i \in 1 .. Len(dir) : First(dir, n, i)
    BY DEF BoundInv
  <2>2. PICK m \in 1 .. Len(dir) : n = dir[m].name
    BY DEF Bound
  <2>3. n \in Path /\ Len(n) \in Nat
    BY <1>7, <2>2
  <2>4. Len(n) <= Len(dir[i].name)
    <3>1. Covers(dir[m], n)
      BY <2>2, <2>3, CoversLength
    <3>2. Len(dir[m].name) < Len(dir[i].name) \/ dir[m].name = dir[i].name
      BY <2>1, <2>3, <3>1, FirstMatch
    <3> QED
      BY <1>7, <2>2, <2>3, <3>2
  <2> DEFINE q == IF i < k THEN i ELSE i + 1
  <2>5. q \in 1 .. Len(dir') /\ dir'[q] = dir[i]
    BY <1>3, <1>6
  <2>6. ASSUME NEW j \in 1 .. Len(dir'), j < q PROVE ~ Covers(dir'[j], n)
    <3>1. CASE j < k
      <4>1. j \in 1 .. Len(dir) /\ j < i /\ dir'[j] = dir[j]
        BY <1>3, <1>6, <2>6, <3>1
      <4> QED
        BY <2>1, <4>1 DEF First
    <3>2. CASE j = k
      <4>1. k <= i /\ k <= Len(dir) /\ dir'[j] = e
        BY <1>3, <1>6, <2>6, <3>2
      <4>2. Len(name) > Len(dir[k].name)
        BY <1>2, <4>1 DEF Place
      <4>3. Len(dir[i].name) <= Len(dir[k].name)
        <5>1. CASE k = i
          BY <1>7, <5>1
        <5>2. CASE k < i
          BY <1>7, <4>1, <5>2 DEF DirInv, Ordered
        <5> QED
          BY <4>1, <5>1, <5>2
      <4>4. k \in 1 .. Len(dir)
        BY <4>1
      <4>5. Len(name) > Len(n)
        BY <1>4, <1>7, <2>3, <2>4, <4>2, <4>3, <4>4
      <4> QED
        BY <1>4, <1>5, <2>3, <4>1, <4>5, CoversLength
    <3>3. CASE j > k
      <4>1. j - 1 \in 1 .. Len(dir) /\ j - 1 < i /\ dir'[j] = dir[j - 1]
        BY <1>3, <1>6, <2>6, <3>3
      <4> QED
        BY <2>1, <4>1 DEF First
    <3> QED
      BY <3>1, <3>2, <3>3
  <2>7. First(dir', n, q)
    BY <2>1, <2>5, <2>6 DEF First
  <2>8. Binding(n) = dir[i].cap
    BY <1>3, <2>1, BindingIs
  <2>9. Binding(n)' = dir'[q].cap
    <3>1. ASSUME NEW j \in 1 .. Len(dir'), First(dir', n, j) PROVE j = q
      <4>1. ~ (j < q) /\ ~ (q < j) /\ q \in Int /\ j \in Int
        BY <1>3, <2>5, <2>7, <3>1 DEF First
      <4> QED
        BY <4>1
    <3> DEFINE f == CHOOSE j \in 1 .. Len(dir') : First(dir', n, j)
    <3>2. f \in 1 .. Len(dir') /\ First(dir', n, f)
      BY <2>5, <2>7
    <3> QED
      BY <3>1, <3>2 DEF Binding
  <2> QED
    BY <2>5, <2>7, <2>8, <2>9
<1>10. name \notin Bound => First(dir', name, k)
  <2>1. k \in 1 .. Len(dir') /\ dir'[k] = e
    BY <1>3, <1>6
  <2>2. Covers(dir'[k], name)
    BY <1>4, <1>5, <2>1, CoversLength
  <2>3. ASSUME name \notin Bound, NEW j \in 1 .. Len(dir'), j < k PROVE ~ Covers(dir'[j], name)
    <3>1. j \in 1 .. Len(dir) /\ dir'[j] = dir[j]
      BY <1>3, <1>6, <2>3
    <3>2. Len(name) <= Len(dir[j].name)
      BY <1>2, <2>3, <3>1 DEF Place
    <3>3. dir[j].name # name
      BY <2>3, <3>1 DEF Bound
    <3> SUFFICES ASSUME Covers(dir[j], name) PROVE FALSE
      BY <3>1
    <3>4. Len(dir[j].name) = Len(name)
      BY <1>4, <1>7, <3>1, <3>2, CoversLength
    <3>5. IsPrefix(name, name) /\ IsPrefix(dir[j].name, name)
      BY <1>4 DEF Covers, IsPrefix
    <3> QED
      BY <1>4, <1>7, <3>1, <3>3, <3>4, <3>5, EqualPrefixes
  <2> QED
    BY <2>1, <2>2, <2>3 DEF First
<1>11. BoundInv'
  <2> SUFFICES ASSUME NEW n \in Bound' PROVE \E i \in 1 .. Len(dir') : First(dir', n, i)
    BY DEF BoundInv
  <2>1. CASE n \in Bound
    BY <1>9, <2>1
  <2>2. CASE n = name /\ name \notin Bound
    BY <1>3, <1>10, <2>2
  <2> QED
    BY <1>8, <2>1, <2>2
<1>12. Abstract!Bind
  <2> DEFINE old == [n \in Bound |-> Binding(n)]
             new == [n \in Bound |-> Binding(n)]'
  <2>1. DOMAIN old = Bound /\ DOMAIN new = Bound'
    OBVIOUS
  <2>2. \A n \in Bound : new[n] = old[n]
    BY <1>8, <1>9
  <2>3. Abstract!IsRestriction(old, new)
    BY <1>8, <2>1, <2>2 DEF Abstract!IsRestriction
  <2>4. \E n \in DOMAIN new : DOMAIN new = DOMAIN old \cup {n}
    BY <1>8, <2>1
  <2> QED
    BY <2>3, <2>4 DEF Abstract!Bind
<1> QED
  BY <1>11, <1>12

\* Hermes implements the abstract namespace: a name, once bound, stays bound to
\* the object it was first registered for.
THEOREM ImplementsTheNamespace ==
  NamingSpec => ImplementsNamespace
<1> DEFINE bindings == [n \in Bound |-> Binding(n)]
<1>1. NamingInit => Abstract!Init /\ BoundInv
  <2> SUFFICES ASSUME NamingInit PROVE Abstract!Init /\ BoundInv
    OBVIOUS
  <2>1. Bound = {}
    BY DEF NamingInit, Bound
  <2>2. DOMAIN bindings = {}
    BY <2>1
  <2> QED
    BY <2>1, <2>2 DEF Abstract!Init, BoundInv
<1>2. ASSUME IInv, BoundInv, [NamingNext]_namingvars
      PROVE  BoundInv' /\ (Abstract!Bind \/ UNCHANGED bindings)
  <2>1. CASE Register
    BY <1>2, <2>1, RegisterBinds DEF IInv
  <2>2. CASE UNCHANGED dir
    BY <1>2, <2>2 DEF BoundInv, Bound, Binding
  <2>3. CASE \E c \in Clients : Step(c) \/ \E p \in Targets : Begin(c, p)
    BY <1>2, <2>2, <2>3, StepKeeps
  <2> QED
    BY <1>2, <2>1, <2>2, <2>3 DEF NamingNext, namingvars
<1>3. IInv /\ BoundInv /\ [NamingNext]_namingvars => BoundInv' /\ [Abstract!Bind]_bindings
  BY <1>2
<1> QED
  BY <1>1, <1>3, Invariant, PTL DEF NamingSpec, ImplementsNamespace, Abstract!Spec

\* The state is well formed.
THEOREM TypeCorrect == NamingSpec => []NamingTypeOK
<1>1. IInv => NamingTypeOK
  <2> SUFFICES ASSUME IInv PROVE NamingTypeOK
    OBVIOUS
  <2> DEFINE E == [name : Path, cap : Capability, id : 1 .. MaxEntries]
  <2>1. \A i \in 1 .. Len(dir) : dir[i] \in E
    <3>1. ASSUME NEW i \in 1 .. Len(dir) PROVE dir[i] \in E
      <4>1. dir[i] \in Entry
        BY DEF IInv, DirInv
      <4>2. dir[i].id \in 1 .. MaxEntries
        BY BoundAssumption DEF IInv, DirInv, Numbered
      <4> QED
        BY <4>1, <4>2 DEF Entry
    <3> QED
      BY <3>1
  <2>2. dir \in Seq(E)
    <3>1. dir \in Seq(Entry) /\ Len(dir) \in Nat
      BY DEF IInv, DirInv
    <3>2. SubSeq(dir, 1, Len(dir)) = dir
      BY <3>1, SubSeqFull
    <3>3. SubSeq(dir, 1, Len(dir)) \in Seq(E)
      <4> HIDE DEF E
      <4>1. \A i \in 1 .. Len(dir) : dir[i] \in E
        BY <2>1
      <4>2. 1 \in Int /\ Len(dir) \in Int
        BY <3>1
      <4> QED
        BY <4>1, <4>2, SubSeqProperties, Zenon
    <3> QED
      BY <3>2, <3>3, Zenon
  <2> QED
    BY <2>2 DEF NamingTypeOK, IInv, DirInv, CallInv, CallType
<1> QED
  BY <1>1, Invariant, PTL
=============================================================================
