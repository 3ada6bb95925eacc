-------------------------- MODULE HashTable_proofs --------------------------
(***************************************************************************)
(* For any number of threads, keys and entries: the buckets are lists in   *)
(* both directions, a key has one entry, no entry in use is freed, and the *)
(* table is a map.  The lemmas on Way say how appending and removing an    *)
(* entry change what one meets in a bucket.                                *)
(***************************************************************************)
EXTENDS HashTable, FiniteSetTheorems, TLAPS

LEMMA WayFirst ==
  ASSUME NEW f \in Entries, NEW n \in [Entries -> EntryOrNone]
  PROVE  f \in Way(f, n)
BY NoAssumption DEF Way

LEMMA WayNext ==
  ASSUME NEW f \in EntryOrNone, NEW n \in [Entries -> EntryOrNone],
         NEW e \in Way(f, n), n[e] # NoEntry
  PROVE  n[e] \in Way(f, n)
BY DEF Way, EntryOrNone

LEMMA WayLeast ==
  ASSUME NEW f \in EntryOrNone, NEW n \in [Entries -> EntryOrNone],
         NEW S \in SUBSET Entries,
         f # NoEntry => f \in S,
         \A x \in S : n[x] # NoEntry => n[x] \in S
  PROVE  Way(f, n) \subseteq S
BY DEF Way

LEMMA WayNone ==
  ASSUME NEW n
  PROVE  Way(NoEntry, n) = {}
<1> SUFFICES ASSUME NEW e \in Way(NoEntry, n) PROVE FALSE
  OBVIOUS
<1>1. \A S \in SUBSET Entries :
        (\A x \in S : n[x] # NoEntry => n[x] \in S) => e \in S
  BY DEF Way
<1>2. {} \in SUBSET Entries /\ \A x \in {} : n[x] # NoEntry => n[x] \in {}
  OBVIOUS
<1> QED
  BY <1>1, <1>2

LEMMA WayType ==
  ASSUME NEW f, NEW n
  PROVE  Way(f, n) \subseteq Entries
BY DEF Way

(* Who is not the first has been come to from another.                     *)
LEMMA WayPrevious ==
  ASSUME NEW f \in EntryOrNone, NEW n \in [Entries -> EntryOrNone],
         NEW e \in Way(f, n), e # f
  PROVE  \E x \in Way(f, n) : n[x] = e
<1> DEFINE S == Way(f, n) \ {e}
<1> SUFFICES ASSUME \A x \in Way(f, n) : n[x] # e PROVE FALSE
  OBVIOUS
<1>1. S \in SUBSET Entries
  BY WayType
<1>2. f # NoEntry => f \in S
  BY WayFirst DEF EntryOrNone
<1>3. \A x \in S : n[x] # NoEntry => n[x] \in S
  BY WayNext
<1>4. Way(f, n) \subseteq S
  BY <1>1, <1>2, <1>3, WayLeast
<1> QED
  BY <1>4

(* What one does not meet does not matter.                                 *)
LEMMA WaySame ==
  ASSUME NEW f \in EntryOrNone, NEW n \in [Entries -> EntryOrNone],
         NEW m \in [Entries -> EntryOrNone],
         \A x \in Way(f, n) : m[x] = n[x]
  PROVE  Way(f, m) = Way(f, n)
<1>1. Way(f, m) \subseteq Way(f, n)
  <2>1. Way(f, n) \in SUBSET Entries
    BY WayType
  <2>2. f # NoEntry => f \in Way(f, n)
    BY WayFirst DEF EntryOrNone
  <2>3. \A x \in Way(f, n) : m[x] # NoEntry => m[x] \in Way(f, n)
    BY WayNext
  <2> QED
    BY <2>1, <2>2, <2>3, WayLeast
<1>2. Way(f, n) \subseteq Way(f, m)
  <2>1. Way(f, m) \in SUBSET Entries
    BY WayType
  <2>2. f # NoEntry => f \in Way(f, m)
    BY WayFirst DEF EntryOrNone
  <2>3. \A x \in Way(f, m) : n[x] # NoEntry => n[x] \in Way(f, m)
    BY <1>1, WayNext
  <2> QED
    BY <2>1, <2>2, <2>3, WayLeast
<1> QED
  BY <1>1, <1>2

(* Linking e behind the last entry l.                                      *)
LEMMA WayAppend ==
  ASSUME NEW f \in EntryOrNone, NEW l \in EntryOrNone, NEW e \in Entries,
         NEW n \in [Entries -> EntryOrNone], NEW m \in [Entries -> EntryOrNone],
         NEW g \in EntryOrNone,
         (f = NoEntry) <=> (l = NoEntry),
         l # NoEntry => n[l] = NoEntry /\ l \in Way(f, n),
         e \notin Way(f, n),
         g = (IF l = NoEntry THEN e ELSE f),
         \A x \in Entries :
           m[x] = (IF x = e THEN NoEntry ELSE IF x = l THEN e ELSE n[x])
  PROVE  Way(g, m) = Way(f, n) \union {e}
<1> USE NoAssumption
<1>1. Way(g, m) \subseteq Way(f, n) \union {e}
  <2> DEFINE S == Way(f, n) \union {e}
  <2>1. S \in SUBSET Entries
    BY WayType
  <2>2. g \in S
    BY WayFirst DEF EntryOrNone
  <2>3. \A x \in S : m[x] # NoEntry => m[x] \in S
    BY <2>1, WayNext
  <2>4. Way(g, m) \subseteq S
    <3> HIDE DEF S
    <3> QED
      BY <2>1, <2>2, <2>3, WayLeast
  <2> QED
    BY <2>4
<1>2. Way(f, n) \subseteq Way(g, m)
  <2> DEFINE S == Way(g, m) \ {e}
  <2>1. S \in SUBSET Entries
    BY WayType
  <2>2. f # NoEntry => f \in S
    BY WayFirst DEF EntryOrNone
  <2>3. \A x \in S : n[x] # NoEntry => n[x] \in S
    <3> SUFFICES ASSUME NEW x \in S, n[x] # NoEntry PROVE n[x] \in S
      OBVIOUS
    <3>1. x \in Way(f, n) /\ x # e /\ x # l
      BY <1>1, <2>1
    <3>2. n[x] \in Way(f, n) /\ m[x] = n[x]
      BY <3>1, <2>1, WayNext
    <3>3. n[x] \in Way(g, m)
      BY <3>2, WayNext
    <3> QED
      BY <3>2, <3>3
  <2>4. Way(f, n) \subseteq S
    <3> HIDE DEF S
    <3> QED
      BY <2>1, <2>2, <2>3, WayLeast
  <2> QED
    BY <2>4
<1>3. e \in Way(g, m)
  <2>1. CASE l = NoEntry
    BY <2>1, WayFirst
  <2>2. CASE l # NoEntry
    <3>1. l \in Way(g, m) /\ l # e /\ l \in Entries
      BY <2>2, <1>2 DEF EntryOrNone
    <3>2. m[l] = e
      BY <3>1
    <3> QED
      BY <3>1, <3>2, WayNext
  <2> QED
    BY <2>1, <2>2
<1> QED
  BY <1>1, <1>2, <1>3

(* Where p leads back to who leads on by n, one comes to e from p[e] only, *)
(* never from e itself, and not at all if e is the first.                  *)
LEMMA WayBack ==
  ASSUME NEW f \in EntryOrNone, NEW n \in [Entries -> EntryOrNone],
         NEW p \in [Entries -> EntryOrNone],
         NEW e \in Way(f, n),
         p[f] = NoEntry,
         \A x \in Way(f, n) : n[x] # NoEntry => p[n[x]] = x
  PROVE  \A x \in Way(f, n) : n[x] = e => x = p[e] /\ x # e /\ f # e
<1> USE NoAssumption
<1> DEFINE W == Way(f, n)
<1>1. W \subseteq Entries /\ f # NoEntry
  BY WayType, WayNone
<1>2. f \in W
  BY <1>1, WayFirst DEF EntryOrNone
<1>3. \A x \in W : n[x] # NoEntry => n[x] \in W
  BY WayNext
<1> SUFFICES ASSUME NEW x \in W, n[x] = e PROVE x = p[e] /\ x # e /\ f # e
  OBVIOUS
<1>4. x = p[e] /\ x # NoEntry
  BY <1>1
<1>5. f # e
  BY <1>4
<1>6. x # e
  <2> SUFFICES ASSUME x = e PROVE FALSE
    OBVIOUS
  <2>1. \E y \in W : n[y] = e /\ y # e
    <3> DEFINE S == {y \in W : y # e}
    <3>1. f \in S
      BY <1>2, <1>5
    <3> SUFFICES ASSUME \A y \in S : n[y] # e PROVE FALSE
      OBVIOUS
    <3>2. \A y \in S : n[y] # NoEntry => n[y] \in S
      BY <1>3
    <3>3. W \subseteq S
      BY <1>1, <3>1, <3>2, WayLeast
    <3> QED
      BY <3>3
  <2> QED
    BY <2>1, <1>1
<1> QED
  BY <1>4, <1>5, <1>6

(* Unlinking e.  p leads back where n leads on.                            *)
Unlinks(e, f, n, g, m, p) ==
  /\ f \in EntryOrNone /\ g \in EntryOrNone /\ n \in [Entries -> EntryOrNone]
  /\ m \in [Entries -> EntryOrNone] /\ p \in [Entries -> EntryOrNone]
  /\ e \in Way(f, n) /\ p[f] = NoEntry
  /\ \A x \in Way(f, n) : n[x] # NoEntry => p[n[x]] = x
  /\ g = (IF f = e THEN n[e] ELSE f)
  /\ \A x \in Entries :
       m[x] = (IF x = e THEN NoEntry ELSE IF x = p[e] THEN n[e] ELSE n[x])

LEMMA WayRemove ==
  ASSUME NEW e, NEW f, NEW n, NEW g, NEW m, NEW p, Unlinks(e, f, n, g, m, p)
  PROVE  Way(g, m) = Way(f, n) \ {e}
<1> USE NoAssumption DEF Unlinks
<1> DEFINE W == Way(f, n)
<1>1. W \subseteq Entries /\ f # NoEntry
  BY WayType, WayNone
<1>2. f \in W
  BY <1>1, WayFirst DEF EntryOrNone
<1>3. \A x \in W : n[x] # NoEntry => n[x] \in W
  BY WayNext
<1>4. \A x \in W : n[x] = e => x = p[e] /\ x # e /\ f # e
  BY WayBack
<1>5. n[e] # NoEntry => n[e] \in W /\ n[e] # e
  BY <1>3, <1>4
<1>6. Way(g, m) \subseteq W \ {e}
  <2> DEFINE S == W \ {e}
  <2>1. S \in SUBSET Entries
    BY <1>1
  <2>2. g # NoEntry => g \in S
    BY <1>2, <1>5
  <2>3. \A x \in S : m[x] # NoEntry => m[x] \in S
    BY <1>1, <1>3, <1>4, <1>5
  <2>4. Way(g, m) \subseteq S
    <3> HIDE DEF S
    <3> QED
      BY <2>1, <2>2, <2>3, WayLeast
  <2> QED
    BY <2>4
<1>7. W \ {e} \subseteq Way(g, m)
  <2> DEFINE V == Way(g, m)
  <2>1. V \subseteq Entries /\ e \notin V
    BY <1>6, WayType
  <2>2. g # NoEntry => g \in V
    BY WayFirst DEF EntryOrNone
  <2>3. \A x \in V : m[x] # NoEntry => m[x] \in V
    BY WayNext
  <2>4. \A x \in V : x # p[e] /\ n[x] # NoEntry => n[x] \in V
    BY <2>1, <2>3
  <2>5. CASE f = e \/ p[e] \in V
    <3> DEFINE S == V \union {e}
    <3>1. S \in SUBSET Entries
      BY <1>1, <2>1
    <3>2. f \in S
      BY <2>2, <1>1
    <3>3. n[e] # NoEntry => n[e] \in S
      <4>1. CASE f = e
        BY <4>1, <2>2
      <4>2. CASE f # e /\ p[e] \in V
        <5>1. m[p[e]] = n[e]
          BY <4>2, <2>1
        <5> QED
          BY <5>1, <4>2, <2>3
      <4> QED
        BY <4>1, <4>2, <2>5
    <3>4. \A x \in V : x = p[e] => n[x] \in {e, NoEntry}
      <4> SUFFICES ASSUME p[e] \in V PROVE n[p[e]] \in {e, NoEntry}
        OBVIOUS
      <4>1. CASE f = e
        BY <4>1, <2>1
      <4>2. CASE f # e
        <5>1. PICK y \in W : n[y] = e
          BY <4>2, WayPrevious
        <5> QED
          BY <5>1, <1>4
      <4> QED
        BY <4>1, <4>2
    <3>5. \A x \in S : n[x] # NoEntry => n[x] \in S
      BY <3>3, <3>4, <2>4
    <3>6. W \subseteq S
      <4> HIDE DEF S
      <4> QED
        BY <3>1, <3>2, <3>5, WayLeast
    <3> QED
      BY <3>6
  <2>6. CASE f # e /\ p[e] \notin V
    <3>1. f \in V
      BY <2>6, <2>2, <1>1
    <3>2. \A x \in V : n[x] # NoEntry => n[x] \in V
      BY <2>4, <2>6
    <3>3. W \subseteq V
      BY <2>1, <3>1, <3>2, WayLeast
    <3> QED
      BY <3>3
  <2> QED
    BY <2>5, <2>6
<1> QED
  BY <1>6, <1>7

----------------------------------------------------------------------------
(* A thread is inside add exactly while it owns the table.                 *)
Owners == \A t \in Threads : mutex = t <=> pc[t] # "run"

(* What a thread inside add has made sure of, and how far its entry is.    *)
Building ==
  \A t \in Threads :
    /\ pc[t] # "run" => made /\ arg[t] \in Keys \X Values
    /\ tmp_r[t] = NoEntry <=> pc[t] \in {"run", "new"}
    /\ pc[t] \in {"new", "box", "link"} => \A e \in Linked : key[e] # arg[t][1]
    /\ pc[t] \in {"box", "link"} => tmp_r[t] \notin Linked
    /\ pc[t] = "link" => key[tmp_r[t]] = arg[t][1] /\ value[tmp_r[t]] = arg[t][2]
    /\ pc[t] = "count" => tmp_r[t] \in Linked

NoTable == ~made => \A b \in Buckets : first[b] = NoEntry

LinkedHaveValues == \A e \in Linked : value[e] \in Values

(* An entry is counted after it has been linked.                           *)
Counted ==
  made => Cardinality(Linked) = IF \E t \in Threads : pc[t] = "count"
                                THEN entryCount + 1 ELSE entryCount

Shape == BucketsWellLinked /\ OneEntryPerKey

IInv ==
  /\ TypeOK /\ Owners /\ Building /\ NoTable /\ LinkedHaveValues /\ Shape
  /\ EntriesNotFreed /\ Counted

LEMMA ChainType ==
  ASSUME TypeOK
  PROVE  /\ Linked \subseteq Entries
         /\ \A b \in Buckets : Chain(b) \subseteq Linked
BY WayType DEF Linked, Chain

(* What does not touch linked entries keeps the shape.                     *)
LEMMA ShapeSame ==
  ASSUME TypeOK, TypeOK', Shape, first' = first, last' = last,
         \A e \in Linked : next'[e] = next[e] /\ prev'[e] = prev[e] /\ key'[e] = key[e]
  PROVE  Linked' = Linked /\ Shape' /\ \A b \in Buckets : Chain(b)' = Chain(b)
<1>1. \A b \in Buckets : Chain(b)' = Chain(b)
  <2> SUFFICES ASSUME NEW b \in Buckets PROVE Way(first[b], next') = Way(first[b], next)
    BY DEF Chain
  <2>1. \A x \in Way(first[b], next) : next'[x] = next[x]
    BY ChainType DEF Chain
  <2>2. first[b] \in EntryOrNone /\ next \in [Entries -> EntryOrNone]
        /\ next' \in [Entries -> EntryOrNone]
    BY DEF TypeOK
  <2> QED
    BY <2>1, <2>2, WaySame
<1>2. Linked' = Linked
  BY <1>1 DEF Linked
<1>3. OneEntryPerKey'
  BY <1>2 DEF Shape, OneEntryPerKey
<1>4. BucketsWellLinked'
  <2> SUFFICES ASSUME NEW b \in Buckets
               PROVE  /\ WellLinked(b)'
                      /\ \A e \in Chain(b)' : key'[e] \in Keys /\ HashOf[key'[e]] = b
    BY DEF BucketsWellLinked
  <2>1. \A e \in Chain(b) : next'[e] = next[e] /\ prev'[e] = prev[e] /\ key'[e] = key[e]
    BY ChainType
  <2>2. WellLinked(b)
    BY DEF Shape, BucketsWellLinked
  <2>3. first[b] # NoEntry => first[b] \in Chain(b)
    BY WayFirst DEF TypeOK, Chain, EntryOrNone
  <2>4. \A e \in Chain(b) : next[e] # NoEntry => next[e] \in Chain(b)
    BY WayNext DEF TypeOK, Chain
  <2>5. WellLinked(b)'
    BY <1>1, <2>1, <2>2, <2>3, <2>4 DEF WellLinked
  <2> QED
    BY <1>1, <2>1, <2>5 DEF Shape, BucketsWellLinked
<1> QED
  BY <1>1, <1>2, <1>3, <1>4 DEF Shape

LEMMA LinkedFinite ==
  ASSUME TypeOK
  PROVE  IsFiniteSet(Linked)
BY EntriesAssumption, ChainType, FS_Subset

LEMMA InitInv == Init => IInv
<1> SUFFICES ASSUME Init PROVE IInv
  OBVIOUS
<1> USE NoAssumption DEF Init
<1>1. TypeOK
  BY DEF TypeOK, EntryOrNone
<1>2. \A b \in Buckets : Chain(b) = {}
  BY WayNone DEF Chain
<1>3. Linked = {}
  BY <1>2 DEF Linked
<1>4. Owners /\ Building /\ NoTable /\ LinkedHaveValues /\ Counted
  BY <1>3 DEF Owners, Building, NoTable, LinkedHaveValues, Counted
<1>5. Shape
  BY <1>2, <1>3 DEF Shape, BucketsWellLinked, WellLinked, OneEntryPerKey
<1>6. EntriesNotFreed
  BY <1>3 DEF EntriesNotFreed
<1> QED
  BY <1>1, <1>4, <1>5, <1>6 DEF IInv

(* Who is not found in the bucket of his hash is nowhere.                  *)
LEMMA MissingNotLinked ==
  ASSUME TypeOK, Shape, NEW k \in Keys, Missing(k), NEW e \in Linked
  PROVE  key[e] # k
<1>1. PICK b \in Buckets : e \in Chain(b)
  BY DEF Linked
<1>2. HashOf[key[e]] = b
  BY <1>1 DEF Shape, BucketsWellLinked
<1>3. key[e] = k => e \in Found(k)
  BY <1>1, <1>2, ChainType DEF Found
<1> QED
  BY <1>3 DEF Missing

LEMMA GetStep ==
  ASSUME IInv, NEW t \in Threads, NEW k \in Keys, Get(t, k)
  PROVE  IInv' /\ Linked' = Linked
<1> USE DEF IInv, Get
<1>1. TypeOK'
  <2>1. Stored[k] \in Values \union {NoValue}
    <3>1. Chain(HashOf[k]) \subseteq Linked
      BY ChainType, HashAssumption
    <3>2. ~Missing(k) => (CHOOSE e \in Found(k) : TRUE) \in Linked
      BY <3>1 DEF Missing, Found
    <3> QED
      BY <3>2 DEF Stored, LinkedHaveValues
  <2> QED
    BY <2>1 DEF TypeOK, thread, buckets, links, boxes
<1>2. Linked' = Linked /\ Shape'
  BY <1>1, ShapeSame DEF buckets, links, boxes
<1>3. Owners' /\ NoTable' /\ LinkedHaveValues' /\ EntriesNotFreed' /\ Counted'
  BY <1>2 DEF Owners, NoTable, LinkedHaveValues, EntriesNotFreed, Counted, thread, buckets, boxes
<1>4. Building'
  BY <1>2 DEF Building, thread, boxes
<1> QED
  BY <1>1, <1>2, <1>3, <1>4

LEMMA AddOverStep ==
  ASSUME IInv, NEW t \in Threads, NEW k \in Keys, NEW v \in Values, AddOver(t, k, v)
  PROVE  IInv' /\ Linked' = Linked
<1> USE DEF IInv, AddOver
<1>1. PICK e \in Found(k) : value' = [value EXCEPT ![e] = v]
  OBVIOUS
<1>2. e \in Linked /\ e \in Entries
  BY ChainType, HashAssumption DEF Found
<1>3. TypeOK'
  BY <1>1, <1>2 DEF TypeOK, thread, buckets, links
<1>4. Linked' = Linked /\ Shape'
  BY <1>3, ShapeSame DEF buckets, links
<1>5. Owners' /\ NoTable' /\ EntriesNotFreed' /\ Counted'
  BY <1>4 DEF Owners, NoTable, EntriesNotFreed, Counted, thread, buckets
<1>6. LinkedHaveValues'
  BY <1>1, <1>2, <1>4, ChainType DEF LinkedHaveValues, TypeOK
<1>7. Building'
  <2>1. \A u \in Threads : pc[u] = "link" => value'[tmp_r[u]] = value[tmp_r[u]]
    BY <1>1, <1>2 DEF Building, TypeOK
  <2> QED
    BY <1>4, <2>1 DEF Building, thread
<1> QED
  BY <1>3, <1>4, <1>5, <1>6, <1>7

LEMMA BeginAddStep ==
  ASSUME IInv, NEW t \in Threads, NEW k \in Keys, NEW v \in Values, BeginAdd(t, k, v)
  PROVE  IInv' /\ Linked' = Linked
<1> USE DEF IInv, BeginAdd
<1>1. TypeOK'
  BY DEF TypeOK, buckets, links, boxes
<1>2. Linked' = Linked /\ Shape'
  BY <1>1, ShapeSame DEF buckets, links, boxes
<1>3. NoTable' /\ LinkedHaveValues' /\ EntriesNotFreed'
  BY <1>2 DEF NoTable, LinkedHaveValues, EntriesNotFreed, buckets, boxes
<1>4. Owners'
  BY NoAssumption DEF Owners, Enters, TypeOK
<1>5. Counted'
  <2>1. (\E u \in Threads : pc'[u] = "count") <=> (\E u \in Threads : pc[u] = "count")
    BY DEF Enters, TypeOK
  <2> QED
    BY <1>2, <2>1 DEF Counted
<1>6. Building'
  <2>1. \A e \in Linked : key[e] # k
    BY MissingNotLinked
  <2> QED
    BY <1>2, <2>1 DEF Building, TypeOK, Enters, boxes
<1> QED
  BY <1>1, <1>2, <1>3, <1>4, <1>5, <1>6

LEMMA NewEntryStep ==
  ASSUME IInv, NEW t \in Threads, NewEntry(t)
  PROVE  IInv' /\ Linked' = Linked
<1> USE DEF IInv, NewEntry
<1>1. PICK e \in Entries \ allocated :
        /\ allocated' = allocated \union {e}
        /\ key' = [key EXCEPT ![e] = NoKey]
        /\ value' = [value EXCEPT ![e] = NoValue]
        /\ tmp_r' = [tmp_r EXCEPT ![t] = e]
  OBVIOUS
<1>2. TypeOK'
  BY <1>1 DEF TypeOK, buckets, links, EntryOrNone
<1>3. e \notin Linked
  BY <1>1 DEF EntriesNotFreed
<1>4. Linked' = Linked /\ Shape'
  BY <1>1, <1>2, <1>3, ShapeSame, ChainType DEF buckets, links, TypeOK
<1>5. NoTable' /\ LinkedHaveValues' /\ EntriesNotFreed'
  BY <1>1, <1>3, <1>4, ChainType DEF NoTable, LinkedHaveValues, EntriesNotFreed, buckets, TypeOK
<1>6. Owners'
  BY DEF Owners, TypeOK
<1>7. Counted'
  <2>1. (\E u \in Threads : pc'[u] = "count") <=> (\E u \in Threads : pc[u] = "count")
    BY DEF TypeOK
  <2> QED
    BY <1>4, <2>1 DEF Counted
<1>8. Building'
  <2>1. \A u \in Threads : u # t => pc[u] = "run"
    BY DEF Owners
  <2>2. \A x \in Linked : key'[x] = key[x]
    BY <1>1, <1>3, ChainType DEF TypeOK
  <2> QED
    BY <1>1, <1>3, <1>4, <2>1, <2>2, NoAssumption DEF Building, TypeOK
<1> QED
  BY <1>2, <1>4, <1>5, <1>6, <1>7, <1>8

LEMMA SetBoxesStep ==
  ASSUME IInv, NEW t \in Threads, SetBoxes(t)
  PROVE  IInv' /\ Linked' = Linked
<1> USE DEF IInv, SetBoxes
<1> DEFINE e == tmp_r[t]
<1>1. e \in Entries /\ e \notin Linked /\ arg[t] \in Keys \X Values
  BY DEF Building, TypeOK, EntryOrNone
<1>2. TypeOK'
  BY <1>1 DEF TypeOK, buckets, links
<1>3. \A x \in Linked : key'[x] = key[x] /\ value'[x] = value[x]
  BY <1>1, ChainType DEF TypeOK
<1>4. Linked' = Linked /\ Shape'
  BY <1>2, <1>3, ShapeSame DEF buckets, links
<1>5. NoTable' /\ LinkedHaveValues' /\ EntriesNotFreed'
  BY <1>3, <1>4 DEF NoTable, LinkedHaveValues, EntriesNotFreed, buckets
<1>6. Owners'
  BY DEF Owners, TypeOK
<1>7. Counted'
  <2>1. (\E u \in Threads : pc'[u] = "count") <=> (\E u \in Threads : pc[u] = "count")
    BY DEF TypeOK
  <2> QED
    BY <1>4, <2>1 DEF Counted
<1>8. Building'
  <2>1. \A u \in Threads : u # t => pc[u] = "run"
    BY DEF Owners
  <2> QED
    BY <1>1, <1>3, <1>4, <2>1 DEF Building, TypeOK
<1> QED
  BY <1>2, <1>4, <1>5, <1>6, <1>7, <1>8

LEMMA AddFailsStep ==
  ASSUME IInv, NEW t \in Threads, AddFails(t)
  PROVE  IInv' /\ Linked' = Linked
<1> USE DEF IInv, AddFails, Leave
<1>1. TypeOK'
  BY DEF TypeOK, buckets, links, boxes, EntryOrNone
<1>2. Linked' = Linked /\ Shape'
  BY <1>1, ShapeSame DEF buckets, links, boxes
<1>3. NoTable' /\ LinkedHaveValues' /\ EntriesNotFreed'
  BY <1>2 DEF NoTable, LinkedHaveValues, EntriesNotFreed, buckets, boxes, TypeOK
<1>4. Owners'
  BY NoAssumption DEF Owners, TypeOK
<1>5. Counted'
  <2>1. (\E u \in Threads : pc'[u] = "count") <=> (\E u \in Threads : pc[u] = "count")
    BY DEF TypeOK
  <2> QED
    BY <1>2, <2>1 DEF Counted
<1>6. Building'
  BY <1>2 DEF Building, TypeOK, boxes
<1> QED
  BY <1>1, <1>2, <1>3, <1>4, <1>5, <1>6

LEMMA CollectStep ==
  ASSUME IInv, Collect
  PROVE  IInv' /\ Linked' = Linked
<1> USE DEF IInv, Collect
<1>1. TypeOK'
  BY DEF TypeOK, buckets, thread, EntryOrNone
<1>2. \A e \in Linked \union {tmp_r[t] : t \in Threads} : e \in Entries =>
        next'[e] = next[e] /\ prev'[e] = prev[e] /\ key'[e] = key[e] /\ value'[e] = value[e]
  OBVIOUS
<1>3. Linked' = Linked /\ Shape'
  BY <1>1, <1>2, ShapeSame, ChainType DEF buckets
<1>4. NoTable' /\ LinkedHaveValues' /\ EntriesNotFreed' /\ Owners' /\ Counted'
  BY <1>2, <1>3, ChainType
  DEF NoTable, LinkedHaveValues, EntriesNotFreed, Owners, Counted, buckets, thread
<1>5. Building'
  <2>1. \A t \in Threads : pc[t] = "link" => tmp_r[t] \in Entries
    BY DEF Building, TypeOK, EntryOrNone
  <2> QED
    BY <1>2, <1>3, <2>1, ChainType DEF Building, thread
<1> QED
  BY <1>1, <1>3, <1>4, <1>5

LEMMA SetBucketCountStep ==
  ASSUME IInv, NEW t \in Threads, SetBucketCount(t)
  PROVE  IInv'
<1> USE DEF IInv, SetBucketCount
<1>1. TypeOK'
  BY DEF TypeOK, links, boxes, thread, EntryOrNone
<1>2. \A b \in Buckets : Chain(b)' = {}
  BY WayNone DEF Chain
<1>3. Linked' = {}
  BY <1>2 DEF Linked
<1>4. Shape'
  BY <1>2, <1>3 DEF Shape, BucketsWellLinked, WellLinked, OneEntryPerKey
<1>5. \A u \in Threads : pc[u] = "run"
  BY NoAssumption DEF Owners, Enters
<1>6. Owners' /\ Building' /\ NoTable' /\ LinkedHaveValues'
  BY <1>3, <1>5 DEF Owners, Building, NoTable, LinkedHaveValues, thread
<1>7. EntriesNotFreed'
  BY <1>3 DEF EntriesNotFreed, thread
<1>8. Counted'
  BY <1>3, <1>5, FS_EmptySet DEF Counted, thread
<1> QED
  BY <1>1, <1>4, <1>6, <1>7, <1>8

(* The linked entries of other buckets are not in this one.                *)
LEMMA OneBucket ==
  ASSUME TypeOK, Shape, NEW b \in Buckets, NEW c \in Buckets, b # c
  PROVE  Chain(b) \intersect Chain(c) = {}
BY DEF Shape, BucketsWellLinked

LEMMA LinkStep ==
  ASSUME IInv, NEW t \in Threads, Link(t)
  PROVE  IInv' /\ Linked' = Linked \union {tmp_r[t]}
<1> USE NoAssumption
<1>0. PICK b \in Buckets, e \in Entries : b = HashOf[arg[t][1]] /\ e = tmp_r[t]
  BY HashAssumption DEF IInv, Link, Building, TypeOK, EntryOrNone
<1>1. /\ e \in Entries /\ e \notin Linked /\ arg[t] \in Keys \X Values /\ HashOf[arg[t][1]] = b
      /\ key[e] = arg[t][1] /\ value[e] = arg[t][2] /\ made
      /\ \A x \in Linked : key[x] # key[e]
  BY <1>0 DEF IInv, Link, Building, TypeOK
<1>2. /\ pc[t] = "link" /\ pc' = [pc EXCEPT ![t] = "count"]
      /\ prev' = [prev EXCEPT ![e] = last[b]]
      /\ next' = [x \in Entries |-> IF x = e THEN NoEntry
                                    ELSE IF x = last[b] THEN e ELSE next[x]]
      /\ first' = [first EXCEPT ![b] = IF last[b] = NoEntry THEN e ELSE @]
      /\ last' = [last EXCEPT ![b] = e]
      /\ UNCHANGED <<mutex, made, key, value, entryCount, allocated, arg, tmp_r, answer>>
  BY <1>0 DEF Link, boxes
<1>3. TypeOK /\ TypeOK'
  BY <1>1, <1>2 DEF IInv, TypeOK, EntryOrNone
<1>4. WellLinked(b) /\ Shape
  BY DEF IInv, Shape, BucketsWellLinked
<1>5. Chain(b)' = Chain(b) \union {e}
  <2>1. /\ first[b] \in EntryOrNone /\ last[b] \in EntryOrNone
        /\ next \in [Entries -> EntryOrNone] /\ next' \in [Entries -> EntryOrNone]
        /\ first'[b] \in EntryOrNone
    BY <1>1, <1>3 DEF TypeOK
  <2>2. first'[b] = (IF last[b] = NoEntry THEN e ELSE first[b])
    BY <1>1, <1>2, <1>3 DEF TypeOK
  <2>3. e \notin Way(first[b], next)
    BY <1>1, <1>3, ChainType DEF Chain
  <2>4. /\ (first[b] = NoEntry) <=> (last[b] = NoEntry)
        /\ last[b] # NoEntry => next[last[b]] = NoEntry /\ last[b] \in Way(first[b], next)
    BY <1>4 DEF WellLinked, Chain
  <2>5. Way(first'[b], next') = Way(first[b], next) \union {e}
    <3>1. \A x \in Entries :
            next'[x] = (IF x = e THEN NoEntry ELSE IF x = last[b] THEN e ELSE next[x])
      BY <1>2
    <3> QED
      <4> DEFINE f == first[b]
                 l == last[b]
                 g == first'[b]
                 n == next
                 m == next'
      <4>1. /\ f \in EntryOrNone /\ l \in EntryOrNone /\ g \in EntryOrNone
            /\ n \in [Entries -> EntryOrNone] /\ m \in [Entries -> EntryOrNone]
            /\ (f = NoEntry) <=> (l = NoEntry)
            /\ l # NoEntry => n[l] = NoEntry /\ l \in Way(f, n)
            /\ e \notin Way(f, n)
            /\ g = (IF l = NoEntry THEN e ELSE f)
            /\ \A x \in Entries : m[x] = (IF x = e THEN NoEntry ELSE IF x = l THEN e ELSE n[x])
        BY <2>1, <2>2, <2>3, <2>4, <3>1
      <4> HIDE DEF f, l, g, n, m
      <4>2. Way(g, m) = Way(f, n) \union {e}
        BY <4>1, WayAppend
      <4> QED
        BY <4>2 DEF f, g, n, m
  <2> QED
    BY <2>5 DEF Chain
<1>6. ASSUME NEW c \in Buckets, c # b
      PROVE  /\ Chain(c)' = Chain(c)
             /\ \A x \in Chain(c) : x # e /\ x # last[b] /\ next'[x] = next[x] /\ prev'[x] = prev[x]
             /\ first'[c] = first[c] /\ last'[c] = last[c]
  <2>1. \A x \in Chain(c) : x \in Entries /\ x # e /\ x # last[b]
    <3>1. Chain(c) \subseteq Linked /\ Linked \subseteq Entries
      BY <1>3, ChainType
    <3>2. last[b] # NoEntry => last[b] \in Chain(b)
      BY <1>4 DEF WellLinked
    <3> QED
      BY <1>1, <1>3, <1>4, <1>6, <3>1, <3>2, OneBucket
  <2>2. \A x \in Chain(c) : next'[x] = next[x] /\ prev'[x] = prev[x]
    BY <1>1, <1>2, <1>3, <2>1 DEF TypeOK
  <2>3. first'[c] = first[c] /\ last'[c] = last[c]
    BY <1>2, <1>3, <1>6 DEF TypeOK
  <2>4. Way(first[c], next') = Way(first[c], next)
    <3>1. /\ first[c] \in EntryOrNone
          /\ next \in [Entries -> EntryOrNone] /\ next' \in [Entries -> EntryOrNone]
      BY <1>3 DEF TypeOK
    <3> QED
      BY <2>2, <3>1, WaySame DEF Chain
  <2> QED
    BY <2>1, <2>2, <2>3, <2>4 DEF Chain
<1>7. Linked' = Linked \union {e}
  BY <1>1, <1>5, <1>6 DEF Linked
<1>8. OneEntryPerKey'
  BY <1>1, <1>2, <1>4, <1>7 DEF Shape, OneEntryPerKey
<1>9. BucketsWellLinked'
  <2> SUFFICES ASSUME NEW c \in Buckets
               PROVE  WellLinked(c)' /\ \A x \in Chain(c)' : key'[x] \in Keys /\ HashOf[key'[x]] = c
    BY DEF BucketsWellLinked
  <2>1. /\ WellLinked(c) /\ \A x \in Chain(c) : key[x] \in Keys /\ HashOf[key[x]] = c
        /\ first[c] # NoEntry => first[c] \in Chain(c)
        /\ \A x \in Chain(c) : next[x] # NoEntry => next[x] \in Chain(c)
    <3>1. WellLinked(c) /\ \A x \in Chain(c) : key[x] \in Keys /\ HashOf[key[x]] = c
      BY <1>4 DEF Shape, BucketsWellLinked
    <3>2. first[c] # NoEntry => first[c] \in Chain(c)
      BY <1>3, WayFirst DEF TypeOK, Chain, EntryOrNone
    <3>3. \A x \in Chain(c) : next[x] # NoEntry => next[x] \in Chain(c)
      BY <1>3, WayNext DEF TypeOK, Chain
    <3> QED
      BY <3>1, <3>2, <3>3
  <2>2. CASE c # b
    <3>1. WellLinked(c)'
      BY <1>6, <2>1, <2>2 DEF WellLinked
    <3> QED
      BY <1>2, <1>6, <2>1, <2>2, <3>1
  <2>3. CASE c = b
    <3>1. \A x \in Chain(b)' : key'[x] \in Keys /\ HashOf[key'[x]] = b
      BY <1>1, <1>2, <1>5, <2>1, <2>3
    <3>2. /\ first'[b] = (IF last[b] = NoEntry THEN e ELSE first[b]) /\ last'[b] = e
          /\ prev'[e] = last[b] /\ next'[e] = NoEntry
      BY <1>1, <1>2, <1>3 DEF TypeOK
    <3>3. \A x \in Chain(b) :
            /\ x # e /\ x \in Entries /\ prev'[x] = prev[x]
            /\ next'[x] = (IF x = last[b] THEN e ELSE next[x])
      BY <1>1, <1>2, <1>3, ChainType DEF TypeOK
    <3>4. WellLinked(b)'
      BY <1>1, <1>4, <1>5, <2>1, <2>3, <3>2, <3>3 DEF WellLinked
    <3> QED
      BY <2>3, <3>1, <3>4
  <2> QED
    BY <2>2, <2>3
<1>10. NoTable' /\ LinkedHaveValues' /\ EntriesNotFreed'
  BY <1>0, <1>1, <1>2, <1>3, <1>7 DEF IInv, NoTable, LinkedHaveValues, EntriesNotFreed, TypeOK
<1>11. Owners'
  BY <1>2, <1>3 DEF IInv, Owners, TypeOK
<1>12. \A u \in Threads : u # t => pc[u] = "run"
  BY <1>2 DEF IInv, Owners
<1>13. Counted'
  <2>1. Cardinality(Linked) = entryCount
    BY <1>1, <1>2, <1>12 DEF IInv, Counted
  <2>2. Cardinality(Linked') = entryCount + 1
    BY <1>1, <1>3, <1>7, <2>1, LinkedFinite, FS_AddElement
  <2>3. pc'[t] = "count"
    BY <1>2, <1>3 DEF TypeOK
  <2> QED
    BY <1>2, <2>2, <2>3 DEF Counted
<1>14. Building'
  BY <1>0, <1>1, <1>2, <1>3, <1>7, <1>12 DEF IInv, Building, TypeOK
<1> QED
  BY <1>0, <1>3, <1>7, <1>8, <1>9, <1>10, <1>11, <1>13, <1>14 DEF IInv, Shape

LEMMA EndAddStep ==
  ASSUME IInv, NEW t \in Threads, EndAdd(t)
  PROVE  IInv' /\ Linked' = Linked
<1> USE DEF IInv, EndAdd, Leave
<1>1. TypeOK'
  BY DEF TypeOK, buckets, links, boxes, EntryOrNone
<1>2. Linked' = Linked /\ Shape'
  BY <1>1, ShapeSame DEF buckets, links, boxes
<1>3. NoTable' /\ LinkedHaveValues' /\ EntriesNotFreed'
  BY <1>2 DEF NoTable, LinkedHaveValues, EntriesNotFreed, buckets, boxes, TypeOK
<1>4. Owners'
  BY NoAssumption DEF Owners, TypeOK
<1>5. \A u \in Threads : pc'[u] = "run"
  BY DEF Owners, TypeOK
<1>6. Counted'
  BY <1>2, <1>5 DEF Counted
<1>7. Building'
  BY <1>2, <1>5 DEF Building, TypeOK, boxes
<1> QED
  BY <1>1, <1>2, <1>3, <1>4, <1>6, <1>7

LEMMA DelStep ==
  ASSUME IInv, NEW t \in Threads, NEW k \in Keys, Del(t, k)
  PROVE  IInv' /\ \E e \in Found(k) : Linked' = Linked \ {e}
<1> USE NoAssumption
<1> DEFINE b == HashOf[k]
<1>0. PICK e \in Found(k) :
        /\ first' = [first EXCEPT ![b] = IF @ = e THEN next[e] ELSE @]
        /\ last' = [last EXCEPT ![b] = IF @ = e THEN prev[e] ELSE @]
        /\ next' = [x \in Entries |-> IF x = e THEN NoEntry
                                      ELSE IF x = prev[e] THEN next[e] ELSE next[x]]
        /\ prev' = [x \in Entries |-> IF x = e THEN NoEntry
                                      ELSE IF x = next[e] THEN prev[e] ELSE prev[x]]
  BY DEF Del
<1>1. /\ made /\ entryCount' = entryCount - 1
      /\ UNCHANGED <<mutex, made, key, value, allocated, pc, arg, tmp_r, answer>>
  BY DEF Del, boxes, thread
<1>2. TypeOK /\ Shape /\ b \in Buckets /\ e \in Chain(b) /\ e \in Linked /\ e \in Entries
  BY HashAssumption, ChainType DEF IInv, Found
<1>3. \A u \in Threads : pc[u] = "run"
  BY DEF IInv, Owners, Del, Enters
<1> HIDE DEF b
<1>4. /\ WellLinked(b) /\ \A x \in Chain(b) : key[x] \in Keys /\ HashOf[key[x]] = b
      /\ first[b] # NoEntry /\ first[b] \in Chain(b) /\ Chain(b) \subseteq Entries
  BY <1>2, WayFirst, WayNone, WayType
  DEF Shape, BucketsWellLinked, TypeOK, Chain, EntryOrNone
<1>5. \A x \in Chain(b) : next[x] # NoEntry => next[x] \in Chain(b) /\ prev[next[x]] = x
  BY <1>2, <1>4, WayNext DEF WellLinked, TypeOK, Chain
<1>6. \A x \in Chain(b) : next[x] = e => x = prev[e] /\ x # e /\ first[b] # e
  <2>1. /\ first[b] \in EntryOrNone /\ next \in [Entries -> EntryOrNone]
        /\ prev \in [Entries -> EntryOrNone]
    BY <1>2 DEF TypeOK
  <2>2. prev[first[b]] = NoEntry
    BY <1>4 DEF WellLinked
  <2> QED
    BY <1>2, <1>5, <2>1, <2>2, WayBack DEF Chain
<1>7. IF first[b] = e THEN prev[e] = NoEntry
      ELSE prev[e] \in Chain(b) /\ next[prev[e]] = e /\ prev[e] # e
  <2>1. CASE first[b] = e
    BY <2>1, <1>4 DEF WellLinked
  <2>2. CASE first[b] # e
    <3>1. PICK x \in Chain(b) : next[x] = e
      BY <2>2, <1>2, WayPrevious DEF TypeOK, Chain
    <3> QED
      BY <2>2, <3>1, <1>6
  <2> QED
    BY <2>1, <2>2
<1>8. next[e] # NoEntry => next[e] # e
  BY <1>2, <1>6
<1>9. next[e] = NoEntry <=> e = last[b]
  BY <1>2, <1>4 DEF WellLinked
<1>10. Cardinality(Linked) = entryCount /\ entryCount # 0 /\ entryCount \in Nat
  <2>1. Cardinality(Linked) = entryCount
    BY <1>1, <1>3 DEF IInv, Counted
  <2>2. Cardinality(Linked) # 0
    BY <1>2, LinkedFinite, FS_EmptySet
  <2> QED
    BY <2>1, <2>2, <1>2 DEF TypeOK
<1>11. TypeOK'
  BY <1>0, <1>1, <1>2, <1>10 DEF TypeOK, EntryOrNone
<1>12. Chain(b)' = Chain(b) \ {e}
  <2> DEFINE f == first[b]
             g == first'[b]
             n == next
             m == next'
             p == prev
  <2>1. /\ f \in EntryOrNone /\ g \in EntryOrNone /\ n \in [Entries -> EntryOrNone]
        /\ m \in [Entries -> EntryOrNone] /\ p \in [Entries -> EntryOrNone]
    BY <1>2, <1>11 DEF TypeOK
  <2>2. /\ e \in Way(f, n) /\ p[f] = NoEntry
        /\ \A x \in Way(f, n) : n[x] # NoEntry => p[n[x]] = x
    BY <1>2, <1>4, <1>5 DEF WellLinked, Chain
  <2>3. g = (IF f = e THEN n[e] ELSE f)
    BY <1>0, <1>2 DEF TypeOK, b
  <2>4. \A x \in Entries :
          m[x] = (IF x = e THEN NoEntry ELSE IF x = p[e] THEN n[e] ELSE n[x])
    BY <1>0
  <2> HIDE DEF f, g, n, m, p
  <2>5. Unlinks(e, f, n, g, m, p)
    BY ONLY <2>1, <2>2, <2>3, <2>4 DEF Unlinks
  <2>6. Way(g, m) = Way(f, n) \ {e}
    BY ONLY <2>5, WayRemove
  <2> QED
    BY <2>6 DEF Chain, f, g, n, m
<1>13. ASSUME NEW c \in Buckets, c # b
       PROVE  /\ Chain(c)' = Chain(c)
              /\ \A x \in Chain(c) : next'[x] = next[x] /\ prev'[x] = prev[x]
              /\ first'[c] = first[c] /\ last'[c] = last[c] /\ e \notin Chain(c)
  <2>1. \A x \in Chain(c) : x \in Entries /\ x \notin Chain(b)
    BY <1>2, <1>13, OneBucket, ChainType
  <2>2. \A x \in Chain(c) : x # e /\ x # prev[e] /\ x # next[e]
    BY <2>1, <1>2, <1>5, <1>7
  <2>3. \A x \in Chain(c) : next'[x] = next[x] /\ prev'[x] = prev[x]
    BY <1>0, <2>1, <2>2
  <2>4. first'[c] = first[c] /\ last'[c] = last[c]
    BY <1>0, <1>2, <1>13 DEF TypeOK, b
  <2>5. Way(first[c], next') = Way(first[c], next)
    <3>1. /\ first[c] \in EntryOrNone
          /\ next \in [Entries -> EntryOrNone] /\ next' \in [Entries -> EntryOrNone]
      BY <1>2, <1>11 DEF TypeOK
    <3> QED
      BY <2>3, <3>1, WaySame DEF Chain
  <2> QED
    BY <2>2, <2>3, <2>4, <2>5 DEF Chain
<1>14. Linked' = Linked \ {e}
  BY <1>2, <1>12, <1>13 DEF Linked
<1>15. WellLinked(b)'
  <2>1. /\ first'[b] = (IF first[b] = e THEN next[e] ELSE first[b])
        /\ last'[b] = (IF last[b] = e THEN prev[e] ELSE last[b])
    BY <1>0, <1>2 DEF TypeOK, b
  <2>2. \A x \in Entries :
          /\ next'[x] = (IF x = e THEN NoEntry ELSE IF x = prev[e] THEN next[e] ELSE next[x])
          /\ prev'[x] = (IF x = e THEN NoEntry ELSE IF x = next[e] THEN prev[e] ELSE prev[x])
    BY <1>0
  <2>3. /\ last[b] # NoEntry /\ last[b] \in Chain(b) /\ next[last[b]] = NoEntry
        /\ prev[first[b]] = NoEntry
        /\ \A x \in Chain(b) : next[x] = NoEntry => x = last[b]
    BY <1>4 DEF WellLinked
  <2>4. (first'[b] = NoEntry) <=> (last'[b] = NoEntry)
    BY <1>2, <1>4, <1>7, <1>9, <2>1, <2>3
  <2>5. first'[b] # NoEntry => prev'[first'[b]] = NoEntry
    BY <1>2, <1>4, <1>5, <1>7, <1>8, <2>1, <2>2, <2>3
  <2>6. last'[b] # NoEntry => next'[last'[b]] = NoEntry /\ last'[b] \in Chain(b)'
    BY <1>2, <1>4, <1>7, <1>9, <1>12, <2>1, <2>2, <2>3
  <2>7. ASSUME NEW x \in Chain(b)'
        PROVE  /\ next'[x] # NoEntry => prev'[next'[x]] = x
               /\ next'[x] = NoEntry => x = last'[b]
    <3>1. x \in Chain(b) /\ x # e /\ x \in Entries
      BY <1>4, <1>12, <2>7
    <3>2. CASE x = prev[e]
      <4>1. next'[x] = next[e]
        BY <3>1, <3>2, <2>2
      <4>2. next[e] # NoEntry => prev'[next[e]] = x
        BY <1>2, <1>4, <1>5, <1>8, <2>2, <3>2
      <4>3. next[e] = NoEntry => last'[b] = x
        BY <1>9, <2>1, <3>2
      <4> QED
        BY <4>1, <4>2, <4>3
    <3>3. CASE x # prev[e]
      <4>1. next'[x] = next[x]
        BY <3>1, <3>3, <2>2
      <4>2. next[x] # NoEntry => prev'[next[x]] = x
        <5> SUFFICES ASSUME next[x] # NoEntry PROVE prev'[next[x]] = x
          OBVIOUS
        <5>1. next[x] \in Entries /\ prev[next[x]] = x /\ next[x] # e
          BY <1>4, <1>5, <1>6, <3>1, <3>3
        <5>2. next[x] # next[e]
          BY <1>2, <1>5, <3>1, <5>1
        <5> QED
          BY <2>2, <5>1, <5>2
      <4>3. next[x] = NoEntry => x = last'[b]
        BY <2>1, <2>3, <3>1
      <4> QED
        BY <4>1, <4>2, <4>3
    <3> QED
      BY <3>2, <3>3
  <2> QED
    BY <2>4, <2>5, <2>6, <2>7 DEF WellLinked
<1>16. BucketsWellLinked'
  <2> SUFFICES ASSUME NEW c \in Buckets
               PROVE  WellLinked(c)' /\ \A x \in Chain(c)' : key'[x] \in Keys /\ HashOf[key'[x]] = c
    BY DEF BucketsWellLinked
  <2>1. CASE c = b
    BY <2>1, <1>1, <1>4, <1>12, <1>15
  <2>2. CASE c # b
    <3>1. WellLinked(c) /\ \A x \in Chain(c) : key[x] \in Keys /\ HashOf[key[x]] = c
      BY <1>2 DEF Shape, BucketsWellLinked
    <3>2. first[c] # NoEntry => first[c] \in Chain(c)
      BY <1>2, WayFirst DEF TypeOK, Chain, EntryOrNone
    <3>3. \A x \in Chain(c) : next[x] # NoEntry => next[x] \in Chain(c)
      BY <1>2, WayNext DEF TypeOK, Chain
    <3>4. WellLinked(c)'
      BY <1>13, <2>2, <3>1, <3>2, <3>3 DEF WellLinked
    <3> QED
      BY <1>1, <1>13, <2>2, <3>1, <3>4
  <2> QED
    BY <2>1, <2>2
<1>17. OneEntryPerKey'
  BY <1>1, <1>2, <1>14 DEF Shape, OneEntryPerKey
<1>18. Owners' /\ NoTable' /\ LinkedHaveValues' /\ EntriesNotFreed'
  BY <1>1, <1>14 DEF IInv, Owners, NoTable, LinkedHaveValues, EntriesNotFreed
<1>19. Building'
  BY <1>1, <1>3 DEF IInv, Building
<1>20. Counted'
  <2>1. Cardinality(Linked') = entryCount - 1
    BY <1>2, <1>10, <1>14, LinkedFinite, FS_RemoveElement
  <2> QED
    BY <1>1, <1>3, <2>1 DEF Counted
<1> QED
  BY <1>11, <1>14, <1>16, <1>17, <1>18, <1>19, <1>20 DEF IInv, Shape

LEMMA StepInv == IInv /\ [Next]_vars => IInv'
<1> SUFFICES ASSUME IInv, [Next]_vars PROVE IInv'
  OBVIOUS
<1>1. ASSUME NEW t \in Threads, NEW k \in Keys, Get(t, k) PROVE IInv'
  BY <1>1, GetStep
<1>2. ASSUME NEW t \in Threads, NEW k \in Keys, Del(t, k) PROVE IInv'
  BY <1>2, DelStep
<1>3. ASSUME NEW t \in Threads, NEW k \in Keys, NEW v \in Values, AddOver(t, k, v) PROVE IInv'
  BY <1>3, AddOverStep
<1>4. ASSUME NEW t \in Threads, NEW k \in Keys, NEW v \in Values, BeginAdd(t, k, v) PROVE IInv'
  BY <1>4, BeginAddStep
<1>5. ASSUME NEW t \in Threads, NewEntry(t) PROVE IInv'
  BY <1>5, NewEntryStep
<1>6. ASSUME NEW t \in Threads, SetBoxes(t) PROVE IInv'
  BY <1>6, SetBoxesStep
<1>7. ASSUME NEW t \in Threads, AddFails(t) PROVE IInv'
  BY <1>7, AddFailsStep
<1>8. ASSUME NEW t \in Threads, Link(t) PROVE IInv'
  BY <1>8, LinkStep
<1>9. ASSUME NEW t \in Threads, EndAdd(t) PROVE IInv'
  BY <1>9, EndAddStep
<1>10. ASSUME NEW t \in Threads, SetBucketCount(t) PROVE IInv'
  BY <1>10, SetBucketCountStep
<1>11. CASE Collect
  BY <1>11, CollectStep
<1>12. CASE UNCHANGED vars
  <2> USE <1>12 DEF vars, buckets, links, boxes, thread, IInv
  <2>1. TypeOK'
    BY DEF TypeOK
  <2>2. Linked' = Linked /\ Shape'
    BY <2>1, ShapeSame
  <2> QED
    BY <2>1, <2>2
    DEF Owners, Building, NoTable, LinkedHaveValues, EntriesNotFreed, Counted
<1> QED
  BY <1>1, <1>2, <1>3, <1>4, <1>5, <1>6, <1>7, <1>8, <1>9, <1>10, <1>11, <1>12 DEF Next

LEMMA Invariance == Spec => []IInv
BY InitInv, StepInv, PTL DEF Spec

(* The state keeps its types; that entry_count never falls below zero      *)
(* needs that it counts the linked entries (hash_table.hpp:229, 253).      *)
THEOREM TypeCorrect == Spec => []TypeOK
<1>1. IInv => TypeOK
  BY DEF IInv
<1> QED
  BY <1>1, Invariance, PTL

(* Every bucket is a list in both directions (hash_table.hpp:217-226,      *)
(* 243-254), whatever was added and deleted and collected before.          *)
THEOREM ListsSafe == Spec => []BucketsWellLinked
<1>1. IInv => BucketsWellLinked
  BY DEF IInv, Shape
<1> QED
  BY <1>1, Invariance, PTL

(* A key has one entry (hash_table.hpp:195-202).                           *)
THEOREM KeysSafe == Spec => []OneEntryPerKey
<1>1. IInv => OneEntryPerKey
  BY DEF IInv, Shape
<1> QED
  BY <1>1, Invariance, PTL

(* No collection frees an entry that is linked or being built              *)
(* (hash_table.hpp:203-228).                                               *)
THEOREM EntriesSafe == Spec => []EntriesNotFreed
<1>1. IInv => EntriesNotFreed
  BY DEF IInv
<1> QED
  BY <1>1, Invariance, PTL

(* size() tells the number of linked entries (hash_table.hpp:229, 253).    *)
THEOREM CountSafe == Spec => []CountIsRight
<1>1. IInv => CountIsRight
  BY DEF IInv, Counted, CountIsRight
<1> QED
  BY <1>1, Invariance, PTL

----------------------------------------------------------------------------
(* What is stored, told by the linked entries.                             *)
StoredByEntries ==
  /\ \A e \in Linked : made => key[e] \in Keys /\ Stored[key[e]] = value[e]
  /\ \A k \in Keys : (\A e \in Linked : key[e] # k) => Stored[k] = NoValue
  /\ ~made => \A k \in Keys : Stored[k] = NoValue
  /\ Stored = [k \in Keys |-> Stored[k]]

LEMMA StoredIs == IInv => StoredByEntries
<1> SUFFICES ASSUME IInv PROVE StoredByEntries
  OBVIOUS
<1> USE DEF IInv
<1>1. ASSUME NEW e \in Linked, made PROVE key[e] \in Keys /\ Stored[key[e]] = value[e]
  <2>1. PICK b \in Buckets : e \in Chain(b)
    BY DEF Linked
  <2>2. key[e] \in Keys /\ HashOf[key[e]] = b
    BY <2>1 DEF Shape, BucketsWellLinked
  <2>3. e \in Found(key[e])
    BY <2>1, <2>2 DEF Found
  <2>4. \A x \in Found(key[e]) : x = e
    BY <2>1, <2>2, ChainType DEF Found, Shape, OneEntryPerKey
  <2>5. (CHOOSE x \in Found(key[e]) : TRUE) = e
    BY <2>3, <2>4
  <2> QED
    BY <1>1, <2>2, <2>3, <2>5 DEF Stored, Missing
<1>2. ASSUME NEW k \in Keys, \A e \in Linked : key[e] # k PROVE Stored[k] = NoValue
  <2>1. Missing(k)
    BY <1>2, ChainType, HashAssumption DEF Missing, Found
  <2> QED
    BY <2>1 DEF Stored
<1>3. ASSUME ~made, NEW k \in Keys PROVE Stored[k] = NoValue
  BY <1>3 DEF Stored
<1>4. Stored = [k \in Keys |-> Stored[k]]
  BY DEF Stored
<1> QED
  BY ONLY <1>1, <1>2, <1>3, <1>4 DEF StoredByEntries

LEMMA StoredSame ==
  ASSUME IInv, StoredByEntries, StoredByEntries', Linked' = Linked, made' = made,
         \A e \in Linked : key'[e] = key[e] /\ value'[e] = value[e]
  PROVE  Stored' = Stored
<1>1. ASSUME NEW k \in Keys PROVE Stored'[k] = Stored[k]
  <2>1. CASE made /\ \E e \in Linked : key[e] = k
    BY <2>1 DEF StoredByEntries
  <2>2. CASE ~made \/ \A e \in Linked : key[e] # k
    BY <2>2 DEF StoredByEntries
  <2> QED
    BY <2>1, <2>2
<1>2. Stored = [k \in Keys |-> Stored[k]] /\ Stored' = [k \in Keys |-> Stored'[k]]
  BY DEF StoredByEntries
<1> QED
  BY <1>1, <1>2

LEMMA MapInit == Init => Map!Init
BY DEF Init, Map!Init, Map!Empty, Stored

LEMMA GetMap ==
  ASSUME IInv, NEW t \in Threads, NEW k \in Keys, Get(t, k),
         StoredByEntries, StoredByEntries'
  PROVE  Map!Get(t, k)
<1>1. Stored' = Stored
  BY GetStep, StoredSame DEF Get, boxes
<1> QED
  BY <1>1 DEF Get, Map!Get

LEMMA AddOverMap ==
  ASSUME IInv, NEW t \in Threads, NEW k \in Keys, NEW v \in Values, AddOver(t, k, v),
         StoredByEntries, StoredByEntries'
  PROVE  Map!Add(k, v)
<1>1. PICK e \in Found(k) : value' = [value EXCEPT ![e] = v]
  BY DEF AddOver
<1>2. /\ e \in Linked /\ e \in Entries /\ key[e] = k /\ Linked' = Linked /\ Linked \subseteq Entries
      /\ made /\ made' = made /\ key' = key /\ answer' = answer
  BY AddOverStep, ChainType, HashAssumption DEF IInv, Found, AddOver
<1>3. \A x \in Linked : value'[x] = (IF x = e THEN v ELSE value[x])
  BY <1>1, <1>2 DEF IInv, TypeOK
<1>4. \A x \in Linked : key[x] = k => x = e
  BY <1>2 DEF IInv, Shape, OneEntryPerKey
<1>5. Stored'[k] = v
  BY <1>2, <1>3 DEF StoredByEntries
<1>6. ASSUME NEW j \in Keys, j # k PROVE Stored'[j] = Stored[j]
  <2>1. CASE \E x \in Linked : key[x] = j
    BY <1>2, <1>3, <1>6, <2>1 DEF StoredByEntries
  <2>2. CASE \A x \in Linked : key[x] # j
    BY <1>2, <2>2 DEF StoredByEntries
  <2> QED
    BY <2>1, <2>2
<1>7. Stored' = [Stored EXCEPT ![k] = v]
  <2>1. Stored = [j \in Keys |-> Stored[j]] /\ Stored' = [j \in Keys |-> Stored'[j]]
    BY DEF StoredByEntries
  <2> QED
    BY <1>5, <1>6, <2>1
<1> QED
  BY <1>2, <1>7 DEF Map!Add

LEMMA LinkMap ==
  ASSUME IInv, NEW t \in Threads, Link(t), StoredByEntries, StoredByEntries'
  PROVE  \E k \in Keys, v \in Values : Map!Add(k, v)
<1>1. PICK k \in Keys, v \in Values, e \in Entries : arg[t] = <<k, v>> /\ e = tmp_r[t]
  BY NoAssumption DEF IInv, Link, Building, TypeOK, EntryOrNone
<1>2. /\ key[e] = k /\ value[e] = v /\ Linked' = Linked \union {e}
      /\ made /\ made' = made /\ key' = key /\ value' = value /\ answer' = answer
      /\ \A x \in Linked : key[x] # k
  <2>1. Linked' = Linked \union {tmp_r[t]}
    BY LinkStep
  <2>2. pc[t] = "link" /\ made' = made /\ key' = key /\ value' = value /\ answer' = answer
    BY DEF Link, boxes
  <2>3. /\ key[e] = k /\ value[e] = v /\ made
        /\ \A x \in Linked : key[x] # k
    BY <1>1, <2>2 DEF IInv, Building
  <2> QED
    BY <1>1, <2>1, <2>2, <2>3
<1>3. Stored'[k] = v
  BY <1>2 DEF StoredByEntries
<1>4. ASSUME NEW j \in Keys, j # k PROVE Stored'[j] = Stored[j]
  <2>1. CASE \E x \in Linked : key[x] = j
    BY <1>2, <1>4, <2>1 DEF StoredByEntries
  <2>2. CASE \A x \in Linked : key[x] # j
    BY <1>2, <1>4, <2>2 DEF StoredByEntries
  <2> QED
    BY <2>1, <2>2
<1>5. Stored' = [Stored EXCEPT ![k] = v]
  <2>1. Stored = [j \in Keys |-> Stored[j]] /\ Stored' = [j \in Keys |-> Stored'[j]]
    BY DEF StoredByEntries
  <2> QED
    BY <1>3, <1>4, <2>1
<1> QED
  BY <1>2, <1>5 DEF Map!Add

LEMMA DelMap ==
  ASSUME IInv, NEW t \in Threads, NEW k \in Keys, Del(t, k),
         StoredByEntries, StoredByEntries'
  PROVE  Map!Del(k)
<1>1. PICK e \in Found(k) : Linked' = Linked \ {e}
  BY DelStep
<1>2. /\ e \in Linked /\ key[e] = k /\ made /\ made' = made
      /\ key' = key /\ value' = value /\ answer' = answer
  BY ChainType, HashAssumption DEF IInv, Found, Del, boxes
<1>3. \A x \in Linked' : key[x] # k
  BY <1>1, <1>2 DEF IInv, Shape, OneEntryPerKey
<1>4. Stored'[k] = NoValue
  BY <1>2, <1>3 DEF StoredByEntries
<1>5. ASSUME NEW j \in Keys, j # k PROVE Stored'[j] = Stored[j]
  <2>1. CASE \E x \in Linked : key[x] = j
    BY <1>1, <1>2, <1>5, <2>1 DEF StoredByEntries
  <2>2. CASE \A x \in Linked : key[x] # j
    BY <1>1, <1>2, <2>2 DEF StoredByEntries
  <2> QED
    BY <2>1, <2>2
<1>6. Stored' = [Stored EXCEPT ![k] = NoValue]
  <2>1. Stored = [j \in Keys |-> Stored[j]] /\ Stored' = [j \in Keys |-> Stored'[j]]
    BY DEF StoredByEntries
  <2> QED
    BY <1>4, <1>5, <2>1
<1> QED
  BY <1>2, <1>6 DEF Map!Del

LEMMA ClearMap ==
  ASSUME IInv, NEW t \in Threads, SetBucketCount(t), StoredByEntries'
  PROVE  Map!Clear
<1>1. Linked' = {}
  BY WayNone DEF SetBucketCount, Linked, Chain
<1>2. Stored' = [k \in Keys |-> NoValue]
  <2>1. \A k \in Keys : Stored'[k] = NoValue
    BY <1>1 DEF StoredByEntries
  <2>2. Stored' = [k \in Keys |-> Stored'[k]]
    BY DEF StoredByEntries
  <2> QED
    BY <2>1, <2>2
<1> QED
  BY <1>2 DEF Map!Clear, Map!Empty, SetBucketCount

LEMMA MapStep ==
  IInv /\ StoredByEntries /\ StoredByEntries' /\ [Next]_vars => [Map!Next]_Map!vars
<1> SUFFICES ASSUME IInv, StoredByEntries, StoredByEntries', [Next]_vars
             PROVE  [Map!Next]_Map!vars
  OBVIOUS
<1> USE DEF Map!Next, Map!vars
<1>1. ASSUME NEW t \in Threads, NEW k \in Keys, Get(t, k) PROVE Map!Next
  BY <1>1, GetMap
<1>2. ASSUME NEW t \in Threads, NEW k \in Keys, Del(t, k) PROVE Map!Next
  BY <1>2, DelMap
<1>3. ASSUME NEW t \in Threads, NEW k \in Keys, NEW v \in Values, AddOver(t, k, v) PROVE Map!Next
  BY <1>3, AddOverMap
<1>4. ASSUME NEW t \in Threads, Link(t) PROVE Map!Next
  BY <1>4, LinkMap
<1>5. ASSUME NEW t \in Threads, SetBucketCount(t) PROVE Map!Next
  BY <1>5, ClearMap
<1>6. ASSUME NEW t \in Threads, NEW k \in Keys, NEW v \in Values, BeginAdd(t, k, v)
      PROVE  Stored' = Stored /\ answer' = answer
  BY <1>6, BeginAddStep, StoredSame DEF BeginAdd, boxes
<1>7. ASSUME NEW t \in Threads, NewEntry(t) PROVE Stored' = Stored /\ answer' = answer
  <2>1. \A e \in Linked : key'[e] = key[e] /\ value'[e] = value[e]
    BY <1>7, ChainType DEF NewEntry, IInv, EntriesNotFreed, TypeOK
  <2> QED
    BY <1>7, <2>1, NewEntryStep, StoredSame DEF NewEntry
<1>8. ASSUME NEW t \in Threads, SetBoxes(t) PROVE Stored' = Stored /\ answer' = answer
  <2>1. tmp_r[t] \notin Linked
    BY <1>8 DEF SetBoxes, IInv, Building
  <2>2. \A e \in Linked : key'[e] = key[e] /\ value'[e] = value[e]
    BY <1>8, <2>1, ChainType DEF SetBoxes, IInv, TypeOK
  <2> QED
    BY <1>8, <2>2, SetBoxesStep, StoredSame DEF SetBoxes
<1>9. ASSUME NEW t \in Threads, AddFails(t) PROVE Stored' = Stored /\ answer' = answer
  BY <1>9, AddFailsStep, StoredSame DEF AddFails, boxes
<1>10. ASSUME NEW t \in Threads, EndAdd(t) PROVE Stored' = Stored /\ answer' = answer
  BY <1>10, EndAddStep, StoredSame DEF EndAdd, boxes
<1>11. CASE Collect
  <2>1. \A e \in Linked : key'[e] = key[e] /\ value'[e] = value[e]
    BY <1>11, ChainType DEF Collect, IInv
  <2> QED
    BY <1>11, <2>1, CollectStep, StoredSame DEF Collect
<1>12. CASE UNCHANGED vars
  <2>1. Linked' = Linked
    BY <1>12 DEF vars, buckets, links, Linked, Chain
  <2> QED
    BY <1>12, <2>1, StoredSame DEF vars, boxes
<1> QED
  BY <1>1, <1>2, <1>3, <1>4, <1>5, <1>6, <1>7, <1>8, <1>9, <1>10, <1>11, <1>12 DEF Next

(* Threads that share a table see a map (hash_table.hpp:176-257): whatever *)
(* collections, failures and other threads do between the steps of add.    *)
THEOREM IsAMap == Spec => ImplementsMap
<1>1. IInv => StoredByEntries
  BY StoredIs
<1>2. Spec => []IInv
  BY Invariance
<1> QED
  BY <1>1, <1>2, MapInit, MapStep, PTL DEF Spec, ImplementsMap, Map!Spec
=============================================================================
