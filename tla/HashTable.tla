----------------------------- MODULE HashTable -----------------------------
(***************************************************************************)
(* HashTable of vm/hash_table.hpp: buckets of doubly linked entries in the *)
(* collected heap, used by several threads under the mutex of the table    *)
(* while collections come between any two steps of an insertion.           *)
(*                                                                         *)
(* An entry under construction is rooted by regs.tmp_r of its thread; a    *)
(* linked entry by the table.  A collection needs the gc mutex, so what    *)
(* the code does with it locked is one step here.  A get reads under the   *)
(* mutex of the table only, and a collector writes nothing it reads: it is *)
(* one step too.                                                           *)
(***************************************************************************)
EXTENDS Naturals, FiniteSets

CONSTANTS
  Threads, Keys, Values, Buckets,
  Entries,     \* blocks of memory for entries
  HashOf,      \* _M_hash(key) % bucket_count, for each key
  NoEntry,     \* the nil reference
  NoKey, NoValue, NoThread

ASSUME HashAssumption == HashOf \in [Keys -> Buckets]
ASSUME NoAssumption ==
  /\ NoEntry \notin Entries
  /\ NoKey \notin Keys
  /\ NoValue \notin Values
  /\ NoThread \notin Threads
ASSUME EntriesAssumption == IsFiniteSet(Entries)

VARIABLES
  mutex,       \* the owner of _M_mutex
  made,        \* _M_r is not nil
  first, last, \* per bucket, first_entry_r and last_entry_r
  prev, next,  \* per entry, prev_r and next_r
  key, value,  \* per entry, the boxes
  entryCount,  \* entry_count
  allocated,   \* the entries the heap holds
  pc,          \* per thread, its place in add
  arg,         \* per thread, the pair it adds
  tmp_r,       \* per thread, the entry it builds
  answer       \* per thread, what its last get said

buckets == <<first, last>>
links == <<prev, next>>
boxes == <<key, value>>
thread == <<pc, arg, tmp_r>>
vars == <<mutex, made, buckets, links, boxes, entryCount, allocated, thread, answer>>

----------------------------------------------------------------------------
(* The entries one meets from f on along n: the smallest set that has f    *)
(* and is closed under n.                                                  *)
Way(f, n) ==
  {e \in Entries : \A S \in SUBSET Entries :
      (f # NoEntry => f \in S) /\ (\A x \in S : n[x] # NoEntry => n[x] \in S)
        => f # NoEntry /\ e \in S}

Chain(b) == Way(first[b], next)

Linked == UNION {Chain(b) : b \in Buckets}

(* Mutant: the hashes are compared, not the keys.                          *)
FoundSameHash(k) == Chain(HashOf[k])

(* find_entry_and_set_bucket_index                                         *)
Found(k) == {e \in Chain(HashOf[k]) : key[e] = k}

Missing(k) == Found(k) = {}

(* What a key is mapped to.                                                *)
Stored ==
  [k \in Keys |-> IF made /\ ~Missing(k)
                  THEN value[CHOOSE e \in Found(k) : TRUE] ELSE NoValue]

----------------------------------------------------------------------------
Init ==
  /\ mutex = NoThread
  /\ made = FALSE
  /\ first = [b \in Buckets |-> NoEntry]
  /\ last = [b \in Buckets |-> NoEntry]
  /\ prev = [e \in Entries |-> NoEntry]
  /\ next = [e \in Entries |-> NoEntry]
  /\ key = [e \in Entries |-> NoKey]
  /\ value = [e \in Entries |-> NoValue]
  /\ entryCount = 0
  /\ allocated = {}
  /\ pc = [t \in Threads |-> "run"]
  /\ arg = [t \in Threads |-> <<NoKey, NoValue>>]
  /\ tmp_r = [t \in Threads |-> NoEntry]
  /\ answer = [t \in Threads |-> NoValue]

(* A thread outside the table calls one of its methods and gets the mutex. *)
Enters(t) == pc[t] = "run" /\ mutex = NoThread

Get(t, k) ==
  /\ Enters(t)
  /\ answer' = [answer EXCEPT ![t] = Stored[k]]
  /\ UNCHANGED <<mutex, made, buckets, links, boxes, entryCount, allocated, thread>>

(* Mutant: a replaced value is counted as an entry.                        *)
AddOverCounted(t, k, v) ==
  /\ Enters(t)
  /\ made
  /\ \E e \in Found(k) : value' = [value EXCEPT ![e] = v]
  /\ entryCount' = entryCount + 1
  /\ UNCHANGED <<mutex, made, buckets, links, key, allocated, thread, answer>>

(* add, the key is there: the value is replaced.                           *)
AddOver(t, k, v) ==
  /\ Enters(t)
  /\ made
  /\ \E e \in Found(k) : value' = [value EXCEPT ![e] = v]
  /\ UNCHANGED <<mutex, made, buckets, links, key, entryCount, allocated, thread, answer>>

(* Mutant: the key is looked for before the mutex is locked.               *)
BeginAddUnlocked(t, k, v) ==
  /\ pc[t] = "run"
  /\ made
  /\ Missing(k)
  /\ mutex' = t
  /\ pc' = [pc EXCEPT ![t] = "new"]
  /\ arg' = [arg EXCEPT ![t] = <<k, v>>]
  /\ UNCHANGED <<made, buckets, links, boxes, entryCount, allocated, tmp_r, answer>>

(* add, the key is not there.                                              *)
BeginAdd(t, k, v) ==
  /\ Enters(t)
  /\ made
  /\ Missing(k)
  /\ mutex' = t
  /\ pc' = [pc EXCEPT ![t] = "new"]
  /\ arg' = [arg EXCEPT ![t] = <<k, v>>]
  /\ UNCHANGED <<made, buckets, links, boxes, entryCount, allocated, tmp_r, answer>>

(* new_object gives a block; nobody reads its links before they are set.   *)
NewEntry(t) ==
  /\ pc[t] = "new"
  /\ \E e \in Entries \ allocated :
       /\ allocated' = allocated \union {e}
       /\ key' = [key EXCEPT ![e] = NoKey]
       /\ value' = [value EXCEPT ![e] = NoValue]
       /\ tmp_r' = [tmp_r EXCEPT ![t] = e]
  /\ pc' = [pc EXCEPT ![t] = "box"]
  /\ UNCHANGED <<mutex, made, buckets, links, entryCount, arg, answer>>

(* set_key and set_value.                                                  *)
SetBoxes(t) ==
  /\ pc[t] = "box"
  /\ key' = [key EXCEPT ![tmp_r[t]] = arg[t][1]]
  /\ value' = [value EXCEPT ![tmp_r[t]] = arg[t][2]]
  /\ pc' = [pc EXCEPT ![t] = "link"]
  /\ UNCHANGED <<mutex, made, buckets, links, entryCount, allocated, arg, tmp_r, answer>>

(* add returns: tmp_r is cleared, the lock_guard unlocks.                  *)
Leave(t) ==
  /\ mutex' = NoThread
  /\ pc' = [pc EXCEPT ![t] = "run"]
  /\ arg' = [arg EXCEPT ![t] = <<NoKey, NoValue>>]
  /\ tmp_r' = [tmp_r EXCEPT ![t] = NoEntry]

(* No memory for the entry, or none for its key.                           *)
AddFails(t) ==
  /\ pc[t] \in {"new", "box"}
  /\ Leave(t)
  /\ UNCHANGED <<made, buckets, links, boxes, entryCount, allocated, answer>>

(* The critical section of the gc mutex.                                   *)
Link(t) ==
  LET e == tmp_r[t]
      b == HashOf[arg[t][1]]
  IN /\ pc[t] = "link"
     /\ prev' = [prev EXCEPT ![e] = last[b]]
     /\ next' = [x \in Entries |-> IF x = e THEN NoEntry
                                   ELSE IF x = last[b] THEN e ELSE next[x]]
     /\ first' = [first EXCEPT ![b] = IF last[b] = NoEntry THEN e ELSE @]
     /\ last' = [last EXCEPT ![b] = e]
     /\ pc' = [pc EXCEPT ![t] = "count"]
     /\ UNCHANGED <<mutex, made, boxes, entryCount, allocated, arg, tmp_r, answer>>

EndAdd(t) ==
  /\ pc[t] = "count"
  /\ entryCount' = entryCount + 1
  /\ Leave(t)
  /\ UNCHANGED <<made, buckets, links, boxes, allocated, answer>>

(* Mutant: the entry after the deleted one still points back at it.        *)
DelOneWay(t, k) ==
  /\ Enters(t)
  /\ made
  /\ \E e \in Found(k) :
       LET b == HashOf[k] IN
       /\ first' = [first EXCEPT ![b] = IF @ = e THEN next[e] ELSE @]
       /\ last' = [last EXCEPT ![b] = IF @ = e THEN prev[e] ELSE @]
       /\ next' = [x \in Entries |-> IF x = e THEN NoEntry
                                     ELSE IF x = prev[e] THEN next[e] ELSE next[x]]
       /\ prev' = [prev EXCEPT ![e] = NoEntry]
  /\ entryCount' = entryCount - 1
  /\ UNCHANGED <<mutex, made, boxes, allocated, thread, answer>>

Del(t, k) ==
  /\ Enters(t)
  /\ made
  /\ \E e \in Found(k) :
       LET b == HashOf[k] IN
       /\ first' = [first EXCEPT ![b] = IF @ = e THEN next[e] ELSE @]
       /\ last' = [last EXCEPT ![b] = IF @ = e THEN prev[e] ELSE @]
       /\ next' = [x \in Entries |-> IF x = e THEN NoEntry
                                     ELSE IF x = prev[e] THEN next[e] ELSE next[x]]
       /\ prev' = [x \in Entries |-> IF x = e THEN NoEntry
                                     ELSE IF x = next[e] THEN prev[e] ELSE prev[x]]
  /\ entryCount' = entryCount - 1
  /\ UNCHANGED <<mutex, made, boxes, allocated, thread, answer>>

(* safely_set_bucket_count: a new table without entries, or none at all;   *)
(* set_bucket_count_for_nil_ref asks for one only when there is none.      *)
SetBucketCount(t) ==
  /\ Enters(t)
  /\ made' \in BOOLEAN
  /\ first' = [b \in Buckets |-> NoEntry]
  /\ last' = [b \in Buckets |-> NoEntry]
  /\ entryCount' = 0
  /\ UNCHANGED <<mutex, links, boxes, allocated, thread, answer>>

(* Mutant: a collection does not know of regs.tmp_r.                       *)
CollectWithoutTmp ==
  /\ allocated' = allocated \intersect Linked
  /\ UNCHANGED <<mutex, made, buckets, links, boxes, entryCount, thread, answer>>

(* A collection, as far as entries are concerned: traverse_child_objects   *)
(* reports those the table leads to, traverse_root_objects those in tmp_r. *)
(* What freed memory holds does not matter: it is cleared.                 *)
Collect ==
  LET Kept == Linked \union {tmp_r[t] : t \in Threads}
      Cleared(f, nothing) == [e \in Entries |-> IF e \in Kept THEN f[e] ELSE nothing]
  IN /\ allocated' = allocated \intersect Kept
     /\ prev' = Cleared(prev, NoEntry)
     /\ next' = Cleared(next, NoEntry)
     /\ key' = Cleared(key, NoKey)
     /\ value' = Cleared(value, NoValue)
     /\ UNCHANGED <<mutex, made, buckets, entryCount, thread, answer>>

Next ==
  \/ \E t \in Threads, k \in Keys :
       \/ Get(t, k)
       \/ Del(t, k)
       \/ \E v \in Values : AddOver(t, k, v) \/ BeginAdd(t, k, v)
  \/ \E t \in Threads :
       NewEntry(t) \/ SetBoxes(t) \/ AddFails(t) \/ Link(t) \/ EndAdd(t) \/ SetBucketCount(t)
  \/ Collect

Spec == Init /\ [][Next]_vars

----------------------------------------------------------------------------
EntryOrNone == Entries \union {NoEntry}

TypeOK ==
  /\ mutex \in Threads \union {NoThread}
  /\ made \in BOOLEAN
  /\ first \in [Buckets -> EntryOrNone]
  /\ last \in [Buckets -> EntryOrNone]
  /\ prev \in [Entries -> EntryOrNone]
  /\ next \in [Entries -> EntryOrNone]
  /\ key \in [Entries -> Keys \union {NoKey}]
  /\ value \in [Entries -> Values \union {NoValue}]
  /\ entryCount \in Nat
  /\ allocated \subseteq Entries
  /\ pc \in [Threads -> {"run", "new", "box", "link", "count"}]
  /\ arg \in [Threads -> (Keys \union {NoKey}) \X (Values \union {NoValue})]
  /\ tmp_r \in [Threads -> EntryOrNone]
  /\ answer \in [Threads -> Values \union {NoValue}]

(* The two ways through a bucket are the same way: prev_r undoes next_r,   *)
(* and the ends are first_entry_r and last_entry_r (hash_table.hpp         *)
(* 217-227, 245-256).                                                      *)
WellLinked(b) ==
  /\ (first[b] = NoEntry) <=> (last[b] = NoEntry)
  /\ first[b] # NoEntry => prev[first[b]] = NoEntry
  /\ last[b] # NoEntry => next[last[b]] = NoEntry /\ last[b] \in Chain(b)
  /\ \A e \in Chain(b) :
       /\ next[e] # NoEntry => prev[next[e]] = e
       /\ next[e] = NoEntry => e = last[b]

(* Every bucket is a list in both directions, of entries whose keys hash   *)
(* to it.                                                                  *)
BucketsWellLinked ==
  \A b \in Buckets :
    WellLinked(b) /\ \A e \in Chain(b) : key[e] \in Keys /\ HashOf[key[e]] = b

(* No key has two entries: add looks and links under one lock of the table *)
(* (hash_table.hpp:195-202).                                               *)
OneEntryPerKey == \A e1, e2 \in Linked : key[e1] = key[e2] => e1 = e2

(* Neither a linked entry nor one under construction is freed by a         *)
(* collection that comes between two steps of add (hash_table.hpp:203-228).*)
EntriesNotFreed ==
  Linked \union ({tmp_r[t] : t \in Threads} \ {NoEntry}) \subseteq allocated

(* entry_count is the number of entries whenever nobody is between linking *)
(* and counting (hash_table.hpp:217-229): size() never sees another.       *)
CountIsRight ==
  made /\ (\A t \in Threads : pc[t] # "count") => entryCount = Cardinality(Linked)

(* To its users the table is a map.                                        *)
Map == INSTANCE FiniteMap WITH store <- Stored

ImplementsMap == Map!Spec
=============================================================================
