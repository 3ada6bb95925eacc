----------------------------- MODULE FiniteMap -----------------------------
(***************************************************************************)
(* What HashTable of vm/hash_table.hpp promises to the threads that share  *)
(* it: a map, changed one key at a time, and answers that are what the map *)
(* holds when they are given.  A cache may forget everything at once.      *)
(***************************************************************************)
CONSTANTS
  Threads, Keys, Values,
  NoValue      \* "there is no such key"

VARIABLES
  store,       \* the value of each key
  answer       \* per thread, what its last get said

vars == <<store, answer>>

Empty == [k \in Keys |-> NoValue]

Init ==
  /\ store = Empty
  /\ answer = [t \in Threads |-> NoValue]

Get(t, k) ==
  /\ answer' = [answer EXCEPT ![t] = store[k]]
  /\ UNCHANGED store

Add(k, v) ==
  /\ store' = [store EXCEPT ![k] = v]
  /\ UNCHANGED answer

Del(k) ==
  /\ store' = [store EXCEPT ![k] = NoValue]
  /\ UNCHANGED answer

Clear ==
  /\ store' = Empty
  /\ UNCHANGED answer

Next ==
  \/ \E t \in Threads, k \in Keys : Get(t, k)
  \/ \E k \in Keys, v \in Values : Add(k, v)
  \/ \E k \in Keys : Del(k)
  \/ Clear

Spec == Init /\ [][Next]_vars
=============================================================================
