----------------------------- MODULE WorldLock -----------------------------
(***************************************************************************)
(* What the collectors ask of their locks on the threads (the class        *)
(* Threads of vm/impl_gc_base.hpp): between lock() and unlock() no thread  *)
(* registered with the collector is at work on the heap.  MarkSweepGC uses *)
(* this as a guard; StopTheWorld shows that signals, semaphores and        *)
(* mutexes provide it.                                                     *)
(***************************************************************************)
CONSTANTS Collectors, Threads, Owner

VARIABLES
  working,     \* per collector, its threads that may touch the heap
  stopped      \* the collectors that have their lock

Init ==
  /\ working = [c \in Collectors |-> {}]
  /\ stopped = {}

(* Threads begin to work, or are registered, only while the lock is free;  *)
(* they leave off at any time.                                             *)
Work(c) ==
  /\ c \notin stopped
  /\ \E W \in SUBSET {t \in Threads : Owner[t] = c} : working' = [working EXCEPT ![c] = W]
  /\ UNCHANGED stopped

Lock(c) ==
  /\ working[c] = {}
  /\ stopped' = stopped \union {c}
  /\ UNCHANGED working

Unlock(c) ==
  /\ stopped' = stopped \ {c}
  /\ UNCHANGED working

Next == \E c \in Collectors : Work(c) \/ Lock(c) \/ Unlock(c)

Spec == Init /\ [][Next]_<<working, stopped>>
============================================================================
