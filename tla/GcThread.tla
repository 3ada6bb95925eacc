------------------------------ MODULE GcThread ------------------------------
(***************************************************************************)
(* The thread that runs the collector (start_gc_thread and stop_gc_thread  *)
(* of vm/impl_gc_base.cpp), and what it agrees on with a thread that forks *)
(* the process (ForkAround of vm/vm.cpp, ImplForkHandler's pre_fork and    *)
(* post_fork of vm/impl_gc_base.cpp), with the mutators that use the gc    *)
(* mutex and the memoization cache, and with the main thread, which stops  *)
(* it at the end (letin/main.cpp).                                         *)
(*                                                                         *)
(* The state is that of one process.  After ::fork() a behaviour goes on   *)
(* in the parent or, with the forking thread alone, in the child.  The     *)
(* lock on the threads is the abstract one of WorldLock: marking is a step *)
(* in which no registered thread outside a native function runs.           *)
(***************************************************************************)
EXTENDS Naturals, FiniteSets

CONSTANTS
  Threads,     \* the virtual machine's threads
  Main,        \* the main thread
  Gc,          \* the gc thread
  None         \* nobody

ASSUME DistinctAssumption ==
  /\ Main \notin Threads /\ Gc \notin Threads /\ None \notin Threads
  /\ Main # Gc /\ Main # None /\ Gc # None

Mutexes == {"list",      \* fork_handler_list_map_mutex
            "table",     \* HashTable::_M_mutex of a memoization cache
            "gcThread",  \* _M_gc_thread_mutex
            "other",     \* _M_other_thread_mutex
            "interval",  \* _M_interval_mutex
            "gc"}        \* _M_gc_mutex

VARIABLES
  owner,       \* of a mutex
  funOwner,    \* of a thread's _M_interruptible_fun_mutex
  flag,        \* a thread's _M_interruptible_fun_flag
  contexts,    \* _M_thread_contexts
  isLocked,    \* _M_is_locked_gc_thread
  isStarted,   \* _M_is_started
  mustStop,    \* _M_must_stop_from_vm_thread
  gpc,         \* where the gc thread is
  tpc,         \* where a thread, or the main thread, is
  todo         \* the contexts a loop over interruptible_fun_mutexes has left

mutexVars == <<owner, funOwner>>
stateVars == <<isLocked, isStarted, mustStop>>
vars == <<mutexVars, flag, contexts, stateVars, gpc, tpc, todo>>

Actors == Threads \union {Main}

(* The threads a collection stops (Threads::lock).                         *)
Stopped == IF gpc = "mark" THEN {t \in contexts : ~flag[t]} ELSE {}

Init ==
  /\ owner = [m \in Mutexes |-> None]
  /\ funOwner = [t \in Threads |-> None]
  /\ flag = [t \in Threads |-> FALSE]
  /\ contexts = Threads
  /\ isLocked = FALSE
  /\ isStarted = TRUE
  /\ mustStop = FALSE
  /\ gpc = "start"
  /\ tpc = [a \in Actors |-> IF a = Main THEN "join" ELSE "run"]
  /\ todo = [a \in Threads \union {Gc} |-> {}]

Lock(a, m) == owner[m] = None /\ owner' = [owner EXCEPT ![m] = a]

Unlock(M) == owner' = [m \in Mutexes |-> IF m \in M THEN None ELSE owner[m]]

(* One turn of a loop that locks the interruptible_fun_mutex of every      *)
(* context.                                                                *)
LockFun(a) ==
  \E t \in todo[a] :
    /\ funOwner[t] = None
    /\ funOwner' = [funOwner EXCEPT ![t] = a]
    /\ todo' = [todo EXCEPT ![a] = @ \ {t}]

UnlockFuns == funOwner' = [t \in Threads |-> IF t \in contexts THEN None ELSE funOwner[t]]

----------------------------------------------------------------------------
(* The gc thread.                                                          *)

Goto(from, to) ==
  /\ gpc = from
  /\ gpc' = to
  /\ UNCHANGED <<tpc, flag, contexts, stateVars>>

(* The thread's function begins with the lock on other_thread_mutex.       *)
GcLockOther ==
  /\ Goto("start", "sleep")
  /\ Lock(Gc, "other")
  /\ UNCHANGED <<funOwner, todo>>

(* The outer loop: the lock on interval_mutex.                             *)
GcLockInterval ==
  /\ Goto("sleep", "check")
  /\ Lock(Gc, "interval")
  /\ UNCHANGED <<funOwner, todo>>

(* A thread wants to fork: the gc thread gives way.                        *)
GcGiveWay ==
  /\ isLocked
  /\ Goto("check", "giveOther")
  /\ Unlock({"interval"})
  /\ UNCHANGED <<funOwner, todo>>

(* Mutant: the gc thread keeps other_thread_mutex.                         *)
GcUnlockOtherForgotten == Goto("giveOther", "queue") /\ UNCHANGED <<mutexVars, todo>>

GcUnlockOther ==
  /\ Goto("giveOther", "queue")
  /\ Unlock({"other"})
  /\ UNCHANGED <<funOwner, todo>>

(* It waits for the end of the fork at gc_thread_mutex.                    *)
GcQueue ==
  /\ Goto("queue", "queued")
  /\ Lock(Gc, "gcThread")
  /\ UNCHANGED <<funOwner, todo>>

GcUnqueue ==
  /\ Goto("queued", "relockOther")
  /\ Unlock({"gcThread"})
  /\ UNCHANGED <<funOwner, todo>>

GcRelockOther ==
  /\ Goto("relockOther", "relockInterval")
  /\ Lock(Gc, "other")
  /\ UNCHANGED <<funOwner, todo>>

(* The interval may have elapsed meanwhile: break.                         *)
GcRelockInterval ==
  /\ \E next \in {"checkStarted", "elapsed"} : Goto("relockInterval", next)
  /\ Lock(Gc, "interval")
  /\ UNCHANGED <<funOwner, todo>>

(* Nobody forks: on to the test of is_started.                             *)
GcKeep ==
  /\ ~isLocked
  /\ Goto("check", "checkStarted")
  /\ UNCHANGED <<mutexVars, todo>>

GcReturn ==
  /\ ~isStarted
  /\ Goto("checkStarted", "none")
  /\ Unlock({"interval", "other"})
  /\ UNCHANGED <<funOwner, todo>>

(* wait_for gives interval_mutex back; is_locked_gc_thread is not looked   *)
(* at again on the way here from GcRelockInterval.                         *)
GcWait ==
  /\ isStarted
  /\ Goto("checkStarted", "waiting")
  /\ Unlock({"interval"})
  /\ UNCHANGED <<funOwner, todo>>

(* wait_for returns no_timeout: a notification or a spurious wake-up.      *)
GcWake ==
  /\ Goto("waiting", "check")
  /\ Lock(Gc, "interval")
  /\ UNCHANGED <<funOwner, todo>>

(* wait_for returns timeout: the time is over when the lock is got again,  *)
(* whether or not a notification came.                                     *)
GcTimeout ==
  /\ Goto("waiting", "elapsed")
  /\ Lock(Gc, "interval")
  /\ UNCHANGED <<funOwner, todo>>

GcElapsed ==
  /\ Goto("elapsed", "again")
  /\ Unlock({"interval"})
  /\ UNCHANGED <<funOwner, todo>>

(* while(is_locked_gc_thread), read with no lock.                          *)
GcAgain ==
  /\ Goto("again", IF isLocked THEN "sleep" ELSE "collect")
  /\ UNCHANGED <<mutexVars, todo>>

(* Mutant: collect does not lock the gc mutex.                             *)
GcLockGcFree ==
  /\ Goto("collect", "lockFuns")
  /\ todo' = [todo EXCEPT ![Gc] = contexts]
  /\ UNCHANGED mutexVars

(* collect: the gc mutex, then Threads::lock.                              *)
GcLockGc ==
  /\ Goto("collect", "lockFuns")
  /\ Lock(Gc, "gc")
  /\ todo' = [todo EXCEPT ![Gc] = contexts]
  /\ UNCHANGED <<funOwner>>

GcLockFun ==
  /\ gpc = "lockFuns"
  /\ LockFun(Gc)
  /\ UNCHANGED <<owner, flag, contexts, stateVars, gpc, tpc>>

GcStopWorld ==
  /\ todo[Gc] = {}
  /\ Goto("lockFuns", "mark")
  /\ UNCHANGED <<mutexVars, todo>>

GcContinueWorld ==
  /\ Goto("mark", "sweep")
  /\ UnlockFuns
  /\ UNCHANGED <<owner, todo>>

GcEndCollect ==
  /\ Goto("sweep", "sleep")
  /\ Unlock({"gc"})
  /\ UNCHANGED <<funOwner, todo>>

GcThread ==
  \/ GcLockOther \/ GcLockInterval \/ GcGiveWay \/ GcUnlockOther \/ GcQueue
  \/ GcUnqueue \/ GcRelockOther \/ GcRelockInterval \/ GcKeep \/ GcReturn
  \/ GcWait \/ GcWake \/ GcTimeout \/ GcElapsed \/ GcAgain \/ GcLockGc
  \/ GcLockFun \/ GcStopWorld \/ GcContinueWorld \/ GcEndCollect

----------------------------------------------------------------------------
(* A thread.                                                               *)

Move(a, from, to) ==
  /\ a \notin Stopped
  /\ tpc[a] = from
  /\ tpc' = [tpc EXCEPT ![a] = to]

(* A mutator in allocate: the gc mutex, for a moment.                      *)
LockGc(t) ==
  /\ Move(t, "run", "inGc")
  /\ Lock(t, "gc")
  /\ UNCHANGED <<funOwner, flag, contexts, stateVars, gpc, todo>>

UnlockGc(t) ==
  /\ Move(t, "inGc", "run")
  /\ Unlock({"gc"})
  /\ UNCHANGED <<funOwner, flag, contexts, stateVars, gpc, todo>>

(* HashTable: every operation locks the table's mutex, and add and del     *)
(* lock the gc mutex inside it, to allocate and to link.                   *)
LockTable(t) ==
  /\ Move(t, "run", "inTable")
  /\ Lock(t, "table")
  /\ UNCHANGED <<funOwner, flag, contexts, stateVars, gpc, todo>>

LockTableGc(t) ==
  /\ Move(t, "inTable", "inTableGc")
  /\ Lock(t, "gc")
  /\ UNCHANGED <<funOwner, flag, contexts, stateVars, gpc, todo>>

UnlockTable(t) ==
  /\ \/ Move(t, "inTable", "run")
     \/ Move(t, "inTableGc", "run")
  /\ Unlock({m \in {"table", "gc"} : owner[m] = t})
  /\ UNCHANGED <<funOwner, flag, contexts, stateVars, gpc, todo>>

(* InterruptibleFunctionAround: its constructor and its destructor.        *)
LockOwnFun(t) ==
  /\ \/ Move(t, "run", "entering")
     \/ Move(t, "native", "leaving")
  /\ funOwner[t] = None
  /\ funOwner' = [funOwner EXCEPT ![t] = t]
  /\ UNCHANGED <<owner, flag, contexts, stateVars, gpc, todo>>

(* Mutant: the mutex is kept as long as the native function runs.          *)
SetFlagLocked(t) ==
  /\ \/ Move(t, "entering", "native") /\ UNCHANGED funOwner
     \/ Move(t, "leaving", "run") /\ funOwner' = [funOwner EXCEPT ![t] = None]
  /\ flag' = [flag EXCEPT ![t] = tpc[t] = "entering"]
  /\ UNCHANGED <<owner, contexts, stateVars, gpc, todo>>

SetFlag(t) ==
  /\ \/ Move(t, "entering", "native")
     \/ Move(t, "leaving", "run")
  /\ flag' = [flag EXCEPT ![t] = tpc[t] = "entering"]
  /\ funOwner' = [funOwner EXCEPT ![t] = None]
  /\ UNCHANGED <<owner, contexts, stateVars, gpc, todo>>

----------------------------------------------------------------------------
(* A fork.                                                                 *)

(* ForkAround's constructor: the lock on the list of handlers.             *)
ForkLockList(t) ==
  /\ Move(t, "run", "preTable")
  /\ Lock(t, "list")
  /\ UNCHANGED <<funOwner, flag, contexts, stateVars, gpc, todo>>

(* The handlers run from the highest priority down: that of the evaluation *)
(* strategy before that of the collector.                                  *)
ForkLockTable(t) ==
  /\ Move(t, "preTable", "preGcThread")
  /\ Lock(t, "table")
  /\ UNCHANGED <<funOwner, flag, contexts, stateVars, gpc, todo>>

(* ImplForkHandler::pre_fork: the five locks, and the request between them.*)
ForkLockGcThread(t) ==
  /\ Move(t, "preGcThread", "preAsk")
  /\ Lock(t, "gcThread")
  /\ UNCHANGED <<funOwner, flag, contexts, stateVars, gpc, todo>>

ForkLockInterval(t) ==
  /\ \/ Move(t, "preAsk", "ask")
     \/ Move(t, "preInterval", "preGc")
  /\ Lock(t, "interval")
  /\ UNCHANGED <<funOwner, flag, contexts, stateVars, gpc, todo>>

ForkAsk(t) ==
  /\ Move(t, "ask", "preOther")
  /\ isLocked' = TRUE
  /\ Unlock({"interval"})
  /\ UNCHANGED <<funOwner, flag, contexts, isStarted, mustStop, gpc, todo>>

ForkLockOther(t) ==
  /\ Move(t, "preOther", "preInterval")
  /\ Lock(t, "other")
  /\ UNCHANGED <<funOwner, flag, contexts, stateVars, gpc, todo>>

(* Mutant: pre_fork does not lock the gc mutex.                            *)
ForkLockGcFree(t) ==
  /\ Move(t, "preGc", "lockFuns")
  /\ todo' = [todo EXCEPT ![t] = contexts]
  /\ UNCHANGED <<mutexVars, flag, contexts, stateVars, gpc>>

ForkLockGc(t) ==
  /\ Move(t, "preGc", "lockFuns")
  /\ Lock(t, "gc")
  /\ todo' = [todo EXCEPT ![t] = contexts]
  /\ UNCHANGED <<funOwner, flag, contexts, stateVars, gpc>>

ForkLockFun(t) ==
  /\ t \notin Stopped
  /\ tpc[t] = "lockFuns"
  /\ LockFun(t)
  /\ UNCHANGED <<owner, flag, contexts, stateVars, gpc, tpc>>

ForkReady(t) ==
  /\ todo[t] = {}
  /\ Move(t, "lockFuns", "fork")
  /\ UNCHANGED <<mutexVars, flag, contexts, stateVars, gpc, todo>>

(* Mutant: other_thread_mutex is forgotten.                                *)
ForkMutexesButOther == {"list", "table", "gcThread", "interval", "gc"}

(* What the pre_fork handlers have locked and the post_fork handlers unlock. *)
ForkMutexes == {"list", "table", "gcThread", "other", "interval", "gc"}

(* ::fork() and, in the parent, post_fork: all is unlocked again.          *)
ForkParent(t) ==
  /\ Move(t, "fork", "run")
  /\ UnlockFuns
  /\ isLocked' = FALSE
  /\ Unlock(ForkMutexes)
  /\ UNCHANGED <<flag, contexts, isStarted, mustStop, gpc, todo>>

ChildContexts(t) == {t}

(* ::fork() and, in the child, post_fork: this thread is the only one, the *)
(* mutexes of the collector are made anew, and so is the gc thread, if it  *)
(* was started.                                                            *)
ForkChild(t) ==
  /\ t \notin Stopped
  /\ tpc[t] = "fork"
  /\ tpc' = [a \in Actors |-> IF a = t THEN "run" ELSE "gone"]
  /\ contexts' = ChildContexts(t)
  /\ funOwner' = [funOwner EXCEPT ![t] = None]
  /\ isLocked' = FALSE
  /\ mustStop' = TRUE
  /\ Unlock(ForkMutexes)
  /\ gpc' = IF isStarted THEN "start" ELSE "none"
  /\ UNCHANGED <<flag, isStarted, todo>>

Fork(t) ==
  \/ ForkLockTable(t) \/ ForkLockGcThread(t) \/ ForkLockInterval(t)
  \/ ForkAsk(t) \/ ForkLockOther(t) \/ ForkLockGc(t) \/ ForkLockFun(t)
  \/ ForkReady(t) \/ ForkParent(t) \/ ForkChild(t)

----------------------------------------------------------------------------
(* The end.                                                                *)

(* The end of the thread's function: delete_thread_context, and stop, if   *)
(* this is the last thread of a child.                                     *)
EndThread(t) ==
  /\ t \notin Stopped
  /\ tpc[t] = "run"
  /\ owner["gc"] = None
  /\ contexts' = contexts \ {t}
  /\ tpc' = [tpc EXCEPT ![t] = IF mustStop /\ contexts' = {} THEN "stop" ELSE "gone"]
  /\ UNCHANGED <<mutexVars, flag, stateVars, gpc, todo>>

(* main: the virtual machine's threads are joined, then gc->stop().        *)
JoinThreads ==
  /\ Move(Main, "join", "stop")
  /\ \A t \in Threads : tpc[t] = "gone"
  /\ UNCHANGED <<mutexVars, flag, contexts, stateVars, gpc, todo>>

(* stop_gc_thread.                                                         *)
StopLock(a) ==
  /\ Move(a, "stop", "stopping")
  /\ Lock(a, "interval")
  /\ UNCHANGED <<funOwner, flag, contexts, stateVars, gpc, todo>>

(* Mutant: stop_gc_thread notifies and does not reset is_started.          *)
StopNotifyOnly(a) ==
  /\ Move(a, "stopping", "joinGc")
  /\ Unlock({"interval"})
  /\ UNCHANGED <<funOwner, flag, contexts, stateVars, gpc, todo>>

StopNotify(a) ==
  /\ Move(a, "stopping", "joinGc")
  /\ isStarted' = FALSE
  /\ Unlock({"interval"})
  /\ UNCHANGED <<funOwner, flag, contexts, isLocked, mustStop, gpc, todo>>

StopJoin(a) ==
  /\ gpc = "none"
  /\ Move(a, "joinGc", "exit")
  /\ UNCHANGED <<mutexVars, flag, contexts, stateVars, gpc, todo>>

(* The process has ended.                                                  *)
Exited ==
  /\ \E a \in Actors : tpc[a] = "exit"
  /\ UNCHANGED vars

Stop(a) == StopLock(a) \/ StopNotify(a) \/ StopJoin(a)

----------------------------------------------------------------------------
(* What a thread does of its own accord, and what it goes on with once it  *)
(* has begun.                                                              *)
Begin(t) ==
  \/ LockGc(t) \/ LockTable(t) \/ LockOwnFun(t) \/ ForkLockList(t) \/ EndThread(t)

GoOn(t) ==
  \/ UnlockGc(t) \/ LockTableGc(t) \/ UnlockTable(t)
  \/ SetFlag(t) \/ Fork(t) \/ Stop(t)

Next ==
  \/ GcThread
  \/ \E t \in Threads : Begin(t) \/ GoOn(t)
  \/ JoinThreads \/ Stop(Main) \/ Exited

Spec == Init /\ [][Next]_vars

(* The scheduler runs every thread, and a mutex that is free again and     *)
(* again is got in the end.  A thread need not begin anything: it may      *)
(* compute, or wait in a native function, for ever.                        *)
Fairness ==
  /\ SF_vars(GcThread)
  /\ SF_vars(JoinThreads \/ Stop(Main))
  /\ \A t \in Threads : SF_vars(GoOn(t))

FairSpec == Spec /\ Fairness
----------------------------------------------------------------------------
GcPlaces ==
  {"none", "start", "sleep", "check", "giveOther", "queue", "queued", "relockOther",
   "relockInterval", "checkStarted", "waiting", "elapsed", "again", "collect",
   "lockFuns", "mark", "sweep"}

ThreadPlaces ==
  {"run", "inGc", "inTable", "inTableGc", "entering", "native", "leaving",
   "preTable", "preGcThread", "preAsk", "ask", "preOther", "preInterval", "preGc",
   "lockFuns", "fork", "gone", "stop", "stopping", "joinGc", "exit"}

TypeOK ==
  /\ owner \in [Mutexes -> Actors \union {Gc, None}]
  /\ funOwner \in [Threads -> Threads \union {Gc, None}]
  /\ flag \in [Threads -> BOOLEAN]
  /\ contexts \subseteq Threads
  /\ isLocked \in BOOLEAN
  /\ isStarted \in BOOLEAN
  /\ mustStop \in BOOLEAN
  /\ gpc \in GcPlaces
  /\ tpc \in [Actors -> ThreadPlaces \union {"join"}]
  /\ todo \in [Threads \union {Gc} -> SUBSET Threads]

(* When ::fork() copies the process, the copy is fit for the forking thread *)
(* to go on alone: the gc thread is not in collect and holds no mutex, and *)
(* no other thread is changing the list of blocks, a memoization cache or  *)
(* a flag.  (So pre_fork's five locks, in their order, are enough.)        *)
ForkFindsAllAtRest ==
  \A t \in Threads : tpc[t] = "fork" =>
    /\ gpc \in {"none", "start", "queue", "relockOther"}
    /\ \A a \in Actors \ {t} :
         tpc[a] \notin {"inGc", "inTable", "inTableGc", "entering", "leaving", "stopping", "fork"}

(* A thread is never stopped inside the gc mutex, nor between two steps of *)
(* a change of its flag: marking finds the list of blocks and the buckets  *)
(* of the caches whole, though it locks neither the caches nor the stacks. *)
MarkFindsAllAtRest ==
  gpc = "mark" =>
    \A t \in contexts : tpc[t] \notin {"inGc", "inTableGc", "entering", "leaving"}

(* A fork that was begun is carried out: the gc thread gives way to it     *)
(* though it holds other_thread_mutex for as long as it lives, and the     *)
(* locks of the handlers come in an order no mutator reverses.             *)
ForkEnds == \A t \in Threads : tpc[t] = "preTable" ~> tpc[t] \in {"run", "gone"}

(* gc->stop() returns, in the main thread and in a child's last thread.    *)
StopEnds == \A a \in Actors : tpc[a] = "stop" ~> tpc[a] \in {"exit", "gone"}

(* A started gc thread gets to its sleep: in a child too, whose mutexes    *)
(* were all held when the process was copied.                              *)
GcThreadStarts == gpc = "start" ~> gpc = "sleep"

(* A collection ends, whatever the threads hold when it begins.            *)
CollectionEnds == gpc = "collect" ~> gpc = "sleep"
============================================================================
