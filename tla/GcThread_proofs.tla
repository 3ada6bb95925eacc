-------------------------- MODULE GcThread_proofs --------------------------
(***************************************************************************)
(* For any number of threads: what ::fork() copies and what mark() looks   *)
(* at is at rest.  Both follow from who holds which mutex where.           *)
(***************************************************************************)
EXTENDS GcThread, TLAPS

(* The places of a thread, and of the gc thread, inside each mutex that    *)
(* the two properties depend on.                                           *)
GcHeld ==
  /\ \A a \in Actors :
       owner["gc"] = a <=> tpc[a] \in {"inGc", "inTableGc", "lockFuns", "fork"}
  /\ owner["gc"] = Gc <=> gpc \in {"lockFuns", "mark", "sweep"}

IntervalHeld ==
  /\ \A a \in Actors :
       owner["interval"] = a <=> tpc[a] \in {"ask", "preGc", "lockFuns", "fork", "stopping"}
  /\ owner["interval"] = Gc <=> gpc \in {"check", "checkStarted", "elapsed"}

OtherHeld ==
  /\ \A a \in Actors :
       owner["other"] = a <=> tpc[a] \in {"preInterval", "preGc", "lockFuns", "fork"}
  /\ owner["other"] = Gc <=>
       gpc \notin {"none", "start", "queue", "queued", "relockOther"}

ForkPlaces == {"preAsk", "ask", "preOther", "preInterval", "preGc", "lockFuns", "fork"}

GcThreadHeld ==
  /\ \A a \in Actors : owner["gcThread"] = a <=> tpc[a] \in ForkPlaces
  /\ owner["gcThread"] = Gc <=> gpc = "queued"

TableHeld ==
  \A a \in Actors :
    owner["table"] = a <=> tpc[a] \in {"inTable", "inTableGc", "preGcThread"} \union ForkPlaces

(* Who holds a thread's interruptible_fun_mutex.                           *)
FunHeld ==
  /\ \A t \in Threads : tpc[t] \in {"entering", "leaving"} => funOwner[t] = t
  /\ gpc \in {"lockFuns", "mark"} => \A t \in contexts \ todo[Gc] : funOwner[t] = Gc
  /\ gpc = "mark" => todo[Gc] = {}
  /\ \A t \in Threads :
       tpc[t] \in {"lockFuns", "fork"} => \A u \in contexts \ todo[t] : funOwner[u] = t
  /\ \A t \in Threads : tpc[t] = "fork" => todo[t] = {}

(* A thread is registered until it ends.                                   *)
Registered ==
  \A t \in Threads :
    tpc[t] \notin {"gone", "stop", "stopping", "joinGc", "exit"} => t \in contexts

MainPlaces == tpc[Main] \in {"join", "stop", "stopping", "joinGc", "exit", "gone"}

IInv ==
  /\ TypeOK /\ GcHeld /\ IntervalHeld /\ OtherHeld /\ GcThreadHeld /\ TableHeld
  /\ FunHeld /\ Registered /\ MainPlaces

(* Every step keeps the types.                                             *)
LEMMA TypeStep == TypeOK /\ [Next]_vars => TypeOK'
<1> SUFFICES ASSUME TypeOK, [Next]_vars PROVE TypeOK'
  OBVIOUS
<1> USE DistinctAssumption
<1> USE DEF TypeOK, GcPlaces, ThreadPlaces, Mutexes, Actors, mutexVars, stateVars, Lock, Unlock, LockFun, UnlockFuns, Move,
           Goto
<1>1. CASE GcThread
  <2>1. CASE GcLockOther
    BY <1>1, <2>1 DEF GcLockOther
  <2>2. CASE GcLockInterval
    BY <1>1, <2>2 DEF GcLockInterval
  <2>3. CASE GcGiveWay
    BY <1>1, <2>3 DEF GcGiveWay
  <2>4. CASE GcUnlockOther
    BY <1>1, <2>4 DEF GcUnlockOther
  <2>5. CASE GcQueue
    BY <1>1, <2>5 DEF GcQueue
  <2>6. CASE GcUnqueue
    BY <1>1, <2>6 DEF GcUnqueue
  <2>7. CASE GcRelockOther
    BY <1>1, <2>7 DEF GcRelockOther
  <2>8. CASE GcRelockInterval
    BY <1>1, <2>8 DEF GcRelockInterval
  <2>9. CASE GcKeep
    BY <1>1, <2>9 DEF GcKeep
  <2>10. CASE GcReturn
    BY <1>1, <2>10 DEF GcReturn
  <2>11. CASE GcWait
    BY <1>1, <2>11 DEF GcWait
  <2>12. CASE GcWake
    BY <1>1, <2>12 DEF GcWake
  <2>13. CASE GcTimeout
    BY <1>1, <2>13 DEF GcTimeout
  <2>14. CASE GcElapsed
    BY <1>1, <2>14 DEF GcElapsed
  <2>15. CASE GcAgain
    BY <1>1, <2>15 DEF GcAgain
  <2>16. CASE GcLockGc
    BY <1>1, <2>16 DEF GcLockGc
  <2>17. CASE GcLockFun
    BY <1>1, <2>17 DEF GcLockFun
  <2>18. CASE GcStopWorld
    BY <1>1, <2>18 DEF GcStopWorld
  <2>19. CASE GcContinueWorld
    BY <1>1, <2>19 DEF GcContinueWorld
  <2>20. CASE GcEndCollect
    BY <1>1, <2>20 DEF GcEndCollect
  <2> QED
    BY <1>1, <2>1, <2>2, <2>3, <2>4, <2>5, <2>6, <2>7, <2>8, <2>9, <2>10, <2>11, <2>12, <2>13, <2>14, <2>15, <2>16, <2>17, <2>18, <2>19, <2>20 DEF GcThread
<1>2. ASSUME NEW t \in Threads, Begin(t) PROVE TypeOK'
  <2>1. CASE LockGc(t)
    BY <1>2, <2>1 DEF LockGc
  <2>2. CASE LockTable(t)
    BY <1>2, <2>2 DEF LockTable
  <2>3. CASE LockOwnFun(t)
    BY <1>2, <2>3 DEF LockOwnFun
  <2>4. CASE ForkLockList(t)
    BY <1>2, <2>4 DEF ForkLockList
  <2>5. CASE EndThread(t)
    BY <1>2, <2>5 DEF EndThread
  <2> QED
    BY <1>2, <2>1, <2>2, <2>3, <2>4, <2>5 DEF Begin
<1>3. ASSUME NEW t \in Threads, Fork(t) PROVE TypeOK'
  <2>1. CASE ForkLockTable(t)
    BY <1>3, <2>1 DEF ForkLockTable
  <2>2. CASE ForkLockGcThread(t)
    BY <1>3, <2>2 DEF ForkLockGcThread
  <2>3. CASE ForkLockInterval(t)
    BY <1>3, <2>3 DEF ForkLockInterval
  <2>4. CASE ForkAsk(t)
    BY <1>3, <2>4 DEF ForkAsk
  <2>5. CASE ForkLockOther(t)
    BY <1>3, <2>5 DEF ForkLockOther
  <2>6. CASE ForkLockGc(t)
    BY <1>3, <2>6 DEF ForkLockGc
  <2>7. CASE ForkLockFun(t)
    BY <1>3, <2>7 DEF ForkLockFun
  <2>8. CASE ForkReady(t)
    BY <1>3, <2>8 DEF ForkReady
  <2>9. CASE ForkParent(t)
    BY <1>3, <2>9 DEF ForkParent, ForkMutexes
  <2>10. CASE ForkChild(t)
    BY <1>3, <2>10 DEF ForkChild, ForkMutexes, ChildContexts
  <2> QED
    BY <1>3, <2>1, <2>2, <2>3, <2>4, <2>5, <2>6, <2>7, <2>8, <2>9, <2>10 DEF Fork
<1>4. ASSUME NEW a \in Actors, Stop(a) PROVE TypeOK'
  <2>1. CASE StopLock(a)
    BY <1>4, <2>1 DEF StopLock
  <2>2. CASE StopNotify(a)
    BY <1>4, <2>2 DEF StopNotify
  <2>3. CASE StopJoin(a)
    BY <1>4, <2>3 DEF StopJoin
  <2> QED
    BY <1>4, <2>1, <2>2, <2>3 DEF Stop
<1>5. ASSUME NEW t \in Threads, GoOn(t), ~Fork(t), ~Stop(t) PROVE TypeOK'
  <2>1. CASE UnlockGc(t)
    BY <1>5, <2>1 DEF UnlockGc
  <2>2. CASE LockTableGc(t)
    BY <1>5, <2>2 DEF LockTableGc
  <2>3. CASE UnlockTable(t)
    BY <1>5, <2>3 DEF UnlockTable
  <2>4. CASE SetFlag(t)
    BY <1>5, <2>4 DEF SetFlag
  <2> QED
    BY <1>5, <2>1, <2>2, <2>3, <2>4 DEF GoOn
<1>6. CASE JoinThreads
  BY <1>6 DEF JoinThreads
<1>7. CASE Exited \/ UNCHANGED vars
  BY <1>7 DEF Exited, vars
<1> QED
  BY <1>1, <1>2, <1>3, <1>4, <1>5, <1>6, <1>7 DEF Next, GoOn, Actors

(* Every step keeps who holds which mutex where.  ForkChild is where the  *)
(* mutexes are made anew; EndThread is why contexts is part of it.         *)
LEMMA IInvStep == IInv /\ [Next]_vars => IInv'
<1> SUFFICES ASSUME IInv, [Next]_vars PROVE IInv'
  OBVIOUS
<1>0. TypeOK'
  BY TypeStep DEF IInv
<1> USE <1>0
<1> USE DistinctAssumption
<1> USE DEF IInv, GcHeld, IntervalHeld, OtherHeld, GcThreadHeld, TableHeld, ForkPlaces, FunHeld,
           Registered, MainPlaces, TypeOK, GcPlaces, ThreadPlaces, Mutexes, Actors, mutexVars, stateVars, Lock, Unlock, LockFun, UnlockFuns, Move,
           Goto
<1>1. CASE GcThread
  <2>1. CASE GcLockOther
    BY <1>1, <2>1 DEF GcLockOther
  <2>2. CASE GcLockInterval
    BY <1>1, <2>2 DEF GcLockInterval
  <2>3. CASE GcGiveWay
    BY <1>1, <2>3 DEF GcGiveWay
  <2>4. CASE GcUnlockOther
    BY <1>1, <2>4 DEF GcUnlockOther
  <2>5. CASE GcQueue
    BY <1>1, <2>5 DEF GcQueue
  <2>6. CASE GcUnqueue
    BY <1>1, <2>6 DEF GcUnqueue
  <2>7. CASE GcRelockOther
    BY <1>1, <2>7 DEF GcRelockOther
  <2>8. CASE GcRelockInterval
    BY <1>1, <2>8 DEF GcRelockInterval
  <2>9. CASE GcKeep
    BY <1>1, <2>9 DEF GcKeep
  <2>10. CASE GcReturn
    BY <1>1, <2>10 DEF GcReturn
  <2>11. CASE GcWait
    BY <1>1, <2>11 DEF GcWait
  <2>12. CASE GcWake
    BY <1>1, <2>12 DEF GcWake
  <2>13. CASE GcTimeout
    BY <1>1, <2>13 DEF GcTimeout
  <2>14. CASE GcElapsed
    BY <1>1, <2>14 DEF GcElapsed
  <2>15. CASE GcAgain
    BY <1>1, <2>15 DEF GcAgain
  <2>16. CASE GcLockGc
    BY <1>1, <2>16 DEF GcLockGc
  <2>17. CASE GcLockFun
    BY <1>1, <2>17 DEF GcLockFun
  <2>18. CASE GcStopWorld
    BY <1>1, <2>18 DEF GcStopWorld
  <2>19. CASE GcContinueWorld
    BY <1>1, <2>19 DEF GcContinueWorld
  <2>20. CASE GcEndCollect
    BY <1>1, <2>20 DEF GcEndCollect
  <2> QED
    BY <1>1, <2>1, <2>2, <2>3, <2>4, <2>5, <2>6, <2>7, <2>8, <2>9, <2>10, <2>11, <2>12, <2>13, <2>14, <2>15, <2>16, <2>17, <2>18, <2>19, <2>20 DEF GcThread
<1>2. ASSUME NEW t \in Threads, Begin(t) PROVE IInv'
  <2>1. CASE LockGc(t)
    BY <1>2, <2>1 DEF LockGc
  <2>2. CASE LockTable(t)
    BY <1>2, <2>2 DEF LockTable
  <2>3. CASE LockOwnFun(t)
    BY <1>2, <2>3 DEF LockOwnFun
  <2>4. CASE ForkLockList(t)
    BY <1>2, <2>4 DEF ForkLockList
  <2>5. CASE EndThread(t)
    BY <1>2, <2>5 DEF EndThread
  <2> QED
    BY <1>2, <2>1, <2>2, <2>3, <2>4, <2>5 DEF Begin
<1>3. ASSUME NEW t \in Threads, Fork(t) PROVE IInv'
  <2>1. CASE ForkLockTable(t)
    BY <1>3, <2>1 DEF ForkLockTable
  <2>2. CASE ForkLockGcThread(t)
    BY <1>3, <2>2 DEF ForkLockGcThread
  <2>3. CASE ForkLockInterval(t)
    BY <1>3, <2>3 DEF ForkLockInterval
  <2>4. CASE ForkAsk(t)
    BY <1>3, <2>4 DEF ForkAsk
  <2>5. CASE ForkLockOther(t)
    BY <1>3, <2>5 DEF ForkLockOther
  <2>6. CASE ForkLockGc(t)
    BY <1>3, <2>6 DEF ForkLockGc
  <2>7. CASE ForkLockFun(t)
    BY <1>3, <2>7 DEF ForkLockFun
  <2>8. CASE ForkReady(t)
    BY <1>3, <2>8 DEF ForkReady
  <2>9. CASE ForkParent(t)
    BY <1>3, <2>9 DEF ForkParent, ForkMutexes
  <2>10. CASE ForkChild(t)
    BY <1>3, <2>10 DEF ForkChild, ForkMutexes, ChildContexts
  <2> QED
    BY <1>3, <2>1, <2>2, <2>3, <2>4, <2>5, <2>6, <2>7, <2>8, <2>9, <2>10 DEF Fork
<1>4. ASSUME NEW a \in Actors, Stop(a) PROVE IInv'
  <2>1. CASE StopLock(a)
    BY <1>4, <2>1 DEF StopLock
  <2>2. CASE StopNotify(a)
    BY <1>4, <2>2 DEF StopNotify
  <2>3. CASE StopJoin(a)
    BY <1>4, <2>3 DEF StopJoin
  <2> QED
    BY <1>4, <2>1, <2>2, <2>3 DEF Stop
<1>5. ASSUME NEW t \in Threads, GoOn(t), ~Fork(t), ~Stop(t) PROVE IInv'
  <2>1. CASE UnlockGc(t)
    BY <1>5, <2>1 DEF UnlockGc
  <2>2. CASE LockTableGc(t)
    BY <1>5, <2>2 DEF LockTableGc
  <2>3. CASE UnlockTable(t)
    BY <1>5, <2>3 DEF UnlockTable
  <2>4. CASE SetFlag(t)
    BY <1>5, <2>4 DEF SetFlag
  <2> QED
    BY <1>5, <2>1, <2>2, <2>3, <2>4 DEF GoOn
<1>6. CASE JoinThreads
  BY <1>6 DEF JoinThreads
<1>7. CASE Exited \/ UNCHANGED vars
  BY <1>7 DEF Exited, vars
<1> QED
  BY <1>1, <1>2, <1>3, <1>4, <1>5, <1>6, <1>7 DEF Next, GoOn, Actors

(* At the start no mutex is held and every thread runs.                    *)
LEMMA IInvInit == Init => IInv
<1> SUFFICES ASSUME Init PROVE IInv
  OBVIOUS
<1>1. /\ \A m \in Mutexes : owner[m] = None
      /\ \A a \in Actors : tpc[a] \in {"join", "run"}
      /\ None \notin Actors /\ None # Gc /\ gpc = "start"
  BY DistinctAssumption DEF Init, Actors
<1>2. TypeOK
  BY DistinctAssumption DEF Init, TypeOK, Actors, GcPlaces, ThreadPlaces
<1>3. GcHeld /\ IntervalHeld /\ OtherHeld /\ GcThreadHeld /\ TableHeld
  BY <1>1 DEF GcHeld, IntervalHeld, OtherHeld, GcThreadHeld, TableHeld, ForkPlaces, Mutexes
<1>4. FunHeld /\ Registered /\ MainPlaces
  BY <1>1, DistinctAssumption DEF Init, FunHeld, Registered, MainPlaces, Actors
<1> QED
  BY <1>2, <1>3, <1>4 DEF IInv

(* The inductive invariant holds in every reachable state.                 *)
LEMMA IInvAlways == Spec => []IInv
BY IInvInit, IInvStep, PTL DEF Spec

(* The gc thread, every thread and main stay in the places named, and the  *)
(* mutexes have the owners named.                                          *)
THEOREM TypeCorrect == Spec => []TypeOK
<1>1. IInv => TypeOK
  BY DEF IInv
<1> QED
  BY <1>1, IInvAlways, PTL

(* Whatever the threads do, ::fork() copies a process whose collector is   *)
(* at rest: the forking thread holds every mutex a change is made under.   *)
THEOREM ForkSafe == Spec => []ForkFindsAllAtRest
<1>1. IInv => ForkFindsAllAtRest
  <2> SUFFICES ASSUME IInv, NEW t \in Threads, tpc[t] = "fork"
               PROVE  /\ gpc \in {"none", "start", "queue", "relockOther"}
                      /\ \A a \in Actors \ {t} :
                           tpc[a] \notin {"inGc", "inTable", "inTableGc", "entering", "leaving",
                                         "stopping", "fork"}
    BY DEF ForkFindsAllAtRest
  <2>1. owner["gc"] = t /\ owner["interval"] = t /\ owner["other"] = t
        /\ owner["gcThread"] = t /\ owner["table"] = t
    BY DEF IInv, GcHeld, IntervalHeld, OtherHeld, GcThreadHeld, TableHeld, ForkPlaces, Actors
  <2>2. gpc \in {"none", "start", "queue", "relockOther"}
    BY <2>1, DistinctAssumption DEF IInv, OtherHeld, GcThreadHeld
  <2>3. ASSUME NEW a \in Actors, a # t
        PROVE  tpc[a] \notin {"inGc", "inTable", "inTableGc", "stopping", "fork"}
    BY <2>1, <2>3 DEF IInv, GcHeld, IntervalHeld, TableHeld
  <2>4. ASSUME NEW a \in Actors, a # t
        PROVE  tpc[a] \notin {"entering", "leaving"}
    <3>1. CASE a = Main
      BY <3>1 DEF IInv, MainPlaces
    <3>2. CASE a \in Threads
      BY <2>4, <3>2 DEF IInv, FunHeld, Registered
    <3> QED
      BY <3>1, <3>2 DEF Actors
  <2> QED
    BY <2>2, <2>3, <2>4
<1> QED
  BY <1>1, IInvAlways, PTL

(* mark() never meets a thread that was stopped inside the gc mutex or     *)
(* while it was changing its flag.                                         *)
THEOREM MarkSafe == Spec => []MarkFindsAllAtRest
<1>1. IInv => MarkFindsAllAtRest
  BY DistinctAssumption
     DEF IInv, TypeOK, GcHeld, FunHeld, MarkFindsAllAtRest, Actors
<1> QED
  BY <1>1, IInvAlways, PTL
=============================================================================
