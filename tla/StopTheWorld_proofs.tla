------------------------ MODULE StopTheWorld_proofs ------------------------
(***************************************************************************)
(* For any number of collectors and threads: handlers use the              *)
(* ThreadStopCont of their own collector, nothing is left of a collection  *)
(* when it has ended, and no thread works on the heap while a collector    *)
(* has its lock.                                                           *)
(*                                                                         *)
(* The invariant says what each place of collect() knows: who holds a      *)
(* thread's mutex, where the handlers may be, and, for the two loops that  *)
(* wait, that the posts that have come and those that are still to come    *)
(* are together what the loop waits for.                                   *)
(***************************************************************************)
EXTENDS StopTheWorld, FiniteSetTheorems, TLAPS

Stopping == {"kill1", "wait1"}
Continuing == {"kill2", "wait2"}
Locked == Stopping \union {"mark"} \union Continuing

(* What a collector has, and what its loops have still to go through.      *)
CollectorInv(c) ==
  /\ gcMutex[c] <=> pc[c] # "sleep"
  /\ hasStopping[c] <=> pc[c] \in Stopping \union {"mark"}
  /\ stopMutex = c <=> pc[c] \in Stopping
  /\ pc[c] \in Stopping => stopCont = c
  /\ IsFiniteSet(contexts[c])
  /\ \A t \in Threads :
       t \in contexts[c] <=> (Owner[t] = c /\ tpc[t] \notin {"new", "gone"})
  /\ todo[c] \subseteq contexts[c]
  /\ pc[c] \in {"sleep", "mark"} => todo[c] = {}
  /\ pc[c] \in Stopping \union Continuing => todo[c] \subseteq Stoppable(c)

(* Who has a thread's mutex, and what the flag it guards says.             *)
MutexInv(t) ==
  LET c == Owner[t]
      locked == \/ pc[c] \in Locked
                \/ pc[c] = "mutexes" /\ t \notin todo[c]
                \/ pc[c] = "unlock" /\ t \in todo[c]
  IN /\ flag[t] <=> tpc[t] \in {"native", "leaving"}
     /\ mutex[t] \in {None, t, c}
     /\ mutex[t] = t <=> tpc[t] \in {"entering", "leaving"}
     /\ mutex[t] = c <=> (t \in contexts[c] /\ locked)

(* A thread's first signal and its handler.                                *)
HandlerInv(t) ==
  LET c == Owner[t]
  IN /\ handler[t] # "none" =>
          t \in Stoppable(c) /\ handled[t] = c /\ pc[c] \in Locked
     /\ handler[t] = "entered" => pc[c] \in Stopping
     /\ usr1[t] => t \in Stoppable(c) /\ handler[t] = "none" /\ pc[c] \in Stopping
     /\ pc[c] = "kill1" /\ t \in todo[c] => ~usr1[t] /\ handler[t] = "none"

(* The threads whose first post is still to come, and whose second.        *)
Unposted(c) == {t \in Stoppable(c) : handler[t] \in {"none", "entered"}}
Uncontinued(c) == {t \in Stoppable(c) : handler[t] # "none"}

(* The posts that have come and those still to come are what is waited for. *)
PostsInv(c) ==
  /\ pc[c] = "kill1" => stoppingSem[c] + Cardinality(Unposted(c)) = Cardinality(Stoppable(c))
  /\ pc[c] = "wait1" => stoppingSem[c] + Cardinality(Unposted(c)) = Cardinality(todo[c])
  /\ pc[c] \notin Stopping => stoppingSem[c] = 0
  /\ pc[c] = "mark" => Unposted(c) = {}
  /\ pc[c] = "kill2" => continuingSem[c] + Cardinality(Uncontinued(c)) = Cardinality(Stoppable(c))
  /\ pc[c] = "wait2" => continuingSem[c] + Cardinality(Uncontinued(c)) = Cardinality(todo[c])
  /\ pc[c] \notin Continuing => continuingSem[c] = 0

IInv ==
  /\ TypeOK
  /\ \A c \in Collectors : CollectorInv(c) /\ PostsInv(c)
  /\ \A t \in Threads : MutexInv(t) /\ HandlerInv(t)

----------------------------------------------------------------------------
(* The counting.                                                           *)

(* What PostsInv says of a collector that no step of others is about.      *)
LEMMA PostsSame ==
  ASSUME NEW c \in Collectors, PostsInv(c), pc'[c] = pc[c],
         stoppingSem'[c] = stoppingSem[c], continuingSem'[c] = continuingSem[c],
         pc[c] \in Locked => Stoppable(c)' = Stoppable(c),
         pc[c] \in {"wait1", "wait2"} => todo'[c] = todo[c],
         pc[c] \in Stopping \union {"mark"} => Unposted(c)' = Unposted(c),
         pc[c] \in Continuing => Uncontinued(c)' = Uncontinued(c)
  PROVE  PostsInv(c)'
BY DEF PostsInv, Stopping, Continuing, Locked

(* Where no thread is stopped, both semaphores are at zero.                *)
LEMMA PostsIdle ==
  ASSUME NEW c \in Collectors, pc'[c] \notin Locked,
         stoppingSem'[c] = 0, continuingSem'[c] = 0
  PROVE  PostsInv(c)'
BY DEF PostsInv, Stopping, Continuing, Locked

(* The sets that are counted are finite.                                   *)
LEMMA Finite ==
  ASSUME IInv, NEW c \in Collectors
  PROVE  /\ IsFiniteSet(Stoppable(c)) /\ IsFiniteSet(Unposted(c)) /\ IsFiniteSet(Uncontinued(c))
         /\ IsFiniteSet(todo[c])
         /\ Cardinality(Stoppable(c)) \in Nat /\ Cardinality(Unposted(c)) \in Nat
         /\ Cardinality(Uncontinued(c)) \in Nat /\ Cardinality(todo[c]) \in Nat
<1>1. IsFiniteSet(contexts[c]) /\ todo[c] \subseteq contexts[c]
  BY DEF IInv, CollectorInv
<1>2. /\ Stoppable(c) \subseteq contexts[c] /\ Unposted(c) \subseteq contexts[c]
      /\ Uncontinued(c) \subseteq contexts[c]
  BY DEF Stoppable, Unposted, Uncontinued
<1> QED
  BY <1>1, <1>2, FS_Subset, FS_CardinalityType

(* Who has its own mutex keeps its collector out: it is not being stopped. *)
LEMMA OwnMutex ==
  ASSUME IInv, NEW t \in Threads, mutex[t] = t
  PROVE  /\ pc[Owner[t]] \notin Locked /\ t # Owner[t] /\ t \in contexts[Owner[t]]
         /\ handler[t] = "none" /\ ~usr1[t]
<1>1. Owner[t] \in Collectors /\ t # Owner[t]
  BY OwnerAssumption, KindsAssumption
<1>2. tpc[t] \in {"entering", "leaving"} /\ mutex[t] # Owner[t]
  BY <1>1 DEF IInv, MutexInv
<1>3. t \in contexts[Owner[t]]
  BY <1>1, <1>2 DEF IInv, CollectorInv
<1>4. pc[Owner[t]] \notin Locked
  BY <1>2, <1>3 DEF IInv, MutexInv
<1> QED
  BY <1>1, <1>3, <1>4 DEF IInv, HandlerInv, Locked, Stopping

----------------------------------------------------------------------------
(* The steps: each action preserves the invariant, part by part.          *)

LEMMA LockGCStep ==
  ASSUME IInv, NEW c \in Collectors, LockGC(c)
  PROVE  IInv'
<1> USE OwnerAssumption, NoneAssumption, KindsAssumption DEF IInv, Stopping, Continuing, Locked
<1>1. TypeOK'
  BY DEF LockGC, Goto, Begin, TypeOK, threadVars, signalVars, handlerVars
<1>2. ASSUME NEW d \in Collectors PROVE CollectorInv(d)'
  BY <1>2, FS_AddElement, FS_RemoveElement
     DEF LockGC, Goto, Begin, TypeOK, threadVars, signalVars, handlerVars, CollectorInv, MutexInv,
         HandlerInv, Stoppable
<1>3. ASSUME NEW d \in Collectors PROVE PostsInv(d)'
  <2>1. CASE d # c
    <3>1. /\ pc'[d] = pc[d] /\ stoppingSem'[d] = stoppingSem[d]
          /\ continuingSem'[d] = continuingSem[d] /\ todo'[d] = todo[d]
      BY <2>1 DEF LockGC, Goto, Begin, TypeOK, threadVars, signalVars, handlerVars, HandlerInv
    <3>2. contexts' = contexts /\ flag' = flag /\ handler' = handler
      BY DEF LockGC, Goto, Begin, threadVars, signalVars, handlerVars
    <3>3. Stoppable(d)' = Stoppable(d) /\ Unposted(d)' = Unposted(d) /\ Uncontinued(d)' = Uncontinued(d)
      BY ONLY <3>2 DEF Stoppable, Unposted, Uncontinued
    <3> QED
      BY <3>1, <3>3, PostsSame
  <2>2. CASE d = c
    <3>1. pc[c] = "sleep" /\ pc'[c] = "mutexes"
          /\ stoppingSem' = stoppingSem /\ continuingSem' = continuingSem
      BY DEF LockGC, Goto, TypeOK
    <3>2. stoppingSem[c] = 0 /\ continuingSem[c] = 0
      BY <3>1 DEF CollectorInv, PostsInv
    <3> QED
      BY ONLY <2>2, <3>1, <3>2, PostsIdle, c \in Collectors DEF Locked
  <2> QED
    BY <2>1, <2>2
<1>4. ASSUME NEW u \in Threads PROVE MutexInv(u)'
  BY <1>4
     DEF LockGC, Goto, Begin, TypeOK, threadVars, signalVars, handlerVars, CollectorInv, MutexInv,
         Stoppable
<1>5. ASSUME NEW u \in Threads PROVE HandlerInv(u)'
  BY <1>5
     DEF LockGC, Goto, Begin, TypeOK, threadVars, signalVars, handlerVars, CollectorInv, MutexInv,
         HandlerInv, PostsInv, Stoppable
<1> QED
  BY <1>1, <1>2, <1>3, <1>4, <1>5

LEMMA LockFunMutexStep ==
  ASSUME IInv, NEW c \in Collectors, LockFunMutex(c)
  PROVE  IInv'
<1> USE OwnerAssumption, NoneAssumption, KindsAssumption DEF IInv, Stopping, Continuing, Locked
<1>1. TypeOK'
  BY DEF LockFunMutex, Take, TypeOK, threadVars, signalVars, handlerVars
<1>2. ASSUME NEW d \in Collectors PROVE CollectorInv(d)'
  BY <1>2, FS_AddElement, FS_RemoveElement
     DEF LockFunMutex, Take, TypeOK, threadVars, signalVars, handlerVars, CollectorInv, MutexInv,
         HandlerInv, Stoppable
<1>3. ASSUME NEW d \in Collectors PROVE PostsInv(d)'
  <2>1. CASE d # c
    <3>1. /\ pc'[d] = pc[d] /\ stoppingSem'[d] = stoppingSem[d]
          /\ continuingSem'[d] = continuingSem[d] /\ todo'[d] = todo[d]
      BY <2>1 DEF LockFunMutex, Take, TypeOK, threadVars, signalVars, handlerVars, HandlerInv
    <3>2. Stoppable(d)' = Stoppable(d) /\ Unposted(d)' = Unposted(d) /\ Uncontinued(d)' = Uncontinued(d)
      BY <2>1
         DEF LockFunMutex, Take, TypeOK, threadVars, signalVars, handlerVars, CollectorInv,
             HandlerInv, Stoppable, Unposted, Uncontinued
    <3> QED
      BY <3>1, <3>2, PostsSame
  <2>2. CASE d = c
    BY <2>2, PostsIdle
       DEF LockFunMutex, Take, TypeOK, threadVars, signalVars, handlerVars, CollectorInv, MutexInv,
           PostsInv
  <2> QED
    BY <2>1, <2>2
<1>4. ASSUME NEW u \in Threads PROVE MutexInv(u)'
  BY <1>4
     DEF LockFunMutex, Take, TypeOK, threadVars, signalVars, handlerVars, CollectorInv, MutexInv,
         Stoppable
<1>5. ASSUME NEW u \in Threads PROVE HandlerInv(u)'
  BY <1>5
     DEF LockFunMutex, Take, TypeOK, threadVars, signalVars, handlerVars, CollectorInv, MutexInv,
         HandlerInv, PostsInv, Stoppable
<1> QED
  BY <1>1, <1>2, <1>3, <1>4, <1>5

LEMMA BeginStoppingStep ==
  ASSUME IInv, NEW c \in Collectors, BeginStopping(c)
  PROVE  IInv'
<1> USE OwnerAssumption, NoneAssumption, KindsAssumption DEF IInv, Stopping, Continuing, Locked
<1>1. TypeOK'
  BY DEF BeginStopping, Goto, Begin, TypeOK, threadVars, signalVars, handlerVars, Stoppable
<1>2. ASSUME NEW d \in Collectors PROVE CollectorInv(d)'
  BY <1>2, FS_AddElement, FS_RemoveElement
     DEF BeginStopping, Goto, Begin, TypeOK, threadVars, signalVars, handlerVars, CollectorInv,
         MutexInv, HandlerInv, Stoppable
<1>3. ASSUME NEW d \in Collectors PROVE PostsInv(d)'
  <2>1. CASE d # c
    <3>1. /\ pc'[d] = pc[d] /\ stoppingSem'[d] = stoppingSem[d]
          /\ continuingSem'[d] = continuingSem[d] /\ todo'[d] = todo[d]
      BY <2>1
         DEF BeginStopping, Goto, Begin, TypeOK, threadVars, signalVars, handlerVars, HandlerInv
    <3>2. Stoppable(d)' = Stoppable(d) /\ Unposted(d)' = Unposted(d) /\ Uncontinued(d)' = Uncontinued(d)
      BY <2>1
         DEF BeginStopping, Goto, Begin, TypeOK, threadVars, signalVars, handlerVars, CollectorInv,
             HandlerInv, Stoppable, Unposted, Uncontinued
    <3> QED
      BY <3>1, <3>2, PostsSame
  <2>2. CASE d = c
    <3>1. /\ pc'[c] = "kill1" /\ stoppingSem'[c] = 0 /\ continuingSem'[c] = 0
      BY DEF BeginStopping, Goto, Begin, TypeOK, threadVars, signalVars, handlerVars, PostsInv
    <3>2. \A t \in contexts[c] : t \in Threads /\ Owner[t] = c
      BY DEF TypeOK, CollectorInv
    <3>3. \A t \in contexts[c] : handler[t] = "none"
      BY <3>2
         DEF BeginStopping, Goto, Begin, TypeOK, threadVars, signalVars, handlerVars, HandlerInv
    <3>4. Stoppable(c)' = Stoppable(c) /\ Unposted(c)' = Stoppable(c)
      BY <3>3 DEF BeginStopping, threadVars, handlerVars, Stoppable, Unposted
    <3>5. Cardinality(Stoppable(c)) \in Nat
      BY Finite
    <3> QED
      BY <2>2, <3>1, <3>4, <3>5 DEF PostsInv
  <2> QED
    BY <2>1, <2>2
<1>4. ASSUME NEW u \in Threads PROVE MutexInv(u)'
  BY <1>4
     DEF BeginStopping, Goto, Begin, TypeOK, threadVars, signalVars, handlerVars, CollectorInv,
         MutexInv, Stoppable
<1>5. ASSUME NEW u \in Threads PROVE HandlerInv(u)'
  BY <1>5
     DEF BeginStopping, Goto, Begin, TypeOK, threadVars, signalVars, handlerVars, CollectorInv,
         MutexInv, HandlerInv, PostsInv, Stoppable
<1> QED
  BY <1>1, <1>2, <1>3, <1>4, <1>5

LEMMA KillUsr1Step ==
  ASSUME IInv, NEW c \in Collectors, KillUsr1(c)
  PROVE  IInv'
<1> USE OwnerAssumption, NoneAssumption, KindsAssumption DEF IInv, Stopping, Continuing, Locked
<1>1. TypeOK'
  BY DEF KillUsr1, Take, TypeOK, threadVars, handlerVars
<1>2. ASSUME NEW d \in Collectors PROVE CollectorInv(d)'
  BY <1>2, FS_AddElement, FS_RemoveElement
     DEF KillUsr1, Take, TypeOK, threadVars, handlerVars, CollectorInv, MutexInv, HandlerInv,
         Stoppable
<1>3. ASSUME NEW d \in Collectors PROVE PostsInv(d)'
  <2>1. /\ pc'[d] = pc[d] /\ stoppingSem'[d] = stoppingSem[d] /\ continuingSem'[d] = continuingSem[d]
        /\ pc[d] \in {"wait1", "wait2"} => todo'[d] = todo[d]
    BY DEF KillUsr1, Take, TypeOK, threadVars, handlerVars
  <2>2. /\ Stoppable(d)' = Stoppable(d)
        /\ pc[d] \in Stopping \union {"mark"} => Unposted(d)' = Unposted(d)
        /\ pc[d] \in Continuing => Uncontinued(d)' = Uncontinued(d)
    BY DEF KillUsr1, Take, TypeOK, threadVars, handlerVars, HandlerInv, Stoppable, Unposted,
           Uncontinued
  <2> QED
    BY <2>1, <2>2, PostsSame
<1>4. ASSUME NEW u \in Threads PROVE MutexInv(u)'
  BY <1>4 DEF KillUsr1, Take, TypeOK, threadVars, handlerVars, CollectorInv, MutexInv, Stoppable
<1>5. ASSUME NEW u \in Threads PROVE HandlerInv(u)'
  <2>1. /\ pc' = pc /\ contexts' = contexts /\ flag' = flag /\ handler' = handler
        /\ handled' = handled
    BY DEF KillUsr1, Take, TypeOK, threadVars, handlerVars
  <2>2. PICK t \in Threads : t \in todo[c] /\ todo' = [todo EXCEPT ![c] = @ \ {t}]
                            /\ usr1' = [usr1 EXCEPT ![t] = TRUE]
    BY DEF KillUsr1, Take
  <2>3. pc[c] = "kill1" /\ t \in Stoppable(c) /\ Owner[t] = c
    BY <2>2 DEF KillUsr1, CollectorInv, Stoppable
  <2>4. handler[t] = "none"
    BY <2>2, <2>3 DEF HandlerInv
  <2>5. CASE u = t
    <3>1. todo'[c] = todo[c] \ {t}
      BY <2>2 DEF TypeOK
    <3> QED
      BY <2>1, <2>3, <2>4, <2>5, <3>1 DEF HandlerInv, Stoppable
  <2>6. CASE u # t
    <3>1. usr1'[u] = usr1[u] /\ (u \in todo'[Owner[u]] => u \in todo[Owner[u]])
      BY <2>2, <2>6 DEF TypeOK
    <3> QED
      BY <2>1, <3>1 DEF HandlerInv, Stoppable
  <2> QED
    BY <2>5, <2>6
<1> QED
  BY <1>1, <1>2, <1>3, <1>4, <1>5

LEMMA BeginWaitStoppedStep ==
  ASSUME IInv, NEW c \in Collectors, BeginWaitStopped(c)
  PROVE  IInv'
<1> USE OwnerAssumption, NoneAssumption, KindsAssumption DEF IInv, Stopping, Continuing, Locked
<1>1. TypeOK'
  BY DEF BeginWaitStopped, Goto, Begin, TypeOK, threadVars, signalVars, handlerVars, Stoppable
<1>2. ASSUME NEW d \in Collectors PROVE CollectorInv(d)'
  BY <1>2, FS_AddElement, FS_RemoveElement
     DEF BeginWaitStopped, Goto, Begin, TypeOK, threadVars, signalVars, handlerVars, CollectorInv,
         MutexInv, HandlerInv, Stoppable
<1>3. ASSUME NEW d \in Collectors PROVE PostsInv(d)'
  <2>1. CASE d # c
    <3>1. /\ pc'[d] = pc[d] /\ stoppingSem'[d] = stoppingSem[d]
          /\ continuingSem'[d] = continuingSem[d] /\ todo'[d] = todo[d]
      BY <2>1
         DEF BeginWaitStopped, Goto, Begin, TypeOK, threadVars, signalVars, handlerVars, HandlerInv
    <3>2. Stoppable(d)' = Stoppable(d) /\ Unposted(d)' = Unposted(d) /\ Uncontinued(d)' = Uncontinued(d)
      BY <2>1
         DEF BeginWaitStopped, Goto, Begin, TypeOK, threadVars, signalVars, handlerVars,
             CollectorInv, HandlerInv, Stoppable, Unposted, Uncontinued
    <3> QED
      BY <3>1, <3>2, PostsSame
  <2>2. CASE d = c
    <3>1. /\ pc'[c] = "wait1" /\ todo'[c] = Stoppable(c)
          /\ stoppingSem'[c] = stoppingSem[c] /\ continuingSem'[c] = continuingSem[c]
      BY DEF BeginWaitStopped, Goto, Begin, TypeOK, threadVars, signalVars, handlerVars
    <3>2. Stoppable(c)' = Stoppable(c) /\ Unposted(c)' = Unposted(c) /\ Uncontinued(c)' = Uncontinued(c)
      BY DEF BeginWaitStopped, threadVars, handlerVars, Stoppable, Unposted, Uncontinued
    <3> QED
      BY <2>2, <3>1, <3>2 DEF PostsInv, BeginWaitStopped, Goto
  <2> QED
    BY <2>1, <2>2
<1>4. ASSUME NEW u \in Threads PROVE MutexInv(u)'
  BY <1>4
     DEF BeginWaitStopped, Goto, Begin, TypeOK, threadVars, signalVars, handlerVars, CollectorInv,
         MutexInv, Stoppable
<1>5. ASSUME NEW u \in Threads PROVE HandlerInv(u)'
  BY <1>5
     DEF BeginWaitStopped, Goto, Begin, TypeOK, threadVars, signalVars, handlerVars, CollectorInv,
         MutexInv, HandlerInv, PostsInv, Stoppable
<1> QED
  BY <1>1, <1>2, <1>3, <1>4, <1>5

LEMMA WaitStoppedStep ==
  ASSUME IInv, NEW c \in Collectors, WaitStopped(c)
  PROVE  IInv'
<1> USE OwnerAssumption, NoneAssumption, KindsAssumption DEF IInv, Stopping, Continuing, Locked
<1>1. TypeOK'
  BY DEF WaitStopped, Take, TypeOK, threadVars, signalVars, handlerVars
<1>2. ASSUME NEW d \in Collectors PROVE CollectorInv(d)'
  BY <1>2, FS_AddElement, FS_RemoveElement
     DEF WaitStopped, Take, TypeOK, threadVars, signalVars, handlerVars, CollectorInv, MutexInv,
         HandlerInv, Stoppable
<1>3. ASSUME NEW d \in Collectors PROVE PostsInv(d)'
  <2>1. CASE d # c
    <3>1. /\ pc'[d] = pc[d] /\ stoppingSem'[d] = stoppingSem[d]
          /\ continuingSem'[d] = continuingSem[d] /\ todo'[d] = todo[d]
      BY <2>1 DEF WaitStopped, Take, TypeOK, threadVars, signalVars, handlerVars, HandlerInv
    <3>2. Stoppable(d)' = Stoppable(d) /\ Unposted(d)' = Unposted(d) /\ Uncontinued(d)' = Uncontinued(d)
      BY <2>1
         DEF WaitStopped, Take, TypeOK, threadVars, signalVars, handlerVars, CollectorInv,
             HandlerInv, Stoppable, Unposted, Uncontinued
    <3> QED
      BY <3>1, <3>2, PostsSame
  <2>2. CASE d = c
    <3>1. PICK t \in Threads : Take(c, t)
      BY DEF WaitStopped
    <3>2. /\ pc[c] = "wait1" /\ pc'[c] = "wait1" /\ continuingSem'[c] = continuingSem[c]
          /\ stoppingSem[c] \in Nat /\ stoppingSem'[c] = stoppingSem[c] - 1
      BY DEF WaitStopped, TypeOK
    <3>3. todo'[c] = todo[c] \ {t} /\ t \in todo[c]
      BY <3>1 DEF Take, TypeOK
    <3>4. Stoppable(c)' = Stoppable(c) /\ Unposted(c)' = Unposted(c) /\ Uncontinued(c)' = Uncontinued(c)
      BY DEF WaitStopped, threadVars, handlerVars, Stoppable, Unposted, Uncontinued
    <3>5. IsFiniteSet(todo[c])
      BY Finite
    <3>6. Cardinality(todo'[c]) = Cardinality(todo[c]) - 1
      BY <3>3, <3>5, FS_RemoveElement
    <3>7. /\ Cardinality(todo[c]) \in Nat /\ Cardinality(Unposted(c)) \in Nat
          /\ Cardinality(Uncontinued(c)) \in Nat
      BY Finite
    <3> QED
      BY <2>2, <3>2, <3>4, <3>6, <3>7 DEF PostsInv
  <2> QED
    BY <2>1, <2>2
<1>4. ASSUME NEW u \in Threads PROVE MutexInv(u)'
  BY <1>4
     DEF WaitStopped, Take, TypeOK, threadVars, signalVars, handlerVars, CollectorInv, MutexInv,
         Stoppable
<1>5. ASSUME NEW u \in Threads PROVE HandlerInv(u)'
  BY <1>5
     DEF WaitStopped, Take, TypeOK, threadVars, signalVars, handlerVars, CollectorInv, MutexInv,
         HandlerInv, PostsInv, Stoppable
<1> QED
  BY <1>1, <1>2, <1>3, <1>4, <1>5

LEMMA BeginMarkStep ==
  ASSUME IInv, NEW c \in Collectors, BeginMark(c)
  PROVE  IInv'
<1> USE OwnerAssumption, NoneAssumption, KindsAssumption DEF IInv, Stopping, Continuing, Locked
<1>1. TypeOK'
  BY DEF BeginMark, Goto, TypeOK, threadVars, signalVars, handlerVars, Stoppable
<1>2. ASSUME NEW d \in Collectors PROVE CollectorInv(d)'
  BY <1>2, FS_AddElement, FS_RemoveElement
     DEF BeginMark, Goto, TypeOK, threadVars, signalVars, handlerVars, CollectorInv, MutexInv,
         HandlerInv, Stoppable
<1>3. ASSUME NEW d \in Collectors PROVE PostsInv(d)'
  <2>1. CASE d # c
    <3>1. /\ pc'[d] = pc[d] /\ stoppingSem'[d] = stoppingSem[d]
          /\ continuingSem'[d] = continuingSem[d] /\ todo'[d] = todo[d]
      BY <2>1 DEF BeginMark, Goto, TypeOK, threadVars, signalVars, handlerVars, HandlerInv
    <3>2. Stoppable(d)' = Stoppable(d) /\ Unposted(d)' = Unposted(d) /\ Uncontinued(d)' = Uncontinued(d)
      BY <2>1
         DEF BeginMark, Goto, TypeOK, threadVars, signalVars, handlerVars, CollectorInv,
             HandlerInv, Stoppable, Unposted, Uncontinued
    <3> QED
      BY <3>1, <3>2, PostsSame
  <2>2. CASE d = c
    <3>1. /\ pc[c] = "wait1" /\ pc'[c] = "mark" /\ todo[c] = {}
          /\ stoppingSem'[c] = stoppingSem[c] /\ continuingSem'[c] = continuingSem[c]
          /\ stoppingSem[c] \in Nat
      BY DEF BeginMark, Goto, TypeOK, threadVars, signalVars, handlerVars
    <3>2. Stoppable(c)' = Stoppable(c) /\ Unposted(c)' = Unposted(c) /\ Uncontinued(c)' = Uncontinued(c)
      BY DEF BeginMark, threadVars, handlerVars, Stoppable, Unposted, Uncontinued
    <3>3. IsFiniteSet(Unposted(c)) /\ Cardinality(Unposted(c)) \in Nat
      BY Finite
    <3>4. stoppingSem[c] + Cardinality(Unposted(c)) = 0 /\ continuingSem[c] = 0
      BY <3>1, FS_EmptySet DEF PostsInv
    <3>5. Cardinality(Unposted(c)) = 0 /\ stoppingSem[c] = 0
      BY <3>1, <3>3, <3>4
    <3>6. Unposted(c) = {}
      BY <3>3, <3>5, FS_EmptySet
    <3> QED
      BY <2>2, <3>1, <3>2, <3>4, <3>5, <3>6 DEF PostsInv
  <2> QED
    BY <2>1, <2>2
<1>4. ASSUME NEW u \in Threads PROVE MutexInv(u)'
  BY <1>4
     DEF BeginMark, Goto, TypeOK, threadVars, signalVars, handlerVars, CollectorInv, MutexInv,
         Stoppable
<1>5. ASSUME NEW u \in Threads PROVE HandlerInv(u)'
  <2>1. /\ pc[c] = "wait1" /\ todo[c] = {} /\ pc' = [pc EXCEPT ![c] = "mark"]
        /\ contexts' = contexts /\ flag' = flag
        /\ handler' = handler /\ handled' = handled /\ usr1' = usr1
        /\ stoppingSem[c] \in Nat
    BY DEF BeginMark, Goto, TypeOK, threadVars, signalVars, handlerVars
  <2>2. Unposted(c) = {}
    <3>1. IsFiniteSet(Unposted(c)) /\ Cardinality(Unposted(c)) \in Nat
      BY Finite
    <3>2. stoppingSem[c] + Cardinality(Unposted(c)) = 0
      BY <2>1, FS_EmptySet DEF PostsInv
    <3>3. Cardinality(Unposted(c)) = 0
      BY <2>1, <3>1, <3>2
    <3> QED
      BY <3>1, <3>3, FS_EmptySet
  <2>3. CASE Owner[u] = c
    <3>1. pc'[c] = "mark"
      BY <2>1 DEF TypeOK
    <3>2. handler[u] \in {"none", "entered", "loop", "suspended"}
      BY DEF TypeOK
    <3> QED
      BY <2>1, <2>2, <2>3, <3>1, <3>2 DEF HandlerInv, Stoppable, Unposted
  <2>4. CASE Owner[u] # c
    <3>1. /\ pc'[Owner[u]] = pc[Owner[u]]
          /\ pc'[Owner[u]] = "kill1" => todo'[Owner[u]] = todo[Owner[u]]
      BY <2>1, <2>4 DEF BeginMark, Goto, TypeOK, threadVars, signalVars, handlerVars
    <3> QED
      BY <2>1, <3>1 DEF HandlerInv, Stoppable
  <2> QED
    BY <2>3, <2>4
<1> QED
  BY <1>1, <1>2, <1>3, <1>4, <1>5

LEMMA BeginContinuingStep ==
  ASSUME IInv, NEW c \in Collectors, BeginContinuing(c)
  PROVE  IInv'
<1> USE OwnerAssumption, NoneAssumption, KindsAssumption DEF IInv, Stopping, Continuing, Locked
<1>1. TypeOK'
  BY DEF BeginContinuing, Goto, Begin, TypeOK, threadVars, signalVars, handlerVars, Stoppable
<1>2. ASSUME NEW d \in Collectors PROVE CollectorInv(d)'
  BY <1>2, FS_AddElement, FS_RemoveElement
     DEF BeginContinuing, Goto, Begin, TypeOK, threadVars, signalVars, handlerVars, CollectorInv,
         MutexInv, HandlerInv, Stoppable
<1>3. ASSUME NEW d \in Collectors PROVE PostsInv(d)'
  <2>1. CASE d # c
    <3>1. /\ pc'[d] = pc[d] /\ stoppingSem'[d] = stoppingSem[d]
          /\ continuingSem'[d] = continuingSem[d] /\ todo'[d] = todo[d]
      BY <2>1
         DEF BeginContinuing, Goto, Begin, TypeOK, threadVars, signalVars, handlerVars, HandlerInv
    <3>2. Stoppable(d)' = Stoppable(d) /\ Unposted(d)' = Unposted(d) /\ Uncontinued(d)' = Uncontinued(d)
      BY <2>1
         DEF BeginContinuing, Goto, Begin, TypeOK, threadVars, signalVars, handlerVars,
             CollectorInv, HandlerInv, Stoppable, Unposted, Uncontinued
    <3> QED
      BY <3>1, <3>2, PostsSame
  <2>2. CASE d = c
    <3>1. /\ pc[c] = "mark" /\ pc'[c] = "kill2"
          /\ stoppingSem'[c] = stoppingSem[c] /\ continuingSem'[c] = continuingSem[c]
      BY DEF BeginContinuing, Goto, Begin, TypeOK, threadVars, signalVars, handlerVars
    <3>2. Unposted(c) = {} /\ stoppingSem[c] = 0 /\ continuingSem[c] = 0
      BY <3>1 DEF PostsInv
    <3>3. Stoppable(c)' = Stoppable(c) /\ Uncontinued(c)' = Stoppable(c)
      BY <3>2 DEF BeginContinuing, threadVars, handlerVars, Stoppable, Unposted, Uncontinued
    <3>4. Cardinality(Stoppable(c)) \in Nat
      BY Finite
    <3> QED
      BY <2>2, <3>1, <3>2, <3>3, <3>4 DEF PostsInv
  <2> QED
    BY <2>1, <2>2
<1>4. ASSUME NEW u \in Threads PROVE MutexInv(u)'
  BY <1>4
     DEF BeginContinuing, Goto, Begin, TypeOK, threadVars, signalVars, handlerVars, CollectorInv,
         MutexInv, Stoppable
<1>5. ASSUME NEW u \in Threads PROVE HandlerInv(u)'
  BY <1>5
     DEF BeginContinuing, Goto, Begin, TypeOK, threadVars, signalVars, handlerVars, CollectorInv,
         MutexInv, HandlerInv, PostsInv, Stoppable
<1> QED
  BY <1>1, <1>2, <1>3, <1>4, <1>5

LEMMA KillUsr2Step ==
  ASSUME IInv, NEW c \in Collectors, KillUsr2(c)
  PROVE  IInv'
<1> USE OwnerAssumption, NoneAssumption, KindsAssumption DEF IInv, Stopping, Continuing, Locked
<1>1. TypeOK'
  BY DEF KillUsr2, Take, TypeOK, threadVars, handlerVars
<1>2. ASSUME NEW d \in Collectors PROVE CollectorInv(d)'
  BY <1>2, FS_AddElement, FS_RemoveElement
     DEF KillUsr2, Take, TypeOK, threadVars, handlerVars, CollectorInv, MutexInv, HandlerInv,
         Stoppable
<1>3. ASSUME NEW d \in Collectors PROVE PostsInv(d)'
  <2>1. /\ pc'[d] = pc[d] /\ stoppingSem'[d] = stoppingSem[d] /\ continuingSem'[d] = continuingSem[d]
        /\ pc[d] \in {"wait1", "wait2"} => todo'[d] = todo[d]
    BY DEF KillUsr2, Take, TypeOK, threadVars, handlerVars
  <2>2. /\ Stoppable(d)' = Stoppable(d)
        /\ pc[d] \in Stopping \union {"mark"} => Unposted(d)' = Unposted(d)
        /\ pc[d] \in Continuing => Uncontinued(d)' = Uncontinued(d)
    BY DEF KillUsr2, Take, TypeOK, threadVars, handlerVars, HandlerInv, Stoppable, Unposted,
           Uncontinued
  <2> QED
    BY <2>1, <2>2, PostsSame
<1>4. ASSUME NEW u \in Threads PROVE MutexInv(u)'
  BY <1>4 DEF KillUsr2, Take, TypeOK, threadVars, handlerVars, CollectorInv, MutexInv, Stoppable
<1>5. ASSUME NEW u \in Threads PROVE HandlerInv(u)'
  BY <1>5
     DEF KillUsr2, Take, TypeOK, threadVars, handlerVars, CollectorInv, MutexInv, HandlerInv,
         PostsInv, Stoppable
<1> QED
  BY <1>1, <1>2, <1>3, <1>4, <1>5

LEMMA BeginWaitContinuedStep ==
  ASSUME IInv, NEW c \in Collectors, BeginWaitContinued(c)
  PROVE  IInv'
<1> USE OwnerAssumption, NoneAssumption, KindsAssumption DEF IInv, Stopping, Continuing, Locked
<1>1. TypeOK'
  BY DEF BeginWaitContinued, Goto, Begin, TypeOK, threadVars, signalVars, handlerVars, Stoppable
<1>2. ASSUME NEW d \in Collectors PROVE CollectorInv(d)'
  BY <1>2, FS_AddElement, FS_RemoveElement
     DEF BeginWaitContinued, Goto, Begin, TypeOK, threadVars, signalVars, handlerVars,
         CollectorInv, MutexInv, HandlerInv, Stoppable
<1>3. ASSUME NEW d \in Collectors PROVE PostsInv(d)'
  <2>1. CASE d # c
    <3>1. /\ pc'[d] = pc[d] /\ stoppingSem'[d] = stoppingSem[d]
          /\ continuingSem'[d] = continuingSem[d] /\ todo'[d] = todo[d]
      BY <2>1
         DEF BeginWaitContinued, Goto, Begin, TypeOK, threadVars, signalVars, handlerVars,
             HandlerInv
    <3>2. Stoppable(d)' = Stoppable(d) /\ Unposted(d)' = Unposted(d) /\ Uncontinued(d)' = Uncontinued(d)
      BY <2>1
         DEF BeginWaitContinued, Goto, Begin, TypeOK, threadVars, signalVars, handlerVars,
             CollectorInv, HandlerInv, Stoppable, Unposted, Uncontinued
    <3> QED
      BY <3>1, <3>2, PostsSame
  <2>2. CASE d = c
    <3>1. /\ pc'[c] = "wait2" /\ todo'[c] = Stoppable(c)
          /\ stoppingSem'[c] = stoppingSem[c] /\ continuingSem'[c] = continuingSem[c]
      BY DEF BeginWaitContinued, Goto, Begin, TypeOK, threadVars, signalVars, handlerVars
    <3>2. Stoppable(c)' = Stoppable(c) /\ Unposted(c)' = Unposted(c) /\ Uncontinued(c)' = Uncontinued(c)
      BY DEF BeginWaitContinued, threadVars, handlerVars, Stoppable, Unposted, Uncontinued
    <3> QED
      BY <2>2, <3>1, <3>2 DEF PostsInv, BeginWaitContinued, Goto
  <2> QED
    BY <2>1, <2>2
<1>4. ASSUME NEW u \in Threads PROVE MutexInv(u)'
  BY <1>4
     DEF BeginWaitContinued, Goto, Begin, TypeOK, threadVars, signalVars, handlerVars,
         CollectorInv, MutexInv, Stoppable
<1>5. ASSUME NEW u \in Threads PROVE HandlerInv(u)'
  BY <1>5
     DEF BeginWaitContinued, Goto, Begin, TypeOK, threadVars, signalVars, handlerVars,
         CollectorInv, MutexInv, HandlerInv, PostsInv, Stoppable
<1> QED
  BY <1>1, <1>2, <1>3, <1>4, <1>5

LEMMA WaitContinuedStep ==
  ASSUME IInv, NEW c \in Collectors, WaitContinued(c)
  PROVE  IInv'
<1> USE OwnerAssumption, NoneAssumption, KindsAssumption DEF IInv, Stopping, Continuing, Locked
<1>1. TypeOK'
  BY DEF WaitContinued, Take, TypeOK, threadVars, signalVars, handlerVars
<1>2. ASSUME NEW d \in Collectors PROVE CollectorInv(d)'
  BY <1>2, FS_AddElement, FS_RemoveElement
     DEF WaitContinued, Take, TypeOK, threadVars, signalVars, handlerVars, CollectorInv, MutexInv,
         HandlerInv, Stoppable
<1>3. ASSUME NEW d \in Collectors PROVE PostsInv(d)'
  <2>1. CASE d # c
    <3>1. /\ pc'[d] = pc[d] /\ stoppingSem'[d] = stoppingSem[d]
          /\ continuingSem'[d] = continuingSem[d] /\ todo'[d] = todo[d]
      BY <2>1 DEF WaitContinued, Take, TypeOK, threadVars, signalVars, handlerVars, HandlerInv
    <3>2. Stoppable(d)' = Stoppable(d) /\ Unposted(d)' = Unposted(d) /\ Uncontinued(d)' = Uncontinued(d)
      BY <2>1
         DEF WaitContinued, Take, TypeOK, threadVars, signalVars, handlerVars, CollectorInv,
             HandlerInv, Stoppable, Unposted, Uncontinued
    <3> QED
      BY <3>1, <3>2, PostsSame
  <2>2. CASE d = c
    <3>1. PICK t \in Threads : Take(c, t)
      BY DEF WaitContinued
    <3>2. /\ pc[c] = "wait2" /\ pc'[c] = "wait2" /\ stoppingSem'[c] = stoppingSem[c]
          /\ continuingSem[c] \in Nat /\ continuingSem'[c] = continuingSem[c] - 1
      BY DEF WaitContinued, TypeOK
    <3>3. todo'[c] = todo[c] \ {t} /\ t \in todo[c]
      BY <3>1 DEF Take, TypeOK
    <3>4. Stoppable(c)' = Stoppable(c) /\ Unposted(c)' = Unposted(c) /\ Uncontinued(c)' = Uncontinued(c)
      BY DEF WaitContinued, threadVars, handlerVars, Stoppable, Unposted, Uncontinued
    <3>5. IsFiniteSet(todo[c])
      BY Finite
    <3>6. Cardinality(todo'[c]) = Cardinality(todo[c]) - 1
      BY <3>3, <3>5, FS_RemoveElement
    <3>7. /\ Cardinality(todo[c]) \in Nat /\ Cardinality(Unposted(c)) \in Nat
          /\ Cardinality(Uncontinued(c)) \in Nat
      BY Finite
    <3> QED
      BY <2>2, <3>2, <3>4, <3>6, <3>7 DEF PostsInv
  <2> QED
    BY <2>1, <2>2
<1>4. ASSUME NEW u \in Threads PROVE MutexInv(u)'
  BY <1>4
     DEF WaitContinued, Take, TypeOK, threadVars, signalVars, handlerVars, CollectorInv, MutexInv,
         Stoppable
<1>5. ASSUME NEW u \in Threads PROVE HandlerInv(u)'
  BY <1>5
     DEF WaitContinued, Take, TypeOK, threadVars, signalVars, handlerVars, CollectorInv, MutexInv,
         HandlerInv, PostsInv, Stoppable
<1> QED
  BY <1>1, <1>2, <1>3, <1>4, <1>5

LEMMA BeginUnlockStep ==
  ASSUME IInv, NEW c \in Collectors, BeginUnlock(c)
  PROVE  IInv'
<1> USE OwnerAssumption, NoneAssumption, KindsAssumption DEF IInv, Stopping, Continuing, Locked
<1>1. TypeOK'
  BY DEF BeginUnlock, Goto, Begin, TypeOK, threadVars, signalVars, handlerVars, Stoppable
<1>2. ASSUME NEW d \in Collectors PROVE CollectorInv(d)'
  BY <1>2, FS_AddElement, FS_RemoveElement
     DEF BeginUnlock, Goto, Begin, TypeOK, threadVars, signalVars, handlerVars, CollectorInv,
         MutexInv, HandlerInv, Stoppable
<1>3. ASSUME NEW d \in Collectors PROVE PostsInv(d)'
  <2>1. CASE d # c
    <3>1. /\ pc'[d] = pc[d] /\ stoppingSem'[d] = stoppingSem[d]
          /\ continuingSem'[d] = continuingSem[d] /\ todo'[d] = todo[d]
      BY <2>1 DEF BeginUnlock, Goto, Begin, TypeOK, threadVars, signalVars, handlerVars, HandlerInv
    <3>2. Stoppable(d)' = Stoppable(d) /\ Unposted(d)' = Unposted(d) /\ Uncontinued(d)' = Uncontinued(d)
      BY <2>1
         DEF BeginUnlock, Goto, Begin, TypeOK, threadVars, signalVars, handlerVars, CollectorInv,
             HandlerInv, Stoppable, Unposted, Uncontinued
    <3> QED
      BY <3>1, <3>2, PostsSame
  <2>2. CASE d = c
    <3>1. /\ pc[c] = "wait2" /\ pc'[c] = "unlock" /\ todo[c] = {}
          /\ stoppingSem'[c] = stoppingSem[c] /\ continuingSem'[c] = continuingSem[c]
          /\ continuingSem[c] \in Nat
      BY DEF BeginUnlock, Goto, Begin, TypeOK, threadVars, signalVars, handlerVars
    <3>2. Cardinality(Uncontinued(c)) \in Nat
      BY Finite
    <3>3. continuingSem[c] + Cardinality(Uncontinued(c)) = 0 /\ stoppingSem[c] = 0
      BY <3>1, FS_EmptySet DEF PostsInv
    <3>4. continuingSem[c] = 0
      BY <3>1, <3>2, <3>3
    <3> QED
      BY <2>2, <3>1, <3>3, <3>4, PostsIdle
  <2> QED
    BY <2>1, <2>2
<1>4. ASSUME NEW u \in Threads PROVE MutexInv(u)'
  BY <1>4
     DEF BeginUnlock, Goto, Begin, TypeOK, threadVars, signalVars, handlerVars, CollectorInv,
         MutexInv, Stoppable
<1>5. ASSUME NEW u \in Threads PROVE HandlerInv(u)'
  <2>1. /\ pc[c] = "wait2" /\ todo[c] = {} /\ pc' = [pc EXCEPT ![c] = "unlock"]
        /\ contexts' = contexts /\ flag' = flag
        /\ handler' = handler /\ handled' = handled /\ usr1' = usr1
        /\ continuingSem[c] \in Nat
    BY DEF BeginUnlock, Goto, Begin, TypeOK, threadVars, signalVars, handlerVars
  <2>2. Uncontinued(c) = {}
    <3>1. IsFiniteSet(Uncontinued(c)) /\ Cardinality(Uncontinued(c)) \in Nat
      BY Finite
    <3>2. continuingSem[c] + Cardinality(Uncontinued(c)) = 0
      BY <2>1, FS_EmptySet DEF PostsInv
    <3>3. Cardinality(Uncontinued(c)) = 0
      BY <2>1, <3>1, <3>2
    <3> QED
      BY <3>1, <3>3, FS_EmptySet
  <2>3. CASE Owner[u] = c
    <3>1. pc'[c] = "unlock"
      BY <2>1 DEF TypeOK
    <3>2. handler[u] \in {"none", "entered", "loop", "suspended"}
      BY DEF TypeOK
    <3> QED
      BY <2>1, <2>2, <2>3, <3>1, <3>2 DEF HandlerInv, Stoppable, Uncontinued
  <2>4. CASE Owner[u] # c
    <3>1. /\ pc'[Owner[u]] = pc[Owner[u]]
          /\ pc'[Owner[u]] = "kill1" => todo'[Owner[u]] = todo[Owner[u]]
      BY <2>1, <2>4 DEF BeginUnlock, Goto, Begin, TypeOK, threadVars, signalVars, handlerVars
    <3> QED
      BY <2>1, <3>1 DEF HandlerInv, Stoppable
  <2> QED
    BY <2>3, <2>4
<1> QED
  BY <1>1, <1>2, <1>3, <1>4, <1>5

LEMMA UnlockFunMutexStep ==
  ASSUME IInv, NEW c \in Collectors, UnlockFunMutex(c)
  PROVE  IInv'
<1> USE OwnerAssumption, NoneAssumption, KindsAssumption DEF IInv, Stopping, Continuing, Locked
<1>1. TypeOK'
  BY DEF UnlockFunMutex, Take, TypeOK, threadVars, signalVars, handlerVars
<1>2. ASSUME NEW d \in Collectors PROVE CollectorInv(d)'
  BY <1>2, FS_AddElement, FS_RemoveElement
     DEF UnlockFunMutex, Take, TypeOK, threadVars, signalVars, handlerVars, CollectorInv, MutexInv,
         HandlerInv, Stoppable
<1>3. ASSUME NEW d \in Collectors PROVE PostsInv(d)'
  <2>1. CASE d # c
    <3>1. /\ pc'[d] = pc[d] /\ stoppingSem'[d] = stoppingSem[d]
          /\ continuingSem'[d] = continuingSem[d] /\ todo'[d] = todo[d]
      BY <2>1 DEF UnlockFunMutex, Take, TypeOK, threadVars, signalVars, handlerVars, HandlerInv
    <3>2. Stoppable(d)' = Stoppable(d) /\ Unposted(d)' = Unposted(d) /\ Uncontinued(d)' = Uncontinued(d)
      BY <2>1
         DEF UnlockFunMutex, Take, TypeOK, threadVars, signalVars, handlerVars, CollectorInv,
             HandlerInv, Stoppable, Unposted, Uncontinued
    <3> QED
      BY <3>1, <3>2, PostsSame
  <2>2. CASE d = c
    BY <2>2, PostsIdle
       DEF UnlockFunMutex, Take, TypeOK, threadVars, signalVars, handlerVars, CollectorInv,
           MutexInv, PostsInv
  <2> QED
    BY <2>1, <2>2
<1>4. ASSUME NEW u \in Threads PROVE MutexInv(u)'
  BY <1>4
     DEF UnlockFunMutex, Take, TypeOK, threadVars, signalVars, handlerVars, CollectorInv, MutexInv,
         Stoppable
<1>5. ASSUME NEW u \in Threads PROVE HandlerInv(u)'
  BY <1>5
     DEF UnlockFunMutex, Take, TypeOK, threadVars, signalVars, handlerVars, CollectorInv, MutexInv,
         HandlerInv, PostsInv, Stoppable
<1> QED
  BY <1>1, <1>2, <1>3, <1>4, <1>5

LEMMA EndCollectStep ==
  ASSUME IInv, NEW c \in Collectors, EndCollect(c)
  PROVE  IInv'
<1> USE OwnerAssumption, NoneAssumption, KindsAssumption DEF IInv, Stopping, Continuing, Locked
<1>1. TypeOK'
  BY DEF EndCollect, Goto, TypeOK, threadVars, signalVars, handlerVars
<1>2. ASSUME NEW d \in Collectors PROVE CollectorInv(d)'
  BY <1>2, FS_AddElement, FS_RemoveElement
     DEF EndCollect, Goto, TypeOK, threadVars, signalVars, handlerVars, CollectorInv, MutexInv,
         HandlerInv, Stoppable
<1>3. ASSUME NEW d \in Collectors PROVE PostsInv(d)'
  <2>1. CASE d # c
    <3>1. /\ pc'[d] = pc[d] /\ stoppingSem'[d] = stoppingSem[d]
          /\ continuingSem'[d] = continuingSem[d] /\ todo'[d] = todo[d]
      BY <2>1 DEF EndCollect, Goto, TypeOK, threadVars, signalVars, handlerVars, HandlerInv
    <3>2. Stoppable(d)' = Stoppable(d) /\ Unposted(d)' = Unposted(d) /\ Uncontinued(d)' = Uncontinued(d)
      BY <2>1
         DEF EndCollect, Goto, TypeOK, threadVars, signalVars, handlerVars, CollectorInv,
             HandlerInv, Stoppable, Unposted, Uncontinued
    <3> QED
      BY <3>1, <3>2, PostsSame
  <2>2. CASE d = c
    <3>1. /\ pc[c] = "unlock" /\ pc'[c] = "sleep"
          /\ stoppingSem' = stoppingSem /\ continuingSem' = continuingSem
      BY DEF EndCollect, Goto, TypeOK, threadVars, signalVars, handlerVars
    <3> QED
      BY <2>2, <3>1, PostsIdle DEF PostsInv
  <2> QED
    BY <2>1, <2>2
<1>4. ASSUME NEW u \in Threads PROVE MutexInv(u)'
  BY <1>4
     DEF EndCollect, Goto, TypeOK, threadVars, signalVars, handlerVars, CollectorInv, MutexInv,
         Stoppable
<1>5. ASSUME NEW u \in Threads PROVE HandlerInv(u)'
  BY <1>5
     DEF EndCollect, Goto, TypeOK, threadVars, signalVars, handlerVars, CollectorInv, MutexInv,
         HandlerInv, PostsInv, Stoppable
<1> QED
  BY <1>1, <1>2, <1>3, <1>4, <1>5

LEMMA RegisterStep ==
  ASSUME IInv, NEW t \in Threads, Register(t)
  PROVE  IInv'
<1> USE OwnerAssumption, NoneAssumption, KindsAssumption DEF IInv, Stopping, Continuing, Locked
<1>1. TypeOK'
  <2>1. contexts' \in [Collectors -> SUBSET Threads]
    BY DEF Register, TypeOK
  <2> QED
    BY <2>1 DEF Register, Move, TypeOK, collectorVars, signalVars, handlerVars
<1>2. ASSUME NEW d \in Collectors PROVE CollectorInv(d)'
  <2>1. CASE d = Owner[t]
    <3>1. pc[d] = "sleep" /\ pc' = pc /\ todo' = todo /\ todo[d] = {}
      BY <2>1 DEF Register, Move, TypeOK, collectorVars, signalVars, handlerVars, CollectorInv
    <3>2. contexts'[d] = contexts[d] \union {t}
      BY <2>1 DEF Register, TypeOK
    <3>3. IsFiniteSet(contexts[d])
      BY DEF CollectorInv
    <3>4. IsFiniteSet(contexts'[d])
      BY <3>2, <3>3, FS_AddElement
    <3>5. /\ tpc[t] = "new" /\ tpc' = [tpc EXCEPT ![t] = "run"] /\ gcMutex' = gcMutex
          /\ hasStopping' = hasStopping /\ stopMutex' = stopMutex
      BY DEF Register, Move, TypeOK, collectorVars, signalVars, handlerVars
    <3>6. \A u \in Threads : u \in contexts'[d] <=> (Owner[u] = d /\ tpc'[u] \notin {"new", "gone"})
      BY <2>1, <3>2, <3>5 DEF CollectorInv, TypeOK
    <3> QED
      BY <3>1, <3>4, <3>5, <3>6 DEF CollectorInv
  <2>2. CASE d # Owner[t]
    <3>1. contexts'[d] = contexts[d]
      BY <2>2 DEF Register, TypeOK
    <3> QED
      BY <2>2, <3>1
         DEF Register, Move, TypeOK, collectorVars, signalVars, handlerVars, CollectorInv, Stoppable
  <2> QED
    BY <2>1, <2>2
<1>3. ASSUME NEW d \in Collectors PROVE PostsInv(d)'
  <2>1. CASE d # Owner[t]
    <3>1. /\ pc'[d] = pc[d] /\ stoppingSem'[d] = stoppingSem[d]
          /\ continuingSem'[d] = continuingSem[d] /\ todo'[d] = todo[d]
      BY <2>1 DEF Register, Move, TypeOK, collectorVars, signalVars, handlerVars, HandlerInv
    <3>2. Stoppable(d)' = Stoppable(d) /\ Unposted(d)' = Unposted(d) /\ Uncontinued(d)' = Uncontinued(d)
      BY <2>1
         DEF Register, Move, TypeOK, collectorVars, signalVars, handlerVars, CollectorInv,
             HandlerInv, Stoppable, Unposted, Uncontinued
    <3> QED
      BY <3>1, <3>2, PostsSame
  <2>2. CASE d = Owner[t]
    BY <2>2, PostsIdle
       DEF Register, Move, TypeOK, collectorVars, signalVars, handlerVars, CollectorInv, MutexInv,
           PostsInv
  <2> QED
    BY <2>1, <2>2
<1>4. ASSUME NEW u \in Threads PROVE MutexInv(u)'
  BY <1>4
     DEF Register, Move, TypeOK, collectorVars, signalVars, handlerVars, CollectorInv, MutexInv,
         Stoppable
<1>5. ASSUME NEW u \in Threads PROVE HandlerInv(u)'
  BY <1>5
     DEF Register, Move, TypeOK, collectorVars, signalVars, handlerVars, CollectorInv, MutexInv,
         HandlerInv, PostsInv, Stoppable
<1> QED
  BY <1>1, <1>2, <1>3, <1>4, <1>5

LEMMA UnregisterStep ==
  ASSUME IInv, NEW t \in Threads, Unregister(t)
  PROVE  IInv'
<1> USE OwnerAssumption, NoneAssumption, KindsAssumption DEF IInv, Stopping, Continuing, Locked
<1>1. TypeOK'
  BY DEF Unregister, Move, TypeOK, collectorVars, signalVars, handlerVars
<1>2. ASSUME NEW d \in Collectors PROVE CollectorInv(d)'
  <2>1. CASE d = Owner[t]
    <3>1. pc[d] = "sleep" /\ pc' = pc /\ todo' = todo /\ todo[d] = {}
      BY <2>1 DEF Unregister, Move, TypeOK, collectorVars, signalVars, handlerVars, CollectorInv
    <3>2. contexts'[d] = contexts[d] \ {t}
      BY <2>1 DEF Unregister, TypeOK
    <3>3. IsFiniteSet(contexts[d])
      BY DEF CollectorInv
    <3>4. IsFiniteSet(contexts'[d])
      BY <3>2, <3>3, FS_RemoveElement
    <3>5. /\ tpc[t] = "run" /\ tpc' = [tpc EXCEPT ![t] = "gone"] /\ gcMutex' = gcMutex
          /\ hasStopping' = hasStopping /\ stopMutex' = stopMutex
      BY DEF Unregister, Move, TypeOK, collectorVars, signalVars, handlerVars
    <3>6. \A u \in Threads : u \in contexts'[d] <=> (Owner[u] = d /\ tpc'[u] \notin {"new", "gone"})
      BY <2>1, <3>2, <3>5 DEF CollectorInv, TypeOK
    <3> QED
      BY <3>1, <3>4, <3>5, <3>6 DEF CollectorInv
  <2>2. CASE d # Owner[t]
    <3>1. contexts'[d] = contexts[d]
      BY <2>2 DEF Unregister, TypeOK
    <3> QED
      BY <2>2, <3>1
         DEF Unregister, Move, TypeOK, collectorVars, signalVars, handlerVars, CollectorInv,
             Stoppable
  <2> QED
    BY <2>1, <2>2
<1>3. ASSUME NEW d \in Collectors PROVE PostsInv(d)'
  <2>1. CASE d # Owner[t]
    <3>1. /\ pc'[d] = pc[d] /\ stoppingSem'[d] = stoppingSem[d]
          /\ continuingSem'[d] = continuingSem[d] /\ todo'[d] = todo[d]
      BY <2>1 DEF Unregister, Move, TypeOK, collectorVars, signalVars, handlerVars, HandlerInv
    <3>2. Stoppable(d)' = Stoppable(d) /\ Unposted(d)' = Unposted(d) /\ Uncontinued(d)' = Uncontinued(d)
      BY <2>1
         DEF Unregister, Move, TypeOK, collectorVars, signalVars, handlerVars, CollectorInv,
             HandlerInv, Stoppable, Unposted, Uncontinued
    <3> QED
      BY <3>1, <3>2, PostsSame
  <2>2. CASE d = Owner[t]
    BY <2>2, PostsIdle
       DEF Unregister, Move, TypeOK, collectorVars, signalVars, handlerVars, CollectorInv,
           MutexInv, PostsInv
  <2> QED
    BY <2>1, <2>2
<1>4. ASSUME NEW u \in Threads PROVE MutexInv(u)'
  BY <1>4
     DEF Unregister, Move, TypeOK, collectorVars, signalVars, handlerVars, CollectorInv, MutexInv,
         Stoppable
<1>5. ASSUME NEW u \in Threads PROVE HandlerInv(u)'
  BY <1>5
     DEF Unregister, Move, TypeOK, collectorVars, signalVars, handlerVars, CollectorInv, MutexInv,
         HandlerInv, PostsInv, Stoppable
<1> QED
  BY <1>1, <1>2, <1>3, <1>4, <1>5

LEMMA EnterLockStep ==
  ASSUME IInv, NEW t \in Threads, EnterLock(t)
  PROVE  IInv'
<1> USE OwnerAssumption, NoneAssumption, KindsAssumption DEF IInv, Stopping, Continuing, Locked
<1>1. TypeOK'
  BY DEF EnterLock, Move, TypeOK, collectorVars, signalVars, handlerVars
<1>2. ASSUME NEW d \in Collectors PROVE CollectorInv(d)'
  BY <1>2, FS_AddElement, FS_RemoveElement
     DEF EnterLock, Move, TypeOK, collectorVars, signalVars, handlerVars, CollectorInv, MutexInv,
         HandlerInv, Stoppable
<1>3. ASSUME NEW d \in Collectors PROVE PostsInv(d)'
  <2>1. /\ pc'[d] = pc[d] /\ stoppingSem'[d] = stoppingSem[d] /\ continuingSem'[d] = continuingSem[d]
        /\ pc[d] \in {"wait1", "wait2"} => todo'[d] = todo[d]
    BY DEF EnterLock, Move, TypeOK, collectorVars, signalVars, handlerVars
  <2>2. /\ Stoppable(d)' = Stoppable(d)
        /\ pc[d] \in Stopping \union {"mark"} => Unposted(d)' = Unposted(d)
        /\ pc[d] \in Continuing => Uncontinued(d)' = Uncontinued(d)
    BY DEF EnterLock, Move, TypeOK, collectorVars, signalVars, handlerVars, HandlerInv, Stoppable,
           Unposted, Uncontinued
  <2> QED
    BY <2>1, <2>2, PostsSame
<1>4. ASSUME NEW u \in Threads PROVE MutexInv(u)'
  <2>1. pc' = pc /\ todo' = todo /\ contexts' = contexts
    BY DEF EnterLock, Move, TypeOK, collectorVars, signalVars, handlerVars
  <2>2. CASE u = t
    <3>1. /\ tpc[t] = "run" /\ tpc'[t] = "entering" /\ mutex[t] = None /\ mutex'[t] = t
          /\ flag'[t] = flag[t]
      BY DEF EnterLock, Move, TypeOK, collectorVars, signalVars, handlerVars, MutexInv
    <3>2. t # Owner[t] /\ t # None /\ Owner[t] # None
      OBVIOUS
    <3> QED
      BY <2>1, <2>2, <3>1, <3>2 DEF MutexInv
  <2>3. CASE u # t
    <3>1. mutex'[u] = mutex[u] /\ flag'[u] = flag[u] /\ tpc'[u] = tpc[u]
      BY <2>3 DEF EnterLock, Move, TypeOK, collectorVars, signalVars, handlerVars
    <3> QED
      BY <2>1, <3>1 DEF MutexInv
  <2> QED
    BY <2>2, <2>3
<1>5. ASSUME NEW u \in Threads PROVE HandlerInv(u)'
  BY <1>5
     DEF EnterLock, Move, TypeOK, collectorVars, signalVars, handlerVars, CollectorInv, MutexInv,
         HandlerInv, PostsInv, Stoppable
<1> QED
  BY <1>1, <1>2, <1>3, <1>4, <1>5

LEMMA EnterUnlockStep ==
  ASSUME IInv, NEW t \in Threads, EnterUnlock(t)
  PROVE  IInv'
<1> USE OwnerAssumption, NoneAssumption, KindsAssumption DEF IInv, Stopping, Continuing, Locked
<1>1. TypeOK'
  BY DEF EnterUnlock, Move, TypeOK, collectorVars, signalVars, handlerVars
<1>2. ASSUME NEW d \in Collectors PROVE CollectorInv(d)'
  BY <1>2, FS_AddElement, FS_RemoveElement
     DEF EnterUnlock, Move, TypeOK, collectorVars, signalVars, handlerVars, CollectorInv, MutexInv,
         HandlerInv, Stoppable
<1>3. ASSUME NEW d \in Collectors PROVE PostsInv(d)'
  <2>1. CASE d # Owner[t]
    <3>1. /\ pc'[d] = pc[d] /\ stoppingSem'[d] = stoppingSem[d]
          /\ continuingSem'[d] = continuingSem[d] /\ todo'[d] = todo[d]
      BY <2>1 DEF EnterUnlock, Move, TypeOK, collectorVars, signalVars, handlerVars, HandlerInv
    <3>2. Stoppable(d)' = Stoppable(d) /\ Unposted(d)' = Unposted(d) /\ Uncontinued(d)' = Uncontinued(d)
      BY <2>1
         DEF EnterUnlock, Move, TypeOK, collectorVars, signalVars, handlerVars, CollectorInv,
             HandlerInv, Stoppable, Unposted, Uncontinued
    <3> QED
      BY <3>1, <3>2, PostsSame
  <2>2. CASE d = Owner[t]
    <3>1. mutex[t] = t
      BY DEF EnterUnlock, Move, MutexInv
    <3>2. pc[d] \notin Locked
      BY <2>2, <3>1, OwnMutex
    <3>3. pc' = pc /\ stoppingSem'[d] = 0 /\ continuingSem'[d] = 0
      BY <3>2 DEF EnterUnlock, Move, TypeOK, collectorVars, signalVars, handlerVars, PostsInv
    <3> QED
      BY <3>2, <3>3, PostsIdle
  <2> QED
    BY <2>1, <2>2
<1>4. ASSUME NEW u \in Threads PROVE MutexInv(u)'
  <2>1. pc' = pc /\ todo' = todo /\ contexts' = contexts
    BY DEF EnterUnlock, Move, TypeOK, collectorVars, signalVars, handlerVars
  <2>2. CASE u = t
    <3>1. /\ tpc[t] = "entering" /\ tpc'[t] = "native" /\ mutex[t] = t /\ mutex'[t] = None
          /\ flag'[t] = TRUE
      BY DEF EnterUnlock, Move, TypeOK, collectorVars, signalVars, handlerVars, MutexInv
    <3>2. t # Owner[t] /\ t # None /\ Owner[t] # None
      OBVIOUS
    <3> QED
      BY <2>1, <2>2, <3>1, <3>2 DEF MutexInv
  <2>3. CASE u # t
    <3>1. mutex'[u] = mutex[u] /\ flag'[u] = flag[u] /\ tpc'[u] = tpc[u]
      BY <2>3 DEF EnterUnlock, Move, TypeOK, collectorVars, signalVars, handlerVars
    <3> QED
      BY <2>1, <3>1 DEF MutexInv
  <2> QED
    BY <2>2, <2>3
<1>5. ASSUME NEW u \in Threads PROVE HandlerInv(u)'
  <2>1. /\ pc' = pc /\ todo' = todo /\ contexts' = contexts /\ handler' = handler
        /\ handled' = handled /\ usr1' = usr1
    BY DEF EnterUnlock, Move, TypeOK, collectorVars, signalVars, handlerVars
  <2>2. CASE u = t
    <3>1. mutex[t] = t
      BY DEF EnterUnlock, Move, MutexInv
    <3> QED
      BY <2>1, <2>2, <3>1, OwnMutex DEF HandlerInv
  <2>3. CASE u # t
    <3>1. flag'[u] = flag[u]
      BY <2>3 DEF EnterUnlock, Move, TypeOK, collectorVars, signalVars, handlerVars
    <3> QED
      BY <2>1, <3>1 DEF HandlerInv, Stoppable
  <2> QED
    BY <2>2, <2>3
<1> QED
  BY <1>1, <1>2, <1>3, <1>4, <1>5

LEMMA ExitLockStep ==
  ASSUME IInv, NEW t \in Threads, ExitLock(t)
  PROVE  IInv'
<1> USE OwnerAssumption, NoneAssumption, KindsAssumption DEF IInv, Stopping, Continuing, Locked
<1>1. TypeOK'
  BY DEF ExitLock, Move, TypeOK, collectorVars, signalVars, handlerVars
<1>2. ASSUME NEW d \in Collectors PROVE CollectorInv(d)'
  BY <1>2, FS_AddElement, FS_RemoveElement
     DEF ExitLock, Move, TypeOK, collectorVars, signalVars, handlerVars, CollectorInv, MutexInv,
         HandlerInv, Stoppable
<1>3. ASSUME NEW d \in Collectors PROVE PostsInv(d)'
  <2>1. /\ pc'[d] = pc[d] /\ stoppingSem'[d] = stoppingSem[d] /\ continuingSem'[d] = continuingSem[d]
        /\ pc[d] \in {"wait1", "wait2"} => todo'[d] = todo[d]
    BY DEF ExitLock, Move, TypeOK, collectorVars, signalVars, handlerVars
  <2>2. /\ Stoppable(d)' = Stoppable(d)
        /\ pc[d] \in Stopping \union {"mark"} => Unposted(d)' = Unposted(d)
        /\ pc[d] \in Continuing => Uncontinued(d)' = Uncontinued(d)
    BY DEF ExitLock, Move, TypeOK, collectorVars, signalVars, handlerVars, HandlerInv, Stoppable,
           Unposted, Uncontinued
  <2> QED
    BY <2>1, <2>2, PostsSame
<1>4. ASSUME NEW u \in Threads PROVE MutexInv(u)'
  <2>1. pc' = pc /\ todo' = todo /\ contexts' = contexts
    BY DEF ExitLock, Move, TypeOK, collectorVars, signalVars, handlerVars
  <2>2. CASE u = t
    <3>1. /\ tpc[t] = "native" /\ tpc'[t] = "leaving" /\ mutex[t] = None /\ mutex'[t] = t
          /\ flag'[t] = flag[t]
      BY DEF ExitLock, Move, TypeOK, collectorVars, signalVars, handlerVars, MutexInv
    <3>2. t # Owner[t] /\ t # None /\ Owner[t] # None
      OBVIOUS
    <3> QED
      BY <2>1, <2>2, <3>1, <3>2 DEF MutexInv
  <2>3. CASE u # t
    <3>1. mutex'[u] = mutex[u] /\ flag'[u] = flag[u] /\ tpc'[u] = tpc[u]
      BY <2>3 DEF ExitLock, Move, TypeOK, collectorVars, signalVars, handlerVars
    <3> QED
      BY <2>1, <3>1 DEF MutexInv
  <2> QED
    BY <2>2, <2>3
<1>5. ASSUME NEW u \in Threads PROVE HandlerInv(u)'
  BY <1>5
     DEF ExitLock, Move, TypeOK, collectorVars, signalVars, handlerVars, CollectorInv, MutexInv,
         HandlerInv, PostsInv, Stoppable
<1> QED
  BY <1>1, <1>2, <1>3, <1>4, <1>5

LEMMA ExitUnlockStep ==
  ASSUME IInv, NEW t \in Threads, ExitUnlock(t)
  PROVE  IInv'
<1> USE OwnerAssumption, NoneAssumption, KindsAssumption DEF IInv, Stopping, Continuing, Locked
<1>1. TypeOK'
  BY DEF ExitUnlock, Move, TypeOK, collectorVars, signalVars, handlerVars
<1>2. ASSUME NEW d \in Collectors PROVE CollectorInv(d)'
  BY <1>2, FS_AddElement, FS_RemoveElement
     DEF ExitUnlock, Move, TypeOK, collectorVars, signalVars, handlerVars, CollectorInv, MutexInv,
         HandlerInv, Stoppable
<1>3. ASSUME NEW d \in Collectors PROVE PostsInv(d)'
  <2>1. CASE d # Owner[t]
    <3>1. /\ pc'[d] = pc[d] /\ stoppingSem'[d] = stoppingSem[d]
          /\ continuingSem'[d] = continuingSem[d] /\ todo'[d] = todo[d]
      BY <2>1 DEF ExitUnlock, Move, TypeOK, collectorVars, signalVars, handlerVars, HandlerInv
    <3>2. Stoppable(d)' = Stoppable(d) /\ Unposted(d)' = Unposted(d) /\ Uncontinued(d)' = Uncontinued(d)
      BY <2>1
         DEF ExitUnlock, Move, TypeOK, collectorVars, signalVars, handlerVars, CollectorInv,
             HandlerInv, Stoppable, Unposted, Uncontinued
    <3> QED
      BY <3>1, <3>2, PostsSame
  <2>2. CASE d = Owner[t]
    <3>1. mutex[t] = t
      BY DEF ExitUnlock, Move, MutexInv
    <3>2. pc[d] \notin Locked
      BY <2>2, <3>1, OwnMutex
    <3>3. pc' = pc /\ stoppingSem'[d] = 0 /\ continuingSem'[d] = 0
      BY <3>2 DEF ExitUnlock, Move, TypeOK, collectorVars, signalVars, handlerVars, PostsInv
    <3> QED
      BY <3>2, <3>3, PostsIdle
  <2> QED
    BY <2>1, <2>2
<1>4. ASSUME NEW u \in Threads PROVE MutexInv(u)'
  <2>1. pc' = pc /\ todo' = todo /\ contexts' = contexts
    BY DEF ExitUnlock, Move, TypeOK, collectorVars, signalVars, handlerVars
  <2>2. CASE u = t
    <3>1. /\ tpc[t] = "leaving" /\ tpc'[t] = "run" /\ mutex[t] = t /\ mutex'[t] = None
          /\ flag'[t] = FALSE
      BY DEF ExitUnlock, Move, TypeOK, collectorVars, signalVars, handlerVars, MutexInv
    <3>2. t # Owner[t] /\ t # None /\ Owner[t] # None
      OBVIOUS
    <3> QED
      BY <2>1, <2>2, <3>1, <3>2 DEF MutexInv
  <2>3. CASE u # t
    <3>1. mutex'[u] = mutex[u] /\ flag'[u] = flag[u] /\ tpc'[u] = tpc[u]
      BY <2>3 DEF ExitUnlock, Move, TypeOK, collectorVars, signalVars, handlerVars
    <3> QED
      BY <2>1, <3>1 DEF MutexInv
  <2> QED
    BY <2>2, <2>3
<1>5. ASSUME NEW u \in Threads PROVE HandlerInv(u)'
  <2>1. /\ pc' = pc /\ todo' = todo /\ contexts' = contexts /\ handler' = handler
        /\ handled' = handled /\ usr1' = usr1
    BY DEF ExitUnlock, Move, TypeOK, collectorVars, signalVars, handlerVars
  <2>2. CASE u = t
    <3>1. mutex[t] = t
      BY DEF ExitUnlock, Move, MutexInv
    <3> QED
      BY <2>1, <2>2, <3>1, OwnMutex DEF HandlerInv
  <2>3. CASE u # t
    <3>1. flag'[u] = flag[u]
      BY <2>3 DEF ExitUnlock, Move, TypeOK, collectorVars, signalVars, handlerVars
    <3> QED
      BY <2>1, <3>1 DEF HandlerInv, Stoppable
  <2> QED
    BY <2>2, <2>3
<1> QED
  BY <1>1, <1>2, <1>3, <1>4, <1>5

LEMMA DeliverUsr1Step ==
  ASSUME IInv, NEW t \in Threads, DeliverUsr1(t)
  PROVE  IInv'
<1> USE OwnerAssumption, NoneAssumption, KindsAssumption DEF IInv, Stopping, Continuing, Locked
<1>1. TypeOK'
  BY DEF DeliverUsr1, Handler, TypeOK, collectorVars, threadVars
<1>2. ASSUME NEW d \in Collectors PROVE CollectorInv(d)'
  BY <1>2, FS_AddElement, FS_RemoveElement
     DEF DeliverUsr1, Handler, TypeOK, collectorVars, threadVars, CollectorInv, MutexInv,
         HandlerInv, Stoppable
<1>3. ASSUME NEW d \in Collectors PROVE PostsInv(d)'
  <2>1. CASE d # Owner[t]
    <3>1. /\ pc'[d] = pc[d] /\ stoppingSem'[d] = stoppingSem[d]
          /\ continuingSem'[d] = continuingSem[d] /\ todo'[d] = todo[d]
      BY <2>1 DEF DeliverUsr1, Handler, TypeOK, collectorVars, threadVars, HandlerInv
    <3>2. Stoppable(d)' = Stoppable(d) /\ Unposted(d)' = Unposted(d) /\ Uncontinued(d)' = Uncontinued(d)
      BY <2>1
         DEF DeliverUsr1, Handler, TypeOK, collectorVars, threadVars, CollectorInv, HandlerInv,
             Stoppable, Unposted, Uncontinued
    <3> QED
      BY <3>1, <3>2, PostsSame
  <2>2. CASE d = Owner[t]
    <3>1. /\ usr1[t] /\ handler[t] = "none" /\ handler' = [handler EXCEPT ![t] = "entered"]
          /\ pc' = pc /\ todo' = todo /\ contexts' = contexts /\ flag' = flag
          /\ stoppingSem' = stoppingSem /\ continuingSem' = continuingSem
      BY DEF DeliverUsr1, Handler, TypeOK, collectorVars, threadVars
    <3>2. pc[d] \in Stopping
      BY <2>2, <3>1 DEF HandlerInv
    <3>3. Stoppable(d)' = Stoppable(d)
      BY <3>1 DEF Stoppable
    <3>4. \A u \in Stoppable(d) :
            handler'[u] \in {"none", "entered"} <=> handler[u] \in {"none", "entered"}
      BY <3>1 DEF TypeOK, Stoppable
    <3>5. Unposted(d)' = Unposted(d)
      BY <3>3, <3>4 DEF Unposted
    <3> QED
      BY <3>1, <3>2, <3>3, <3>5, PostsSame
  <2> QED
    BY <2>1, <2>2
<1>4. ASSUME NEW u \in Threads PROVE MutexInv(u)'
  BY <1>4
     DEF DeliverUsr1, Handler, TypeOK, collectorVars, threadVars, CollectorInv, MutexInv, Stoppable
<1>5. ASSUME NEW u \in Threads PROVE HandlerInv(u)'
  <2>1. pc' = pc /\ todo' = todo /\ contexts' = contexts /\ flag' = flag
    BY DEF DeliverUsr1, Handler, TypeOK, collectorVars, threadVars
  <2>2. CASE u = t
    <3>1. /\ usr1[t] /\ handler'[t] = "entered" /\ ~usr1'[t] /\ handled'[t] = stopCont
      BY DEF DeliverUsr1, Handler, TypeOK, collectorVars, threadVars
    <3>2. /\ t \in Stoppable(Owner[t]) /\ pc[Owner[t]] \in Stopping
          /\ pc[Owner[t]] = "kill1" => t \notin todo[Owner[t]]
      BY <3>1 DEF HandlerInv
    <3>3. stopCont = Owner[t]
      BY <3>2 DEF CollectorInv
    <3> QED
      BY <2>1, <2>2, <3>1, <3>2, <3>3 DEF HandlerInv, Stoppable
  <2>3. CASE u # t
    <3>1. handler'[u] = handler[u] /\ handled'[u] = handled[u] /\ usr1'[u] = usr1[u]
      BY <2>3 DEF DeliverUsr1, Handler, TypeOK, collectorVars, threadVars
    <3> QED
      BY <2>1, <3>1 DEF HandlerInv, Stoppable
  <2> QED
    BY <2>2, <2>3
<1> QED
  BY <1>1, <1>2, <1>3, <1>4, <1>5

LEMMA PostStoppingStep ==
  ASSUME IInv, NEW t \in Threads, PostStopping(t)
  PROVE  IInv'
<1> USE OwnerAssumption, NoneAssumption, KindsAssumption DEF IInv, Stopping, Continuing, Locked
<1>1. TypeOK'
  <2>1. handled[t] \in Collectors
    BY DEF PostStopping, Handler, HandlerInv
  <2>2. stoppingSem' \in [Collectors -> Nat] /\ handled' \in [Threads -> Collectors \union {None}]
    BY <2>1 DEF PostStopping, TypeOK
  <2> QED
    BY <2>2 DEF PostStopping, Handler, TypeOK, collectorVars, threadVars, signalVars
<1>2. ASSUME NEW d \in Collectors PROVE CollectorInv(d)'
  BY <1>2, FS_AddElement, FS_RemoveElement
     DEF PostStopping, Handler, TypeOK, collectorVars, threadVars, signalVars, CollectorInv,
         MutexInv, HandlerInv, Stoppable
<1>3. ASSUME NEW d \in Collectors PROVE PostsInv(d)'
  <2>1. CASE d # Owner[t]
    <3>1. /\ pc'[d] = pc[d] /\ stoppingSem'[d] = stoppingSem[d]
          /\ continuingSem'[d] = continuingSem[d] /\ todo'[d] = todo[d]
      BY <2>1 DEF PostStopping, Handler, TypeOK, collectorVars, threadVars, signalVars, HandlerInv
    <3>2. Stoppable(d)' = Stoppable(d) /\ Unposted(d)' = Unposted(d) /\ Uncontinued(d)' = Uncontinued(d)
      BY <2>1
         DEF PostStopping, Handler, TypeOK, collectorVars, threadVars, signalVars, CollectorInv,
             HandlerInv, Stoppable, Unposted, Uncontinued
    <3> QED
      BY <3>1, <3>2, PostsSame
  <2>2. CASE d = Owner[t]
    <3>1. /\ handler[t] = "entered" /\ handled[t] = d /\ t \in Stoppable(d)
          /\ pc[d] \in Stopping /\ hasStopping[d]
      BY <2>2
         DEF PostStopping, Handler, TypeOK, collectorVars, threadVars, signalVars, CollectorInv,
             HandlerInv
    <3>2. /\ pc'[d] = pc[d] /\ todo'[d] = todo[d] /\ handler' = [handler EXCEPT ![t] = "loop"]
          /\ stoppingSem[d] \in Nat /\ stoppingSem'[d] = stoppingSem[d] + 1
          /\ continuingSem'[d] = continuingSem[d]
      BY <3>1 DEF PostStopping, Handler, TypeOK, collectorVars, threadVars, signalVars
    <3>3. /\ Stoppable(d)' = Stoppable(d)
          /\ t \in Unposted(d) /\ Unposted(d)' = Unposted(d) \ {t}
      BY <3>1, <3>2
         DEF PostStopping, Handler, TypeOK, collectorVars, threadVars, signalVars, Stoppable,
             Unposted, Uncontinued
    <3>4. IsFiniteSet(Unposted(d))
      BY Finite
    <3>5. Cardinality(Unposted(d)') = Cardinality(Unposted(d)) - 1
      BY <3>3, <3>4, FS_RemoveElement
    <3>6. /\ Cardinality(todo[d]) \in Nat /\ Cardinality(Unposted(d)) \in Nat
          /\ Cardinality(Stoppable(d)) \in Nat
      BY Finite
    <3> QED
      BY <3>1, <3>2, <3>3, <3>5, <3>6 DEF PostsInv
  <2> QED
    BY <2>1, <2>2
<1>4. ASSUME NEW u \in Threads PROVE MutexInv(u)'
  BY <1>4
     DEF PostStopping, Handler, TypeOK, collectorVars, threadVars, signalVars, CollectorInv,
         MutexInv, Stoppable
<1>5. ASSUME NEW u \in Threads PROVE HandlerInv(u)'
  BY <1>5
     DEF PostStopping, Handler, TypeOK, collectorVars, threadVars, signalVars, CollectorInv,
         MutexInv, HandlerInv, PostsInv, Stoppable
<1> QED
  BY <1>1, <1>2, <1>3, <1>4, <1>5

LEMMA SuspendStep ==
  ASSUME IInv, NEW t \in Threads, Suspend(t)
  PROVE  IInv'
<1> USE OwnerAssumption, NoneAssumption, KindsAssumption DEF IInv, Stopping, Continuing, Locked
<1>1. TypeOK'
  BY DEF Suspend, Handler, TypeOK, collectorVars, threadVars, signalVars
<1>2. ASSUME NEW d \in Collectors PROVE CollectorInv(d)'
  BY <1>2, FS_AddElement, FS_RemoveElement
     DEF Suspend, Handler, TypeOK, collectorVars, threadVars, signalVars, CollectorInv, MutexInv,
         HandlerInv, Stoppable
<1>3. ASSUME NEW d \in Collectors PROVE PostsInv(d)'
  <2>1. /\ pc'[d] = pc[d] /\ stoppingSem'[d] = stoppingSem[d] /\ continuingSem'[d] = continuingSem[d]
        /\ pc[d] \in {"wait1", "wait2"} => todo'[d] = todo[d]
    BY DEF Suspend, Handler, TypeOK, collectorVars, threadVars, signalVars
  <2>2. /\ Stoppable(d)' = Stoppable(d)
        /\ pc[d] \in Stopping \union {"mark"} => Unposted(d)' = Unposted(d)
        /\ pc[d] \in Continuing => Uncontinued(d)' = Uncontinued(d)
    BY DEF Suspend, Handler, TypeOK, collectorVars, threadVars, signalVars, HandlerInv, Stoppable,
           Unposted, Uncontinued
  <2> QED
    BY <2>1, <2>2, PostsSame
<1>4. ASSUME NEW u \in Threads PROVE MutexInv(u)'
  BY <1>4
     DEF Suspend, Handler, TypeOK, collectorVars, threadVars, signalVars, CollectorInv, MutexInv,
         Stoppable
<1>5. ASSUME NEW u \in Threads PROVE HandlerInv(u)'
  BY <1>5
     DEF Suspend, Handler, TypeOK, collectorVars, threadVars, signalVars, CollectorInv, MutexInv,
         HandlerInv, PostsInv, Stoppable
<1> QED
  BY <1>1, <1>2, <1>3, <1>4, <1>5

LEMMA DeliverUsr2Step ==
  ASSUME IInv, NEW t \in Threads, DeliverUsr2(t)
  PROVE  IInv'
<1> USE OwnerAssumption, NoneAssumption, KindsAssumption DEF IInv, Stopping, Continuing, Locked
<1>1. TypeOK'
  BY DEF DeliverUsr2, Handler, TypeOK, collectorVars, threadVars
<1>2. ASSUME NEW d \in Collectors PROVE CollectorInv(d)'
  BY <1>2, FS_AddElement, FS_RemoveElement
     DEF DeliverUsr2, Handler, TypeOK, collectorVars, threadVars, CollectorInv, MutexInv,
         HandlerInv, Stoppable
<1>3. ASSUME NEW d \in Collectors PROVE PostsInv(d)'
  <2>1. /\ pc'[d] = pc[d] /\ stoppingSem'[d] = stoppingSem[d] /\ continuingSem'[d] = continuingSem[d]
        /\ pc[d] \in {"wait1", "wait2"} => todo'[d] = todo[d]
    BY DEF DeliverUsr2, Handler, TypeOK, collectorVars, threadVars
  <2>2. /\ Stoppable(d)' = Stoppable(d)
        /\ pc[d] \in Stopping \union {"mark"} => Unposted(d)' = Unposted(d)
        /\ pc[d] \in Continuing => Uncontinued(d)' = Uncontinued(d)
    BY DEF DeliverUsr2, Handler, TypeOK, collectorVars, threadVars, HandlerInv, Stoppable,
           Unposted, Uncontinued
  <2> QED
    BY <2>1, <2>2, PostsSame
<1>4. ASSUME NEW u \in Threads PROVE MutexInv(u)'
  BY <1>4
     DEF DeliverUsr2, Handler, TypeOK, collectorVars, threadVars, CollectorInv, MutexInv, Stoppable
<1>5. ASSUME NEW u \in Threads PROVE HandlerInv(u)'
  BY <1>5
     DEF DeliverUsr2, Handler, TypeOK, collectorVars, threadVars, CollectorInv, MutexInv,
         HandlerInv, PostsInv, Stoppable
<1> QED
  BY <1>1, <1>2, <1>3, <1>4, <1>5

LEMMA PostContinuingStep ==
  ASSUME IInv, NEW t \in Threads, PostContinuing(t)
  PROVE  IInv'
<1> USE OwnerAssumption, NoneAssumption, KindsAssumption DEF IInv, Stopping, Continuing, Locked
<1>1. TypeOK'
  <2>1. handled[t] \in Collectors
    BY DEF PostContinuing, Handler, HandlerInv
  <2>2. continuingSem' \in [Collectors -> Nat] /\ handled' \in [Threads -> Collectors \union {None}]
    BY <2>1 DEF PostContinuing, TypeOK
  <2> QED
    BY <2>2 DEF PostContinuing, Handler, TypeOK, collectorVars, threadVars, signalVars
<1>2. ASSUME NEW d \in Collectors PROVE CollectorInv(d)'
  BY <1>2, FS_AddElement, FS_RemoveElement
     DEF PostContinuing, Handler, TypeOK, collectorVars, threadVars, signalVars, CollectorInv,
         MutexInv, HandlerInv, Stoppable
<1>3. ASSUME NEW d \in Collectors PROVE PostsInv(d)'
  <2>1. CASE d # Owner[t]
    <3>1. /\ pc'[d] = pc[d] /\ stoppingSem'[d] = stoppingSem[d]
          /\ continuingSem'[d] = continuingSem[d] /\ todo'[d] = todo[d]
      BY <2>1 DEF PostContinuing, Handler, TypeOK, collectorVars, threadVars, signalVars, HandlerInv
    <3>2. Stoppable(d)' = Stoppable(d) /\ Unposted(d)' = Unposted(d) /\ Uncontinued(d)' = Uncontinued(d)
      BY <2>1
         DEF PostContinuing, Handler, TypeOK, collectorVars, threadVars, signalVars, CollectorInv,
             HandlerInv, Stoppable, Unposted, Uncontinued
    <3> QED
      BY <3>1, <3>2, PostsSame
  <2>2. CASE d = Owner[t]
    <3>1. /\ handler[t] = "loop" /\ handled[t] = d /\ t \in Stoppable(d)
          /\ pc[d] \in Continuing
      BY <2>2
         DEF PostContinuing, Handler, TypeOK, collectorVars, threadVars, signalVars, CollectorInv,
             HandlerInv
    <3>2. /\ pc'[d] = pc[d] /\ todo'[d] = todo[d] /\ handler' = [handler EXCEPT ![t] = "none"]
          /\ continuingSem[d] \in Nat /\ continuingSem'[d] = continuingSem[d] + 1
          /\ stoppingSem'[d] = stoppingSem[d]
      BY <3>1 DEF PostContinuing, Handler, TypeOK, collectorVars, threadVars, signalVars
    <3>3. /\ Stoppable(d)' = Stoppable(d)
          /\ t \in Uncontinued(d) /\ Uncontinued(d)' = Uncontinued(d) \ {t}
      BY <3>1, <3>2
         DEF PostContinuing, Handler, TypeOK, collectorVars, threadVars, signalVars, Stoppable,
             Unposted, Uncontinued
    <3>4. IsFiniteSet(Uncontinued(d))
      BY Finite
    <3>5. Cardinality(Uncontinued(d)') = Cardinality(Uncontinued(d)) - 1
      BY <3>3, <3>4, FS_RemoveElement
    <3>6. /\ Cardinality(todo[d]) \in Nat /\ Cardinality(Uncontinued(d)) \in Nat
          /\ Cardinality(Stoppable(d)) \in Nat
      BY Finite
    <3> QED
      BY <3>1, <3>2, <3>3, <3>5, <3>6 DEF PostsInv
  <2> QED
    BY <2>1, <2>2
<1>4. ASSUME NEW u \in Threads PROVE MutexInv(u)'
  BY <1>4
     DEF PostContinuing, Handler, TypeOK, collectorVars, threadVars, signalVars, CollectorInv,
         MutexInv, Stoppable
<1>5. ASSUME NEW u \in Threads PROVE HandlerInv(u)'
  BY <1>5
     DEF PostContinuing, Handler, TypeOK, collectorVars, threadVars, signalVars, CollectorInv,
         MutexInv, HandlerInv, PostsInv, Stoppable
<1> QED
  BY <1>1, <1>2, <1>3, <1>4, <1>5

----------------------------------------------------------------------------
(* The theorems.                                                           *)

LEMMA InitInv == Init => IInv
<1> SUFFICES ASSUME Init PROVE IInv
  OBVIOUS
<1> USE OwnerAssumption, NoneAssumption, KindsAssumption DEF Init, Stopping, Continuing, Locked
<1>1. TypeOK
  BY DEF TypeOK
<1>2. ASSUME NEW c \in Collectors PROVE CollectorInv(c)
  BY <1>2, FS_EmptySet DEF CollectorInv
<1>3. ASSUME NEW c \in Collectors PROVE PostsInv(c)
  BY <1>3 DEF PostsInv
<1>4. ASSUME NEW t \in Threads PROVE MutexInv(t) /\ HandlerInv(t)
  BY <1>4 DEF MutexInv, HandlerInv
<1> QED
  BY <1>1, <1>2, <1>3, <1>4 DEF IInv

LEMMA StutterInv ==
  ASSUME IInv, UNCHANGED vars
  PROVE  IInv'
<1> USE DEF IInv, vars, collectorVars, threadVars, signalVars, handlerVars
<1>1. TypeOK'
  BY DEF TypeOK
<1>2. ASSUME NEW c \in Collectors PROVE CollectorInv(c)'
  BY <1>2 DEF CollectorInv, Stoppable
<1>3. ASSUME NEW c \in Collectors PROVE PostsInv(c)'
  <2>1. /\ Stoppable(c)' = Stoppable(c) /\ Unposted(c)' = Unposted(c)
        /\ Uncontinued(c)' = Uncontinued(c)
    BY DEF Stoppable, Unposted, Uncontinued
  <2> QED
    BY <2>1, PostsSame
<1>4. ASSUME NEW t \in Threads PROVE MutexInv(t)' /\ HandlerInv(t)'
  BY <1>4 DEF MutexInv, HandlerInv, Stoppable
<1> QED
  BY <1>1, <1>2, <1>3, <1>4

LEMMA CollectorStep ==
  ASSUME IInv, NEW c \in Collectors, Collector(c)
  PROVE  IInv'
BY LockGCStep, LockFunMutexStep, BeginStoppingStep, KillUsr1Step, BeginWaitStoppedStep,
   WaitStoppedStep, BeginMarkStep, BeginContinuingStep, KillUsr2Step, BeginWaitContinuedStep,
   WaitContinuedStep, BeginUnlockStep, UnlockFunMutexStep, EndCollectStep DEF Collector

LEMMA ThreadStep ==
  ASSUME IInv, NEW t \in Threads, InProgram(t) \/ InHandler(t)
  PROVE  IInv'
BY RegisterStep, UnregisterStep, EnterLockStep, EnterUnlockStep, ExitLockStep, ExitUnlockStep,
   DeliverUsr1Step, PostStoppingStep, SuspendStep, DeliverUsr2Step, PostContinuingStep
   DEF InProgram, InHandler

LEMMA Invariance == Spec => []IInv
<1>1. IInv /\ [Next]_vars => IInv'
  BY CollectorStep, ThreadStep, StutterInv DEF Next
<1> QED
  BY InitInv, <1>1, PTL DEF Spec

(* A handler uses the ThreadStopCont of its own thread's collector, though *)
(* all the collectors of a process share the pointer thread_stop_cont: a   *)
(* pending SIGUSR1 means that the collector still holds the mutex that     *)
(* guards it (thread_stop_cont.cpp:31-69, 113-126).                        *)
THEOREM HandlersOfOwner == Spec => []HandlerOfOwner
<1>1. IInv => HandlerOfOwner
  BY DEF IInv, HandlerInv, HandlerOfOwner
<1> QED
  BY <1>1, Invariance, PTL

(* When collect() has ended, no post, no first signal and no mutex of it   *)
(* is left: however the handlers and the loops that wait were interleaved, *)
(* as many posts came as were waited for.                                  *)
THEOREM NothingIsLeft == Spec => []NothingLeftOver
<1>1. IInv => NothingLeftOver
  <2> SUFFICES ASSUME IInv, NEW c \in Collectors, pc[c] = "sleep",
                      NEW t \in Threads, Owner[t] = c
               PROVE  /\ stoppingSem[c] = 0 /\ continuingSem[c] = 0
                      /\ ~usr1[t] /\ handler[t] = "none" /\ mutex[t] \in {None, t}
    BY DEF NothingLeftOver, ThreadsOf, IInv, PostsInv, Stopping, Continuing
  <2>1. stoppingSem[c] = 0 /\ continuingSem[c] = 0
    BY DEF IInv, PostsInv, Stopping, Continuing
  <2>2. ~usr1[t] /\ handler[t] = "none"
    BY DEF IInv, HandlerInv, Stopping, Continuing, Locked
  <2>3. mutex[t] \in {None, t}
    BY DEF IInv, MutexInv, Stopping, Continuing, Locked
  <2> QED
    BY <2>1, <2>2, <2>3
<1> QED
  BY <1>1, Invariance, PTL

----------------------------------------------------------------------------
(* The abstract lock.                                                      *)

workingOf == [c \in Collectors |-> Working(c)]
stoppedOf == {c \in Collectors : pc[c] = "mark"}

(* When the collector marks, every thread of it that could work is in its  *)
(* handler's loop.                                                         *)
LEMMA NoneWorks ==
  IInv => \A c \in Collectors : pc[c] = "mark" => Working(c) = {}
<1> SUFFICES ASSUME IInv, NEW c \in Collectors, pc[c] = "mark", NEW t \in Working(c)
             PROVE  FALSE
  OBVIOUS
<1>1. Unposted(c) = {}
  BY DEF IInv, PostsInv
<1>2. t \in contexts[c] /\ t \in Threads
  BY DEF Working, IInv, TypeOK
<1>3. ~flag[t]
  BY <1>2 DEF Working, IInv, MutexInv
<1> QED
  BY <1>1, <1>2, <1>3 DEF Working, Unposted, Stoppable

LEMMA WorkingOfOwner ==
  IInv => \A c \in Collectors : Working(c) \subseteq {t \in Threads : Owner[t] = c}
BY DEF IInv, TypeOK, CollectorInv, Working

(* A step of a collector takes its lock, gives it back, or does neither.   *)
LEMMA WorldCollectorStep ==
  ASSUME IInv, NEW c \in Collectors, Collector(c)
  PROVE  World!Next \/ UNCHANGED <<workingOf, stoppedOf>>
<1>1. contexts' = contexts /\ handler' = handler /\ tpc' = tpc
  BY DEF Collector, LockGC, LockFunMutex, BeginStopping, KillUsr1, BeginWaitStopped, WaitStopped,
         BeginMark, BeginContinuing, KillUsr2, BeginWaitContinued, WaitContinued, BeginUnlock,
         UnlockFunMutex, EndCollect, threadVars, handlerVars
<1>2. workingOf' = workingOf
  BY <1>1 DEF workingOf, Working
<1>3. CASE BeginMark(c)
  <2>1. IInv'
    BY <1>3, BeginMarkStep
  <2>2. pc' = [pc EXCEPT ![c] = "mark"]
    BY <1>3 DEF BeginMark, Goto
  <2>3. stoppedOf' = stoppedOf \union {c}
    BY <2>2 DEF IInv, TypeOK, stoppedOf
  <2>4. Unposted(c)' = {} /\ pc'[c] = "mark"
    BY <2>1, <2>2 DEF IInv, TypeOK, PostsInv
  <2>5. \A t \in contexts[c] : t \in Threads /\ (flag'[t] <=> tpc'[t] \in {"native", "leaving"})
    BY <1>1, <2>1 DEF IInv, TypeOK, MutexInv
  <2>6. Working(c) = {}
    BY <1>1, <2>4, <2>5 DEF Working, Unposted, Stoppable
  <2>7. World!Lock(c)
    BY <1>2, <2>3, <2>6 DEF World!Lock, workingOf, stoppedOf
  <2> QED
    BY <2>7 DEF World!Next
<1>4. CASE BeginContinuing(c)
  <2>1. pc' = [pc EXCEPT ![c] = "kill2"]
    BY <1>4 DEF BeginContinuing, Goto
  <2>2. stoppedOf' = stoppedOf \ {c}
    BY <2>1 DEF IInv, TypeOK, stoppedOf
  <2>3. World!Unlock(c)
    BY <1>2, <2>2 DEF World!Unlock, workingOf, stoppedOf
  <2> QED
    BY <2>3 DEF World!Next
<1>5. CASE ~BeginMark(c) /\ ~BeginContinuing(c)
  <2>1. pc[c] # "mark" /\ \E p : p # "mark" /\ pc' \in {pc, [pc EXCEPT ![c] = p]}
    BY <1>5 DEF Collector, LockGC, LockFunMutex, BeginStopping, KillUsr1, BeginWaitStopped,
         WaitStopped, KillUsr2, BeginWaitContinued, WaitContinued, BeginUnlock,
         UnlockFunMutex, EndCollect, Goto
  <2>2. stoppedOf' = stoppedOf
    BY <2>1 DEF IInv, TypeOK, stoppedOf
  <2> QED
    BY <1>2, <2>2
<1> QED
  BY <1>3, <1>4, <1>5

(* A step of a thread changes at most who works for its own collector, and *)
(* nothing while that one has its lock.                                    *)
LEMMA WorldThreadStep ==
  ASSUME IInv, NEW t \in Threads, InProgram(t) \/ InHandler(t)
  PROVE  World!Next \/ UNCHANGED <<workingOf, stoppedOf>>
<1> DEFINE c == Owner[t]
<1>1. c \in Collectors
  BY OwnerAssumption
<1>2. IInv'
  BY ThreadStep
<1>3. pc' = pc
  BY DEF InProgram, InHandler, Register, Unregister, EnterLock, EnterUnlock, ExitLock, ExitUnlock,
         DeliverUsr1, PostStopping, Suspend, DeliverUsr2, PostContinuing, Move, Handler,
         collectorVars
<1>4. stoppedOf' = stoppedOf
  BY <1>3 DEF stoppedOf
<1>5. ASSUME NEW u \in Threads, u # t
      PROVE  /\ tpc'[u] = tpc[u] /\ handler'[u] = handler[u]
             /\ \A d \in Collectors : u \in contexts'[d] <=> u \in contexts[d]
  BY <1>5, <1>1 DEF InProgram, InHandler, Register, Unregister, EnterLock, EnterUnlock, ExitLock,
         ExitUnlock, DeliverUsr1, PostStopping, Suspend, DeliverUsr2, PostContinuing, Move, Handler,
         threadVars, handlerVars, IInv, TypeOK
<1>6. ASSUME NEW d \in Collectors, d # c PROVE Working(d)' = Working(d)
  <2>1. t \notin Working(d) /\ t \notin Working(d)'
    BY <1>2, <1>6 DEF IInv, CollectorInv, Working
  <2>2. contexts[d] \subseteq Threads /\ contexts'[d] \subseteq Threads
    BY <1>2 DEF IInv, TypeOK
  <2> QED
    BY <1>5, <2>1, <2>2 DEF Working
<1>7. workingOf' = [workingOf EXCEPT ![c] = Working(c)']
  BY <1>1, <1>6 DEF workingOf
<1>8. CASE c \in stoppedOf
  <2>1. pc[c] = "mark" /\ pc'[c] = "mark"
    BY <1>3, <1>8 DEF stoppedOf
  <2>2. Working(c) = {}
    BY <1>1, <2>1, NoneWorks
  <2>3. Unposted(c)' = {}
    BY <1>1, <1>2, <2>1 DEF IInv, PostsInv
  <2>4. \A u \in contexts'[c] : u \in Threads /\ (flag'[u] <=> tpc'[u] \in {"native", "leaving"})
    BY <1>1, <1>2 DEF IInv, TypeOK, MutexInv
  <2>5. Working(c)' = {}
    BY <2>3, <2>4 DEF Working, Unposted, Stoppable
  <2>6. workingOf' = workingOf
    BY <1>1, <1>7, <2>2, <2>5 DEF workingOf
  <2> QED
    BY <1>4, <2>6
<1>9. CASE c \notin stoppedOf
  <2>1. Working(c)' \subseteq {u \in Threads : Owner[u] = c}
    BY <1>1, <1>2 DEF IInv, TypeOK, CollectorInv, Working
  <2>2. World!Work(c)
    BY <1>4, <1>7, <1>9, <2>1 DEF World!Work, workingOf, stoppedOf
  <2> QED
    BY <1>1, <2>2 DEF World!Next
<1> QED
  BY <1>8, <1>9

(* Signals, semaphores and mutexes are the lock the collector needs: while *)
(* it marks, no thread of its machine works on the heap or begins to       *)
(* (Threads::lock and unlock, vm/impl_gc_base.cpp; MarkSweepGC relies on   *)
(* it).                                                                    *)
THEOREM LocksTheWorld == Spec => StopsTheWorld
<1>1. Init => World!Init
  BY DEF Init, World!Init, Working
<1>2. IInv /\ [Next]_vars => World!Next \/ UNCHANGED <<workingOf, stoppedOf>>
  <2> SUFFICES ASSUME IInv, [Next]_vars
               PROVE  World!Next \/ UNCHANGED <<workingOf, stoppedOf>>
    OBVIOUS
  <2>1. CASE UNCHANGED vars
    BY <2>1 DEF vars, collectorVars, threadVars, handlerVars, workingOf, stoppedOf, Working
  <2> QED
    BY <2>1, WorldCollectorStep, WorldThreadStep DEF Next
<1> QED
  BY <1>1, <1>2, Invariance, PTL DEF Spec, StopsTheWorld, World!Spec, workingOf, stoppedOf
=============================================================================
