---------------------------- MODULE StopTheWorld ----------------------------
(***************************************************************************)
(* How a collector stops and continues the threads: Threads::lock and      *)
(* Threads::unlock of vm/impl_gc_base.cpp over the signals and semaphores  *)
(* of vm/thread_stop_cont.cpp (its Unix half), and the part the threads    *)
(* play in it: the SIGUSR1 handler, the interruptible native functions     *)
(* (vm/vm.cpp, InterruptibleFunctionAround), and the registration of a     *)
(* thread with its collector when it starts and ends.                      *)
(*                                                                         *)
(* A process may hold several virtual machines, each with a collector and  *)
(* threads of its own; they share the pointer thread_stop_cont, the mutex  *)
(* that guards it, and the signals.                                        *)
(***************************************************************************)
EXTENDS Naturals, FiniteSets

CONSTANTS
  Collectors,  \* the collectors of the process, and their ThreadStopConts
  Threads,     \* the threads virtual machines start
  Owner,       \* the collector of a thread
  None         \* nobody holds a mutex, the pointer is null

ASSUME OwnerAssumption == Owner \in [Threads -> Collectors]
ASSUME NoneAssumption == None \notin Collectors \union Threads
ASSUME KindsAssumption == Collectors \intersect Threads = {}

VARIABLES
  pc,          \* a collector's place in collect()
  todo,        \* threads its present loop has still to go through
  gcMutex,     \* _M_gc_mutex is held by collect()
  contexts,    \* _M_thread_contexts
  stopMutex,   \* who holds thread_stop_cont_mutex
  stopCont,    \* the pointer thread_stop_cont
  hasStopping, \* ThreadStopCont::has_stopping
  stoppingSem, \* ThreadStopCont::stopping_sem
  continuingSem, \* ThreadStopCont::continuing_sem
  tpc,         \* where a thread is
  mutex,       \* who holds the thread's _M_interruptible_fun_mutex
  flag,        \* the thread's _M_interruptible_fun_flag
  usr1,        \* SIGUSR1 is pending for the thread
  usr2,        \* SIGUSR2 is pending for the thread (it is blocked)
  handler,     \* where the thread is in usr1_handler
  handled      \* the handler's tmp_thread_stop_cont

collectorVars == <<pc, todo, gcMutex, stopMutex, stopCont, hasStopping>>
threadVars == <<tpc, flag, contexts>>
signalVars == <<usr1, usr2>>
handlerVars == <<handler, handled>>
vars == <<collectorVars, threadVars, signalVars, handlerVars,
          stoppingSem, continuingSem, mutex>>

----------------------------------------------------------------------------
ThreadsOf(c) == {t \in Threads : Owner[t] = c}

(* The threads stop_threads and continue_threads go through.               *)
Stoppable(c) == {t \in contexts[c] : ~flag[t]}

Init ==
  /\ pc = [c \in Collectors |-> "sleep"]
  /\ todo = [c \in Collectors |-> {}]
  /\ gcMutex = [c \in Collectors |-> FALSE]
  /\ contexts = [c \in Collectors |-> {}]
  /\ stopMutex = None
  /\ stopCont = None
  /\ hasStopping = [c \in Collectors |-> FALSE]
  /\ stoppingSem = [c \in Collectors |-> 0]
  /\ continuingSem = [c \in Collectors |-> 0]
  /\ tpc = [t \in Threads |-> "new"]
  /\ mutex = [t \in Threads |-> None]
  /\ flag = [t \in Threads |-> FALSE]
  /\ usr1 = [t \in Threads |-> FALSE]
  /\ usr2 = [t \in Threads |-> FALSE]
  /\ handler = [t \in Threads |-> "none"]
  /\ handled = [t \in Threads |-> None]

----------------------------------------------------------------------------
(* A collector.                                                            *)

Goto(c, from, to) == pc[c] = from /\ pc' = [pc EXCEPT ![c] = to]

(* A loop over contexts takes a thread and goes on until none is left.     *)
Take(c, t) == t \in todo[c] /\ todo' = [todo EXCEPT ![c] = @ \ {t}]

Begin(c, S) == todo' = [todo EXCEPT ![c] = S]

(* collect: lock_guard on the gc mutex.                                    *)
LockGC(c) ==
  /\ Goto(c, "sleep", "mutexes")
  /\ ~gcMutex[c]
  /\ gcMutex' = [gcMutex EXCEPT ![c] = TRUE]
  /\ Begin(c, contexts[c])
  /\ UNCHANGED <<stopMutex, stopCont, hasStopping, threadVars, signalVars, handlerVars,
                 stoppingSem, continuingSem, mutex>>

(* Threads::lock: one interruptible_fun_mutex.                             *)
LockFunMutex(c) ==
  /\ pc[c] = "mutexes"
  /\ \E t \in Threads :
       /\ Take(c, t)
       /\ mutex[t] = None
       /\ mutex' = [mutex EXCEPT ![t] = c]
  /\ UNCHANGED <<pc, gcMutex, stopMutex, stopCont, hasStopping, threadVars, signalVars,
                 handlerVars, stoppingSem, continuingSem>>

(* stop_threads: the guard, the pointer and has_stopping.                  *)
BeginStopping(c) ==
  /\ Goto(c, "mutexes", "kill1")
  /\ todo[c] = {}
  /\ stopMutex = None
  /\ stopMutex' = c
  /\ stopCont' = c
  /\ hasStopping' = [hasStopping EXCEPT ![c] = TRUE]
  /\ Begin(c, Stoppable(c))
  /\ UNCHANGED <<gcMutex, threadVars, signalVars, handlerVars, stoppingSem, continuingSem, mutex>>

(* stop_threads: pthread_kill(SIGUSR1).                                    *)
KillUsr1(c) ==
  /\ pc[c] = "kill1"
  /\ \E t \in Threads : Take(c, t) /\ usr1' = [usr1 EXCEPT ![t] = TRUE]
  /\ UNCHANGED <<pc, gcMutex, stopMutex, stopCont, hasStopping, threadVars, usr2, handlerVars,
                 stoppingSem, continuingSem, mutex>>

(* Mutant: stop_threads does not keep thread_stop_cont_mutex while it      *)
(* waits for the handlers.                                                 *)
BeginWaitStoppedUnlocked(c) ==
  /\ Goto(c, "kill1", "wait1")
  /\ todo[c] = {}
  /\ Begin(c, Stoppable(c))
  /\ stopMutex' = None
  /\ UNCHANGED <<gcMutex, stopCont, hasStopping, threadVars, signalVars, handlerVars,
                 stoppingSem, continuingSem, mutex>>

BeginWaitStopped(c) ==
  /\ Goto(c, "kill1", "wait1")
  /\ todo[c] = {}
  /\ Begin(c, Stoppable(c))
  /\ UNCHANGED <<gcMutex, stopMutex, stopCont, hasStopping, threadVars, signalVars, handlerVars,
                 stoppingSem, continuingSem, mutex>>

(* stop_threads: one sem_wait(stopping_sem).                               *)
WaitStopped(c) ==
  /\ pc[c] = "wait1"
  /\ \E t \in Threads : Take(c, t)
  /\ stoppingSem[c] > 0
  /\ stoppingSem' = [stoppingSem EXCEPT ![c] = @ - 1]
  /\ UNCHANGED <<pc, gcMutex, stopMutex, stopCont, hasStopping, threadVars, signalVars,
                 handlerVars, continuingSem, mutex>>

(* stop_threads returns and gives thread_stop_cont_mutex back; mark().     *)
BeginMark(c) ==
  /\ Goto(c, "wait1", "mark")
  /\ todo[c] = {}
  /\ stopMutex' = None
  /\ UNCHANGED <<todo, gcMutex, stopCont, hasStopping, threadVars, signalVars, handlerVars,
                 stoppingSem, continuingSem, mutex>>

(* continue_threads: has_stopping = false.                                 *)
BeginContinuing(c) ==
  /\ Goto(c, "mark", "kill2")
  /\ hasStopping' = [hasStopping EXCEPT ![c] = FALSE]
  /\ Begin(c, Stoppable(c))
  /\ UNCHANGED <<gcMutex, stopMutex, stopCont, threadVars, signalVars, handlerVars,
                 stoppingSem, continuingSem, mutex>>

(* continue_threads: pthread_kill(SIGUSR2).                                *)
KillUsr2(c) ==
  /\ pc[c] = "kill2"
  /\ \E t \in Threads : Take(c, t) /\ usr2' = [usr2 EXCEPT ![t] = TRUE]
  /\ UNCHANGED <<pc, gcMutex, stopMutex, stopCont, hasStopping, threadVars, usr1, handlerVars,
                 stoppingSem, continuingSem, mutex>>

BeginWaitContinued(c) ==
  /\ Goto(c, "kill2", "wait2")
  /\ todo[c] = {}
  /\ Begin(c, Stoppable(c))
  /\ UNCHANGED <<gcMutex, stopMutex, stopCont, hasStopping, threadVars, signalVars, handlerVars,
                 stoppingSem, continuingSem, mutex>>

(* continue_threads: one sem_wait(continuing_sem).                         *)
WaitContinued(c) ==
  /\ pc[c] = "wait2"
  /\ \E t \in Threads : Take(c, t)
  /\ continuingSem[c] > 0
  /\ continuingSem' = [continuingSem EXCEPT ![c] = @ - 1]
  /\ UNCHANGED <<pc, gcMutex, stopMutex, stopCont, hasStopping, threadVars, signalVars,
                 handlerVars, stoppingSem, mutex>>

(* Mutant: continue_threads does not wait for the last handler.            *)
BeginUnlockEarly(c) ==
  /\ Goto(c, "wait2", "unlock")
  /\ Cardinality(todo[c]) <= 1
  /\ Begin(c, contexts[c])
  /\ UNCHANGED <<gcMutex, stopMutex, stopCont, hasStopping, threadVars, signalVars, handlerVars,
                 stoppingSem, continuingSem, mutex>>

BeginUnlock(c) ==
  /\ Goto(c, "wait2", "unlock")
  /\ todo[c] = {}
  /\ Begin(c, contexts[c])
  /\ UNCHANGED <<gcMutex, stopMutex, stopCont, hasStopping, threadVars, signalVars, handlerVars,
                 stoppingSem, continuingSem, mutex>>

(* Threads::unlock: one interruptible_fun_mutex.                           *)
UnlockFunMutex(c) ==
  /\ pc[c] = "unlock"
  /\ \E t \in Threads : Take(c, t) /\ mutex' = [mutex EXCEPT ![t] = None]
  /\ UNCHANGED <<pc, gcMutex, stopMutex, stopCont, hasStopping, threadVars, signalVars,
                 handlerVars, stoppingSem, continuingSem>>

(* sweep(), with the threads running, and the gc mutex is given back.      *)
EndCollect(c) ==
  /\ Goto(c, "unlock", "sleep")
  /\ todo[c] = {}
  /\ gcMutex' = [gcMutex EXCEPT ![c] = FALSE]
  /\ UNCHANGED <<todo, stopMutex, stopCont, hasStopping, threadVars, signalVars, handlerVars,
                 stoppingSem, continuingSem, mutex>>

Collector(c) ==
  \/ LockGC(c) \/ LockFunMutex(c) \/ BeginStopping(c) \/ KillUsr1(c)
  \/ BeginWaitStopped(c) \/ WaitStopped(c) \/ BeginMark(c) \/ BeginContinuing(c)
  \/ KillUsr2(c) \/ BeginWaitContinued(c) \/ WaitContinued(c) \/ BeginUnlock(c)
  \/ UnlockFunMutex(c) \/ EndCollect(c)

----------------------------------------------------------------------------
(* A thread, when no handler runs on it.                                   *)

Move(t, from, to) ==
  /\ handler[t] = "none"
  /\ tpc[t] = from
  /\ tpc' = [tpc EXCEPT ![t] = to]
  /\ UNCHANGED <<collectorVars, signalVars, handlerVars, stoppingSem, continuingSem>>

(* ImplVirtualMachineBase::start: start_thread_stop_cont and               *)
(* add_thread_context, which takes the gc mutex.                           *)
Register(t) ==
  /\ Move(t, "new", "run")
  /\ ~gcMutex[Owner[t]]
  /\ contexts' = [contexts EXCEPT ![Owner[t]] = @ \union {t}]
  /\ UNCHANGED <<flag, mutex>>

(* The end of the thread's function: delete_thread_context.                *)
Unregister(t) ==
  /\ Move(t, "run", "gone")
  /\ ~gcMutex[Owner[t]]
  /\ contexts' = [contexts EXCEPT ![Owner[t]] = @ \ {t}]
  /\ UNCHANGED <<flag, mutex>>

(* InterruptibleFunctionAround's constructor and destructor: the flag is   *)
(* set and reset with the thread's own mutex held.                         *)
EnterLock(t) ==
  /\ Move(t, "run", "entering")
  /\ mutex[t] = None
  /\ mutex' = [mutex EXCEPT ![t] = t]
  /\ UNCHANGED <<flag, contexts>>

EnterUnlock(t) ==
  /\ Move(t, "entering", "native")
  /\ flag' = [flag EXCEPT ![t] = TRUE]
  /\ mutex' = [mutex EXCEPT ![t] = None]
  /\ UNCHANGED contexts

(* Mutant: the destructor does not lock the mutex.                         *)
ExitLockFree(t) == Move(t, "native", "leaving") /\ UNCHANGED <<flag, contexts, mutex>>

ExitLock(t) ==
  /\ Move(t, "native", "leaving")
  /\ mutex[t] = None
  /\ mutex' = [mutex EXCEPT ![t] = t]
  /\ UNCHANGED <<flag, contexts>>

ExitUnlock(t) ==
  /\ Move(t, "leaving", "run")
  /\ flag' = [flag EXCEPT ![t] = FALSE]
  /\ mutex' = [mutex EXCEPT ![t] = None]
  /\ UNCHANGED contexts

----------------------------------------------------------------------------
(* The handler of SIGUSR1.                                                 *)

Handler(t, from, to) ==
  /\ handler[t] = from
  /\ handler' = [handler EXCEPT ![t] = to]
  /\ UNCHANGED <<collectorVars, threadVars, mutex>>

(* The signal is delivered and the handler reads the pointer.              *)
DeliverUsr1(t) ==
  /\ usr1[t]
  /\ Handler(t, "none", "entered")
  /\ usr1' = [usr1 EXCEPT ![t] = FALSE]
  /\ handled' = [handled EXCEPT ![t] = stopCont]
  /\ UNCHANGED <<usr2, stoppingSem, continuingSem>>

(* has_stopping: sem_post(stopping_sem) and on to the loop; otherwise the  *)
(* handler returns.                                                        *)
PostStopping(t) ==
  LET c == handled[t]
      stopping == hasStopping[c]
  IN /\ Handler(t, "entered", IF stopping THEN "loop" ELSE "none")
     /\ stoppingSem' = [stoppingSem EXCEPT ![c] = IF stopping THEN @ + 1 ELSE @]
     /\ handled' = [handled EXCEPT ![t] = IF stopping THEN c ELSE None]
     /\ UNCHANGED <<signalVars, continuingSem>>

(* while(has_stopping): into sigsuspend.                                   *)
Suspend(t) ==
  /\ Handler(t, "loop", "suspended")
  /\ hasStopping[handled[t]]
  /\ UNCHANGED <<handled, signalVars, stoppingSem, continuingSem>>

(* Mutant: SIGUSR2 is not blocked in the handler and may be delivered      *)
(* between the test of has_stopping and sigsuspend.                        *)
DeliverUsr2Unblocked(t) ==
  /\ usr2[t]
  /\ \E to \in {"loop", "suspended"} : Handler(t, "suspended", to)
  /\ usr2' = [usr2 EXCEPT ![t] = FALSE]
  /\ UNCHANGED <<handled, usr1, stoppingSem, continuingSem>>

(* sigsuspend returns when SIGUSR2 is delivered: the only signal it lets   *)
(* in, and the only place where SIGUSR2 is let in.                         *)
DeliverUsr2(t) ==
  /\ usr2[t]
  /\ Handler(t, "suspended", "loop")
  /\ usr2' = [usr2 EXCEPT ![t] = FALSE]
  /\ UNCHANGED <<handled, usr1, stoppingSem, continuingSem>>

(* Mutant: the handler returns without sem_post(continuing_sem).           *)
PostContinuingForgotten(t) ==
  /\ Handler(t, "loop", "none")
  /\ ~hasStopping[handled[t]]
  /\ handled' = [handled EXCEPT ![t] = None]
  /\ UNCHANGED <<signalVars, stoppingSem, continuingSem>>

(* The loop ends: sem_post(continuing_sem) and return.                     *)
PostContinuing(t) ==
  /\ Handler(t, "loop", "none")
  /\ ~hasStopping[handled[t]]
  /\ continuingSem' = [continuingSem EXCEPT ![handled[t]] = @ + 1]
  /\ handled' = [handled EXCEPT ![t] = None]
  /\ UNCHANGED <<signalVars, stoppingSem>>

InHandler(t) ==
  \/ DeliverUsr1(t) \/ PostStopping(t) \/ Suspend(t) \/ DeliverUsr2(t)
  \/ PostContinuing(t)

InProgram(t) ==
  \/ Register(t) \/ Unregister(t) \/ EnterLock(t) \/ EnterUnlock(t)
  \/ ExitLock(t) \/ ExitUnlock(t)

Next ==
  \/ \E c \in Collectors : Collector(c)
  \/ \E t \in Threads : InProgram(t) \/ InHandler(t)

Spec == Init /\ [][Next]_vars

(* A collector and a handler go on; a thread leaves a critical section it  *)
(* is in; a mutex that is free again and again is got in the end.  Nothing *)
(* is assumed of the program: a thread may stay where it is for ever.      *)
Fairness ==
  /\ \A c \in Collectors :
       WF_vars(Collector(c)) /\ SF_vars(LockFunMutex(c)) /\ SF_vars(BeginStopping(c))
  /\ \A t \in Threads :
       WF_vars(InHandler(t)) /\ WF_vars(EnterUnlock(t)) /\ WF_vars(ExitUnlock(t))

FairSpec == Spec /\ Fairness

----------------------------------------------------------------------------
TypeOK ==
  /\ pc \in [Collectors -> {"sleep", "mutexes", "kill1", "wait1", "mark", "kill2", "wait2", "unlock"}]
  /\ todo \in [Collectors -> SUBSET Threads]
  /\ gcMutex \in [Collectors -> BOOLEAN]
  /\ contexts \in [Collectors -> SUBSET Threads]
  /\ stopMutex \in Collectors \union {None}
  /\ stopCont \in Collectors \union {None}
  /\ hasStopping \in [Collectors -> BOOLEAN]
  /\ stoppingSem \in [Collectors -> Nat]
  /\ continuingSem \in [Collectors -> Nat]
  /\ tpc \in [Threads -> {"new", "run", "entering", "native", "leaving", "gone"}]
  /\ mutex \in [Threads -> Threads \union Collectors \union {None}]
  /\ flag \in [Threads -> BOOLEAN]
  /\ usr1 \in [Threads -> BOOLEAN]
  /\ usr2 \in [Threads -> BOOLEAN]
  /\ handler \in [Threads -> {"none", "entered", "loop", "suspended"}]
  /\ handled \in [Threads -> Collectors \union {None}]

(* A thread that can touch the heap: it is registered, no handler has it,  *)
(* and it is not in (or on the way out of) an interruptible function.      *)
Working(c) ==
  {t \in contexts[c] : handler[t] \in {"none", "entered"} /\ tpc[t] \in {"run", "entering"}}

(* Threads::lock and unlock implement the abstract lock: while a collector *)
(* marks, no thread of its own works on the heap, or begins to.            *)
World == INSTANCE WorldLock WITH working <- [c \in Collectors |-> Working(c)],
                                 stopped <- {c \in Collectors : pc[c] = "mark"}

StopsTheWorld == World!Spec

(* A handler uses the ThreadStopCont of its own thread's collector, though *)
(* all the collectors of a process share one pointer to it: stop_threads   *)
(* keeps thread_stop_cont_mutex until every handler has posted.            *)
HandlerOfOwner ==
  /\ TypeOK
  /\ \A t \in Threads : handler[t] # "none" => handled[t] = Owner[t]

(* Between collections nothing is left of a collection: the semaphores are *)
(* at zero, no SIGUSR1 is pending and no thread is in the handler; a       *)
(* SIGUSR2 that came when its thread had seen has_stopping false may be    *)
(* pending, and the loop around sigsuspend is there for it.                *)
NothingLeftOver ==
  \A c \in Collectors :
    pc[c] = "sleep" =>
      /\ stoppingSem[c] = 0 /\ continuingSem[c] = 0
      /\ \A t \in ThreadsOf(c) : ~usr1[t] /\ handler[t] = "none" /\ mutex[t] \in {None, t}

(* A collection ends: no thread's stop or continuation is lost or waited   *)
(* for in vain.                                                            *)
CollectionsEnd == \A c \in Collectors : pc[c] = "mutexes" ~> pc[c] = "sleep"

(* A stopped thread goes on: the SIGUSR2 that would wake it is not lost    *)
(* between the test of has_stopping and sigsuspend.                        *)
StoppedThreadsContinue == \A t \in Threads : handler[t] = "suspended" ~> handler[t] = "none"
============================================================================
