----------------------------- MODULE LazyValues -----------------------------
(***************************************************************************)
(* Forcing lazy values: force_value and set_lazy_values_as_shared of       *)
(* vm/vm/interp_vm.cpp, LazyValueMutex and the unwinding of an error       *)
(* (set_error, try_lock_and_unlock_lazy_values) of vm/vm.cpp, and the      *)
(* semaphore lazy_value_mutex_sem that a fork relies on.                   *)
(*                                                                         *)
(* The interpreter is not recursive: to force a lazy value it locks the    *)
(* value's mutex, pushes a locked lazy value reference and the frame of    *)
(* the value's function, lets go of its unique_lock and returns to its     *)
(* loop; when the function leaves, the instruction runs again and adopts   *)
(* the mutex.  So the mutexes a thread holds are those on its stack -      *)
(* until it unlocks one a second time, or adopts one it has not locked.    *)
(* Where that hits a mutex that another thread works under, the two are    *)
(* in the same lazy value and the model stops (astray).                    *)
(***************************************************************************)
EXTENDS Naturals, Sequences, FiniteSets

CONSTANTS
  Threads,
  Lazies,      \* the lazy values
  Deps,        \* the lazy values that the arguments of one lead to
  None,        \* nobody
  MaxSem       \* bound: no mutex is unlocked twice above this value of sem

(* A lazy value is made after its arguments: no chain of arguments comes   *)
(* back to where it began.                                                 *)
ASSUME DepsAssumption ==
  /\ Deps \in [Lazies -> SUBSET Lazies]
  /\ \A S \in SUBSET Lazies : S # {} => \E v \in S : Deps[v] \intersect S = {}
ASSUME NoneAssumption == None \notin Threads \union Lazies

(* What lzv.value is when it is no lazy value: a value of a function, one  *)
(* that was given away, or one that no function returned.                  *)
Plain == {"unset", "shared", "unique", "canceled", "wrong"}

ASSUME PlainAssumption == Lazies \intersect Plain = {}
ASSUME MaxSemAssumption == MaxSem \in Nat

VARIABLES
  value,       \* lzv.value
  mustShare,   \* lzv.must_be_shared
  owner,       \* of lzv.mutex
  given,       \* history: how often lzv.value's unique object was given
  stack,       \* of a thread: its locked lazy value references
  pc,          \* where a thread is
  job,         \* what it locks a lazy value for: to force, or to share it
  want,        \* the lazy value it is at
  count,       \* the thread's _S_locked_mutex_count
  sem,         \* the value of lazy_value_mutex_sem
  adopted,     \* history: the evaluated lazy values that were unlocked by a
               \* thread that had not locked them, while another one had
  astray       \* history: a lazy value that a thread works on as if it had
               \* its mutex, or whose mutex it unlocked under another one

history == <<adopted, astray>>
vars == <<value, mustShare, owner, given, stack, pc, job, want, count, sem, history>>

Init ==
  /\ value = [v \in Lazies |-> "unset"]
  /\ mustShare = [v \in Lazies |-> FALSE]
  /\ owner = [v \in Lazies |-> None]
  /\ given = [v \in Lazies |-> 0]
  /\ stack = [t \in Threads |-> <<>>]
  /\ pc = [t \in Threads |-> "new"]
  /\ job = [t \in Threads |-> "force"]
  /\ want = [t \in Threads |-> None]
  /\ count = [t \in Threads |-> 0]
  /\ sem = 0
  /\ adopted = {}
  /\ astray = None

Goto(t, to) == pc' = [pc EXCEPT ![t] = to]

(* A thread goes to "to" for a lazy value; it is through with it.          *)
GotoFor(t, to, v, j) ==
  /\ Goto(t, to)
  /\ want' = [want EXCEPT ![t] = v]
  /\ job' = [job EXCEPT ![t] = j]

Through(t, to) == GotoFor(t, to, None, "force")

(* LazyValueMutex::unlock for the mutexes of a set, whoever has them: the  *)
(* thread's count stays at 0 when it gets there, and every unlock that     *)
(* leaves it at 0 gives the semaphore back.                                *)
Minus(m, n) == IF m > n THEN m - n ELSE 0

Unlocked(V) == owner' = [v \in Lazies |-> IF v \in V THEN None ELSE owner[v]]

(* Mutant: the semaphore is not given back.                                *)
UnlockWithoutOp(t, V) ==
  /\ Unlocked(V)
  /\ count' = [count EXCEPT ![t] = Minus(@, Cardinality(V))]
  /\ UNCHANGED sem

Unlock(t, V) ==
  /\ Unlocked(V)
  /\ count' = [count EXCEPT ![t] = Minus(@, Cardinality(V))]
  /\ sem' = sem + Minus(Cardinality(V), Minus(count[t], 1))

----------------------------------------------------------------------------
(* ImplVirtualMachineBase::start: op(1) when the thread starts ...         *)
Start(t) ==
  /\ pc[t] = "new"
  /\ Goto(t, "run")
  /\ sem' = sem + 1
  /\ UNCHANGED <<value, mustShare, owner, given, stack, job, want, count, history>>

(* ... and op(-1) when it ends.                                            *)
Finish(t) ==
  /\ pc[t] = "run"
  /\ stack[t] = <<>>
  /\ Goto(t, "end")
  /\ UNCHANGED <<value, mustShare, owner, given, stack, job, want, count, sem, history>>

End(t) ==
  /\ pc[t] = "end"
  /\ sem > 0
  /\ sem' = sem - 1
  /\ Goto(t, "gone")
  /\ UNCHANGED <<value, mustShare, owner, given, stack, job, want, count, history>>

(* The lazy values the function a thread is in can get at.                 *)
ReachOf(s) == IF s = <<>> THEN Lazies ELSE Deps[s[Len(s)]]
InReach(t) == ReachOf(stack[t])

(* An instruction forces an argument of its, or puts it in a shared object.*)
Ask(t) ==
  /\ pc[t] = "run"
  /\ \E v \in InReach(t), j \in {"force", "share"} : GotoFor(t, "sem", v, j)
  /\ UNCHANGED <<value, mustShare, owner, given, stack, count, sem, history>>

(* LazyValueMutex::lock: the semaphore, for the thread's first mutex ...   *)
LockSem(t) ==
  /\ pc[t] = "sem"
  /\ count[t] = 0 => sem > 0
  /\ sem' = IF count[t] = 0 THEN sem - 1 ELSE sem
  /\ count' = [count EXCEPT ![t] = @ + 1]
  /\ Goto(t, "mutex")
  /\ UNCHANGED <<value, mustShare, owner, given, stack, job, want, history>>

(* Mutant: the mutex is taken while another thread has it.                 *)
LockMutexTaken(t) ==
  /\ pc[t] = "mutex"
  /\ owner' = [owner EXCEPT ![want[t]] = t]
  /\ Goto(t, job[t])
  /\ UNCHANGED <<value, mustShare, given, stack, job, want, count, sem, history>>

(* ... and the mutex.                                                      *)
LockMutex(t) ==
  /\ pc[t] = "mutex"
  /\ owner[want[t]] = None
  /\ owner' = [owner EXCEPT ![want[t]] = t]
  /\ Goto(t, job[t])
  /\ UNCHANGED <<value, mustShare, given, stack, job, want, count, sem, history>>

(* Mutant: the unique_lock is not released and unlocks the mutex.          *)
EnterUnlocked(t) ==
  /\ pc[t] = "force"
  /\ value[want[t]] = "unset"
  /\ stack' = [stack EXCEPT ![t] = Append(@, want[t])]
  /\ Unlock(t, {want[t]})
  /\ Through(t, "run")
  /\ UNCHANGED <<value, mustShare, given, history>>

(* force_value: there is no value yet.  The reference is pushed, and the   *)
(* value's function entered with the mutex locked.                         *)
Enter(t) ==
  /\ pc[t] = "force"
  /\ value[want[t]] = "unset"
  /\ stack' = [stack EXCEPT ![t] = Append(@, want[t])]
  /\ Through(t, "run")
  /\ UNCHANGED <<value, mustShare, owner, given, count, sem, history>>

Results(v) == {"shared", "unique"} \union Deps[v]

Top(t) == stack[t][Len(stack[t])]

(* The function returns: the instruction runs again and comes, at once or  *)
(* by adopting others first, to the lazy value whose function it was.  The *)
(* value, which may be lazy itself, is stored.                             *)
Return(t) ==
  /\ stack[t] # <<>>
  /\ pc[t] = "run" \/ (pc[t] = "adopt" /\ want[t] = Top(t))
  /\ LET n == Len(stack[t])
         v == Top(t)
     IN /\ \E r \in Results(v) : value' = [value EXCEPT ![v] = r]
        /\ stack' = [stack EXCEPT ![t] = SubSeq(@, 1, n - 1)]
        /\ GotoFor(t, "force", v, "force")
  /\ UNCHANGED <<mustShare, owner, given, count, sem, history>>

(* force_value: the value is taken, a unique object leaves nothing behind, *)
(* and a lazy value is forced in its turn.  A unique object is refused to  *)
(* a reference that was canceled lazily, and when it must be shared.       *)
TakeValue(t) ==
  /\ pc[t] = "force"
  /\ LET v == want[t]
         r == value[v]
     IN /\ r # "unset"
        /\ Unlock(t, {v})
        /\ \/ /\ r \in {"shared", "wrong"}
              /\ Through(t, "run")
              /\ UNCHANGED <<value, given>>
           \/ /\ r = "canceled"
              /\ Through(t, "error")
              /\ UNCHANGED <<value, given>>
           \/ /\ r = "unique"
              /\ value' = [value EXCEPT ![v] = "canceled"]
              /\ \E refused \in {mustShare[v], TRUE} :
                   /\ Through(t, IF refused THEN "error" ELSE "run")
                   /\ given' = [given EXCEPT ![v] = IF refused THEN @ ELSE @ + 1]
           \/ /\ r \in Lazies
              /\ GotoFor(t, "sem", r, "force")
              /\ UNCHANGED <<value, given>>
  /\ UNCHANGED <<mustShare, stack, history>>

(* set_lazy_values_as_shared: one turn of its loop.                        *)
Share(t) ==
  /\ pc[t] = "share"
  /\ LET v == want[t]
         r == value[v]
     IN /\ Unlock(t, {v})
        /\ mustShare' = [mustShare EXCEPT ![v] = @ \/ r # "unique"]
        /\ \/ /\ ~mustShare[v] /\ r \in Lazies
              /\ GotoFor(t, "sem", r, "share")
           \/ /\ mustShare[v] \/ r \notin Lazies
              /\ Through(t, IF ~mustShare[v] /\ r = "unique" THEN "error" ELSE "run")
  /\ UNCHANGED <<value, given, stack, history>>

(* Mutant: the unwinding stops one frame too early.                        *)
AboveNext(t, n) == {stack[t][i] : i \in (n + 2) .. Len(stack[t])}

(* The lazy values of the frames above the n-th.                           *)
Above(t, n) == {stack[t][i] : i \in (n + 1) .. Len(stack[t])}

CutTo(t, n) == stack' = [stack EXCEPT ![t] = SubSeq(@, 1, n)]

(* set_error: the stack is cut down to the frame that catches the error,   *)
(* a try's or the thread's first, and the mutexes above it are unlocked.   *)
SetError(t) ==
  /\ pc[t] = "error" \/ (pc[t] = "run" /\ stack[t] # <<>>)
  /\ \E n \in 0 .. Len(stack[t]) :
       /\ pc[t] = "run" => n < Len(stack[t])
       /\ Unlock(t, Above(t, n))
       /\ CutTo(t, n)
  /\ Goto(t, "run")
  /\ UNCHANGED <<value, mustShare, given, job, want, history>>

(* The n-th frame catches an error as a try's forced result                *)
(* (set_try_regs_for_force): force_value goes on as after a return of its  *)
(* function and stores what is in regs.rv.                                 *)
StoreWrong(t, n) ==
  /\ CutTo(t, n - 1)
  /\ value' = [value EXCEPT ![stack[t][n]] = "wrong"]
  /\ GotoFor(t, "force", stack[t][n], "force")

(* set_error, when force_rv forces the result of a try's function.         *)
SetErrorInTry(t) ==
  /\ pc[t] \in {"error", "run"}
  /\ \E n \in 1 .. Len(stack[t]) : Unlock(t, Above(t, n)) /\ StoreWrong(t, n)
  /\ UNCHANGED <<mustShare, given, history>>

----------------------------------------------------------------------------
(* Errors of force_value while it sets up the function's frame.            *)

Entering(t) == pc[t] = "force" /\ value[want[t]] = "unset"

(* One that leaves the lazy value's mutex unlocked once: by the            *)
(* unique_lock before the reference is pushed, by the unwinding when the   *)
(* unique_lock is released.                                                *)
EnterFails(t) ==
  /\ Entering(t)
  /\ \/ /\ \E n \in 0 .. Len(stack[t]) :
               Unlock(t, Above(t, n) \union {want[t]}) /\ CutTo(t, n)
        /\ Through(t, "run")
        /\ UNCHANGED value
     \/ \E n \in 1 .. Len(stack[t]) :
          Unlock(t, Above(t, n) \union {want[t]}) /\ StoreWrong(t, n)
  /\ UNCHANGED <<mustShare, given, history>>

(* A stack overflow while the arguments are pushed: the unwinding finds    *)
(* the reference and unlocks the mutex, and the unique_lock still has it.  *)
EnterOverflows(t) ==
  /\ Entering(t)
  /\ sem < MaxSem
  /\ \E n \in 0 .. Len(stack[t]) :
       /\ Unlock(t, Above(t, n) \union {want[t]})
       /\ CutTo(t, n)
       /\ Goto(t, "unlock") \/ (n > 0 /\ Goto(t, "unlockTry"))
  /\ UNCHANGED <<value, mustShare, given, job, want, history>>

(* The unique_lock's destructor unlocks it again, whoever has it by now.   *)
UnlockAgain(t) ==
  /\ pc[t] \in {"unlock", "unlockTry"}
  /\ Unlock(t, {want[t]})
  /\ astray' = IF owner[want[t]] = None THEN None ELSE want[t]
  /\ \/ pc[t] = "unlock" /\ Through(t, "run") /\ UNCHANGED <<value, stack>>
     \/ pc[t] = "unlockTry" /\ StoreWrong(t, Len(stack[t]))
  /\ UNCHANGED <<mustShare, given, adopted>>

(* An error of the strategy, in the arguments it forces, that the frame    *)
(* being set up catches itself: the unwinding keeps the reference and the  *)
(* unique_lock, which is not released, unlocks the mutex ...               *)
EnterCaught(t) ==
  /\ Entering(t)
  /\ sem < MaxSem
  /\ Unlock(t, {want[t]})
  /\ Goto(t, "caught")
  /\ UNCHANGED <<value, mustShare, given, stack, job, want, history>>

(* ... that the instruction, when it runs again, adopts: it stores what is *)
(* in regs.rv and unlocks the mutex once more.                             *)
StoreUnlocked(t) ==
  /\ pc[t] = "caught"
  /\ IF owner[want[t]] = None /\ value[want[t]] = "unset"
     THEN /\ value' = [value EXCEPT ![want[t]] = "wrong"]
          /\ Goto(t, "unlock")
          /\ UNCHANGED astray
     ELSE /\ astray' = want[t]
          /\ UNCHANGED <<value, pc>>
  /\ UNCHANGED <<mustShare, owner, given, stack, job, want, count, sem, adopted>>

(* After the return of a function the instruction may come to another of   *)
(* its lazy values first: it adopts the mutex without having locked it ... *)
ReturnFirst(t) ==
  /\ pc[t] = "run"
  /\ stack[t] # <<>>
  /\ sem < MaxSem
  /\ \E v \in ReachOf(SubSeq(stack[t], 1, Len(stack[t]) - 1)) \ {Top(t)} :
       GotoFor(t, "adopt", v, "force")
  /\ UNCHANGED <<value, mustShare, owner, given, stack, count, sem, history>>

(* ... and unlocks it, and goes on with the lazy value it was evaluated    *)
(* to, as it did before; with any other value it goes astray.              *)
Adopt(t) ==
  /\ pc[t] = "adopt"
  /\ want[t] # Top(t)
  /\ LET v == want[t]
     IN IF value[v] \in Lazies
        THEN /\ Unlock(t, {v})
             /\ adopted' = IF owner[v] = None THEN adopted ELSE adopted \union {v}
             /\ GotoFor(t, "adopt", value[v], "force")
             /\ UNCHANGED astray
        ELSE astray' = v /\ UNCHANGED <<owner, count, sem, adopted, pc, want, job>>
  /\ UNCHANGED <<value, mustShare, given, stack>>

----------------------------------------------------------------------------
(* posix.fork, seen from the child: the other threads and what they had    *)
(* for themselves are gone, the mutexes are copied as they are, and        *)
(* InternalForkHandler makes the semaphore anew.                           *)
ForkChild(t) ==
  /\ pc[t] = "run"
  /\ \E u \in Threads \ {t} : pc[u] # "gone"
  /\ pc' = [u \in Threads |-> IF u = t THEN "run" ELSE "gone"]
  /\ stack' = [u \in Threads |-> IF u = t THEN stack[t] ELSE <<>>]
  /\ job' = [u \in Threads |-> IF u = t THEN job[t] ELSE "force"]
  /\ want' = [u \in Threads |-> IF u = t THEN want[t] ELSE None]
  /\ count' = [u \in Threads |-> IF u = t THEN count[t] ELSE 0]
  /\ sem' = 1
  /\ UNCHANGED <<value, mustShare, owner, given, history>>

(* All threads have ended - or, in a child, wait for a mutex whose thread  *)
(* was left in the parent: nothing unlocks it there.                       *)
Orphan(v) == \E t \in Threads : owner[v] = t /\ pc[t] = "gone"

Ended ==
  /\ \/ astray # None
     \/ \A t \in Threads : pc[t] = "gone" \/ (pc[t] = "mutex" /\ Orphan(want[t]))
  /\ UNCHANGED vars

GoOn(t) ==
  /\ astray = None
  /\ \/ End(t) \/ LockSem(t) \/ LockMutex(t) \/ Enter(t) \/ TakeValue(t) \/ Share(t)
     \/ UnlockAgain(t) \/ StoreUnlocked(t) \/ Adopt(t)

Leave(t) == astray = None /\ (Return(t) \/ SetError(t) \/ SetErrorInTry(t))

Fails(t) ==
  /\ astray = None
  /\ EnterFails(t) \/ EnterOverflows(t) \/ EnterCaught(t) \/ ReturnFirst(t)

Calls(t) == astray = None /\ (Start(t) \/ Finish(t) \/ Ask(t) \/ ForkChild(t))

Next ==
  \/ \E t \in Threads : Calls(t) \/ GoOn(t) \/ Leave(t) \/ Fails(t)
  \/ Ended

Spec == Init /\ [][Next]_vars

(* A thread is run, and a mutex that is free again and again is got in the *)
(* end.  The function of a lazy value terminates: a thread that is back in *)
(* its frame again and again leaves it in the end.                         *)
LeaveFrame(t, n) == Len(stack[t]) = n /\ Leave(t) /\ Len(stack'[t]) < n

Fairness ==
  \A t \in Threads :
    /\ SF_vars(GoOn(t))
    /\ \A n \in 1 .. Cardinality(Lazies) : SF_vars(LeaveFrame(t, n))

FairSpec == Spec /\ Fairness

----------------------------------------------------------------------------
TypeOK ==
  /\ value \in [Lazies -> Plain \union Lazies]
  /\ mustShare \in [Lazies -> BOOLEAN]
  /\ owner \in [Lazies -> Threads \union {None}]
  /\ given \in [Lazies -> Nat]
  /\ stack \in [Threads -> Seq(Lazies)]
  /\ pc \in [Threads -> {"new", "run", "sem", "mutex", "force", "share", "error", "end", "gone",
                        "unlock", "unlockTry", "caught", "adopt"}]
  /\ job \in [Threads -> {"force", "share"}]
  /\ want \in [Threads -> Lazies \union {None}]
  /\ count \in [Threads -> Nat]
  /\ sem \in Nat
  /\ adopted \in SUBSET Lazies
  /\ astray \in Lazies \union {None}

(* A thread holds exactly the mutexes that are on its stack, and the one   *)
(* it is at, each once: a return, a value taken and an unwinding leave     *)
(* none locked and take none from another thread, so the function of a     *)
(* lazy value runs in one thread, and there once, at a time.  Three paths  *)
(* of force_value can break this (astray): the overflow that unlocks       *)
(* twice, the error that the frame being set up catches, and a restart     *)
(* that comes to a lazy value with no lazy one as its value; up to there   *)
(* it holds.  An adopter may unlock a lazy value (adopted), but only one   *)
(* that has been evaluated.                                                *)
Holds(t) ==
  {stack[t][i] : i \in DOMAIN stack[t]}
    \union (IF pc[t] \in {"force", "share"} THEN {want[t]} ELSE {})

MutexesOfStack ==
  /\ TypeOK
  /\ \A v \in adopted : value[v] \in Lazies
  /\ astray = None => \A t \in Threads : pc[t] # "gone" =>
       /\ \A v \in Lazies \ adopted : owner[v] = t <=> v \in Holds(t)
       /\ Cardinality(Holds(t)) =
            Len(stack[t]) + (IF pc[t] \in {"force", "share"} THEN 1 ELSE 0)

(* The semaphore is there to keep threads out of lazy values while the     *)
(* process is copied; no thread that locks a mutex or ends ever waits for  *)
(* another thread at it, in a child neither.                               *)
SemNeverBlocks ==
  \A t \in Threads :
    pc[t] = "end" \/ (pc[t] = "sem" /\ count[t] = 0) => sem > 0

(* The locks and the unwinding implement call by need, up to where a       *)
(* thread goes astray.                                                     *)
Need == INSTANCE CallByNeed

ImplementsCallByNeed == Need!Spec

(* A thread that waits for a lazy value gets it, unless the one that holds *)
(* it was left behind in the parent by a fork, or a thread has gone astray.*)
WaitEnds ==
  \A t \in Threads : \A v \in Lazies :
    (pc[t] = "mutex" /\ want[t] = v) ~>
      (pc[t] # "mutex" \/ Orphan(v) \/ astray # None)

(* vm_tests.cpp, test_vm_complains_on_unique_reference_in_shared_tuple_    *)
(* for_lazy_evaluation: a unique object that a lazy value in a shared      *)
(* object leads to is given to nobody.  The mark is not passed on to the   *)
(* lazy value that a marked one is evaluated to.                           *)
UniqueInSharedIsRefused ==
  [][\A v, w \in Lazies :
       mustShare[v] /\ value[v] = w => given'[w] = given[w]]_vars
=============================================================================
