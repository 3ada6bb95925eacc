---------------------------- MODULE MarkSweepGC ----------------------------
(***************************************************************************)
(* The mark and sweep collector of vm/gc/mark_sweep_gc.{hpp,cpp} together  *)
(* with the mutators it serves: the interpreter threads, which allocate,   *)
(* fill, root and drop objects (vm/vm/interp_vm.cpp, vm/vm.hpp).           *)
(*                                                                         *)
(* A block is an element of Objects.  What a block holds is abstracted to  *)
(* the set of blocks it refers to; what a stack, the registers and the     *)
(* ring of registered references of a thread hold is abstracted to the set *)
(* of blocks ThreadContext::traverse_root_objects reports.  The steps are  *)
(* as small as the SIGUSR1 of vm/thread_stop_cont.cpp can make them: a     *)
(* mutator is stopped between any two of its actions here.                 *)
(*                                                                         *)
(* Stopping the world is a guard in this module (Running); how the threads *)
(* are really stopped and continued is module StopTheWorld.                *)
(***************************************************************************)
EXTENDS Naturals, FiniteSets

CONSTANTS
  Objects,     \* blocks of memory the allocator can hand out
  Threads,     \* threads with a registered ThreadContext
  NoObject,    \* nullptr in regs.gc_tmp_ptr
  Arity        \* bound: the most references one object holds

ASSUME ObjectsAssumption == NoObject \notin Objects
ASSUME ThreadsAssumption == IsFiniteSet(Threads)
ASSUME ArityAssumption == Arity \in Nat

VARIABLES
  status,      \* of a block: free, raw (not yet in a list) or listed
  children,    \* the blocks an object refers to (traverse_child_objects)
  marked,      \* blocks with Header::stack_prev # nullptr
  roots,       \* per thread, what traverse_root_objects reports
  tmp,         \* per thread, regs.gc_tmp_ptr
  pc,          \* per thread, where it is in an allocating instruction
  globals,     \* what VirtualMachineContext::traverse_root_objects reports
  gcpc,        \* the collector's place in collect()
  visited,     \* contexts mark() has been through
  toSweep,     \* headers sweep() has still to look at
  unsound      \* history: marking has skipped the children of an object

vars == <<status, children, marked, roots, tmp, pc, globals,
          gcpc, visited, toSweep, unsound>>

mutatorVars == <<roots, tmp, pc, globals, children>>
collectorVars == <<gcpc, visited, toSweep, unsound>>

----------------------------------------------------------------------------
Free == {o \in Objects : status[o] = "free"}
Listed == {o \in Objects : status[o] = "listed"}

(* A thread takes steps unless the world is stopped.                       *)
Running == gcpc # "mark"

(* The gc mutex: collect() holds it from its first line to its last.       *)
GCUnlocked == gcpc = "sleep"

(* What mark_from_object marks when it is called for every object of R in  *)
(* turn, the blocks of M being marked: it never goes through a marked      *)
(* object.  C gives the references of an object.                           *)
Closed(C, S, M) == \A o \in S : C[o] \ M \subseteq S

Traversed(C, R, M) ==
  {o \in Objects : \A S \in SUBSET Objects :
                      (R \ M \subseteq S /\ Closed(C, S, M)) => o \in S}

MarkFrom(R, M) == Traversed(children, R, M)

Held(t) == roots[t] \union ({tmp[t]} \ {NoObject})

HeldObjects == globals \union UNION {Held(t) : t \in Threads}

(* The objects the program can still get at: the roots, the objects being  *)
(* built, and everything they refer to.                                    *)
Reachable == MarkFrom(HeldObjects, {})

----------------------------------------------------------------------------
Init ==
  /\ status = [o \in Objects |-> "free"]
  /\ children = [o \in Objects |-> {}]
  /\ marked = {}
  /\ roots = [t \in Threads |-> {}]
  /\ tmp = [t \in Threads |-> NoObject]
  /\ pc = [t \in Threads |-> "run"]
  /\ globals = {}
  /\ gcpc = "sleep"
  /\ visited = {}
  /\ toSweep = {}
  /\ unsound = FALSE

----------------------------------------------------------------------------
(* Mutators.                                                               *)

(* allocate, up to the fence before the lock: the block is the allocator's *)
(* no more, its header is new and gc_tmp_ptr holds it.                     *)
Allocate(t) ==
  /\ Running
  /\ pc[t] = "run"
  /\ \E o \in Free :
       /\ status' = [status EXCEPT ![o] = "raw"]
       /\ children' = [children EXCEPT ![o] = {}]
       /\ marked' = marked \ {o}
       /\ tmp' = [tmp EXCEPT ![t] = o]
  /\ pc' = [pc EXCEPT ![t] = "add"]
  /\ UNCHANGED <<roots, globals, gcpc, visited, toSweep, unsound>>

(* allocate, the critical section: add_header links the block.             *)
AddHeader(t) ==
  /\ Running
  /\ pc[t] = "add"
  /\ GCUnlocked
  /\ status' = [status EXCEPT ![tmp[t]] = "listed"]
  /\ pc' = [pc EXCEPT ![t] = "build"]
  /\ UNCHANGED <<marked, roots, tmp, globals, children, gcpc, visited, toSweep, unsound>>

(* The operation fills the new object from references it has on the stack. *)
SetElems(t) ==
  /\ Running
  /\ pc[t] = "build"
  /\ \E C \in SUBSET roots[t] :
       /\ Cardinality(C) <= Arity
       /\ children' = [children EXCEPT ![tmp[t]] = C]
  /\ pc' = [pc EXCEPT ![t] = "built"]
  /\ UNCHANGED <<status, marked, roots, tmp, globals, gcpc, visited, toSweep, unsound>>

(* pop_args (or leave_from_fun) lowers sec: the arguments are no roots any *)
(* more, and the new value is not yet one.                                 *)
PopArgs(t) ==
  /\ Running
  /\ pc[t] = "built"
  /\ \E R \in SUBSET roots[t] : roots' = [roots EXCEPT ![t] = R]
  /\ pc' = [pc EXCEPT ![t] = "popped"]
  /\ UNCHANGED <<status, marked, tmp, globals, children, gcpc, visited, toSweep, unsound>>

(* push_local_var, push_arg, push_expr_value, or regs.rv = value.          *)
PushValue(t) ==
  /\ Running
  /\ pc[t] = "popped"
  /\ roots' = [roots EXCEPT ![t] = @ \union {tmp[t]}]
  /\ pc' = [pc EXCEPT ![t] = "pushed"]
  /\ UNCHANGED <<status, marked, tmp, globals, children, gcpc, visited, toSweep, unsound>>

(* gc_tmp_ptr = nullptr at the end of the instruction.                     *)
ClearTmp(t) ==
  /\ Running
  /\ pc[t] = "pushed"
  /\ tmp' = [tmp EXCEPT ![t] = NoObject]
  /\ pc' = [pc EXCEPT ![t] = "run"]
  /\ UNCHANGED <<status, marked, roots, globals, children, gcpc, visited, toSweep, unsound>>

(* An operation reads an element; the value it leaves is a root.           *)
GetElem(t) ==
  /\ Running
  /\ pc[t] = "run"
  /\ \E o \in roots[t] : \E c \in children[o] :
       roots' = [roots EXCEPT ![t] = @ \union {c}]
  /\ UNCHANGED <<status, marked, tmp, pc, globals, children, gcpc, visited, toSweep, unsound>>

(* An operation on a unique object, or force_value on a lazy value, puts a *)
(* reference in an object in place of another one.                         *)
SetElem(t) ==
  /\ Running
  /\ pc[t] = "run"
  /\ \E o, c \in roots[t] : \E old \in SUBSET children[o] :
       /\ Cardinality((children[o] \ old) \union {c}) <= Arity
       /\ children' = [children EXCEPT ![o] = (@ \ old) \union {c}]
  /\ UNCHANGED <<status, marked, roots, tmp, pc, globals, gcpc, visited, toSweep, unsound>>

(* A local variable, an argument or a register is dropped or overwritten.  *)
DropRoot(t) ==
  /\ Running
  /\ pc[t] = "run"
  /\ \E o \in roots[t] : roots' = [roots EXCEPT ![t] = @ \ {o}]
  /\ UNCHANGED <<status, marked, tmp, pc, globals, children, gcpc, visited, toSweep, unsound>>

(* HashTable::add links a new entry in the memoization cache: it holds the *)
(* gc mutex while it does.                                                 *)
AddEntry(t) ==
  /\ Running
  /\ pc[t] = "run"
  /\ GCUnlocked
  /\ \E o \in roots[t] : globals' = globals \union {o}
  /\ UNCHANGED <<status, marked, roots, tmp, pc, children, gcpc, visited, toSweep, unsound>>

(* HashTable::add finds the entry and overwrites its value, with no lock.  *)
ReplaceEntryValue(t) ==
  /\ Running
  /\ pc[t] = "run"
  /\ \E old \in globals, o \in roots[t] : globals' = (globals \ {old}) \union {o}
  /\ UNCHANGED <<status, marked, roots, tmp, pc, children, gcpc, visited, toSweep, unsound>>

(* HashTable::get, or a global variable is read.                           *)
GetEntry(t) ==
  /\ Running
  /\ pc[t] = "run"
  /\ \E o \in globals : roots' = [roots EXCEPT ![t] = @ \union {o}]
  /\ UNCHANGED <<status, marked, tmp, pc, globals, children, gcpc, visited, toSweep, unsound>>

Mutator(t) ==
  \/ Allocate(t) \/ AddHeader(t) \/ SetElems(t) \/ PopArgs(t) \/ PushValue(t)
  \/ ClearTmp(t) \/ GetElem(t) \/ SetElem(t) \/ DropRoot(t)
  \/ AddEntry(t) \/ ReplaceEntryValue(t) \/ GetEntry(t)

----------------------------------------------------------------------------
(* The collector.                                                          *)

(* collect takes the gc mutex.                                             *)
LockGC ==
  /\ gcpc = "sleep"
  /\ gcpc' = "locked"
  /\ UNCHANGED <<status, marked, mutatorVars, visited, toSweep, unsound>>

(* collect stops the world.  A mark left over from an earlier collection   *)
(* will stop mark_from_object, so the children of such an object are lost. *)
StopWorld ==
  /\ gcpc = "locked"
  /\ gcpc' = "mark"
  /\ visited' = {}
  /\ unsound' = (unsound \/ \E o \in marked : children[o] # {})
  /\ UNCHANGED <<status, marked, mutatorVars, toSweep>>

(* Mutant: mark does not look at gc_tmp_ptr.                               *)
MarkContextWithoutTmp(t) ==
  /\ gcpc = "mark"
  /\ t \in Threads \ visited
  /\ visited' = visited \union {t}
  /\ marked' = marked \union MarkFrom(roots[t], marked)
  /\ UNCHANGED <<status, mutatorVars, gcpc, toSweep, unsound>>

(* One turn of mark's first loop: the roots of a context are traversed,    *)
(* then gc_tmp_ptr's header is marked and its children are not.            *)
MarkContext(t) ==
  /\ gcpc = "mark"
  /\ t \in Threads \ visited
  /\ visited' = visited \union {t}
  /\ LET M == marked \union MarkFrom(roots[t], marked)
         held == {tmp[t]} \ {NoObject}
     IN /\ marked' = M \union held
        /\ unsound' = (unsound \/ \E o \in held \ M : children[o] # {})
  /\ UNCHANGED <<status, mutatorVars, gcpc, toSweep>>

(* Mutant: mark has no second loop.                                        *)
MarkVMContextsForgotten ==
  /\ gcpc = "mark"
  /\ visited = Threads
  /\ gcpc' = "sweep"
  /\ toSweep' = Listed
  /\ UNCHANGED <<status, marked, mutatorVars, visited, unsound>>

(* mark's second loop, after which the world goes on and sweep starts.     *)
MarkVMContexts ==
  /\ gcpc = "mark"
  /\ visited = Threads
  /\ marked' = marked \union MarkFrom(globals, marked)
  /\ gcpc' = "sweep"
  /\ toSweep' = Listed
  /\ UNCHANGED <<status, mutatorVars, visited, unsound>>

(* sweep meets a header that is not marked: the block goes back to the     *)
(* allocator and what it held is not looked at again.                      *)
SweepFree ==
  /\ gcpc = "sweep"
  /\ \E o \in toSweep \ marked :
       /\ status' = [status EXCEPT ![o] = "free"]
       /\ toSweep' = toSweep \ {o}
  /\ UNCHANGED <<marked, mutatorVars, gcpc, visited, unsound>>

(* Mutant: sweep leaves the mark.                                          *)
SweepKeepMarked ==
  /\ gcpc = "sweep"
  /\ \E o \in toSweep \intersect marked : toSweep' = toSweep \ {o}
  /\ UNCHANGED <<status, marked, mutatorVars, gcpc, visited, unsound>>

(* sweep meets a marked header and takes its mark away.                    *)
SweepKeep ==
  /\ gcpc = "sweep"
  /\ \E o \in toSweep \intersect marked :
       /\ marked' = marked \ {o}
       /\ toSweep' = toSweep \ {o}
  /\ UNCHANGED <<status, mutatorVars, gcpc, visited, unsound>>

(* sweep is at the end of the list and collect gives the gc mutex back.    *)
EndSweep ==
  /\ gcpc = "sweep"
  /\ toSweep = {}
  /\ gcpc' = "sleep"
  /\ UNCHANGED <<status, marked, mutatorVars, visited, toSweep, unsound>>

Collector ==
  \/ LockGC \/ StopWorld \/ (\E t \in Threads : MarkContext(t))
  \/ MarkVMContexts \/ SweepFree \/ SweepKeep \/ EndSweep

Next == Collector \/ \E t \in Threads : Mutator(t)

Spec == Init /\ [][Next]_vars

(* The gc thread is never told to stop and every stop of the world ends    *)
(* (module StopTheWorld), so collect runs to its end again and again.      *)
Fairness == WF_vars(Collector)

FairSpec == Spec /\ Fairness

----------------------------------------------------------------------------
TypeOK ==
  /\ status \in [Objects -> {"free", "raw", "listed"}]
  /\ children \in [Objects -> SUBSET Objects]
  /\ marked \subseteq Objects
  /\ roots \in [Threads -> SUBSET Objects]
  /\ tmp \in [Threads -> Objects \union {NoObject}]
  /\ pc \in [Threads -> {"run", "add", "build", "built", "popped", "pushed"}]
  /\ \A t \in Threads : (pc[t] = "run") <=> (tmp[t] = NoObject)
  /\ globals \subseteq Objects
  /\ gcpc \in {"sleep", "locked", "mark", "sweep"}
  /\ visited \subseteq Threads
  /\ toSweep \subseteq Objects
  /\ unsound \in BOOLEAN

(* gc_tests.cpp, test_gc_does_not_collect_objects_in_thread_contexts and   *)
(* its companions: no object that a thread, the global variables or the    *)
(* memoization caches can still reach is freed.  The code does not keep it *)
(* (see unsound).                                                          *)
ReachableNotFreed == Reachable \intersect Free = {}

(* What sweep is going to free.                                            *)
Doomed == IF gcpc = "sweep" THEN toSweep \ marked ELSE {}

(* The two places where the code loses children are the only ones: unless  *)
(* a marking met a mark that was left over on an object with references,   *)
(* or marked an object under construction after it was filled and before   *)
(* it was rooted, no reachable object has been freed, and none is on the   *)
(* part of the list that the sweep is about to free.                       *)
SafeUnlessUnsound == unsound \/ Reachable \intersect (Free \union Doomed) = {}

(* Whatever the interleaving, the block gc_tmp_ptr holds is not freed: not *)
(* before its header is in the list, nor while it is filled, nor until it  *)
(* is rooted (allocate stores gc_tmp_ptr before it asks for the lock, and  *)
(* mark looks at every gc_tmp_ptr).                                        *)
ConstructionNotFreed ==
  \A t \in Threads : tmp[t] # NoObject => tmp[t] \notin (Free \union Doomed)

(* A block the program has lost is freed in the end: the collector goes on *)
(* for ever, and a left-over mark saves garbage for one collection only.   *)
GarbageIsFreed ==
  \A o \in Objects :
    (status[o] = "listed" /\ o \notin Reachable) ~> (status[o] = "free")
============================================================================
