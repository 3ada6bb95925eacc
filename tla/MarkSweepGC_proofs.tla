------------------------- MODULE MarkSweepGC_proofs -------------------------
(***************************************************************************)
(* Proofs about the collector: the type invariant, that a block under      *)
(* construction is never freed, and that no reachable block is freed       *)
(* unless marking has skipped children at one of the two places where the  *)
(* code lets it.                                                           *)
(***************************************************************************)
EXTENDS MarkSweepGC, TLAPS

(* The variables keep their types.                                         *)
THEOREM TypeCorrect == Spec => []TypeOK
<1>1. Init => TypeOK
  BY DEF Init, TypeOK
<1>2. TypeOK /\ [Next]_vars => TypeOK'
  <2> SUFFICES ASSUME TypeOK, [Next]_vars PROVE TypeOK'
    OBVIOUS
  <2> USE ObjectsAssumption
  <2>1. ASSUME NEW t \in Threads, Allocate(t) PROVE TypeOK'
    BY <2>1 DEF Allocate, TypeOK, Free
  <2>2. ASSUME NEW t \in Threads, AddHeader(t) PROVE TypeOK'
    BY <2>2 DEF AddHeader, TypeOK
  <2>3. ASSUME NEW t \in Threads, SetElems(t) PROVE TypeOK'
    BY <2>3 DEF SetElems, TypeOK
  <2>4. ASSUME NEW t \in Threads, PopArgs(t) PROVE TypeOK'
    BY <2>4 DEF PopArgs, TypeOK
  <2>5. ASSUME NEW t \in Threads, PushValue(t) PROVE TypeOK'
    BY <2>5 DEF PushValue, TypeOK
  <2>6. ASSUME NEW t \in Threads, ClearTmp(t) PROVE TypeOK'
    BY <2>6 DEF ClearTmp, TypeOK
  <2>7. ASSUME NEW t \in Threads, GetElem(t) PROVE TypeOK'
    BY <2>7 DEF GetElem, TypeOK
  <2>8. ASSUME NEW t \in Threads, SetElem(t) PROVE TypeOK'
    BY <2>8 DEF SetElem, TypeOK
  <2>9. ASSUME NEW t \in Threads, DropRoot(t) PROVE TypeOK'
    BY <2>9 DEF DropRoot, TypeOK
  <2>10. ASSUME NEW t \in Threads, AddEntry(t) \/ ReplaceEntryValue(t) \/ GetEntry(t)
         PROVE TypeOK'
    BY <2>10 DEF AddEntry, ReplaceEntryValue, GetEntry, TypeOK
  <2>11. CASE LockGC
    BY <2>11 DEF LockGC, mutatorVars, TypeOK
  <2>12. CASE StopWorld
    BY <2>12 DEF StopWorld, mutatorVars, TypeOK
  <2>13. ASSUME NEW t \in Threads, MarkContext(t) PROVE TypeOK'
    BY <2>13 DEF MarkContext, MarkFrom, Traversed, mutatorVars, TypeOK
  <2>14. CASE MarkVMContexts
    BY <2>14 DEF MarkVMContexts, MarkFrom, Traversed, Listed, mutatorVars, TypeOK
  <2>15. CASE SweepFree
    BY <2>15 DEF SweepFree, mutatorVars, TypeOK
  <2>16. CASE SweepKeep
    BY <2>16 DEF SweepKeep, mutatorVars, TypeOK
  <2>17. CASE EndSweep
    BY <2>17 DEF EndSweep, mutatorVars, TypeOK
  <2>18. CASE UNCHANGED vars
    BY <2>18 DEF vars, TypeOK
  <2>19. QED
    BY <2>1, <2>2, <2>3, <2>4, <2>5, <2>6, <2>7, <2>8, <2>9, <2>10, <2>11, <2>12,
       <2>13, <2>14, <2>15, <2>16, <2>17, <2>18 DEF Next, Mutator, Collector
<1>3. QED
  BY <1>1, <1>2, PTL DEF Spec

----------------------------------------------------------------------------
(* What keeps the block under construction: it is not free, mark has it    *)
(* marked once it has been at its context, and sweep, which looks at       *)
(* listed blocks only, does not meet it unmarked.                          *)
TmpInv ==
  /\ toSweep \subseteq Listed
  /\ \A t \in Threads : tmp[t] # NoObject => tmp[t] \notin Free \union Doomed
  /\ gcpc = "mark" =>
       \A t \in visited : tmp[t] # NoObject => tmp[t] \in marked

LEMMA TmpInvInit == Init => TmpInv
BY DEF Init, TmpInv, Listed, Free, Doomed

(* A step of the collector keeps TmpInv.                                   *)
LEMMA TmpInvCollector ==
  ASSUME TypeOK, TmpInv, Collector
  PROVE  TmpInv'
<1> USE DEF TmpInv, Listed, Free, Doomed, TypeOK, mutatorVars
<1>1. CASE LockGC
  BY <1>1 DEF LockGC
<1>2. CASE StopWorld
  BY <1>2 DEF StopWorld
<1>3. ASSUME NEW u \in Threads, MarkContext(u) PROVE TmpInv'
  BY <1>3 DEF MarkContext
<1>4. CASE MarkVMContexts
  BY <1>4 DEF MarkVMContexts
<1>5. CASE SweepFree
  BY <1>5 DEF SweepFree
<1>6. CASE SweepKeep
  BY <1>6 DEF SweepKeep
<1>7. CASE EndSweep
  BY <1>7 DEF EndSweep
<1>8. QED
  BY <1>1, <1>2, <1>3, <1>4, <1>5, <1>6, <1>7 DEF Collector

(* A step of a mutator keeps TmpInv.                                       *)
LEMMA TmpInvMutator ==
  ASSUME TypeOK, TmpInv, NEW t \in Threads, Mutator(t)
  PROVE  TmpInv'
<1> USE ObjectsAssumption DEF TmpInv, Listed, Free, Doomed, TypeOK, Running, GCUnlocked
<1>1. CASE Allocate(t)
  BY <1>1 DEF Allocate
<1>2. CASE AddHeader(t)
  BY <1>2 DEF AddHeader
<1>3. CASE ClearTmp(t)
  BY <1>3 DEF ClearTmp
<1>4. CASE \/ SetElems(t) \/ PopArgs(t) \/ PushValue(t) \/ GetElem(t) \/ SetElem(t)
           \/ DropRoot(t) \/ AddEntry(t) \/ ReplaceEntryValue(t) \/ GetEntry(t)
  <2>1. UNCHANGED <<status, marked, tmp, gcpc, visited, toSweep>>
    BY <1>4 DEF SetElems, PopArgs, PushValue, GetElem, SetElem, DropRoot, AddEntry,
                ReplaceEntryValue, GetEntry
  <2>2. QED
    BY <2>1
<1>5. QED
  BY <1>1, <1>2, <1>3, <1>4 DEF Mutator

LEMMA TmpInvariant == Spec => []TmpInv
<1>1. TypeOK /\ TmpInv /\ [Next]_vars => TmpInv'
  <2>1. CASE UNCHANGED vars
    BY <2>1 DEF vars, TmpInv, Listed, Free, Doomed
  <2>2. QED
    BY <2>1, TmpInvCollector, TmpInvMutator DEF Next
<1>2. QED
  BY <1>1, TmpInvInit, TypeCorrect, PTL DEF Spec

(* The block a thread has in gc_tmp_ptr is never given back to the         *)
(* allocator, for any number of threads and blocks: this is what the store *)
(* to gc_tmp_ptr ahead of the lock in allocate and the end of the first    *)
(* loop of mark are for.                                                   *)
THEOREM ConstructionSafe == Spec => []ConstructionNotFreed
<1>1. TmpInv => ConstructionNotFreed
  BY DEF TmpInv, ConstructionNotFreed
<1>2. QED
  BY <1>1, TmpInvariant, PTL

----------------------------------------------------------------------------
(* Facts about traversal, for any references C, roots R and marks M.       *)

(* The traversal contains the unmarked roots.                              *)
LEMMA TraversedRoots ==
  ASSUME NEW C, NEW M, NEW R \in SUBSET Objects
  PROVE  R \ M \subseteq Traversed(C, R, M)
BY DEF Traversed

(* The traversal goes on to every unmarked child.                          *)
LEMMA TraversedClosed ==
  ASSUME NEW C \in [Objects -> SUBSET Objects], NEW M, NEW R \in SUBSET Objects,
         NEW o \in Traversed(C, R, M)
  PROVE  C[o] \ M \subseteq Traversed(C, R, M)
BY DEF Traversed, Closed

(* The traversal is the least such set.                                    *)
LEMMA TraversedLeast ==
  ASSUME NEW C, NEW M, NEW R \in SUBSET Objects,
         NEW S \in SUBSET Objects, R \ M \subseteq S,
         \A o \in S : C[o] \ M \subseteq S
  PROVE  Traversed(C, R, M) \subseteq S
BY DEF Traversed, Closed

(* The held objects are blocks and are reachable; so are their children.   *)
LEMMA ReachableFacts ==
  ASSUME TypeOK
  PROVE  /\ HeldObjects \in SUBSET Objects
         /\ HeldObjects \subseteq Reachable
         /\ Reachable \in SUBSET Objects
         /\ \A o \in Reachable : children[o] \subseteq Reachable
<1>1. HeldObjects \in SUBSET Objects
  BY DEF TypeOK, HeldObjects, Held
<1>2. children \in [Objects -> SUBSET Objects]
  BY DEF TypeOK
<1>3. HeldObjects \subseteq Reachable
  BY <1>1, TraversedRoots DEF Reachable, MarkFrom
<1>4. Reachable \in SUBSET Objects
  BY DEF Reachable, MarkFrom, Traversed
<1>5. \A o \in Reachable : children[o] \ {} \subseteq Reachable
  BY <1>1, <1>2, TraversedClosed DEF Reachable, MarkFrom
<1>6. QED
  BY <1>1, <1>3, <1>4, <1>5

----------------------------------------------------------------------------
(* The inductive strengthening of SafeUnlessUnsound.  While the world is   *)
(* stopped the marked objects refer to marked objects only (StopWorld and  *)
(* MarkContext record it in unsound when they do not), and what the        *)
(* contexts that were visited hold is marked.                              *)
MarkingInv ==
  gcpc = "mark" =>
    /\ \A o \in marked : children[o] \subseteq marked
    /\ \A t \in visited : Held(t) \subseteq marked

SafeInv ==
  /\ TmpInv
  /\ unsound \/ (Reachable \intersect (Free \union Doomed) = {} /\ MarkingInv)

(* While the mutators run, the marks and the list do not change in a way   *)
(* that matters, and nothing that was not reachable becomes reachable, the *)
(* safety of the reachable objects is kept.                                *)
LEMMA NothingNewReachable ==
  ASSUME TypeOK, TypeOK', gcpc' = gcpc, gcpc # "mark", unsound' = unsound,
         Free' \subseteq Free, Doomed' \subseteq Doomed,
         unsound \/ (Reachable \intersect (Free \union Doomed) = {} /\ MarkingInv),
         HeldObjects' \subseteq Reachable,
         \A o \in Reachable : children'[o] \subseteq Reachable
  PROVE  (unsound \/ (Reachable \intersect (Free \union Doomed) = {} /\ MarkingInv))'
<1>1. HeldObjects' \in SUBSET Objects
  BY DEF TypeOK, HeldObjects, Held
<1>2. Reachable \in SUBSET Objects
  BY ReachableFacts
<1>3. Reachable' \subseteq Reachable
  BY <1>1, <1>2, TraversedLeast DEF Reachable, MarkFrom
<1>4. QED
  BY <1>3 DEF MarkingInv

(* The same for a step that leaves the lists, the marks and the references *)
(* alone and moves references between the roots.                           *)
LEMMA RootsOnly ==
  ASSUME TypeOK, TypeOK', SafeInv, Running,
         UNCHANGED <<status, marked, children, gcpc, toSweep, unsound>>,
         HeldObjects' \subseteq Reachable
  PROVE  (unsound \/ (Reachable \intersect (Free \union Doomed) = {} /\ MarkingInv))'
<1>1. Free' = Free /\ Doomed' = Doomed
  BY DEF Free, Doomed
<1>2. \A o \in Reachable : children'[o] \subseteq Reachable
  BY ReachableFacts
<1>3. QED
  BY <1>1, <1>2, NothingNewReachable DEF Running, SafeInv

(* A step of a mutator keeps the safety of the reachable objects.          *)
LEMMA SafeMutator ==
  ASSUME TypeOK, TypeOK', SafeInv, NEW t \in Threads, Mutator(t)
  PROVE  (unsound \/ (Reachable \intersect (Free \union Doomed) = {} /\ MarkingInv))'
<1>f. /\ HeldObjects \in SUBSET Objects
      /\ HeldObjects \subseteq Reachable
      /\ Reachable \in SUBSET Objects
      /\ \A o \in Reachable : children[o] \subseteq Reachable
  BY ReachableFacts
<1>h. /\ roots[t] \subseteq Reachable
      /\ globals \subseteq Reachable
      /\ tmp[t] # NoObject => tmp[t] \in Reachable
  BY <1>f DEF HeldObjects, Held
<1>1. CASE Allocate(t)
  <2>1. PICK o \in Free :
          /\ status' = [status EXCEPT ![o] = "raw"]
          /\ children' = [children EXCEPT ![o] = {}]
          /\ marked' = marked \ {o}
          /\ tmp' = [tmp EXCEPT ![t] = o]
    BY <1>1 DEF Allocate
  <2>2. UNCHANGED <<roots, globals, gcpc, toSweep, unsound>> /\ gcpc # "mark" /\ o \in Objects
    BY <1>1, <2>1 DEF Allocate, Running, Free
  <2> DEFINE S == Reachable \union {o}
  <2>3. HeldObjects' \in SUBSET Objects /\ HeldObjects' \subseteq S
    BY <1>f, <2>1, <2>2 DEF TypeOK, HeldObjects, Held
  <2>4. \A x \in S : children'[x] \subseteq S
    BY <1>f, <2>1, <2>2 DEF TypeOK
  <2>5. Reachable' \subseteq S
    <3>1. S \in SUBSET Objects
      BY <1>f, <2>2
    <3>2. Reachable' = Traversed(children', HeldObjects', {})
      BY DEF Reachable, MarkFrom
    <3> HIDE DEF S
    <3>3. QED
      BY <2>3, <2>4, <3>1, <3>2, TraversedLeast
  <2>6. Free' = Free \ {o}
    BY <2>1, <2>2 DEF Free, TypeOK
  <2>7. o \notin toSweep
    BY DEF Free, SafeInv, TmpInv, Listed
  <2>8. Doomed' = Doomed /\ o \notin Doomed
    BY <2>1, <2>2, <2>7 DEF Doomed
  <2>9. QED
    BY <2>2, <2>5, <2>6, <2>8 DEF SafeInv, MarkingInv
<1>2. CASE AddHeader(t)
  <2>1. Free' = Free /\ Doomed' = Doomed
    BY <1>2, ObjectsAssumption DEF AddHeader, Free, Doomed, GCUnlocked, TypeOK, SafeInv, TmpInv
  <2>2. HeldObjects' = HeldObjects
    BY <1>2 DEF AddHeader, HeldObjects, Held
  <2>3. QED
    BY <1>2, <1>f, <2>1, <2>2, NothingNewReachable DEF AddHeader, Running, SafeInv
<1>3. CASE SetElems(t)
  <2>1. PICK C \in SUBSET roots[t] : children' = [children EXCEPT ![tmp[t]] = C]
    BY <1>3 DEF SetElems
  <2>2. \A o \in Reachable : children'[o] \subseteq Reachable
    BY <1>f, <1>h, <2>1 DEF TypeOK
  <2>3. Free' = Free /\ Doomed' = Doomed /\ HeldObjects' = HeldObjects
    BY <1>3 DEF SetElems, Free, Doomed, HeldObjects, Held
  <2>4. QED
    BY <1>3, <1>f, <2>2, <2>3, NothingNewReachable DEF SetElems, Running, SafeInv
<1>4. CASE SetElem(t)
  <2>0. PICK o \in roots[t], c \in roots[t] : \E old \in SUBSET children[o] :
           children' = [children EXCEPT ![o] = (@ \ old) \union {c}]
    BY <1>4 DEF SetElem
  <2>1. PICK old \in SUBSET children[o] :
           children' = [children EXCEPT ![o] = (@ \ old) \union {c}]
    BY <2>0
  <2>2. \A x \in Reachable : children'[x] \subseteq Reachable
    BY <1>f, <1>h, <2>1 DEF TypeOK
  <2>3. Free' = Free /\ Doomed' = Doomed /\ HeldObjects' = HeldObjects
    BY <1>4 DEF SetElem, Free, Doomed, HeldObjects, Held
  <2>4. QED
    BY <1>4, <1>f, <2>2, <2>3, NothingNewReachable DEF SetElem, Running, SafeInv
<1>5. CASE \/ PopArgs(t) \/ PushValue(t) \/ ClearTmp(t) \/ GetElem(t) \/ DropRoot(t)
           \/ AddEntry(t) \/ ReplaceEntryValue(t) \/ GetEntry(t)
  <2>1. Running /\ UNCHANGED <<status, marked, children, gcpc, toSweep, unsound>>
    BY <1>5 DEF PopArgs, PushValue, ClearTmp, GetElem, DropRoot, AddEntry,
                ReplaceEntryValue, GetEntry
  <2>2. HeldObjects' \subseteq Reachable
    <3>1. CASE PopArgs(t) \/ DropRoot(t)
      BY <1>f, <3>1 DEF PopArgs, DropRoot, HeldObjects, Held, TypeOK
    <3>2. CASE PushValue(t)
      BY <1>f, <1>h, <3>2 DEF PushValue, HeldObjects, Held, TypeOK
    <3>3. CASE ClearTmp(t)
      BY <1>f, <3>3 DEF ClearTmp, HeldObjects, Held, TypeOK
    <3>4. CASE GetElem(t)
      BY <1>f, <1>h, <3>4 DEF GetElem, HeldObjects, Held, TypeOK
    <3>5. CASE AddEntry(t) \/ ReplaceEntryValue(t)
      BY <1>f, <1>h, <3>5 DEF AddEntry, ReplaceEntryValue, HeldObjects, Held, TypeOK
    <3>6. CASE GetEntry(t)
      BY <1>f, <1>h, <3>6 DEF GetEntry, HeldObjects, Held, TypeOK
    <3>7. QED
      BY <1>5, <3>1, <3>2, <3>3, <3>4, <3>5, <3>6
  <2>3. QED
    BY <2>1, <2>2, RootsOnly
<1>6. QED
  BY <1>1, <1>2, <1>3, <1>4, <1>5 DEF Mutator

(* The references do not change in a step of the collector, nor do the     *)
(* roots: what is reachable stays so.                                      *)
LEMMA CollectorKeepsReachable ==
  ASSUME Collector
  PROVE  Reachable' = Reachable /\ (\A t \in Threads : Held(t)' = Held(t))
<1>1. UNCHANGED <<roots, tmp, globals, children>>
  BY DEF Collector, LockGC, StopWorld, MarkContext, MarkVMContexts, SweepFree, SweepKeep,
         EndSweep, mutatorVars
<1>2. QED
  BY <1>1 DEF Reachable, MarkFrom, HeldObjects, Held

(* Marking from R keeps the marked objects closed under references.        *)
LEMMA MarkFromClosed ==
  ASSUME TypeOK, NEW R \in SUBSET Objects, \A o \in marked : children[o] \subseteq marked
  PROVE  LET M == marked \union MarkFrom(R, marked)
         IN  R \subseteq M /\ \A o \in M : children[o] \subseteq M
<1>1. R \ marked \subseteq MarkFrom(R, marked)
  BY TraversedRoots DEF MarkFrom
<1>2. \A o \in MarkFrom(R, marked) : children[o] \ marked \subseteq MarkFrom(R, marked)
  BY TraversedClosed DEF MarkFrom, TypeOK
<1>3. QED
  BY <1>1, <1>2

(* A step of the collector keeps the safety of the reachable objects.      *)
LEMMA SafeCollector ==
  ASSUME TypeOK, TypeOK', SafeInv, Collector
  PROVE  (unsound \/ (Reachable \intersect (Free \union Doomed) = {} /\ MarkingInv))'
<1>r. Reachable' = Reachable /\ \A t \in Threads : Held(t)' = Held(t)
  BY CollectorKeepsReachable
<1>1. CASE LockGC \/ EndSweep
  BY <1>1, <1>r DEF LockGC, EndSweep, SafeInv, Free, Doomed, MarkingInv
<1>2. CASE StopWorld
  <2>1. Free' = Free /\ Doomed' = {} /\ (unsound => unsound')
    BY <1>2 DEF StopWorld, Free, Doomed, mutatorVars
  <2>2. unsound' \/ \A o \in marked' : children'[o] \subseteq marked'
    BY <1>2 DEF StopWorld, mutatorVars, TypeOK
  <2>3. visited' = {}
    BY <1>2 DEF StopWorld
  <2>4. QED
    BY <1>2, <1>r, <2>1, <2>2, <2>3 DEF SafeInv, MarkingInv, StopWorld
<1>3. ASSUME NEW u \in Threads, MarkContext(u)
      PROVE (unsound \/ (Reachable \intersect (Free \union Doomed) = {} /\ MarkingInv))'
  <2> DEFINE M == marked \union MarkFrom(roots[u], marked)
             held == {tmp[u]} \ {NoObject}
  <2>1. /\ gcpc = "mark" /\ gcpc' = "mark" /\ visited' = visited \union {u}
        /\ marked' = M \union held /\ children' = children /\ status' = status
        /\ unsound' = (unsound \/ \E o \in held \ M : children[o] # {})
    BY <1>3 DEF MarkContext, mutatorVars
  <2>2. SUFFICES ASSUME ~unsound' PROVE (Reachable \intersect (Free \union Doomed) = {} /\ MarkingInv)'
    OBVIOUS
  <2>3. ~unsound /\ \A o \in held \ M : children[o] = {}
    BY <2>1, <2>2
  <2>4. /\ Reachable \intersect Free = {}
        /\ \A o \in marked : children[o] \subseteq marked
        /\ \A t \in visited : Held(t) \subseteq marked
    BY <2>1, <2>3 DEF SafeInv, MarkingInv
  <2>5. roots[u] \subseteq M /\ \A o \in M : children[o] \subseteq M
    BY <2>4, MarkFromClosed DEF TypeOK
  <2>6. \A o \in marked' : children'[o] \subseteq marked'
    BY <2>1, <2>3, <2>5
  <2>7. \A t \in visited' : Held(t)' \subseteq marked'
    BY <1>r, <2>1, <2>4, <2>5 DEF Held, TypeOK
  <2>8. (Reachable \intersect (Free \union Doomed) = {})'
    BY <1>r, <2>1, <2>4 DEF Free, Doomed
  <2>9. QED
    BY <2>6, <2>7, <2>8 DEF MarkingInv
<1>4. CASE MarkVMContexts
  <2>1. /\ gcpc = "mark" /\ gcpc' = "sweep" /\ visited = Threads /\ status' = status
        /\ marked' = marked \union MarkFrom(globals, marked) /\ unsound' = unsound
    BY <1>4 DEF MarkVMContexts, mutatorVars
  <2>2. SUFFICES ASSUME ~unsound PROVE (Reachable \intersect (Free \union Doomed) = {} /\ MarkingInv)'
    BY <2>1
  <2>3. /\ Reachable \intersect Free = {}
        /\ \A o \in marked : children[o] \subseteq marked
        /\ \A t \in Threads : Held(t) \subseteq marked
    BY <2>1, <2>2 DEF SafeInv, MarkingInv
  <2>4. globals \subseteq marked' /\ \A o \in marked' : children[o] \subseteq marked'
    BY <2>1, <2>3, MarkFromClosed DEF TypeOK
  <2>5. HeldObjects \subseteq marked' /\ HeldObjects \in SUBSET Objects
    BY <2>1, <2>3, <2>4, ReachableFacts DEF HeldObjects
  <2>6. Reachable \subseteq marked'
    BY <2>4, <2>5, TraversedLeast DEF Reachable, MarkFrom, TypeOK
  <2>7. QED
    BY <1>r, <2>1, <2>3, <2>6 DEF Free, Doomed, MarkingInv
<1>5. CASE SweepFree
  BY <1>5, <1>r DEF SweepFree, SafeInv, Free, Doomed, MarkingInv, TypeOK
<1>6. CASE SweepKeep
  BY <1>6, <1>r DEF SweepKeep, SafeInv, Free, Doomed, MarkingInv, mutatorVars
<1>7. QED
  BY <1>1, <1>2, <1>3, <1>4, <1>5, <1>6 DEF Collector

(* For any blocks, threads and arity: a reachable object is freed, or is   *)
(* about to be, only after marking has met a left-over mark on an object   *)
(* with references or an object under construction that was filled and     *)
(* not rooted.                                                             *)
THEOREM ReachableSafe == Spec => []SafeUnlessUnsound
<1>1. Init => SafeInv
  <2> SUFFICES ASSUME Init PROVE SafeInv
    OBVIOUS
  <2>1. HeldObjects = {}
    BY DEF Init, HeldObjects, Held
  <2>2. Reachable \subseteq {}
    BY <2>1, TraversedLeast DEF Reachable, MarkFrom
  <2>3. QED
    BY <2>2, TmpInvInit DEF Init, SafeInv, MarkingInv
<1>2. TypeOK /\ TypeOK' /\ SafeInv /\ [Next]_vars => SafeInv'
  <2> SUFFICES ASSUME TypeOK, TypeOK', SafeInv, [Next]_vars PROVE SafeInv'
    OBVIOUS
  <2>1. CASE UNCHANGED vars
    BY <2>1 DEF vars, SafeInv, TmpInv, MarkingInv, Listed, Free, Doomed, Reachable, MarkFrom,
                HeldObjects, Held
  <2>2. CASE Collector
    BY <2>2, TmpInvCollector, SafeCollector DEF SafeInv
  <2>3. ASSUME NEW t \in Threads, Mutator(t) PROVE SafeInv'
    BY <2>3, TmpInvMutator, SafeMutator DEF SafeInv
  <2>4. QED
    BY <2>1, <2>2, <2>3 DEF Next
<1>3. SafeInv => SafeUnlessUnsound
  BY DEF SafeInv, SafeUnlessUnsound
<1>4. QED
  BY <1>1, <1>2, <1>3, TypeCorrect, PTL DEF Spec
=============================================================================
