------------------------ MODULE UniqueObjects_proofs ------------------------
(***************************************************************************)
(* Proofs about UniqueObjects, for a heap and a frame of any size.         *)
(***************************************************************************)
EXTENDS UniqueObjects, FiniteSetTheorems, SequenceTheorems, WellFoundedInduction, TLAPS

Kinds == {"nums", "tuple", "rarray"}

ObjectType ==
  [kind : Kinds \union {"free", "lazy"}, unique : BOOLEAN, elems : Seq(Values), val : Values,
   vt : {"num", "ref"}, share : BOOLEAN, ran : BOOLEAN]

(* What a value refers to is there, and is of its kind.                    *)
Refers(h, v) ==
  /\ v \in Values
  /\ v.t = "ref" => h[v.r].kind \in Kinds
  /\ IsLazy(v) => h[v.r].kind = "lazy"

AllRefer(h, s) == s \in Seq(Values) /\ \A i \in DOMAIN s : Refers(h, s[i])

(* A value, or a lazy one, of the type of a lazy value.                    *)
OfType(h, v, vt) == v.t = vt \/ (IsLazy(v) /\ h[v.r].vt = vt)

(* A value that a shared object may have.                                  *)
MayBeShared(h, v) ==
  /\ v.t = "ref" => ~h[v.r].unique
  /\ IsLazy(v) => h[v.r].share

ObjectInv(h, o) ==
  /\ AllRefer(h, h[o].elems) /\ Refers(h, h[o].val)
  /\ h[o].unique => h[o].kind \in Kinds
  /\ h[o].val \in {Error, Canceled} \/ OfType(h, h[o].val, h[o].vt)
  /\ h[o].kind \in {"tuple", "rarray"} /\ ~h[o].unique =>
       \A i \in DOMAIN h[o].elems : MayBeShared(h, h[o].elems[i])

HeapInv(h) ==
  /\ h \in [Everything -> ObjectType]
  /\ h[Global].kind = "nums" /\ ~h[Global].unique
  /\ h[Global].elems = <<>> /\ h[Global].val = Error
  /\ \A o \in Everything : ObjectInv(h, o)

(* The parts of the frame with the temporary values, by name.              *)
FrameNames == {"vars", "args", "evs"}
Names == FrameNames \union {"tmp"}

Part(n) == CASE n = "vars" -> vars [] n = "args" -> args [] n = "evs" -> evs [] n = "tmp" -> tmp

Began(n) == CASE n = "vars" -> began[1] [] n = "args" -> began[2] [] n = "evs" -> began[3]

ValuesInv ==
  /\ \A n \in Names : AllRefer(heap, Part(n))
  /\ Len(tmp) = 2
  /\ Refers(heap, saved) /\ Refers(heap, tryArg) /\ Refers(heap, rv)
  /\ Used(args) <= MaxSlots
  /\ tryArg # Error => MaxSlots >= 2

(* The operands of the instruction, and what it has got of them.           *)
OperandKinds == {"const", "var", "arg", "pop", "eval", "saved", "pushed"}

OperandInv(j) ==
  /\ ops[j].k = "var" => ops[j].i \in DOMAIN vars
  /\ ops[j].k = "arg" => ops[j].i \in DOMAIN args
  /\ ops[j].k = "pushed" => sig[1] = "ref" /\ j = 3 /\ ops[j].i \in DOMAIN args
  /\ ops[j].k = "pop" => j \in {1, 2}
  /\ ops[j].k = "saved" => sig = <<"ref">> /\ args = <<>>
  /\ ops[j].k = "const" => j \in DOMAIN got
  /\ sig[j] = "arg" => ops[j].k = "arg"
  /\ sig[j] = "value" => Len(sig) = 1

GotInv(j) ==
  /\ Refers(heap, got[j])
  /\ sig[j] \in {"num", "ref"} => got[j].t = sig[j]

InstructionInv ==
  /\ sig \in Seq({"num", "ref", "arg", "value"})
  /\ ops \in Seq([k : OperandKinds, i : Nat \ {0}]) /\ Len(ops) = Len(sig)
  /\ got \in [DOMAIN got -> Values] /\ DOMAIN got \subseteq DOMAIN ops
  /\ \A j \in DOMAIN ops : OperandInv(j)
  /\ \A j \in DOMAIN got : GotInv(j)

SavedOp == \E j \in DOMAIN ops : ops[j].k = "saved"

(* What has been canceled.                                                 *)
UndoInv ==
  /\ undo \subseteq (Names \X (Nat \ {0})) \X Values
  /\ \A e \in undo : e[2].t = "ref" /\ Refers(heap, e[2])
  /\ undo # {} /\ ~SavedOp => \E j \in DOMAIN got : got[j].t = "ref" /\ heap[got[j].r].unique
  /\ SavedOp /\ IsLazy(saved) => undo = {}

(* The steps of an instruction.                                            *)
StepInv ==
  /\ pc \in {"idle", "operand", "pop", "pushed", "force", "callee", "ready", "undefined"}
  /\ forcing \in Objs \union {None}
  /\ pc \in {"idle", "undefined", "callee"} => undo = {}
  /\ pc \in {"operand", "pushed", "force"} => DOMAIN got # DOMAIN ops
  /\ pc = "pop" => Operands(ops) \subseteq DOMAIN got
  /\ pc = "pushed" => SetsElement
  /\ pc = "ready" => DOMAIN got = DOMAIN ops
  /\ pc = "force" =>
       /\ at = Place(Here) /\ ~Missing
       /\ IsLazy(Slot(at)) /\ IsLazy(Read)
       /\ sig[Here] = "arg" \/ sig[Here] = heap[Slot(at).r].vt
  /\ pc = "callee" => \E j \in DOMAIN ops : ops[j].k # "const"
  /\ pc = "idle" => ~resumed
  /\ pc = "callee" \/ resumed =>
       forcing \in Objs /\ heap[forcing].kind = "lazy" /\ sig # <<"value">>
  /\ resumed => OfType(heap, rv, heap[forcing].vt)

(* An instruction that can be broken off and begun again.                  *)
InFrame == pc \in {"operand", "force", "callee"} /\ ~SetsElement /\ ~(SavedOp /\ undo # {})

SlotKept(n, i) ==
  /\ \A e \in undo : e[1] = <<n, i>> => Part(n)[i] = Canceled
  /\ \/ IsLazy(Began(n)[i])
     \/ /\ \A e \in undo : e[1] = <<n, i>> => e[2] = Began(n)[i]
        /\ Part(n)[i] = Began(n)[i] \/ \E e \in undo : e[1] = <<n, i>>

FrameInv ==
  InFrame => \A n \in FrameNames :
    /\ Began(n) \in Seq(Values) /\ Len(Part(n)) = Len(Began(n))
    /\ \A i \in DOMAIN Part(n) : SlotKept(n, i)

(* The value of an operand is there and is not lazy.                       *)
NotLazy(j) ==
  /\ ValuePlace(ops, j)[2] \in DOMAIN Part(ValuePlace(ops, j)[1])
  /\ ~IsLazy(Slot(ValuePlace(ops, j)))

GotNotLazy ==
  InFrame /\ ~SavedOp /\ sig # <<"value">> =>
    \A j \in DOMAIN got : ops[j].k # "const" => NotLazy(j)

(* The operand the instruction was broken off at.                          *)
BrokenOffAt(j) ==
  /\ ops[j].k # "const"
  /\ ValuePlace(ops, j)[2] \in DOMAIN Part(ValuePlace(ops, j)[1])
  /\ IsLazy(Slot(ValuePlace(ops, j)))
  /\ ops[j].k # "pop" => Slot(ValuePlace(ops, j)).r = forcing
  /\ \A i \in DOMAIN ops : i < j /\ ops[i].k # "const" => NotLazy(i)

ResumeInv ==
  InFrame /\ ~SavedOp /\ (pc = "callee" \/ resumed) =>
    \E j \in DOMAIN ops : BrokenOffAt(j) /\ (pc # "callee" => j \notin DOMAIN got)

IInv ==
  /\ HeapInv(heap) /\ ValuesInv /\ InstructionInv /\ UndoInv /\ StepInv
  /\ FrameInv /\ GotNotLazy /\ ResumeInv

----------------------------------------------------------------------------
(* Values and the heap.                                                    *)
LEMMA ValueFields ==
  ASSUME NEW v \in Values
  PROVE  /\ v.t \in {"num", "canceled", "error", "ref", "lazy", "lazyc"}
         /\ v.t \in {"ref", "lazy", "lazyc"} => v.r \in Everything
         /\ v.t \in {"num", "canceled", "error"} => v.r = None
         /\ v = V(v.t, v.r)
  BY DEF Values, V

LEMMA PlainValues ==
  ASSUME NEW h
  PROVE  Refers(h, Num) /\ Refers(h, Canceled) /\ Refers(h, Error)
  BY DEF Refers, Num, Canceled, Error, V, Values, IsLazy

(* What is kept of the objects there are when others are made, elements    *)
(* taken out, and lazy values shared and evaluated.                        *)
Keeps(h, g) ==
  \A o \in Everything : h[o].kind # "free" =>
    /\ g[o].kind = h[o].kind /\ g[o].unique = h[o].unique /\ g[o].vt = h[o].vt
    /\ h[o].share => g[o].share

LEMMA KeptValue ==
  ASSUME NEW h, NEW g, NEW v, Keeps(h, g), Refers(h, v)
  PROVE  /\ Refers(g, v)
         /\ \A vt : OfType(h, v, vt) => OfType(g, v, vt)
         /\ MayBeShared(h, v) => MayBeShared(g, v)
<1>1. v \in Values
  BY DEF Refers
<1>2. v.t = "ref" \/ IsLazy(v) => v.r \in Everything /\ h[v.r].kind # "free"
  BY <1>1, ValueFields DEF Refers, IsLazy, Kinds
<1>3. v.t = "ref" \/ IsLazy(v) =>
        /\ g[v.r].kind = h[v.r].kind /\ g[v.r].unique = h[v.r].unique /\ g[v.r].vt = h[v.r].vt
        /\ h[v.r].share => g[v.r].share
  BY <1>2 DEF Keeps
<1>4. Refers(g, v)
  BY <1>1, <1>3 DEF Refers
<1>5. ASSUME NEW vt, OfType(h, v, vt) PROVE OfType(g, v, vt)
  BY <1>3, <1>5 DEF OfType
<1>6. MayBeShared(h, v) => MayBeShared(g, v)
  BY <1>3 DEF MayBeShared
<1> QED
  BY <1>4, <1>5, <1>6

LEMMA KeptValues ==
  ASSUME NEW h, NEW g, NEW s, Keeps(h, g), AllRefer(h, s)
  PROVE  AllRefer(g, s)
  BY KeptValue DEF AllRefer

LEMMA KeptObject ==
  ASSUME NEW h, NEW g, NEW o \in Everything, Keeps(h, g), ObjectInv(h, o),
         g[o].elems = h[o].elems, g[o].val = h[o].val, g[o].kind = h[o].kind,
         g[o].unique = h[o].unique, g[o].vt = h[o].vt
  PROVE  ObjectInv(g, o)
<1>1. AllRefer(g, g[o].elems) /\ Refers(g, g[o].val)
  BY KeptValue, KeptValues DEF ObjectInv
<1>2. g[o].val \in {Error, Canceled} \/ OfType(g, g[o].val, g[o].vt)
  BY KeptValue DEF ObjectInv
<1>3. ASSUME NEW i \in DOMAIN g[o].elems, g[o].kind \in {"tuple", "rarray"}, ~g[o].unique
      PROVE  MayBeShared(g, g[o].elems[i])
  <2>1. MayBeShared(h, h[o].elems[i]) /\ Refers(h, h[o].elems[i])
    BY <1>3 DEF ObjectInv, AllRefer
  <2> QED
    BY <2>1, KeptValue
<1> QED
  BY <1>1, <1>2, <1>3 DEF ObjectInv

(* Objects of their own type are made where there is none, ...             *)
LEMMA HeapOf ==
  ASSUME NEW h, HeapInv(h), NEW o \in Everything
  PROVE  /\ h[o] \in ObjectType /\ ObjectInv(h, o)
         /\ h[o].kind \in Kinds \union {"free", "lazy"} /\ h[o].unique \in BOOLEAN
         /\ h[o].elems \in Seq(Values) /\ h[o].val \in Values
         /\ h[o].vt \in {"num", "ref"} /\ h[o].share \in BOOLEAN /\ h[o].ran \in BOOLEAN
<1>1. h[o] \in ObjectType /\ ObjectInv(h, o)
  BY DEF HeapInv
<1> QED
  BY <1>1 DEF ObjectType

LEMMA GlobalKept ==
  ASSUME NEW h, HeapInv(h)
  PROVE  /\ h[Global].kind = "nums" /\ h[Global].unique = FALSE
         /\ h[Global].elems = <<>> /\ h[Global].val = Error
  BY DEF HeapInv

LEMMA NewInHeap ==
  ASSUME NEW h, HeapInv(h), NEW o \in Objs, h[o].kind = "free", NEW x \in ObjectType,
         ObjectInv([h EXCEPT ![o] = x], o)
  PROVE  HeapInv([h EXCEPT ![o] = x]) /\ Keeps(h, [h EXCEPT ![o] = x])
<1> DEFINE g == [h EXCEPT ![o] = x]
<1>1. h \in [Everything -> ObjectType] /\ o \in Everything /\ o # Global
  BY UniqueObjectsAssumption DEF HeapInv, Everything
<1>2. g \in [Everything -> ObjectType]
  BY <1>1
<1>3. \A p \in Everything : p # o => g[p] = h[p]
  BY <1>1
<1> HIDE DEF g
<1>4. Keeps(h, g)
  BY <1>3 DEF Keeps
<1>5. ASSUME NEW p \in Everything PROVE ObjectInv(g, p)
  <2>1. CASE p = o
    BY <2>1 DEF g
  <2>2. CASE p # o
    BY <2>2, <1>3, <1>4, KeptObject, HeapOf
  <2> QED
    BY <2>1, <2>2
<1>6. g[Global] = h[Global]
  BY <1>1, <1>3 DEF HeapInv, Everything
<1> QED
  BY <1>2, <1>4, <1>5, <1>6 DEF HeapInv, g

(* ... and one that is there may be changed.                               *)
LEMMA ChangedInHeap ==
  ASSUME NEW h, HeapInv(h), NEW o \in Objs, NEW x \in ObjectType,
         x.kind = h[o].kind, x.unique = h[o].unique, x.vt = h[o].vt, h[o].share => x.share,
         ObjectInv([h EXCEPT ![o] = x], o)
  PROVE  HeapInv([h EXCEPT ![o] = x]) /\ Keeps(h, [h EXCEPT ![o] = x])
<1> DEFINE g == [h EXCEPT ![o] = x]
<1>1. h \in [Everything -> ObjectType] /\ o \in Everything /\ o # Global
  BY UniqueObjectsAssumption DEF HeapInv, Everything
<1>2. g \in [Everything -> ObjectType]
  BY <1>1
<1>3. (\A p \in Everything : p # o => g[p] = h[p]) /\ g[o] = x
  BY <1>1
<1> HIDE DEF g
<1>4. Keeps(h, g)
  BY <1>3 DEF Keeps
<1>5. ASSUME NEW p \in Everything PROVE ObjectInv(g, p)
  <2>1. CASE p = o
    BY <2>1 DEF g
  <2>2. CASE p # o
    BY <2>2, <1>3, <1>4, KeptObject, HeapOf
  <2> QED
    BY <2>1, <2>2
<1>6. g[Global] = h[Global]
  BY <1>1, <1>3 DEF HeapInv, Everything
<1> QED
  BY <1>2, <1>4, <1>5, <1>6 DEF HeapInv, g

----------------------------------------------------------------------------
(* What is iterated over the natural numbers is there: the library's        *)
(* induction takes an operator, so it is a least counterexample that is    *)
(* led to a contradiction.                                                 *)
LEMMA LeastNumber ==
  ASSUME NEW S \in SUBSET Nat, S # {}
  PROVE  \E n \in S : \A m \in S : n <= m
<1>1. PICK n \in S : \A m \in S : ~(<<m, n>> \in OpToRel(<, Nat))
  BY NatLessThanWellFounded, WFMin
<1>2. \A m \in S : ~(m < n)
  BY <1>1 DEF OpToRel
<1> QED
  BY <1>2

(* A set of numbers with 0 and with the number after each one.             *)
LEMMA AllNumbers ==
  ASSUME NEW N \in Nat, NEW S, 0 \in S,
         \A n \in 1 .. N : n - 1 \in S => n \in S
  PROVE  \A n \in 0 .. N : n \in S
<1> DEFINE Bad == {n \in 0 .. N : n \notin S}
<1>1. SUFFICES ASSUME Bad # {} PROVE FALSE
  OBVIOUS
<1>2. Bad \in SUBSET Nat /\ \A n \in Bad : n \in 0 .. N /\ n \notin S
  OBVIOUS
<1>3. \A n \in 0 .. N : n \notin Bad => n \in S
  OBVIOUS
<1> HIDE DEF Bad
<1>4. PICK n \in Bad : \A m \in Bad : n <= m
  BY <1>1, <1>2, LeastNumber
<1>5. n \in 1 .. N /\ n - 1 \in 0 .. N
  BY <1>2
<1>6. n - 1 \notin Bad
  BY <1>4, <1>5
<1> QED
  BY <1>2, <1>3, <1>5, <1>6

Iterates(R, N, E, b, F) ==
  /\ R \in [0 .. N -> E]
  /\ R[0] = b
  /\ \A n \in 1 .. N : R[n] = F[R[n - 1]]

LEMMA Iteration ==
  ASSUME NEW N \in Nat, NEW E, NEW b \in E, NEW F \in [E -> E]
  PROVE  \E R : Iterates(R, N, E, b, F)
<1> USE DEF Iterates
<1> DEFINE Upto(R, k) == Iterates(R, k, E, b, F)
           S == {k \in Nat : \E R : Upto(R, k)}
<1>1. 0 \in S
  <2>1. Upto([n \in 0 .. 0 |-> b], 0)
    OBVIOUS
  <2> QED
    BY <2>1
<1>2. ASSUME NEW k \in 1 .. N, k - 1 \in S
      PROVE  k \in S
  <2>1. PICK R : Upto(R, k - 1)
    BY <1>2
  <2> DEFINE Q == [n \in 0 .. k |-> IF n = k THEN F[R[k - 1]] ELSE R[n]]
  <2>2. Q \in [0 .. k -> E]
    BY <2>1
  <2>3. Q[0] = b /\ \A n \in 1 .. k : Q[n] = F[Q[n - 1]]
    BY <2>1
  <2>4. Upto(Q, k)
    BY <2>2, <2>3
  <2> HIDE DEF Upto, Q
  <2> QED
    BY <2>4
<1>3. N \in S
  <2> HIDE DEF S
  <2> QED
    BY <1>1, <1>2, AllNumbers
<1> QED
  BY <1>3

(* What is reached from values of the frame is closed: of the steps of a   *)
(* search each adds an object, until one adds none.                        *)
LEMMA ReachIsClosed ==
  ASSUME NEW h, HeapInv(h), NEW values, \A v \in values : v.r \in Everything \union {None}
  PROVE  /\ Reach(h, values) \subseteq Everything /\ Global \in Reach(h, values)
         /\ \A v \in values : v.r # None => v.r \in Reach(h, values)
         /\ \A o \in Reach(h, values) : Children(h, o) \subseteq Reach(h, values)
<1> DEFINE N == Cardinality(Objs)
           b == {v.r : v \in values} \ {None}
           Found(S) == S \union UNION {Children(h, o) : o \in S}
           Search(R) == R = [n \in 0 .. N |-> IF n = 0 THEN b ELSE Found(R[n - 1])]
           R == CHOOSE R : Search(R)
           Closed(S) == \A o \in S : Children(h, o) \subseteq S
<1>1. N \in Nat /\ IsFiniteSet(Everything) /\ Cardinality(Everything) = N + 1
  BY UniqueObjectsAssumption, FS_CardinalityType, FS_AddElement DEF Everything
<1>2. \A o \in Everything : Children(h, o) \subseteq Everything
  <2> TAKE o \in Everything
  <2>1. \A v \in ToSet(h[o].elems) \union {h[o].val} : v \in Values
    BY HeapOf DEF ToSet
  <2> QED
    BY <2>1, ValueFields DEF Children
<1>3. b \in SUBSET Everything
  OBVIOUS
<1>4. Children(h, Global) = {}
  <2>1. DOMAIN h[Global].elems = {} /\ h[Global].val.r = None
    <3>1. h[Global].elems = <<>> /\ h[Global].val = Error
      BY GlobalKept
    <3> QED
      BY <3>1 DEF Error, V
  <2> QED
    BY <2>1 DEF Children, ToSet
<1>5. Search(R)
  <2> DEFINE F == [S \in SUBSET Everything |-> Found(S)]
  <2>1. F \in [SUBSET Everything -> SUBSET Everything]
    BY <1>2
  <2> HIDE DEF N, b
  <2> DEFINE E == SUBSET Everything
  <2>2. PICK Q : Iterates(Q, N, E, b, F)
    <3>1. F \in [E -> E] /\ b \in E
      BY <1>3, <2>1
    <3> HIDE DEF F, E
    <3> QED
      BY <1>1, <3>1, Iteration
  <2>3. \A n \in 1 .. N : F[Q[n - 1]] = Found(Q[n - 1])
    BY <1>1, <2>2 DEF Iterates
  <2>4. Search(Q)
    <3> HIDE DEF F, Found
    <3> QED
      BY <1>1, <2>2, <2>3 DEF Iterates
  <2> HIDE DEF Search
  <2> QED
    BY <2>4
<1>6. Reach(h, values) = R[N] \union {Global}
  BY DEF Reach
<1> DEFINE S == {n \in 0 .. N : /\ b \subseteq R[n] /\ R[n] \subseteq Everything
                                /\ Closed(R[n]) \/ Cardinality(R[n]) >= n + 1}
<1>7. R[0] = b /\ \A n \in 1 .. N : R[n] = Found(R[n - 1])
  <2> HIDE DEF N, b, Found, R
  <2> QED
    BY <1>1, <1>5
<1> HIDE DEF N, b, R
<1>8. 0 \in S
  <2>1. IsFiniteSet(b) /\ Cardinality(b) \in Nat /\ (Cardinality(b) = 0 => b = {})
    BY <1>1, <1>3, FS_Subset, FS_CardinalityType, FS_EmptySet
  <2> QED
    BY <1>1, <1>3, <1>7, <2>1
<1>9. ASSUME NEW n \in 1 .. N, n - 1 \in S PROVE n \in S
  <2> DEFINE T == R[n - 1]
  <2>1. b \subseteq T /\ T \subseteq Everything /\ (Closed(T) \/ Cardinality(T) >= n)
    BY <1>1, <1>9
  <2>2. R[n] = Found(T)
    BY <1>7
  <2> HIDE DEF T
  <2>3. b \subseteq Found(T) /\ Found(T) \subseteq Everything
    BY <1>2, <2>1
  <2>4. CASE Closed(T)
    BY <2>2, <2>3, <2>4, Found(T) = T
  <2>5. CASE ~Closed(T)
    <3>1. T \subseteq Found(T) /\ T # Found(T)
      BY <2>5
    <3>2. IsFiniteSet(T) /\ IsFiniteSet(Found(T))
      BY <1>1, <2>1, <2>3, FS_Subset
    <3>3. Cardinality(T) \in Nat /\ Cardinality(Found(T)) \in Nat
      BY <3>2, FS_CardinalityType
    <3>4. Cardinality(T) < Cardinality(Found(T))
      <4> HIDE DEF Found
      <4> QED
        BY <3>1, <3>2, <3>3, FS_Subset
    <3>5. Cardinality(Found(T)) >= n + 1
      BY <1>1, <2>1, <2>5, <3>3, <3>4
    <3> HIDE DEF Found, Closed
    <3> QED
      BY <1>1, <2>2, <2>3, <3>5
  <2> QED
    BY <2>4, <2>5
<1>10. N \in S
  <2> HIDE DEF S
  <2> QED
    BY <1>1, <1>8, <1>9, AllNumbers
<1>11. b \subseteq R[N] /\ R[N] \subseteq Everything /\ Closed(R[N])
  <2>1. CASE Cardinality(R[N]) >= N + 1
    <3>1. R[N] \subseteq Everything
      BY <1>10
    <3>2. R[N] = Everything
      BY <1>1, <2>1, <3>1, FS_Subset, FS_CardinalityType
    <3> QED
      BY <1>2, <1>3, <3>2
  <2>2. CASE ~(Cardinality(R[N]) >= N + 1)
    BY <1>10, <2>2
  <2> QED
    BY <2>1, <2>2
<1>12. b \subseteq Reach(h, values) /\ Reach(h, values) \subseteq Everything
  BY <1>6, <1>11 DEF Everything
<1>13. \A o \in Reach(h, values) : Children(h, o) \subseteq Reach(h, values)
  BY <1>4, <1>6, <1>11
<1> QED
  BY <1>6, <1>12, <1>13 DEF b

(* set_lazy_values_as_shared starts with the values it is given.           *)
LEMMA ShareChainStarts ==
  ASSUME NEW h, HeapInv(h), NEW values, \A v \in values : Refers(h, v)
  PROVE  /\ ShareChain(h, values) \subseteq Everything
         /\ \A v \in values : IsLazy(v) => v.r \in ShareChain(h, values)
<1> DEFINE N == Cardinality(Objs)
           b == {v.r : v \in {x \in values : IsLazy(x)}}
           Found(S) == S \union {h[o].val.r : o \in {p \in S : IsLazy(h[p].val)}}
           Search(R) == R = [n \in 0 .. N |-> IF n = 0 THEN b ELSE Found(R[n - 1])]
           R == CHOOSE R : Search(R)
<1>1. N \in Nat
  BY UniqueObjectsAssumption, FS_CardinalityType
<1>2. \A o \in Everything : IsLazy(h[o].val) => h[o].val.r \in Everything
  BY HeapOf, ValueFields DEF IsLazy
<1>3. b \in SUBSET Everything
  <2>1. ASSUME NEW v \in values, IsLazy(v) PROVE v.r \in Everything
    <3>1. v \in Values
      BY DEF Refers
    <3> QED
      BY <2>1, <3>1, ValueFields DEF IsLazy
  <2> QED
    BY <2>1
<1>4. Search(R)
  <2> DEFINE E == SUBSET Everything
             F == [S \in E |-> Found(S)]
  <2>1. F \in [E -> E] /\ b \in E
    BY <1>2, <1>3
  <2>2. PICK Q : Iterates(Q, N, E, b, F)
    <3> HIDE DEF N, b, F, E
    <3> QED
      BY <1>1, <2>1, Iteration
  <2>3. \A n \in 1 .. N : F[Q[n - 1]] = Found(Q[n - 1])
    BY <1>1, <2>2 DEF Iterates
  <2>4. Search(Q)
    <3> HIDE DEF F, Found, N, b
    <3> QED
      BY <1>1, <2>2, <2>3 DEF Iterates
  <2> HIDE DEF Search
  <2> QED
    BY <2>4
<1>5. ShareChain(h, values) = R[N]
  BY DEF ShareChain
<1>6. R[0] = b /\ \A n \in 1 .. N : R[n] = Found(R[n - 1])
  <2> HIDE DEF N, b, Found, R
  <2> QED
    BY <1>1, <1>4
<1> HIDE DEF N, b, R
<1> DEFINE S == {n \in 0 .. N : b \subseteq R[n] /\ R[n] \subseteq Everything}
<1>7. 0 \in S
  BY <1>1, <1>3, <1>6
<1>8. ASSUME NEW n \in 1 .. N, n - 1 \in S PROVE n \in S
  BY <1>1, <1>2, <1>6, <1>8
<1>9. N \in S
  <2> HIDE DEF S
  <2> QED
    BY <1>1, <1>7, <1>8, AllNumbers
<1>10. \A v \in values : IsLazy(v) => v.r \in b
  BY DEF b
<1> QED
  BY <1>5, <1>9, <1>10

LEMMA SharedHeap ==
  ASSUME NEW h, HeapInv(h), NEW values, \A v \in values : Refers(h, v)
  PROVE  /\ HeapInv(Shared(h, values)) /\ Keeps(h, Shared(h, values))
         /\ \A o \in Everything : Shared(h, values)[o].kind = h[o].kind
         /\ \A v \in values : (v.t = "ref" => ~h[v.r].unique) => MayBeShared(Shared(h, values), v)
<1> DEFINE g == Shared(h, values)
<1>1. h \in [Everything -> ObjectType]
  BY DEF HeapInv
<1>2. ASSUME NEW o \in Everything
      PROVE  /\ g[o] \in ObjectType
             /\ g[o].elems = h[o].elems /\ g[o].val = h[o].val /\ g[o].kind = h[o].kind
             /\ g[o].unique = h[o].unique /\ g[o].vt = h[o].vt
             /\ h[o].share \/ o \in ShareChain(h, values) => g[o].share
  BY <1>1, <1>2 DEF Shared, ObjectType
<1>3. g \in [Everything -> ObjectType]
  BY <1>2 DEF Shared
<1>4. Keeps(h, g)
  BY <1>2 DEF Keeps
<1> HIDE DEF g
<1>6. \A o \in Everything : ObjectInv(g, o)
  BY <1>2, <1>4, KeptObject, HeapOf
<1>5. /\ g[Global].kind = "nums" /\ ~g[Global].unique
      /\ g[Global].elems = <<>> /\ g[Global].val = Error
  BY <1>2, GlobalKept DEF Everything
<1>7. ASSUME NEW v \in values, v.t = "ref" => ~h[v.r].unique
      PROVE  MayBeShared(g, v)
  <2>1. v \in Values
    BY DEF Refers
  <2>2. v.t = "ref" \/ IsLazy(v) => v.r \in Everything
    BY <2>1, ValueFields DEF IsLazy
  <2> QED
    BY <1>2, <1>7, <2>2, ShareChainStarts DEF MayBeShared
<1> QED
  BY <1>2, <1>3, <1>4, <1>5, <1>6, <1>7 DEF HeapInv, g

----------------------------------------------------------------------------
(* A collection leaves what the frame refers to as it was.                 *)
LEMMA SameValue ==
  ASSUME NEW h, NEW g, NEW v, Refers(h, v), v.r # None => g[v.r] = h[v.r]
  PROVE  /\ Refers(g, v)
         /\ \A vt : OfType(h, v, vt) => OfType(g, v, vt)
         /\ MayBeShared(h, v) => MayBeShared(g, v)
<1>1. v \in Values
  BY DEF Refers
<1>2. v.t = "ref" \/ IsLazy(v) => g[v.r] = h[v.r]
  <2>1. v.t = "ref" \/ IsLazy(v) => v.r # None
    BY <1>1, ValueFields, UniqueObjectsAssumption DEF IsLazy, Everything
  <2> QED
    BY <2>1
<1>3. Refers(g, v)
  BY <1>1, <1>2 DEF Refers
<1>4. ASSUME NEW vt, OfType(h, v, vt) PROVE OfType(g, v, vt)
  BY <1>2, <1>4 DEF OfType
<1>5. MayBeShared(h, v) => MayBeShared(g, v)
  BY <1>2 DEF MayBeShared
<1> QED
  BY <1>3, <1>4, <1>5

LEMMA AfterCollection ==
  ASSUME NEW h, HeapInv(h), NEW values, \A v \in values : Refers(h, v)
  PROVE  HeapInv(Collected(h, values)) /\ \A v \in values : Refers(Collected(h, values), v)
<1> DEFINE g == Collected(h, values)
           live == Reach(h, values)
<1>1. /\ live \subseteq Everything /\ Global \in live
      /\ \A v \in values : v.r # None => v.r \in live
      /\ \A o \in live : Children(h, o) \subseteq live
  <2>1. \A v \in values : v.r \in Everything \union {None}
    BY ValueFields DEF Refers
  <2> QED
    BY <2>1, ReachIsClosed
<1> HIDE DEF live
<1>2. g = [o \in Everything |-> IF o \in live THEN h[o] ELSE Free]
  BY DEF Collected, live
<1> HIDE DEF g
<1>3. \A o \in Everything : g[o] = IF o \in live THEN h[o] ELSE Free
  BY <1>2
<1>4. Error \in Values /\ Free.kind = "free" /\ Free.elems = <<>> /\ Free.val = Error
      /\ Free.unique = FALSE
  BY DEF Free, Object, Error, V, Values
<1>5. Free \in ObjectType
  <2>1. <<>> \in Seq(Values)
    OBVIOUS
  <2> QED
    BY <1>4, <2>1 DEF Free, Object, ObjectType
<1>6. g \in [Everything -> ObjectType]
  BY <1>2, <1>5, HeapOf
<1>7. \A v \in values : Refers(g, v)
  BY <1>1, <1>3, SameValue
<1>8. ASSUME NEW o \in live PROVE ObjectInv(g, o)
  <2>1. o \in Everything /\ g[o] = h[o] /\ ObjectInv(h, o)
    BY <1>1, <1>3, <1>8, HeapOf
  <2>2. ASSUME NEW v, v \in ToSet(h[o].elems) \union {h[o].val}
        PROVE  v.r # None => g[v.r] = h[v.r]
    BY <1>1, <1>3, <1>8, <2>2 DEF Children
  <2>3. \A i \in DOMAIN h[o].elems : h[o].elems[i] \in ToSet(h[o].elems)
    BY DEF ToSet
  <2>4. AllRefer(g, h[o].elems)
    BY <2>1, <2>2, <2>3, SameValue DEF ObjectInv, AllRefer
  <2>5. Refers(g, h[o].val)
    BY <2>1, <2>2, SameValue DEF ObjectInv
  <2>6. h[o].val \in {Error, Canceled} \/ OfType(g, h[o].val, h[o].vt)
    BY <2>1, <2>2, SameValue DEF ObjectInv
  <2>7. ASSUME NEW i \in DOMAIN h[o].elems, h[o].kind \in {"tuple", "rarray"}, ~h[o].unique
        PROVE  MayBeShared(g, h[o].elems[i])
    <3>1. Refers(h, h[o].elems[i]) /\ MayBeShared(h, h[o].elems[i])
      BY <2>1, <2>7 DEF ObjectInv, AllRefer
    <3> QED
      BY <2>2, <2>3, <3>1, SameValue
  <2> QED
    BY <2>1, <2>4, <2>5, <2>6, <2>7 DEF ObjectInv
<1>9. ASSUME NEW o \in Everything, o \notin live PROVE ObjectInv(g, o)
  <2>1. g[o] = Free
    BY <1>3, <1>9
  <2>2. AllRefer(g, <<>>)
    BY DEF AllRefer
  <2> QED
    BY <1>4, <2>1, <2>2, PlainValues DEF ObjectInv
<1>10. g[Global] = h[Global]
  BY <1>1, <1>3
<1> QED
  BY <1>6, <1>7, <1>8, <1>9, <1>10 DEF HeapInv, g

----------------------------------------------------------------------------
(* Between instructions.                                                   *)
Rest(h, vs, as, es, a) ==
  /\ AllRefer(h, vs) /\ AllRefer(h, as) /\ AllRefer(h, es) /\ Refers(h, a)
  /\ Len(vs) + Len(es) + Len(as) + (IF a = Error THEN 0 ELSE 1) <= MaxSlots
  /\ a # Error => MaxSlots >= 2

LEMMA AtRestAgain ==
  ASSUME NEW h, HeapInv(h), Rest(h, vars', args', evs', tryArg'), ClearInstruction, Collect(h),
         pc' \in {"idle", "undefined"}
  PROVE  IInv'
<1> USE DEF ClearInstruction
<1> DEFINE roots == ToSet(vars') \union ToSet(args') \union ToSet(evs') \union {tryArg'}
<1>1. \A v \in roots : Refers(h, v)
  BY DEF Rest, AllRefer, ToSet
<1>2. HeapInv(heap') /\ \A v \in roots : Refers(heap', v)
  <2> HIDE DEF roots
  <2>1. heap' = Collected(h, roots)
    BY DEF Collect, roots
  <2> QED
    BY <1>1, <2>1, AfterCollection
<1>3. AllRefer(heap', vars') /\ AllRefer(heap', args') /\ AllRefer(heap', evs')
      /\ Refers(heap', tryArg')
  BY <1>2 DEF Rest, AllRefer, ToSet
<1>4. AllRefer(heap', tmp') /\ Len(tmp') = 2 /\ Refers(heap', saved') /\ Refers(heap', rv')
  <2>1. Refers(heap', Error) /\ Error \in Values
    BY PlainValues DEF Error, V, Values
  <2>2. <<Error, Error>> \in Seq(Values) /\ \A i \in 1 .. 2 : <<Error, Error>>[i] = Error
    BY <2>1
  <2> QED
    BY <2>1, <2>2, PlainValues DEF AllRefer
<1>5. ValuesInv'
  BY <1>3, <1>4 DEF ValuesInv, Names, FrameNames, Part, Rest, Used
<1>6. InstructionInv'
  BY DEF InstructionInv
<1>7. UndoInv'
  BY DEF UndoInv
<1>8. StepInv'
  BY DEF StepInv
<1>9. FrameInv' /\ GotNotLazy' /\ ResumeInv'
  BY DEF FrameInv, GotNotLazy, ResumeInv, InFrame
<1> QED
  BY <1>2, <1>5, <1>6, <1>7, <1>8, <1>9 DEF IInv

LEMMA NoValues ==
  ASSUME NEW h
  PROVE  AllRefer(h, <<>>) /\ Len(<<>>) = 0
  BY DEF AllRefer

LEMMA OneValue ==
  ASSUME NEW h, NEW v, Refers(h, v)
  PROVE  AllRefer(h, <<v>>) /\ Len(<<v>>) = 1
<1>1. v \in Values
  BY DEF Refers
<1> QED
  BY <1>1 DEF AllRefer

LEMMA TwoValues ==
  ASSUME NEW h, NEW v, NEW w, Refers(h, v), Refers(h, w)
  PROVE  AllRefer(h, <<v, w>>) /\ Len(<<v, w>>) = 2
<1>1. v \in Values /\ w \in Values
  BY DEF Refers
<1>2. <<v, w>> \in Seq(Values) /\ \A i \in DOMAIN <<v, w>> : <<v, w>>[i] \in {v, w}
  BY <1>1
<1> QED
  BY <1>2 DEF AllRefer

LEMMA OneMoreValue ==
  ASSUME NEW h, NEW s, NEW v, AllRefer(h, s), Refers(h, v)
  PROVE  AllRefer(h, Append(s, v)) /\ Len(Append(s, v)) = Len(s) + 1
<1>1. s \in Seq(Values) /\ v \in Values
  BY DEF AllRefer, Refers
<1>2. /\ Append(s, v) \in Seq(Values) /\ Len(Append(s, v)) = Len(s) + 1
      /\ \A i \in DOMAIN Append(s, v) :
           IF i \in DOMAIN s THEN Append(s, v)[i] = s[i] ELSE Append(s, v)[i] = v
  BY <1>1
<1> QED
  BY <1>2 DEF AllRefer

LEMMA JoinedValues ==
  ASSUME NEW h, NEW s, NEW t, AllRefer(h, s), AllRefer(h, t)
  PROVE  /\ AllRefer(h, s \o t) /\ s \o t \in Seq(Values) /\ Len(s \o t) = Len(s) + Len(t)
         /\ \A i \in DOMAIN (s \o t) :
              \/ i \in DOMAIN s /\ (s \o t)[i] = s[i]
              \/ i - Len(s) \in DOMAIN t /\ (s \o t)[i] = t[i - Len(s)]
<1>1. s \in Seq(Values) /\ t \in Seq(Values)
  BY DEF AllRefer
<1>2. /\ s \o t \in Seq(Values) /\ Len(s \o t) = Len(s) + Len(t)
      /\ \A i \in DOMAIN (s \o t) :
           \/ i \in DOMAIN s /\ (s \o t)[i] = s[i]
           \/ i - Len(s) \in DOMAIN t /\ (s \o t)[i] = t[i - Len(s)]
  BY <1>1
<1> QED
  BY <1>2 DEF AllRefer

LEMMA Lengths ==
  ASSUME ValuesInv
  PROVE  /\ Len(vars) \in Nat /\ Len(args) \in Nat /\ Len(evs) \in Nat
         /\ AllRefer(heap, vars) /\ AllRefer(heap, args) /\ AllRefer(heap, evs)
         /\ AllRefer(heap, tmp)
         /\ vars \in Seq(Values) /\ args \in Seq(Values) /\ evs \in Seq(Values)
         /\ tmp \in Seq(Values)
<1>1. AllRefer(heap, vars) /\ AllRefer(heap, args) /\ AllRefer(heap, evs) /\ AllRefer(heap, tmp)
  BY DEF ValuesInv, Names, FrameNames, Part
<1>2. vars \in Seq(Values) /\ args \in Seq(Values) /\ evs \in Seq(Values) /\ tmp \in Seq(Values)
  BY <1>1 DEF AllRefer
<1> QED
  BY <1>1, <1>2

LEMMA HeapKeepsItself ==
  ASSUME IInv
  PROVE  HeapInv(heap) /\ Keeps(heap, heap)
  BY DEF IInv, Keeps

(* The ways an instruction ends.                                           *)
LEMMA ErrorEnds ==
  ASSUME IInv, NEW h, HeapInv(h), Keeps(heap, h),
         NEW thrown, Refers(h, thrown), SetErrorIn(h, thrown)
  PROVE  IInv'
<1> USE DEF SetErrorIn, NoInstruction
<1>1. ValuesInv
  BY DEF IInv
<1>2. Refers(h, tryArg) /\ Refers(h, Error) /\ (tryArg # Error => MaxSlots >= 2)
  BY <1>1, KeptValue, PlainValues DEF ValuesInv
<1>3. /\ AllRefer(h, vars') /\ Len(vars') \in 0 .. 2 /\ (tryArg = Error => Len(vars') = 0)
  <2>1. CASE vars' = <<>>
    BY <2>1, NoValues
  <2>2. CASE vars' = <<tryArg, thrown>> /\ tryArg # Error
    BY <1>2, <2>2, TwoValues
  <2>3. CASE vars' = <<tryArg>> /\ tryArg # Error
    BY <1>2, <2>3, OneValue
  <2> QED
    BY <2>1, <2>2, <2>3
<1>4. /\ AllRefer(h, args') /\ AllRefer(h, evs') /\ Len(args') = 0 /\ Len(evs') = 0
      /\ tryArg' = Error
  BY NoValues
<1>5. Rest(h, vars', args', evs', tryArg')
  BY <1>2, <1>3, <1>4, UniqueObjectsAssumption DEF Rest
<1> QED
  BY <1>5, AtRestAgain

LEMMA ThrowEnds ==
  ASSUME IInv, NEW thrown, Refers(heap, thrown), SetError(thrown)
  PROVE  IInv'
BY ErrorEnds, HeapKeepsItself DEF SetError

LEMMA FailureEnds ==
  ASSUME IInv, Fails
  PROVE  IInv'
  BY ThrowEnds, PlainValues DEF Fails

LEMMA UndefinedEnds ==
  ASSUME IInv, Undefined
  PROVE  IInv'
<1>1. Rest(heap, vars', args', evs', tryArg')
  BY NoValues, PlainValues, UniqueObjectsAssumption DEF Undefined, Rest
<1> QED
  BY <1>1, AtRestAgain DEF IInv, Undefined

LEMMA PushArgEnds ==
  ASSUME IInv, NEW h, HeapInv(h), Keeps(heap, h), NEW v, Refers(h, v),
         PushArg(v), Collect(h), Used(args) < MaxSlots
  PROVE  IInv'
<1>1. ValuesInv
  BY DEF IInv
<1>2. AllRefer(h, vars) /\ AllRefer(h, args) /\ AllRefer(h, evs) /\ Refers(h, tryArg)
  BY <1>1, Lengths, KeptValue, KeptValues DEF ValuesInv
<1>3. AllRefer(h, args') /\ Len(args') = Len(args) + 1
  BY <1>2, OneMoreValue DEF PushArg
<1>4. Rest(h, vars', args', evs', tryArg')
  BY <1>1, <1>2, <1>3, Lengths, UniqueObjectsAssumption DEF Rest, PushArg, Used, ValuesInv
<1> QED
  BY <1>4, AtRestAgain DEF PushArg, NoInstruction

LEMMA AllocateEnds ==
  ASSUME IInv, NEW h, HeapInv(h), Keeps(heap, h), NEW v, Refers(h, v),
         Allocate(v), Collect(h)
  PROVE  IInv'
<1>1. ValuesInv
  BY DEF IInv
<1>2. AllRefer(h, vars) /\ AllRefer(h, evs) /\ Refers(h, tryArg)
  BY <1>1, Lengths, KeptValue, KeptValues DEF ValuesInv
<1>3. AllRefer(h, args') /\ Len(args') = 0
  BY NoValues DEF Allocate
<1>4. ASSUME Used(<<>>) < MaxSlots /\ vars' = Append(vars, v) /\ UNCHANGED <<evs, tryArg>>
      PROVE  Rest(h, vars', args', evs', tryArg')
  <2>1. AllRefer(h, vars') /\ Len(vars') = Len(vars) + 1
    BY <1>2, <1>4, OneMoreValue
  <2> QED
    BY <1>1, <1>2, <1>3, <1>4, <2>1, Lengths, UniqueObjectsAssumption DEF Rest, Used, ValuesInv
<1>5. ASSUME Used(<<>>) < MaxSlots /\ evs' = Append(evs, v) /\ UNCHANGED <<vars, tryArg>>
      PROVE  Rest(h, vars', args', evs', tryArg')
  <2>1. AllRefer(h, evs') /\ Len(evs') = Len(evs) + 1
    BY <1>2, <1>5, OneMoreValue
  <2> QED
    BY <1>1, <1>2, <1>3, <1>5, <2>1, Lengths, UniqueObjectsAssumption DEF Rest, Used, ValuesInv
<1>6. ASSUME vars' = <<v>> /\ evs' = <<>> /\ tryArg' = Error
      PROVE  Rest(h, vars', args', evs', tryArg')
  BY <1>3, <1>6, NoValues, OneValue, PlainValues, UniqueObjectsAssumption DEF Rest
<1>7. Rest(h, vars', args', evs', tryArg')
  BY <1>4, <1>5, <1>6 DEF Allocate
<1> QED
  BY <1>7, AtRestAgain DEF Allocate, NoInstruction

(* The instruction that takes a tuple apart begins like any other, with    *)
(* the cancelations of the one before it still known.                      *)
LEMMA LetTupleBegins ==
  ASSUME IInv, NEW h, HeapInv(h), Keeps(heap, h), NEW v, Refers(h, v), IsLazy(v) => undo = {},
         BeginLetTuple(v), heap' = h
  PROVE  IInv'
<1>1. /\ ValuesInv /\ UndoInv /\ StepInv
  BY DEF IInv
<1>2. /\ args' = <<>> /\ pc' = "operand" /\ sig' = <<"ref">>
      /\ ops' = <<[k |-> "saved", i |-> 1]>>
      /\ saved' = v /\ got' = <<>> /\ began' = <<vars, <<>>, evs>>
      /\ vars' = vars /\ evs' = evs /\ tmp' = tmp /\ undo' = undo
      /\ forcing' = forcing /\ resumed' = resumed /\ rv' = rv /\ tryArg' = tryArg
  BY DEF BeginLetTuple, force, others
<1>3. SavedOp'
  BY <1>2 DEF SavedOp
<1>4. ValuesInv'
  <2>1. /\ AllRefer(h, vars) /\ AllRefer(h, evs) /\ AllRefer(h, tmp)
        /\ Refers(h, saved) /\ Refers(h, tryArg) /\ Refers(h, rv)
    BY <1>1, Lengths, KeptValue, KeptValues DEF ValuesInv
  <2>2. Used(args)' <= MaxSlots
    BY <1>1, <1>2, Lengths, NoValues, UniqueObjectsAssumption DEF Used, ValuesInv
  <2> QED
    BY <1>1, <1>2, <2>1, <2>2, NoValues DEF ValuesInv, Names, FrameNames, Part
<1>5. InstructionInv'
  <2>1. ops' \in Seq([k : OperandKinds, i : Nat \ {0}]) /\ Len(ops') = 1
        /\ DOMAIN ops' = {1} /\ ops'[1].k = "saved"
    BY <1>2 DEF OperandKinds
  <2>2. sig' \in Seq({"num", "ref", "arg", "value"}) /\ Len(sig') = 1 /\ sig'[1] = "ref"
    BY <1>2
  <2>3. OperandInv(1)'
    BY <1>2, <2>1, <2>2 DEF OperandInv
  <2>4. DOMAIN got' = {} /\ got' \in [DOMAIN got' -> Values]
    BY <1>2
  <2> QED
    BY <2>1, <2>2, <2>3, <2>4 DEF InstructionInv
<1>6. UndoInv'
  BY <1>1, <1>2, <1>3, KeptValue DEF UndoInv
<1>7. StepInv'
  <2>1. DOMAIN got' # DOMAIN ops'
    BY <1>2
  <2>2. resumed => /\ forcing \in Objs /\ h[forcing].kind = "lazy"
                   /\ OfType(h, rv, h[forcing].vt)
    <3> HAVE resumed
    <3>1. forcing \in Objs /\ heap[forcing].kind = "lazy" /\ OfType(heap, rv, heap[forcing].vt)
      BY <1>1 DEF StepInv
    <3>2. h[forcing].kind = "lazy" /\ h[forcing].vt = heap[forcing].vt
      BY <3>1 DEF Keeps, Everything
    <3> QED
      BY <1>1, <3>1, <3>2, KeptValue DEF ValuesInv
  <2> QED
    BY <1>1, <1>2, <2>1, <2>2 DEF StepInv
<1>8. FrameInv'
  <2> SUFFICES ASSUME InFrame' PROVE FrameInv'
    BY DEF FrameInv
  <2>1. undo' = {}
    BY <1>3 DEF InFrame
  <2>2. \A n \in FrameNames : Part(n)' = Began(n)' /\ Part(n)' \in Seq(Values)
    BY <1>1, <1>2, Lengths DEF FrameNames, Part, Began
  <2> QED
    BY <2>1, <2>2 DEF FrameInv, SlotKept
<1>9. GotNotLazy' /\ ResumeInv'
  BY <1>3 DEF GotNotLazy, ResumeInv
<1> QED
  BY <1>2, <1>4, <1>5, <1>6, <1>7, <1>8, <1>9 DEF IInv

(* What an operation has to show.                                          *)
ArgBound(arg) == arg \in BOOLEAN /\ (arg => Used(args) < MaxSlots)

LEMMA FinishEnds ==
  ASSUME IInv, NEW arg, ArgBound(arg), NEW h, HeapInv(h), Keeps(heap, h),
         NEW v, Refers(h, v), IsLazy(v) => undo = {}, Finish(arg, v, h)
  PROVE  IInv'
<1>1. CASE arg /\ PushArg(v) /\ Collect(h)
  BY <1>1, PushArgEnds DEF ArgBound
<1>2. CASE Allocate(v) /\ Collect(h)
  BY <1>2, AllocateEnds
<1>3. CASE BeginLetTuple(v) /\ heap' = h
  BY <1>3, LetTupleBegins
<1> QED
  BY <1>1, <1>2, <1>3 DEF Finish

LEMMA UniqueFields ==
  ASSUME NEW kind \in Kinds, NEW elems \in Seq(Values)
  PROVE  /\ Object(kind, TRUE, elems) \in ObjectType
         /\ Object(kind, TRUE, elems).kind = kind
         /\ Object(kind, TRUE, elems).unique = TRUE
         /\ Object(kind, TRUE, elems).elems = elems
         /\ Object(kind, TRUE, elems).val = Error
<1>1. Error \in Values
  BY DEF Error, V, Values
<1> QED
  BY <1>1 DEF Object, ObjectType

LEMMA SharedFields ==
  ASSUME NEW kind \in Kinds, NEW elems \in Seq(Values)
  PROVE  /\ Object(kind, FALSE, elems) \in ObjectType
         /\ Object(kind, FALSE, elems).kind = kind
         /\ Object(kind, FALSE, elems).unique = FALSE
         /\ Object(kind, FALSE, elems).elems = elems
         /\ Object(kind, FALSE, elems).val = Error
<1>1. Error \in Values
  BY DEF Error, V, Values
<1> QED
  BY <1>1 DEF Object, ObjectType

LEMMA NewObject ==
  ASSUME NEW h, HeapInv(h), NEW o \in Objs, h[o].kind = "free",
         NEW x \in ObjectType, x.kind # "free", x.unique => x.kind \in Kinds,
         AllRefer(h, x.elems), x.val = Error,
         x.kind \in {"tuple", "rarray"} /\ ~x.unique =>
           \A i \in DOMAIN x.elems : MayBeShared(h, x.elems[i])
  PROVE  /\ HeapInv([h EXCEPT ![o] = x]) /\ Keeps(h, [h EXCEPT ![o] = x])
         /\ x.kind \in Kinds => Refers([h EXCEPT ![o] = x], V("ref", o))
         /\ x.kind = "lazy" => Refers([h EXCEPT ![o] = x], V("lazy", o))
<1> DEFINE g == [h EXCEPT ![o] = x]
<1>1. h \in [Everything -> ObjectType] /\ o \in Everything
  BY DEF HeapInv, Everything
<1>2. g[o] = x /\ \A p \in Everything : p # o => g[p] = h[p]
  BY <1>1
<1> HIDE DEF g
<1>3. Keeps(h, g)
  BY <1>2 DEF Keeps
<1>4. AllRefer(g, x.elems) /\ Refers(g, x.val)
  BY <1>3, KeptValues, PlainValues
<1>5. \A i \in DOMAIN x.elems : Refers(h, x.elems[i])
  BY DEF AllRefer
<1>6. x.kind \in {"tuple", "rarray"} /\ ~x.unique =>
        \A i \in DOMAIN x.elems : MayBeShared(g, x.elems[i])
  BY <1>3, <1>5, KeptValue
<1>7. ObjectInv(g, o)
  BY <1>2, <1>4, <1>6 DEF ObjectInv
<1>8. HeapInv(g)
  BY <1>7, NewInHeap DEF g
<1>9. x.kind \in Kinds => Refers(g, V("ref", o))
  BY <1>1, <1>2 DEF Refers, V, Values, IsLazy
<1>10. x.kind = "lazy" => Refers(g, V("lazy", o))
  BY <1>1, <1>2 DEF Refers, V, Values, IsLazy
<1> QED
  BY <1>3, <1>8, <1>9, <1>10 DEF g

LEMMA FreeObject ==
  ASSUME NEW o \in FreeObjs
  PROVE  o \in Objs /\ o \in Everything /\ heap[o].kind = "free"
  BY DEF FreeObjs, Everything

LEMMA NotLazyRef ==
  ASSUME NEW o
  PROVE  ~IsLazy(V("ref", o)) /\ ~IsLazy(Num)
  BY DEF IsLazy, V, Num

LEMMA FinishNewEnds ==
  ASSUME IInv, NEW arg, ArgBound(arg), NEW x \in ObjectType, x.kind \in Kinds,
         AllRefer(heap, x.elems), x.val = Error,
         x.kind \in {"tuple", "rarray"} /\ ~x.unique =>
           \A i \in DOMAIN x.elems : MayBeShared(heap, x.elems[i]),
         FinishNew(arg, x)
  PROVE  IInv'
<1>1. CASE Fails
  BY <1>1, FailureEnds
<1>2. ASSUME NEW o \in FreeObjs, Finish(arg, V("ref", o), [heap EXCEPT ![o] = x])
      PROVE  IInv'
  <2> DEFINE h == [heap EXCEPT ![o] = x]
  <2>1. o \in Objs /\ heap[o].kind = "free" /\ HeapInv(heap) /\ x.kind # "free"
    BY FreeObject DEF IInv, Kinds
  <2>2. HeapInv(h) /\ Keeps(heap, h) /\ Refers(h, V("ref", o))
    BY <2>1, NewObject
  <2> HIDE DEF h
  <2>3. Finish(arg, V("ref", o), h)
    BY <1>2 DEF h
  <2> QED
    BY <2>2, <2>3, NotLazyRef, FinishEnds
<1> QED
  BY <1>1, <1>2 DEF FinishNew

LEMMA FinishPairEnds ==
  ASSUME IInv, NEW arg, ArgBound(arg), NEW h, HeapInv(h), Keeps(heap, h),
         \A o \in Everything : h[o].kind = heap[o].kind,
         NEW v, Refers(h, v), NEW r, Refers(h, V("ref", r)), FinishPair(arg, v, r, h)
  PROVE  IInv'
<1> DEFINE x == Object("tuple", TRUE, <<v, V("ref", r)>>)
<1>1. CASE Fails
  BY <1>1, FailureEnds
<1>2. ASSUME NEW o \in FreeObjs, Finish(arg, V("ref", o), [h EXCEPT ![o] = x])
      PROVE  IInv'
  <2> DEFINE g == [h EXCEPT ![o] = x]
  <2>1. o \in Objs /\ h[o].kind = "free"
    BY FreeObject
  <2>2. AllRefer(h, <<v, V("ref", r)>>) /\ <<v, V("ref", r)>> \in Seq(Values)
        /\ "tuple" \in Kinds
    BY TwoValues DEF AllRefer, Kinds
  <2>3. /\ x \in ObjectType /\ x.kind = "tuple" /\ x.unique = TRUE
        /\ x.elems = <<v, V("ref", r)>> /\ x.val = Error
    BY ONLY <2>2, UniqueFields, Zenon
  <2> HIDE DEF x
  <2>4. HeapInv(g) /\ Keeps(h, g) /\ Refers(g, V("ref", o))
    BY <2>1, <2>2, <2>3, NewObject DEF Kinds
  <2> HIDE DEF g
  <2>5. Keeps(heap, g)
    BY <2>4 DEF Keeps
  <2>6. Finish(arg, V("ref", o), g)
    BY <1>2 DEF g
  <2> QED
    BY <2>4, <2>5, <2>6, NotLazyRef, FinishEnds
<1> QED
  BY <1>1, <1>2 DEF FinishPair

(* A new shared object: its values are shared with it.                     *)
LEMMA SharedObjectEnds ==
  ASSUME IInv, NEW arg, ArgBound(arg), NEW kind \in Kinds, NEW elems, AllRefer(heap, elems),
         SharedObject(arg, kind, elems)
  PROVE  IInv'
<1> DEFINE h == Shared(heap, ToSet(elems))
           x == Object(kind, FALSE, elems)
<1>1. CASE Fails
  BY <1>1, FailureEnds
<1>2. ASSUME ~HoldsUnique(ToSet(elems)), NEW o \in FreeObjs,
             Finish(arg, V("ref", o), [h EXCEPT ![o] = x])
      PROVE  IInv'
  <2> DEFINE g == [h EXCEPT ![o] = x]
  <2>1. HeapInv(heap) /\ \A v \in ToSet(elems) : Refers(heap, v)
    BY DEF IInv, AllRefer, ToSet
  <2>2. /\ HeapInv(h) /\ Keeps(heap, h)
        /\ \A p \in Everything : h[p].kind = heap[p].kind
        /\ \A v \in ToSet(elems) : (v.t = "ref" => ~heap[v.r].unique) => MayBeShared(h, v)
    BY <2>1, SharedHeap
  <2> HIDE DEF h
  <2>3. o \in Objs /\ h[o].kind = "free"
    BY <2>2, FreeObject
  <2>4. AllRefer(h, elems) /\ elems \in Seq(Values)
    BY <2>2, KeptValues DEF AllRefer
  <2>5. \A i \in DOMAIN elems : MayBeShared(h, elems[i])
    BY <1>2, <2>2 DEF HoldsUnique, IsUnique, ToSet
  <2>6. /\ x \in ObjectType /\ x.kind = kind /\ x.unique = FALSE /\ x.elems = elems
        /\ x.val = Error
    BY ONLY <2>4, SharedFields, kind \in Kinds, Zenon
  <2> HIDE DEF x
  <2>7. HeapInv(g) /\ Keeps(h, g) /\ Refers(g, V("ref", o))
    BY <2>2, <2>3, <2>4, <2>5, <2>6, NewObject DEF Kinds
  <2> HIDE DEF g
  <2>8. Keeps(heap, g)
    BY <2>2, <2>7 DEF Keeps
  <2>9. Finish(arg, V("ref", o), g)
    BY <1>2 DEF g
  <2> QED
    BY <2>7, <2>8, <2>9, NotLazyRef, FinishEnds
<1> QED
  BY <1>1, <1>2 DEF SharedObject

----------------------------------------------------------------------------
(* The operands an operation is given.                                     *)
LEMMA Operand_is ==
  ASSUME IInv, pc = "ready", NEW j \in DOMAIN sig
  PROVE  /\ Refers(heap, got[j]) /\ got[j] \in Values /\ j \in DOMAIN got
         /\ sig[j] \in {"num", "ref"} => got[j].t = sig[j]
         /\ sig[j] = "num" => ~IsLazy(got[j])
         /\ sig[j] = "ref" =>
              /\ got[j].r \in Everything /\ heap[got[j].r].kind \in Kinds
              /\ got[j] = V("ref", got[j].r) /\ ~IsLazy(got[j])
              /\ heap[got[j].r].unique => got[j].r \in Objs
<1>1. j \in DOMAIN got
  BY DEF IInv, StepInv, InstructionInv
<1>2. GotInv(j)
  BY <1>1 DEF IInv, InstructionInv
<1>3. Refers(heap, got[j]) /\ got[j] \in Values
  BY <1>2 DEF GotInv, Refers
<1>4. ASSUME sig[j] = "ref"
      PROVE  /\ got[j].r \in Everything /\ heap[got[j].r].kind \in Kinds
             /\ got[j] = V("ref", got[j].r) /\ ~IsLazy(got[j])
             /\ heap[got[j].r].unique => got[j].r \in Objs
  <2>1. got[j].t = "ref"
    BY <1>2, <1>4 DEF GotInv
  <2>2. /\ got[j].r \in Everything /\ heap[got[j].r].kind \in Kinds
        /\ got[j] = V("ref", got[j].r) /\ ~IsLazy(got[j])
    BY <1>3, <2>1, ValueFields DEF Refers, IsLazy
  <2>3. HeapInv(heap)
    BY DEF IInv
  <2> QED
    BY <2>2, <2>3, GlobalKept DEF Everything
<1> QED
  BY <1>1, <1>2, <1>3, <1>4 DEF GotInv, IsLazy

(* Where no unique object has been used nothing has been canceled.         *)
LEMMA NothingCanceled ==
  ASSUME IInv, pc = "ready", ~SavedOp,
         \A j \in DOMAIN sig : got[j].t = "ref" => ~heap[got[j].r].unique
  PROVE  undo = {}
<1>1. DOMAIN got \subseteq DOMAIN sig
  BY DEF IInv, InstructionInv
<1> QED
  BY <1>1 DEF IInv, UndoInv

LEMMA NotSaved ==
  ASSUME IInv, SavedOp
  PROVE  sig = <<"ref">> /\ DOMAIN ops = {1} /\ ops[1].k = "saved" /\ args = <<>>
<1>1. PICK j \in DOMAIN ops : ops[j].k = "saved"
  BY DEF SavedOp
<1>2. sig = <<"ref">> /\ args = <<>>
  BY <1>1 DEF IInv, InstructionInv, OperandInv
<1>3. DOMAIN ops = {1}
  BY <1>2 DEF IInv, InstructionInv
<1> QED
  BY <1>1, <1>2, <1>3

LEMMA PushedArgs_are ==
  ASSUME IInv, NEW arg
  PROVE  AllRefer(heap, PushedArgs(arg)) /\ \A v \in ToSet(PushedArgs(arg)) : Refers(heap, v)
<1>1. AllRefer(heap, PushedArgs(arg))
  BY NoValues, Lengths DEF IInv, PushedArgs
<1> QED
  BY <1>1 DEF AllRefer, ToSet

LEMMA Passed_are ==
  ASSUME NEW a, \A v \in ToSet(a) : Refers(heap, v), NEW vt, NEW v \in Passed(a, vt)
  PROVE  Refers(heap, v)
  BY DEF Passed

LEMMA Num_is ==
  ASSUME NEW h
  PROVE  Refers(h, Num) /\ ~IsLazy(Num)
  BY PlainValues, NotLazyRef

(* The operations that make nothing but a value that is there.             *)
LEMMA ValueEnds ==
  ASSUME IInv, NEW arg, ArgBound(arg), NEW v, Refers(heap, v), IsLazy(v) => undo = {},
         Finish(arg, v, heap)
  PROVE  IInv'
  BY HeapKeepsItself, FinishEnds

LEMMA SimpleOperations ==
  ASSUME IInv, NEW arg, ArgBound(arg),
         \/ Load(arg) \/ LoadForced(arg) \/ Number(arg) \/ DivideByZero \/ Function(arg)
         \/ Length(arg) \/ Throw \/ Equal(arg) \/ Nth(arg)
  PROVE  IInv'
<1> USE DEF Ready
<1>1. CASE Load(arg)
  <2>1. pc = "ready" /\ sig = <<"value">> /\ 1 \in DOMAIN sig /\ DOMAIN sig = {1}
    BY <1>1 DEF Load
  <2>2. ~SavedOp
    BY <2>1, NotSaved
  <2>3. IsLazy(got[1]) => undo = {}
    BY <2>1, <2>2, NothingCanceled DEF IsLazy
  <2> QED
    BY <1>1, <2>1, <2>3, Operand_is, ValueEnds DEF Load
<1>2. CASE LoadForced(arg)
  <2>1. pc = "ready" /\ sig = <<"ref">> /\ 1 \in DOMAIN sig /\ sig[1] = "ref"
    BY <1>2 DEF LoadForced
  <2> QED
    BY <1>2, <2>1, Operand_is, ValueEnds DEF LoadForced
<1>3. CASE Number(arg)
  BY <1>3, Num_is, ValueEnds DEF Number
<1>4. CASE DivideByZero
  BY <1>4, FailureEnds DEF DivideByZero
<1>5. CASE Function(arg)
  BY <1>5, Num_is, ValueEnds DEF Function
<1>6. CASE Length(arg)
  BY <1>6, Num_is, ValueEnds, FailureEnds DEF Length
<1>7. CASE Throw
  <2>1. pc = "ready" /\ sig = <<"ref">> /\ 1 \in DOMAIN sig
    BY <1>7 DEF Throw
  <2> QED
    BY <1>7, <2>1, Operand_is, ThrowEnds DEF Throw
<1>8. CASE Equal(arg)
  BY <1>8, Num_is, ValueEnds DEF Equal
<1>9. CASE Nth(arg)
  <2>1. pc = "ready" /\ sig = <<"ref", "num">> /\ DOMAIN sig = {1, 2} /\ sig[1] = "ref"
        /\ sig[2] = "num"
    BY <1>9 DEF Nth
  <2>2. CASE Fails
    BY <2>2, FailureEnds
  <2>3. CASE Finish(arg, Num, heap)
    BY <2>3, Num_is, ValueEnds
  <2>4. ASSUME NEW i \in Indexes(1), ~Obj(1).unique, Finish(arg, Obj(1).elems[i], heap)
        PROVE  IInv'
    <3>1. got[1].r \in Everything /\ HeapInv(heap)
      BY <2>1, Operand_is DEF IInv
    <3>2. AllRefer(heap, Obj(1).elems)
      BY <3>1, HeapOf DEF Obj, ObjectInv
    <3>3. Refers(heap, Obj(1).elems[i])
      BY <3>2 DEF AllRefer, Indexes
    <3>4. undo = {}
      <4>1. ~SavedOp
        BY <2>1, NotSaved
      <4>2. got[2].t = "num"
        BY <2>1, Operand_is
      <4> QED
        BY <2>1, <2>4, <4>1, <4>2, NothingCanceled DEF Obj
    <3> QED
      BY <2>4, <3>3, <3>4, ValueEnds
  <2> QED
    BY <1>9, <2>2, <2>3, <2>4 DEF Nth
<1> QED
  BY <1>1, <1>2, <1>3, <1>4, <1>5, <1>6, <1>7, <1>8, <1>9

LEMMA NumbersOnly ==
  ASSUME IInv, pc = "ready", \A j \in DOMAIN sig : sig[j] = "num"
  PROVE  undo = {}
<1>1. ~SavedOp
  BY NotSaved
<1> QED
  BY <1>1, Operand_is, NothingCanceled

(* A function is called, or will be when the value is needed.              *)
LEMMA Calls ==
  ASSUME IInv, NEW arg, ArgBound(arg), Call(arg) \/ CallLazily(arg)
  PROVE  IInv'
<1>1. pc = "ready" /\ sig = <<"num">>
  BY DEF Call, CallLazily, Ready
<1>2. undo = {}
  BY <1>1, NumbersOnly
<1>3. \A v \in ToSet(PushedArgs(arg)) : Refers(heap, v)
  BY PushedArgs_are
<1>4. ASSUME NEW vt, NEW v \in Passed(PushedArgs(arg), vt), Finish(arg, v, heap)
      PROVE  IInv'
  BY <1>2, <1>3, <1>4, Passed_are, ValueEnds
<1>5. CASE FinishNew(arg, Object("nums", TRUE, <<>>))
  <2>1. <<>> \in Seq(Values) /\ AllRefer(heap, <<>>) /\ "nums" \in Kinds
    BY NoValues DEF Kinds
  <2>2. /\ Object("nums", TRUE, <<>>) \in ObjectType
        /\ Object("nums", TRUE, <<>>).kind = "nums"
        /\ Object("nums", TRUE, <<>>).unique = TRUE
        /\ Object("nums", TRUE, <<>>).elems = <<>>
        /\ Object("nums", TRUE, <<>>).val = Error
    BY ONLY <2>1, UniqueFields, Zenon
  <2> QED
    BY <1>5, <2>1, <2>2, FinishNewEnds
<1>6. ASSUME NEW v \in Passed(PushedArgs(arg), "ref"), SetError(v)
      PROVE  IInv'
  BY <1>3, <1>6, Passed_are, ThrowEnds
<1>7. CASE Fails
  BY <1>7, FailureEnds
<1>8. ASSUME NEW vt \in {"num", "ref"}, NEW o \in FreeObjs,
             Finish(arg, V("lazy", o), [heap EXCEPT ![o] = LazyValue(vt, PushedArgs(arg))])
      PROVE  IInv'
  <2> DEFINE x == LazyValue(vt, PushedArgs(arg))
             h == [heap EXCEPT ![o] = x]
  <2>1. AllRefer(heap, PushedArgs(arg)) /\ PushedArgs(arg) \in Seq(Values)
    BY PushedArgs_are DEF AllRefer
  <2>2. /\ x \in ObjectType /\ x.kind = "lazy" /\ x.unique = FALSE /\ x.val = Error
        /\ x.elems = PushedArgs(arg)
    BY <2>1, PlainValues DEF LazyValue, Object, ObjectType, Refers
  <2>3. o \in Objs /\ heap[o].kind = "free" /\ HeapInv(heap)
    BY FreeObject DEF IInv
  <2> HIDE DEF x
  <2>4. HeapInv(h) /\ Keeps(heap, h) /\ Refers(h, V("lazy", o))
    BY <2>1, <2>2, <2>3, NewObject
  <2> HIDE DEF h
  <2>5. Finish(arg, V("lazy", o), h)
    BY <1>8 DEF h, x
  <2> QED
    BY <1>2, <2>4, <2>5, FinishEnds
<1> QED
  BY <1>4, <1>5, <1>6, <1>7, <1>8 DEF Call, CallLazily

LEMMA FillingOperations ==
  ASSUME IInv, NEW arg, ArgBound(arg),
         FillNumbers(arg) \/ FillArray(arg) \/ FillTuple(arg)
  PROVE  IInv'
<1> USE DEF Ready
<1>1. ASSUME NEW kind \in Kinds, NEW elems, AllRefer(heap, elems),
             FinishNew(arg, Object(kind, TRUE, elems))
      PROVE  IInv'
  <2>1. elems \in Seq(Values)
    BY <1>1 DEF AllRefer
  <2>2. /\ Object(kind, TRUE, elems) \in ObjectType /\ Object(kind, TRUE, elems).kind = kind
        /\ Object(kind, TRUE, elems).unique = TRUE /\ Object(kind, TRUE, elems).elems = elems
        /\ Object(kind, TRUE, elems).val = Error
    BY ONLY <2>1, UniqueFields, kind \in Kinds, Zenon
  <2> QED
    BY <1>1, <2>2, FinishNewEnds
<1>2. ASSUME NEW n \in 0 .. MaxLength, NEW v, Refers(heap, v)
      PROVE  AllRefer(heap, [i \in 1 .. n |-> v])
  <2>1. n \in Nat /\ v \in Values
    BY <1>2, UniqueObjectsAssumption DEF Refers
  <2> QED
    BY <1>2, <2>1 DEF AllRefer
<1>3. AllRefer(heap, <<>>) /\ Refers(heap, Num)
  BY NoValues, PlainValues
<1>4. CASE FillNumbers(arg)
  <2>1. PICK n \in 0 .. MaxLength, kind \in {"nums", "tuple"} :
          FinishNew(arg, Object(kind, TRUE,
                                IF kind = "nums" THEN <<>> ELSE [i \in 1 .. n |-> Num]))
    BY <1>4 DEF FillNumbers
  <2>2. kind \in Kinds
    BY DEF Kinds
  <2>3. CASE kind = "nums"
    BY <1>1, <1>3, <2>1, <2>2, <2>3
  <2>4. CASE kind # "nums"
    BY <1>1, <1>2, <1>3, <2>1, <2>2, <2>4
  <2> QED
    BY <2>3, <2>4
<1>5. CASE FillArray(arg)
  <2>1. CASE Undefined
    BY <2>1, UndefinedEnds
  <2>2. CASE FinishNew(arg, Object("rarray", TRUE, <<>>))
    BY <1>1, <1>3, <2>2 DEF Kinds
  <2>3. CASE Fails
    BY <2>3, FailureEnds
  <2> QED
    BY <1>5, <2>1, <2>2, <2>3 DEF FillArray
<1>6. CASE FillTuple(arg)
  <2>1. Refers(heap, got[2])
    BY <1>6, Operand_is DEF FillTuple
  <2>2. CASE Fails
    BY <2>2, FailureEnds
  <2>3. ASSUME NEW n \in 0 .. MaxLength,
               FinishNew(arg, Object("tuple", TRUE, [i \in 1 .. n |-> got[2]]))
        PROVE  IInv'
    BY <1>1, <1>2, <2>1, <2>3 DEF Kinds
  <2> QED
    BY <1>6, <2>2, <2>3 DEF FillTuple
<1> QED
  BY <1>4, <1>5, <1>6

(* The try, and the operations that make shared objects.                   *)
LEMMA TryEnds ==
  ASSUME IInv, NEW arg, Try(arg)
  PROVE  IInv'
<1> USE DEF Try
<1>1. ValuesInv
  BY DEF IInv
<1>2. Len(args) = 2 /\ tryArg = Error
  BY NoValues DEF PushedArgs
<1>3. Refers(heap, args[1]) /\ Refers(heap, args[2])
  BY <1>1, <1>2, Lengths DEF AllRefer
<1>4. MaxSlots >= 2
  BY <1>1, <1>2, Lengths, UniqueObjectsAssumption DEF ValuesInv, Used
<1>5. AllRefer(heap, vars') /\ Len(vars') = 1
  BY <1>3, OneValue
<1>6. Rest(heap, vars', args', evs', tryArg')
  BY <1>3, <1>4, <1>5, NoValues, UniqueObjectsAssumption DEF Rest
<1> QED
  BY <1>6, AtRestAgain DEF IInv, NoInstruction

LEMMA GotSequence ==
  ASSUME IInv, pc = "ready"
  PROVE  AllRefer(heap, got) /\ \A i \in DOMAIN sig : i \in DOMAIN got
<1>1. /\ got \in [DOMAIN got -> Values] /\ DOMAIN got = DOMAIN ops
      /\ DOMAIN ops = 1 .. Len(sig) /\ Len(sig) \in Nat /\ DOMAIN sig = 1 .. Len(sig)
  BY DEF IInv, InstructionInv, StepInv
<1>2. got \in [1 .. Len(sig) -> Values]
  BY <1>1
<1>3. got \in Seq(Values)
  BY <1>1, <1>2
<1> QED
  BY <1>1, <1>3, Operand_is DEF AllRefer

LEMMA SharingOperations ==
  ASSUME IInv, NEW arg, ArgBound(arg), Tuple(arg) \/ Array(arg) \/ Cat(arg)
  PROVE  IInv'
<1>1. CASE Tuple(arg)
  BY <1>1, PushedArgs_are, SharedObjectEnds DEF Tuple, Kinds
<1>2. CASE Array(arg)
  <2>1. CASE SharedObject(arg, "nums", <<>>)
    BY <2>1, NoValues, SharedObjectEnds DEF Kinds
  <2>2. CASE SharedObject(arg, "rarray", got)
    BY <1>2, <2>2, GotSequence, SharedObjectEnds DEF Kinds, Array
  <2>3. CASE Fails
    BY <2>3, FailureEnds
  <2> QED
    BY <1>2, <2>1, <2>2, <2>3 DEF Array
<1>3. CASE Cat(arg)
  <2>1. CASE Fails
    BY <2>1, FailureEnds
  <2>2. CASE /\ Obj(1).kind = Obj(2).kind /\ ~Obj(1).unique /\ ~Obj(2).unique
             /\ FinishNew(arg, Object(Obj(1).kind, FALSE, Obj(1).elems \o Obj(2).elems))
    <3> DEFINE s == Obj(1).elems
               t == Obj(2).elems
               kind == Obj(1).kind
    <3>1. /\ pc = "ready" /\ 1 \in DOMAIN sig /\ 2 \in DOMAIN sig
          /\ sig[1] = "ref" /\ sig[2] = "ref" /\ HeapInv(heap)
      BY <1>3 DEF Cat, Ready, IInv
    <3>2. got[1].r \in Everything /\ got[2].r \in Everything /\ kind \in Kinds
      BY <3>1, Operand_is DEF Obj
    <3>3. ObjectInv(heap, got[1].r) /\ ObjectInv(heap, got[2].r)
      BY <3>1, <3>2, HeapOf
    <3>a. AllRefer(heap, s)
      BY <3>3 DEF Obj, ObjectInv
    <3>b. AllRefer(heap, t)
      BY <3>3 DEF Obj, ObjectInv
    <3>4. AllRefer(heap, s) /\ AllRefer(heap, t) /\ s \in Seq(Values) /\ t \in Seq(Values)
      BY ONLY <3>a, <3>b, Zenon DEF AllRefer
    <3>5. kind \in {"tuple", "rarray"} =>
            /\ \A i \in DOMAIN s : MayBeShared(heap, s[i])
            /\ \A i \in DOMAIN t : MayBeShared(heap, t[i])
      BY <2>2, <3>3 DEF Obj, ObjectInv
    <3> HIDE DEF s, t
    <3>6. /\ s \o t \in Seq(Values) /\ AllRefer(heap, s \o t)
          /\ \A i \in DOMAIN (s \o t) :
               \/ i \in DOMAIN s /\ (s \o t)[i] = s[i]
               \/ i - Len(s) \in DOMAIN t /\ (s \o t)[i] = t[i - Len(s)]
      BY <3>4, JoinedValues
    <3>8. kind \in {"tuple", "rarray"} => \A i \in DOMAIN (s \o t) : MayBeShared(heap, (s \o t)[i])
      BY <3>5, <3>6
    <3> DEFINE x == Object(kind, FALSE, s \o t)
    <3> HIDE DEF kind
    <3>9. /\ x \in ObjectType /\ x.kind = kind /\ x.unique = FALSE /\ x.elems = s \o t
          /\ x.val = Error
      <4>1. kind \in Kinds /\ s \o t \in Seq(Values)
        BY <3>2, <3>6
      <4> QED
        BY ONLY <4>1, SharedFields, Zenon
    <3>10. FinishNew(arg, x)
      BY <2>2 DEF s, t, kind
    <3> HIDE DEF x
    <3> QED
      BY <3>2, <3>6, <3>8, <3>9, <3>10, FinishNewEnds
  <2> QED
    BY <1>3, <2>1, <2>2 DEF Cat
<1> QED
  BY <1>1, <1>2, <1>3

(* The operations on unique objects.                                       *)
LEMMA UniqueOperand ==
  ASSUME IInv, pc = "ready", 1 \in DOMAIN sig, sig[1] = "ref", Obj(1).unique
  PROVE  /\ got[1].r \in Objs /\ got[1].r \in Everything /\ HeapInv(heap)
         /\ Obj(1) \in ObjectType /\ ObjectInv(heap, got[1].r) /\ AllRefer(heap, Obj(1).elems)
<1>1. got[1].r \in Objs /\ got[1].r \in Everything /\ HeapInv(heap)
  BY Operand_is DEF Obj, IInv
<1> QED
  BY <1>1, HeapOf DEF Obj, ObjectInv

(* An element of a unique object is replaced.                              *)
LEMMA ElementReplaced ==
  ASSUME IInv, NEW p \in Objs, heap[p].unique, NEW i \in DOMAIN heap[p].elems,
         NEW v, Refers(heap, v)
  PROVE  LET h == [heap EXCEPT ![p].elems[i] = v]
         IN /\ HeapInv(h) /\ Keeps(heap, h)
            /\ \A o \in Everything : h[o].kind = heap[o].kind
<1> DEFINE elems == [heap[p].elems EXCEPT ![i] = v]
           x == [heap[p] EXCEPT !.elems = elems]
           h == [heap EXCEPT ![p] = x]
<1>1. HeapInv(heap) /\ heap \in [Everything -> ObjectType] /\ p \in Everything
  BY DEF IInv, HeapInv, Everything
<1>2. heap[p] \in ObjectType /\ ObjectInv(heap, p)
  BY <1>1, HeapOf
<1>3. AllRefer(heap, elems) /\ elems \in Seq(Values)
  <2>1. AllRefer(heap, heap[p].elems) /\ v \in Values
    BY <1>2 DEF ObjectInv, Refers
  <2>2. heap[p].elems \in Seq(Values)
    BY <2>1 DEF AllRefer
  <2>3. elems \in Seq(Values) /\ \A j \in DOMAIN elems :
          j \in DOMAIN heap[p].elems /\ elems[j] = IF j = i THEN v ELSE heap[p].elems[j]
    BY <2>1, <2>2
  <2> QED
    BY <2>1, <2>3 DEF AllRefer
<1> HIDE DEF elems
<1>4. x \in ObjectType
  BY <1>2, <1>3 DEF ObjectType
<1>5. /\ x.kind = heap[p].kind /\ x.unique = heap[p].unique /\ x.vt = heap[p].vt
      /\ x.share = heap[p].share /\ x.val = heap[p].val /\ x.elems = elems
  BY <1>2 DEF ObjectType
<1> HIDE DEF x
<1>6. h[p] = x /\ \A o \in Everything : o # p => h[o] = heap[o]
  BY <1>1
<1>7. Keeps(heap, h)
  BY <1>5, <1>6 DEF Keeps
<1>8. ObjectInv(h, p)
  <2>1. AllRefer(h, elems)
    BY <1>3, <1>7, KeptValues
  <2>2. Refers(heap, heap[p].val)
    BY <1>2 DEF ObjectInv
  <2>3. Refers(h, heap[p].val)
    BY <1>7, <2>2, KeptValue
  <2>4. heap[p].val \in {Error, Canceled} \/ OfType(heap, heap[p].val, heap[p].vt)
    BY <1>2 DEF ObjectInv
  <2>5. heap[p].val \in {Error, Canceled} \/ OfType(h, heap[p].val, heap[p].vt)
    BY <1>7, <2>2, <2>4, KeptValue
  <2>6. heap[p].unique /\ heap[p].kind \in Kinds
    BY <1>2 DEF ObjectInv
  <2> HIDE DEF h
  <2> QED
    BY <1>5, <1>6, <2>1, <2>3, <2>5, <2>6 DEF ObjectInv
<1>9. HeapInv(h)
  BY <1>1, <1>4, <1>5, <1>8, ChangedInHeap
<1>10. \A o \in Everything : h[o].kind = heap[o].kind
  BY <1>5, <1>6
<1> QED
  BY <1>7, <1>9, <1>10 DEF x, elems

LEMMA AfterUse_is ==
  ASSUME NEW v, Refers(heap, v)
  PROVE  Refers(heap, AfterUse(v))
<1>1. v \in Values
  BY DEF Refers
<1>2. IsLazy(v) => Refers(heap, V("lazyc", v.r))
  BY <1>1, ValueFields DEF Refers, IsLazy, V, Values
<1> QED
  BY <1>2, PlainValues DEF AfterUse, Lazily

LEMMA UniqueOperations ==
  ASSUME IInv, NEW arg, ArgBound(arg),
         UniqueLength(arg) \/ UniqueNth(arg) \/ SetNth(arg) \/ SetTupleNth(arg)
  PROVE  IInv'
<1>1. Refers(heap, Num)
  BY PlainValues
<1>2. CASE UniqueLength(arg)
  <2>1. pc = "ready" /\ 1 \in DOMAIN sig /\ sig[1] = "ref"
    BY <1>2 DEF UniqueLength, Ready
  <2>2. Refers(heap, got[1]) /\ got[1] = V("ref", got[1].r)
    BY <2>1, Operand_is, Zenon
  <2>3. FinishPair(arg, Num, got[1].r, heap)
    BY <1>2, Zenon DEF UniqueLength
  <2>4. Refers(heap, V("ref", got[1].r))
    BY ONLY <2>2, Zenon
  <2> QED
    <3>1. /\ HeapInv(heap) /\ Keeps(heap, heap)
          /\ \A o \in Everything : heap[o].kind = heap[o].kind
      BY HeapKeepsItself
    <3> QED
      BY ONLY IInv, ArgBound(arg), <1>1, <2>3, <2>4, <3>1, FinishPairEnds, Zenon
<1>3. CASE UniqueNth(arg)
  <2>1. pc = "ready" /\ 1 \in DOMAIN sig /\ sig[1] = "ref" /\ Obj(1).unique
    BY <1>3 DEF UniqueNth, Ready
  <2>2. Refers(heap, V("ref", got[1].r))
    BY <2>1, Operand_is
  <2>3. CASE FinishPair(arg, Num, got[1].r, heap)
    BY <1>1, <2>2, <2>3, HeapKeepsItself, FinishPairEnds
  <2>4. ASSUME NEW i \in Indexes(1),
               FinishPair(arg, Obj(1).elems[i], got[1].r,
                          [heap EXCEPT ![got[1].r].elems[i] = AfterUse(Obj(1).elems[i])])
        PROVE  IInv'
    <3> DEFINE v == Obj(1).elems[i]
               h == [heap EXCEPT ![got[1].r].elems[i] = AfterUse(v)]
    <3>1. Refers(heap, v) /\ i \in DOMAIN heap[got[1].r].elems /\ heap[got[1].r].unique
      BY <2>1, UniqueOperand DEF AllRefer, Indexes, Obj
    <3>2. Refers(heap, AfterUse(v))
      BY <3>1, AfterUse_is
    <3>3. HeapInv(h) /\ Keeps(heap, h) /\ \A o \in Everything : h[o].kind = heap[o].kind
      <4> DEFINE p == got[1].r
                 w == AfterUse(v)
      <4>1. p \in Objs /\ heap[p].unique /\ i \in DOMAIN heap[p].elems /\ Refers(heap, w)
        BY <2>1, <3>1, <3>2, UniqueOperand
      <4> HIDE DEF p, w
      <4>2. LET g == [heap EXCEPT ![p].elems[i] = w]
            IN HeapInv(g) /\ Keeps(heap, g) /\ \A o \in Everything : g[o].kind = heap[o].kind
        BY <4>1, ElementReplaced
      <4> QED
        BY <4>2 DEF p, w
    <3> HIDE DEF h
    <3>4. Refers(h, v) /\ Refers(h, V("ref", got[1].r))
      BY <2>2, <3>1, <3>3, KeptValue
    <3>5. FinishPair(arg, v, got[1].r, h)
      BY <2>4 DEF h
    <3> QED
      BY <3>3, <3>4, <3>5, FinishPairEnds
  <2> QED
    BY <1>3, <2>3, <2>4 DEF UniqueNth
<1>4. CASE SetNth(arg)
  <2>1. PICK j \in DOMAIN ops : ops[j].k = "pushed"
    BY <1>4 DEF SetNth, SetsElement
  <2>4. InstructionInv /\ OperandInv(j)
    BY DEF IInv, InstructionInv
  <2>5. 1 \in DOMAIN sig /\ sig[1] = "ref"
    BY <2>1, <2>4 DEF InstructionInv, OperandInv
  <2>2. CASE Fails
    BY <2>2, FailureEnds
  <2>3. CASE Is(1, "nums", TRUE) /\ Finish(arg, got[1], heap)
    BY <1>4, <2>3, <2>5, Operand_is, ValueEnds DEF SetNth
  <2> QED
    BY <1>4, <2>2, <2>3 DEF SetNth
<1>5. CASE SetTupleNth(arg)
  <2>1. pc = "ready" /\ 1 \in DOMAIN sig /\ sig[1] = "ref" /\ Obj(1).unique
    BY <1>5 DEF SetTupleNth, Ready, Is
  <2>2. Refers(heap, got[1]) /\ ~IsLazy(got[1])
    BY <2>1, Operand_is
  <2>3. Len(PushedArgs(arg)) = 1 /\ args \in Seq(Values)
    BY <1>5, Lengths DEF SetTupleNth, IInv
  <2>4. 1 \in DOMAIN args
    BY <2>3, NoValues DEF PushedArgs
  <2>5. Refers(heap, args[1])
    BY <2>4, Lengths DEF AllRefer, IInv
  <2>6. PICK i \in Indexes(1) :
          Finish(arg, got[1], [heap EXCEPT ![got[1].r].elems[i] = args[1]])
    BY <1>5 DEF SetTupleNth
  <2> DEFINE h == [heap EXCEPT ![got[1].r].elems[i] = args[1]]
  <2>7. HeapInv(h) /\ Keeps(heap, h)
    BY <2>1, <2>5, UniqueOperand, ElementReplaced DEF Obj, Indexes
  <2> HIDE DEF h
  <2>8. Refers(h, got[1])
    BY <2>2, <2>7, KeptValue
  <2>9. Finish(arg, got[1], h)
    BY <2>6 DEF h
  <2> QED
    BY <2>2, <2>7, <2>8, <2>9, FinishEnds
<1> QED
  BY <1>2, <1>3, <1>4, <1>5

(* A shared copy of a unique object, and the object.                       *)
LEMMA ToSharedEnds ==
  ASSUME IInv, NEW arg, ArgBound(arg), ToShared(arg)
  PROVE  IInv'
<1> DEFINE elems == Obj(1).elems
           kind == Obj(1).kind
           g == Shared(heap, ToSet(elems))
           x == Object(kind, FALSE, elems)
           y(o) == Object("tuple", TRUE, <<V("ref", o), got[1]>>)
<1>1. pc = "ready" /\ 1 \in DOMAIN sig /\ sig[1] = "ref" /\ Obj(1).unique /\ kind \in Kinds
  BY DEF ToShared, Ready, Kinds
<1>2. CASE Undefined
  BY <1>2, UndefinedEnds
<1>3. CASE Fails
  BY <1>3, FailureEnds
<1>4. ASSUME ~HoldsUnique(ToSet(elems)), NEW o \in FreeObjs, NEW p \in FreeObjs \ {o},
             Finish(arg, V("ref", p), [g EXCEPT ![o] = x, ![p] = y(o)])
      PROVE  IInv'
  <2>1. AllRefer(heap, elems) /\ HeapInv(heap) /\ Refers(heap, got[1])
    BY <1>1, UniqueOperand, Operand_is
  <2>2. \A v \in ToSet(elems) : Refers(heap, v)
    BY <2>1 DEF AllRefer, ToSet
  <2>3. /\ HeapInv(g) /\ Keeps(heap, g)
        /\ \A q \in Everything : g[q].kind = heap[q].kind
        /\ \A v \in ToSet(elems) : (v.t = "ref" => ~heap[v.r].unique) => MayBeShared(g, v)
    BY <2>1, <2>2, SharedHeap
  <2> DEFINE h == [g EXCEPT ![o] = x]
             k == [h EXCEPT ![p] = y(o)]
  <2>4. Finish(arg, V("ref", p), k)
    BY <1>4
  <2> HIDE DEF g
  <2>5. o \in Objs /\ p \in Objs /\ g[o].kind = "free" /\ g[p].kind = "free" /\ p # o
    BY <2>3, FreeObject
  <2>6. AllRefer(g, elems) /\ elems \in Seq(Values)
    BY <2>1, <2>3, KeptValues DEF AllRefer
  <2>7. \A i \in DOMAIN elems : MayBeShared(g, elems[i])
    BY <1>4, <2>3 DEF HoldsUnique, IsUnique, ToSet
  <2> HIDE DEF elems, kind
  <2>8. x \in ObjectType /\ x.kind = kind /\ x.unique = FALSE /\ x.elems = elems /\ x.val = Error
    <3>1. kind \in Kinds /\ elems \in Seq(Values)
      BY <1>1, <2>6 DEF kind
    <3> QED
      BY ONLY <3>1, SharedFields, Zenon
  <2> HIDE DEF x
  <2>9. HeapInv(h) /\ Keeps(g, h) /\ Refers(h, V("ref", o))
    BY <1>1, <2>3, <2>5, <2>6, <2>7, <2>8, NewObject DEF Kinds
  <2>10. h[p].kind = "free"
    BY <2>3, <2>5 DEF HeapInv
  <2> HIDE DEF h
  <2>11. Refers(h, got[1])
    BY <2>1, <2>3, <2>9, KeptValue
  <2>12. /\ AllRefer(h, <<V("ref", o), got[1]>>) /\ <<V("ref", o), got[1]>> \in Seq(Values)
         /\ "tuple" \in Kinds
    BY <2>9, <2>11, TwoValues DEF AllRefer, Kinds
  <2>13. /\ y(o) \in ObjectType /\ y(o).kind = "tuple" /\ y(o).unique = TRUE
         /\ y(o).elems = <<V("ref", o), got[1]>> /\ y(o).val = Error
    BY ONLY <2>12, UniqueFields, Zenon
  <2> HIDE DEF y
  <2>14. HeapInv(k) /\ Keeps(h, k) /\ Refers(k, V("ref", p))
    BY <2>5, <2>9, <2>10, <2>12, <2>13, NewObject DEF Kinds
  <2> HIDE DEF k
  <2>15. Keeps(heap, k)
    BY <2>3, <2>9, <2>14 DEF Keeps
  <2> QED
    BY <2>4, <2>14, <2>15, NotLazyRef, FinishEnds
<1> QED
  BY <1>2, <1>3, <1>4 DEF ToShared

(* lettuple, its end.                                                      *)
LEMMA LetTupleEnds ==
  ASSUME IInv, LetTuple
  PROVE  IInv'
<1>1. CASE Fails
  BY <1>1, FailureEnds
<1>2. CASE /\ Used(Obj(1).elems) <= MaxSlots /\ vars' = vars \o Obj(1).elems
           /\ UNCHANGED <<args, evs, tryArg>> /\ NoInstruction /\ Collect(heap)
  <2>1. pc = "ready" /\ 1 \in DOMAIN sig /\ sig[1] = "ref" /\ HeapInv(heap) /\ ValuesInv
    BY DEF LetTuple, Ready, IInv
  <2>2. args = <<>>
    <3>1. 1 \in DOMAIN ops /\ ops[1].k = "saved"
      BY <2>1 DEF LetTuple, IInv, InstructionInv
    <3> QED
      BY <3>1, NotSaved DEF SavedOp
  <2>3. AllRefer(heap, Obj(1).elems)
    BY <2>1, Operand_is, HeapOf DEF Obj, ObjectInv
  <2>4. AllRefer(heap, vars') /\ Len(vars') = Len(vars) + Len(Obj(1).elems)
    BY <1>2, <2>1, <2>3, Lengths, JoinedValues
  <2>5. Len(Obj(1).elems) \in Nat
    BY <2>3 DEF AllRefer
  <2>6. Rest(heap, vars', args', evs', tryArg')
    <3>1. /\ AllRefer(heap, args) /\ AllRefer(heap, evs) /\ Refers(heap, tryArg)
          /\ tryArg # Error => MaxSlots >= 2
      BY <2>1, Lengths DEF ValuesInv
    <3>2. Len(vars') + Len(evs) + Len(args) + (IF tryArg = Error THEN 0 ELSE 1) <= MaxSlots
      <4>1. Len(vars) \in Nat /\ Len(evs) \in Nat /\ Len(args) = 0
        BY <2>1, <2>2, Lengths, NoValues
      <4>2. Len(vars) + Len(evs) + Len(Obj(1).elems) + (IF tryArg = Error THEN 0 ELSE 1)
              <= MaxSlots
        BY <1>2 DEF Used
      <4> DEFINE c == IF tryArg = Error THEN 0 ELSE 1
      <4>3. c \in Nat
        OBVIOUS
      <4> HIDE DEF c
      <4>4. Len(vars) + Len(Obj(1).elems) + Len(evs) + Len(args) + c <= MaxSlots
        <5>1. Len(vars) + Len(evs) + Len(Obj(1).elems) + c <= MaxSlots
          BY <4>2 DEF c
        <5>2. ASSUME NEW k \in Nat, NEW l \in Nat, NEW m \in Nat, NEW d \in Nat, NEW b \in Nat,
                     k + l + m + d <= b
              PROVE  k + m + l + 0 + d <= b
          BY <5>2
        <5> QED
          BY <2>5, <4>1, <4>3, <5>1, <5>2, UniqueObjectsAssumption
      <4> QED
        BY <2>4, <4>4 DEF c
    <3> QED
      BY <1>2, <2>4, <3>1, <3>2 DEF Rest
  <2> QED
    BY <1>2, <2>1, <2>6, AtRestAgain DEF NoInstruction
<1> QED
  BY <1>1, <1>2 DEF LetTuple

LEMMA ThirdElement ==
  ASSUME NEW S, NEW s \in Seq(S), Len(s) = 2, NEW x \in S
  PROVE  /\ Append(s, x) \in Seq(S) /\ Len(Append(s, x)) = 3
         /\ DOMAIN s = {1, 2} /\ DOMAIN Append(s, x) = {1, 2, 3}
         /\ Append(s, x)[1] = s[1] /\ Append(s, x)[2] = s[2] /\ Append(s, x)[3] = x
<1>1. DOMAIN s = 1 .. 2
  BY LenProperties
<1>2. /\ Append(s, x) \in Seq(S) /\ Len(Append(s, x)) = 3
      /\ Append(s, x)[1] = s[1] /\ Append(s, x)[2] = s[2] /\ Append(s, x)[3] = x
  <2>1. /\ Append(s, x) \in Seq(S) /\ Len(Append(s, x)) = Len(s) + 1
        /\ \A i \in 1 .. Len(s) : Append(s, x)[i] = s[i]
        /\ Append(s, x)[Len(s) + 1] = x
    BY ONLY AppendProperties, s \in Seq(S), x \in S
  <2>2. Len(Append(s, x)) = 3 /\ Append(s, x)[3] = x
    BY ONLY <2>1, Len(s) = 2
  <2>3. 1 \in 1 .. Len(s) /\ 2 \in 1 .. Len(s)
    BY ONLY Len(s) = 2
  <2> QED
    BY ONLY <2>1, <2>2, <2>3, Zenon
<1>3. DOMAIN Append(s, x) = 1 .. 3
  BY ONLY <1>2, LenProperties
<1>4. 1 .. 3 = {1, 2, 3}
  BY ONLY TRUE
<1>5. 1 .. 2 = {1, 2}
  BY ONLY TRUE
<1> QED
  BY ONLY <1>1, <1>2, <1>3, <1>4, <1>5, Zenon

LEMMA SetNthBegins ==
  ASSUME IInv, NEW arg, BeginSetNth(arg)
  PROVE  IInv'
<1> USE DEF Ready
<1>1. /\ HeapInv(heap) /\ ValuesInv /\ InstructionInv /\ UndoInv /\ StepInv
      /\ pc = "ready" /\ sig = <<"ref", "num">>
  BY DEF IInv, BeginSetNth
<1>2. PICK t \in {"num", "ref"} :
        /\ sig' = Append(sig, t) /\ ops' = Append(ops, [k |-> "pushed", i |-> 1])
  BY DEF BeginSetNth
<1>3. /\ heap' = heap /\ vars' = vars /\ args' = args /\ evs' = evs /\ tmp' = tmp
      /\ saved' = saved /\ got' = got /\ undo' = undo /\ forcing' = forcing
      /\ resumed' = resumed /\ rv' = rv /\ tryArg' = tryArg /\ pc' = "pushed"
  BY DEF BeginSetNth, frame, progress, force, others
<1>4. 1 \in DOMAIN args
  <2>1. Len(PushedArgs(arg)) = 1 /\ args \in Seq(Values)
    BY <1>1, Lengths DEF BeginSetNth
  <2> QED
    BY <2>1, NoValues DEF PushedArgs
<1>5. /\ DOMAIN ops = {1, 2} /\ DOMAIN ops' = {1, 2, 3} /\ sig'[1] = "ref" /\ Len(sig') = 3
      /\ \A j \in DOMAIN ops : ops'[j] = ops[j] /\ sig'[j] = sig[j]
      /\ ops'[3] = [k |-> "pushed", i |-> 1] /\ sig'[3] = t
      /\ ops' \in Seq([k : OperandKinds, i : Nat \ {0}]) /\ Len(ops') = Len(sig')
  <2>1. [k |-> "pushed", i |-> 1] \in [k : OperandKinds, i : Nat \ {0}]
    BY DEF OperandKinds
  <2>2. ops \in Seq([k : OperandKinds, i : Nat \ {0}]) /\ Len(ops) = 2
    BY <1>1 DEF InstructionInv
  <2>3. /\ DOMAIN ops = {1, 2}
        /\ ops' \in Seq([k : OperandKinds, i : Nat \ {0}]) /\ Len(ops') = 3
        /\ DOMAIN ops' = {1, 2, 3} /\ ops'[1] = ops[1] /\ ops'[2] = ops[2]
        /\ ops'[3] = [k |-> "pushed", i |-> 1]
    BY <1>2, <2>1, <2>2, ThirdElement
  <2>4. sig \in Seq({"num", "ref", "arg", "value"}) /\ Len(sig) = 2
    BY <1>1 DEF InstructionInv
  <2>5. /\ DOMAIN sig' = {1, 2, 3} /\ sig'[1] = sig[1] /\ sig'[2] = sig[2] /\ sig'[3] = t
        /\ Len(sig') = 3
    BY <1>2, <2>4, ThirdElement
  <2> QED
    BY <1>1, <2>3, <2>5
<1>6. DOMAIN got = {1, 2}
  BY <1>1, <1>5 DEF StepInv
<1>7. ~SavedOp
  BY <1>1, NotSaved
<1>8. ~SavedOp' /\ SetsElement'
  BY <1>5, <1>7 DEF SavedOp, SetsElement
<1>9. ValuesInv'
  BY <1>1, <1>3 DEF ValuesInv, Part, Names, FrameNames, Used
<1>10. InstructionInv'
  <2>1. ASSUME NEW j \in DOMAIN ops' PROVE OperandInv(j)'
    <3>1. CASE j \in DOMAIN ops
      <4>1. OperandInv(j) /\ ops[j].k # "saved"
        BY <1>1, <1>7, <3>1 DEF InstructionInv, SavedOp
      <4> QED
        BY <1>1, <1>3, <1>5, <3>1, <4>1 DEF OperandInv
    <3>2. CASE j = 3
      BY <1>3, <1>4, <1>5, <3>2 DEF OperandInv
    <3> QED
      BY <1>5, <3>1, <3>2
  <2>2. ASSUME NEW j \in DOMAIN got' PROVE GotInv(j)'
    BY <1>1, <1>3, <1>5, <1>6 DEF InstructionInv, GotInv
  <2>3. sig' \in Seq({"num", "ref", "arg", "value"})
    BY <1>1, <1>2 DEF InstructionInv
  <2>4. got' \in [DOMAIN got' -> Values] /\ DOMAIN got' \subseteq DOMAIN ops'
    BY <1>1, <1>3, <1>5, <1>6 DEF InstructionInv
  <2> QED
    BY <1>5, <2>1, <2>2, <2>3, <2>4 DEF InstructionInv
<1>11. UndoInv'
  BY <1>1, <1>3, <1>7, <1>8 DEF UndoInv
<1>12. StepInv'
  BY <1>1, <1>3, <1>5, <1>6, <1>8 DEF StepInv
<1>13. FrameInv' /\ GotNotLazy' /\ ResumeInv'
  BY <1>3 DEF FrameInv, GotNotLazy, ResumeInv, InFrame
<1> QED
  BY <1>1, <1>3, <1>9, <1>10, <1>11, <1>12, <1>13 DEF IInv

LEMMA OperationEnds ==
  ASSUME IInv, NEW arg \in {FALSE} \union {Used(args) < MaxSlots}, Operation(arg)
  PROVE  IInv'
<1>1. ArgBound(arg)
  <2>1. (Used(args) < MaxSlots) \in BOOLEAN
    OBVIOUS
  <2>2. arg \in BOOLEAN
    BY <2>1
  <2>3. CASE arg = FALSE
    BY <2>3 DEF ArgBound
  <2>4. CASE arg = (Used(args) < MaxSlots)
    BY <2>2, <2>4, Zenon DEF ArgBound
  <2> QED
    BY <2>3, <2>4
<1> QED
  BY <1>1, SimpleOperations, Calls, FillingOperations, TryEnds, SharingOperations,
     UniqueOperations, ToSharedEnds, LetTupleEnds, SetNthBegins
     DEF Operation, IntegerOperation, Compare, FloatOperation

----------------------------------------------------------------------------
(* Between two instructions.                                               *)
LEMMA Prefix ==
  ASSUME NEW h, NEW s, AllRefer(h, s), NEW n \in 0 .. Len(s)
  PROVE  AllRefer(h, SubSeq(s, 1, n)) /\ Len(SubSeq(s, 1, n)) = n
<1>1. s \in Seq(Values) /\ Len(s) \in Nat /\ DOMAIN s = 1 .. Len(s)
  BY DEF AllRefer
<1>2. /\ SubSeq(s, 1, n) \in Seq(Values) /\ Len(SubSeq(s, 1, n)) = n
      /\ \A i \in 1 .. n : SubSeq(s, 1, n)[i] = s[i]
  BY <1>1
<1>3. \A i \in 1 .. n : i \in DOMAIN s
  BY <1>1
<1>4. DOMAIN SubSeq(s, 1, n) = 1 .. n
  BY <1>2
<1> QED
  BY <1>2, <1>3, <1>4 DEF AllRefer

LEMMA InstructionDropped ==
  ASSUME IInv, PopExprValues \/ Retry
  PROVE  IInv'
<1>1. ValuesInv /\ HeapInv(heap)
  BY DEF IInv
<1>2. /\ AllRefer(heap, vars) /\ AllRefer(heap, args) /\ AllRefer(heap, evs)
      /\ Len(vars) \in Nat /\ Len(args) \in Nat /\ Len(evs) \in Nat /\ evs \in Seq(Values)
  BY <1>1, Lengths
<1>3. Refers(heap, tryArg) /\ (tryArg # Error => MaxSlots >= 2) /\ MaxSlots \in Nat
  BY <1>1, UniqueObjectsAssumption DEF ValuesInv
<1>4. Len(vars) + Len(evs) + Len(args) + (IF tryArg = Error THEN 0 ELSE 1) <= MaxSlots
  BY <1>1 DEF ValuesInv, Used
<1> DEFINE c == IF tryArg = Error THEN 0 ELSE 1
<1>5. c \in Nat /\ Len(vars) + Len(evs) + Len(args) + c <= MaxSlots
  BY <1>4
<1>6. CASE PopExprValues
  <2>1. Len(evs) - 1 \in 0 .. Len(evs)
    BY <1>2, <1>6 DEF PopExprValues
  <2>2. AllRefer(heap, evs') /\ Len(evs') = Len(evs) - 1
    BY <1>2, <1>6, <2>1, Prefix DEF PopExprValues
  <2> HIDE DEF c
  <2>3. Len(vars) + Len(evs') + Len(args) + c <= MaxSlots
    BY <1>2, <1>3, <1>5, <2>1, <2>2
  <2>4. Rest(heap, vars', args', evs', tryArg')
    BY <1>2, <1>3, <1>6, <2>2, <2>3 DEF Rest, PopExprValues, c
  <2> QED
    BY <1>1, <1>6, <2>4, AtRestAgain DEF PopExprValues, NoInstruction
<1>7. CASE Retry
  <2>1. AllRefer(heap, <<>>) /\ Len(<<>>) = 0
    BY NoValues
  <2>2. /\ vars' = args /\ args' = <<>> /\ evs' = <<>> /\ tryArg' = tryArg
    BY <1>7 DEF Retry
  <2> HIDE DEF c
  <2>3. Len(args) + 0 + 0 + c <= MaxSlots
    BY <1>2, <1>3, <1>5
  <2>4. Rest(heap, vars', args', evs', tryArg')
    BY <1>2, <1>3, <2>1, <2>2, <2>3 DEF Rest, c
  <2> QED
    BY <1>1, <1>7, <2>4, AtRestAgain DEF Retry, NoInstruction
<1> QED
  BY <1>6, <1>7

LEMMA AfterIs ==
  ASSUME NEW o, NEW g, NEW popped, DOMAIN g \subseteq DOMAIN o
  PROVE  /\ After(o, g, popped) \in {"operand", "pop", "pushed", "ready"}
         /\ After(o, g, popped) = "operand" => DOMAIN g # DOMAIN o
         /\ After(o, g, popped) = "pop" => Operands(o) \subseteq DOMAIN g /\ ~popped
         /\ After(o, g, popped) = "pushed" =>
              DOMAIN g # DOMAIN o /\ \E j \in DOMAIN o : o[j].k = "pushed"
         /\ After(o, g, popped) = "ready" => DOMAIN g = DOMAIN o
         /\ Operands(o) \subseteq DOMAIN g => After(o, g, popped) # "operand"
  BY DEF After, Operands

LEMMA ConstantsGot ==
  ASSUME NEW s, NEW o
  PROVE  /\ DOMAIN ConstantOperands(s, o) = {j \in DOMAIN o : o[j].k = "const"}
         /\ \A j \in DOMAIN ConstantOperands(s, o) :
              ConstantOperands(s, o)[j] = IF s[j] = "ref" THEN V("ref", Global) ELSE Num
  BY DEF ConstantOperands

LEMMA ConstantIs ==
  ASSUME NEW h, HeapInv(h)
  PROVE  /\ Refers(h, V("ref", Global)) /\ V("ref", Global) \in Values
         /\ V("ref", Global).t = "ref"
         /\ Refers(h, Num) /\ Num \in Values /\ Num.t = "num"
<1>1. Refers(h, Num) /\ Num \in Values /\ Num.t = "num"
  BY PlainValues DEF Refers, Num, V
<1>2. h[Global].kind \in Kinds
  BY GlobalKept DEF Kinds
<1> QED
  BY <1>1, <1>2 DEF Refers, V, Values, IsLazy, Everything

LEMMA NothingChanged ==
  ASSUME IInv, UNCHANGED allVars
  PROVE  IInv'
<1>1. /\ heap' = heap /\ vars' = vars /\ args' = args /\ evs' = evs /\ tmp' = tmp
      /\ saved' = saved /\ tryArg' = tryArg /\ pc' = pc /\ sig' = sig /\ ops' = ops
      /\ got' = got /\ undo' = undo /\ at' = at /\ forcing' = forcing /\ resumed' = resumed
      /\ rv' = rv /\ began' = began
  BY DEF allVars, frame, instruction, progress, force, others
<1>2. HeapInv(heap)' /\ ValuesInv'
  BY <1>1 DEF IInv, ValuesInv, Part, Used
<1>3. InstructionInv'
  <2>1. \A j : OperandInv(j)' = OperandInv(j) /\ GotInv(j)' = GotInv(j)
    BY <1>1 DEF OperandInv, GotInv
  <2> QED
    BY <1>1, <2>1 DEF IInv, InstructionInv
<1>4. /\ SavedOp' = SavedOp /\ SetsElement' = SetsElement /\ InFrame' = InFrame
  BY <1>1 DEF SavedOp, SetsElement, InFrame
<1>5. UndoInv'
  BY <1>1, <1>4 DEF IInv, UndoInv
<1>6. /\ Here' = Here /\ \A n : Part(n)' = Part(n)
      /\ \A p : Slot(p)' = Slot(p)
      /\ \A j : ValuePlace(ops, j)' = ValuePlace(ops, j)
  BY <1>1 DEF Here, Part, Slot, ValuePlace
<1>7. /\ Missing' = Missing /\ Read' = Read /\ Place(Here)' = Place(Here)
      /\ Slot(at)' = Slot(at)
  BY <1>1, <1>6 DEF Missing, Read, Place, Slot
<1>8. StepInv'
  BY <1>1, <1>4, <1>6, <1>7 DEF IInv, StepInv
<1>9. FrameInv'
  <2>1. \A n : Began(n)' = Began(n)
    BY <1>1 DEF Began
  <2>2. \A n, i : SlotKept(n, i)' = SlotKept(n, i)
    BY <1>1, <1>6, <2>1 DEF SlotKept
  <2> QED
    BY <1>4, <1>6, <2>1, <2>2 DEF IInv, FrameInv
<1>10. GotNotLazy'
  BY <1>1, <1>4, <1>6 DEF IInv, GotNotLazy, NotLazy
<1>11. ResumeInv'
  BY <1>1, <1>4, <1>6 DEF IInv, ResumeInv, BrokenOffAt, NotLazy
<1> QED
  BY <1>2, <1>3, <1>5, <1>8, <1>9, <1>10, <1>11 DEF IInv

LEMMA FunctionIsSequence ==
  ASSUME NEW S, NEW n \in Nat, NEW f \in [1 .. n -> S]
  PROVE  f \in Seq(S) /\ Len(f) = n /\ DOMAIN f = 1 .. n
  OBVIOUS

(* The operands an instruction begins with.                                *)
LEMMA OperandsBegun ==
  ASSUME IInv, BeginInstruction
  PROVE  /\ sig' \in Seq({"num", "ref", "arg", "value"})
         /\ ops' \in Seq([k : OperandKinds, i : Nat \ {0}]) /\ Len(ops') = Len(sig')
         /\ \A j \in DOMAIN ops' :
              /\ ops'[j].k \in {"const", "var", "pop", "eval", "arg"}
              /\ ops'[j].k = "var" => ops'[j].i \in DOMAIN vars
              /\ ops'[j].k = "arg" => ops'[j].i \in DOMAIN args
              /\ ops'[j].k = "pop" => j \in {1, 2}
              /\ sig'[j] = "arg" => ops'[j].k = "arg"
              /\ sig'[j] = "value" => Len(sig') = 1
<1>1. /\ vars \in Seq(Values) /\ DOMAIN vars \subseteq Nat \ {0}
      /\ args \in Seq(Values) /\ DOMAIN args = 1 .. Len(args) /\ Len(args) \in Nat
  BY Lengths DEF IInv
<1>2. ASSUME NEW s \in Sigs, sig' = s, ops' \in OperandsOf(s)
      PROVE  /\ sig' \in Seq({"num", "ref", "arg", "value"})
             /\ ops' \in Seq([k : OperandKinds, i : Nat \ {0}]) /\ Len(ops') = Len(sig')
             /\ \A j \in DOMAIN ops' :
                  /\ ops'[j].k \in {"const", "var", "pop", "eval"}
                  /\ ops'[j].k = "var" => ops'[j].i \in DOMAIN vars
                  /\ j \in {1, 2}
                  /\ sig'[j] # "arg"
                  /\ sig'[j] = "value" => Len(sig') = 1
  <2>1. /\ s \in Seq({"num", "ref", "arg", "value"}) /\ Len(s) \in 0 .. 2
        /\ \A j \in DOMAIN s : s[j] # "arg" /\ (s[j] = "value" => Len(s) = 1)
    <3>1. s \in Seq({"num", "ref", "arg", "value"}) /\ Len(s) \in 0 .. 2
      <4> DEFINE T == {"num", "ref", "arg", "value"}
      <4>1. /\ <<>> \in Seq(T) /\ Len(<<>>) \in 0 .. 2
            /\ \A x \in T : <<x>> \in Seq(T) /\ Len(<<x>>) \in 0 .. 2
            /\ \A x, y \in T : <<x, y>> \in Seq(T) /\ Len(<<x, y>>) \in 0 .. 2
        <5> HIDE DEF T
        <5> QED
          OBVIOUS
      <4>2. "num" \in T /\ "ref" \in T /\ "value" \in T
        OBVIOUS
      <4>3. \/ s = <<>> \/ \E x \in T : s = <<x>> \/ \E y \in T : s = <<x, y>>
        <5> HIDE DEF T
        <5> QED
          BY <1>2, <4>2 DEF Sigs
      <4> HIDE DEF T
      <4>4. s \in Seq(T) /\ Len(s) \in 0 .. 2
        BY <4>1, <4>3
      <4> QED
        BY <4>4 DEF T
    <3>2. \A j \in DOMAIN s : s[j] # "arg" /\ (s[j] = "value" => s = <<"value">>)
      BY <1>2 DEF Sigs
    <3> QED
      BY <3>1, <3>2
  <2>2. DOMAIN s = 1 .. Len(s) /\ Len(s) \in Nat
    BY <2>1
  <2>3. ops' \in [1 .. Len(s) -> Choices]
    BY <1>2, <2>2 DEF OperandsOf
  <2>4. \A c \in Choices : /\ c \in [k : OperandKinds, i : Nat \ {0}]
                           /\ c.k \in {"const", "var", "pop", "eval"}
                           /\ c.k = "var" => c.i \in DOMAIN vars
    BY <1>1 DEF Choices, OperandKinds
  <2>5. ops' \in [1 .. Len(s) -> [k : OperandKinds, i : Nat \ {0}]]
    BY <2>3, <2>4
  <2>6. ops' \in Seq([k : OperandKinds, i : Nat \ {0}]) /\ Len(ops') = Len(s)
        /\ DOMAIN ops' = 1 .. Len(s)
    BY <2>2, <2>5, FunctionIsSequence
  <2> QED
    BY <1>2, <2>1, <2>2, <2>3, <2>4, <2>6
<1>3. ASSUME sig' = [i \in DOMAIN args |-> "arg"],
             ops' = [i \in DOMAIN args |-> [k |-> "arg", i |-> i]]
      PROVE  /\ sig' \in Seq({"num", "ref", "arg", "value"})
             /\ ops' \in Seq([k : OperandKinds, i : Nat \ {0}]) /\ Len(ops') = Len(sig')
             /\ \A j \in DOMAIN ops' :
                  ops'[j].k = "arg" /\ ops'[j].i \in DOMAIN args /\ sig'[j] = "arg"
  <2>1. sig' \in [1 .. Len(args) -> {"num", "ref", "arg", "value"}]
    BY <1>1, <1>3
  <2>2. ops' \in [1 .. Len(args) -> [k : OperandKinds, i : Nat \ {0}]]
    BY <1>1, <1>3 DEF OperandKinds
  <2> DEFINE SigTypes == {"num", "ref", "arg", "value"}
             OpTypes == [k : OperandKinds, i : Nat \ {0}]
  <2>c. Len(args) \in Nat
    BY <1>1
  <2>a. sig' \in [1 .. Len(args) -> SigTypes] /\ ops' \in [1 .. Len(args) -> OpTypes]
    BY <2>1, <2>2
  <2> HIDE DEF SigTypes, OpTypes
  <2>b. /\ sig' \in Seq(SigTypes) /\ Len(sig') = Len(args)
        /\ ops' \in Seq(OpTypes) /\ Len(ops') = Len(args)
    BY ONLY <2>c, <2>a, FunctionIsSequence
  <2>3. sig' \in Seq({"num", "ref", "arg", "value"}) /\ Len(sig') = Len(args)
    BY ONLY <2>b DEF SigTypes
  <2>4. ops' \in Seq([k : OperandKinds, i : Nat \ {0}]) /\ Len(ops') = Len(args)
    BY ONLY <2>b DEF OpTypes
  <2>5. ASSUME NEW j \in DOMAIN ops'
        PROVE  ops'[j].k = "arg" /\ ops'[j].i \in DOMAIN args /\ sig'[j] = "arg"
    <3>1. j \in DOMAIN args
      BY <1>3
    <3>2. ops'[j] = [k |-> "arg", i |-> j] /\ sig'[j] = "arg"
      BY <1>3, <3>1
    <3> QED
      BY <3>1, <3>2
  <2> QED
    BY ONLY <2>3, <2>4, <2>5
<1>4. CASE \E s \in Sigs : sig' = s /\ ops' \in OperandsOf(s)
  BY <1>2, <1>4
<1>5. CASE /\ sig' = [i \in DOMAIN args |-> "arg"]
           /\ ops' = [i \in DOMAIN args |-> [k |-> "arg", i |-> i]]
  BY <1>3, <1>5
<1> QED
  BY <1>4, <1>5 DEF BeginInstruction

LEMMA InstructionBegins ==
  ASSUME IInv, BeginInstruction
  PROVE  IInv'
<1>1. HeapInv(heap) /\ ValuesInv /\ InstructionInv /\ UndoInv /\ StepInv /\ pc = "idle"
  BY DEF IInv, BeginInstruction
<1>2. /\ heap' = heap /\ vars' = vars /\ args' = args /\ evs' = evs /\ tmp' = tmp
      /\ saved' = saved /\ tryArg' = tryArg /\ undo' = undo /\ forcing' = forcing
      /\ resumed' = resumed /\ rv' = rv /\ began' = <<vars, args, evs>>
  BY DEF BeginInstruction, frame, force, others
<1>3. got' = ConstantOperands(sig', ops') /\ pc' = After(ops', got', FALSE)
  BY DEF BeginInstruction
<1>4. undo = {} /\ ~resumed
  BY <1>1 DEF StepInv
<1>5. DOMAIN got' = {j \in DOMAIN ops' : ops'[j].k = "const"}
  BY <1>3, ConstantsGot
<1>6. ValuesInv'
  BY <1>1, <1>2 DEF ValuesInv, Part, Used
<1>7. InstructionInv'
  <2>1. ASSUME NEW j \in DOMAIN ops' PROVE OperandInv(j)'
    <3>1. ops'[j].k \in {"const", "var", "pop", "eval", "arg"}
      BY OperandsBegun
    <3>2. /\ ops'[j].k = "var" => ops'[j].i \in DOMAIN vars
          /\ ops'[j].k = "arg" => ops'[j].i \in DOMAIN args
          /\ ops'[j].k = "pop" => j \in {1, 2}
          /\ sig'[j] = "arg" => ops'[j].k = "arg"
          /\ sig'[j] = "value" => Len(sig') = 1
      BY OperandsBegun
    <3> QED
      BY <1>2, <1>5, <3>1, <3>2 DEF OperandInv
  <2>2. ASSUME NEW j \in DOMAIN got' PROVE GotInv(j)' /\ got'[j] \in Values
    <3>1. got'[j] = IF sig'[j] = "ref" THEN V("ref", Global) ELSE Num
      BY <1>3, ConstantsGot
    <3> QED
      BY <1>1, <1>2, <3>1, ConstantIs DEF GotInv
  <2>3. got' \in [DOMAIN got' -> Values]
    <3>1. got' = [j \in DOMAIN got' |-> got'[j]]
      BY <1>3 DEF ConstantOperands
    <3> QED
      BY <2>2, <3>1
  <2> QED
    BY <1>5, <2>1, <2>2, <2>3, OperandsBegun DEF InstructionInv
<1>8. UndoInv'
  BY <1>2, <1>4 DEF UndoInv
<1>9. StepInv'
  <2>1. DOMAIN got' \subseteq DOMAIN ops'
    BY <1>5
  <2>2. pc' \in {"operand", "pop", "pushed", "ready"}
    BY <1>3, <2>1, AfterIs
  <2>3. /\ pc' \in {"operand", "pushed"} => DOMAIN got' # DOMAIN ops'
        /\ pc' = "pop" => Operands(ops') \subseteq DOMAIN got'
        /\ pc' = "ready" => DOMAIN got' = DOMAIN ops'
    BY <1>3, <2>1, AfterIs
  <2>4. pc' = "pushed" => SetsElement'
    BY <1>3, <2>1, AfterIs DEF SetsElement
  <2> QED
    BY <1>1, <1>2, <1>4, <2>2, <2>3, <2>4 DEF StepInv
<1>10. FrameInv'
  <2>1. \A n \in FrameNames : Part(n)' = Began(n)' /\ Part(n)' \in Seq(Values)
    BY <1>1, <1>2, Lengths DEF FrameNames, Part, Began
  <2> QED
    BY <1>2, <1>4, <2>1 DEF FrameInv, SlotKept
<1>11. GotNotLazy'
  BY <1>5 DEF GotNotLazy
<1>12. ResumeInv'
  <2>1. pc' # "callee"
    BY <1>3, <1>5, AfterIs
  <2> QED
    BY <1>2, <1>4, <2>1 DEF ResumeInv
<1> QED
  BY <1>1, <1>2, <1>6, <1>7, <1>8, <1>9, <1>10, <1>11, <1>12 DEF IInv

----------------------------------------------------------------------------
(* The places of the frame.                                                *)
LEMMA SlotIs ==
  ASSUME NEW p, p[1] \in Names
  PROVE  Slot(p) = Part(p[1])[p[2]]
  BY DEF Slot, Part, Names, FrameNames

IsWith(w, name, s, changes) ==
  /\ DOMAIN w = DOMAIN s
  /\ \A i \in DOMAIN s :
       \/ (\A c \in changes : c[1] # <<name, i>>) /\ w[i] = s[i]
       \/ \E c \in changes : c[1] = <<name, i>> /\ w[i] = c[2]

LEMMA WithAt ==
  ASSUME NEW name, NEW s, NEW changes
  PROVE  IsWith(With(name, s, changes), name, s, changes)
<1>1. DOMAIN With(name, s, changes) = DOMAIN s
  BY DEF With
<1>2. ASSUME NEW i \in DOMAIN s, NEW c \in changes, c[1] = <<name, i>>
      PROVE  \E e \in changes : e[1] = <<name, i>> /\ With(name, s, changes)[i] = e[2]
  <2> DEFINE e == CHOOSE e \in changes : e[1] = <<name, i>>
  <2>1. e \in changes /\ e[1] = <<name, i>>
    BY <1>2
  <2>2. With(name, s, changes)[i] = e[2]
    BY <1>2 DEF With
  <2> QED
    BY <2>1, <2>2
<1>3. ASSUME NEW i \in DOMAIN s, \A c \in changes : c[1] # <<name, i>>
      PROVE  With(name, s, changes)[i] = s[i]
  BY <1>3 DEF With
<1> QED
  BY <1>1, <1>2, <1>3 DEF IsWith

(* A part of the frame after values were set.                              *)
LEMMA SlotsSet ==
  ASSUME NEW changes, SetSlots(changes), NEW n \in Names
  PROVE  /\ DOMAIN Part(n)' = DOMAIN Part(n)
         /\ \A i \in DOMAIN Part(n) :
              \/ (\A c \in changes : c[1] # <<n, i>>) /\ Part(n)'[i] = Part(n)[i]
              \/ \E c \in changes : c[1] = <<n, i>> /\ Part(n)'[i] = c[2]
<1>1. Part(n)' = With(n, Part(n), changes)
  BY DEF SetSlots, Part, Names, FrameNames
<1>2. IsWith(Part(n)', n, Part(n), changes)
  BY <1>1, WithAt
<1> QED
  BY <1>2 DEF IsWith

LEMMA NothingSet ==
  ASSUME ValuesInv, UNCHANGED <<vars, args, evs, tmp>>
  PROVE  SetSlots({})
<1>1. \A name : \A s \in Seq(Values) : With(name, s, {}) = s
  BY DEF With
<1> QED
  BY <1>1, Lengths DEF SetSlots

(* The values of the frame remain values, and there are as many.           *)
LEMMA ValuesStay ==
  ASSUME IInv, NEW changes, SetSlots(changes), Keeps(heap, heap'),
         \A c \in changes : Refers(heap', c[2]),
         saved' = saved, tryArg' = tryArg, Refers(heap', rv')
  PROVE  /\ ValuesInv'
         /\ Len(evs') = Len(evs) /\ DOMAIN vars' = DOMAIN vars /\ DOMAIN args' = DOMAIN args
         /\ args = <<>> => args' = <<>>
         /\ \A n \in Names : Part(n)' \in Seq(Values) /\ Len(Part(n)') = Len(Part(n))
<1>1. ValuesInv
  BY DEF IInv
<1>2. ASSUME NEW n \in Names
      PROVE  /\ AllRefer(heap', Part(n)') /\ Part(n)' \in Seq(Values)
             /\ Len(Part(n)') = Len(Part(n)) /\ DOMAIN Part(n)' = DOMAIN Part(n)
             /\ Len(Part(n)) \in Nat /\ Part(n) \in Seq(Values)
  <2> DEFINE s == Part(n)
             t == Part(n)'
  <2>1. AllRefer(heap, s)
    BY <1>1 DEF ValuesInv
  <2>2. s \in Seq(Values) /\ DOMAIN s = 1 .. Len(s) /\ Len(s) \in Nat
    BY <2>1 DEF AllRefer
  <2>3. /\ DOMAIN t = DOMAIN s
        /\ \A i \in DOMAIN s : t[i] = s[i] \/ \E c \in changes : t[i] = c[2]
    BY SlotsSet
  <2>4. \E f : t = [i \in DOMAIN s |-> f[i]]
    <3>1. t = With(n, s, changes)
      BY DEF SetSlots, Part, Names, FrameNames
    <3>2. t = [i \in DOMAIN s |-> With(n, s, changes)[i]]
      BY <3>1 DEF With
    <3> QED
      BY <3>2
  <2> HIDE DEF s, t
  <2>5. \A i \in DOMAIN s : Refers(heap', t[i])
    BY <2>1, <2>3, KeptValue DEF AllRefer
  <2>6. \A i \in DOMAIN s : t[i] \in Values
    BY <2>5 DEF Refers
  <2>7. t \in [1 .. Len(s) -> Values]
    BY <2>2, <2>4, <2>6
  <2>8. t \in Seq(Values) /\ Len(t) = Len(s)
    BY <2>2, <2>7, FunctionIsSequence
  <2>9. AllRefer(heap', t)
    BY <2>3, <2>5, <2>8 DEF AllRefer
  <2> QED
    BY <2>2, <2>3, <2>8, <2>9 DEF s, t
<1>3. /\ Len(vars') = Len(vars) /\ Len(args') = Len(args) /\ Len(evs') = Len(evs)
      /\ DOMAIN vars' = DOMAIN vars /\ DOMAIN args' = DOMAIN args /\ Len(tmp') = Len(tmp)
      /\ args' \in Seq(Values)
  BY <1>2 DEF Names, FrameNames, Part
<1>4. args = <<>> => args' = <<>>
  BY <1>3
<1>5. Used(args)' <= MaxSlots
  BY <1>1, <1>3 DEF ValuesInv, Used
<1>6. Refers(heap', saved') /\ Refers(heap', tryArg')
  BY <1>1, KeptValue DEF ValuesInv
<1>7. ValuesInv'
  BY <1>1, <1>2, <1>3, <1>5, <1>6 DEF ValuesInv
<1> QED
  BY <1>2, <1>3, <1>4, <1>7

(* The operands whose values are in the frame.                             *)
FrameOperands == {"var", "arg", "pushed", "pop", "eval"}

(* No value of the frame becomes lazy.                                     *)
Settles ==
  \A n \in FrameNames :
    /\ DOMAIN Part(n)' = DOMAIN Part(n)
    /\ \A i \in DOMAIN Part(n) : IsLazy(Part(n)'[i]) => IsLazy(Part(n)[i])

(* The lazy values of the frame are not changed.                           *)
LazyStay ==
  \A n \in FrameNames : \A i \in DOMAIN Part(n) :
    IsLazy(Part(n)[i]) => Part(n)'[i] = Part(n)[i]

LEMMA PlaceOf ==
  ASSUME NEW j, ops[j].k \in FrameOperands
  PROVE  ValuePlace(ops, j)[1] \in FrameNames /\ ValuePlace(ops, j)[1] \in Names
  BY DEF FrameOperands, ValuePlace, FrameNames, Names

LEMMA PlacesStay ==
  ASSUME ops' = ops, Len(evs') = Len(evs)
  PROVE  \A j : ValuePlace(ops, j)' = ValuePlace(ops, j)
  BY DEF ValuePlace

LEMMA OperandsOfFrame ==
  ASSUME IInv, NEW j \in DOMAIN ops
  PROVE  ops[j].k \in FrameOperands \union {"const", "saved"}
<1>1. ops \in Seq([k : OperandKinds, i : Nat \ {0}])
  BY DEF IInv, InstructionInv
<1> DEFINE T == [k : OperandKinds, i : Nat \ {0}]
<1>2. ops[j] \in T
  <2>1. ops \in Seq(T)
    BY ONLY <1>1, Zenon
  <2> HIDE DEF T
  <2> QED
    BY ONLY <2>1, j \in DOMAIN ops, ElementOfSeq, LenProperties, Zenon
<1>3. ops[j].k \in OperandKinds
  BY ONLY <1>2, Zenon
<1> QED
  BY ONLY <1>3 DEF OperandKinds, FrameOperands

(* A value of the frame before and after a step.                           *)
SlotOf(j, n, i) ==
  /\ n \in FrameNames
  /\ ValuePlace(ops, j) = <<n, i>> /\ ValuePlace(ops, j)' = <<n, i>>
  /\ Slot(ValuePlace(ops, j)) = Part(n)[i] /\ Slot(ValuePlace(ops, j))' = Part(n)'[i]
  /\ Part(ValuePlace(ops, j)[1]) = Part(n) /\ Part(ValuePlace(ops, j)[1])' = Part(n)'

LEMMA SlotAfter ==
  ASSUME ops' = ops, Len(evs') = Len(evs), NEW j, ops[j].k \in FrameOperands
  PROVE  \E n, i : SlotOf(j, n, i)
<1>1. ValuePlace(ops, j)' = ValuePlace(ops, j)
  BY DEF ValuePlace
<1>2. \E n, i : n \in FrameNames /\ ValuePlace(ops, j) = <<n, i>>
  BY DEF FrameOperands, FrameNames, ValuePlace
<1>3. PICK n, i : n \in FrameNames /\ ValuePlace(ops, j) = <<n, i>>
  BY <1>2
<1>4. /\ Slot(<<n, i>>) = Part(n)[i] /\ Slot(<<n, i>>)' = Part(n)'[i]
      /\ Part(<<n, i>>[1]) = Part(n) /\ Part(<<n, i>>[1])' = Part(n)'
  BY <1>3 DEF FrameNames, Slot, Part
<1> QED
  BY ONLY <1>1, <1>3, <1>4 DEF SlotOf

LEMMA StaysNotLazy ==
  ASSUME ops' = ops, Len(evs') = Len(evs), Settles, NEW j, ops[j].k \in FrameOperands, NotLazy(j)
  PROVE  NotLazy(j)'
<1>1. PICK n, i : SlotOf(j, n, i)
  BY SlotAfter
<1>2. i \in DOMAIN Part(n) /\ ~IsLazy(Part(n)[i])
  BY <1>1 DEF NotLazy, SlotOf
<1>3. i \in DOMAIN Part(n)' /\ ~IsLazy(Part(n)'[i])
  BY <1>1, <1>2 DEF Settles, SlotOf
<1> QED
  BY <1>1, <1>3 DEF NotLazy, IsLazy, SlotOf

LEMMA StaysBrokenOff ==
  ASSUME IInv, ~SavedOp, ops' = ops, Len(evs') = Len(evs), Settles, LazyStay, forcing' = forcing,
         NEW j \in DOMAIN ops, BrokenOffAt(j)
  PROVE  BrokenOffAt(j)'
<1>1. ops[j].k \in FrameOperands
  BY OperandsOfFrame DEF SavedOp, BrokenOffAt
<1>2. PICK n, i : SlotOf(j, n, i)
  BY <1>1, SlotAfter
<1>3. /\ ops[j].k # "const" /\ i \in DOMAIN Part(n) /\ IsLazy(Part(n)[i])
      /\ ops[j].k # "pop" => Part(n)[i].r = forcing
      /\ \A l \in DOMAIN ops : l < j /\ ops[l].k # "const" => NotLazy(l)
  BY <1>2 DEF BrokenOffAt, SlotOf
<1>4. i \in DOMAIN Part(n)' /\ Part(n)'[i] = Part(n)[i]
  BY <1>2, <1>3 DEF Settles, LazyStay, SlotOf
<1>5. ASSUME NEW l \in DOMAIN ops, l < j, ops[l].k # "const" PROVE NotLazy(l)'
  BY <1>3, <1>5, OperandsOfFrame, StaysNotLazy DEF SavedOp
<1> QED
  BY <1>2, <1>3, <1>4, <1>5 DEF BrokenOffAt, IsLazy, SlotOf

(* The first operand that has not been got.                                *)
LEMMA HereIs ==
  ASSUME IInv, DOMAIN got # DOMAIN ops
  PROVE  /\ Here \in DOMAIN ops /\ Here \notin DOMAIN got /\ Here \in Nat
         /\ \A j \in DOMAIN ops : j \notin DOMAIN got => Here <= j
         /\ ops[Here].k # "const"
         /\ sig[Here] \in {"num", "ref", "arg", "value"} /\ OperandInv(Here)
<1> DEFINE S == DOMAIN ops \ DOMAIN got
<1>1. /\ InstructionInv /\ ops \in Seq([k : OperandKinds, i : Nat \ {0}])
      /\ sig \in Seq({"num", "ref", "arg", "value"}) /\ Len(ops) = Len(sig)
  BY DEF IInv, InstructionInv
<1>2. S \in SUBSET Nat /\ S # {}
  BY <1>1 DEF InstructionInv
<1>3. \E n \in S : \A m \in S : n <= m
  <2> HIDE DEF S
  <2> QED
    BY <1>2, LeastNumber
<1>4. Here \in S /\ \A m \in S : Here <= m
  BY <1>3 DEF Here
<1> HIDE DEF Here
<1>5. sig[Here] \in {"num", "ref", "arg", "value"}
  BY <1>1, <1>4
<1>6. OperandInv(Here)
  BY <1>1, <1>4 DEF InstructionInv
<1> QED
  BY <1>2, <1>4, <1>5, <1>6 DEF OperandInv

(* Where the value of the next operand is, and what it is.                 *)
HereAt(n, i) ==
  /\ n \in Names /\ i \in DOMAIN Part(n) /\ i \in Nat \ {0} /\ Place(Here) = <<n, i>>
  /\ \/ /\ n \in FrameNames /\ ops[Here].k \in {"var", "arg", "pushed", "eval"}
        /\ ValuePlace(ops, Here) = <<n, i>> /\ Read = Part(n)[i] /\ Loaded = {}
     \/ /\ n = "tmp" /\ ops[Here].k = "pop" /\ Loaded = {<<<<n, i>>, Read>>}
        /\ \E l \in DOMAIN evs : ValuePlace(ops, Here) = <<"evs", l>> /\ Read = evs[l]
     \/ /\ n = "tmp" /\ ops[Here].k = "saved" /\ Loaded = {<<<<n, i>>, Read>>}
        /\ Read = saved /\ SavedOp

(* The two operands an instruction can pop are two.                        *)
LEMMA CardinalityOfTwo ==
  IsFiniteSet({1, 2}) /\ Cardinality({1, 2}) = 2
<1>1. IsFiniteSet({1}) /\ Cardinality({1}) = 1
  BY FS_Singleton
<1>2. IsFiniteSet({1} \union {2})
      /\ Cardinality({1} \union {2}) =
           IF 2 \in {1} THEN Cardinality({1}) ELSE Cardinality({1}) + 1
  BY ONLY <1>1, FS_AddElement
<1>3. {1, 2} = {1} \union {2} /\ 2 \notin {1}
  OBVIOUS
<1> QED
  BY ONLY <1>1, <1>2, <1>3

LEMMA PopPlace ==
  ASSUME IInv, NEW j \in DOMAIN ops
  PROVE  PopsBefore(ops, j) \in {0, 1, 2} /\ (ops[j].k = "pop" => PopsBefore(ops, j) \in {0, 1})
<1> DEFINE S == {i \in Pops(ops) : i < j}
<1>1. Pops(ops) \subseteq {1, 2} /\ (ops[j].k = "pop" => j \in {1, 2})
  BY DEF IInv, InstructionInv, OperandInv, Pops
<1>2. S \in {{}, {1}, {2}, {1, 2}} /\ (ops[j].k = "pop" => S \in {{}, {1}})
  <2>1. S \subseteq {1, 2} /\ (ops[j].k = "pop" => 2 \notin S)
    BY <1>1
  <2> HIDE DEF S
  <2> QED
    BY <2>1
<1>3. Cardinality({}) = 0 /\ Cardinality({1}) = 1 /\ Cardinality({2}) = 1
  BY FS_EmptySet, FS_Singleton
<1>4. PopsBefore(ops, j) = Cardinality(S)
  BY DEF PopsBefore
<1> HIDE DEF S
<1> QED
  BY <1>2, <1>3, CardinalityOfTwo, <1>4

LEMMA HerePlace ==
  ASSUME IInv, DOMAIN got # DOMAIN ops, ~Missing
  PROVE  Refers(heap, Read) /\ \E n, i : HereAt(n, i)
<1>1. ValuesInv /\ InstructionInv
  BY DEF IInv
<1>2. Here \in DOMAIN ops /\ ops[Here].k # "const" /\ OperandInv(Here)
  BY HereIs
<1>3. PICK j : j = Here
  OBVIOUS
<1>4. /\ vars \in Seq(Values) /\ args \in Seq(Values) /\ evs \in Seq(Values)
      /\ tmp \in Seq(Values) /\ Len(tmp) = 2
      /\ AllRefer(heap, vars) /\ AllRefer(heap, args) /\ AllRefer(heap, evs)
  BY <1>1, Lengths DEF ValuesInv
<1>5. DOMAIN tmp = {1, 2}
  BY <1>4
<1>6. /\ DOMAIN vars \subseteq Nat \ {0} /\ DOMAIN args \subseteq Nat \ {0}
      /\ DOMAIN evs \subseteq Nat \ {0}
  BY <1>4
<1>7. CASE ops[j].k \in {"var", "arg", "pushed"}
  <2>1. PICK n, i : /\ n \in {"vars", "args"} /\ i = ops[j].i
                    /\ n = IF ops[j].k = "var" THEN "vars" ELSE "args"
    OBVIOUS
  <2>2. i \in DOMAIN Part(n) /\ i \in Nat \ {0}
    BY <1>2, <1>3, <1>6, <1>7, <2>1 DEF OperandInv, Part
  <2>3. Place(Here) = <<n, i>> /\ ValuePlace(ops, Here) = <<n, i>>
    BY <1>3, <1>7, <2>1 DEF Place, ValuePlace
  <2>4. Read = Part(n)[i] /\ Loaded = {}
    BY <1>3, <1>7, <2>1, <2>3 DEF Read, Loaded, Slot, Part
  <2>5. HereAt(n, i)
    BY <1>3, <1>7, <2>1, <2>2, <2>3, <2>4 DEF HereAt, Names, FrameNames
  <2>6. Refers(heap, Read)
    BY <1>4, <2>1, <2>2, <2>4 DEF Part, AllRefer
  <2> QED
    BY <2>5, <2>6
<1>8. CASE ops[j].k \in {"pop", "eval"}
  <2>1. PICK l : l = ValuePlace(ops, j)[2]
    OBVIOUS
  <2>2. l \in DOMAIN evs /\ l \in Nat \ {0}
    BY <1>3, <1>6, <1>8, <2>1 DEF Missing
  <2>3. ValuePlace(ops, Here) = <<"evs", l>>
    BY <1>3, <1>8, <2>1 DEF ValuePlace
  <2>4. Read = evs[l]
    BY <1>3, <1>8, <2>3 DEF Read, Slot
  <2>5. Refers(heap, Read)
    BY <1>4, <2>2, <2>4 DEF AllRefer
  <2>6. CASE ops[j].k = "eval"
    <3>1. Place(Here) = <<"evs", l>> /\ Loaded = {}
      BY <1>3, <2>3, <2>6 DEF Place, Loaded
    <3>2. HereAt("evs", l)
      BY <1>3, <2>2, <2>3, <2>4, <2>6, <3>1 DEF HereAt, Names, FrameNames, Part
    <3> QED
      BY <2>5, <3>2
  <2>7. CASE ops[j].k = "pop"
    <3>1. PICK i : i = PopsBefore(ops, j) + 1
      OBVIOUS
    <3>2. i \in {1, 2}
      BY <1>2, <1>3, <2>7, <3>1, PopPlace
    <3>3. Place(Here) = <<"tmp", i>>
      BY <1>3, <2>7, <3>1 DEF Place
    <3>4. Loaded = {<<<<"tmp", i>>, Read>>}
      BY <3>3 DEF Loaded
    <3>5. HereAt("tmp", i)
      BY <1>3, <1>5, <2>2, <2>3, <2>4, <2>7, <3>2, <3>3, <3>4 DEF HereAt, Names, Part
    <3> QED
      BY <2>5, <3>5
  <2> QED
    BY <1>8, <2>6, <2>7
<1>9. CASE ops[j].k = "saved"
  <2>1. Place(Here) = <<"tmp", 1>> /\ Read = saved
    BY <1>3, <1>9 DEF Place, Read
  <2>2. Loaded = {<<<<"tmp", 1>>, Read>>}
    BY <2>1 DEF Loaded
  <2>3. HereAt("tmp", 1)
    BY <1>2, <1>3, <1>5, <1>9, <2>1, <2>2 DEF HereAt, Names, Part, SavedOp
  <2>4. Refers(heap, Read)
    BY <1>1, <2>1 DEF ValuesInv
  <2> QED
    BY <2>3, <2>4
<1>10. ops[j].k \in {"var", "arg", "pushed", "pop", "eval", "saved"}
  BY <1>2, <1>3, OperandsOfFrame DEF FrameOperands
<1> QED
  BY <1>7, <1>8, <1>9, <1>10

(* An operand has been got, and the instruction goes on.                   *)
LEMMA InFrameBefore ==
  ASSUME IInv, ops' = ops, undo \subseteq undo', pc \in {"operand", "pushed", "force"}, InFrame'
  PROVE  InFrame
  BY DEF InFrame, SavedOp, SetsElement, IInv, StepInv

LEMMA InstructionGoesOn ==
  ASSUME IInv, DOMAIN got # DOMAIN ops, NEW v, Take(v), Keeps(heap, heap'),
         sig' = sig, ops' = ops,
         DOMAIN vars' = DOMAIN vars, DOMAIN args' = DOMAIN args, args = <<>> => args' = <<>>,
         Refers(heap', v), sig[Here] \in {"num", "ref"} => v.t = sig[Here]
  PROVE  InstructionInv' /\ DOMAIN got' \subseteq DOMAIN ops
<1>1. InstructionInv
  BY DEF IInv
<1>2. Here \in DOMAIN ops
  BY HereIs
<1>3. got' = [j \in DOMAIN got \union {Here} |-> IF j = Here THEN v ELSE got[j]]
  BY DEF Take
<1>4. PICK l : l = Here
  OBVIOUS
<1>5. /\ DOMAIN got' = DOMAIN got \union {l}
      /\ \A j \in DOMAIN got' : got'[j] = IF j = l THEN v ELSE got[j]
  BY <1>3, <1>4
<1>6. ASSUME NEW j \in DOMAIN got'
      PROVE  Refers(heap', got'[j]) /\ (sig[j] \in {"num", "ref"} => got'[j].t = sig[j])
  <2>1. CASE j = l
    BY <1>4, <1>5, <2>1
  <2>2. CASE j # l
    <3>1. GotInv(j) /\ got'[j] = got[j]
      BY <1>1, <1>5, <2>2 DEF InstructionInv
    <3> QED
      BY <3>1, KeptValue DEF GotInv
  <2> QED
    BY <2>1, <2>2
<1>7. \A j \in DOMAIN got' : GotInv(j)'
  BY <1>6 DEF GotInv
<1>8. got' \in [DOMAIN got' -> Values]
  <2>1. \A j \in DOMAIN got' : got'[j] \in Values
    BY <1>6 DEF Refers
  <2>2. got' = [j \in DOMAIN got' |-> got'[j]]
    BY <1>3
  <2> QED
    BY <2>1, <2>2
<1>9. DOMAIN got' \subseteq DOMAIN ops
  BY <1>1, <1>2, <1>4, <1>5 DEF InstructionInv
<1>10. ASSUME NEW j \in DOMAIN ops PROVE OperandInv(j)'
  <2>1. OperandInv(j)
    BY <1>1 DEF InstructionInv
  <2> QED
    BY <1>5, <2>1 DEF OperandInv
<1> QED
  BY <1>1, <1>7, <1>8, <1>9, <1>10 DEF InstructionInv

LEMMA OperandGot ==
  ASSUME IInv, pc \in {"operand", "pushed", "force"}, ~Missing,
         NEW v, Take(v), NEW changes, SetSlots(changes),
         HeapInv(heap'), Keeps(heap, heap'), \A c \in changes : Refers(heap', c[2]),
         Refers(heap', v), sig[Here] \in {"num", "ref"} => v.t = sig[Here],
         saved' = saved, sig' = sig, ops' = ops, tryArg' = tryArg, rv' = rv, resumed' = resumed,
         forcing' = forcing \/ (~resumed /\ forcing' = None),
         undo \subseteq undo', UndoInv', FrameInv', Settles,
         \A j : j = Here /\ ops[j].k \in FrameOperands /\ sig # <<"value">> => NotLazy(j)',
         resumed => LazyStay /\ (IsLazy(Read) => sig = <<"value">>)
  PROVE  IInv'
<1>1. HeapInv(heap) /\ ValuesInv /\ InstructionInv /\ StepInv /\ DOMAIN got # DOMAIN ops
  BY DEF IInv, StepInv
<1>2. Refers(heap', rv')
  BY <1>1, KeptValue DEF ValuesInv
<1>3. /\ ValuesInv'
      /\ Len(evs') = Len(evs) /\ DOMAIN vars' = DOMAIN vars /\ DOMAIN args' = DOMAIN args
      /\ args = <<>> => args' = <<>>
  BY <1>2, ValuesStay
<1>4. InstructionInv' /\ DOMAIN got' \subseteq DOMAIN ops
  BY <1>1, <1>3, InstructionGoesOn
<1>5. PICK popped : pc' = After(ops, got', popped)
  BY DEF Take
<1>6. pc' \in {"operand", "pop", "pushed", "ready"} /\ pc' # "callee" /\ pc' # "force"
  BY <1>4, <1>5, AfterIs
<1>7. StepInv'
  <2>1. /\ pc' \in {"operand", "pushed"} => DOMAIN got' # DOMAIN ops
        /\ pc' = "pop" => Operands(ops) \subseteq DOMAIN got'
        /\ pc' = "ready" => DOMAIN got' = DOMAIN ops
    BY <1>4, <1>5, AfterIs
  <2>2. pc' = "pushed" => SetsElement'
    BY <1>4, <1>5, AfterIs DEF SetsElement
  <2>3. resumed => /\ forcing' \in Objs /\ heap'[forcing'].kind = "lazy" /\ sig # <<"value">>
                   /\ OfType(heap', rv', heap'[forcing'].vt)
    <3> HAVE resumed
    <3>1. /\ forcing \in Objs /\ heap[forcing].kind = "lazy" /\ sig # <<"value">>
          /\ OfType(heap, rv, heap[forcing].vt) /\ forcing' = forcing /\ Refers(heap, rv)
      BY <1>1 DEF StepInv, ValuesInv
    <3>2. heap'[forcing].kind = "lazy" /\ heap'[forcing].vt = heap[forcing].vt
      BY <3>1 DEF Keeps, Everything
    <3> QED
      BY <3>1, <3>2, KeptValue
  <2>4. forcing' \in Objs \union {None}
    BY <1>1 DEF StepInv
  <2> QED
    BY <1>6, <2>1, <2>2, <2>3, <2>4 DEF StepInv
<1>8. PICK l : l = Here
  OBVIOUS
<1>9. /\ DOMAIN got' = DOMAIN got \union {l} /\ l \in DOMAIN ops /\ l \notin DOMAIN got
      /\ \A j \in DOMAIN ops : j \notin DOMAIN got => l <= j
      /\ ops[l].k # "const"
  BY <1>1, <1>8, HereIs DEF Take
<1>10. GotNotLazy'
  <2> SUFFICES ASSUME InFrame', ~SavedOp', sig' # <<"value">>,
                      NEW j \in DOMAIN got', ops'[j].k # "const"
               PROVE  NotLazy(j)'
    BY DEF GotNotLazy
  <2>1. InFrame /\ ~SavedOp
    BY InFrameBefore DEF SavedOp
  <2>2. ops[j].k \in FrameOperands
    BY <1>4, <2>1, OperandsOfFrame DEF SavedOp
  <2>3. CASE j = l
    BY <1>8, <2>2, <2>3
  <2>4. CASE j # l
    <3>1. NotLazy(j)
      BY <1>9, <2>1, <2>4 DEF IInv, GotNotLazy
    <3> QED
      BY <1>3, <2>2, <3>1, StaysNotLazy
  <2> QED
    BY <2>3, <2>4
<1>11. ResumeInv'
  <2> SUFFICES ASSUME InFrame', ~SavedOp', resumed'
               PROVE  \E j \in DOMAIN ops' : BrokenOffAt(j)' /\ j \notin DOMAIN got'
    BY <1>6 DEF ResumeInv
  <2>1. InFrame /\ ~SavedOp /\ resumed
    BY InFrameBefore DEF SavedOp
  <2>2. pc # "callee"
    OBVIOUS
  <2>3. PICK j \in DOMAIN ops : BrokenOffAt(j) /\ j \notin DOMAIN got
    BY <2>1, <2>2 DEF IInv, ResumeInv
  <2>4. LazyStay /\ forcing' = forcing /\ ~IsLazy(Read)
    BY <1>1, <2>1 DEF StepInv
  <2>5. BrokenOffAt(j)'
    BY <1>3, <2>1, <2>3, <2>4, StaysBrokenOff
  <2>6. j # l
    <3> SUFFICES ASSUME j = l PROVE FALSE
      OBVIOUS
    <3>1. ops[j].k \in FrameOperands
      BY <2>1, <2>3, OperandsOfFrame DEF SavedOp, BrokenOffAt
    <3>2. ops[Here].k # "saved"
      BY <1>8, <3>1 DEF FrameOperands
    <3>3. Read = Slot(ValuePlace(ops, j))
      BY <1>8, <3>2 DEF Read
    <3> QED
      BY <2>3, <2>4, <3>3 DEF BrokenOffAt
  <2> QED
    BY <1>9, <2>3, <2>5, <2>6
<1> QED
  BY <1>3, <1>4, <1>7, <1>10, <1>11 DEF IInv

(* What is kept while operands are got.                                    *)
LEMMA SettlesWith ==
  ASSUME NEW changes, SetSlots(changes),
         \A n \in FrameNames : \A i : \A c \in changes :
           c[1] = <<n, i>> /\ IsLazy(c[2]) => IsLazy(Part(n)[i])
  PROVE  Settles
<1> SUFFICES ASSUME NEW n \in FrameNames
             PROVE  /\ DOMAIN Part(n)' = DOMAIN Part(n)
                    /\ \A i \in DOMAIN Part(n) : IsLazy(Part(n)'[i]) => IsLazy(Part(n)[i])
  BY DEF Settles
<1>1. n \in Names
  BY DEF Names
<1>2. /\ DOMAIN Part(n)' = DOMAIN Part(n)
      /\ \A i \in DOMAIN Part(n) :
           \/ (\A c \in changes : c[1] # <<n, i>>) /\ Part(n)'[i] = Part(n)[i]
           \/ \E c \in changes : c[1] = <<n, i>> /\ Part(n)'[i] = c[2]
  BY <1>1, SlotsSet
<1> QED
  BY <1>2

LEMMA LazyStayWith ==
  ASSUME NEW changes, SetSlots(changes),
         \A n \in FrameNames : \A i \in DOMAIN Part(n) : \A c \in changes :
           c[1] = <<n, i>> => ~IsLazy(Part(n)[i])
  PROVE  LazyStay
<1> SUFFICES ASSUME NEW n \in FrameNames, NEW i \in DOMAIN Part(n), IsLazy(Part(n)[i])
             PROVE  Part(n)'[i] = Part(n)[i]
  BY DEF LazyStay
<1>1. n \in Names
  BY DEF Names
<1>2. \/ (\A c \in changes : c[1] # <<n, i>>) /\ Part(n)'[i] = Part(n)[i]
      \/ \E c \in changes : c[1] = <<n, i>> /\ Part(n)'[i] = c[2]
  BY <1>1, SlotsSet
<1> QED
  BY <1>2

LEMMA HereNotLazy ==
  ASSUME ops' = ops, Len(evs') = Len(evs), Settles, NEW n, NEW i, HereAt(n, i),
         n \in FrameNames => ~IsLazy(Part(n)'[i]),
         \A l \in DOMAIN evs :
           ops[Here].k = "pop" /\ ValuePlace(ops, Here) = <<"evs", l>> => ~IsLazy(evs'[l])
  PROVE  \A j : j = Here /\ ops[j].k \in FrameOperands => NotLazy(j)'
<1> SUFFICES ASSUME NEW j, j = Here, ops[j].k \in FrameOperands PROVE NotLazy(j)'
  OBVIOUS
<1>1. PICK m, l : SlotOf(j, m, l)
  BY SlotAfter
<1>2. l \in DOMAIN Part(m) /\ ~IsLazy(Part(m)'[l])
  <2>1. CASE n \in FrameNames
    <3>1. <<m, l>> = <<n, i>>
      BY <1>1, <2>1 DEF HereAt, FrameNames, SlotOf
    <3>2. m = n /\ l = i
      BY <3>1
    <3> QED
      BY <2>1, <3>2 DEF HereAt
  <2>2. CASE n \notin FrameNames
    <3>1. PICK k \in DOMAIN evs : ops[Here].k = "pop" /\ ValuePlace(ops, Here) = <<"evs", k>>
      BY <2>2 DEF HereAt, FrameOperands
    <3>2. <<m, l>> = <<"evs", k>>
      BY <1>1, <3>1 DEF SlotOf
    <3>3. m = "evs" /\ l = k
      BY <3>2
    <3> QED
      BY <3>1, <3>3 DEF Part
  <2> QED
    BY <2>1, <2>2
<1>3. l \in DOMAIN Part(m)' /\ ~IsLazy(Part(m)'[l])
  BY <1>1, <1>2 DEF Settles, SlotOf
<1> QED
  BY <1>1, <1>3 DEF NotLazy, IsLazy, SlotOf

LEMMA TakenIs ==
  ASSUME IInv, DOMAIN got # DOMAIN ops, NEW v, Take(v)
  PROVE  /\ \A j \in DOMAIN got : j \in DOMAIN got' /\ got'[j] = got[j]
         /\ \E j \in DOMAIN got' : got'[j] = v
         /\ pc' \in {"operand", "pop", "pushed", "ready"}
<1>1. /\ Here \notin DOMAIN got /\ Here \in DOMAIN ops
  BY HereIs
<1>2. got' = [j \in DOMAIN got \union {Here} |-> IF j = Here THEN v ELSE got[j]]
  BY DEF Take
<1>3. \A j \in DOMAIN got : j # Here
  BY <1>1
<1>4. \A j \in DOMAIN got : j \in DOMAIN got' /\ got'[j] = got[j]
  BY <1>2, <1>3
<1>5. \E j \in DOMAIN got' : got'[j] = v
  BY <1>2
<1>6. DOMAIN got' \subseteq DOMAIN ops
  BY <1>1, <1>2 DEF IInv, InstructionInv
<1>7. pc' \in {"operand", "pop", "pushed", "ready"}
  BY <1>6, AfterIs DEF Take
<1> QED
  BY <1>4, <1>5, <1>7

LEMMA UndoGoesOn ==
  ASSUME IInv, undo' = undo, ops' = ops, saved' = saved, Keeps(heap, heap'),
         \A j \in DOMAIN got : j \in DOMAIN got' /\ got'[j] = got[j]
  PROVE  UndoInv'
<1>1. UndoInv /\ InstructionInv
  BY DEF IInv
<1>2. \A e \in undo : e[2].t = "ref" /\ Refers(heap', e[2])
  BY <1>1, KeptValue DEF UndoInv
<1>3. ASSUME NEW j \in DOMAIN got, got[j].t = "ref", heap[got[j].r].unique
      PROVE  heap'[got[j].r].unique
  <2>1. Refers(heap, got[j])
    BY <1>1 DEF InstructionInv, GotInv
  <2>2. got[j].r \in Everything /\ heap[got[j].r].kind # "free"
    BY <1>3, <2>1, ValueFields DEF Refers, Kinds
  <2> QED
    BY <1>3, <2>2 DEF Keeps
<1> QED
  BY <1>1, <1>2, <1>3 DEF UndoInv, SavedOp

LEMMA FrameGoesOn ==
  ASSUME IInv, InFrame' => InFrame, began' = began, undo' = undo,
         NEW changes, SetSlots(changes),
         \A n \in Names : Part(n)' \in Seq(Values) /\ Len(Part(n)') = Len(Part(n)),
         \A n \in FrameNames : \A i : \A c \in changes : c[1] = <<n, i>> => IsLazy(Part(n)[i])
  PROVE  FrameInv'
<1> SUFFICES ASSUME InFrame', NEW n \in FrameNames
             PROVE  /\ Began(n)' \in Seq(Values) /\ Len(Part(n)') = Len(Began(n)')
                    /\ \A i \in DOMAIN Part(n)' : SlotKept(n, i)'
  BY DEF FrameInv
<1>1. n \in Names /\ Began(n)' = Began(n)
  BY DEF Names, Began
<1>2. /\ Began(n) \in Seq(Values) /\ Len(Part(n)) = Len(Began(n))
      /\ \A i \in DOMAIN Part(n) : SlotKept(n, i)
  BY DEF IInv, FrameInv
<1>3. ASSUME NEW i \in DOMAIN Part(n)' PROVE SlotKept(n, i)'
  <2>1. /\ i \in DOMAIN Part(n)
        /\ \/ (\A c \in changes : c[1] # <<n, i>>) /\ Part(n)'[i] = Part(n)[i]
           \/ \E c \in changes : c[1] = <<n, i>> /\ Part(n)'[i] = c[2]
    BY <1>1, SlotsSet
  <2>2. SlotKept(n, i)
    BY <1>2, <2>1
  <2>3. CASE Part(n)'[i] = Part(n)[i]
    BY <1>1, <2>2, <2>3 DEF SlotKept
  <2>4. CASE IsLazy(Part(n)[i])
    <3>1. Part(n)[i] # Canceled
      BY <2>4 DEF IsLazy, Canceled, V
    <3>2. \A e \in undo : e[1] # <<n, i>>
      BY <2>2, <3>1 DEF SlotKept
    <3>3. IsLazy(Began(n)[i])
      BY <2>2, <2>4, <3>2 DEF SlotKept
    <3> QED
      BY <1>1, <3>2, <3>3 DEF SlotKept, IsLazy
  <2> QED
    BY <2>1, <2>3, <2>4
<1> QED
  BY <1>1, <1>2, <1>3

LEMMA GotInPlace ==
  ASSUME IInv, pc \in {"operand", "pushed", "force"}, ~Missing,
         NEW v, Take(v), NEW changes, SetSlots(changes),
         HeapInv(heap'), Keeps(heap, heap'), \A c \in changes : Refers(heap', c[2]),
         Refers(heap', v), sig[Here] \in {"num", "ref"} => v.t = sig[Here],
         saved' = saved, UNCHANGED <<sig, ops, began>>, tryArg' = tryArg, rv' = rv,
         resumed' = resumed, forcing' = forcing \/ (~resumed /\ forcing' = None), undo' = undo,
         \A n \in FrameNames : \A i : \A c \in changes : c[1] = <<n, i>> => IsLazy(Part(n)[i]),
         \A j : j = Here /\ ops[j].k \in FrameOperands /\ sig # <<"value">> => NotLazy(j)',
         resumed => /\ \A n \in FrameNames : \A i : \A c \in changes : c[1] # <<n, i>>
                    /\ IsLazy(Read) => sig = <<"value">>
  PROVE  IInv'
<1>1. DOMAIN got # DOMAIN ops /\ Refers(heap, rv)
  BY DEF IInv, StepInv, ValuesInv
<1>2. Refers(heap', rv')
  BY <1>1, KeptValue
<1>3. \A n \in Names : Part(n)' \in Seq(Values) /\ Len(Part(n)') = Len(Part(n))
  BY <1>2, ValuesStay
<1>4. \A j \in DOMAIN got : j \in DOMAIN got' /\ got'[j] = got[j]
  BY <1>1, TakenIs
<1>5. UndoInv'
  BY <1>4, UndoGoesOn
<1>6. InFrame' => InFrame
  BY InFrameBefore
<1>7. FrameInv'
  BY <1>3, <1>6, FrameGoesOn
<1>8. Settles
  BY SettlesWith
<1>9. resumed => LazyStay
  BY LazyStayWith
<1> QED
  BY <1>5, <1>7, <1>8, <1>9, OperandGot

(* A value that is not lazy is got as it was read.                         *)
LEMMA GotAsRead ==
  ASSUME IInv, pc \in {"operand", "pushed"}, ~Missing, ~IsLazy(Read),
         NEW v, Take(v), Refers(heap, v), sig[Here] \in {"num", "ref"} => v.t = sig[Here],
         SetSlots(Loaded), UNCHANGED <<heap, saved, undo, instruction, force, others>>
  PROVE  IInv'
<1>1. /\ UNCHANGED <<sig, ops, began, forcing, resumed, rv, tryArg>>
      /\ heap' = heap /\ saved' = saved /\ undo' = undo
  BY DEF instruction, force, others
<1>2. /\ DOMAIN got # DOMAIN ops /\ HeapInv(heap') /\ Keeps(heap, heap') /\ Refers(heap', v)
      /\ Refers(heap', rv')
  BY <1>1, HeapKeepsItself DEF IInv, StepInv, ValuesInv
<1>3. PICK n, i : HereAt(n, i)
  BY <1>2, HerePlace
<1>4. \A c \in Loaded : c[1] = <<"tmp", i>> /\ Refers(heap', c[2])
  BY <1>1, <1>2, <1>3, HerePlace DEF HereAt
<1>5. ASSUME NEW m \in FrameNames, NEW l, NEW c \in Loaded PROVE c[1] # <<m, l>>
  BY <1>4 DEF FrameNames
<1>6. Settles
  BY <1>5, SettlesWith
<1>7. Len(evs') = Len(evs)
  BY <1>1, <1>2, <1>4, ValuesStay
<1>8. ASSUME n \in FrameNames PROVE ~IsLazy(Part(n)'[i])
  <2>1. i \in DOMAIN Part(n) /\ Read = Part(n)[i]
    BY <1>3, <1>8 DEF HereAt, FrameNames
  <2>2. IsLazy(Part(n)'[i]) => IsLazy(Part(n)[i])
    BY <1>6, <1>8, <2>1 DEF Settles
  <2> QED
    BY <2>1, <2>2
<1>9. ASSUME NEW l \in DOMAIN evs, ops[Here].k = "pop", ValuePlace(ops, Here) = <<"evs", l>>
      PROVE  ~IsLazy(evs'[l])
  <2>1. "evs" \in FrameNames /\ Part("evs") = evs /\ Part("evs")' = evs'
    BY DEF FrameNames, Part
  <2>2. IsLazy(evs'[l]) => IsLazy(evs[l])
    BY <1>6, <2>1 DEF Settles
  <2>3. Read = evs[l]
    BY <1>9 DEF Read, Slot
  <2> QED
    BY <2>2, <2>3
<1>10. \A j : j = Here /\ ops[j].k \in FrameOperands => NotLazy(j)'
  BY <1>1, <1>3, <1>6, <1>7, <1>8, <1>9, HereNotLazy
<1> QED
  BY <1>1, <1>2, <1>4, <1>5, <1>10, GotInPlace

LEMMA NumberGot ==
  ASSUME IInv, GetNumber
  PROVE  IInv'
<1>1. /\ pc \in {"operand", "pushed"} /\ ~Missing /\ sig[Here] \in {"num", "arg", "value"}
      /\ Read.t = "num" /\ SetSlots(Loaded) /\ Take(Num)
      /\ UNCHANGED <<heap, saved, undo, instruction, force, others>>
  BY DEF GetNumber, InOperand
<1>2. ~IsLazy(Read)
  BY <1>1 DEF IsLazy
<1>3. Refers(heap, Num) /\ Num.t = "num"
  BY Num_is DEF Num, V
<1> QED
  BY <1>1, <1>2, <1>3, GotAsRead

LEMMA ArgGot ==
  ASSUME IInv, GetArg
  PROVE  IInv'
<1>1. /\ pc \in {"operand", "pushed"} /\ sig[Here] = "arg"
      /\ Read.t \in {"ref", "canceled"} /\ Take(Read)
      /\ UNCHANGED <<heap, vars, args, evs, tmp, saved, undo, instruction, force, others>>
  BY DEF GetArg, InOperand, frame
<1>2. DOMAIN got # DOMAIN ops /\ ValuesInv
  BY <1>1 DEF IInv, StepInv
<1>3. ops[Here].k = "arg"
  BY <1>1, <1>2, HereIs DEF OperandInv
<1>4. ~Missing /\ Loaded = {}
  BY <1>3 DEF Missing, Loaded, Place, ValuePlace
<1>5. Refers(heap, Read)
  BY <1>2, <1>4, HerePlace
<1>6. ~IsLazy(Read)
  BY <1>1 DEF IsLazy
<1>7. SetSlots(Loaded)
  BY <1>1, <1>2, <1>4, NothingSet
<1> QED
  BY <1>1, <1>4, <1>5, <1>6, <1>7, GotAsRead

LEMMA LazyGot ==
  ASSUME IInv, GetLazy
  PROVE  IInv'
<1>1. /\ pc \in {"operand", "pushed"} /\ ~Missing /\ sig[Here] = "value"
      /\ IsLazy(Read) /\ Take(Read)
      /\ UNCHANGED <<heap, saved, undo, instruction, force, others>>
  BY DEF GetLazy, InOperand
<1>2. /\ UNCHANGED <<sig, ops, began, forcing, resumed, rv, tryArg>>
      /\ heap' = heap /\ saved' = saved /\ undo' = undo
  BY <1>1 DEF instruction, force, others
<1>3. /\ DOMAIN got # DOMAIN ops /\ HeapInv(heap') /\ Keeps(heap, heap')
  BY <1>1, <1>2, HeapKeepsItself DEF IInv, StepInv
<1>4. PICK n, i : HereAt(n, i)
  BY <1>1, <1>3, HerePlace
<1>5. Refers(heap, Read) /\ Refers(heap', Read)
  BY <1>1, <1>2, <1>3, HerePlace
<1>6. Refers(heap', Lazily(Read))
  BY <1>2, <1>5, ValueFields DEF Lazily, Refers, IsLazy, V, Values
<1>7. PICK changes : /\ SetSlots(changes)
                     /\ changes = IF heap[Read.r].vt = "ref"
                                  THEN {<<Place(Here), Lazily(Read)>>} ELSE Loaded
  BY DEF GetLazy
<1>8. \A c \in changes : c[1] = <<n, i>> /\ Refers(heap', c[2])
  BY <1>4, <1>5, <1>6, <1>7 DEF HereAt
<1>9. ASSUME NEW m \in FrameNames, NEW l, NEW c \in changes, c[1] = <<m, l>>
      PROVE  IsLazy(Part(m)[l])
  <2>1. m = n /\ l = i
    BY <1>8, <1>9
  <2>2. Read = Part(n)[i]
    BY <1>4, <2>1 DEF HereAt, FrameNames
  <2> QED
    BY <1>1, <2>1, <2>2
<1>10. sig = <<"value">>
  <2>1. OperandInv(Here) /\ Here \in DOMAIN ops
    BY <1>3, HereIs
  <2>2. PICK l : l = Here
    OBVIOUS
  <2>3. Len(sig) = 1 /\ l \in DOMAIN sig /\ sig[l] = "value"
    BY <1>1, <2>1, <2>2 DEF OperandInv, IInv, InstructionInv
  <2>4. sig \in Seq({"num", "ref", "arg", "value"})
    BY DEF IInv, InstructionInv
  <2> QED
    BY <2>3, <2>4
<1>11. ~resumed /\ sig # <<"ref">>
  BY <1>10 DEF IInv, StepInv
<1>12. pc \in {"operand", "pushed", "force"} /\ sig[Here] \notin {"num", "ref"}
  BY <1>1
<1> QED
  BY <1>1, <1>2, <1>3, <1>5, <1>7, <1>8, <1>9, <1>10, <1>11, <1>12, GotInPlace

(* The reference to a unique object is canceled where it was read.         *)
LEMMA UniqueGot ==
  ASSUME IInv, pc \in {"operand", "pushed"}, ~Missing, Read.t = "ref", IsUnique(Read),
         sig[Here] \in {"ref", "value"}, Take(Read),
         SetSlots({<<Place(Here), Canceled>>}), undo' = undo \union {<<Place(Here), Read>>},
         UNCHANGED <<heap, saved, instruction, force, others>>
  PROVE  IInv'
<1>1. /\ UNCHANGED <<sig, ops, began, forcing, resumed, rv, tryArg>>
      /\ heap' = heap /\ saved' = saved
  BY DEF instruction, force, others
<1>2. /\ DOMAIN got # DOMAIN ops /\ HeapInv(heap') /\ Keeps(heap, heap')
      /\ Refers(heap', rv')
  BY <1>1, HeapKeepsItself DEF IInv, StepInv, ValuesInv
<1>3. Refers(heap, Read) /\ Read \in Values /\ ~IsLazy(Read)
  BY <1>2, HerePlace DEF Refers, IsLazy
<1>4. PICK n, i : HereAt(n, i)
  BY <1>2, HerePlace
<1>5. /\ n \in Names /\ i \in DOMAIN Part(n) /\ i \in Nat \ {0}
      /\ n \in FrameNames => Read = Part(n)[i]
      /\ Place(Here) = <<n, i>>
  BY <1>4 DEF HereAt, FrameNames
<1>5a. PICK changes : changes = {<<<<n, i>>, Canceled>>}
  OBVIOUS
<1>6. SetSlots(changes) /\ undo' = undo \union {<<<<n, i>>, Read>>}
  BY <1>5, <1>5a
<1>7. \A c \in changes : c[1] = <<n, i>> /\ c[2] = Canceled /\ Refers(heap', c[2])
  BY <1>5a, PlainValues
<1>8. /\ ~IsLazy(Canceled) /\ Read # Canceled
  BY DEF IsLazy, Canceled, V
<1>9. Settles
  BY <1>6, <1>7, <1>8, SettlesWith
<1>10. LazyStay
  <2>1. ASSUME NEW m \in FrameNames, NEW l, NEW c \in changes, c[1] = <<m, l>>
        PROVE  ~IsLazy(Part(m)[l])
    <3>1. m = n /\ l = i
      BY <1>7, <2>1
    <3> QED
      BY <1>3, <1>5, <3>1
  <2> QED
    BY <1>6, <2>1, LazyStayWith
<1>11. /\ \A m \in Names : Part(m)' \in Seq(Values) /\ Len(Part(m)') = Len(Part(m))
       /\ Len(evs') = Len(evs)
  BY <1>1, <1>2, <1>6, <1>7, ValuesStay
<1>12. /\ \A j \in DOMAIN got : j \in DOMAIN got' /\ got'[j] = got[j]
       /\ \E j \in DOMAIN got' : got'[j] = Read
  BY <1>2, TakenIs
<1>13. UndoInv'
  <2>1. UndoInv
    BY DEF IInv
  <2>2. undo' \subseteq (Names \X (Nat \ {0})) \X Values
    BY <1>3, <1>5, <1>6, <2>1 DEF UndoInv
  <2>3. \A e \in undo' : e[2].t = "ref" /\ Refers(heap', e[2])
    BY <1>1, <1>3, <1>6, <2>1 DEF UndoInv
  <2>4. \E j \in DOMAIN got' : got'[j].t = "ref" /\ heap'[got'[j].r].unique
    BY <1>1, <1>12 DEF IsUnique
  <2>5. SavedOp /\ IsLazy(saved) => FALSE
    <3> SUFFICES ASSUME SavedOp, IsLazy(saved) PROVE FALSE
      OBVIOUS
    <3>1. ops[Here].k = "saved"
      <4>1. Here \in DOMAIN ops
        BY <1>2, HereIs
      <4>2. PICK l : l = Here
        OBVIOUS
      <4> QED
        BY <4>1, <4>2, NotSaved
    <3> QED
      BY <1>3, <3>1 DEF Read
  <2> QED
    BY <1>1, <2>2, <2>3, <2>4, <2>5 DEF UndoInv, SavedOp
<1>14. FrameInv'
  <2> SUFFICES ASSUME InFrame', NEW m \in FrameNames
               PROVE  /\ Began(m)' \in Seq(Values) /\ Len(Part(m)') = Len(Began(m)')
                      /\ \A l \in DOMAIN Part(m)' : SlotKept(m, l)'
    BY DEF FrameInv
  <2>1. InFrame
    BY <1>1, <1>6, InFrameBefore
  <2>2. m \in Names /\ Began(m)' = Began(m)
    BY <1>1 DEF Names, Began
  <2>3. /\ Began(m) \in Seq(Values) /\ Len(Part(m)) = Len(Began(m))
        /\ \A l \in DOMAIN Part(m) : SlotKept(m, l)
    BY <2>1 DEF IInv, FrameInv
  <2>4. /\ DOMAIN Part(m)' = DOMAIN Part(m)
        /\ \A l \in DOMAIN Part(m) :
             \/ (\A c \in changes : c[1] # <<m, l>>) /\ Part(m)'[l] = Part(m)[l]
             \/ \E c \in changes : c[1] = <<m, l>> /\ Part(m)'[l] = c[2]
    BY <1>6, <2>2, SlotsSet
  <2>5. ASSUME NEW l \in DOMAIN Part(m)' PROVE SlotKept(m, l)'
    <3>1. /\ l \in DOMAIN Part(m)
          /\ \/ (\A c \in changes : c[1] # <<m, l>>) /\ Part(m)'[l] = Part(m)[l]
             \/ \E c \in changes : c[1] = <<m, l>> /\ Part(m)'[l] = c[2]
      BY <2>4
    <3>2. SlotKept(m, l)
      BY <2>3, <3>1
    <3>3. CASE m = n /\ l = i
      <4>1. Part(m)'[l] = Canceled
        BY <1>7, <1>5a, <3>1, <3>3
      <4>2. Part(m)[l] = Read
        BY <1>5, <3>3
      <4>3. \A e \in undo : e[1] # <<m, l>>
        BY <1>8, <3>2, <4>2 DEF SlotKept
      <4>4. IsLazy(Began(m)[l]) \/ Read = Began(m)[l]
        BY <3>2, <4>2, <4>3 DEF SlotKept
      <4>5. \A e \in undo' : e[1] = <<m, l>> => e[2] = Read
        BY <1>6, <4>3
      <4>6. \E e \in undo' : e[1] = <<m, l>>
        <5>1. <<<<n, i>>, Read>> \in undo' /\ <<<<n, i>>, Read>>[1] = <<m, l>>
          BY <1>6, <3>3
        <5> QED
          BY <5>1
      <4> QED
        BY <2>2, <4>1, <4>4, <4>5, <4>6 DEF SlotKept, IsLazy
    <3>4. CASE ~(m = n /\ l = i)
      <4>1. Part(m)'[l] = Part(m)[l]
        BY <1>7, <3>1, <3>4
      <4>2. \A e \in undo' : e[1] = <<m, l>> => e \in undo
        BY <1>6, <3>4
      <4>3. \A e \in undo : e \in undo'
        BY <1>6
      <4> QED
        BY <2>2, <3>2, <4>1, <4>2, <4>3 DEF SlotKept, IsLazy
    <3> QED
      BY <3>3, <3>4
  <2> QED
    BY <1>11, <2>2, <2>3, <2>5
<1>15. \A j : j = Here /\ ops[j].k \in FrameOperands => NotLazy(j)'
  <2>1. ASSUME n \in FrameNames PROVE ~IsLazy(Part(n)'[i])
    BY <1>3, <1>5, <1>9, <2>1 DEF Settles
  <2>2. ASSUME NEW l \in DOMAIN evs, ops[Here].k = "pop", ValuePlace(ops, Here) = <<"evs", l>>
        PROVE  ~IsLazy(evs'[l])
    <3>1. "evs" \in FrameNames /\ Part("evs") = evs /\ Part("evs")' = evs'
      BY DEF FrameNames, Part
    <3>2. IsLazy(evs'[l]) => IsLazy(evs[l])
      BY <1>9, <3>1 DEF Settles
    <3>3. Read = evs[l]
      BY <2>2 DEF Read, Slot
    <3> QED
      BY <1>3, <3>2, <3>3
  <2> QED
    BY <1>1, <1>4, <1>9, <1>11, <2>1, <2>2, HereNotLazy
<1>16. /\ pc \in {"operand", "pushed", "force"} /\ undo \subseteq undo'
       /\ sig[Here] \in {"num", "ref"} => Read.t = sig[Here]
       /\ Refers(heap', Read)
  BY <1>1, <1>3, <1>6
<1> QED
  BY <1>1, <1>2, <1>3, <1>6, <1>7, <1>9, <1>10, <1>13, <1>14, <1>15, <1>16, OperandGot

LEMMA RefGot ==
  ASSUME IInv, GetRef
  PROVE  IInv'
<1>1. /\ pc \in {"operand", "pushed"} /\ ~Missing /\ sig[Here] \in {"ref", "value"}
      /\ Read.t = "ref" /\ Take(Read)
      /\ UNCHANGED <<heap, saved, instruction, force, others>>
  BY DEF GetRef, InOperand
<1>2. DOMAIN got # DOMAIN ops /\ ~IsLazy(Read)
  BY <1>1 DEF IInv, StepInv, IsLazy
<1>3. Refers(heap, Read)
  BY <1>1, <1>2, HerePlace
<1>4. CASE IsUnique(Read)
  BY <1>1, <1>4, UniqueGot DEF GetRef
<1>5. CASE ~IsUnique(Read)
  <2>1. SetSlots(Loaded) /\ undo' = undo
    BY <1>5 DEF GetRef
  <2> QED
    BY <1>1, <1>2, <1>3, <2>1, GotAsRead
<1> QED
  BY <1>4, <1>5

(* No operand is got: what stays as it was.                                *)
LEMMA InstructionStays ==
  ASSUME IInv, UNCHANGED <<sig, ops, got>>, Keeps(heap, heap'),
         DOMAIN vars' = DOMAIN vars, DOMAIN args' = DOMAIN args, args = <<>> => args' = <<>>
  PROVE  InstructionInv' /\ SavedOp' = SavedOp /\ SetsElement' = SetsElement
<1>1. InstructionInv
  BY DEF IInv
<1>2. \A j \in DOMAIN ops : OperandInv(j)'
  BY <1>1 DEF InstructionInv, OperandInv
<1>3. \A j \in DOMAIN got : GotInv(j)'
  BY <1>1, KeptValue DEF InstructionInv, GotInv
<1> QED
  BY <1>1, <1>2, <1>3 DEF InstructionInv, SavedOp, SetsElement

LEMMA GotStays ==
  ASSUME IInv, InFrame' => InFrame, UNCHANGED <<sig, ops, got>>, Len(evs') = Len(evs), Settles
  PROVE  GotNotLazy'
<1> SUFFICES ASSUME InFrame', ~SavedOp', sig' # <<"value">>,
                    NEW j \in DOMAIN got', ops'[j].k # "const"
             PROVE  NotLazy(j)'
  BY DEF GotNotLazy
<1>1. InFrame /\ ~SavedOp
  BY DEF SavedOp
<1>2. j \in DOMAIN ops
  BY DEF IInv, InstructionInv
<1>3. ops[j].k \in FrameOperands
  BY <1>1, <1>2, OperandsOfFrame DEF SavedOp
<1>4. NotLazy(j)
  BY <1>1 DEF IInv, GotNotLazy
<1> QED
  BY <1>3, <1>4, StaysNotLazy

LEMMA ResumeStays ==
  ASSUME IInv, InFrame' => InFrame, pc # "callee", pc' # "callee",
         UNCHANGED <<ops, got, forcing>>, resumed' => resumed, Len(evs') = Len(evs),
         Settles, LazyStay
  PROVE  ResumeInv'
<1> SUFFICES ASSUME InFrame', ~SavedOp', resumed'
             PROVE  \E j \in DOMAIN ops : BrokenOffAt(j)' /\ j \notin DOMAIN got
  BY DEF ResumeInv
<1>1. InFrame /\ ~SavedOp /\ resumed
  BY DEF SavedOp
<1>2. PICK j \in DOMAIN ops : BrokenOffAt(j) /\ j \notin DOMAIN got
  BY <1>1 DEF IInv, ResumeInv
<1>3. BrokenOffAt(j)'
  BY <1>1, <1>2, StaysBrokenOff
<1> QED
  BY <1>2, <1>3

LEMMA HereStays ==
  ASSUME IInv, ops' = ops, got' = got, saved' = saved, Len(evs') = Len(evs),
         DOMAIN evs' = DOMAIN evs, ~Missing, NEW n, NEW i, HereAt(n, i), at' = <<n, i>>
  PROVE  /\ Here' = Here /\ at' = Place(Here)' /\ ~Missing' /\ Slot(at)' = Part(n)'[i]
         /\ n \in FrameNames => Read' = Part(n)'[i]
         /\ n \notin FrameNames =>
              Read' = Read \/ \E l \in DOMAIN evs : Read = evs[l] /\ Read' = evs'[l]
<1>1. Here' = Here
  BY DEF Here
<1>2. PICK j : j = Here
  OBVIOUS
<1>3. j' = Here'
  BY <1>1, <1>2
<1>4. \A l : ValuePlace(ops, l)' = ValuePlace(ops, l)
  BY PlacesStay
<1>5. \A l : Place(l)' = Place(l)
  BY <1>4 DEF Place
<1>6. at' = Place(Here)'
  <2>1. Place(j) = <<n, i>>
    BY <1>2 DEF HereAt
  <2>2. Place(j)' = <<n, i>>
    BY <1>5, <2>1
  <2>3. Place(Here)' = Place(j)'
    BY <1>3 DEF Place
  <2> QED
    BY <2>2, <2>3
<1>7. ~Missing'
  <2>1. ~(ops[j].k \in {"pop", "eval"} /\ ValuePlace(ops, j)[2] \notin DOMAIN evs)
    BY <1>2 DEF Missing
  <2>2. ~(ops[j].k \in {"pop", "eval"} /\ ValuePlace(ops, j)'[2] \notin DOMAIN evs)
    BY <1>4, <2>1
  <2> QED
    BY <1>3, <2>2 DEF Missing, ValuePlace
<1>8. Slot(at)' = Part(n)'[i]
  BY DEF HereAt, Names, FrameNames, Slot, Part
<1>9. n \in FrameNames => Read' = Part(n)'[i]
  <2> HAVE n \in FrameNames
  <2>1. ops[j].k \in {"var", "arg", "pushed", "eval"} /\ ValuePlace(ops, j) = <<n, i>>
    BY <1>2 DEF HereAt, FrameNames
  <2>2. ValuePlace(ops, j)' = <<n, i>>
    BY <1>4, <2>1
  <2>3. Read' = Slot(ValuePlace(ops, j))'
    BY <1>3, <2>1 DEF Read, Slot, ValuePlace
  <2> QED
    BY <2>2, <2>3 DEF FrameNames, Slot, Part
<1>10. n \notin FrameNames =>
         Read' = Read \/ \E l \in DOMAIN evs : Read = evs[l] /\ Read' = evs'[l]
  <2> HAVE n \notin FrameNames
  <2>1. CASE ops[j].k = "saved"
    BY <1>2, <1>3, <2>1 DEF Read
  <2>2. CASE ops[j].k = "pop"
    <3>1. PICK l \in DOMAIN evs : ValuePlace(ops, j) = <<"evs", l>> /\ Read = evs[l]
      BY <1>2, <2>2 DEF HereAt
    <3>2. ValuePlace(ops, j)' = <<"evs", l>>
      BY <1>4, <3>1
    <3>3. Read' = Slot(ValuePlace(ops, j))'
      BY <1>3, <2>2 DEF Read, Slot, ValuePlace
    <3> QED
      BY <3>1, <3>2, <3>3 DEF Slot
  <2> QED
    BY <1>2, <2>1, <2>2 DEF HereAt
<1> QED
  BY <1>1, <1>6, <1>7, <1>8, <1>9, <1>10

(* The value of an operand is forced.                                      *)
LEMMA ForceBegins ==
  ASSUME IInv, BeginForce
  PROVE  IInv'
<1>1. /\ pc \in {"operand", "pushed"} /\ ~Missing /\ Forces /\ SetSlots(Loaded)
      /\ pc' = "force" /\ at' = Place(Here)
      /\ UNCHANGED <<heap, got, saved, undo, sig, ops, began, forcing, resumed, tryArg, rv>>
  BY DEF BeginForce, InOperand, instruction, others
<1>2. /\ DOMAIN got # DOMAIN ops /\ HeapInv(heap') /\ Keeps(heap, heap')
      /\ Refers(heap', rv')
  BY <1>1, HeapKeepsItself DEF IInv, StepInv, ValuesInv
<1>3. PICK n, i : HereAt(n, i)
  BY <1>1, <1>2, HerePlace
<1>4. \A c \in Loaded : c = <<<<"tmp", i>>, Read>> /\ Refers(heap', c[2])
  BY <1>1, <1>2, <1>3, HerePlace DEF HereAt
<1>5. ASSUME NEW m \in FrameNames, NEW l, NEW c \in Loaded PROVE c[1] # <<m, l>>
  BY <1>4 DEF FrameNames
<1>6. Settles /\ LazyStay
  BY <1>1, <1>5, SettlesWith, LazyStayWith
<1>7. /\ ValuesInv' /\ Len(evs') = Len(evs)
      /\ DOMAIN vars' = DOMAIN vars /\ DOMAIN args' = DOMAIN args
      /\ args = <<>> => args' = <<>>
      /\ \A m \in Names : Part(m)' \in Seq(Values) /\ Len(Part(m)') = Len(Part(m))
  BY <1>1, <1>2, <1>4, ValuesStay
<1>8. DOMAIN evs' = DOMAIN evs
  <2>1. "evs" \in FrameNames /\ Part("evs") = evs /\ Part("evs")' = evs'
    BY DEF FrameNames, Part
  <2> QED
    BY <1>6, <2>1 DEF Settles
<1>9. InstructionInv' /\ SavedOp' = SavedOp /\ SetsElement' = SetsElement
  BY <1>1, <1>2, <1>7, InstructionStays
<1>10. InFrame' => InFrame
  BY <1>1, InFrameBefore
<1>11. UndoInv'
  BY <1>1, <1>2, UndoGoesOn
<1>12. FrameInv'
  BY <1>1, <1>5, <1>7, <1>10, FrameGoesOn
<1>13. GotNotLazy'
  BY <1>1, <1>6, <1>7, <1>10, GotStays
<1>14. ResumeInv'
  BY <1>1, <1>6, <1>7, <1>10, ResumeStays
<1>15. /\ Here' = Here /\ at' = Place(Here)' /\ ~Missing' /\ Slot(at)' = Part(n)'[i]
       /\ n \in FrameNames => Read' = Part(n)'[i]
       /\ n \notin FrameNames =>
            Read' = Read \/ \E l \in DOMAIN evs : Read = evs[l] /\ Read' = evs'[l]
  BY <1>1, <1>3, <1>7, <1>8, HereStays DEF HereAt
<1>16. IsLazy(Read) /\ (sig[Here] = "arg" \/ sig[Here] = heap[Read.r].vt)
  BY <1>1 DEF Forces
<1>17. Slot(at)' = Read
  <2>1. /\ n \in Names /\ i \in DOMAIN Part(n)
        /\ \/ (\A c \in Loaded : c[1] # <<n, i>>) /\ Part(n)'[i] = Part(n)[i]
           \/ \E c \in Loaded : c[1] = <<n, i>> /\ Part(n)'[i] = c[2]
    BY <1>1, <1>3, SlotsSet DEF HereAt
  <2>2. CASE n \in FrameNames
    BY <1>3, <1>5, <1>15, <2>1, <2>2 DEF HereAt, FrameNames
  <2>3. CASE n \notin FrameNames
    <3>1. Loaded = {<<<<n, i>>, Read>>}
      BY <1>3, <2>3 DEF HereAt
    <3> QED
      BY <1>15, <2>1, <3>1
  <2> QED
    BY <2>2, <2>3
<1>18. IsLazy(Read)'
  <2>1. \A m \in FrameNames : \A l \in DOMAIN Part(m) :
          IsLazy(Part(m)[l]) => Part(m)'[l] = Part(m)[l]
    BY <1>6 DEF LazyStay
  <2>2. "evs" \in FrameNames /\ Part("evs") = evs /\ Part("evs")' = evs'
    BY DEF FrameNames, Part
  <2>3. Read' = Read
    BY <1>15, <1>16, <1>17, <2>1, <2>2
  <2> QED
    BY <1>16, <2>3 DEF IsLazy
<1>19. StepInv'
  <2>1. IsLazy(Slot(at))' /\ (sig[Here] = "arg" \/ sig[Here] = heap[Slot(at).r].vt)'
    BY <1>1, <1>15, <1>16, <1>17 DEF IsLazy
  <2> QED
    BY <1>1, <1>2, <1>15, <1>18, <2>1 DEF IInv, StepInv, OfType
<1> QED
  BY <1>1, <1>2, <1>7, <1>9, <1>11, <1>12, <1>13, <1>14, <1>19 DEF IInv

(* force_value: the lazy value at its place.                               *)
LEMMA LazyChanged ==
  ASSUME IInv, NEW p \in Objs, heap[p].kind = "lazy", NEW x \in ObjectType, x.kind = "lazy",
         x.unique = heap[p].unique, x.vt = heap[p].vt, x.share = heap[p].share,
         AllRefer(heap, x.elems), Refers(heap, x.val),
         x.val \in {Error, Canceled} \/ OfType(heap, x.val, x.vt)
  PROVE  HeapInv([heap EXCEPT ![p] = x]) /\ Keeps(heap, [heap EXCEPT ![p] = x])
<1> DEFINE h == [heap EXCEPT ![p] = x]
<1>1. HeapInv(heap) /\ heap \in [Everything -> ObjectType] /\ p \in Everything
  BY DEF IInv, HeapInv, Everything
<1>2. ObjectInv(heap, p)
  BY <1>1, HeapOf
<1>3. ~x.unique
  BY <1>2 DEF ObjectInv, Kinds
<1>4. h[p] = x /\ \A o \in Everything : o # p => h[o] = heap[o]
  BY <1>1
<1> HIDE DEF h
<1>5. Keeps(heap, h)
  BY <1>4 DEF Keeps
<1>6. AllRefer(h, x.elems) /\ Refers(h, x.val)
  BY <1>5, KeptValue, KeptValues
<1>7. x.val \in {Error, Canceled} \/ OfType(h, x.val, x.vt)
  BY <1>5, KeptValue
<1>8. ObjectInv(h, p)
  BY <1>3, <1>4, <1>6, <1>7 DEF ObjectInv
<1> QED
  BY <1>1, <1>8, ChangedInHeap DEF h

LEMMA ForcedPlace ==
  ASSUME IInv, pc = "force"
  PROVE  /\ DOMAIN got # DOMAIN ops /\ ~Missing /\ IsLazy(Read)
         /\ \E n, i : HereAt(n, i) /\ at = <<n, i>> /\ Slot(at) = Part(n)[i]
         /\ Refers(heap, Slot(at)) /\ IsLazy(Slot(at))
         /\ Lazy \in Objs /\ L.kind = "lazy" /\ L \in ObjectType /\ ObjectInv(heap, Lazy)
         /\ sig[Here] = "arg" \/ sig[Here] = L.vt
<1>1. /\ DOMAIN got # DOMAIN ops /\ ~Missing /\ IsLazy(Read) /\ at = Place(Here)
      /\ IsLazy(Slot(at)) /\ (sig[Here] = "arg" \/ sig[Here] = heap[Slot(at).r].vt)
  BY DEF IInv, StepInv
<1>2. PICK n, i : HereAt(n, i)
  BY <1>1, HerePlace
<1>3. at = <<n, i>> /\ n \in Names /\ i \in DOMAIN Part(n)
  BY <1>1, <1>2 DEF HereAt
<1>4. Slot(at) = Part(n)[i]
  BY <1>3 DEF Slot, Part, Names, FrameNames
<1>5. Refers(heap, Slot(at))
  BY <1>3, <1>4 DEF IInv, ValuesInv, AllRefer
<1>6. Lazy \in Everything /\ L.kind = "lazy"
  BY <1>1, <1>5, ValueFields DEF Refers, IsLazy, Lazy, L
<1>7. HeapInv(heap)
  BY DEF IInv
<1>8. heap[Global].kind = "nums"
  BY <1>7, GlobalKept
<1>9. Lazy \in Objs
  BY <1>6, <1>8 DEF Everything, L
<1>10. L \in ObjectType /\ ObjectInv(heap, Lazy)
  BY <1>6, <1>7, HeapOf DEF L
<1> QED
  BY <1>1, <1>2, <1>3, <1>4, <1>5, <1>6, <1>9, <1>10 DEF L, Lazy

(* The frame does not change while a function has returned.                *)
LEMMA ValueStored ==
  ASSUME IInv, StoreValue
  PROVE  IInv'
<1>1. /\ pc = "force" /\ resumed /\ Lazy = forcing
      /\ heap' = [heap EXCEPT ![Lazy].val = rv, ![Lazy].elems = <<>>, ![Lazy].ran = FALSE]
      /\ resumed' = FALSE /\ pc' = pc
      /\ UNCHANGED <<vars, args, evs, tmp, saved, got, undo, sig, ops, began, at, forcing,
                     tryArg, rv>>
  BY DEF StoreValue, frame, instruction, progress, others
<1>2. /\ DOMAIN got # DOMAIN ops /\ ~Missing /\ IsLazy(Read)
      /\ Refers(heap, Slot(at)) /\ IsLazy(Slot(at))
      /\ Lazy \in Objs /\ L.kind = "lazy" /\ L \in ObjectType
      /\ sig[Here] = "arg" \/ sig[Here] = L.vt
  BY <1>1, ForcedPlace
<1>3. PICK n, i : HereAt(n, i) /\ at = <<n, i>> /\ Slot(at) = Part(n)[i]
  BY <1>1, ForcedPlace
<1>4. ValuesInv /\ Refers(heap, rv) /\ OfType(heap, rv, heap[forcing].vt)
  BY <1>1 DEF IInv, ValuesInv, StepInv
<1>5. PICK p \in Objs : p = Lazy /\ heap[p] = L
  BY <1>2 DEF L
<1>6. PICK x : x = [heap[p] EXCEPT !.val = rv, !.elems = <<>>, !.ran = FALSE]
  OBVIOUS
<1>7. /\ x \in ObjectType /\ x.kind = "lazy" /\ x.unique = heap[p].unique
      /\ x.vt = heap[p].vt /\ x.share = heap[p].share /\ x.elems = <<>> /\ x.val = rv
  <2>1. heap[p] \in ObjectType /\ heap[p].kind = "lazy" /\ rv \in Values
    BY <1>2, <1>4, <1>5 DEF Refers
  <2>2. <<>> \in Seq(Values)
    OBVIOUS
  <2>3. PICK e : e = <<>>
    OBVIOUS
  <2>4. x = [heap[p] EXCEPT !.val = rv, !.elems = e, !.ran = FALSE] /\ e \in Seq(Values)
    BY <1>6, <2>2, <2>3
  <2>5. x \in ObjectType
    BY <2>1, <2>4 DEF ObjectType
  <2>6. /\ x.kind = "lazy" /\ x.unique = heap[p].unique
        /\ x.vt = heap[p].vt /\ x.share = heap[p].share /\ x.elems = e /\ x.val = rv
    BY <2>1, <2>4 DEF ObjectType
  <2> QED
    BY <2>3, <2>5, <2>6
<1>8. heap' = [heap EXCEPT ![p] = x]
  <2>1. p \in DOMAIN heap /\ heap \in [Everything -> ObjectType]
    BY DEF IInv, HeapInv, Everything
  <2> QED
    BY <1>1, <1>5, <1>6, <2>1
<1>9. HeapInv(heap') /\ Keeps(heap, heap')
  <2>1. OfType(heap, x.val, x.vt) /\ Refers(heap, x.val) /\ heap[p].kind = "lazy"
    BY <1>1, <1>2, <1>4, <1>5, <1>7
  <2>2. AllRefer(heap, x.elems)
    BY <1>7, NoValues
  <2> QED
    BY <1>7, <1>8, <2>1, <2>2, LazyChanged
<1>10. SetSlots({})
  BY <1>1, <1>4, NothingSet
<1>11. Refers(heap', rv')
  BY <1>1, <1>4, <1>9, KeptValue
<1>12. /\ ValuesInv'
       /\ \A m \in Names : Part(m)' \in Seq(Values) /\ Len(Part(m)') = Len(Part(m))
  BY <1>1, <1>9, <1>10, <1>11, ValuesStay
<1>13. InstructionInv' /\ SavedOp' = SavedOp /\ SetsElement' = SetsElement
  BY <1>1, <1>9, InstructionStays
<1>14. InFrame' => InFrame
  BY <1>1, InFrameBefore
<1>15. Settles /\ LazyStay
  BY <1>10, SettlesWith, LazyStayWith
<1>16. UndoInv'
  BY <1>1, <1>9, UndoGoesOn
<1>17. FrameInv'
  BY <1>1, <1>10, <1>12, <1>14, FrameGoesOn
<1>18. GotNotLazy'
  BY <1>1, <1>14, <1>15, GotStays
<1>19. ResumeInv'
  BY <1>1, <1>14, <1>15, ResumeStays
<1>20. /\ Here' = Here /\ at' = Place(Here)' /\ ~Missing' /\ Slot(at)' = Part(n)'[i]
  BY <1>1, <1>2, <1>3, HereStays
<1>21. Slot(at)' = Slot(at) /\ Read' = Read
  BY <1>1, <1>20 DEF Slot, Read, ValuePlace
<1>22. (sig[Here] = "arg" \/ sig[Here] = heap[Slot(at).r].vt)'
  <2>1. heap'[p].vt = heap[p].vt
    BY <1>2, <1>5, <1>9 DEF Keeps, Everything
  <2>2. sig[Here] = "arg" \/ sig[Here] = heap[p].vt
    BY <1>2, <1>5
  <2>3. Slot(at)'.r = p
    BY <1>5, <1>21 DEF Lazy
  <2> QED
    BY <1>1, <1>20, <2>1, <2>2, <2>3
<1>23. StepInv'
  BY <1>1, <1>2, <1>20, <1>21, <1>22 DEF IInv, StepInv, IsLazy
<1> QED
  BY <1>9, <1>12, <1>13, <1>16, <1>17, <1>18, <1>19, <1>23 DEF IInv

(* The function of a lazy value ends with an error.                        *)
LEMMA Thrown ==
  ASSUME IInv, Throws
  PROVE  IInv'
<1>1. forcing \in Objs /\ HeapInv(heap)
  BY DEF Throws, IInv, StepInv
<1>2. AllRefer(heap, heap[forcing].elems)
  BY <1>1, HeapOf DEF Everything, ObjectInv
<1>3. \A v \in ToSet(heap[forcing].elems) : Refers(heap, v)
  BY <1>2 DEF AllRefer, ToSet
<1>4. PICK v \in {Num} \union Passed(heap[forcing].elems, "ref") : SetError(v)
  BY DEF Throws
<1>5. Refers(heap, v)
  BY <1>3, <1>4, Passed_are, PlainValues
<1> QED
  BY <1>4, <1>5, ThrowEnds

(* The operands are got, and popped.                                       *)
LEMMA OperandsPopped ==
  ASSUME IInv, PopOperands
  PROVE  IInv'
<1>1. pc = "pop" /\ Operands(ops) \subseteq DOMAIN got /\ ValuesInv /\ InstructionInv
  BY DEF PopOperands, IInv, StepInv
<1> DEFINE c == Cardinality(Pops(ops))
           n == Len(evs) - c
<1>2. CASE c > Len(evs)
  BY <1>2, FailureEnds DEF PopOperands
<1>3. CASE ~(c > Len(evs))
  <2>1. /\ evs' = SubSeq(evs, 1, n) /\ pc' = After(ops, got, TRUE)
        /\ UNCHANGED <<heap, vars, args, sig, ops, began, tmp, saved, got, undo,
                       at, forcing, resumed, tryArg, rv>>
    BY <1>3 DEF PopOperands, instruction, progress, force, others
  <2>2. c \in Nat
    <3>1. Pops(ops) \subseteq {1, 2}
      BY <1>1 DEF InstructionInv, OperandInv, Pops
    <3>2. IsFiniteSet({1, 2})
      BY CardinalityOfTwo
    <3>3. IsFiniteSet(Pops(ops))
      BY <3>1, <3>2, FS_Subset
    <3> QED
      BY <3>3, FS_CardinalityType
  <2>3. Len(evs) \in Nat /\ AllRefer(heap, evs) /\ Len(vars) \in Nat /\ Len(args) \in Nat
    BY <1>1, Lengths
  <2>4. n \in 0 .. Len(evs)
    BY <1>3, <2>2, <2>3
  <2> HIDE DEF n, c
  <2>5. AllRefer(heap, evs') /\ Len(evs') = n
    BY <2>1, <2>3, <2>4, Prefix
  <2>6. Used(args)' <= MaxSlots
    <3> DEFINE d == IF tryArg = Error THEN 0 ELSE 1
    <3>1. d \in Nat /\ Len(vars) + Len(evs) + Len(args) + d <= MaxSlots
      BY <1>1 DEF ValuesInv, Used
    <3>2. d' = d
      BY <2>1
    <3> HIDE DEF d
    <3>3. Len(vars) + Len(evs') + Len(args) + d <= MaxSlots
      BY <2>3, <2>4, <2>5, <3>1, UniqueObjectsAssumption
    <3> QED
      BY <2>1, <3>2, <3>3 DEF Used, d
  <2>7. ValuesInv'
    <3>1. \A m \in Names : AllRefer(heap', Part(m)')
      BY <1>1, <2>1, <2>5 DEF ValuesInv, Names, FrameNames, Part
    <3> QED
      BY <1>1, <2>1, <2>6, <3>1 DEF ValuesInv
  <2>8. HeapInv(heap') /\ Keeps(heap, heap')
    BY <2>1, HeapKeepsItself
  <2>9. InstructionInv' /\ SavedOp' = SavedOp /\ SetsElement' = SetsElement
    BY <2>1, <2>8, InstructionStays
  <2>10. UndoInv'
    BY <2>1, <2>8, UndoGoesOn
  <2>11. pc' \in {"pushed", "ready"} /\ StepInv'
    <3>1. DOMAIN got \subseteq DOMAIN ops
      BY <1>1 DEF InstructionInv
    <3>2. /\ pc' \in {"pushed", "ready"}
          /\ pc' = "pushed" => DOMAIN got # DOMAIN ops /\ SetsElement
          /\ pc' = "ready" => DOMAIN got = DOMAIN ops
      BY <1>1, <2>1, <3>1, AfterIs DEF SetsElement
    <3> QED
      BY <2>1, <2>9, <3>2 DEF IInv, StepInv, OfType
  <2>12. ~InFrame'
    BY <2>11 DEF InFrame
  <2> QED
    BY <2>7, <2>8, <2>9, <2>10, <2>11, <2>12 DEF IInv, FrameInv, GotNotLazy, ResumeInv
<1> QED
  BY <1>2, <1>3

(* The cancelations are undone: what is canceled is as it was found.       *)
LEMMA UndoneInFrame ==
  ASSUME IInv, InFrame, NEW e \in undo, NEW n \in FrameNames, NEW i \in DOMAIN Part(n),
         e[1] = <<n, i>>
  PROVE  Part(n)[i] = Canceled /\ (IsLazy(Began(n)[i]) \/ e[2] = Began(n)[i])
<1>1. SlotKept(n, i)
  BY DEF IInv, FrameInv
<1> QED
  BY <1>1 DEF SlotKept

LEMMA FrameUndone ==
  ASSUME IInv, InFrame' => InFrame, began' = began, undo' = {}, SetSlots(undo),
         \A n \in Names : Part(n)' \in Seq(Values) /\ Len(Part(n)') = Len(Part(n))
  PROVE  FrameInv'
<1> SUFFICES ASSUME InFrame', NEW n \in FrameNames
             PROVE  /\ Began(n)' \in Seq(Values) /\ Len(Part(n)') = Len(Began(n)')
                    /\ \A i \in DOMAIN Part(n)' : SlotKept(n, i)'
  BY DEF FrameInv
<1>1. n \in Names /\ Began(n)' = Began(n)
  BY DEF Names, Began
<1>2. /\ Began(n) \in Seq(Values) /\ Len(Part(n)) = Len(Began(n))
      /\ \A i \in DOMAIN Part(n) : SlotKept(n, i)
  BY DEF IInv, FrameInv
<1>3. /\ DOMAIN Part(n)' = DOMAIN Part(n)
      /\ \A i \in DOMAIN Part(n) :
           \/ (\A c \in undo : c[1] # <<n, i>>) /\ Part(n)'[i] = Part(n)[i]
           \/ \E c \in undo : c[1] = <<n, i>> /\ Part(n)'[i] = c[2]
  BY <1>1, SlotsSet
<1>4. ASSUME NEW i \in DOMAIN Part(n)
      PROVE  IsLazy(Began(n)[i]) \/ Part(n)'[i] = Began(n)[i]
  <2>1. SlotKept(n, i)
    BY <1>2
  <2>2. CASE (\A c \in undo : c[1] # <<n, i>>) /\ Part(n)'[i] = Part(n)[i]
    BY <2>1, <2>2 DEF SlotKept
  <2>3. CASE \E c \in undo : c[1] = <<n, i>> /\ Part(n)'[i] = c[2]
    BY <2>3, UndoneInFrame
  <2> QED
    BY <1>3, <2>2, <2>3
<1>5. ASSUME NEW i \in DOMAIN Part(n)' PROVE SlotKept(n, i)'
  <2>1. IsLazy(Began(n)[i]) \/ Part(n)'[i] = Began(n)[i]
    BY <1>3, <1>4
  <2> QED
    BY <1>1, <2>1 DEF SlotKept, IsLazy
<1> QED
  BY <1>1, <1>2, <1>5

(* The operand that is forced is the one the instruction is broken off at. *)
LEMMA BrokenOffHere ==
  ASSUME IInv, InFrame, ~SavedOp, sig # <<"value">>, pc = "force",
         ops' = ops, Len(evs') = Len(evs), Settles, LazyStay, forcing' = Lazy
  PROVE  \E j \in DOMAIN ops : BrokenOffAt(j)'
<1>1. /\ DOMAIN got # DOMAIN ops /\ ~Missing /\ IsLazy(Read) /\ IsLazy(Slot(at))
  BY ForcedPlace
<1>2. PICK n, i : HereAt(n, i) /\ at = <<n, i>> /\ Slot(at) = Part(n)[i]
  BY ForcedPlace
<1>3. PICK j : j = Here
  OBVIOUS
<1>4. /\ j \in DOMAIN ops /\ j \notin DOMAIN got /\ ops[j].k # "const"
      /\ \A l \in DOMAIN ops : l \notin DOMAIN got => j <= l
      /\ j \in Nat
  BY <1>1, <1>3, HereIs
<1>5. ops[j].k \in FrameOperands
  BY <1>4, OperandsOfFrame DEF SavedOp
<1>6. PICK m, k : SlotOf(j, m, k)
  BY <1>5, SlotAfter
<1>7. /\ k \in DOMAIN Part(m) /\ IsLazy(Part(m)[k])
      /\ ops[j].k # "pop" => Part(m)[k] = Slot(at)
  <2>1. Read = Slot(ValuePlace(ops, j))
    BY <1>3, <1>5 DEF Read, FrameOperands
  <2>2. IsLazy(Part(m)[k])
    BY <1>1, <1>6, <2>1 DEF SlotOf
  <2>3. CASE ops[j].k = "pop"
    <3>1. PICK l \in DOMAIN evs : ValuePlace(ops, j) = <<"evs", l>>
      BY <1>2, <1>3, <2>3 DEF HereAt
    <3>2. <<m, k>> = <<"evs", l>>
      BY <1>6, <3>1 DEF SlotOf
    <3>3. m = "evs" /\ k = l
      BY <3>2
    <3> QED
      BY <2>2, <2>3, <3>3 DEF Part
  <2>4. CASE ops[j].k # "pop"
    <3>1. ValuePlace(ops, j) = <<n, i>> /\ Read = Part(n)[i]
      BY <1>2, <1>3, <1>5, <2>4 DEF HereAt, FrameOperands
    <3>2. <<m, k>> = <<n, i>>
      BY <1>6, <3>1 DEF SlotOf
    <3>3. m = n /\ k = i
      BY <3>2
    <3> QED
      BY <1>2, <2>2, <3>3 DEF HereAt
  <2> QED
    BY <2>3, <2>4
<1>8. k \in DOMAIN Part(m)' /\ Part(m)'[k] = Part(m)[k]
  BY <1>6, <1>7 DEF Settles, LazyStay, SlotOf
<1>9. ASSUME NEW l \in DOMAIN ops, l < j, ops[l].k # "const" PROVE NotLazy(l)'
  <2>1. l \in DOMAIN got
    <3>1. l \in Nat
      BY DEF IInv, InstructionInv
    <3> QED
      BY <1>4, <1>9, <3>1
  <2>2. NotLazy(l)
    BY <1>9, <2>1 DEF IInv, GotNotLazy
  <2>3. ops[l].k \in FrameOperands
    BY <1>9, OperandsOfFrame DEF SavedOp
  <2> QED
    BY <2>2, <2>3, StaysNotLazy
<1>10. BrokenOffAt(j)'
  <2>1. /\ ValuePlace(ops, j)' = <<m, k>> /\ Slot(ValuePlace(ops, j))' = Part(m)'[k]
        /\ Part(ValuePlace(ops, j)[1])' = Part(m)'
    BY <1>6 DEF SlotOf
  <2>2. IsLazy(Slot(ValuePlace(ops, j))')
    BY <1>7, <1>8, <2>1
  <2>3. ops[j].k # "pop" => Slot(ValuePlace(ops, j))'.r = forcing'
    BY <1>7, <1>8, <2>1 DEF Lazy
  <2> QED
    BY <1>4, <1>8, <1>9, <2>1, <2>2, <2>3 DEF BrokenOffAt, IsLazy
<1> QED
  BY <1>4, <1>10

LEMMA FunctionEntered ==
  ASSUME IInv, EnterFunction
  PROVE  IInv'
<1>1. /\ pc = "force" /\ L.val = Error /\ ~resumed /\ pc' = "callee" /\ forcing' = Lazy
      /\ heap' = [heap EXCEPT ![Lazy].ran = TRUE]
      /\ SetSlots(undo) /\ undo' = {}
      /\ UNCHANGED <<got, saved, at, resumed, sig, ops, began, tryArg, rv>>
  BY DEF EnterFunction, instruction
<1>2. /\ DOMAIN got # DOMAIN ops /\ ~Missing /\ IsLazy(Read)
      /\ Refers(heap, Slot(at)) /\ IsLazy(Slot(at))
      /\ Lazy \in Objs /\ L.kind = "lazy" /\ L \in ObjectType /\ ObjectInv(heap, Lazy)
      /\ sig[Here] = "arg" \/ sig[Here] = L.vt
  BY <1>1, ForcedPlace
<1>3. PICK p \in Objs : p = Lazy /\ heap[p] = L
  BY <1>2 DEF L
<1>4. PICK x : x = [heap[p] EXCEPT !.ran = TRUE]
  OBVIOUS
<1>5. /\ x \in ObjectType /\ x.kind = "lazy" /\ x.unique = heap[p].unique
      /\ x.vt = heap[p].vt /\ x.share = heap[p].share /\ x.elems = L.elems /\ x.val = L.val
  BY <1>2, <1>3, <1>4 DEF ObjectType
<1>6. heap' = [heap EXCEPT ![p] = x]
  <2>1. p \in DOMAIN heap /\ heap \in [Everything -> ObjectType]
    BY DEF IInv, HeapInv, Everything
  <2> QED
    BY <1>1, <1>3, <1>4, <2>1
<1>7. HeapInv(heap') /\ Keeps(heap, heap')
  <2>1. AllRefer(heap, x.elems) /\ Refers(heap, x.val) /\ heap[p].kind = "lazy"
    BY <1>2, <1>3, <1>5 DEF ObjectInv, L
  <2>2. x.val \in {Error, Canceled}
    BY <1>1, <1>5
  <2> QED
    BY <1>5, <1>6, <2>1, <2>2, LazyChanged
<1>8. \A e \in undo : e[2].t = "ref" /\ Refers(heap', e[2]) /\ ~IsLazy(e[2])
  BY <1>7, KeptValue DEF IInv, UndoInv, IsLazy
<1>9. Refers(heap', rv')
  BY <1>1, <1>7, KeptValue DEF IInv, ValuesInv
<1>10. /\ ValuesInv' /\ Len(evs') = Len(evs)
       /\ DOMAIN vars' = DOMAIN vars /\ DOMAIN args' = DOMAIN args
       /\ args = <<>> => args' = <<>>
       /\ \A m \in Names : Part(m)' \in Seq(Values) /\ Len(Part(m)') = Len(Part(m))
  BY <1>1, <1>7, <1>8, <1>9, ValuesStay
<1>11. InstructionInv' /\ SavedOp' = SavedOp /\ SetsElement' = SetsElement
  BY <1>1, <1>7, <1>10, InstructionStays
<1>12. UndoInv'
  BY <1>1 DEF UndoInv
<1>13. PICK l : l = Here
  OBVIOUS
<1>14. l \in DOMAIN ops /\ ops[l].k # "const" /\ l \in DOMAIN sig
  <2>1. l \in DOMAIN ops /\ ops[l].k # "const"
    BY <1>2, <1>13, HereIs
  <2> QED
    BY <2>1 DEF IInv, InstructionInv
<1>15. sig # <<"value">>
  <2> SUFFICES ASSUME sig = <<"value">> PROVE FALSE
    OBVIOUS
  <2>1. l = 1 /\ sig[l] = "value"
    BY <1>14
  <2>2. L.vt \in {"num", "ref"}
    BY <1>2 DEF ObjectType
  <2> QED
    BY <1>2, <1>13, <2>1, <2>2
<1>16. StepInv'
  <2>1. heap'[p].kind = "lazy"
    BY <1>2, <1>3, <1>7 DEF Keeps, Everything, L
  <2>2. \E j \in DOMAIN ops' : ops'[j].k # "const"
    BY <1>1, <1>14
  <2> QED
    BY <1>1, <1>3, <1>15, <2>1, <2>2 DEF StepInv
<1>17. InFrame' => InFrame
  <2> SUFFICES ASSUME ~SetsElement, SavedOp PROVE undo = {}
    BY <1>1, <1>11 DEF InFrame
  <2>1. ops[l].k = "saved"
    BY <1>14, NotSaved
  <2>2. Read = saved
    BY <1>13, <2>1 DEF Read
  <2> QED
    BY <1>2, <2>2 DEF IInv, UndoInv
<1>18. FrameInv'
  BY <1>1, <1>10, <1>17, FrameUndone
<1>19. Settles
  BY <1>1, <1>8, SettlesWith
<1>20. InFrame => LazyStay
  <2> HAVE InFrame
  <2>1. \A n \in FrameNames : \A i \in DOMAIN Part(n) : \A c \in undo :
          c[1] = <<n, i>> => ~IsLazy(Part(n)[i])
    BY UndoneInFrame DEF IsLazy, Canceled, V
  <2> QED
    BY <1>1, <2>1, LazyStayWith
<1>21. GotNotLazy'
  BY <1>1, <1>10, <1>17, <1>19, GotStays
<1>22. ResumeInv'
  <2> SUFFICES ASSUME InFrame', ~SavedOp' PROVE \E j \in DOMAIN ops : BrokenOffAt(j)'
    BY <1>1 DEF ResumeInv
  <2> QED
    BY <1>1, <1>10, <1>11, <1>15, <1>17, <1>19, <1>20, BrokenOffHere
<1> QED
  BY <1>7, <1>10, <1>11, <1>12, <1>16, <1>18, <1>21, <1>22 DEF IInv

(* What the function of a lazy value returns.                              *)
LEMMA ReturnedValue ==
  ASSUME IInv, Return
  PROVE  /\ HeapInv(heap') /\ Keeps(heap, heap') /\ Refers(heap', rv')
         /\ OfType(heap', rv', heap'[forcing].vt)
         /\ forcing \in Objs /\ heap'[forcing].kind = "lazy"
<1>1. forcing \in Objs /\ forcing \in Everything /\ heap[forcing].kind = "lazy" /\ HeapInv(heap)
  BY DEF Return, IInv, StepInv, Everything
<1>2. heap[forcing] \in ObjectType /\ ObjectInv(heap, forcing)
  BY <1>1, HeapOf
<1>3. PICK a, vt : a = heap[forcing].elems /\ vt = heap[forcing].vt
  OBVIOUS
<1>4. vt \in {"num", "ref"}
  BY <1>2, <1>3 DEF ObjectType
<1>5. CASE rv' \in Passed(a, vt) \union Constants(vt) /\ heap' = heap
  <2>1. HeapInv(heap') /\ Keeps(heap, heap')
    BY <1>5, HeapKeepsItself
  <2>2. \A v \in ToSet(a) : Refers(heap, v)
    BY <1>2, <1>3 DEF ObjectInv, AllRefer, ToSet
  <2>3. CASE rv' \in Passed(a, vt)
    <3>1. Refers(heap, rv')
      BY <2>2, <2>3, Passed_are
    <3>2. OfType(heap, rv', vt)
      BY <1>4, <2>3 DEF Passed, OfType
    <3> QED
      BY <1>1, <1>3, <1>5, <2>1, <3>1, <3>2
  <2>4. CASE rv' \in Constants(vt)
    <3>1. Refers(heap, rv') /\ rv'.t = vt
      BY <1>1, <1>4, <2>4, ConstantIs DEF Constants
    <3> QED
      BY <1>1, <1>3, <1>5, <2>1, <3>1 DEF OfType
  <2> QED
    BY <1>5, <2>3, <2>4
<1>6. CASE \E o \in FreeObjs :
             /\ vt = "ref" /\ rv' = V("ref", o)
             /\ heap' = [heap EXCEPT ![o] = Object("nums", TRUE, <<>>)]
  <2>1. PICK o \in FreeObjs :
          /\ vt = "ref" /\ rv' = V("ref", o)
          /\ heap' = [heap EXCEPT ![o] = Object("nums", TRUE, <<>>)]
    BY <1>6
  <2>2. o \in Objs /\ o \in Everything /\ heap[o].kind = "free"
    BY FreeObject
  <2>3. PICK x : x = Object("nums", TRUE, <<>>)
    OBVIOUS
  <2>4. /\ x \in ObjectType /\ x.kind = "nums" /\ x.unique = TRUE /\ x.elems = <<>>
        /\ x.val = Error
    <3>1. <<>> \in Seq(Values) /\ "nums" \in Kinds
      BY DEF Kinds
    <3> QED
      BY ONLY <2>3, <3>1, UniqueFields, Zenon
  <2>5. /\ HeapInv([heap EXCEPT ![o] = x]) /\ Keeps(heap, [heap EXCEPT ![o] = x])
        /\ Refers([heap EXCEPT ![o] = x], V("ref", o))
    <3>1. x.kind \in Kinds /\ x.kind # "free" /\ x.kind \notin {"tuple", "rarray"}
      BY <2>4 DEF Kinds
    <3>2. AllRefer(heap, x.elems)
      BY <2>4, NoValues
    <3> QED
      BY <1>1, <2>2, <2>4, <3>1, <3>2, NewObject
  <2>6. HeapInv(heap') /\ Keeps(heap, heap') /\ Refers(heap', rv')
    BY <2>1, <2>3, <2>5
  <2>7. heap'[forcing].kind = "lazy" /\ heap'[forcing].vt = vt
    BY <1>1, <1>3, <2>6 DEF Keeps
  <2>8. rv'.t = vt
    BY <2>1 DEF V
  <2> QED
    BY <1>1, <2>6, <2>7, <2>8 DEF OfType
<1> QED
  BY <1>3, <1>5, <1>6 DEF Return

LEMMA FunctionReturned ==
  ASSUME IInv, Return
  PROVE  IInv'
<1>1. /\ pc = "callee" /\ resumed' = TRUE /\ got' = ConstantOperands(sig, ops) /\ undo' = {}
      /\ pc' = "operand"
      /\ UNCHANGED <<vars, args, evs, tmp, sig, ops, began, saved, at, forcing, tryArg>>
  BY DEF Return, frame, instruction
<1>2. /\ HeapInv(heap') /\ Keeps(heap, heap') /\ Refers(heap', rv')
      /\ OfType(heap', rv', heap'[forcing].vt)
      /\ forcing \in Objs /\ heap'[forcing].kind = "lazy"
  BY ReturnedValue
<1>3. /\ undo = {} /\ sig # <<"value">> /\ InstructionInv /\ ValuesInv
      /\ \E j \in DOMAIN ops : ops[j].k # "const"
  BY <1>1 DEF IInv, StepInv
<1>4. DOMAIN got' = {j \in DOMAIN ops : ops[j].k = "const"}
  BY <1>1, ConstantsGot
<1>5. SetSlots({})
  BY <1>1, <1>3, NothingSet
<1>6. /\ ValuesInv'
      /\ \A n \in Names : Part(n)' \in Seq(Values) /\ Len(Part(n)') = Len(Part(n))
  BY <1>1, <1>2, <1>5, ValuesStay
<1>7. InstructionInv'
  <2>1. ASSUME NEW j \in DOMAIN ops PROVE OperandInv(j)'
    <3>1. OperandInv(j)
      BY <1>3 DEF InstructionInv
    <3> QED
      BY <1>1, <1>4, <3>1 DEF OperandInv
  <2>2. ASSUME NEW j \in DOMAIN got' PROVE GotInv(j)' /\ got'[j] \in Values
    <3>1. got'[j] = IF sig[j] = "ref" THEN V("ref", Global) ELSE Num
      BY <1>1, ConstantsGot
    <3> QED
      BY <1>1, <1>2, <3>1, ConstantIs DEF GotInv
  <2>3. got' \in [DOMAIN got' -> Values]
    <3>1. got' = [j \in DOMAIN got' |-> got'[j]]
      BY <1>1 DEF ConstantOperands
    <3> QED
      BY <2>2, <3>1
  <2> QED
    BY <1>1, <1>3, <1>4, <2>1, <2>2, <2>3 DEF InstructionInv
<1>8. UndoInv'
  BY <1>1 DEF UndoInv
<1>9. StepInv'
  BY <1>1, <1>2, <1>3, <1>4 DEF StepInv
<1>10. InFrame' => InFrame
  BY <1>1, <1>3 DEF InFrame, SetsElement
<1>11. FrameInv'
  BY <1>1, <1>3, <1>5, <1>6, <1>10, FrameGoesOn
<1>12. GotNotLazy'
  BY <1>1, <1>4 DEF GotNotLazy
<1>13. ResumeInv'
  <2> SUFFICES ASSUME InFrame', ~SavedOp'
               PROVE  \E j \in DOMAIN ops : BrokenOffAt(j)' /\ j \notin DOMAIN got'
    BY <1>1 DEF ResumeInv
  <2>1. InFrame /\ ~SavedOp
    BY <1>1, <1>10 DEF SavedOp
  <2>2. PICK j \in DOMAIN ops : BrokenOffAt(j)
    BY <1>1, <2>1 DEF IInv, ResumeInv
  <2>3. Settles /\ LazyStay
    BY <1>5, SettlesWith, LazyStayWith
  <2>4. BrokenOffAt(j)'
    BY <1>1, <2>1, <2>2, <2>3, StaysBrokenOff
  <2> QED
    BY <1>4, <2>2, <2>4 DEF BrokenOffAt
<1> QED
  BY <1>2, <1>6, <1>7, <1>8, <1>9, <1>11, <1>12, <1>13 DEF IInv

(* The value that was forced is got and stored where it was forced.        *)
LEMMA ForcedGot ==
  ASSUME IInv, pc = "force", ~resumed, L.val.t \in {"num", "ref"}, Forced(L.val),
         HeapInv(heap'), Keeps(heap, heap'), forcing' = None,
         UNCHANGED <<sig, ops, began, saved, undo, resumed, tryArg, rv>>
  PROVE  IInv'
<1>1. /\ DOMAIN got # DOMAIN ops /\ ~Missing /\ IsLazy(Read) /\ IsLazy(Slot(at))
      /\ L.kind = "lazy" /\ L \in ObjectType /\ ObjectInv(heap, Lazy)
      /\ sig[Here] = "arg" \/ sig[Here] = L.vt
  BY ForcedPlace
<1>2. PICK n, i : HereAt(n, i) /\ at = <<n, i>> /\ Slot(at) = Part(n)[i]
  BY ForcedPlace
<1>3. PICK v : v = L.val
  OBVIOUS
<1>4. ~IsLazy(v) /\ v \notin {Error, Canceled}
  BY <1>3 DEF IsLazy, Error, Canceled, V
<1>5. Refers(heap, v) /\ OfType(heap, v, L.vt)
  BY <1>1, <1>3, <1>4 DEF ObjectInv, L
<1>6. Refers(heap', v) /\ (sig[Here] \in {"num", "ref"} => v.t = sig[Here])
  BY <1>1, <1>4, <1>5, KeptValue DEF OfType
<1>7. PICK changes :
        /\ changes = {<<at, v>>} \union
             IF ops[Here].k = "pop" THEN {<<ValuePlace(ops, Here), v>>} ELSE {}
        /\ SetSlots(changes)
  BY <1>3 DEF Forced
<1>8. Take(v)
  BY <1>3 DEF Forced
<1>9. \A c \in changes :
        c[2] = v /\ (c[1] = at \/ (ops[Here].k = "pop" /\ c[1] = ValuePlace(ops, Here)))
  BY <1>7
<1>10. ASSUME NEW m \in FrameNames, NEW l, NEW c \in changes, c[1] = <<m, l>>
       PROVE  IsLazy(Part(m)[l])
  <2>1. CASE c[1] = at
    <3>1. m = n /\ l = i
      BY <1>2, <1>10, <2>1
    <3> QED
      BY <1>1, <1>2, <3>1
  <2>2. CASE ops[Here].k = "pop" /\ c[1] = ValuePlace(ops, Here)
    <3>1. PICK k \in DOMAIN evs : ValuePlace(ops, Here) = <<"evs", k>> /\ Read = evs[k]
      BY <1>2, <2>2 DEF HereAt
    <3>2. m = "evs" /\ l = k
      BY <1>10, <2>2, <3>1
    <3> QED
      BY <1>1, <3>1, <3>2 DEF Part
  <2> QED
    BY <1>9, <2>1, <2>2
<1>11. Settles
  BY <1>4, <1>7, <1>9, SettlesWith
<1>12. Refers(heap', rv')
  BY KeptValue DEF IInv, ValuesInv
<1>13. Len(evs') = Len(evs)
  BY <1>6, <1>7, <1>9, <1>12, ValuesStay
<1>14. ASSUME n \in FrameNames PROVE ~IsLazy(Part(n)'[i])
  <2>1. n \in Names /\ i \in DOMAIN Part(n)
    BY <1>2 DEF HereAt
  <2>2. \/ (\A c \in changes : c[1] # <<n, i>>) /\ Part(n)'[i] = Part(n)[i]
        \/ \E c \in changes : c[1] = <<n, i>> /\ Part(n)'[i] = c[2]
    BY <1>7, <2>1, SlotsSet
  <2>3. <<at, v>> \in changes /\ <<at, v>>[1] = <<n, i>>
    BY <1>2, <1>7
  <2> QED
    BY <1>4, <1>9, <2>2, <2>3
<1>15. ASSUME NEW l \in DOMAIN evs, ops[Here].k = "pop", ValuePlace(ops, Here) = <<"evs", l>>
       PROVE  ~IsLazy(evs'[l])
  <2>1. "evs" \in Names /\ Part("evs") = evs /\ Part("evs")' = evs'
    BY DEF Names, FrameNames, Part
  <2>2. \/ (\A c \in changes : c[1] # <<"evs", l>>) /\ evs'[l] = evs[l]
        \/ \E c \in changes : c[1] = <<"evs", l>> /\ evs'[l] = c[2]
    BY <1>7, <2>1, SlotsSet
  <2>3. PICK e : e = <<ValuePlace(ops, Here), v>>
    OBVIOUS
  <2>4. e \in changes /\ e[1] = <<"evs", l>>
    BY <1>7, <1>15, <2>3
  <2> QED
    BY <1>4, <1>9, <2>2, <2>4
<1>16. \A j : j = Here /\ ops[j].k \in FrameOperands => NotLazy(j)'
  BY <1>2, <1>11, <1>13, <1>14, <1>15, HereNotLazy
<1>17. \A c \in changes : Refers(heap', c[2])
  BY <1>6, <1>9
<1>18. pc \in {"operand", "pushed", "force"} /\ ~resumed /\ forcing' = None
  OBVIOUS
<1> QED
  BY <1>1, <1>6, <1>7, <1>8, <1>10, <1>16, <1>17, <1>18, GotInPlace

(* The lazy value leads to another one, which takes its place.             *)
LEMMA ChainFollowed ==
  ASSUME IInv, pc = "force", ~resumed, IsLazy(L.val), SetSlots({<<at, L.val>>}), forcing' = None,
         UNCHANGED <<heap, got, pc, at, sig, ops, began, saved, undo, resumed, tryArg, rv>>
  PROVE  IInv'
<1>1. /\ DOMAIN got # DOMAIN ops /\ ~Missing /\ IsLazy(Read) /\ IsLazy(Slot(at))
      /\ L.kind = "lazy" /\ L \in ObjectType /\ ObjectInv(heap, Lazy)
      /\ sig[Here] = "arg" \/ sig[Here] = L.vt
  BY ForcedPlace
<1>2. PICK n, i : HereAt(n, i) /\ at = <<n, i>> /\ Slot(at) = Part(n)[i]
  BY ForcedPlace
<1>3. PICK v : v = L.val
  OBVIOUS
<1>4. IsLazy(v) /\ v \notin {Error, Canceled}
  BY <1>3 DEF IsLazy, Error, Canceled, V
<1>5. Refers(heap, v) /\ OfType(heap, v, L.vt)
  BY <1>1, <1>3, <1>4 DEF ObjectInv, L
<1>6. heap[v.r].vt = L.vt
  <2>1. L.vt \in {"num", "ref"}
    BY <1>1 DEF ObjectType
  <2> QED
    BY <1>4, <1>5, <2>1 DEF OfType, IsLazy
<1>7. PICK changes : changes = {<<at, v>>} /\ SetSlots(changes)
  BY <1>3
<1>8. HeapInv(heap') /\ Keeps(heap, heap') /\ Refers(heap', v) /\ Refers(heap', rv')
  BY <1>5, HeapKeepsItself DEF IInv, ValuesInv
<1>9. \A c \in changes : c[1] = <<n, i>> /\ c[2] = v /\ Refers(heap', c[2])
  BY <1>2, <1>7, <1>8
<1>10. ASSUME NEW m \in FrameNames, NEW l, NEW c \in changes, c[1] = <<m, l>>
       PROVE  IsLazy(Part(m)[l])
  <2>1. m = n /\ l = i
    BY <1>9, <1>10
  <2> QED
    BY <1>1, <1>2, <2>1
<1>11. Settles
  BY <1>7, <1>10, SettlesWith
<1>12. /\ ValuesInv' /\ Len(evs') = Len(evs)
       /\ DOMAIN vars' = DOMAIN vars /\ DOMAIN args' = DOMAIN args
       /\ args = <<>> => args' = <<>>
       /\ \A m \in Names : Part(m)' \in Seq(Values) /\ Len(Part(m)') = Len(Part(m))
  BY <1>7, <1>8, <1>9, ValuesStay
<1>13. "evs" \in FrameNames /\ "evs" \in Names /\ Part("evs") = evs /\ Part("evs")' = evs'
  BY DEF Names, FrameNames, Part
<1>14. DOMAIN evs' = DOMAIN evs
  BY <1>11, <1>13 DEF Settles
<1>15. InstructionInv' /\ SavedOp' = SavedOp /\ SetsElement' = SetsElement
  BY <1>8, <1>12, InstructionStays
<1>16. InFrame' => InFrame
  BY InFrameBefore
<1>17. UndoInv'
  BY <1>8, UndoGoesOn
<1>18. FrameInv'
  BY <1>7, <1>10, <1>12, <1>16, FrameGoesOn
<1>19. GotNotLazy'
  BY <1>11, <1>12, <1>16, GotStays
<1>20. ResumeInv'
  BY DEF ResumeInv
<1>21. /\ Here' = Here /\ at' = Place(Here)' /\ ~Missing' /\ Slot(at)' = Part(n)'[i]
       /\ n \in FrameNames => Read' = Part(n)'[i]
       /\ n \notin FrameNames =>
            Read' = Read \/ \E l \in DOMAIN evs : Read = evs[l] /\ Read' = evs'[l]
  BY <1>1, <1>2, <1>12, <1>14, HereStays
<1>22. Part(n)'[i] = v
  <2>1. n \in Names /\ i \in DOMAIN Part(n)
    BY <1>2 DEF HereAt
  <2>2. \/ (\A c \in changes : c[1] # <<n, i>>) /\ Part(n)'[i] = Part(n)[i]
        \/ \E c \in changes : c[1] = <<n, i>> /\ Part(n)'[i] = c[2]
    BY <1>7, <2>1, SlotsSet
  <2>3. <<at, v>> \in changes /\ <<at, v>>[1] = <<n, i>>
    BY <1>2, <1>7
  <2> QED
    BY <1>9, <2>2, <2>3
<1>23. IsLazy(Read)'
  <2>1. CASE n \in FrameNames
    BY <1>4, <1>21, <1>22, <2>1 DEF IsLazy
  <2>2. CASE n \notin FrameNames
    <3>1. ASSUME NEW l \in DOMAIN evs PROVE evs'[l] = evs[l]
      <4>1. \A c \in changes : c[1] # <<"evs", l>>
        BY <1>9, <1>13, <2>2
      <4> QED
        BY <1>7, <1>13, <4>1, SlotsSet
    <3>2. Read' = Read
      BY <1>21, <2>2, <3>1
    <3> QED
      BY <1>1, <3>2 DEF IsLazy
  <2> QED
    BY <2>1, <2>2
<1>24. StepInv'
  <2>1. Slot(at)' = v
    BY <1>21, <1>22
  <2>2. IsLazy(Slot(at))' /\ (sig[Here] = "arg" \/ sig[Here] = heap[Slot(at).r].vt)'
    BY <1>1, <1>4, <1>6, <1>21, <2>1 DEF IsLazy
  <2> QED
    BY <1>1, <1>21, <1>23, <2>2 DEF IInv, StepInv
<1> QED
  BY <1>8, <1>12, <1>15, <1>17, <1>18, <1>19, <1>20, <1>24 DEF IInv

(* A lazy value that is taken from, or is refused, is canceled.            *)
LEMMA LazyCanceled ==
  ASSUME IInv, pc = "force"
  PROVE  LET h == [heap EXCEPT ![Lazy].val = Canceled] IN HeapInv(h) /\ Keeps(heap, h)
<1> DEFINE h == [heap EXCEPT ![Lazy].val = Canceled]
<1>1. Lazy \in Objs /\ L.kind = "lazy" /\ L \in ObjectType /\ ObjectInv(heap, Lazy)
  BY ForcedPlace
<1>2. PICK p \in Objs : p = Lazy /\ heap[p] = L
  BY <1>1 DEF L
<1>3. PICK x : x = [heap[p] EXCEPT !.val = Canceled]
  OBVIOUS
<1>4. /\ x \in ObjectType /\ x.kind = "lazy" /\ x.unique = heap[p].unique
      /\ x.vt = heap[p].vt /\ x.share = heap[p].share /\ x.elems = L.elems
      /\ x.val = Canceled
  <2>1. Canceled \in Values
    BY PlainValues DEF Refers
  <2> QED
    BY <1>1, <1>2, <1>3, <2>1 DEF ObjectType
<1>5. h = [heap EXCEPT ![p] = x]
  <2>1. p \in DOMAIN heap /\ heap \in [Everything -> ObjectType]
    BY DEF IInv, HeapInv, Everything
  <2> QED
    BY <1>2, <1>3, <2>1
<1>6. AllRefer(heap, x.elems) /\ Refers(heap, x.val) /\ heap[p].kind = "lazy"
  BY <1>1, <1>2, <1>4, PlainValues DEF ObjectInv, L
<1> QED
  BY <1>4, <1>5, <1>6, LazyChanged

LEMMA TakingFails ==
  ASSUME IInv, TakeFails
  PROVE  IInv'
<1> DEFINE h == [heap EXCEPT ![Lazy].val = Canceled]
<1>1. SetErrorIn(h, Num) /\ pc = "force"
  BY DEF TakeFails
<1>2. HeapInv(h) /\ Keeps(heap, h)
  BY <1>1, LazyCanceled
<1>3. Refers(h, Num)
  BY PlainValues
<1> HIDE DEF h
<1> QED
  BY <1>1, <1>2, <1>3, ErrorEnds

LEMMA ValueTaken ==
  ASSUME IInv, TakeValue
  PROVE  IInv'
<1>1. /\ pc = "force" /\ L.val # Error /\ ~resumed /\ forcing' = None
      /\ UNCHANGED <<sig, ops, began, saved, undo, resumed, tryArg, rv>>
  BY DEF TakeValue, instruction
<1>2. CASE L.val.t \in {"num", "ref"} /\ Forced(L.val) /\ heap' = heap
  <2>1. HeapInv(heap') /\ Keeps(heap, heap')
    BY <1>2, HeapKeepsItself
  <2> QED
    BY <1>1, <1>2, <2>1, ForcedGot
<1>3. CASE IsLazy(L.val) /\ SetSlots({<<at, L.val>>}) /\ UNCHANGED <<heap, got, pc, at>>
  BY <1>1, <1>3, ChainFollowed
<1>4. CASE IsUnique(L.val) /\ Forced(L.val) /\ heap' = [heap EXCEPT ![Lazy].val = Canceled]
  <2>1. HeapInv(heap') /\ Keeps(heap, heap')
    BY <1>1, <1>4, LazyCanceled
  <2> QED
    BY <1>1, <1>4, <2>1, ForcedGot DEF IsUnique
<1> QED
  BY <1>2, <1>3, <1>4 DEF TakeValue

----------------------------------------------------------------------------
(* The invariant.                                                          *)
LEMMA OperandsKeep ==
  ASSUME IInv, Operand
  PROVE  IInv'
<1>1. ASSUME GetFails PROVE IInv'
  BY <1>1, FailureEnds DEF GetFails
<1> QED
  BY <1>1, NumberGot, RefGot, LazyGot, ArgGot, ForceBegins, OperandsPopped DEF Operand

LEMMA ForceKeeps ==
  ASSUME IInv, ForceValue
  PROVE  IInv'
<1>1. ASSUME AdoptUnlocked PROVE IInv'
  BY <1>1, UndefinedEnds DEF AdoptUnlocked
<1>2. ASSUME TakeFails PROVE IInv'
  BY <1>2, TakingFails
<1> QED
  BY <1>1, <1>2, FunctionEntered, FunctionReturned, Thrown, ValueStored, ValueTaken DEF ForceValue

LEMMA InitIInv == Init => IInv
<1> SUFFICES ASSUME Init PROVE IInv
  OBVIOUS
<1>1. /\ heap = [o \in Everything |-> IF o = Global THEN Object("nums", FALSE, <<>>) ELSE Free]
      /\ vars = <<>> /\ args = <<>> /\ evs = <<>> /\ tmp = <<Error, Error>> /\ saved = Error
      /\ tryArg = Error /\ pc = "idle" /\ sig = <<>> /\ ops = <<>> /\ got = <<>> /\ undo = {}
      /\ forcing = None /\ resumed = FALSE /\ rv = Num
  BY DEF Init
<1>2. HeapInv(heap)
  <2>1. PICK x : x = Object("nums", FALSE, <<>>)
    OBVIOUS
  <2>2. /\ x \in ObjectType /\ x.kind = "nums" /\ x.unique = FALSE /\ x.elems = <<>>
        /\ x.val = Error
    <3>1. <<>> \in Seq(Values) /\ "nums" \in Kinds
      BY DEF Kinds
    <3>2. /\ Object("nums", FALSE, <<>>) \in ObjectType
          /\ Object("nums", FALSE, <<>>).kind = "nums"
          /\ Object("nums", FALSE, <<>>).unique = FALSE
          /\ Object("nums", FALSE, <<>>).elems = <<>>
          /\ Object("nums", FALSE, <<>>).val = Error
      BY ONLY <3>1, SharedFields, Zenon
    <3> QED
      BY <2>1, <3>2
  <2>3. PICK y : y = Free
    OBVIOUS
  <2>4. /\ y \in ObjectType /\ y.kind = "free" /\ y.unique = FALSE /\ y.elems = <<>>
        /\ y.val = Error
    <3>1. <<>> \in Seq(Values) /\ Error \in Values
      BY PlainValues DEF Refers
    <3>2. PICK e : e = <<>>
      OBVIOUS
    <3>3. PICK w : w = Error
      OBVIOUS
    <3>4. y = [kind |-> "free", unique |-> FALSE, elems |-> e, val |-> w, vt |-> "num",
               share |-> FALSE, ran |-> FALSE]
      BY <2>3, <3>2, <3>3 DEF Free, Object
    <3> QED
      BY <3>1, <3>2, <3>3, <3>4 DEF ObjectType
  <2>5. Global \in Everything
    BY DEF Everything
  <2>6. heap = [o \in Everything |-> IF o = Global THEN x ELSE y]
    BY <1>1, <2>1, <2>3
  <2>7. ASSUME NEW o \in Everything PROVE ObjectInv(heap, o)
    <3>1. heap[o] \in {x, y}
      BY <2>6
    <3>2. /\ heap[o].kind \notin {"tuple", "rarray"} /\ ~heap[o].unique
          /\ heap[o].elems = <<>> /\ heap[o].val = Error
      BY <2>2, <2>4, <3>1
    <3>3. AllRefer(heap, <<>>) /\ Refers(heap, Error)
      BY NoValues, PlainValues
    <3> QED
      BY <3>2, <3>3 DEF ObjectInv
  <2>8. heap \in [Everything -> ObjectType] /\ heap[Global] = x
    BY <2>2, <2>4, <2>5, <2>6
  <2> QED
    BY <2>2, <2>7, <2>8 DEF HeapInv
<1>3. ValuesInv
  <2>1. AllRefer(heap, <<>>) /\ Len(<<>>) = 0 /\ AllRefer(heap, <<Error, Error>>)
        /\ Len(<<Error, Error>>) = 2 /\ Refers(heap, Error) /\ Refers(heap, Num)
    BY NoValues, TwoValues, PlainValues
  <2>2. \A n \in Names : AllRefer(heap, Part(n))
    BY <1>1, <2>1 DEF Names, FrameNames, Part
  <2>3. Used(args) <= MaxSlots
    BY <1>1, <2>1, UniqueObjectsAssumption DEF Used
  <2> QED
    BY <1>1, <2>1, <2>2, <2>3 DEF ValuesInv
<1>4. InstructionInv
  BY <1>1 DEF InstructionInv
<1>5. UndoInv /\ StepInv /\ ~InFrame
  BY <1>1 DEF UndoInv, StepInv, InFrame
<1> QED
  BY <1>2, <1>3, <1>4, <1>5 DEF IInv, FrameInv, GotNotLazy, ResumeInv

LEMMA NextIInv == IInv /\ [Next]_allVars => IInv'
<1> SUFFICES ASSUME IInv, [Next]_allVars PROVE IInv'
  OBVIOUS
<1>1. ASSUME Stopped PROVE IInv'
  BY <1>1, NothingChanged DEF Stopped
<1>2. ASSUME NEW arg \in {FALSE} \union {Used(args) < MaxSlots}, Operation(arg) PROVE IInv'
  BY <1>2, OperationEnds
<1> QED
  BY <1>1, <1>2, InstructionBegins, InstructionDropped, OperandsKeep, ForceKeeps, NothingChanged
  DEF Next

(* IInv is an invariant of the instructions of a frame.                    *)
THEOREM InductiveInvariant == Spec => []IInv
<1>1. Init => IInv
  BY InitIInv
<1>2. IInv /\ [Next]_allVars => IInv'
  BY NextIInv
<1> QED
  BY <1>1, <1>2, PTL DEF Spec

----------------------------------------------------------------------------
(* What a shared tuple or array holds was checked when it was made, and    *)
(* what can be reached is in the heap.                                     *)
LEMMA SharedHold ==
  ASSUME IInv
  PROVE  SharedHoldNoUnique
<1> SUFFICES ASSUME NEW o \in LiveObjects, heap[o].kind \in {"tuple", "rarray"}, ~heap[o].unique,
                    NEW v \in ToSet(heap[o].elems)
             PROVE  ~IsUnique(v) /\ (IsLazy(v) => heap[v.r].share)
  BY DEF SharedHoldNoUnique
<1>1. HeapInv(heap) /\ ValuesInv /\ forcing \in Objs \union {None}
  BY DEF IInv, StepInv
<1> DEFINE values == ToSet(vars) \union ToSet(args) \union ToSet(evs)
                       \union {tryArg, saved, V("lazy", forcing)}
<1>2. \A w \in values : w.r \in Everything \union {None}
  <2>1. ASSUME NEW w, Refers(heap, w) PROVE w.r \in Everything \union {None}
    BY <2>1, ValueFields DEF Refers
  <2>2. \A w \in ToSet(vars) \union ToSet(args) \union ToSet(evs) : Refers(heap, w)
    BY <1>1, Lengths DEF AllRefer, ToSet
  <2>3. Refers(heap, tryArg) /\ Refers(heap, saved)
    BY <1>1 DEF ValuesInv
  <2>4. V("lazy", forcing).r \in Everything \union {None}
    BY <1>1 DEF V, Everything
  <2> QED
    BY <2>1, <2>2, <2>3, <2>4
<1>3. o \in Everything
  <2>1. LiveObjects = Reach(heap, values) \ {None}
    BY DEF LiveObjects
  <2> HIDE DEF values
  <2>2. Reach(heap, values) \subseteq Everything
    BY <1>1, <1>2, ReachIsClosed
  <2> QED
    BY <2>1, <2>2
<1>4. ObjectInv(heap, o)
  BY <1>1, <1>3, HeapOf
<1>5. PICK i \in DOMAIN heap[o].elems : v = heap[o].elems[i]
  BY DEF ToSet
<1>6. MayBeShared(heap, v)
  BY <1>4, <1>5 DEF ObjectInv
<1> QED
  BY <1>6 DEF MayBeShared, IsUnique

(* A shared tuple or array leads to no unique object, whatever the         *)
(* instructions did: of check_shared_for_value, set_lazy_values_as_shared  *)
(* and the element operations.                                             *)
THEOREM SharedObjectsHoldNoUnique == Spec => []SharedHoldNoUnique
<1>1. IInv => SharedHoldNoUnique
  BY SharedHold
<1> QED
  BY <1>1, InductiveInvariant, PTL

----------------------------------------------------------------------------
(* The values of a part of the frame, and those it began with.             *)
SameOrLazy(s, a) ==
  /\ s \in Seq(Values) /\ a \in Seq(Values) /\ Len(s) = Len(a)
  /\ \A i \in DOMAIN a : s[i] = a[i] \/ IsLazy(a[i])

LEMMA Concatenated ==
  ASSUME NEW s, NEW a, NEW t, NEW b, SameOrLazy(s, a), SameOrLazy(t, b)
  PROVE  SameOrLazy(s \o t, a \o b)
<1>1. /\ s \in Seq(Values) /\ a \in Seq(Values) /\ Len(s) = Len(a)
      /\ t \in Seq(Values) /\ b \in Seq(Values) /\ Len(t) = Len(b)
  BY DEF SameOrLazy
<1>2. /\ s \o t \in Seq(Values) /\ a \o b \in Seq(Values) /\ Len(s \o t) = Len(a \o b)
      /\ DOMAIN (a \o b) = 1 .. Len(a) + Len(b)
  <2>1. s \o t \in Seq(Values) /\ Len(s \o t) = Len(s) + Len(t)
    BY ONLY <1>1, ConcatProperties, Zenon
  <2>2. a \o b \in Seq(Values) /\ Len(a \o b) = Len(a) + Len(b)
    BY ONLY <1>1, ConcatProperties, Zenon
  <2>3. DOMAIN (a \o b) = 1 .. Len(a \o b)
    BY ONLY <2>2, LenProperties
  <2> QED
    BY ONLY <1>1, <2>1, <2>2, <2>3
<1>3. ASSUME NEW i \in DOMAIN (a \o b)
      PROVE  (s \o t)[i] = (a \o b)[i] \/ IsLazy((a \o b)[i])
  <2>1. CASE i \in DOMAIN a
    <3>1. (s \o t)[i] = s[i] /\ (a \o b)[i] = a[i]
      BY <1>1, <2>1
    <3> QED
      BY <2>1, <3>1 DEF SameOrLazy
  <2>2. CASE i \notin DOMAIN a
    <3>1. /\ i - Len(a) \in DOMAIN b
          /\ (s \o t)[i] = t[i - Len(a)] /\ (a \o b)[i] = b[i - Len(a)]
      BY <1>1, <1>2, <2>2
    <3> QED
      BY <3>1 DEF SameOrLazy
  <2> QED
    BY <2>1, <2>2
<1>4. /\ (s \o t) \in Seq(Values) /\ (a \o b) \in Seq(Values)
      /\ Len(s \o t) = Len(a \o b)
      /\ \A i \in DOMAIN (a \o b) : (s \o t)[i] = (a \o b)[i] \/ IsLazy((a \o b)[i])
  BY ONLY <1>2, <1>3
<1> QED
  BY ONLY <1>4, Zenon DEF SameOrLazy

LEMMA TypesOK ==
  ASSUME IInv
  PROVE  TypeOK
<1>1. HeapInv(heap) /\ ValuesInv /\ StepInv
  BY DEF IInv
<1>2. ASSUME NEW o \in Everything
      PROVE  /\ heap[o].kind \in {"free", "nums", "rarray", "tuple", "lazy"}
             /\ heap[o].elems \in Seq(Values) /\ heap[o].val \in Values
  BY <1>1, HeapOf DEF Kinds
<1>3. vars \in Seq(Values) /\ args \in Seq(Values) /\ evs \in Seq(Values)
  BY <1>1, Lengths
<1>4. tryArg \in Values /\ saved \in Values /\ rv \in Values /\ Used(args) <= MaxSlots
  BY <1>1 DEF ValuesInv, Refers
<1> QED
  BY <1>1, <1>2, <1>3, <1>4 DEF TypeOK, StepInv

LEMMA FrameIsKept ==
  ASSUME IInv
  PROVE  FrameKept
<1>1. TypeOK
  BY TypesOK
<1> SUFFICES ASSUME pc = "callee", ~SetsElement
             PROVE  LET now == vars \o args \o evs
                        old == began[1] \o began[2] \o began[3]
                    IN /\ Len(vars) = Len(began[1]) /\ Len(evs) = Len(began[3])
                       /\ Len(now) = Len(old)
                       /\ \A i \in DOMAIN old : now[i] = old[i] \/ IsLazy(old[i])
  BY <1>1 DEF FrameKept
<1>2. undo = {} /\ InFrame
  BY DEF IInv, StepInv, InFrame
<1>3. ASSUME NEW n \in FrameNames PROVE SameOrLazy(Part(n), Began(n))
  <2>1. /\ Began(n) \in Seq(Values) /\ Len(Part(n)) = Len(Began(n))
        /\ \A i \in DOMAIN Part(n) : SlotKept(n, i)
    BY <1>2 DEF IInv, FrameInv
  <2>2. Part(n) \in Seq(Values)
    BY DEF IInv, ValuesInv, AllRefer, Names
  <2>3. DOMAIN Part(n) = DOMAIN Began(n)
    BY <2>1, <2>2
  <2>4. \A i \in DOMAIN Began(n) : Part(n)[i] = Began(n)[i] \/ IsLazy(Began(n)[i])
    BY <1>2, <2>1, <2>3 DEF SlotKept
  <2> QED
    BY <2>1, <2>2, <2>4 DEF SameOrLazy
<1>4. /\ SameOrLazy(vars, began[1]) /\ SameOrLazy(args, began[2]) /\ SameOrLazy(evs, began[3])
  <2>1. "vars" \in FrameNames /\ "args" \in FrameNames /\ "evs" \in FrameNames
    BY DEF FrameNames
  <2>2. /\ Part("vars") = vars /\ Part("args") = args /\ Part("evs") = evs
        /\ Began("vars") = began[1] /\ Began("args") = began[2] /\ Began("evs") = began[3]
    BY DEF Part, Began
  <2> QED
    BY <1>3, <2>1, <2>2
<1>5. SameOrLazy(vars \o args \o evs, began[1] \o began[2] \o began[3])
  BY <1>4, Concatenated
<1> QED
  BY <1>4, <1>5 DEF SameOrLazy

(* While the function of a lazy operand runs the frame is what the         *)
(* instruction found: undo_cancelation has given back every reference that *)
(* the operands before it had canceled.                                    *)
THEOREM FrameIsUndone == Spec => []FrameKept
<1>1. IInv => FrameKept
  BY FrameIsKept
<1> QED
  BY <1>1, InductiveInvariant, PTL

----------------------------------------------------------------------------
LEMMA BrokenOffAtLocked ==
  ASSUME IInv
  PROVE  ResumesAtLocked
<1> SUFFICES ASSUME pc = "force", resumed, at[1] # "tmp", ~SetsElement PROVE Lazy = forcing
  BY DEF ResumesAtLocked
<1>1. /\ DOMAIN got # DOMAIN ops /\ ~Missing /\ IsLazy(Read) /\ at = Place(Here)
  BY DEF IInv, StepInv
<1>2. PICK h : h = Here
  OBVIOUS
<1>3. /\ h \in DOMAIN ops /\ h \notin DOMAIN got /\ ops[h].k # "const" /\ h \in Nat
      /\ \A j \in DOMAIN ops : j \notin DOMAIN got => h <= j
  BY <1>1, <1>2, HereIs
<1>4. ops[h].k \notin {"pop", "saved"}
  BY <1>1, <1>2 DEF Place
<1>5. ~SavedOp
  BY <1>3, <1>4, NotSaved
<1>6. at = ValuePlace(ops, h) /\ Read = Slot(ValuePlace(ops, h))
  BY <1>1, <1>2, <1>4 DEF Place, Read
<1>7. InFrame
  BY <1>5 DEF InFrame
<1>8. PICK j \in DOMAIN ops : BrokenOffAt(j) /\ j \notin DOMAIN got
  BY <1>5, <1>7 DEF IInv, ResumeInv
<1>9. ~NotLazy(h)
  BY <1>1, <1>6 DEF NotLazy
<1>10. j = h
  <2>1. ~(h < j)
    BY <1>3, <1>8, <1>9 DEF BrokenOffAt
  <2>2. h <= j /\ j \in Nat
    BY <1>3, <1>8 DEF IInv, InstructionInv
  <2> QED
    BY <1>3, <2>1, <2>2
<1> QED
  BY <1>4, <1>6, <1>8, <1>10 DEF BrokenOffAt, Lazy

(* An instruction that is begun again comes to the lazy value whose mutex  *)
(* is locked before any other that is not popped or saved.                 *)
THEOREM ResumesAtTheLocked == Spec => []ResumesAtLocked
<1>1. IInv => ResumesAtLocked
  BY BrokenOffAtLocked
<1> QED
  BY <1>1, InductiveInvariant, PTL
=============================================================================
