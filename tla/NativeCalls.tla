----------------------------- MODULE NativeCalls -----------------------------
(***************************************************************************)
(* A call of a native function with the helpers of include/letin/native.hpp *)
(* and vm/native.cpp, while the collector may stop the thread at any step:  *)
(* the checkers force, check and copy the arguments, the converters read    *)
(* them, the function allocates what it needs and its setters build the     *)
(* value it returns.                                                        *)
(*                                                                          *)
(* A function is known by a row of a table (PosixLibrary, SocketLibrary):   *)
(* what its comment promises, what it checks, converts and allocates, and   *)
(* what it may return.  The system call between them is any of its outcomes.*)
(*                                                                          *)
(* A number is known by what it stands for: 0 and 1 are the tags of options,*)
(* an argument is its position, what the system answers is Answer.  Arrays  *)
(* of numbers have no elements.  A call passes what the comment asks for,   *)
(* as it is or lazy at every place, or departs from that at one place.      *)
(***************************************************************************)
EXTENDS Naturals, Sequences, FiniteSets, TLC
LOCAL INSTANCE Functions
LOCAL INSTANCE SequencesExt

CONSTANTS
  Rows,       \* the functions that may be called
  Undocumented, Unconverted,  \* those of them known to depart
  None

VARIABLES
  call,       \* the row of the function and what the program has passed
  heap,       \* the objects, in the order they were allocated
  args,       \* the arguments on the stack of the virtual machine
  frames,     \* the functions of C++ that are running, with their values
  refs,       \* the RegisteredReferences on the stack of C++, and their ring
  gcTmp,      \* regs.gc_tmp_ptr: the block allocated last
  tmpR,       \* regs.tmp_r
  rv,         \* what the call returned
  err,
  pc,
  lost        \* history: objects freed that a known path leaves without a root

vars == <<call, heap, args, frames, refs, gcTmp, tmpR, rv, err, pc, lost>>

----------------------------------------------------------------------------
(* What a checker checks, what a comment promises.                         *)
Kind(c, t, u, of, n) == [c |-> c, t |-> t, u |-> u, of |-> of, n |-> n]
IntValue == Kind("int", "", FALSE, <<>>, 0)
FloatValue == Kind("float", "", FALSE, <<>>, 0)
Object(t, u) == Kind("object", t, u, <<>>, 0)
Tuple(u, of) == Kind("tuple", "tuple", u, of, 0)
Option(u, of) == Kind("option", "tuple", u, <<IntValue, of>>, 0)
Either(u, left, right) == Kind("either", "tuple", u, <<left, right>>, 0)
List(of) == Kind("list", "tuple", FALSE, <<of>>, 0)
\* a tuple that a function of the library checks, its first n elements
Struct(of, n) == Kind("struct", "tuple", FALSE, of, n)
\* alternatives that the number of their first element tells apart
Tag(n) == Kind("tag", "", FALSE, <<>>, n)
Tagged(of) == Kind("tagged", "tuple", FALSE, of, 0)
\* an object that a checker takes for unique where it never is
Unaccepted == Kind("unaccepted", "tuple", FALSE, <<>>, 0)
Table(u, row) == Kind("table", "rarray", u, <<row>>, 0)
Strings == Kind("strings", "rarray", FALSE, <<Object("iarray8", FALSE)>>, 0)
Native == Kind("native", "native", TRUE, <<>>, 0)
\* the io object, as the handler of the virtual machine checks it
OwnIo == Kind("own", "io", TRUE, <<>>, 0)

(* Values: numbers, references, references canceled, lazy values.          *)
V(k, x) == [k |-> k, x |-> x]
Answer == 9
Nil == V("ref", 0)
IsRef(v) == v.k \in {"ref", "canceled", "lazy"} /\ v.x # 0
Obj(t, u, e, of) == [t |-> t, u |-> u, e |-> e, of |-> of]
Freed == Obj("freed", FALSE, <<>>, <<>>)
IsUnique(h, v) == v.k = "ref" /\ v.x # 0 /\ h[v.x].u

(* Data: what a program passes, and what its lazy values will be.          *)
D(k, t, u, of, n) == [k |-> k, t |-> t, u |-> u, of |-> of, n |-> n]
Number(n) == D("int", "", FALSE, <<>>, n)
Lazy(d) == D("lazy", "", FALSE, <<d>>, 0)
Fails == D("fails", "", FALSE, <<>>, 0)
ObjectOf(t, u, of) == D("object", t, u, of, 0)

RECURSIVE Proper(_, _)
Proper(T, n) ==
  CASE T.c \in {"int", "float"} -> D(T.c, "", FALSE, <<>>, n)
    [] T.c = "tag" -> Number(T.n)
    [] T.c = "tagged" -> Proper(T.of[1], n)
    [] T.c \in {"tuple", "struct"} ->
         ObjectOf(T.t, T.u, [i \in DOMAIN T.of |-> Proper(T.of[i], i)])
    [] T.c \in {"option", "either"} -> ObjectOf(T.t, T.u, <<Number(1), Proper(T.of[2], 2)>>)
    [] T.c = "table" -> ObjectOf(T.t, T.u, <<Proper(T.of[1], 1), Proper(T.of[1], 2)>>)
    [] T.c = "strings" -> ObjectOf(T.t, T.u, <<Proper(T.of[1], 1)>>)
    [] OTHER -> ObjectOf(T.t, T.u, <<>>)

Wrong(T) ==
  IF T.c \in {"int", "float"} THEN {ObjectOf("iarray8", FALSE, <<>>)}
  ELSE IF T.c = "tag" THEN {ObjectOf("iarray8", FALSE, <<>>), Number(Answer)}
  ELSE {Number(1), ObjectOf("sfarray", T.u, <<>>), ObjectOf(T.t, ~T.u, <<>>)}
       \union (IF T.c \in {"tuple", "struct", "option", "either"} THEN {ObjectOf(T.t, T.u, <<>>)} ELSE {})

\* One place of an argument departs from Proper: it is lazy, its function
\* fails, or it is something else.  The elements of an rarray are references,
\* and a shared object holds no unique one.
RECURSIVE Variants(_, _)
Variants(T, n) ==
  LET P == Proper(T, n)
      Elems == CASE T.c \in {"tuple", "struct"} -> DOMAIN T.of
                 [] T.c = "tagged" -> DOMAIN T.of[1].of
                 [] T.c \in {"option", "either"} -> {2}
                 [] T.c \in {"table", "strings"} -> {1}
                 [] OTHER -> {}
      others == IF T.c = "tagged" THEN Tail(T.of) ELSE <<>>
  IN {[d |-> Lazy(P), how |-> "lazy"], [d |-> Lazy(Fails), how |-> "fails"]}
     \union UNION {{[d |-> Proper(k, n), how |-> "proper"]} \union Variants(k, n) : k \in Range(others)}
     \union {[d |-> w, how |-> "wrong"] : w \in Wrong(T)}
     \union (IF T.c = "option"
             THEN {[d |-> ObjectOf(T.t, T.u, <<Number(0)>>), how |-> "proper"]} ELSE {})
     \union (IF T.c = "either"
             THEN {[d |-> ObjectOf(T.t, T.u, <<Number(0), Proper(T.of[1], 2)>>), how |-> "proper"],
                   [d |-> ObjectOf(T.t, T.u, <<Number(0), Proper(T.of[2], 2)>>), how |-> "wrong"]} ELSE {})
     \union UNION {{[d |-> [P EXCEPT !.of[i] = w.d],
                      how |-> IF T.c \in {"struct", "tagged"} /\ w.how = "fails" THEN "hidden" ELSE w.how] :
                      w \in {x \in Variants(IF T.c = "tagged" THEN T.of[1].of[i] ELSE T.of[i], i) :
                               /\ T.t = "rarray" => x.d.k = "object"
                               /\ x.d.u => T.u}} : i \in Elems}

\* Every place that may be lazy is.
RECURSIVE Lazily(_, _)
Lazily(T, n) ==
  LET P == Proper(T, n)
      of == CASE T.c \in {"tuple", "struct"} -> [i \in DOMAIN T.of |-> Lazily(T.of[i], i)]
              [] T.c = "tagged" -> [i \in DOMAIN P.of |-> Lazily(T.of[1].of[i], i)]
              [] T.c \in {"option", "either"} -> <<Number(1), Lazily(T.of[2], 2)>>
              [] OTHER -> P.of
  IN Lazy([P EXCEPT !.of = of])

Lists(kinds) ==
  LET proper == [i \in DOMAIN kinds |-> Proper(kinds[i], i)]
      lazily == [i \in DOMAIN kinds |-> Lazily(kinds[i], i)]
  IN {[passed |-> proper, how |-> "proper"], [passed |-> lazily, how |-> "lazy"]}
     \union UNION {{[passed |-> [proper EXCEPT ![i] = w.d], how |-> w.how] :
                      w \in Variants(kinds[i], i)} : i \in DOMAIN kinds}

Calls ==
  UNION {{[fun |-> row, passed |-> x.passed, how |-> x.how] : x \in Lists(row.params)}
         \union (IF row.check = row.params THEN {}
                 ELSE {[fun |-> row, passed |-> x.passed, how |-> "other"] :
                         x \in Lists(row.check)}) : row \in Rows}

\* The data d in the heap h, and the value that refers to it.
RECURSIVE Put(_, _)
PutAll(h, ds) ==
  FoldLeft(LAMBDA acc, d : LET p == Put(acc.h, d) IN [h |-> p.h, vs |-> Append(acc.vs, p.v)],
           [h |-> h, vs |-> <<>>], ds)
Put(h, d) ==
  CASE d.k \in {"int", "float"} -> [h |-> h, v |-> V(d.k, d.n)]
    [] d.k = "lazy" -> [h |-> Append(h, Obj("lazy", FALSE, <<>>, d.of)), v |-> V("lazy", Len(h) + 1)]
    [] d.k = "object" ->
         LET p == PutAll(h, d.of)
         IN [h |-> Append(p.h, Obj(d.t, d.u, p.vs, <<>>)), v |-> V("ref", Len(p.h) + 1)]

----------------------------------------------------------------------------
(* The ring of RegisteredReferences.  0 is nullptr.                        *)
NoRefs == [slots |-> <<>>, first |-> 0, last |-> 0]
AddSlot(R, r) == [R EXCEPT !.slots = Append(@, [r |-> r, prev |-> 0, next |-> 0])]

Register(R, j) ==
  LET p == IF R.last # 0 THEN R.last ELSE j
      n == IF R.first # 0 THEN R.first ELSE j
  IN IF R.slots[j].prev # 0 \/ R.slots[j].next # 0 THEN R
     ELSE [slots |-> [k \in DOMAIN R.slots |->
                        [r |-> R.slots[k].r,
                         prev |-> CASE k = j -> p [] k = n -> j [] OTHER -> R.slots[k].prev,
                         next |-> CASE k = j -> n [] k = p -> j [] OTHER -> R.slots[k].next]],
           first |-> IF R.first = 0 THEN j ELSE R.first,
           last |-> j]

\* ~RegisteredReference of the one constructed last.
Destroy(R) ==
  LET j == Len(R.slots)
      s == R.slots[j]
      next(k) == IF k = s.prev THEN s.next ELSE R.slots[k].next
      prev(k) == IF k = s.next THEN s.prev ELSE R.slots[k].prev
  IN IF s.prev = 0 /\ s.next = 0 THEN [R EXCEPT !.slots = Front(@)]
     ELSE [slots |-> [k \in 1 .. j - 1 |-> [r |-> R.slots[k].r, prev |-> prev(k), next |-> next(k)]],
           first |-> IF R.first # j THEN R.first ELSE IF s.next # j THEN s.next ELSE 0,
           last |-> IF R.last # j THEN R.last ELSE IF s.prev # j THEN s.prev ELSE 0]

RECURSIVE DestroyTo(_, _)
DestroyTo(R, n) == IF Len(R.slots) <= n THEN R ELSE DestroyTo(Destroy(R), n)

RECURSIVE Ring(_, _)
Ring(R, seen) ==
  LET on == IF seen = {} THEN {R.first} \ {0} ELSE seen \union {R.slots[j].next : j \in seen}
  IN IF on \subseteq seen THEN seen ELSE Ring(R, on \ {0})

----------------------------------------------------------------------------
(* The machine.  A frame is a function of C++ with the value it works on    *)
(* (a place of the arguments or a local variable), the element of the       *)
(* enclosing object this value is for and the steps left.                   *)
Frame(kind, arg, elem, val, todo) ==
  [kind |-> kind, arg |-> arg, elem |-> elem, val |-> val, todo |-> todo,
   base |-> Len(refs.slots)]
Top == frames[Len(frames)]
Step == Head(Top.todo)
At(what) ==
  /\ pc = "runs" /\ err = None
  /\ Top.todo # <<>> /\ Step[1] = what
Slot == Len(refs.slots)
Cur == IF Top.arg # 0 THEN args[Top.arg] ELSE Top.val
CurObject == heap[Cur.x]

Continue(more) == [frames EXCEPT ![Len(frames)].todo = more \o Tail(@)]
Call(f, more) == Append(Continue(more), f)
SetCur(v, more) ==
  IF Top.arg # 0 THEN /\ args' = [args EXCEPT ![Top.arg] = v]
                      /\ frames' = Continue(more)
  ELSE /\ frames' = [Continue(more) EXCEPT ![Len(frames)].val = v]
       /\ args' = args
Fail(e) == err' = e

\* SetterFunction returns bool: of any error of a setter 1 is left.
NoMemory == IF Top.kind = "set" THEN "no instruction" ELSE "out of memory"
OutOfMemory == Fail(NoMemory) /\ UNCHANGED <<heap, args, frames, refs, gcTmp>>

Begin(c) ==
  LET p == PutAll(<<>>, c.passed) IN
  /\ call = c /\ heap = p.h /\ args = p.vs
  /\ refs = NoRefs /\ gcTmp = 0 /\ tmpR = 0 /\ rv = V("int", 0)
  /\ err = None /\ pc = "runs" /\ lost = {}
  /\ frames = <<[kind |-> "body", arg |-> 0, elem |-> 0, val |-> V("int", 0), base |-> 0,
                 todo |-> <<<<"count">>>> \o [i \in DOMAIN c.fun.check |-> <<"arg", i>>]
                          \o <<<<"convert">>>>]>>

Init == \E c \in Calls : Begin(c)

----------------------------------------------------------------------------
(* The checkers.                                                           *)
Count ==
  /\ At("count")
  /\ IF Len(args) = Len(call.fun.check) THEN frames' = Continue(<<>>) /\ err' = None
     ELSE Fail("incorrect arg count") /\ UNCHANGED frames
  /\ UNCHANGED <<call, heap, args, refs, gcTmp, tmpR, rv, pc, lost>>

Arg ==
  /\ At("arg")
  /\ frames' = Call(Frame("arg", Step[2], 0, Nil,
                          <<<<"force">>, <<"kind", call.fun.check[Step[2]]>>>>), <<>>)
  /\ refs' = AddSlot(refs, 0)
  /\ UNCHANGED <<call, heap, args, gcTmp, tmpR, rv, err, pc, lost>>

\* VirtualMachine::force: the function of a lazy value is run by the
\* interpreter.  force_tuple_elem does not look at its error.
Force ==
  /\ At("force")
  /\ LET lazy == heap[Cur.x]
         p == Put(heap, lazy.of[1])
     IN CASE Cur.k # "lazy" -> /\ frames' = Continue(<<>>)
                               /\ UNCHANGED <<heap, args, gcTmp, tmpR, err>>
          [] Cur.k = "lazy" /\ lazy.e # <<>> -> /\ SetCur(lazy.e[1], <<>>)
                                                /\ UNCHANGED <<heap, gcTmp, tmpR, err>>
          [] Cur.k = "lazy" /\ lazy.e = <<>> /\ lazy.of[1] = Fails ->
               /\ IF Top.kind = "field" THEN frames' = Continue(<<>>) /\ err' = None
                  ELSE Fail("its own") /\ UNCHANGED frames
               /\ gcTmp' = 0 /\ tmpR' = 0
               /\ UNCHANGED <<heap, args>>
          [] OTHER ->
               /\ heap' = [p.h EXCEPT ![Cur.x].e = <<IF IsUnique(p.h, p.v) THEN V("canceled", p.v.x)
                                                     ELSE p.v>>]
               /\ SetCur(p.v, <<>>)
               /\ gcTmp' = 0 /\ tmpR' = 0
               /\ UNCHANGED err
  /\ UNCHANGED <<call, refs, rv, pc, lost>>

\* check_int_value, check_object_value and check_object_value_for_fun up to
\* the copy.
ByFunction(c) == c.c \in {"tagged", "struct", "table", "strings", "native"}
\* Mutant: a unique object is taken for a shared one.
KindErrorOfType(c) ==
  CASE c.c \in {"int", "float"} -> IF Cur.k = c.c THEN None ELSE "incorrect value"
    [] c.c \notin {"int", "float"} /\ Cur.k # "ref" -> "incorrect value"
    [] c.c = "unaccepted" -> "incorrect object"
    [] OTHER -> IF ByFunction(c) \/ CurObject.t = c.t THEN None ELSE "incorrect object"
KindError(c) ==
  CASE c.c \in {"int", "float"} -> IF Cur.k = c.c THEN None ELSE "incorrect value"
    [] c.c \notin {"int", "float"} /\ Cur.k # "ref" -> "incorrect value"
    [] c.c = "unaccepted" -> "incorrect object"
    [] OTHER -> IF CurObject.u = c.u /\ (ByFunction(c) \/ CurObject.t = c.t) THEN None
                ELSE "incorrect object"

\* Mutant: a unique object stays the program's.
CancelsNothing(c) == FALSE
Cancels(c) == ~ByFunction(c) /\ c.c # "own" /\ IsUnique(heap, Cur)

Canceled(v) == IF v.k = "ref" THEN V("canceled", v.x) ELSE v

Rest(c) ==
  CASE c.c \in {"tuple", "option", "either"} -> <<<<"copy", "tuple">>, <<"shape", c>>>>
    [] c.c \in {"struct", "tagged"} -> <<<<"copy", "tuple">>, <<"fun", c>>, <<"cancel">>>>
    [] c.c = "table" -> <<<<"copy", "rarray">>, <<"fun", c>>, <<"cancel">>>>
    [] c.c \in {"strings", "native"} -> <<<<"fun", c>>, <<"cancel">>>>
    [] OTHER -> <<>>

CheckKind ==
  /\ At("kind")
  /\ LET c == Step[2] IN
     IF KindError(c) # None THEN Fail(KindError(c)) /\ UNCHANGED <<args, frames>>
     ELSE /\ SetCur(IF Cancels(c) THEN Canceled(Cur) ELSE Cur, Rest(c))
          /\ UNCHANGED err
  /\ UNCHANGED <<call, heap, refs, gcTmp, tmpR, rv, pc, lost>>

Cancel ==
  /\ At("cancel")
  /\ SetCur(IF IsUnique(heap, Cur) THEN Canceled(Cur) ELSE Cur, <<>>)
  /\ UNCHANGED <<call, heap, refs, gcTmp, tmpR, rv, err, pc, lost>>

\* GarbageCollector::new_object: gc_tmp_ptr is the only root of the block.
Allocate(o) ==
  /\ heap' = Append(heap, o)
  /\ gcTmp' = Len(heap) + 1

\* copy_to_new_tuple, copy_to_new_rarray: a shared object is copied first.
\* Mutant: the elements are forced in the object of the program.
CopiesNothing == FALSE
Copies == CurObject.t = Step[2] /\ ~CurObject.u

Copy ==
  /\ At("copy")
  /\ \/ /\ Copies
        /\ \/ /\ Allocate(CurObject)
              /\ refs' = [refs EXCEPT !.slots[Slot].r = Len(heap) + 1]
              /\ frames' = Continue(<<<<"assign">>>>)
              /\ UNCHANGED <<args, err>>
           \/ OutOfMemory
     \/ /\ ~Copies
        /\ frames' = Continue(<<>>)
        /\ UNCHANGED <<heap, args, refs, gcTmp, err>>
  /\ UNCHANGED <<call, tmpR, rv, pc, lost>>

\* register_ref, and the value is a reference to the new object.
\* Mutant: register_ref is forgotten.
AssignUnregistered ==
  /\ At("assign")
  /\ SetCur(V("ref", refs.slots[Slot].r), <<>>)
  /\ UNCHANGED <<call, heap, refs, gcTmp, tmpR, rv, err, pc, lost>>
Assign ==
  /\ At("assign")
  /\ refs' = Register(refs, Slot)
  /\ SetCur(V("ref", refs.slots[Slot].r), <<>>)
  /\ UNCHANGED <<call, heap, gcTmp, tmpR, rv, err, pc, lost>>

\* check_tuple_value, check_option_value and check_either_value after the copy.
Elements(c) ==
  LET e == CurObject.e
      tagged == Len(e) = 2 /\ e[1].k = "int"
  IN CASE c.c = "tuple" /\ Len(e) = Len(c.of) -> [i \in DOMAIN c.of |-> <<"elem", i, c.of[i]>>]
       [] c.c = "option" /\ e = <<V("int", 0)>> -> <<>>
       [] c.c = "option" /\ e # <<V("int", 0)>> /\ tagged -> <<<<"elem", 2, c.of[2]>>>>
       [] c.c = "either" /\ tagged -> <<<<"elem", 2, c.of[IF e[1].x = 0 THEN 1 ELSE 2]>>>>
       [] OTHER -> <<<<"wrong">>>>

Shape ==
  /\ At("shape")
  /\ IF Elements(Step[2]) = <<<<"wrong">>>> THEN Fail("incorrect object") /\ UNCHANGED frames
     ELSE frames' = Continue(Elements(Step[2])) /\ UNCHANGED err
  /\ UNCHANGED <<call, heap, args, refs, gcTmp, tmpR, rv, pc, lost>>

\* check_elem: tmp_r is registered and holds the lazy value.
Elem ==
  /\ At("elem")
  /\ LET v == CurObject.e[Step[2]] IN
     /\ frames' = Call(Frame("elem", 0, Step[2], v, <<<<"force">>, <<"kind", Step[3]>>>>), <<>>)
     /\ refs' = AddSlot(Register(AddSlot(refs, IF v.k = "lazy" THEN v.x ELSE 0), Slot + 1), 0)
  /\ UNCHANGED <<call, heap, args, gcTmp, tmpR, rv, err, pc, lost>>

\* The functions that check an object: check_timeval and the like.
OfKind(v, k) ==
  IF k.c \in {"int", "tag"} THEN v.k = "int"
  ELSE v.k = "ref" /\ heap[v.x].t = k.t /\ ~heap[v.x].u
IsStruct(o, c) == o.t = "tuple" /\ ~o.u /\ Len(o.e) = Len(c.of)
FunAccepts(c) ==
  LET o == CurObject
  IN CASE c.c = "struct" -> IsStruct(o, c)
       [] c.c = "tagged" -> o.t = "tuple" /\ ~o.u /\ o.e # <<>>
       [] c.c = "strings" -> o.t = c.t /\ ~o.u /\ \A i \in DOMAIN o.e : OfKind(o.e[i], c.of[1])
       [] OTHER -> o.t = c.t /\ o.u = c.u
Parts(c) ==
  CASE c.c = "struct" -> [i \in 1 .. c.n |-> <<"field", i, c.of[i]>>]
    [] c.c = "tagged" -> <<<<"field", 1, IntValue>>, <<"case", c>>>>
    [] c.c = "table" -> [i \in DOMAIN CurObject.e |-> <<"row", i, c.of[1]>>]
    [] OTHER -> <<>>

Fun ==
  /\ At("fun")
  /\ IF FunAccepts(Step[2]) THEN frames' = Continue(Parts(Step[2])) /\ UNCHANGED err
     ELSE Fail("incorrect object") /\ UNCHANGED frames
  /\ UNCHANGED <<call, heap, args, refs, gcTmp, tmpR, rv, pc, lost>>

\* force_tuple_elem, whose error the caller never sees, then the test.
Field ==
  /\ At("field")
  /\ LET v == CurObject.e[Step[2]]
         test == <<"test", Step[2], Step[3]>>
     IN \/ /\ v.k = "lazy"
           /\ refs' = Register(AddSlot(refs, v.x), Slot + 1)
           /\ frames' = Call(Frame("field", 0, Step[2], v, <<<<"force">>>>), <<test>>)
        \/ /\ v.k # "lazy"
           /\ frames' = Continue(<<test>>)
           /\ UNCHANGED refs
  /\ UNCHANGED <<call, heap, args, gcTmp, tmpR, rv, err, pc, lost>>

Test ==
  /\ At("test")
  /\ IF OfKind(CurObject.e[Step[2]], Step[3]) THEN frames' = Continue(<<>>) /\ UNCHANGED err
     ELSE Fail("incorrect object") /\ UNCHANGED frames
  /\ UNCHANGED <<call, heap, args, refs, gcTmp, tmpR, rv, pc, lost>>

\* check_socket_address: the first element says which elements there are.
Alternatives(c) ==
  {a \in Range(c.of) : CurObject.e[1] = V("int", a.of[1].n) /\ IsStruct(CurObject, a)}
Case ==
  /\ At("case")
  /\ IF Alternatives(Step[2]) = {} THEN Fail("incorrect object") /\ UNCHANGED frames
     ELSE /\ \E a \in Alternatives(Step[2]) : frames' = Continue(Tail(Parts(a)))
          /\ UNCHANGED err
  /\ UNCHANGED <<call, heap, args, refs, gcTmp, tmpR, rv, pc, lost>>

\* check_pollfds copies a row: every element of the copy is the i-th of the
\* row.
RowCopy(o, i) == [o EXCEPT !.e = [j \in DOMAIN @ |-> o.e[i]]]
TableRow ==
  /\ At("row")
  /\ LET i == Step[2]
         o == heap[CurObject.e[i].x]
     IN \/ /\ ~IsStruct(o, Step[3])
           /\ Fail("incorrect object")
           /\ UNCHANGED <<heap, args, frames, refs, gcTmp>>
        \/ /\ IsStruct(o, Step[3])
           /\ Allocate(RowCopy(o, i))
           /\ refs' = AddSlot(refs, Len(heap) + 1)
           /\ frames' = Call(Frame("row", 0, i, Nil, <<<<"assign">>>> \o Parts(Step[3])), <<>>)
           /\ UNCHANGED <<args, err>>
        \/ IsStruct(o, Step[3]) /\ OutOfMemory
  /\ UNCHANGED <<call, tmpR, rv, pc, lost>>

\* A function of C++ returns: its value goes to the element it is for (an
\* element checked also on an error) and its registered references end.
Over == Top.todo = <<>> \/ err # None
Outer == frames[Len(frames) - 1]
OuterObject ==
  IF Top.kind = "set" THEN refs.slots[Top.base].r
  ELSE (IF Outer.arg # 0 THEN args[Outer.arg] ELSE Outer.val).x
Kept == Top.elem # 0 /\ (err = None \/ Top.kind \in {"elem", "field"})

Return ==
  /\ pc = "runs" /\ Over /\ Top.kind # "body"
  /\ heap' = IF Kept /\ heap[OuterObject] # Freed
             THEN [heap EXCEPT ![OuterObject].e[Top.elem] = Top.val] ELSE heap
  /\ refs' = DestroyTo(refs, Top.base)
  /\ frames' = IF Top.kind \in {"set", "own"} /\ Top.elem = 0
               THEN [Front(frames) EXCEPT ![Len(frames) - 1].val = Top.val]
               ELSE Front(frames)
  /\ tmpR' = IF Top.kind = "set" /\ Top.elem = 0 /\ err = None /\ refs.slots[Slot].r # 0
             THEN refs.slots[Slot].r ELSE tmpR
  /\ UNCHANGED <<call, args, gcTmp, rv, err, pc, lost>>

----------------------------------------------------------------------------
(* The function itself.                                                    *)
(* convert_args: a converter may refuse what it reads.                     *)
Convert ==
  /\ At("convert")
  /\ \/ \E b \in call.fun.bodies : frames' = Continue(b \o <<<<"outcome">>>>)
     \/ \E s \in call.fun.refused : frames' = Continue(<<<<"return", s>>>>)
  /\ UNCHANGED <<call, heap, args, refs, gcTmp, tmpR, rv, err, pc, lost>>

\* A RegisteredReference of the function, and a new object for it.
Local ==
  /\ At("local")
  /\ refs' = AddSlot(refs, 0)
  /\ frames' = Continue(<<<<"new", Step[2]>>, <<"assign">>>>)
  /\ UNCHANGED <<call, heap, args, gcTmp, tmpR, rv, err, pc, lost>>

New ==
  /\ At("new")
  /\ \/ /\ Allocate(Step[2])
        /\ refs' = [refs EXCEPT !.slots[Slot].r = Len(heap) + 1]
        /\ frames' = Continue(<<>>)
        /\ UNCHANGED <<args, err>>
     \/ OutOfMemory
  /\ UNCHANGED <<call, tmpR, rv, pc, lost>>

\* An element of an object already registered; with a lvalue the object of an
\* argument (system_pollfds_to_object).
Fill ==
  /\ At("fill")
  /\ LET into == IF Step[4] = 0 THEN refs.slots[Slot].r ELSE args[Step[4]].x IN
     \/ /\ heap' = [Append(heap, Step[3]) EXCEPT ![into].e[Step[2]] = V("ref", Len(heap) + 1)]
        /\ gcTmp' = Len(heap) + 1
        /\ frames' = Continue(<<>>)
        /\ UNCHANGED <<args, refs, err>>
     \/ OutOfMemory
  /\ UNCHANGED <<call, tmpR, rv, pc, lost>>

\* An element of one registered object is the object of another; the
\* references of a block of C++ end with it.
Registered(i) == refs.slots[Top.base + i].r
PutElem ==
  /\ At("put")
  /\ heap' = [heap EXCEPT ![Registered(Step[2])].e[Step[3]] = V("ref", Registered(Step[4]))]
  /\ frames' = Continue(<<>>)
  /\ UNCHANGED <<call, args, refs, gcTmp, tmpR, rv, err, pc, lost>>
Drop ==
  /\ At("drop")
  /\ refs' = DestroyTo(refs, Top.base + Step[2])
  /\ frames' = Continue(<<>>)
  /\ UNCHANGED <<call, heap, args, gcTmp, tmpR, rv, err, pc, lost>>

\* The system answers; exit and execve may not return.
Outcome ==
  /\ At("outcome")
  /\ \E s \in call.fun.returns : frames' = Continue(<<<<"return", s>>>>)
  /\ UNCHANGED <<call, heap, args, refs, gcTmp, tmpR, rv, err, pc, lost>>
Gone ==
  /\ At("outcome") /\ call.fun.ends
  /\ pc' = "gone"
  /\ UNCHANGED <<call, heap, args, frames, refs, gcTmp, tmpR, rv, err, lost>>

----------------------------------------------------------------------------
(* The setters, which build the value returned.                            *)
Setter(c, of, kind, x) == [c |-> c, of |-> of, kind |-> kind, x |-> x]

\* An object as its function makes it; the objects it holds come later.
Fresh(T) ==
  Obj(T.t, T.u,
      CASE T.c = "struct" -> [i \in DOMAIN T.of |-> CASE T.of[i].c = "int" -> V("int", Answer)
                                                   [] T.of[i].c = "tag" -> V("int", T.of[i].n)
                                                   [] OTHER -> Nil]
        [] T.c = "table" -> <<Nil, Nil>>
        [] T.c = "strings" -> <<Nil>>
        [] OTHER -> <<>>, <<>>)
Fills(T, arg) ==
  LET inner(i) == IF T.c = "struct" THEN T.of[i] ELSE T.of[1]
      places == IF T.c \in {"struct", "table", "strings"}
                THEN SelectSeq([i \in DOMAIN Fresh(T).e |-> i], LAMBDA i : inner(i).c \notin {"int", "tag"})
                ELSE <<>>
  IN [k \in DOMAIN places |-> <<"fill", places[k], Fresh(inner(places[k])), arg>>]

\* ValueSetter gives a canceled reference back.  An index past the last
\* argument reads what lies behind them.
Given(i) ==
  CASE i \notin DOMAIN args -> V("garbage", 0)
    [] i \in DOMAIN args /\ args[i].k = "canceled" -> V("ref", args[i].x)
    [] OTHER -> args[i]

Simple(s) ==
  CASE s.c \in {"int", "float"} -> V(s.c, s.x)
    [] s.c = "value" -> Given(s.x)
    [] s.c = "local" -> V("ref", refs.slots[s.x].r)

\* return_value_for_setter_fun, set_elem: one RegisteredReference, for the
\* object the setter makes.
SetterFrame(s, elem) ==
  Frame(IF s.c = "own" THEN "own" ELSE "set", 0, elem, Nil, <<<<"set", s>>>>)
ReturnValue ==
  /\ \/ At("return") /\ frames' = Call(SetterFrame(Step[2], 0), <<>>)
     \/ At("setelem") /\ frames' = Call(SetterFrame(Step[3], Step[2]), <<>>)
  /\ refs' = AddSlot(refs, 0)
  /\ UNCHANGED <<call, heap, args, gcTmp, tmpR, rv, err, pc, lost>>

\* set_tuple_value registers the tuple when its elements are set; the
\* functions set_new_... register their object first.
Steps(s) ==
  CASE s.c = "tuple" ->
         <<<<"new", Obj("tuple", s.x = 1, [i \in DOMAIN s.of |-> V("int", 0)], <<>>)>>>>
         \o [i \in DOMAIN s.of |-> <<"setelem", i, s.of[i]>>] \o <<<<"assign">>>>
    [] s.c = "object" -> <<<<"new", Fresh(s.kind)>>, <<"assign">>>> \o Fills(s.kind, 0)
    [] s.c = "list" -> s.of
    [] s.c = "own" ->
         (IF \E i \in DOMAIN s.of : s.of[i].c = "string" THEN <<<<"ownstring">>>> ELSE <<>>)
         \o <<<<"own", s.of>>>>

Set ==
  /\ At("set")
  /\ IF Step[2].c \in {"int", "float", "value", "local"} THEN SetCur(Simple(Step[2]), <<>>)
     ELSE frames' = Continue(Steps(Step[2])) /\ UNCHANGED args
  /\ UNCHANGED <<call, heap, refs, gcTmp, tmpR, rv, err, pc, lost>>

\* DefaultNativeFunctionHandler::invoke makes its values by itself: a string
\* waits in regs.tmp_r, a reference is canceled when the tuple has it.
OwnString ==
  /\ At("ownstring")
  /\ \/ /\ Allocate(Obj("iarray8", FALSE, <<>>, <<>>))
        /\ tmpR' = Len(heap) + 1
        /\ frames' = Continue(<<>>)
        /\ UNCHANGED <<args, refs, err>>
     \/ OutOfMemory /\ UNCHANGED tmpR
  /\ UNCHANGED <<call, rv, pc, lost>>

OwnValue ==
  /\ At("own")
  /\ LET of == Step[2]
         value(s) == CASE s.c = "int" -> V("int", s.x)
                       [] s.c = "value" -> args[s.x]
                       [] s.c = "string" -> V("ref", tmpR)
         has(c) == \E i \in DOMAIN of : of[i].c = c
     IN \/ /\ Allocate(IF of = <<>> THEN Obj("iarray8", FALSE, <<>>, <<>>)
                       ELSE Obj("tuple", TRUE, [i \in DOMAIN of |-> value(of[i])], <<>>))
           /\ args' = [i \in DOMAIN args |->
                         IF has("value") /\ IsUnique(heap, args[i]) THEN Canceled(args[i]) ELSE args[i]]
           /\ frames' = [Continue(<<>>) EXCEPT ![Len(frames)].val = V("ref", Len(heap) + 1)]
           /\ tmpR' = IF has("string") THEN Len(heap) + 1 ELSE tmpR
           /\ UNCHANGED <<refs, err>>
        \/ OutOfMemory /\ UNCHANGED tmpR
  /\ UNCHANGED <<call, rv, pc, lost>>

\* The function returns, then invoke_native_fun's caller has its value.
Leave ==
  /\ pc = "runs" /\ Over /\ Top.kind = "body"
  /\ refs' = DestroyTo(refs, 0)
  /\ pc' = "left"
  /\ UNCHANGED <<call, heap, args, frames, gcTmp, tmpR, rv, err, lost>>

Arrive ==
  /\ pc = "left"
  /\ rv' = IF err = None THEN Top.val ELSE V("int", 0)
  /\ args' = <<>> /\ frames' = <<>> /\ gcTmp' = 0
  /\ pc' = "done"
  /\ UNCHANGED <<call, heap, refs, tmpR, err, lost>>

----------------------------------------------------------------------------
(* The collector: of the block of gc_tmp_ptr it marks the header only.  The *)
(* io object is immortal.                                                  *)
Refers(vs) == {v.x : v \in {w \in vs : IsRef(w)}}
RECURSIVE Reach(_)
Reach(ids) ==
  LET next == ids \union UNION {Refers(Range(heap[i].e)) : i \in ids}
  IN IF next = ids THEN ids ELSE Reach(next)

Roots ==
  Refers(Range(args) \union {rv}) \union ({tmpR} \ {0})
  \union ({refs.slots[j].r : j \in Ring(refs, {})} \ {0})
  \union {i \in DOMAIN heap : heap[i].t = "io"}
Garbage == {i \in DOMAIN heap : heap[i] # Freed} \ (Reach(Roots) \union {gcTmp})

\* A tuple whose elements are being set has no root once another object is
\* allocated; neither has the value of a function that returns a reference
\* of its own.
Waiting ==
  {refs.slots[j].r : j \in {k \in DOMAIN refs.slots : /\ refs.slots[k].prev = 0
                                                      /\ \E f \in Range(frames) : f.kind = "set" /\ f.base + 1 = k}}
  \ {0, gcTmp}
Returned == IF pc = "left" /\ err = None THEN Refers({Top.val}) ELSE {}
Exposed ==
  Reach(Waiting)
  \union (IF \E s \in call.fun.returns : s.c = "local" THEN Reach(Returned) ELSE {})

Collect ==
  /\ pc \in {"runs", "left", "done"}
  /\ Garbage # {}
  /\ heap' = [i \in DOMAIN heap |-> IF i \in Garbage THEN Freed ELSE heap[i]]
  /\ lost' = lost \union (Garbage \intersect Exposed)
  /\ UNCHANGED <<call, args, frames, refs, gcTmp, tmpR, rv, err, pc>>

Checks == Count \/ Arg \/ Force \/ CheckKind \/ Cancel \/ Copy \/ Assign \/ Shape \/ Elem
          \/ Fun \/ Field \/ Test \/ Case \/ TableRow
Works == Convert \/ Local \/ New \/ Fill \/ PutElem \/ Drop \/ Outcome \/ Gone
Sets == ReturnValue \/ Set \/ OwnString \/ OwnValue
Rests == pc \in {"done", "gone"} /\ UNCHANGED vars

Next == Checks \/ Works \/ Sets \/ Return \/ Leave \/ Arrive \/ Collect \/ Rests
Spec == Init /\ [][Next]_vars

----------------------------------------------------------------------------
\* What the call uses: its arguments, the values and the references of the
\* functions of C++ that run, what it returns.
Values == {f.val : f \in {g \in Range(frames) : g.kind # "body"}}
InUse ==
  Reach(Refers(Range(args) \union Values \union {rv})
        \union ({refs.slots[j].r : j \in DOMAIN refs.slots} \ {0}) \union Returned)

\* The collector frees nothing that a running call of a native function still
\* uses, whatever step of a checker or a setter it comes at, except by the
\* paths Exposed names (the tuples of set_tuple_value, include/letin/native.hpp
\* 602-610, and the result of posix.environ).
InUseNotFreedUnlessExposed == \A i \in InUse : heap[i] = Freed => i \in lost

\* A unique object that a program hands to a native function has one live
\* reference at most, and no shared object holds it: the reference a checker
\* cancels is given back by one setter only.
Live == {<<"arg", 0, i>> : i \in DOMAIN args} \union {<<"rv", 0, 1>>}
        \union UNION {{<<"elem", o, i>> : i \in DOMAIN heap[o].e} : o \in DOMAIN heap}
LiveValue(p) ==
  CASE p[1] = "arg" -> args[p[3]]
    [] p[1] = "rv" -> (IF pc = "left" THEN Top.val ELSE rv)
    [] OTHER -> heap[p[2]].e[p[3]]
UniqueGivenBackOnce ==
  LET live == {p \in Live : IsUnique(heap, LiveValue(p))} IN
  /\ \A p, q \in live : LiveValue(p) = LiveValue(q) => p = q
  /\ call.fun \in Undocumented
     \/ \A p \in live : p[1] = "elem" => heap[p[2]].u

RECURSIVE Conforms(_, _)
Conforms(v, T) ==
  IF T.c \in {"int", "float"} THEN v.k = T.c
  ELSE IF T.c = "tag" THEN v = V("int", T.n)
  ELSE IF T.c = "tagged" THEN \E i \in DOMAIN T.of : Conforms(v, T.of[i])
  ELSE /\ v.k \in {"ref", "canceled"} /\ v.x # 0
       /\ LET o == heap[v.x]
              is(e) == Len(o.e) = Len(e) /\ \A i \in DOMAIN e : Conforms(o.e[i], e[i])
              tag(n) == o.e # <<>> /\ o.e[1] = V("int", n)
          IN /\ o.t = T.t /\ o.u = T.u
             /\ CASE T.c \in {"tuple", "struct"} -> is(T.of)
                  [] T.c = "option" -> (tag(0) /\ Len(o.e) = 1) \/ (tag(1) /\ is(T.of))
                  [] T.c = "either" -> (tag(0) /\ is(<<IntValue, T.of[1]>>)) \/ (tag(1) /\ is(<<IntValue, T.of[2]>>))
                  [] T.c = "list" -> (tag(0) /\ Len(o.e) = 1) \/ (tag(1) /\ is(<<IntValue, T.of[1], T>>))
                  [] T.c \in {"table", "strings"} -> \A i \in DOMAIN o.e : Conforms(o.e[i], T.of[1])
                  [] OTHER -> TRUE

\* A function accepts what its comment says (evaluated or not), refuses what
\* it does not, ends with the error of the argument that could not be
\* evaluated, and returns what its comment says; except the functions that
\* Undocumented names.  The elements a function of the library forces hide
\* their error (force_tuple_elem, vm/vm.cpp:548).
Memory == {"out of memory", "no instruction"}
CallsAsDocumented ==
  pc = "done" /\ lost = {} /\ call.fun \notin Undocumented =>
    /\ call.how \in {"proper", "lazy"} => err \in {None} \union Memory
    /\ call.how = "fails" => err \in {"its own"} \union Memory
    /\ call.how \in {"hidden", "wrong"} => err \notin {None, "its own"}
    /\ err = None => Conforms(rv, call.fun.result)

RECURSIVE Intended(_), Deep(_)
Intended(d) ==
  IF d.k = "lazy" THEN Intended(d.of[1])
  ELSE [d EXCEPT !.of = [i \in DOMAIN d.of |-> Intended(d.of[i])]]
Deep(v) ==
  IF v.k \in {"ref", "canceled"}
  THEN ObjectOf(heap[v.x].t, heap[v.x].u, [i \in DOMAIN heap[v.x].e |-> Deep(heap[v.x].e[i])])
  ELSE D(v.k, "", FALSE, <<>>, v.x)

\* When the arguments are checked the converters find in them what they read
\* and what the program has passed, evaluated; and the shared objects of the
\* program are as they were: a checker forces elements in a copy.
ConvertedAsPassed ==
  At("convert") =>
    /\ call.fun \in Unconverted \/ \A i \in DOMAIN call.fun.reads :
         /\ i \in DOMAIN args
         /\ Conforms(args[i], call.fun.reads[i])
         /\ Deep(args[i]) = Intended(call.passed[i])
    /\ LET h == PutAll(<<>>, call.passed).h
       IN \A i \in DOMAIN h : (heap[i] # Freed /\ h[i].t # "lazy" /\ ~h[i].u) => heap[i].e = h[i].e
=============================================================================
