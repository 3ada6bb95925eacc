---------------------------- MODULE UniqueObjects ----------------------------
(***************************************************************************)
(* What the instructions of a function do with references: get_int,       *)
(* get_float and get_ref, interpret_op and the end of interpret_instr of   *)
(* vm/vm/interp_vm.cpp, for one frame of one thread.                       *)
(*                                                                         *)
(* A unique object may have one reference.  An instruction that uses it    *)
(* cancels the reference; if a later operand is lazy the instruction is    *)
(* broken off, its cancelations undone, and it is begun again when the     *)
(* function of the lazy value has returned.                                *)
(*                                                                         *)
(* Operations are grouped by their operands; integers and floats are       *)
(* numbers without a value, so a length, an index or a count is any one,   *)
(* and an array of numbers has no elements.                                *)
(* The functions that are called are known by what they may return.        *)
(***************************************************************************)
EXTENDS Naturals, Sequences, FiniteSets

CONSTANTS
  Objs,        \* the places of the heap
  Global,      \* the object of a global variable
  None,
  MaxLength,   \* of an object
  MaxSlots     \* local variables, arguments, pushed arguments, expression values

ASSUME UniqueObjectsAssumption ==
  /\ Global \notin Objs
  /\ None \notin Objs \union {Global}
  /\ IsFiniteSet(Objs)
  /\ MaxLength \in Nat /\ MaxSlots \in Nat \ {0}

VARIABLES
  heap,        \* the objects
  vars,        \* the frame: local variables and arguments
  args,        \* pushed arguments
  evs,         \* expression values
  tmp,         \* tmp_expr_values
  saved,       \* the pushed tmp_value of lettuple
  tryArg,      \* try_arg2, for who catches an error
  pc,
  sig,         \* what the operands of the instruction must be
  ops,         \* its operands
  got,         \* the operands that it has got
  undo,        \* cancelation_undo_types: places, with what was there
  at,          \* the place whose lazy value is being forced
  forcing,     \* the lazy value whose function runs
  resumed,     \* after_leaving_flags[1]
  rv,
  began,       \* history: the frame as the instruction found it
  exposed      \* history: a known path has duplicated a unique object

frame == <<vars, args, evs>>
instruction == <<sig, ops, began>>
progress == <<tmp, saved, got, undo>>
force == <<at, forcing, resumed>>
others == <<tryArg, rv, exposed>>
allVars == <<heap, frame, instruction, progress, force, others, pc>>

----------------------------------------------------------------------------
(* Values and objects.                                                     *)
V(t, r) == [t |-> t, r |-> r]
Num == V("num", None)
Canceled == V("canceled", None)
Error == V("error", None)

Everything == Objs \union {Global}

Object(kind, unique, elems) ==
  [kind |-> kind, unique |-> unique, elems |-> elems,
   val |-> Error, vt |-> "num", share |-> FALSE, ran |-> FALSE]

Free == Object("free", FALSE, <<>>)

LazyValue(vt, a) == [Object("lazy", FALSE, a) EXCEPT !.vt = vt]

IsUnique(v) == v.t = "ref" /\ heap[v.r].unique
IsLazy(v) == v.t \in {"lazy", "lazyc"}

(* Value::lazily_cancel_ref, for a lazy value.                             *)
Lazily(v) == IF IsLazy(v) THEN V("lazyc", v.r) ELSE v

(* cancel_ref_for_unique.                                                  *)
AfterUse(v) == IF IsUnique(v) THEN Canceled ELSE Lazily(v)

ToSet(s) == {s[i] : i \in DOMAIN s}

(* What can be reached from a set of values: the rest of the heap is free. *)
Children(h, o) == {v.r : v \in ToSet(h[o].elems) \union {h[o].val}} \ {None}

Reach(h, values) ==
  LET R[n \in 0 .. Cardinality(Objs)] ==
        IF n = 0 THEN {v.r : v \in values} \ {None}
        ELSE R[n - 1] \union UNION {Children(h, o) : o \in R[n - 1]}
  IN R[Cardinality(Objs)] \union {Global}

Collected(h, values) ==
  LET live == Reach(h, values)
  IN [o \in Everything |-> IF o \in live THEN h[o] ELSE Free]

FreeObjs == {o \in Objs : heap[o].kind = "free"}

Slot(p) == CASE p[1] = "vars" -> vars[p[2]]
             [] p[1] = "args" -> args[p[2]]
             [] p[1] = "evs"  -> evs[p[2]]
             [] p[1] = "tmp"  -> tmp[p[2]]

(* The frame and the temporary values with the values of a set of places   *)
(* changed.                                                                *)
With(name, s, changes) ==
  [i \in DOMAIN s |->
    IF \E c \in changes : c[1] = <<name, i>>
    THEN (CHOOSE c \in changes : c[1] = <<name, i>>)[2]
    ELSE s[i]]

SetSlots(changes) ==
  /\ vars' = With("vars", vars, changes)
  /\ args' = With("args", args, changes)
  /\ evs' = With("evs", evs, changes)
  /\ tmp' = With("tmp", tmp, changes)

(* The bound on the values of the frame, these beside its local variables   *)
(* and expression values.                                                  *)
Used(s) == Len(vars) + Len(evs) + Len(s) + (IF tryArg = Error THEN 0 ELSE 1)

Init ==
  /\ heap = [o \in Everything |-> IF o = Global THEN Object("nums", FALSE, <<>>) ELSE Free]
  /\ vars = <<>> /\ args = <<>> /\ evs = <<>>
  /\ tmp = <<Error, Error>> /\ saved = Error
  /\ tryArg = Error
  /\ pc = "idle"
  /\ sig = <<>> /\ ops = <<>>
  /\ got = <<>> /\ undo = {}
  /\ at = None /\ forcing = None /\ resumed = FALSE
  /\ rv = Num
  /\ began = <<>>
  /\ exposed = FALSE

----------------------------------------------------------------------------
(* The ways an instruction ends.                                           *)
ClearInstruction ==
  /\ sig' = <<>> /\ ops' = <<>> /\ began' = <<>>
  /\ tmp' = <<Error, Error>> /\ saved' = Error /\ got' = <<>> /\ undo' = {}
  /\ at' = None /\ forcing' = None /\ resumed' = FALSE /\ rv' = Num

NoInstruction == pc' = "idle" /\ ClearInstruction

(* The objects the frame does not reach are collected.                     *)
Collect(h) ==
  LET roots == ToSet(vars') \union ToSet(args') \union ToSet(evs') \union {tryArg'}
  IN /\ heap' = Collected(h, roots)
     /\ exposed' = (exposed /\ \E o \in Objs : heap'[o] # Free)

(* set_error: the handler of the try is given its argument and the         *)
(* exception; without a try the thread ends, and another program begins.   *)
SetErrorIn(h, thrown) ==
  /\ vars' = IF tryArg = Error THEN <<>>
             ELSE IF thrown.t = "ref" THEN <<tryArg, thrown>> ELSE <<tryArg>>
  /\ args' = <<>> /\ evs' = <<>> /\ tryArg' = Error
  /\ NoInstruction
  /\ Collect(h)

SetError(thrown) == SetErrorIn(heap, thrown)

Fails == SetError(Num)

(* Undefined behaviour: a write past an object, a value that was never     *)
(* written, a mutex unlocked that is not locked.  Nothing is said of what  *)
(* comes after it.                                                         *)
Undefined ==
  /\ vars' = <<>> /\ args' = <<>> /\ evs' = <<>> /\ tryArg' = Error
  /\ pc' = "undefined"
  /\ ClearInstruction
  /\ Collect(heap)

(* The value of an operation is pushed as an argument, if the instruction  *)
(* is arg (arg_instr_flag), or becomes a local variable or an expression   *)
(* value or is returned, or is taken apart by lettuple.                    *)
PushArg(v) ==
  /\ args' = Append(args, v)
  /\ UNCHANGED <<vars, evs, tryArg>>
  /\ NoInstruction

Allocate(v) ==
  /\ args' = <<>>
  /\ \/ Used(<<>>) < MaxSlots /\ vars' = Append(vars, v) /\ UNCHANGED <<evs, tryArg>>
     \/ Used(<<>>) < MaxSlots /\ evs' = Append(evs, v) /\ UNCHANGED <<vars, tryArg>>
     \/ vars' = <<v>> /\ evs' = <<>> /\ tryArg' = Error
  /\ NoInstruction

BeginLetTuple(v) ==
  /\ args' = <<>>
  /\ pc' = "operand"
  /\ sig' = <<"ref">> /\ ops' = <<[k |-> "saved", i |-> 1]>>
  /\ saved' = v /\ got' = <<>>
  /\ began' = <<vars, <<>>, evs>>
  /\ UNCHANGED <<vars, evs, tmp, undo, force, others>>

Finish(arg, v, h) ==
  \/ arg /\ PushArg(v) /\ Collect(h)
  \/ ~arg /\ Allocate(v) /\ Collect(h)
  \/ ~arg /\ BeginLetTuple(v) /\ heap' = h

(* A new object; the operation may fail for want of memory                 *)
(* (ERROR_OUT_OF_MEMORY).                                                  *)
FinishNew(arg, object) ==
  \/ \E o \in FreeObjs : Finish(arg, V("ref", o), [heap EXCEPT ![o] = object])
  \/ Fails

(* new_unique_pair, with the first value's place afterwards: RUTNTH        *)
(* cancels what it takes out of a tuple.                                   *)
FinishPair(arg, v, r, h) ==
  \/ \E o \in FreeObjs :
       Finish(arg, V("ref", o), [h EXCEPT ![o] = Object("tuple", TRUE, <<v, V("ref", r)>>)])
  \/ Fails

----------------------------------------------------------------------------
(* The operands: local variable or argument, popped or kept expression     *)
(* value, constant; of lettuple the saved value, of R*SNTH a pushed        *)
(* argument.                                                               *)
Pops(o) == {j \in DOMAIN o : o[j].k = "pop"}

Operands(o) == {j \in DOMAIN o : o[j].k # "pushed"}

(* The immediate values and global variables, which are shared, are got as *)
(* they are.                                                               *)
ConstantOperands(s, o) ==
  [j \in {i \in DOMAIN o : o[i].k = "const"} |->
    IF s[j] = "ref" THEN V("ref", Global) ELSE Num]

(* What comes after operands have been got: another one; pop_expr_values;  *)
(* the pushed argument; the operation.                                     *)
After(o, g, popped) ==
  IF \E j \in Operands(o) : j \notin DOMAIN g THEN "operand"
  ELSE IF Pops(o) # {} /\ ~popped THEN "pop"
  ELSE IF DOMAIN o # DOMAIN g THEN "pushed" ELSE "ready"

(* Where the value of an operand is: of a pop operand, which is read       *)
(* before it is popped, on the expression stack.                           *)
PopsBefore(o, j) == Cardinality({i \in Pops(o) : i < j})

ValuePlace(o, j) ==
  LET left == Len(evs) - Cardinality(Pops(o))
  IN CASE o[j].k = "var" -> <<"vars", o[j].i>>
       [] o[j].k \in {"arg", "pushed"} -> <<"args", o[j].i>>
       [] o[j].k = "pop" -> <<"evs", left + PopsBefore(o, j) + 1>>
       [] o[j].k = "eval" -> <<"evs", left>>

(* Where it is forced and canceled: a pop operand in tmp_expr_values.      *)
Place(j) ==
  CASE ops[j].k = "pop" -> <<"tmp", PopsBefore(ops, j) + 1>>
    [] ops[j].k = "saved" -> <<"tmp", 1>>
    [] OTHER -> ValuePlace(ops, j)

Here == CHOOSE j \in DOMAIN ops \ DOMAIN got :
          \A i \in DOMAIN ops \ DOMAIN got : j <= i

InOperand == pc \in {"operand", "pushed"}

(* There is nothing on the expression stack when an instruction that has   *)
(* popped its operands is begun again.                                     *)
Missing ==
  ops[Here].k \in {"pop", "eval"} /\ ValuePlace(ops, Here)[2] \notin DOMAIN evs

Read == IF ops[Here].k = "saved" THEN saved ELSE Slot(ValuePlace(ops, Here))

(* tmp_expr_values with what was read, of a pop operand.                   *)
Loaded == IF Place(Here)[1] = "tmp" THEN {<<Place(Here), Read>>} ELSE {}

Take(v) ==
  /\ got' = [j \in DOMAIN got \union {Here} |-> IF j = Here THEN v ELSE got[j]]
  /\ pc' = After(ops, got', ops[Here].k = "pushed")

(* get_int, get_float: a number.                                           *)
GetNumber ==
  /\ InOperand /\ ~Missing
  /\ sig[Here] \in {"num", "arg", "value"}
  /\ Read.t = "num"
  /\ SetSlots(Loaded)
  /\ Take(Num)
  /\ UNCHANGED <<heap, saved, undo, instruction, force, others>>

(* Mutant: the reference is not canceled.                                  *)
GetRefKeeps ==
  /\ InOperand /\ ~Missing
  /\ sig[Here] \in {"ref", "value"}
  /\ Read.t = "ref"
  /\ Take(Read)
  /\ SetSlots(Loaded)
  /\ UNCHANGED <<heap, saved, undo, instruction, force, others>>

(* get_ref, get_ref_value: a reference, canceled if the object is unique.  *)
GetRef ==
  /\ InOperand /\ ~Missing
  /\ sig[Here] \in {"ref", "value"}
  /\ Read.t = "ref"
  /\ Take(Read)
  /\ IF IsUnique(Read)
     THEN SetSlots({<<Place(Here), Canceled>>}) /\ undo' = undo \union {<<Place(Here), Read>>}
     ELSE SetSlots(Loaded) /\ UNCHANGED undo
  /\ UNCHANGED <<heap, saved, instruction, force, others>>

(* get_int_value, get_float_value, get_ref_value: a lazy value is copied,  *)
(* and one of a reference canceled lazily.                                 *)
GetLazy ==
  /\ InOperand /\ ~Missing
  /\ sig[Here] = "value"
  /\ IsLazy(Read)
  /\ Take(Read)
  /\ SetSlots(IF heap[Read.r].vt = "ref" THEN {<<Place(Here), Lazily(Read)>>} ELSE Loaded)
  /\ UNCHANGED <<heap, saved, undo, instruction, force, others>>

(* force_pushed_args leaves what is not lazy alone.                        *)
GetArg ==
  /\ InOperand
  /\ sig[Here] = "arg"
  /\ Read.t \in {"ref", "canceled"}
  /\ Take(Read)
  /\ UNCHANGED <<heap, frame, tmp, saved, undo, instruction, force, others>>

Forces == IsLazy(Read) /\ (sig[Here] = "arg" \/ sig[Here] = heap[Read.r].vt)

(* get_int, get_float, get_ref: the value is forced where it is.           *)
BeginForce ==
  /\ InOperand /\ ~Missing
  /\ Forces
  /\ SetSlots(Loaded)
  /\ pc' = "force" /\ at' = Place(Here)
  /\ UNCHANGED <<heap, got, saved, undo, instruction, forcing, resumed, others>>

(* No value, one of another type, or a canceled reference.                 *)
GetFails ==
  /\ InOperand
  /\ \/ Missing
     \/ ~Missing /\ sig[Here] = "num" /\ Read.t # "num" /\ ~Forces
     \/ ~Missing /\ sig[Here] = "ref" /\ Read.t # "ref" /\ ~Forces
     \/ ~Missing /\ sig[Here] = "value" /\ Read.t = "canceled"
  /\ Fails

----------------------------------------------------------------------------
(* force_value, one turn of its loop, for the lazy value at a place.       *)
Lazy == Slot(at).r
L == heap[Lazy]

(* Mutant: the cancelations are not undone.                                *)
EnterFunctionOnly ==
  /\ pc = "force"
  /\ L.val = Error /\ ~resumed
  /\ pc' = "callee" /\ forcing' = Lazy
  /\ heap' = [heap EXCEPT ![Lazy].ran = TRUE]
  /\ exposed' = (exposed \/ (L.ran /\ \E v \in ToSet(L.elems) : IsUnique(v)))
  /\ UNCHANGED <<frame, tmp, undo, got, saved, at, resumed, instruction, tryArg, rv>>

(* There is no value: the mutex is locked, the function entered with the   *)
(* arguments, which stay in the lazy value, and the cancelations undone.   *)
EnterFunction ==
  /\ pc = "force"
  /\ L.val = Error /\ ~resumed
  /\ pc' = "callee" /\ forcing' = Lazy
  /\ heap' = [heap EXCEPT ![Lazy].ran = TRUE]
  /\ exposed' = (exposed \/ (L.ran /\ \E v \in ToSet(L.elems) : IsUnique(v)))
  /\ SetSlots(undo) /\ undo' = {}
  /\ UNCHANGED <<got, saved, at, resumed, instruction, tryArg, rv>>

(* What a function with these arguments may return for a value of a type:  *)
(* a constant, an argument, or a unique object of its own.                 *)
Passed(a, vt) ==
  {v \in ToSet(a) : IF vt = "num" THEN v.t = "num" ELSE v.t = "ref"}
    \union {v \in ToSet(a) : IsLazy(v) /\ heap[v.r].vt = vt}

Constants(vt) == IF vt = "num" THEN {Num} ELSE {V("ref", Global)}

(* The function of the lazy value returns, and the instruction is begun    *)
(* again: interpret_instr with after_leaving_flags[1].                     *)
Return ==
  /\ pc = "callee"
  /\ LET a == heap[forcing].elems
         vt == heap[forcing].vt
     IN \/ rv' \in Passed(a, vt) \union Constants(vt) /\ UNCHANGED heap
        \/ \E o \in FreeObjs :
             /\ vt = "ref"
             /\ rv' = V("ref", o)
             /\ heap' = [heap EXCEPT ![o] = Object("nums", TRUE, <<>>)]
  /\ resumed' = TRUE
  /\ got' = ConstantOperands(sig, ops) /\ undo' = {}
  /\ pc' = "operand"
  /\ UNCHANGED <<frame, instruction, tmp, saved, at, forcing, tryArg, exposed>>

(* Its function ends with an error, thrown with one of its arguments or    *)
(* without.                                                                *)
Throws ==
  /\ pc = "callee"
  /\ \E v \in {Num} \union Passed(heap[forcing].elems, "ref") : SetError(v)

(* The function has returned: the mutex is adopted and the value stored;   *)
(* the arguments are not used again.                                       *)
StoreValue ==
  /\ pc = "force"
  /\ resumed /\ Lazy = forcing
  /\ heap' = [heap EXCEPT ![Lazy].val = rv, ![Lazy].elems = <<>>, ![Lazy].ran = FALSE]
  /\ resumed' = FALSE
  /\ UNCHANGED <<frame, instruction, progress, at, forcing, others, pc>>

(* The instruction was begun again and came first to another lazy value    *)
(* than the one that is locked: the mutex of that one is adopted too.      *)
AdoptUnlocked ==
  /\ pc = "force"
  /\ resumed /\ Lazy # forcing
  /\ Undefined

(* Mutant: the value is got and not stored where it was forced.            *)
ForcedCopy(v) ==
  /\ Take(v)
  /\ at' = None
  /\ UNCHANGED <<frame, tmp, exposed>>

(* A forced operand is got: an expression value is written back, and the   *)
(* reference to a unique object is not canceled.                           *)
Forced(v) ==
  /\ SetSlots({<<at, v>>} \union
       IF ops[Here].k = "pop" THEN {<<ValuePlace(ops, Here), v>>} ELSE {})
  /\ Take(v)
  /\ at' = None
  /\ exposed' = (exposed \/ (sig[Here] = "ref" /\ IsUnique(v) /\ ops[Here].k # "saved"))

(* force_value, its end: the mutex is unlocked, and a unique object taken  *)
(* out of the lazy value.                                                  *)
TakeValue ==
  /\ pc = "force"
  /\ L.val # Error /\ ~resumed
  /\ \/ /\ L.val.t \in {"num", "ref"} /\ ~IsUnique(L.val)
        /\ Forced(L.val)
        /\ UNCHANGED heap
     \/ /\ IsLazy(L.val)
        /\ SetSlots({<<at, L.val>>})
        /\ UNCHANGED <<heap, got, pc, at, exposed>>
     \/ /\ IsUnique(L.val) /\ ~L.share /\ Slot(at).t = "lazy"
        /\ Forced(L.val)
        /\ heap' = [heap EXCEPT ![Lazy].val = Canceled]
  /\ forcing' = None
  /\ UNCHANGED <<instruction, saved, undo, resumed, tryArg, rv>>

(* It was taken before, or must not be given: it is canceled all the same. *)
TakeFails ==
  /\ pc = "force"
  /\ L.val # Error /\ ~resumed
  /\ L.val = Canceled \/ (IsUnique(L.val) /\ (L.share \/ Slot(at).t = "lazyc"))
  /\ SetErrorIn([heap EXCEPT ![Lazy].val = Canceled], Num)

(* pop_expr_values, between the operands and the operation.                *)
PopOperands ==
  /\ pc = "pop"
  /\ LET n == Len(evs) - Cardinality(Pops(ops))
     IN IF Cardinality(Pops(ops)) > Len(evs) THEN Fails
        ELSE /\ evs' = SubSeq(evs, 1, n)
             /\ pc' = After(ops, got, TRUE)
             /\ UNCHANGED <<heap, vars, args, instruction, progress, force, others>>

----------------------------------------------------------------------------
(* interpret_op, when the operands are got and popped: what operations on  *)
(* these operands do.  A lazy call, a tuple and the arrays look at the     *)
(* pushed arguments, which are hidden from an arg instruction.             *)
PushedArgs(arg) == IF arg THEN <<>> ELSE args

Ready(s) == pc = "ready" /\ sig = s

SetsElement == \E j \in DOMAIN ops : ops[j].k = "pushed"

Obj(i) == heap[got[i].r]
Is(i, kind, unique) == Obj(i).kind = kind /\ Obj(i).unique = unique

Indexes(i) == DOMAIN Obj(i).elems

(* ILOAD, FLOAD, RLOAD.                                                    *)
Load(arg) == Ready(<<"value">>) /\ Finish(arg, got[1], heap)

(* RFORCE; IFORCE and FFORCE are like ILOAD of a number.                   *)
LoadForced(arg) ==
  Ready(<<"ref">>) /\ ops[1].k # "saved" /\ Finish(arg, got[1], heap)

(* IADD to ISHRU, IEQ to ILE, FADD to FLE: operations on two numbers ...   *)
Number(arg) == Ready(<<"num", "num">>) /\ Finish(arg, Num, heap)

IntegerOperation(arg) == Number(arg)
Compare(arg) == Number(arg)
FloatOperation(arg) == Number(arg)

(* ... and IDIV and IMOD, by zero (ERROR_DIV_BY_ZERO).                     *)
DivideByZero == Ready(<<"num", "num">>) /\ Fails

(* INEG, FNEG, ITOF, FTOI, the functions of the mathematical library.      *)
Function(arg) == Ready(<<"num">>) /\ Finish(arg, Num, heap)

(* ICALL, FCALL, RCALL, and those of native functions: called at once ...  *)
Call(arg) ==
  /\ Ready(<<"num">>)
  /\ \/ \E vt \in {"num", "ref"} : \E v \in Passed(PushedArgs(arg), vt) : Finish(arg, v, heap)
     \/ FinishNew(arg, Object("nums", TRUE, <<>>))
     \/ \E v \in Passed(PushedArgs(arg), "ref") : SetError(v)

(* ... or when the value is needed (LazyEvaluationStrategy).               *)
CallLazily(arg) ==
  /\ Ready(<<"num">>) /\ Len(PushedArgs(arg)) <= MaxLength
  /\ \E vt \in {"num", "ref"} :
       \/ \E o \in FreeObjs :
            Finish(arg, V("lazy", o), [heap EXCEPT ![o] = LazyValue(vt, PushedArgs(arg))])
       \/ Fails

(* RUIAFILL, RUSFAFILL, RUTFILLI and their kind.                           *)
FillNumbers(arg) ==
  /\ Ready(<<"num", "num">>)
  /\ \E n \in 0 .. MaxLength, kind \in {"nums", "tuple"} :
       FinishNew(arg, Object(kind, TRUE, IF kind = "nums" THEN <<>> ELSE [i \in 1 .. n |-> Num]))

(* OP_TRY calls its function with the first pushed argument and keeps the  *)
(* second for the handler; one try at a time is followed.                  *)
Try(arg) ==
  /\ Ready(<<"num", "num">>)
  /\ Len(PushedArgs(arg)) = 2
  /\ tryArg = Error
  /\ vars' = <<args[1]>> /\ tryArg' = args[2]
  /\ args' = <<>> /\ evs' = <<>>
  /\ NoInstruction
  /\ Collect(heap)

(* R*LEN, RTYPE.                                                           *)
Length(arg) ==
  /\ Ready(<<"ref">>) /\ ops[1].k # "saved"
  /\ Finish(arg, Num, heap) \/ Fails

(* RU*LEN, RUTYPE: a pair of a number and the object.                      *)
UniqueLength(arg) ==
  /\ Ready(<<"ref">>) /\ ops[1].k # "saved"
  /\ FinishPair(arg, Num, got[1].r, heap)

Throw == Ready(<<"ref">>) /\ ops[1].k # "saved" /\ SetError(got[1])

(* set_lazy_values_as_shared, for the lazy values in a sequence.           *)
ShareChain(h, values) ==
  LET R[n \in 0 .. Cardinality(Objs)] ==
        IF n = 0 THEN {v.r : v \in {x \in values : IsLazy(x)}}
        ELSE R[n - 1] \union
             {h[o].val.r : o \in {p \in R[n - 1] : IsLazy(h[p].val)}}
  IN R[Cardinality(Objs)]

Shared(h, values) ==
  [o \in Everything |-> IF o \in ShareChain(h, values) THEN [h[o] EXCEPT !.share = TRUE] ELSE h[o]]

(* A lazy value there is evaluated to a unique object, or a value is one.  *)
HoldsUnique(values) ==
  \/ \E v \in values : IsUnique(v)
  \/ \E o \in ShareChain(heap, values) : IsUnique(heap[o].val)

(* Mutant: the values are not checked.                                     *)
SharedObjectUnchecked(arg, kind, elems) ==
  \E o \in FreeObjs : Finish(arg, V("ref", o),
    [Shared(heap, ToSet(elems)) EXCEPT ![o] = Object(kind, FALSE, elems)])

(* check_shared_for_value and set_lazy_values_as_shared for each element   *)
(* of a new shared object.                                                 *)
SharedObject(arg, kind, elems) ==
  IF HoldsUnique(ToSet(elems)) \/ FreeObjs = {} THEN Fails
  ELSE \E o \in FreeObjs : Finish(arg, V("ref", o),
         [Shared(heap, ToSet(elems)) EXCEPT ![o] = Object(kind, FALSE, elems)])

(* RTUPLE.                                                                 *)
Tuple(arg) == Ready(<<>>) /\ SharedObject(arg, "tuple", PushedArgs(arg))

(* R*ARRAY, RRARRAY, whose arguments are forced.                           *)
Array(arg) ==
  /\ pc = "ready" /\ ~arg /\ sig # <<>> /\ sig[1] = "arg"
  /\ \/ (\A i \in DOMAIN got : got[i].t = "num") /\ SharedObject(arg, "nums", <<>>)
     \/ (\A i \in DOMAIN got : got[i].t = "ref") /\ SharedObject(arg, "rarray", got)
     \/ (\E i, j \in DOMAIN got : got[i].t # got[j].t \/ got[i] = Canceled) /\ Fails

(* R*CAT: of two shared objects of one kind.                               *)
Cat(arg) ==
  /\ Ready(<<"ref", "ref">>)
  /\ IF /\ Obj(1).kind = Obj(2).kind /\ ~Obj(1).unique /\ ~Obj(2).unique
        /\ Len(Obj(1).elems \o Obj(2).elems) <= MaxLength
     THEN FinishNew(arg, Object(Obj(1).kind, FALSE, Obj(1).elems \o Obj(2).elems))
     ELSE Fails

(* REQ, RNE: with a global variable.                                       *)
Equal(arg) ==
  /\ Ready(<<"ref", "ref">>)
  /\ \E i \in 1 .. 2 : ops[i].k = "const"
  /\ Finish(arg, Num, heap)

(* R*NTH, RRANTH, RTNTH.                                                   *)
Nth(arg) ==
  /\ Ready(<<"ref", "num">>)
  /\ \/ /\ ~Obj(1).unique
        /\ \/ Obj(1).kind = "nums" /\ Finish(arg, Num, heap)
           \/ \E i \in Indexes(1) : Finish(arg, Obj(1).elems[i], heap)
     \/ Fails

(* RU*NTH, RURANTH, RUTNTH: the element and the object; a unique element   *)
(* of a tuple is canceled there, a lazy one lazily.                        *)
UniqueNth(arg) ==
  /\ Ready(<<"ref", "num">>)
  /\ Obj(1).unique
  /\ \/ Obj(1).kind = "nums" /\ FinishPair(arg, Num, got[1].r, heap)
     \/ \E i \in Indexes(1) :
          LET v == Obj(1).elems[i]
          IN FinishPair(arg, v, got[1].r, [heap EXCEPT ![got[1].r].elems[i] = AfterUse(v)])

(* RU*SNTH: one pushed argument; that of an array is got after the         *)
(* operands have been popped ...                                           *)
BeginSetNth(arg) ==
  /\ Ready(<<"ref", "num">>)
  /\ Len(PushedArgs(arg)) = 1
  /\ \E t \in {"num", "ref"} :
       /\ sig' = Append(sig, t)
       /\ ops' = Append(ops, [k |-> "pushed", i |-> 1])
  /\ pc' = "pushed"
  /\ UNCHANGED <<heap, frame, began, progress, force, others>>

(* ... and stored, if the array is one of such elements: that of          *)
(* references is empty (FillArray), and has no element to be set.          *)
SetNth(arg) ==
  /\ pc = "ready" /\ ~arg /\ SetsElement
  /\ \/ sig[3] = "num" /\ Is(1, "nums", TRUE) /\ Finish(arg, got[1], heap)
     \/ Fails

(* RUTSNTH moves it into the tuple, lazy or not.                           *)
SetTupleNth(arg) ==
  /\ Ready(<<"ref", "num">>)
  /\ Len(PushedArgs(arg)) = 1
  /\ Is(1, "tuple", TRUE)
  /\ \E i \in Indexes(1) :
       Finish(arg, got[1], [heap EXCEPT ![got[1].r].elems[i] = args[1]])

(* RURAFILL fills its argument, whatever that is, and leaves the elements  *)
(* of the new array unwritten; one without elements is as it should be.    *)
FillArray(arg) ==
  /\ Ready(<<"num", "ref">>)
  /\ \/ ~Obj(2).unique /\ Undefined
     \/ ~Obj(2).unique /\ FinishNew(arg, Object("rarray", TRUE, <<>>))
     \/ Obj(2).unique /\ Fails

(* RUTFILLR: a unique object fills a tuple of one element at most.         *)
FillTuple(arg) ==
  /\ Ready(<<"num", "ref">>)
  /\ \E n \in 0 .. MaxLength :
       IF n > 1 /\ Obj(2).unique THEN Fails
       ELSE FinishNew(arg, Object("tuple", TRUE, [i \in 1 .. n |-> got[2]]))

(* RU*ATO*, RUTTOT, RURATORA: a shared copy and the object.  The copy has  *)
(* as many elements as there are pushed arguments: elements are written    *)
(* past its end, or never.                                                 *)
ToShared(arg) ==
  /\ Ready(<<"ref">>) /\ ops[1].k # "saved"
  /\ Obj(1).unique /\ Obj(1).kind \in {"nums", "tuple", "rarray"}
  /\ LET elems == Obj(1).elems
         fits == Len(elems) = Len(PushedArgs(arg))
     IN \/ (Obj(1).kind = "nums" \/ ~fits) /\ Undefined
        \/ /\ Obj(1).kind = "nums" \/ fits
           /\ IF HoldsUnique(ToSet(elems)) \/ Cardinality(FreeObjs) < 2 THEN Fails
              ELSE \E o \in FreeObjs : \E p \in FreeObjs \ {o} :
                     Finish(arg, V("ref", p),
                       [Shared(heap, ToSet(elems)) EXCEPT
                         ![o] = Object(Obj(1).kind, FALSE, elems),
                         ![p] = Object("tuple", TRUE, <<V("ref", o), got[1]>>)])

(* lettuple: the elements of the tuple become local variables.             *)
LetTuple ==
  /\ Ready(<<"ref">>) /\ ops[1].k = "saved"
  /\ IF Obj(1).kind = "tuple" /\ Used(Obj(1).elems) <= MaxSlots
     THEN /\ vars' = vars \o Obj(1).elems
          /\ UNCHANGED <<args, evs, tryArg>>
          /\ NoInstruction
          /\ Collect(heap)
     ELSE Fails

----------------------------------------------------------------------------
(* The next instruction and its operands; an operand that is not there     *)
(* ends the function with an error.                                        *)
Sigs ==
  {<<"value">>, <<"num">>, <<"ref">>, <<"num", "num">>, <<"ref", "ref">>,
   <<"ref", "num">>, <<"num", "ref">>, <<>>}

Choices ==
  {[k |-> "const", i |-> 1]}
    \union [k : {"var"}, i : DOMAIN vars]
    \union [k : {"pop"}, i : {1}]
    \union [k : {"eval"}, i : {1}]

(* Of two operands neither is one that makes the instruction fail at once: *)
(* it would fail like an instruction of that operand alone.                *)
Suits(o, j, t) ==
  \/ o[j].k = "const"
  \/ LET p == ValuePlace(o, j)
     IN /\ o[j].k = "eval" => p[2] \in DOMAIN evs
        /\ Slot(p).t = t \/ (IsLazy(Slot(p)) /\ heap[Slot(p).r].vt = t)

OperandsOf(s) ==
  {o \in [DOMAIN s -> Choices] :
    /\ Cardinality(Pops(o)) <= Len(evs)
    /\ Len(s) = 2 => \A j \in DOMAIN s : Suits(o, j, s[j])}

BeginInstruction ==
  /\ pc = "idle"
  /\ \/ \E s \in Sigs :
          /\ sig' = s
          /\ ops' \in OperandsOf(s)
     \/ /\ args # <<>>
        /\ sig' = [i \in DOMAIN args |-> "arg"]
        /\ ops' = [i \in DOMAIN args |-> [k |-> "arg", i |-> i]]
  /\ began' = <<vars, args, evs>>
  /\ got' = ConstantOperands(sig', ops')
  /\ pc' = After(ops', got', FALSE)
  /\ UNCHANGED <<heap, frame, tmp, saved, undo, force, others>>

(* pop: expression values are dropped.                                     *)
PopExprValues ==
  /\ pc = "idle" /\ evs # <<>>
  /\ evs' = SubSeq(evs, 1, Len(evs) - 1)
  /\ UNCHANGED <<vars, args, tryArg>>
  /\ NoInstruction
  /\ Collect(heap)

(* retry: the pushed arguments become those of the function.               *)
Retry ==
  /\ pc = "idle" /\ args # <<>>
  /\ vars' = args /\ args' = <<>> /\ evs' = <<>>
  /\ UNCHANGED tryArg
  /\ NoInstruction
  /\ Collect(heap)

Stopped == pc = "undefined" /\ UNCHANGED allVars

Operand ==
  \/ GetNumber \/ GetRef \/ GetLazy \/ GetArg \/ GetFails \/ BeginForce \/ PopOperands

ForceValue ==
  \/ EnterFunction \/ Return \/ Throws \/ StoreValue \/ AdoptUnlocked \/ TakeValue \/ TakeFails

Operation(arg) ==
  \/ Load(arg) \/ LoadForced(arg) \/ IntegerOperation(arg) \/ Compare(arg) \/ FloatOperation(arg)
  \/ DivideByZero \/ Function(arg)
  \/ Call(arg) \/ CallLazily(arg) \/ FillNumbers(arg)
  \/ Try(arg) \/ Length(arg) \/ UniqueLength(arg) \/ Throw \/ Tuple(arg) \/ Array(arg)
  \/ Cat(arg) \/ Equal(arg) \/ Nth(arg) \/ UniqueNth(arg) \/ BeginSetNth(arg) \/ SetNth(arg)
  \/ SetTupleNth(arg) \/ FillArray(arg) \/ FillTuple(arg) \/ ToShared(arg) \/ LetTuple

Next ==
  \/ BeginInstruction \/ PopExprValues \/ Retry \/ Operand \/ ForceValue \/ Stopped
  \/ \E arg \in {FALSE} \union {Used(args) < MaxSlots} : Operation(arg)

Spec == Init /\ [][Next]_allVars
----------------------------------------------------------------------------
Values == [t : {"num", "canceled", "error"}, r : {None}]
            \union [t : {"ref", "lazy", "lazyc"}, r : Everything]

TypeOK ==
  /\ \A o \in Everything :
       /\ heap[o].kind \in {"free", "nums", "rarray", "tuple", "lazy"}
       /\ heap[o].elems \in Seq(Values) /\ heap[o].val \in Values
  /\ vars \in Seq(Values) /\ args \in Seq(Values) /\ evs \in Seq(Values)
  /\ Used(args) <= MaxSlots
  /\ tryArg \in Values /\ saved \in Values /\ rv \in Values
  /\ pc \in {"idle", "operand", "pop", "pushed", "force", "callee", "ready", "undefined"}
  /\ forcing \in Objs \union {None}

(* How many references that are not canceled there are to an object in     *)
(* the frame and in the objects it reaches, between two instructions and   *)
(* while the function of a lazy value runs.  The arguments of a lazy value *)
(* are used up when its function has been entered.                         *)
Occurrences(s, o) == Cardinality({i \in DOMAIN s : s[i] = V("ref", o)})

Held(p) ==
  IF heap[p].kind # "lazy" \/ (heap[p].val = Error /\ (~heap[p].ran \/ forcing = p))
  THEN heap[p].elems ELSE <<>>

LiveObjects ==
  Reach(heap, ToSet(vars) \union ToSet(args) \union ToSet(evs)
                \union {tryArg, saved, V("lazy", forcing)}) \ {None}

(* What is reached by references that are in use.  (What only the          *)
(* arguments of a function that failed lead to is used up: should it be    *)
(* run again, exposed says whether its arguments are still its own.)       *)
HeldObjects ==
  Reach([o \in Everything |-> [heap[o] EXCEPT !.elems = Held(o)]],
        ToSet(vars) \union ToSet(args) \union ToSet(evs)
          \union {tryArg, saved, V("lazy", forcing)}) \ {None}

References(o) ==
  LET S == {e \in HeldObjects \X (1 .. MaxLength + MaxSlots) :
              e[2] \in DOMAIN Held(e[1]) /\ Held(e[1])[e[2]] = V("ref", o)}
      T == {p \in HeldObjects : heap[p].val = V("ref", o)}
  IN Occurrences(vars \o args \o evs \o <<tryArg>>, o) + Cardinality(S) + Cardinality(T)

AtRest == pc \in {"idle", "callee"}

(* vm.md:96: "There mustn't be more references to an unique object than    *)
(* one reference."  After get_ref has forced a lazy value there are: it    *)
(* does not cancel the reference that it stored.                           *)
OneReference ==
  AtRest => \A o \in Objs : heap[o].unique => References(o) <= 1

(* Apart from the objects that these paths have duplicated - a lazy        *)
(* operand that was a unique object, the argument of a function that       *)
(* failed and is run again - the cancelations, the moves and the undoing   *)
(* leave a unique object one reference.                                    *)
OneReferenceUnlessExposed ==
  AtRest /\ ~exposed => \A o \in Objs : heap[o].unique => References(o) <= 1

(* A shared tuple or array leads to no unique object: neither directly,    *)
(* nor through a lazy value that may be asked for it by two who read it.   *)
SharedHoldNoUnique ==
  AtRest => \A o \in LiveObjects :
    heap[o].kind \in {"tuple", "rarray"} /\ ~heap[o].unique =>
      \A v \in ToSet(heap[o].elems) :
        ~IsUnique(v) /\ (IsLazy(v) => heap[v.r].share)

(* While the function of a lazy operand runs the frame is what the         *)
(* instruction found, but for lazy values that have been replaced by what  *)
(* they lead to: begun again, the instruction finds its operands.          *)
FrameKept ==
  /\ TypeOK
  /\ (pc = "callee" /\ ~SetsElement) =>
        LET now == vars \o args \o evs
            old == began[1] \o began[2] \o began[3]
        IN /\ Len(vars) = Len(began[1]) /\ Len(evs) = Len(began[3]) /\ Len(now) = Len(old)
           /\ \A i \in DOMAIN old : now[i] = old[i] \/ IsLazy(old[i])

(* An instruction that is begun again comes to the lazy value whose        *)
(* function has returned before any other: the mutex it adopts is locked.  *)
(* (A popped or saved lazy value that leads to another one is read again   *)
(* from its beginning: AdoptUnlocked.)                                     *)
ResumesAtLocked ==
  (pc = "force" /\ resumed /\ at[1] # "tmp" /\ ~SetsElement) => Lazy = forcing
=============================================================================
