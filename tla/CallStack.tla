----------------------------- MODULE CallStack -----------------------------
(***************************************************************************)
(* What the interpreter's stack and registers stand for: a sequence of     *)
(* activations, each with its own arguments, local variables and pushed    *)
(* arguments.  A call, a return, a forced value or an error changes the    *)
(* end of the sequence and leaves the activations below as they were; an   *)
(* error goes to the innermost activation whose try it was raised in, or   *)
(* else ends everything up to the native function - or the start of the    *)
(* thread - that is below.  InterpreterVM implements this.                 *)
(***************************************************************************)
EXTENDS Integers, Sequences, SequencesExt

CONSTANTS
  Program,     \* the instructions: a sequence of records with instr and op
  Values,      \* what programs compute
  Tuples,      \* what operations of lettuple give
  Reference,   \* the io object, the data of an exception
  Number       \* the error number

VARIABLES
  acts,        \* the activations, the running one last
  error        \* the last thing that ended was an error

vars == <<acts, error>>

NotBegun == 0
NativeFun == -1

(* An activation.  seen counts the local variables of executed in          *)
(* instructions; got: what its call or try waits for is there; phase: the  *)
(* function of its try or the handler was called; forcing: a lazy value is *)
(* being evaluated for it, or has just been.                               *)
Activation(args, instr) ==
  [args |-> args, vars |-> <<>>, seen |-> 0, pushed |-> <<>>, instr |-> instr,
   got |-> FALSE, phase |-> "none", forcing |-> FALSE]

New(args) == Activation(args, NotBegun)
OfNative == Activation(<<>>, NativeFun)

Init ==
  /\ acts \in {<<OfNative, New(<<>>)>>} \union {<<OfNative, New(<<v>>)>> : v \in Values}
  /\ error = FALSE

----------------------------------------------------------------------------
Top == Last(acts)
InFun == Top.instr # NativeFun

(* The running activation as it begins, or begins again, an instruction.   *)
Begun == IF Top.instr = NotBegun THEN DOMAIN Program ELSE {Top.instr}
At(k) == [Top EXCEPT !.forcing = FALSE, !.instr = k]

Calls(t, args) == acts' = Front(acts) \o <<t, New(args)>>

(* What the activation below is when the one it called has ended.          *)
Receives(t) == IF t.forcing THEN t ELSE [t EXCEPT !.got = TRUE]

(* The activations an error raised in the last of s leaves.                *)
Boundary(s) == CHOOSE i \in DOMAIN s : /\ s[i].instr = NativeFun
                                       /\ \A j \in i + 1 .. Len(s) : s[j].instr # NativeFun
Tries(s) == {i \in Boundary(s) .. Len(s) - 1 : s[i].phase = "body"}
Unwound(s) ==
  IF Tries(s) = {}
    THEN [SubSeq(s, 1, Boundary(s)) EXCEPT ![Boundary(s)] = OfNative]
    ELSE LET i == Max(Tries(s)) IN [SubSeq(s, 1, i) EXCEPT ![i] = Receives(@)]

Raise(s) == acts' = Unwound(s) /\ error' = TRUE

(* t, above s, goes on to its next instruction.                            *)
Goes(s, t) ==
  /\ acts' = s \o <<[t EXCEPT !.instr = NotBegun, !.got = FALSE, !.phase = "none"]>>
  /\ UNCHANGED error

(* t, above s, ends its instruction with the value of its operation.       *)
Ends(s, t) ==
  CASE Program[t.instr].instr = "let" ->
         \E v \in Values : Goes(s, [t EXCEPT !.vars = Append(@, v), !.pushed = <<>>])
    [] Program[t.instr].instr = "lettuple" ->
         \E vs \in Tuples : Goes(s, [t EXCEPT !.vars = @ \o vs, !.pushed = <<>>])
    [] Program[t.instr].instr = "arg" ->
         \E v \in Values : Goes(s, [t EXCEPT !.pushed = Append(@, v)])
    [] Program[t.instr].instr = "ret" ->
         acts' = Front(s) \o <<Receives(Last(s))>> /\ error' = FALSE

----------------------------------------------------------------------------
Op(t) == Program[t.instr].op
IsArg(t) == Program[t.instr].instr = "arg"

(* Anything can fail: an operation, a call that does not find room.        *)
Fails == (InFun \/ Len(acts) > 1) /\ Raise(acts)

Computes(t) == Op(t) = "value" /\ Ends(Front(acts), t)

In(t) ==
  /\ Program[t.instr].instr = "in"
  /\ Goes(Front(acts), [t EXCEPT !.seen = Len(t.vars)])

Retry(t) ==
  /\ Program[t.instr].instr = "retry"
  /\ Len(t.args) = Len(t.pushed)
  /\ Goes(Front(acts), [t EXCEPT !.args = t.pushed, !.vars = <<>>, !.seen = 0, !.pushed = <<>>])

(* The arg instruction's pushed arguments are for another function.        *)
Call(t) ==
  /\ Op(t) = "call" /\ ~t.got
  /\ IF IsArg(t) THEN Calls(t, <<>>) ELSE Calls([t EXCEPT !.pushed = <<>>], t.pushed)
  /\ UNCHANGED error

Called(t) == Op(t) = "call" /\ t.got /\ Ends(Front(acts), t)

Try(t) ==
  /\ Op(t) = "try" /\ ~t.got
  /\ ~IsArg(t) /\ Len(t.pushed) = 3
  /\ Calls([t EXCEPT !.phase = "body"], <<t.pushed[1], t.pushed[3]>>)
  /\ UNCHANGED error

Tried(t) == Op(t) = "try" /\ t.got /\ ~error /\ Ends(Front(acts), t)

Handler(t) ==
  /\ Op(t) = "try" /\ t.got /\ error
  /\ Calls([t EXCEPT !.phase = "handler", !.got = FALSE],
           <<Number, Reference, t.pushed[2], Reference>>)
  /\ error' = FALSE

Forces(t) ==
  /\ Op(t) # "none" \/ Program[t.instr].instr = "throw"
  /\ t.got => Op(t) = "try" /\ ~error
  /\ \E args \in {<<>>} \union {<<v>> : v \in Values} : Calls([t EXCEPT !.forcing = TRUE], args)
  /\ UNCHANGED error

CallsNative(t) ==
  /\ Op(t) = "ncall"
  /\ acts' = Front(acts) \o <<IF IsArg(t) THEN t ELSE [t EXCEPT !.pushed = <<>>], OfNative>>
  /\ error' = FALSE

----------------------------------------------------------------------------
(* A native function forces values and ends with a value or an error.      *)
NativeForces ==
  /\ Top = OfNative
  /\ \E args \in {<<>>} \union {<<v>> : v \in Values} : Calls([OfNative EXCEPT !.forcing = TRUE], args)
  /\ UNCHANGED error

NativeForced ==
  /\ Top = [OfNative EXCEPT !.forcing = TRUE]
  /\ acts' = Front(acts) \o <<OfNative>>
  /\ UNCHANGED error

NativeReturns ==
  /\ Top = OfNative /\ Len(acts) > 1 /\ ~error
  /\ Ends(Front(Front(acts)), Last(Front(acts)))

NativeFails == Top = OfNative /\ Len(acts) > 1 /\ Raise(Front(acts))

Step(t) ==
  \/ Computes(t) \/ In(t) \/ Retry(t) \/ Call(t) \/ Called(t)
  \/ Try(t) \/ Tried(t) \/ Handler(t) \/ Forces(t) \/ CallsNative(t)

Next ==
  \/ InFun /\ \E k \in Begun : Step(At(k))
  \/ Fails
  \/ NativeForces \/ NativeForced \/ NativeReturns \/ NativeFails

Spec == Init /\ [][Next]_vars
=============================================================================
