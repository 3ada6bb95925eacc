------------------------- MODULE InterpreterFrames -------------------------
(***************************************************************************)
(* The activations that the words of the stack stand for, and with them    *)
(* what the interpreter promises: CallStack.  They are read from the top,  *)
(* as the interpreter will pop them; which try is in force at each is in   *)
(* the registers and, for those below, in the words a try has pushed.      *)
(***************************************************************************)
EXTENDS InterpreterVM

VARIABLE acts          \* auxiliary: the activations, a function of the rest

Words(from, to) == [i \in 1 .. to - from |-> context.stack[from + i - 1]]

Word1(i) == context.stack[i].a
Word2(i) == context.stack[i].b

Act(args, instr) ==
  [args |-> args, vars |-> <<>>, seen |-> 0, pushed |-> <<>>, instr |-> instr,
   got |-> FALSE, phase |-> "none", forcing |-> FALSE]

(* The registers that matter of an activation which waits for, or has got, *)
(* something that was called at b, above `depth` native functions.         *)
Registers ==
  [abp : Nat, ac : Nat, lvc : Nat, ip : Nat, index : {0, 1}, flag1 : BOOLEAN,
   try_flag : BOOLEAN, try_abp : Nat, b : Nat, depth : Nat]

Forcing(r) == r.index = 1
Got(r) == IF Forcing(r) THEN Word2(r.b - 3) = 1 ELSE r.flag1
Trying(r) == r.ip # 0 /\ Op(r.ip) = "try" /\ (~Forcing(r) \/ Got(r))
InBody(r) == r.try_flag /\ r.try_abp = r.b

(* Where the count of its hidden arguments lies, with these just below; or *)
(* else b, as it has none.                                                 *)
Count(r) ==
  LET called == IF Forcing(r) THEN r.b - 3 - Word1(r.b - 3) ELSE r.b
  IN  IF Trying(r) THEN called - 7
      ELSE IF Forcing(r) THEN r.b - 3
      ELSE IF r.ip # 0 /\ IsArg(r.ip) THEN r.b - 1
      ELSE r.b

Hidden(r, count) == IF count = r.b THEN 0 ELSE Word1(count)

(* An activation that waits, given where its count lies.                   *)
Waiting[r \in Registers, count \in Nat] ==
  [Act(Words(r.abp, r.abp + r.ac), r.ip) EXCEPT
     !.vars = Words(r.abp + r.ac + 4, count - Hidden(r, count)), !.seen = r.lvc,
     !.pushed = Words(count - Hidden(r, count), count),
     !.got = Got(r), !.forcing = Forcing(r),
     !.phase = IF ~Trying(r) THEN "none" ELSE IF InBody(r) THEN "body" ELSE "handler"]

(* The registers of what is below: of the function's caller, or of the     *)
(* caller of the native function below it.                                 *)
SavedIn(fbp, r) ==
  LET c == Count(r)
  IN  [abp |-> Word1(fbp), ac |-> Word2(fbp), lvc |-> Word1(fbp + 1),
       ip |-> Word2(fbp + 1), index |-> Word2(fbp + 2), flag1 |-> FALSE,
       try_flag |-> IF Trying(r) THEN Word1(c + 1) = 1 ELSE r.try_flag,
       try_abp |-> IF Trying(r) THEN Word1(c + 2) ELSE r.try_abp,
       b |-> r.abp, depth |-> r.depth]

RegistersOf(c, depth) ==
  [abp |-> c.abp, ac |-> c.ac, lvc |-> c.lvc, ip |-> c.ip, index |-> c.index,
   flag1 |-> c.flag1, try_flag |-> c.try_flag, try_abp |-> c.try_abp,
   b |-> c.abp2, depth |-> depth]

NativeAct(forcing, got) == [Act(<<>>, -1) EXCEPT !.forcing = forcing, !.got = got]

(* Activations from the one with these registers down.                     *)
Down[r \in Registers] ==
  LET fbp == r.abp + r.ac
      this == <<Waiting[r, Count(r)]>>
      native == <<NativeAct(Word2(fbp + 2) = 1, FALSE)>>
  IN  IF Word1(fbp + 2) = 1 THEN Down[SavedIn(fbp, r)] \o this
      ELSE IF r.depth = 0 THEN native \o this
      ELSE Down[RegistersOf(natives[Len(natives) - r.depth + 1], r.depth - 1)] \o native \o this

(* An activation that neither waits nor has got anything shows its pushed  *)
(* arguments.                                                              *)
Acts ==
  LET c == context
      top == RegistersOf([c EXCEPT !.index = Bit(c.flag2)], Len(natives))
      n == Len(Down[top])
  IN  IF c.fp /\ (c.flag1 \/ c.flag2) THEN Down[top]
      ELSE IF c.fp THEN [Down[top] EXCEPT ![n].pushed = Words(c.abp2, c.abp2 + c.ac2)]
      ELSE LET native == <<NativeAct(c.flag2, c.flag1)>>
           IN  IF natives = <<>> THEN native
               ELSE Down[RegistersOf(Head(natives), Len(natives) - 1)] \o native

FramesInit == Init /\ acts = Acts
FramesNext == Next /\ acts' = Acts'
FramesSpec == FramesInit /\ [][FramesNext]_<<vars, acts>>

CS == INSTANCE CallStack WITH
  error <- context.error, Reference <- RefWord, Number <- IntWord(0, 0)

----------------------------------------------------------------------------
(* The calls of vm/vm/interp_vm.cpp and the registers of vm/vm.cpp make a  *)
(* stack of activations, as long as no error is lost: each gets back its   *)
(* arguments, variables and pushed arguments, whatever was called, forced, *)
(* caught or run natively in between, and errors go to the innermost try.  *)
ImplementsCallStack == CS!Init /\ [][lost' \/ CS!Next]_<<acts, context.error>>

(* doc/vm.md 193: an exception that the function of a try throws invokes   *)
(* the function of exception handling - the thread goes on.                *)
TryAround(s) ==
  \E i \in 1 .. Len(s) - 1 :
    /\ s[i].phase = "body"
    /\ \A j \in i + 1 .. Len(s) : s[j].instr # -1

ErrorsAreCaught ==
  [][ ~context.error /\ context'.error
      /\ TryAround(IF natives' = natives THEN acts ELSE SubSeq(acts, 1, Len(acts) - 1))
      => context'.fp ]_vars
=============================================================================
