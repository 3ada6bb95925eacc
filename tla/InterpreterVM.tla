--------------------------- MODULE InterpreterVM ---------------------------
(***************************************************************************)
(* The interpreter's calls, tries, forced values and native functions:     *)
(* InterpreterVirtualMachine of vm/vm/interp_vm.cpp on a ThreadContext.    *)
(*                                                                         *)
(* The interpreter does not call itself.  An instruction that needs a      *)
(* function's result enters the function and stops half-way; it is begun   *)
(* again, from its first argument, when the function has returned, and     *)
(* after_leaving_flags tell it how far it had come: the first that its     *)
(* call or try has returned, the second that a lazy value is there.  Only  *)
(* a native function runs on the C++ stack.                                *)
(*                                                                         *)
(* A program is any sequence of instructions of Program.  What lazy values *)
(* are worth is LazyValues' matter, and the cache of results MemoCache's;  *)
(* here any operand may have to be forced.  Canceling a unique reference   *)
(* and the stack trace are left out, and tuples for lettuple are not lazy. *)
(***************************************************************************)
EXTENDS ThreadContext

CONSTANTS
  Program,     \* the instructions: a sequence of records with instr and op
  Values,      \* what programs compute, as words
  Tuples       \* what operations of lettuple give, as sequences of words

(* What an instruction with an operation does with its value is its end.   *)
ASSUME ProgramAssumption ==
  Program \in Seq([instr : {"let", "arg", "ret", "lettuple"},
                   op : {"value", "call", "try", "ncall"}]
                    \union [instr : {"in", "retry", "throw"}, op : {"none"}])

(* The code's stacks have 32768 words (vm.hpp 216): the first function fits. *)
ASSUME RoomAssumption == StackSize > 5

ASSUME ValuesAssumption == Values \subseteq AnyWord

ASSUME TuplesAssumption == Tuples \subseteq Seq(AnyWord)

VARIABLES
  context,     \* the thread's registers and stack
  natives,     \* the registers kept for native functions, the last one first
  lost         \* history: an error was not given to the try it was raised in

vars == <<context, natives, lost>>

Init ==
  /\ context \in {IF n = 0 THEN EnterToFun(NewContext)
                  ELSE EnterToFun(PushArgs(NewContext, <<v>>)) : n \in {0, 1}, v \in Values}
  /\ natives = <<>>
  /\ lost = FALSE

----------------------------------------------------------------------------
(* Beginning an instruction.                                               *)
Running == context.fp

Begun == IF context.ip = 0 THEN DOMAIN Program ELSE {context.ip}

CanRestoreForForce(c) ==
  /\ OnTop(c, 1).type = "LOCKED_LAZY_VALUE_REF"
  /\ OnTop(c, 2).type = "INT"
  /\ OnTop(c, 3).type = "PAIR"

(* restore_and_pop_regs_for_force.                                         *)
RestoreForForce(c) ==
  LET d == [PopArgs(c) EXCEPT !.index = 0]
  IN  IF CanRestoreForForce(d) THEN RestoreArgs(PopTmpAc2AndFlag1(PopLocalVars(d, 2)))
      ELSE SetError(d)

IsArg(k) == Program[k].instr = "arg"

(* A forced value is there: what was pushed for it is popped.              *)
Resumed ==
  IF context.flag2 THEN [RestoreForForce(context) EXCEPT !.flag2 = FALSE] ELSE context

(* What interpret_op starts from; the arg instruction hides what is pushed *)
(* before its own operation.                                               *)
Begin(k) ==
  LET c == [Resumed EXCEPT !.ip = k] IN IF IsArg(k) THEN HideArgs(c) ELSE c

(* The registers of a try are those of the instruction itself: its         *)
(* function is not entered, or has returned.                               *)
MissesTry(c) == TryInForce(c) /\ c.abp < c.try_abp

(* An error of an operation, raised in the context c.  After it let and    *)
(* lettuple pop the arguments, in whatever context the thread is now.      *)
Raise(c, k) ==
  LET d == SetError(c)
  IN  IF Program[k].instr \in {"let", "lettuple"} THEN PopArgs(d) ELSE d

RaiseIn(c, k) ==
  /\ context' = Raise(c, k)
  /\ lost' = (lost \/ MissesTry(c))

Enter(c, k) ==
  IF CanEnter(c) THEN context' = EnterToFun(c) /\ UNCHANGED lost ELSE RaiseIn(c, k)

----------------------------------------------------------------------------
(* Ending an instruction with the value of its operation.                  *)
Done(c) == context' = [c EXCEPT !.ip = 0] /\ UNCHANGED lost

Fail(c) ==
  /\ context' = SetError(c)
  /\ lost' = (lost \/ MissesTry(c))

EndLet(c, v) ==
  LET d == PopArgs(c)
  IN  IF CanPush(d, 1) THEN Done(PushLocalVars(d, <<v>>)) ELSE Fail(d)

EndArg(c, v) ==
  LET d == RestoreArgs(c)
  IN  IF CanPush(d, 1) THEN Done(PushArgs(d, <<v>>)) ELSE Fail(d)

(* rv is set after the error that leave_from_fun may have been.            *)
EndRet(c) ==
  /\ context' = [IF CanLeave(c) THEN LeaveFromFun(c) ELSE SetError(c) EXCEPT !.error = FALSE]
  /\ UNCHANGED lost

(* The loop over the elements goes on after an overflow, wherever the      *)
(* error has taken the thread.                                             *)
EndLetTuple(c, t) ==
  LET d == PopArgs(c)
      room == StackSize - d.abp2
      e == SetError(PushLocalVars(d, SubSeq(t, 1, room)))
  IN  IF room = 0 THEN Fail(d)
      ELSE IF Len(t) <= room THEN Done(PushLocalVars(d, t))
      ELSE /\ context' = PushSomeLocalVars(e, SubSeq(t, room + 2, Len(t)))
           /\ lost' = (lost \/ MissesTry(d) \/ (e.fp /\ Len(t) > room + 1))

End(c, k) ==
  \/ Program[k].instr = "let" /\ \E v \in Values : EndLet(c, v)
  \/ Program[k].instr = "arg" /\ \E v \in Values : EndArg(c, v)
  \/ Program[k].instr = "ret" /\ EndRet(c)
  \/ Program[k].instr = "lettuple" /\ \E t \in Tuples : EndLetTuple(c, t)

----------------------------------------------------------------------------
(* Operations.                                                             *)
Op(k) == Program[k].op

(* An operation or the operand of throw fails, or throw throws.            *)
OpFails ==
  /\ Running
  /\ \E k \in Begun :
       /\ Op(k) # "none" \/ Program[k].instr = "throw"
       /\ ~Resumed.flag1
       /\ RaiseIn(Begin(k), k)

Compute ==
  /\ Running
  /\ \E k \in Begun : Op(k) = "value" /\ End(Begin(k), k)

In ==
  /\ Running
  /\ \E k \in Begun :
       LET c == Begin(k)
       IN  Program[k].instr = "in" /\ Done([c EXCEPT !.lvc = c.abp2 - Lvbp(c)])

(* retry: the pushed arguments become those of the function, which begins  *)
(* again.                                                                  *)
Retry ==
  /\ Running
  /\ \E k \in Begun :
       LET c == Begin(k)
           args == [i \in 1 .. c.ac2 |-> c.stack[c.abp2 + i - 1]]
           d == PopArgs([c EXCEPT !.stack = Store(@, c.abp, args), !.abp2 = Lvbp(c), !.lvc = 0])
       IN  /\ Program[k].instr = "retry"
           /\ IF c.ac = c.ac2 THEN Done(d) ELSE Fail(c)

(* The pushed arguments are those of the function; of the arg instruction  *)
(* they are hidden, and it can call functions without arguments only.      *)
CallContext(k) ==
  LET c == Begin(k) IN IF IsArg(k) THEN PushLocalVars(c, <<IntWord(c.tmp_ac2, 0)>>) ELSE c

Call ==
  /\ Running /\ ~Resumed.flag1
  /\ \E k \in Begun :
       /\ Op(k) = "call"
       /\ IF IsArg(k) /\ ~CanPush(Begin(k), 1) THEN RaiseIn(Begin(k), k)
          ELSE Enter(CallContext(k), k)

CallReturned ==
  /\ Running /\ Resumed.flag1
  /\ \E k \in Begun :
       LET c == [Begin(k) EXCEPT !.flag1 = FALSE]
       IN  /\ Op(k) = "call"
           /\ IF ~IsArg(k) THEN End(PopArgs(c), k)
              ELSE IF CanPopTmpAc2(c) THEN End(PopArgs(PopTmpAc2(c)), k)
              ELSE RaiseIn(c, k)

(* try arg1 arg2, with three arguments pushed.  In an arg instruction none *)
(* are, so that is always an error.                                        *)
TryArgsRight(c) == c.ac2 = 3 /\ c.stack[c.abp2 + 2].type = "REF"

(* Temporaries of the try, then the arguments of its function.             *)
TryTemps(h) == <<IntWord(h.tmp_ac2, 0)>> \o TryWords(h)

PushTry(h, args) == PushArgs(PushLocalVars(h, TryTemps(h)), args)

TryFits(h, args) == CanPush(h, 7 + Len(args))

TryOverflows(h, args, k) ==
  RaiseIn(IF ~CanPush(h, 7) THEN PushSomeLocalVars(h, TryTemps(h))
          ELSE PushSomeArgs(PushLocalVars(h, TryTemps(h)), args), k)

(* What a try of the pushed arguments enters.                              *)
FunctionOfTry(c) == <<c.stack[c.abp2], c.stack[c.abp2 + 2]>>
TryBegun(c) ==
  SetTryRegs(PushTry(HideArgs(c), FunctionOfTry(c)), c.stack[c.abp2 + 1])

Try ==
  /\ Running /\ ~Resumed.flag1
  /\ \E k \in Begun :
       LET c == Begin(k)
       IN  /\ Op(k) = "try"
           /\ IF ~TryArgsRight(c) THEN RaiseIn(c, k)
              ELSE IF TryFits(HideArgs(c), FunctionOfTry(c)) THEN Enter(TryBegun(c), k)
              ELSE TryOverflows(HideArgs(c), FunctionOfTry(c), k)

(* The function of the try or its handler has returned, or the function    *)
(* has failed: the error is in rv.                                         *)
TryReturned ==
  /\ Running /\ Resumed.flag1
  /\ \E k \in Begun :
       LET c == [Begin(k) EXCEPT !.flag1 = FALSE]
           d == PopTryRegs(c)
           e == RestoreArgs(PopTmpAc2(d))
           h == HideArgs([e EXCEPT !.error = FALSE])
           args == <<IntWord(0, 0), RefWord, c.try_arg2, RefWord>>
       IN  /\ Op(k) = "try"
           /\ IF ~CanPopTryRegs(c) THEN RaiseIn(c, k)
              ELSE IF ~CanPopTmpAc2(d) THEN RaiseIn(d, k)
              ELSE IF ~c.error THEN End(e, k)
              ELSE IF TryFits(h, args)
                THEN Enter([PushTry(h, args) EXCEPT !.try_catch_flag = TRUE], k)
              ELSE TryOverflows(h, args, k)

(* What the function of a try gives is not a pair of a value and io.       *)
TryGaveOther ==
  /\ Running /\ Resumed.flag1 /\ ~Resumed.error
  /\ \E k \in Begun :
       LET c == [Begin(k) EXCEPT !.flag1 = FALSE]
       IN  /\ Op(k) = "try"
           /\ CanPopTryRegs(c)
           /\ RaiseIn(RestoreArgs(PopTmpAc2(PopTryRegs(c))), k)

(* check_fun fails: there is no such function, or not with so many         *)
(* arguments.  For a try that is after its registers are set.              *)
NoFunction ==
  /\ Running /\ ~Resumed.flag1
  /\ \E k \in Begun :
       LET c == Begin(k)
       IN  /\ Op(k) = "try"
           /\ TryArgsRight(c)
           /\ IF TryFits(HideArgs(c), FunctionOfTry(c)) THEN RaiseIn(TryBegun(c), k)
              ELSE TryOverflows(HideArgs(c), FunctionOfTry(c), k)

----------------------------------------------------------------------------
(* force_value, for the first time: the lazy value's function is entered.  *)
(* is_try: the value is that of a try, whose registers then watch over it. *)
ForceContext(c) ==
  PushLocalVars(c, <<PairWord(c.tmp_ac2, Bit(c.flag1)), IntWord(0, 0), LockedLazyWord>>)

ForceIn(c, k, is_try) ==
  LET p == ForceContext(c)
  IN  \E args \in {<<>>} \union {<<v>> : v \in Values} :
        LET q == [PushArgs(p, args) EXCEPT !.index = 1]
        IN  IF ~CanPush(c, 3) THEN RaiseIn(c, k)
            ELSE IF ~CanPush(p, Len(args)) THEN RaiseIn(p, k)
            ELSE Enter(IF is_try THEN SetTryRegsForForce(q) ELSE q, k)

(* An operand of an instruction that begins, or, with the first flag, the  *)
(* result of a try.                                                        *)
ForceOperand ==
  /\ Running
  /\ \E k \in Begun :
       LET c == Begin(k)
       IN  /\ Op(k) # "none" \/ Program[k].instr = "throw"
           /\ c.flag1 => Op(k) = "try" /\ ~c.error
           /\ ForceIn(IF IsArg(k) THEN c ELSE HideArgs(c), k,
                      c.flag1 /\ ~c.try_catch_flag)

----------------------------------------------------------------------------
(* Native functions.                                                       *)
Native ==
  /\ Running /\ ~Resumed.flag1
  /\ \E k \in Begun :
       LET c == CallContext(k)
       IN  /\ Op(k) = "ncall"
           /\ IF IsArg(k) /\ ~CanPush(Begin(k), 1)
                THEN RaiseIn(Begin(k), k) /\ UNCHANGED natives
              ELSE IF ~CanSaveRegs(c)
                THEN RaiseIn(c, k) /\ UNCHANGED natives
              ELSE /\ context' = SaveRegsAndSetRegs(c)
                   /\ natives' = <<[c EXCEPT !.stack = <<>>]>> \o natives
                   /\ UNCHANGED lost

InNative == ~context.fp /\ natives # <<>>

(* force_value_and_interpret.  Native functions are taken to end with the  *)
(* error when it fails: one that went on would find the error still in rv, *)
(* and the next value's function entered but not run.                      *)
NativeForces ==
  /\ InNative /\ ~context.flag2 /\ ~context.error
  /\ LET c == [HideArgs(context) EXCEPT !.flag1 = FALSE, !.index = 0]
         p == ForceContext(c)
     IN  \E args \in {<<>>} \union {<<v>> : v \in Values} :
           LET q == [PushArgs(p, args) EXCEPT !.index = 1]
           IN  /\ IF CanPush(c, 3) /\ CanPush(p, Len(args)) /\ CanEnter(q)
                    THEN context' = EnterToFun(q)
                    ELSE context' = [SetError(c) EXCEPT !.index = 0]
               /\ UNCHANGED lost

NativeForced ==
  /\ InNative /\ context.flag2
  /\ context' = [RestoreForForce(context) EXCEPT !.flag1 = FALSE, !.flag2 = FALSE]
  /\ UNCHANGED lost

(* The handler answers.                                                    *)
Restored == RestoreRegs(context, Head(natives))

NativeReturns ==
  /\ InNative /\ ~context.flag2 /\ ~context.error
  /\ LET k == Head(natives).ip
         c == Restored
     IN  IF ~IsArg(k) THEN End(c, k)
            ELSE IF CanPopTmpAc2(c) THEN End(PopTmpAc2(c), k)
            ELSE RaiseIn(c, k)

NativeFails ==
  /\ InNative /\ ~context.flag2
  /\ context' = Raise(Restored, Head(natives).ip)
  /\ lost' = (lost \/ MissesTry(Restored))

(* The handler throws a C++ exception: the registers are not restored.     *)
NativeThrows ==
  /\ InNative /\ ~context.flag2
  /\ context' = Raise(context, Head(natives).ip)
  /\ lost' = (lost \/ TryInForce(Head(natives)))
----------------------------------------------------------------------------
Instruction ==
  \/ OpFails \/ Compute \/ In \/ Retry \/ Call \/ CallReturned
  \/ Try \/ TryReturned \/ TryGaveOther \/ NoFunction \/ ForceOperand
  \/ NativeForces \/ NativeForced

NativeEnds == NativeReturns \/ NativeFails \/ NativeThrows

Next ==
  \/ Instruction /\ UNCHANGED natives
  \/ Native
  \/ NativeEnds /\ natives' = Tail(natives)

Spec == Init /\ [][Next]_vars

----------------------------------------------------------------------------
(* The registers keep their types and their order on the stack: no more is *)
(* pushed than there is room for, and the function that runs has executed  *)
(* no more in instructions than there are variables for.  (A lost error    *)
(* may leave registers of another frame.)                                  *)
RegistersOK(c) ==
  /\ {c.abp, c.ac, c.lvc, c.abp2, c.ac2, c.sec, c.nfbp, c.tmp_ac2, c.try_abp, c.try_ac}
       \subseteq Nat
  /\ {c.fp, c.flag1, c.flag2, c.try_flag, c.try_catch_flag, c.error} \subseteq BOOLEAN
  /\ c.ip \in {0} \union DOMAIN Program /\ c.index \in {0, 1} /\ c.try_arg2 \in AnyWord
  /\ c.nfbp <= c.abp2 /\ c.abp2 + c.ac2 <= StackSize
  /\ c.fp /\ ~lost => Lvbp(c) + c.lvc <= c.abp2

TypeOK ==
  /\ RegistersOK(context)
  /\ \A i \in 0 .. StackSize - 1 : context.stack[i] \in AnyWord
  /\ \A i \in DOMAIN natives : RegistersOK(natives[i])
  /\ lost \in BOOLEAN

(* Collections look for references below sec: there are all words that an  *)
(* activation may still read, those below a native function too, and no    *)
(* stale ones, which may be references to freed memory.  What has returned *)
(* leaves its arguments above (vm.cpp 1302).  The registers keep their      *)
(* types and their order on the stack (TypeOK).                            *)
StackRootsCovered ==
  LET c == context
  IN  /\ TypeOK
      /\ c.sec = c.abp2 + IF c.flag1 \/ c.flag2 THEN 0 ELSE c.ac2
      /\ \A i \in DOMAIN natives : natives[i].sec = natives[i].abp2 + natives[i].ac2
=============================================================================
