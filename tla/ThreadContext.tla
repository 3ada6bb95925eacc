--------------------------- MODULE ThreadContext ---------------------------
(***************************************************************************)
(* The registers and the stack of a thread: class ThreadContext of         *)
(* vm/vm.hpp and vm/vm.cpp, as operators from a context to a context.      *)
(*                                                                         *)
(* Everything the interpreter must find again lies on one stack of typed   *)
(* words: arguments, local variables, the registers of the callers, those  *)
(* of the enclosing tries, counts of hidden arguments.  A frame is         *)
(*                                                                         *)
(*   abp      abp+ac           lvbp                 abp2        abp2+ac2   *)
(*    | arguments | 4 words      | local variables   | pushed arguments |  *)
(*                  of the caller                                          *)
(*                                                                         *)
(* Left out: the expression stack, which has its own words, and the        *)
(* registers that only keep data (rv but for its error, ai, force_tmp_..). *)
(***************************************************************************)
EXTENDS Integers, Sequences

CONSTANT StackSize

ASSUME StackSizeAssumption == StackSize \in Nat

(* Words, by value type; what a word holds is at most two numbers.         *)
AnyWord ==
  [type : {"INT", "PAIR", "REF", "LOCKED_LAZY_VALUE_REF", "ERROR"}, a : Nat, b : Nat]

Word(type, n, m) == [type |-> type, a |-> n, b |-> m]
IntWord(n, m) == Word("INT", n, m)
PairWord(n, m) == Word("PAIR", n, m)
RefWord == Word("REF", 0, 0)
LockedLazyWord == Word("LOCKED_LAZY_VALUE_REF", 0, 0)
ErrorWord == Word("ERROR", 0, 0)

Bit(b) == IF b THEN 1 ELSE 0

(* fp is whether a function runs; ip is 0 at an instruction not begun yet, *)
(* or else the instruction that is begun again after a call.               *)
NewContext ==
  [stack |-> [i \in 0 .. StackSize - 1 |-> ErrorWord],
   abp |-> 0, ac |-> 0, lvc |-> 0, abp2 |-> 0, ac2 |-> 0, sec |-> 0, nfbp |-> 0,
   fp |-> FALSE, ip |-> 0, flag1 |-> FALSE, flag2 |-> FALSE, index |-> 0,
   tmp_ac2 |-> 0, try_flag |-> FALSE, try_catch_flag |-> FALSE,
   try_abp |-> 0, try_ac |-> 0, try_arg2 |-> ErrorWord, error |-> FALSE]

Lvbp(c) == c.abp + c.ac + 4

----------------------------------------------------------------------------
(* Pushing and popping.  An operator whose name begins with Can tells      *)
(* whether the one after it succeeds.                                      *)
Store(stack, at, words) ==
  [i \in DOMAIN stack |-> IF i - at \in 0 .. Len(words) - 1 THEN words[i - at + 1] ELSE stack[i]]

CanPush(c, n) == c.abp2 + c.ac2 + n <= StackSize

(* push_local_var overwrites pushed arguments: there must be none.         *)
PushLocalVars(c, words) ==
  [c EXCEPT !.stack = Store(@, c.abp2, words), !.abp2 = @ + Len(words), !.ac2 = 0,
            !.sec = c.abp2 + Len(words)]

(* The words that still fit are written before the overflow is seen.       *)
Fitting(words, n) == SubSeq(words, 1, IF n < Len(words) THEN n ELSE Len(words))

PushSomeLocalVars(c, words) == PushLocalVars(c, Fitting(words, StackSize - c.abp2))

PushArgs(c, words) ==
  [c EXCEPT !.stack = Store(@, c.abp2 + c.ac2, words), !.ac2 = @ + Len(words),
            !.sec = @ + Len(words)]

PushSomeArgs(c, words) == PushArgs(c, Fitting(words, StackSize - c.abp2 - c.ac2))

PopArgs(c) == [c EXCEPT !.ac2 = 0, !.sec = c.abp2]

PopLocalVars(c, n) == [c EXCEPT !.abp2 = @ - n, !.sec = @ - n]

HideArgs(c) == [c EXCEPT !.tmp_ac2 = c.ac2, !.abp2 = @ + c.ac2, !.ac2 = 0]

RestoreArgs(c) ==
  [c EXCEPT !.abp2 = @ - c.tmp_ac2, !.ac2 = c.tmp_ac2, !.sec = c.abp2]

OnTop(c, i) == c.stack[c.abp2 - i]

CanPopTmpAc2(c) == c.abp2 > 0 /\ OnTop(c, 1).type = "INT"
PopTmpAc2(c) == [PopLocalVars(c, 1) EXCEPT !.tmp_ac2 = OnTop(c, 1).a]

CanPopTmpAc2AndFlag1(c) == c.abp2 > 0 /\ OnTop(c, 1).type = "PAIR"
PopTmpAc2AndFlag1(c) ==
  [PopLocalVars(c, 1) EXCEPT !.tmp_ac2 = OnTop(c, 1).a, !.flag1 = OnTop(c, 1).b # 0]

----------------------------------------------------------------------------
(* The registers of the try that is in force.                              *)
SetTryRegs(c, arg2) ==
  [c EXCEPT !.try_flag = TRUE, !.try_catch_flag = FALSE,
            !.try_abp = c.abp2, !.try_ac = c.ac2, !.try_arg2 = arg2]

SetTryRegsForForce(c) == [c EXCEPT !.try_abp = c.abp2, !.try_ac = c.ac2]

(* try_io_r, try_catch_error and try_catch_r are kept as words only.       *)
TryWords(c) ==
  <<IntWord(Bit(c.try_flag), Bit(c.try_catch_flag)), IntWord(c.try_abp, c.try_ac),
    c.try_arg2, RefWord, IntWord(0, 0), RefWord>>

CanPopTryRegs(c) ==
  /\ c.abp2 >= 4
  /\ [i \in 1 .. 6 |-> IF i = 3 THEN "any" ELSE OnTop(c, 7 - i).type]
       = <<"INT", "INT", "any", "REF", "INT", "REF">>

(* Mutant: the frame of the outer try is not restored.                     *)
PopTryRegsButFrame(c) ==
  [PopLocalVars(c, 6) EXCEPT
     !.try_flag = OnTop(c, 6).a = 1, !.try_catch_flag = OnTop(c, 6).b = 1,
     !.try_arg2 = OnTop(c, 4)]

PopTryRegs(c) ==
  [PopLocalVars(c, 6) EXCEPT
     !.try_flag = OnTop(c, 6).a = 1, !.try_catch_flag = OnTop(c, 6).b = 1,
     !.try_abp = OnTop(c, 5).a, !.try_ac = OnTop(c, 5).b,
     !.try_arg2 = OnTop(c, 4)]

----------------------------------------------------------------------------
(* Frames.                                                                 *)
CanEnter(c) == c.abp2 + c.ac2 + 4 < StackSize

EnterToFun(c) ==
  LET fbp == c.abp2 + c.ac2
  IN  [c EXCEPT !.stack = Store(@, fbp, <<PairWord(c.abp, c.ac), PairWord(c.lvc, c.ip),
                                          IntWord(Bit(c.fp), c.index), PairWord(0, 0)>>),
                !.abp = c.abp2, !.ac = c.ac2, !.abp2 = fbp + 4, !.sec = fbp + 4,
                !.lvc = 0, !.ac2 = 0, !.fp = TRUE, !.ip = 0,
                !.flag1 = FALSE, !.flag2 = FALSE, !.index = 0]

Fbp(c) == c.abp + c.ac

CanLeave(c) ==
  /\ Fbp(c) + 4 < StackSize
  /\ [i \in 0 .. 3 |-> c.stack[Fbp(c) + i].type]
       = [i \in 0 .. 3 |-> IF i = 2 THEN "INT" ELSE "PAIR"]

(* Mutant: the end of the stack stays where it was.                        *)
LeaveFromFunKeepingSec(c) ==
  LET saved(i) == c.stack[Fbp(c) + i]
  IN  [c EXCEPT !.abp2 = c.abp, !.ac2 = c.ac,
                !.abp = saved(0).a, !.ac = saved(0).b,
                !.lvc = saved(1).a, !.ip = saved(1).b,
                !.fp = saved(2).a = 1, !.index = saved(2).b,
                !.flag1 = @ \/ saved(2).b = 0, !.flag2 = @ \/ saved(2).b = 1]

LeaveFromFun(c) ==
  LET saved(i) == c.stack[Fbp(c) + i]
  IN  [c EXCEPT !.abp2 = c.abp, !.ac2 = c.ac, !.sec = c.abp,
                !.abp = saved(0).a, !.ac = saved(0).b,
                !.lvc = saved(1).a, !.ip = saved(1).b,
                !.fp = saved(2).a = 1, !.index = saved(2).b,
                !.flag1 = @ \/ saved(2).b = 0, !.flag2 = @ \/ saved(2).b = 1]

(* Everything above the native function's frame is given up.               *)
SetErrorWithoutTry(c) ==
  [c EXCEPT !.abp = c.nfbp, !.abp2 = c.nfbp, !.sec = c.nfbp, !.ac = 0, !.lvc = 0,
            !.ac2 = 0, !.fp = FALSE, !.ip = 0, !.error = TRUE,
            !.flag1 = FALSE, !.flag2 = FALSE]

TryInForce(c) == c.try_flag /\ c.try_abp >= c.nfbp

SetError(c) ==
  LET d == [c EXCEPT !.abp = c.try_abp, !.ac = c.try_ac, !.index = 0, !.error = TRUE]
  IN  IF ~TryInForce(c) THEN SetErrorWithoutTry(c)
      ELSE IF CanLeave(d) THEN LeaveFromFun(d)
      ELSE SetErrorWithoutTry(d)

----------------------------------------------------------------------------
(* Around a native function.  The registers are kept by the C++ stack, the *)
(* words that a collection must see by the thread's.                       *)
SavedWords(c) == <<c.try_arg2, RefWord, RefWord, RefWord, RefWord, RefWord, RefWord>>

CanSaveRegs(c) == CanPush(c, 7)

SaveRegsAndSetRegs(c) ==
  LET sec == c.abp2 + c.ac2
      nfbp == sec + 7
  IN  [c EXCEPT !.stack = Store(@, sec, SavedWords(c)),
                !.nfbp = nfbp, !.abp = nfbp, !.abp2 = nfbp, !.sec = nfbp,
                !.ac = 0, !.lvc = 0, !.ac2 = 0, !.fp = FALSE, !.ip = 0,
                !.flag1 = FALSE, !.flag2 = FALSE, !.index = 0,
                !.try_flag = FALSE, !.try_catch_flag = FALSE, !.try_arg2 = ErrorWord,
                !.try_abp = nfbp, !.try_ac = 0, !.error = FALSE]

(* saved is the context as it was; the stack and tmp_ac2 are not saved.    *)
RestoreRegs(c, saved) ==
  LET sec == saved.abp2 + saved.ac2
      d == [saved EXCEPT !.stack = c.stack, !.tmp_ac2 = c.tmp_ac2, !.error = c.error,
                         !.sec = sec]
  IN  IF \A i \in 1 .. 6 : c.stack[sec + i].type = "REF"
        THEN [d EXCEPT !.try_arg2 = c.stack[sec]]
        ELSE [d EXCEPT !.try_flag = FALSE, !.try_catch_flag = FALSE, !.try_arg2 = ErrorWord,
                       !.try_abp = saved.nfbp, !.try_ac = 0]
=============================================================================
