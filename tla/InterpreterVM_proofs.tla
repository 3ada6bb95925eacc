------------------------ MODULE InterpreterVM_proofs ------------------------
(***************************************************************************)
(* Proofs about InterpreterVM, for any program, any values and a stack of  *)
(* any size that has room for the first function.                          *)
(*                                                                         *)
(* The stack is read as a chain of activations: frames, each of a function *)
(* that an instruction of the frame below waits for, with the words that   *)
(* this instruction will pop when it is begun again, and the try that was  *)
(* in force at the entrance.  An action leads from such a stack to another *)
(* one that agrees with it below the native function's frame.              *)
(***************************************************************************)
EXTENDS InterpreterVM, SequenceTheorems, TLAPS

Stacks == [0 .. StackSize - 1 -> AnyWord]

(* The registers of a thread, with its stack or, if they are kept for a    *)
(* native function, without.                                               *)
Registers(S) ==
  [stack : S, abp : Nat, ac : Nat, lvc : Nat, abp2 : Nat, ac2 : Nat, sec : Nat, nfbp : Nat,
   fp : BOOLEAN, ip : {0} \union DOMAIN Program, flag1 : BOOLEAN, flag2 : BOOLEAN,
   index : {0, 1}, tmp_ac2 : Nat, try_flag : BOOLEAN, try_catch_flag : BOOLEAN,
   try_abp : Nat, try_ac : Nat, try_arg2 : AnyWord, error : BOOLEAN]

Contexts == Registers(Stacks)
Keepings == Registers({<<>>})

(* The registers of the try in force, without its argument.                *)
Tries == [flag : BOOLEAN, catch : BOOLEAN, abp : Nat, ac : Nat]

TryOf(c) ==
  [flag |-> c.try_flag, catch |-> c.try_catch_flag, abp |-> c.try_abp, ac |-> c.try_ac]

(* The two stacks hold the same words below m.                             *)
Agree(s, t, m) == \A x \in 0 .. StackSize - 1 : x < m => s[x] = t[x]

(* The registers that pushing and popping leave alone.                     *)
Moved(c, d) ==
  /\ d.abp = c.abp /\ d.ac = c.ac /\ d.lvc = c.lvc /\ d.nfbp = c.nfbp /\ d.fp = c.fp
  /\ d.ip = c.ip /\ d.flag2 = c.flag2 /\ d.index = c.index
  /\ d.error = c.error

(* The registers of the try in force are the same.                         *)
SameTry(c, d) ==
  /\ d.try_flag = c.try_flag /\ d.try_catch_flag = c.try_catch_flag
  /\ d.try_abp = c.try_abp /\ d.try_ac = c.try_ac /\ d.try_arg2 = c.try_arg2

(* Writing words into a stack gives a stack, changes nothing below them,   *)
(* and they are found where they were written.                             *)
LEMMA Stored ==
  ASSUME NEW s \in Stacks, NEW at \in Nat, NEW words \in Seq(AnyWord)
  PROVE  /\ Store(s, at, words) \in Stacks
         /\ Agree(s, Store(s, at, words), at)
         /\ \A i \in 1 .. Len(words) :
              at + i <= StackSize => Store(s, at, words)[at + i - 1] = words[i]
<1> DEFINE t == Store(s, at, words)
<1>1. \A i \in 0 .. StackSize - 1 : s[i] \in AnyWord BY DEF Stacks
<1>2. DOMAIN s = 0 .. StackSize - 1 BY DEF Stacks
<1>3. \A i \in 1 .. Len(words) : words[i] \in AnyWord OBVIOUS
<1>4. Len(words) \in Nat OBVIOUS
<1>5. \A i \in 0 .. StackSize - 1 :
        t[i] = IF i - at \in 0 .. Len(words) - 1 THEN words[i - at + 1] ELSE s[i]
  BY <1>2 DEF Store
<1>6. \A i \in 0 .. StackSize - 1 : t[i] \in AnyWord
  BY <1>1, <1>3, <1>4, <1>5, StackSizeAssumption
<1>7. t \in Stacks BY <1>2, <1>6 DEF Stacks, Store
<1>8. Agree(s, t, at) BY <1>4, <1>5 DEF Agree
<1>9. ASSUME NEW i \in 1 .. Len(words), at + i <= StackSize PROVE t[at + i - 1] = words[i]
  <2>1. at + i - 1 \in 0 .. StackSize - 1 BY <1>4, <1>9, StackSizeAssumption
  <2>2. QED BY <1>4, <1>5, <2>1
<1>10. QED BY <1>7, <1>8, <1>9

(* A place of the stack holds a word of two numbers.                       *)
LEMMA WordsOfStacks ==
  ASSUME NEW s \in Stacks, NEW i \in Nat, i < StackSize
  PROVE  s[i] \in AnyWord /\ s[i].a \in Nat /\ s[i].b \in Nat
<1>1. s[i] \in AnyWord BY StackSizeAssumption DEF Stacks
<1>2. QED BY <1>1 DEF AnyWord

(* The types of the registers.                                             *)
LEMMA ContextTypes ==
  ASSUME NEW c \in Contexts
  PROVE  /\ c.stack \in Stacks
         /\ c.abp \in Nat /\ c.ac \in Nat /\ c.lvc \in Nat /\ c.abp2 \in Nat /\ c.ac2 \in Nat
         /\ c.sec \in Nat /\ c.nfbp \in Nat /\ c.tmp_ac2 \in Nat
         /\ c.try_abp \in Nat /\ c.try_ac \in Nat /\ c.index \in {0, 1}
         /\ c.ip \in {0} \union DOMAIN Program /\ c.try_arg2 \in AnyWord
         /\ c.fp \in BOOLEAN /\ c.flag1 \in BOOLEAN /\ c.flag2 \in BOOLEAN
         /\ c.try_flag \in BOOLEAN /\ c.try_catch_flag \in BOOLEAN /\ c.error \in BOOLEAN
BY DEF Contexts, Registers

(* What pushing local variables does to the registers.                     *)
LEMMA PushLocalVarsMoves ==
  ASSUME NEW c \in Contexts, NEW words \in Seq(AnyWord), NEW d, d = PushLocalVars(c, words)
  PROVE  /\ d \in Contexts /\ Moved(c, d) /\ SameTry(c, d)
         /\ d.flag1 = c.flag1 /\ d.tmp_ac2 = c.tmp_ac2
         /\ d.stack = Store(c.stack, c.abp2, words)
         /\ d.abp2 = c.abp2 + Len(words) /\ d.ac2 = 0 /\ d.sec = d.abp2
<1>1. Store(c.stack, c.abp2, words) \in Stacks BY ContextTypes, Stored
<1>2. c.abp2 + Len(words) \in Nat BY ContextTypes
<1>3. QED BY <1>1, <1>2 DEF Contexts, Registers, Moved, SameTry, PushLocalVars

(* What pushing arguments does to the registers.                           *)
LEMMA PushArgsMoves ==
  ASSUME NEW c \in Contexts, NEW words \in Seq(AnyWord), NEW d, d = PushArgs(c, words)
  PROVE  /\ d \in Contexts /\ Moved(c, d) /\ SameTry(c, d)
         /\ d.flag1 = c.flag1 /\ d.tmp_ac2 = c.tmp_ac2
         /\ d.stack = Store(c.stack, c.abp2 + c.ac2, words)
         /\ d.abp2 = c.abp2 /\ d.ac2 = c.ac2 + Len(words) /\ d.sec = c.sec + Len(words)
<1>1. Store(c.stack, c.abp2 + c.ac2, words) \in Stacks BY ContextTypes, Stored
<1>2. c.ac2 + Len(words) \in Nat /\ c.sec + Len(words) \in Nat BY ContextTypes
<1>3. QED BY <1>1, <1>2 DEF Contexts, Registers, Moved, SameTry, PushArgs

(* As many words are written as fit, at most.                              *)
LEMMA Fits ==
  ASSUME NEW words \in Seq(AnyWord), NEW n \in Nat
  PROVE  Fitting(words, n) \in Seq(AnyWord) /\ Len(Fitting(words, n)) <= n
BY DEF Fitting

(* What popping the arguments does to the registers.                       *)
LEMMA PopArgsMoves ==
  ASSUME NEW c \in Contexts, NEW d, d = PopArgs(c)
  PROVE  /\ d \in Contexts /\ Moved(c, d) /\ SameTry(c, d)
         /\ d.flag1 = c.flag1 /\ d.tmp_ac2 = c.tmp_ac2 /\ d.stack = c.stack
         /\ d.abp2 = c.abp2 /\ d.ac2 = 0 /\ d.sec = c.abp2
BY DEF Contexts, Registers, Moved, SameTry, PopArgs

(* Hiding the pushed arguments makes local words of them and keeps their   *)
(* count in tmp_ac2.                                                       *)
LEMMA HideArgsMoves ==
  ASSUME NEW c \in Contexts, NEW d, d = HideArgs(c)
  PROVE  /\ d \in Contexts /\ Moved(c, d) /\ SameTry(c, d)
         /\ d.flag1 = c.flag1 /\ d.tmp_ac2 = c.ac2 /\ d.stack = c.stack
         /\ d.abp2 = c.abp2 + c.ac2 /\ d.ac2 = 0 /\ d.sec = c.sec
<1>1. c.abp2 + c.ac2 \in Nat BY ContextTypes
<1>2. d \in Contexts BY <1>1 DEF Contexts, Registers, HideArgs
<1>3. QED BY <1>2 DEF Contexts, Registers, Moved, SameTry, HideArgs

(* The arguments that were hidden are arguments again, if there are that   *)
(* many words.                                                             *)
LEMMA RestoreArgsMoves ==
  ASSUME NEW c \in Contexts, NEW d, c.tmp_ac2 <= c.abp2, d = RestoreArgs(c)
  PROVE  /\ d \in Contexts /\ Moved(c, d) /\ SameTry(c, d)
         /\ d.flag1 = c.flag1 /\ d.stack = c.stack
         /\ d.abp2 + c.tmp_ac2 = c.abp2 /\ d.ac2 = c.tmp_ac2 /\ d.sec = c.abp2
<1>1. c.abp2 - c.tmp_ac2 \in Nat BY ContextTypes
<1>2. d = [c EXCEPT !.abp2 = c.abp2 - c.tmp_ac2, !.ac2 = c.tmp_ac2, !.sec = c.abp2]
  BY DEF RestoreArgs
<1>3. d \in Contexts BY <1>1, <1>2 DEF Contexts, Registers
<1>4. /\ d.abp2 = c.abp2 - c.tmp_ac2 /\ d.ac2 = c.tmp_ac2 /\ d.sec = c.abp2
      /\ d.flag1 = c.flag1 /\ d.stack = c.stack
  BY <1>2 DEF Contexts, Registers
<1>5. Moved(c, d) /\ SameTry(c, d) BY <1>2 DEF Contexts, Registers, Moved, SameTry
<1>6. QED BY <1>1, <1>3, <1>4, <1>5, ContextTypes

(* The count of hidden arguments is taken from the word on top.            *)
LEMMA PopTmpAc2Moves ==
  ASSUME NEW c \in Contexts, NEW d, 1 <= c.abp2, c.abp2 <= c.sec, c.abp2 <= StackSize,
         d = PopTmpAc2(c)
  PROVE  /\ d \in Contexts /\ Moved(c, d) /\ SameTry(c, d)
         /\ d.flag1 = c.flag1 /\ d.stack = c.stack /\ d.tmp_ac2 = c.stack[c.abp2 - 1].a
         /\ d.abp2 = c.abp2 - 1 /\ d.ac2 = c.ac2
<1>1. c.abp2 - 1 \in Nat /\ c.sec - 1 \in Nat BY ContextTypes
<1>2. c.stack[c.abp2 - 1].a \in Nat BY <1>1, ContextTypes, WordsOfStacks, StackSizeAssumption
<1>3. QED BY <1>1, <1>2 DEF Contexts, Registers, Moved, SameTry, PopTmpAc2, PopLocalVars, OnTop

(* A try puts itself in force.                                             *)
LEMMA SetTryRegsSets ==
  ASSUME NEW c \in Contexts, NEW w \in AnyWord, NEW d, d = SetTryRegs(c, w)
  PROVE  /\ d \in Contexts /\ Moved(c, d)
         /\ d.flag1 = c.flag1 /\ d.tmp_ac2 = c.tmp_ac2 /\ d.stack = c.stack
         /\ d.abp2 = c.abp2 /\ d.ac2 = c.ac2 /\ d.sec = c.sec
         /\ d.try_flag /\ ~d.try_catch_flag /\ d.try_abp = c.abp2 /\ d.try_ac = c.ac2
BY DEF Contexts, Registers, Moved, SetTryRegs

(* A try that forces its result moves to the arguments of the lazy value's *)
(* function.                                                               *)
LEMMA SetTryRegsForForceSets ==
  ASSUME NEW c \in Contexts, NEW d, d = SetTryRegsForForce(c)
  PROVE  /\ d \in Contexts /\ Moved(c, d)
         /\ d.flag1 = c.flag1 /\ d.tmp_ac2 = c.tmp_ac2 /\ d.stack = c.stack
         /\ d.abp2 = c.abp2 /\ d.ac2 = c.ac2 /\ d.sec = c.sec
         /\ d.try_flag = c.try_flag /\ d.try_catch_flag = c.try_catch_flag
         /\ d.try_abp = c.abp2 /\ d.try_ac = c.ac2
BY DEF Contexts, Registers, Moved, SetTryRegsForForce

(* The registers of the outer try are taken from the six words on top.     *)
LEMMA PopTryRegsPops ==
  ASSUME NEW c \in Contexts, NEW d, 6 <= c.abp2, c.abp2 <= c.sec, c.abp2 <= StackSize,
         d = PopTryRegs(c)
  PROVE  /\ d \in Contexts /\ Moved(c, d)
         /\ d.flag1 = c.flag1 /\ d.tmp_ac2 = c.tmp_ac2 /\ d.stack = c.stack
         /\ d.abp2 = c.abp2 - 6 /\ d.ac2 = c.ac2 /\ d.sec = c.sec - 6
         /\ d.try_flag <=> c.stack[c.abp2 - 6].a = 1
         /\ d.try_catch_flag <=> c.stack[c.abp2 - 6].b = 1
         /\ d.try_abp = c.stack[c.abp2 - 5].a /\ d.try_ac = c.stack[c.abp2 - 5].b
<1>1. c.abp2 - 6 \in Nat /\ c.abp2 - 5 \in Nat /\ c.abp2 - 4 \in Nat /\ c.sec - 6 \in Nat
  BY ContextTypes
<1>2. /\ c.stack[c.abp2 - 5].a \in Nat /\ c.stack[c.abp2 - 5].b \in Nat
      /\ c.stack[c.abp2 - 4] \in AnyWord
  BY <1>1, ContextTypes, WordsOfStacks, StackSizeAssumption
<1> DEFINE e == [c EXCEPT !.abp2 = c.abp2 - 6, !.sec = c.sec - 6,
                          !.try_abp = c.stack[c.abp2 - 5].a, !.try_ac = c.stack[c.abp2 - 5].b,
                          !.try_arg2 = c.stack[c.abp2 - 4]]
<1>3. e \in Contexts BY <1>1, <1>2 DEF Contexts, Registers
<1> DEFINE f == c.stack[c.abp2 - 6].a = 1
           g == c.stack[c.abp2 - 6].b = 1
<1>4. d = [e EXCEPT !.try_flag = f, !.try_catch_flag = g]
  <2> DEFINE x == c.stack[c.abp2 - 5].a
             y == c.stack[c.abp2 - 5].b
             z == c.stack[c.abp2 - 4]
             m == c.abp2 - 6
             n == c.sec - 6
  <2>1. d = [[c EXCEPT !.abp2 = m, !.sec = n] EXCEPT
               !.try_flag = f, !.try_catch_flag = g, !.try_abp = x, !.try_ac = y, !.try_arg2 = z]
    BY DEF PopTryRegs, PopLocalVars, OnTop
  <2>2. e = [c EXCEPT !.abp2 = m, !.sec = n, !.try_abp = x, !.try_ac = y, !.try_arg2 = z]
    OBVIOUS
  <2> HIDE DEF e, f, g, x, y, z, m, n
  <2>3. QED BY <2>1, <2>2 DEF Contexts, Registers
<1>5. /\ e.stack = c.stack /\ Moved(c, e) /\ e.flag1 = c.flag1 /\ e.tmp_ac2 = c.tmp_ac2
      /\ e.abp2 = c.abp2 - 6 /\ e.ac2 = c.ac2 /\ e.sec = c.sec - 6
      /\ e.try_abp = c.stack[c.abp2 - 5].a /\ e.try_ac = c.stack[c.abp2 - 5].b
  BY DEF Contexts, Registers, Moved
<1> HIDE DEF e
<1>6. f \in BOOLEAN /\ g \in BOOLEAN OBVIOUS
<1> HIDE DEF f, g
<1>a. d \in Contexts BY <1>3, <1>4, <1>6 DEF Contexts, Registers
<1>7. /\ Moved(e, d) /\ d.stack = e.stack
      /\ d.flag1 = e.flag1 /\ d.tmp_ac2 = e.tmp_ac2
      /\ d.abp2 = e.abp2 /\ d.ac2 = e.ac2 /\ d.sec = e.sec
      /\ d.try_flag = f /\ d.try_catch_flag = g
      /\ d.try_abp = e.try_abp /\ d.try_ac = e.try_ac
  BY <1>3, <1>4 DEF Contexts, Registers, Moved
<1>8. Moved(c, d) BY <1>5, <1>7 DEF Moved
<1>9. QED BY <1>5, <1>7, <1>8, <1>a DEF f, g

(* The parts of an instruction of the program.                             *)
LEMMA InstructionTypes ==
  ASSUME NEW c \in Contexts
  PROVE  c.ip \in Nat /\ (c.ip # 0 => c.ip \in DOMAIN Program)
BY ContextTypes, ProgramAssumption

(* What entering a function does to the registers and writes above its     *)
(* arguments.                                                              *)
LEMMA EnterMoves ==
  ASSUME NEW c \in Contexts, NEW d, d = EnterToFun(c)
  PROVE  /\ d \in Contexts /\ SameTry(c, d) /\ d.tmp_ac2 = c.tmp_ac2
         /\ d.stack = Store(c.stack, c.abp2 + c.ac2,
                            <<PairWord(c.abp, c.ac), PairWord(c.lvc, c.ip),
                              IntWord(Bit(c.fp), c.index), PairWord(0, 0)>>)
         /\ d.abp = c.abp2 /\ d.ac = c.ac2 /\ d.abp2 = c.abp2 + c.ac2 + 4 /\ d.sec = d.abp2
         /\ d.lvc = 0 /\ d.ac2 = 0 /\ d.fp /\ d.ip = 0
         /\ ~d.flag1 /\ ~d.flag2 /\ d.index = 0 /\ d.nfbp = c.nfbp /\ d.error = c.error
<1> DEFINE words == <<PairWord(c.abp, c.ac), PairWord(c.lvc, c.ip),
                      IntWord(Bit(c.fp), c.index), PairWord(0, 0)>>
<1>1. words \in Seq(AnyWord)
  <2>1. c.ip \in Nat BY ContextTypes, ProgramAssumption
  <2>2. Bit(c.fp) \in Nat BY DEF Bit
  <2>3. PairWord(c.abp, c.ac) \in AnyWord /\ PairWord(c.lvc, c.ip) \in AnyWord
    BY <2>1, ContextTypes DEF PairWord, Word, AnyWord
  <2>4. IntWord(Bit(c.fp), c.index) \in AnyWord /\ PairWord(0, 0) \in AnyWord
    BY <2>2, ContextTypes DEF PairWord, IntWord, Word, AnyWord
  <2>5. QED BY <2>3, <2>4
<1>2. c.abp2 + c.ac2 \in Nat /\ c.abp2 + c.ac2 + 4 \in Nat /\ c.stack \in Stacks
  BY ContextTypes
<1>3. d = [c EXCEPT !.stack = Store(@, c.abp2 + c.ac2, words),
                    !.abp = c.abp2, !.ac = c.ac2, !.abp2 = c.abp2 + c.ac2 + 4,
                    !.sec = c.abp2 + c.ac2 + 4, !.lvc = 0, !.ac2 = 0, !.fp = TRUE, !.ip = 0,
                    !.flag1 = FALSE, !.flag2 = FALSE, !.index = 0]
  BY DEF EnterToFun
<1> HIDE DEF words
<1>4. Store(c.stack, c.abp2 + c.ac2, words) \in Stacks BY <1>1, <1>2, Stored
<1>5. d \in Contexts
  <2> DEFINE e == [c EXCEPT !.stack = Store(c.stack, c.abp2 + c.ac2, words), !.abp = c.abp2,
                            !.ac = c.ac2, !.abp2 = c.abp2 + c.ac2 + 4,
                            !.sec = c.abp2 + c.ac2 + 4, !.lvc = 0, !.ac2 = 0]
  <2>1. e \in Contexts BY <1>2, <1>4 DEF Contexts, Registers
  <2>2. d = [e EXCEPT !.fp = TRUE, !.ip = 0, !.flag1 = FALSE, !.flag2 = FALSE, !.index = 0]
    BY <1>3 DEF Contexts, Registers
  <2> HIDE DEF e
  <2>3. QED BY <2>1, <2>2 DEF Contexts, Registers
<1>6. /\ SameTry(c, d) /\ d.tmp_ac2 = c.tmp_ac2
      /\ d.stack = Store(c.stack, c.abp2 + c.ac2, words)
      /\ d.abp = c.abp2 /\ d.ac = c.ac2 /\ d.abp2 = c.abp2 + c.ac2 + 4 /\ d.sec = d.abp2
      /\ d.lvc = 0 /\ d.ac2 = 0 /\ d.fp /\ d.ip = 0
      /\ ~d.flag1 /\ ~d.flag2 /\ d.index = 0 /\ d.nfbp = c.nfbp /\ d.error = c.error
  BY <1>3 DEF Contexts, Registers, SameTry
<1>7. QED BY <1>5, <1>6 DEF words

(* What leaving a function takes from the four words of its caller.        *)
LEMMA LeaveMoves ==
  ASSUME NEW c \in Contexts, NEW d, Fbp(c) + 4 < StackSize, d = LeaveFromFun(c),
         c.stack[Fbp(c) + 1].b \in {0} \union DOMAIN Program,
         c.stack[Fbp(c) + 2].b \in {0, 1}
  PROVE  /\ d \in Contexts /\ d.tmp_ac2 = c.tmp_ac2 /\ d.stack = c.stack /\ SameTry(c, d)
         /\ d.abp2 = c.abp /\ d.ac2 = c.ac /\ d.sec = c.abp
         /\ d.abp = c.stack[Fbp(c)].a /\ d.ac = c.stack[Fbp(c)].b
         /\ d.lvc = c.stack[Fbp(c) + 1].a /\ d.ip = c.stack[Fbp(c) + 1].b
         /\ d.fp <=> c.stack[Fbp(c) + 2].a = 1
         /\ d.index = c.stack[Fbp(c) + 2].b
         /\ d.flag1 <=> (c.flag1 \/ d.index = 0)
         /\ d.flag2 <=> (c.flag2 \/ d.index = 1)
         /\ d.error = c.error /\ d.nfbp = c.nfbp
<1> DEFINE p == Fbp(c)
           st == c.stack
<1>1. st \in Stacks /\ p \in Nat /\ p + 1 \in Nat /\ p + 2 \in Nat BY ContextTypes DEF Fbp
<1>2. p < StackSize /\ p + 1 < StackSize BY <1>1, StackSizeAssumption
<1>3. st[p].a \in Nat /\ st[p].b \in Nat /\ st[p + 1].a \in Nat BY <1>1, <1>2, WordsOfStacks
<1> DEFINE e == [c EXCEPT !.abp2 = c.abp, !.ac2 = c.ac, !.sec = c.abp, !.abp = st[p].a,
                          !.ac = st[p].b, !.lvc = st[p + 1].a, !.ip = st[p + 1].b,
                          !.index = st[p + 2].b]
<1>4. e \in Contexts BY <1>3 DEF Contexts, Registers
<1>5. st[p + 0] = st[p] BY <1>1
<1> DEFINE x == st[p + 2].a = 1
           y == c.flag1 \/ st[p + 2].b = 0
           z == c.flag2 \/ st[p + 2].b = 1
<1>6. d = [e EXCEPT !.fp = x, !.flag1 = y, !.flag2 = z]
  <2>1. d = [c EXCEPT !.abp2 = c.abp, !.ac2 = c.ac, !.sec = c.abp, !.abp = st[p].a,
                      !.ac = st[p].b, !.lvc = st[p + 1].a, !.ip = st[p + 1].b,
                      !.fp = x, !.index = st[p + 2].b, !.flag1 = y, !.flag2 = z]
    BY <1>5 DEF LeaveFromFun
  <2> HIDE DEF x, y, z, p, st
  <2>2. QED BY <2>1 DEF Contexts, Registers
<1>7. /\ e.tmp_ac2 = c.tmp_ac2 /\ e.stack = c.stack /\ SameTry(c, e)
      /\ e.abp2 = c.abp /\ e.ac2 = c.ac /\ e.sec = c.abp /\ e.abp = st[p].a /\ e.ac = st[p].b
      /\ e.lvc = st[p + 1].a /\ e.ip = st[p + 1].b /\ e.index = st[p + 2].b
      /\ e.flag1 = c.flag1 /\ e.flag2 = c.flag2 /\ e.error = c.error /\ e.nfbp = c.nfbp
  BY DEF Contexts, Registers, SameTry
<1> HIDE DEF e, p
<1>8. d \in Contexts
  <2>1. x \in BOOLEAN /\ y \in BOOLEAN /\ z \in BOOLEAN OBVIOUS
  <2> HIDE DEF x, y, z
  <2>2. QED BY <1>4, <1>6, <2>1 DEF Contexts, Registers
<1>9. /\ d.fp <=> st[p + 2].a = 1
      /\ d.flag1 <=> (e.flag1 \/ st[p + 2].b = 0)
      /\ d.flag2 <=> (e.flag2 \/ st[p + 2].b = 1)
  <2> HIDE DEF x, y, z
  <2>1. d.fp = x /\ d.flag1 = y /\ d.flag2 = z BY <1>4, <1>6 DEF Contexts, Registers
  <2>2. QED BY <1>7, <2>1 DEF x, y, z
<1>10. /\ d.tmp_ac2 = e.tmp_ac2 /\ d.stack = e.stack /\ SameTry(e, d)
       /\ d.abp2 = e.abp2 /\ d.ac2 = e.ac2 /\ d.sec = e.sec /\ d.abp = e.abp /\ d.ac = e.ac
       /\ d.lvc = e.lvc /\ d.ip = e.ip /\ d.index = e.index
       /\ d.error = e.error /\ d.nfbp = e.nfbp
  BY <1>4, <1>6 DEF Contexts, Registers, SameTry
<1>11. SameTry(c, d) BY <1>7, <1>10 DEF SameTry
<1>12. QED BY <1>7, <1>8, <1>9, <1>10, <1>11 DEF p

(* An error that no try catches leaves nothing above the native function's *)
(* frame.                                                                  *)
LEMMA FailMoves ==
  ASSUME NEW c \in Contexts, NEW d, d = SetErrorWithoutTry(c)
  PROVE  /\ d \in Contexts /\ SameTry(c, d) /\ d.stack = c.stack /\ d.nfbp = c.nfbp
         /\ d.abp2 = c.nfbp /\ d.ac2 = 0 /\ d.sec = c.nfbp /\ ~d.fp /\ d.ip = 0
         /\ ~d.flag1 /\ ~d.flag2 /\ d.error
BY DEF Contexts, Registers, SameTry, SetErrorWithoutTry

(* A frame: its arguments, and the try that was in force when its function *)
(* was entered.                                                            *)
Frames == [abp : Nat, ac : Nat, try : Tries]

(* Where the local variables of a frame begin.                             *)
AfterSaved(f) == f.abp + f.ac + 4

(* The three words below b that a forced value's function is called above: *)
(* the count of the hidden arguments and flag1, a number, the lazy value   *)
(* that is locked.                                                         *)
ForceTemps(st, low, b) ==
  /\ low + 3 <= b
  /\ low + 3 + st[b - 3].a <= b
  /\ st[b - 1].type = "LOCKED_LAZY_VALUE_REF"
  /\ st[b - 2].type = "INT"
  /\ st[b - 3].type = "PAIR"

(* The seven words below b that a try's function is called above: the      *)
(* count of the hidden arguments and the registers of the outer try r.     *)
TryTempsAt(st, low, b, r) ==
  /\ low + 7 <= b
  /\ low + 7 + st[b - 7].a <= b
  /\ st[b - 7].type = "INT"
  /\ st[b - 6] = IntWord(Bit(r.flag), Bit(r.catch))
  /\ st[b - 5] = IntWord(r.abp, r.ac)
  /\ st[b - 3].type = "REF"
  /\ st[b - 2].type = "INT"
  /\ st[b - 1].type = "REF"

(* The word below b that a call that pushes its result as an argument is   *)
(* made above: the count of the arguments hidden.                          *)
CountAt(st, low, b) ==
  /\ low + 1 <= b
  /\ low + 1 + st[b - 1].a <= b
  /\ st[b - 1].type = "INT"

(* The instruction k has called a function whose n arguments begin at b.   *)
Called(st, low, k, b, n, r) ==
  /\ low <= b
  /\ Op(k) \in {"call", "try"}
  /\ Op(k) = "try" => ~IsArg(k) /\ TryTempsAt(st, low, b, r)
  /\ Op(k) = "call" /\ IsArg(k) => n = 0 /\ CountAt(st, low, b)

(* The instruction k has forced a value whose function has its arguments   *)
(* at b; below are the words of the force and, if flag1 is among them,     *)
(* those of a try that had its result and forces it.                       *)
Forced(st, low, k, b, r) ==
  /\ ForceTemps(st, low, b)
  /\ st[b - 3].b # 0 =>
       Op(k) = "try" /\ Called(st, low, k, b - 3 - st[b - 3].a, st[b - 3].a, r)

(* The instruction k waits for a function whose arguments begin at b: one  *)
(* that it called itself, or, with index 1, one of a lazy value.           *)
Waits(st, low, k, index, b, n, r) ==
  /\ k \in DOMAIN Program
  /\ IF index = 1 THEN Forced(st, low, k, b, r) ELSE Called(st, low, k, b, n, r)

(* The function at b is the first or the handling one of a try, or of a    *)
(* lazy value that one of these returned.                                  *)
AtTry(st, k, index, b) == Op(k) = "try" /\ (index = 0 \/ st[b - 3].b # 0)

(* The registers of a try while its second function runs.                  *)
Handling(outer) == [outer EXCEPT !.catch = TRUE]

(* The registers of a try whose first function has its n arguments at b.   *)
Own(b, n) == [flag |-> TRUE, catch |-> FALSE, abp |-> b, ac |-> n]

(* The try that is in force in a function, from the one in force in its    *)
(* caller.                                                                 *)
Watched(st, k, index, b, n, outer, inner) ==
  IF AtTry(st, k, index, b) THEN inner = Own(b, n) \/ inner = Handling(outer)
  ELSE inner = outer

(* The registers of the try in force when a function has been left.        *)
Left(st, k, index, b, outer, c) ==
  IF AtTry(st, k, index, b)
    THEN \/ TryOf(c) = Handling(outer)
         \/ c.try_flag /\ c.try_abp = b /\ (c.error \/ ~c.try_catch_flag)
  ELSE TryOf(c) = outer

(* The words that save the registers of a caller have the types that       *)
(* leave_from_fun checks.                                                  *)
SavedTypes(st, p) ==
  /\ st[p].type = "PAIR" /\ st[p + 1].type = "PAIR"
  /\ st[p + 2].type = "INT" /\ st[p + 3].type = "PAIR"

(* Where the four words of the caller's registers are.                     *)
SavedAt(g) == g.abp + g.ac

(* f waits for g.                                                          *)
Link(st, f, g) ==
  LET p == SavedAt(g)
  IN  /\ SavedTypes(st, p)
      /\ st[p].a = f.abp /\ st[p].b = f.ac
      /\ st[p + 2].a = 1 /\ st[p + 2].b \in {0, 1}
      /\ Waits(st, AfterSaved(f) + st[p + 1].a, st[p + 1].b, st[p + 2].b, g.abp, g.ac, f.try)
      /\ Watched(st, st[p + 1].b, st[p + 2].b, g.abp, g.ac, f.try, g.try)

(* g is the first of the activations above the frame of a native function: *)
(* nobody waits for it, and no try is in force in it.                      *)
First(st, nf, g) ==
  LET p == SavedAt(g)
  IN  /\ SavedTypes(st, p)
      /\ st[p + 1].b = 0
      /\ st[p + 2].a = 0 /\ st[p + 2].b \in {0, 1}
      /\ st[p + 2].b = 1 => ForceTemps(st, nf, g.abp)
      /\ ~g.try.flag

(* The function of frame g has been called by a try.                       *)
CalledByTry(st, g) ==
  AtTry(st, st[SavedAt(g) + 1].b, st[SavedAt(g) + 2].b, g.abp)

(* One of the first n activations, not the first, is that which the try r  *)
(* returns to.                                                             *)
Caught(st, fs, n, r) ==
  \E i \in 2 .. n : fs[i].abp = r.abp /\ fs[i].ac = r.ac /\ CalledByTry(st, fs[i])

(* fs are the activations on the stack above the native function's frame:  *)
(* disjoint, in order, each waiting for the next; where a try is in force  *)
(* it is the try of one of them.                                           *)
Chain(st, fs, nf) ==
  /\ fs \in Seq(Frames)
  /\ \A i \in 1 .. Len(fs) : nf <= fs[i].abp /\ AfterSaved(fs[i]) < StackSize
  /\ \A i, j \in 1 .. Len(fs) : i < j => AfterSaved(fs[i]) <= fs[j].abp
  /\ fs # <<>> => First(st, nf, fs[1])
  /\ \A j \in 2 .. Len(fs) : Link(st, fs[j - 1], fs[j])
  /\ \A j \in 1 .. Len(fs) : fs[j].try.flag => Caught(st, fs, j, fs[j].try)

(* The first word above the local variables of the function that runs.     *)
Low(c) == Lvbp(c) + c.lvc

(* The last activation.                                                    *)
Top(fs) == fs[Len(fs)]

(* The function of the last of the activations fs runs in c.               *)
Runs(st, c, fs) ==
  /\ c.fp
  /\ fs # <<>> /\ Chain(st, fs, c.nfbp)
  /\ c.abp = Top(fs).abp /\ c.ac = Top(fs).ac
  /\ Low(c) <= c.abp2 /\ c.abp2 + c.ac2 <= StackSize

(* The next instruction is one that is begun again.                        *)
Flagged(c) == c.flag1 \/ c.flag2

(* Between two instructions: the registers are those of the last of the    *)
(* activations fs, or no function runs.                                    *)
Level(c, fs) ==
  /\ c \in Contexts
  /\ c.sec = c.abp2 + IF Flagged(c) THEN 0 ELSE c.ac2
  /\ IF c.fp
       THEN /\ Runs(c.stack, c, fs)
            /\ c.index = Bit(c.flag2)
            /\ IF Flagged(c)
                 THEN /\ Waits(c.stack, Low(c), c.ip, c.index, c.abp2, c.ac2, Top(fs).try)
                      /\ Left(c.stack, c.ip, c.index, c.abp2, Top(fs).try, c)
                 ELSE c.ip = 0 /\ TryOf(c) = Top(fs).try
       ELSE /\ c.ip = 0 /\ ~c.try_flag
            /\ c.nfbp <= c.abp2 /\ c.abp2 + c.ac2 <= StackSize
            /\ c.flag2 => ForceTemps(c.stack, c.nfbp, c.abp2)

(* The native function's frame and what is below stay as they are.         *)
Keeps(c, d) == d.nfbp = c.nfbp /\ Agree(c.stack, d.stack, c.nfbp)

(* d is such a thread again, and has the same frames of native functions.  *)
Leads(c, d) == Keeps(c, d) /\ \E gs : Level(d, gs)

(* An error in c finds a try of the stack of activations, or none; or else *)
(* it is lost.                                                             *)
Raisable(c, fs) ==
  /\ c \in Contexts /\ Chain(c.stack, fs, c.nfbp) /\ fs # <<>>
  /\ c.abp = Top(fs).abp /\ ~c.flag2
  /\ c.try_flag => c.try_abp > c.abp \/ Caught(c.stack, fs, Len(fs), TryOf(c))

(* In c the operation of an instruction has its value.                     *)
Ended(c, fs) ==
  /\ c \in Contexts /\ Runs(c.stack, c, fs)
  /\ ~c.flag1 /\ ~c.flag2 /\ c.index = 0 /\ TryOf(c) = Top(fs).try

(* The words of a force depend on the stack below b only.                  *)
LEMMA ForceTempsLocal ==
  ASSUME NEW s \in Stacks, NEW t \in Stacks, NEW m \in Nat, NEW low \in Nat,
         NEW b \in Nat, Agree(s, t, m), b <= m, b <= StackSize, ForceTemps(s, low, b)
  PROVE  ForceTemps(t, low, b) /\ t[b - 3] = s[b - 3]
<1>1. low + 3 <= b BY DEF ForceTemps
<1>2. t[b - 1] = s[b - 1] /\ t[b - 2] = s[b - 2] /\ t[b - 3] = s[b - 3]
  BY <1>1, StackSizeAssumption DEF Agree
<1>3. QED BY <1>2 DEF ForceTemps

(* That an instruction has called a function depends on the stack below    *)
(* its arguments only.                                                     *)
LEMMA CalledLocal ==
  ASSUME NEW s \in Stacks, NEW t \in Stacks, NEW m \in Nat, NEW low \in Nat,
         NEW b \in Nat, NEW k, NEW n, NEW r, Agree(s, t, m), b <= m, b <= StackSize,
         Called(s, low, k, b, n, r)
  PROVE  Called(t, low, k, b, n, r)
<1>1. ASSUME TryTempsAt(s, low, b, r) PROVE TryTempsAt(t, low, b, r)
  <2>1. low + 7 <= b BY <1>1 DEF TryTempsAt
  <2>2. \A i \in 1 .. 7 : t[b - i] = s[b - i]
    BY <2>1, StackSizeAssumption DEF Agree
  <2>3. QED BY <1>1, <2>2 DEF TryTempsAt
<1>2. ASSUME CountAt(s, low, b) PROVE CountAt(t, low, b)
  <2>1. low + 1 <= b BY <1>2 DEF CountAt
  <2>2. t[b - 1] = s[b - 1] BY <2>1, StackSizeAssumption DEF Agree
  <2>3. QED BY <1>2, <2>2 DEF CountAt
<1>3. QED BY <1>1, <1>2 DEF Called

(* The arguments of a function that is called are above the caller's local *)
(* variables.                                                              *)
LEMMA CalledAbove ==
  ASSUME NEW s \in Stacks, NEW low, NEW b, NEW k, NEW n, NEW r, Called(s, low, k, b, n, r)
  PROVE  low <= b
BY DEF Called

(* That an instruction waits for a function depends on the stack below its *)
(* arguments only.                                                         *)
LEMMA WaitsLocal ==
  ASSUME NEW s \in Stacks, NEW t \in Stacks, NEW m \in Nat, NEW low \in Nat,
         NEW b \in Nat, NEW k, NEW x \in {0, 1}, NEW n, NEW r, Agree(s, t, m), b <= m,
         b <= StackSize, Waits(s, low, k, x, b, n, r)
  PROVE  /\ Waits(t, low, k, x, b, n, r) /\ low <= b
         /\ AtTry(t, k, x, b) <=> AtTry(s, k, x, b)
<1>1. CASE x = 0
  <2>1. Called(s, low, k, b, n, r) BY <1>1 DEF Waits
  <2>2. Called(t, low, k, b, n, r) /\ low <= b BY <2>1, CalledLocal, CalledAbove
  <2>3. Waits(t, low, k, x, b, n, r) BY <1>1, <2>2 DEF Waits
  <2>4. QED BY <1>1, <2>2, <2>3 DEF AtTry
<1>2. CASE x = 1
  <2>1. Forced(s, low, k, b, r) BY <1>2 DEF Waits
  <2>2. ForceTemps(t, low, b) /\ t[b - 3] = s[b - 3]
    BY <2>1, ForceTempsLocal DEF Forced
  <2>3. low + 3 <= b /\ low + 3 + s[b - 3].a <= b BY <2>1 DEF Forced, ForceTemps
  <2>4. s[b - 3].a \in Nat BY <2>3, WordsOfStacks, StackSizeAssumption
  <2> DEFINE a == b - 3 - s[b - 3].a
  <2>5. a \in Nat /\ a <= m /\ a <= StackSize BY <2>3, <2>4, StackSizeAssumption
  <2>6. ASSUME s[b - 3].b # 0
        PROVE  Op(k) = "try" /\ Called(t, low, k, a, s[b - 3].a, r)
    <3>1. Op(k) = "try" /\ Called(s, low, k, a, s[b - 3].a, r) BY <2>1, <2>6 DEF Forced
    <3> HIDE DEF a
    <3>2. QED BY <3>1, <2>5, CalledLocal
  <2>7. Forced(t, low, k, b, r) BY <2>1, <2>2, <2>6 DEF Forced
  <2>8. Waits(t, low, k, x, b, n, r) BY <1>2, <2>7 DEF Waits
  <2>9. QED BY <1>2, <2>2, <2>3, <2>8 DEF AtTry
<1>3. QED BY <1>1, <1>2

(* The types of a frame's parts.                                           *)
LEMMA FrameTypes ==
  ASSUME NEW g \in Frames
  PROVE  /\ g.abp \in Nat /\ g.ac \in Nat /\ SavedAt(g) \in Nat /\ AfterSaved(g) \in Nat
         /\ AfterSaved(g) = SavedAt(g) + 4 /\ g.abp <= SavedAt(g)
         /\ g.try \in Tries /\ g.try.flag \in BOOLEAN
BY DEF Frames, SavedAt, AfterSaved, Tries

(* What a frame and its caller's are made of is the same.                  *)
Same(s, t, g) ==
  /\ Agree(s, t, g.abp)
  /\ t[SavedAt(g)] = s[SavedAt(g)] /\ t[SavedAt(g) + 1] = s[SavedAt(g) + 1]
  /\ t[SavedAt(g) + 2] = s[SavedAt(g) + 2] /\ t[SavedAt(g) + 3] = s[SavedAt(g) + 3]

(* Stacks that agree up to the end of a frame hold the same frame.         *)
LEMMA SavedLocal ==
  ASSUME NEW s \in Stacks, NEW t \in Stacks, NEW m \in Nat, NEW g \in Frames,
         Agree(s, t, m), AfterSaved(g) <= m, AfterSaved(g) < StackSize
  PROVE  Same(s, t, g)
<1>1. /\ SavedAt(g) \in Nat /\ g.abp \in Nat /\ AfterSaved(g) = SavedAt(g) + 4
      /\ g.abp <= SavedAt(g)
  BY FrameTypes
<1>2. Agree(s, t, g.abp) BY <1>1, StackSizeAssumption DEF Agree
<1> HIDE DEF SavedAt, AfterSaved
<1>3. QED BY <1>1, <1>2, StackSizeAssumption DEF Agree, Same

(* A frame is within the stack.                                            *)
LEMMA FrameFits ==
  ASSUME NEW s \in Stacks, NEW g \in Frames, AfterSaved(g) < StackSize
  PROVE  g.abp \in Nat /\ g.abp <= StackSize /\ s[SavedAt(g) + 1].a \in Nat
<1>1. /\ SavedAt(g) \in Nat /\ g.abp \in Nat /\ AfterSaved(g) = SavedAt(g) + 4
      /\ g.abp <= SavedAt(g)
  BY FrameTypes
<1> HIDE DEF SavedAt, AfterSaved
<1>2. SavedAt(g) + 1 \in Nat /\ SavedAt(g) + 1 < StackSize BY <1>1, StackSizeAssumption
<1>3. s[SavedAt(g) + 1].a \in Nat BY <1>2, WordsOfStacks
<1>4. QED BY <1>1, <1>3, StackSizeAssumption

(* That f waits for g depends on the stack up to the end of g only.        *)
LEMMA LinkLocal ==
  ASSUME NEW s \in Stacks, NEW t \in Stacks, NEW f \in Frames, NEW g \in Frames,
         Same(s, t, g), AfterSaved(g) < StackSize, Link(s, f, g)
  PROVE  Link(t, f, g) /\ (CalledByTry(t, g) <=> CalledByTry(s, g))
<1> DEFINE p == SavedAt(g)
           low == AfterSaved(f) + s[p + 1].a
<1>1. /\ t[p] = s[p] /\ t[p + 1] = s[p + 1] /\ t[p + 2] = s[p + 2] /\ t[p + 3] = s[p + 3]
      /\ s[p + 1].a \in Nat /\ Agree(s, t, g.abp) /\ g.abp <= StackSize
  BY FrameFits DEF Same
<1>2. /\ SavedTypes(s, p) /\ s[p].a = f.abp /\ s[p].b = f.ac
      /\ s[p + 2].a = 1 /\ s[p + 2].b \in {0, 1}
      /\ Waits(s, low, s[p + 1].b, s[p + 2].b, g.abp, g.ac, f.try)
      /\ Watched(s, s[p + 1].b, s[p + 2].b, g.abp, g.ac, f.try, g.try)
  BY DEF Link
<1>3. low \in Nat /\ g.abp \in Nat BY <1>1, FrameTypes
<1> DEFINE k == s[p + 1].b
           x == s[p + 2].b
           b == g.abp
<1>4. /\ Waits(t, low, k, x, b, g.ac, f.try)
      /\ AtTry(t, k, x, b) <=> AtTry(s, k, x, b)
  <2>1. Waits(s, low, k, x, b, g.ac, f.try) /\ x \in {0, 1} BY <1>2
  <2>2. low \in Nat /\ b \in Nat /\ b <= b /\ b <= StackSize /\ Agree(s, t, b) BY <1>1, <1>3
  <2> HIDE DEF low, k, x, b
  <2>3. QED BY <2>1, <2>2, WaitsLocal
<1> HIDE DEF low, p
<1>5. Watched(t, s[p + 1].b, s[p + 2].b, g.abp, g.ac, f.try, g.try)
  BY <1>2, <1>4 DEF Watched
<1>6. SavedTypes(t, p) BY <1>1, <1>2 DEF SavedTypes
<1>7. Link(t, f, g) BY <1>1, <1>2, <1>4, <1>5, <1>6 DEF Link, p, low
<1>8. QED BY <1>1, <1>4, <1>7 DEF CalledByTry, p

(* That g is the first activation depends on the stack up to its end only. *)
LEMMA FirstLocal ==
  ASSUME NEW s \in Stacks, NEW t \in Stacks, NEW g \in Frames, NEW nf \in Nat,
         Same(s, t, g), AfterSaved(g) < StackSize, First(s, nf, g)
  PROVE  First(t, nf, g)
<1> DEFINE p == SavedAt(g)
<1>1. /\ t[p] = s[p] /\ t[p + 1] = s[p + 1] /\ t[p + 2] = s[p + 2] /\ t[p + 3] = s[p + 3]
      /\ Agree(s, t, g.abp) /\ g.abp <= StackSize /\ g.abp \in Nat
  BY FrameFits DEF Same
<1>2. s[p + 2].b = 1 => ForceTemps(t, nf, g.abp) BY <1>1, ForceTempsLocal DEF First
<1>3. QED BY <1>1, <1>2 DEF First, SavedTypes

(* What a chain of activations says, ready for use.                        *)
LEMMA ChainParts ==
  ASSUME NEW s, NEW fs, NEW nf, Chain(s, fs, nf)
  PROVE  /\ fs \in Seq(Frames) /\ Len(fs) \in Nat
         /\ \A i \in 1 .. Len(fs) :
              fs[i] \in Frames /\ nf <= fs[i].abp /\ AfterSaved(fs[i]) < StackSize
         /\ \A i, j \in 1 .. Len(fs) : i < j => AfterSaved(fs[i]) <= fs[j].abp
         /\ fs # <<>> => First(s, nf, fs[1]) /\ Len(fs) \in 1 .. Len(fs) /\ Top(fs) \in Frames
         /\ \A j \in 2 .. Len(fs) : j - 1 \in 1 .. Len(fs) /\ j \in 1 .. Len(fs)
         /\ \A j \in 2 .. Len(fs) : Link(s, fs[j - 1], fs[j])
         /\ \A j \in 1 .. Len(fs) : fs[j].try.flag => Caught(s, fs, j, fs[j].try)
<1>1. fs \in Seq(Frames) BY DEF Chain
<1>2. Len(fs) \in Nat /\ \A i \in 1 .. Len(fs) : fs[i] \in Frames BY <1>1
<1>3. ASSUME fs # <<>> PROVE Len(fs) \in 1 .. Len(fs) BY <1>1, <1>3
<1>4. QED BY <1>1, <1>2, <1>3 DEF Chain, Top

(* A chain is one on every stack that holds the same frames.               *)
LEMMA ChainSame ==
  ASSUME NEW s \in Stacks, NEW t \in Stacks, NEW nf \in Nat, NEW fs,
         Chain(s, fs, nf), \A i \in 1 .. Len(fs) : Same(s, t, fs[i])
  PROVE  Chain(t, fs, nf)
<1>2. ASSUME fs # <<>> PROVE First(t, nf, fs[1])
  <2>1. 1 \in 1 .. Len(fs) BY <1>2, ChainParts
  <2>2. QED BY <1>2, <2>1, ChainParts, FirstLocal
<1>3. ASSUME NEW j \in 2 .. Len(fs)
      PROVE  Link(t, fs[j - 1], fs[j]) /\ (CalledByTry(t, fs[j]) <=> CalledByTry(s, fs[j]))
  <2>1. /\ fs[j] \in Frames /\ fs[j - 1] \in Frames /\ AfterSaved(fs[j]) < StackSize
        /\ Same(s, t, fs[j]) /\ Link(s, fs[j - 1], fs[j])
    BY ChainParts
  <2>2. QED BY <2>1, LinkLocal
<1>4. ASSUME NEW j \in 1 .. Len(fs), fs[j].try.flag PROVE Caught(t, fs, j, fs[j].try)
  <2>1. PICK i \in 2 .. j :
          fs[i].abp = fs[j].try.abp /\ fs[i].ac = fs[j].try.ac /\ CalledByTry(s, fs[i])
    BY <1>4, ChainParts DEF Caught
  <2>2. i \in 2 .. Len(fs) BY ChainParts
  <2>3. CalledByTry(t, fs[i]) BY <1>3, <2>1, <2>2
  <2>4. QED BY <2>1, <2>3 DEF Caught
<1>5. QED BY <1>2, <1>3, <1>4 DEF Chain

(* The last frame is above all others.                                     *)
LEMMA FramesBelow ==
  ASSUME NEW s, NEW nf, NEW fs, NEW i \in 1 .. Len(fs), Chain(s, fs, nf), i # Len(fs)
  PROVE  AfterSaved(fs[i]) <= Top(fs).abp
<1>1. Len(fs) \in 1 .. Len(fs) /\ Len(fs) \in Nat BY ChainParts
<1>2. i < Len(fs) BY <1>1
<1>3. QED BY <1>1, <1>2, ChainParts DEF Top

(* A stack of activations reads nothing above itself.                      *)
LEMMA ChainLocal ==
  ASSUME NEW s \in Stacks, NEW t \in Stacks, NEW m \in Nat, NEW nf \in Nat, NEW fs,
         Agree(s, t, m), Chain(s, fs, nf), fs # <<>> => AfterSaved(Top(fs)) <= m
  PROVE  Chain(t, fs, nf)
<1>1. ASSUME NEW i \in 1 .. Len(fs) PROVE Same(s, t, fs[i])
  <2>1. /\ fs # <<>> /\ fs[i] \in Frames /\ AfterSaved(fs[i]) < StackSize
        /\ Top(fs) \in Frames
    BY ChainParts
  <2>2. CASE i = Len(fs) BY <2>1, <2>2, SavedLocal DEF Top
  <2>3. CASE i # Len(fs)
    <3>1. AfterSaved(fs[i]) <= Top(fs).abp BY <2>3, FramesBelow
    <3>2. Top(fs).abp <= AfterSaved(Top(fs)) /\ AfterSaved(Top(fs)) <= m
      BY <2>1, FrameTypes
    <3>3. AfterSaved(fs[i]) <= m BY <2>1, <3>1, <3>2, FrameTypes
    <3>4. QED BY <2>1, <3>3, SavedLocal
  <2>4. QED BY <2>2, <2>3
<1>2. QED BY <1>1, ChainSame

(* The first activations of a chain are a chain.                           *)
LEMMA ChainPrefix ==
  ASSUME NEW s, NEW nf, NEW fs, NEW n \in 0 .. Len(fs), Chain(s, fs, nf)
  PROVE  /\ Chain(s, SubSeq(fs, 1, n), nf) /\ Len(SubSeq(fs, 1, n)) = n
         /\ \A i \in 1 .. n : SubSeq(fs, 1, n)[i] = fs[i]
<1> DEFINE gs == SubSeq(fs, 1, n)
<1>1. fs \in Seq(Frames) /\ Len(fs) \in Nat /\ n <= Len(fs) /\ n \in Nat BY ChainParts
<1>2. /\ gs \in Seq(Frames) /\ Len(gs) = n
      /\ \A i \in 1 .. n : gs[i] = fs[i] /\ i \in 1 .. Len(fs)
  BY <1>1
<1> HIDE DEF gs
<1>3. gs # <<>> => 1 \in 1 .. n BY <1>1, <1>2
<1>4. \A j \in 2 .. n : j - 1 \in 1 .. n /\ j \in 1 .. n /\ j \in 2 .. Len(fs) BY <1>1
<1>5. ASSUME NEW j \in 1 .. n, gs[j].try.flag PROVE Caught(s, gs, j, gs[j].try)
  <2>1. Caught(s, fs, j, fs[j].try) BY <1>2, <1>5, ChainParts
  <2>2. \A i \in 2 .. j : gs[i] = fs[i] BY <1>1, <1>2
  <2>3. QED BY <1>2, <2>1, <2>2 DEF Caught
<1>6. gs # <<>> => First(s, nf, gs[1]) BY <1>2, <1>3, ChainParts
<1>7. \A j \in 2 .. n : Link(s, gs[j - 1], gs[j]) BY <1>2, <1>4, ChainParts
<1>8. \A i, j \in 1 .. n : i < j => AfterSaved(gs[i]) <= gs[j].abp BY <1>2, ChainParts
<1>9. \A i \in 1 .. n : nf <= gs[i].abp /\ AfterSaved(gs[i]) < StackSize BY <1>2, ChainParts
<1>10. Chain(s, gs, nf) BY <1>2, <1>5, <1>6, <1>7, <1>8, <1>9 DEF Chain
<1>11. QED BY <1>2, <1>10 DEF gs

(* A frame that the last activation waits for, with a try of one of them   *)
(* in force or none, makes the chain longer.                               *)
LEMMA ChainAppend ==
  ASSUME NEW s, NEW nf \in Nat, NEW fs, NEW g \in Frames, Chain(s, fs, nf),
         nf <= g.abp, AfterSaved(g) < StackSize, fs = <<>> => First(s, nf, g),
         fs # <<>> => AfterSaved(Top(fs)) <= g.abp /\ Link(s, Top(fs), g),
         g.try.flag =>
           \/ fs # <<>> /\ CalledByTry(s, g) /\ g.try.abp = g.abp /\ g.try.ac = g.ac
           \/ Caught(s, fs, Len(fs), g.try)
  PROVE  /\ Chain(s, Append(fs, g), nf) /\ Append(fs, g) # <<>>
         /\ Top(Append(fs, g)) = g
<1> DEFINE n == Len(fs)
           gs == Append(fs, g)
<1>1. fs \in Seq(Frames) /\ n \in Nat BY ChainParts
<1>2. /\ gs \in Seq(Frames) /\ Len(gs) = n + 1 /\ gs[n + 1] = g /\ gs # <<>>
      /\ \A i \in 1 .. n : gs[i] = fs[i]
  BY <1>1, AppendProperties
<1> HIDE DEF gs
<1>3. \A i \in 1 .. n + 1 : i \in 1 .. n \/ i = n + 1 BY <1>1
<1>4. \A i \in 1 .. n + 1 : nf <= gs[i].abp /\ AfterSaved(gs[i]) < StackSize
  BY <1>2, <1>3, ChainParts
<1>5. ASSUME NEW i \in 1 .. n + 1, NEW j \in 1 .. n + 1, i < j
      PROVE  AfterSaved(gs[i]) <= gs[j].abp
  <2>1. i \in 1 .. n /\ gs[i] = fs[i] BY <1>1, <1>2, <1>5
  <2>2. CASE j \in 1 .. n BY <1>2, <1>5, <2>1, <2>2, ChainParts
  <2>3. CASE j = n + 1
    <3>1. n # 0 /\ fs # <<>> /\ gs[j] = g BY <1>1, <1>2, <2>1, <2>3
    <3>2. AfterSaved(Top(fs)) <= g.abp /\ Top(fs) = fs[n] BY <3>1 DEF Top
    <3>3. CASE i = n BY <2>1, <3>1, <3>2, <3>3
    <3>4. CASE i < n
      <4>1. n \in 1 .. n BY <1>1, <3>1
      <4>2. AfterSaved(fs[i]) <= fs[n].abp /\ fs[n] \in Frames /\ fs[i] \in Frames
        BY <2>1, <3>4, <4>1, ChainParts
      <4>3. /\ fs[n].abp <= AfterSaved(fs[n]) /\ fs[n].abp \in Nat /\ AfterSaved(fs[n]) \in Nat
            /\ AfterSaved(fs[i]) \in Nat /\ g.abp \in Nat
        BY <4>2, FrameTypes
      <4>4. AfterSaved(fs[n]) <= g.abp BY <3>2
      <4> HIDE DEF n
      <4>5. AfterSaved(fs[i]) <= g.abp BY <4>2, <4>3, <4>4
      <4>6. QED BY <2>1, <3>1, <4>5
    <3>5. QED BY <1>1, <2>1, <3>3, <3>4
  <2>4. QED BY <1>3, <2>2, <2>3
<1>6. First(s, nf, gs[1])
  <2>1. CASE n = 0 BY <1>1, <1>2, <2>1
  <2>2. CASE n # 0
    <3>1. 1 \in 1 .. n /\ fs # <<>> BY <1>1, <2>2
    <3>2. QED BY <1>2, <3>1, ChainParts
  <2>3. QED BY <2>1, <2>2
<1>7. ASSUME NEW j \in 2 .. n + 1 PROVE Link(s, gs[j - 1], gs[j])
  <2>1. CASE j \in 2 .. n
    <3>1. j \in 1 .. n /\ j - 1 \in 1 .. n BY <1>1, <2>1
    <3>2. QED BY <1>2, <2>1, <3>1, ChainParts
  <2>2. CASE j = n + 1
    <3>1. n \in 1 .. n /\ fs # <<>> /\ j - 1 = n BY <1>1, <2>2
    <3>2. QED BY <1>2, <2>2, <3>1 DEF Top
  <2>3. QED BY <1>1, <2>1, <2>2
<1>8. ASSUME NEW j \in 1 .. n + 1, gs[j].try.flag PROVE Caught(s, gs, j, gs[j].try)
  <2>1. CASE j \in 1 .. n
    <3>1. Caught(s, fs, j, fs[j].try) BY <1>2, <1>8, <2>1, ChainParts
    <3>2. \A i \in 2 .. j : gs[i] = fs[i] BY <1>1, <1>2, <2>1
    <3>3. QED BY <1>2, <2>1, <3>1, <3>2 DEF Caught
  <2>2. CASE j = n + 1 /\ Caught(s, fs, n, g.try)
    <3>1. \A i \in 2 .. n : gs[i] = fs[i] /\ i \in 2 .. j BY <1>1, <1>2, <2>2
    <3>2. QED BY <1>2, <2>2, <3>1 DEF Caught
  <2>3. CASE j = n + 1 /\ fs # <<>> /\ CalledByTry(s, g) /\ g.try.abp = g.abp /\ g.try.ac = g.ac
    <3>1. j \in 2 .. j BY <1>1, <2>3
    <3>2. QED BY <1>2, <2>3, <3>1 DEF Caught
  <2>4. QED BY <1>2, <1>3, <1>8, <2>1, <2>2, <2>3
<1>9. Top(gs) = g BY <1>2 DEF Top
<1> HIDE DEF n
<1>10. Chain(s, gs, nf) BY <1>2, <1>4, <1>5, <1>6, <1>7, <1>8 DEF Chain
<1>11. QED BY <1>2, <1>9, <1>10 DEF gs

(* What the chain says of its last frame.                                  *)
LEMMA TopParts ==
  ASSUME NEW s \in Stacks, NEW fs, NEW nf \in Nat, Chain(s, fs, nf), fs # <<>>
  PROVE  /\ Top(fs) \in Frames /\ nf <= Top(fs).abp /\ AfterSaved(Top(fs)) < StackSize
         /\ Top(fs).abp \in Nat /\ Top(fs).ac \in Nat /\ AfterSaved(Top(fs)) \in Nat
         /\ Top(fs).abp <= AfterSaved(Top(fs)) /\ Top(fs).try \in Tries
         /\ Top(fs).try.flag => Caught(s, fs, Len(fs), Top(fs).try)
<1>1. Len(fs) \in 1 .. Len(fs) /\ Top(fs) \in Frames BY ChainParts
<1>2. /\ nf <= Top(fs).abp /\ AfterSaved(Top(fs)) < StackSize
      /\ Top(fs).try.flag => Caught(s, fs, Len(fs), Top(fs).try)
  BY <1>1, ChainParts DEF Top
<1>3. QED BY <1>1, <1>2, FrameTypes

(* The words of the caller's registers are found where leave_from_fun      *)
(* looks for them.                                                         *)
LEMMA SavedWordsFound ==
  ASSUME NEW s \in Stacks, NEW g \in Frames, NEW c \in Contexts,
         AfterSaved(g) < StackSize, SavedTypes(s, SavedAt(g)), c.abp = g.abp,
         c.ac = g.ac, c.stack = s
  PROVE  CanLeave(c) /\ Fbp(c) = SavedAt(g) /\ Fbp(c) + 4 < StackSize
<1>1. Fbp(c) = SavedAt(g) /\ Fbp(c) \in Nat BY FrameTypes DEF Fbp, SavedAt
<1>2. Fbp(c) + 4 < StackSize BY <1>1, FrameTypes
<1> DEFINE p == Fbp(c)
<1>3. \A i \in 0 .. 3 : s[p + i].type = IF i = 2 THEN "INT" ELSE "PAIR"
  <2>1. /\ s[p].type = "PAIR" /\ s[p + 1].type = "PAIR"
        /\ s[p + 2].type = "INT" /\ s[p + 3].type = "PAIR"
    BY <1>1 DEF SavedTypes
  <2>2. p + 0 = p BY <1>1
  <2> HIDE DEF p
  <2>3. s[p + 0].type = "PAIR" BY <2>1, <2>2
  <2>4. QED BY <2>1, <2>3
<1>4. QED BY <1>1, <1>2, <1>3 DEF CanLeave

(* The types of the registers of the try.                                  *)
LEMMA TryTypes ==
  ASSUME NEW c \in Contexts
  PROVE  /\ TryOf(c) \in Tries /\ TryOf(c).flag = c.try_flag /\ TryOf(c).catch = c.try_catch_flag
         /\ TryOf(c).abp = c.try_abp /\ TryOf(c).ac = c.try_ac
BY DEF Contexts, Registers, TryOf, Tries

(* Registers that are the same are the same try.                           *)
LEMMA SameTries ==
  ASSUME NEW c, NEW d, SameTry(c, d)
  PROVE  TryOf(d) = TryOf(c)
BY DEF SameTry, TryOf

(* The registers of a try that handles an error differ in one flag.        *)
LEMMA HandlingTypes ==
  ASSUME NEW r \in Tries
  PROVE  /\ Handling(r) \in Tries /\ Handling(r).flag = r.flag /\ Handling(r).catch = TRUE
         /\ Handling(r).abp = r.abp /\ Handling(r).ac = r.ac
BY DEF Tries, Handling

(* The registers of a try that has called its first function.              *)
LEMMA OwnFields ==
  ASSUME NEW b, NEW n
  PROVE  Own(b, n).flag = TRUE /\ Own(b, n).catch = FALSE /\ Own(b, n).abp = b /\ Own(b, n).ac = n
BY DEF Own

(* An error goes to a try of the stack of activations, or to none.         *)
LEMMA StillCaught ==
  ASSUME NEW s \in Stacks, NEW fs, NEW nf \in Nat,
         NEW r \in {Top(fs).try, Handling(Top(fs).try)}, Chain(s, fs, nf), fs # <<>>,
         r.flag
  PROVE  Caught(s, fs, Len(fs), r)
<1>1. /\ Top(fs).try \in Tries
      /\ Top(fs).try.flag => Caught(s, fs, Len(fs), Top(fs).try)
  BY TopParts
<1>2. r.flag = Top(fs).try.flag /\ r.abp = Top(fs).try.abp /\ r.ac = Top(fs).try.ac
  BY <1>1, HandlingTypes
<1>3. QED BY <1>1, <1>2 DEF Caught

(* An instruction that waits is one of the program, and what it waits for  *)
(* is above the local variables.                                           *)
LEMMA WaitsAbove ==
  ASSUME NEW s \in Stacks, NEW low \in Nat, NEW b \in Nat, NEW k, NEW x \in {0, 1},
         NEW n, NEW r, b <= StackSize, Waits(s, low, k, x, b, n, r)
  PROVE  low <= b /\ k \in DOMAIN Program /\ k # 0
<1>1. CASE x = 0 BY <1>1, ProgramAssumption DEF Waits, Called
<1>2. CASE x = 1
  <2>1. ForceTemps(s, low, b) BY <1>2 DEF Waits, Forced
  <2>2. low <= b BY <2>1 DEF ForceTemps
  <2>3. QED BY <2>2, ProgramAssumption DEF Waits
<1>3. k \in DOMAIN Program BY DEF Waits
<1>4. k # 0 BY <1>3, ProgramAssumption
<1>5. QED BY <1>1, <1>2, <1>3, <1>4

(* What is in the registers when the function of fs[i] has been left.      *)
LEMMA Returned ==
  ASSUME NEW e \in Contexts, NEW fs, NEW i \in 1 .. Len(fs), Chain(e.stack, fs, e.nfbp),
         e.abp2 = fs[i].abp, e.ac2 = fs[i].ac, e.sec = e.abp2,
         e.abp = e.stack[SavedAt(fs[i])].a, e.ac = e.stack[SavedAt(fs[i])].b,
         e.lvc = e.stack[SavedAt(fs[i]) + 1].a, e.ip = e.stack[SavedAt(fs[i]) + 1].b,
         e.fp <=> e.stack[SavedAt(fs[i]) + 2].a = 1,
         e.index = e.stack[SavedAt(fs[i]) + 2].b, e.index = 0 => e.flag1,
         e.flag2 <=> e.index = 1, i = 1 => ~e.try_flag,
         i # 1 => Left(e.stack, e.ip, e.index, e.abp2, fs[i - 1].try, e)
  PROVE  (\E gs : Level(e, gs)) /\ (e.fp => Flagged(e))
<1> DEFINE s == e.stack
           g == fs[i]
           p == SavedAt(g)
<1>1. /\ s \in Stacks /\ e.nfbp \in Nat /\ e.index \in {0, 1} /\ e.flag2 \in BOOLEAN
      /\ e.abp2 \in Nat /\ e.lvc \in Nat
  BY ContextTypes
<1>2. g \in Frames /\ e.nfbp <= g.abp /\ AfterSaved(g) < StackSize BY ChainParts
<1>3. e.nfbp <= e.abp2 /\ e.abp2 + e.ac2 <= StackSize
  <2>1. e.abp2 = g.abp /\ e.ac2 = g.ac OBVIOUS
  <2>2. g.abp \in Nat /\ g.ac \in Nat BY <1>2, FrameTypes
  <2>3. g.abp + g.ac + 4 < StackSize BY <1>2 DEF AfterSaved
  <2> HIDE DEF g
  <2>4. QED BY <1>2, <2>1, <2>2, <2>3, StackSizeAssumption
<1>4. Flagged(e) BY <1>1 DEF Flagged
<1>5. e.sec = e.abp2 + IF Flagged(e) THEN 0 ELSE e.ac2 BY <1>1, <1>4
<1>6. e.index = Bit(e.flag2) BY <1>1 DEF Bit
<1>7. CASE i = 1
  <2>1. First(s, e.nfbp, g)
    <3>1. fs # <<>> BY <1>7, ChainParts
    <3>2. QED BY <1>7, <3>1, ChainParts
  <2>2. ~e.fp /\ e.ip = 0 BY <2>1 DEF First
  <2>3. e.flag2 => ForceTemps(s, e.nfbp, e.abp2) BY <2>1 DEF First
  <2>4. Level(e, <<>>) BY <1>3, <1>5, <1>7, <2>2, <2>3 DEF Level
  <2>5. QED BY <1>4, <2>4
<1>8. CASE i # 1
  <2> DEFINE n == i - 1
             f == fs[n]
             gs == SubSeq(fs, 1, n)
  <2>1. i \in 2 .. Len(fs) /\ n \in 0 .. Len(fs) /\ n \in 1 .. n /\ Len(fs) \in Nat
    BY <1>8, ChainParts
  <2>2. Link(s, fs[i - 1], fs[i]) /\ i - 1 \in 1 .. Len(fs)
    <3>1. \A j \in 2 .. Len(fs) : Link(s, fs[j - 1], fs[j]) BY ChainParts
    <3>2. i - 1 \in 1 .. Len(fs) BY <2>1
    <3>3. QED BY <2>1, <3>1, <3>2
  <2>3. Link(s, f, g) /\ f \in Frames BY <2>2, ChainParts
  <2> HIDE DEF n
  <2>4. Chain(s, gs, e.nfbp) /\ Len(gs) = n /\ gs[n] = f BY <2>1, ChainPrefix
  <2>5. gs # <<>> /\ Top(gs) = f
    <3>1. n # 0 /\ Len(<<>>) = 0 BY <2>1
    <3> HIDE DEF gs, f
    <3>2. gs # <<>> BY <2>4, <3>1
    <3>3. QED BY <2>4, <3>2 DEF Top
  <2> HIDE DEF gs
  <2>6. e.abp = f.abp /\ e.ac = f.ac /\ e.fp BY <2>3 DEF Link
  <2>7. Low(e) = AfterSaved(f) + e.lvc /\ Low(e) \in Nat
    <3>1. f.abp \in Nat /\ f.ac \in Nat BY <2>3, FrameTypes
    <3>2. e.lvc \in Nat BY ContextTypes
    <3> HIDE DEF f
    <3>3. Low(e) = f.abp + f.ac + 4 + e.lvc BY <2>6 DEF Low, Lvbp
    <3>4. AfterSaved(f) = f.abp + f.ac + 4 BY DEF AfterSaved
    <3>5. f.abp + f.ac + 4 + e.lvc \in Nat
      <4> DEFINE x == f.abp
                 y == f.ac
                 z == e.lvc
      <4>1. x \in Nat /\ y \in Nat /\ z \in Nat BY <3>1, <3>2
      <4> HIDE DEF x, y, z
      <4>2. x + y + 4 + z \in Nat BY <4>1
      <4>3. QED BY <4>2 DEF x, y, z
    <3>6. QED BY ONLY <3>3, <3>4, <3>5
  <2>8. Waits(s, Low(e), e.ip, e.index, e.abp2, e.ac2, f.try)
    <3> DEFINE x == AfterSaved(f) + s[p + 1].a
    <3>1. Waits(s, x, s[p + 1].b, s[p + 2].b, g.abp, g.ac, f.try) BY ONLY <2>3 DEF Link
    <3>2. x = Low(e) /\ s[p + 1].b = e.ip /\ s[p + 2].b = e.index /\ g.abp = e.abp2 /\ g.ac = e.ac2
      BY <2>7
    <3> HIDE DEF x, s, p, f, g
    <3>3. QED BY ONLY <3>1, <3>2
  <2>9. e.abp2 <= StackSize /\ e.ac2 \in Nat BY <1>3, ContextTypes, StackSizeAssumption
  <2>10. Low(e) <= e.abp2
    <3> DEFINE low == Low(e)
               b == e.abp2
    <3>1. low \in Nat /\ b \in Nat /\ b <= StackSize BY <1>1, <2>7, <2>9
    <3>2. Waits(s, low, e.ip, e.index, b, e.ac2, f.try) /\ e.index \in {0, 1} /\ s \in Stacks
      BY <1>1, <2>8
    <3> HIDE DEF low, b, f, s
    <3>3. low <= b BY <3>1, <3>2, WaitsAbove
    <3>4. QED BY <3>3 DEF low, b
  <2>11. Runs(s, e, gs) BY <1>3, <2>4, <2>5, <2>6, <2>10 DEF Runs
  <2>12. Left(s, e.ip, e.index, e.abp2, f.try, e) BY <1>8 DEF n
  <2> HIDE DEF f, s
  <2>13. Level(e, gs) BY <1>4, <1>5, <1>6, <2>5, <2>6, <2>8, <2>11, <2>12 DEF Level, s
  <2>14. QED BY <1>4, <2>13
<1>9. QED BY <1>7, <1>8

(* Entering a function that the instruction at ip waits for makes an       *)
(* activation of it.                                                       *)
LEMMA EnterLeads ==
  ASSUME NEW c \in Contexts, NEW fs, NEW d, Runs(c.stack, c, fs), CanEnter(c),
         Waits(c.stack, Low(c), c.ip, c.index, c.abp2, c.ac2, Top(fs).try),
         Watched(c.stack, c.ip, c.index, c.abp2, c.ac2, Top(fs).try, TryOf(c)),
         d = EnterToFun(c)
  PROVE  Leads(c, d)
<1>a. /\ d \in Contexts /\ SameTry(c, d)
      /\ d.stack = Store(c.stack, c.abp2 + c.ac2,
                         <<PairWord(c.abp, c.ac), PairWord(c.lvc, c.ip),
                           IntWord(Bit(c.fp), c.index), PairWord(0, 0)>>)
      /\ d.abp = c.abp2 /\ d.ac = c.ac2 /\ d.abp2 = c.abp2 + c.ac2 + 4 /\ d.sec = d.abp2
      /\ d.lvc = 0 /\ d.ac2 = 0 /\ d.fp /\ d.ip = 0
      /\ ~d.flag1 /\ ~d.flag2 /\ d.index = 0 /\ d.nfbp = c.nfbp
  BY ONLY c \in Contexts, d = EnterToFun(c), EnterMoves
<1> DEFINE s == c.stack
           words == <<PairWord(c.abp, c.ac), PairWord(c.lvc, c.ip),
                      IntWord(Bit(c.fp), c.index), PairWord(0, 0)>>
           p == c.abp2 + c.ac2
           t == Store(s, p, words)
           f == Top(fs)
           g == [abp |-> c.abp2, ac |-> c.ac2, try |-> TryOf(c)]
           gs == Append(fs, g)
<1>1. /\ s \in Stacks /\ c.abp2 \in Nat /\ c.ac2 \in Nat /\ p \in Nat /\ c.nfbp \in Nat
      /\ c.index \in {0, 1} /\ c.lvc \in Nat /\ Low(c) \in Nat /\ c.ip \in Nat
      /\ c.abp \in Nat /\ c.ac \in Nat
  BY ContextTypes, InstructionTypes DEF Low, Lvbp
<1>2. c.fp /\ Chain(s, fs, c.nfbp) /\ fs # <<>> /\ c.abp = f.abp /\ c.ac = f.ac
  BY DEF Runs
<1>3. p + 4 < StackSize BY DEF CanEnter
<1>4. /\ f \in Frames /\ c.nfbp <= f.abp /\ f.abp <= AfterSaved(f) /\ f.abp \in Nat
      /\ AfterSaved(f) \in Nat
  BY <1>1, <1>2, TopParts
<1>5. Low(c) = AfterSaved(f) + c.lvc /\ Low(c) <= c.abp2
  BY <1>1, <1>2, <1>4 DEF Low, Lvbp, AfterSaved, Runs
<1>6. AfterSaved(f) <= c.abp2 /\ c.nfbp <= c.abp2 BY <1>1, <1>4, <1>5
<1>7. d \in Contexts /\ d.stack = t BY ONLY <1>a
<1>8. /\ SameTry(c, d) /\ d.abp = c.abp2 /\ d.ac = c.ac2 /\ d.abp2 = p + 4 /\ d.sec = d.abp2
      /\ d.lvc = 0 /\ d.ac2 = 0 /\ d.fp /\ d.ip = 0
      /\ ~d.flag1 /\ ~d.flag2 /\ d.index = 0 /\ d.nfbp = c.nfbp
  BY ONLY <1>a
<1>9. words \in Seq(AnyWord)
  <2>1. Bit(c.fp) \in Nat BY DEF Bit
  <2>2. PairWord(c.abp, c.ac) \in AnyWord /\ PairWord(c.lvc, c.ip) \in AnyWord
    BY <1>1 DEF PairWord, Word, AnyWord
  <2>3. IntWord(Bit(c.fp), c.index) \in AnyWord /\ PairWord(0, 0) \in AnyWord
    BY <1>1, <2>1 DEF PairWord, IntWord, Word, AnyWord
  <2>4. QED BY <2>2, <2>3
<1>10. /\ Len(words) = 4
       /\ words[1] = PairWord(c.abp, c.ac) /\ words[2] = PairWord(c.lvc, c.ip)
       /\ words[3] = IntWord(1, c.index) /\ words[4] = PairWord(0, 0)
  BY <1>2 DEF Bit
<1> HIDE DEF words
<1>11. /\ t \in Stacks /\ Agree(s, t, p)
       /\ \A i \in 1 .. Len(words) : p + i <= StackSize => t[p + i - 1] = words[i]
  BY <1>1, <1>9, Stored
<1>12. /\ t[p] = words[1] /\ t[p + 1] = words[2] /\ t[p + 2] = words[3] /\ t[p + 3] = words[4]
  <2> HIDE DEF t, p
  <2>1. p + 1 - 1 = p /\ p + 2 - 1 = p + 1 /\ p + 3 - 1 = p + 2 /\ p + 4 - 1 = p + 3 BY <1>1
  <2>2. p + 1 <= StackSize /\ p + 2 <= StackSize /\ p + 3 <= StackSize /\ p + 4 <= StackSize
    BY <1>1, <1>3, StackSizeAssumption
  <2>3. /\ 1 \in 1 .. Len(words) /\ 2 \in 1 .. Len(words)
        /\ 3 \in 1 .. Len(words) /\ 4 \in 1 .. Len(words)
    BY <1>10
  <2>4. QED BY <1>11, <2>1, <2>2, <2>3
<1>13. /\ t[p].a = f.abp /\ t[p].b = f.ac /\ t[p + 1].a = c.lvc /\ t[p + 1].b = c.ip
       /\ t[p + 2].a = 1 /\ t[p + 2].b = c.index /\ SavedTypes(t, p)
  BY <1>2, <1>10, <1>12 DEF PairWord, IntWord, Word, SavedTypes
<1> HIDE DEF t
<1>14. g \in Frames /\ SavedAt(g) = p /\ AfterSaved(g) = p + 4 /\ g.abp = c.abp2 /\ g.ac = c.ac2
       /\ g.try = TryOf(c) /\ c.nfbp <= g.abp
  BY <1>1, <1>6, TryTypes DEF Frames, SavedAt, AfterSaved
<1> HIDE DEF g
<1>15. Agree(s, t, c.abp2) /\ Agree(s, t, c.nfbp) BY <1>1, <1>6, <1>11 DEF Agree
<1>16. Chain(t, fs, c.nfbp) BY <1>1, <1>2, <1>6, <1>11, <1>15, ChainLocal
<1>17. /\ Waits(t, Low(c), c.ip, c.index, c.abp2, c.ac2, f.try)
       /\ AtTry(t, c.ip, c.index, c.abp2) <=> AtTry(s, c.ip, c.index, c.abp2)
  <2>1. c.abp2 <= StackSize /\ c.abp2 <= c.abp2 BY <1>1, <1>3, StackSizeAssumption
  <2>2. Waits(s, Low(c), c.ip, c.index, c.abp2, c.ac2, f.try) OBVIOUS
  <2> HIDE DEF f, s
  <2>3. QED BY ONLY <1>1, <1>11, <1>15, <2>1, <2>2, WaitsLocal
<1>18. Watched(t, c.ip, c.index, c.abp2, c.ac2, f.try, TryOf(c)) BY <1>17 DEF Watched
<1>19. Link(t, f, g) BY <1>1, <1>5, <1>13, <1>14, <1>17, <1>18 DEF Link
<1>20. ASSUME g.try.flag
       PROVE  \/ CalledByTry(t, g) /\ g.try.abp = g.abp /\ g.try.ac = g.ac
              \/ Caught(t, fs, Len(fs), g.try)
  <2>1. CASE TryOf(c) \in {f.try, Handling(f.try)}
    <3>1. TryOf(c).flag BY <1>14, <1>20
    <3>2. Caught(t, fs, Len(fs), TryOf(c))
      <4> DEFINE r == TryOf(c)
      <4>1. r.flag /\ r \in {Top(fs).try, Handling(Top(fs).try)} BY <2>1, <3>1
      <4> HIDE DEF r
      <4>2. Caught(t, fs, Len(fs), r) BY <1>1, <1>2, <1>11, <1>16, <4>1, StillCaught
      <4>3. QED BY <4>2 DEF r
    <3>3. QED BY <1>14, <3>2
  <2>2. CASE AtTry(t, c.ip, c.index, c.abp2) /\ TryOf(c) = Own(c.abp2, c.ac2)
    <3>1. CalledByTry(t, g) BY <1>13, <1>14, <2>2 DEF CalledByTry
    <3>2. g.try.abp = g.abp /\ g.try.ac = g.ac BY <1>14, <2>2 DEF Own
    <3>3. QED BY <3>1, <3>2
  <2>3. QED BY <1>18, <2>1, <2>2 DEF Watched
<1>21. AfterSaved(g) < StackSize /\ AfterSaved(f) <= g.abp BY <1>3, <1>6, <1>14
<1> HIDE DEF f, gs
<1>22. Chain(t, gs, c.nfbp) /\ gs # <<>> /\ Top(gs) = g
  <2>1. AfterSaved(Top(fs)) <= g.abp /\ Link(t, Top(fs), g)
    BY <1>2, <1>19, <1>21 DEF f
  <2>2. fs # <<>> /\ c.nfbp \in Nat /\ g \in Frames /\ c.nfbp <= g.abp BY <1>1, <1>2, <1>14
  <2> DEFINE nf == c.nfbp
  <2>3. /\ nf \in Nat /\ nf <= g.abp /\ Chain(t, fs, nf)
        /\ fs = <<>> => First(t, nf, g)
        /\ fs # <<>> => AfterSaved(Top(fs)) <= g.abp /\ Link(t, Top(fs), g)
        /\ g.try.flag =>
             \/ fs # <<>> /\ CalledByTry(t, g) /\ g.try.abp = g.abp /\ g.try.ac = g.ac
             \/ Caught(t, fs, Len(fs), g.try)
        /\ g \in Frames /\ AfterSaved(g) < StackSize
    BY <1>16, <1>20, <1>21, <2>1, <2>2
  <2> HIDE DEF nf
  <2>4. Chain(t, gs, nf) /\ gs # <<>> /\ Top(gs) = g BY ONLY <2>3, ChainAppend DEF gs
  <2>5. QED BY <2>4 DEF nf
<1>23. Low(d) = d.abp2 /\ d.abp2 + d.ac2 <= StackSize
  BY <1>1, <1>3, <1>8, StackSizeAssumption DEF Low, Lvbp
<1>24. Runs(d.stack, d, gs)
  BY <1>1, <1>7, <1>8, <1>14, <1>22, <1>23 DEF Runs
<1>25. TryOf(d) = Top(gs).try BY <1>8, <1>14, <1>22, SameTries
<1>26. ~Flagged(d) /\ d.sec = d.abp2 + d.ac2 /\ d.index = Bit(d.flag2)
  BY <1>1, <1>8 DEF Flagged, Bit
<1>27. Level(d, gs) BY <1>7, <1>8, <1>24, <1>25, <1>26 DEF Level
<1>28. QED BY <1>7, <1>8, <1>15, <1>27 DEF Leads, Keeps

(* Two steps that keep the native function's frame are one that does.      *)
LEMMA KeepsTransitive ==
  ASSUME NEW c, NEW d, NEW e, Keeps(c, d)
  PROVE  (Keeps(d, e) => Keeps(c, e)) /\ (Leads(d, e) => Leads(c, e))
<1>1. ASSUME Keeps(d, e) PROVE Keeps(c, e) BY <1>1 DEF Keeps, Agree
<1>2. QED BY <1>1 DEF Leads

(* An error without a try in force ends all activations and leaves a       *)
(* thread in which no function runs.                                       *)
LEMMA FailLeads ==
  ASSUME NEW c \in Contexts, ~c.try_flag, c.nfbp <= StackSize
  PROVE  /\ Leads(c, SetErrorWithoutTry(c)) /\ ~SetErrorWithoutTry(c).fp
         /\ SetErrorWithoutTry(c).stack = c.stack /\ ~SetErrorWithoutTry(c).flag2
<1> DEFINE d == SetErrorWithoutTry(c)
<1>1. /\ d \in Contexts /\ SameTry(c, d) /\ d.stack = c.stack /\ d.nfbp = c.nfbp
      /\ d.abp2 = c.nfbp /\ d.ac2 = 0 /\ d.sec = c.nfbp /\ ~d.fp /\ d.ip = 0
      /\ ~d.flag1 /\ ~d.flag2 /\ d.error
  BY FailMoves
<1> HIDE DEF d
<1>2. c.nfbp \in Nat BY ContextTypes
<1>3. ~Flagged(d) /\ d.sec = d.abp2 + d.ac2 /\ ~d.try_flag
  BY <1>1, <1>2 DEF Flagged, SameTry
<1>4. Level(d, <<>>) BY <1>1, <1>2, <1>3 DEF Level
<1>5. QED BY <1>1, <1>4 DEF Leads, Keeps, Agree, d

(* The activation that a try in force returns to is on the stack, and      *)
(* another waits for it.                                                   *)
LEMMA CaughtFrame ==
  ASSUME NEW s \in Stacks, NEW fs, NEW nf \in Nat, NEW r, Chain(s, fs, nf), fs # <<>>,
         Caught(s, fs, Len(fs), r)
  PROVE  \E i \in 2 .. Len(fs) :
           /\ fs[i] \in Frames /\ fs[i - 1] \in Frames /\ Link(s, fs[i - 1], fs[i])
           /\ CalledByTry(s, fs[i]) /\ fs[i].abp = r.abp /\ fs[i].ac = r.ac
           /\ nf <= fs[i].abp /\ AfterSaved(fs[i]) < StackSize /\ fs[i].abp <= Top(fs).abp
<1>1. PICK i \in 2 .. Len(fs) :
        fs[i].abp = r.abp /\ fs[i].ac = r.ac /\ CalledByTry(s, fs[i])
  BY DEF Caught
<1>2. i - 1 \in 1 .. Len(fs) /\ i \in 1 .. Len(fs) /\ Link(s, fs[i - 1], fs[i])
  BY ChainParts
<1>3. fs[i] \in Frames /\ fs[i - 1] \in Frames /\ nf <= fs[i].abp /\ AfterSaved(fs[i]) < StackSize
  BY <1>2, ChainParts
<1>4. fs[i].abp <= Top(fs).abp
  <2>1. Len(fs) \in 1 .. Len(fs) /\ Top(fs) \in Frames /\ Top(fs) = fs[Len(fs)]
    BY ChainParts DEF Top
  <2>2. CASE i = Len(fs) BY <1>3, <2>1, <2>2, FrameTypes
  <2>3. CASE i < Len(fs)
    <3>1. AfterSaved(fs[i]) <= Top(fs).abp BY <1>2, <2>1, <2>3, ChainParts
    <3>2. QED BY <1>3, <2>1, <3>1, FrameTypes
  <2>4. QED BY <1>2, <2>2, <2>3
<1>5. QED BY <1>1, <1>2, <1>3, <1>4

(* An error is taken to the try in force, whose activation and those above *)
(* it are given up, or to the native function.                             *)
LEMMA RaiseLeads ==
  ASSUME NEW c, NEW fs, Raisable(c, fs), ~MissesTry(c)
  PROVE  /\ Leads(c, SetError(c)) /\ SetError(c).stack = c.stack
         /\ SetError(c).fp => Flagged(SetError(c))
         /\ SetError(c).fp \/ ~SetError(c).flag2
<1> DEFINE s == c.stack
<1>1. /\ c \in Contexts /\ Chain(s, fs, c.nfbp) /\ fs # <<>> /\ c.abp = Top(fs).abp /\ ~c.flag2
      /\ c.try_flag => c.try_abp > c.abp \/ Caught(s, fs, Len(fs), TryOf(c))
  BY DEF Raisable
<1>2. /\ s \in Stacks /\ c.nfbp \in Nat /\ c.abp \in Nat /\ c.try_abp \in Nat /\ c.try_ac \in Nat
      /\ c.flag1 \in BOOLEAN
  BY <1>1, ContextTypes
<1>3. c.nfbp <= c.abp /\ c.nfbp <= StackSize
  BY <1>1, <1>2, TopParts, StackSizeAssumption
<1>4. CASE ~TryInForce(c)
  <2>1. SetError(c) = SetErrorWithoutTry(c) BY <1>4 DEF SetError
  <2>2. ~c.try_flag
    <3>1. SUFFICES ASSUME c.try_flag PROVE FALSE OBVIOUS
    <3>2. ~(c.try_abp >= c.nfbp) BY <1>4, <3>1 DEF TryInForce
    <3>3. CASE c.try_abp > c.abp BY <1>2, <1>3, <3>2, <3>3
    <3>4. CASE Caught(s, fs, Len(fs), TryOf(c))
      <4>1. PICK i \in 2 .. Len(fs) : fs[i].abp = TryOf(c).abp /\ c.nfbp <= fs[i].abp
        BY <1>1, <1>2, <3>4, CaughtFrame
      <4>2. QED BY <1>1, <1>2, <3>2, <4>1, TryTypes
    <3>5. QED BY <1>1, <3>1, <3>3, <3>4
  <2>3. QED BY <1>1, <1>3, <2>1, <2>2, FailLeads
<1>5. CASE TryInForce(c)
  <2> DEFINE d == [c EXCEPT !.abp = c.try_abp, !.ac = c.try_ac, !.index = 0, !.error = TRUE]
             e == LeaveFromFun(d)
  <2>1. ~(c.try_abp > c.abp) /\ c.try_flag
    BY <1>2, <1>5 DEF MissesTry, TryInForce
  <2>2. Caught(s, fs, Len(fs), TryOf(c)) BY <1>1, <2>1
  <2>3. PICK i \in 2 .. Len(fs) :
           /\ fs[i] \in Frames /\ fs[i - 1] \in Frames /\ Link(s, fs[i - 1], fs[i])
           /\ CalledByTry(s, fs[i]) /\ fs[i].abp = TryOf(c).abp /\ fs[i].ac = TryOf(c).ac
           /\ c.nfbp <= fs[i].abp /\ AfterSaved(fs[i]) < StackSize
    BY <1>1, <1>2, <2>2, CaughtFrame
  <2> DEFINE g == fs[i]
             f == fs[i - 1]
             p == SavedAt(g)
  <2>4. /\ d \in Contexts /\ d.abp = g.abp /\ d.ac = g.ac /\ d.stack = s /\ d.nfbp = c.nfbp
        /\ d.flag1 = c.flag1 /\ d.flag2 = c.flag2 /\ d.error = TRUE /\ SameTry(c, d)
    <3>1. d \in Contexts BY <1>1 DEF Contexts, Registers
    <3>2. d.abp = c.try_abp /\ d.ac = c.try_ac /\ d.stack = s /\ d.nfbp = c.nfbp
      BY <1>1 DEF Contexts, Registers
    <3>3. d.flag1 = c.flag1 /\ d.flag2 = c.flag2 /\ d.error = TRUE /\ SameTry(c, d)
      BY <1>1 DEF Contexts, Registers, SameTry
    <3>4. g.abp = c.try_abp /\ g.ac = c.try_ac BY <1>1, <2>3, TryTypes
    <3> HIDE DEF d, g
    <3>5. QED BY <3>1, <3>2, <3>3, <3>4
  <2>5. SetError(c) = IF CanLeave(d) THEN e ELSE SetErrorWithoutTry(d) BY <1>5 DEF SetError
  <2> HIDE DEF d, g, f
  <2>6. g \in Frames /\ Link(s, f, g) /\ AfterSaved(g) < StackSize BY <2>3 DEF f, g
  <2>7. /\ SavedTypes(s, p) /\ s[p + 2].b \in {0, 1}
        /\ s[p + 1].b \in DOMAIN Program
    BY <2>6 DEF Link, Waits
  <2>8. CanLeave(d) /\ Fbp(d) = p /\ Fbp(d) + 4 < StackSize
    BY <1>2, <2>4, <2>6, <2>7, SavedWordsFound
  <2>9. /\ e \in Contexts /\ e.stack = d.stack /\ SameTry(d, e)
        /\ e.abp2 = d.abp /\ e.ac2 = d.ac /\ e.sec = d.abp
        /\ e.abp = s[p].a /\ e.ac = s[p].b /\ e.lvc = s[p + 1].a /\ e.ip = s[p + 1].b
        /\ e.fp <=> s[p + 2].a = 1
        /\ e.index = s[p + 2].b
        /\ e.flag1 <=> (d.flag1 \/ e.index = 0)
        /\ e.flag2 <=> (d.flag2 \/ e.index = 1)
        /\ e.error = d.error /\ e.nfbp = d.nfbp
    BY <2>4, <2>7, <2>8, LeaveMoves
  <2> HIDE DEF e, p
  <2>10. /\ e.index = 0 => e.flag1
         /\ e.flag2 <=> e.index = 1
    BY <1>1, <2>4, <2>9
  <2>11. Left(s, e.ip, e.index, e.abp2, f.try, e)
    <3>1. AtTry(s, e.ip, e.index, e.abp2) BY <2>3, <2>4, <2>9 DEF CalledByTry, g, p
    <3>2. e.try_flag /\ e.try_abp = e.abp2 /\ e.error
      <4>1. e.try_flag = c.try_flag /\ e.try_abp = c.try_abp BY <2>4, <2>9 DEF SameTry
      <4>2. g.abp = c.try_abp BY <1>1, <2>3, TryTypes DEF g
      <4>3. QED BY <2>1, <2>4, <2>9, <4>1, <4>2
    <3>3. QED BY <3>1, <3>2 DEF Left
  <2>12. (\E gs : Level(e, gs)) /\ (e.fp => Flagged(e))
    <3>1. i \in 1 .. Len(fs) /\ i # 1 BY <1>1, ChainParts
    <3>2. /\ e.abp2 = fs[i].abp /\ e.ac2 = fs[i].ac /\ e.sec = e.abp2 /\ e.stack = s
          /\ e.nfbp = c.nfbp
      BY <2>4, <2>9 DEF g
    <3> HIDE DEF s
    <3>3. /\ Left(e.stack, e.ip, e.index, e.abp2, fs[i - 1].try, e)
          /\ Chain(e.stack, fs, e.nfbp)
      BY <1>1, <2>11, <3>2 DEF f, s
    <3>4. /\ e.abp = e.stack[SavedAt(fs[i])].a /\ e.ac = e.stack[SavedAt(fs[i])].b
          /\ e.lvc = e.stack[SavedAt(fs[i]) + 1].a /\ e.ip = e.stack[SavedAt(fs[i]) + 1].b
          /\ e.fp <=> e.stack[SavedAt(fs[i]) + 2].a = 1
          /\ e.index = e.stack[SavedAt(fs[i]) + 2].b
      BY <2>9, <3>2 DEF g, p
    <3>5. QED BY <2>9, <2>10, <3>1, <3>2, <3>3, <3>4, Returned
  <2>13. Keeps(c, e) BY <2>4, <2>9 DEF Keeps, Agree
  <2>14. SetError(c) = e BY <2>5, <2>8
  <2>15. e.fp BY <2>6, <2>9 DEF Link, p
  <2>16. QED BY <2>4, <2>9, <2>12, <2>13, <2>14, <2>15 DEF Leads
<1>6. QED BY <1>4, <1>5

(* A thread that begins an instruction again may drop its pushed           *)
(* arguments.                                                              *)
LEMMA PopLeads ==
  ASSUME NEW c, NEW d, Leads(c, d), d.fp => Flagged(d)
  PROVE  Leads(c, PopArgs(d))
<1> DEFINE e == PopArgs(d)
<1>1. PICK gs : Level(d, gs) BY DEF Leads
<1>2. d \in Contexts BY <1>1 DEF Level
<1>3. /\ e \in Contexts /\ Moved(d, e) /\ SameTry(d, e)
      /\ e.flag1 = d.flag1 /\ e.stack = d.stack /\ e.abp2 = d.abp2 /\ e.ac2 = 0 /\ e.sec = d.abp2
  BY <1>2, PopArgsMoves
<1>4. d.abp2 \in Nat /\ d.ac2 \in Nat /\ d.abp2 + d.ac2 <= StackSize
  BY <1>1, <1>2, ContextTypes DEF Level, Runs
<1> HIDE DEF e
<1>5. Flagged(e) = Flagged(d) /\ TryOf(e) = TryOf(d) /\ Low(e) = Low(d)
  BY <1>3, SameTries DEF Flagged, Moved, Low, Lvbp
<1>6. e.sec = e.abp2 + IF Flagged(e) THEN 0 ELSE e.ac2 BY <1>3, <1>4
<1>7. e.abp2 + e.ac2 <= StackSize BY <1>3, <1>4, StackSizeAssumption
<1>8. CASE d.fp
  <2>1. /\ Runs(d.stack, d, gs) /\ d.index = Bit(d.flag2)
        /\ Waits(d.stack, Low(d), d.ip, d.index, d.abp2, d.ac2, Top(gs).try)
        /\ Left(d.stack, d.ip, d.index, d.abp2, Top(gs).try, d)
    BY <1>1, <1>8 DEF Level
  <2>2. Runs(e.stack, e, gs)
    BY <1>3, <1>5, <1>7, <2>1 DEF Runs, Moved
  <2>3. Waits(d.stack, Low(d), d.ip, d.index, d.abp2, 0, Top(gs).try)
    BY <2>1 DEF Waits, Called
  <2>4. Left(e.stack, e.ip, e.index, e.abp2, Top(gs).try, e)
    BY <1>3, <1>5, <2>1 DEF Left, Moved, SameTry
  <2>5. Level(e, gs)
    BY <1>3, <1>5, <1>6, <1>8, <2>1, <2>2, <2>3, <2>4 DEF Level, Moved
  <2>6. QED BY <1>3, <2>5 DEF Leads, Keeps, Moved, e
<1>9. CASE ~d.fp
  <2>1. Level(e, gs)
    BY <1>1, <1>3, <1>5, <1>6, <1>7, <1>9 DEF Level, Moved, SameTry
  <2>2. QED BY <1>3, <2>1 DEF Leads, Keeps, Moved, e
<1>10. QED BY <1>8, <1>9

(* Raising an error in an instruction leads on, or the error is lost.      *)
LEMMA RaiseInLeads ==
  ASSUME NEW c, NEW fs, NEW k, Raisable(c, fs), RaiseIn(c, k)
  PROVE  lost' \/ Leads(c, context')
<1>1. CASE MissesTry(c) BY <1>1 DEF RaiseIn
<1>2. CASE ~MissesTry(c)
  <2>1. Leads(c, SetError(c)) /\ (SetError(c).fp => Flagged(SetError(c)))
    BY <1>2, RaiseLeads
  <2>2. context' = Raise(c, k) BY DEF RaiseIn
  <2>3. QED BY <2>1, <2>2, PopLeads DEF Raise
<1>3. QED BY <1>1, <1>2

(* So does raising one outside of instructions.                            *)
LEMMA FailIsLed ==
  ASSUME NEW c, NEW fs, Raisable(c, fs), Fail(c)
  PROVE  lost' \/ Leads(c, context')
BY RaiseLeads DEF Fail

(* The frame of the function that runs, its local variables and its pushed *)
(* words are in this order, within the stack.                              *)
LEMMA RunsParts ==
  ASSUME NEW c \in Contexts, NEW fs, Runs(c.stack, c, fs)
  PROVE  /\ Low(c) \in Nat /\ c.nfbp <= Low(c) /\ AfterSaved(Top(fs)) <= Low(c)
         /\ c.nfbp <= c.abp /\ c.abp < c.abp2 /\ Low(c) <= c.abp2 /\ c.abp2 <= StackSize
<1>1. /\ c.abp \in Nat /\ c.ac \in Nat /\ c.lvc \in Nat /\ c.nfbp \in Nat
      /\ c.abp2 \in Nat /\ c.ac2 \in Nat /\ c.stack \in Stacks
  BY ContextTypes
<1>2. /\ Chain(c.stack, fs, c.nfbp) /\ fs # <<>> /\ c.abp = Top(fs).abp /\ c.ac = Top(fs).ac
      /\ Low(c) <= c.abp2 /\ c.abp2 + c.ac2 <= StackSize
  BY DEF Runs
<1>3. c.nfbp <= c.abp BY <1>1, <1>2, TopParts
<1>4. Low(c) = AfterSaved(Top(fs)) + c.lvc /\ Low(c) = c.abp + c.ac + 4 + c.lvc
  BY <1>2 DEF Low, Lvbp, AfterSaved
<1>5. AfterSaved(Top(fs)) = c.abp + c.ac + 4 BY <1>2 DEF AfterSaved
<1> DEFINE a == c.abp
           n == c.ac
           v == c.lvc
           b == c.abp2
           m == c.ac2
           nf == c.nfbp
<1>6. /\ a \in Nat /\ n \in Nat /\ v \in Nat /\ b \in Nat /\ m \in Nat /\ nf \in Nat
      /\ nf <= a /\ a + n + 4 + v <= b /\ b + m <= StackSize
  BY <1>1, <1>2, <1>3, <1>4
<1> HIDE DEF a, n, v, b, m, nf
<1>7. /\ a + n + 4 + v \in Nat /\ nf <= a + n + 4 + v /\ a + n + 4 <= a + n + 4 + v
      /\ a < b /\ b <= StackSize
  BY <1>6, StackSizeAssumption
<1>8. QED BY <1>2, <1>3, <1>4, <1>5, <1>7 DEF a, n, v, b, m, nf

(* Stacks that agree below m agree below every n up to m.                  *)
LEMMA AgreeBelow ==
  ASSUME NEW s, NEW t, NEW m \in Nat, NEW n \in Nat, Agree(s, t, m), n <= m
  PROVE  Agree(s, t, n)
BY StackSizeAssumption DEF Agree

(* What is pushed and popped above its variables is no part of a frame.    *)
LEMMA MovedRuns ==
  ASSUME NEW c \in Contexts, NEW fs, NEW d \in Contexts, Runs(c.stack, c, fs), Moved(c, d),
         Agree(c.stack, d.stack, Low(c)), Low(c) <= d.abp2, d.abp2 + d.ac2 <= StackSize
  PROVE  Runs(d.stack, d, fs) /\ Keeps(c, d) /\ Low(d) = Low(c)
<1>1. Low(d) = Low(c) BY DEF Low, Lvbp, Moved
<1>2. /\ c.stack \in Stacks /\ d.stack \in Stacks /\ c.nfbp \in Nat
      /\ Low(c) \in Nat /\ c.nfbp <= Low(c) /\ AfterSaved(Top(fs)) <= Low(c)
  BY ContextTypes, RunsParts
<1>3. Chain(c.stack, fs, c.nfbp) BY DEF Runs
<1>4. Chain(d.stack, fs, c.nfbp)
  <2> DEFINE s == c.stack
             t == d.stack
             m == Low(c)
             nf == c.nfbp
  <2>1. /\ s \in Stacks /\ t \in Stacks /\ nf \in Nat /\ m \in Nat /\ AfterSaved(Top(fs)) <= m
        /\ Chain(s, fs, nf) /\ Agree(s, t, m)
    BY <1>2, <1>3
  <2> HIDE DEF s, t, m, nf
  <2>2. Chain(t, fs, nf) BY <2>1, ChainLocal
  <2>3. QED BY <2>2 DEF t, nf
<1>5. Keeps(c, d) BY <1>2, AgreeBelow DEF Keeps, Moved
<1>6. QED BY <1>1, <1>4, <1>5 DEF Runs, Moved

(* Pushing and popping above the local variables leave an instruction that *)
(* has its value one that has it.                                          *)
LEMMA MovedEnded ==
  ASSUME NEW c, NEW fs, NEW d \in Contexts, Ended(c, fs), Moved(c, d), SameTry(c, d),
         d.flag1 = c.flag1,
         Agree(c.stack, d.stack, Low(c)), Low(c) <= d.abp2, d.abp2 + d.ac2 <= StackSize
  PROVE  Ended(d, fs) /\ Keeps(c, d) /\ Low(d) = Low(c)
<1>1. c \in Contexts /\ Runs(c.stack, c, fs) BY DEF Ended
<1>2. Runs(d.stack, d, fs) /\ Keeps(c, d) /\ Low(d) = Low(c) BY <1>1, MovedRuns
<1>3. TryOf(d) = TryOf(c) BY SameTries
<1>4. QED BY <1>2, <1>3 DEF Ended, Moved

(* An instruction that has its value may still raise an error.             *)
LEMMA EndedRaisable ==
  ASSUME NEW c, NEW fs, Ended(c, fs)
  PROVE  Raisable(c, fs)
<1>1. c \in Contexts /\ Runs(c.stack, c, fs) /\ ~c.flag2 /\ TryOf(c) = Top(fs).try BY DEF Ended
<1>2. /\ Chain(c.stack, fs, c.nfbp) /\ fs # <<>> /\ c.abp = Top(fs).abp
      /\ c.stack \in Stacks /\ c.nfbp \in Nat
  BY <1>1, ContextTypes DEF Runs
<1>3. ASSUME c.try_flag PROVE Caught(c.stack, fs, Len(fs), TryOf(c))
  <2>1. Top(fs).try.flag BY <1>1, <1>3, TryTypes
  <2>2. QED BY <1>1, <1>2, <2>1, TopParts
<1>4. QED BY <1>1, <1>2, <1>3 DEF Raisable

(* An instruction that is done leads to the next.                          *)
LEMMA DoneLeads ==
  ASSUME NEW c, NEW fs, Ended(c, fs), c.sec = c.abp2 + c.ac2, Done(c)
  PROVE  Leads(c, context')
<1> DEFINE d == [c EXCEPT !.ip = 0]
<1>1. c \in Contexts /\ Runs(c.stack, c, fs) /\ TryOf(c) = Top(fs).try BY DEF Ended
<1>2. /\ d \in Contexts /\ SameTry(c, d) /\ d.stack = c.stack /\ d.nfbp = c.nfbp
      /\ d.abp = c.abp /\ d.ac = c.ac /\ d.lvc = c.lvc /\ d.fp = c.fp /\ d.ip = 0
      /\ d.abp2 = c.abp2 /\ d.ac2 = c.ac2 /\ d.sec = c.sec
      /\ d.flag1 = c.flag1 /\ d.flag2 = c.flag2 /\ d.index = c.index
  BY <1>1 DEF Contexts, Registers, SameTry
<1>3. context' = d BY DEF Done
<1> HIDE DEF d
<1>4. ~Flagged(d) /\ d.index = Bit(d.flag2) BY <1>2 DEF Ended, Flagged, Bit
<1>5. Runs(d.stack, d, fs) BY <1>1, <1>2 DEF Runs, Low, Lvbp
<1>6. TryOf(d) = Top(fs).try BY <1>1, <1>2, SameTries
<1>7. d.sec = d.abp2 + d.ac2 BY <1>2
<1>8. Level(d, fs) BY <1>2, <1>4, <1>5, <1>6, <1>7 DEF Level, Runs
<1>9. QED BY <1>2, <1>3, <1>8 DEF Leads, Keeps, Agree

(* A value is a sequence of one word.                                      *)
LEMMA OneWord ==
  ASSUME NEW v \in Values
  PROVE  <<v>> \in Seq(AnyWord) /\ Len(<<v>>) = 1
<1>1. v \in AnyWord BY ValuesAssumption
<1>2. QED BY <1>1

(* A context whose arguments are popped.                                   *)
LEMMA PoppedEnded ==
  ASSUME NEW c, NEW fs, Ended(c, fs)
  PROVE  /\ Ended(PopArgs(c), fs) /\ Keeps(c, PopArgs(c)) /\ PopArgs(c).ac2 = 0
         /\ PopArgs(c).abp2 = c.abp2 /\ PopArgs(c).sec = c.abp2 /\ PopArgs(c).stack = c.stack
<1> DEFINE d == PopArgs(c)
<1>1. c \in Contexts /\ Runs(c.stack, c, fs) BY DEF Ended
<1>2. /\ d \in Contexts /\ Moved(c, d) /\ SameTry(c, d)
      /\ d.flag1 = c.flag1 /\ d.stack = c.stack
      /\ d.abp2 = c.abp2 /\ d.ac2 = 0 /\ d.sec = c.abp2
  BY <1>1, PopArgsMoves
<1> HIDE DEF d
<1>3. Low(c) <= d.abp2 /\ d.abp2 + d.ac2 <= StackSize /\ Agree(c.stack, d.stack, Low(c))
  BY <1>1, <1>2, RunsParts, ContextTypes DEF Agree
<1>4. Ended(d, fs) /\ Keeps(c, d) BY <1>2, <1>3, MovedEnded
<1>5. QED BY <1>2, <1>4 DEF d

(* Local variables may be pushed while an instruction has its value.       *)
LEMMA PushedVarsEnded ==
  ASSUME NEW c, NEW fs, NEW words \in Seq(AnyWord), Ended(c, fs),
         c.abp2 + Len(words) <= StackSize
  PROVE  /\ Ended(PushLocalVars(c, words), fs) /\ Keeps(c, PushLocalVars(c, words))
         /\ PushLocalVars(c, words).sec = PushLocalVars(c, words).abp2
         /\ PushLocalVars(c, words).ac2 = 0
<1> DEFINE d == PushLocalVars(c, words)
<1>1. c \in Contexts /\ Runs(c.stack, c, fs) BY DEF Ended
<1>2. /\ d \in Contexts /\ Moved(c, d) /\ SameTry(c, d)
      /\ d.flag1 = c.flag1 /\ d.stack = Store(c.stack, c.abp2, words)
      /\ d.abp2 = c.abp2 + Len(words) /\ d.ac2 = 0 /\ d.sec = d.abp2
  BY <1>1, PushLocalVarsMoves
<1> HIDE DEF d
<1>3. /\ c.abp2 \in Nat /\ c.stack \in Stacks /\ Low(c) \in Nat /\ Low(c) <= c.abp2
      /\ Len(words) \in Nat
  BY <1>1, RunsParts, ContextTypes
<1>4. Agree(c.stack, d.stack, c.abp2) BY <1>2, <1>3, Stored
<1>5. Low(c) <= d.abp2 /\ d.abp2 + d.ac2 <= StackSize /\ Agree(c.stack, d.stack, Low(c))
  BY <1>2, <1>3, <1>4, AgreeBelow
<1>6. Ended(d, fs) /\ Keeps(c, d) BY <1>2, <1>5, MovedEnded
<1>7. QED BY <1>2, <1>6 DEF d

(* A let ends with its value pushed, or with an overflow.                  *)
LEMMA EndLetLeads ==
  ASSUME NEW c, NEW fs, NEW v \in Values, Ended(c, fs), EndLet(c, v)
  PROVE  lost' \/ Leads(c, context')
<1> DEFINE d == PopArgs(c)
           e == PushLocalVars(d, <<v>>)
<1>1. /\ Ended(d, fs) /\ Keeps(c, d) /\ d.ac2 = 0 BY PoppedEnded
<1>2. IF CanPush(d, 1) THEN Done(e) ELSE Fail(d) BY DEF EndLet
<1> HIDE DEF d
<1>3. d \in Contexts BY <1>1 DEF Ended
<1>4. CASE CanPush(d, 1)
  <2>1. <<v>> \in Seq(AnyWord) /\ d.abp2 + Len(<<v>>) <= StackSize
    BY <1>1, <1>3, <1>4, OneWord, ContextTypes DEF CanPush
  <2>2. Ended(e, fs) /\ Keeps(d, e) /\ e.sec = e.abp2 /\ e.ac2 = 0
    BY <1>1, <2>1, PushedVarsEnded
  <2> HIDE DEF e
  <2>3. e.sec = e.abp2 + e.ac2
    <3>1. e \in Contexts BY <2>2 DEF Ended
    <3>2. QED BY <2>2, <3>1, ContextTypes
  <2>4. Leads(e, context') BY <1>2, <1>4, <2>2, <2>3, DoneLeads
  <2>5. QED BY <1>1, <2>2, <2>4, KeepsTransitive
<1>5. CASE ~CanPush(d, 1)
  <2>1. lost' \/ Leads(d, context') BY <1>1, <1>2, <1>5, EndedRaisable, FailIsLed
  <2>2. QED BY <1>1, <2>1, KeepsTransitive
<1>6. QED BY <1>4, <1>5

(* So does an arg, with the arguments that it had hidden back.             *)
LEMMA EndArgLeads ==
  ASSUME NEW c, NEW fs, NEW v \in Values, Ended(c, fs), Low(c) + c.tmp_ac2 <= c.abp2,
         EndArg(c, v)
  PROVE  lost' \/ Leads(c, context')
<1> DEFINE d == RestoreArgs(c)
           e == PushArgs(d, <<v>>)
<1>1. c \in Contexts /\ Runs(c.stack, c, fs) BY DEF Ended
<1>2. /\ c.tmp_ac2 \in Nat /\ c.abp2 \in Nat /\ Low(c) \in Nat /\ c.abp2 <= StackSize
      /\ c.tmp_ac2 <= c.abp2
  BY <1>1, RunsParts, ContextTypes
<1>3. /\ d \in Contexts /\ Moved(c, d) /\ SameTry(c, d)
      /\ d.flag1 = c.flag1 /\ d.stack = c.stack
      /\ d.abp2 + c.tmp_ac2 = c.abp2 /\ d.ac2 = c.tmp_ac2 /\ d.sec = c.abp2
  BY <1>1, <1>2, RestoreArgsMoves
<1>4. IF CanPush(d, 1) THEN Done(e) ELSE Fail(d) BY DEF EndArg
<1> HIDE DEF d
<1>5. d.abp2 \in Nat /\ d.ac2 \in Nat /\ d.stack \in Stacks BY <1>3, ContextTypes
<1>6. Low(c) <= d.abp2 /\ d.abp2 + d.ac2 <= StackSize /\ Agree(c.stack, d.stack, Low(c))
  BY <1>2, <1>3, <1>5 DEF Agree
<1>7. Ended(d, fs) /\ Keeps(c, d) /\ Low(d) = Low(c) BY <1>3, <1>6, MovedEnded
<1>8. CASE CanPush(d, 1)
  <2>1. <<v>> \in Seq(AnyWord) /\ Len(<<v>>) = 1 BY OneWord
  <2>2. /\ e \in Contexts /\ Moved(d, e) /\ SameTry(d, e)
        /\ e.flag1 = d.flag1 /\ e.stack = Store(d.stack, d.abp2 + d.ac2, <<v>>)
        /\ e.abp2 = d.abp2 /\ e.ac2 = d.ac2 + 1 /\ e.sec = d.sec + 1
    BY <1>3, <2>1, PushArgsMoves
  <2> HIDE DEF e
  <2> DEFINE at == d.abp2 + d.ac2
  <2>3. Agree(d.stack, e.stack, at) /\ at \in Nat
    <3>1. at \in Nat /\ <<v>> \in Seq(AnyWord) /\ e.stack = Store(d.stack, at, <<v>>)
      BY <1>5, <2>1, <2>2
    <3> HIDE DEF at
    <3>2. QED BY <1>5, <3>1, Stored
  <2>4. /\ Low(d) <= e.abp2 /\ e.abp2 + e.ac2 <= StackSize /\ e.sec = e.abp2 + e.ac2
        /\ Low(d) <= d.abp2 + d.ac2 /\ Low(d) \in Nat
    BY <1>2, <1>3, <1>5, <1>6, <1>7, <1>8, <2>2 DEF CanPush
  <2>5. Agree(d.stack, e.stack, Low(d)) BY <2>3, <2>4, AgreeBelow
  <2>6. Ended(e, fs) /\ Keeps(d, e) BY <1>7, <2>2, <2>4, <2>5, MovedEnded
  <2>7. Leads(e, context') BY <1>4, <1>8, <2>4, <2>6, DoneLeads
  <2>8. QED BY <1>7, <2>6, <2>7, KeepsTransitive
<1>9. CASE ~CanPush(d, 1)
  <2>1. lost' \/ Leads(d, context') BY <1>4, <1>7, <1>9, EndedRaisable, FailIsLed
  <2>2. QED BY <1>7, <2>1, KeepsTransitive
<1>10. QED BY <1>8, <1>9

(* What lies above the arguments of a frame are the registers of a caller. *)
LEMMA FrameWords ==
  ASSUME NEW s, NEW fs, NEW nf, NEW i \in 1 .. Len(fs), Chain(s, fs, nf)
  PROVE  /\ SavedTypes(s, SavedAt(fs[i])) /\ s[SavedAt(fs[i]) + 2].b \in {0, 1}
         /\ s[SavedAt(fs[i]) + 1].b \in {0} \union DOMAIN Program
<1>1. CASE i = 1
  <2>1. First(s, nf, fs[1])
    <3>1. fs # <<>> BY <1>1, ChainParts
    <3>2. QED BY <3>1, ChainParts
  <2>2. QED BY <1>1, <2>1 DEF First
<1>2. CASE i # 1
  <2>1. i \in 2 .. Len(fs) BY <1>2, ChainParts
  <2>2. Link(s, fs[i - 1], fs[i]) BY <2>1, ChainParts
  <2>3. QED BY <2>2 DEF Link, Waits
<1>3. QED BY <1>1, <1>2

(* A ret gives the stack back to the function that waits, which begins its *)
(* instruction again, or to the native function.                           *)
LEMMA EndRetLeads ==
  ASSUME NEW c, NEW fs, Ended(c, fs), EndRet(c)
  PROVE  Leads(c, context')
<1> DEFINE s == c.stack
           i == Len(fs)
           g == fs[i]
           p == SavedAt(g)
           d == LeaveFromFun(c)
           e == [d EXCEPT !.error = FALSE]
<1>1. /\ c \in Contexts /\ Runs(s, c, fs) /\ ~c.flag1 /\ ~c.flag2 /\ c.index = 0
      /\ TryOf(c) = g.try
  BY DEF Ended, Top
<1>2. /\ Chain(s, fs, c.nfbp) /\ fs # <<>> /\ c.abp = g.abp /\ c.ac = g.ac /\ s \in Stacks
  BY <1>1, ContextTypes DEF Runs, Top
<1>3. i \in 1 .. Len(fs) /\ g \in Frames /\ AfterSaved(g) < StackSize BY <1>2, ChainParts
<1> HIDE DEF i
<1>4. /\ SavedTypes(s, p) /\ s[p + 2].b \in {0, 1} /\ s[p + 1].b \in {0} \union DOMAIN Program
  BY <1>2, <1>3, FrameWords
<1> HIDE DEF g
<1>5. CanLeave(c) /\ Fbp(c) = p /\ Fbp(c) + 4 < StackSize
  BY <1>1, <1>2, <1>3, <1>4, SavedWordsFound
<1> HIDE DEF p
<1>6. /\ d \in Contexts /\ d.stack = s /\ SameTry(c, d)
      /\ d.abp2 = c.abp /\ d.ac2 = c.ac /\ d.sec = c.abp
      /\ d.abp = s[p].a /\ d.ac = s[p].b /\ d.lvc = s[p + 1].a /\ d.ip = s[p + 1].b
      /\ d.fp <=> s[p + 2].a = 1
      /\ d.index = s[p + 2].b
      /\ d.flag1 <=> (c.flag1 \/ d.index = 0)
      /\ d.flag2 <=> (c.flag2 \/ d.index = 1)
      /\ d.nfbp = c.nfbp
  BY <1>1, <1>4, <1>5, LeaveMoves
<1>7. context' = e BY <1>5 DEF EndRet
<1> HIDE DEF d
<1>8. /\ e \in Contexts /\ SameTry(d, e) /\ e.stack = d.stack /\ e.nfbp = d.nfbp
      /\ e.abp2 = d.abp2 /\ e.ac2 = d.ac2 /\ e.sec = d.sec /\ e.abp = d.abp /\ e.ac = d.ac
      /\ e.lvc = d.lvc /\ e.ip = d.ip /\ e.fp = d.fp /\ e.index = d.index
      /\ e.flag1 = d.flag1 /\ e.flag2 = d.flag2
  BY <1>6 DEF Contexts, Registers, SameTry
<1> HIDE DEF e
<1>9. TryOf(e) = g.try
  <2>1. SameTry(c, e) BY <1>6, <1>8 DEF SameTry
  <2>2. QED BY <1>1, <2>1, SameTries
<1>10. e.try_flag = g.try.flag /\ e.try_catch_flag = g.try.catch /\ e.try_abp = g.try.abp
  BY <1>8, <1>9, TryTypes
<1>11. ASSUME i = 1 PROVE ~e.try_flag
  <2>1. First(s, c.nfbp, fs[1]) BY <1>2, ChainParts
  <2>2. QED BY <1>10, <1>11, <2>1 DEF First, g
<1>12. ASSUME i # 1 PROVE Left(e.stack, e.ip, e.index, e.abp2, fs[i - 1].try, e)
  <2>1. i \in 2 .. Len(fs) BY <1>2, <1>3, <1>12, ChainParts
  <2>2. Link(s, fs[i - 1], fs[i]) BY <1>2, <2>1, ChainParts
  <2> DEFINE outer == fs[i - 1].try
  <2>3. Watched(s, e.ip, e.index, g.abp, g.ac, outer, g.try)
    BY <1>6, <1>8, <2>2 DEF Link, g, p
  <2>4. e.stack = s /\ e.abp2 = g.abp BY <1>2, <1>6, <1>8
  <2> HIDE DEF s, outer
  <2>5. CASE AtTry(s, e.ip, e.index, g.abp) /\ g.try = Own(g.abp, g.ac)
    <3>1. e.try_flag /\ e.try_abp = g.abp /\ ~e.try_catch_flag BY <1>10, <2>5 DEF Own
    <3>2. QED BY <2>4, <2>5, <3>1 DEF Left, outer
  <2>6. CASE g.try # Own(g.abp, g.ac) \/ ~AtTry(s, e.ip, e.index, g.abp)
    <3>1. Left(s, e.ip, e.index, g.abp, outer, e) BY <1>9, <2>3, <2>6 DEF Watched, Left
    <3>2. QED BY <2>4, <3>1 DEF outer
  <2>7. QED BY <2>5, <2>6
<1>13. Keeps(c, e) BY <1>6, <1>8 DEF Keeps, Agree
<1>14. \E gs : Level(e, gs)
  <2>1. /\ e.stack = s /\ e.nfbp = c.nfbp /\ e.abp2 = g.abp /\ e.ac2 = g.ac /\ e.sec = e.abp2
        /\ e.index = 0 => e.flag1
        /\ e.flag2 <=> e.index = 1
    BY <1>1, <1>2, <1>6, <1>8
  <2>2. Chain(e.stack, fs, e.nfbp) BY <1>2, <2>1
  <2> HIDE DEF s
  <2>3. /\ e.abp = e.stack[SavedAt(fs[i])].a /\ e.ac = e.stack[SavedAt(fs[i])].b
        /\ e.lvc = e.stack[SavedAt(fs[i]) + 1].a /\ e.ip = e.stack[SavedAt(fs[i]) + 1].b
        /\ e.fp <=> e.stack[SavedAt(fs[i]) + 2].a = 1
        /\ e.index = e.stack[SavedAt(fs[i]) + 2].b
        /\ e.abp2 = fs[i].abp /\ e.ac2 = fs[i].ac
    BY <1>6, <1>8, <2>1 DEF g, p
  <2>4. QED BY <1>3, <1>8, <1>11, <1>12, <2>1, <2>2, <2>3, Returned
<1>15. QED BY <1>7, <1>13, <1>14 DEF Leads

(* Pushing no local variables drops the arguments.                         *)
LEMMA NothingPushed ==
  ASSUME NEW c \in Contexts
  PROVE  PushLocalVars(c, <<>>) = PopArgs(c)
<1>1. c.stack \in Stacks /\ c.abp2 \in Nat BY ContextTypes
<1>2. Len(<<>>) = 0 OBVIOUS
<1>3. Store(c.stack, c.abp2, <<>>) = c.stack
  <2> DEFINE s == c.stack
  <2>1. s = [i \in 0 .. StackSize - 1 |-> s[i]] /\ DOMAIN s = 0 .. StackSize - 1
    BY <1>1 DEF Stacks
  <2> HIDE DEF s
  <2>2. \A i \in DOMAIN s : ~(i - c.abp2 \in 0 .. Len(<<>>) - 1) BY <1>1, <1>2, <2>1
  <2>3. Store(s, c.abp2, <<>>) = [i \in DOMAIN s |-> s[i]] BY <2>2 DEF Store
  <2>4. QED BY <2>1, <2>3 DEF s
<1>4. c.abp2 + Len(<<>>) = c.abp2 BY <1>1, <1>2
<1>5. PushLocalVars(c, <<>>) =
        [c EXCEPT !.stack = c.stack, !.abp2 = c.abp2, !.ac2 = 0, !.sec = c.abp2]
  BY <1>3, <1>4 DEF PushLocalVars
<1>6. QED BY <1>5 DEF PopArgs, Contexts, Registers

(* Without a frame the words go where the next native function's would.    *)
LEMMA PushedOutside ==
  ASSUME NEW c, NEW d, NEW words \in Seq(AnyWord), Leads(c, d), ~d.fp, ~d.flag2,
         d.abp2 + Len(words) <= StackSize
  PROVE  Leads(c, PushLocalVars(d, words))
<1> DEFINE e == PushLocalVars(d, words)
<1>1. PICK gs : Level(d, gs) BY DEF Leads
<1>2. d \in Contexts /\ d.nfbp <= d.abp2 /\ d.ip = 0 /\ ~d.try_flag BY <1>1 DEF Level
<1>3. /\ e \in Contexts /\ Moved(d, e) /\ SameTry(d, e)
      /\ e.stack = Store(d.stack, d.abp2, words)
      /\ e.abp2 = d.abp2 + Len(words) /\ e.ac2 = 0 /\ e.sec = e.abp2
  BY <1>2, PushLocalVarsMoves
<1> HIDE DEF e
<1>4. d.abp2 \in Nat /\ d.nfbp \in Nat /\ d.stack \in Stacks /\ Len(words) \in Nat
  BY <1>2, ContextTypes
<1>5. Agree(d.stack, e.stack, d.abp2) BY <1>3, <1>4, Stored
<1>6. Keeps(d, e) BY <1>2, <1>3, <1>4, <1>5, AgreeBelow DEF Keeps, Moved
<1>7. /\ e.sec = e.abp2 + IF Flagged(e) THEN 0 ELSE e.ac2
      /\ e.nfbp <= e.abp2 /\ e.abp2 + e.ac2 <= StackSize
  BY <1>2, <1>3, <1>4 DEF Moved
<1>8. Level(e, <<>>) BY <1>2, <1>3, <1>7 DEF Level, Moved, SameTry
<1>9. QED BY <1>6, <1>8, KeepsTransitive DEF e, Leads

(* A lettuple ends with all the elements pushed, or with an error.         *)
LEMMA EndLetTupleLeads ==
  ASSUME NEW c, NEW fs, NEW t \in Tuples, Ended(c, fs), EndLetTuple(c, t)
  PROVE  lost' \/ Leads(c, context')
<1> DEFINE d == PopArgs(c)
           room == StackSize - d.abp2
           first == SubSeq(t, 1, room)
           rest == SubSeq(t, room + 2, Len(t))
           p == PushLocalVars(d, first)
           e == SetError(p)
<1>1. Ended(d, fs) /\ Keeps(c, d) /\ d.ac2 = 0 BY PoppedEnded
<1>2. IF room = 0 THEN Fail(d)
      ELSE IF Len(t) <= room THEN Done(PushLocalVars(d, t))
      ELSE /\ context' = PushSomeLocalVars(e, rest)
           /\ lost' = (lost \/ MissesTry(d) \/ (e.fp /\ Len(t) > room + 1))
  BY DEF EndLetTuple
<1> HIDE DEF d
<1>3. d \in Contexts /\ Runs(d.stack, d, fs) BY <1>1 DEF Ended
<1>4. t \in Seq(AnyWord) /\ Len(t) \in Nat BY TuplesAssumption
<1>5. d.abp2 \in Nat /\ d.abp2 <= StackSize /\ room \in Nat
  BY <1>3, RunsParts, ContextTypes, StackSizeAssumption
<1>6. CASE room = 0
  <2>1. lost' \/ Leads(d, context') BY <1>1, <1>2, <1>6, EndedRaisable, FailIsLed
  <2>2. QED BY <1>1, <2>1, KeepsTransitive
<1>7. CASE room # 0 /\ Len(t) <= room
  <2> DEFINE q == PushLocalVars(d, t)
  <2>1. d.abp2 + Len(t) <= StackSize BY <1>4, <1>5, <1>7, StackSizeAssumption
  <2>2. Ended(q, fs) /\ Keeps(d, q) /\ q.sec = q.abp2 /\ q.ac2 = 0
    BY <1>1, <1>4, <2>1, PushedVarsEnded
  <2>3. Done(q) BY <1>2, <1>7
  <2> HIDE DEF q
  <2>4. q.sec = q.abp2 + q.ac2
    <3>1. q \in Contexts BY <2>2 DEF Ended
    <3>2. QED BY <2>2, <3>1, ContextTypes
  <2>5. Leads(q, context') BY <2>2, <2>3, <2>4, DoneLeads
  <2>6. QED BY <1>1, <2>2, <2>5, KeepsTransitive
<1>8. CASE room # 0 /\ Len(t) > room
  <2>1. SUFFICES ASSUME ~lost' PROVE Leads(c, context') OBVIOUS
  <2>2. context' = PushSomeLocalVars(e, rest) /\ ~MissesTry(d) /\ (e.fp => ~(Len(t) > room + 1))
    <3>1. ~(Len(t) <= room) BY <1>4, <1>5, <1>8
    <3>2. /\ context' = PushSomeLocalVars(e, rest)
          /\ lost' = (lost \/ MissesTry(d) \/ (e.fp /\ Len(t) > room + 1))
      BY <1>2, <1>8, <3>1, Zenon
    <3>3. QED BY <2>1, <3>2, Zenon
  <2>3. first \in Seq(AnyWord) /\ Len(first) = room /\ d.abp2 + Len(first) <= StackSize
    BY <1>4, <1>5, <1>8, StackSizeAssumption
  <2>4. Ended(p, fs) /\ Keeps(d, p) BY <1>1, <2>3, PushedVarsEnded
  <2>5. Moved(d, p) /\ SameTry(d, p) BY <1>3, <2>3, PushLocalVarsMoves
  <2> HIDE DEF p
  <2>6. ~MissesTry(p) BY <2>2, <2>5 DEF MissesTry, TryInForce, Moved, SameTry
  <2>7. Leads(p, e) /\ (e.fp => Flagged(e)) /\ (e.fp \/ ~e.flag2)
    BY <2>4, <2>6, EndedRaisable, RaiseLeads
  <2> HIDE DEF e
  <2>8. Leads(c, e) BY <1>1, <2>4, <2>7, KeepsTransitive
  <2>9. /\ e \in Contexts /\ e.abp2 \in Nat /\ e.abp2 <= StackSize
    <3>1. PICK gs : Level(e, gs) BY <2>8 DEF Leads
    <3>2. e \in Contexts BY <3>1 DEF Level
    <3>3. e.abp2 + e.ac2 <= StackSize BY <3>1 DEF Level, Runs
    <3>4. QED BY <3>2, <3>3, ContextTypes, StackSizeAssumption
  <2> DEFINE n == StackSize - e.abp2
  <2>10. n \in Nat BY <2>9, StackSizeAssumption
  <2>11. context' = PushLocalVars(e, Fitting(rest, n)) BY <2>2 DEF PushSomeLocalVars
  <2>12. CASE e.fp
    <3>1. Len(t) = room + 1 BY <1>4, <1>5, <1>8, <2>2, <2>12
    <3>2. rest = <<>> BY <1>4, <1>5, <3>1
    <3>3. Fitting(<<>>, n) = <<>> BY <2>10 DEF Fitting
    <3>4. context' = PopArgs(e) BY <2>9, <2>11, <3>2, <3>3, NothingPushed
    <3>5. QED BY <2>7, <2>8, <2>12, <3>4, PopLeads
  <2>13. CASE ~e.fp
    <3>1. rest \in Seq(AnyWord) BY <1>4, <1>5
    <3> DEFINE w == Fitting(rest, n)
    <3> HIDE DEF n, rest
    <3>2. w \in Seq(AnyWord) /\ Len(w) <= n BY <2>10, <3>1, Fits
    <3> HIDE DEF w
    <3>3. e.abp2 + Len(w) <= StackSize BY <2>9, <3>2, StackSizeAssumption DEF n
    <3>4. Leads(c, PushLocalVars(e, w)) BY <2>7, <2>8, <2>13, <3>2, <3>3, PushedOutside
    <3>5. QED BY <2>11, <3>4 DEF w
  <2>14. QED BY <2>12, <2>13
<1>9. QED BY <1>4, <1>5, <1>6, <1>7, <1>8

(* Whatever an instruction does with its value leads on.                   *)
LEMMA EndLeads ==
  ASSUME NEW c, NEW fs, NEW k, Ended(c, fs), End(c, k),
         IsArg(k) => Low(c) + c.tmp_ac2 <= c.abp2
  PROVE  lost' \/ Leads(c, context')
<1>1. CASE \E v \in Values : EndLet(c, v) BY <1>1, EndLetLeads
<1>2. CASE IsArg(k) /\ \E v \in Values : EndArg(c, v) BY <1>2, EndArgLeads
<1>3. CASE EndRet(c) BY <1>3, EndRetLeads
<1>4. CASE \E t \in Tuples : EndLetTuple(c, t) BY <1>4, EndLetTupleLeads
<1>5. QED BY <1>1, <1>2, <1>3, <1>4 DEF End, IsArg

(* After a force the registers are those from before, taken from its three *)
(* words.                                                                  *)
LEMMA RestoredForForce ==
  ASSUME NEW c \in Contexts, NEW low \in Nat, c.abp2 <= StackSize,
         ForceTemps(c.stack, low, c.abp2)
  PROVE  LET d == RestoreForForce(c)
         IN  /\ d \in Contexts /\ SameTry(c, d) /\ d.stack = c.stack
             /\ d.abp = c.abp /\ d.ac = c.ac /\ d.lvc = c.lvc /\ d.nfbp = c.nfbp
             /\ d.fp = c.fp /\ d.ip = c.ip /\ d.flag2 = c.flag2 /\ d.error = c.error
             /\ d.index = 0 /\ (d.flag1 <=> c.stack[c.abp2 - 3].b # 0)
             /\ d.ac2 = c.stack[c.abp2 - 3].a /\ d.abp2 = c.abp2 - 3 - d.ac2
             /\ d.sec = d.abp2 + d.ac2 /\ low <= d.abp2 /\ d.abp2 + d.ac2 <= StackSize
<1> DEFINE s == c.stack
           b == c.abp2
           c1 == PopArgs(c)
           c2 == [c1 EXCEPT !.index = 0]
           c3 == PopLocalVars(c2, 2)
           c4 == PopTmpAc2AndFlag1(c3)
           d == RestoreArgs(c4)
<1>1. /\ s \in Stacks /\ b \in Nat /\ low + 3 <= b /\ low + 3 + s[b - 3].a <= b
      /\ s[b - 1].type = "LOCKED_LAZY_VALUE_REF" /\ s[b - 2].type = "INT"
      /\ s[b - 3].type = "PAIR"
  BY ContextTypes DEF ForceTemps
<1>2. b - 2 \in Nat /\ b - 3 \in Nat /\ b - 3 < StackSize
  BY <1>1, StackSizeAssumption
<1>3. s[b - 3].a \in Nat BY <1>1, <1>2, WordsOfStacks
<1>4. /\ c1 \in Contexts /\ Moved(c, c1) /\ SameTry(c, c1) /\ c1.stack = s
      /\ c1.abp2 = b /\ c1.ac2 = 0 /\ c1.sec = b
  BY PopArgsMoves
<1> HIDE DEF c1
<1>5. /\ c2 \in Contexts /\ SameTry(c1, c2) /\ c2.stack = s /\ c2.index = 0
      /\ c2.abp2 = b /\ c2.sec = b
      /\ c2.abp = c1.abp /\ c2.ac = c1.ac /\ c2.lvc = c1.lvc /\ c2.nfbp = c1.nfbp
      /\ c2.fp = c1.fp /\ c2.ip = c1.ip /\ c2.flag2 = c1.flag2 /\ c2.error = c1.error
  BY <1>4 DEF Contexts, Registers, SameTry
<1>6. CanRestoreForForce(c2) BY <1>1, <1>5 DEF CanRestoreForForce, OnTop
<1>7. RestoreForForce(c) = d BY <1>6 DEF RestoreForForce, c1
<1> HIDE DEF c2
<1>8. /\ c3 \in Contexts /\ Moved(c2, c3) /\ SameTry(c2, c3) /\ c3.stack = s
      /\ c3.abp2 = b - 2 /\ c3.sec = b - 2
  <2> DEFINE m == b - 2
             e == [c2 EXCEPT !.abp2 = m, !.sec = m]
  <2>1. m \in Nat /\ c2 \in Contexts /\ c2.stack = s BY <1>2, <1>5
  <2>2. c3 = e BY <1>5 DEF PopLocalVars
  <2> HIDE DEF m, c3
  <2>3. e \in Contexts BY <2>1 DEF Contexts, Registers
  <2>4. /\ Moved(c2, e) /\ SameTry(c2, e) /\ e.stack = c2.stack /\ e.abp2 = m /\ e.sec = m
    BY <2>1 DEF Contexts, Registers, Moved, SameTry
  <2> HIDE DEF e
  <2>5. QED BY <2>1, <2>2, <2>3, <2>4 DEF m
<1> HIDE DEF c3
<1>9. /\ c4 \in Contexts /\ Moved(c3, c4) /\ SameTry(c3, c4) /\ c4.stack = s
      /\ c4.abp2 = b - 3 /\ c4.tmp_ac2 = s[b - 3].a
      /\ c4.flag1 <=> s[b - 3].b # 0
  <2> DEFINE m == b - 3
             n == s[b - 3].a
             x == s[b - 3].b # 0
             e == [c3 EXCEPT !.abp2 = m, !.sec = m, !.tmp_ac2 = n]
             f == [e EXCEPT !.flag1 = x]
  <2>1. /\ m \in Nat /\ n \in Nat /\ x \in BOOLEAN /\ c3 \in Contexts /\ c3.stack = s
    BY <1>2, <1>3, <1>8
  <2>2. (b - 2) - 1 = m BY <1>1
  <2>3. OnTop(c3, 1) = s[m] /\ c3.abp2 - 1 = m /\ c3.sec - 1 = m
    BY <1>8, <2>2 DEF OnTop
  <2>4. c4 = [[c3 EXCEPT !.abp2 = m, !.sec = m] EXCEPT !.tmp_ac2 = n, !.flag1 = x]
    BY <2>3 DEF PopTmpAc2AndFlag1, PopLocalVars
  <2> HIDE DEF m, n, x, c4
  <2>5. c4 = f BY <2>1, <2>4 DEF Contexts, Registers
  <2>6. /\ e \in Contexts /\ Moved(c3, e) /\ SameTry(c3, e) /\ e.stack = c3.stack
        /\ e.abp2 = m /\ e.tmp_ac2 = n
    BY <2>1 DEF Contexts, Registers, Moved, SameTry
  <2> HIDE DEF e
  <2>7. f \in Contexts BY <2>1, <2>6 DEF Contexts, Registers
  <2>8. /\ Moved(e, f) /\ SameTry(e, f) /\ f.stack = e.stack /\ f.abp2 = e.abp2
        /\ f.tmp_ac2 = e.tmp_ac2 /\ f.flag1 = x
    BY <2>6 DEF Contexts, Registers, Moved, SameTry
  <2> HIDE DEF f
  <2>9. Moved(c3, f) /\ SameTry(c3, f) BY <2>6, <2>8 DEF Moved, SameTry
  <2>10. QED BY <2>1, <2>5, <2>6, <2>7, <2>8, <2>9 DEF m, n, x
<1> HIDE DEF c4
<1>10. c4.tmp_ac2 <= c4.abp2 BY <1>1, <1>3, <1>9
<1>11. /\ d \in Contexts /\ Moved(c4, d) /\ SameTry(c4, d)
       /\ d.flag1 = c4.flag1 /\ d.stack = c4.stack
       /\ d.abp2 + c4.tmp_ac2 = c4.abp2 /\ d.ac2 = c4.tmp_ac2 /\ d.sec = c4.abp2
  BY <1>9, <1>10, RestoreArgsMoves
<1> HIDE DEF d
<1>12. SameTry(c, d) BY <1>4, <1>5, <1>8, <1>9, <1>11 DEF SameTry
<1>13. /\ d.abp = c.abp /\ d.ac = c.ac /\ d.lvc = c.lvc /\ d.nfbp = c.nfbp
       /\ d.fp = c.fp /\ d.ip = c.ip /\ d.flag2 = c.flag2 /\ d.error = c.error /\ d.index = 0
  BY <1>4, <1>5, <1>8, <1>9, <1>11 DEF Moved
<1>14. /\ d.ac2 = s[b - 3].a /\ d.abp2 = b - 3 - d.ac2
       /\ d.sec = d.abp2 + d.ac2 /\ low <= d.abp2 /\ d.abp2 + d.ac2 <= StackSize
  <2>1. d.abp2 \in Nat BY <1>11, ContextTypes
  <2>2. QED BY <1>1, <1>3, <1>9, <1>11, <2>1, StackSizeAssumption
<1> HIDE DEF s, b
<1>15. QED BY <1>7, <1>9, <1>11, <1>12, <1>13, <1>14 DEF s, b

(* The registers of the try of an instruction that has called its function *)
(* and finds that it has returned.                                         *)
AfterTry(c, k, outer) ==
  IF Op(k) = "try"
    THEN \/ TryOf(c) = Handling(outer)
         \/ c.try_flag /\ c.try_abp >= c.abp2 /\ (c.error \/ ~c.try_catch_flag)
  ELSE TryOf(c) = outer

(* The instruction k is about to begin, or to begin again, in c.           *)
Pending(c, fs, k) ==
  /\ c \in Contexts /\ Runs(c.stack, c, fs)
  /\ ~c.flag2 /\ c.index = 0
  /\ k \in DOMAIN Program
  /\ c.abp2 <= c.sec
  /\ IF c.flag1
       THEN /\ Called(c.stack, Low(c), k, c.abp2, c.ac2, Top(fs).try)
            /\ AfterTry(c, k, Top(fs).try)
       ELSE c.sec = c.abp2 + c.ac2 /\ TryOf(c) = Top(fs).try

(* The same, of an instruction whose arguments are hidden.                 *)
Ready(c, fs, k) ==
  /\ c \in Contexts /\ Runs(c.stack, c, fs)
  /\ ~c.flag2 /\ c.index = 0
  /\ k \in DOMAIN Program /\ c.ip = k
  /\ c.abp2 <= c.sec
  /\ IF c.flag1
       THEN /\ Called(c.stack, Low(c), k, c.abp2, c.ac2, Top(fs).try)
            /\ AfterTry(c, k, Top(fs).try)
       ELSE TryOf(c) = Top(fs).try /\ c.sec = c.abp2 + c.ac2
  /\ IsArg(k) => c.ac2 = 0 /\ Low(c) + c.tmp_ac2 <= c.abp2

(* An instruction that is begun again after a force finds its arguments    *)
(* and, if it is a try, the words of it.                                   *)
LEMMA ResumedPending ==
  ASSUME NEW fs, NEW k \in Begun, Level(context, fs), context.fp
  PROVE  Pending(Resumed, fs, k) /\ Resumed.stack = context.stack /\ Resumed.nfbp = context.nfbp
<1> DEFINE c == context
           s == c.stack
           b == c.abp2
<1>1. /\ c \in Contexts /\ c.sec = c.abp2 + IF Flagged(c) THEN 0 ELSE c.ac2
      /\ Runs(s, c, fs) /\ c.index = Bit(c.flag2)
      /\ Flagged(c) => /\ Waits(s, Low(c), c.ip, c.index, b, c.ac2, Top(fs).try)
                       /\ Left(s, c.ip, c.index, b, Top(fs).try, c)
      /\ ~Flagged(c) => c.ip = 0 /\ TryOf(c) = Top(fs).try
  BY DEF Level
<1>2. /\ s \in Stacks /\ b \in Nat /\ c.ac2 \in Nat /\ c.sec \in Nat /\ Low(c) \in Nat
      /\ b <= StackSize /\ c.flag1 \in BOOLEAN /\ c.flag2 \in BOOLEAN
  BY <1>1, ContextTypes, RunsParts
<1>3. k \in DOMAIN Program /\ (Flagged(c) => k = c.ip)
  <2>1. c.ip \in {0} \union DOMAIN Program BY <1>1, ContextTypes
  <2>2. Flagged(c) => c.ip # 0
    BY <1>1, ProgramAssumption DEF Waits
  <2>3. QED BY <2>1, <2>2 DEF Begun
<1>4. CASE ~c.flag2
  <2>1. Resumed = c /\ c.index = 0 BY <1>1, <1>4 DEF Resumed, Bit
  <2>2. c.abp2 <= c.sec BY <1>1, <1>2
  <2>3. ASSUME c.flag1
        PROVE  Called(s, Low(c), k, b, c.ac2, Top(fs).try) /\ AfterTry(c, k, Top(fs).try)
    <3>1. Flagged(c) /\ k = c.ip BY <1>3, <2>3 DEF Flagged
    <3>2. Called(s, Low(c), k, b, c.ac2, Top(fs).try) BY <1>1, <2>1, <3>1 DEF Waits
    <3>3. Left(s, k, 0, b, Top(fs).try, c) BY <1>1, <2>1, <3>1
    <3>4. AfterTry(c, k, Top(fs).try) BY <1>2, <3>3 DEF AfterTry, Left, AtTry
    <3>5. QED BY <3>2, <3>4
  <2>4. ASSUME ~c.flag1 PROVE c.sec = c.abp2 + c.ac2 /\ TryOf(c) = Top(fs).try
    BY <1>1, <1>4, <2>4 DEF Flagged
  <2>5. QED BY <1>1, <1>3, <1>4, <2>1, <2>2, <2>3, <2>4 DEF Pending
<1>5. CASE c.flag2
  <2> DEFINE d == RestoreForForce(c)
             e == [d EXCEPT !.flag2 = FALSE]
             a == s[b - 3].a
  <2>1. Resumed = e BY <1>5 DEF Resumed
  <2>2. Flagged(c) /\ k = c.ip /\ c.index = 1 BY <1>1, <1>3, <1>5 DEF Flagged, Bit
  <2>3. Forced(s, Low(c), k, b, Top(fs).try) /\ Left(s, k, 1, b, Top(fs).try, c)
    BY <1>1, <2>2 DEF Waits
  <2>4. ForceTemps(s, Low(c), b) BY <2>3 DEF Forced
  <2>5. /\ d \in Contexts /\ SameTry(c, d) /\ d.stack = s
        /\ d.abp = c.abp /\ d.ac = c.ac /\ d.lvc = c.lvc /\ d.nfbp = c.nfbp
        /\ d.fp = c.fp /\ d.error = c.error
        /\ d.index = 0 /\ (d.flag1 <=> s[b - 3].b # 0)
        /\ d.ac2 = a /\ d.abp2 = b - 3 - d.ac2
        /\ d.sec = d.abp2 + d.ac2 /\ Low(c) <= d.abp2 /\ d.abp2 + d.ac2 <= StackSize
    BY <1>1, <1>2, <2>4, RestoredForForce
  <2> HIDE DEF d
  <2>6. /\ e \in Contexts /\ SameTry(d, e) /\ e.stack = d.stack /\ ~e.flag2
        /\ e.abp = d.abp /\ e.ac = d.ac /\ e.lvc = d.lvc /\ e.nfbp = d.nfbp
        /\ e.fp = d.fp /\ e.error = d.error /\ e.index = 0 /\ e.flag1 = d.flag1
        /\ e.ac2 = d.ac2 /\ e.abp2 = d.abp2 /\ e.sec = d.sec
    BY <2>5 DEF Contexts, Registers, SameTry
  <2> HIDE DEF e
  <2>7. Low(e) = Low(c) BY <2>5, <2>6 DEF Low, Lvbp
  <2>8. Runs(e.stack, e, fs) BY <1>1, <2>5, <2>6, <2>7 DEF Runs
  <2>9. SameTry(c, e) BY <2>5, <2>6 DEF SameTry
  <2>10. TryOf(e) = TryOf(c) BY <2>9, SameTries
  <2>11. e.abp2 <= e.sec /\ e.sec = e.abp2 + e.ac2 /\ e.abp2 <= b
    <3>1. e.abp2 \in Nat /\ e.ac2 \in Nat BY <2>6, ContextTypes
    <3>2. QED BY <1>2, <2>5, <2>6, <3>1
  <2>12. ASSUME e.flag1
         PROVE  /\ Called(e.stack, Low(e), k, e.abp2, e.ac2, Top(fs).try)
                /\ AfterTry(e, k, Top(fs).try)
    <3>1. Op(k) = "try" /\ Called(s, Low(c), k, b - 3 - a, a, Top(fs).try) /\ s[b - 3].b # 0
      BY <2>3, <2>5, <2>6, <2>12 DEF Forced
    <3>2. e.abp2 = b - 3 - a /\ e.ac2 = a /\ e.stack = s BY <2>5, <2>6
    <3> HIDE DEF a
    <3>3. Called(e.stack, Low(e), k, e.abp2, e.ac2, Top(fs).try) BY <2>7, <3>1, <3>2
    <3>4. \/ TryOf(c) = Handling(Top(fs).try)
          \/ c.try_flag /\ c.try_abp = b /\ (c.error \/ ~c.try_catch_flag)
      BY <2>3, <3>1 DEF Left, AtTry
    <3>5. CASE TryOf(c) = Handling(Top(fs).try) BY <2>10, <3>1, <3>3, <3>5 DEF AfterTry
    <3>6. CASE c.try_flag /\ c.try_abp = b /\ (c.error \/ ~c.try_catch_flag)
      <4>1. e.try_flag = c.try_flag /\ e.try_abp = b /\ e.try_catch_flag = c.try_catch_flag
        BY <2>9, <3>6 DEF SameTry
      <4>2. e.error = c.error BY <2>5, <2>6
      <4>3. e.try_abp >= e.abp2
        <5>1. e.abp2 \in Nat BY <2>6, ContextTypes
        <5>2. QED BY <1>2, <2>11, <4>1, <5>1
      <4>4. QED BY <3>1, <3>3, <3>6, <4>1, <4>2, <4>3 DEF AfterTry
    <3>7. QED BY <3>4, <3>5, <3>6
  <2>13. ASSUME ~e.flag1 PROVE TryOf(e) = Top(fs).try
    <3>1. ~AtTry(s, k, 1, b) BY <2>5, <2>6, <2>13 DEF AtTry
    <3>2. QED BY <2>3, <2>10, <3>1 DEF Left
  <2>14. Pending(e, fs, k) BY <1>3, <2>6, <2>8, <2>11, <2>12, <2>13 DEF Pending
  <2>15. QED BY <2>1, <2>5, <2>6, <2>14
<1>6. QED BY <1>4, <1>5

(* An instruction that begins, or begins again, has its arguments hidden.  *)
LEMMA BeginReady ==
  ASSUME NEW fs, NEW k \in Begun, Level(context, fs), context.fp
  PROVE  /\ Ready(Begin(k), fs, k) /\ Keeps(context, Begin(k)) /\ k \in DOMAIN Program
         /\ Begin(k).flag1 = Resumed.flag1 /\ Begin(k).error = Resumed.error
<1> DEFINE r == Resumed
           c == [r EXCEPT !.ip = k]
           h == HideArgs(c)
<1>1. Pending(r, fs, k) /\ r.stack = context.stack /\ r.nfbp = context.nfbp
  BY ResumedPending
<1> HIDE DEF r
<1>2. /\ r \in Contexts /\ Runs(r.stack, r, fs) /\ ~r.flag2 /\ r.index = 0
      /\ k \in DOMAIN Program /\ r.abp2 <= r.sec
      /\ r.flag1 => /\ Called(r.stack, Low(r), k, r.abp2, r.ac2, Top(fs).try)
                    /\ AfterTry(r, k, Top(fs).try)
      /\ ~r.flag1 => r.sec = r.abp2 + r.ac2 /\ TryOf(r) = Top(fs).try
  BY <1>1 DEF Pending
<1>3. /\ c \in Contexts /\ SameTry(r, c) /\ c.ip = k /\ c.stack = r.stack
      /\ c.abp = r.abp /\ c.ac = r.ac /\ c.lvc = r.lvc /\ c.nfbp = r.nfbp /\ c.fp = r.fp
      /\ c.flag1 = r.flag1 /\ c.flag2 = r.flag2 /\ c.index = r.index /\ c.error = r.error
      /\ c.abp2 = r.abp2 /\ c.ac2 = r.ac2 /\ c.sec = r.sec
  BY <1>2 DEF Contexts, Registers, SameTry
<1>4. Begin(k) = IF IsArg(k) THEN h ELSE c BY DEF Begin, r
<1> HIDE DEF c
<1>5. /\ c.abp2 \in Nat /\ c.ac2 \in Nat /\ Low(r) \in Nat /\ c.sec \in Nat
      /\ c.flag1 \in BOOLEAN
  BY <1>2, <1>3, ContextTypes, RunsParts
<1>6. Low(c) = Low(r) /\ Runs(c.stack, c, fs) BY <1>2, <1>3 DEF Low, Lvbp, Runs
<1>7. TryOf(c) = TryOf(r) BY <1>3, SameTries
<1>8. AfterTry(r, k, Top(fs).try) => AfterTry(c, k, Top(fs).try)
  BY <1>3, <1>7 DEF AfterTry, SameTry
<1>9. Keeps(context, c) BY <1>1, <1>3 DEF Keeps, Agree
<1>10. CASE ~IsArg(k)
  <2>1. Ready(c, fs, k)
    BY <1>2, <1>3, <1>5, <1>6, <1>7, <1>8, <1>10 DEF Ready
  <2>2. QED BY <1>2, <1>3, <1>4, <1>9, <1>10, <2>1 DEF r
<1>11. CASE IsArg(k)
  <2>1. /\ h \in Contexts /\ Moved(c, h) /\ SameTry(c, h)
        /\ h.flag1 = c.flag1 /\ h.tmp_ac2 = c.ac2 /\ h.stack = c.stack
        /\ h.abp2 = c.abp2 + c.ac2 /\ h.ac2 = 0 /\ h.sec = c.sec
    BY <1>3, HideArgsMoves
  <2> HIDE DEF h
  <2>2. Low(h) = Low(c) BY <2>1 DEF Low, Lvbp, Moved
  <2>3. Low(c) <= c.abp2 /\ c.abp2 + c.ac2 <= StackSize BY <1>6 DEF Runs
  <2>4. Runs(h.stack, h, fs)
    <3>1. Low(h) <= h.abp2 /\ h.abp2 + h.ac2 <= StackSize
      BY <1>5, <1>6, <2>1, <2>2, <2>3, StackSizeAssumption
    <3>2. QED BY <1>6, <2>1, <3>1 DEF Runs, Moved
  <2>5. h.ac2 = 0 /\ Low(h) + h.tmp_ac2 <= h.abp2
    BY <1>5, <1>6, <2>1, <2>2, <2>3, StackSizeAssumption
  <2>6. TryOf(h) = TryOf(r) BY <1>7, <2>1, SameTries
  <2>7. CASE h.flag1
    <3>1. Called(r.stack, Low(r), k, r.abp2, r.ac2, Top(fs).try) /\ AfterTry(r, k, Top(fs).try)
      BY <1>2, <1>3, <2>1, <2>7
    <3>2. Op(k) = "call" /\ r.ac2 = 0 BY <1>11, <3>1 DEF Called
    <3>3. h.abp2 = r.abp2 /\ h.ac2 = r.ac2 BY <1>3, <1>5, <2>1, <3>2
    <3>4. Called(h.stack, Low(h), k, h.abp2, h.ac2, Top(fs).try)
      BY <1>3, <1>6, <2>1, <2>2, <3>1, <3>3
    <3>5. AfterTry(h, k, Top(fs).try) BY <2>6, <3>1, <3>2 DEF AfterTry
    <3>6. h.abp2 <= h.sec BY <1>2, <1>3, <2>1, <3>3
    <3>7. Ready(h, fs, k)
      BY <1>2, <1>3, <2>1, <2>4, <2>5, <2>7, <3>4, <3>5, <3>6 DEF Ready, Moved
    <3>8. QED BY <1>2, <1>3, <1>4, <1>9, <1>11, <2>1, <3>7 DEF r, Keeps, Moved
  <2>8. CASE ~h.flag1
    <3>1. r.sec = r.abp2 + r.ac2 /\ TryOf(r) = Top(fs).try BY <1>2, <1>3, <2>1, <2>8
    <3>2. h.sec = h.abp2 + h.ac2 /\ h.abp2 <= h.sec BY <1>3, <1>5, <2>1, <3>1
    <3>3. Ready(h, fs, k)
      BY <1>2, <1>3, <2>1, <2>4, <2>5, <2>6, <2>8, <3>1, <3>2 DEF Ready, Moved
    <3>4. QED BY <1>2, <1>3, <1>4, <1>9, <1>11, <2>1, <3>3 DEF r, Keeps, Moved
  <2>9. QED BY <2>7, <2>8
<1>12. QED BY <1>10, <1>11

(* It may raise an error then.                                             *)
LEMMA ReadyRaisable ==
  ASSUME NEW c, NEW fs, NEW k, Ready(c, fs, k)
  PROVE  Raisable(c, fs)
<1>1. /\ c \in Contexts /\ Runs(c.stack, c, fs) /\ ~c.flag2
      /\ c.flag1 => AfterTry(c, k, Top(fs).try)
      /\ ~c.flag1 => TryOf(c) = Top(fs).try
  BY DEF Ready
<1>2. /\ Chain(c.stack, fs, c.nfbp) /\ fs # <<>> /\ c.abp = Top(fs).abp
      /\ c.stack \in Stacks /\ c.nfbp \in Nat /\ c.abp \in Nat /\ c.abp2 \in Nat
      /\ c.try_abp \in Nat /\ c.abp < c.abp2
  BY <1>1, RunsParts, ContextTypes DEF Runs
<1>3. ASSUME c.try_flag, ~(c.try_abp > c.abp) PROVE Caught(c.stack, fs, Len(fs), TryOf(c))
  <2> DEFINE r == TryOf(c)
  <2>1. r \in {Top(fs).try, Handling(Top(fs).try)}
    BY <1>1, <1>2, <1>3 DEF AfterTry
  <2>2. r.flag BY <1>1, <1>3, TryTypes
  <2> HIDE DEF r
  <2>3. Caught(c.stack, fs, Len(fs), r) BY <1>2, <2>1, <2>2, StillCaught
  <2>4. QED BY <2>3 DEF r
<1>4. QED BY <1>1, <1>2, <1>3 DEF Raisable

(* If it calls no function it may as well have its value.                  *)
LEMMA ReadyEnded ==
  ASSUME NEW c, NEW fs, NEW k, Ready(c, fs, k), ~c.flag1
  PROVE  Ended(c, fs)
BY DEF Ready, Ended

(* An operation that fails leads to the try in force.                      *)
LEMMA OpFailsLeads ==
  ASSUME NEW fs, Level(context, fs), OpFails
  PROVE  lost' \/ Leads(context, context')
<1>1. context.fp BY DEF OpFails, Running
<1>2. PICK k \in Begun : RaiseIn(Begin(k), k) BY DEF OpFails
<1> DEFINE c == Begin(k)
<1>3. Ready(c, fs, k) /\ Keeps(context, c) BY <1>1, BeginReady
<1>4. RaiseIn(c, k) BY <1>2
<1> HIDE DEF c
<1>5. lost' \/ Leads(c, context') BY <1>3, <1>4, ReadyRaisable, RaiseInLeads
<1>6. QED BY <1>3, <1>5, KeepsTransitive

(* An operation that calls nothing ends its instruction.                   *)
LEMMA ComputeLeads ==
  ASSUME NEW fs, Level(context, fs), Compute
  PROVE  lost' \/ Leads(context, context')
<1>1. context.fp BY DEF Compute, Running
<1>2. PICK k \in Begun : Op(k) = "value" /\ End(Begin(k), k) BY DEF Compute
<1> DEFINE c == Begin(k)
<1>3. Ready(c, fs, k) /\ Keeps(context, c) /\ k \in DOMAIN Program BY <1>1, BeginReady
<1>4. End(c, k) BY <1>2
<1> HIDE DEF c
<1>5. ~c.flag1 BY <1>2, <1>3 DEF Ready, Called
<1>6. IsArg(k) => Low(c) + c.tmp_ac2 <= c.abp2 BY <1>3 DEF Ready
<1>7. lost' \/ Leads(c, context')
  BY <1>2, <1>3, <1>4, <1>5, <1>6, ReadyEnded, EndLeads
<1>8. QED BY <1>3, <1>7, KeepsTransitive

(* Writing words changes nothing above them.                               *)
LEMMA StoredWithin ==
  ASSUME NEW s \in Stacks, NEW at \in Nat, NEW words \in Seq(AnyWord),
         NEW x \in 0 .. StackSize - 1, at + Len(words) <= x
  PROVE  Store(s, at, words)[x] = s[x]
<1>1. x \in DOMAIN s BY DEF Stacks
<1>2. Len(words) \in Nat OBVIOUS
<1>3. ~(x - at \in 0 .. Len(words) - 1) BY <1>2
<1>4. QED BY <1>1, <1>3 DEF Store

(* in, retry and throw have no operation.                                  *)
LEMMA NoOperation ==
  ASSUME NEW k \in DOMAIN Program, Program[k].instr \in {"in", "retry", "throw"}
  PROVE  Op(k) = "none" /\ ~IsArg(k)
<1>1. Program[k] \in [instr : {"let", "arg", "ret", "lettuple"},
                      op : {"value", "call", "try", "ncall"}]
                       \union [instr : {"in", "retry", "throw"}, op : {"none"}]
  BY ProgramAssumption
<1>2. QED BY <1>1 DEF Op, IsArg

(* in makes local variables of what was pushed.                            *)
LEMMA InLeads ==
  ASSUME NEW fs, Level(context, fs), In
  PROVE  lost' \/ Leads(context, context')
<1>1. context.fp BY DEF In, Running
<1>2. PICK k \in Begun :
        LET c == Begin(k)
        IN  Program[k].instr = "in" /\ Done([c EXCEPT !.lvc = c.abp2 - Lvbp(c)])
  BY DEF In
<1> DEFINE c == Begin(k)
           d == [c EXCEPT !.lvc = c.abp2 - Lvbp(c)]
<1>3. Ready(c, fs, k) /\ Keeps(context, c) /\ k \in DOMAIN Program BY <1>1, BeginReady
<1>4. Done(d) BY <1>2
<1> HIDE DEF c
<1>5. Op(k) = "none" BY <1>2, <1>3, NoOperation
<1>6. ~c.flag1 /\ c.sec = c.abp2 + c.ac2 BY <1>3, <1>5 DEF Ready, Called
<1>7. Ended(c, fs) BY <1>3, <1>6, ReadyEnded
<1>8. c \in Contexts /\ Runs(c.stack, c, fs) BY <1>7 DEF Ended
<1>9. /\ Lvbp(c) \in Nat /\ c.lvc \in Nat /\ Lvbp(c) + c.lvc <= c.abp2 /\ c.abp2 \in Nat
      /\ c.ac2 \in Nat
  BY <1>8, ContextTypes DEF Lvbp, Low, Runs
<1>10. c.abp2 - Lvbp(c) \in Nat BY <1>9
<1>11. /\ d \in Contexts /\ SameTry(c, d) /\ d.stack = c.stack
       /\ d.abp = c.abp /\ d.ac = c.ac /\ d.nfbp = c.nfbp /\ d.fp = c.fp
       /\ d.abp2 = c.abp2 /\ d.ac2 = c.ac2 /\ d.sec = c.sec /\ d.lvc = c.abp2 - Lvbp(c)
       /\ d.flag1 = c.flag1 /\ d.flag2 = c.flag2 /\ d.index = c.index
  BY <1>8, <1>10 DEF Contexts, Registers, SameTry
<1> HIDE DEF d
<1>12. Low(d) = c.abp2
  <2>1. Lvbp(d) = Lvbp(c) BY <1>11 DEF Lvbp
  <2>2. QED BY <1>9, <1>11, <2>1 DEF Low
<1>13. Runs(d.stack, d, fs) BY <1>8, <1>9, <1>11, <1>12 DEF Runs
<1>14. TryOf(d) = TryOf(c) BY <1>11, SameTries
<1>15. Ended(d, fs) BY <1>7, <1>11, <1>13, <1>14 DEF Ended
<1>16. Keeps(c, d) BY <1>11 DEF Keeps, Agree
<1>17. Leads(d, context') BY <1>4, <1>6, <1>11, <1>15, DoneLeads
<1>18. QED BY <1>3, <1>16, <1>17, KeepsTransitive

(* The arguments of a function can be stored anew while it runs.           *)
LEMMA ArgsStored ==
  ASSUME NEW s \in Stacks, NEW nf \in Nat, NEW fs, NEW words \in Seq(AnyWord),
         Chain(s, fs, nf), fs # <<>>, Len(words) = Top(fs).ac
  PROVE  Chain(Store(s, Top(fs).abp, words), fs, nf)
<1> DEFINE b == Top(fs).abp
           t == Store(s, b, words)
<1>1. /\ Top(fs) \in Frames /\ b \in Nat /\ AfterSaved(Top(fs)) < StackSize BY TopParts
<1>2. t \in Stacks /\ Agree(s, t, b) BY <1>1, Stored
<1>3. ASSUME NEW i \in 1 .. Len(fs) PROVE Same(s, t, fs[i])
  <2>1. fs[i] \in Frames /\ AfterSaved(fs[i]) < StackSize BY ChainParts
  <2>2. CASE i # Len(fs)
    <3>1. AfterSaved(fs[i]) <= b BY <2>2, FramesBelow
    <3> HIDE DEF t, b
    <3>2. QED BY <1>1, <1>2, <2>1, <3>1, SavedLocal
  <2>3. CASE i = Len(fs)
    <3> DEFINE g == Top(fs)
               p == SavedAt(g)
    <3>1. /\ fs[i] = g /\ p \in Nat /\ p = b + Len(words) /\ p + 4 < StackSize
          /\ Len(words) \in Nat
      BY <1>1, <2>3, FrameTypes DEF Top, SavedAt
    <3> HIDE DEF p, g
    <3>2. /\ p \in 0 .. StackSize - 1 /\ p + 1 \in 0 .. StackSize - 1
          /\ p + 2 \in 0 .. StackSize - 1 /\ p + 3 \in 0 .. StackSize - 1
      BY <3>1, StackSizeAssumption
    <3>3. /\ b + Len(words) <= p /\ b + Len(words) <= p + 1
          /\ b + Len(words) <= p + 2 /\ b + Len(words) <= p + 3
      BY <1>1, <3>1
    <3> HIDE DEF b
    <3>4. t[p] = s[p] /\ t[p + 1] = s[p + 1] /\ t[p + 2] = s[p + 2] /\ t[p + 3] = s[p + 3]
      BY <1>1, <3>2, <3>3, StoredWithin
    <3> HIDE DEF t
    <3>5. Same(s, t, g) BY <1>2, <3>4 DEF Same, p, b, g
    <3>6. QED BY <3>1, <3>5
  <2>4. QED BY <2>2, <2>3
<1> HIDE DEF t
<1>4. Chain(t, fs, nf) BY <1>2, <1>3, ChainSame
<1>5. QED BY <1>4 DEF t

(* A retry begins the function that runs anew, with arguments moved to its *)
(* frame.                                                                  *)
LEMMA RetryLeads ==
  ASSUME NEW fs, Level(context, fs), Retry
  PROVE  lost' \/ Leads(context, context')
<1>1. context.fp BY DEF Retry, Running
<1> DEFINE args(c) == [i \in 1 .. c.ac2 |-> c.stack[c.abp2 + i - 1]]
           again(c) == PopArgs([c EXCEPT !.stack = Store(@, c.abp, args(c)),
                                         !.abp2 = Lvbp(c), !.lvc = 0])
<1>2. PICK k \in Begun :
        /\ Program[k].instr = "retry"
        /\ IF Begin(k).ac = Begin(k).ac2 THEN Done(again(Begin(k))) ELSE Fail(Begin(k))
  BY DEF Retry
<1> DEFINE c == Begin(k)
<1>3. Ready(c, fs, k) /\ Keeps(context, c) /\ k \in DOMAIN Program BY <1>1, BeginReady
<1>4. IF c.ac = c.ac2 THEN Done(again(c)) ELSE Fail(c) BY <1>2
<1> HIDE DEF c
<1>5. CASE c.ac # c.ac2
  <2>1. lost' \/ Leads(c, context') BY <1>3, <1>4, <1>5, ReadyRaisable, FailIsLed
  <2>2. QED BY <1>3, <2>1, KeepsTransitive
<1>6. CASE c.ac = c.ac2
  <2> DEFINE words == args(c)
             t == Store(c.stack, c.abp, words)
             e == [c EXCEPT !.stack = t, !.abp2 = Lvbp(c), !.lvc = 0]
             d == PopArgs(e)
  <2>1. Done(d) BY <1>4, <1>6
  <2>2. Op(k) = "none" BY <1>2, <1>3, NoOperation
  <2>3. ~c.flag1 BY <1>3, <2>2 DEF Ready, Called
  <2>4. Ended(c, fs) BY <1>3, <2>3, ReadyEnded
  <2>5. c \in Contexts /\ Runs(c.stack, c, fs) BY <2>4 DEF Ended
  <2>6. /\ Lvbp(c) \in Nat /\ c.lvc \in Nat /\ Lvbp(c) + c.lvc <= c.abp2 /\ c.abp2 \in Nat
        /\ c.ac2 \in Nat /\ c.ac \in Nat /\ c.abp \in Nat /\ c.nfbp \in Nat /\ c.stack \in Stacks
        /\ c.nfbp <= c.abp /\ c.abp2 + c.ac2 <= StackSize
    BY <2>5, ContextTypes, RunsParts DEF Lvbp, Low, Runs
  <2>7. words \in Seq(AnyWord) /\ Len(words) = c.ac
    <3>1. ASSUME NEW i \in 1 .. c.ac2 PROVE c.stack[c.abp2 + i - 1] \in AnyWord
      <4> DEFINE j == c.abp2 + i - 1
      <4>1. j \in Nat /\ j < StackSize BY <2>6, StackSizeAssumption
      <4> HIDE DEF j
      <4>2. c.stack[j] \in AnyWord BY <2>6, <4>1, WordsOfStacks
      <4>3. QED BY <4>2 DEF j
    <3>2. words \in [1 .. c.ac2 -> AnyWord] BY <3>1
    <3> DEFINE n == c.ac2
    <3>3. words \in [1 .. n -> AnyWord] /\ n \in Nat BY <2>6, <3>2
    <3> HIDE DEF words, n
    <3>4. words \in Seq(AnyWord) /\ DOMAIN words = 1 .. n BY <3>3
    <3>5. Len(words) = n BY <3>3, <3>4
    <3>6. QED BY <1>6, <3>4, <3>5 DEF n
  <2> HIDE DEF words
  <2>8. t \in Stacks /\ Agree(c.stack, t, c.abp) BY <2>6, <2>7, Stored
  <2>9. Chain(t, fs, c.nfbp)
    <3>1. /\ Chain(c.stack, fs, c.nfbp) /\ fs # <<>> /\ c.abp = Top(fs).abp
          /\ Len(words) = Top(fs).ac
      BY <2>5, <2>7 DEF Runs
    <3> DEFINE nf == c.nfbp
               s == c.stack
    <3>2. Chain(s, fs, nf) /\ nf \in Nat /\ s \in Stacks BY <2>6, <3>1
    <3> HIDE DEF nf, s
    <3>3. Chain(Store(s, Top(fs).abp, words), fs, nf) BY <2>7, <3>1, <3>2, ArgsStored
    <3>4. QED BY <3>1, <3>3 DEF nf, s
  <2> HIDE DEF t
  <2>10. /\ e \in Contexts /\ SameTry(c, e) /\ e.stack = t
         /\ e.abp = c.abp /\ e.ac = c.ac /\ e.nfbp = c.nfbp /\ e.fp = c.fp
         /\ e.abp2 = Lvbp(c) /\ e.lvc = 0
         /\ e.flag1 = c.flag1 /\ e.flag2 = c.flag2 /\ e.index = c.index
    BY <2>5, <2>6, <2>8 DEF Contexts, Registers, SameTry
  <2> HIDE DEF e
  <2>11. /\ d \in Contexts /\ Moved(e, d) /\ SameTry(e, d)
         /\ d.flag1 = e.flag1 /\ d.stack = t
         /\ d.abp2 = Lvbp(c) /\ d.ac2 = 0 /\ d.sec = d.abp2 + d.ac2
    BY <2>6, <2>10, PopArgsMoves
  <2> HIDE DEF d
  <2>12. Low(d) = d.abp2 /\ d.abp2 + d.ac2 <= StackSize
    <3>1. Lvbp(d) = Lvbp(c) BY <2>10, <2>11 DEF Lvbp, Moved
    <3>2. QED BY <2>6, <2>10, <2>11, <3>1, StackSizeAssumption DEF Low, Moved
  <2>13. Runs(d.stack, d, fs)
    <3>1. d.abp2 \in Nat BY <2>11, ContextTypes
    <3>2. QED BY <2>5, <2>9, <2>10, <2>11, <2>12, <3>1 DEF Runs, Moved
  <2>14. TryOf(d) = TryOf(c)
    <3>1. SameTry(c, d) BY <2>10, <2>11 DEF SameTry
    <3>2. QED BY <3>1, SameTries
  <2>15. Ended(d, fs) BY <2>4, <2>10, <2>11, <2>13, <2>14 DEF Ended, Moved
  <2>16. Keeps(c, d) BY <2>6, <2>8, <2>10, <2>11, AgreeBelow DEF Keeps, Moved
  <2>17. Leads(d, context') BY <2>1, <2>11, <2>15, DoneLeads
  <2>18. QED BY <1>3, <2>16, <2>17, KeepsTransitive
<1>7. QED BY <1>5, <1>6

(* Where the arguments are those of the function that is called.           *)
Counted(c, k) == IF IsArg(k) THEN PushLocalVars(c, <<IntWord(c.tmp_ac2, 0)>>) ELSE c

(* A call has its count of hidden arguments pushed, where it needs one.    *)
LEMMA CallReady ==
  ASSUME NEW c, NEW fs, NEW k, NEW d, Ready(c, fs, k), ~c.flag1,
         d = Counted(c, k),
         IsArg(k) => CanPush(c, 1)
  PROVE  /\ Ended(d, fs) /\ Keeps(c, d) /\ d.ip = k /\ d.sec = d.abp2 + d.ac2
         /\ IsArg(k) => d.ac2 = 0 /\ CountAt(d.stack, Low(d), d.abp2)
<1>1. /\ c \in Contexts /\ c.ip = k /\ c.sec = c.abp2 + c.ac2 /\ Runs(c.stack, c, fs)
      /\ IsArg(k) => c.ac2 = 0 /\ Low(c) + c.tmp_ac2 <= c.abp2
  BY DEF Ready
<1>2. Ended(c, fs) BY ReadyEnded
<1>3. CASE ~IsArg(k)
  <2>1. Keeps(c, c) BY DEF Keeps, Agree
  <2>2. d = c BY <1>3 DEF Counted
  <2>3. QED BY <1>1, <1>2, <1>3, <2>1, <2>2
<1>4. CASE IsArg(k)
  <2> DEFINE count == IntWord(c.tmp_ac2, 0)
             words == <<count>>
  <2>1. /\ c.tmp_ac2 \in Nat /\ c.abp2 \in Nat /\ c.ac2 = 0 /\ c.stack \in Stacks
        /\ Low(c) \in Nat
    BY <1>1, <1>4, ContextTypes, RunsParts
  <2>2. words \in Seq(AnyWord) /\ Len(words) = 1 /\ words[1] = count
    BY <2>1 DEF IntWord, Word, AnyWord
  <2> DEFINE e == PushLocalVars(c, words)
  <2>3. d = e BY <1>4 DEF Counted
  <2> HIDE DEF words, count
  <2>4. c.abp2 + Len(words) <= StackSize BY <1>4, <2>1, <2>2 DEF CanPush
  <2>5. Ended(e, fs) /\ Keeps(c, e) /\ e.sec = e.abp2 /\ e.ac2 = 0
    BY <1>2, <2>2, <2>4, PushedVarsEnded
  <2>6. /\ e \in Contexts /\ Moved(c, e) /\ e.stack = Store(c.stack, c.abp2, words)
        /\ e.abp2 = c.abp2 + Len(words)
    BY <1>1, <2>2, PushLocalVarsMoves
  <2> HIDE DEF e
  <2>7. e.stack[c.abp2 + 1 - 1] = words[1] BY <2>1, <2>2, <2>4, <2>6, Stored
  <2>8. e.stack[e.abp2 - 1] = count BY <2>1, <2>2, <2>6, <2>7
  <2>9. Low(e) = Low(c) BY <2>6 DEF Low, Lvbp, Moved
  <2>10. CountAt(e.stack, Low(e), e.abp2)
    <3>1. /\ Low(c) + 1 <= c.abp2 + 1 /\ Low(c) + 1 + c.tmp_ac2 <= c.abp2 + 1
      BY <1>1, <1>4, <2>1
    <3>2. QED BY <2>2, <2>6, <2>8, <2>9, <3>1 DEF CountAt, IntWord, Word, count
  <2>11. e.sec = e.abp2 + e.ac2
    <3>1. e.abp2 \in Nat BY <2>6, ContextTypes
    <3>2. QED BY <2>5, <3>1
  <2>12. QED BY <1>1, <2>3, <2>5, <2>6, <2>10, <2>11 DEF Moved
<1>5. QED BY <1>3, <1>4

(* A function that an instruction waits for is entered, or the stack       *)
(* overflows and an error is raised.                                       *)
LEMMA EnterOrRaise ==
  ASSUME NEW c, NEW fs, NEW k, Raisable(c, fs), Runs(c.stack, c, fs), Enter(c, k),
         Waits(c.stack, Low(c), c.ip, c.index, c.abp2, c.ac2, Top(fs).try),
         Watched(c.stack, c.ip, c.index, c.abp2, c.ac2, Top(fs).try, TryOf(c))
  PROVE  lost' \/ Leads(c, context')
<1>1. CASE CanEnter(c)
  <2>1. c \in Contexts BY DEF Raisable
  <2>2. context' = EnterToFun(c) BY <1>1 DEF Enter
  <2>3. QED BY <1>1, <2>1, <2>2, EnterLeads
<1>2. CASE ~CanEnter(c)
  <2>1. RaiseIn(c, k) BY <1>2 DEF Enter
  <2>2. QED BY <2>1, RaiseInLeads
<1>3. QED BY <1>1, <1>2

(* A call leads to the called function.                                    *)
LEMMA CallLeads ==
  ASSUME NEW fs, Level(context, fs), Call
  PROVE  lost' \/ Leads(context, context')
<1>1. context.fp /\ ~Resumed.flag1 BY DEF Call, Running
<1>2. PICK k \in Begun :
        /\ Op(k) = "call"
        /\ IF IsArg(k) /\ ~CanPush(Begin(k), 1) THEN RaiseIn(Begin(k), k)
           ELSE Enter(CallContext(k), k)
  BY DEF Call
<1> DEFINE c == Begin(k)
           d == Counted(c, k)
<1>3. Ready(c, fs, k) /\ Keeps(context, c) /\ k \in DOMAIN Program /\ ~c.flag1
  BY <1>1, BeginReady
<1>4. IF IsArg(k) /\ ~CanPush(c, 1) THEN RaiseIn(c, k) ELSE Enter(d, k)
  BY <1>2 DEF CallContext, Counted
<1> HIDE DEF c
<1>5. CASE IsArg(k) /\ ~CanPush(c, 1)
  <2>1. lost' \/ Leads(c, context') BY <1>3, <1>4, <1>5, ReadyRaisable, RaiseInLeads
  <2>2. QED BY <1>3, <2>1, KeepsTransitive
<1>6. CASE ~(IsArg(k) /\ ~CanPush(c, 1))
  <2>1. d = Counted(c, k) OBVIOUS
  <2> HIDE DEF d
  <2>2. /\ Ended(d, fs) /\ Keeps(c, d) /\ d.ip = k
        /\ IsArg(k) => d.ac2 = 0 /\ CountAt(d.stack, Low(d), d.abp2)
    BY <1>3, <1>6, <2>1, CallReady
  <2>3. Runs(d.stack, d, fs) /\ d.index = 0 /\ TryOf(d) = Top(fs).try BY <2>2 DEF Ended
  <2>4. Called(d.stack, Low(d), d.ip, d.abp2, d.ac2, Top(fs).try)
    BY <1>2, <2>2, <2>3 DEF Called, Runs
  <2>5. Waits(d.stack, Low(d), d.ip, d.index, d.abp2, d.ac2, Top(fs).try)
    BY <1>3, <2>2, <2>3, <2>4 DEF Waits
  <2>6. Watched(d.stack, d.ip, d.index, d.abp2, d.ac2, Top(fs).try, TryOf(d))
    BY <1>2, <2>2, <2>3 DEF Watched, AtTry
  <2>7. lost' \/ Leads(d, context')
    BY <1>4, <1>6, <2>2, <2>3, <2>5, <2>6, EndedRaisable, EnterOrRaise
  <2>8. QED BY <1>3, <2>2, <2>7, KeepsTransitive
<1>7. QED BY <1>5, <1>6

(* An instruction that is begun again finds its called function's          *)
(* arguments on top.                                                       *)
LEMMA Unflagged ==
  ASSUME NEW b, NEW fs, NEW k, NEW c, Ready(b, fs, k), b.flag1, c = [b EXCEPT !.flag1 = FALSE]
  PROVE  /\ c \in Contexts /\ Runs(c.stack, c, fs) /\ ~c.flag1 /\ ~c.flag2 /\ c.index = 0
         /\ Keeps(b, c) /\ Low(c) = Low(b) /\ c.abp2 <= c.sec /\ c.error = b.error
         /\ TryOf(c) = TryOf(b) /\ c.ip = k
         /\ Called(c.stack, Low(c), k, c.abp2, c.ac2, Top(fs).try)
         /\ AfterTry(c, k, Top(fs).try)
<1>1. /\ b \in Contexts /\ Runs(b.stack, b, fs) /\ ~b.flag2 /\ b.index = 0 /\ b.ip = k
      /\ Called(b.stack, Low(b), k, b.abp2, b.ac2, Top(fs).try)
      /\ AfterTry(b, k, Top(fs).try) /\ b.abp2 <= b.sec
  BY DEF Ready
<1>2. /\ c \in Contexts /\ SameTry(b, c) /\ c.stack = b.stack /\ c.ip = b.ip
      /\ c.abp = b.abp /\ c.ac = b.ac /\ c.lvc = b.lvc /\ c.nfbp = b.nfbp /\ c.fp = b.fp
      /\ ~c.flag1 /\ c.flag2 = b.flag2 /\ c.index = b.index /\ c.error = b.error
      /\ c.abp2 = b.abp2 /\ c.ac2 = b.ac2 /\ c.sec = b.sec
  BY <1>1 DEF Contexts, Registers, SameTry
<1>3. TryOf(c) = TryOf(b) BY <1>2, SameTries
<1>4. Low(c) = Low(b) BY <1>2 DEF Low, Lvbp
<1>5. Runs(c.stack, c, fs) BY <1>1, <1>2, <1>4 DEF Runs
<1>6. AfterTry(c, k, Top(fs).try) BY <1>1, <1>2, <1>3 DEF AfterTry, SameTry
<1>7. Keeps(b, c) BY <1>2 DEF Keeps, Agree
<1>8. QED BY <1>1, <1>2, <1>3, <1>4, <1>5, <1>6, <1>7

(* The count of hidden arguments is popped.                                *)
LEMMA CountPopped ==
  ASSUME NEW c, NEW fs, NEW d, Ended(c, fs), c.abp2 <= c.sec, c.ac2 = 0,
         CountAt(c.stack, Low(c), c.abp2), d = PopTmpAc2(c)
  PROVE  /\ CanPopTmpAc2(c) /\ Ended(d, fs) /\ Keeps(c, d) /\ d.ac2 = 0
         /\ Low(d) + d.tmp_ac2 <= d.abp2
<1>1. c \in Contexts /\ Runs(c.stack, c, fs) BY DEF Ended
<1>2. c.abp2 \in Nat /\ Low(c) \in Nat /\ c.abp2 <= StackSize BY <1>1, ContextTypes, RunsParts
<1> DEFINE a == c.stack[c.abp2 - 1].a
<1>3. Low(c) + 1 <= c.abp2 /\ Low(c) + 1 + a <= c.abp2 /\ c.stack[c.abp2 - 1].type = "INT"
  BY DEF CountAt
<1>4. 1 <= c.abp2 /\ c.abp2 > 0 BY <1>2, <1>3
<1>5. CanPopTmpAc2(c) BY <1>3, <1>4 DEF CanPopTmpAc2, OnTop
<1>6. /\ d \in Contexts /\ Moved(c, d) /\ SameTry(c, d)
      /\ d.flag1 = c.flag1 /\ d.stack = c.stack /\ d.tmp_ac2 = a
      /\ d.abp2 = c.abp2 - 1 /\ d.ac2 = c.ac2
  BY <1>1, <1>2, <1>4, PopTmpAc2Moves
<1>7. a \in Nat BY <1>6, ContextTypes
<1> HIDE DEF a
<1>8. Low(c) <= d.abp2 /\ d.abp2 + d.ac2 <= StackSize /\ Low(c) + d.tmp_ac2 <= d.abp2
  BY <1>2, <1>3, <1>6, <1>7, StackSizeAssumption
<1>9. Agree(c.stack, d.stack, Low(c)) BY <1>6 DEF Agree
<1>10. Ended(d, fs) /\ Keeps(c, d) /\ Low(d) = Low(c) BY <1>6, <1>8, <1>9, MovedEnded
<1>11. QED BY <1>5, <1>6, <1>8, <1>10

(* A call whose function has returned ends with what was returned.         *)
LEMMA CallReturnedLeads ==
  ASSUME NEW fs, Level(context, fs), CallReturned
  PROVE  lost' \/ Leads(context, context')
<1>1. context.fp /\ Resumed.flag1 BY DEF CallReturned, Running
<1> DEFINE un(b) == [b EXCEPT !.flag1 = FALSE]
<1>2. PICK k \in Begun :
        /\ Op(k) = "call"
        /\ IF ~IsArg(k) THEN End(PopArgs(un(Begin(k))), k)
           ELSE IF CanPopTmpAc2(un(Begin(k))) THEN End(PopArgs(PopTmpAc2(un(Begin(k)))), k)
           ELSE RaiseIn(un(Begin(k)), k)
  BY DEF CallReturned
<1> DEFINE b == Begin(k)
           c == un(b)
<1>3. Ready(b, fs, k) /\ Keeps(context, b) /\ k \in DOMAIN Program /\ b.flag1
  BY <1>1, BeginReady
<1>4. IF ~IsArg(k) THEN End(PopArgs(c), k)
      ELSE IF CanPopTmpAc2(c) THEN End(PopArgs(PopTmpAc2(c)), k)
      ELSE RaiseIn(c, k)
  BY <1>2
<1>5. c = [b EXCEPT !.flag1 = FALSE] OBVIOUS
<1> HIDE DEF b, c
<1>6. /\ c \in Contexts /\ Runs(c.stack, c, fs) /\ ~c.flag1 /\ ~c.flag2 /\ c.index = 0
      /\ Keeps(b, c) /\ c.abp2 <= c.sec
      /\ Called(c.stack, Low(c), k, c.abp2, c.ac2, Top(fs).try)
      /\ AfterTry(c, k, Top(fs).try)
  BY <1>3, <1>5, Unflagged
<1>7. Ended(c, fs) /\ Keeps(context, c)
  BY <1>2, <1>3, <1>6, KeepsTransitive DEF AfterTry, Ended
<1>8. CASE ~IsArg(k)
  <2> DEFINE d == PopArgs(c)
  <2>1. Ended(d, fs) /\ Keeps(c, d) BY <1>7, PoppedEnded
  <2>2. End(d, k) BY <1>4, <1>8
  <2> HIDE DEF d
  <2>3. lost' \/ Leads(d, context') BY <1>2, <1>3, <1>8, <2>1, <2>2, EndLeads
  <2>4. QED BY <1>7, <2>1, <2>3, KeepsTransitive
<1>9. CASE IsArg(k)
  <2> DEFINE d == PopTmpAc2(c)
             e == PopArgs(d)
  <2>1. c.ac2 = 0 /\ CountAt(c.stack, Low(c), c.abp2) BY <1>2, <1>6, <1>9 DEF Called
  <2>2. /\ CanPopTmpAc2(c) /\ Ended(d, fs) /\ Keeps(c, d)
        /\ Low(d) + d.tmp_ac2 <= d.abp2
    BY <1>6, <1>7, <2>1, CountPopped
  <2>3. End(e, k) BY <1>4, <1>9, <2>2
  <2> HIDE DEF d
  <2>4. Ended(e, fs) /\ Keeps(d, e) /\ e.abp2 = d.abp2 BY <2>2, PoppedEnded
  <2>5. Low(e) = Low(d) /\ e.tmp_ac2 = d.tmp_ac2
    BY <2>2, PopArgsMoves DEF Ended, Low, Lvbp, Moved
  <2> HIDE DEF e
  <2>6. lost' \/ Leads(e, context')
    BY <1>2, <1>3, <2>2, <2>3, <2>4, <2>5, EndLeads
  <2>7. Keeps(c, e) BY <2>2, <2>4, KeepsTransitive
  <2>8. QED BY <1>7, <2>6, <2>7, KeepsTransitive
<1>10. QED BY <1>8, <1>9

(* Arguments may be pushed while an instruction has its value.             *)
LEMMA PushedArgsEnded ==
  ASSUME NEW c, NEW fs, NEW words \in Seq(AnyWord), Ended(c, fs),
         c.abp2 + c.ac2 + Len(words) <= StackSize
  PROVE  /\ Ended(PushArgs(c, words), fs) /\ Keeps(c, PushArgs(c, words))
         /\ Low(PushArgs(c, words)) = Low(c)
<1> DEFINE d == PushArgs(c, words)
           at == c.abp2 + c.ac2
<1>1. c \in Contexts /\ Runs(c.stack, c, fs) BY DEF Ended
<1>2. /\ d \in Contexts /\ Moved(c, d) /\ SameTry(c, d)
      /\ d.flag1 = c.flag1 /\ d.stack = Store(c.stack, at, words)
      /\ d.abp2 = c.abp2 /\ d.ac2 = c.ac2 + Len(words)
  BY <1>1, PushArgsMoves
<1> HIDE DEF d
<1>3. /\ c.abp2 \in Nat /\ c.ac2 \in Nat /\ c.stack \in Stacks /\ Low(c) \in Nat
      /\ Low(c) <= c.abp2 /\ Len(words) \in Nat /\ at \in Nat /\ Low(c) <= at
  <2>1. c.abp2 \in Nat /\ c.ac2 \in Nat /\ c.stack \in Stacks BY <1>1, ContextTypes
  <2>2. Low(c) \in Nat /\ Low(c) <= c.abp2 BY <1>1, RunsParts
  <2>3. QED BY <2>1, <2>2
<1>4. Low(c) <= d.abp2 /\ d.abp2 + d.ac2 <= StackSize
  BY <1>2, <1>3, StackSizeAssumption
<1> HIDE DEF at
<1>5. Agree(c.stack, d.stack, at) BY <1>2, <1>3, Stored
<1>6. Agree(c.stack, d.stack, Low(c)) BY <1>3, <1>5, AgreeBelow
<1>7. Ended(d, fs) /\ Keeps(c, d) /\ Low(d) = Low(c) BY <1>2, <1>4, <1>6, MovedEnded
<1>8. QED BY <1>7 DEF d

(* So may they be hidden.                                                  *)
LEMMA HiddenEnded ==
  ASSUME NEW c, NEW fs, Ended(c, fs)
  PROVE  LET h == HideArgs(c)
         IN  /\ Ended(h, fs) /\ Keeps(c, h) /\ h.ac2 = 0 /\ h.tmp_ac2 = c.ac2
             /\ Low(h) + h.tmp_ac2 <= h.abp2 /\ h.ip = c.ip /\ h.stack = c.stack
             /\ h.abp2 = c.abp2 + c.ac2 /\ h.flag1 = c.flag1 /\ h.error = c.error
<1> DEFINE h == HideArgs(c)
<1>1. c \in Contexts /\ Runs(c.stack, c, fs) BY DEF Ended
<1>2. /\ h \in Contexts /\ Moved(c, h) /\ SameTry(c, h)
      /\ h.flag1 = c.flag1 /\ h.tmp_ac2 = c.ac2 /\ h.stack = c.stack
      /\ h.abp2 = c.abp2 + c.ac2 /\ h.ac2 = 0
  BY <1>1, HideArgsMoves
<1> HIDE DEF h
<1>3. /\ c.abp2 \in Nat /\ c.ac2 \in Nat /\ Low(c) \in Nat /\ Low(c) <= c.abp2
      /\ c.abp2 + c.ac2 <= StackSize
  BY <1>1, RunsParts, ContextTypes DEF Runs
<1>4. /\ Low(c) <= h.abp2 /\ h.abp2 + h.ac2 <= StackSize /\ Low(c) + h.tmp_ac2 <= h.abp2
  BY <1>2, <1>3, StackSizeAssumption
<1>5. Agree(c.stack, h.stack, Low(c)) BY <1>2 DEF Agree
<1>6. Ended(h, fs) /\ Keeps(c, h) /\ Low(h) = Low(c) BY <1>2, <1>4, <1>5, MovedEnded
<1>7. QED BY <1>2, <1>4, <1>6 DEF h, Moved

(* The words that a try pushes are those it pops.                          *)
LEMMA TryWordsPushed ==
  ASSUME NEW h \in Contexts
  PROVE  LET words == TryTemps(h)
         IN  /\ words \in Seq(AnyWord) /\ Len(words) = 7
             /\ words[1].type = "INT" /\ words[1].a = h.tmp_ac2
             /\ words[2] = IntWord(Bit(h.try_flag), Bit(h.try_catch_flag))
             /\ words[3] = IntWord(h.try_abp, h.try_ac)
             /\ words[5].type = "REF" /\ words[6].type = "INT" /\ words[7].type = "REF"
<1> DEFINE count == IntWord(h.tmp_ac2, 0)
           flags == IntWord(Bit(h.try_flag), Bit(h.try_catch_flag))
           frame == IntWord(h.try_abp, h.try_ac)
           none == IntWord(0, 0)
<1>1. /\ count \in AnyWord /\ flags \in AnyWord /\ frame \in AnyWord /\ none \in AnyWord
      /\ RefWord \in AnyWord /\ h.try_arg2 \in AnyWord
      /\ count.type = "INT" /\ count.a = h.tmp_ac2 /\ none.type = "INT" /\ RefWord.type = "REF"
  BY ContextTypes DEF IntWord, RefWord, Word, AnyWord, Bit
<1>2. TryTemps(h) = <<count>> \o <<flags, frame, h.try_arg2, RefWord, none, RefWord>>
  BY DEF TryTemps, TryWords
<1> HIDE DEF count, flags, frame, none
<1> DEFINE words == <<count>> \o <<flags, frame, h.try_arg2, RefWord, none, RefWord>>
<1>3. /\ words \in Seq(AnyWord) /\ Len(words) = 7 /\ words[1] = count /\ words[2] = flags
      /\ words[3] = frame /\ words[5] = RefWord /\ words[6] = none /\ words[7] = RefWord
  BY <1>1
<1> HIDE DEF words
<1>4. QED BY <1>1, <1>2, <1>3 DEF words, flags, frame

(* A try has pushed its words and its function's arguments.                *)
LEMMA TryPushed ==
  ASSUME NEW h, NEW fs, NEW args \in Seq(AnyWord), Ended(h, fs), h.ac2 = 0,
         Low(h) + h.tmp_ac2 <= h.abp2, TryFits(h, args)
  PROVE  LET q == PushTry(h, args)
         IN  /\ Ended(q, fs) /\ Keeps(h, q) /\ q.ip = h.ip
             /\ TryTempsAt(q.stack, Low(q), q.abp2, Top(fs).try)
<1> DEFINE words == TryTemps(h)
           p == PushLocalVars(h, words)
           q == PushArgs(p, args)
           r == Top(fs).try
           b == h.abp2 + 7
<1>1. h \in Contexts /\ Runs(h.stack, h, fs) /\ TryOf(h) = r BY DEF Ended
<1>2. /\ words \in Seq(AnyWord) /\ Len(words) = 7
      /\ words[1].type = "INT" /\ words[1].a = h.tmp_ac2
      /\ words[2] = IntWord(Bit(h.try_flag), Bit(h.try_catch_flag))
      /\ words[3] = IntWord(h.try_abp, h.try_ac)
      /\ words[5].type = "REF" /\ words[6].type = "INT" /\ words[7].type = "REF"
  BY <1>1, TryWordsPushed
<1> HIDE DEF words
<1>3. /\ h.abp2 \in Nat /\ h.tmp_ac2 \in Nat /\ Low(h) \in Nat /\ h.stack \in Stacks
      /\ Low(h) <= h.abp2 /\ Len(args) \in Nat /\ h.abp2 + 7 + Len(args) <= StackSize
  <2>1. h.abp2 \in Nat /\ h.tmp_ac2 \in Nat /\ h.stack \in Stacks BY <1>1, ContextTypes
  <2>2. Low(h) \in Nat /\ Low(h) <= h.abp2 BY <1>1, RunsParts
  <2>3. h.abp2 + 0 + (7 + Len(args)) <= StackSize BY DEF TryFits, CanPush
  <2>4. Len(args) \in Nat OBVIOUS
  <2>5. h.abp2 + 7 + Len(args) <= StackSize BY <2>1, <2>3, <2>4, StackSizeAssumption
  <2>6. QED BY <2>1, <2>2, <2>4, <2>5
<1>4. h.abp2 + Len(words) <= StackSize BY <1>2, <1>3, StackSizeAssumption
<1>5. Ended(p, fs) /\ Keeps(h, p) BY <1>2, <1>4, PushedVarsEnded
<1>6. /\ Moved(h, p) /\ p.stack = Store(h.stack, h.abp2, words) /\ p.abp2 = h.abp2 + Len(words)
      /\ p.ac2 = 0
  <2>1. h \in Contexts /\ words \in Seq(AnyWord) /\ p = PushLocalVars(h, words) BY <1>1, <1>2
  <2> HIDE DEF p
  <2>2. QED BY ONLY <2>1, PushLocalVarsMoves
<1> HIDE DEF p
<1>7. p \in Contexts BY <1>5 DEF Ended
<1>8. p.abp2 = b /\ p.abp2 + p.ac2 + Len(args) <= StackSize /\ p.abp2 + p.ac2 = b /\ b \in Nat
  BY <1>2, <1>3, <1>6, SMTT(30)
<1>9. Ended(q, fs) /\ Keeps(p, q) /\ Low(q) = Low(p) BY <1>5, <1>8, PushedArgsEnded
<1>10. Moved(p, q) /\ q.stack = Store(p.stack, p.abp2 + p.ac2, args) /\ q.abp2 = b
  BY <1>7, <1>8, PushArgsMoves
<1> HIDE DEF q
<1>11. Agree(p.stack, q.stack, b)
  <2>1. p.stack \in Stacks /\ q.stack = Store(p.stack, b, args) BY <1>7, <1>8, <1>10, ContextTypes
  <2> HIDE DEF b
  <2>2. QED BY <1>8, <2>1, Stored
<1>12. \A i \in 1 .. 7 : p.stack[h.abp2 + i - 1] = words[i]
  <2>1. \A i \in 1 .. 7 : h.abp2 + i <= StackSize BY <1>3, StackSizeAssumption, SMTT(30)
  <2> DEFINE at == h.abp2
             s == h.stack
  <2>2. /\ at \in Nat /\ s \in Stacks /\ p.stack = Store(s, at, words)
        /\ \A i \in 1 .. 7 : at + i <= StackSize
    BY <1>3, <1>6, <2>1
  <2> HIDE DEF at, s
  <2>3. \A i \in 1 .. Len(words) : at + i <= StackSize => p.stack[at + i - 1] = words[i]
    <3>1. \A i \in 1 .. Len(words) :
            at + i <= StackSize => Store(s, at, words)[at + i - 1] = words[i]
      BY ONLY <1>2, <2>2, Stored
    <3>2. QED BY ONLY <2>2, <3>1
  <2>4. \A i \in 1 .. 7 : p.stack[at + i - 1] = words[i] BY <1>2, <2>2, <2>3
  <2>5. QED BY <2>4 DEF at
<1>13. \A i \in 1 .. 7 : q.stack[b - i] = words[8 - i]
  <2> TAKE i \in 1 .. 7
  <2>1. 8 - i \in 1 .. 7 /\ h.abp2 + (8 - i) - 1 = b - i /\ b - i < b BY <1>3, SMTT(30)
  <2> HIDE DEF b
  <2>2. b - i \in 0 .. StackSize - 1
    <3>1. b - i \in Nat /\ b <= StackSize BY <1>3, StackSizeAssumption, SMTT(30) DEF b
    <3>2. QED BY <1>8, <2>1, <3>1, StackSizeAssumption
  <2>3. p.stack[b - i] = words[8 - i]
    <3>1. p.stack[h.abp2 + (8 - i) - 1] = words[8 - i] BY <1>12, <2>1
    <3>2. QED BY <2>1, <3>1
  <2>4. QED BY <1>11, <2>1, <2>2, <2>3 DEF Agree
<1>14. Low(q) = Low(h) BY <1>6, <1>9 DEF Low, Lvbp, Moved
<1>15. TryTempsAt(q.stack, Low(q), q.abp2, r)
  <2>1. /\ q.stack[b - 7] = words[1] /\ q.stack[b - 6] = words[2] /\ q.stack[b - 5] = words[3]
        /\ q.stack[b - 3] = words[5] /\ q.stack[b - 2] = words[6] /\ q.stack[b - 1] = words[7]
    BY <1>13
  <2>2. Low(h) + 7 <= b /\ Low(h) + 7 + h.tmp_ac2 <= b BY <1>3, SMTT(30)
  <2>3. /\ r.flag = h.try_flag /\ r.catch = h.try_catch_flag /\ r.abp = h.try_abp
        /\ r.ac = h.try_ac
    BY <1>1, TryTypes
  <2> HIDE DEF r, b
  <2>4. QED BY <1>2, <1>10, <1>14, <2>1, <2>2, <2>3 DEF TryTempsAt
<1>16. Keeps(h, q) /\ q.ip = h.ip BY <1>5, <1>6, <1>9, <1>10, KeepsTransitive DEF Moved
<1>17. QED BY <1>9, <1>15, <1>16 DEF PushTry, q, p, words

(* A try whose words do not fit raises an error.                           *)
LEMMA TryOverflowed ==
  ASSUME NEW h, NEW fs, NEW k, NEW args \in Seq(AnyWord), Ended(h, fs), h.ac2 = 0,
         TryOverflows(h, args, k)
  PROVE  lost' \/ Leads(h, context')
<1> DEFINE words == TryTemps(h)
<1>1. h \in Contexts /\ Runs(h.stack, h, fs) BY DEF Ended
<1>2. words \in Seq(AnyWord) /\ Len(words) = 7 BY <1>1, TryWordsPushed
<1>3. RaiseIn(IF ~CanPush(h, 7) THEN PushSomeLocalVars(h, words)
              ELSE PushSomeArgs(PushLocalVars(h, words), args), k)
  BY DEF TryOverflows
<1> HIDE DEF words
<1>4. h.abp2 \in Nat /\ h.abp2 <= StackSize BY <1>1, ContextTypes, RunsParts
<1>5. CASE ~CanPush(h, 7)
  <2> DEFINE n == StackSize - h.abp2
             w == Fitting(words, n)
             d == PushLocalVars(h, w)
  <2>1. n \in Nat BY <1>4, StackSizeAssumption
  <2>2. RaiseIn(d, k) BY <1>3, <1>5 DEF PushSomeLocalVars
  <2> HIDE DEF n
  <2>3. w \in Seq(AnyWord) /\ Len(w) <= n BY <1>2, <2>1, Fits
  <2> HIDE DEF w
  <2>4. h.abp2 + Len(w) <= StackSize BY <1>4, <2>3, StackSizeAssumption DEF n
  <2>5. Ended(d, fs) /\ Keeps(h, d) BY <2>3, <2>4, PushedVarsEnded
  <2> HIDE DEF d
  <2>6. lost' \/ Leads(d, context') BY <2>2, <2>5, EndedRaisable, RaiseInLeads
  <2>7. QED BY <2>5, <2>6, KeepsTransitive
<1>6. CASE CanPush(h, 7)
  <2> DEFINE p == PushLocalVars(h, words)
             n == StackSize - p.abp2 - p.ac2
             w == Fitting(args, n)
             d == PushArgs(p, w)
  <2>1. RaiseIn(d, k) BY <1>3, <1>6 DEF PushSomeArgs
  <2>2. h.abp2 + Len(words) <= StackSize BY <1>2, <1>4, <1>6 DEF CanPush
  <2>3. Ended(p, fs) /\ Keeps(h, p) BY <1>2, <2>2, PushedVarsEnded
  <2> HIDE DEF p
  <2>4. p \in Contexts /\ Runs(p.stack, p, fs) BY <2>3 DEF Ended
  <2>5. p.abp2 \in Nat /\ p.ac2 \in Nat /\ p.abp2 + p.ac2 <= StackSize
    BY <2>4, ContextTypes DEF Runs
  <2>6. n \in Nat BY <2>5, StackSizeAssumption
  <2> HIDE DEF n
  <2>7. w \in Seq(AnyWord) /\ Len(w) <= n BY <2>6, Fits
  <2> HIDE DEF w
  <2>8. p.abp2 + p.ac2 + Len(w) <= StackSize BY <2>5, <2>7, StackSizeAssumption DEF n
  <2>9. Ended(d, fs) /\ Keeps(p, d) BY <2>3, <2>7, <2>8, PushedArgsEnded
  <2> HIDE DEF d
  <2>10. lost' \/ Leads(d, context') BY <2>1, <2>9, EndedRaisable, RaiseInLeads
  <2>11. Keeps(h, d) BY <2>3, <2>9, KeepsTransitive
  <2>12. QED BY <2>10, <2>11, KeepsTransitive
<1>7. QED BY <1>5, <1>6

(* The words of a try give its registers to the outer try and show its     *)
(* arguments again.                                                        *)
LEMMA TryPopped ==
  ASSUME NEW c \in Contexts, NEW fs, Runs(c.stack, c, fs),
         ~c.flag1, ~c.flag2, c.index = 0, c.abp2 <= c.sec,
         TryTempsAt(c.stack, Low(c), c.abp2, Top(fs).try)
  PROVE  LET e == RestoreArgs(PopTmpAc2(PopTryRegs(c)))
         IN  /\ CanPopTryRegs(c) /\ CanPopTmpAc2(PopTryRegs(c))
             /\ Ended(e, fs) /\ Keeps(c, e) /\ e.ip = c.ip /\ e.error = c.error
<1> DEFINE s == c.stack
           b == c.abp2
           r == Top(fs).try
           a == s[b - 7].a
           d == PopTryRegs(c)
           p == PopTmpAc2(d)
           e == RestoreArgs(p)
<1>1. /\ s \in Stacks /\ b \in Nat /\ Low(c) \in Nat /\ b <= StackSize /\ c.sec \in Nat
      /\ Low(c) <= b
  BY ContextTypes, RunsParts
<1>2. /\ Low(c) + 7 <= b /\ Low(c) + 7 + a <= b
      /\ s[b - 7].type = "INT"
      /\ s[b - 6] = IntWord(Bit(r.flag), Bit(r.catch)) /\ s[b - 5] = IntWord(r.abp, r.ac)
      /\ s[b - 3].type = "REF" /\ s[b - 2].type = "INT" /\ s[b - 1].type = "REF"
  BY DEF TryTempsAt
<1>3. b - 7 \in Nat /\ b - 7 < StackSize /\ 6 <= b /\ b >= 4 BY <1>1, <1>2, StackSizeAssumption
<1>4. a \in Nat
  <2> DEFINE x == b - 7
  <2>1. x \in Nat /\ x < StackSize BY <1>3
  <2> HIDE DEF x, s
  <2>2. s[x].a \in Nat BY <1>1, <2>1, WordsOfStacks
  <2>3. QED BY <2>2 DEF x
<1>5. s[b - 6].type = "INT" /\ s[b - 5].type = "INT" BY <1>2 DEF IntWord, Word
<1>6. CanPopTryRegs(c)
  <2> DEFINE f == [i \in 1 .. 6 |-> IF i = 3 THEN "any" ELSE OnTop(c, 7 - i).type]
  <2>1. /\ f[1] = s[b - 6].type /\ f[2] = s[b - 5].type /\ f[3] = "any"
        /\ f[4] = s[b - 3].type /\ f[5] = s[b - 2].type /\ f[6] = s[b - 1].type
    BY DEF OnTop
  <2>2. DOMAIN f = 1 .. 6 /\ f = [i \in 1 .. 6 |-> f[i]] OBVIOUS
  <2> HIDE DEF f
  <2>3. f = <<"INT", "INT", "any", "REF", "INT", "REF">> BY <1>2, <1>5, <2>1, <2>2
  <2>4. QED BY <1>3, <2>3 DEF CanPopTryRegs, f
<1>7. /\ d \in Contexts /\ Moved(c, d)
      /\ d.flag1 = c.flag1 /\ d.stack = s /\ d.abp2 = b - 6 /\ d.sec = c.sec - 6
      /\ d.try_flag <=> s[b - 6].a = 1
      /\ d.try_catch_flag <=> s[b - 6].b = 1
      /\ d.try_abp = s[b - 5].a /\ d.try_ac = s[b - 5].b
  BY <1>1, <1>3, PopTryRegsPops
<1> HIDE DEF d
<1>8. TryOf(d) = r
  <2>1. r \in Tries
    <3>1. Chain(s, fs, c.nfbp) /\ fs # <<>> /\ c.nfbp \in Nat BY ContextTypes DEF Runs
    <3> HIDE DEF s, r
    <3>2. QED BY <1>1, <3>1, TopParts DEF r
  <2> HIDE DEF r
  <2>2. /\ s[b - 6].a = 1 <=> r.flag
        /\ s[b - 6].b = 1 <=> r.catch
        /\ s[b - 5].a = r.abp /\ s[b - 5].b = r.ac
    BY <1>2, <2>1 DEF IntWord, Word, Bit, Tries
  <2>3. d.try_flag \in BOOLEAN /\ d.try_catch_flag \in BOOLEAN BY <1>7, ContextTypes
  <2>4. d.try_flag = r.flag /\ d.try_catch_flag = r.catch /\ d.try_abp = r.abp /\ d.try_ac = r.ac
    BY <1>7, <2>1, <2>2, <2>3 DEF Tries
  <2>5. QED BY <2>1, <2>4 DEF TryOf, Tries
<1>9. CanPopTmpAc2(d) BY <1>1, <1>2, <1>7 DEF CanPopTmpAc2, OnTop
<1>10. /\ p \in Contexts /\ Moved(d, p) /\ SameTry(d, p)
       /\ p.flag1 = d.flag1 /\ p.stack = s /\ p.tmp_ac2 = a /\ p.abp2 = b - 7
  <2>1. 1 <= d.abp2 /\ d.abp2 <= d.sec /\ d.abp2 <= StackSize /\ d.abp2 - 1 = b - 7
    <3> HIDE DEF s, b
    <3>1. b \in Nat /\ c.sec \in Nat /\ b <= StackSize /\ 7 <= b /\ b <= c.sec
      BY <1>1, <1>3 DEF b
    <3>2. d.abp2 = b - 6 /\ d.sec = c.sec - 6 BY <1>7
    <3>3. QED BY <3>1, <3>2, StackSizeAssumption
  <2>2. d.stack[d.abp2 - 1].a = a BY <1>7, <2>1
  <2>3. QED BY <1>7, <2>1, <2>2, PopTmpAc2Moves
<1> HIDE DEF p
<1>11. p.tmp_ac2 <= p.abp2 BY <1>1, <1>2, <1>4, <1>10
<1>12. /\ e \in Contexts /\ Moved(p, e) /\ SameTry(p, e)
       /\ e.flag1 = p.flag1 /\ e.stack = p.stack
       /\ e.abp2 + p.tmp_ac2 = p.abp2 /\ e.ac2 = p.tmp_ac2
  BY <1>10, <1>11, RestoreArgsMoves
<1> HIDE DEF e
<1>13. Moved(c, e) BY <1>7, <1>10, <1>12 DEF Moved
<1>14. Low(c) <= e.abp2 /\ e.abp2 + e.ac2 <= StackSize
  <2>1. e.abp2 \in Nat BY <1>12, ContextTypes
  <2>2. QED BY <1>1, <1>2, <1>4, <1>10, <1>12, <2>1, StackSizeAssumption
<1>15. Agree(c.stack, e.stack, Low(c)) BY <1>10, <1>12 DEF Agree
<1>16. Runs(e.stack, e, fs) /\ Keeps(c, e) BY <1>12, <1>13, <1>14, <1>15, MovedRuns
<1>17. TryOf(e) = r
  <2>1. SameTry(d, e) BY <1>10, <1>12 DEF SameTry
  <2>2. QED BY <1>8, <2>1, SameTries
<1>18. Ended(e, fs) BY <1>7, <1>10, <1>12, <1>13, <1>16, <1>17 DEF Ended, Moved
<1>19. QED BY <1>6, <1>9, <1>13, <1>16, <1>18 DEF Moved, d, p, e

(* The first function of a try that has pushed its words is watched by it. *)
LEMMA TryBegunReady ==
  ASSUME NEW c, NEW fs, NEW k, Ready(c, fs, k), ~c.flag1, Op(k) = "try", TryArgsRight(c)
  PROVE  LET h == HideArgs(c)
             args == FunctionOfTry(c)
             d == TryBegun(c)
         IN  /\ Ended(h, fs) /\ Keeps(c, h) /\ h.ac2 = 0 /\ args \in Seq(AnyWord)
             /\ TryFits(h, args) =>
                  /\ Raisable(d, fs) /\ Runs(d.stack, d, fs) /\ Keeps(c, d)
                  /\ Waits(d.stack, Low(d), d.ip, d.index, d.abp2, d.ac2, Top(fs).try)
                  /\ Watched(d.stack, d.ip, d.index, d.abp2, d.ac2, Top(fs).try, TryOf(d))
<1> DEFINE h == HideArgs(c)
           args == FunctionOfTry(c)
           d == TryBegun(c)
           at == c.abp2
           s == c.stack
           w == s[at + 1]
<1>1. /\ c \in Contexts /\ Runs(s, c, fs) /\ c.ip = k /\ k \in DOMAIN Program
      /\ IsArg(k) => c.ac2 = 0
  BY DEF Ready
<1>2. c.ac2 = 3 BY DEF TryArgsRight
<1>3. ~IsArg(k) BY <1>1, <1>2
<1>4. at \in Nat /\ s \in Stacks /\ at + 3 <= StackSize BY <1>1, <1>2, ContextTypes DEF Runs
<1>5. s[at] \in AnyWord /\ w \in AnyWord /\ s[at + 2] \in AnyWord
  <2> HIDE DEF at, s
  <2>1. /\ at + 1 \in Nat /\ at + 2 \in Nat
        /\ at < StackSize /\ at + 1 < StackSize /\ at + 2 < StackSize
    BY <1>4, StackSizeAssumption
  <2>2. QED BY <1>4, <2>1, WordsOfStacks DEF w
<1>6. args \in Seq(AnyWord)
  <2> DEFINE v1 == s[at]
             v2 == s[at + 2]
  <2>1. v1 \in AnyWord /\ v2 \in AnyWord /\ args = <<v1, v2>> BY <1>5 DEF FunctionOfTry
  <2> HIDE DEF v1, v2
  <2>2. QED BY <2>1
<1> HIDE DEF args
<1>7. /\ Ended(h, fs) /\ Keeps(c, h) /\ h.ac2 = 0 /\ Low(h) + h.tmp_ac2 <= h.abp2
      /\ h.ip = c.ip
  BY ReadyEnded, HiddenEnded
<1>8. ASSUME TryFits(h, args)
      PROVE  /\ Raisable(d, fs) /\ Runs(d.stack, d, fs) /\ Keeps(c, d)
             /\ Waits(d.stack, Low(d), d.ip, d.index, d.abp2, d.ac2, Top(fs).try)
             /\ Watched(d.stack, d.ip, d.index, d.abp2, d.ac2, Top(fs).try, TryOf(d))
  <2> DEFINE q == PushTry(h, args)
  <2>1. /\ Ended(q, fs) /\ Keeps(h, q) /\ q.ip = h.ip
        /\ TryTempsAt(q.stack, Low(q), q.abp2, Top(fs).try)
    <3> HIDE DEF h
    <3>1. QED BY <1>6, <1>7, <1>8, TryPushed
  <2>2. d = SetTryRegs(q, w) BY DEF TryBegun, args
  <2> HIDE DEF q, d, w
  <2>3. q \in Contexts /\ Runs(q.stack, q, fs) /\ ~q.flag1 /\ ~q.flag2 /\ q.index = 0
    BY <2>1 DEF Ended
  <2>4. /\ d \in Contexts /\ Moved(q, d)
        /\ d.flag1 = q.flag1 /\ d.stack = q.stack /\ d.abp2 = q.abp2 /\ d.ac2 = q.ac2
        /\ d.try_flag /\ ~d.try_catch_flag /\ d.try_abp = q.abp2 /\ d.try_ac = q.ac2
    BY <1>5, <2>2, <2>3, SetTryRegsSets
  <2>5. Runs(d.stack, d, fs) /\ Keeps(q, d) /\ Low(d) = Low(q)
    <3>1. Low(q) <= d.abp2 /\ d.abp2 + d.ac2 <= StackSize BY <2>3, <2>4 DEF Runs
    <3>2. Agree(q.stack, d.stack, Low(q)) BY <2>4 DEF Agree
    <3>3. QED BY <2>3, <2>4, <3>1, <3>2, MovedRuns
  <2>6. d.ip = k /\ d.index = 0 /\ ~d.flag2 BY <1>1, <1>7, <2>1, <2>3, <2>4 DEF Moved
  <2>7. Raisable(d, fs)
    <3>1. d.abp < d.abp2 BY <2>4, <2>5, RunsParts
    <3>2. d.abp \in Nat /\ d.abp2 \in Nat BY <2>4, ContextTypes
    <3>3. d.try_abp > d.abp BY <2>4, <3>1, <3>2
    <3>4. QED BY <2>4, <2>5, <2>6, <3>3 DEF Raisable, Runs
  <2>8. TryTempsAt(d.stack, Low(d), d.abp2, Top(fs).try) BY <2>1, <2>4, <2>5
  <2>9. Called(d.stack, Low(d), k, d.abp2, d.ac2, Top(fs).try)
    BY <1>3, <2>5, <2>8 DEF Called, Runs
  <2>10. Waits(d.stack, Low(d), d.ip, d.index, d.abp2, d.ac2, Top(fs).try)
    BY <1>1, <2>6, <2>9 DEF Waits
  <2>11. TryOf(d) = Own(d.abp2, d.ac2)
    <3>1. d.try_flag = TRUE /\ d.try_catch_flag = FALSE BY <2>4, ContextTypes
    <3>2. QED BY <2>4, <3>1 DEF TryOf, Own
  <2>12. Watched(d.stack, d.ip, d.index, d.abp2, d.ac2, Top(fs).try, TryOf(d))
    BY <2>6, <2>11 DEF Watched, AtTry
  <2>13. Keeps(c, d)
    <3>1. Keeps(c, q) BY <1>7, <2>1, KeepsTransitive
    <3>2. QED BY <2>5, <3>1, KeepsTransitive
  <2>14. QED BY <2>5, <2>7, <2>10, <2>12, <2>13
<1>9. QED BY <1>6, <1>7, <1>8 DEF args

(* A try leads to its first function.                                      *)
LEMMA TryLeads ==
  ASSUME NEW fs, Level(context, fs), Try
  PROVE  lost' \/ Leads(context, context')
<1>1. context.fp /\ ~Resumed.flag1 BY DEF Try, Running
<1>2. PICK k \in Begun :
        /\ Op(k) = "try"
        /\ IF ~TryArgsRight(Begin(k)) THEN RaiseIn(Begin(k), k)
           ELSE IF TryFits(HideArgs(Begin(k)), FunctionOfTry(Begin(k)))
             THEN Enter(TryBegun(Begin(k)), k)
           ELSE TryOverflows(HideArgs(Begin(k)), FunctionOfTry(Begin(k)), k)
  BY DEF Try
<1> DEFINE c == Begin(k)
           h == HideArgs(c)
           args == FunctionOfTry(c)
           d == TryBegun(c)
<1>3. Ready(c, fs, k) /\ Keeps(context, c) /\ k \in DOMAIN Program /\ ~c.flag1
  BY <1>1, BeginReady
<1>4. IF ~TryArgsRight(c) THEN RaiseIn(c, k)
      ELSE IF TryFits(h, args) THEN Enter(d, k)
      ELSE TryOverflows(h, args, k)
  BY <1>2
<1> HIDE DEF c
<1>5. CASE ~TryArgsRight(c)
  <2>1. lost' \/ Leads(c, context') BY <1>3, <1>4, <1>5, ReadyRaisable, RaiseInLeads
  <2>2. QED BY <1>3, <2>1, KeepsTransitive
<1>6. CASE TryArgsRight(c)
  <2>1. /\ Ended(h, fs) /\ Keeps(c, h) /\ h.ac2 = 0 /\ args \in Seq(AnyWord)
        /\ TryFits(h, args) =>
             /\ Raisable(d, fs) /\ Runs(d.stack, d, fs) /\ Keeps(c, d)
             /\ Waits(d.stack, Low(d), d.ip, d.index, d.abp2, d.ac2, Top(fs).try)
             /\ Watched(d.stack, d.ip, d.index, d.abp2, d.ac2, Top(fs).try, TryOf(d))
    BY <1>2, <1>3, <1>6, TryBegunReady
  <2> HIDE DEF h, args, d
  <2>2. CASE TryFits(h, args)
    <3>1. Enter(d, k) BY <1>4, <1>6, <2>2
    <3>2. lost' \/ Leads(d, context') BY <2>1, <2>2, <3>1, EnterOrRaise
    <3>3. Keeps(context, d) BY <1>3, <2>1, <2>2, KeepsTransitive
    <3>4. QED BY <3>2, <3>3, KeepsTransitive
  <2>3. CASE ~TryFits(h, args)
    <3>1. TryOverflows(h, args, k) BY <1>4, <1>6, <2>3
    <3>2. lost' \/ Leads(h, context') BY <2>1, <3>1, TryOverflowed
    <3>3. Keeps(context, h) BY <1>3, <2>1, KeepsTransitive
    <3>4. QED BY <3>2, <3>3, KeepsTransitive
  <2>4. QED BY <2>2, <2>3
<1>7. QED BY <1>5, <1>6

(* A try of what is no function raises an error, after its words are       *)
(* pushed.                                                                 *)
LEMMA NoFunctionLeads ==
  ASSUME NEW fs, Level(context, fs), NoFunction
  PROVE  lost' \/ Leads(context, context')
<1>1. context.fp /\ ~Resumed.flag1 BY DEF NoFunction, Running
<1>2. PICK k \in Begun :
        /\ Op(k) = "try" /\ TryArgsRight(Begin(k))
        /\ IF TryFits(HideArgs(Begin(k)), FunctionOfTry(Begin(k)))
             THEN RaiseIn(TryBegun(Begin(k)), k)
           ELSE TryOverflows(HideArgs(Begin(k)), FunctionOfTry(Begin(k)), k)
  BY DEF NoFunction
<1> DEFINE c == Begin(k)
           h == HideArgs(c)
           args == FunctionOfTry(c)
           d == TryBegun(c)
<1>3. Ready(c, fs, k) /\ Keeps(context, c) /\ k \in DOMAIN Program /\ ~c.flag1
  BY <1>1, BeginReady
<1>4. /\ TryArgsRight(c)
      /\ IF TryFits(h, args) THEN RaiseIn(d, k) ELSE TryOverflows(h, args, k)
  BY <1>2
<1> HIDE DEF c
<1>5. /\ Ended(h, fs) /\ Keeps(c, h) /\ h.ac2 = 0 /\ args \in Seq(AnyWord)
      /\ TryFits(h, args) => Raisable(d, fs) /\ Keeps(c, d)
  BY <1>2, <1>3, <1>4, TryBegunReady
<1> HIDE DEF h, args, d
<1>6. CASE TryFits(h, args)
  <2>1. lost' \/ Leads(d, context') BY <1>4, <1>5, <1>6, RaiseInLeads
  <2>2. Keeps(context, d) BY <1>3, <1>5, <1>6, KeepsTransitive
  <2>3. QED BY <2>1, <2>2, KeepsTransitive
<1>7. CASE ~TryFits(h, args)
  <2>1. lost' \/ Leads(h, context') BY <1>4, <1>5, <1>7, TryOverflowed
  <2>2. Keeps(context, h) BY <1>3, <1>5, KeepsTransitive
  <2>3. QED BY <2>1, <2>2, KeepsTransitive
<1>8. QED BY <1>6, <1>7

(* The handler of a try is entered: its errors are those of the outer try. *)
LEMMA HandlerReady ==
  ASSUME NEW h, NEW fs, NEW k, NEW args \in Seq(AnyWord), Ended(h, fs), h.ac2 = 0,
         Low(h) + h.tmp_ac2 <= h.abp2, TryFits(h, args), h.ip = k, Op(k) = "try",
         k \in DOMAIN Program, ~IsArg(k)
  PROVE  LET d == [PushTry(h, args) EXCEPT !.try_catch_flag = TRUE]
         IN  /\ Raisable(d, fs) /\ Runs(d.stack, d, fs) /\ Keeps(h, d)
             /\ Waits(d.stack, Low(d), d.ip, d.index, d.abp2, d.ac2, Top(fs).try)
             /\ Watched(d.stack, d.ip, d.index, d.abp2, d.ac2, Top(fs).try, TryOf(d))
<1> DEFINE q == PushTry(h, args)
           d == [q EXCEPT !.try_catch_flag = TRUE]
           r == Top(fs).try
<1>1. /\ Ended(q, fs) /\ Keeps(h, q) /\ q.ip = h.ip
      /\ TryTempsAt(q.stack, Low(q), q.abp2, r)
  BY TryPushed
<1> HIDE DEF q
<1>2. /\ q \in Contexts /\ Runs(q.stack, q, fs) /\ ~q.flag1 /\ ~q.flag2 /\ q.index = 0
      /\ TryOf(q) = r
  BY <1>1 DEF Ended
<1>3. /\ d \in Contexts /\ Moved(q, d)
      /\ d.flag1 = q.flag1 /\ d.stack = q.stack /\ d.abp2 = q.abp2 /\ d.ac2 = q.ac2
      /\ d.try_flag = q.try_flag /\ d.try_catch_flag = TRUE /\ d.try_abp = q.try_abp
      /\ d.try_ac = q.try_ac
  BY <1>2 DEF Contexts, Registers, Moved
<1> HIDE DEF d
<1>4. Runs(d.stack, d, fs) /\ Keeps(q, d) /\ Low(d) = Low(q)
  <2>1. Low(q) <= d.abp2 /\ d.abp2 + d.ac2 <= StackSize BY <1>2, <1>3 DEF Runs
  <2>2. Agree(q.stack, d.stack, Low(q)) BY <1>3 DEF Agree
  <2>3. QED BY <1>2, <1>3, <2>1, <2>2, MovedRuns
<1>5. d.ip = k /\ d.index = 0 /\ ~d.flag2 BY <1>1, <1>2, <1>3 DEF Moved
<1>6. TryOf(d) = Handling(r)
  <2>1. /\ r \in Tries /\ r.flag = q.try_flag /\ r.abp = q.try_abp /\ r.ac = q.try_ac
    BY <1>2, TryTypes
  <2>2. /\ TryOf(d) \in Tries /\ TryOf(d).flag = r.flag /\ TryOf(d).catch = TRUE
        /\ TryOf(d).abp = r.abp /\ TryOf(d).ac = r.ac
    BY <1>3, <2>1, TryTypes
  <2> HIDE DEF r
  <2>3. /\ Handling(r) \in Tries /\ Handling(r).flag = r.flag /\ Handling(r).catch = TRUE
        /\ Handling(r).abp = r.abp /\ Handling(r).ac = r.ac
    BY <2>1, HandlingTypes
  <2> DEFINE x == TryOf(d)
             y == Handling(r)
  <2>4. /\ x \in Tries /\ y \in Tries /\ x.flag = y.flag /\ x.catch = y.catch
        /\ x.abp = y.abp /\ x.ac = y.ac
    BY <2>2, <2>3
  <2> HIDE DEF x, y
  <2>5. x = y BY <2>4 DEF Tries
  <2>6. QED BY <2>5 DEF x, y
<1>7. Raisable(d, fs)
  <2>1. /\ Chain(d.stack, fs, d.nfbp) /\ fs # <<>> /\ d.abp = Top(fs).abp
        /\ d.stack \in Stacks /\ d.nfbp \in Nat
    BY <1>3, <1>4, ContextTypes DEF Runs
  <2>2. ASSUME d.try_flag PROVE Caught(d.stack, fs, Len(fs), TryOf(d))
    <3> DEFINE x == TryOf(d)
    <3>1. x.flag BY <1>3, <2>2, TryTypes
    <3>2. x \in {Top(fs).try, Handling(Top(fs).try)} BY <1>6
    <3> HIDE DEF x
    <3>3. Caught(d.stack, fs, Len(fs), x) BY <2>1, <3>1, <3>2, StillCaught
    <3>4. QED BY <3>3 DEF x
  <2>3. QED BY <1>3, <1>5, <2>1, <2>2 DEF Raisable
<1>8. TryTempsAt(d.stack, Low(d), d.abp2, r) BY <1>1, <1>3, <1>4
<1>9. Called(d.stack, Low(d), k, d.abp2, d.ac2, r) BY <1>4, <1>8 DEF Called, Runs
<1>10. Waits(d.stack, Low(d), d.ip, d.index, d.abp2, d.ac2, r) BY <1>5, <1>9 DEF Waits
<1>11. Watched(d.stack, d.ip, d.index, d.abp2, d.ac2, r, TryOf(d))
  BY <1>5, <1>6 DEF Watched, AtTry
<1>12. Keeps(h, d) BY <1>1, <1>4, KeepsTransitive
<1>13. QED BY <1>4, <1>7, <1>10, <1>11, <1>12 DEF d, q

(* A try whose function has returned pops its words.                       *)
LEMMA TryResult ==
  ASSUME NEW fs, NEW k \in Begun, NEW c, Level(context, fs), context.fp, Resumed.flag1,
         Op(k) = "try", c = [Begin(k) EXCEPT !.flag1 = FALSE]
  PROVE  LET d == PopTryRegs(c)
             e == RestoreArgs(PopTmpAc2(d))
         IN  /\ CanPopTryRegs(c) /\ CanPopTmpAc2(d) /\ Ended(e, fs) /\ Keeps(context, e)
             /\ e.ip = k /\ ~IsArg(k) /\ k \in DOMAIN Program /\ c \in Contexts
<1> DEFINE b == Begin(k)
<1>1. Ready(b, fs, k) /\ Keeps(context, b) /\ k \in DOMAIN Program /\ b.flag1
  BY BeginReady
<1>2. c = [b EXCEPT !.flag1 = FALSE] OBVIOUS
<1> HIDE DEF b
<1>3. /\ c \in Contexts /\ Runs(c.stack, c, fs) /\ ~c.flag1 /\ ~c.flag2 /\ c.index = 0
      /\ Keeps(b, c) /\ c.abp2 <= c.sec /\ c.ip = k
      /\ Called(c.stack, Low(c), k, c.abp2, c.ac2, Top(fs).try)
  BY ONLY <1>1, <1>2, Unflagged
<1>4. ~IsArg(k) /\ TryTempsAt(c.stack, Low(c), c.abp2, Top(fs).try) BY <1>3 DEF Called
<1> DEFINE e == RestoreArgs(PopTmpAc2(PopTryRegs(c)))
<1>5. /\ CanPopTryRegs(c) /\ CanPopTmpAc2(PopTryRegs(c))
      /\ Ended(e, fs) /\ Keeps(c, e) /\ e.ip = c.ip
  BY <1>3, <1>4, TryPopped
<1> HIDE DEF e
<1>6. Keeps(context, c) BY <1>1, <1>3, KeepsTransitive
<1>7. Keeps(context, e) BY <1>5, <1>6, KeepsTransitive
<1>8. QED BY <1>1, <1>3, <1>4, <1>5, <1>7 DEF e

(* A try that got something else than a result raises an error, once its   *)
(* words are popped.                                                       *)
LEMMA TryGaveOtherLeads ==
  ASSUME NEW fs, Level(context, fs), TryGaveOther
  PROVE  lost' \/ Leads(context, context')
<1>1. context.fp /\ Resumed.flag1 BY DEF TryGaveOther, Running
<1> DEFINE un(b) == [b EXCEPT !.flag1 = FALSE]
<1>2. PICK k \in Begun :
        Op(k) = "try" /\ RaiseIn(RestoreArgs(PopTmpAc2(PopTryRegs(un(Begin(k))))), k)
  BY DEF TryGaveOther
<1> DEFINE c == un(Begin(k))
           e == RestoreArgs(PopTmpAc2(PopTryRegs(c)))
<1>3. c = [Begin(k) EXCEPT !.flag1 = FALSE] /\ RaiseIn(e, k) BY <1>2
<1> HIDE DEF c
<1>4. Ended(e, fs) /\ Keeps(context, e) BY <1>1, <1>2, <1>3, TryResult
<1> HIDE DEF e
<1>5. lost' \/ Leads(e, context') BY <1>3, <1>4, EndedRaisable, RaiseInLeads
<1>6. QED BY <1>4, <1>5, KeepsTransitive

(* A try ends with its result, or calls its second function with the       *)
(* error.                                                                  *)
LEMMA TryReturnedLeads ==
  ASSUME NEW fs, Level(context, fs), TryReturned
  PROVE  lost' \/ Leads(context, context')
<1>1. context.fp /\ Resumed.flag1 BY DEF TryReturned, Running
<1> DEFINE un(b) == [b EXCEPT !.flag1 = FALSE]
           popped(c) == RestoreArgs(PopTmpAc2(PopTryRegs(c)))
           hidden(e) == HideArgs([e EXCEPT !.error = FALSE])
           handler(c) == <<IntWord(0, 0), RefWord, c.try_arg2, RefWord>>
           part(c, k) ==
             IF ~CanPopTryRegs(c) THEN RaiseIn(c, k)
             ELSE IF ~CanPopTmpAc2(PopTryRegs(c)) THEN RaiseIn(PopTryRegs(c), k)
             ELSE IF ~c.error THEN End(popped(c), k)
             ELSE IF TryFits(hidden(popped(c)), handler(c))
               THEN Enter([PushTry(hidden(popped(c)), handler(c))
                             EXCEPT !.try_catch_flag = TRUE], k)
             ELSE TryOverflows(hidden(popped(c)), handler(c), k)
<1>2. PICK k \in Begun : Op(k) = "try" /\ part(un(Begin(k)), k) BY DEF TryReturned
<1> DEFINE c == un(Begin(k))
           e == popped(c)
           f == [e EXCEPT !.error = FALSE]
           h == HideArgs(f)
           args == handler(c)
           d == [PushTry(h, args) EXCEPT !.try_catch_flag = TRUE]
<1>3. c = [Begin(k) EXCEPT !.flag1 = FALSE] /\ part(c, k) BY <1>2
<1> HIDE DEF c
<1>4. /\ CanPopTryRegs(c) /\ CanPopTmpAc2(PopTryRegs(c)) /\ Ended(e, fs) /\ Keeps(context, e)
      /\ e.ip = k /\ ~IsArg(k) /\ k \in DOMAIN Program /\ c \in Contexts
  BY <1>1, <1>2, <1>3, TryResult
<1>5. IF ~c.error THEN End(e, k)
      ELSE IF TryFits(h, args) THEN Enter(d, k) ELSE TryOverflows(h, args, k)
  BY <1>3, <1>4
<1> HIDE DEF e
<1>6. CASE ~c.error
  <2>1. End(e, k) BY <1>5, <1>6
  <2>2. lost' \/ Leads(e, context') BY <1>2, <1>4, <2>1, EndLeads
  <2>3. QED BY <1>4, <2>2, KeepsTransitive
<1>7. CASE c.error
  <2>1. args \in Seq(AnyWord)
    <3> DEFINE w == IntWord(0, 0)
               v == c.try_arg2
    <3>1. w \in AnyWord /\ RefWord \in AnyWord /\ v \in AnyWord
      BY <1>4, ContextTypes DEF IntWord, RefWord, Word, AnyWord
    <3>2. args = <<w, RefWord, v, RefWord>> OBVIOUS
    <3> HIDE DEF w, v, args
    <3>3. QED BY <3>1, <3>2
  <2>2. e \in Contexts /\ Runs(e.stack, e, fs) BY <1>4 DEF Ended
  <2>3. /\ f \in Contexts /\ SameTry(e, f) /\ f.stack = e.stack /\ f.ip = e.ip
        /\ f.abp = e.abp /\ f.ac = e.ac /\ f.lvc = e.lvc /\ f.nfbp = e.nfbp /\ f.fp = e.fp
        /\ f.flag1 = e.flag1 /\ f.flag2 = e.flag2 /\ f.index = e.index
        /\ f.abp2 = e.abp2 /\ f.ac2 = e.ac2
    BY <2>2 DEF Contexts, Registers, SameTry
  <2> HIDE DEF f
  <2>4. Ended(f, fs)
    <3>1. Low(f) = Low(e) BY <2>3 DEF Low, Lvbp
    <3>2. Runs(f.stack, f, fs) BY <2>2, <2>3, <3>1 DEF Runs
    <3>3. TryOf(f) = TryOf(e) BY <2>3, SameTries
    <3>4. QED BY <1>4, <2>3, <3>2, <3>3 DEF Ended
  <2>5. Keeps(context, f)
    <3>1. Keeps(e, f) BY <2>3 DEF Keeps, Agree
    <3>2. QED BY <1>4, <3>1, KeepsTransitive
  <2>6. /\ Ended(h, fs) /\ Keeps(f, h) /\ h.ac2 = 0 /\ Low(h) + h.tmp_ac2 <= h.abp2
        /\ h.ip = f.ip
    BY <2>4, HiddenEnded
  <2> HIDE DEF h, args
  <2>7. Keeps(context, h) /\ h.ip = k BY <1>4, <2>3, <2>5, <2>6, KeepsTransitive
  <2>8. CASE TryFits(h, args)
    <3>1. /\ Raisable(d, fs) /\ Runs(d.stack, d, fs) /\ Keeps(h, d)
          /\ Waits(d.stack, Low(d), d.ip, d.index, d.abp2, d.ac2, Top(fs).try)
          /\ Watched(d.stack, d.ip, d.index, d.abp2, d.ac2, Top(fs).try, TryOf(d))
      BY <1>2, <1>4, <2>1, <2>6, <2>7, <2>8, HandlerReady
    <3>2. Enter(d, k) BY <1>5, <1>7, <2>8
    <3> HIDE DEF d
    <3>3. lost' \/ Leads(d, context') BY <3>1, <3>2, EnterOrRaise
    <3>4. Keeps(context, d) BY <2>7, <3>1, KeepsTransitive
    <3>5. QED BY <3>3, <3>4, KeepsTransitive
  <2>9. CASE ~TryFits(h, args)
    <3>1. TryOverflows(h, args, k) BY <1>5, <1>7, <2>9
    <3>2. lost' \/ Leads(h, context') BY <2>1, <2>6, <3>1, TryOverflowed
    <3>3. QED BY <2>7, <3>2, KeepsTransitive
  <2>10. QED BY <2>8, <2>9
<1>8. QED BY <1>6, <1>7

(* The instruction k, its arguments hidden, is about to force a value.     *)
ToForce(h, fs, k) ==
  /\ h \in Contexts /\ Runs(h.stack, h, fs) /\ ~h.flag2 /\ h.index = 0
  /\ k \in DOMAIN Program /\ h.ip = k
  /\ h.ac2 = 0 /\ Low(h) + h.tmp_ac2 <= h.abp2
  /\ IF h.flag1
       THEN /\ Op(k) = "try"
            /\ Called(h.stack, Low(h), k, h.abp2 - h.tmp_ac2, h.tmp_ac2, Top(fs).try)
            /\ \/ TryOf(h) = Handling(Top(fs).try)
               \/ h.try_flag /\ h.try_abp > h.abp /\ ~h.try_catch_flag
       ELSE TryOf(h) = Top(fs).try

(* An instruction that is ready hides its arguments and forces a value, a  *)
(* try one that it has got as its result.                                  *)
LEMMA HiddenToForce ==
  ASSUME NEW c, NEW fs, NEW k, Ready(c, fs, k), c.flag1 => Op(k) = "try" /\ ~c.error
  PROVE  LET h == IF IsArg(k) THEN c ELSE HideArgs(c)
         IN  ToForce(h, fs, k) /\ Keeps(c, h) /\ h.flag1 = c.flag1
             /\ h.try_catch_flag = c.try_catch_flag
<1>1. /\ c \in Contexts /\ Runs(c.stack, c, fs) /\ ~c.flag2 /\ c.index = 0
      /\ k \in DOMAIN Program /\ c.ip = k
      /\ c.flag1 => /\ Called(c.stack, Low(c), k, c.abp2, c.ac2, Top(fs).try)
                    /\ AfterTry(c, k, Top(fs).try)
      /\ ~c.flag1 => TryOf(c) = Top(fs).try
      /\ IsArg(k) => c.ac2 = 0 /\ Low(c) + c.tmp_ac2 <= c.abp2
  BY DEF Ready
<1>2. /\ c.abp2 \in Nat /\ c.ac2 \in Nat /\ c.try_abp \in Nat /\ c.abp \in Nat
      /\ Low(c) \in Nat /\ c.abp < c.abp2 /\ Low(c) <= c.abp2 /\ c.abp2 + c.ac2 <= StackSize
  <2>1. /\ c.abp2 \in Nat /\ c.ac2 \in Nat /\ c.try_abp \in Nat /\ c.abp \in Nat
    BY <1>1, ContextTypes
  <2>2. Low(c) \in Nat /\ c.abp < c.abp2 /\ Low(c) <= c.abp2 BY <1>1, RunsParts
  <2>3. QED BY <1>1, <2>1, <2>2 DEF Runs
<1>3. ASSUME c.flag1
      PROVE  /\ Op(k) = "try" /\ ~IsArg(k)
             /\ \/ TryOf(c) = Handling(Top(fs).try)
                \/ c.try_flag /\ c.try_abp > c.abp /\ ~c.try_catch_flag
  <2>1. Op(k) = "try" /\ ~IsArg(k) BY <1>1, <1>3 DEF Called
  <2>2. \/ TryOf(c) = Handling(Top(fs).try)
        \/ c.try_flag /\ c.try_abp >= c.abp2 /\ ~c.try_catch_flag
    BY <1>1, <1>3, <2>1 DEF AfterTry
  <2>3. c.try_abp >= c.abp2 => c.try_abp > c.abp BY <1>2
  <2>4. QED BY <2>1, <2>2, <2>3
<1>4. CASE IsArg(k)
  <2>1. Keeps(c, c) BY DEF Keeps, Agree
  <2>2. ToForce(c, fs, k) BY <1>1, <1>3, <1>4 DEF ToForce
  <2>3. QED BY <1>4, <2>1, <2>2
<1>5. CASE ~IsArg(k)
  <2> DEFINE h == HideArgs(c)
  <2>1. /\ h \in Contexts /\ Moved(c, h) /\ SameTry(c, h)
        /\ h.flag1 = c.flag1 /\ h.tmp_ac2 = c.ac2 /\ h.stack = c.stack
        /\ h.abp2 = c.abp2 + c.ac2 /\ h.ac2 = 0
    BY <1>1, HideArgsMoves
  <2> HIDE DEF h
  <2>2. Low(c) <= h.abp2 /\ h.abp2 + h.ac2 <= StackSize /\ Low(c) + h.tmp_ac2 <= h.abp2
    BY <1>2, <2>1, StackSizeAssumption
  <2>3. Agree(c.stack, h.stack, Low(c)) BY <2>1 DEF Agree
  <2>4. Runs(h.stack, h, fs) /\ Keeps(c, h) /\ Low(h) = Low(c)
    BY <1>1, <2>1, <2>2, <2>3, MovedRuns
  <2>5. TryOf(h) = TryOf(c) BY <2>1, SameTries
  <2>6. ASSUME h.flag1
        PROVE  /\ Op(k) = "try"
               /\ Called(h.stack, Low(h), k, h.abp2 - h.tmp_ac2, h.tmp_ac2, Top(fs).try)
               /\ \/ TryOf(h) = Handling(Top(fs).try)
                  \/ h.try_flag /\ h.try_abp > h.abp /\ ~h.try_catch_flag
    <3>1. h.abp2 - h.tmp_ac2 = c.abp2 BY <1>2, <2>1
    <3>2. Called(h.stack, Low(h), k, h.abp2 - h.tmp_ac2, h.tmp_ac2, Top(fs).try)
      BY <1>1, <2>1, <2>4, <2>6, <3>1
    <3>3. c.flag1 BY <2>1, <2>6
    <3>4. QED BY <1>3, <2>1, <2>5, <3>2, <3>3 DEF SameTry, Moved
  <2>7. ~h.flag1 => TryOf(h) = Top(fs).try BY <1>1, <2>1, <2>5
  <2>8. ToForce(h, fs, k) BY <1>1, <2>1, <2>2, <2>4, <2>6, <2>7 DEF ToForce, Moved
  <2>9. QED BY <1>5, <2>1, <2>4, <2>8 DEF h, SameTry
<1>6. QED BY <1>4, <1>5

(* It may raise an error then.                                             *)
LEMMA ToForceRaisable ==
  ASSUME NEW h, NEW fs, NEW k, ToForce(h, fs, k)
  PROVE  Raisable(h, fs)
<1>1. h \in Contexts /\ Runs(h.stack, h, fs) /\ ~h.flag2 BY DEF ToForce
<1>2. /\ Chain(h.stack, fs, h.nfbp) /\ fs # <<>> /\ h.abp = Top(fs).abp
      /\ h.stack \in Stacks /\ h.nfbp \in Nat
  BY <1>1, ContextTypes DEF Runs
<1>3. ASSUME h.try_flag, ~(h.try_abp > h.abp) PROVE Caught(h.stack, fs, Len(fs), TryOf(h))
  <2> DEFINE r == TryOf(h)
  <2>1. r \in {Top(fs).try, Handling(Top(fs).try)} BY <1>3 DEF ToForce
  <2>2. r.flag BY <1>1, <1>3, TryTypes
  <2> HIDE DEF r
  <2>3. Caught(h.stack, fs, Len(fs), r) BY <1>2, <2>1, <2>2, StillCaught
  <2>4. QED BY <2>3 DEF r
<1>4. QED BY <1>1, <1>2, <1>3 DEF Raisable

(* The words pushed before a lazy value's function is called.              *)
ForceWords(h) == <<PairWord(h.tmp_ac2, Bit(h.flag1)), IntWord(0, 0), LockedLazyWord>>

(* The words that a force pushes are those it pops.                        *)
LEMMA ForceWordsPushed ==
  ASSUME NEW h \in Contexts
  PROVE  LET words == ForceWords(h)
         IN  /\ words \in Seq(AnyWord) /\ Len(words) = 3
             /\ words[1].type = "PAIR" /\ words[1].a = h.tmp_ac2 /\ words[1].b = Bit(h.flag1)
             /\ words[2].type = "INT" /\ words[3].type = "LOCKED_LAZY_VALUE_REF"
<1> DEFINE count == PairWord(h.tmp_ac2, Bit(h.flag1))
           none == IntWord(0, 0)
<1>1. /\ count \in AnyWord /\ none \in AnyWord /\ LockedLazyWord \in AnyWord
      /\ count.type = "PAIR" /\ count.a = h.tmp_ac2 /\ count.b = Bit(h.flag1)
      /\ none.type = "INT" /\ LockedLazyWord.type = "LOCKED_LAZY_VALUE_REF"
  BY ContextTypes DEF PairWord, IntWord, LockedLazyWord, Word, AnyWord, Bit
<1>2. ForceWords(h) = <<count, none, LockedLazyWord>> BY DEF ForceWords
<1> HIDE DEF count, none
<1> DEFINE words == <<count, none, LockedLazyWord>>
<1>3. /\ words \in Seq(AnyWord) /\ Len(words) = 3 /\ words[1] = count /\ words[2] = none
      /\ words[3] = LockedLazyWord
  BY <1>1
<1> HIDE DEF words
<1>4. QED BY <1>1, <1>2, <1>3 DEF words

(* A force has pushed its words and the arguments of the lazy value's      *)
(* function.                                                               *)
LEMMA ForcePushed ==
  ASSUME NEW h \in Contexts, NEW low \in Nat, NEW args \in Seq(AnyWord), h.ac2 = 0,
         low + h.tmp_ac2 <= h.abp2, h.abp2 + 3 + Len(args) <= StackSize
  PROVE  LET p == ForceContext(h)
             q == [PushArgs(p, args) EXCEPT !.index = 1]
         IN  /\ q \in Contexts /\ SameTry(h, q) /\ q.abp2 = h.abp2 + 3 /\ q.ac2 = Len(args)
             /\ q.abp = h.abp /\ q.ac = h.ac /\ q.lvc = h.lvc /\ q.nfbp = h.nfbp
             /\ q.fp = h.fp /\ q.ip = h.ip /\ q.flag2 = h.flag2 /\ q.index = 1
             /\ Agree(h.stack, q.stack, h.abp2)
             /\ ForceTemps(q.stack, low, q.abp2)
             /\ q.stack[q.abp2 - 3].a = h.tmp_ac2
             /\ q.stack[q.abp2 - 3].b = Bit(h.flag1)
<1> DEFINE words == ForceWords(h)
           p == PushLocalVars(h, words)
           a == PushArgs(p, args)
           q == [a EXCEPT !.index = 1]
           at == h.abp2
           b == at + 3
           s == h.stack
<1>1. ForceContext(h) = p BY DEF ForceContext, ForceWords
<1>2. /\ words \in Seq(AnyWord) /\ Len(words) = 3
      /\ words[1].type = "PAIR" /\ words[1].a = h.tmp_ac2 /\ words[1].b = Bit(h.flag1)
      /\ words[2].type = "INT" /\ words[3].type = "LOCKED_LAZY_VALUE_REF"
  BY ForceWordsPushed
<1> HIDE DEF words
<1>3. /\ s \in Stacks /\ at \in Nat /\ b \in Nat /\ h.tmp_ac2 \in Nat /\ Len(args) \in Nat
  BY ContextTypes
<1>4. /\ p \in Contexts /\ Moved(h, p) /\ SameTry(h, p)
      /\ p.stack = Store(s, at, words) /\ p.abp2 = at + Len(words) /\ p.ac2 = 0
  <2>1. h \in Contexts /\ words \in Seq(AnyWord) /\ p = PushLocalVars(h, words) BY <1>2
  <2> HIDE DEF p
  <2>2. QED BY ONLY <2>1, PushLocalVarsMoves
<1> HIDE DEF p
<1>5. /\ a \in Contexts /\ Moved(p, a) /\ SameTry(p, a)
      /\ a.stack = Store(p.stack, p.abp2 + p.ac2, args)
      /\ a.abp2 = p.abp2 /\ a.ac2 = p.ac2 + Len(args)
  <2>1. p \in Contexts /\ args \in Seq(AnyWord) /\ a = PushArgs(p, args) BY <1>4
  <2> HIDE DEF a
  <2>2. QED BY ONLY <2>1, PushArgsMoves
<1> HIDE DEF a
<1>6. /\ q \in Contexts /\ SameTry(a, q) /\ q.stack = a.stack /\ q.abp2 = a.abp2 /\ q.ac2 = a.ac2
      /\ q.abp = a.abp /\ q.ac = a.ac /\ q.lvc = a.lvc /\ q.nfbp = a.nfbp
      /\ q.fp = a.fp /\ q.ip = a.ip /\ q.flag2 = a.flag2 /\ q.index = 1
  <2>1. a \in Contexts BY <1>5
  <2>2. QED BY ONLY <2>1 DEF Contexts, Registers, SameTry
<1> HIDE DEF q
<1>7. p.abp2 = b /\ p.abp2 + p.ac2 = b /\ q.abp2 = b /\ q.ac2 = Len(args)
  BY <1>2, <1>3, <1>4, <1>5, <1>6
<1>8. SameTry(h, q) BY <1>4, <1>5, <1>6 DEF SameTry
<1>9. /\ q.abp = h.abp /\ q.ac = h.ac /\ q.lvc = h.lvc /\ q.nfbp = h.nfbp
      /\ q.fp = h.fp /\ q.ip = h.ip /\ q.flag2 = h.flag2
  BY <1>4, <1>5, <1>6 DEF Moved
<1>10. p.stack \in Stacks /\ q.stack = Store(p.stack, b, args)
  BY <1>4, <1>5, <1>6, <1>7, ContextTypes
<1>11. at + 3 <= StackSize BY <1>3, StackSizeAssumption
<1> HIDE DEF s
<1>12. Agree(p.stack, q.stack, b)
  <2> HIDE DEF b
  <2>1. QED BY <1>3, <1>10, Stored
<1>13. Agree(s, p.stack, at) /\ (\A i \in 1 .. 3 : p.stack[at + i - 1] = words[i])
  <2> HIDE DEF at
  <2>1. /\ Agree(s, Store(s, at, words), at)
        /\ \A i \in 1 .. Len(words) :
             at + i <= StackSize => Store(s, at, words)[at + i - 1] = words[i]
    BY ONLY <1>2, <1>3, Stored
  <2>2. \A i \in 1 .. 3 : at + i <= StackSize BY <1>3, <1>11, StackSizeAssumption
  <2>3. QED BY ONLY <1>2, <1>4, <2>1, <2>2
<1>14. Agree(s, q.stack, at)
  <2>1. Agree(p.stack, q.stack, at) BY <1>3, <1>12 DEF Agree
  <2>2. QED BY <1>13, <2>1 DEF Agree
<1>15. q.stack[b - 3] = words[1] /\ q.stack[b - 2] = words[2] /\ q.stack[b - 1] = words[3]
  <2>1. at + 1 - 1 = b - 3 /\ at + 2 - 1 = b - 2 /\ at + 3 - 1 = b - 1 BY <1>3, SMTT(30)
  <2>2. p.stack[b - 3] = words[1] /\ p.stack[b - 2] = words[2] /\ p.stack[b - 1] = words[3]
    <3>1. /\ p.stack[at + 1 - 1] = words[1] /\ p.stack[at + 2 - 1] = words[2]
          /\ p.stack[at + 3 - 1] = words[3]
      BY <1>13
    <3>2. QED BY <2>1, <3>1
  <2>3. 3 <= b /\ b <= StackSize BY <1>3, <1>11
  <2> HIDE DEF b
  <2>4. /\ b - 3 \in 0 .. StackSize - 1 /\ b - 2 \in 0 .. StackSize - 1
        /\ b - 1 \in 0 .. StackSize - 1 /\ b - 3 < b /\ b - 2 < b /\ b - 1 < b
    BY <1>3, <2>3, StackSizeAssumption
  <2>5. QED BY <1>12, <2>2, <2>4 DEF Agree
<1>16. low + 3 <= b /\ low + 3 + h.tmp_ac2 <= b BY <1>3, SMTT(30)
<1> HIDE DEF b
<1>17. ForceTemps(q.stack, low, q.abp2) BY <1>2, <1>7, <1>15, <1>16 DEF ForceTemps
<1>18. q.abp2 = h.abp2 + 3 BY <1>7 DEF b
<1>19. QED BY <1>1, <1>2, <1>6, <1>7, <1>8, <1>9, <1>14, <1>15, <1>17, <1>18 DEF q, a, s

(* What a forced value's function is entered from.                         *)
LEMMA ForceReady ==
  ASSUME NEW h, NEW fs, NEW k, NEW args \in Seq(AnyWord), NEW d, ToForce(h, fs, k),
         h.abp2 + 3 + Len(args) <= StackSize,
         d = LET q == [PushArgs(ForceContext(h), args) EXCEPT !.index = 1]
             IN  IF h.flag1 /\ ~h.try_catch_flag THEN SetTryRegsForForce(q) ELSE q
  PROVE  /\ Raisable(d, fs) /\ Runs(d.stack, d, fs) /\ Keeps(h, d)
         /\ Waits(d.stack, Low(d), d.ip, d.index, d.abp2, d.ac2, Top(fs).try)
         /\ Watched(d.stack, d.ip, d.index, d.abp2, d.ac2, Top(fs).try, TryOf(d))
<1> DEFINE q == [PushArgs(ForceContext(h), args) EXCEPT !.index = 1]
           r == Top(fs).try
           low == Low(h)
           own == h.flag1 /\ ~h.try_catch_flag
<1>1. /\ h \in Contexts /\ Runs(h.stack, h, fs) /\ ~h.flag2 /\ h.index = 0
      /\ k \in DOMAIN Program /\ h.ip = k
      /\ h.ac2 = 0 /\ low + h.tmp_ac2 <= h.abp2
      /\ h.flag1 =>
           /\ Op(k) = "try"
           /\ Called(h.stack, low, k, h.abp2 - h.tmp_ac2, h.tmp_ac2, r)
           /\ \/ TryOf(h) = Handling(r)
              \/ h.try_flag /\ h.try_abp > h.abp /\ ~h.try_catch_flag
      /\ ~h.flag1 => TryOf(h) = r
  BY DEF ToForce
<1>2. /\ h.abp2 \in Nat /\ h.tmp_ac2 \in Nat /\ h.stack \in Stacks /\ h.abp \in Nat
      /\ h.flag1 \in BOOLEAN /\ h.try_flag \in BOOLEAN /\ h.try_catch_flag \in BOOLEAN
      /\ Len(args) \in Nat
  BY <1>1, ContextTypes
<1>3. low \in Nat /\ low <= h.abp2 /\ h.abp < h.abp2 /\ h.abp2 <= StackSize
  BY <1>1, RunsParts
<1>4. /\ q \in Contexts /\ SameTry(h, q) /\ q.abp2 = h.abp2 + 3 /\ q.ac2 = Len(args)
      /\ q.abp = h.abp /\ q.ac = h.ac /\ q.lvc = h.lvc /\ q.nfbp = h.nfbp
      /\ q.fp = h.fp /\ q.ip = h.ip /\ q.flag2 = h.flag2 /\ q.index = 1
      /\ Agree(h.stack, q.stack, h.abp2)
      /\ ForceTemps(q.stack, low, q.abp2)
      /\ q.stack[q.abp2 - 3].a = h.tmp_ac2
      /\ q.stack[q.abp2 - 3].b = Bit(h.flag1)
  <2> HIDE DEF low
  <2>1. QED BY <1>1, <1>3, ForcePushed
<1>5. d = IF own THEN SetTryRegsForForce(q) ELSE q OBVIOUS
<1> HIDE DEF q
<1>6. /\ d \in Contexts /\ d.stack = q.stack /\ d.abp2 = q.abp2 /\ d.ac2 = q.ac2
      /\ d.abp = q.abp /\ d.ac = q.ac /\ d.lvc = q.lvc /\ d.nfbp = q.nfbp
      /\ d.fp = q.fp /\ d.ip = q.ip /\ d.flag2 = q.flag2 /\ d.index = q.index
      /\ d.try_flag = q.try_flag /\ d.try_catch_flag = q.try_catch_flag
  <2>1. CASE own
    <3> HIDE DEF own
    <3>1. d = SetTryRegsForForce(q) BY <1>5, <2>1
    <3>2. /\ d \in Contexts /\ Moved(q, d)
          /\ d.stack = q.stack /\ d.abp2 = q.abp2 /\ d.ac2 = q.ac2
          /\ d.try_flag = q.try_flag /\ d.try_catch_flag = q.try_catch_flag
      BY <1>4, <3>1, SetTryRegsForForceSets
    <3>3. QED BY <3>2 DEF Moved
  <2>2. CASE ~own BY <1>4, <1>5, <2>2
  <2>3. QED BY <2>1, <2>2
<1>7. own => d.try_abp = d.abp2 /\ d.try_ac = d.ac2
  BY <1>4, <1>5, <1>6, SetTryRegsForForceSets
<1>8. ~own => TryOf(d) = TryOf(h) BY <1>4, <1>5, SameTries
<1>9. d.stack \in Stacks /\ d.abp2 \in Nat /\ d.nfbp \in Nat /\ h.abp < d.abp2
      /\ d.abp2 + d.ac2 <= StackSize /\ d.abp2 <= StackSize
  <2>1. d.stack \in Stacks /\ d.abp2 \in Nat /\ d.nfbp \in Nat BY <1>6, ContextTypes
  <2>2. d.abp2 = h.abp2 + 3 /\ d.ac2 = Len(args) BY <1>4, <1>6
  <2> DEFINE a == h.abp
             b == h.abp2
             n == Len(args)
  <2>3. a \in Nat /\ b \in Nat /\ n \in Nat /\ a < b /\ b + 3 + n <= StackSize
    BY <1>2, <1>3
  <2> HIDE DEF a, b, n
  <2>4. a < b + 3 /\ b + 3 + n <= StackSize /\ b + 3 <= StackSize
    BY <2>3, StackSizeAssumption
  <2>5. QED BY <2>1, <2>2, <2>4 DEF a, b, n
<1>10. Low(d) = low BY <1>4, <1>6 DEF Low, Lvbp
<1>11. Runs(d.stack, d, fs) /\ Keeps(h, d)
  <2>1. /\ Chain(h.stack, fs, h.nfbp) /\ fs # <<>> /\ h.abp = Top(fs).abp /\ h.ac = Top(fs).ac
        /\ h.fp
    BY <1>1 DEF Runs
  <2>2. Agree(h.stack, d.stack, low) BY <1>2, <1>3, <1>4, <1>6, AgreeBelow
  <2>3. AfterSaved(Top(fs)) <= low /\ h.nfbp <= low /\ h.nfbp \in Nat
    BY <1>1, RunsParts, ContextTypes
  <2>4. Agree(h.stack, d.stack, h.nfbp)
    <3> HIDE DEF low
    <3>1. QED BY <1>3, <2>2, <2>3, AgreeBelow
  <2>5. Chain(d.stack, fs, h.nfbp)
    <3> DEFINE s == h.stack
               t == d.stack
               nf == h.nfbp
    <3>1. /\ s \in Stacks /\ t \in Stacks /\ nf \in Nat /\ Chain(s, fs, nf)
          /\ Agree(s, t, low) /\ AfterSaved(Top(fs)) <= low
      BY <1>2, <1>9, <2>1, <2>2, <2>3
    <3> HIDE DEF s, t, nf, low
    <3>2. Chain(t, fs, nf) BY <1>3, <3>1, ChainLocal
    <3>3. QED BY <3>2 DEF t, nf
  <2>6. low <= d.abp2 BY <1>2, <1>3, <1>4, <1>6
  <2>7. QED BY <1>4, <1>6, <1>9, <1>10, <2>1, <2>4, <2>5, <2>6 DEF Runs, Keeps
<1>12. /\ d.ip = k /\ d.index = 1 /\ ~d.flag2
       /\ d.stack[d.abp2 - 3].b # 0 <=> h.flag1
       /\ d.stack[d.abp2 - 3].a = h.tmp_ac2
       /\ ForceTemps(d.stack, low, d.abp2)
  BY <1>1, <1>2, <1>4, <1>6 DEF Bit
<1>13. AtTry(d.stack, d.ip, d.index, d.abp2) <=> h.flag1 BY <1>1, <1>12 DEF AtTry
<1>14. ASSUME h.flag1
       PROVE  Op(k) = "try" /\ Called(d.stack, low, k, d.abp2 - 3 - h.tmp_ac2, h.tmp_ac2, r)
  <2> DEFINE x == h.abp2 - h.tmp_ac2
             s == h.stack
             t == d.stack
             m == h.abp2
  <2>1. Op(k) = "try" /\ Called(s, low, k, x, h.tmp_ac2, r) BY <1>1, <1>14
  <2>2. x \in Nat /\ x <= m /\ x <= StackSize
    BY <1>1, <1>2, <1>3, StackSizeAssumption, SMTT(30)
  <2>3. d.abp2 - 3 - h.tmp_ac2 = x BY <1>2, <1>4, <1>6
  <2>4. s \in Stacks /\ t \in Stacks /\ m \in Nat /\ Agree(s, t, m)
    BY <1>2, <1>4, <1>6, <1>9
  <2> HIDE DEF x, s, t, m, low, r
  <2>5. Called(t, low, k, x, h.tmp_ac2, r) BY <1>3, <2>1, <2>2, <2>4, CalledLocal
  <2>6. QED BY <2>1, <2>3, <2>5 DEF t
<1> HIDE DEF low, r
<1>15. Waits(d.stack, Low(d), d.ip, d.index, d.abp2, d.ac2, r)
  <2>1. Forced(d.stack, low, k, d.abp2, r) BY <1>12, <1>14 DEF Forced
  <2>2. QED BY <1>1, <1>10, <1>12, <2>1 DEF Waits
<1>16. own => TryOf(d) = Own(d.abp2, d.ac2) /\ d.try_abp > d.abp
  <2> SUFFICES ASSUME own PROVE TryOf(d) = Own(d.abp2, d.ac2) /\ d.try_abp > d.abp OBVIOUS
  <2>1. TryOf(h) # Handling(r)
    <3>1. Handling(r).catch = TRUE
      <4>1. r \in Tries BY <1>1, TopParts, ContextTypes DEF r, Runs
      <4>2. QED BY <4>1, HandlingTypes
    <3>2. TryOf(h).catch = FALSE BY <1>1, <1>2, TryTypes
    <3>3. QED BY <3>1, <3>2
  <2>2. h.try_flag BY <1>1, <2>1
  <2>3. d.try_flag = TRUE /\ d.try_catch_flag = FALSE
    BY <1>2, <1>4, <1>6, <2>2 DEF SameTry
  <2>4. TryOf(d) = Own(d.abp2, d.ac2) BY <1>7, <2>3 DEF TryOf, Own
  <2>5. d.try_abp > d.abp BY <1>4, <1>6, <1>7, <1>9, <1>2
  <2>6. QED BY <2>4, <2>5
<1>17. ~own => TryOf(d) = IF h.flag1 THEN Handling(r) ELSE r
  BY <1>1, <1>2, <1>8
<1>18. Watched(d.stack, d.ip, d.index, d.abp2, d.ac2, r, TryOf(d))
  BY <1>13, <1>16, <1>17 DEF Watched
<1>19. Raisable(d, fs)
  <2>1. Chain(d.stack, fs, d.nfbp) /\ fs # <<>> /\ d.abp = Top(fs).abp
    BY <1>11 DEF Runs
  <2>2. ASSUME d.try_flag, ~own PROVE Caught(d.stack, fs, Len(fs), TryOf(d))
    <3> DEFINE x == TryOf(d)
    <3>1. x \in {Top(fs).try, Handling(Top(fs).try)} BY <1>17, <2>2 DEF r
    <3>2. x.flag BY <1>6, <2>2, TryTypes
    <3> HIDE DEF x
    <3>3. Caught(d.stack, fs, Len(fs), x) BY <1>9, <2>1, <3>1, <3>2, StillCaught
    <3>4. QED BY <3>3 DEF x
  <2>3. QED BY <1>6, <1>12, <1>16, <2>1, <2>2 DEF Raisable
<1>20. QED BY <1>11, <1>15, <1>18, <1>19 DEF r

(* A force leads to the lazy value's function, or the stack overflows.     *)
LEMMA ForceInLeads ==
  ASSUME NEW h, NEW fs, NEW k, NEW is_try, ToForce(h, fs, k), ForceIn(h, k, is_try),
         is_try <=> h.flag1 /\ ~h.try_catch_flag
  PROVE  lost' \/ Leads(h, context')
<1> DEFINE p == ForceContext(h)
           q(args) == [PushArgs(p, args) EXCEPT !.index = 1]
           d(args) == IF h.flag1 /\ ~h.try_catch_flag THEN SetTryRegsForForce(q(args)) ELSE q(args)
<1>1. PICK args \in {<<>>} \union {<<v>> : v \in Values} :
        IF ~CanPush(h, 3) THEN RaiseIn(h, k)
        ELSE IF ~CanPush(p, Len(args)) THEN RaiseIn(p, k)
        ELSE Enter(d(args), k)
  BY DEF ForceIn
<1>2. args \in Seq(AnyWord)
  <2>1. CASE args = <<>> BY <2>1
  <2>2. CASE args # <<>>
    <3>1. PICK v \in Values : args = <<v>> BY <2>2
    <3>2. QED BY <3>1, OneWord
  <2>3. QED BY <2>1, <2>2
<1>3. h \in Contexts /\ h.ac2 = 0 /\ Runs(h.stack, h, fs) BY DEF ToForce
<1>4. h.abp2 \in Nat /\ h.abp2 <= StackSize /\ Len(args) \in Nat
  BY <1>2, <1>3, ContextTypes, RunsParts
<1>5. CASE ~CanPush(h, 3)
  <2>1. RaiseIn(h, k) BY <1>1, <1>5
  <2>2. QED BY <2>1, ToForceRaisable, RaiseInLeads
<1>6. CASE CanPush(h, 3)
  <2> DEFINE words == ForceWords(h)
  <2>1. words \in Seq(AnyWord) /\ Len(words) = 3 /\ p = PushLocalVars(h, words)
    BY <1>3, ForceWordsPushed DEF ForceContext, ForceWords
  <2> HIDE DEF words, p
  <2>2. /\ p \in Contexts /\ Moved(h, p) /\ SameTry(h, p) /\ p.flag1 = h.flag1
        /\ p.stack = Store(h.stack, h.abp2, words) /\ p.abp2 = h.abp2 + 3 /\ p.ac2 = 0
    <3>1. /\ p \in Contexts /\ Moved(h, p) /\ SameTry(h, p) /\ p.flag1 = h.flag1
          /\ p.stack = Store(h.stack, h.abp2, words) /\ p.abp2 = h.abp2 + Len(words)
          /\ p.ac2 = 0
      <4>1. h \in Contexts BY <1>3
      <4>2. QED BY ONLY <2>1, <4>1, PushLocalVarsMoves
    <3>2. QED BY <2>1, <3>1
  <2>3. h.abp2 + 3 <= StackSize BY <1>3, <1>4, <1>6, StackSizeAssumption DEF CanPush
  <2>4. CASE ~CanPush(p, Len(args))
    <3>1. RaiseIn(p, k) BY <1>1, <1>6, <2>4
    <3>2. Low(h) \in Nat /\ Low(h) <= h.abp2 /\ h.stack \in Stacks
      BY <1>3, RunsParts, ContextTypes
    <3>3. Agree(h.stack, p.stack, h.abp2) BY <1>4, <2>1, <2>2, <3>2, Stored
    <3>4. Agree(h.stack, p.stack, Low(h)) BY <1>4, <3>2, <3>3, AgreeBelow
    <3>5. Low(h) <= p.abp2 /\ p.abp2 + p.ac2 <= StackSize
      BY <1>4, <2>2, <2>3, <3>2, StackSizeAssumption
    <3>6. Runs(p.stack, p, fs) /\ Keeps(h, p) BY <1>3, <2>2, <3>4, <3>5, MovedRuns
    <3>7. Raisable(p, fs)
      <4>1. /\ Chain(p.stack, fs, p.nfbp) /\ fs # <<>> /\ p.abp = Top(fs).abp
            /\ p.stack \in Stacks /\ p.nfbp \in Nat /\ ~p.flag2
        BY <2>2, <3>6, ContextTypes DEF Runs, ToForce, Moved
      <4>2. TryOf(p) = TryOf(h) BY <2>2, SameTries
      <4>3. ASSUME p.try_flag, ~(p.try_abp > p.abp)
            PROVE  Caught(p.stack, fs, Len(fs), TryOf(p))
        <5> DEFINE x == TryOf(p)
        <5>1. ~(h.try_abp > h.abp) BY <2>2, <4>3 DEF Moved, SameTry
        <5>2. x \in {Top(fs).try, Handling(Top(fs).try)} BY <4>2, <5>1 DEF ToForce
        <5>3. x.flag BY <2>2, <4>3, TryTypes
        <5> HIDE DEF x
        <5>4. Caught(p.stack, fs, Len(fs), x) BY <4>1, <5>2, <5>3, StillCaught
        <5>5. QED BY <5>4 DEF x
      <4>4. QED BY <2>2, <4>1, <4>3 DEF Raisable
    <3>8. lost' \/ Leads(p, context') BY <3>1, <3>7, RaiseInLeads
    <3>9. QED BY <3>6, <3>8, KeepsTransitive
  <2>5. CASE CanPush(p, Len(args))
    <3> DEFINE e == d(args)
    <3>1. Enter(e, k) BY <1>1, <1>6, <2>5
    <3>2. h.abp2 + 3 + Len(args) <= StackSize
      BY <1>4, <2>2, <2>5, StackSizeAssumption DEF CanPush
    <3>3. e = LET q0 == [PushArgs(ForceContext(h), args) EXCEPT !.index = 1]
              IN  IF h.flag1 /\ ~h.try_catch_flag THEN SetTryRegsForForce(q0) ELSE q0
      BY DEF p
    <3> HIDE DEF e
    <3>4. /\ Raisable(e, fs) /\ Runs(e.stack, e, fs) /\ Keeps(h, e)
          /\ Waits(e.stack, Low(e), e.ip, e.index, e.abp2, e.ac2, Top(fs).try)
          /\ Watched(e.stack, e.ip, e.index, e.abp2, e.ac2, Top(fs).try, TryOf(e))
      BY <1>2, <3>2, <3>3, ForceReady
    <3>5. lost' \/ Leads(e, context') BY <3>1, <3>4, EnterOrRaise
    <3>6. QED BY <3>4, <3>5, KeepsTransitive
  <2>6. QED BY <2>4, <2>5
<1>7. QED BY <1>5, <1>6

(* An instruction that finds a lazy value among its operands forces it.    *)
LEMMA ForceLeads ==
  ASSUME NEW fs, Level(context, fs), ForceOperand
  PROVE  lost' \/ Leads(context, context')
<1>1. context.fp BY DEF ForceOperand, Running
<1>2. PICK k \in Begun :
        /\ Begin(k).flag1 => Op(k) = "try" /\ ~Begin(k).error
        /\ ForceIn(IF IsArg(k) THEN Begin(k) ELSE HideArgs(Begin(k)), k,
                   Begin(k).flag1 /\ ~Begin(k).try_catch_flag)
  BY DEF ForceOperand
<1> DEFINE c == Begin(k)
           h == IF IsArg(k) THEN c ELSE HideArgs(c)
<1>3. Ready(c, fs, k) /\ Keeps(context, c) BY <1>1, BeginReady
<1>4. /\ c.flag1 => Op(k) = "try" /\ ~c.error
      /\ ForceIn(h, k, c.flag1 /\ ~c.try_catch_flag)
  BY <1>2
<1> HIDE DEF c
<1>5. ToForce(h, fs, k) /\ Keeps(c, h) /\ h.flag1 = c.flag1 /\ h.try_catch_flag = c.try_catch_flag
  BY <1>3, <1>4, HiddenToForce
<1> HIDE DEF h
<1>6. lost' \/ Leads(h, context') BY <1>4, <1>5, ForceInLeads
<1>7. Keeps(context, h) BY <1>3, <1>5, KeepsTransitive
<1>8. QED BY <1>6, <1>7, KeepsTransitive

(* The first function of a thread, or of a native function that forces a   *)
(* value, is the first of its activations.                                 *)
LEMMA FirstEnterLeads ==
  ASSUME NEW c \in Contexts, NEW d, ~c.fp, c.ip = 0, ~c.try_flag, CanEnter(c),
         c.nfbp <= c.abp2, c.index = 1 => ForceTemps(c.stack, c.nfbp, c.abp2),
         d = EnterToFun(c)
  PROVE  Leads(c, d)
<1> DEFINE s == c.stack
           words == <<PairWord(c.abp, c.ac), PairWord(c.lvc, c.ip),
                      IntWord(Bit(c.fp), c.index), PairWord(0, 0)>>
           p == c.abp2 + c.ac2
           t == Store(s, p, words)
           g == [abp |-> c.abp2, ac |-> c.ac2, try |-> TryOf(c)]
           gs == Append(<<>>, g)
<1>1. /\ s \in Stacks /\ c.abp2 \in Nat /\ c.ac2 \in Nat /\ p \in Nat /\ c.nfbp \in Nat
      /\ c.lvc \in Nat /\ c.abp \in Nat /\ c.ac \in Nat /\ c.index \in {0, 1}
  BY ContextTypes
<1>2. p + 4 < StackSize BY DEF CanEnter
<1>3. /\ d \in Contexts /\ d.stack = t /\ SameTry(c, d) /\ d.abp = c.abp2 /\ d.ac = c.ac2
      /\ d.abp2 = p + 4 /\ d.sec = d.abp2 /\ d.lvc = 0 /\ d.ac2 = 0 /\ d.fp /\ d.ip = 0
      /\ ~d.flag1 /\ ~d.flag2 /\ d.index = 0 /\ d.nfbp = c.nfbp
  BY EnterMoves
<1>4. /\ words \in Seq(AnyWord) /\ Len(words) = 4
      /\ words[1] = PairWord(c.abp, c.ac) /\ words[2] = PairWord(c.lvc, 0)
      /\ words[3] = IntWord(0, c.index) /\ words[4] = PairWord(0, 0)
  <2>1. PairWord(c.abp, c.ac) \in AnyWord /\ PairWord(c.lvc, 0) \in AnyWord
    BY <1>1 DEF PairWord, Word, AnyWord
  <2>2. IntWord(0, c.index) \in AnyWord /\ PairWord(0, 0) \in AnyWord
    BY <1>1 DEF PairWord, IntWord, Word, AnyWord
  <2>3. words = <<PairWord(c.abp, c.ac), PairWord(c.lvc, 0), IntWord(0, c.index),
                  PairWord(0, 0)>>
    BY DEF Bit
  <2> HIDE DEF words
  <2>4. QED BY <2>1, <2>2, <2>3
<1> HIDE DEF words
<1>5. /\ t \in Stacks /\ Agree(s, t, p)
      /\ \A i \in 1 .. Len(words) : p + i <= StackSize => t[p + i - 1] = words[i]
  BY <1>1, <1>4, Stored
<1>6. t[p] = words[1] /\ t[p + 1] = words[2] /\ t[p + 2] = words[3] /\ t[p + 3] = words[4]
  <2> HIDE DEF t, p
  <2>1. p + 1 - 1 = p /\ p + 2 - 1 = p + 1 /\ p + 3 - 1 = p + 2 /\ p + 4 - 1 = p + 3 BY <1>1
  <2>2. p + 1 <= StackSize /\ p + 2 <= StackSize /\ p + 3 <= StackSize /\ p + 4 <= StackSize
    BY <1>1, <1>2, StackSizeAssumption
  <2>3. /\ 1 \in 1 .. Len(words) /\ 2 \in 1 .. Len(words)
        /\ 3 \in 1 .. Len(words) /\ 4 \in 1 .. Len(words)
    BY <1>4
  <2>4. QED BY <1>5, <2>1, <2>2, <2>3
<1>7. t[p + 1].b = 0 /\ t[p + 2].a = 0 /\ t[p + 2].b = c.index /\ SavedTypes(t, p)
  BY <1>4, <1>6 DEF PairWord, IntWord, Word, SavedTypes
<1> HIDE DEF t
<1>8. /\ g \in Frames /\ SavedAt(g) = p /\ AfterSaved(g) = p + 4 /\ g.abp = c.abp2
      /\ g.ac = c.ac2 /\ g.try = TryOf(c) /\ ~g.try.flag
  BY <1>1, TryTypes DEF Frames, SavedAt, AfterSaved
<1> HIDE DEF g
<1>9. Agree(s, t, c.abp2) /\ Agree(s, t, c.nfbp)
  <2>1. c.abp2 <= p /\ c.nfbp <= p BY <1>1
  <2> HIDE DEF p
  <2>2. QED BY <1>1, <1>5, <2>1, AgreeBelow
<1>10. First(t, c.nfbp, g)
  <2>1. c.abp2 <= StackSize BY <1>1, <1>2, StackSizeAssumption
  <2>2. ASSUME c.index = 1 PROVE ForceTemps(t, c.nfbp, c.abp2)
    <3> DEFINE b == c.abp2
               nf == c.nfbp
    <3>1. /\ b \in Nat /\ nf \in Nat /\ b <= b /\ b <= StackSize /\ Agree(s, t, b)
          /\ ForceTemps(s, nf, b)
      BY <1>1, <1>9, <2>1, <2>2
    <3> HIDE DEF b, nf, s
    <3>2. ForceTemps(t, nf, b) BY <1>1, <1>5, <3>1, ForceTempsLocal
    <3>3. QED BY <3>2 DEF b, nf
  <2>3. QED BY <1>1, <1>7, <1>8, <2>2 DEF First
<1>11. Chain(t, <<>>, c.nfbp)
  <2>1. <<>> \in Seq(Frames) /\ Len(<<>>) = 0 OBVIOUS
  <2>2. QED BY <2>1 DEF Chain
<1>12. Chain(t, gs, c.nfbp) /\ gs # <<>> /\ Top(gs) = g
  <2> DEFINE nf == c.nfbp
             none == <<>>
  <2>1. /\ nf \in Nat /\ nf <= g.abp /\ Chain(t, none, nf) /\ First(t, nf, g)
        /\ g \in Frames /\ AfterSaved(g) < StackSize /\ ~g.try.flag
        /\ none = <<>> /\ gs = Append(none, g)
    BY <1>1, <1>2, <1>8, <1>10, <1>11
  <2> HIDE DEF nf, none, gs
  <2>2. /\ Chain(t, Append(none, g), nf) /\ Append(none, g) # <<>>
        /\ Top(Append(none, g)) = g
    <3>1. /\ nf \in Nat /\ g \in Frames /\ Chain(t, none, nf) /\ nf <= g.abp
          /\ AfterSaved(g) < StackSize
          /\ none = <<>> => First(t, nf, g)
          /\ none # <<>> => AfterSaved(Top(none)) <= g.abp /\ Link(t, Top(none), g)
          /\ g.try.flag =>
               \/ none # <<>> /\ CalledByTry(t, g) /\ g.try.abp = g.abp /\ g.try.ac = g.ac
               \/ Caught(t, none, Len(none), g.try)
      BY ONLY <2>1
    <3>2. QED BY ONLY <3>1, ChainAppend
  <2>3. QED BY <2>1, <2>2 DEF nf
<1> HIDE DEF gs
<1>13. Low(d) = d.abp2 /\ d.abp2 + d.ac2 <= StackSize
  BY <1>1, <1>2, <1>3, StackSizeAssumption DEF Low, Lvbp
<1>14. Runs(d.stack, d, gs)
  <2>1. d.abp2 \in Nat BY <1>3, ContextTypes
  <2>2. QED BY <1>1, <1>3, <1>8, <1>12, <1>13, <2>1 DEF Runs
<1>15. TryOf(d) = Top(gs).try BY <1>3, <1>8, <1>12, SameTries
<1>16. ~Flagged(d) /\ d.sec = d.abp2 + d.ac2 /\ d.index = Bit(d.flag2)
  BY <1>1, <1>3 DEF Flagged, Bit
<1>17. Level(d, gs) BY <1>3, <1>14, <1>15, <1>16 DEF Level
<1>18. QED BY <1>3, <1>9, <1>17 DEF Leads, Keeps

(* Outside of functions flags and index mean nothing.                      *)
LEMMA OutsideLevel ==
  ASSUME NEW d \in Contexts, ~d.fp, d.ip = 0, ~d.try_flag, ~d.flag1, ~d.flag2,
         d.sec = d.abp2 + d.ac2, d.nfbp <= d.abp2, d.abp2 + d.ac2 <= StackSize
  PROVE  Level(d, <<>>)
BY DEF Level, Flagged

(* So does a native function, above its frame.                             *)
LEMMA NativeForcesLeads ==
  ASSUME NEW fs, Level(context, fs), NativeForces
  PROVE  Leads(context, context')
<1> DEFINE h == HideArgs(context)
           c == [h EXCEPT !.flag1 = FALSE, !.index = 0]
           p == ForceContext(c)
           q(args) == [PushArgs(p, args) EXCEPT !.index = 1]
<1>1. ~context.fp /\ ~context.flag2 BY DEF NativeForces, InNative
<1>2. PICK args \in {<<>>} \union {<<v>> : v \in Values} :
        IF CanPush(c, 3) /\ CanPush(p, Len(args)) /\ CanEnter(q(args))
          THEN context' = EnterToFun(q(args))
        ELSE context' = [SetError(c) EXCEPT !.index = 0]
  BY DEF NativeForces
<1>3. args \in Seq(AnyWord)
  <2>1. CASE args = <<>> BY <2>1
  <2>2. CASE args # <<>>
    <3>1. PICK v \in Values : args = <<v>> BY <2>2
    <3>2. QED BY <3>1, OneWord
  <2>3. QED BY <2>1, <2>2
<1>4. /\ context \in Contexts /\ context.ip = 0 /\ ~context.try_flag
      /\ context.nfbp <= context.abp2 /\ context.abp2 + context.ac2 <= StackSize
  BY <1>1 DEF Level
<1>5. context.abp2 \in Nat /\ context.ac2 \in Nat /\ context.nfbp \in Nat
  BY <1>4, ContextTypes
<1>6. /\ h \in Contexts /\ Moved(context, h) /\ SameTry(context, h)
      /\ h.tmp_ac2 = context.ac2 /\ h.stack = context.stack
      /\ h.abp2 = context.abp2 + context.ac2 /\ h.ac2 = 0
  BY <1>4, HideArgsMoves
<1> HIDE DEF h
<1>7. /\ c \in Contexts /\ SameTry(h, c) /\ c.stack = h.stack /\ c.nfbp = h.nfbp
      /\ c.fp = h.fp /\ c.ip = h.ip /\ c.flag2 = h.flag2
      /\ c.tmp_ac2 = h.tmp_ac2 /\ c.abp2 = h.abp2 /\ c.ac2 = h.ac2
  BY <1>6 DEF Contexts, Registers, SameTry
<1> HIDE DEF c
<1>8. /\ ~c.fp /\ c.ip = 0 /\ ~c.try_flag /\ ~c.flag2 /\ c.stack = context.stack
      /\ c.nfbp = context.nfbp /\ c.ac2 = 0 /\ c.abp2 = context.abp2 + context.ac2
      /\ c.tmp_ac2 = context.ac2
  BY <1>1, <1>4, <1>6, <1>7 DEF Moved, SameTry
<1>9. /\ c.abp2 \in Nat /\ c.nfbp \in Nat /\ c.nfbp + c.tmp_ac2 <= c.abp2 /\ c.abp2 <= StackSize
      /\ c.nfbp <= StackSize /\ c.tmp_ac2 \in Nat
  BY <1>4, <1>5, <1>8, StackSizeAssumption
<1>10. Keeps(context, c) BY <1>8 DEF Keeps, Agree
<1>11. CASE CanPush(c, 3) /\ CanPush(p, Len(args)) /\ CanEnter(q(args))
  <2> DEFINE e == q(args)
  <2>1. context' = EnterToFun(e) /\ CanEnter(e) BY <1>2, <1>11
  <2>2. /\ p \in Contexts /\ p.abp2 = c.abp2 + 3 /\ p.ac2 = 0
    <3> DEFINE words == ForceWords(c)
    <3>1. words \in Seq(AnyWord) /\ Len(words) = 3 /\ p = PushLocalVars(c, words)
      BY <1>7, ForceWordsPushed DEF ForceContext, ForceWords
    <3> HIDE DEF words, p
    <3>2. p \in Contexts /\ p.abp2 = c.abp2 + Len(words) /\ p.ac2 = 0
      BY <1>7, <3>1, PushLocalVarsMoves
    <3>3. QED BY <3>1, <3>2
  <2>3. c.abp2 + 3 + Len(args) <= StackSize
    <3>1. p.abp2 + p.ac2 + Len(args) <= StackSize BY <1>11 DEF CanPush
    <3>2. Len(args) \in Nat BY <1>3
    <3> HIDE DEF p
    <3>3. QED BY <1>9, <2>2, <3>1, <3>2, StackSizeAssumption
  <2>4. /\ e \in Contexts /\ SameTry(c, e) /\ e.abp2 = c.abp2 + 3
        /\ e.nfbp = c.nfbp /\ e.fp = c.fp /\ e.ip = c.ip /\ e.index = 1
        /\ Agree(c.stack, e.stack, c.abp2)
        /\ ForceTemps(e.stack, c.nfbp, e.abp2)
    <3> DEFINE low == c.nfbp
    <3>1. low \in Nat /\ c \in Contexts /\ c.ac2 = 0 /\ low + c.tmp_ac2 <= c.abp2
      BY <1>7, <1>8, <1>9
    <3> HIDE DEF low
    <3>2. /\ e \in Contexts /\ SameTry(c, e) /\ e.abp2 = c.abp2 + 3
          /\ e.nfbp = c.nfbp /\ e.fp = c.fp /\ e.ip = c.ip /\ e.index = 1
          /\ Agree(c.stack, e.stack, c.abp2)
          /\ ForceTemps(e.stack, low, e.abp2)
      BY <1>3, <2>3, <3>1, ForcePushed
    <3>3. QED BY <3>2 DEF low
  <2> HIDE DEF e
  <2>5. ~e.fp /\ e.ip = 0 /\ ~e.try_flag /\ e.nfbp <= e.abp2
    BY <1>8, <1>9, <2>4 DEF SameTry
  <2>6. ForceTemps(e.stack, e.nfbp, e.abp2) BY <2>4
  <2>7. Leads(e, context') BY <2>1, <2>4, <2>5, <2>6, FirstEnterLeads
  <2>8. Keeps(c, e)
    <3>1. c.nfbp <= c.abp2 BY <1>9
    <3>2. Agree(c.stack, e.stack, c.nfbp) BY <1>9, <2>4, <3>1, AgreeBelow
    <3>3. QED BY <2>4, <3>2 DEF Keeps
  <2>9. Keeps(context, e) BY <1>10, <2>8, KeepsTransitive
  <2>10. QED BY <2>7, <2>9, KeepsTransitive
<1>12. CASE ~(CanPush(c, 3) /\ CanPush(p, Len(args)) /\ CanEnter(q(args)))
  <2> DEFINE e == SetErrorWithoutTry(c)
             d == [e EXCEPT !.index = 0]
  <2>1. context' = d BY <1>2, <1>8, <1>12 DEF SetError, TryInForce
  <2>2. /\ e \in Contexts /\ SameTry(c, e) /\ e.stack = c.stack /\ e.nfbp = c.nfbp
        /\ e.abp2 = c.nfbp /\ e.ac2 = 0 /\ e.sec = c.nfbp /\ ~e.fp /\ e.ip = 0
        /\ ~e.flag1 /\ ~e.flag2
    BY <1>7, FailMoves
  <2> HIDE DEF e
  <2>3. /\ d \in Contexts /\ SameTry(e, d) /\ d.stack = e.stack /\ d.nfbp = e.nfbp
        /\ d.abp2 = e.abp2 /\ d.ac2 = e.ac2 /\ d.sec = e.sec /\ d.fp = e.fp /\ d.ip = e.ip
        /\ d.flag1 = e.flag1 /\ d.flag2 = e.flag2
    BY <2>2 DEF Contexts, Registers, SameTry
  <2> HIDE DEF d
  <2>4. /\ ~d.fp /\ d.ip = 0 /\ ~d.try_flag /\ ~d.flag1 /\ ~d.flag2
        /\ d.sec = d.abp2 + d.ac2 /\ d.nfbp <= d.abp2 /\ d.abp2 + d.ac2 <= StackSize
    BY <1>8, <1>9, <2>2, <2>3 DEF SameTry
  <2>5. Level(d, <<>>) BY <2>3, <2>4, OutsideLevel
  <2>6. Keeps(context, d) BY <1>8, <2>2, <2>3 DEF Keeps, Agree
  <2>7. QED BY <2>1, <2>5, <2>6 DEF Leads
<1>13. QED BY <1>11, <1>12

(* A native function whose value has been forced has its frame as it was.  *)
LEMMA NativeForcedLeads ==
  ASSUME NEW fs, Level(context, fs), NativeForced
  PROVE  Leads(context, context')
<1> DEFINE d == RestoreForForce(context)
           e == [d EXCEPT !.flag1 = FALSE, !.flag2 = FALSE]
<1>1. ~context.fp /\ context.flag2 /\ context' = e BY DEF NativeForced, InNative
<1>2. /\ context \in Contexts /\ context.ip = 0 /\ ~context.try_flag
      /\ context.nfbp <= context.abp2 /\ context.abp2 + context.ac2 <= StackSize
      /\ ForceTemps(context.stack, context.nfbp, context.abp2)
  BY <1>1 DEF Level
<1>3. context.abp2 \in Nat /\ context.ac2 \in Nat /\ context.nfbp \in Nat
  BY <1>2, ContextTypes
<1>4. /\ d \in Contexts /\ SameTry(context, d) /\ d.stack = context.stack
      /\ d.nfbp = context.nfbp /\ d.fp = context.fp /\ d.ip = context.ip
      /\ d.sec = d.abp2 + d.ac2 /\ context.nfbp <= d.abp2 /\ d.abp2 + d.ac2 <= StackSize
  <2>1. context.abp2 <= StackSize BY <1>2, <1>3, StackSizeAssumption
  <2>2. QED BY <1>2, <1>3, <2>1, RestoredForForce
<1> HIDE DEF d
<1>5. /\ e \in Contexts /\ SameTry(d, e) /\ e.stack = d.stack /\ e.nfbp = d.nfbp
      /\ e.fp = d.fp /\ e.ip = d.ip /\ e.sec = d.sec /\ e.abp2 = d.abp2 /\ e.ac2 = d.ac2
      /\ ~e.flag1 /\ ~e.flag2
  BY <1>4 DEF Contexts, Registers, SameTry
<1> HIDE DEF e
<1>6. /\ ~e.fp /\ e.ip = 0 /\ ~e.try_flag /\ e.sec = e.abp2 + e.ac2 /\ e.nfbp <= e.abp2
      /\ e.abp2 + e.ac2 <= StackSize
  BY <1>1, <1>2, <1>4, <1>5 DEF SameTry
<1>7. Level(e, <<>>) BY <1>5, <1>6, OutsideLevel
<1>8. Keeps(context, e) BY <1>4, <1>5 DEF Keeps, Agree
<1>9. QED BY <1>1, <1>7, <1>8 DEF Leads

(* The registers kept for a native function: those of an activation that   *)
(* waits in an ncall for the value of its operation, with the seven words  *)
(* that a collection sees above its arguments.                             *)
On(c, st) == [c EXCEPT !.stack = st]

Kept(st, n, fs) ==
  /\ n \in Keepings
  /\ Ended(On(n, st), fs)
  /\ n.ip \in DOMAIN Program /\ Op(n.ip) = "ncall"
  /\ n.sec = n.abp2 + n.ac2 /\ n.sec + 7 <= StackSize
  /\ \A i \in 1 .. 6 : st[n.sec + i].type = "REF"
  /\ IsArg(n.ip) => n.ac2 = 0 /\ CountAt(st, Low(n), n.abp2)

(* Each kept activation lies below the native function it waits for.       *)
AllKept(st, ns, m) ==
  /\ ns \in Seq(Keepings)
  /\ \A i \in 1 .. Len(ns) : (\E fs : Kept(st, ns[i], fs)) /\ ns[i].sec + 7 <= m
  /\ \A i, j \in 1 .. Len(ns) : i < j => ns[j].sec + 7 <= ns[i].nfbp

(* Registers that were kept are those of a thread once they have a stack.  *)
LEMMA OnStack ==
  ASSUME NEW c \in Contexts \union Keepings, NEW st \in Stacks, NEW d, d = On(c, st)
  PROVE  /\ d \in Contexts /\ Moved(c, d) /\ SameTry(c, d) /\ d.stack = st
         /\ d.flag1 = c.flag1 /\ d.tmp_ac2 = c.tmp_ac2
         /\ d.abp2 = c.abp2 /\ d.ac2 = c.ac2 /\ d.sec = c.sec
         /\ d.abp = c.abp /\ d.ac = c.ac /\ d.lvc = c.lvc /\ d.nfbp = c.nfbp
         /\ d.fp = c.fp /\ d.ip = c.ip /\ Low(d) = Low(c)
<1>1. CASE c \in Contexts
  BY <1>1 DEF On, Contexts, Registers, Moved, SameTry, Low, Lvbp
<1>2. CASE c \in Keepings
  BY <1>2 DEF On, Contexts, Keepings, Registers, Moved, SameTry, Low, Lvbp
<1>3. QED BY <1>1, <1>2

(* The registers of a kept activation are numbers in their order.          *)
LEMMA KeptTypes ==
  ASSUME NEW s \in Stacks, NEW n, NEW fs, Kept(s, n, fs)
  PROVE  /\ n.sec \in Nat /\ n.abp2 \in Nat /\ n.ac2 \in Nat /\ n.nfbp \in Nat
         /\ Low(n) \in Nat /\ Low(n) <= n.abp2 /\ n.abp2 <= n.sec /\ n.nfbp <= n.sec
         /\ n.abp2 <= StackSize
<1> DEFINE c == On(n, s)
<1>1. n \in Keepings /\ Ended(c, fs) /\ n.sec = n.abp2 + n.ac2 BY DEF Kept
<1>2. /\ c \in Contexts /\ c.stack = s /\ c.abp2 = n.abp2 /\ c.ac2 = n.ac2 /\ c.sec = n.sec
      /\ c.nfbp = n.nfbp /\ Low(c) = Low(n)
  BY <1>1, OnStack
<1> HIDE DEF c
<1>3. Runs(c.stack, c, fs) BY <1>1 DEF Ended
<1>4. Low(c) \in Nat /\ Low(c) <= c.abp2 /\ c.nfbp <= Low(c) /\ c.abp2 <= StackSize
  BY <1>2, <1>3, RunsParts
<1>5. c.sec \in Nat /\ c.abp2 \in Nat /\ c.ac2 \in Nat /\ c.nfbp \in Nat
  BY <1>2, ContextTypes
<1>6. QED BY <1>1, <1>2, <1>4, <1>5

(* Kept registers stay right while the stack below their frame's end is    *)
(* the same.                                                               *)
LEMMA KeptStays ==
  ASSUME NEW s \in Stacks, NEW t \in Stacks, NEW m \in Nat, NEW n, NEW fs,
         Kept(s, n, fs), Agree(s, t, m), n.sec + 7 <= m
  PROVE  Kept(t, n, fs)
<1> DEFINE c == On(n, s)
           d == On(n, t)
<1>1. /\ n \in Keepings /\ Ended(c, fs) /\ n.sec = n.abp2 + n.ac2 /\ n.sec + 7 <= StackSize
      /\ \A i \in 1 .. 6 : s[n.sec + i].type = "REF"
      /\ IsArg(n.ip) => n.ac2 = 0 /\ CountAt(s, Low(n), n.abp2)
  BY DEF Kept
<1>2. /\ n.sec \in Nat /\ n.abp2 \in Nat /\ n.ac2 \in Nat /\ Low(n) \in Nat
      /\ Low(n) <= n.abp2 /\ n.abp2 <= n.sec /\ n.abp2 <= StackSize
  BY KeptTypes
<1>3. /\ c \in Contexts /\ Moved(n, c) /\ SameTry(n, c) /\ c.stack = s
      /\ c.flag1 = n.flag1 /\ c.abp2 = n.abp2 /\ c.ac2 = n.ac2 /\ Low(c) = Low(n)
  BY <1>1, OnStack
<1>4. /\ d \in Contexts /\ Moved(n, d) /\ SameTry(n, d) /\ d.stack = t
      /\ d.flag1 = n.flag1 /\ d.abp2 = n.abp2 /\ d.ac2 = n.ac2
  BY <1>1, OnStack
<1> HIDE DEF c, d
<1>5. Ended(d, fs)
  <2>1. Moved(c, d) /\ SameTry(c, d) /\ d.flag1 = c.flag1
    BY <1>3, <1>4 DEF Moved, SameTry
  <2>2. Agree(s, t, Low(n))
    <3> DEFINE low == Low(n)
    <3>1. low \in Nat /\ low <= m BY <1>2
    <3> HIDE DEF low
    <3>2. Agree(s, t, low) BY <3>1, AgreeBelow
    <3>3. QED BY <3>2 DEF low
  <2>3. Low(c) <= d.abp2 /\ d.abp2 + d.ac2 <= StackSize
    BY <1>1, <1>2, <1>3, <1>4, StackSizeAssumption
  <2>4. Agree(c.stack, d.stack, Low(c)) BY <1>3, <1>4, <2>2
  <2>5. QED BY <1>1, <1>4, <2>1, <2>3, <2>4, MovedEnded
<1>6. ASSUME NEW i \in 1 .. 6 PROVE t[n.sec + i].type = "REF"
  <2> DEFINE x == n.sec + i
  <2>1. x \in 0 .. StackSize - 1 /\ x < m BY <1>1, <1>2, StackSizeAssumption
  <2>2. s[x].type = "REF" BY <1>1
  <2> HIDE DEF x
  <2>3. t[x] = s[x] BY <2>1 DEF Agree
  <2>4. QED BY <2>2, <2>3 DEF x
<1>7. ASSUME IsArg(n.ip) PROVE n.ac2 = 0 /\ CountAt(t, Low(n), n.abp2)
  <2> DEFINE b == n.abp2
             low == Low(n)
             x == b - 1
  <2>1. n.ac2 = 0 /\ CountAt(s, low, b) BY <1>1, <1>7
  <2>2. b \in Nat /\ low \in Nat /\ b <= StackSize /\ b <= m BY <1>2
  <2> HIDE DEF b, low
  <2>3. low + 1 <= b BY <2>1 DEF CountAt
  <2>4. x \in 0 .. StackSize - 1 /\ x < m BY <2>2, <2>3, StackSizeAssumption
  <2>5. t[x] = s[x] BY <2>4 DEF Agree
  <2>6. CountAt(t, low, b) BY <2>1, <2>5 DEF CountAt
  <2>7. QED BY <2>1, <2>6 DEF b, low
<1>8. QED BY <1>1, <1>5, <1>6, <1>7 DEF Kept, d

(* So do those of all native functions.                                    *)
LEMMA AllKeptStays ==
  ASSUME NEW s \in Stacks, NEW t \in Stacks, NEW m \in Nat, NEW ns,
         AllKept(s, ns, m), Agree(s, t, m)
  PROVE  AllKept(t, ns, m)
<1>1. ASSUME NEW i \in 1 .. Len(ns) PROVE \E fs : Kept(t, ns[i], fs)
  <2>1. PICK fs : Kept(s, ns[i], fs) BY DEF AllKept
  <2>2. ns[i].sec + 7 <= m BY DEF AllKept
  <2>3. Kept(t, ns[i], fs) BY <2>1, <2>2, KeptStays
  <2>4. QED BY <2>3
<1>2. QED BY <1>1 DEF AllKept

(* Without the last they are those of the native functions below.          *)
LEMMA AllKeptTail ==
  ASSUME NEW s \in Stacks, NEW m \in Nat, NEW ns, AllKept(s, ns, m), ns # <<>>
  PROVE  /\ AllKept(s, Tail(ns), m) /\ AllKept(s, Tail(ns), Head(ns).nfbp)
         /\ \E fs : Kept(s, Head(ns), fs)
         /\ Head(ns).sec + 7 <= m
<1> DEFINE ms == Tail(ns)
<1>1. ns \in Seq(Keepings) /\ Len(ns) \in Nat /\ Len(ns) # 0 BY DEF AllKept
<1>2. /\ ms \in Seq(Keepings) /\ Len(ms) = Len(ns) - 1
      /\ \A i \in 1 .. Len(ms) : ms[i] = ns[i + 1]
      /\ Head(ns) = ns[1] /\ 1 \in 1 .. Len(ns)
  BY <1>1
<1> HIDE DEF ms
<1>3. ASSUME NEW i \in 1 .. Len(ms)
      PROVE  /\ (\E fs : Kept(s, ms[i], fs)) /\ ms[i].sec + 7 <= m
             /\ ms[i].sec + 7 <= ns[1].nfbp
  <2>1. i + 1 \in 1 .. Len(ns) /\ 1 < i + 1 /\ ms[i] = ns[i + 1] BY <1>1, <1>2
  <2>2. QED BY <1>2, <2>1 DEF AllKept
<1>4. ASSUME NEW i \in 1 .. Len(ms), NEW j \in 1 .. Len(ms), i < j
      PROVE  ms[j].sec + 7 <= ms[i].nfbp
  <2>1. /\ i + 1 \in 1 .. Len(ns) /\ j + 1 \in 1 .. Len(ns) /\ i + 1 < j + 1
        /\ ms[i] = ns[i + 1] /\ ms[j] = ns[j + 1]
    BY <1>1, <1>2, <1>4
  <2>2. QED BY <2>1 DEF AllKept
<1>5. (\E fs : Kept(s, ns[1], fs)) /\ ns[1].sec + 7 <= m BY <1>2 DEF AllKept
<1>6. AllKept(s, ms, m) BY <1>2, <1>3, <1>4 DEF AllKept
<1>7. AllKept(s, ms, ns[1].nfbp) BY <1>2, <1>3, <1>4 DEF AllKept
<1>8. QED BY <1>2, <1>5, <1>6, <1>7 DEF ms

(* One more may be kept above.                                             *)
LEMMA AllKeptMore ==
  ASSUME NEW s \in Stacks, NEW m \in Nat, NEW ns, NEW n, NEW fs, AllKept(s, ns, n.nfbp),
         Kept(s, n, fs), n.sec + 7 <= m
  PROVE  AllKept(s, <<n>> \o ns, m)
<1> DEFINE ms == <<n>> \o ns
<1>1. ns \in Seq(Keepings) /\ Len(ns) \in Nat BY DEF AllKept
<1>2. n \in Keepings BY DEF Kept
<1>3. /\ ms \in Seq(Keepings) /\ Len(ms) = Len(ns) + 1 /\ ms[1] = n
      /\ \A i \in 2 .. Len(ms) : ms[i] = ns[i - 1]
  BY <1>1, <1>2
<1> HIDE DEF ms
<1>4. n.sec \in Nat /\ n.nfbp \in Nat /\ n.nfbp <= n.sec BY KeptTypes
<1>5. ASSUME NEW i \in 2 .. Len(ms)
      PROVE  /\ i - 1 \in 1 .. Len(ns) /\ ms[i] = ns[i - 1]
             /\ (\E gs : Kept(s, ms[i], gs)) /\ ms[i].sec + 7 <= n.nfbp /\ ms[i].sec \in Nat
  <2>1. i - 1 \in 1 .. Len(ns) /\ ms[i] = ns[i - 1] BY <1>1, <1>3
  <2>2. (\E gs : Kept(s, ms[i], gs)) /\ ms[i].sec + 7 <= n.nfbp BY <2>1 DEF AllKept
  <2>3. ms[i].sec \in Nat BY <2>2, KeptTypes
  <2>4. QED BY <2>1, <2>2, <2>3
<1>6. ASSUME NEW i \in 1 .. Len(ms)
      PROVE  (\E gs : Kept(s, ms[i], gs)) /\ ms[i].sec + 7 <= m
  <2>1. CASE i = 1 BY <1>3, <2>1
  <2>2. CASE i # 1
    <3>1. i \in 2 .. Len(ms) BY <1>1, <1>3, <2>2
    <3>2. QED BY <1>4, <1>5, <3>1
  <2>3. QED BY <2>1, <2>2
<1>7. ASSUME NEW i \in 1 .. Len(ms), NEW j \in 1 .. Len(ms), i < j
      PROVE  ms[j].sec + 7 <= ms[i].nfbp
  <2>1. j \in 2 .. Len(ms) BY <1>1, <1>3, <1>7
  <2>2. CASE i = 1 BY <1>3, <1>5, <2>1, <2>2
  <2>3. CASE i # 1
    <3>1. i \in 2 .. Len(ms) BY <1>1, <1>3, <2>3
    <3>2. /\ i - 1 \in 1 .. Len(ns) /\ j - 1 \in 1 .. Len(ns) /\ i - 1 < j - 1
          /\ ms[i] = ns[i - 1] /\ ms[j] = ns[j - 1]
      BY <1>5, <1>7, <2>1, <3>1
    <3>3. QED BY <3>2 DEF AllKept
  <2>4. QED BY <2>2, <2>3
<1>8. QED BY <1>3, <1>6, <1>7 DEF AllKept, ms

(* What an action shows of the thread and of the registers kept for native *)
(* functions, while no error is lost.                                      *)
Sound(c, ns) == (\E fs : Level(c, fs)) /\ AllKept(c.stack, ns, c.nfbp)

(* What a native function has called keeps the registers of it and of      *)
(* those below.                                                            *)
LEMMA LeadsSound ==
  ASSUME NEW c \in Contexts, NEW d, NEW ns, AllKept(c.stack, ns, c.nfbp), Leads(c, d)
  PROVE  Sound(d, ns)
<1>1. PICK gs : Level(d, gs) BY DEF Leads
<1>2. d \in Contexts BY <1>1 DEF Level
<1>3. c.stack \in Stacks /\ c.nfbp \in Nat /\ d.stack \in Stacks BY <1>2, ContextTypes
<1>4. d.nfbp = c.nfbp /\ Agree(c.stack, d.stack, c.nfbp) BY DEF Leads, Keeps
<1>5. AllKept(d.stack, ns, c.nfbp) BY <1>3, <1>4, AllKeptStays
<1>6. QED BY <1>1, <1>4, <1>5 DEF Sound

(* What saving the registers for a native function does to them.           *)
LEMMA SaveMoves ==
  ASSUME NEW c \in Contexts, NEW d, d = SaveRegsAndSetRegs(c)
  PROVE  /\ d \in Contexts /\ d.stack = Store(c.stack, c.abp2 + c.ac2, SavedWords(c))
         /\ d.nfbp = c.abp2 + c.ac2 + 7 /\ d.abp2 = d.nfbp /\ d.ac2 = 0 /\ d.sec = d.nfbp
         /\ ~d.fp /\ d.ip = 0 /\ ~d.flag1 /\ ~d.flag2 /\ ~d.try_flag
<1> DEFINE p == c.abp2 + c.ac2
           nf == p + 7
           t == Store(c.stack, p, SavedWords(c))
<1>1. /\ p \in Nat /\ nf \in Nat /\ c.stack \in Stacks BY ContextTypes
<1>2. SavedWords(c) \in Seq(AnyWord)
  <2>1. c.try_arg2 \in AnyWord BY ContextTypes
  <2>2. RefWord \in AnyWord BY DEF RefWord, Word, AnyWord
  <2>3. QED BY <2>1, <2>2 DEF SavedWords
<1>3. t \in Stacks
  <2> DEFINE s == c.stack
             w == SavedWords(c)
  <2>1. s \in Stacks /\ p \in Nat /\ w \in Seq(AnyWord) BY <1>1, <1>2
  <2> HIDE DEF s, w, p
  <2>2. Store(s, p, w) \in Stacks BY <2>1, Stored
  <2>3. QED BY <2>2 DEF s, w
<1>4. d = [c EXCEPT !.stack = t, !.nfbp = nf, !.abp = nf, !.abp2 = nf, !.sec = nf,
                    !.ac = 0, !.lvc = 0, !.ac2 = 0, !.fp = FALSE, !.ip = 0,
                    !.flag1 = FALSE, !.flag2 = FALSE, !.index = 0, !.try_flag = FALSE,
                    !.try_catch_flag = FALSE, !.try_arg2 = ErrorWord, !.try_abp = nf,
                    !.try_ac = 0, !.error = FALSE]
  BY DEF SaveRegsAndSetRegs
<1>5. ErrorWord \in AnyWord BY DEF ErrorWord, Word, AnyWord
<1> HIDE DEF t, nf
<1> DEFINE e == [c EXCEPT !.stack = t, !.nfbp = nf, !.abp = nf, !.abp2 = nf, !.sec = nf]
           f == [e EXCEPT !.ac = 0, !.lvc = 0, !.ac2 = 0, !.ip = 0, !.index = 0]
           g == [f EXCEPT !.try_arg2 = ErrorWord, !.try_abp = nf, !.try_ac = 0]
           h == [g EXCEPT !.fp = FALSE, !.flag1 = FALSE, !.flag2 = FALSE]
           i == [h EXCEPT !.try_flag = FALSE, !.try_catch_flag = FALSE, !.error = FALSE]
<1>6. d = i BY <1>4, ZenonT(30) DEF Contexts, Registers
<1>7. /\ e \in Contexts /\ e.stack = t /\ e.nfbp = nf /\ e.abp2 = nf /\ e.sec = nf
  BY <1>1, <1>3 DEF Contexts, Registers
<1> HIDE DEF e
<1>8. /\ f \in Contexts /\ f.stack = t /\ f.nfbp = nf /\ f.abp2 = nf /\ f.sec = nf
      /\ f.ac2 = 0 /\ f.ip = 0
  BY <1>7 DEF Contexts, Registers
<1> HIDE DEF f
<1>9. /\ g \in Contexts /\ g.stack = t /\ g.nfbp = nf /\ g.abp2 = nf /\ g.sec = nf
      /\ g.ac2 = 0 /\ g.ip = 0
  BY <1>1, <1>5, <1>8 DEF Contexts, Registers
<1> HIDE DEF g
<1>10. /\ h \in Contexts /\ h.stack = t /\ h.nfbp = nf /\ h.abp2 = nf /\ h.sec = nf
       /\ h.ac2 = 0 /\ h.ip = 0 /\ ~h.fp /\ ~h.flag1 /\ ~h.flag2
  BY <1>9 DEF Contexts, Registers
<1> HIDE DEF h
<1>11. /\ i \in Contexts /\ i.stack = t /\ i.nfbp = nf /\ i.abp2 = nf /\ i.sec = nf
       /\ i.ac2 = 0 /\ i.ip = 0 /\ ~i.fp /\ ~i.flag1 /\ ~i.flag2 /\ ~i.try_flag
  BY <1>10 DEF Contexts, Registers
<1> HIDE DEF i
<1>12. QED BY <1>6, <1>11 DEF t, nf, p

(* An activation gives the stack to a native function.                     *)
LEMMA Saved ==
  ASSUME NEW c, NEW fs, NEW ns, Ended(c, fs), c.ip \in DOMAIN Program, Op(c.ip) = "ncall",
         c.sec = c.abp2 + c.ac2, IsArg(c.ip) => c.ac2 = 0 /\ CountAt(c.stack, Low(c), c.abp2),
         CanSaveRegs(c), AllKept(c.stack, ns, c.nfbp)
  PROVE  Sound(SaveRegsAndSetRegs(c), <<[c EXCEPT !.stack = <<>>]>> \o ns)
<1> DEFINE d == SaveRegsAndSetRegs(c)
           n == [c EXCEPT !.stack = <<>>]
           o == On(n, c.stack)
           s == c.stack
           w == SavedWords(c)
           t == Store(s, c.sec, w)
<1>1. c \in Contexts /\ Runs(c.stack, c, fs) BY DEF Ended
<1>2. /\ s \in Stacks /\ c.abp2 \in Nat /\ c.ac2 \in Nat /\ c.sec \in Nat /\ c.nfbp \in Nat
      /\ c.nfbp <= c.abp2 /\ c.nfbp <= c.sec /\ c.sec + 7 <= StackSize
  <2>1. c.nfbp \in Nat /\ c.abp2 \in Nat /\ c.ac2 \in Nat /\ c.sec \in Nat /\ s \in Stacks
    BY <1>1, ContextTypes
  <2>2. Low(c) \in Nat /\ c.nfbp <= Low(c) /\ Low(c) <= c.abp2 BY <1>1, RunsParts
  <2>3. QED BY <2>1, <2>2 DEF CanSaveRegs, CanPush
<1>3. /\ d \in Contexts /\ d.stack = t
      /\ d.nfbp = c.sec + 7 /\ d.abp2 = d.nfbp /\ d.ac2 = 0 /\ d.sec = d.nfbp
      /\ ~d.fp /\ d.ip = 0 /\ ~d.flag1 /\ ~d.flag2 /\ ~d.try_flag
  BY <1>1, SaveMoves
<1> HIDE DEF d
<1>4. Level(d, <<>>)
  <2>1. d.sec = d.abp2 + d.ac2 /\ d.nfbp <= d.abp2 /\ d.abp2 + d.ac2 <= StackSize
    BY <1>2, <1>3, StackSizeAssumption
  <2>2. QED BY <1>3, <2>1, OutsideLevel
<1>5. /\ n \in Keepings /\ n.sec = c.sec /\ n.abp2 = c.abp2 /\ n.ac2 = c.ac2 /\ n.ip = c.ip
      /\ n.nfbp = c.nfbp /\ n.lvc = c.lvc /\ n.abp = c.abp /\ n.ac = c.ac
  BY <1>1 DEF Keepings, Contexts, Registers
<1>6. o = c BY <1>1 DEF On, Contexts, Registers
<1> HIDE DEF n
<1>7. Low(n) = Low(c) BY <1>5 DEF Low, Lvbp
<1>8. /\ w \in Seq(AnyWord) /\ Len(w) = 7 /\ \A i \in 1 .. 6 : w[i + 1].type = "REF"
  <2> DEFINE a == c.try_arg2
  <2>1. a \in AnyWord BY <1>1, ContextTypes
  <2>2. RefWord \in AnyWord /\ RefWord.type = "REF" BY DEF RefWord, Word, AnyWord
  <2>3. w = <<a, RefWord, RefWord, RefWord, RefWord, RefWord, RefWord>> BY DEF SavedWords
  <2> HIDE DEF w, a
  <2>4. w \in Seq(AnyWord) /\ Len(w) = 7 BY <2>1, <2>2, <2>3
  <2>5. /\ w[2] = RefWord /\ w[3] = RefWord /\ w[4] = RefWord /\ w[5] = RefWord
        /\ w[6] = RefWord /\ w[7] = RefWord
    BY <2>3
  <2>6. QED BY <2>2, <2>4, <2>5
<1> HIDE DEF w
<1>9. /\ t \in Stacks /\ Agree(s, t, c.sec)
      /\ \A i \in 1 .. Len(w) : c.sec + i <= StackSize => t[c.sec + i - 1] = w[i]
  <2> DEFINE p == c.sec
  <2>1. p \in Nat BY <1>2
  <2> HIDE DEF p, s
  <2>2. /\ Store(s, p, w) \in Stacks /\ Agree(s, Store(s, p, w), p)
        /\ \A i \in 1 .. Len(w) : p + i <= StackSize => Store(s, p, w)[p + i - 1] = w[i]
    BY <1>2, <1>8, <2>1, Stored
  <2>3. QED BY <2>2 DEF p
<1> HIDE DEF t
<1>10. ASSUME NEW i \in 1 .. 6 PROVE t[n.sec + i].type = "REF"
  <2>1. i + 1 \in 1 .. Len(w) /\ c.sec + (i + 1) <= StackSize /\ c.sec + (i + 1) - 1 = c.sec + i
    BY <1>2, <1>8, StackSizeAssumption
  <2>2. t[c.sec + i] = w[i + 1] BY <1>9, <2>1
  <2>3. QED BY <1>5, <1>8, <2>2
<1>11. Kept(t, n, fs)
  <2> DEFINE e == On(n, t)
             low == Low(c)
             b == c.abp2
  <2>1. /\ e \in Contexts /\ Moved(c, e) /\ SameTry(c, e) /\ e.stack = t
        /\ e.flag1 = c.flag1 /\ e.abp2 = c.abp2 /\ e.ac2 = c.ac2 /\ e.sec = c.sec
    <3>1. e = On(c, t) BY DEF On, n
    <3> HIDE DEF e
    <3>2. QED BY <1>1, <1>9, <3>1, OnStack
  <2> HIDE DEF e
  <2>2. /\ low \in Nat /\ b \in Nat /\ low <= b /\ b <= c.sec /\ c.sec <= StackSize
    BY <1>1, <1>2, RunsParts, StackSizeAssumption
  <2>3. Agree(s, t, low)
    <3> DEFINE p == c.sec
    <3>1. low \in Nat /\ p \in Nat /\ low <= p /\ Agree(s, t, p) BY <1>2, <1>9, <2>2
    <3> HIDE DEF low, p, s
    <3>2. QED BY <3>1, AgreeBelow
  <2>4. Ended(e, fs)
    <3>1. Agree(c.stack, e.stack, Low(c)) BY <2>1, <2>3
    <3>2. Low(c) <= e.abp2 /\ e.abp2 + e.ac2 <= StackSize
      BY <1>2, <2>1, <2>2
    <3>3. QED BY <2>1, <3>1, <3>2, MovedEnded
  <2>5. ASSUME IsArg(n.ip) PROVE n.ac2 = 0 /\ CountAt(t, Low(n), n.abp2)
    <3> DEFINE x == b - 1
    <3>1. c.ac2 = 0 /\ CountAt(s, low, b) BY <1>5, <2>5
    <3>2. low + 1 <= b BY <3>1 DEF CountAt
    <3>3. x \in 0 .. StackSize - 1 /\ x < c.sec BY <1>2, <2>2, <3>2, StackSizeAssumption
    <3> HIDE DEF x, low, b, s
    <3>4. t[x] = s[x] BY <1>9, <3>3 DEF Agree
    <3>5. CountAt(t, low, b) BY <3>1, <3>4 DEF CountAt, x
    <3>6. QED BY <1>5, <1>7, <3>1, <3>5 DEF low, b
  <2>6. QED BY <1>2, <1>5, <1>10, <2>4, <2>5 DEF Kept, e
<1>12. AllKept(t, ns, n.nfbp)
  <2> DEFINE m == c.nfbp
             p == c.sec
  <2>1. m \in Nat /\ p \in Nat /\ m <= p /\ Agree(s, t, p) /\ AllKept(s, ns, m) BY <1>2, <1>9
  <2> HIDE DEF m, p, s
  <2>2. Agree(s, t, m) BY <2>1, AgreeBelow
  <2>3. AllKept(t, ns, m) BY <1>2, <1>9, <2>1, <2>2, AllKeptStays
  <2>4. QED BY <1>5, <2>3 DEF m
<1>13. AllKept(t, <<n>> \o ns, d.nfbp)
  <2> DEFINE m == d.nfbp
  <2>1. m \in Nat /\ n.sec + 7 <= m BY <1>2, <1>3, <1>5
  <2> HIDE DEF m
  <2>2. AllKept(t, <<n>> \o ns, m) BY <1>9, <1>11, <1>12, <2>1, AllKeptMore
  <2>3. QED BY <2>2 DEF m
<1>14. Sound(d, <<n>> \o ns) BY <1>3, <1>4, <1>13 DEF Sound
<1>15. QED BY <1>14 DEF d, n

(* An ncall keeps the registers of its activation and begins a frame.      *)
LEMMA NativeSound ==
  ASSUME NEW fs, Level(context, fs), AllKept(context.stack, natives, context.nfbp), Native
  PROVE  lost' \/ Sound(context', natives')
<1>1. context.fp /\ ~Resumed.flag1 /\ context \in Contexts BY DEF Native, Running, Level
<1>2. PICK k \in Begun :
        /\ Op(k) = "ncall"
        /\ IF IsArg(k) /\ ~CanPush(Begin(k), 1)
             THEN RaiseIn(Begin(k), k) /\ UNCHANGED natives
           ELSE IF ~CanSaveRegs(CallContext(k))
             THEN RaiseIn(CallContext(k), k) /\ UNCHANGED natives
           ELSE /\ context' = SaveRegsAndSetRegs(CallContext(k))
                /\ natives' = <<[CallContext(k) EXCEPT !.stack = <<>>]>> \o natives
                /\ UNCHANGED lost
  BY DEF Native
<1> DEFINE c == Begin(k)
           d == Counted(c, k)
<1>3. Ready(c, fs, k) /\ Keeps(context, c) /\ k \in DOMAIN Program /\ ~c.flag1
  BY <1>1, BeginReady
<1>4. CallContext(k) = d BY DEF CallContext, Counted
<1>5. CASE IsArg(k) /\ ~CanPush(c, 1)
  <2>1. RaiseIn(c, k) /\ UNCHANGED natives BY <1>2, <1>5
  <2> HIDE DEF c
  <2>2. lost' \/ Leads(c, context') BY <1>3, <2>1, ReadyRaisable, RaiseInLeads
  <2>3. lost' \/ Leads(context, context') BY <1>3, <2>2, KeepsTransitive
  <2>4. QED BY <1>1, <2>1, <2>3, LeadsSound
<1>6. CASE ~(IsArg(k) /\ ~CanPush(c, 1))
  <2>1. IF ~CanSaveRegs(d) THEN RaiseIn(d, k) /\ UNCHANGED natives
        ELSE /\ context' = SaveRegsAndSetRegs(d)
             /\ natives' = <<[d EXCEPT !.stack = <<>>]>> \o natives
    BY <1>2, <1>4, <1>6
  <2> HIDE DEF c
  <2>2. d = Counted(c, k) OBVIOUS
  <2> HIDE DEF d
  <2>3. /\ Ended(d, fs) /\ Keeps(c, d) /\ d.ip = k /\ d.sec = d.abp2 + d.ac2
        /\ IsArg(k) => d.ac2 = 0 /\ CountAt(d.stack, Low(d), d.abp2)
    BY <1>3, <1>6, <2>2, CallReady
  <2>4. Keeps(context, d) BY <1>3, <2>3, KeepsTransitive
  <2>5. CASE ~CanSaveRegs(d)
    <3>1. RaiseIn(d, k) /\ UNCHANGED natives BY <2>1, <2>5
    <3>2. lost' \/ Leads(d, context') BY <2>3, <3>1, EndedRaisable, RaiseInLeads
    <3>3. lost' \/ Leads(context, context') BY <2>4, <3>2, KeepsTransitive
    <3>4. QED BY <1>1, <3>1, <3>3, LeadsSound
  <2>6. CASE CanSaveRegs(d)
    <3>1. /\ context' = SaveRegsAndSetRegs(d)
          /\ natives' = <<[d EXCEPT !.stack = <<>>]>> \o natives
      BY <2>1, <2>6
    <3>2. AllKept(d.stack, natives, d.nfbp)
      <4>1. d \in Contexts BY <2>3 DEF Ended
      <4>2. context.stack \in Stacks /\ context.nfbp \in Nat /\ d.stack \in Stacks
        BY <1>1, <4>1, ContextTypes
      <4>3. d.nfbp = context.nfbp /\ Agree(context.stack, d.stack, context.nfbp)
        BY <2>4 DEF Keeps
      <4>4. AllKept(d.stack, natives, context.nfbp) BY <4>2, <4>3, AllKeptStays
      <4>5. QED BY <4>3, <4>4
    <3>3. d.ip \in DOMAIN Program /\ Op(d.ip) = "ncall" BY <1>2, <1>3, <2>3
    <3>4. Sound(SaveRegsAndSetRegs(d), <<[d EXCEPT !.stack = <<>>]>> \o natives)
      BY <2>3, <2>6, <3>2, <3>3, Saved
    <3>5. QED BY <3>1, <3>4
  <2>7. QED BY <2>5, <2>6
<1>7. QED BY <1>5, <1>6

(* The registers are those of the activation again, where it had got to.   *)
LEMMA RestoredEnded ==
  ASSUME NEW c \in Contexts, NEW n, NEW fs, NEW d, Kept(c.stack, n, fs), d = RestoreRegs(c, n)
  PROVE  /\ Ended(d, fs) /\ d.stack = c.stack /\ d.nfbp = n.nfbp /\ d.ip = n.ip
         /\ d.sec = d.abp2 + d.ac2
         /\ IsArg(n.ip) => d.ac2 = 0 /\ CountAt(d.stack, Low(d), d.abp2)
<1> DEFINE s == c.stack
           o == On(n, s)
           a == s[n.sec]
           x == [o EXCEPT !.tmp_ac2 = c.tmp_ac2, !.sec = n.sec, !.try_arg2 = a]
           y == [x EXCEPT !.error = c.error]
<1>1. /\ n \in Keepings /\ Ended(o, fs) /\ n.sec = n.abp2 + n.ac2 /\ n.sec + 7 <= StackSize
      /\ \A i \in 1 .. 6 : s[n.sec + i].type = "REF"
      /\ IsArg(n.ip) => n.ac2 = 0 /\ CountAt(s, Low(n), n.abp2)
  BY DEF Kept
<1>2. s \in Stacks /\ c.tmp_ac2 \in Nat /\ c.error \in BOOLEAN BY ContextTypes
<1>3. n.sec \in Nat BY <1>2, KeptTypes
<1>4. a \in AnyWord
  <2>1. n.sec < StackSize BY <1>1, <1>3, StackSizeAssumption
  <2>2. QED BY <1>2, <1>3, <2>1, WordsOfStacks
<1>5. d = y BY <1>1 DEF RestoreRegs, On, Keepings, Registers
<1>6. /\ o \in Contexts /\ SameTry(n, o) /\ o.stack = s
      /\ o.abp2 = n.abp2 /\ o.ac2 = n.ac2 /\ o.sec = n.sec /\ Low(o) = Low(n)
      /\ o.nfbp = n.nfbp /\ o.ip = n.ip
  BY <1>1, <1>2, OnStack
<1> HIDE DEF o, a
<1>7. /\ x \in Contexts /\ x.stack = s /\ x.sec = n.sec
      /\ x.abp = o.abp /\ x.ac = o.ac /\ x.lvc = o.lvc /\ x.nfbp = o.nfbp /\ x.fp = o.fp
      /\ x.ip = o.ip /\ x.flag1 = o.flag1 /\ x.flag2 = o.flag2 /\ x.index = o.index
      /\ x.abp2 = o.abp2 /\ x.ac2 = o.ac2
      /\ x.try_flag = o.try_flag /\ x.try_catch_flag = o.try_catch_flag
      /\ x.try_abp = o.try_abp /\ x.try_ac = o.try_ac
  BY <1>2, <1>3, <1>4, <1>6 DEF Contexts, Registers
<1> HIDE DEF x
<1>8. /\ y \in Contexts /\ y.stack = s /\ y.sec = n.sec
      /\ y.abp = o.abp /\ y.ac = o.ac /\ y.lvc = o.lvc /\ y.nfbp = o.nfbp /\ y.fp = o.fp
      /\ y.ip = o.ip /\ y.flag1 = o.flag1 /\ y.flag2 = o.flag2 /\ y.index = o.index
      /\ y.abp2 = o.abp2 /\ y.ac2 = o.ac2
      /\ y.try_flag = o.try_flag /\ y.try_catch_flag = o.try_catch_flag
      /\ y.try_abp = o.try_abp /\ y.try_ac = o.try_ac
  BY <1>2, <1>7 DEF Contexts, Registers
<1> HIDE DEF y
<1>9. Low(y) = Low(o) BY <1>8 DEF Low, Lvbp
<1>10. TryOf(y) = TryOf(o) BY <1>8 DEF TryOf
<1>11. Runs(y.stack, y, fs)
  <2>1. Runs(o.stack, o, fs) BY <1>1 DEF Ended
  <2>2. QED BY <1>6, <1>8, <1>9, <2>1 DEF Runs
<1>12. Ended(y, fs) BY <1>1, <1>8, <1>10, <1>11 DEF Ended
<1>13. QED BY <1>1, <1>5, <1>6, <1>8, <1>9, <1>12

(* The registers of a native function that ends are given up, and those of *)
(* its caller are back.                                                    *)
LEMMA RestoredSound ==
  ASSUME NEW d, AllKept(context.stack, natives, context.nfbp), natives # <<>>,
         context \in Contexts, Leads(Restored, d)
  PROVE  Sound(d, Tail(natives))
<1> DEFINE n == Head(natives)
           r == Restored
<1>1. context.stack \in Stacks /\ context.nfbp \in Nat BY ContextTypes
<1>2. AllKept(context.stack, Tail(natives), n.nfbp) /\ \E fs : Kept(context.stack, n, fs)
  BY <1>1, AllKeptTail
<1>3. PICK fs : Kept(context.stack, n, fs) BY <1>2
<1>4. r = RestoreRegs(context, n) BY DEF Restored
<1> HIDE DEF n, r
<1>5. Ended(r, fs) /\ r.stack = context.stack /\ r.nfbp = n.nfbp
  BY <1>3, <1>4, RestoredEnded
<1>6. r \in Contexts BY <1>5 DEF Ended
<1>7. AllKept(r.stack, Tail(natives), r.nfbp) BY <1>2, <1>5
<1>8. Leads(r, d) BY DEF r
<1>9. QED BY <1>6, <1>7, <1>8, LeadsSound

(* A native function that returns gives the registers back, and its        *)
(* instruction its value.                                                  *)
LEMMA NativeReturnsSound ==
  ASSUME NEW gs, Level(context, gs), AllKept(context.stack, natives, context.nfbp),
         NativeReturns
  PROVE  lost' \/ Sound(context', Tail(natives))
<1> DEFINE n == Head(natives)
           k == n.ip
           r == Restored
           d == PopTmpAc2(r)
<1>1. natives # <<>> BY DEF NativeReturns, InNative
<1>2. IF ~IsArg(k) THEN End(r, k)
      ELSE IF CanPopTmpAc2(r) THEN End(d, k) ELSE RaiseIn(r, k)
  BY DEF NativeReturns
<1>3. context \in Contexts /\ context.stack \in Stacks /\ context.nfbp \in Nat
  BY ContextTypes DEF Level
<1>4. PICK fs : Kept(context.stack, n, fs) BY <1>1, <1>3, AllKeptTail
<1>5. k \in DOMAIN Program /\ Op(k) # "none" BY <1>4 DEF Kept
<1>6. /\ Ended(r, fs) /\ r.sec = r.abp2 + r.ac2
      /\ IsArg(k) => r.ac2 = 0 /\ CountAt(r.stack, Low(r), r.abp2)
  <2>1. r = RestoreRegs(context, n) BY DEF Restored
  <2> HIDE DEF r, n
  <2>2. QED BY <1>3, <1>4, <2>1, RestoredEnded
<1> SUFFICES lost' \/ Leads(r, context') BY <1>1, <1>3, RestoredSound
<1> HIDE DEF n, k, r
<1>7. CASE ~IsArg(k) BY <1>2, <1>5, <1>6, <1>7, EndLeads
<1>8. CASE IsArg(k)
  <2>1. r.abp2 <= r.sec
    <3>1. r \in Contexts BY <1>6 DEF Ended
    <3>2. r.abp2 \in Nat /\ r.ac2 \in Nat BY <3>1, ContextTypes
    <3>3. QED BY <1>6, <3>2
  <2>2. d = PopTmpAc2(r) OBVIOUS
  <2> HIDE DEF d
  <2>3. /\ CanPopTmpAc2(r) /\ Ended(d, fs) /\ Keeps(r, d) /\ Low(d) + d.tmp_ac2 <= d.abp2
    BY <1>6, <1>8, <2>1, <2>2, CountPopped
  <2>4. End(d, k) BY <1>2, <1>8, <2>3
  <2>5. lost' \/ Leads(d, context') BY <1>5, <2>3, <2>4, EndLeads
  <2>6. QED BY <2>3, <2>5, KeepsTransitive
<1>9. QED BY <1>7, <1>8

(* One that fails gives them back to an instruction that raises an error.  *)
LEMMA NativeFailsSound ==
  ASSUME NEW gs, Level(context, gs), AllKept(context.stack, natives, context.nfbp),
         NativeFails
  PROVE  lost' \/ Sound(context', Tail(natives))
<1> DEFINE n == Head(natives)
           k == n.ip
           r == Restored
<1>1. natives # <<>> /\ RaiseIn(r, k) BY DEF NativeFails, InNative, RaiseIn
<1>2. context \in Contexts /\ context.stack \in Stacks /\ context.nfbp \in Nat
  BY ContextTypes DEF Level
<1>3. PICK fs : Kept(context.stack, n, fs) BY <1>1, <1>2, AllKeptTail
<1>4. Ended(r, fs)
  <2>1. r = RestoreRegs(context, n) BY DEF Restored
  <2> HIDE DEF r, n
  <2>2. QED BY <1>2, <1>3, <2>1, RestoredEnded
<1>5. lost' \/ Leads(r, context') BY <1>1, <1>4, EndedRaisable, RaiseInLeads
<1>6. QED BY <1>1, <1>2, <1>5, RestoredSound

(* One that throws a C++ exception leaves its own registers, in which no   *)
(* function runs.                                                          *)
LEMMA NativeThrowsSound ==
  ASSUME NEW gs, Level(context, gs), AllKept(context.stack, natives, context.nfbp),
         NativeThrows
  PROVE  Sound(context', Tail(natives))
<1> DEFINE d == SetErrorWithoutTry(context)
<1>1. ~context.fp /\ natives # <<>> /\ context' = Raise(context, Head(natives).ip)
  BY DEF NativeThrows, InNative
<1>2. /\ context \in Contexts /\ ~context.try_flag
      /\ context.nfbp <= context.abp2 /\ context.abp2 + context.ac2 <= StackSize
  BY <1>1 DEF Level
<1>3. /\ context.stack \in Stacks /\ context.nfbp \in Nat /\ context.abp2 \in Nat
      /\ context.ac2 \in Nat
  BY <1>2, ContextTypes
<1>4. Leads(context, d) /\ ~d.fp
  <2>1. context.nfbp <= StackSize BY <1>2, <1>3, StackSizeAssumption
  <2>2. QED BY <1>2, <2>1, FailLeads
<1>5. SetError(context) = d BY <1>2 DEF SetError, TryInForce
<1> HIDE DEF d
<1>6. context' \in {d, PopArgs(d)} BY <1>1, <1>5 DEF Raise
<1>7. Leads(context, context') BY <1>4, <1>6, PopLeads
<1>8. AllKept(context.stack, Tail(natives), context.nfbp) BY <1>1, <1>3, AllKeptTail
<1>9. QED BY <1>2, <1>7, <1>8, LeadsSound

(* The inductive invariant: until an error is lost, the words of the stack *)
(* are a chain of activations, each waiting in the instruction that        *)
(* entered the next, and those kept for native functions are chains below. *)
IInv == lost \in BOOLEAN /\ (~lost => Sound(context, natives))

(* An error that is lost stays lost.                                       *)
Remembered == lost \in BOOLEAN => lost' \in BOOLEAN /\ (lost => lost')

(* An error that is lost stays lost: raising one,                          *)
LEMMA RaiseRemembers ==
  ASSUME NEW c, NEW k, RaiseIn(c, k)
  PROVE  Remembered
BY Zenon DEF RaiseIn, Remembered

(* raising one outside of instructions,                                    *)
LEMMA FailRemembers ==
  ASSUME NEW c, Fail(c)
  PROVE  Remembered
BY Zenon DEF Fail, Remembered

(* a step that is about none,                                              *)
LEMMA KeptLost ==
  ASSUME UNCHANGED lost
  PROVE  Remembered
BY DEF Remembered

(* entering a function,                                                    *)
LEMMA EnterRemembers ==
  ASSUME NEW c, NEW k, Enter(c, k)
  PROVE  Remembered
BY RaiseRemembers, KeptLost DEF Enter

(* ending an instruction,                                                  *)
LEMMA EndRemembers ==
  ASSUME NEW c, NEW k, End(c, k)
  PROVE  Remembered
<1>1. ASSUME NEW v, EndLet(c, v) PROVE Remembered
  BY <1>1, FailRemembers, KeptLost DEF EndLet, Done
<1>2. ASSUME NEW v, EndArg(c, v) PROVE Remembered
  BY <1>2, FailRemembers, KeptLost DEF EndArg, Done
<1>3. ASSUME EndRet(c) PROVE Remembered
  BY <1>3, KeptLost DEF EndRet
<1>4. ASSUME NEW t, EndLetTuple(c, t) PROVE Remembered
  <2> DEFINE d == PopArgs(c)
             room == StackSize - d.abp2
             e == SetError(PushLocalVars(d, SubSeq(t, 1, room)))
             x == MissesTry(d) \/ (e.fp /\ Len(t) > room + 1)
  <2>1. Fail(d) \/ UNCHANGED lost \/ lost' = (lost \/ x)
    BY <1>4 DEF EndLetTuple, Done
  <2> HIDE DEF d, x
  <2>2. ASSUME lost' = (lost \/ x) PROVE Remembered BY <2>2, Zenon DEF Remembered
  <2>3. QED BY <2>1, <2>2, FailRemembers, KeptLost
<1>5. QED BY <1>1, <1>2, <1>3, <1>4 DEF End

(* any instruction,                                                        *)
LEMMA InstructionRemembers ==
  ASSUME Instruction
  PROVE  Remembered
<1>1. CASE OpFails BY <1>1, RaiseRemembers DEF OpFails
<1>2. CASE Compute
  <2>1. PICK k \in Begun : Op(k) = "value" /\ End(Begin(k), k) BY <1>2 DEF Compute
  <2>2. QED BY <2>1, EndRemembers
<1>3. CASE In BY <1>3, KeptLost DEF In, Done
<1>4. CASE Retry BY <1>4, KeptLost, FailRemembers DEF Retry, Done
<1>5. CASE Call
  <2>1. PICK k \in Begun : RaiseIn(Begin(k), k) \/ Enter(CallContext(k), k)
    BY <1>5 DEF Call
  <2>2. QED BY <2>1, RaiseRemembers, EnterRemembers
<1>6. CASE CallReturned
  <2>1. PICK k \in Begun :
          LET c == [Begin(k) EXCEPT !.flag1 = FALSE]
          IN  /\ Op(k) = "call"
              /\ IF ~IsArg(k) THEN End(PopArgs(c), k)
                 ELSE IF CanPopTmpAc2(c) THEN End(PopArgs(PopTmpAc2(c)), k)
                 ELSE RaiseIn(c, k)
    BY <1>6 DEF CallReturned
  <2> DEFINE c == [Begin(k) EXCEPT !.flag1 = FALSE]
             d == PopArgs(c)
             e == PopArgs(PopTmpAc2(c))
  <2>2. End(d, k) \/ End(e, k) \/ RaiseIn(c, k) BY <2>1
  <2> HIDE DEF c, d, e
  <2>3. QED BY <2>2, RaiseRemembers, EndRemembers
<1>7. CASE Try \/ NoFunction
  <2>1. ASSUME NEW h, NEW args, NEW k, TryOverflows(h, args, k) PROVE Remembered
    BY <2>1, RaiseRemembers DEF TryOverflows
  <2>2. CASE Try
    <3>1. PICK k \in Begun :
            \/ RaiseIn(Begin(k), k)
            \/ Enter(TryBegun(Begin(k)), k)
            \/ TryOverflows(HideArgs(Begin(k)), FunctionOfTry(Begin(k)), k)
      BY <2>2 DEF Try
    <3>2. QED BY <2>1, <3>1, RaiseRemembers, EnterRemembers
  <2>3. CASE NoFunction
    <3>1. PICK k \in Begun :
            \/ RaiseIn(TryBegun(Begin(k)), k)
            \/ TryOverflows(HideArgs(Begin(k)), FunctionOfTry(Begin(k)), k)
      BY <2>3 DEF NoFunction
    <3>2. QED BY <2>1, <3>1, RaiseRemembers
  <2>4. QED BY <1>7, <2>2, <2>3
<1>8. CASE TryReturned
  <2> DEFINE c(k) == [Begin(k) EXCEPT !.flag1 = FALSE]
             d(k) == PopTryRegs(c(k))
             e(k) == RestoreArgs(PopTmpAc2(d(k)))
             h(k) == HideArgs([e(k) EXCEPT !.error = FALSE])
             args(k) == <<IntWord(0, 0), RefWord, c(k).try_arg2, RefWord>>
             p(k) == [PushTry(h(k), args(k)) EXCEPT !.try_catch_flag = TRUE]
  <2>1. PICK k \in Begun :
          \/ RaiseIn(c(k), k) \/ RaiseIn(d(k), k) \/ End(e(k), k) \/ Enter(p(k), k)
          \/ TryOverflows(h(k), args(k), k)
    BY <1>8 DEF TryReturned
  <2> HIDE DEF c, d, e, h, args, p
  <2>2. ASSUME TryOverflows(h(k), args(k), k) PROVE Remembered
    BY <2>2, RaiseRemembers DEF TryOverflows
  <2>3. QED BY <2>1, <2>2, RaiseRemembers, EnterRemembers, EndRemembers
<1>9. CASE TryGaveOther BY <1>9, RaiseRemembers DEF TryGaveOther
<1>10. CASE ForceOperand
  <2>1. PICK k \in Begun :
          LET c == Begin(k)
          IN  ForceIn(IF IsArg(k) THEN c ELSE HideArgs(c), k, c.flag1 /\ ~c.try_catch_flag)
    BY <1>10 DEF ForceOperand
  <2>2. ASSUME NEW c, NEW is_try, ForceIn(c, k, is_try) PROVE Remembered
    <3> DEFINE p == ForceContext(c)
               q(args) == [PushArgs(p, args) EXCEPT !.index = 1]
               r(args) == IF is_try THEN SetTryRegsForForce(q(args)) ELSE q(args)
    <3>1. PICK args \in {<<>>} \union {<<v>> : v \in Values} :
            RaiseIn(c, k) \/ RaiseIn(p, k) \/ Enter(r(args), k)
      BY <2>2 DEF ForceIn
    <3> HIDE DEF p, r
    <3>2. QED BY <3>1, RaiseRemembers, EnterRemembers
  <2>3. QED BY <2>1, <2>2
<1>11. CASE NativeForces BY <1>11, KeptLost DEF NativeForces
<1>12. CASE NativeForced BY <1>12, KeptLost DEF NativeForced
<1>13. QED
  BY <1>1, <1>2, <1>3, <1>4, <1>5, <1>6, <1>7, <1>8, <1>9, <1>10, <1>11, <1>12
     DEF Instruction

(* The registers of a new thread.                                          *)
LEMMA NewContextTypes ==
  ASSUME NEW c, c = NewContext
  PROVE  /\ c \in Contexts /\ c.abp2 = 0 /\ c.ac2 = 0 /\ c.nfbp = 0 /\ ~c.fp /\ c.ip = 0
         /\ c.index = 0 /\ ~c.try_flag
<1>1. ErrorWord \in AnyWord BY DEF ErrorWord, Word, AnyWord
<1> HIDE DEF ErrorWord
<1>2. [i \in 0 .. StackSize - 1 |-> ErrorWord] \in Stacks BY <1>1 DEF Stacks
<1>3. QED BY <1>1, <1>2 DEF NewContext, Contexts, Registers

(* A new thread has one activation at most, and no registers are kept.     *)
LEMMA InitSound ==
  ASSUME Init
  PROVE  IInv
<1> DEFINE o == NewContext
<1>1. PICK c \in {o} \union {PushArgs(o, <<v>>) : v \in Values} : context = EnterToFun(c)
  <2>1. PICK n \in {0, 1}, v \in Values :
          context = IF n = 0 THEN EnterToFun(o) ELSE EnterToFun(PushArgs(o, <<v>>))
    BY DEF Init
  <2> HIDE DEF o
  <2>2. CASE n = 0 BY <2>1, <2>2
  <2>3. CASE n # 0 BY <2>1, <2>3
  <2>4. QED BY <2>2, <2>3
<1>2. natives = <<>> /\ lost = FALSE BY DEF Init
<1>3. /\ o \in Contexts /\ o.abp2 = 0 /\ o.ac2 = 0 /\ o.nfbp = 0 /\ ~o.fp /\ o.ip = 0
      /\ o.index = 0 /\ ~o.try_flag
  BY NewContextTypes
<1> HIDE DEF o
<1>4. /\ c \in Contexts /\ c.abp2 = 0 /\ c.ac2 \in {0, 1} /\ c.nfbp = 0 /\ ~c.fp /\ c.ip = 0
      /\ c.index = 0 /\ ~c.try_flag
  <2>1. CASE c = o BY <1>3, <2>1
  <2>2. CASE c # o
    <3>1. PICK v \in Values : c = PushArgs(o, <<v>>) BY <1>1, <2>2
    <3> DEFINE words == <<v>>
    <3>2. words \in Seq(AnyWord) /\ Len(words) = 1 BY OneWord
    <3>3. c = PushArgs(o, words) BY <3>1
    <3> HIDE DEF words
    <3>4. /\ c \in Contexts /\ Moved(o, c) /\ SameTry(o, c)
          /\ c.abp2 = o.abp2 /\ c.ac2 = o.ac2 + Len(words)
      BY <1>3, <3>2, <3>3, PushArgsMoves
    <3>5. QED BY <1>3, <3>2, <3>4 DEF Moved, SameTry
  <2>3. QED BY <2>1, <2>2
<1>5. CanEnter(c) BY <1>4, RoomAssumption, StackSizeAssumption DEF CanEnter
<1>6. Leads(c, context) BY <1>1, <1>4, <1>5, FirstEnterLeads
<1>7. AllKept(c.stack, natives, c.nfbp)
  <2>1. <<>> \in Seq(Keepings) /\ Len(<<>>) = 0 OBVIOUS
  <2>2. QED BY <1>2, <2>1 DEF AllKept
<1>8. Sound(context, natives) BY <1>4, <1>6, <1>7, LeadsSound
<1>9. QED BY <1>2, <1>8 DEF IInv

(* Every instruction leads from activations to activations.                *)
LEMMA InstructionSound ==
  ASSUME NEW fs, Level(context, fs), Instruction
  PROVE  lost' \/ Leads(context, context')
<1>1. CASE OpFails BY <1>1, OpFailsLeads
<1>2. CASE Compute BY <1>2, ComputeLeads
<1>3. CASE In BY <1>3, InLeads
<1>4. CASE Retry BY <1>4, RetryLeads
<1>5. CASE Call BY <1>5, CallLeads
<1>6. CASE CallReturned BY <1>6, CallReturnedLeads
<1>7. CASE Try BY <1>7, TryLeads
<1>8. CASE TryReturned BY <1>8, TryReturnedLeads
<1>9. CASE TryGaveOther BY <1>9, TryGaveOtherLeads
<1>10. CASE NoFunction BY <1>10, NoFunctionLeads
<1>11. CASE ForceOperand BY <1>11, ForceLeads
<1>12. CASE NativeForces BY <1>12, NativeForcesLeads
<1>13. CASE NativeForced BY <1>13, NativeForcedLeads
<1>14. QED
  BY <1>1, <1>2, <1>3, <1>4, <1>5, <1>6, <1>7, <1>8, <1>9, <1>10, <1>11, <1>12, <1>13
     DEF Instruction

(* any step of a native function,                                          *)
LEMMA NativeRemembers ==
  ASSUME Native \/ NativeEnds
  PROVE  Remembered
<1>1. CASE Native
  <2>1. PICK k \in Begun :
          RaiseIn(Begin(k), k) \/ RaiseIn(CallContext(k), k) \/ UNCHANGED lost
    BY <1>1 DEF Native
  <2>2. QED BY <2>1, RaiseRemembers, KeptLost
<1>2. CASE NativeReturns
  <2> DEFINE k == Head(natives).ip
             d == PopTmpAc2(Restored)
  <2>1. End(Restored, k) \/ End(d, k) \/ RaiseIn(Restored, k) BY <1>2 DEF NativeReturns
  <2> HIDE DEF k, d
  <2>2. QED BY <2>1, RaiseRemembers, EndRemembers
<1>3. CASE NativeFails
  <2>1. RaiseIn(Restored, Head(natives).ip) BY <1>3 DEF NativeFails, RaiseIn
  <2>2. QED BY <2>1, RaiseRemembers
<1>4. CASE NativeThrows
  <2>1. lost' = (lost \/ TryInForce(Head(natives))) BY <1>4 DEF NativeThrows
  <2>2. QED BY <2>1, Zenon DEF Remembered
<1>5. QED BY <1>1, <1>2, <1>3, <1>4 DEF NativeEnds

(* any step.                                                               *)
LEMMA NextRemembers ==
  ASSUME Next
  PROVE  Remembered
BY InstructionRemembers, NativeRemembers DEF Next

(* Every step does, with the registers of native functions kept.           *)
LEMMA NextSound ==
  ASSUME IInv, ~lost, Next
  PROVE  lost' \/ Sound(context', natives')
<1>1. PICK fs : Level(context, fs) BY DEF IInv, Sound
<1>2. context \in Contexts /\ AllKept(context.stack, natives, context.nfbp)
  BY <1>1 DEF IInv, Sound, Level
<1>3. CASE Instruction /\ UNCHANGED natives
  <2>1. lost' \/ Leads(context, context') BY <1>1, <1>3, InstructionSound
  <2>2. QED BY <1>2, <1>3, <2>1, LeadsSound
<1>4. CASE Native BY <1>1, <1>2, <1>4, NativeSound
<1>5. CASE NativeEnds /\ natives' = Tail(natives)
  <2>1. CASE NativeReturns BY <1>1, <1>2, <1>5, <2>1, NativeReturnsSound
  <2>2. CASE NativeFails BY <1>1, <1>2, <1>5, <2>2, NativeFailsSound
  <2>3. CASE NativeThrows BY <1>1, <1>2, <1>5, <2>3, NativeThrowsSound
  <2>4. QED BY <1>5, <2>1, <2>2, <2>3 DEF NativeEnds
<1>6. QED BY <1>3, <1>4, <1>5 DEF Next

(* The invariant is inductive.                                             *)
LEMMA IInvInductive ==
  ASSUME IInv, [Next]_vars
  PROVE  IInv'
<1>1. CASE Next
  <2>1. lost \in BOOLEAN /\ lost' \in BOOLEAN /\ (lost => lost')
    BY <1>1, NextRemembers DEF IInv, Remembered
  <2>2. ~lost' => Sound(context', natives') BY <1>1, <2>1, NextSound
  <2>3. QED BY <2>1, <2>2 DEF IInv
<1>2. CASE UNCHANGED vars BY <1>2 DEF IInv, vars, Sound
<1>3. QED BY <1>1, <1>2

(* The registers of a thread, and those kept for a native function, are    *)
(* numbers in their order.                                                 *)
LEMMA LevelRegisters ==
  ASSUME NEW fs, Level(context, fs)
  PROVE  RegistersOK(context)
<1> DEFINE c == context
<1>1. c \in Contexts BY DEF Level
<1>2. c.nfbp <= c.abp2 /\ c.abp2 + c.ac2 <= StackSize /\ (c.fp => Lvbp(c) + c.lvc <= c.abp2)
  <2>1. CASE c.fp
    <3>1. Runs(c.stack, c, fs) BY <2>1 DEF Level
    <3>2. c.nfbp <= Low(c) /\ Low(c) \in Nat /\ Low(c) <= c.abp2 BY <1>1, <3>1, RunsParts
    <3>3. c.nfbp \in Nat /\ c.abp2 \in Nat BY <1>1, ContextTypes
    <3>4. QED BY <3>1, <3>2, <3>3 DEF Runs, Low
  <2>2. CASE ~c.fp BY <2>2 DEF Level
  <2>3. QED BY <2>1, <2>2
<1>3. QED BY <1>1, <1>2, ContextTypes DEF RegistersOK

(* The kept registers are in order and cover the pushed arguments.         *)
LEMMA KeptRegisters ==
  ASSUME NEW s \in Stacks, NEW n, NEW fs, Kept(s, n, fs)
  PROVE  RegistersOK(n) /\ n.sec = n.abp2 + n.ac2
<1>1. n \in Keepings /\ n.sec = n.abp2 + n.ac2 /\ n.sec + 7 <= StackSize BY DEF Kept
<1>2. /\ n.sec \in Nat /\ n.abp2 \in Nat /\ n.nfbp \in Nat /\ Low(n) \in Nat
      /\ Low(n) <= n.abp2 /\ n.nfbp <= n.abp2
  <2> DEFINE c == On(n, s)
  <2>1. /\ c \in Contexts /\ c.nfbp = n.nfbp /\ Low(c) = Low(n) /\ c.stack = s
    BY <1>1, OnStack
  <2>2. Runs(c.stack, c, fs) BY DEF Kept, Ended
  <2> HIDE DEF c
  <2>3. c.nfbp <= Low(c) BY <2>1, <2>2, RunsParts
  <2>4. QED BY <2>1, <2>3, KeptTypes
<1>3. n.abp2 + n.ac2 <= StackSize BY <1>1, <1>2, StackSizeAssumption
<1>4. Lvbp(n) + n.lvc <= n.abp2 BY <1>2 DEF Low
<1>5. /\ {n.abp, n.ac, n.lvc, n.abp2, n.ac2, n.sec, n.nfbp, n.tmp_ac2, n.try_abp, n.try_ac}
           \subseteq Nat
      /\ {n.fp, n.flag1, n.flag2, n.try_flag, n.try_catch_flag, n.error} \subseteq BOOLEAN
      /\ n.ip \in {0} \union DOMAIN Program /\ n.index \in {0, 1} /\ n.try_arg2 \in AnyWord
  BY <1>1 DEF Keepings, Registers
<1>6. QED BY <1>1, <1>2, <1>3, <1>4, <1>5 DEF RegistersOK

(* The roots are covered wherever the activations are in order.            *)
LEMMA SoundCovers ==
  ASSUME IInv, ~lost
  PROVE  StackRootsCovered
<1>1. PICK fs : Level(context, fs) BY DEF IInv, Sound
<1>2. /\ context \in Contexts /\ AllKept(context.stack, natives, context.nfbp)
      /\ context.sec = context.abp2 + IF Flagged(context) THEN 0 ELSE context.ac2
  BY <1>1 DEF IInv, Sound, Level
<1>3. context.stack \in Stacks BY <1>2, ContextTypes
<1>4. ASSUME NEW i \in DOMAIN natives
      PROVE  RegistersOK(natives[i]) /\ natives[i].sec = natives[i].abp2 + natives[i].ac2
  <2>1. natives \in Seq(Keepings) BY <1>2 DEF AllKept
  <2>2. i \in 1 .. Len(natives) BY <2>1
  <2>3. PICK gs : Kept(context.stack, natives[i], gs) BY <1>2, <2>2 DEF AllKept
  <2>4. QED BY <1>3, <2>3, KeptRegisters
<1>5. \A i \in 0 .. StackSize - 1 : context.stack[i] \in AnyWord BY <1>3 DEF Stacks
<1>6. RegistersOK(context) BY <1>1, LevelRegisters
<1>7. TypeOK BY <1>4, <1>5, <1>6 DEF TypeOK, IInv
<1>8. QED BY <1>2, <1>4, <1>7 DEF StackRootsCovered, Flagged

----------------------------------------------------------------------------

(* Whatever the program does, and wherever its calls, tries, lazy values   *)
(* and native functions fail: until an error is lost, a collection that    *)
(* looks for references below sec finds all words that an activation may   *)
(* still read, those below native functions too, and no stale ones; the    *)
(* registers keep their types and their order on the stack.                *)
THEOREM StackRootsStayCovered == Spec => [](~lost => StackRootsCovered)
<1>1. Init => IInv BY InitSound
<1>2. IInv /\ [Next]_vars => IInv' BY IInvInductive
<1>3. IInv => (~lost => StackRootsCovered) BY SoundCovers
<1>4. QED BY <1>1, <1>2, <1>3, PTL DEF Spec
=============================================================================
