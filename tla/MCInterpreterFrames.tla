------------------------ MODULE MCInterpreterFrames ------------------------
(* Programs of all instructions, with functions of at most one argument.   *)
EXTENDS InterpreterFrames, SequencesExt

CONSTANTS MaxDepth, MaxWords

Operations(instr, ops) == [i \in DOMAIN ops |-> [instr |-> instr, op |-> ops[i]]]

All ==
  Operations("let", <<"call", "try", "ncall">>)
    \o Operations("arg", <<"value", "call">>)
    \o Operations("ret", <<"value">>)
    \o Operations("lettuple", <<"value">>)
    \o <<[instr |-> "in", op |-> "none"], [instr |-> "retry", op |-> "none"]>>

(* The shortest program in which a native function fails inside a try.     *)
TryNative ==
  Operations("let", <<"try", "ncall">>) \o Operations("arg", <<"value">>)

References == {RefWord}
Pairs == {<<RefWord, RefWord>>}

(* Bounds: activations, with one more under a try or in a native function; *)
(* variables and pushed arguments; and nothing is said of a thread that    *)
(* has lost an error.                                                      *)
Deeper == Len(acts) > MaxDepth /\ (acts[2].phase = "body" \/ acts[3].instr = -1)

Bounded ==
  /\ ~lost
  /\ Len(acts) <= MaxDepth + Bit(Deeper)
  /\ \A i \in DOMAIN acts :
       /\ Len(acts[i].vars) <= 2 /\ Len(acts[i].pushed) <= 3
       /\ Len(acts[i].vars) + Len(acts[i].pushed) <= MaxWords

(* Stale words, above what is pushed, are read only by an error that is    *)
(* lost (SetError); tmp_ac2 is set again before it is used.                *)
LiveWords ==
  <<[context EXCEPT !.stack = Words(0, context.abp2 + context.ac2), !.tmp_ac2 = 0],
    [i \in DOMAIN natives |-> [natives[i] EXCEPT !.tmp_ac2 = 0]], lost>>
=============================================================================
