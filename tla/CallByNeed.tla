----------------------------- MODULE CallByNeed -----------------------------
(***************************************************************************)
(* What lazy values promise to a program, whichever threads force them:    *)
(* a lazy value is evaluated once, and what it was evaluated to is given   *)
(* to everybody who forces it - but a unique object is given once only.    *)
(* LazyValues, the locks and the unwinding that the interpreter does it    *)
(* with, implements this.                                                  *)
(***************************************************************************)
EXTENDS Naturals

CONSTANTS
  Lazies,      \* the lazy values
  Deps         \* the lazy values a lazy value may be evaluated to

VARIABLES
  value,       \* what a lazy value was evaluated to
  given        \* how often its unique object was given

Results(v) == {"shared", "unique"} \union Deps[v]

Init ==
  /\ value = [v \in Lazies |-> "unset"]
  /\ given = [v \in Lazies |-> 0]

Evaluate(v) ==
  /\ value[v] = "unset"
  /\ \E r \in Results(v) : value' = [value EXCEPT ![v] = r]
  /\ UNCHANGED given

(* The code's addition: an exception that a try catches while it forces    *)
(* the result of its function leaves a value that no function returned.    *)
Spoil(v) ==
  /\ value[v] = "unset"
  /\ value' = [value EXCEPT ![v] = "wrong"]
  /\ UNCHANGED given

(* The unique object goes to the one who forces first, or to nobody if     *)
(* that one may not have it.                                               *)
Give(v) ==
  /\ value[v] = "unique"
  /\ value' = [value EXCEPT ![v] = "canceled"]
  /\ \E n \in {0, 1} : given' = [given EXCEPT ![v] = @ + n]

Next == \E v \in Lazies : Evaluate(v) \/ Spoil(v) \/ Give(v)

Spec == Init /\ [][Next]_<<value, given>>
=============================================================================
