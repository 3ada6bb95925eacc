--------------------------- MODULE MCStopTheWorld ---------------------------
(* Instances for TLC: the collector of each thread.                        *)
EXTENDS StopTheWorld

CONSTANTS c1, c2, t1, t2, t3

TwoMachines == [t \in {t1, t2, t3} |-> IF t = t3 THEN c2 ELSE c1]

(* The thread of the second machine calls no interruptible function and    *)
(* does not end, a choice of its program, which no fairness asks for; its  *)
(* collector begins when it has started.                                   *)
SecondIsPlain == tpc[t3] \in {"new", "run"} /\ (tpc[t3] = "new" => pc[c2] = "sleep")

(* The threads of the first machine are alike: the first of them is named  *)
(* t1, and the first that ends.                                            *)
FirstInOrder == (tpc[t1] = "new" => tpc[t2] = "new") /\ (tpc[t2] = "gone" => tpc[t1] = "gone")
=============================================================================
