---------------------------- MODULE MCLazyValues ----------------------------
(* A lazy value whose arguments lead to another one.                       *)
EXTENDS LazyValues, TLC

CONSTANTS a, b, t1, t2

TwoDeps == (a :> {b}) @@ (b :> {})

(* One thread puts lazy values in shared objects, both force them.         *)
OneShares == job[t2] = "force"
=============================================================================
