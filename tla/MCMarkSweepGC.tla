--------------------------- MODULE MCMarkSweepGC ---------------------------
(* Model values for TLC: the blocks and the threads are interchangeable.   *)
EXTENDS MarkSweepGC, TLC

(* Nothing is said of a state after unsound, which is never reset.         *)
NotYetUnsound == ~unsound

Symmetry == Permutations(Objects) \union Permutations(Threads)
============================================================================
