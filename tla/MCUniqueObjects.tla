-------------------------- MODULE MCUniqueObjects --------------------------
(* Instances for TLC.                                                      *)
EXTENDS UniqueObjects, TLC

HeapSymmetry == Permutations(Objs)

(* What becomes of references that have been duplicated is not followed,   *)
(* nor what is done with a heap that is full: its states are checked only. *)
(* An expression value beside local variables or arguments is followed     *)
(* with one object, two expression values with two.                        *)
Small ==
  /\ ~exposed /\ FreeObjs # {}
  /\ pc = "idle" => Cardinality(FreeObjs) > 1 \/ Len(evs) # 1 \/ vars \o args = <<>>
=============================================================================
