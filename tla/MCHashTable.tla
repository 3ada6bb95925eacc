---------------------------- MODULE MCHashTable ----------------------------
EXTENDS HashTable, TLC

CONSTANTS k1, k2, k3, b1, b2

(* Two keys share a bucket.                                                *)
MCKeys == {k1, k2, k3}
MCBuckets == {b1, b2}
MCHashOf == k1 :> b1 @@ k2 :> b1 @@ k3 :> b2

Symmetry == Permutations(Threads) \union Permutations(Entries) \union Permutations(Values)
=============================================================================
