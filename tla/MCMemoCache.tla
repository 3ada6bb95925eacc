---------------------------- MODULE MCMemoCache ----------------------------
(* Instances for TLC.                                                      *)
EXTENDS MemoCache, EqualValues, TLC

Symmetry == Permutations(Threads) \union Permutations(Blocks)

NoObject == Object("unused", FALSE, <<>>)
MemoizableObject(o) == Memoizable(Ref("argument", o))

Numbers(x) == Object("iarray64", FALSE, <<Value("int", x)>>)
Long == Object("iarray64", FALSE, <<Value("int", "1"), Value("int", "1"), Value("int", "1")>>)
Pair(x, y) == Object("tuple", FALSE, <<Value("int", x), Value("int", y)>>)
Flat == {Numbers("1"), Numbers("2"), Long}
Pairs == {Pair("1", "2"), Pair("3", "4")}

(* After an exposure nothing is promised any more.                         *)
NotYetExposed == ~exposed
=============================================================================
