---------------------------- MODULE EqualValues ----------------------------
(***************************************************************************)
(* What the memoization cache asks of the values that are its keys: are    *)
(* they equal (equal_values and equal_objects of vm/vm.cpp), may they be   *)
(* kept (are_memoizable_fun_args).                                         *)
(*                                                                         *)
(* An object has a type, a mark of uniqueness and elements.  A reference   *)
(* has a name, which two references to one object share, and the object.   *)
(* Numbers are "1", "2", ...; floats may be "0", "-0" and "nan".           *)
(***************************************************************************)
EXTENDS Naturals, Sequences
LOCAL INSTANCE SequencesExt

CONSTANT MaxBytes    \* of a key: 256 in the code
ASSUME MaxBytesAssumption == MaxBytes \in Nat

Object(t, u, e) == [t |-> t, u |-> u, e |-> e]
Value(k, x) == [k |-> k, x |-> x, to |-> <<>>]
Ref(x, object) == [k |-> "ref", x |-> x, to |-> <<object>>]

ElemBytes ==
  [iarray8 |-> 1, iarray16 |-> 2, iarray32 |-> 4, iarray64 |-> 8, sfarray |-> 4, dfarray |-> 8,
   rarray |-> 8, tuple |-> 8]
NumberArrays == DOMAIN ElemBytes \ {"rarray", "tuple"}

----------------------------------------------------------------------------
\* C++ compares floats as IEEE does.
EqualNumbers(v, w) ==
  \/ v.x = w.x /\ (v.k = "float" => v.x # "nan")
  \/ v.k = "float" /\ {v.x, w.x} = {"0", "-0"}

\* Of references and tuples the code asks that no elements are equal.
RECURSIVE EqualValues(_, _), EqualObjects(_, _)
EqualValues(v, w) ==
  /\ v.k = w.k
  /\ \/ v.k \in {"int", "float"} /\ EqualNumbers(v, w)
     \/ v.k = "ref" /\ (v.x = w.x \/ EqualObjects(v.to[1], w.to[1]))
EqualObjects(a, b) ==
  /\ a.t = b.t /\ a.u = b.u /\ Len(a.e) = Len(b.e)
  /\ \/ a.t \in NumberArrays /\ \A i \in DOMAIN a.e : EqualNumbers(a.e[i], b.e[i])
     \/ a.t = "rarray" /\ \A i \in DOMAIN a.e :
          a.e[i].x = b.e[i].x \/ ~EqualObjects(a.e[i].to[1], b.e[i].to[1])
     \/ a.t = "tuple" /\ \A i \in DOMAIN a.e : ~EqualValues(a.e[i], b.e[i])
     \/ a.t = "native" /\ a.e = b.e   \* equal_fun of the class

\* The bytes of a value with all it refers to; more than MaxBytes when there
\* is something in it that may not be kept.  The elements of an array of
\* references are not looked at, and a native object counts nothing.
RECURSIVE BytesOfValue(_), BytesOfObject(_)
BytesOfValue(v) ==
  CASE v.k \in {"int", "float"} -> 8
    [] v.k = "ref" -> 8 + BytesOfObject(v.to[1])
    [] OTHER -> MaxBytes + 1
BytesOfObject(o) ==
  IF o.u \/ o.t \notin DOMAIN ElemBytes \union {"native"} THEN MaxBytes + 1
  ELSE IF o.t = "native" THEN 0
  ELSE Len(o.e) * ElemBytes[o.t]
         + (IF o.t = "tuple" THEN FoldLeft(LAMBDA n, v : n + BytesOfValue(v), 0, o.e) ELSE 0)

Memoizable(v) == BytesOfValue(v) <= MaxBytes
=============================================================================
