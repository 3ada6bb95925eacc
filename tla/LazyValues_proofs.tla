------------------------- MODULE LazyValues_proofs -------------------------
(***************************************************************************)
(* For any number of threads and lazy values: up to where a thread goes    *)
(* astray, a thread holds the mutexes that are on its stack, and forcing   *)
(* implements call by need; nobody waits for another at the semaphore.     *)
(*                                                                         *)
(* The invariant counts: a thread's _S_locked_mutex_count is at most the   *)
(* length of its stack, and one more between the two halves of lock and    *)
(* unlock - less when a mutex was unlocked twice; the semaphore has at     *)
(* least one for each thread whose count is 0.  A thread that a fork left  *)
(* behind in the parent is out of all of it: its mutexes stay as they are. *)
(* So is an evaluated lazy value that an adopter has unlocked.             *)
(***************************************************************************)
EXTENDS LazyValues, SequenceTheorems, FiniteSetTheorems, TLAPS

At(t) == pc[t] \in {"force", "share"}
OnStack(t) == {stack[t][i] : i \in 1 .. Len(stack[t])}

(* The mutexes of a thread, each once; on the stack are lazy values whose  *)
(* function has not returned.                                              *)
StackInv(t) ==
  /\ \A v \in Lazies \ adopted : owner[v] = t <=> v \in Holds(t)
  /\ \A i, j \in 1 .. Len(stack[t]) : stack[t][i] = stack[t][j] => i = j
  /\ At(t) => want[t] \notin OnStack(t)
  /\ \A v \in OnStack(t) : value[v] = "unset"

(* What a thread's place says of its lazy value, its stack and its count.  *)
PlaceInv(t) ==
  /\ pc[t] \in {"sem", "mutex", "force", "share", "unlock", "unlockTry", "caught", "adopt"}
       => want[t] \in Lazies
  /\ pc[t] \in {"new", "end"} => stack[t] = <<>>
  /\ pc[t] \in {"unlockTry", "adopt"} => stack[t] # <<>>
  /\ count[t] <= Len(stack[t]) + (IF pc[t] \in {"mutex", "force", "share"} THEN 1 ELSE 0)

AdoptedInv == \A v \in adopted : value[v] \in Lazies

(* The threads whose count is 0: each has left one in the semaphore.  A    *)
(* thread that forks inside a lazy value leaves one more in its child, and *)
(* one that unlocks a mutex twice leaves one more.                         *)
Free == {t \in Threads : pc[t] \notin {"new", "gone"} /\ count[t] = 0}
SemInv == IsFiniteSet(Free) /\ Cardinality(Free) <= sem

IInv ==
  /\ TypeOK
  /\ AdoptedInv
  /\ SemInv
  /\ \A t \in Threads : pc[t] # "gone" => PlaceInv(t) /\ (astray = None => StackInv(t))

----------------------------------------------------------------------------
(* Sequences, sets and the semaphore.                                      *)

(* Cutting a stack down to a frame.                                        *)
LEMMA Cut ==
  ASSUME TypeOK, NEW t \in Threads, NEW n \in 0 .. Len(stack[t]), CutTo(t, n)
  PROVE  /\ stack' \in [Threads -> Seq(Lazies)]
         /\ Len(stack'[t]) = n
         /\ \A i \in 1 .. n : stack'[t][i] = stack[t][i]
         /\ \A u \in Threads \ {t} : stack'[u] = stack[u]
<1>1. stack \in [Threads -> Seq(Lazies)] /\ stack[t] \in Seq(Lazies)
  BY DEF TypeOK
<1>2. Len(stack[t]) \in Nat /\ \A i \in 1 .. Len(stack[t]) : stack[t][i] \in Lazies
  BY <1>1, ElementOfSeq, LenProperties
<1>3. /\ SubSeq(stack[t], 1, n) \in Seq(Lazies)
      /\ Len(SubSeq(stack[t], 1, n)) = n
      /\ \A i \in 1 .. n : SubSeq(stack[t], 1, n)[i] = stack[t][i]
  BY <1>2, SubSeqProperties
<1>4. stack' = [stack EXCEPT ![t] = SubSeq(stack[t], 1, n)]
  BY DEF CutTo
<1> QED
  BY <1>1, <1>3, <1>4

LEMMA StackType ==
  ASSUME TypeOK, NEW t \in Threads
  PROVE  /\ Len(stack[t]) \in Nat
         /\ DOMAIN stack[t] = 1 .. Len(stack[t])
         /\ \A i \in 1 .. Len(stack[t]) : stack[t][i] \in Lazies
         /\ stack[t] = <<>> <=> Len(stack[t]) = 0
         /\ OnStack(t) \subseteq Lazies
<1>1. stack[t] \in Seq(Lazies)
  BY DEF TypeOK
<1> QED
  BY <1>1, LenProperties, ElementOfSeq, EmptySeq DEF OnStack

LEMMA HoldsIs ==
  ASSUME TypeOK, NEW t \in Threads
  PROVE  Holds(t) = OnStack(t) \union (IF At(t) THEN {want[t]} ELSE {})
BY StackType DEF Holds, OnStack, At

(* The frames above one are as many as the lazy values they are of.        *)
LEMMA AboveCardinality ==
  ASSUME TypeOK, NEW t \in Threads, NEW n \in 0 .. Len(stack[t]),
         \A i, j \in 1 .. Len(stack[t]) : stack[t][i] = stack[t][j] => i = j
  PROVE  IsFiniteSet(Above(t, n)) /\ Cardinality(Above(t, n)) = Len(stack[t]) - n
<1> DEFINE l == Len(stack[t])
           I == (n + 1) .. l
           S == Above(t, n)
           f == [i \in I |-> stack[t][i]]
<1>1. l \in Nat /\ n \in Nat /\ n <= l
  BY StackType
<1>2. f \in Bijection(I, S)
  <2>1. f \in [I -> S] /\ DOMAIN f = I
    BY DEF Above
  <2>2. (\A i, j \in I : f[i] = f[j] => i = j) /\ (\A x \in S : \E i \in I : f[i] = x)
    <3>1. \A i \in I : i \in 1 .. l
      BY <1>1
    <3> QED
      BY <3>1 DEF Above
  <2> HIDE DEF f, I, S
  <2>3. f \in Injection(I, S)
    BY <2>1, <2>2 DEF Injection, IsInjective
  <2>4. f \in Surjection(I, S)
    BY <2>1, <2>2 DEF Surjection
  <2> QED
    BY <2>3, <2>4 DEF Bijection
<1>3. IsFiniteSet(I) /\ Cardinality(I) = l - n
  <2>1. n + 1 \in Int /\ l \in Int
    BY <1>1
  <2>2. IsFiniteSet(I) /\ Cardinality(I) = IF n + 1 > l THEN 0 ELSE l - (n + 1) + 1
    BY <2>1, FS_Interval, Zenon
  <2> QED
    BY <1>1, <2>2
<1>4. ExistsBijection(I, S)
  BY <1>2 DEF ExistsBijection
<1> QED
  BY <1>3, <1>4, FS_Bijection

(* The frames up to one are those that are not above it.                   *)
LEMMA UpTo ==
  ASSUME TypeOK, NEW t \in Threads, NEW n \in 0 .. Len(stack[t]),
         \A i, j \in 1 .. Len(stack[t]) : stack[t][i] = stack[t][j] => i = j
  PROVE  {stack[t][i] : i \in 1 .. n} = OnStack(t) \ Above(t, n)
<1> DEFINE l == Len(stack[t])
<1>1. l \in Nat /\ n \in Nat /\ n <= l
  BY StackType
<1>2. ASSUME NEW i \in 1 .. n PROVE stack[t][i] \in OnStack(t) \ Above(t, n)
  <2>1. i \in 1 .. l /\ \A j \in (n + 1) .. l : j \in 1 .. l /\ j # i
    BY <1>1
  <2> QED
    BY <2>1 DEF OnStack, Above
<1>3. ASSUME NEW w \in OnStack(t) \ Above(t, n) PROVE w \in {stack[t][i] : i \in 1 .. n}
  <2>1. PICK i \in 1 .. l : w = stack[t][i]
    BY DEF OnStack
  <2>2. i \notin (n + 1) .. l
    BY <2>1 DEF Above
  <2>3. i \in 1 .. n
    BY <1>1, <2>2
  <2> QED
    BY <2>1, <2>3
<1> QED
  BY <1>2, <1>3

(* What a step of another thread leaves alone.                             *)
LEMMA OtherPlace ==
  ASSUME IInv, NEW u \in Threads, pc[u] # "gone",
         pc'[u] = pc[u], stack'[u] = stack[u], want'[u] = want[u], count'[u] = count[u]
  PROVE  PlaceInv(u)'
BY DEF IInv, PlaceInv

LEMMA OtherThread ==
  ASSUME IInv, astray = None, NEW u \in Threads, pc[u] # "gone",
         pc'[u] = pc[u], stack'[u] = stack[u], want'[u] = want[u], count'[u] = count[u],
         adopted \subseteq adopted',
         \A v \in Lazies \ adopted' : owner'[v] = u <=> owner[v] = u,
         \A v \in Lazies \ adopted : owner[v] = u => value'[v] = value[v]
  PROVE  StackInv(u)' /\ PlaceInv(u)'
<1>1. StackInv(u) /\ PlaceInv(u)
  BY DEF IInv
<1>2. Holds(u)' = Holds(u) /\ OnStack(u)' = OnStack(u) /\ (At(u)' <=> At(u))
  BY DEF Holds, OnStack, At
<1>3. OnStack(u) \subseteq Holds(u) /\ OnStack(u) \subseteq Lazies
  BY HoldsIs, StackType DEF IInv
<1>4. ASSUME NEW v \in OnStack(u) PROVE value'[v] = "unset"
  <2>1. value[v] = "unset" /\ v \in Lazies /\ v \in Holds(u)
    BY <1>1, <1>3 DEF StackInv
  <2>2. v \notin adopted
    BY <2>1, PlainAssumption DEF IInv, AdoptedInv, Plain
  <2> QED
    BY <1>1, <2>1, <2>2 DEF StackInv
<1>5. StackInv(u)'
  BY <1>1, <1>2, <1>4 DEF StackInv
<1> QED
  BY <1>5, OtherPlace

(* The semaphore has enough when a thread takes one for itself, when one   *)
(* gives one or more, and when nobody does.                                *)
LEMMA FreeKept ==
  ASSUME IInv, Free' = Free, sem' = sem
  PROVE  SemInv'
BY DEF IInv, SemInv

LEMMA FreeTakes ==
  ASSUME IInv, NEW t \in Free, Free' = Free \ {t}, sem' = sem - 1
  PROVE  SemInv'
<1>1. IsFiniteSet(Free) /\ Cardinality(Free) <= sem /\ sem \in Nat
  BY DEF IInv, SemInv, TypeOK
<1>2. IsFiniteSet(Free \ {t}) /\ Cardinality(Free \ {t}) = Cardinality(Free) - 1
  BY <1>1, FS_RemoveElement
<1>3. Cardinality(Free) \in Nat
  BY <1>1, FS_CardinalityType
<1> QED
  BY <1>1, <1>2, <1>3 DEF SemInv

LEMMA FreeGives ==
  ASSUME IInv, NEW t, NEW k \in Nat, Free' = Free \union {t}, sem' = sem + k, k >= 1
  PROVE  SemInv'
<1>1. IsFiniteSet(Free) /\ Cardinality(Free) <= sem /\ sem \in Nat
  BY DEF IInv, SemInv, TypeOK
<1>2. /\ IsFiniteSet(Free \union {t})
      /\ Cardinality(Free \union {t}) \in {Cardinality(Free), Cardinality(Free) + 1}
  BY <1>1, FS_AddElement
<1>3. Cardinality(Free) \in Nat
  BY <1>1, FS_CardinalityType
<1> QED
  BY <1>1, <1>2, <1>3 DEF SemInv

(* A thread that has locked nothing finds one in the semaphore.            *)
LEMMA FreeHasOne ==
  ASSUME IInv, NEW t \in Free
  PROVE  sem > 0
<1>1. IsFiniteSet(Free) /\ Cardinality(Free) <= sem /\ sem \in Nat
  BY DEF IInv, SemInv, TypeOK
<1>2. Cardinality(Free) \in Nat /\ Cardinality(Free) # 0
  BY <1>1, FS_CardinalityType, FS_EmptySet
<1> QED
  BY <1>1, <1>2

(* LazyValueMutex::unlock for mutexes, whoever has them.                   *)
LEMMA Unlocking ==
  ASSUME IInv, NEW t \in Threads, NEW V \in SUBSET Lazies, IsFiniteSet(V), Unlock(t, V),
         pc[t] \notin {"new", "gone"}, pc'[t] \notin {"new", "gone"},
         \A u \in Threads \ {t} : pc'[u] = pc[u]
  PROVE  /\ owner' \in [Lazies -> Threads \union {None}]
         /\ \A v \in Lazies, u \in Threads : owner'[v] = u <=> (owner[v] = u /\ v \notin V)
         /\ count' \in [Threads -> Nat]
         /\ count'[t] = Minus(count[t], Cardinality(V))
         /\ \A u \in Threads \ {t} : count'[u] = count[u]
         /\ sem' \in Nat
         /\ SemInv'
<1> DEFINE k == Cardinality(V)
           c == count[t]
           d == Minus(k, Minus(c, 1))
<1>1. k \in Nat
  BY FS_CardinalityType
<1>2. count \in [Threads -> Nat] /\ owner \in [Lazies -> Threads \union {None}] /\ sem \in Nat
      /\ c \in Nat
  BY DEF IInv, TypeOK
<1>3. /\ owner' \in [Lazies -> Threads \union {None}]
      /\ \A v \in Lazies, u \in Threads : owner'[v] = u <=> (owner[v] = u /\ v \notin V)
  BY <1>2, NoneAssumption DEF Unlock, Unlocked
<1>4. /\ count' = [count EXCEPT ![t] = Minus(c, k)]
      /\ sem' = sem + d
  BY DEF Unlock
<1>5. Minus(c, k) \in Nat /\ d \in Nat
  BY <1>1, <1>2 DEF Minus
<1>6. /\ count' \in [Threads -> Nat] /\ count'[t] = Minus(c, k)
      /\ \A u \in Threads \ {t} : count'[u] = count[u]
      /\ sem' \in Nat
  BY <1>2, <1>4, <1>5
<1>7. CASE k # 0 /\ Minus(c, k) = 0
  <2>1. Free' = Free \union {t}
    BY <1>6, <1>7 DEF Free
  <2>2. d >= 1
    BY <1>1, <1>2, <1>7 DEF Minus
  <2> HIDE DEF d
  <2> QED
    BY <1>3, <1>4, <1>5, <1>6, <2>1, <2>2, FreeGives
<1>8. CASE ~(k # 0 /\ Minus(c, k) = 0)
  <2>1. (Minus(c, k) = 0 <=> c = 0) /\ d = 0
    BY <1>1, <1>2, <1>8 DEF Minus
  <2>2. Free' = Free
    BY <1>6, <2>1 DEF Free
  <2>3. sem' = sem
    BY <1>2, <1>4, <2>1
  <2> QED
    BY <1>3, <1>6, <2>2, <2>3, FreeKept
<1> QED
  BY <1>7, <1>8

(* A thread's stack is cut down to a frame, and the mutexes above it are   *)
(* unlocked and the one it is at ...                                       *)
Unwound(t, n) == Above(t, n) \union (IF At(t) THEN {want[t]} ELSE {})

UnlockedTo(t, n) ==
  /\ owner' \in [Lazies -> Threads \union {None}]
  /\ \A w \in Lazies, u \in Threads :
       owner'[w] = u <=> (owner[w] = u /\ w \notin Unwound(t, n))
  /\ \A w \in Unwound(t, n) \ adopted : owner[w] = t
  /\ count' \in [Threads -> Nat]
  /\ count'[t] <= n
  /\ \A u \in Threads \ {t} : count'[u] = count[u]
  /\ sem' \in Nat
  /\ SemInv'

LEMMA Unwinding ==
  ASSUME IInv, astray = None, NEW t \in Threads, pc[t] \notin {"new", "gone", "mutex"},
         NEW n \in 0 .. Len(stack[t]), Unlock(t, Unwound(t, n)), pc'[t] \notin {"new", "gone"},
         \A u \in Threads \ {t} : pc'[u] = pc[u]
  PROVE  UnlockedTo(t, n)
<1> DEFINE l == Len(stack[t])
           A == Above(t, n)
           U == Unwound(t, n)
<1>1. /\ StackInv(t) /\ PlaceInv(t) /\ l \in Nat /\ n \in Nat /\ n <= l
      /\ OnStack(t) \subseteq Lazies
      /\ count[t] \in Nat
  BY StackType DEF IInv, TypeOK
<1>2. IsFiniteSet(A) /\ Cardinality(A) = l - n
  BY <1>1, AboveCardinality DEF IInv, StackInv
<1>3. A \subseteq OnStack(t)
  <2>1. \A i \in (n + 1) .. l : i \in 1 .. l
    BY <1>1
  <2> QED
    BY <2>1 DEF Above, OnStack
<1>4. U \subseteq Holds(t) /\ U \subseteq Lazies
  BY <1>1, <1>3, HoldsIs DEF IInv, Unwound, PlaceInv, At
<1>5. \A w \in U \ adopted : owner[w] = t
  BY <1>1, <1>4 DEF StackInv
<1>6. IsFiniteSet(U) /\ Minus(count[t], Cardinality(U)) <= n
  <2>1. CASE At(t)
    <3>1. U = A \union {want[t]} /\ want[t] \notin A
      BY <1>1, <1>3, <2>1 DEF Unwound, StackInv
    <3>2. IsFiniteSet(U) /\ Cardinality(U) = l - n + 1
      BY <1>2, <3>1, FS_AddElement
    <3>3. count[t] <= l + 1
      BY <1>1, <2>1 DEF PlaceInv, At
    <3> QED
      BY <1>1, <3>2, <3>3 DEF Minus
  <2>2. CASE ~At(t)
    <3>1. U = A
      BY <2>2 DEF Unwound
    <3>2. count[t] <= l + 0
      BY <1>1, <2>2 DEF PlaceInv, At
    <3>3. count[t] <= l
      BY <1>1, <3>2
    <3> QED
      BY <1>1, <1>2, <3>1, <3>3 DEF Minus
  <2> QED
    BY <2>1, <2>2
<1>7. /\ owner' \in [Lazies -> Threads \union {None}]
      /\ \A w \in Lazies, u \in Threads : owner'[w] = u <=> (owner[w] = u /\ w \notin U)
      /\ count' \in [Threads -> Nat]
      /\ count'[t] = Minus(count[t], Cardinality(U))
      /\ \A u \in Threads \ {t} : count'[u] = count[u]
      /\ sem' \in Nat
      /\ SemInv'
  BY <1>4, <1>6, Unlocking
<1> QED
  BY <1>5, <1>6, <1>7 DEF UnlockedTo

(* ... and what is on it then is what the thread holds; it may have taken  *)
(* the last of them from the stack into its hand.                          *)
LEMMA OwnStack ==
  ASSUME IInv, astray = None, TypeOK', NEW t \in Threads, pc[t] # "gone",
         NEW n \in 0 .. Len(stack[t]), NEW m \in Nat, m <= n, Len(stack'[t]) = m,
         \A i \in 1 .. m : stack'[t][i] = stack[t][i],
         IF At(t)' THEN n = m + 1 /\ want'[t] = stack[t][n] ELSE n = m,
         adopted' = adopted,
         \A w \in Lazies \ adopted : owner'[w] = t <=> (owner[w] = t /\ w \notin Unwound(t, n)),
         \A i \in 1 .. m : value'[stack[t][i]] = value[stack[t][i]]
  PROVE  StackInv(t)'
<1> DEFINE l == Len(stack[t])
           S == {stack[t][i] : i \in 1 .. n}
<1>1. /\ StackInv(t) /\ PlaceInv(t) /\ l \in Nat /\ n \in Nat /\ n <= l
      /\ OnStack(t) \subseteq Lazies
  BY StackType DEF IInv
<1>2. \A i, j \in 1 .. l : stack[t][i] = stack[t][j] => i = j
  BY <1>1 DEF StackInv
<1>3. S = OnStack(t) \ Above(t, n)
  BY <1>2, UpTo DEF IInv
<1>4. OnStack(t)' = {stack[t][i] : i \in 1 .. m}
  BY DEF OnStack
<1>5. Holds(t)' = OnStack(t)' \union (IF At(t)' THEN {want'[t]} ELSE {})
  <2>1. stack'[t] \in Seq(Lazies) /\ DOMAIN stack'[t] = 1 .. Len(stack'[t])
    BY LenProperties DEF TypeOK
  <2> QED
    BY <2>1 DEF Holds, OnStack, At
<1>6. Holds(t)' = S
  <2>1. CASE At(t)'
    <3>1. n = m + 1 /\ want'[t] = stack[t][n] /\ 1 .. n = (1 .. m) \union {n}
      BY <1>1, <2>1
    <3> QED
      BY <1>4, <1>5, <2>1, <3>1
  <2>2. CASE ~At(t)'
    BY <1>4, <1>5, <2>2
  <2> QED
    BY <2>1, <2>2
<1>7. ASSUME NEW w \in Lazies \ adopted PROVE owner'[w] = t <=> w \in Holds(t)'
  <2>1. owner[w] = t <=> w \in OnStack(t) \union (IF At(t) THEN {want[t]} ELSE {})
    BY <1>1, HoldsIs DEF StackInv, IInv
  <2>2. At(t) => want[t] \notin OnStack(t)
    BY <1>1 DEF StackInv
  <2> QED
    BY <1>3, <1>6, <2>1, <2>2 DEF Unwound
<1>8. \A i \in 1 .. m : i \in 1 .. l
  BY <1>1
<1>9. \A i, j \in 1 .. m : stack'[t][i] = stack'[t][j] => i = j
  BY <1>2, <1>8
<1>10. At(t)' => want'[t] \notin OnStack(t)'
  <2>1. ASSUME At(t)', NEW i \in 1 .. m PROVE want'[t] # stack[t][i]
    <3>1. n \in 1 .. l /\ i \in 1 .. l /\ i # n /\ want'[t] = stack[t][n]
      BY <1>1, <2>1
    <3> QED
      BY <1>2, <3>1
  <2> QED
    BY <1>4, <2>1
<1>11. \A w \in OnStack(t)' : value'[w] = "unset"
  <2>1. \A i \in 1 .. m : value[stack[t][i]] = "unset"
    BY <1>1, <1>8 DEF StackInv, OnStack
  <2> QED
    BY <1>4, <2>1
<1> QED
  BY <1>7, <1>9, <1>10, <1>11 DEF StackInv

(* A thread that is at no lazy value before and after: nothing of it has   *)
(* changed.                                                                *)
LEMMA NotAtStill ==
  ASSUME IInv, astray = None, NEW t \in Threads, pc[t] # "gone", ~At(t), ~At(t)',
         stack'[t] = stack[t], owner' = owner, value' = value, adopted' = adopted
  PROVE  StackInv(t)'
<1>1. Holds(t)' = Holds(t) /\ OnStack(t)' = OnStack(t)
  BY DEF Holds, OnStack, At
<1> QED
  BY <1>1 DEF IInv, StackInv

----------------------------------------------------------------------------
(* The steps: each action preserves the invariant, part by part.           *)

LEMMA StartStep ==
  ASSUME IInv, astray = None, NEW t \in Threads, Start(t)
  PROVE  IInv'
<1>1. TypeOK' /\ AdoptedInv'
  BY DEF Start, Goto, IInv, TypeOK, AdoptedInv, history
<1>2. ASSUME NEW u \in Threads, u # t, pc'[u] # "gone" PROVE StackInv(u)' /\ PlaceInv(u)'
  BY <1>2, OtherThread DEF Start, Goto, IInv, TypeOK, history
<1>3. pc[t] = "new" /\ pc'[t] = "run"
  BY DEF Start, Goto, IInv, TypeOK
<1>4. StackInv(t)'
  BY <1>3, NotAtStill DEF Start, At, history
<1>5. PlaceInv(t)'
  BY <1>3 DEF Start, IInv, PlaceInv
<1>6. SemInv'
  <2>1. count[t] = 0
    <3>1. stack[t] = <<>> /\ count[t] <= Len(stack[t]) + 0 /\ count[t] \in Nat
      BY <1>3 DEF IInv, PlaceInv, TypeOK
    <3>2. Len(stack[t]) = 0
      BY <3>1
    <3> QED
      BY <3>1, <3>2
  <2>2. Free' = Free \union {t}
    BY <1>3, <2>1 DEF Start, Goto, Free, IInv, TypeOK
  <2> QED
    BY <2>2, FreeGives DEF Start
<1> QED
  BY <1>1, <1>2, <1>4, <1>5, <1>6 DEF IInv

LEMMA FinishStep ==
  ASSUME IInv, astray = None, NEW t \in Threads, Finish(t)
  PROVE  IInv'
<1>1. TypeOK' /\ AdoptedInv'
  BY DEF Finish, Goto, IInv, TypeOK, AdoptedInv, history
<1>2. ASSUME NEW u \in Threads, u # t, pc'[u] # "gone" PROVE StackInv(u)' /\ PlaceInv(u)'
  BY <1>2, OtherThread DEF Finish, Goto, IInv, TypeOK, history
<1>3. pc[t] = "run" /\ pc'[t] = "end"
  BY DEF Finish, Goto, IInv, TypeOK
<1>4. StackInv(t)'
  BY <1>3, NotAtStill DEF Finish, At, history
<1>5. PlaceInv(t)'
  BY <1>3 DEF Finish, IInv, PlaceInv
<1>6. SemInv'
  <2>1. Free' = Free
    BY <1>3 DEF Finish, Goto, Free, IInv, TypeOK
  <2> QED
    BY <2>1, FreeKept DEF Finish
<1> QED
  BY <1>1, <1>2, <1>4, <1>5, <1>6 DEF IInv

LEMMA EndStep ==
  ASSUME IInv, astray = None, NEW t \in Threads, End(t)
  PROVE  IInv'
<1>1. TypeOK' /\ AdoptedInv'
  BY DEF End, Goto, IInv, TypeOK, AdoptedInv, history
<1>2. ASSUME NEW u \in Threads, u # t, pc'[u] # "gone" PROVE StackInv(u)' /\ PlaceInv(u)'
  BY <1>2, OtherThread DEF End, Goto, IInv, TypeOK, history
<1>3. pc[t] = "end" /\ pc'[t] = "gone"
  BY DEF End, Goto, IInv, TypeOK
<1>4. SemInv'
  <2>1. count[t] = 0
    <3>1. stack[t] = <<>> /\ count[t] <= Len(stack[t]) + 0 /\ count[t] \in Nat
      BY <1>3 DEF IInv, PlaceInv, TypeOK
    <3>2. Len(stack[t]) = 0
      BY <3>1
    <3> QED
      BY <3>1, <3>2
  <2>2. t \in Free /\ Free' = Free \ {t}
    BY <1>3, <2>1 DEF End, Goto, Free, IInv, TypeOK
  <2> QED
    BY <2>2, FreeTakes DEF End
<1> QED
  BY <1>1, <1>2, <1>3, <1>4 DEF IInv

(* Goto for another lazy value, with nothing unlocked.                     *)
LEMMA AskStep ==
  ASSUME IInv, astray = None, NEW t \in Threads, Ask(t) \/ ReturnFirst(t)
  PROVE  IInv'
<1>1. PICK to \in {"sem", "adopt"}, v \in Lazies, j \in {"force", "share"} : GotoFor(t, to, v, j)
  <2>1. CASE Ask(t)
    <3>1. PICK v \in InReach(t), j \in {"force", "share"} : GotoFor(t, "sem", v, j)
      BY <2>1 DEF Ask
    <3>2. v \in Lazies
      BY StackType, DepsAssumption DEF InReach, ReachOf, IInv
    <3> QED
      BY <3>1, <3>2
  <2>2. CASE ReturnFirst(t)
    <3> DEFINE s == SubSeq(stack[t], 1, Len(stack[t]) - 1)
    <3>1. PICK v \in ReachOf(s) : GotoFor(t, "adopt", v, "force")
      BY <2>2 DEF ReturnFirst
    <3>2. stack[t] # <<>> /\ Len(stack[t]) \in Nat /\ stack[t] \in Seq(Lazies)
      BY <2>2, StackType DEF ReturnFirst, IInv, TypeOK
    <3>3. Len(stack[t]) # 0 /\ \A i \in 1 .. (Len(stack[t]) - 1) : stack[t][i] \in Lazies
      BY <3>2, StackType DEF IInv
    <3>4. Len(s) = Len(stack[t]) - 1 /\ s \in Seq(Lazies)
      BY <3>2, <3>3, SubSeqProperties
    <3>5. s # <<>> => s[Len(s)] \in Lazies
      BY <3>4, ElementOfSeq, EmptySeq, LenProperties
    <3> HIDE DEF s
    <3>6. v \in Lazies
      BY <3>1, <3>5, DepsAssumption DEF ReachOf
    <3> QED
      BY <3>1, <3>6
  <2> QED
    BY <2>1, <2>2
<1>2. /\ pc[t] = "run" /\ UNCHANGED <<value, mustShare, owner, given, stack, count, sem, history>>
      /\ to = "adopt" => stack[t] # <<>>
  BY <1>1 DEF Ask, ReturnFirst, GotoFor, Goto, IInv, TypeOK
<1>3. TypeOK' /\ AdoptedInv'
  BY <1>1, <1>2 DEF GotoFor, Goto, IInv, TypeOK, AdoptedInv, history
<1>4. ASSUME NEW u \in Threads, u # t, pc'[u] # "gone" PROVE StackInv(u)' /\ PlaceInv(u)'
  BY <1>1, <1>2, <1>4, OtherThread DEF GotoFor, Goto, IInv, TypeOK, history
<1>5. pc'[t] = to /\ want'[t] = v
  BY <1>1 DEF GotoFor, Goto, IInv, TypeOK
<1>6. StackInv(t)'
  BY <1>2, <1>5, NotAtStill DEF At, history
<1>7. PlaceInv(t)'
  BY <1>2, <1>5 DEF IInv, PlaceInv
<1>8. SemInv'
  <2>1. Free' = Free
    BY <1>1, <1>2, <1>5 DEF GotoFor, Goto, Free, IInv, TypeOK
  <2> QED
    BY <1>2, <2>1, FreeKept
<1> QED
  BY <1>3, <1>4, <1>6, <1>7, <1>8 DEF IInv

LEMMA LockSemStep ==
  ASSUME IInv, astray = None, NEW t \in Threads, LockSem(t)
  PROVE  IInv'
<1>1. TypeOK' /\ AdoptedInv'
  BY DEF LockSem, Goto, IInv, TypeOK, AdoptedInv, history
<1>2. ASSUME NEW u \in Threads, u # t, pc'[u] # "gone" PROVE StackInv(u)' /\ PlaceInv(u)'
  BY <1>2, OtherThread DEF LockSem, Goto, IInv, TypeOK, history
<1>3. pc[t] = "sem" /\ pc'[t] = "mutex" /\ count[t] \in Nat /\ count'[t] = count[t] + 1
  BY DEF LockSem, Goto, IInv, TypeOK
<1>4. StackInv(t)'
  BY <1>3, NotAtStill DEF LockSem, At, history
<1>5. PlaceInv(t)'
  <2>1. want[t] \in Lazies /\ count[t] <= Len(stack[t]) + 0 /\ Len(stack[t]) \in Nat
    BY <1>3, StackType DEF IInv, PlaceInv
  <2> QED
    BY <1>3, <2>1 DEF LockSem, PlaceInv
<1>6. SemInv'
  <2>1. CASE count[t] = 0
    <3>1. t \in Free /\ Free' = Free \ {t}
      BY <1>3, <2>1 DEF LockSem, Goto, Free, IInv, TypeOK
    <3> QED
      BY <2>1, <3>1, FreeTakes DEF LockSem
  <2>2. CASE count[t] # 0
    <3>1. Free' = Free
      BY <1>3, <2>2 DEF LockSem, Goto, Free, IInv, TypeOK
    <3> QED
      BY <2>2, <3>1, FreeKept DEF LockSem
  <2> QED
    BY <2>1, <2>2
<1> QED
  BY <1>1, <1>2, <1>4, <1>5, <1>6 DEF IInv

LEMMA LockMutexStep ==
  ASSUME IInv, astray = None, NEW t \in Threads, LockMutex(t)
  PROVE  IInv'
<1> DEFINE v == want[t]
<1>1. pc[t] = "mutex" /\ v \in Lazies /\ owner[v] = None /\ t # None
  BY NoneAssumption DEF LockMutex, IInv, PlaceInv
<1>2. TypeOK' /\ AdoptedInv'
  BY <1>1 DEF LockMutex, Goto, IInv, TypeOK, AdoptedInv, history
<1>3. /\ pc'[t] \in {"force", "share"} /\ want'[t] = v /\ stack'[t] = stack[t]
      /\ adopted' = adopted
      /\ \A w \in Lazies : owner'[w] = IF w = v THEN t ELSE owner[w]
  BY DEF LockMutex, Goto, IInv, TypeOK, history
<1>4. ASSUME NEW u \in Threads, u # t, pc'[u] # "gone" PROVE StackInv(u)' /\ PlaceInv(u)'
  <2>1. \A w \in Lazies : owner'[w] = u <=> owner[w] = u
    BY <1>1, <1>3, <1>4, NoneAssumption
  <2> QED
    BY <1>3, <1>4, <2>1, OtherThread DEF LockMutex, Goto, IInv, TypeOK
<1>5. StackInv(t)'
  <2>1. StackInv(t) /\ Holds(t) = OnStack(t) /\ Holds(t)' = OnStack(t) \union {v}
    BY <1>1, <1>3, HoldsIs, StackType DEF IInv, At, Holds, OnStack
  <2>2. v \notin OnStack(t)
    <3>1. ASSUME v \in OnStack(t) PROVE v \notin adopted
      <4>1. value[v] = "unset"
        BY <2>1, <3>1 DEF StackInv
      <4> QED
        BY <4>1, PlainAssumption DEF IInv, AdoptedInv, Plain
    <3> QED
      BY <1>1, <2>1, <3>1 DEF StackInv
  <2>3. \A w \in Lazies \ adopted' : owner'[w] = t <=> w \in Holds(t)'
    BY <1>3, <2>1 DEF StackInv
  <2>4. OnStack(t)' = OnStack(t)
    BY DEF LockMutex, OnStack
  <2> QED
    BY <1>3, <2>1, <2>2, <2>3, <2>4 DEF LockMutex, StackInv
<1>6. PlaceInv(t)'
  BY <1>1, <1>3 DEF LockMutex, IInv, PlaceInv
<1>7. SemInv'
  <2>1. Free' = Free
    BY <1>1, <1>3 DEF LockMutex, Goto, Free, IInv, TypeOK
  <2> QED
    BY <2>1, FreeKept DEF LockMutex
<1> QED
  BY <1>2, <1>4, <1>5, <1>6, <1>7 DEF IInv

LEMMA EnterStep ==
  ASSUME IInv, astray = None, NEW t \in Threads, Enter(t)
  PROVE  IInv'
<1> DEFINE v == want[t]
           n == Len(stack[t])
<1>1. pc[t] = "force" /\ v \in Lazies /\ value[v] = "unset" /\ StackInv(t) /\ PlaceInv(t)
  BY DEF Enter, IInv, PlaceInv
<1>2. n \in Nat /\ stack[t] \in Seq(Lazies) /\ v \notin OnStack(t)
  BY <1>1, StackType DEF IInv, TypeOK, StackInv, At
<1>3. /\ stack'[t] \in Seq(Lazies) /\ Len(stack'[t]) = n + 1
      /\ \A i \in 1 .. n : stack'[t][i] = stack[t][i]
      /\ stack'[t][n + 1] = v
  BY <1>1, <1>2, AppendProperties DEF Enter, IInv, TypeOK
<1>4. TypeOK' /\ AdoptedInv'
  BY <1>3 DEF Enter, Through, GotoFor, Goto, IInv, TypeOK, AdoptedInv, history
<1>5. ASSUME NEW u \in Threads, u # t, pc'[u] # "gone" PROVE StackInv(u)' /\ PlaceInv(u)'
  BY <1>5, OtherThread DEF Enter, Through, GotoFor, Goto, IInv, TypeOK, history
<1>6. pc'[t] = "run" /\ owner' = owner /\ value' = value /\ count' = count /\ adopted' = adopted
  BY DEF Enter, Through, GotoFor, Goto, IInv, TypeOK, history
<1>7. OnStack(t)' = OnStack(t) \union {v}
  <2>1. 1 .. (n + 1) = (1 .. n) \union {n + 1}
    BY <1>2
  <2> QED
    BY <1>3, <2>1 DEF OnStack
<1>8. StackInv(t)'
  <2>1. Holds(t) = OnStack(t) \union {v} /\ Holds(t)' = OnStack(t) \union {v}
    <3>1. Holds(t) = OnStack(t) \union {v}
      BY <1>1, HoldsIs DEF IInv, At
    <3>2. DOMAIN stack'[t] = 1 .. Len(stack'[t])
      BY <1>3, LenProperties
    <3> QED
      BY <1>6, <1>7, <3>1, <3>2 DEF Holds, OnStack
  <2>2. ASSUME NEW i \in 1 .. (n + 1), NEW j \in 1 .. (n + 1), stack'[t][i] = stack'[t][j]
        PROVE  i = j
    <3>1. \A k \in 1 .. n : stack'[t][k] # v
      BY <1>2, <1>3 DEF OnStack
    <3> QED
      BY <1>1, <1>2, <1>3, <2>2, <3>1 DEF StackInv
  <2> QED
    BY <1>1, <1>3, <1>6, <1>7, <2>1, <2>2 DEF StackInv, At
<1>9. PlaceInv(t)'
  <2>1. count[t] <= n + 1
    BY <1>1 DEF PlaceInv
  <2> QED
    BY <1>2, <1>3, <1>6, <2>1 DEF PlaceInv
<1>10. SemInv'
  <2>1. Free' = Free
    BY <1>1, <1>6 DEF Enter, Through, GotoFor, Goto, Free, IInv, TypeOK
  <2> QED
    BY <2>1, FreeKept DEF Enter
<1> QED
  BY <1>4, <1>5, <1>8, <1>9, <1>10 DEF IInv

LEMMA ReturnStep ==
  ASSUME IInv, astray = None, NEW t \in Threads, Return(t)
  PROVE  IInv'
<1> DEFINE n == Len(stack[t])
           v == stack[t][n]
<1>1. /\ pc[t] \in {"run", "adopt"} /\ StackInv(t) /\ PlaceInv(t) /\ n \in 1 .. n
      /\ v \in Lazies /\ n \in Nat /\ v \in OnStack(t)
  BY StackType DEF Return, IInv, OnStack
<1>2. PICK r \in Results(v) : value' = [value EXCEPT ![v] = r]
  BY DEF Return, Top
<1>3. /\ r \in Plain \union Lazies
      /\ n - 1 \in 0 .. Len(stack[t]) /\ CutTo(t, n - 1) /\ GotoFor(t, "force", v, "force")
      /\ UNCHANGED <<mustShare, owner, given, count, sem, history>>
  BY <1>1, DepsAssumption DEF Results, Plain, Return, Top, CutTo
<1>4. /\ stack' \in [Threads -> Seq(Lazies)]
      /\ Len(stack'[t]) = n - 1
      /\ \A i \in 1 .. (n - 1) : stack'[t][i] = stack[t][i]
      /\ \A u \in Threads \ {t} : stack'[u] = stack[u]
  BY <1>3, Cut DEF IInv
<1>5. /\ pc'[t] = "force" /\ want'[t] = v
      /\ \A u \in Threads \ {t} : pc'[u] = pc[u] /\ want'[u] = want[u]
  BY <1>3 DEF GotoFor, Goto, IInv, TypeOK
<1>6. value[v] = "unset" /\ v \notin adopted /\ owner[v] = t
  <2>1. value[v] = "unset"
    BY <1>1 DEF StackInv
  <2>2. v \notin adopted
    BY <2>1, PlainAssumption DEF IInv, AdoptedInv, Plain
  <2> QED
    BY <1>1, <2>1, <2>2, HoldsIs DEF StackInv, IInv
<1>7. TypeOK' /\ AdoptedInv'
  <2>1. TypeOK'
    BY <1>1, <1>2, <1>3, <1>4 DEF GotoFor, Goto, IInv, TypeOK, history
  <2>2. AdoptedInv'
    BY <1>2, <1>3, <1>6 DEF IInv, TypeOK, AdoptedInv, history
  <2> QED
    BY <2>1, <2>2
<1>8. \A w \in Lazies : w # v => value'[w] = value[w]
  BY <1>2 DEF IInv, TypeOK
<1>9. ASSUME NEW u \in Threads, u # t, pc'[u] # "gone" PROVE StackInv(u)' /\ PlaceInv(u)'
  <2>1. \A w \in Lazies \ adopted : owner[w] = u => value'[w] = value[w]
    BY <1>6, <1>8, <1>9
  <2> QED
    BY <1>3, <1>4, <1>5, <1>9, <2>1, OtherThread DEF history
<1>10. StackInv(t)'
  <2>1. Unwound(t, n) = {}
    BY <1>1 DEF Unwound, Above, At
  <2>2. \A i \in 1 .. (n - 1) : i \in 1 .. n /\ i # n
    BY <1>1
  <2>3. \A i \in 1 .. (n - 1) : value'[stack[t][i]] = value[stack[t][i]]
    BY <1>1, <1>8, <2>2, StackType DEF StackInv, IInv
  <2>4. n \in 0 .. Len(stack[t]) /\ n - 1 \in Nat /\ n - 1 <= n
    BY <1>1
  <2>5. At(t)' /\ n = (n - 1) + 1 /\ want'[t] = stack[t][n]
    BY <1>1, <1>5 DEF At
  <2> QED
    BY <1>1, <1>3, <1>4, <1>7, <2>1, <2>3, <2>4, <2>5, OwnStack DEF history
<1>11. PlaceInv(t)'
  <2>1. count[t] <= n + 0
    BY <1>1 DEF PlaceInv
  <2>2. count'[t] <= Len(stack'[t]) + 1
    BY <1>1, <1>3, <1>4, <2>1
  <2> QED
    BY <1>1, <1>5, <2>2 DEF PlaceInv
<1>12. SemInv'
  <2>1. Free' = Free
    BY <1>1, <1>3, <1>5 DEF GotoFor, Goto, Free, IInv, TypeOK
  <2> QED
    BY <1>3, <2>1, FreeKept
<1> QED
  BY <1>7, <1>9, <1>10, <1>11, <1>12 DEF IInv

(* A thread unwinds to a frame and is then at no lazy value.               *)
LEMMA Unwinds ==
  ASSUME IInv, astray = None, NEW t \in Threads, pc[t] \notin {"new", "gone", "mutex"},
         NEW n \in 0 .. Len(stack[t]), UnlockedTo(t, n), Len(stack'[t]) = n,
         \A i \in 1 .. n : stack'[t][i] = stack[t][i],
         pc'[t] \in {"run", "error", "sem", "unlock", "unlockTry", "caught"},
         pc'[t] \in {"sem", "unlock", "unlockTry", "caught"} => want'[t] \in Lazies,
         pc'[t] = "unlockTry" => n > 0,
         \A u \in Threads \ {t} : pc'[u] = pc[u] /\ want'[u] = want[u] /\ stack'[u] = stack[u],
         TypeOK', adopted' = adopted,
         \A w \in Lazies : w \notin Unwound(t, n) => value'[w] = value[w],
         \A w \in Lazies : value[w] \in Lazies => value'[w] = value[w]
  PROVE  IInv'
<1>1. AdoptedInv'
  BY DEF IInv, TypeOK, AdoptedInv
<1>2. SemInv'
  BY DEF UnlockedTo
<1>3. ASSUME NEW u \in Threads, u # t, pc'[u] # "gone" PROVE StackInv(u)' /\ PlaceInv(u)'
  <2>1. \A w \in Lazies \ adopted' : owner'[w] = u <=> owner[w] = u
    BY <1>3 DEF UnlockedTo
  <2>2. \A w \in Lazies \ adopted : owner[w] = u => value'[w] = value[w]
    BY <1>3 DEF UnlockedTo
  <2>3. count'[u] = count[u]
    BY <1>3 DEF UnlockedTo
  <2> QED
    BY <1>3, <2>1, <2>2, <2>3, OtherThread
<1>4. StackInv(t)'
  <2>1. n \in Nat /\ ~At(t)' /\ n <= n
    BY StackType DEF At, IInv
  <2>2. \A w \in Lazies \ adopted : owner'[w] = t <=> (owner[w] = t /\ w \notin Unwound(t, n))
    BY DEF UnlockedTo
  <2>3. ASSUME NEW i \in 1 .. n PROVE value'[stack[t][i]] = value[stack[t][i]]
    <3>1. /\ stack[t][i] \in {stack[t][j] : j \in 1 .. n}
          /\ StackInv(t) /\ OnStack(t) \subseteq Lazies
      BY StackType DEF IInv
    <3>2. stack[t][i] \in OnStack(t) \ Above(t, n)
      BY <3>1, UpTo DEF IInv, StackInv
    <3>3. stack[t][i] \in Lazies /\ stack[t][i] \notin Unwound(t, n)
      BY <3>1, <3>2 DEF StackInv, Unwound
    <3> QED
      BY <3>3
  <2> QED
    BY <2>1, <2>2, <2>3, OwnStack
<1>5. PlaceInv(t)'
  <2>1. count'[t] <= n /\ count'[t] \in Nat /\ n \in Nat
    BY StackType DEF UnlockedTo, IInv
  <2>2. count'[t] <= Len(stack'[t]) + 0
    BY <2>1
  <2>3. n > 0 => stack'[t] # <<>>
    BY <2>1
  <2> QED
    BY <2>2, <2>3 DEF PlaceInv
<1> QED
  BY <1>1, <1>2, <1>3, <1>4, <1>5 DEF IInv

(* A thread unwinds to a frame that catches an error as a try's result.    *)
LEMMA Stores ==
  ASSUME IInv, astray = None, NEW t \in Threads, pc[t] \notin {"new", "gone", "mutex"},
         NEW n \in 1 .. Len(stack[t]), UnlockedTo(t, n), StoreWrong(t, n),
         UNCHANGED <<mustShare, given, adopted>>, astray' \in Lazies \union {None}
  PROVE  IInv'
<1> DEFINE v == stack[t][n]
<1>1. /\ n \in Nat /\ n \in 0 .. Len(stack[t]) /\ n - 1 \in 0 .. Len(stack[t]) /\ v \in Lazies
      /\ v \in OnStack(t) /\ Len(stack[t]) \in Nat /\ StackInv(t)
  BY StackType DEF IInv, OnStack
<1>2. /\ CutTo(t, n - 1) /\ value' = [value EXCEPT ![v] = "wrong"]
      /\ GotoFor(t, "force", v, "force")
  BY DEF StoreWrong
<1>3. /\ stack' \in [Threads -> Seq(Lazies)]
      /\ Len(stack'[t]) = n - 1
      /\ \A i \in 1 .. (n - 1) : stack'[t][i] = stack[t][i]
      /\ \A u \in Threads \ {t} : stack'[u] = stack[u]
  BY <1>1, <1>2, Cut DEF IInv
<1>4. /\ pc'[t] = "force" /\ want'[t] = v
      /\ \A u \in Threads \ {t} : pc'[u] = pc[u] /\ want'[u] = want[u]
  BY <1>2 DEF GotoFor, Goto, IInv, TypeOK
<1>5. value[v] = "unset" /\ v \notin adopted /\ owner[v] = t
  <2>1. value[v] = "unset"
    BY <1>1 DEF StackInv
  <2>2. v \notin adopted
    BY <2>1, PlainAssumption DEF IInv, AdoptedInv, Plain
  <2> QED
    BY <1>1, <2>1, <2>2, HoldsIs DEF StackInv, IInv
<1>6. TypeOK' /\ AdoptedInv'
  <2>1. value' \in [Lazies -> Plain \union Lazies]
    BY <1>1, <1>2 DEF IInv, TypeOK, Plain
  <2>2. TypeOK'
    BY <1>1, <1>2, <1>3, <2>1 DEF GotoFor, Goto, IInv, TypeOK, UnlockedTo
  <2>3. AdoptedInv'
    BY <1>2, <1>5 DEF IInv, TypeOK, AdoptedInv
  <2> QED
    BY <2>2, <2>3
<1>7. \A w \in Lazies : w # v => value'[w] = value[w]
  BY <1>2 DEF IInv, TypeOK
<1>8. ASSUME NEW u \in Threads, u # t, pc'[u] # "gone" PROVE StackInv(u)' /\ PlaceInv(u)'
  <2>1. \A w \in Lazies \ adopted' : owner'[w] = u <=> owner[w] = u
    BY <1>8 DEF UnlockedTo
  <2>2. \A w \in Lazies \ adopted : owner[w] = u => value'[w] = value[w]
    BY <1>5, <1>7, <1>8
  <2>3. count'[u] = count[u]
    BY <1>8 DEF UnlockedTo
  <2> QED
    BY <1>3, <1>4, <1>8, <2>1, <2>2, <2>3, OtherThread
<1>9. StackInv(t)'
  <2>1. \A i \in 1 .. (n - 1) : i \in 1 .. Len(stack[t]) /\ i # n
    BY <1>1
  <2>2. \A i \in 1 .. (n - 1) : value'[stack[t][i]] = value[stack[t][i]]
    BY <1>1, <1>7, <2>1, StackType DEF StackInv, IInv
  <2>3. n - 1 \in Nat /\ n - 1 <= n
    BY <1>1
  <2>4. At(t)' /\ n = (n - 1) + 1 /\ want'[t] = stack[t][n]
    BY <1>1, <1>4 DEF At
  <2>5. \A w \in Lazies \ adopted : owner'[w] = t <=> (owner[w] = t /\ w \notin Unwound(t, n))
    BY DEF UnlockedTo
  <2> QED
    BY <1>1, <1>3, <1>6, <2>2, <2>3, <2>4, <2>5, OwnStack
<1>10. PlaceInv(t)'
  <2>1. count'[t] <= Len(stack'[t]) + 1
    BY <1>1, <1>3 DEF UnlockedTo
  <2> QED
    BY <1>1, <1>4, <2>1 DEF PlaceInv
<1> QED
  BY <1>6, <1>8, <1>9, <1>10 DEF IInv, UnlockedTo

(* A thread unlocks the lazy value it is at, and leaves its stack alone.   *)
LEMMA LetGo ==
  ASSUME IInv, astray = None, NEW t \in Threads, At(t), Unlock(t, {want[t]}),
         pc'[t] \in {"run", "error", "sem", "caught"},
         \A u \in Threads \ {t} : pc'[u] = pc[u]
  PROVE  UnlockedTo(t, Len(stack[t])) /\ Unwound(t, Len(stack[t])) = {want[t]}
<1>1. Len(stack[t]) \in Nat /\ Len(stack[t]) \in 0 .. Len(stack[t])
  BY StackType DEF IInv
<1>2. Unwound(t, Len(stack[t])) = {want[t]}
  BY <1>1 DEF Unwound, Above
<1>3. pc[t] \notin {"new", "gone", "mutex"} /\ pc'[t] \notin {"new", "gone"}
  BY DEF At
<1>4. Unlock(t, Unwound(t, Len(stack[t])))
  BY <1>2
<1>5. UnlockedTo(t, Len(stack[t]))
  BY <1>1, <1>3, <1>4, Unwinding
<1> QED
  BY <1>2, <1>5

LEMMA TakeValueStep ==
  ASSUME IInv, astray = None, NEW t \in Threads, TakeValue(t)
  PROVE  IInv'
<1> DEFINE v == want[t]
           n == Len(stack[t])
<1>1. /\ pc[t] = "force" /\ Unlock(t, {v}) /\ v \in Lazies
      /\ UNCHANGED <<mustShare, stack, history>> /\ At(t)
      /\ n \in Nat /\ n \in 0 .. n
  <2>1. n \in Nat
    BY StackType DEF IInv
  <2>2. pc[t] = "force" /\ At(t)
    BY DEF TakeValue, At
  <2>3. want[t] \in Lazies
    BY <2>2 DEF IInv, PlaceInv
  <2> QED
    BY <2>1, <2>2, <2>3 DEF TakeValue
<1>2. PICK to \in {"run", "error", "sem"}, x \in Lazies \union {None} :
        GotoFor(t, to, x, "force") /\ (to = "sem" => x \in Lazies)
  BY DEF TakeValue, Through
<1>3. /\ value' = value \/ (value[v] = "unique" /\ value' = [value EXCEPT ![v] = "canceled"])
      /\ given' \in {given, [given EXCEPT ![v] = @ + 1]}
  BY <1>1 DEF TakeValue, IInv, TypeOK
<1>4. /\ pc'[t] = to /\ want'[t] = x
      /\ \A u \in Threads \ {t} : pc'[u] = pc[u] /\ want'[u] = want[u]
  BY <1>2 DEF GotoFor, Goto, IInv, TypeOK
<1>5. UnlockedTo(t, n) /\ Unwound(t, n) = {v}
  BY <1>1, <1>4, LetGo
<1>6. TypeOK'
  <2>1. value' \in [Lazies -> Plain \union Lazies]
    <3>1. value \in [Lazies -> Plain \union Lazies] /\ "canceled" \in Plain
      BY DEF IInv, TypeOK, Plain
    <3>2. CASE value' = value
      BY <3>1, <3>2
    <3>3. CASE value' = [value EXCEPT ![v] = "canceled"]
      BY <3>1, <3>3
    <3> QED
      BY <1>3, <3>2, <3>3
  <2>2. given' \in [Lazies -> Nat]
    <3>1. CASE given' = given
      BY <3>1 DEF IInv, TypeOK
    <3>2. CASE given' = [given EXCEPT ![v] = @ + 1]
      BY <1>1, <3>2 DEF IInv, TypeOK
    <3> QED
      BY <1>3, <3>1, <3>2
  <2> QED
    BY <1>1, <1>2, <1>5, <2>1, <2>2 DEF GotoFor, Goto, IInv, TypeOK, UnlockedTo, history
<1>7. \A w \in Lazies : w \notin Unwound(t, n) => value'[w] = value[w]
  BY <1>3, <1>5 DEF IInv, TypeOK
<1>8. \A w \in Lazies : value[w] \in Lazies => value'[w] = value[w]
  BY <1>3, PlainAssumption DEF IInv, TypeOK, Plain
<1> HIDE DEF v, n
<1>9. Len(stack'[t]) = n /\ \A i \in 1 .. n : stack'[t][i] = stack[t][i]
  BY <1>1 DEF n
<1>10. /\ pc[t] \notin {"new", "gone", "mutex"} /\ pc'[t] \in {"run", "error", "sem"}
       /\ (pc'[t] = "sem" => want'[t] \in Lazies) /\ n \in 0 .. Len(stack[t])
       /\ adopted' = adopted /\ \A u \in Threads \ {t} : stack'[u] = stack[u]
  BY <1>1, <1>2, <1>4 DEF history, n
<1> QED
  BY <1>4, <1>5, <1>6, <1>7, <1>8, <1>9, <1>10, Unwinds

LEMMA ShareStep ==
  ASSUME IInv, astray = None, NEW t \in Threads, Share(t)
  PROVE  IInv'
<1> DEFINE v == want[t]
           n == Len(stack[t])
<1>1. /\ pc[t] = "share" /\ Unlock(t, {v}) /\ v \in Lazies
      /\ UNCHANGED <<value, given, stack, history>>
      /\ mustShare' \in [Lazies -> BOOLEAN] /\ At(t)
      /\ n \in Nat /\ n \in 0 .. n
  <2>1. n \in Nat
    BY StackType DEF IInv
  <2>2. pc[t] = "share" /\ At(t)
    BY DEF Share, At
  <2>3. want[t] \in Lazies
    BY <2>2 DEF IInv, PlaceInv
  <2> QED
    BY <2>1, <2>2, <2>3 DEF Share, IInv, TypeOK
<1>2. PICK to \in {"run", "error", "sem"}, x \in Lazies \union {None}, j \in {"force", "share"} :
        GotoFor(t, to, x, j) /\ (to = "sem" => x \in Lazies)
  BY DEF Share, Through
<1>3. /\ pc'[t] = to /\ want'[t] = x
      /\ \A u \in Threads \ {t} : pc'[u] = pc[u] /\ want'[u] = want[u]
  BY <1>2 DEF GotoFor, Goto, IInv, TypeOK
<1>4. UnlockedTo(t, n)
  BY <1>1, <1>3, LetGo
<1>5. TypeOK'
  BY <1>1, <1>2, <1>4 DEF GotoFor, Goto, IInv, TypeOK, UnlockedTo, history
<1> HIDE DEF v, n
<1>6. Len(stack'[t]) = n /\ \A i \in 1 .. n : stack'[t][i] = stack[t][i]
  BY <1>1 DEF n
<1> QED
  BY <1>1, <1>2, <1>3, <1>4, <1>5, <1>6, Unwinds DEF history, n

LEMMA EnterCaughtStep ==
  ASSUME IInv, astray = None, NEW t \in Threads, EnterCaught(t)
  PROVE  IInv'
<1> DEFINE n == Len(stack[t])
<1>1. /\ pc[t] = "force" /\ Unlock(t, {want[t]}) /\ want[t] \in Lazies /\ Goto(t, "caught")
      /\ UNCHANGED <<value, mustShare, given, stack, job, want, history>> /\ At(t)
      /\ n \in Nat /\ n \in 0 .. n
  <2>1. n \in Nat
    BY StackType DEF IInv
  <2>2. pc[t] = "force" /\ At(t)
    BY DEF EnterCaught, Entering, At
  <2>3. want[t] \in Lazies
    BY <2>2 DEF IInv, PlaceInv
  <2> QED
    BY <2>1, <2>2, <2>3 DEF EnterCaught
<1>2. pc'[t] = "caught" /\ \A u \in Threads \ {t} : pc'[u] = pc[u]
  BY <1>1 DEF Goto, IInv, TypeOK
<1>3. UnlockedTo(t, n)
  BY <1>1, <1>2, LetGo
<1>4. TypeOK'
  BY <1>1, <1>3 DEF Goto, IInv, TypeOK, UnlockedTo, history
<1> HIDE DEF n
<1>5. Len(stack'[t]) = n /\ \A i \in 1 .. n : stack'[t][i] = stack[t][i]
  BY <1>1 DEF n
<1>6. /\ pc[t] \notin {"new", "gone", "mutex"} /\ want'[t] \in Lazies
      /\ n \in 0 .. Len(stack[t]) /\ adopted' = adopted /\ value' = value
      /\ \A u \in Threads \ {t} : want'[u] = want[u] /\ stack'[u] = stack[u]
  BY <1>1 DEF history, n
<1> QED
  BY <1>2, <1>3, <1>4, <1>5, <1>6, Unwinds

(* set_error, in the function of a lazy value or while one is set up.      *)
LEMMA SetErrorStep ==
  ASSUME IInv, astray = None, NEW t \in Threads, SetError(t) \/ EnterFails(t) \/ EnterOverflows(t)
  PROVE  IInv'
<1>1. pc[t] \in {"run", "error", "force"} /\ UNCHANGED <<mustShare, given, history>>
  BY DEF SetError, EnterFails, EnterOverflows, Entering
<1>2. \A n : Unwound(t, n) = IF pc[t] = "force" THEN Above(t, n) \union {want[t]} ELSE Above(t, n)
  BY <1>1 DEF Unwound, At
<1>3. ASSUME NEW n \in 0 .. Len(stack[t]), Unlock(t, Unwound(t, n)), CutTo(t, n), value' = value,
             NEW to \in {"run", "unlock", "unlockTry"}, NEW x \in Lazies \union {None},
             NEW j \in {"force", "share"}, GotoFor(t, to, x, j),
             to # "run" => x \in Lazies, to = "unlockTry" => n > 0
      PROVE  IInv'
  <2>1. /\ pc'[t] = to /\ want'[t] = x
        /\ \A u \in Threads \ {t} : pc'[u] = pc[u] /\ want'[u] = want[u]
    BY <1>3 DEF GotoFor, Goto, IInv, TypeOK
  <2>2. UnlockedTo(t, n)
    BY <1>1, <1>3, <2>1, Unwinding
  <2>3. /\ stack' \in [Threads -> Seq(Lazies)]
        /\ Len(stack'[t]) = n
        /\ \A i \in 1 .. n : stack'[t][i] = stack[t][i]
        /\ \A u \in Threads \ {t} : stack'[u] = stack[u]
    BY <1>3, Cut DEF IInv
  <2>4. TypeOK'
    BY <1>1, <1>3, <2>2, <2>3 DEF GotoFor, Goto, IInv, TypeOK, UnlockedTo, history
  <2> QED
    BY <1>1, <1>3, <2>1, <2>2, <2>3, <2>4, Unwinds DEF history
<1>4. ASSUME NEW n \in 1 .. Len(stack[t]), Unlock(t, Unwound(t, n)), StoreWrong(t, n)
      PROVE  IInv'
  <2>1. /\ pc'[t] = "force" /\ \A u \in Threads \ {t} : pc'[u] = pc[u]
        /\ n \in 0 .. Len(stack[t])
    BY <1>4, StackType DEF StoreWrong, GotoFor, Goto, IInv, TypeOK
  <2>2. UnlockedTo(t, n)
    BY <1>1, <1>4, <2>1, Unwinding
  <2>3. astray' \in Lazies \union {None}
    BY <1>1 DEF IInv, TypeOK, history
  <2> QED
    BY <1>1, <1>4, <2>2, <2>3, Stores DEF history
<1>5. CASE SetError(t)
  <2>1. /\ pc[t] \in {"run", "error"} /\ Goto(t, "run")
        /\ UNCHANGED <<value, mustShare, given, job, want, history>>
    BY <1>5 DEF SetError
  <2>2. PICK n \in 0 .. Len(stack[t]) : Unlock(t, Unwound(t, n)) /\ CutTo(t, n)
    BY <1>2, <1>5, <2>1 DEF SetError
  <2>3. GotoFor(t, "run", want[t], job[t])
    BY <2>1 DEF GotoFor, IInv, TypeOK
  <2>4. want[t] \in Lazies \union {None} /\ job[t] \in {"force", "share"}
    BY DEF IInv, TypeOK
  <2> QED
    BY <1>3, <2>1, <2>2, <2>3, <2>4
<1>6. CASE EnterFails(t)
  <2>1. pc[t] = "force"
    BY <1>6 DEF EnterFails, Entering
  <2>2. CASE \E n \in 0 .. Len(stack[t]) : /\ Unlock(t, Above(t, n) \union {want[t]}) /\ CutTo(t, n)
                                           /\ Through(t, "run") /\ UNCHANGED value
    BY <1>2, <1>3, <2>1, <2>2 DEF Through
  <2>3. CASE \E n \in 1 .. Len(stack[t]) : /\ Unlock(t, Above(t, n) \union {want[t]})
                                           /\ StoreWrong(t, n)
    BY <1>2, <1>4, <2>1, <2>3
  <2> QED
    BY <1>6, <2>2, <2>3 DEF EnterFails
<1>7. CASE EnterOverflows(t)
  <2>1. pc[t] = "force" /\ UNCHANGED <<value, mustShare, given, job, want, history>>
    BY <1>7 DEF EnterOverflows, Entering
  <2>2. PICK n \in 0 .. Len(stack[t]), to \in {"unlock", "unlockTry"} :
          /\ Unlock(t, Unwound(t, n)) /\ CutTo(t, n) /\ Goto(t, to)
          /\ to = "unlockTry" => n > 0
    BY <1>2, <1>7, <2>1 DEF EnterOverflows
  <2>3. GotoFor(t, to, want[t], job[t])
    BY <2>1, <2>2 DEF GotoFor, IInv, TypeOK
  <2>4. want[t] \in Lazies /\ job[t] \in {"force", "share"}
    BY <2>1 DEF IInv, TypeOK, PlaceInv
  <2> QED
    BY <1>3, <2>1, <2>2, <2>3, <2>4
<1> QED
  BY <1>5, <1>6, <1>7

LEMMA SetErrorInTryStep ==
  ASSUME IInv, astray = None, NEW t \in Threads, SetErrorInTry(t)
  PROVE  IInv'
<1>1. pc[t] \in {"run", "error"} /\ UNCHANGED <<mustShare, given, history>>
  BY DEF SetErrorInTry
<1>2. PICK n \in 1 .. Len(stack[t]) : Unlock(t, Unwound(t, n)) /\ StoreWrong(t, n)
  BY <1>1 DEF SetErrorInTry, Unwound, At
<1>3. /\ pc'[t] = "force" /\ \A u \in Threads \ {t} : pc'[u] = pc[u]
      /\ n \in 0 .. Len(stack[t])
  BY <1>2, StackType DEF StoreWrong, GotoFor, Goto, IInv, TypeOK
<1>4. UnlockedTo(t, n)
  BY <1>1, <1>2, <1>3, Unwinding
<1>5. astray' \in Lazies \union {None}
  BY <1>1 DEF IInv, TypeOK, history
<1> QED
  BY <1>1, <1>2, <1>4, <1>5, Stores DEF history

(* The destructor of the unique_lock unlocks the mutex a second time: if   *)
(* another thread has it by then, the two are astray, and otherwise        *)
(* nothing more than the count and the semaphore has changed.              *)
LEMMA UnlockAgainStep ==
  ASSUME IInv, astray = None, NEW t \in Threads, UnlockAgain(t)
  PROVE  IInv'
<1> DEFINE v == want[t]
           n == Len(stack[t])
<1>1. /\ pc[t] \in {"unlock", "unlockTry"} /\ Unlock(t, {v}) /\ v \in Lazies /\ PlaceInv(t)
      /\ UNCHANGED <<mustShare, given, adopted>> /\ n \in Nat /\ n \in 0 .. n
      /\ stack[t] = <<>> <=> n = 0
      /\ astray' = IF owner[v] = None THEN None ELSE v
  <2>1. n \in Nat /\ (stack[t] = <<>> <=> n = 0)
    BY StackType DEF IInv
  <2>2. pc[t] \in {"unlock", "unlockTry"}
    BY DEF UnlockAgain
  <2>3. v \in Lazies /\ PlaceInv(t)
    BY <2>2 DEF IInv, PlaceInv
  <2> QED
    BY <2>1, <2>2, <2>3 DEF UnlockAgain
<1>2. /\ (pc[t] = "unlock" /\ GotoFor(t, "run", None, "force") /\ UNCHANGED <<value, stack>>)
         \/ (pc[t] = "unlockTry" /\ StoreWrong(t, n))
  BY DEF UnlockAgain, Through
<1>3. \E to \in {"run", "force"}, x \in Lazies \union {None} : GotoFor(t, to, x, "force")
  BY <1>1, <1>2, StackType DEF StoreWrong, PlaceInv, IInv
<1>4. /\ pc'[t] \in {"run", "force"}
      /\ \A u \in Threads \ {t} : pc'[u] = pc[u] /\ want'[u] = want[u]
  BY <1>3 DEF GotoFor, Goto, IInv, TypeOK
<1>5. IsFiniteSet({v}) /\ Cardinality({v}) = 1
  BY FS_Singleton
<1>6. /\ owner' \in [Lazies -> Threads \union {None}]
      /\ \A w \in Lazies, u \in Threads : owner'[w] = u <=> (owner[w] = u /\ w \notin {v})
      /\ count' \in [Threads -> Nat]
      /\ count'[t] = Minus(count[t], 1)
      /\ \A u \in Threads \ {t} : count'[u] = count[u]
      /\ sem' \in Nat
      /\ SemInv'
  <2>1. pc[t] \notin {"new", "gone"} /\ pc'[t] \notin {"new", "gone"} /\ {v} \in SUBSET Lazies
    BY <1>1, <1>4
  <2> HIDE DEF v
  <2> QED
    BY <1>1, <1>4, <1>5, <2>1, Unlocking
<1>7. count[t] \in Nat /\ count[t] <= n + 0
  BY <1>1 DEF PlaceInv, IInv, TypeOK
<1>8. count'[t] <= n /\ count'[t] \in Nat
  BY <1>1, <1>6, <1>7 DEF Minus
<1>9. CASE owner[v] = None
  <2>1. Unwound(t, n) = {}
    BY <1>1 DEF Unwound, Above, At
  <2>2. UnlockedTo(t, n)
    BY <1>1, <1>6, <1>8, <1>9, <2>1, NoneAssumption DEF UnlockedTo
  <2>3. astray' = None
    BY <1>1, <1>9
  <2>4. CASE pc[t] = "unlock"
    <3>1. GotoFor(t, "run", None, "force") /\ UNCHANGED <<value, stack>>
      BY <1>2, <2>4
    <3>2. TypeOK'
      BY <1>1, <1>6, <2>3, <3>1 DEF GotoFor, Goto, IInv, TypeOK
    <3>3. pc'[t] = "run"
      BY <3>1 DEF GotoFor, Goto, IInv, TypeOK
    <3> HIDE DEF v, n
    <3>4. /\ Len(stack'[t]) = n /\ (\A i \in 1 .. n : stack'[t][i] = stack[t][i])
          /\ n \in 0 .. Len(stack[t])
      BY <1>1, <3>1 DEF n
    <3> QED
      BY <1>1, <1>4, <2>2, <2>4, <3>1, <3>2, <3>3, <3>4, Unwinds
  <2>5. CASE pc[t] = "unlockTry"
    <3>1. n \in 1 .. n /\ StoreWrong(t, n)
      BY <1>1, <1>2, <2>5 DEF PlaceInv
    <3> QED
      BY <1>1, <2>2, <2>3, <2>5, <3>1, Stores
  <2> QED
    BY <1>1, <2>4, <2>5
<1>10. CASE owner[v] # None
  <2>1. astray' # None /\ astray' \in Lazies
    BY <1>1, <1>10, NoneAssumption
  <2>2. CASE pc[t] = "unlock"
    <3>1. GotoFor(t, "run", None, "force") /\ UNCHANGED <<value, stack>>
      BY <1>2, <2>2
    <3>2. TypeOK' /\ AdoptedInv'
      BY <1>1, <1>6, <2>1, <3>1 DEF GotoFor, Goto, IInv, TypeOK, AdoptedInv
    <3>3. PlaceInv(t)'
      <4>1. pc'[t] = "run" /\ count'[t] <= Len(stack'[t]) + 0
        BY <1>1, <1>8, <3>1 DEF GotoFor, Goto, IInv, TypeOK
      <4> QED
        BY <4>1 DEF PlaceInv
    <3>4. ASSUME NEW u \in Threads, u # t, pc'[u] # "gone" PROVE PlaceInv(u)'
      BY <1>4, <1>6, <3>1, <3>4, OtherPlace
    <3> QED
      BY <1>6, <2>1, <3>2, <3>3, <3>4 DEF IInv
  <2>3. CASE pc[t] = "unlockTry"
    <3> DEFINE w == stack[t][n]
    <3>1. n \in 1 .. n /\ n - 1 \in 0 .. n /\ StoreWrong(t, n)
      BY <1>1, <1>2, <2>3 DEF PlaceInv
    <3>2. /\ CutTo(t, n - 1) /\ value' = [value EXCEPT ![w] = "wrong"]
          /\ GotoFor(t, "force", w, "force")
      BY <3>1 DEF StoreWrong
    <3>3. /\ stack' \in [Threads -> Seq(Lazies)]
          /\ Len(stack'[t]) = n - 1
          /\ \A u \in Threads \ {t} : stack'[u] = stack[u]
      BY <3>1, <3>2, Cut DEF IInv
    <3>4. w \in Lazies /\ w \in OnStack(t) /\ StackInv(t)
      BY <1>1, <3>1, StackType DEF IInv, OnStack
    <3>5. value[w] = "unset"
      BY <3>4 DEF StackInv
    <3>6. value' \in [Lazies -> Plain \union Lazies]
      BY <3>2 DEF IInv, TypeOK, Plain
    <3>7. TypeOK'
      BY <1>1, <1>6, <2>1, <3>2, <3>3, <3>4, <3>6 DEF GotoFor, Goto, IInv, TypeOK
    <3>8. AdoptedInv'
      BY <1>1, <3>2, <3>5, PlainAssumption DEF IInv, TypeOK, AdoptedInv, Plain
    <3>9. PlaceInv(t)'
      <4>1. pc'[t] = "force" /\ want'[t] = w
        BY <3>2 DEF GotoFor, Goto, IInv, TypeOK
      <4>2. count'[t] <= Len(stack'[t]) + 1
        BY <1>1, <1>8, <3>3
      <4> QED
        BY <3>4, <4>1, <4>2 DEF PlaceInv
    <3>10. ASSUME NEW u \in Threads, u # t, pc'[u] # "gone" PROVE PlaceInv(u)'
      BY <1>4, <1>6, <3>3, <3>10, OtherPlace
    <3> QED
      BY <1>6, <2>1, <3>7, <3>8, <3>9, <3>10 DEF IInv
  <2> QED
    BY <1>1, <2>2, <2>3
<1> QED
  BY <1>9, <1>10

(* The rerun of an instruction whose frame caught the error stores a value *)
(* for a lazy value that nobody has, and that has none.                    *)
LEMMA StoreUnlockedStep ==
  ASSUME IInv, astray = None, NEW t \in Threads, StoreUnlocked(t)
  PROVE  IInv'
<1> DEFINE v == want[t]
<1>1. /\ pc[t] = "caught" /\ v \in Lazies /\ PlaceInv(t)
      /\ UNCHANGED <<mustShare, owner, given, stack, job, want, count, sem, adopted>>
  BY DEF StoreUnlocked, IInv, PlaceInv
<1>2. pc' = pc \/ pc' = [pc EXCEPT ![t] = "unlock"]
  BY DEF StoreUnlocked, Goto
<1>3. SemInv'
  <2>1. Free' = Free
    BY <1>1, <1>2 DEF Free, IInv, TypeOK
  <2> QED
    BY <1>1, <2>1, FreeKept
<1>4. ASSUME NEW u \in Threads, pc'[u] # "gone" PROVE PlaceInv(u)'
  <2>1. CASE u = t
    <3>1. pc'[t] \in {"caught", "unlock"} /\ count[t] <= Len(stack[t]) + 0
      BY <1>1, <1>2 DEF PlaceInv, IInv, TypeOK
    <3> QED
      BY <1>1, <2>1, <3>1 DEF PlaceInv
  <2>2. CASE u # t
    <3>1. pc'[u] = pc[u]
      BY <1>2, <2>2 DEF IInv, TypeOK
    <3> QED
      BY <1>1, <1>4, <3>1, OtherPlace
  <2> QED
    BY <2>1, <2>2
<1>5. CASE owner[v] = None /\ value[v] = "unset"
  <2>1. /\ value' = [value EXCEPT ![v] = "wrong"] /\ astray' = None
        /\ pc' = [pc EXCEPT ![t] = "unlock"]
    BY <1>5 DEF StoreUnlocked, Goto
  <2>2. value' \in [Lazies -> Plain \union Lazies]
    BY <2>1 DEF IInv, TypeOK, Plain
  <2>3. TypeOK'
    BY <1>1, <2>1, <2>2 DEF IInv, TypeOK
  <2>4. AdoptedInv' /\ v \notin adopted
    BY <1>1, <1>5, <2>1, PlainAssumption DEF IInv, TypeOK, AdoptedInv, Plain
  <2>5. \A w \in Lazies : w # v => value'[w] = value[w]
    BY <2>1 DEF IInv, TypeOK
  <2>6. ASSUME NEW u \in Threads, pc'[u] # "gone" PROVE StackInv(u)'
    <3>1. StackInv(u) /\ OnStack(u) \subseteq Lazies /\ OnStack(u) \subseteq Holds(u)
          /\ (At(u)' <=> At(u))
      BY <1>1, <2>1, <2>6, HoldsIs, StackType DEF IInv, TypeOK, At
    <3>2. v \notin OnStack(u)
      BY <1>1, <1>5, <2>4, <3>1, NoneAssumption DEF StackInv
    <3>3. Holds(u)' = Holds(u) /\ OnStack(u)' = OnStack(u)
      BY <1>1, <3>1 DEF Holds, OnStack, At
    <3>4. \A w \in OnStack(u) : value'[w] = "unset"
      BY <2>5, <3>1, <3>2 DEF StackInv
    <3> QED
      BY <1>1, <3>1, <3>3, <3>4 DEF StackInv
  <2> QED
    BY <1>3, <1>4, <2>3, <2>4, <2>6 DEF IInv
<1>6. CASE ~(owner[v] = None /\ value[v] = "unset")
  <2>1. astray' = v /\ UNCHANGED <<value, pc>>
    BY <1>6 DEF StoreUnlocked
  <2>2. astray' # None /\ TypeOK' /\ AdoptedInv'
    BY <1>1, <2>1, NoneAssumption DEF IInv, TypeOK, AdoptedInv
  <2> QED
    BY <1>3, <1>4, <2>2 DEF IInv
<1> QED
  BY <1>5, <1>6

(* An instruction that adopts a lazy value it has not locked unlocks it;   *)
(* if another thread had it, it is one that has been evaluated.            *)
LEMMA AdoptStep ==
  ASSUME IInv, astray = None, NEW t \in Threads, Adopt(t)
  PROVE  IInv'
<1> DEFINE v == want[t]
<1>1. /\ pc[t] = "adopt" /\ v \in Lazies /\ PlaceInv(t) /\ stack[t] # <<>> /\ StackInv(t)
      /\ UNCHANGED <<value, mustShare, given, stack>>
  BY DEF Adopt, IInv, PlaceInv
<1>2. CASE value[v] \in Lazies
  <2>1. /\ Unlock(t, {v}) /\ astray' = astray
        /\ adopted' = IF owner[v] = None THEN adopted ELSE adopted \union {v}
        /\ GotoFor(t, "adopt", value[v], "force")
    BY <1>2 DEF Adopt
  <2>2. /\ pc'[t] = "adopt" /\ want'[t] = value[v]
        /\ \A u \in Threads \ {t} : pc'[u] = pc[u] /\ want'[u] = want[u]
    BY <2>1 DEF GotoFor, Goto, IInv, TypeOK
  <2>3. IsFiniteSet({v}) /\ Cardinality({v}) = 1 /\ {v} \in SUBSET Lazies
    BY <1>1, FS_Singleton
  <2>4. /\ owner' \in [Lazies -> Threads \union {None}]
        /\ \A w \in Lazies, u \in Threads : owner'[w] = u <=> (owner[w] = u /\ w \notin {v})
        /\ count' \in [Threads -> Nat]
        /\ count'[t] = Minus(count[t], 1)
        /\ \A u \in Threads \ {t} : count'[u] = count[u]
        /\ sem' \in Nat
        /\ SemInv'
    <3> HIDE DEF v
    <3> QED
      BY <1>1, <2>1, <2>2, <2>3, Unlocking
  <2>5. TypeOK'
    BY <1>1, <1>2, <2>1, <2>4 DEF GotoFor, Goto, IInv, TypeOK
  <2>6. AdoptedInv' /\ adopted \subseteq adopted'
    BY <1>1, <1>2, <2>1 DEF IInv, AdoptedInv
  <2>7. \A w \in Lazies \ adopted', u \in Threads : owner'[w] = u <=> owner[w] = u
    <3>1. v \in adopted' \/ owner[v] = None
      BY <2>1
    <3> QED
      BY <2>4, <2>6, <3>1, NoneAssumption
  <2>8. ASSUME NEW u \in Threads, u # t, pc'[u] # "gone" PROVE StackInv(u)' /\ PlaceInv(u)'
    BY <1>1, <2>2, <2>4, <2>6, <2>7, <2>8, OtherThread
  <2>9. StackInv(t)'
    <3>1. Holds(t)' = Holds(t) /\ OnStack(t)' = OnStack(t) /\ ~At(t)'
      BY <1>1, <2>2 DEF Holds, OnStack, At
    <3> QED
      BY <1>1, <2>6, <2>7, <3>1 DEF StackInv
  <2>10. PlaceInv(t)'
    <3>1. Len(stack[t]) \in Nat /\ count[t] \in Nat /\ count[t] <= Len(stack[t]) + 0
      BY <1>1, StackType DEF PlaceInv, IInv, TypeOK
    <3>2. count'[t] <= Len(stack'[t]) + 0
      BY <1>1, <2>4, <3>1 DEF Minus
    <3> QED
      BY <1>1, <1>2, <2>2, <3>2 DEF PlaceInv
  <2> QED
    BY <2>4, <2>5, <2>6, <2>8, <2>9, <2>10 DEF IInv
<1>3. CASE value[v] \notin Lazies
  <2>1. astray' = v /\ UNCHANGED <<owner, count, sem, adopted, pc, want, job>>
    BY <1>3 DEF Adopt
  <2>2. astray' # None /\ TypeOK' /\ AdoptedInv'
    BY <1>1, <2>1, NoneAssumption DEF IInv, TypeOK, AdoptedInv
  <2>3. ASSUME NEW u \in Threads, pc'[u] # "gone" PROVE PlaceInv(u)'
    BY <1>1, <2>1, <2>3, OtherPlace
  <2>4. SemInv'
    BY <2>1, FreeKept DEF Free
  <2> QED
    BY <2>2, <2>3, <2>4 DEF IInv
<1> QED
  BY <1>2, <1>3

LEMMA ForkChildStep ==
  ASSUME IInv, astray = None, NEW t \in Threads, ForkChild(t)
  PROVE  IInv'
<1>1. /\ pc[t] = "run" /\ pc' = [u \in Threads |-> IF u = t THEN "run" ELSE "gone"] /\ sem' = 1
      /\ stack' = [u \in Threads |-> IF u = t THEN stack[t] ELSE <<>>]
      /\ job' = [u \in Threads |-> IF u = t THEN job[t] ELSE "force"]
      /\ want' = [u \in Threads |-> IF u = t THEN want[t] ELSE None]
      /\ count' = [u \in Threads |-> IF u = t THEN count[t] ELSE 0]
      /\ UNCHANGED <<value, mustShare, owner, given, history>>
  BY DEF ForkChild
<1>2. TypeOK' /\ AdoptedInv'
  BY <1>1, EmptySeq DEF IInv, TypeOK, AdoptedInv, history
<1>3. /\ \A u \in Threads : pc'[u] # "gone" => u = t
      /\ stack'[t] = stack[t] /\ count'[t] = count[t] /\ pc'[t] = "run"
  BY <1>1
<1>4. StackInv(t)'
  BY <1>1, <1>3, NotAtStill DEF At, history
<1>5. PlaceInv(t)'
  BY <1>1, <1>3 DEF IInv, PlaceInv
<1>6. SemInv'
  <2>1. Free' \in SUBSET {t}
    BY <1>1 DEF Free
  <2>2. IsFiniteSet({t}) /\ Cardinality({t}) = 1
    BY FS_Singleton
  <2> QED
    BY <1>1, <2>1, <2>2, FS_Subset DEF SemInv
<1> QED
  BY <1>2, <1>3, <1>4, <1>5, <1>6 DEF IInv

----------------------------------------------------------------------------
(* The theorems.                                                           *)

LEMMA InitInv == Init => IInv
<1> SUFFICES ASSUME Init PROVE IInv
  OBVIOUS
<1>1. TypeOK /\ AdoptedInv
  BY EmptySeq DEF Init, TypeOK, AdoptedInv, Plain
<1>2. ASSUME NEW t \in Threads PROVE StackInv(t) /\ PlaceInv(t)
  <2>1. stack[t] = <<>> /\ pc[t] = "new" /\ count[t] = 0 /\ Len(stack[t]) = 0
    BY <1>2 DEF Init
  <2>2. Holds(t) = {} /\ OnStack(t) = {} /\ ~At(t)
    BY <1>1, <2>1, HoldsIs DEF At, OnStack
  <2>3. \A v \in Lazies : owner[v] # t
    BY NoneAssumption DEF Init
  <2> QED
    BY <2>1, <2>2, <2>3 DEF StackInv, PlaceInv
<1>3. Free = {} /\ sem = 0
  BY DEF Init, Free
<1> QED
  BY <1>1, <1>2, <1>3, FS_EmptySet DEF IInv, SemInv

LEMMA StutterInv ==
  ASSUME IInv, UNCHANGED vars
  PROVE  IInv'
<1>1. TypeOK' /\ AdoptedInv'
  BY DEF IInv, TypeOK, AdoptedInv, vars, history
<1>2. ASSUME NEW t \in Threads
      PROVE  (StackInv(t)' <=> StackInv(t)) /\ (PlaceInv(t)' <=> PlaceInv(t))
  BY DEF vars, history, StackInv, PlaceInv, Holds, OnStack, At
<1>3. SemInv'
  BY FreeKept DEF Free, vars
<1> QED
  BY <1>1, <1>2, <1>3 DEF IInv, vars, history

LEMMA NextInv == IInv /\ [Next]_vars => IInv'
<1> SUFFICES ASSUME IInv, [Next]_vars PROVE IInv'
  OBVIOUS
<1>1. ASSUME NEW t \in Threads, Calls(t) PROVE IInv'
  BY <1>1, StartStep, FinishStep, AskStep, ForkChildStep DEF Calls
<1>2. ASSUME NEW t \in Threads, GoOn(t) PROVE IInv'
  BY <1>2, EndStep, LockSemStep, LockMutexStep, EnterStep, TakeValueStep, ShareStep,
     UnlockAgainStep, StoreUnlockedStep, AdoptStep DEF GoOn
<1>3. ASSUME NEW t \in Threads, Leave(t) PROVE IInv'
  BY <1>3, ReturnStep, SetErrorStep, SetErrorInTryStep DEF Leave
<1>4. ASSUME NEW t \in Threads, Fails(t) PROVE IInv'
  BY <1>4, SetErrorStep, EnterCaughtStep, AskStep DEF Fails
<1> QED
  BY <1>1, <1>2, <1>3, <1>4, StutterInv DEF Next, Ended

LEMMA Invariance == Spec => []IInv
BY InitInv, NextInv, PTL DEF Spec

(* Up to where a thread goes astray, a thread holds exactly the mutexes on *)
(* its stack and the one it is at, and each once: a return, a value taken, *)
(* an error and an unwinding leave none locked and take none from another  *)
(* thread; what is adopted unlocked has been evaluated (force_value of     *)
(* vm/vm/interp_vm.cpp, set_error and LazyValueMutex of vm/vm.cpp).        *)
THEOREM MutexesAreStacks == Spec => []MutexesOfStack
<1>1. IInv => MutexesOfStack
  <2> SUFFICES ASSUME IInv, astray = None, NEW t \in Threads, pc[t] # "gone"
               PROVE  /\ \A v \in Lazies \ adopted : owner[v] = t <=> v \in Holds(t)
                      /\ Cardinality(Holds(t)) = Len(stack[t]) +
                           (IF pc[t] \in {"force", "share"} THEN 1 ELSE 0)
    BY DEF MutexesOfStack, IInv, AdoptedInv
  <2>1. StackInv(t) /\ PlaceInv(t) /\ Len(stack[t]) \in Nat
    BY StackType DEF IInv
  <2>2. Holds(t) = OnStack(t) \union (IF At(t) THEN {want[t]} ELSE {})
    BY HoldsIs DEF IInv
  <2>3. OnStack(t) = Above(t, 0) /\ 0 \in 0 .. Len(stack[t])
    BY <2>1 DEF OnStack, Above
  <2>4. IsFiniteSet(OnStack(t)) /\ Cardinality(OnStack(t)) = Len(stack[t])
    <3>1. \A i, j \in 1 .. Len(stack[t]) : stack[t][i] = stack[t][j] => i = j
      BY <2>1 DEF StackInv
    <3>2. IsFiniteSet(Above(t, 0)) /\ Cardinality(Above(t, 0)) = Len(stack[t]) - 0
      BY <2>3, <3>1, AboveCardinality DEF IInv
    <3> QED
      BY <2>1, <2>3, <3>2
  <2>5. CASE At(t)
    <3>1. want[t] \notin OnStack(t) /\ Holds(t) = OnStack(t) \union {want[t]}
      BY <2>1, <2>2, <2>5 DEF StackInv
    <3>2. Cardinality(Holds(t)) = Len(stack[t]) + 1
      BY <2>4, <3>1, FS_AddElement
    <3> QED
      BY <2>1, <2>5, <3>2 DEF At, StackInv
  <2>6. CASE ~At(t)
    BY <2>1, <2>2, <2>4, <2>6 DEF At, StackInv
  <2> QED
    BY <2>5, <2>6
<1> QED
  BY <1>1, Invariance, PTL

(* Whoever takes one from lazy_value_mutex_sem, for its first mutex or at  *)
(* its end, finds one there: the semaphore keeps nobody waiting for        *)
(* another thread, in the child of a fork neither, nor when mutexes are    *)
(* unlocked twice (LazyValueMutex::lock and unlock, vm/vm.cpp;             *)
(* InternalForkHandler).                                                   *)
THEOREM SemaphoreNeverBlocks == Spec => []SemNeverBlocks
<1>1. IInv => SemNeverBlocks
  <2> SUFFICES ASSUME IInv, NEW t \in Threads, pc[t] = "end" \/ (pc[t] = "sem" /\ count[t] = 0)
               PROVE  sem > 0
    BY DEF SemNeverBlocks
  <2>1. CASE pc[t] = "end"
    <3>1. stack[t] = <<>> /\ count[t] <= Len(stack[t]) + 0 /\ count[t] \in Nat
      BY <2>1 DEF IInv, PlaceInv, TypeOK
    <3>2. Len(stack[t]) = 0
      BY <3>1
    <3>3. t \in Free
      BY <2>1, <3>1, <3>2 DEF Free
    <3> QED
      BY <3>3, FreeHasOne
  <2>2. CASE pc[t] = "sem" /\ count[t] = 0
    BY <2>2, FreeHasOne DEF Free
  <2> QED
    BY <2>1, <2>2
<1> QED
  BY <1>1, Invariance, PTL

----------------------------------------------------------------------------
(* Call by need.                                                           *)

(* The function of a lazy value on a stack returns to a lazy value that    *)
(* has no value yet.                                                       *)
LEMMA ReturnNeed ==
  ASSUME IInv, astray = None, NEW t \in Threads, Return(t)
  PROVE  Need!Next
<1> DEFINE n == Len(stack[t])
           v == stack[t][n]
<1>1. n \in 1 .. n /\ v \in Lazies /\ StackInv(t)
  BY StackType DEF Return, IInv
<1>2. value[v] = "unset"
  BY <1>1 DEF StackInv, OnStack
<1>3. Need!Evaluate(v)
  BY <1>2 DEF Return, Top, Need!Evaluate, Results, Need!Results
<1> QED
  BY <1>1, <1>3 DEF Need!Next

LEMMA StoreWrongNeed ==
  ASSUME IInv, astray = None, NEW t \in Threads, pc[t] # "gone", NEW n \in 1 .. Len(stack[t]),
         StoreWrong(t, n), given' = given
  PROVE  Need!Next
<1>1. stack[t][n] \in Lazies /\ StackInv(t)
  BY StackType DEF IInv
<1>2. value[stack[t][n]] = "unset"
  BY <1>1 DEF StackInv, OnStack
<1>3. Need!Spoil(stack[t][n])
  BY <1>2 DEF StoreWrong, Need!Spoil
<1> QED
  BY <1>1, <1>3 DEF Need!Next

(* The errors that leave a value no function returned.                     *)
LEMMA ErrorNeed ==
  ASSUME IInv, astray = None, NEW t \in Threads,
         SetErrorInTry(t) \/ EnterFails(t) \/ UnlockAgain(t) \/ StoreUnlocked(t)
  PROVE  Need!Next \/ UNCHANGED <<value, given>>
<1>1. CASE SetErrorInTry(t)
  BY <1>1, StoreWrongNeed DEF SetErrorInTry
<1>2. CASE EnterFails(t)
  BY <1>2, StoreWrongNeed DEF EnterFails, Entering
<1>3. CASE UnlockAgain(t)
  <2>1. CASE pc[t] = "unlockTry"
    <3>1. Len(stack[t]) \in 1 .. Len(stack[t])
      <4>1. stack[t] # <<>>
        BY <2>1 DEF IInv, PlaceInv
      <4>2. Len(stack[t]) \in Nat /\ Len(stack[t]) # 0
        BY <4>1, StackType DEF IInv
      <4> QED
        BY <4>2
    <3> QED
      BY <1>3, <2>1, <3>1, StoreWrongNeed DEF UnlockAgain
  <2>2. CASE pc[t] # "unlockTry"
    BY <1>3, <2>2 DEF UnlockAgain
  <2> QED
    BY <2>1, <2>2
<1>4. CASE StoreUnlocked(t)
  <2>1. want[t] \in Lazies
    BY <1>4 DEF StoreUnlocked, IInv, PlaceInv
  <2>2. CASE owner[want[t]] = None /\ value[want[t]] = "unset"
    <3>1. Need!Spoil(want[t])
      BY <1>4, <2>2 DEF StoreUnlocked, Need!Spoil
    <3> QED
      BY <2>1, <3>1 DEF Need!Next
  <2>3. CASE ~(owner[want[t]] = None /\ value[want[t]] = "unset")
    BY <1>4, <2>3 DEF StoreUnlocked
  <2> QED
    BY <2>2, <2>3
<1> QED
  BY <1>1, <1>2, <1>3, <1>4

(* A value is taken with its mutex held: a unique object is given once.    *)
LEMMA TakeValueNeed ==
  ASSUME IInv, NEW t \in Threads, TakeValue(t)
  PROVE  Need!Next \/ UNCHANGED <<value, given>>
<1> DEFINE v == want[t]
<1>1. v \in Lazies
  BY DEF TakeValue, IInv, PlaceInv
<1>2. CASE value[v] = "unique" /\ ~UNCHANGED <<value, given>>
  <2>1. value' = [value EXCEPT ![v] = "canceled"]
    BY <1>2 DEF TakeValue
  <2>2. given' = given \/ given' = [given EXCEPT ![v] = @ + 1]
    BY <1>1, <1>2 DEF TakeValue, IInv, TypeOK
  <2>3. given = [given EXCEPT ![v] = @ + 0]
    BY <1>1 DEF IInv, TypeOK
  <2>4. \E m \in {0, 1} : given' = [given EXCEPT ![v] = @ + m]
    BY <2>2, <2>3
  <2>5. Need!Give(v)
    BY <1>2, <2>1, <2>4 DEF Need!Give
  <2> QED
    BY <1>1, <2>5 DEF Need!Next
<1>3. CASE value[v] # "unique"
  BY <1>3 DEF TakeValue
<1> QED
  BY <1>2, <1>3

LEMMA NeedStep == IInv /\ [Next]_vars => Need!Next \/ UNCHANGED <<value, given>>
<1> SUFFICES ASSUME IInv, [Next]_vars PROVE Need!Next \/ UNCHANGED <<value, given>>
  OBVIOUS
<1>1. CASE UNCHANGED vars
  BY <1>1 DEF vars
<1>2. ASSUME NEW t \in Threads, Calls(t) PROVE UNCHANGED <<value, given>>
  BY <1>2 DEF Calls, Start, Finish, Ask, ForkChild
<1>3. ASSUME NEW t \in Threads, GoOn(t) PROVE Need!Next \/ UNCHANGED <<value, given>>
  BY <1>3, TakeValueNeed, ErrorNeed DEF GoOn, End, LockSem, LockMutex, Enter, Share, Adopt
<1>4. ASSUME NEW t \in Threads, Leave(t) PROVE Need!Next \/ UNCHANGED <<value, given>>
  BY <1>4, ReturnNeed, ErrorNeed DEF Leave, SetError
<1>5. ASSUME NEW t \in Threads, Fails(t) PROVE Need!Next \/ UNCHANGED <<value, given>>
  BY <1>5, ErrorNeed DEF Fails, EnterOverflows, EnterCaught, ReturnFirst
<1> QED
  BY <1>1, <1>2, <1>3, <1>4, <1>5 DEF Next, Ended

(* The locks and the unwinding are call by need, up to where a thread goes *)
(* astray: a lazy value is evaluated at most once, what it was evaluated   *)
(* to does not change, and a unique object is given at most once,          *)
(* whichever threads force it and wherever an error, an overflow or an     *)
(* unlocked adoption comes in between (force_value, vm/vm/interp_vm.cpp).  *)
THEOREM EvaluatesByNeed == Spec => ImplementsCallByNeed
<1>1. Init => Need!Init
  BY DEF Init, Need!Init
<1> QED
  BY <1>1, NeedStep, Invariance, PTL DEF Spec, ImplementsCallByNeed, Need!Spec
=============================================================================
