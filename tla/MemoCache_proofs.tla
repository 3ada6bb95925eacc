---------------------------- MODULE MemoCache_proofs ----------------------------
(***************************************************************************)
(* Proofs about MemoCache, for any number of threads and blocks, any       *)
(* contents with any comparison of them, and any depth of calls: the flag  *)
(* of a call tells how its result was found, and until a collection has    *)
(* freed what a thread still needed the cache holds the function's results *)
(* and the calls give them.                                                *)
(*                                                                         *)
(* Nothing is assumed of SameObject: what is shown of an argument is shown *)
(* of those it judges rightly.                                             *)
(***************************************************************************)
EXTENDS MemoCache, SequenceTheorems, TLAPS

(* The calls a thread is in have arguments, all of them were made after a  *)
(* miss, and the frame says so.                                            *)
FramesInv ==
  \A t \in Threads : \A i \in 1..Len(calls[t]) :
    /\ calls[t][i].call.arg \in Blocks
    /\ calls[t][i].call.asked \in Contents
    /\ calls[t][i].call.hit = FALSE
    /\ calls[t][i].flag = 0

(* Where a thread is decides which of its references refer to something.   *)
PlaceInv ==
  \A t \in Threads :
    /\ pc[t] = "run" => call[t] = NoCall
    /\ pc[t] \in {"run", "called", "hit"} => rv[t] = NoBlock
    /\ pc[t] # "run" => call[t].arg \in Blocks /\ call[t].asked \in Contents
    /\ pc[t] \in {"called", "hit"} => ~call[t].hit
    /\ pc[t] = "called" => Len(calls[t]) < MaxDepth
    /\ pc[t] \in {"left", "new", "key", "value"} => rv[t] \in Blocks
    /\ pc[t] = "left" => (flag[t] = 1 <=> call[t].hit)
    /\ IF pc[t] = "hit" THEN local[t] \in Blocks ELSE local[t] = NoBlock

(* The entry in tmp_r is the one the thread adds.                          *)
BuildingInv ==
  \A t \in Threads :
    building[t] = CASE pc[t] = "key" -> [key |-> call[t].arg, value |-> NoBlock]
                    [] pc[t] = "value" -> [key |-> call[t].arg, value |-> rv[t]]
                    [] OTHER -> NoEntry

(* A thread that adds has the mutex to itself.                             *)
MutexInv == \A t \in Threads : mutex = t <=> pc[t] \in {"new", "key", "value"}

(* Nothing that is used is free, and arguments stay what they were.        *)
EntriesHeld ==
  \A e \in entries : holds[e.key] \in Contents /\ holds[e.value] \in Contents

ThreadHeld(t) ==
  /\ \A i \in 1..Len(calls[t]) : holds[calls[t][i].call.arg] = calls[t][i].call.asked
  /\ pc[t] # "run" => holds[call[t].arg] = call[t].asked
  /\ rv[t] \in Blocks => holds[rv[t]] \in Contents
  /\ local[t] \in Blocks => holds[local[t]] \in Contents

(* An entry answers for its key, and is the only one for it.               *)
EntriesInv ==
  \A e \in entries : ~Misjudged(holds[e.key]) =>
    /\ holds[e.value] = holds[e.key]
    /\ Keeps(holds[e.key])
    /\ \A f \in entries : holds[f.key] = holds[e.key] => f = e

(* The result of a call that is over or was found is the right one, and    *)
(* nobody has added what a thread is about to add.                         *)
ResultOf(t) ==
  /\ ~Misjudged(call[t].asked) =>
       /\ pc[t] \in {"left", "new", "key", "value"} => holds[rv[t]] = call[t].asked
       /\ pc[t] = "hit" => holds[local[t]] = call[t].asked
  /\ pc[t] \in {"new", "key", "value"} => Kept(t) /\ Matching(t) = {}

Places == TypeOK /\ FramesInv /\ PlaceInv /\ BuildingInv /\ MutexInv

Sound ==
  /\ EntriesHeld /\ EntriesInv
  /\ \A t \in Threads : ThreadHeld(t) /\ ResultOf(t)

IInv == Places /\ (exposed \/ Sound)

----------------------------------------------------------------------------
(* What the library's Last and Front give.                                 *)
LEMMA LastAndFront ==
  ASSUME NEW S, NEW s \in Seq(S), s # <<>>
  PROVE  /\ Len(s) \in 1..Len(s)
         /\ Last(s) = s[Len(s)] /\ Last(s) \in S
         /\ Front(s) \in Seq(S)
         /\ Len(Front(s)) = Len(s) - 1
         /\ \A i \in 1..Len(Front(s)) : i \in 1..Len(s) /\ Front(s)[i] = s[i]
<1>1. Len(s) \in Nat /\ Len(s) > 0
  OBVIOUS
<1>2. Len(s) \in 1..Len(s)
  BY <1>1
<1>3. Last(s) = s[Len(s)] /\ Last(s) \in S
  BY <1>2 DEF Last
<1>a. \A i \in 1..(Len(s) - 1) : s[i] \in S
  BY <1>1
<1>b. Len(s) - 1 \in Nat
  BY <1>1
<1>c. /\ SubSeq(s, 1, Len(s) - 1) \in Seq(S)
      /\ Len(SubSeq(s, 1, Len(s) - 1)) = IF 1 <= Len(s) - 1 THEN Len(s) - 1 - 1 + 1 ELSE 0
      /\ \A i \in 1..(Len(s) - 1 - 1 + 1) : SubSeq(s, 1, Len(s) - 1)[i] = s[1 + i - 1]
  BY ONLY <1>a, <1>b, SubSeqProperties
<1>d. \A n \in Nat : n - 1 + 1 = n /\ (1 <= n \/ n = 0)
  OBVIOUS
<1>4. Front(s) \in Seq(S) /\ Len(Front(s)) = Len(s) - 1
  BY <1>b, <1>c, <1>d DEF Front
<1>5. \A i \in 1..Len(Front(s)) : i \in 1..Len(s) /\ Front(s)[i] = s[i]
  BY <1>b, <1>c, <1>4 DEF Front
<1> QED
  BY <1>2, <1>3, <1>4, <1>5

(* What is appended comes after all that was there.                        *)
LEMMA Appended ==
  ASSUME NEW S, NEW s \in Seq(S), NEW x \in S
  PROVE  /\ Append(s, x) \in Seq(S)
         /\ Len(Append(s, x)) = Len(s) + 1
         /\ Append(s, x)[Len(s) + 1] = x
         /\ \A i \in 1..Len(s) : Append(s, x)[i] = s[i]
  OBVIOUS

(* An object that is compared rightly equals itself and no other.          *)
LEMMA RightlyJudged ==
  ASSUME NEW c \in Contents, NEW d \in Contents, ~Misjudged(c)
  PROVE  (SameObject(c, d) <=> c = d) /\ (SameObject(d, c) <=> c = d)
  BY DEF Misjudged

(* The threads, the blocks and the contents differ from what stands for    *)
(* the lack of them.                                                       *)
LEMMA NoneOfThem ==
  /\ NoBlock \notin Blocks
  /\ NoThread \notin Threads
  /\ Unused \notin Contents
  BY NoAssumption

----------------------------------------------------------------------------
(* Every step keeps the types and the places of the threads.               *)
LEMMA PlacesInit == Init => Places
<1> SUFFICES ASSUME Init PROVE Places
  OBVIOUS
<1> USE DEF Init
<1>1. NoEntry \in Entry /\ NoCall \in Call
  BY DEF NoEntry, Entry, NoCall, Call
<1>2. \A t \in Threads : Len(calls[t]) = 0 /\ calls[t] = <<>>
  OBVIOUS
<1>a. calls \in [Threads -> Seq([call : Call, flag : {0, 1}])]
  OBVIOUS
<1>b. \A t \in Threads : Len(calls[t]) <= MaxDepth
  BY <1>2, DepthAssumption
<1>3. TypeOK
  BY <1>1, <1>a, <1>b DEF TypeOK
<1>4. FramesInv
  BY <1>2 DEF FramesInv
<1>5. PlaceInv
  BY DEF PlaceInv
<1>6. BuildingInv
  BY DEF BuildingInv
<1>7. MutexInv
  BY NoneOfThem DEF MutexInv
<1> QED
  BY <1>3, <1>4, <1>5, <1>6, <1>7 DEF Places

(* A step of a thread changes its own registers only, and its stack by a   *)
(* frame at most.                                                          *)
LEMMA PushArgPlaces ==
  ASSUME Places, NEW t \in Threads, PushArg(t)
  PROVE  Places'
<1> USE DEF Places
<1>1. PICK b \in Free, c \in Contents :
        /\ holds' = [holds EXCEPT ![b] = c]
        /\ call' = [call EXCEPT ![t] = [NoCall EXCEPT !.arg = b, !.asked = c]]
  BY DEF PushArg
<1>2. b \in Blocks
  BY <1>1 DEF Free
<1> DEFINE new == [NoCall EXCEPT !.arg = b, !.asked = c]
<1>3. new \in Call /\ new.arg = b /\ new.asked = c /\ new.hit = FALSE
  BY <1>2 DEF NoCall, Call
<1>a. call' = [call EXCEPT ![t] = new]
  BY <1>1
<1> HIDE DEF new
<1>b. call' \in [Threads -> Call]
  BY <1>a, <1>3 DEF TypeOK
<1>4. TypeOK'
  BY <1>1, <1>2, <1>b DEF TypeOK, PushArg
<1>5. FramesInv'
  BY DEF FramesInv, PushArg
<1>c. /\ calls' = calls /\ rv' = rv /\ local' = local /\ flag' = flag
      /\ pc[t] = "run" /\ pc'[t] = "called" /\ call'[t] = new /\ Len(calls[t]) < MaxDepth
  BY <1>a DEF PushArg, TypeOK
<1>d. \A u \in Threads \ {t} : pc'[u] = pc[u] /\ call'[u] = call[u]
  BY <1>a DEF PushArg, TypeOK
<1>6. PlaceInv'
  BY <1>2, <1>3, <1>c, <1>d DEF PlaceInv
<1>7. BuildingInv'
  BY <1>4 DEF BuildingInv, PushArg, TypeOK
<1>8. MutexInv'
  BY <1>4 DEF MutexInv, PushArg, TypeOK
<1> QED
  BY <1>4, <1>5, <1>6, <1>7, <1>8

LEMMA HitPlaces ==
  ASSUME Places, NEW t \in Threads, Hit(t)
  PROVE  Places'
<1> USE DEF Places
<1>1. PICK e \in Matching(t) : local' = [local EXCEPT ![t] = e.value]
  BY DEF Hit
<1>2. e.value \in Blocks
  BY <1>1 DEF Matching, TypeOK
<1>4. TypeOK'
  BY <1>1, <1>2 DEF TypeOK, Hit
<1>5. FramesInv'
  BY DEF FramesInv, Hit
<1>6. PlaceInv'
  BY <1>1, <1>2, <1>4 DEF PlaceInv, Hit, TypeOK
<1>7. BuildingInv'
  BY <1>4 DEF BuildingInv, Hit, TypeOK
<1>8. MutexInv'
  BY <1>4 DEF MutexInv, Hit, TypeOK
<1> QED
  BY <1>4, <1>5, <1>6, <1>7, <1>8

LEMMA TakeHitPlaces ==
  ASSUME Places, NEW t \in Threads, TakeHit(t)
  PROVE  Places'
<1> USE DEF Places
<1> DEFINE new == [call[t] EXCEPT !.hit = TRUE]
<1>1. call' = [call EXCEPT ![t] = new]
  BY DEF TakeHit
<1>a. call[t] \in Call
  BY DEF TypeOK
<1>2. local[t] \in Blocks
  BY DEF PlaceInv, TakeHit
<1>3. new \in Call /\ new.arg = call[t].arg /\ new.asked = call[t].asked /\ new.hit = TRUE
  BY <1>a DEF Call
<1> HIDE DEF new
<1>b. call' \in [Threads -> Call]
  BY <1>1, <1>3 DEF TypeOK
<1>4. TypeOK'
  BY <1>2, <1>b DEF TypeOK, TakeHit
<1>5. FramesInv'
  BY DEF FramesInv, TakeHit
<1>6. PlaceInv'
  BY <1>1, <1>2, <1>3, <1>4 DEF PlaceInv, TakeHit, TypeOK
<1>7. BuildingInv'
  BY <1>4 DEF BuildingInv, TakeHit, TypeOK
<1>8. MutexInv'
  BY <1>4 DEF MutexInv, TakeHit, TypeOK
<1> QED
  BY <1>4, <1>5, <1>6, <1>7, <1>8

LEMMA MissPlaces ==
  ASSUME Places, NEW t \in Threads, Miss(t)
  PROVE  Places'
<1> USE DEF Places
<1> DEFINE frame == [call |-> call[t], flag |-> 0]
<1>1. flag'[t] = 0 /\ calls' = [calls EXCEPT ![t] = Append(calls[t], frame)]
  BY DEF Miss, TypeOK
<1>2. call[t] \in Call /\ calls[t] \in Seq([call : Call, flag : {0, 1}])
  BY DEF TypeOK
<1>3. frame \in [call : Call, flag : {0, 1}] /\ NoCall \in Call
  BY <1>2 DEF Call, NoCall
<1>a. frame.call = call[t] /\ frame.flag = 0
  OBVIOUS
<1> HIDE DEF frame
<1>b. /\ Append(calls[t], frame) \in Seq([call : Call, flag : {0, 1}])
      /\ Len(Append(calls[t], frame)) = Len(calls[t]) + 1
      /\ Append(calls[t], frame)[Len(calls[t]) + 1] = frame
      /\ \A i \in 1..Len(calls[t]) : Append(calls[t], frame)[i] = calls[t][i]
  BY <1>2, <1>3, Appended
<1>c. \A u \in Threads : calls'[u] = IF u = t THEN Append(calls[t], frame) ELSE calls[u]
  BY <1>1 DEF TypeOK
<1>d. Len(calls[t]) \in Nat /\ Len(calls[t]) < MaxDepth
  BY <1>2 DEF PlaceInv, Miss
<1>e. \A u \in Threads : Len(calls'[u]) <= MaxDepth
  <2>1. CASE Len(calls[t]) + 1 <= MaxDepth
    BY <1>b, <1>c, <2>1 DEF TypeOK
  <2> QED
    BY <1>d, <2>1, DepthAssumption
<1>f. calls' \in [Threads -> Seq([call : Call, flag : {0, 1}])]
  BY <1>1, <1>b DEF TypeOK
<1>4. TypeOK'
  BY <1>e, <1>f, <1>3 DEF TypeOK, Miss
<1>5. FramesInv'
  <2> SUFFICES ASSUME NEW u \in Threads, NEW i \in 1..Len(calls'[u])
               PROVE  /\ calls'[u][i].call.arg \in Blocks
                      /\ calls'[u][i].call.asked \in Contents
                      /\ calls'[u][i].call.hit = FALSE
                      /\ calls'[u][i].flag = 0
    BY DEF FramesInv
  <2>1. CASE u # t
    <3>1. calls'[u] = calls[u]
      BY <2>1, <1>c
    <3> QED
      BY <3>1 DEF FramesInv
  <2>2. CASE u = t /\ i \in 1..Len(calls[t])
    <3>1. calls'[u][i] = calls[t][i]
      BY <2>2, <1>b, <1>c
    <3> QED
      BY <3>1, <2>2 DEF FramesInv
  <2>3. CASE u = t /\ i = Len(calls[t]) + 1
    <3>1. calls'[u][i] = frame
      BY <2>3, <1>b, <1>c
    <3>2. call[t].arg \in Blocks /\ call[t].asked \in Contents /\ call[t].hit = FALSE
      BY <1>2 DEF PlaceInv, Miss, Call
    <3> QED
      BY <3>1, <3>2, <1>a
  <2>4. u = t => i \in 1..(Len(calls[t]) + 1)
    BY <1>b, <1>c
  <2>5. u = t => i \in 1..Len(calls[t]) \/ i = Len(calls[t]) + 1
    BY <2>4, <1>d
  <2> QED
    BY <2>1, <2>2, <2>3, <2>5
<1>6. PlaceInv'
  BY <1>4 DEF PlaceInv, Miss, TypeOK
<1>7. BuildingInv'
  BY <1>4 DEF BuildingInv, Miss, TypeOK
<1>8. MutexInv'
  BY <1>4 DEF MutexInv, Miss, TypeOK
<1> QED
  BY <1>4, <1>5, <1>6, <1>7, <1>8

LEMMA ReturnPlaces ==
  ASSUME Places, NEW t \in Threads, Return(t)
  PROVE  Places'
<1> USE DEF Places
<1> DEFINE frame == Last(calls[t])
<1>2. calls[t] \in Seq([call : Call, flag : {0, 1}]) /\ calls[t] # <<>>
  BY DEF TypeOK, Return
<1>b. /\ Len(calls[t]) \in 1..Len(calls[t])
      /\ frame = calls[t][Len(calls[t])] /\ frame \in [call : Call, flag : {0, 1}]
      /\ Front(calls[t]) \in Seq([call : Call, flag : {0, 1}])
      /\ Len(Front(calls[t])) = Len(calls[t]) - 1
      /\ \A i \in 1..Len(Front(calls[t])) :
           i \in 1..Len(calls[t]) /\ Front(calls[t])[i] = calls[t][i]
  BY <1>2, LastAndFront
<1>a. /\ frame.call \in Call /\ frame.call.arg \in Blocks /\ frame.call.asked \in Contents
      /\ frame.call.hit = FALSE /\ frame.flag = 0
  BY <1>b DEF FramesInv
<1>1. PICK b \in Free : /\ holds' = [holds EXCEPT ![b] = holds[frame.call.arg]]
                        /\ rv' = [rv EXCEPT ![t] = b]
  BY DEF Return
<1>3. b \in Blocks
  BY <1>1 DEF Free
<1>d. call' = [call EXCEPT ![t] = frame.call] /\ flag' = [flag EXCEPT ![t] = 0]
  BY <1>a DEF Return
<1> HIDE DEF frame
<1>c. \A u \in Threads : calls'[u] = IF u = t THEN Front(calls[t]) ELSE calls[u]
  BY DEF TypeOK, Return
<1>g. Len(calls[t]) \in Nat /\ Len(calls[t]) <= MaxDepth
  BY <1>2 DEF TypeOK
<1>h. Len(Front(calls[t])) <= MaxDepth
  BY <1>b, <1>g, DepthAssumption
<1>e. \A u \in Threads : Len(calls'[u]) <= MaxDepth
  BY <1>h, <1>c DEF TypeOK
<1>f. calls' \in [Threads -> Seq([call : Call, flag : {0, 1}])]
  BY <1>b DEF TypeOK, Return
<1>4. TypeOK'
  BY <1>1, <1>3, <1>d, <1>e, <1>f, <1>a DEF TypeOK, Return
<1>5. FramesInv'
  <2> SUFFICES ASSUME NEW u \in Threads, NEW i \in 1..Len(calls'[u])
               PROVE  /\ calls'[u][i].call.arg \in Blocks
                      /\ calls'[u][i].call.asked \in Contents
                      /\ calls'[u][i].call.hit = FALSE
                      /\ calls'[u][i].flag = 0
    BY DEF FramesInv
  <2>1. i \in 1..Len(calls[u]) /\ calls'[u][i] = calls[u][i]
    BY <1>b, <1>c
  <2> QED
    BY <2>1 DEF FramesInv
<1>6. PlaceInv'
  BY <1>1, <1>3, <1>a, <1>d, <1>4 DEF PlaceInv, Return, TypeOK
<1>7. BuildingInv'
  BY <1>4 DEF BuildingInv, Return, TypeOK
<1>8. MutexInv'
  BY <1>4 DEF MutexInv, Return, TypeOK
<1> QED
  BY <1>4, <1>5, <1>6, <1>7, <1>8

LEMMA SkipAddPlaces ==
  ASSUME Places, NEW t \in Threads, SkipAdd(t)
  PROVE  Places'
<1> USE DEF Places
<1>1. NoCall \in Call
  BY DEF NoCall, Call
<1>4. TypeOK'
  BY <1>1 DEF TypeOK, SkipAdd, EndCall
<1>5. FramesInv'
  BY DEF FramesInv, SkipAdd, EndCall
<1>6. PlaceInv'
  BY <1>4 DEF PlaceInv, SkipAdd, EndCall, TypeOK
<1>7. BuildingInv'
  BY <1>4 DEF BuildingInv, SkipAdd, EndCall, TypeOK
<1>8. MutexInv'
  BY <1>4 DEF MutexInv, SkipAdd, EndCall, TypeOK
<1> QED
  BY <1>4, <1>5, <1>6, <1>7, <1>8

LEMMA AddOverPlaces ==
  ASSUME Places, NEW t \in Threads, AddOver(t)
  PROVE  Places'
<1> USE DEF Places
<1>1. NoCall \in Call
  BY DEF NoCall, Call
<1>a. rv[t] \in Blocks
  BY DEF PlaceInv, AddOver, Adds
<1>2. PICK e \in Matching(t) :
        entries' = (entries \ {e}) \union {[e EXCEPT !.value = rv[t]]}
  BY DEF AddOver
<1>3. [e EXCEPT !.value = rv[t]] \in [key : Blocks, value : Blocks]
  BY <1>a, <1>2 DEF Matching, TypeOK
<1>b. entries' \subseteq [key : Blocks, value : Blocks]
  BY <1>2, <1>3 DEF TypeOK
<1>4. TypeOK'
  BY <1>1, <1>b DEF TypeOK, AddOver, Adds, EndCall
<1>5. FramesInv'
  BY DEF FramesInv, AddOver, Adds, EndCall
<1>6. PlaceInv'
  BY <1>4 DEF PlaceInv, AddOver, Adds, EndCall, TypeOK
<1>7. BuildingInv'
  BY <1>4 DEF BuildingInv, AddOver, Adds, EndCall, TypeOK
<1>8. MutexInv'
  BY <1>4 DEF MutexInv, AddOver, Adds, EndCall, TypeOK
<1> QED
  BY <1>4, <1>5, <1>6, <1>7, <1>8

LEMMA BeginAddPlaces ==
  ASSUME Places, NEW t \in Threads, BeginAdd(t)
  PROVE  Places'
<1> USE DEF Places
<1>4. TypeOK'
  BY DEF TypeOK, BeginAdd, Adds
<1>5. FramesInv'
  BY DEF FramesInv, BeginAdd, Adds
<1>6. PlaceInv'
  BY <1>4 DEF PlaceInv, BeginAdd, Adds, TypeOK
<1>7. BuildingInv'
  BY <1>4 DEF BuildingInv, BeginAdd, Adds, TypeOK
<1>8. MutexInv'
  BY NoneOfThem, <1>4 DEF MutexInv, BeginAdd, Adds, TypeOK
<1> QED
  BY <1>4, <1>5, <1>6, <1>7, <1>8

LEMMA SetKeyPlaces ==
  ASSUME Places, NEW t \in Threads, SetKey(t)
  PROVE  Places'
<1> USE DEF Places
<1>1. call[t].arg \in Blocks
  BY DEF PlaceInv, SetKey
<1>a. building[t] = NoEntry
  BY DEF BuildingInv, SetKey
<1>2. [building[t] EXCEPT !.key = call[t].arg] = [key |-> call[t].arg, value |-> NoBlock]
  BY <1>a DEF NoEntry
<1>3. [key |-> call[t].arg, value |-> NoBlock] \in Entry
  BY <1>1 DEF Entry
<1>b. building' = [building EXCEPT ![t] = [key |-> call[t].arg, value |-> NoBlock]]
  BY <1>2 DEF SetKey
<1>4. TypeOK'
  BY <1>3, <1>b DEF TypeOK, SetKey
<1>5. FramesInv'
  BY DEF FramesInv, SetKey
<1>6. PlaceInv'
  BY <1>4 DEF PlaceInv, SetKey, TypeOK
<1>7. BuildingInv'
  BY <1>b, <1>4 DEF BuildingInv, SetKey, TypeOK
<1>8. MutexInv'
  BY <1>4 DEF MutexInv, SetKey, TypeOK
<1> QED
  BY <1>4, <1>5, <1>6, <1>7, <1>8

LEMMA SetValuePlaces ==
  ASSUME Places, NEW t \in Threads, SetValue(t)
  PROVE  Places'
<1> USE DEF Places
<1>1. call[t].arg \in Blocks /\ rv[t] \in Blocks
  BY DEF PlaceInv, SetValue
<1>a. building[t] = [key |-> call[t].arg, value |-> NoBlock]
  BY DEF BuildingInv, SetValue
<1>2. [building[t] EXCEPT !.value = rv[t]] = [key |-> call[t].arg, value |-> rv[t]]
  BY <1>a
<1>3. [key |-> call[t].arg, value |-> rv[t]] \in Entry
  BY <1>1 DEF Entry
<1>b. building' = [building EXCEPT ![t] = [key |-> call[t].arg, value |-> rv[t]]]
  BY <1>2 DEF SetValue
<1>4. TypeOK'
  BY <1>3, <1>b DEF TypeOK, SetValue
<1>5. FramesInv'
  BY DEF FramesInv, SetValue
<1>6. PlaceInv'
  BY <1>4 DEF PlaceInv, SetValue, TypeOK
<1>7. BuildingInv'
  BY <1>b, <1>4 DEF BuildingInv, SetValue, TypeOK
<1>8. MutexInv'
  BY <1>4 DEF MutexInv, SetValue, TypeOK
<1> QED
  BY <1>4, <1>5, <1>6, <1>7, <1>8

LEMMA LinkEntryPlaces ==
  ASSUME Places, NEW t \in Threads, LinkEntry(t)
  PROVE  Places'
<1> USE DEF Places
<1>1. NoCall \in Call /\ NoEntry \in Entry
  BY DEF NoCall, Call, NoEntry, Entry
<1>2. building[t] = [key |-> call[t].arg, value |-> rv[t]]
  BY DEF BuildingInv, LinkEntry
<1>3. call[t].arg \in Blocks /\ rv[t] \in Blocks
  BY DEF PlaceInv, LinkEntry
<1>a. entries' \subseteq [key : Blocks, value : Blocks]
  BY <1>2, <1>3 DEF TypeOK, LinkEntry
<1>b. mutex = t /\ mutex' = NoThread
  BY DEF MutexInv, LinkEntry
<1>4. TypeOK'
  BY <1>1, <1>a DEF TypeOK, LinkEntry, EndCall
<1>5. FramesInv'
  BY DEF FramesInv, LinkEntry, EndCall
<1>6. PlaceInv'
  BY <1>4 DEF PlaceInv, LinkEntry, EndCall, TypeOK
<1>7. BuildingInv'
  BY <1>4 DEF BuildingInv, LinkEntry, EndCall, TypeOK
<1>8. MutexInv'
  BY <1>b, NoneOfThem, <1>4 DEF MutexInv, LinkEntry, EndCall, TypeOK
<1> QED
  BY <1>4, <1>5, <1>6, <1>7, <1>8

LEMMA ThrowPlaces ==
  ASSUME Places, NEW t \in Threads, Throw(t)
  PROVE  Places'
<1> USE DEF Places
<1>1. NoCall \in Call
  BY DEF NoCall, Call
<1>2. \A u \in Threads : calls'[u] = IF u = t THEN <<>> ELSE calls[u]
  BY DEF TypeOK, Throw, Unwind
<1>3. Len(<<>>) = 0 /\ Len(<<>>) <= MaxDepth
  BY DepthAssumption
<1>d. <<>> \in Seq([call : Call, flag : {0, 1}])
  OBVIOUS
<1>a. calls' \in [Threads -> Seq([call : Call, flag : {0, 1}])]
  BY <1>d DEF TypeOK, Throw, Unwind
<1>b. \A u \in Threads : Len(calls'[u]) <= MaxDepth
  BY <1>2, <1>3 DEF TypeOK
<1>4. TypeOK'
  BY <1>1, <1>a, <1>b DEF TypeOK, Throw, Unwind
<1>5. FramesInv'
  BY <1>2, <1>3 DEF FramesInv, Throw, Unwind
<1>6. PlaceInv'
  BY <1>4 DEF PlaceInv, Throw, Unwind, TypeOK
<1>7. BuildingInv'
  BY <1>4 DEF BuildingInv, Throw, Unwind, TypeOK
<1>8. MutexInv'
  BY <1>4 DEF MutexInv, Throw, Unwind, TypeOK
<1> QED
  BY <1>4, <1>5, <1>6, <1>7, <1>8

LEMMA AddFailsPlaces ==
  ASSUME Places, NEW t \in Threads, AddFails(t)
  PROVE  Places'
<1> USE DEF Places
<1>1. NoCall \in Call
  BY DEF NoCall, Call
<1>2. \A u \in Threads : calls'[u] = IF u = t THEN <<>> ELSE calls[u]
  BY DEF TypeOK, AddFails, Unwind
<1>3. Len(<<>>) = 0 /\ Len(<<>>) <= MaxDepth
  BY DepthAssumption
<1>d. <<>> \in Seq([call : Call, flag : {0, 1}])
  OBVIOUS
<1>a. calls' \in [Threads -> Seq([call : Call, flag : {0, 1}])]
  BY <1>d DEF TypeOK, AddFails, Unwind
<1>b. \A u \in Threads : Len(calls'[u]) <= MaxDepth
  BY <1>2, <1>3 DEF TypeOK
<1>c. mutex = t /\ mutex' = NoThread
  BY DEF MutexInv, AddFails
<1>4. TypeOK'
  BY <1>1, <1>a, <1>b DEF TypeOK, AddFails, Unwind
<1>5. FramesInv'
  BY <1>2, <1>3 DEF FramesInv, AddFails, Unwind
<1>6. PlaceInv'
  BY <1>4 DEF PlaceInv, AddFails, Unwind, TypeOK
<1>7. BuildingInv'
  BY <1>4 DEF BuildingInv, AddFails, Unwind, TypeOK
<1>8. MutexInv'
  BY <1>c, NoneOfThem, <1>4 DEF MutexInv, AddFails, Unwind, TypeOK
<1> QED
  BY <1>4, <1>5, <1>6, <1>7, <1>8

LEMMA CollectPlaces == Places /\ Collect => Places'
<1> SUFFICES ASSUME Places, Collect PROVE Places'
  OBVIOUS
<1> USE DEF Places
<1>4. TypeOK'
  BY DEF TypeOK, Collect, registers
<1>5. FramesInv'
  BY DEF FramesInv, Collect, registers
<1>6. PlaceInv'
  BY DEF PlaceInv, Collect, registers
<1>7. BuildingInv'
  BY DEF BuildingInv, Collect, registers
<1>8. MutexInv'
  BY DEF MutexInv, Collect, registers
<1> QED
  BY <1>4, <1>5, <1>6, <1>7, <1>8

LEMMA PlacesStep == Places /\ [Next]_vars => Places'
<1> SUFFICES ASSUME Places, [Next]_vars PROVE Places'
  OBVIOUS
<1>1. ASSUME NEW t \in Threads,
             \/ PushArg(t) \/ Hit(t) \/ TakeHit(t) \/ Miss(t) \/ Return(t) \/ Throw(t)
             \/ SkipAdd(t) \/ AddOver(t) \/ BeginAdd(t) \/ SetKey(t) \/ SetValue(t)
             \/ LinkEntry(t) \/ AddFails(t)
      PROVE  Places'
  BY <1>1, PushArgPlaces, HitPlaces, TakeHitPlaces, MissPlaces, ReturnPlaces, ThrowPlaces,
     SkipAddPlaces, AddOverPlaces, BeginAddPlaces, SetKeyPlaces, SetValuePlaces,
     LinkEntryPlaces, AddFailsPlaces
<1>2. CASE Collect
  BY <1>2, CollectPlaces
<1>3. CASE UNCHANGED vars
  <2> USE <1>3 DEF Places, vars, registers
  <2>1. TypeOK'
    BY DEF TypeOK
  <2>2. FramesInv'
    BY DEF FramesInv
  <2>3. PlaceInv'
    BY DEF PlaceInv
  <2>4. BuildingInv'
    BY DEF BuildingInv
  <2>5. MutexInv'
    BY DEF MutexInv
  <2> QED
    BY <2>1, <2>2, <2>3, <2>4, <2>5
<1> QED
  BY <1>1, <1>2, <1>3 DEF Next

----------------------------------------------------------------------------
(* What a step leaves of the blocks a thread needs.                        *)
KeepsFor(t) ==
  \A x \in Blocks :
    x \in Rooted \union NeededOnly(t) /\ holds[x] \in Contents => holds'[x] = holds[x]

LEMMA RootsOf ==
  ASSUME Places
  PROVE  /\ \A e \in entries : e.key \in Rooted \intersect Blocks
                            /\ e.value \in Rooted \intersect Blocks
         /\ \A t \in Threads :
              /\ rv[t] \in Rooted
              /\ \A i \in 1..Len(calls[t]) : calls[t][i].call.arg \in Rooted
<1>1. \A t \in Threads : DOMAIN calls[t] = 1..Len(calls[t])
  BY DEF Places, TypeOK
<1> DEFINE OfThread(t) ==
             {rv[t]} \union EntryBlocks(building[t])
               \union {frame.call.arg : frame \in ToSet(calls[t])}
               \union (IF ArgBelowSec(t) THEN {call[t].arg} ELSE {})
<1> DEFINE OfEntries == UNION {EntryBlocks(e) : e \in entries}
<1> DEFINE OfThreads == UNION {OfThread(t) : t \in Threads}
<1>5. Rooted = OfThreads \union OfEntries
  BY DEF Rooted
<1>6. ASSUME NEW t \in Threads
      PROVE  /\ rv[t] \in OfThread(t)
             /\ \A frame \in ToSet(calls[t]) : frame.call.arg \in OfThread(t)
  OBVIOUS
<1>9. \A t \in Threads : OfThread(t) \subseteq OfThreads
  OBVIOUS
<1>8. \A e \in entries : EntryBlocks(e) \subseteq OfEntries
  OBVIOUS
<1> HIDE DEF OfThread, OfThreads, OfEntries
<1>10. \A e \in entries : EntryBlocks(e) \subseteq Rooted
  BY <1>5, <1>8
<1>7. \A t \in Threads : OfThread(t) \subseteq Rooted
  BY <1>5, <1>9
<1>2. ASSUME NEW e \in entries
      PROVE  e.key \in Rooted \intersect Blocks /\ e.value \in Rooted \intersect Blocks
  <2>1. e.key \in Blocks /\ e.value \in Blocks
    BY DEF Places, TypeOK
  <2>2. e.key \in EntryBlocks(e) /\ e.value \in EntryBlocks(e)
    BY DEF EntryBlocks
  <2> QED
    BY <2>1, <2>2, <1>10
<1>3. ASSUME NEW t \in Threads
      PROVE  rv[t] \in Rooted
  BY <1>6, <1>7
<1>4. ASSUME NEW t \in Threads, NEW i \in 1..Len(calls[t])
      PROVE  calls[t][i].call.arg \in Rooted
  <2>1. calls[t][i] \in ToSet(calls[t])
    BY <1>1 DEF ToSet
  <2> QED
    BY <2>1, <1>6, <1>7
<1> QED
  BY <1>2, <1>3, <1>4

(* Whatever holds of the entries goes on to hold when they are not changed *)
(* and their blocks are kept.                                              *)
LEMMA EntriesStay ==
  ASSUME Places, Sound, entries' = entries,
         \A e \in entries : holds'[e.key] = holds[e.key] /\ holds'[e.value] = holds[e.value]
  PROVE  EntriesHeld' /\ EntriesInv'
<1>1. EntriesHeld'
  BY DEF Sound, EntriesHeld
<1>2. EntriesInv'
  BY DEF Sound, EntriesInv
<1> QED
  BY <1>1, <1>2

LEMMA EntriesKept ==
  ASSUME Places, Sound, NEW t \in Threads, KeepsFor(t)
  PROVE  \A e \in entries : holds'[e.key] = holds[e.key] /\ holds'[e.value] = holds[e.value]
  BY RootsOf DEF KeepsFor, Sound, EntriesHeld

(* The same for a thread that takes no step.                               *)
LEMMA ThreadStays ==
  ASSUME Places, Sound, NEW t \in Threads, KeepsFor(t),
         calls'[t] = calls[t], call'[t] = call[t], rv'[t] = rv[t],
         local'[t] = local[t], pc'[t] = pc[t],
         entries' = entries \/ pc[t] \notin {"new", "key", "value"}
  PROVE  ThreadHeld(t)' /\ ResultOf(t)'
<1>1. ThreadHeld(t) /\ ResultOf(t)
  BY DEF Sound
<1>2. rv[t] \in Blocks => holds'[rv[t]] = holds[rv[t]]
  BY <1>1, RootsOf DEF KeepsFor, ThreadHeld
<1>3. local[t] \in Blocks => holds'[local[t]] = holds[local[t]]
  BY <1>1, NoneOfThem DEF KeepsFor, ThreadHeld, NeededOnly
<1>4. pc[t] # "run" => holds'[call[t].arg] = holds[call[t].arg] /\ call[t].arg \in Blocks
  BY <1>1, NoneOfThem DEF KeepsFor, ThreadHeld, NeededOnly, Places, PlaceInv
<1>5. ASSUME NEW i \in 1..Len(calls[t])
      PROVE  holds'[calls[t][i].call.arg] = holds[calls[t][i].call.arg]
  <2>1. calls[t][i].call.arg \in Blocks /\ calls[t][i].call.asked \in Contents
    BY DEF Places, FramesInv
  <2> QED
    BY <1>1, <2>1, RootsOf DEF KeepsFor, ThreadHeld
<1>6. ThreadHeld(t)'
  BY <1>1, <1>2, <1>3, <1>4, <1>5 DEF ThreadHeld
<1>7. pc[t] \in {"left", "new", "key", "value"} => rv[t] \in Blocks /\ pc[t] # "run"
  BY DEF Places, PlaceInv
<1>8. pc[t] = "hit" => local[t] \in Blocks
  BY DEF Places, PlaceInv
<1>9. ASSUME pc[t] \in {"new", "key", "value"}
      PROVE  Kept(t)' /\ Matching(t)' = {}
  <2>1. Kept(t) /\ Matching(t) = {} /\ entries' = entries
    BY <1>1, <1>9 DEF ResultOf
  <2>2. KeyOf(t)' = KeyOf(t) /\ call'[t].arg = call[t].arg
    BY <1>4, <1>7, <1>9 DEF KeyOf
  <2>3. \A e \in entries : Equal(e, t)' <=> Equal(e, t)
    BY <2>2, EntriesKept DEF Equal
  <2> QED
    BY <2>1, <2>2, <2>3 DEF Kept, Matching
<1>10. ResultOf(t)'
  BY <1>1, <1>2, <1>3, <1>7, <1>8, <1>9 DEF ResultOf
<1> QED
  BY <1>6, <1>10

(* Filling a free block, and touching none.                                *)
LEMMA FillingKeeps ==
  ASSUME Places, NEW b \in Free, NEW c, holds' = [holds EXCEPT ![b] = c], NEW t \in Threads
  PROVE  /\ KeepsFor(t)
         /\ \A x \in Blocks : holds[x] \in Contents => holds'[x] = holds[x]
         /\ b \in Blocks /\ holds'[b] = c
<1>1. b \in Blocks /\ holds[b] \notin Contents
  BY NoneOfThem DEF Free
<1>2. \A x \in Blocks : holds[x] \in Contents => holds'[x] = holds[x]
  BY <1>1 DEF Places, TypeOK
<1>3. holds'[b] = c
  BY <1>1 DEF Places, TypeOK
<1> QED
  BY <1>1, <1>2, <1>3 DEF KeepsFor

----------------------------------------------------------------------------
(* Every step of a thread keeps the cache sound and the results right.     *)
LEMMA QuietStep ==
  ASSUME Places, Sound, NEW t \in Threads, holds' = holds, entries' = entries,
         \A u \in Threads \ {t} :
           /\ calls'[u] = calls[u] /\ call'[u] = call[u] /\ rv'[u] = rv[u]
           /\ local'[u] = local[u] /\ pc'[u] = pc[u],
         ThreadHeld(t)', ResultOf(t)'
  PROVE  Sound'
<1>1. \A u \in Threads : KeepsFor(u)
  BY DEF KeepsFor
<1>2. EntriesHeld' /\ EntriesInv'
  BY EntriesStay
<1>3. ASSUME NEW u \in Threads \ {t}
      PROVE  ThreadHeld(u)' /\ ResultOf(u)'
  BY <1>1, ThreadStays
<1> QED
  BY <1>2, <1>3 DEF Sound

LEMMA FillingStep ==
  ASSUME Places, Sound, NEW t \in Threads, entries' = entries,
         NEW b \in Free, NEW c, holds' = [holds EXCEPT ![b] = c],
         \A u \in Threads \ {t} :
           /\ calls'[u] = calls[u] /\ call'[u] = call[u] /\ rv'[u] = rv[u]
           /\ local'[u] = local[u] /\ pc'[u] = pc[u],
         ThreadHeld(t)', ResultOf(t)'
  PROVE  Sound'
<1>1. \A u \in Threads : KeepsFor(u)
  BY FillingKeeps
<1>2. EntriesHeld' /\ EntriesInv'
  BY <1>1, EntriesKept, EntriesStay
<1>3. ASSUME NEW u \in Threads \ {t}
      PROVE  ThreadHeld(u)' /\ ResultOf(u)'
  BY <1>1, ThreadStays
<1> QED
  BY <1>2, <1>3 DEF Sound

LEMMA SkipAddSound ==
  ASSUME Places, Places', Sound, NEW t \in Threads, SkipAdd(t)
  PROVE  Sound'
<1>1. ThreadHeld(t) /\ ResultOf(t)
  BY DEF Sound
<1>2. /\ calls'[t] = calls[t] /\ pc'[t] = "run" /\ rv'[t] = NoBlock
      /\ local'[t] = local[t] /\ holds' = holds
  BY DEF Places, TypeOK, SkipAdd, EndCall
<1>8. ThreadHeld(t)'
  BY <1>1, <1>2, NoneOfThem DEF ThreadHeld
<1>9. ResultOf(t)'
  BY <1>2 DEF ResultOf
<1>10. \A u \in Threads \ {t} :
         /\ calls'[u] = calls[u] /\ call'[u] = call[u] /\ rv'[u] = rv[u]
         /\ local'[u] = local[u] /\ pc'[u] = pc[u]
  BY DEF Places, TypeOK, SkipAdd, EndCall
<1> QED
  BY <1>8, <1>9, <1>10, QuietStep DEF SkipAdd, EndCall

LEMMA HitSound ==
  ASSUME Places, Places', Sound, NEW t \in Threads, Hit(t)
  PROVE  Sound'
<1>1. ThreadHeld(t) /\ ResultOf(t)
  BY DEF Sound
<1>a. PICK e \in Matching(t) : local' = [local EXCEPT ![t] = e.value]
  BY DEF Hit
<1>2. /\ calls'[t] = calls[t] /\ call'[t] = call[t] /\ rv'[t] = rv[t] /\ pc'[t] = "hit"
      /\ local'[t] = e.value /\ holds' = holds /\ pc[t] = "called"
  BY <1>a DEF Places, TypeOK, Hit
<1>b. e \in entries /\ (e.key = call[t].arg \/ SameObject(holds[e.key], KeyOf(t)))
  BY DEF Matching, Equal
<1>3. holds[e.key] \in Contents /\ holds[e.value] \in Contents
  BY <1>b DEF Sound, EntriesHeld
<1>4. KeyOf(t) = call[t].asked /\ call[t].asked \in Contents
  BY <1>1, <1>2 DEF KeyOf, ThreadHeld, Places, PlaceInv
<1>5. ASSUME ~Misjudged(call[t].asked)
      PROVE  holds[e.value] = call[t].asked
  <2>1. holds[e.key] = call[t].asked
    BY <1>b, <1>3, <1>4, <1>5, RightlyJudged DEF KeyOf
  <2> QED
    BY <1>b, <1>5, <2>1 DEF Sound, EntriesInv
<1>8. ThreadHeld(t)'
  BY <1>1, <1>2, <1>3 DEF ThreadHeld
<1>9. ResultOf(t)'
  BY <1>1, <1>2, <1>5 DEF ResultOf
<1>10. \A u \in Threads \ {t} :
         /\ calls'[u] = calls[u] /\ call'[u] = call[u] /\ rv'[u] = rv[u]
         /\ local'[u] = local[u] /\ pc'[u] = pc[u]
  BY DEF Places, TypeOK, Hit
<1> QED
  BY <1>8, <1>9, <1>10, QuietStep DEF Hit

LEMMA TakeHitSound ==
  ASSUME Places, Places', Sound, NEW t \in Threads, TakeHit(t)
  PROVE  Sound'
<1>1. ThreadHeld(t) /\ ResultOf(t)
  BY DEF Sound
<1>a. call[t] \in Call
  BY DEF Places, TypeOK
<1>2. /\ calls'[t] = calls[t] /\ rv'[t] = local[t] /\ pc'[t] = "left" /\ pc[t] = "hit"
      /\ local'[t] = NoBlock /\ holds' = holds
      /\ call'[t].arg = call[t].arg /\ call'[t].asked = call[t].asked
  BY <1>a DEF Places, TypeOK, TakeHit, Call
<1>8. ThreadHeld(t)'
  BY <1>1, <1>2, NoneOfThem DEF ThreadHeld
<1>9. ResultOf(t)'
  BY <1>1, <1>2 DEF ResultOf
<1>10. \A u \in Threads \ {t} :
         /\ calls'[u] = calls[u] /\ call'[u] = call[u] /\ rv'[u] = rv[u]
         /\ local'[u] = local[u] /\ pc'[u] = pc[u]
  BY DEF Places, TypeOK, TakeHit
<1> QED
  BY <1>8, <1>9, <1>10, QuietStep DEF TakeHit

LEMMA MissSound ==
  ASSUME Places, Places', Sound, NEW t \in Threads, Miss(t)
  PROVE  Sound'
<1>1. ThreadHeld(t) /\ ResultOf(t)
  BY DEF Sound
<1> DEFINE frame == [call |-> call[t], flag |-> 0]
<1>a. flag'[t] = 0 /\ calls' = [calls EXCEPT ![t] = Append(calls[t], frame)]
  BY DEF Places, TypeOK, Miss
<1>b. call[t] \in Call /\ calls[t] \in Seq([call : Call, flag : {0, 1}])
  BY DEF Places, TypeOK
<1>c. frame \in [call : Call, flag : {0, 1}] /\ frame.call = call[t]
  BY <1>b
<1> HIDE DEF frame
<1>d. /\ Len(Append(calls[t], frame)) = Len(calls[t]) + 1
      /\ Append(calls[t], frame)[Len(calls[t]) + 1] = frame
      /\ \A i \in 1..Len(calls[t]) : Append(calls[t], frame)[i] = calls[t][i]
  BY <1>b, <1>c, Appended
<1>e. Len(calls[t]) \in Nat
  BY <1>b
<1>2. /\ calls'[t] = Append(calls[t], frame) /\ rv'[t] = rv[t] /\ pc'[t] = "run"
      /\ local'[t] = local[t] /\ holds' = holds /\ pc[t] = "called"
  BY <1>a DEF Places, TypeOK, Miss
<1>3. ASSUME NEW i \in 1..Len(calls'[t])
      PROVE  holds[calls'[t][i].call.arg] = calls'[t][i].call.asked
  <2>1. i \in 1..(Len(calls[t]) + 1)
    BY <1>2, <1>d
  <2>2. CASE i \in 1..Len(calls[t])
    BY <1>1, <1>2, <1>d, <2>2 DEF ThreadHeld
  <2>3. CASE i = Len(calls[t]) + 1
    BY <1>1, <1>2, <1>c, <1>d, <2>3 DEF ThreadHeld
  <2> QED
    BY <2>1, <2>2, <2>3, <1>e
<1>8. ThreadHeld(t)'
  BY <1>1, <1>2, <1>3, NoneOfThem DEF ThreadHeld
<1>9. ResultOf(t)'
  BY <1>2 DEF ResultOf
<1>10. \A u \in Threads \ {t} :
         /\ calls'[u] = calls[u] /\ call'[u] = call[u] /\ rv'[u] = rv[u]
         /\ local'[u] = local[u] /\ pc'[u] = pc[u]
  BY DEF Places, TypeOK, Miss
<1> QED
  BY <1>8, <1>9, <1>10, QuietStep DEF Miss

LEMMA BeginAddSound ==
  ASSUME Places, Places', Sound, NEW t \in Threads, BeginAdd(t)
  PROVE  Sound'
<1>1. ThreadHeld(t) /\ ResultOf(t)
  BY DEF Sound
<1>2. /\ calls' = calls /\ call' = call /\ rv' = rv /\ pc'[t] = "new" /\ pc[t] = "left"
      /\ local' = local /\ holds' = holds /\ entries' = entries
  BY DEF Places, TypeOK, BeginAdd, Adds
<1>3. Kept(t)' /\ Matching(t)' = {}
  BY <1>2 DEF BeginAdd, Adds, Kept, KeyOf, Matching, Equal
<1>8. ThreadHeld(t)'
  BY <1>1, <1>2 DEF ThreadHeld
<1>9. ResultOf(t)'
  BY <1>1, <1>2, <1>3 DEF ResultOf
<1>10. \A u \in Threads \ {t} :
         /\ calls'[u] = calls[u] /\ call'[u] = call[u] /\ rv'[u] = rv[u]
         /\ local'[u] = local[u] /\ pc'[u] = pc[u]
  BY DEF Places, TypeOK, BeginAdd, Adds
<1> QED
  BY <1>8, <1>9, <1>10, QuietStep DEF BeginAdd, Adds

LEMMA SetKeySound ==
  ASSUME Places, Places', Sound, NEW t \in Threads, SetKey(t)
  PROVE  Sound'
<1>1. ThreadHeld(t) /\ ResultOf(t)
  BY DEF Sound
<1>2. /\ calls' = calls /\ call' = call /\ rv' = rv /\ pc'[t] = "key" /\ pc[t] = "new"
      /\ local' = local /\ holds' = holds /\ entries' = entries
  BY DEF Places, TypeOK, SetKey
<1>3. Kept(t)' /\ Matching(t)' = {}
  BY <1>1, <1>2 DEF ResultOf, Kept, KeyOf, Matching, Equal
<1>8. ThreadHeld(t)'
  BY <1>1, <1>2 DEF ThreadHeld
<1>9. ResultOf(t)'
  BY <1>1, <1>2, <1>3 DEF ResultOf
<1>10. \A u \in Threads \ {t} :
         /\ calls'[u] = calls[u] /\ call'[u] = call[u] /\ rv'[u] = rv[u]
         /\ local'[u] = local[u] /\ pc'[u] = pc[u]
  BY DEF Places, TypeOK, SetKey
<1> QED
  BY <1>8, <1>9, <1>10, QuietStep DEF SetKey

LEMMA SetValueSound ==
  ASSUME Places, Places', Sound, NEW t \in Threads, SetValue(t)
  PROVE  Sound'
<1>1. ThreadHeld(t) /\ ResultOf(t)
  BY DEF Sound
<1>2. /\ calls' = calls /\ call' = call /\ rv' = rv /\ pc'[t] = "value" /\ pc[t] = "key"
      /\ local' = local /\ holds' = holds /\ entries' = entries
  BY DEF Places, TypeOK, SetValue
<1>3. Kept(t)' /\ Matching(t)' = {}
  BY <1>1, <1>2 DEF ResultOf, Kept, KeyOf, Matching, Equal
<1>8. ThreadHeld(t)'
  BY <1>1, <1>2 DEF ThreadHeld
<1>9. ResultOf(t)'
  BY <1>1, <1>2, <1>3 DEF ResultOf
<1>10. \A u \in Threads \ {t} :
         /\ calls'[u] = calls[u] /\ call'[u] = call[u] /\ rv'[u] = rv[u]
         /\ local'[u] = local[u] /\ pc'[u] = pc[u]
  BY DEF Places, TypeOK, SetValue
<1> QED
  BY <1>8, <1>9, <1>10, QuietStep DEF SetValue

LEMMA ThrowSound ==
  ASSUME Places, Places', Sound, NEW t \in Threads, Throw(t)
  PROVE  Sound'
<1>1. ThreadHeld(t) /\ ResultOf(t)
  BY DEF Sound
<1>2. /\ calls'[t] = <<>> /\ Len(<<>>) = 0 /\ pc'[t] = "run" /\ rv'[t] = NoBlock
      /\ local'[t] = local[t] /\ holds' = holds
  BY DEF Places, TypeOK, Throw, Unwind
<1>8. ThreadHeld(t)'
  BY <1>1, <1>2, NoneOfThem DEF ThreadHeld
<1>9. ResultOf(t)'
  BY <1>2 DEF ResultOf
<1>10. \A u \in Threads \ {t} :
         /\ calls'[u] = calls[u] /\ call'[u] = call[u] /\ rv'[u] = rv[u]
         /\ local'[u] = local[u] /\ pc'[u] = pc[u]
  BY DEF Places, TypeOK, Throw, Unwind
<1> QED
  BY <1>8, <1>9, <1>10, QuietStep DEF Throw, Unwind

LEMMA AddFailsSound ==
  ASSUME Places, Places', Sound, NEW t \in Threads, AddFails(t)
  PROVE  Sound'
<1>1. ThreadHeld(t) /\ ResultOf(t)
  BY DEF Sound
<1>2. /\ calls'[t] = <<>> /\ Len(<<>>) = 0 /\ pc'[t] = "run" /\ rv'[t] = NoBlock
      /\ local'[t] = local[t] /\ holds' = holds
  BY DEF Places, TypeOK, AddFails, Unwind
<1>8. ThreadHeld(t)'
  BY <1>1, <1>2, NoneOfThem DEF ThreadHeld
<1>9. ResultOf(t)'
  BY <1>2 DEF ResultOf
<1>10. \A u \in Threads \ {t} :
         /\ calls'[u] = calls[u] /\ call'[u] = call[u] /\ rv'[u] = rv[u]
         /\ local'[u] = local[u] /\ pc'[u] = pc[u]
  BY DEF Places, TypeOK, AddFails, Unwind
<1> QED
  BY <1>8, <1>9, <1>10, QuietStep DEF AddFails, Unwind

LEMMA PushArgSound ==
  ASSUME Places, Places', Sound, NEW t \in Threads, PushArg(t)
  PROVE  Sound'
<1>1. ThreadHeld(t)
  BY DEF Sound
<1>2. PICK b \in Free, c \in Contents :
        /\ holds' = [holds EXCEPT ![b] = c]
        /\ call' = [call EXCEPT ![t] = [NoCall EXCEPT !.arg = b, !.asked = c]]
  BY DEF PushArg
<1>3. /\ \A x \in Blocks : holds[x] \in Contents => holds'[x] = holds[x]
      /\ b \in Blocks /\ holds'[b] = c
  BY <1>2, FillingKeeps
<1>4. call'[t].arg = b /\ call'[t].asked = c
  BY <1>2 DEF Places, TypeOK, NoCall
<1>5. calls'[t] = calls[t] /\ rv'[t] = rv[t] /\ local'[t] = local[t] /\ pc'[t] = "called"
  BY DEF Places, TypeOK, PushArg
<1>6. ASSUME NEW i \in 1..Len(calls[t])
      PROVE  calls[t][i].call.arg \in Blocks /\ calls[t][i].call.asked \in Contents
  BY DEF Places, FramesInv
<1>7. ThreadHeld(t)'
  BY <1>1, <1>3, <1>4, <1>5, <1>6 DEF ThreadHeld
<1>8. ResultOf(t)'
  BY <1>5 DEF ResultOf
<1>9. \A u \in Threads \ {t} :
        /\ calls'[u] = calls[u] /\ call'[u] = call[u] /\ rv'[u] = rv[u]
        /\ local'[u] = local[u] /\ pc'[u] = pc[u]
  BY <1>2 DEF Places, TypeOK, PushArg
<1>10. entries' = entries
  BY DEF PushArg
<1> QED
  BY <1>2, <1>7, <1>8, <1>9, <1>10, FillingStep

LEMMA ReturnSound ==
  ASSUME Places, Places', Sound, NEW t \in Threads, Return(t)
  PROVE  Sound'
<1>1. ThreadHeld(t)
  BY DEF Sound
<1> DEFINE frame == Last(calls[t])
<1>2. calls[t] \in Seq([call : Call, flag : {0, 1}]) /\ calls[t] # <<>>
  BY DEF Places, TypeOK, Return
<1>3. /\ Len(calls[t]) \in 1..Len(calls[t])
      /\ frame = calls[t][Len(calls[t])]
      /\ \A i \in 1..Len(Front(calls[t])) :
           i \in 1..Len(calls[t]) /\ Front(calls[t])[i] = calls[t][i]
  BY <1>2, LastAndFront
<1>4. /\ frame.call.arg \in Blocks /\ frame.call.asked \in Contents
      /\ holds[frame.call.arg] = frame.call.asked
  BY <1>1, <1>3 DEF Places, FramesInv, ThreadHeld
<1>5. PICK b \in Free : /\ holds' = [holds EXCEPT ![b] = holds[frame.call.arg]]
                        /\ rv' = [rv EXCEPT ![t] = b]
  BY DEF Return
<1>a. call' = [call EXCEPT ![t] = frame.call]
  BY DEF Return
<1> HIDE DEF frame
<1>6. /\ \A x \in Blocks : holds[x] \in Contents => holds'[x] = holds[x]
      /\ b \in Blocks /\ holds'[b] = frame.call.asked
  BY <1>4, <1>5, FillingKeeps
<1>7. /\ calls'[t] = Front(calls[t]) /\ call'[t] = frame.call /\ rv'[t] = b
      /\ local'[t] = local[t] /\ pc'[t] = "left"
  BY <1>5, <1>a DEF Places, TypeOK, Return
<1>b. ASSUME NEW i \in 1..Len(calls[t])
      PROVE  holds'[calls[t][i].call.arg] = calls[t][i].call.asked
  BY <1>1, <1>6 DEF Places, FramesInv, ThreadHeld
<1>c. local[t] \in Blocks => holds'[local[t]] \in Contents
  BY <1>1, <1>6 DEF ThreadHeld
<1>d. holds'[frame.call.arg] = frame.call.asked
  BY <1>4, <1>6
<1>8. ThreadHeld(t)'
  BY <1>3, <1>4, <1>6, <1>7, <1>b, <1>c, <1>d DEF ThreadHeld
<1>9. ResultOf(t)'
  BY <1>6, <1>7 DEF ResultOf
<1>10. \A u \in Threads \ {t} :
         /\ calls'[u] = calls[u] /\ call'[u] = call[u] /\ rv'[u] = rv[u]
         /\ local'[u] = local[u] /\ pc'[u] = pc[u]
  BY <1>5, <1>a DEF Places, TypeOK, Return
<1>11. entries' = entries
  BY DEF Return
<1> QED
  BY <1>5, <1>8, <1>9, <1>10, <1>11, FillingStep

(* Replacing the value of an entry, and linking a new one.                 *)
LEMMA AddOverSound ==
  ASSUME Places, Places', Sound, NEW t \in Threads, AddOver(t)
  PROVE  Sound'
<1>1. ThreadHeld(t) /\ ResultOf(t)
  BY DEF Sound
<1>2. /\ calls'[t] = calls[t] /\ pc'[t] = "run" /\ pc[t] = "left" /\ rv'[t] = NoBlock
      /\ local'[t] = local[t] /\ holds' = holds /\ mutex = NoThread
  BY DEF Places, TypeOK, AddOver, Adds, EndCall
<1>3. \A u \in Threads \ {t} :
         /\ calls'[u] = calls[u] /\ call'[u] = call[u] /\ rv'[u] = rv[u]
         /\ local'[u] = local[u] /\ pc'[u] = pc[u]
         /\ pc[u] \notin {"new", "key", "value"}
  BY <1>2, NoneOfThem DEF Places, TypeOK, MutexInv, AddOver, Adds, EndCall
<1>4. \A u \in Threads \ {t} : ThreadHeld(u)' /\ ResultOf(u)'
  BY <1>2, <1>3, ThreadStays DEF KeepsFor
<1>5. ThreadHeld(t)' /\ ResultOf(t)'
  BY <1>1, <1>2, NoneOfThem DEF ThreadHeld, ResultOf
<1>6. rv[t] \in Blocks /\ holds[rv[t]] \in Contents /\ KeyOf(t) = call[t].asked
      /\ call[t].asked \in Contents
  BY <1>1, <1>2 DEF Places, PlaceInv, ThreadHeld, KeyOf
<1>7. PICK e \in Matching(t) :
        entries' = (entries \ {e}) \union {[e EXCEPT !.value = rv[t]]}
  BY DEF AddOver
<1> DEFINE new == [e EXCEPT !.value = rv[t]]
<1>8. e \in entries /\ e.key \in Blocks /\ e \in [key : Blocks, value : Blocks]
  BY <1>7 DEF Matching, Places, TypeOK
<1>9. new.key = e.key /\ new.value = rv[t]
  BY <1>8
<1>10. entries' = (entries \ {e}) \union {new}
  BY <1>7
<1> HIDE DEF new
<1>11. EntriesHeld'
  BY <1>2, <1>6, <1>8, <1>9, <1>10 DEF Sound, EntriesHeld
<1>12. ~Misjudged(holds[e.key]) => holds[rv[t]] = holds[e.key]
  <2> SUFFICES ASSUME ~Misjudged(holds[e.key]) PROVE holds[rv[t]] = holds[e.key]
    OBVIOUS
  <2>1. holds[e.key] \in Contents
    BY <1>8 DEF Sound, EntriesHeld
  <2>2. e.key = call[t].arg \/ SameObject(holds[e.key], KeyOf(t))
    BY <1>7 DEF Matching, Equal
  <2>3. holds[e.key] = call[t].asked
    BY <1>6, <2>1, <2>2, RightlyJudged DEF KeyOf
  <2> QED
    BY <1>1, <1>2, <2>3 DEF ResultOf
<1>13. EntriesInv'
  <2> SUFFICES ASSUME NEW f \in entries', ~Misjudged(holds[f.key])
               PROVE  /\ holds[f.value] = holds[f.key]
                      /\ Keeps(holds[f.key])
                      /\ \A g \in entries' : holds[g.key] = holds[f.key] => g = f
    BY <1>2 DEF EntriesInv
  <2>1. \A g \in entries : holds[g.key] = holds[e.key] /\ ~Misjudged(holds[e.key]) => g = e
    BY <1>8 DEF Sound, EntriesInv
  <2>2. CASE f = new
    BY <1>8, <1>9, <1>10, <1>12, <2>1, <2>2 DEF Sound, EntriesInv
  <2>3. CASE f \in entries /\ f # e
    <3>1. /\ holds[f.value] = holds[f.key]
          /\ Keeps(holds[f.key])
          /\ \A g \in entries : holds[g.key] = holds[f.key] => g = f
      BY <2>3 DEF Sound, EntriesInv
    <3>2. holds[new.key] # holds[f.key]
      BY <3>1, <1>8, <1>9, <2>3
    <3> QED
      BY <3>1, <3>2, <1>10
  <2> QED
    BY <2>2, <2>3, <1>10
<1> QED
  BY <1>4, <1>5, <1>11, <1>13 DEF Sound

LEMMA LinkEntrySound ==
  ASSUME Places, Places', Sound, NEW t \in Threads, LinkEntry(t)
  PROVE  Sound'
<1>1. ThreadHeld(t) /\ ResultOf(t)
  BY DEF Sound
<1>2. /\ calls'[t] = calls[t] /\ pc'[t] = "run" /\ pc[t] = "value" /\ rv'[t] = NoBlock
      /\ local'[t] = local[t] /\ holds' = holds /\ mutex = t
  BY DEF Places, TypeOK, MutexInv, LinkEntry, EndCall
<1>3. \A u \in Threads \ {t} :
         /\ calls'[u] = calls[u] /\ call'[u] = call[u] /\ rv'[u] = rv[u]
         /\ local'[u] = local[u] /\ pc'[u] = pc[u]
         /\ pc[u] \notin {"new", "key", "value"}
  BY <1>2 DEF Places, TypeOK, MutexInv, LinkEntry, EndCall
<1>4. \A u \in Threads \ {t} : ThreadHeld(u)' /\ ResultOf(u)'
  BY <1>2, <1>3, ThreadStays DEF KeepsFor
<1>5. ThreadHeld(t)' /\ ResultOf(t)'
  BY <1>1, <1>2, NoneOfThem DEF ThreadHeld, ResultOf
<1>6. rv[t] \in Blocks /\ holds[rv[t]] \in Contents /\ KeyOf(t) = call[t].asked
      /\ call[t].asked \in Contents
  BY <1>1, <1>2 DEF Places, PlaceInv, ThreadHeld, KeyOf
<1> DEFINE new == building[t]
<1>a. building[t] = [key |-> call[t].arg, value |-> rv[t]]
  BY DEF Places, BuildingInv, LinkEntry
<1>7. new.key = call[t].arg /\ new.value = rv[t]
  BY <1>a
<1>8. entries' = entries \union {new}
  BY DEF LinkEntry
<1> HIDE DEF new
<1>9. holds[new.key] = call[t].asked /\ holds[new.value] \in Contents
  BY <1>6, <1>7 DEF KeyOf
<1>10. EntriesHeld'
  BY <1>2, <1>6, <1>8, <1>9 DEF Sound, EntriesHeld
<1>11. Keeps(call[t].asked)
  BY <1>1, <1>2, <1>6 DEF ResultOf, Kept
<1>12. \A f \in entries : ~Misjudged(call[t].asked) => holds[f.key] # call[t].asked
  <2> SUFFICES ASSUME NEW f \in entries, ~Misjudged(call[t].asked),
                      holds[f.key] = call[t].asked
               PROVE  FALSE
    OBVIOUS
  <2>1. SameObject(holds[f.key], KeyOf(t))
    BY <1>6, RightlyJudged
  <2>2. f \in Matching(t)
    BY <2>1 DEF Matching, Equal
  <2> QED
    BY <1>1, <1>2, <2>2 DEF ResultOf
<1>13. EntriesInv'
  <2> SUFFICES ASSUME NEW f \in entries', ~Misjudged(holds[f.key])
               PROVE  /\ holds[f.value] = holds[f.key]
                      /\ Keeps(holds[f.key])
                      /\ \A g \in entries' : holds[g.key] = holds[f.key] => g = f
    BY <1>2 DEF EntriesInv
  <2>1. CASE f = new
    <3>1. holds[new.value] = call[t].asked
      BY <1>1, <1>2, <1>7, <1>9, <2>1 DEF ResultOf
    <3> QED
      BY <1>8, <1>9, <1>11, <1>12, <2>1, <3>1
  <2>2. CASE f \in entries
    <3>1. /\ holds[f.value] = holds[f.key]
          /\ Keeps(holds[f.key])
          /\ \A g \in entries : holds[g.key] = holds[f.key] => g = f
      BY <2>2 DEF Sound, EntriesInv
    <3>2. holds[new.key] # holds[f.key]
      BY <1>9, <1>12, <2>2
    <3> QED
      BY <3>1, <3>2, <1>8
  <2> QED
    BY <2>1, <2>2, <1>8
<1> QED
  BY <1>4, <1>5, <1>10, <1>13 DEF Sound

(* A collection keeps what is found from the roots; what else a thread     *)
(* needs it keeps unless it is an exposure.                                *)
LEMMA CollectSound ==
  ASSUME Places, Places', Sound, Collect, ~exposed'
  PROVE  Sound'
<1> DEFINE Freed == Blocks \ (Rooted \union Free)
<1>1. /\ holds' = [b \in Blocks |-> IF b \in Freed THEN Unused ELSE holds[b]]
      /\ \A t \in Threads : NeededOnly(t) \intersect Freed = {}
      /\ entries' = entries /\ calls' = calls /\ call' = call /\ rv' = rv
      /\ local' = local /\ pc' = pc
  BY DEF Collect, registers
<1>2. \A x \in Rooted : x \notin Freed
  OBVIOUS
<1> HIDE DEF Freed
<1>3. \A t \in Threads : KeepsFor(t)
  BY <1>1, <1>2 DEF KeepsFor
<1>4. \A e \in entries : holds'[e.key] = holds[e.key] /\ holds'[e.value] = holds[e.value]
  BY <1>1, <1>2, RootsOf
<1>5. EntriesHeld' /\ EntriesInv'
  BY <1>1, <1>4, EntriesStay
<1>6. ASSUME NEW t \in Threads
      PROVE  ThreadHeld(t)' /\ ResultOf(t)'
  BY <1>1, <1>3, ThreadStays
<1> QED
  BY <1>5, <1>6 DEF Sound

----------------------------------------------------------------------------
LEMMA IInvInit == Init => IInv
<1> SUFFICES ASSUME Init PROVE IInv
  OBVIOUS
<1>1. Places
  BY PlacesInit
<1>2. \A t \in Threads : Len(calls[t]) = 0
  BY DEF Init
<1>3. \A t \in Threads : ThreadHeld(t) /\ ResultOf(t)
  BY <1>2, NoneOfThem DEF Init, ThreadHeld, ResultOf
<1>4. EntriesHeld /\ EntriesInv
  BY DEF Init, EntriesHeld, EntriesInv
<1> QED
  BY <1>1, <1>3, <1>4 DEF IInv, Sound

LEMMA IInvStep == IInv /\ [Next]_vars => IInv'
<1> SUFFICES ASSUME IInv, [Next]_vars PROVE IInv'
  OBVIOUS
<1>1. Places /\ Places'
  BY PlacesStep DEF IInv
<1>2. exposed \in BOOLEAN /\ exposed' \in BOOLEAN
  BY <1>1 DEF Places, TypeOK
<1>3. ASSUME NEW t \in Threads, Sound,
             \/ PushArg(t) \/ Hit(t) \/ TakeHit(t) \/ Miss(t) \/ Return(t) \/ Throw(t)
             \/ SkipAdd(t) \/ AddOver(t) \/ BeginAdd(t) \/ SetKey(t) \/ SetValue(t)
             \/ LinkEntry(t) \/ AddFails(t)
      PROVE  Sound'
  BY <1>1, <1>3, PushArgSound, HitSound, TakeHitSound, MissSound, ReturnSound, ThrowSound,
     SkipAddSound, AddOverSound, BeginAddSound, SetKeySound, SetValueSound,
     LinkEntrySound, AddFailsSound
<1>4. ASSUME NEW t \in Threads,
             \/ PushArg(t) \/ Hit(t) \/ TakeHit(t) \/ Miss(t) \/ Return(t) \/ Throw(t)
             \/ SkipAdd(t) \/ AddOver(t) \/ BeginAdd(t) \/ SetKey(t) \/ SetValue(t)
             \/ LinkEntry(t) \/ AddFails(t)
      PROVE  exposed' = exposed
  BY <1>4 DEF PushArg, Hit, TakeHit, Miss, Return, Throw, SkipAdd, AddOver, BeginAdd, SetKey,
     SetValue, LinkEntry, AddFails, Unwind
<1>5. CASE Collect
  <2>1. exposed => exposed'
    BY <1>5, <1>2 DEF Collect
  <2> QED
    BY <1>1, <1>2, <1>5, <2>1, CollectSound DEF IInv
<1>6. CASE UNCHANGED vars
  <2>1. Sound => Sound'
    BY <1>6 DEF Sound, EntriesHeld, EntriesInv, ThreadHeld, ResultOf, Kept, KeyOf, Matching,
       Equal, vars, registers
  <2> QED
    BY <1>1, <1>6, <2>1 DEF IInv, vars
<1> QED
  BY <1>1, <1>2, <1>3, <1>4, <1>5, <1>6 DEF IInv, Next

LEMMA InductiveInvariant == Spec => []IInv
  BY IInvInit, IInvStep, PTL DEF Spec

----------------------------------------------------------------------------
(* The flag a call is left with tells whether its result came from the     *)
(* cache, after nested calls and errors as well                            *)
(* (memo_eval_strategy.cpp:92, 97, 103; vm.cpp 1269, 1308).                *)
THEOREM FlagsOfCalls == Spec => []FlagTellsMiss
<1>1. IInv => FlagTellsMiss
  BY DEF IInv, Places, PlaceInv, FlagTellsMiss
<1> QED
  BY InductiveInvariant, <1>1, PTL

(* An argument that is compared rightly has one entry, which holds the     *)
(* function's result for it: two threads that both miss, nested calls,     *)
(* errors and collections do not change that (ht_memo_cache.cpp:54-73).    *)
THEOREM CacheIsTheFunction == Spec => []CacheSoundUnlessExposed
<1>1. IInv => CacheSoundUnlessExposed
  BY DEF IInv, Sound, EntriesHeld, EntriesInv, CacheSoundUnlessExposed
<1> QED
  BY InductiveInvariant, <1>1, PTL

(* A call of such an argument ends with the function's result for it,      *)
(* computed or found (memo_eval_strategy.cpp:91-98).                       *)
THEOREM AnswersOfCalls == Spec => []AnswersRightUnlessExposed
<1>1. IInv => AnswersRightUnlessExposed
  BY DEF IInv, Sound, ResultOf, AnswersRightUnlessExposed
<1> QED
  BY InductiveInvariant, <1>1, PTL

=====
