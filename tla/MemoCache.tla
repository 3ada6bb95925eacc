----------------------------- MODULE MemoCache -----------------------------
(***************************************************************************)
(* Calls of a memoized function: MemoizationEvaluationStrategy of          *)
(* vm/strategy/memo_eval_strategy.cpp around the interpreter's calls, and  *)
(* HashTableMemoizationCache of vm/cache/ht_memo_cache.cpp, on a heap that *)
(* collections clean.                                                      *)
(*                                                                         *)
(* The table of the function is the set of its linked entries, all of one  *)
(* bucket; that it behaves like one is what HashTable shows.  Keys are     *)
(* compared by what they hold, so an entry is only as good as the block it *)
(* refers to.  The function has one argument, a reference to an object,    *)
(* and gives back a copy of it: the result for an argument is a block that *)
(* holds the same.  A collection marks and frees in one step.              *)
(***************************************************************************)
EXTENDS Naturals, SequencesExt

CONSTANTS
  Threads,
  Blocks,      \* memory for arguments and results
  Contents,    \* the objects a block may hold
  Unused,      \* what a free block holds
  SameObject(_, _), \* equal_objects: what EqualValues defines
  Keeps(_),    \* are_memoizable_fun_args of a reference to the object
  NoBlock,     \* the nil reference
  NoThread,
  MaxDepth     \* bound: nested calls of a thread

ASSUME DepthAssumption == MaxDepth \in Nat
ASSUME NoAssumption ==
  NoBlock \notin Blocks /\ NoThread \notin Threads /\ Unused \notin Contents

VARIABLES
  holds,       \* what each block holds
  entries,     \* the linked entries of the table
  mutex,       \* the owner of the table's mutex
  building,    \* per thread, the entry tmp_r refers to
  calls,       \* per thread, the calls it is in: the frames of its stack
  call,        \* per thread, the call it prepares or has returned from
  rv,          \* per thread, regs.rv
  local,       \* per thread, fun_result in pre_enter_to_fun: a C++ variable
  flag,        \* per thread, regs.cached_fun_result_flag
  pc,
  exposed      \* history: a collection has freed what a thread still needed

registers == <<calls, call, rv, local, flag, pc>>
vars == <<holds, entries, mutex, building, registers, exposed>>

Entry == [key : Blocks \union {NoBlock}, value : Blocks \union {NoBlock}]
NoEntry == [key |-> NoBlock, value |-> NoBlock]

(* A call: its pushed argument, what that held when the call was made, and *)
(* whether the answer came from the cache.                                 *)
NoCall == [arg |-> NoBlock, asked |-> Unused, hit |-> FALSE]

----------------------------------------------------------------------------
Free == {b \in Blocks : holds[b] = Unused}

(* Between the push of the argument and enter_to_fun the argument is below *)
(* sec, and if the call is found until it ends; leave_from_fun puts sec    *)
(* below the argument.                                                     *)
ArgBelowSec(t) == pc[t] \in {"called", "hit"} \/ (pc[t] = "left" /\ call[t].hit)

(* Mutant: the key of an entry is not gone through.                        *)
EntryValueOnly(e) == {e.value}

EntryBlocks(e) == {e.key, e.value}

(* What a collection finds: traverse_root_objects of contexts and caches.  *)
Rooted ==
  LET OfThread(t) ==
        {rv[t]} \union EntryBlocks(building[t])
          \union {frame.call.arg : frame \in ToSet(calls[t])}
          \union (IF ArgBelowSec(t) THEN {call[t].arg} ELSE {})
  IN (UNION {OfThread(t) : t \in Threads}) \union (UNION {EntryBlocks(e) : e \in entries})

(* What a thread will use though no root leads to it.                      *)
NeededOnly(t) == {local[t], call[t].arg} \ {NoBlock}

(* The entries a thread may find for its call.                             *)
KeyOf(t) == holds[call[t].arg]
Kept(t) == Keeps(KeyOf(t))
Equal(e, t) == e.key = call[t].arg \/ SameObject(holds[e.key], KeyOf(t))
Matching(t) == {e \in entries : Equal(e, t)}

Init ==
  /\ holds = [b \in Blocks |-> Unused]
  /\ entries = {}
  /\ mutex = NoThread
  /\ building = [t \in Threads |-> NoEntry]
  /\ calls = [t \in Threads |-> <<>>]
  /\ call = [t \in Threads |-> NoCall]
  /\ rv = [t \in Threads |-> NoBlock]
  /\ local = [t \in Threads |-> NoBlock]
  /\ flag = [t \in Threads |-> 0]
  /\ pc = [t \in Threads |-> "run"]
  /\ exposed = FALSE

----------------------------------------------------------------------------
(* A function pushes a new object as the argument of a call.               *)
PushArg(t) ==
  /\ pc[t] = "run"
  /\ Len(calls[t]) < MaxDepth
  /\ \E b \in Free, c \in Contents :
       /\ holds' = [holds EXCEPT ![b] = c]
       /\ call' = [call EXCEPT ![t] = [NoCall EXCEPT !.arg = b, !.asked = c]]
  /\ pc' = [pc EXCEPT ![t] = "called"]
  /\ UNCHANGED <<entries, mutex, building, calls, rv, local, flag, exposed>>

(* pre_enter_to_fun, fun_result finds the call: the value is copied.       *)
Hit(t) ==
  /\ pc[t] = "called"
  /\ Kept(t) /\ mutex = NoThread
  /\ \E e \in Matching(t) : local' = [local EXCEPT ![t] = e.value]
  /\ pc' = [pc EXCEPT ![t] = "hit"]
  /\ UNCHANGED <<holds, entries, mutex, building, calls, call, rv, flag, exposed>>

(* pre_enter_to_fun goes on: the value becomes that of the call.           *)
TakeHit(t) ==
  /\ pc[t] = "hit"
  /\ rv' = [rv EXCEPT ![t] = local[t]]
  /\ local' = [local EXCEPT ![t] = NoBlock]
  /\ flag' = [flag EXCEPT ![t] = 1]
  /\ call' = [call EXCEPT ![t].hit = TRUE]
  /\ pc' = [pc EXCEPT ![t] = "left"]
  /\ UNCHANGED <<holds, entries, mutex, building, calls, exposed>>

(* pre_enter_to_fun does not find it, or does not look for an argument     *)
(* that is not kept; enter_to_fun makes a frame, with the flag in it.      *)
Miss(t) ==
  /\ pc[t] = "called"
  /\ Kept(t) => mutex = NoThread /\ Matching(t) = {}
  /\ flag' = [flag EXCEPT ![t] = 0]
  /\ calls' = [calls EXCEPT ![t] = Append(@, [call |-> call[t], flag |-> flag'[t]])]
  /\ call' = [call EXCEPT ![t] = NoCall]
  /\ pc' = [pc EXCEPT ![t] = "run"]
  /\ UNCHANGED <<holds, entries, mutex, building, rv, local, exposed>>

(* Mutant: leave_from_fun leaves the flag alone.                           *)
ReturnKeepsFlag(t) ==
  /\ pc[t] = "run"
  /\ calls[t] # <<>>
  /\ LET frame == Last(calls[t]) IN
       /\ \E b \in Free :
            /\ holds' = [holds EXCEPT ![b] = holds[frame.call.arg]]
            /\ rv' = [rv EXCEPT ![t] = b]
       /\ call' = [call EXCEPT ![t] = frame.call]
  /\ calls' = [calls EXCEPT ![t] = Front(@)]
  /\ pc' = [pc EXCEPT ![t] = "left"]
  /\ UNCHANGED <<entries, mutex, building, local, flag, exposed>>

(* ret: the function makes its result, leave_from_fun takes the frame off  *)
(* and the flag out of it.                                                 *)
Return(t) ==
  /\ pc[t] = "run"
  /\ calls[t] # <<>>
  /\ LET frame == Last(calls[t]) IN
       /\ \E b \in Free :
            /\ holds' = [holds EXCEPT ![b] = holds[frame.call.arg]]
            /\ rv' = [rv EXCEPT ![t] = b]
       /\ call' = [call EXCEPT ![t] = frame.call]
       /\ flag' = [flag EXCEPT ![t] = frame.flag]
  /\ calls' = [calls EXCEPT ![t] = Front(@)]
  /\ pc' = [pc EXCEPT ![t] = "left"]
  /\ UNCHANGED <<entries, mutex, building, local, exposed>>

(* The call is over: pop_args, and the instruction that called takes the   *)
(* value out of rv.                                                        *)
EndCall(t) ==
  /\ call' = [call EXCEPT ![t] = NoCall]
  /\ rv' = [rv EXCEPT ![t] = NoBlock]
  /\ pc' = [pc EXCEPT ![t] = "run"]
  /\ UNCHANGED <<calls, local>>

(* post_leave_from_fun of a call whose result came from the cache, or      *)
(* whose argument or result is not kept.                                   *)
SkipAdd(t) ==
  /\ pc[t] = "left"
  /\ flag[t] = 1 \/ ~Kept(t) \/ ~Keeps(holds[rv[t]])
  /\ flag' = [flag EXCEPT ![t] = 1]
  /\ EndCall(t)
  /\ UNCHANGED <<holds, entries, mutex, building, exposed>>

Adds(t) ==
  /\ pc[t] = "left"
  /\ flag[t] = 0
  /\ Kept(t) /\ Keeps(holds[rv[t]])

(* post_leave_from_fun adds the result.  Another thread was quicker: its   *)
(* value is replaced.                                                      *)
AddOver(t) ==
  /\ Adds(t)
  /\ mutex = NoThread
  /\ \E e \in Matching(t) : entries' = (entries \ {e}) \union {[e EXCEPT !.value = rv[t]]}
  /\ flag' = [flag EXCEPT ![t] = 1]
  /\ EndCall(t)
  /\ UNCHANGED <<holds, mutex, building, exposed>>

(* Mutant: the mutex is locked after the search.                           *)
BeginAddUnlocked(t) ==
  /\ Adds(t)
  /\ Matching(t) = {}
  /\ mutex' = t
  /\ pc' = [pc EXCEPT ![t] = "new"]
  /\ UNCHANGED <<holds, entries, building, calls, call, rv, local, flag, exposed>>

BeginAdd(t) ==
  /\ Adds(t)
  /\ mutex = NoThread
  /\ Matching(t) = {}
  /\ mutex' = t
  /\ pc' = [pc EXCEPT ![t] = "new"]
  /\ UNCHANGED <<holds, entries, building, calls, call, rv, local, flag, exposed>>

(* The new entry is in tmp_r; set_key refers to what the argument on the   *)
(* stack refers to.                                                        *)
SetKey(t) ==
  /\ pc[t] = "new"
  /\ building' = [building EXCEPT ![t].key = call[t].arg]
  /\ pc' = [pc EXCEPT ![t] = "key"]
  /\ UNCHANGED <<holds, entries, mutex, calls, call, rv, local, flag, exposed>>

SetValue(t) ==
  /\ pc[t] = "key"
  /\ building' = [building EXCEPT ![t].value = rv[t]]
  /\ pc' = [pc EXCEPT ![t] = "value"]
  /\ UNCHANGED <<holds, entries, mutex, calls, call, rv, local, flag, exposed>>

(* The entry is linked, tmp_r cleared, the mutex unlocked; the call ends.  *)
LinkEntry(t) ==
  /\ pc[t] = "value"
  /\ entries' = entries \union {building[t]}
  /\ building' = [building EXCEPT ![t] = NoEntry]
  /\ mutex' = NoThread
  /\ flag' = [flag EXCEPT ![t] = 1]
  /\ EndCall(t)
  /\ UNCHANGED <<holds, exposed>>

(* set_error without a try: all frames go, the flag stays what it is.      *)
Unwind(t) ==
  /\ calls' = [calls EXCEPT ![t] = <<>>]
  /\ call' = [call EXCEPT ![t] = NoCall]
  /\ rv' = [rv EXCEPT ![t] = NoBlock]
  /\ pc' = [pc EXCEPT ![t] = "run"]
  /\ UNCHANGED <<holds, entries, local, flag, exposed>>

Throw(t) ==
  /\ pc[t] = "run"
  /\ calls[t] # <<>>
  /\ Unwind(t)
  /\ UNCHANGED <<mutex, building>>

(* No memory for the entry or for its key: ERROR_OUT_OF_MEMORY.            *)
AddFails(t) ==
  /\ pc[t] = "new"
  /\ mutex' = NoThread
  /\ Unwind(t)
  /\ UNCHANGED building

Collect ==
  LET Freed == Blocks \ (Rooted \union Free)
  IN /\ Freed # {}
     /\ holds' = [b \in Blocks |-> IF b \in Freed THEN Unused ELSE holds[b]]
     /\ exposed' = (exposed \/ \E t \in Threads : NeededOnly(t) \intersect Freed # {})
     /\ UNCHANGED <<entries, mutex, building, registers>>

Next ==
  \/ \E t \in Threads :
       \/ PushArg(t) \/ Hit(t) \/ TakeHit(t) \/ Miss(t) \/ Return(t) \/ Throw(t)
       \/ SkipAdd(t) \/ AddOver(t) \/ BeginAdd(t) \/ SetKey(t) \/ SetValue(t)
       \/ LinkEntry(t) \/ AddFails(t)
  \/ Collect

Spec == Init /\ [][Next]_vars

----------------------------------------------------------------------------
Call == [arg : Blocks \union {NoBlock}, asked : Contents \union {Unused}, hit : BOOLEAN]

TypeOK ==
  /\ holds \in [Blocks -> Contents \union {Unused}]
  /\ entries \subseteq [key : Blocks, value : Blocks]
  /\ mutex \in Threads \union {NoThread}
  /\ building \in [Threads -> Entry]
  /\ calls \in [Threads -> Seq([call : Call, flag : {0, 1}])]
  /\ \A t \in Threads : Len(calls[t]) <= MaxDepth
  /\ call \in [Threads -> Call]
  /\ rv \in [Threads -> Blocks \union {NoBlock}]
  /\ local \in [Threads -> Blocks \union {NoBlock}]
  /\ flag \in [Threads -> {0, 1}]
  /\ pc \in [Threads -> {"run", "called", "hit", "left", "new", "key", "value"}]
  /\ exposed \in BOOLEAN

(* An object that is not equal to itself, or equal to another: tuples and  *)
(* arrays of references, which are compared the wrong way round (vm.cpp    *)
(* 1767, 1775), an array with a NaN, the two zeros of a float.             *)
Misjudged(c) ==
  \E d \in Contents : ~(SameObject(c, d) <=> c = d) \/ ~(SameObject(d, c) <=> c = d)

(* What the cache gives back for an argument is what the function gives    *)
(* for it, and one argument has one entry: calls that run at the same time *)
(* and both miss, nested calls, errors half-way and collections do not     *)
(* change that (ht_memo_cache.cpp:54-73, memo_eval_strategy.cpp:81-129).   *)
(* Nothing is said of arguments that are misjudged.                        *)
CacheSoundUnlessExposed ==
  exposed \/ \A e \in {x \in entries : ~Misjudged(holds[x.key])} :
    /\ holds[e.key] \in Contents
    /\ holds[e.value] = holds[e.key]
    /\ Keeps(holds[e.key])
    /\ \A f \in entries : holds[f.key] = holds[e.key] => f = e

(* The value a call ends with is that of the function for the argument it  *)
(* was called with, whether it was computed or found                       *)
(* (memo_eval_strategy.cpp:91-98).  The code does not keep it.             *)
AnswersRight == \A t \in Threads : pc[t] = "left" => holds[rv[t]] = call[t].asked

(* The same for arguments that are not misjudged, until a collection has   *)
(* freed what a thread still needed (memo_eval_strategy.cpp:91-98).        *)
AnswersRightUnlessExposed ==
  exposed \/ \A t \in Threads :
    pc[t] = "left" /\ ~Misjudged(call[t].asked) => holds[rv[t]] = call[t].asked

(* cached_fun_result_flag is of the call it is read for: after calls       *)
(* within the call, and after errors, it still tells whether the result    *)
(* came from the cache, so what was computed is stored and what was found  *)
(* is not stored again (memo_eval_strategy.cpp:92, 97, 103; vm.cpp 1269,   *)
(* 1308).                                                                  *)
FlagTellsMiss ==
  /\ TypeOK
  /\ \A t \in Threads : pc[t] = "left" => (flag[t] = 1 <=> call[t].hit)
=============================================================================
