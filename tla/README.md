# A verification project for Letin

Letin is a virtual machine for a purely functional language: an interpreter
with lazy and memoizing evaluation, a mark and sweep garbage collector in a
thread of its own, native libraries that may fork the process, and a compiler.
This directory keeps TLA+ modules for the parts whose difficulty is in the
order in which things happen, the TLC configurations that check them and the
theorems that TLAPS proves about them. `PROJECT.json` is the index: which lines
of the code a definition stands for, what a run checks, which hazard of the
code a property is for, which plausible bug (mutant) a property finds.

Run a configuration with `tlc -config X.cfg M`, where M is the MC module
PROJECT.json names for it; check the proofs with `tlapm M_proofs.tla`.

## The system

| Part | State | Operations | What is hard | Correct when |
|---|---|---|---|---|
| Mark and sweep collector (`vm/gc`) | the list of headers, marks, a mark stack threaded through the headers | `allocate`, `collect` (mark with the world stopped, sweep with it running) | threads are stopped between any two instructions: half-built objects, blocks not yet listed | what is reachable is never freed, what is not is freed in the end |
| Stopping the world (`vm/thread_stop_cont`, `Threads` of `vm/impl_gc_base`) | `has_stopping`, two semaphores, one pointer for all collectors, a mutex and a flag per thread | `stop_threads`, `continue_threads`, the handler of SIGUSR1, interruptible native functions | signals that come early, late or twice | between lock and unlock no thread works on the heap, and every stop ends |
| Collector's thread and fork (`vm/impl_gc_base`, `ForkAround`) | four mutexes, `is_locked_gc_thread`, `is_started` | sleep, collect, give way to a fork, start, stop | lock order; a child with copies of locked mutexes | a fork copies a process at rest, and ends |
| Lazy values (`force_value`, `LazyValueMutex`) | value, `must_be_shared` and mutex of each; references on the stacks; a semaphore | force, share, unwind an error, fork | the mutex outlives the C++ scope that locked it; errors and tries; unique objects | evaluated by one thread at a time; a unique object given once |
| Memoization cache (`vm/hash_table.hpp`, `vm/cache`) | buckets of linked entries in the heap | get, add, del, set the number of buckets | collections and forks between the steps of an insertion; failures half-way; two threads that miss | a map: gives back what was stored, or nothing |
| Evaluation strategies (`vm/strategy`) | none, or a cache; a register of the context | before a call, after a return | which calls become lazy values, results that must not be cached, arguments that no root leads to | caching and laziness do not change results |
| Thread context (`vm/vm.cpp`, `vm/vm.hpp`) | two stacks and the registers | enter and leave a function, save and restore around native calls, tries, errors | frames as data on the stack; the limits | a return finds the frame of its call, an error the innermost try |
| Registered references | a ring per thread, through the C++ stack | register, destruct | destructors in any order, references that are registered late | the ring holds the registered ones |
| Interpreter (`vm/vm/interp_vm.cpp`) | the above | 200 operations | instructions broken off by a lazy operand and begun again; unique objects on the way from one place to another | an instruction finds its operands again; a unique object has one reference |
| Loader, linker, environment (`vm/impl_loader`, `vm/impl_vm_base`, `vm/impl_env`, `Program`) | tables of functions, variables, symbols, annotations | load, relocate | indexes of a file, of the machine and of native functions; failure half-way; loading again | every name leads to what it means, or the load is refused |
| Compiler (`comp`) | symbol tables, code, data, relocations | generate | what is counted first is written later; order of layout | the file says what the source says |
| Native function handlers | blocks of indexes | add, find, invoke | several handlers, several names | an index reaches the function it was given for |
| Native helpers (`include/letin/native.hpp`, `vm/native.cpp`) | temporary references on the C++ stack | check and force arguments, convert them, set the value to return | every step may call the interpreter or the collector, and may fail; unique arguments are canceled on the way | arguments are accepted as documented; nothing in use is freed; a unique object comes back once |
| POSIX, socket and default libraries | - | some 130 functions | the arguments of each are described four times: in its comment, its checkers, its converters, the places of `args` it reads | the four agree |
| `letin`, `letinc` | - | command lines | - | - |

The interpreter's threads share the heap with the collector's thread; they
meet at the gc mutex (`allocate`, the cache, registration), at the signals, at
the mutexes of lazy values and of the cache's tables, and at a fork, which has
to find all of these at rest.

## Modules

* `MarkSweepGC` - blocks, what they refer to, the roots of each thread, the
  steps of the instructions that allocate, and `collect` in its steps. The
  references a thread's stacks and registers hold are one set, `roots`;
  `gc_tmp_ptr` is separate, because the collector treats it so. An
  instruction that allocates is four stops: allocated (`AddHeader` waits for
  the mutex), filled, arguments popped, result pushed. Stopping the world is
  the guard `Running`. `unsound` is a history variable: it becomes true when
  marking has passed over the children of an object.
* `WorldLock` - what a collector expects of its lock on the threads.
* `StopTheWorld` - how signals provide it, for several collectors: one action
  for each call of `stop_threads`, `continue_threads` and the handler that
  another thread can see. Test and `sigsuspend` are one step: SIGUSR2 is
  blocked but inside `sigsuspend`, so "suspended" stands for both sides of it.
* `GcThread` - the loop of the collector's thread with its four mutexes, the
  `pre_fork` and `post_fork` handlers, the threads that allocate, use a table
  of the cache, enter and leave native functions, fork and end, and the main
  thread. After a fork a behaviour is that of the parent or of the child. The
  lock on the threads is the abstract one.
* `CallByNeed` - what lazy values promise.
* `LazyValues` - how `force_value` does it: the mutexes, the stack of locked
  references, errors that unwind it, tries, sharing, and the child of a fork. The
  paths on which the `unique_lock` of `force_value` and the stack disagree about
  a mutex are actions of their own: `EnterOverflows` and `UnlockAgain`,
  `EnterCaught` and `StoreUnlocked`, `ReturnFirst` and `Adopt` (see *Further
  departures*). While nobody else has the mutex they do no harm and the model
  goes on. When another thread has it, two threads work in one lazy value, and
  what they store in `lzv.value` is a data race: `astray` names that lazy value,
  and the model stops there. `adopted` are the evaluated lazy values
  that were unlocked under another thread, which is harmless.
* `FiniteMap` - what a hash table promises: a key gives the last value stored
  for it, or nothing; a new table forgets everything.
* `HashTable` - `add`, `del`, `get` and `set_bucket_count` on buckets of doubly
  linked entries in the collected heap. `add` is a step for each allocation and
  each thing it sets, because a collection may come between them; what the code
  does with the gc mutex locked is one step. A bucket's entries are the least
  set that has the first and is closed under `next_r`, as the search meets
  them. A collection clears the memory it frees: stale links must not help.
* `EqualValues` - pure operators: `equal_values`, `equal_objects`, and which
  arguments and results may be kept (`are_memoizable_fun_args`), with the
  departures of the code: how tuples and arrays of references are compared, how
  floats are, and what the count of bytes does not look at.
* `MemoCache` - calls of a memoized function: `pre_enter_to_fun`, the frame,
  `leave_from_fun`, `post_leave_from_fun`, errors, nested calls, with the flag
  in its register and in the frames, on blocks that collections free. The table
  is the set of its entries (that it is one is `HashTable`'s matter), all of one
  bucket. How objects are compared and which are kept are operators among the
  constants, `SameObject` and `Keeps`: the runs take those of `EqualValues`, the
  proofs any. `exposed` is a history variable: a collection has freed what a
  thread still uses.
* `ThreadContext` - the registers and the stack of a thread, as operators from a
  context to a context: words with their types, frames, pushed and hidden
  arguments, the registers of a try, errors, and what is saved and restored
  around a native function. There is one operator for each function of the class.
* `InterpreterVM` - how an instruction begins, enters functions, is begun again
  when they return, and ends. A program is any sequence of instructions of a
  constant `Program`; operations that only compute are one of them. The
  registers that the C++ stack keeps for a native function are in `natives`.
  `lost` is a history variable: an error was raised in a try whose function is
  not entered, or while a native function's exception passed its frame.
* `CallStack` - what all this is for: a sequence of activations, of which a
  call, a return, a forced value or an error changes only the end.
* `InterpreterFrames` - reads the activations from the words of the stack, from
  the top, as the interpreter will pop them, and states that `InterpreterVM`
  implements `CallStack`. They are kept in the auxiliary variable `acts`.
* `UniqueObjects` - one frame (local variables, pushed arguments, the expression
  stack) and the heap its values lead to. An instruction has a signature `sig`,
  one of those of `include/letin/opcode.hpp`; it gets its operands from the last
  to the first (`Operand`), cancels what it uses of unique objects and remembers
  it in `undo`. At a lazy operand (`ForceValue`) it is broken off: cancelations are
  undone, the function runs (`callee`), and the instruction begins again with
  the lock it left. `Operation` is the group of operations the signature
  stands for: make, fill, set and take elements, copy, share, call, build
  lazy values. A number has no value; the functions called are known by what
  they may return. `exposed` is a history variable: one of the paths below has
  duplicated a unique object. A reference counts when it is in the frame or in
  an object that references in use lead to (`HeldObjects`): the arguments of a
  function that has been entered are used up, and so is what only they lead to,
  unless the function fails and is run again, which is such a path.
* `Compiler` - operators from a program (a sequence of definitions, in the order
  of the source) to a program file: numbers of functions and variables, layout
  of code and data, labels, relocations, symbols, the room reserved for them,
  annotations, and what is refused.
* `Linking` - the files are compiled and loaded (`Compile`, `Load`, with `Link`,
  `Relocate` and what they set in the environment as operators), in any order, one or two at a time, then
  loaded again. `Handlers` are the tables of native functions; `HandlerOf` finds
  the block of an index as `MultiNativeFunctionHandler` does.
* `NativeCalls` - one call of a native function. The functions of C++ that run
  are `frames`; each has a list of what it has still to do, and its temporary
  references are slots of `refs`, which is also the ring the collector walks.
  The checkers (`Count` to `Case`) force, cancel, copy and register; the
  converters (`Convert`) read; the function then allocates, calls the system
  (`Outcome`: any of its outcomes) and the setters (`Set`) build the value. The
  collector (`Collect`) may run at every step and finds what `Roots` names and
  the block of `gc_tmp_ptr`; the memory may run out at every allocation. What a
  call passes is made by `Variants` from the comment of the function: proper
  values, lazy ones at one or at all places, values that fail to evaluate, at
  the top and in tuples, and values of every other kind.
* `NativeLibrary` - what the rows of both libraries share: checkers, setters,
  the shapes of rows, time values, sets and tables of descriptors.
  `PosixLibrary` and `SocketLibrary` have a row for each function: what its
  comment promises, what it checks, what its converters read, what it
  allocates, and each of its returns. `PosixLibrary` has the functions of the
  machine's own handler too. The functions whose comment, checkers and reads
  disagree are named there (`PosixNotAsDocumented`, ...).
* `MarkSweepGC_proofs`, `StopTheWorld_proofs`, `GcThread_proofs`,
  `LazyValues_proofs`, `HashTable_proofs`, `MemoCache_proofs`,
  `UniqueObjects_proofs`, `InterpreterVM_proofs` - the theorems, each with the
  inductive invariant it needs.
* `MC...` - instances for TLC.

Operators whose comment begins with "Mutant" are not part of a specification:
each is a definition as a plausible bug would change it, named in PROJECT.json
with the property that notices.

## Runs

| Run | Instance | Shows |
|---|---|---|
| `MarkSweepGC_blocks` | 2 blocks, 2 threads, 1 reference an object | nothing reachable is freed until marking loses children, nothing under construction ever; garbage is freed |
| `StopTheWorld_machines` | collectors with 2 threads and 1 thread | both implement `WorldLock`; handlers and semaphores are not mixed up; stops and continuations end |
| `GcThread_threads` | 3 threads | a fork and a marking find everything at rest; forks, stops, collections end; the child's collector starts |
| `LazyValues_threads` | 2 threads, 2 lazy values, one leading to the other | mutexes follow stacks and call by need is implemented, up to where a thread goes astray; nobody blocks at the semaphore; who waits for a lazy value gets it |
| `HashTable_safety` | 2 threads, 3 keys in 2 buckets, 3 entries | buckets are lists in both directions, nothing linked is freed, the table is a map |
| `MemoCache_safety` | 3 threads, 5 blocks, 3 arrays of numbers of which one is too long to be kept, nested calls | memoization does not change results until a collection exposes a thread |
| `MemoCache_doc` | 2 threads, 5 blocks, 2 pairs of numbers | a counterexample (below) |
| `InterpreterFrames_safety` | 37 words of stack, 3 activations with the thread's own, 4 under a try or in a native function, at most 3 variables and pushed arguments in each | the stack and the registers are a call stack; collections see what is live and nothing stale |
| `InterpreterFrames_doc` | a program of try, arguments and native calls | a counterexample (below) |
| `UniqueObjects_safety` | 3 objects of at most 1 element and a global one, 2 places in the frame, every sequence of instructions | a unique object has one reference and no shared object leads to it; an instruction broken off finds its frame and its lock |
| `Linking_safety` | 74 libraries and 21 programs, each laid out in every order, loaded in every order, twice | indexes, symbols, jumps, strategies are those of the source; a failed load leaves nothing |
| `NativeCalls_safety` | each function of the libraries, called once with each variant of its arguments | arguments are accepted and values returned as documented; nothing in use is freed; a unique object comes back once |

Why the bounds are enough. A block is lost through an object under construction that
refers to it, so two blocks contain it, and the two threads the race of an
allocation with another's. After `unsound` only `ConstructionNotFreed` and
`GarbageIsFreed` still say something. (`ConstructionSafe` and `ReachableSafe`
are proved for every number of blocks.) Two collectors are needed for the shared pointer, two threads of one for
a count of posts that is neither zero nor one. Three forking threads are one
at the fork, one queued behind it and one in a critical section. Lazy values
need a chain of two for the nested lock. A mutex that is unlocked twice leaves one
more in the semaphore, as in the code; `MaxSem` bounds it, in the guards of the
three actions that lead there: they begin only when no more than `MaxSem` - 1 is
left in it, with 1 while both threads have locked something or one has ended.
That is enough for harm, which needs another thread that has the mutex or is
about to: each of the three ways to `astray`, and `adopted`, are reached. Three keys of which two share a bucket make an entry first, last, only
one and, in three entries, middle of its bucket. A wrong answer of the cache
needs a thread that fills it, one that asks, and one that replaces the entry in
between; `NotYetExposed` cuts behaviours after `exposed`, which is never reset
and makes both invariants that name it true. `SecondIsPlain` has the second collector begin when its thread has started, and keeps
that thread out of interruptible functions: of two collectors the second is there
for the shared pointer and the signals. `FirstInOrder` names the two threads of the first
collector, which are alike. `OneShares` lets one of two threads put lazy values in shared objects:
what `share` does to another thread that forces is there, two that share one after
the other are one that does it twice. Three objects
are a unique one, one that holds it and a lazy value that leads to it or to
that; two places in the frame are two operands of which the second breaks the
instruction off. `Small` stops at a full heap and after `exposed`, and where an
expression value is beside a variable and two objects are in use; states there
are checked and not followed. The libraries of `MCLinking` have a body for each
kind of use, a value for each kind of object, and clashes of names; one block
of two indexes stands for the 1024 of the code, so that a handler has more than
one. A native function is called once: between two calls nothing of a call is
left but its value. Its tables have two rows, of which the second
tells a loop's variable from another's.
Nothing in the models counts without bound but `given`, which the
abstract specification bounds by one, `sem`, bounded by `MaxSem`, and the loads,
bounded by `MaxLoads`.

On the stack of 37 words a try inside the function of a try just finds room, and
its handler, a forced value or a native function in it do not: every place where
a push or a call is refused is reached, in an instruction that has pushed nothing
and in one that has pushed half of what it needs. `Bounded` cuts behaviours with
more activations or words, and those in which an error was lost. The state that
TLC compares is `LiveWords`: words above what is pushed, and `tmp_ac2` between
instructions, are overwritten before they are read, except after a lost error.

### Counterexamples

* `AnswersRight` (`doc/vm.md`: a function needn't be invoked if its result is
  known for the arguments): `equal_objects` gives up two tuples when two of
  their elements are *equal* (`vm/vm.cpp`, line 1775; line 1767 for arrays of
  references). So `(1, 2)` and `(3, 4)` are equal, and a call with the second is
  answered with what was stored for the first if their hashes share a bucket;
  tuples that are equal are never found unless they are one object. The other
  properties of the cache leave such arguments out (`Misjudged`).
* The same definition fails for arrays of numbers, which are compared well:
  after `leave_from_fun` the arguments are above `sec` and no root, but
  `post_leave_from_fun` makes a key of them. A collection in between frees an
  argument; the key keeps the reference, and when the memory is used again the
  entry answers for another argument (`exposed`).
* `ReachableNotFreed` (not run, nor are `UniqueInSharedIsRefused`, `OneReference` and
  the departures of the libraries: the definitions are there and TLC finds them
  violated; tests of the collector say that objects in thread contexts are not
  collected): `mark` marks the block in `gc_tmp_ptr` and not what it refers to.
  Between `pop_args` and `push_local_var` nothing else roots it. The same state
  appears when a block was marked while its owner waited for the gc mutex and so
  keeps a stale mark.
* `UniqueInSharedIsRefused`: a lazy value in a shared object is marked
  `must_be_shared` when the object is built. If it is later evaluated to another
  lazy value, that one is not marked, and its unique object is given away.
* `ErrorsAreCaught` (`doc/vm.md`: if the function of a try throws an exception,
  the handler is invoked): `invoke_native_fun` catches a C++ exception of a
  native function and returns without `restore_regs`. The registers are those
  set for the native function, where no try is in force; `set_error` gives up
  the frames above and ends the thread's function. `lost` marks this and two
  more places where the code departs from `CallStack`: a try whose own call
  fails after `set_try_regs` (no such function, no room), when `set_error`
  leaves a frame that was not entered, or a stale one; and `lettuple`, which
  goes on pushing elements after an overflow. Native functions are taken to end
  when a value they force fails; `force_tuple_elem` (`vm/vm.cpp`) ignores the
  error, and the next lazy value is then locked and not evaluated. The model has
  no data of exceptions: `let` clears it (`rv.r`) before the handler runs.

* `OneReference` (`doc/vm.md`: there mustn't be more references to a unique
  object than one): `get_ref` forces a lazy operand that has come to be a unique
  object, stores the reference where the operand was and does not cancel it. A
  lazy value with a unique argument whose function failed is run again with the
  same argument. `exposed` marks both.

Further departures met while modelling, which the modules follow as they are:

* In `force_value` (`vm/vm/interp_vm.cpp`). The mutex of a lazy value can be
  unlocked by a thread that does not have it, in three ways; TLC finds a state
  where `astray` is set for each, the last in seven steps.
  The stack overflows while the arguments are pushed (line 3017):
  `set_error` finds the locked reference pushed four lines before and unlocks
  the mutex, and the `unique_lock`, released only at 3026 and 3030, unlocks it
  again, by then perhaps under another thread. The strategy
  fails on an argument it forces and the frame being set up is the one that
  catches (3018): `abp2` is where it was, so that the `unique_lock` is not
  released, and the instruction, when it runs again, adopts a mutex that it
  has not (3007), stores what is in `rv` and unlocks it. A lazy value
  evaluated to another one, or an instruction with several lazy operands, comes
  after a return to a lazy value that is not the one returned from, and adopts
  that one's mutex; if its value is lazy this only unlocks it, otherwise
  the result of another function is taken for its own. `UniqueObjects` has the
  last of these as `AdoptUnlocked`, where it ends the instruction.
* In the interpreter. The `RU*SNTH` group is forced after its operands have been
  popped from the expression stack, and finds others when it begins again.
  `RURAFILL` fills with its argument and not with `r2`;
  `RURASNTH` does not ask whether `r2` may be in a shared object; `RUTTOT` and
  its group make a copy of `ac2` elements; `RURATORA` checks the elements of the
  copy before they are set; `RUTFILLR` sets its error twice. Division of the
  least integer by -1, shifts by more than 63 and conversions of floats out of
  range are undefined in C++: numbers have no value in the models.
* Compiling and loading. Native functions that only variables and objects name
  are reserved room as functions (`prog_size`), and symbols are written past it
  (`HidesNative`). A function without instructions that is laid out last has the
  size of the code for its address, which the loader refuses (`LoadsWhatLinks`).
  `doc/lang.md` 259-260 says of `memoized` what the code does for `unmemoized`,
  and the reverse. A second load after a successful one finds the names of the
  first (`stale`). A machine whose load failed may keep its entry flag.
  `MultiNativeFunctionHandler` owns a handler of more than one block once for
  each block, and deletes it as often. `get_elem_fun_index` is not told that it
  looks for a native function when an element refers to one.
* Native helpers. A setter gives `ERROR_OUT_OF_MEMORY` to its caller as a `bool`:
  the call fails with error 1. The tuple that `set_tuple_value` fills is found
  by no collection while its parts are allocated; nor is the list that
  `posix.environ` returns (`Exposed`). `force_tuple_elem` ignores a failed
  force: the function sees a value of no type and answers "incorrect object"
  (`how = "hidden"`). `check_object_value` has canceled its unique argument when a later
  check refuses the call.
* The POSIX library. `write` answers a refused conversion with a tuple, `uselect` with a
  shared tuple that holds unique references; `unlink` checks two arguments of
  one; `fchmod` and `fchown` check a path for a descriptor, `lchown` and
  `fchown` are documented with an argument less; `getgroups` checks a number and
  reads `args[0]` as the io object; `tcdrain` reads `args[2]` of two;
  `tcsetattr` leaves the last element unchecked and answers 1; `check_pollfds`
  copies element `i` where it means `j`. Not visible in the models, which have
  no contents of buffers: `select` returns the first set three times, `flock`
  sets `l_start` twice, `setgid` converts to a uid, `cfsetispeed` is called twice.
* The socket library. `send` as `write`; `recvfrom` checks an address that its
  comment does not have, `setsockopt` four arguments of five, of which it reads
  the io object as the value; `urecvfrom` answers a refusal without its option;
  hints of `getaddrinfo` are always refused (a unique object is asked for, and
  a length of 2 of a tuple of 6). Not visible in the models: the flags of
  `addr_info_flags_to_system` and `poll_events_to_system` are computed and
  thrown away, `object_to_system_timeval` refuses nearly every time, an index
  out of range passes `option_name`, and a path has the length of its tuple.

## Fairness

A fair scheduler runs each thread, so weak fairness of the collector and of the
handlers; a thread that has entered a critical section leaves it. Where a
thread waits for a mutex that others take again and again, strong fairness is
assumed of the lock: the operating system's mutexes give it in practice, the
code relies on it. Nothing is assumed of what the program begins: a thread may
compute or wait for ever. `LazyValues` adds that the functions of lazy values
terminate (`LeaveFrame`); without it nobody who waits for one could be promised
anything. A thread that waits for a mutex whose owner was left in the parent of
a fork waits for ever; `Ended` and `WaitEnds` name this case. They also name
`astray`, where the model has stopped: nothing is promised after two threads have
been in one lazy value.

## What is proved

For every number of blocks, threads, references, keys and entries:

* `MarkSweepGC_proofs!TypeCorrect`, `ConstructionSafe`, `ReachableSafe`.
  `ConstructionNotFreed` is inductive only with what the collector has seen:
  a context that has been visited has its block marked or the block is not in
  the part of the list the sweep has left. `SafeUnlessUnsound` needs in addition
  that no step of a mutator makes an object reachable that was not
  (`NothingNewReachable`), and that a marking that has skipped nothing is
  closed under references (`MarkFromClosed`). Reachability is the least closed
  set, not a recursion, so that the provers can work with it.
* `GcThread_proofs!TypeCorrect`, `ForkSafe`, `MarkSafe`. The inductive invariant
  `IInv` says for each mutex at which places its owner is, which turns "nobody
  else is in a critical section" into "the forking thread owns the mutex".

* `HashTable_proofs!ListsSafe`, `KeysSafe`, `EntriesSafe`, `CountSafe`,
  `TypeCorrect`, and `IsAMap`: the table implements `FiniteMap`. The lemmas on
  `Way` say what appending and removing an entry do to a least closed set, once
  for all. The inductive invariant adds what a thread inside `add` has made sure
  of: its key is not in the table, its entry not linked before it is filled.
  That no entry is counted below zero follows only from `Counted`, so the types
  are proved with the rest.

* `StopTheWorld_proofs!HandlersOfOwner`, `NothingIsLeft`, `LocksTheWorld`, for
  any number of collectors and of threads of each. That the semaphores are zero
  between collections is not inductive: a post may still be to come, from a
  signal that is pending or a handler. `PostsInv` counts: while a collector
  signals or waits, the value of a semaphore and the threads that have still to
  post are together as many as it waits for, so that when it has waited for all
  nothing is left anywhere. `HandlerInv` says where a collector is while one of
  its threads has a signal or is in the handler, and `CollectorInv` that until all have posted
  it keeps `thread_stop_cont_mutex`, and with it the shared pointer. `MutexInv`
  says who has the mutex of a thread; a collector that marks has those of all
  threads that are registered, so that a thread it has not stopped is in an
  interruptible function and stays there. With that the step that marks is
  `Lock` of `WorldLock`.
* `LazyValues_proofs!MutexesAreStacks`, `SemaphoreNeverBlocks`, `EvaluatesByNeed`.
  `StackInv` says of each thread that the mutexes it holds, `adopted` ones left
  aside, are those of the lazy values on its stack and of the one it is at, each
  once, and that those on the stack have no value yet; it holds while nobody is
  astray. With the actions that unlock a second time this is not about `owner`
  alone: `UnlockAgain` and `StoreUnlocked` keep it only because the mutex is found
  free, and `Adopt` only because of `AdoptedInv`: what an adopter unlocks is
  evaluated, and no evaluated lazy value is on a stack. `PlaceInv` bounds
  `_S_locked_mutex_count` by the length of the stack - it is less after a second
  unlock, and stays at 0 then - and `SemInv` has a unit in the semaphore for each
  thread whose count is 0; both hold astray too. `Unwinding` says what every
  unwinding does to all of them, and is shared by the actions that end in
  `set_error`. A thread that was left in the parent of a fork is exempt.
  The refinement has one step per action: `Evaluate` is the step
  that stores a value, which the mutex gives to one thread; `Give` and `Spoil` the ones that
  take a unique object and that leave what an error had put in `rv`. That is also
  the step of `StoreUnlocked`, the one that stores without the mutex.
* `MemoCache_proofs!FlagsOfCalls`, `CacheIsTheFunction`, `AnswersOfCalls`, for any
  contents and any comparison, which may be as wrong as `equal_objects` is: what
  is shown of an argument is shown of one that the comparison judges rightly.
  `Places` says where each register refers to something and that the frame of
  every call holds the flag of a miss; it holds in every state. `Sound` holds
  until `exposed`: no block that is used is free, so arguments stay what they
  were; and a thread that owns the mutex has found no entry for its argument,
  which only the mutex keeps true until it links its own. A collection preserves
  it because each block is among the roots or in `NeededOnly`: were one
  forgotten in `EntryBlocks` or `Rooted`, the step of `Collect` would not go through.
* `UniqueObjects_proofs!FrameIsUndone`, `ResumesAtTheLocked`,
  `SharedObjectsHoldNoUnique`, for heaps, objects and frames of any size and
  every sequence of instructions. All three follow from one invariant,
  `InductiveInvariant`. `HeapInv` types the heap by what refers to what: a
  reference is to an object that is there, a lazy value to a lazy value, what a
  lazy value holds is of its type or leads to such a one, and a shared tuple or
  array holds what `check_shared_for_value` lets it hold. `FrameInv` says of each
  place of the frame that it is as the instruction found it, or canceled with an
  entry in `undo` that has what was there, or was lazy; it needs no entry to be
  about two values, because a place that is canceled is no reference to be
  canceled again. `GotNotLazy` and `ResumeInv` follow the instruction over the
  call: no operand that has been got is lazy, the one it was broken off at is
  still the lazy value of `forcing`, and those before it are not lazy, so that
  nothing else is forced on the way back. `UndoInv` is what the ends of
  instructions need: where the value of an operation is lazy nothing has been canceled.
  `Keeps` is the relation of heaps that all operations have in common (kinds and
  types stay, what is shared stays shared), and the lemmas about it, about
  `Collected` and about `Finish` reduce the forty operations to their values.
  Reachability is a recursive function over the size of the heap:
  `ReachIsClosed` shows by counting that so many turns close it.
* `InterpreterVM_proofs!StackRootsStayCovered`, for every program, every set of
  values and every size of the stack with room for a first function
  (`RoomAssumption`; the code's has 32768 words): while `lost` is false the
  roots are those `StackRootsCovered` asks for. It says nothing of a thread that
  has lost an error, of which `InterpreterFrames_doc` shows what becomes: the
  words that `SetError` leaves by are then no frame any more, and the run
  leaves these threads out by its constraint as well. That `sec` is right after a
  return depends on what the returning function takes from the words of the
  stack, so `IInv` has to know what is in all of them. `Level` says that they are a
  `Chain` of activations above the last native function's frame: each frame
  saves the registers of the one below (`Link`), the instruction that is saved
  there waits for the function (`Waits`), and below the arguments are the words
  it will pop when it is begun again, those of a call, a try or a force, with
  the count of hidden arguments that leads to the operands. The try in force
  in a frame follows from the one in force below (`Watched`), and is that
  of some activation in the chain (`Caught`), so that an error finds a frame to
  return to. `AllKept` says the same of the registers that are kept for native
  functions, over the part of the stack below them. Nearly all lemmas have the
  same form: the step of an instruction goes from such a stack to another
  one that agrees with it below `nfbp` (`Leads`), whatever happens above;
  `ChainSame` and its companions on single frames are what makes this compose.

The assumptions are those named in the modules: the constants are distinct,
sets are finite where a cardinality is taken, a hash is of a bucket, no thread
is a collector (`KindsAssumption`), no object is what a free block holds, words
are pairs of numbers with a type.

Only model-checked: liveness (fairness is outside the prover), that
`InterpreterVM` implements `CallStack` (the mapping reads the activations off
the stack by recursion), and the invariants of `Linking` and `NativeCalls`. The
last is written with RECURSIVE operators, on trees of values and of kinds,
which the prover does not take. The types of `Linking` and of `UniqueObjects`
are checked as the first part of a stronger invariant (`LoadsWhatLinks`,
`FrameKept`).
`OneReferenceUnlessExposed` of `UniqueObjects` is only model-checked too: it
counts references in the frame, in objects and in lazy values, and each of the
forty operations would have to be shown to change that sum by what it moves.

## What is not modelled, and the plan

Not modelled:

* The values of numbers: arithmetic, conversions of flags and of C structures
  (the tables of `nlib/*/posix.cpp`, `socket.cpp`), bytes of program files and
  buffers, alignment. The models tell numbers apart by what they stand for.
* Hashes of values (`vm/hash.cpp`): `HashTable` has any function from keys to
  buckets, `MemoCache` one bucket. That `0.0` and `-0.0` are equal and have
  different hashes, and that an array with a NaN equals none, is then not seen.
* The lexer and the grammar (generated), the command lines, formats of printing,
  `dlopen`, the Windows half of the signals, the allocator (`operator new`).
* How a native function's forced values interrupt it inside the interpreter
  (`InterpreterVM` has them end with an error; `NativeCalls` has the result of a
  force in one step), and interruptible calls,
  whose flag is in `StopTheWorld` and `GcThread`.
* Fully forced arguments and results (`fully_force_value`).
* A `pthread_kill` that fails, which it does not for a thread that is registered.
* The immortal list and finalizers of the collector; thread objects of C++.

The fences and `safely_assign_for_gc` are taken as what they are there for: a
value is seen by the collector as it was before or after an assignment.

Theorems that would come next: `OneReferenceUnlessExposed` for heaps of every
size, over the heap typed by `UniqueObjects_proofs!HeapInv`, with an injection
from references to places instead of a count; and, from the chain of activations
of `InterpreterVM_proofs`, that each step of the interpreter is one of
`CallStack`.
