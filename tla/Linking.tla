------------------------------ MODULE Linking -------------------------------
(***************************************************************************)
(* Programs are compiled, file by file, and loaded together into a virtual *)
(* machine (vm/impl_vm_base.cpp load, vm/impl_loader.cpp, Program in       *)
(* vm/vm.cpp, vm/impl_env.cpp): symbols get indexes, the code and the data *)
(* are relocated, functions, variables, entry and evaluation strategies    *)
(* are set.  A load that fails leaves the environment empty.  The indexes  *)
(* of native functions are given once, when the machine is made.           *)
(***************************************************************************)
EXTENDS Compiler
LOCAL INSTANCE SequencesExt
LOCAL INSTANCE FiniteSetsExt

CONSTANTS
  Files,        \* files with programs
  Programs,     \* what each file may have been compiled from: a set of
                \* programs, sequences of definitions as in Compiler
  Handlers,     \* native function handlers: sequences of names
  BlockSize,    \* indexes of a block of native functions: 1024 in the code
  Default,      \* features of the default evaluation strategy
  MaxLoads      \* bound on the calls of load

ASSUME BlockSizeAssumption == BlockSize \in Nat \ {0}
ASSUME DefaultAssumption == Default \subseteq Features

VARIABLES
  source,   \* the program that a file was compiled from
  image,    \* what the compiler has written for it
  env,      \* the environment of the virtual machine
  loaded,   \* the files of the last call of load
  outcome,  \* how it ended
  loads,    \* calls of load
  stale     \* symbols are left of an earlier load

vars == <<source, image, env, loaded, outcome, loads, stale>>

-----------------------------------------------------------------------------
(* MultiNativeFunctionHandler: the handlers get whole blocks of indexes.   *)
Blocks(names) == (Len(names) + BlockSize - 1) \div BlockSize
BlocksBefore(k) == FoldLeft(LAMBDA n, h : n + Blocks(h), 0, SubSeq(Handlers, 1, k - 1))
NativeOffset(k) == BlocksBefore(k) * BlockSize

(* invoke: the handler whose block the index is in, and the function's     *)
(* position in it.                                                         *)
HandlerOf(nfi) ==
  CHOOSE k \in DOMAIN Handlers :
    BlocksBefore(k) <= nfi \div BlockSize /\ nfi \div BlockSize < BlocksBefore(k) + Blocks(Handlers[k])
NativeName(nfi) == Handlers[HandlerOf(nfi)][nfi - NativeOffset(HandlerOf(nfi)) + 1]

NativeNames == UNION {ToSet(Handlers[k]) : k \in DOMAIN Handlers}

(* add_native_fun_index: the first function of a name keeps it.            *)
NativeIndexes ==
  [x \in NativeNames |->
     LET k == CHOOSE h \in DOMAIN Handlers :
                x \in ToSet(Handlers[h]) /\ \A g \in 1 .. h - 1 : x \notin ToSet(Handlers[g])
     IN NativeOffset(k) + SelectInSeq(Handlers[k], LAMBDA y : y = x) - 1]

-----------------------------------------------------------------------------
NoImage == [status |-> "none"]

EmptyEnv ==
  [programs |-> <<>>, funs |-> <<>>, vars |-> <<>>, strategies |-> <<>>,
   funIndexes |-> <<>>, varIndexes |-> <<>>, hasEntry |-> FALSE, entry |-> 0]

Init ==
  /\ source = [f \in Files |-> <<>>]
  /\ image = [f \in Files |-> NoImage]
  /\ env = EmptyEnv
  /\ loaded = <<>> /\ outcome = "none" /\ loads = 0 /\ stale = FALSE

Layouts(n) == {p \in [1 .. n -> 1 .. n] : \A i, j \in 1 .. n : p[i] = p[j] => i = j}

(* ImplCompiler::compile.  The symbols may take more room than was made    *)
(* for them: what is written behind the buffer is anything.                *)
Compile(f) ==
  /\ image[f] = NoImage
  /\ \E prog \in Programs[f], relocatable \in BOOLEAN :
     \E order \in Layouts(Len(Funs(prog))), vorder \in Layouts(Len(Vars(prog))) :
       LET uses == Uses(prog, order, vorder)
           new == Image(prog, relocatable, order, vorder)
       IN /\ source' = [source EXCEPT ![f] = prog]
          /\ image' = [image EXCEPT ![f] =
               IF ~Accepted(prog, relocatable, uses) THEN [status |-> "errors"]
               ELSE IF relocatable /\ Len(new.symbols) > Reserved(prog, uses) THEN [status |-> "overrun"]
               ELSE [status |-> "compiled", is |-> new]]
  /\ UNCHANGED <<env, loaded, outcome, loads, stale>>

-----------------------------------------------------------------------------
(* ImplLoader::load of what the compiler writes: only the address of a     *)
(* function may be refused, of one without instructions at the end.        *)
Readable(new) ==
  \A i \in DOMAIN new.funs : new.funs[i].addr < Len(new.code)

FunCount(progs, n) == FoldLeft(LAMBDA c, p : c + Len(p.funs), 0, SubSeq(progs, 1, n))
VarCount(progs, n) == FoldLeft(LAMBDA c, p : c + Len(p.vars), 0, SubSeq(progs, 1, n))

(* The first pass over the symbols: those that are defined.                *)
Defined(progs, as) ==
  UNION {{[prog |-> k, name |-> s.name, index |-> s.index] :
            s \in {x \in ToSet(progs[k].symbols) : x.as = as /\ x.defined}} : k \in DOMAIN progs}

Offset(progs, as, k) == IF as = "fun" THEN FunCount(progs, k - 1) ELSE VarCount(progs, k - 1)

(* A mutant: each program is checked alone.                                *)
DefinesAnewInItself(progs, as, indexes) ==
  LET new == Defined(progs, as)
  IN \A d \in new : d.name \notin DOMAIN indexes /\ \A e \in new : e.name = d.name /\ e.prog = d.prog => e = d

(* add_fun_index and add_var_index refuse a name that is known.            *)
DefinesAnew(progs, as, indexes) ==
  LET new == Defined(progs, as)
  IN \A d \in new : d.name \notin DOMAIN indexes /\ \A e \in new : e.name = d.name => e = d

WithDefined(progs, as, indexes) ==
  LET new == Defined(progs, as)
      Of(x) == CHOOSE d \in new : d.name = x
      names == {d.name : d \in new}
  IN [x \in DOMAIN indexes \union names |->
        IF x \in names THEN Offset(progs, as, Of(x).prog) + Of(x).index ELSE indexes[x]]

(* The second pass: those that are not; native ones are left for later.    *)
AllFound(progs, as, indexes) ==
  \A k \in DOMAIN progs : \A n \in DOMAIN progs[k].symbols :
    LET s == progs[k].symbols[n] IN s.as = as /\ ~s.defined => s.name \in DOMAIN indexes

-----------------------------------------------------------------------------
(* Program::relocate.                                                      *)
RelocateSymbolToo(reloc, symbols, i, offset, indexes) ==   \* for a mutant
  IF reloc.symbol = NoSymbol THEN i + offset ELSE indexes[symbols[reloc.symbol].name] + offset

RelocateIndex(reloc, symbols, i, offset, indexes) ==
  IF reloc.symbol = NoSymbol THEN i + offset ELSE indexes[symbols[reloc.symbol].name]

(* get_elem_fun_index: an address is in the last object that begins before *)
(* it.                                                                     *)
ElemAt(prog, addr) ==
  LET n == CHOOSE m \in DOMAIN prog.data :
             /\ prog.data[m].addr < addr
             /\ \A k \in DOMAIN prog.data : prog.data[k].addr < addr => k <= m
  IN <<"elem", n, addr - prog.data[n].addr>>

Target(prog, reloc) ==
  IF reloc.place = "elem" THEN ElemAt(prog, reloc.addr) ELSE <<reloc.place, reloc.addr + 1>>

(* What a place holds after the relocation that is for it, if one is.      *)
Relocated(prog, place, i, offsets, indexes) ==
  LET here == {r \in ToSet(prog.relocs) : Target(prog, r) = place}
  IN IF here = {} THEN i
     ELSE LET r == CHOOSE x \in here : TRUE
          IN RelocateIndex(r, prog.symbols, i, offsets[r.as], indexes[r.as])

NativesFound(prog) ==
  \A n \in DOMAIN prog.symbols : prog.symbols[n].as = "native" => prog.symbols[n].name \in NativeNames

Relocate(prog, offsets, indexes) ==
  LET New(place, i) == Relocated(prog, place, i, offsets, indexes)
  IN [prog EXCEPT
        !.code = [a \in DOMAIN @ |-> [@[a] EXCEPT !.i = New(<<prog.code[a].place, a>>, @)]],
        !.data = [n \in DOMAIN @ |-> [@[n] EXCEPT !.elems =
                    [j \in DOMAIN @ |-> [@[j] EXCEPT !.i = New(<<"elem", n, j>>, @)]]]],
        !.vars = [v \in DOMAIN @ |-> [@[v] EXCEPT !.i = New(<<"var", v>>, @)]],
        !.entry = IF prog.library THEN @ ELSE @ + offsets.fun]

-----------------------------------------------------------------------------
(* load_prog, for all programs, and set_fun_infos_and_fun_count.           *)
FunctionsOf(progs) ==
  FlattenSeq([k \in DOMAIN progs |->
    [i \in DOMAIN progs[k].funs |->
       [prog |-> k, addr |-> progs[k].funs[i].addr, count |-> progs[k].funs[i].count]]])

VariablesOf(progs) ==
  FlattenSeq([k \in DOMAIN progs |->
    [v \in DOMAIN progs[k].vars |->
       [prog |-> k, type |-> progs[k].vars[v].type, i |-> progs[k].vars[v].i]]])

InfosWithoutOffset(progs) ==   \* for a mutant
  FlattenSeq([k \in DOMAIN progs |->
    [n \in DOMAIN progs[k].infos |-> [fun |-> progs[k].infos[n].fun, info |-> progs[k].infos[n].info]]])

InfosOf(progs) ==
  FlattenSeq([k \in DOMAIN progs |->
    [n \in DOMAIN progs[k].infos |->
       [fun |-> FunCount(progs, k - 1) + progs[k].infos[n].fun, info |-> progs[k].infos[n].info]]])

(* fun_eval_strategy, and the number of the cache of a memoized function.  *)
StrategyOf(progs, i) ==
  LET infos == InfosOf(progs)
      mine == {n \in DOMAIN infos : infos[n].fun = i}
      info == IF mine = {} THEN [on |-> {}, mask |-> Features] ELSE infos[CHOOSE n \in mine : TRUE].info
  IN (Default \union info.on) \intersect info.mask

StrategiesOf(progs) ==
  LET n == FunCount(progs, Len(progs))
      memoized(i) == Cardinality({j \in 0 .. i - 1 : "memo" \in StrategyOf(progs, j)})
  IN [i \in 1 .. n |->
        LET s == StrategyOf(progs, i - 1)
        IN [features |-> s,
            index |-> IF s = {"memo"} THEN memoized(i - 1) ELSE i - 1,
            forced |-> IF "memo" \in s THEN memoized(i - 1) ELSE i - 1]]

EntriesOf(progs) == {k \in DOMAIN progs : ~progs[k].library}

-----------------------------------------------------------------------------
(* A call that fails takes all but the native functions' indexes out of    *)
(* the environment.                                                        *)
Fails(why) ==
  /\ env' = [EmptyEnv EXCEPT !.hasEntry = env.hasEntry, !.entry = env.entry]
  /\ outcome' = why

Succeeds(progs, funIndexes, varIndexes) ==
  /\ env' = [programs |-> progs, funs |-> FunctionsOf(progs), vars |-> VariablesOf(progs),
             strategies |-> StrategiesOf(progs), funIndexes |-> funIndexes, varIndexes |-> varIndexes,
             hasEntry |-> EntriesOf(progs) # {},
             entry |-> IF EntriesOf(progs) = {} THEN env.entry ELSE progs[CHOOSE k \in EntriesOf(progs) : TRUE].entry]
  /\ outcome' = "loaded"

(* load_prog for each program.  There may be no memory for the objects of  *)
(* some of them, in lost; the others are still loaded, and of two entries  *)
(* the first remains.                                                      *)
FailsLoading(progs, entries, why) ==
  /\ env' = [EmptyEnv EXCEPT
       !.hasEntry = (entries # {}),
       !.entry = IF entries = {} THEN env.entry ELSE progs[Min(entries)].entry]
  /\ outcome' = why

Finish(progs, funIndexes, varIndexes) ==
  \E lost \in SUBSET {k \in DOMAIN progs : progs[k].data # <<>>} :
    LET entries == EntriesOf(progs) \ lost
    IN \/ lost = {} /\ Cardinality(entries) <= 1 /\ Succeeds(progs, funIndexes, varIndexes)
       \/ lost = {} /\ Cardinality(entries) > 1 /\ FailsLoading(progs, entries, "entry")
       \/ lost # {} /\ FailsLoading(progs, entries, "no memory")

(* The symbols, then the relocations.                                      *)
Link(progs) ==
  LET funIndexes == WithDefined(progs, "fun", env.funIndexes)
      varIndexes == WithDefined(progs, "var", env.varIndexes)
      indexes == [fun |-> funIndexes, var |-> varIndexes, native |-> NativeIndexes]
      offsets(k) == [fun |-> FunCount(progs, k - 1), var |-> VarCount(progs, k - 1), native |-> 0]
  IN IF ~DefinesAnew(progs, "fun", env.funIndexes) \/ ~DefinesAnew(progs, "var", env.varIndexes)
     THEN Fails("defined twice")
     ELSE IF ~AllFound(progs, "fun", funIndexes) \/ ~AllFound(progs, "var", varIndexes)
     THEN Fails("undefined")
     ELSE IF \E k \in DOMAIN progs : ~NativesFound(progs[k])
     THEN Fails("relocation")
     ELSE Finish([k \in DOMAIN progs |-> Relocate(progs[k], offsets(k), indexes)], funIndexes, varIndexes)

(* load: a program that is not relocatable is loaded alone.                *)
Load(order) ==
  /\ loads < MaxLoads /\ loads' = loads + 1
  /\ \A k \in DOMAIN order : image[order[k]].status = "compiled"
  /\ loaded' = order
  /\ stale' = (DOMAIN env.funIndexes \union DOMAIN env.varIndexes # {})
  /\ LET progs == [k \in DOMAIN order |-> image[order[k]].is]
     IN IF \E k \in DOMAIN progs : ~Readable(progs[k]) THEN Fails("format")
        ELSE IF \A k \in DOMAIN progs : progs[k].relocatable THEN Link(progs)
        ELSE IF Len(progs) > 1 THEN Fails("not relocatable")
        ELSE Finish(progs, env.funIndexes, env.varIndexes)
  /\ UNCHANGED <<source, image>>

Orders == UNION {{o \in [1 .. n -> Files] : \A i, j \in 1 .. n : o[i] = o[j] => i = j} : n \in 1 .. Cardinality(Files)}

Next ==
  \/ \E f \in Files : Compile(f)
  \/ \E order \in Orders : Load(order)

Spec == Init /\ [][Next]_vars
-----------------------------------------------------------------------------
TypeOK ==
  /\ \A f \in Files : source[f] \in Programs[f] \union {<<>>}
  /\ \A f \in Files : image[f].status \in {"none", "errors", "overrun", "compiled"}
  /\ Len(env.funs) = Len(env.strategies)
  /\ env.hasEntry \in BOOLEAN /\ env.entry \in Nat /\ stale \in BOOLEAN
  /\ loads \in 0 .. MaxLoads

(* The definition a name stands for in the k-th file: its own, or else the *)
(* public one of another file.                                             *)
Prog(k) == source[loaded[k]]
Candidates(k, as, x) ==
  LET In(j) == {<<j, i>> : i \in {n \in DOMAIN Defs(Prog(j), as) :
                  Defs(Prog(j), as)[n].name = x /\ (j = k \/ Defs(Prog(j), as)[n].public)}}
  IN IF In(k) # {} THEN In(k) ELSE UNION {In(j) : j \in DOMAIN loaded}

AllDefs(as) ==
  FlattenSeq([k \in DOMAIN loaded |-> [i \in DOMAIN Defs(Prog(k), as) |-> <<k, i>>]])

(* The number n stands for the name: it is the index of the definition, or *)
(* that of the native function which is invoked for it.                    *)
Denotes(k, use, n) ==
  CASE use.as \in {"fun", "var"} -> Candidates(k, use.as, use.name) = {AllDefs(use.as)[n + 1]}
    [] use.as = "native" -> NativeName(n) = use.name
    [] OTHER -> TRUE

CodeRight ==
  \A n \in DOMAIN env.funs :
    LET k == AllDefs("fun")[n][1]
        fun == Funs(Prog(k))[AllDefs("fun")[n][2]]
        at == env.funs[n]
    IN /\ at.prog = k /\ at.count = Len(Instrs(fun))
       /\ \A j \in DOMAIN Instrs(fun) :
            LET instr == Instrs(fun)[j]
                word == env.programs[k].code[at.addr + j]
            IN IF instr.as = "jump" THEN j + word.i \in LabelsAt(fun, instr.name)
               ELSE instr.as = "none" \/ (word.place = instr.place /\ Denotes(k, instr, word.i))

ElemsRight(k, elems, object) ==
  /\ Len(elems) = Len(object.elems)
  /\ \A j \in DOMAIN elems :
       IF elems[j].as # "object" THEN Denotes(k, elems[j], object.elems[j].i)
       ELSE LET inner == env.programs[k].data[object.elems[j].i]
            IN /\ Len(elems[j].elems) = Len(inner.elems)
               /\ \A m \in DOMAIN inner.elems : Denotes(k, elems[j].elems[m], inner.elems[m].i)

VariablesRight ==
  \A n \in DOMAIN env.vars :
    LET k == AllDefs("var")[n][1]
        value == Vars(Prog(k))[AllDefs("var")[n][2]].value
        var == env.vars[n]
    IN IF value.as = "object" THEN ElemsRight(k, value.elems, env.programs[var.prog].data[var.i])
       ELSE Denotes(k, value, var.i)

EntryRight ==
  \A k \in DOMAIN loaded :
    Entries(Prog(k)) # <<>> =>
      env.hasEntry /\ AllDefs("fun")[env.entry + 1] = <<k, Index(Funs(Prog(k)), Entries(Prog(k))[1].name) + 1>>

(* After a load every index in code, data and variables is that of what    *)
(* the source names there, jumps lead to their labels and the entry is the *)
(* one of the program, in whatever order the files were loaded and their   *)
(* functions laid out (impl_vm_base.cpp:71-170, vm.cpp:1015-1162).  Stale  *)
(* symbols of an earlier load of the same machine may lead elsewhere.      *)
LinksRight ==
  outcome = "loaded" /\ ~stale =>
    /\ Len(env.funs) = Len(AllDefs("fun")) /\ Len(env.vars) = Len(AllDefs("var"))
    /\ CodeRight /\ VariablesRight /\ EntryRight

(* What may be linked: names have one meaning, natives exist.              *)
UsesOf(k) == Uses(Prog(k), [i \in DOMAIN Funs(Prog(k)) |-> i], [i \in DOMAIN Vars(Prog(k)) |-> i])
PublicOnce ==
  \A k, j \in DOMAIN loaded : \A d \in ToSet(Prog(k)), e \in ToSet(Prog(j)) :
    d.def # "entry" /\ d.def = e.def /\ d.name = e.name /\ d.public /\ e.public => k = j
Linkable ==
  /\ \A k \in DOMAIN loaded : ~image[loaded[k]].is.relocatable => Len(loaded) = 1
  /\ (Len(loaded) = 1 /\ ~image[loaded[1]].is.relocatable) \/
       /\ PublicOnce
       /\ \A k \in DOMAIN loaded : \A u \in ToSet(UsesOf(k)) :
            IF u.as = "native" THEN u.name \in NativeNames ELSE Candidates(k, u.as, u.name) # {}
  /\ Cardinality({k \in DOMAIN loaded : Entries(Prog(k)) # <<>>}) <= 1

(* A load succeeds when the files can be linked, unless memory runs out or *)
(* a function without instructions was laid out last, whose address the    *)
(* loader refuses; one that fails leaves no function, variable or symbol.  *)
LoadsWhatLinks ==
  /\ TypeOK
  /\ outcome = "loaded" /\ ~stale => Linkable
  /\ outcome \notin {"none", "loaded", "no memory", "format"} /\ ~stale => ~Linkable
  /\ outcome = "format" => \E k \in DOMAIN loaded : \E i \in DOMAIN Funs(Prog(k)) : Instrs(Funs(Prog(k))[i]) = <<>>
  /\ outcome # "loaded" => env.funs = <<>> /\ env.vars = <<>> /\ env.funIndexes = <<>> /\ env.varIndexes = <<>>

(* The compiler makes room for the symbols that it writes, but for those   *)
(* of native functions that are named by variables or elements only and    *)
(* have the name of a function of the file, for which no room is made, or  *)
(* of one that it uses, with which they share it (impl_comp.cpp:457-468).  *)
HidesNative(prog) ==
  LET uses == Uses(prog, [i \in DOMAIN Funs(prog) |-> i], [i \in DOMAIN Vars(prog) |-> i])
      InData == {"elem", "var"}
  IN \E name \in NamesUsed(uses, {"native"}, InData) \ NamesUsed(uses, {"native"}, InCode) :
       name \in Names(Funs(prog)) \union NamesUsed(uses, {"fun"}, InCode \union InData)
RoomForSymbols == \A f \in Files : image[f].status = "overrun" => HidesNative(source[f])

(* doc/lang.md:253-270: the features that the annotations of a function    *)
(* leave of the default ones, or those of "only" annotations alone.        *)
Annotated(notes) ==
  LET A == ToSet(notes)
      on == {"lazy" : n \in A \intersect {"lazy", "onlylazy"}} \union {"memo" : n \in A \intersect {"memoized", "onlymemoized"}}
      off == {"lazy" : n \in A \intersect {"eager"}} \union {"memo" : n \in A \intersect {"unmemoized"}}
      only == {"lazy" : n \in A \intersect {"onlylazy"}} \union {"memo" : n \in A \intersect {"onlymemoized"}}
  IN IF A \intersect {"onlyeager", "onlylazy", "onlymemoized"} # {} THEN only ELSE (Default \union on) \ off

(* Each function is evaluated as it is annotated, whatever its place among *)
(* the files loaded, and no two share a memoization cache.                 *)
EvaluatedAsAnnotated ==
  outcome = "loaded" =>
    \A n \in DOMAIN env.strategies :
      LET s == env.strategies[n]
          d == AllDefs("fun")[n]
      IN /\ s.features = Annotated(Funs(Prog(d[1]))[d[2]].notes)
         /\ "memo" \in s.features =>
              \A m \in DOMAIN env.strategies :
                "memo" \in env.strategies[m].features /\ env.strategies[m].forced = s.forced => m = n
         /\ s.index = IF s.features = {"memo"} THEN s.forced ELSE n - 1
=============================================================================
