------------------------------ MODULE Compiler ------------------------------
(***************************************************************************)
(* What the compiler makes of the definitions of a program (generate_prog  *)
(* in comp/impl_comp.cpp): numbered functions and variables, code and data *)
(* with addresses, relocations, symbols and function information.          *)
(*                                                                         *)
(* A program is a sequence of definitions, in the order of its sources:    *)
(*   [def |-> "fun", name, public, notes, lines]  notes are annotations;   *)
(*   [def |-> "var", name, public, value]                                  *)
(*   [def |-> "entry", name]                                               *)
(* A line is a label or an instruction, of which only an argument with a   *)
(* name is kept: [as |-> "label", name], [as |-> "jump", name],            *)
(* [as |-> "none"] or [as, name, place], where as is "fun", "var" or       *)
(* "native" and place "arg1" or "arg2".  A value is [as |-> "none"] for a  *)
(* number, [as, name] or [as |-> "object", elems]; objects are nested once *)
(* at most.  Numbers, operations and the bytes of objects are left out: a  *)
(* word is an instruction, the head of an object or an element.            *)
(***************************************************************************)
EXTENDS Integers, Sequences, FiniteSets
LOCAL INSTANCE SequencesExt

CONSTANT NoSymbol   \* of relocations that are not symbolic

Place == {"arg1", "arg2", "elem", "var"}

Funs(prog) == SelectSeq(prog, LAMBDA d : d.def = "fun")
Vars(prog) == SelectSeq(prog, LAMBDA d : d.def = "var")
Entries(prog) == SelectSeq(prog, LAMBDA d : d.def = "entry")

(* fun_pairs, var_pairs: a name and its index.                             *)
Defs(prog, as) == IF as = "var" THEN Vars(prog) ELSE Funs(prog)
Names(defs) == {defs[i].name : i \in DOMAIN defs}
Index(defs, x) == (CHOOSE i \in DOMAIN defs : defs[i].name = x) - 1
NamesDiffer(defs) == Cardinality(Names(defs)) = Len(defs)

(* The instructions of a function, and the addresses of its labels.        *)
IsInstr(line) == line.as # "label"
Instrs(fun) == SelectSeq(fun.lines, IsInstr)
LabelsAt(fun, x) ==
  {Len(SelectSeq(SubSeq(fun.lines, 1, i), IsInstr)) :
     i \in {j \in DOMAIN fun.lines : fun.lines[j] = [as |-> "label", name |-> x]}}

LabelsDefined(fun) ==
  \A i \in DOMAIN fun.lines :
    LET line == fun.lines[i]
    IN /\ line.as = "jump" => LabelsAt(fun, line.name) # {}
       /\ line.as = "label" => \A j \in DOMAIN fun.lines : fun.lines[j] = line => i = j

(* Functions stand in the code in the order of an unordered map: order is  *)
(* a permutation of their positions.                                       *)
FunAddr(prog, order, i) ==
  Len(FlattenSeq([k \in 1 .. Index([n \in DOMAIN order |-> [name |-> order[n]]], i) |->
                    Instrs(Funs(prog)[order[k]])]))

(* add_object_pairs_from_object: the objects of variables in the order     *)
(* vorder, elements before what refers to them.                            *)
IsObject(v) == v.as = "object"
AddObjects(objects, value) ==
  LET elems == value.elems
      inner == SelectSeq(elems, IsObject)
      Ref(j) == [as |-> "ref", object |->
                   Len(objects) + Len(SelectSeq(SubSeq(elems, 1, j), IsObject))]
  IN objects \o [k \in DOMAIN inner |-> inner[k].elems]
       \o <<[j \in DOMAIN elems |-> IF IsObject(elems[j]) THEN Ref(j) ELSE elems[j]]>>

ObjectsOf(prog, vorder, n) ==
  FoldLeft(AddObjects, <<>>,
           SelectSeq([k \in 1 .. n |-> Vars(prog)[vorder[k]].value], IsObject))
Objects(prog, vorder) == ObjectsOf(prog, vorder, Len(vorder))

(* The object of the n-th variable of vorder comes after those before it.  *)
RootObject(prog, vorder, i) ==
  LET n == CHOOSE k \in DOMAIN vorder : vorder[k] = i
  IN Len(ObjectsOf(prog, vorder, n))

ObjectAddr(objects, n) == Len(FlattenSeq(SubSeq(objects, 1, n - 1))) + n - 1

(* The places that name a function or a variable, in the order in which    *)
(* the code, the data and the variables are generated.                     *)
Uses(prog, order, vorder) ==
  LET funs == Funs(prog)
      objects == Objects(prog, vorder)
      IsUse(u) == u.as \in {"fun", "var", "native"}
      Code(k) == LET instrs == Instrs(funs[order[k]])
                     Use(j) == IF IsUse(instrs[j])
                               THEN [place |-> instrs[j].place, as |-> instrs[j].as, name |-> instrs[j].name,
                                     addr |-> FunAddr(prog, order, order[k]) + j - 1]
                               ELSE instrs[j]
                 IN SelectSeq([j \in DOMAIN instrs |-> Use(j)], IsUse)
      At(v, where, addr) ==
        IF IsUse(v) THEN [place |-> where, as |-> v.as, name |-> v.name, addr |-> addr] ELSE v
      Data(n) == SelectSeq([j \in DOMAIN objects[n] |->
                              At(objects[n][j], "elem", ObjectAddr(objects, n) + j)], IsUse)
  IN FlattenSeq([k \in DOMAIN order |-> Code(k)])
       \o FlattenSeq([n \in DOMAIN objects |-> Data(n)])
       \o SelectSeq([k \in DOMAIN vorder |->
                       At(Vars(prog)[vorder[k]].value, "var", vorder[k] - 1)], IsUse)

(* Native functions are always symbolic, others when they are not defined. *)
IsSymbolic(prog, u) == u.as = "native" \/ u.name \notin Names(Defs(prog, u.as))

(* get_fun_index_and_add_reloc and its like: what is written at the place. *)
Written(prog, u) == IF IsSymbolic(prog, u) THEN 0 ELSE Index(Defs(prog, u.as), u.name)

PublicSymbols(prog) ==
  LET Symbol(d) == [as |-> d.def, defined |-> TRUE, name |-> d.name, index |-> Index(Defs(prog, d.def), d.name)]
      public == SelectSeq(prog, LAMBDA d : d.def # "entry" /\ d.public)
  IN [i \in DOMAIN public |-> Symbol(public[i])]

(* add_reloc: one symbol for all places that name the same.                *)
AddReloc(prog, out, u) ==
  LET symbol == [as |-> u.as, defined |-> FALSE, name |-> u.name, index |-> 0]
      known == {n \in DOMAIN out.symbols : out.symbols[n] = symbol}
      Reloc(s) == [place |-> u.place, as |-> u.as, addr |-> u.addr, symbol |-> s]
      Add(s, symbols) == [relocs |-> Append(out.relocs, Reloc(s)), symbols |-> symbols]
  IN IF ~IsSymbolic(prog, u) THEN Add(NoSymbol, out.symbols)
     ELSE IF known # {} THEN Add(CHOOSE n \in known : TRUE, out.symbols)
     ELSE Add(Len(out.symbols) + 1, Append(out.symbols, symbol))

Emitted(prog, uses) ==
  FoldLeft(LAMBDA out, u : AddReloc(prog, out, u),
           [relocs |-> <<>>, symbols |-> PublicSymbols(prog)], uses)

(* prog_size_and_other_sizes: the names for whose symbols room is made.    *)
(* In variables and elements a native function counts as a function.       *)
NamesUsed(uses, as, places) ==
  {u.name : u \in {v \in ToSet(uses) : v.as \in as /\ v.place \in places}}
PublicNames(prog, as) == {d.name : d \in {e \in ToSet(prog) : e.def = as /\ e.public}}
InCode == {"arg1", "arg2"}

ReservedForCode(prog, uses) ==   \* for a mutant: elements and variables are forgotten
  [fun |-> PublicNames(prog, "fun") \union (NamesUsed(uses, {"fun"}, InCode) \ Names(Funs(prog))),
   var |-> PublicNames(prog, "var") \union (NamesUsed(uses, {"var"}, InCode) \ Names(Vars(prog))),
   native |-> NamesUsed(uses, {"native"}, InCode)]

ReservedNames(prog, uses) ==
  LET inData == NamesUsed(uses, {"fun", "native"}, {"elem", "var"})
  IN [fun |-> PublicNames(prog, "fun")
                \union ((NamesUsed(uses, {"fun"}, InCode) \union inData) \ Names(Funs(prog))),
      var |-> PublicNames(prog, "var") \union (NamesUsed(uses, {"var"}, InCode) \ Names(Vars(prog))),
      native |-> NamesUsed(uses, {"native"}, InCode)]

Reserved(prog, uses) ==
  LET names == ReservedNames(prog, uses)
  IN Cardinality(names.fun) + Cardinality(names.var) + Cardinality(names.native)

-----------------------------------------------------------------------------
(* Annotations (annotation_fun_infos): what they add to the features of    *)
(* the default strategy, what they leave of them, and what "only" leaves.  *)
Features == {"lazy", "memo"}

Annotation ==
  [eager        |-> [on |-> {},       mask |-> {"memo"}, only |-> {}],
   lazy         |-> [on |-> {"lazy"}, mask |-> Features, only |-> {}],
   memoized     |-> [on |-> {"memo"}, mask |-> Features, only |-> {}],
   unmemoized   |-> [on |-> {},       mask |-> {"lazy"}, only |-> {}],
   onlyeager    |-> [on |-> {},       mask |-> {"memo"}, only |-> {"none"}],
   onlylazy     |-> [on |-> {"lazy"}, mask |-> Features, only |-> {"lazy"}],
   onlymemoized |-> [on |-> {"memo"}, mask |-> Features, only |-> {"memo"}]]

NoInfo == [on |-> {}, mask |-> Features, only |-> {}]

AddAnnotation(info, note) ==
  [on |-> info.on \union Annotation[note].on,
   mask |-> info.mask \intersect Annotation[note].mask,
   only |-> info.only \union Annotation[note].only]

Infos(notes) == FoldLeft(AddAnnotation, NoInfo, notes)

Contradicts(notes, n) ==
  LET a == Annotation[notes[n]]
      info == Infos(SubSeq(notes, 1, n))
      About(feature) == a.on = {feature} \/ a.mask = Features \ {feature}
  IN \/ /\ About("lazy") /\ "lazy" \in info.on
        /\ "lazy" \notin info.mask \/ "none" \in info.only
     \/ About("memo") /\ "memo" \in info.on /\ "memo" \notin info.mask

(* What is written of it; nothing when there is nothing to say.            *)
FunInfo(notes) ==
  LET info == Infos(notes)
  IN [on |-> info.on, mask |-> IF info.only = {} THEN info.mask ELSE info.only \ {"none"}]
HasInfo(notes) == Infos(notes).on # {} \/ Infos(notes).mask # Features

-----------------------------------------------------------------------------
(* What the compiler accepts.                                              *)
Accepted(prog, relocatable, uses) ==
  /\ NamesDiffer(Funs(prog)) /\ NamesDiffer(Vars(prog))
  /\ Len(Entries(prog)) <= 1
  /\ Names(Entries(prog)) \subseteq Names(Funs(prog))
  /\ \A i \in DOMAIN Funs(prog) :
       /\ LabelsDefined(Funs(prog)[i])
       /\ \A n \in DOMAIN Funs(prog)[i].notes : ~Contradicts(Funs(prog)[i].notes, n)
  /\ ~relocatable => \A n \in DOMAIN uses : ~IsSymbolic(prog, uses[n])

(* The code of a function: index arguments, and jumps, which are relative  *)
(* to the next instruction.                                                *)
OpWord(prog, instr) ==
  IF instr.as = "none" THEN [place |-> "none", i |-> 0]
  ELSE [place |-> instr.place, i |-> Written(prog, instr)]

JumpWord(fun, j) ==
  [place |-> "jump", i |-> (CHOOSE a \in LabelsAt(fun, Instrs(fun)[j].name) : TRUE) - j]

FunCode(prog, fun) ==
  [j \in DOMAIN Instrs(fun) |->
     IF Instrs(fun)[j].as = "jump" THEN JumpWord(fun, j) ELSE OpWord(prog, Instrs(fun)[j])]

ValueWord(prog, v) ==
  CASE v.as = "none" -> [type |-> "int", i |-> 0]
    [] v.as = "ref" -> [type |-> "ref", i |-> v.object]
    [] OTHER -> [type |-> "int", i |-> Written(prog, v)]

DataWords(prog, objects) ==
  [n \in DOMAIN objects |->
     [addr |-> ObjectAddr(objects, n),
      elems |-> [j \in DOMAIN objects[n] |-> ValueWord(prog, objects[n][j])]]]

VarWord(prog, vorder, i) ==
  LET value == Vars(prog)[i].value
  IN IF IsObject(value) THEN [type |-> "ref", i |-> RootObject(prog, vorder, i)] ELSE ValueWord(prog, value)

WrittenInfos(funs) ==
  LET informed == SelectSeq([i \in DOMAIN funs |-> i], LAMBDA i : HasInfo(funs[i].notes))
  IN [n \in DOMAIN informed |-> [fun |-> informed[n] - 1, info |-> FunInfo(funs[informed[n]].notes)]]

(* generate_prog, when there are no errors.                                *)
Image(prog, relocatable, order, vorder) ==
  LET funs == Funs(prog)
      entries == Entries(prog)
      out == IF relocatable THEN Emitted(prog, Uses(prog, order, vorder))
             ELSE [relocs |-> <<>>, symbols |-> <<>>]
  IN [relocatable |-> relocatable,
      library |-> entries = <<>>,
      entry |-> IF entries = <<>> THEN 0 ELSE Index(funs, entries[1].name),
      funs |-> [i \in DOMAIN funs |-> [addr |-> FunAddr(prog, order, i), count |-> Len(Instrs(funs[i]))]],
      vars |-> [i \in DOMAIN Vars(prog) |-> VarWord(prog, vorder, i)],
      code |-> FlattenSeq([k \in DOMAIN order |-> FunCode(prog, funs[order[k]])]),
      data |-> DataWords(prog, Objects(prog, vorder)),
      relocs |-> out.relocs,
      symbols |-> out.symbols,
      infos |-> WrittenInfos(funs)]
=============================================================================
