----------------------------- MODULE MCLinking -----------------------------
(* Instances for TLC: a library and a program that use each other.         *)
EXTENDS Linking

Use(as, name, place) == [as |-> as, name |-> name, place |-> place]
Plain == [as |-> "none"]
Label(name) == [as |-> "label", name |-> name]
Jump(name) == [as |-> "jump", name |-> name]
Fun(name, public, notes, lines) == [def |-> "fun", name |-> name, public |-> public, notes |-> notes, lines |-> lines]
Var(name, public, value) == [def |-> "var", name |-> name, public |-> public, value |-> value]
Entry(name) == [def |-> "entry", name |-> name]
Of(as, name) == [as |-> as, name |-> name]
Object(elems) == [as |-> "object", elems |-> elems]

Bodies ==
  {<<>>,
   <<Use("fun", "g", "arg1"), Jump("l"), Plain, Label("l")>>,
   <<Use("var", "w", "arg1"), Use("native", "n2", "arg1"), Use("var", "w", "arg2")>>,
   <<Use("native", "n3", "arg2"), Use("fun", "f", "arg2")>>,
   <<Plain, Label("l"), Use("var", "v", "arg2"), Jump("l"), Use("native", "g", "arg1")>>}
Values ==
  {Plain, Of("fun", "f"), Of("native", "g"), Of("native", "n9"),
   Object(<<Object(<<Of("fun", "h")>>), Object(<<Of("fun", "g"), Plain>>)>>),
   Object(<<Of("fun", "g"), Object(<<Plain, Of("native", "n1")>>), Of("fun", "f")>>)}
Notes == {<<>>, <<"eager">>, <<"memoized", "lazy">>, <<"unmemoized", "onlymemoized">>, <<"onlylazy", "onlymemoized">>, <<"onlyeager">>, <<"onlylazy">>,
          <<"eager", "onlylazy">>, <<"unmemoized">>, <<"lazy", "onlyeager">>}

(* The library defines f and v, public or not, and perhaps w before v.     *)
Libraries ==
  {<<Fun("h", FALSE, <<>>, <<Plain>>), Fun("f", public, <<"onlymemoized">>, body), Var("v", public, value)>> :
     public \in BOOLEAN, body \in Bodies, value \in Values}
  \union {<<Fun("f", TRUE, notes, <<Plain>>)>> : notes \in Notes}
  \union {<<Var("w", FALSE, Object(<<Of("fun", "g")>>)), Fun("f", TRUE, <<>>, <<Plain>>), Var("v", TRUE, Object(<<Plain, Of("fun", "f")>>)), Entry("f")>>,
          <<Fun("f", TRUE, <<>>, <<Jump("k")>>)>>,
          <<Fun("f", TRUE, <<>>, <<Plain>>), Fun("f", TRUE, <<>>, <<Plain>>)>>,
          <<Entry("k"), Fun("f", TRUE, <<>>, <<Plain>>)>>}

(* The program defines g and an entry, and perhaps f or v as well.         *)
Mains ==
  {<<Fun("g", TRUE, <<"memoized">>, body), Fun("e", FALSE, <<>>, <<Use("fun", "g", "arg2"), Use("var", "v", "arg1")>>),
     Var("u", FALSE, value), Entry("e")>> : body \in Bodies, value \in {Of("fun", "f"), Of("native", "n3"), Object(<<Of("fun", "f"), Of("native", "n1")>>)}}
  \union {<<Var("v", public, Of("fun", "f")), Fun("f", public, notes, <<Plain>>), Fun("g", FALSE, <<>>, <<Use("fun", "f", "arg1")>>)>> :
            public \in BOOLEAN, notes \in {<<>>, <<"onlymemoized">>, <<"lazy">>}}
Sources == [lib |-> Libraries, main |-> Mains]
NativeHandlers == <<<<"n1", "g", "n3">>, <<"n2", "n1">>, <<"n4">>>>
=============================================================================
