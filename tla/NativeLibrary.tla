---------------------------- MODULE NativeLibrary ----------------------------
(***************************************************************************)
(* The rows of the native libraries.  A row says of a function:             *)
(*   params   the arguments of the comment before the function,             *)
(*   result   what the comment says it returns,                             *)
(*   check    the checkers of its check_args,                               *)
(*   reads    what its convert_args reads, with the io it gives back,       *)
(*   refused  what it returns when it does not come to its allocations,     *)
(*   bodies   what it allocates before it has its result,                   *)
(*   returns  what it returns then,                                         *)
(*   ends     whether the process may end there.                            *)
(* A tuple of a comment that holds a unique object is a unique tuple.       *)
(***************************************************************************)
EXTENDS NativeCalls

int == IntValue
float == FloatValue
iarray8 == Object("iarray8", FALSE)
uiarray8 == Object("iarray8", TRUE)
iarray32 == Object("iarray32", FALSE)
uio == Object("io", TRUE)

\* Setters, as the functions at the end of native.hpp.
number(n) == Setter("int", <<>>, int, n)
vint == number(Answer)
v(i) == Setter("value", <<>>, int, i)
vref(slot) == Setter("local", <<>>, int, slot)
vnew(kind) == Setter("object", <<>>, kind, 0)
vt(of) == Setter("tuple", of, int, 0)
vut(of) == Setter("tuple", of, int, 1)
vnone == vt(<<number(0)>>)
vsome(s) == vt(<<number(1), s>>)
vunone == vut(<<number(0)>>)
vusome(s) == vut(<<number(1), s>>)
own(of) == Setter("own", of, int, 0)

\* The shapes most functions have.  io is the last argument, and the second
\* element of the unique tuple returned.
Row(ps, result, refused, returns) ==
  [params |-> ps, check |-> ps, reads |-> ps, result |-> result,
   refused |-> refused, bodies |-> {<<>>}, returns |-> returns, ends |-> FALSE]
WithIo(s, ps) == vut(<<s, v(Len(ps) + 1)>>)
RowWithIo(ps, T, refused, returned) ==
  Row(Append(ps, uio), Tuple(TRUE, <<T, uio>>),
      IF ps = <<>> THEN {} ELSE {WithIo(s, ps) : s \in refused},
      {WithIo(s, ps) : s \in refused \union returned})

IntFun(ps) == RowWithIo(ps, int, {vint}, {})
OptionFun(ps, T, some) == RowWithIo(ps, Option(FALSE, T), {vnone}, {vsome(s) : s \in some})
\* ((int, unique arguments of the call), uio)
UniqueFun(ps, us) ==
  RowWithIo(ps, Tuple(TRUE, <<int>> \o [i \in DOMAIN us |-> ps[us[i]]]),
            {vut(<<vint>> \o [i \in DOMAIN us |-> v(us[i])])}, {})
Constant == Row(<<>>, int, {}, {vint})
WithBuffer(row, kind) == [row EXCEPT !.bodies = {<<<<"local", Fresh(kind)>>>>}]

\* The structures and the functions that the libraries have in common.
TimeVal == Struct(<<int, int>>, 2)
PollFd == Struct(<<int, int, int>>, 3)

FdSets == <<iarray8, iarray8, iarray8>>
UniqueFdSets == <<uiarray8, uiarray8, uiarray8>>
Selects ==
  LET timeout == <<Option(FALSE, TimeVal)>>
      ps == <<int>> \o UniqueFdSets \o timeout
      failed == WithIo(vt(<<vint, v(2), v(3), v(4)>>), ps)
      done == WithIo(vut(<<vint, v(2), v(3), v(4)>>), ps)
  IN [FD_SETSIZE |-> Constant,
      select |-> OptionFun(<<int>> \o FdSets \o timeout, Tuple(FALSE, <<int>> \o FdSets),
                           {vt(<<vint, vnew(iarray8), vnew(iarray8), vnew(iarray8)>>)}),
      uselect |-> [UniqueFun(ps, <<2, 3, 4>>) EXCEPT !.refused = {failed}, !.returns = {failed, done}]]

Polls ==
  [poll |-> OptionFun(<<Table(FALSE, PollFd), int>>, Tuple(FALSE, <<int, Table(FALSE, PollFd)>>),
                      {vt(<<vint, vnew(Table(FALSE, PollFd))>>)}),
   upoll |-> [UniqueFun(<<Table(TRUE, PollFd), int>>, <<1>>) EXCEPT
                !.bodies = {<<>>, Fills(Table(TRUE, PollFd), 1)}]]
=============================================================================
