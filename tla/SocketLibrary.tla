---------------------------- MODULE SocketLibrary ----------------------------
(***************************************************************************)
(* The native functions of the socket library (nlib/socket/native_lib.cpp  *)
(* on a unix), a row each; its select and poll are those of NativeLibrary.  *)
(***************************************************************************)
EXTENDS NativeLibrary

\* The structures of socket.cpp.
TaggedStruct(n, of) == Struct(<<Tag(n)>> \o of, Len(of) + 1)
Addresses ==
  <<TaggedStruct(1, <<iarray8>>), TaggedStruct(2, <<int, int>>),
    TaggedStruct(3, <<int, int, int, int, int>>), TaggedStruct(0, <<>>)>>
SockAddr == Tagged(Addresses)
vsockaddrs == {vnew(a) : a \in {Addresses[i] : i \in DOMAIN Addresses}}
Linger == Struct(<<int, int>>, 2)
OptionValues == <<TaggedStruct(0, <<int>>), TaggedStruct(1, <<Linger>>), TaggedStruct(2, <<TimeVal>>)>>
AddrInfo ==
  Struct(<<int, int, int, int, Option(FALSE, SockAddr), Option(FALSE, iarray8)>>, 0)

Sockets ==
  [socket |-> IntFun(<<int, int, int>>),
   socketpair |-> OptionFun(<<int, int, int>>, Tuple(FALSE, <<int, int>>), {vt(<<vint, vint>>)}),
   shutdown |-> IntFun(<<int, int>>),
   connect |-> IntFun(<<int, SockAddr>>),
   bind |-> IntFun(<<int, SockAddr>>),
   listen |-> IntFun(<<int, int>>),
   accept |-> OptionFun(<<int>>, Tuple(FALSE, <<int, SockAddr>>), {vt(<<vint, a>>) : a \in vsockaddrs})]

Received == vt(<<vint, vref(1)>>)
Receives ==
  [recv |-> WithBuffer(OptionFun(<<int, int, int>>, Tuple(FALSE, <<int, iarray8>>), {Received}), iarray8),
   send |-> [IntFun(<<int, iarray8, int>>) EXCEPT
               !.refused = {WithIo(vt(<<vint>>), <<int, iarray8, int>>)}],
   urecv |-> UniqueFun(<<int, uiarray8, int, int, int>>, <<2>>),
   usend |-> UniqueFun(<<int, uiarray8, int, int, int>>, <<2>>)]

\* recvfrom takes an address that its comment does not have, and gives it back
\* for the io object.
Datagrams ==
  LET ps == <<int, int, int>>
      us == <<int, uiarray8, int, int, int>>
      received(s) == WithIo(vut(<<vint, v(2), s>>), us)
  IN [recvfrom |->
        [WithBuffer(OptionFun(ps, Tuple(FALSE, <<int, iarray8, SockAddr>>),
                              {vt(<<vint, vref(1), a>>) : a \in vsockaddrs}), iarray8) EXCEPT
           !.check = ps \o <<SockAddr, uio>>],
      sendto |-> IntFun(<<int, iarray8, int, SockAddr>>),
      urecvfrom |->
        [RowWithIo(us, Tuple(TRUE, <<int, uiarray8, Option(FALSE, SockAddr)>>), {}, {}) EXCEPT
           !.refused = {WithIo(vut(<<vint, v(2)>>), us)},
           !.returns = {received(vnone)} \union {received(vsome(a)) : a \in vsockaddrs}],
      usendto |-> UniqueFun(<<int, uiarray8, int, int, int, SockAddr>>, <<2>>)]

\* setsockopt checks one argument less than it reads.
Options ==
  LET set == <<int, int, int, Tagged(OptionValues)>>
  IN [getpeername |-> OptionFun(<<int>>, SockAddr, vsockaddrs),
      getsockname |-> OptionFun(<<int>>, SockAddr, vsockaddrs),
      getsockopt |-> OptionFun(<<int, int, int>>, Tagged(OptionValues),
                               {vt(<<number(0), vint>>), vt(<<number(1), vnew(Linger)>>),
                                vt(<<number(2), vnew(TimeVal)>>)}),
      setsockopt |-> [IntFun(set) EXCEPT !.check = <<int, int, int, uio>>]]

(* set_new_addrinfo: the reference of the first cell is that of the setter, *)
(* the cell and the address of the loop are the next two.                   *)
LocalOption(kind, value) ==
  <<<<"local", Fresh(value)>>>> \o Fills(value, 0)
  \o <<<<"local", Obj("tuple", FALSE, <<V("int", 1), Nil>>, <<>>)>>, <<"put", 4, 2, 3>>,
       <<"put", 2, kind, 4>>, <<"drop", 2>>>>
LocalNone(kind) ==
  <<<<"local", Obj("tuple", FALSE, <<V("int", 0)>>, <<>>)>>, <<"put", 2, kind, 3>>, <<"drop", 2>>>>
Cell == Obj("tuple", FALSE, <<V("int", 1), Nil, Nil>>, <<>>)
LastCell == Obj("tuple", FALSE, <<V("int", 0)>>, <<>>)
AddrInfoObject == Fresh(AddrInfo)
vaddrinfo(fields) == Setter("list", fields, int, 0)
vaddrinfos ==
  LET first(cell) == <<<<"new", cell>>, <<"assign">>>>
      list(addr, name) ==
        first(Cell) \o <<<<"local", AddrInfoObject>>>> \o addr \o name
        \o <<<<"put", 1, 2, 2>>, <<"drop", 1>>, <<"local", LastCell>>, <<"put", 1, 3, 2>>>>
  IN {vaddrinfo(first(LastCell)),
      vaddrinfo(list(LocalOption(5, Addresses[1]), LocalOption(6, iarray8))),
      vaddrinfo(list(LocalNone(5), LocalNone(6)))}

Names ==
  LET of == <<Option(FALSE, iarray8), Option(FALSE, iarray8)>>
      found == List(AddrInfo)
      left == vt(<<number(0), vint>>)
      right(s) == vt(<<number(1), s>>)
  IN [getaddrinfo |->
        [RowWithIo(Append(of, Option(FALSE, AddrInfo)), Either(FALSE, int, found), {left},
                   {right(s) : s \in vaddrinfos}) EXCEPT
           !.check = of \o <<Option(FALSE, Unaccepted), uio>>],
      getnameinfo |->
        RowWithIo(<<SockAddr, int>>, Either(FALSE, int, Tuple(FALSE, <<iarray8, iarray8>>)), {left},
                  {right(vt(<<vnew(iarray8), vnew(iarray8)>>))})]

SocketFunctions == Sockets @@ Receives @@ Datagrams @@ Options @@ Selects @@ Polls @@ Names

\* As in PosixLibrary.
SocketNotAsDocumented ==
  {SocketFunctions[f] : f \in {"send", "recvfrom", "urecvfrom", "setsockopt", "getaddrinfo"}}
SocketNotAsPassed == {SocketFunctions[f] : f \in {"recvfrom", "setsockopt", "poll", "upoll"}}
=============================================================================
