---------------------------- MODULE PosixLibrary -----------------------------
(***************************************************************************)
(* The native functions of the POSIX library (nlib/posix/native_lib.cpp on  *)
(* a unix) and of DefaultNativeFunctionHandler (vm/vm.cpp), a row each.     *)
(***************************************************************************)
EXTENDS NativeLibrary

\* The structures of posix.cpp: their types in its comments, and how many
\* elements their check functions test.
TimeSpec == Struct(<<int, int>>, 2)
WaitStatus == Struct(<<int, int>>, 2)
FLock == Struct([i \in 1 .. 5 |-> int], 5)
StatBuf == Struct([i \in 1 .. 16 |-> int], 16)
Tms == Struct([i \in 1 .. 4 |-> int], 4)
Termios == Struct(<<int, int, int, int, iarray32, int, int>>, 6)
UtsName == Struct([i \in 1 .. 5 |-> iarray8], 0)
DirEntry == Struct(<<int, iarray8>>, 0)
Tm == Struct([i \in 1 .. 9 |-> int], 9)

----------------------------------------------------------------------------
Environment ==
  [environ |-> [Row(<<>>, Strings, {}, {vref(1)}) EXCEPT
                  !.bodies = {<<<<"local", Fresh(Strings)>>>> \o Fills(Strings, 0)}],
   errno |-> IntFun(<<>>),
   set_errno |-> IntFun(<<int>>)]

ReadsAndWrites ==
  [read |-> WithBuffer(OptionFun(<<int, int>>, Tuple(FALSE, <<int, iarray8>>),
                                 {vt(<<vint, vref(1)>>)}), iarray8),
   write |-> [IntFun(<<int, iarray8>>) EXCEPT !.refused = {WithIo(vt(<<vint>>), <<int, iarray8>>)}],
   uread |-> UniqueFun(<<int, uiarray8, int, int>>, <<2>>),
   uwrite |-> UniqueFun(<<int, uiarray8, int, int>>, <<2>>),
   lseek |-> IntFun(<<int, int, int>>)]

Descriptors ==
  [open |-> IntFun(<<iarray8, int, int>>),
   close |-> IntFun(<<int>>),
   pipe |-> OptionFun(<<>>, Tuple(FALSE, <<int, int>>), {vt(<<vint, vint>>)}),
   dup |-> IntFun(<<int>>),
   dup2 |-> IntFun(<<int, int>>)]

FileControl ==
  [fcntl_dupfd |-> IntFun(<<int, int>>),
   fcntl_getfd |-> IntFun(<<int>>),
   fcntl_setfd |-> IntFun(<<int, int>>),
   fcntl_getfl |-> IntFun(<<int>>),
   fcntl_setfl |-> IntFun(<<int, int>>)]

FileLocks ==
  [fcntl_getlk |-> OptionFun(<<int>>, FLock, {vnew(FLock)}),
   fcntl_setlk |-> IntFun(<<int, FLock>>),
   fcntl_setlkw |-> IntFun(<<int, FLock>>)]

FileStatus ==
  [stat |-> OptionFun(<<iarray8>>, StatBuf, {vnew(StatBuf)}),
   lstat |-> OptionFun(<<iarray8>>, StatBuf, {vnew(StatBuf)}),
   fstat |-> OptionFun(<<int>>, StatBuf, {vnew(StatBuf)}),
   access |-> IntFun(<<iarray8, int>>)]

Directories ==
  [getcwd |-> OptionFun(<<>>, iarray8, {vnew(iarray8)}),
   chdir |-> IntFun(<<iarray8>>),
   fchdir |-> IntFun(<<int>>),
   mkdir |-> IntFun(<<iarray8, int>>),
   rmdir |-> IntFun(<<iarray8>>)]

Links ==
  [link |-> IntFun(<<iarray8, iarray8>>),
   unlink |-> [IntFun(<<iarray8>>) EXCEPT !.check = <<iarray8, iarray8, uio>>],
   rename |-> IntFun(<<iarray8, iarray8>>),
   symlink |-> IntFun(<<iarray8, iarray8>>),
   readlink |-> OptionFun(<<iarray8>>, iarray8, {vnew(iarray8)})]

FileModes ==
  [chmod |-> IntFun(<<iarray8, int>>),
   fchmod |-> [IntFun(<<int, int>>) EXCEPT !.check = <<iarray8, int, uio>>],
   chown |-> IntFun(<<iarray8, int, int>>),
   lchown |-> [IntFun(<<iarray8, int, int>>) EXCEPT !.params = <<iarray8, int, uio>>],
   fchown |-> [IntFun(<<int, int, int>>) EXCEPT !.params = <<int, int, uio>>,
                                                !.check = <<iarray8, int, int, uio>>],
   mknod |-> IntFun(<<iarray8, int, int>>),
   utimes |-> IntFun(<<iarray8, Tuple(FALSE, <<TimeVal, TimeVal>>)>>),
   umask |-> IntFun(<<int>>)]

Processes ==
  [getpid |-> IntFun(<<>>),
   getppid |-> IntFun(<<>>),
   fork |-> IntFun(<<>>),
   waitpid |-> OptionFun(<<int, int>>, Tuple(FALSE, <<int, Tuple(FALSE, <<int, int>>)>>),
                         {vt(<<vint, vnew(WaitStatus)>>), vt(<<vint, vt(<<vint, vint>>)>>)}),
   execve |-> [IntFun(<<iarray8, Strings, Strings>>) EXCEPT !.ends = TRUE],
   fork_execve |-> IntFun(<<iarray8, Strings, Strings>>),
   exit |-> [IntFun(<<int>>) EXCEPT !.returns = {}, !.ends = TRUE]]

Signals ==
  [kill |-> IntFun(<<int, int>>),
   getpgid |-> IntFun(<<int>>),
   setpgid |-> IntFun(<<int, int>>),
   getsid |-> IntFun(<<int>>),
   setsid |-> IntFun(<<>>),
   pause |-> IntFun(<<>>)]

Sleeps ==
  [usleep |-> IntFun(<<int>>),
   nanosleep |-> RowWithIo(<<TimeSpec>>, Tuple(FALSE, <<int, Option(FALSE, TimeSpec)>>),
                           {vt(<<vint, vnone>>)}, {vt(<<vint, vsome(vnew(TimeSpec))>>)}),
   CLK_TCK |-> Constant,
   times |-> OptionFun(<<>>, Tuple(FALSE, <<int, Tms>>), {vt(<<vint, vnew(Tms)>>)}),
   nice |-> IntFun(<<int>>),
   getpriority |-> OptionFun(<<int, int>>, int, {vint}),
   setpriority |-> IntFun(<<int, int, int>>)]

Identities ==
  [getuid |-> IntFun(<<>>), setuid |-> IntFun(<<int>>),
   getgid |-> IntFun(<<>>), setgid |-> IntFun(<<int>>),
   geteuid |-> IntFun(<<>>), seteuid |-> IntFun(<<int>>),
   getegid |-> IntFun(<<>>), setegid |-> IntFun(<<int>>)]

Groups ==
  [getgroups |-> WithBuffer([OptionFun(<<>>, iarray32, {}) EXCEPT
                               !.check = <<int, uio>>,
                               !.refused = {WithIo(vnone, <<>>)},
                               !.returns = {WithIo(vsome(vref(1)), <<>>)}], iarray32),
   setgroups |-> IntFun(<<iarray32>>),
   gettimeofday |-> OptionFun(<<>>, TimeVal, {vnew(TimeVal)})]

Terminals ==
  [tcgetattr |-> OptionFun(<<int>>, Termios, {vnew(Termios)}),
   tcsetattr |-> IntFun(<<int, int, Termios>>),
   tcsendbreak |-> IntFun(<<int, int>>),
   tcdrain |-> [IntFun(<<int>>) EXCEPT !.refused = {WithIo(vint, <<int, int>>)},
                                       !.returns = {WithIo(vint, <<int, int>>)}],
   tcflush |-> IntFun(<<int, int>>),
   tcflow |-> IntFun(<<int, int>>)]

TerminalGroups ==
  [tcgetpgrp |-> IntFun(<<int>>),
   tcsetpgrp |-> IntFun(<<int, int>>),
   isatty |-> IntFun(<<int>>),
   ttyname |-> OptionFun(<<int>>, iarray8, {vnew(iarray8)})]

Syncs ==
  [sync |-> IntFun(<<>>),
   fsync |-> IntFun(<<int>>),
   fdatasync |-> IntFun(<<int>>),
   uname |-> OptionFun(<<>>, UtsName, {vnew(UtsName)})]

OpenDirectories ==
  LET option == Option(FALSE, DirEntry)
  IN [opendir |-> RowWithIo(<<iarray8>>, Option(TRUE, Native), {vunone}, {vusome(vnew(Native))}),
      closedir |-> IntFun(<<Native>>),
      readdir |-> RowWithIo(<<Native>>, Tuple(TRUE, <<option, Native>>),
                            {vut(<<vnone, v(1)>>)}, {vut(<<vsome(vnew(DirEntry)), v(1)>>)}),
      rewinddir |-> UniqueFun(<<Native>>, <<1>>),
      seekdir |-> UniqueFun(<<Native, int>>, <<1>>),
      telldir |-> UniqueFun(<<Native>>, <<1>>)]

HostAndTimes ==
  [gethostname |-> OptionFun(<<>>, iarray8, {vnew(iarray8)}),
   gmtime |-> OptionFun(<<int>>, Tm, {vnew(Tm)}),
   localtime |-> OptionFun(<<int>>, Tm, {vnew(Tm)}),
   mktime |-> IntFun(<<Tm>>)]

\* DefaultNativeFunctionHandler::invoke.
Own(ps, result, s) == Row(ps, result, {}, {s})
DefaultFunctions ==
  LET io == Tuple(TRUE, <<int, uio>>)
  IN [atoi |-> Own(<<iarray8>>, int, vint),
      itoa |-> Own(<<int>>, iarray8, own(<<>>)),
      atof |-> Own(<<iarray8>>, float, Setter("float", <<>>, int, Answer)),
      ftoa |-> Own(<<float>>, iarray8, own(<<>>)),
      get_char |-> Own(<<OwnIo>>, io, own(<<vint, v(1)>>)),
      put_char |-> Own(<<int, OwnIo>>, io, own(<<vint, v(2)>>)),
      get_line |-> Own(<<OwnIo>>, Tuple(TRUE, <<iarray8, uio>>),
                       own(<<Setter("string", <<>>, int, 0), v(1)>>)),
      put_string |-> Own(<<iarray8, OwnIo>>, io, own(<<vint, v(2)>>))]

PosixFunctions ==
  Environment @@ ReadsAndWrites @@ Descriptors @@ Selects @@ Polls @@ FileControl @@ FileLocks
  @@ FileStatus @@ Directories @@ Links @@ FileModes @@ Processes @@ Signals @@ Sleeps
  @@ Identities @@ Groups @@ Terminals @@ TerminalGroups @@ Syncs @@ OpenDirectories
  @@ HostAndTimes @@ DefaultFunctions

\* The functions that do not do what their comment says, and those whose
\* converters read what no checker has looked at (README, counterexamples).
PosixNotAsDocumented ==
  {PosixFunctions[f] : f \in {"write", "uselect", "unlink", "fchmod", "lchown", "fchown",
                         "getgroups", "tcdrain", "tcsetattr", "poll", "upoll"}}
PosixNotAsPassed ==
  {PosixFunctions[f] : f \in {"unlink", "fchmod", "fchown", "getgroups", "tcsetattr", "poll", "upoll"}}
=============================================================================
