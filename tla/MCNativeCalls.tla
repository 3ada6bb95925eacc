---- MODULE MCNativeCalls ----
EXTENDS PosixLibrary, SocketLibrary
Library(functions) == {functions[f] : f \in DOMAIN functions}
\* ceither is a checker that no library of the repository uses.
Unused == {IntFun(<<Either(FALSE, int, iarray8)>>)}
MCRows == Library(PosixFunctions) \union Library(SocketFunctions) \union Unused
NotAsDocumented == PosixNotAsDocumented \union SocketNotAsDocumented
NotAsPassed == PosixNotAsPassed \union SocketNotAsPassed
=============================================================================
