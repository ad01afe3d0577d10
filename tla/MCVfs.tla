------------------------------- MODULE MCVfs -------------------------------
(***************************************************************************)
(* Three names, of which one begins like another: the console is /a/b, the *)
(* first program /aa.  An archive may hold either under the other's name,  *)
(* and the file /a/b/./../a: the lookup of "." in /a/b finds "..", once    *)
(* that is in the name cache.  Both hold a path that is not absolute, and  *)
(* user code one with a slash at its end.                                  *)
(***************************************************************************)
EXTENDS Vfs

a == <<"a">>
aa == <<"a", "a">>
b == <<"b">>
none == <<>>
MCDirPaths == {<<none, a>>, <<none, aa>>, <<none, a, b>>, <<a, b>>}
MCFilePaths == {<<none, a, b>>, <<none, aa>>, <<none, a, b, Dot, DotDot, a>>, <<a>>}
MCUserPaths == {<<none, aa>>, <<none, a, DotDot>>, <<none, b, a, b>>, <<none, a, b>>,
                <<b>>, <<none, b, none>>}
MCConsolePath == <<none, a, b>>
MCInitPath == <<none, aa>>

(* The real descriptor table: the object kmalloc returns is always large   *)
(* enough, as long as it returns one.                                      *)
RealSlots == {4 * 2^k : k \in 0 .. 10}
ASSUME \A n \in 1 .. 127 : \A m \in RealSlots :
  m >= 32 * n + 4 => m >= 32 * (n + 1)
=============================================================================
