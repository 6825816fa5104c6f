---------------------------- MODULE MCPrefixTrie ----------------------------
(***************************************************************************)
(* PrefixTrie with ^ from a table.  A node and its parent have children in *)
(* the same block, and conflicts move either one; <<2>> is a prefix of     *)
(* keys and never a key.                                                   *)
(***************************************************************************)
EXTENDS PrefixTrie, XorTable

Lines     == << <<2, 1>>, <<2, 3>> >>
ShortKeys == {<<2, 1>>, <<2, 3>>, <<2, 1, 2>>}
=============================================================================
