---------------------------- MODULE MCCedarDict ----------------------------
(***************************************************************************)
(* CedarDict with ^ from a table, keys that end in a terminal, in a suffix *)
(* and in the middle of one, and queries between them.                     *)
(***************************************************************************)
EXTENDS CedarDict, XorTable

Nothing  == <<>>
DictKeys == {<<2>>, <<2, 1, 3>>, <<3, 1>>}
Asked1   == {<<2>>, <<2, 1>>, <<2, 1, 3>>, <<2, 1, 3, 1>>, <<3, 1>>, <<3, 2>>, <<>>}

\* -1 is refused; 1 - 3 and -3 + 1 are sums that are rolled back.
Lowest       == -3
StoredValues == {1, -1}
AddedValues  == {1, -3}
=============================================================================
