--------------------------- MODULE MCDoubleArray ---------------------------
(***************************************************************************)
(* DoubleArray with ^ from a table, and sets of short keys.                *)
(***************************************************************************)
EXTENDS DoubleArray, XorTable

Nothing == <<>>

\* Two nodes with siblings at work in the same blocks, and keys that are prefixes
\* of each other.  No first label is 1, and one more is unused: see the README.
Crowd     == << <<2, 1, 1>>, <<2, 1, 2>>, <<3, 1>>, <<3, 2>> >>
CrowdKeys == {<<2>>, <<2, 1>>, <<2, 2>>, <<2, 1, 3>>, <<3, 2>>, <<3, 3>>}

\* A key with first label 1 beside another, and all labels of the root.
LowKeys  == {<<1, 1>>, <<2>>}
AllFirst == {<<1>>, <<2>>, <<3>>}
=============================================================================
