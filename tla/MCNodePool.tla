----------------------------- MODULE MCNodePool -----------------------------
(***************************************************************************)
(* NodePool with ^ on small slots, from a table.                           *)
(***************************************************************************)
EXTENDS NodePool, XorTable
=============================================================================
