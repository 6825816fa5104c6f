---------------------------- MODULE MCTrieImage ----------------------------
(***************************************************************************)
(* TrieImage with two images: an empty trie, and one of two blocks with a  *)
(* key.                                                                    *)
(***************************************************************************)
EXTENDS TrieImage

TwoImages == {[size |-> 1, length |-> 2, keys |-> FALSE],
              [size |-> 2, length |-> 5, keys |-> TRUE]}
=============================================================================
