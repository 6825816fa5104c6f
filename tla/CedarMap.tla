------------------------------ MODULE CedarMap ------------------------------
(***************************************************************************)
(* What the trie promises: a map from keys to values.                      *)
(***************************************************************************)
EXTENDS Integers

CONSTANTS Keys, Values

VARIABLE map        \* the value of every registered key

Init == map = [k \in {} |-> 0]

\* The map m with v at k.
With(m, k, v) == [x \in DOMAIN m \cup {k} |-> IF x = k THEN v ELSE m[x]]

\* The map m without k.
Without(m, k) == [x \in DOMAIN m \ {k} |-> m[x]]

Put(k, v) == map' = With(map, k, v)

\* The value at k, where a missing key counts as 0.
ValueIn(m, k) == IF k \in DOMAIN m THEN m[k] ELSE 0

ValueAt(k) == ValueIn(map, k)

\* Store v at k, add d to the value at k, remove k.
Set(k, v) == Put(k, v)
Add(k, d) == Put(k, ValueAt(k) + d)
Erase(k)  == map' = Without(map, k)

Next == \E k \in Keys : Erase(k) \/ \E v \in Values : Set(k, v) \/ Add(k, v)

Spec == Init /\ [][Next]_map
=============================================================================
