------------------------------ MODULE XorTable ------------------------------
(***************************************************************************)
(* Bitwise exclusive or of small numbers, from a table TLC computes once.  *)
(***************************************************************************)
EXTENDS Integers

\* ^ on 0 .. 31, one bit at a time.
Bits == <<1, 2, 4, 8, 16>>
Bit(x, i) == (x \div Bits[i]) % 2
Differ(x, y, i) == IF Bit(x, i) # Bit(y, i) THEN Bits[i] ELSE 0
XorTable ==
    [x \in 0 .. 31 |-> [y \in 0 .. 31 |->
       Differ(x, y, 1) + Differ(x, y, 2) + Differ(x, y, 3) + Differ(x, y, 4) + Differ(x, y, 5)]]
TableXor(x, y) == XorTable[x][y]
=============================================================================
