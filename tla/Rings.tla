------------------------------- MODULE Rings -------------------------------
(***************************************************************************)
(* Circular doubly linked lists kept in two functions, prv and nxt.        *)
(* cedarpp.h uses them twice: the empty slots of a block are linked        *)
(* through node.base and node.check, and the blocks of one class (Full,    *)
(* Closed, Open) through block.prev and block.next.                        *)
(***************************************************************************)

\* The members of R point at each other and form one cycle: a non-empty part
\* of R that is closed under nxt is all of R.
IsRing(R, prv, nxt) ==
    /\ \A x \in R : /\ nxt[x] \in R /\ prv[nxt[x]] = x
                    /\ prv[x] \in R /\ nxt[prv[x]] = x
    /\ \A S \in SUBSET R : (S # {} /\ \A x \in S : nxt[x] \in S) => S = R

\* prv and nxt after the member x is unlinked: its neighbours point at each
\* other, its own links stay as they were.
UnlinkPrv(prv, nxt, x) == [prv EXCEPT ![nxt[x]] = prv[x]]
UnlinkNxt(prv, nxt, x) == [nxt EXCEPT ![prv[x]] = nxt[x]]

\* prv and nxt after x is linked between h and the member before h.
LinkPrv(prv, nxt, x, h) == [prv EXCEPT ![x] = prv[h], ![h] = x]
LinkNxt(prv, nxt, x, h) == [nxt EXCEPT ![x] = h, ![prv[h]] = x]
=============================================================================
