------------------------------ MODULE ListOps ------------------------------
(***************************************************************************)
(* The operations of cedar::da (cedarpp.h) on its three lists of blocks,   *)
(* as functions of the links and the heads: [prev, next, head].            *)
(***************************************************************************)
EXTENDS Integers, Rings

CONSTANTS B,          \* slots in a block (256)
          MaxTrial,   \* MAX_TRIAL, rejections after which a block is closed
          MaxBlocks   \* bound: blocks the array may grow to

ASSUME BlockAssumption ==
    /\ B \in Nat /\ B >= 2
    /\ MaxTrial \in Nat /\ MaxTrial >= 1
    /\ MaxBlocks \in Nat /\ MaxBlocks >= 1

Blocks == 0 .. MaxBlocks - 1
Kinds  == {"Full", "Closed", "Open"}

\* Mutant: the head keeps pointing at the block taken off.
PopBlockKeepsHead(L, b, k) ==
    IF b = L.next[b] THEN [L EXCEPT !.head[k] = 0]
    ELSE [L EXCEPT !.prev = UnlinkPrv(L.prev, L.next, b), !.next = UnlinkNxt(L.prev, L.next, b)]

\* Take block b off list k; the last block leaves an empty list.
PopBlock(L, b, k) ==
    IF b = L.next[b] THEN [L EXCEPT !.head[k] = 0]
    ELSE [prev |-> UnlinkPrv(L.prev, L.next, b),
          next |-> UnlinkNxt(L.prev, L.next, b),
          head |-> IF b = L.head[k] THEN [L.head EXCEPT ![k] = L.next[b]]
                                    ELSE L.head]

\* Put block b, which has n empty slots, at the head of list k.  The Full
\* ring is never empty: it holds the sentinel.
PushBlock(L, b, k, n) ==
    IF L.head[k] = 0 /\ n # 0
    THEN [prev |-> [L.prev EXCEPT ![b] = b],
          next |-> [L.next EXCEPT ![b] = b],
          head |-> [L.head EXCEPT ![k] = b]]
    ELSE [prev |-> LinkPrv(L.prev, L.next, b, L.head[k]),
          next |-> LinkNxt(L.prev, L.next, b, L.head[k]),
          head |-> [L.head EXCEPT ![k] = b]]

\* Move block b, which has n empty slots, from list from to list to.
TransferBlock(L, b, from, to, n) == PushBlock(PopBlock(L, b, from), b, to, n)

\* Mutant: a block that runs full stays on the Closed list.
ListsAfterTakeStays(L, b, n, t) ==
    IF b # 0 /\ n = 1 /\ t # MaxTrial THEN TransferBlock(L, b, "Open", "Closed", n) ELSE L

\* The lists after _pop_enode took a slot of b and left n, and after
\* _push_enode gave one back and made it n.  Block 0 is never transferred.
ListsAfterTake(L, b, n, t) ==
    CASE b = 0                                -> L
      [] b # 0 /\ n = 0                       -> TransferBlock(L, b, "Closed", "Full", n)
      [] b # 0 /\ n = 1 /\ t # MaxTrial       -> TransferBlock(L, b, "Open", "Closed", n)
      [] OTHER                                -> L

ListsAfterReturn(L, b, n, t) ==
    CASE b = 0                                -> L
      [] b # 0 /\ n = 1                       -> TransferBlock(L, b, "Full", "Closed", n)
      [] b # 0 /\ n # 1 /\ (n = 2 \/ t = MaxTrial) -> TransferBlock(L, b, "Closed", "Open", n)
      [] OTHER                                -> L

\* The list _restore_block puts a block with n empty slots on.
RestoredKind(n) == IF n = 1 THEN "Closed" ELSE IF n = 0 THEN "Full" ELSE "Open"

ListsAfterRegister(L, b, n) == PushBlock(L, b, RestoredKind(n), n)

NoLists == [prev |-> [b \in Blocks |-> 0], next |-> [b \in Blocks |-> 0],
            head |-> [k \in Kinds |-> 0]]

-----------------------------------------------------------------------------
(* What the lists should hold.                                            *)

\* The list k is where a block with n empty slots and t trials belongs.
Belongs(k, n, t) ==
    \/ k = "Full"   /\ n = 0
    \/ k = "Closed" /\ (n = 1 \/ (n >= 2 /\ t = MaxTrial))
    \/ k = "Open"   /\ n >= 2 /\ t # MaxTrial

\* The blocks that belong on each list, of the first r blocks.
MembersOf(n, t, r) ==
    [k \in Kinds |-> {b \in 1 .. r - 1 : Belongs(k, n[b], t[b])}]

\* The lists L hold exactly the blocks M of each kind: the Full ring also
\* holds the sentinel, block 0, just before its head.
ListsHold(L, M) ==
    /\ IsRing(M["Full"] \cup {0}, L.prev, L.next)
    /\ L.next[0] = L.head["Full"]
    /\ \A k \in {"Closed", "Open"} :
          IF M[k] = {} THEN L.head[k] = 0
          ELSE L.head[k] \in M[k] /\ IsRing(M[k], L.prev, L.next)

=============================================================================
