------------------------------ MODULE SlotOps ------------------------------
(***************************************************************************)
(* The operations of cedar::da (cedarpp.h) on the slots of the double      *)
(* array, as functions of the pool, a record with at least the fields      *)
(*    array    [base, check] of every slot; in an empty slot they are the  *)
(*             negated previous and next empty slot of the block           *)
(*    lists    the lists of blocks (ListOps)                               *)
(*    num, trial, ehead, reject   of every block                           *)
(*    limit    the table _reject, by number of empty slots                 *)
(*    nblk     _size >> 8, the blocks in use                               *)
(* A slot is empty when its check is negative; the root's is too.          *)
(***************************************************************************)
EXTENDS ListOps, Sequences

CONSTANT Xor(_, _)      \* ^ on slots and labels

Slots  == 0 .. MaxBlocks * B - 1
Labels == 0 .. B - 1

Block(e)    == e \div B
SlotsOf(b)  == b * B .. b * B + B - 1
Node(x, y)  == [base |-> x, check |-> y]

\* A label moves a slot within its block, and twice is back again: this is
\* what makes base ^ label a slot of the block of base.
ASSUME XorAssumption ==
    /\ \A e \in Slots : Xor(e, 0) = e
    /\ \A e \in Slots, c \in Labels : /\ Xor(e, c) \in Slots
                                      /\ Block(Xor(e, c)) = Block(e)
                                      /\ Xor(Xor(e, c), c) = e
    /\ \A e \in Slots, c \in Labels : Xor(e, Xor(e, c)) = c
    /\ \A c \in Labels : Xor(0, c) = c

\* Mutants: the ring of a fresh block is not closed; its last link has no sign.
FreshNodeUnclosed(b, e) == Node(IF e = b * B THEN - (e + B - 1) ELSE - (e - 1), - (e + 1))
FreshNodeUnsigned(b, e) ==
    Node(IF e = b * B THEN - (e + B - 1) ELSE - (e - 1),
         IF e = b * B + B - 1 THEN b * B ELSE - (e + 1))

\* The ring of empty slots of a fresh block b.
FreshNode(b, e) ==
    Node(IF e = b * B         THEN - (e + B - 1) ELSE - (e - 1),
         IF e = b * B + B - 1 THEN - (b * B)     ELSE - (e + 1))

-----------------------------------------------------------------------------
\* Mutant: the root itself.
RootBlockHeadUnfixed == 0

\* The first empty slot of block 0 ("bug fix for erase").
RootBlockHead == 1

\* _initialize: the root in slot 0, the others of block 0 in one ring.
InitialPool ==
    [array  |-> [e \in Slots |->
                   IF e = 0 THEN Node(0, -1)
                   ELSE IF e \in SlotsOf(0)
                   THEN Node(IF e = 1 THEN - (B - 1) ELSE - (e - 1),
                             IF e = B - 1 THEN -1 ELSE - (e + 1))
                   ELSE Node(0, 0)],
     lists  |-> NoLists,
     num    |-> [b \in Blocks |-> B],
     trial  |-> [b \in Blocks |-> 0],
     ehead  |-> [b \in Blocks |-> IF b = 0 THEN RootBlockHead ELSE 0],
     reject |-> [b \in Blocks |-> B + 1],
     limit  |-> [i \in 0 .. B |-> i + 1],
     nblk   |-> 1]

\* Mutant: the head stays on the slot taken.
NextHeadStays(p, e) == p.ehead[Block(e)]

\* The head of the ring without the slot e.
NextHead(p, e) ==
    IF e = p.ehead[Block(e)] THEN - p.array[e].check ELSE p.ehead[Block(e)]

\* The part of _pop_enode that takes the empty slot e for a child of from: it
\* leaves its ring, and its block the list it no longer belongs on.
TakeEnode(p, e, label, from) ==
    LET b == Block(e)
        n == p.array[e]
        k == p.num[b] - 1
        unlinked == [p.array EXCEPT ![-n.base].check = n.check,
                                    ![-n.check].base = n.base]
    IN  [p EXCEPT
           !.num   = [@ EXCEPT ![b] = k],
           !.lists = ListsAfterTake(@, b, k, p.trial[b]),
           !.ehead = IF k = 0 THEN @ ELSE [@ EXCEPT ![b] = NextHead(p, e)],
           !.array = [IF k = 0 THEN @ ELSE unlinked EXCEPT
                        ![e] = Node(IF label # 0 THEN -1 ELSE 0, from)]]

\* _push_enode: slot e joins the ring of its block after the head, and its
\* block the list it belongs on now.
PushEnode(p, e) ==
    LET b == Block(e)
        k == p.num[b] + 1
        prev == p.ehead[b]
        next == - p.array[prev].check
        first == [p EXCEPT !.ehead = [@ EXCEPT ![b] = e],
                           !.array = [@ EXCEPT ![e] = Node(-e, -e)]]
        other == [p EXCEPT !.trial = [@ EXCEPT ![b] = 0],
                           !.array = [@ EXCEPT ![e] = Node(-prev, -next),
                                               ![prev].check = -e,
                                               ![next].base = -e]]
    IN  [IF k = 1 THEN first ELSE other EXCEPT
           !.num    = [@ EXCEPT ![b] = k],
           !.lists  = ListsAfterReturn(@, b, k, p.trial[b]),
           !.reject = [@ EXCEPT ![b] = IF p.reject[b] < p.limit[k] THEN p.limit[k]
                                       ELSE p.reject[b]]]

\* _add_block: the next block, every slot of it empty, on the Open list.
AddBlock(p) ==
    LET b == p.nblk
    IN  [p EXCEPT
           !.ehead = [@ EXCEPT ![b] = b * B],
           !.array = [e \in Slots |-> IF e \in SlotsOf(b) THEN FreshNode(b, e) ELSE @[e]],
           !.lists = PushBlock(@, b, "Open", B),
           !.nblk  = b + 1]

-----------------------------------------------------------------------------
(* _find_place.                                                            *)

\* The slot _find_place() offers for a single child; 0 asks for a new block.
SinglePlace(p) ==
    LET c == p.lists.head["Closed"]  o == p.lists.head["Open"]
    IN  IF c # 0 THEN p.ehead[c] ELSE IF o # 0 THEN p.ehead[o] ELSE 0

\* The i-th empty slot of the block b, along the ring from its head.
Empties(p, b) ==
    LET ring[i \in 1 .. p.num[b]] ==
          IF i = 1 THEN p.ehead[b] ELSE - p.array[ring[i - 1]].check
    IN  ring

\* Mutant: the second label is not tried.
FitsButSecond(p, e, labels) ==
    \A i \in 3 .. Len(labels) : p.array[Xor(Xor(e, labels[1]), labels[i])].check < 0

\* Slot e can take the first of the labels: the others find empty slots too.
Fits(p, e, labels) ==
    \A i \in 2 .. Len(labels) : p.array[Xor(Xor(e, labels[1]), labels[i])].check < 0

\* The positions of the ring of b at which the labels fit, when the counters
\* of b let _find_place(first, last) look at all.
Places(p, b, labels) ==
    IF p.num[b] >= Len(labels) /\ Len(labels) < p.reject[b]
    THEN {i \in 1 .. p.num[b] : Fits(p, Empties(p, b)[i], labels)}
    ELSE {}

\* One round of the loop of _find_place(first, last): it stops at the first
\* position of block b that fits, or rejects b for nc labels.
SettleIn(p, b, i) == [p EXCEPT !.ehead = [@ EXCEPT ![b] = Empties(p, b)[i]]]

\* Mutant: the block stays Open.
RejectInStays(p, b, nc) ==
    [p EXCEPT !.reject = [@ EXCEPT ![b] = nc], !.trial = [@ EXCEPT ![b] = @ + 1]]

RejectIn(p, b, nc) ==
    LET t == p.trial[b] + 1
        n == p.num[b]
    IN  [p EXCEPT
           !.reject = [@ EXCEPT ![b] = nc],
           !.limit  = [@ EXCEPT ![n] = IF nc < p.limit[n] THEN nc ELSE p.limit[n]],
           !.trial  = [@ EXCEPT ![b] = t],
           !.lists  = IF t = MaxTrial THEN TransferBlock(@, b, "Open", "Closed", n)
                                      ELSE @]

-----------------------------------------------------------------------------
(* _restore_block: the block table rebuilt from the array alone.           *)

\* Mutant: the trials survive.
ForgetBlocksKeepsTrials(p) ==
    [p EXCEPT !.lists = NoLists, !.ehead = [b \in Blocks |-> 0],
              !.reject = [b \in Blocks |-> B + 1]]

ForgetBlocks(p) ==
    [p EXCEPT !.lists  = NoLists,
              !.trial  = [b \in Blocks |-> 0],
              !.ehead  = [b \in Blocks |-> 0],
              !.reject = [b \in Blocks |-> B + 1]]

\* Mutant: the head of its ring is not found.
RegisterBlockNoHead(p, b, empties) ==
    [p EXCEPT !.num   = [@ EXCEPT ![b] = empties],
              !.lists = ListsAfterRegister(@, b, empties)]

\* Block b is counted and listed; its ehead is the first slot with a negative
\* check, which in block 0 is the root.
RegisterBlockOf(p, b, empties) ==
    [p EXCEPT
       !.num   = [@ EXCEPT ![b] = empties],
       !.ehead = [@ EXCEPT ![b] =
                    IF empties = 0 THEN p.ehead[b]
                    ELSE CHOOSE e \in SlotsOf(b) :
                           /\ p.array[e].check < 0
                           /\ \A f \in SlotsOf(b) : f < e => p.array[f].check >= 0],
       !.lists = ListsAfterRegister(@, b, empties)]
=============================================================================
