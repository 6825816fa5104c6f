----------------------------- MODULE BlockLists -----------------------------
(***************************************************************************)
(* The block lists of cedar::da (cedarpp.h).  The slots of the double      *)
(* array come in blocks; a block other than block 0 is on the list of      *)
(*    Full    blocks, when it has no empty slot,                           *)
(*    Closed  blocks, when it has one, or was rejected MAX_TRIAL times     *)
(*            by _find_place(first, last),                                 *)
(*    Open    blocks, otherwise.                                           *)
(* A list is a ring through block.prev and block.next; its head is 0 when  *)
(* it is empty, because block 0 is never listed: it is the sentinel of the *)
(* Full ring.  Which slot of a block is taken or given back is the matter  *)
(* of NodePool, which refines this module.                                 *)
(***************************************************************************)
EXTENDS ListOps

VARIABLES
    lists,   \* [prev, next: per block; head: _bheadF, _bheadC, _bheadO]
    num,     \* block.num, empty slots of each block; the root counts as empty
    trial,   \* block.trial
    nblk,    \* _size >> 8, blocks in use
    reg      \* blocks _restore_block has listed; nblk when it is not running

vars == <<lists, num, trial, nblk, reg>>

-----------------------------------------------------------------------------
\* _initialize: block 0 alone, unlisted.
Init ==
    /\ lists = NoLists
    /\ num = [b \in Blocks |-> B]
    /\ trial = [b \in Blocks |-> 0]
    /\ nblk = 1 /\ reg = 1

Ready == reg = nblk

\* _pop_enode.  The root stays counted in num[0] and is never taken.
TakeSlot(b) ==
    /\ Ready /\ b < nblk
    /\ num[b] > IF b = 0 THEN 1 ELSE 0
    /\ num' = [num EXCEPT ![b] = @ - 1]
    /\ lists' = ListsAfterTake(lists, b, num'[b], trial[b])
    /\ UNCHANGED <<trial, nblk, reg>>

\* _push_enode.  A block that was Full keeps its trial count.
ReturnSlot(b) ==
    /\ Ready /\ b < nblk
    /\ num[b] < B
    /\ num' = [num EXCEPT ![b] = @ + 1]
    /\ lists' = ListsAfterReturn(lists, b, num'[b], trial[b])
    /\ trial' = IF num'[b] = 1 THEN trial ELSE [trial EXCEPT ![b] = 0]
    /\ UNCHANGED <<nblk, reg>>

\* _find_place(first, last) found no room in the Open block b.
RejectBlock(b) ==
    /\ Ready /\ b \in 1 .. nblk - 1
    /\ num[b] >= 2 /\ trial[b] < MaxTrial
    /\ trial' = [trial EXCEPT ![b] = @ + 1]
    /\ lists' = IF trial'[b] = MaxTrial
                THEN TransferBlock(lists, b, "Open", "Closed", num[b])
                ELSE lists
    /\ UNCHANGED <<num, nblk, reg>>

\* _add_block: a fresh block, all empty, on the Open list.
AddBlock ==
    /\ Ready /\ nblk < MaxBlocks
    /\ lists' = PushBlock(lists, nblk, "Open", B)
    /\ nblk' = nblk + 1 /\ reg' = reg + 1
    /\ UNCHANGED <<num, trial>>

\* _restore_block on the array this trie saved: the block table is allocated
\* anew and the blocks are listed one by one, in address order.
RestoreBegin ==
    /\ Ready
    /\ lists' = NoLists
    /\ trial' = [b \in Blocks |-> 0]
    /\ reg' = 0
    /\ UNCHANGED <<num, nblk>>

\* Mutant: the block after the last one is listed too.
RegisterBlockPast ==
    /\ reg <= nblk
    /\ lists' = ListsAfterRegister(lists, reg, num[reg])
    /\ reg' = reg + 1
    /\ UNCHANGED <<num, trial, nblk>>

RegisterBlock ==
    /\ ~ Ready
    /\ lists' = ListsAfterRegister(lists, reg, num[reg])
    /\ reg' = reg + 1
    /\ UNCHANGED <<num, trial, nblk>>

Next ==
    \/ \E b \in Blocks : TakeSlot(b) \/ ReturnSlot(b) \/ RejectBlock(b)
    \/ AddBlock
    \/ RestoreBegin
    \/ RegisterBlock

Spec == Init /\ [][Next]_vars

-----------------------------------------------------------------------------
(* Properties.                                                             *)

TypeOK ==
    /\ lists \in [prev : [Blocks -> Blocks], next : [Blocks -> Blocks],
                  head : [Kinds -> Blocks]]
    /\ num \in [Blocks -> 0 .. B]
    /\ trial \in [Blocks -> 0 .. MaxTrial]
    /\ nblk \in 1 .. MaxBlocks
    /\ reg \in 0 .. nblk

\* The blocks that belong on each list.
Members == MembersOf(num, trial, reg)

\* Every block is on the list its number of empty slots and its trials call
\* for, the lists are whole rings, and a head is 0 only when its list is empty:
\* no block with room is lost to _find_place, and no Full one is offered.
ListsMatchBlocks == ListsHold(lists, Members)

\* Block 0 is never offered: the heads _find_place reads are the heads of
\* lists whose blocks have an empty slot.
HeadsHaveRoom ==
    Ready => \A k \in {"Closed", "Open"} :
               lists.head[k] # 0 => num[lists.head[k]] > 0
=============================================================================
