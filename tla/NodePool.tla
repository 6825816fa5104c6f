------------------------------ MODULE NodePool ------------------------------
(***************************************************************************)
(* The allocator of double-array slots inside cedar::da (cedarpp.h), under *)
(* every order of requests the trie can make:                              *)
(*    - a slot it names, because base ^ label falls on an empty one,       *)
(*    - any slot, for the first child of a node        (_find_place()),    *)
(*    - slots for a set of sibling labels   (_find_place(first, last)),    *)
(*    - giving a slot back                             (_push_enode),      *)
(*    - rebuilding the block table after a load     (_restore_block).      *)
(* One step is one call, or one round of a loop; between the rounds the    *)
(* trie only gives back the slots it is moving its nodes away from.        *)
(* Whose child a slot becomes does not matter here: it is the root's.      *)
(***************************************************************************)
EXTENDS SlotOps, FiniteSets

CONSTANTS RootLabels,   \* the first bytes of the keys: the slots of block 0 used
          WithRestore   \* whether the block table is ever rebuilt

ASSUME ClientAssumption == RootLabels \subseteq Labels \ {0} /\ WithRestore \in BOOLEAN

VARIABLES
    pool,     \* the pool, see SlotOps
    wanted,   \* slots _find_place chose that _pop_enode has still to take
    scan,     \* _find_place(first, last) at work: [labels, at, stop], or NoScan
    reg       \* blocks _restore_block has registered

vars == <<pool, wanted, scan, reg>>

NoScan == [labels |-> <<>>, at |-> 0, stop |-> 0]

Held(p)  == {0} \cup {e \in 0 .. p.nblk * B - 1 : p.array[e].check >= 0}
Free(p)  == (0 .. p.nblk * B - 1) \ Held(p)
Ready    == reg = pool.nblk
Idle     == Ready /\ wanted = {} /\ scan = NoScan

\* The sets of sibling labels, in the order _set_child lists them.
SiblingLists ==
    {s \in UNION {[1 .. n -> Labels] : n \in 2 .. B} :
       \A i, j \in DOMAIN s : i < j => s[i] < s[j]}

Init ==
    /\ pool = InitialPool
    /\ wanted = {} /\ scan = NoScan /\ reg = 1

\* _follow on an empty slot the base of the parent points at.  Only children
\* of the root ask for a slot of block 0.
TakeAt(e) ==
    /\ Idle /\ e \in Free(pool)
    /\ Block(e) = 0 => e \in RootLabels
    /\ pool' = TakeEnode(pool, e, 1, 0)
    /\ UNCHANGED <<wanted, scan, reg>>

\* _pop_enode for a node with no child yet.
TakeAnywhere ==
    /\ Idle /\ SinglePlace(pool) # 0
    /\ pool' = TakeEnode(pool, SinglePlace(pool), 1, 0)
    /\ UNCHANGED <<wanted, scan, reg>>

\* ... and when no listed block has room: a block is added, its first slot is
\* the one taken next.
Grow ==
    /\ Idle /\ SinglePlace(pool) = 0 /\ pool.nblk < MaxBlocks
    /\ pool' = AddBlock(pool)
    /\ wanted' = {pool.nblk * B}
    /\ reg' = reg + 1
    /\ UNCHANGED scan

\* _find_place(first, last) starts on the Open list ...
Look(labels) ==
    LET o == pool.lists.head["Open"]
    IN  /\ Idle /\ o # 0
        /\ scan' = [labels |-> labels, at |-> o, stop |-> pool.lists.prev[o]]
        /\ UNCHANGED <<pool, wanted, reg>>

\* ... takes the first position that fits ...
LookFits ==
    LET places == Places(pool, scan.at, scan.labels)
        i == CHOOSE x \in places : \A y \in places : x <= y
        e == Empties(pool, scan.at)[i]
    IN  /\ scan # NoScan /\ scan.at # 0 /\ places # {}
        /\ pool' = SettleIn(pool, scan.at, i)
        /\ wanted' = {Xor(Xor(e, scan.labels[1]), scan.labels[j]) : j \in DOMAIN scan.labels}
        /\ scan' = NoScan
        /\ UNCHANGED reg

\* ... or rejects the block and goes on to the next, up to the last one, ...
LookOn ==
    /\ scan # NoScan /\ scan.at # 0
    /\ Places(pool, scan.at, scan.labels) = {}
    /\ pool' = RejectIn(pool, scan.at, Len(scan.labels))
    /\ scan' = [scan EXCEPT !.at = IF @ = scan.stop THEN 0 ELSE pool.lists.next[@]]
    /\ UNCHANGED <<wanted, reg>>

\* ... after which it settles the labels in a new block.
SettleInNew(labels) ==
    LET e == pool.nblk * B
    IN  /\ \/ scan.labels = labels /\ scan.at = 0
           \/ Idle /\ pool.lists.head["Open"] = 0
        /\ pool.nblk < MaxBlocks
        /\ pool' = AddBlock(pool)
        /\ wanted' = {Xor(Xor(e, labels[1]), labels[j]) : j \in DOMAIN labels}
        /\ scan' = NoScan /\ reg' = reg + 1

\* realloc refuses the memory for one: std::bad_alloc leaves the rejections.
AllocFails ==
    /\ scan # NoScan /\ scan.at = 0
    /\ scan' = NoScan
    /\ UNCHANGED <<pool, wanted, reg>>

\* _resolve takes the chosen slots one by one ...
TakeWanted(e) ==
    /\ e \in wanted
    /\ pool' = TakeEnode(pool, e, 1, 0)
    /\ wanted' = wanted \ {e}
    /\ UNCHANGED <<scan, reg>>

\* ... and gives back those of the nodes it moves; erase gives slots back too.
Give(e) ==
    /\ Ready /\ scan = NoScan
    /\ e \in Held(pool) \ {0}
    /\ pool' = PushEnode(pool, e)
    /\ UNCHANGED <<wanted, scan, reg>>

\* A trie loaded from the image this one saved rebuilds its block table.
RestoreBegin ==
    /\ WithRestore /\ Idle
    /\ pool' = ForgetBlocks(pool)
    /\ reg' = 0
    /\ UNCHANGED <<wanted, scan>>

RegisterBlock ==
    /\ ~ Ready
    /\ pool' = RegisterBlockOf(pool, reg,
                 Cardinality({e \in SlotsOf(reg) : pool.array[e].check < 0}))
    /\ reg' = reg + 1
    /\ UNCHANGED <<wanted, scan>>

Next ==
    \/ \E e \in Slots : TakeAt(e) \/ TakeWanted(e) \/ Give(e)
    \/ TakeAnywhere \/ Grow
    \/ \E labels \in SiblingLists : Look(labels) \/ SettleInNew(labels)
    \/ LookFits \/ LookOn \/ AllocFails
    \/ RestoreBegin \/ RegisterBlock

Spec == Init /\ [][Next]_vars

-----------------------------------------------------------------------------
(* Properties.                                                             *)

TypeOK ==
    /\ pool.array \in [Slots -> [base : -(MaxBlocks * B - 1) .. MaxBlocks * B - 1,
                                 check : -(MaxBlocks * B - 1) .. MaxBlocks * B - 1]]
    /\ pool.num \in [Blocks -> 0 .. B]
    /\ pool.ehead \in [Blocks -> Slots]
    /\ pool.reject \in [Blocks -> 0 .. B + 1]
    /\ pool.limit \in [0 .. B -> 0 .. B + 1]
    /\ wanted \subseteq Slots

\* The empty slots of a block form one ring through base and check, entered
\* at ehead: every empty slot can be found again, and none is offered twice.
RingsWhole ==
    Ready => \A b \in (IF WithRestore THEN 1 ELSE 0) .. pool.nblk - 1 :
       LET empties == SlotsOf(b) \cap Free(pool)
       IN  empties # {} =>
             /\ pool.ehead[b] \in empties
             /\ IsRing(empties, [e \in empties |-> - pool.array[e].base],
                                [e \in empties |-> - pool.array[e].check])

\* The counter of a block is the number of its empty slots, the root counted.
CountsRight ==
    Ready => \A b \in 0 .. pool.nblk - 1 :
       pool.num[b] = Cardinality({e \in SlotsOf(b) : pool.array[e].check < 0})

\* What _find_place chose is still empty when _pop_enode takes it, whatever
\* was given back in between.
WantedFree == wanted \subseteq Free(pool)

\* The allocator writes no slot that is in use, before and after the step:
\* not while it relinks the rings around it either.
HeldUntouched ==
    [][\A e \in Held(pool) \cap Held(pool') :
          /\ pool'.array[e].base = pool.array[e].base
          /\ e # 0 => pool'.array[e].check = pool.array[e].check]_vars

\* Listing and slots together refine the block lists of BlockLists.
Lists == INSTANCE BlockLists WITH lists <- pool.lists, num <- pool.num,
                                  trial <- pool.trial, nblk <- pool.nblk
ListsSpec == Lists!Spec
=============================================================================
