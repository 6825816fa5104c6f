------------------------------ MODULE TrieOps ------------------------------
(***************************************************************************)
(* The operations of cedar::da (cedarpp.h) on the trie, as functions of    *)
(* the trie: a pool (SlotOps) with the fields                              *)
(*    sibling, child   _ninfo: the labels of the children of a node, in    *)
(*                     order; 0 ends a chain, and is the terminal's label  *)
(*    tail             cells: characters, 0 at the end of a suffix, then a *)
(*                     cell for the value                                  *)
(*    length           *_length, the cells in use                          *)
(*    tail0            _tail0: offsets where a suffix of length 0 fits     *)
(* A node with a negative base has a suffix in the tail at -base; a slot   *)
(* with label 0 holds a value in place of its base.                        *)
(***************************************************************************)
EXTENDS SlotOps, FiniteSets

CONSTANTS MaxTail       \* bound: cells the tail may grow to

\* The length's own cells come first: an offset is never 1, because a node
\* with base -1 has no suffix yet.
HeaderCells == 2
ValueCells  == 1
Cells       == 0 .. MaxTail

ASSUME TailAssumption == MaxTail \in Nat /\ MaxTail >= HeaderCells

NoValue == -1       \* CEDAR_NO_VALUE: the key is a prefix of others
NoPath  == -2       \* CEDAR_NO_PATH

InitialTrie ==
    LET p == InitialPool
    IN  [array |-> p.array, lists |-> p.lists, num |-> p.num, trial |-> p.trial,
         ehead |-> p.ehead, reject |-> p.reject, limit |-> p.limit, nblk |-> p.nblk,
         sibling |-> [e \in Slots |-> 0], child |-> [e \in Slots |-> 0],
         tail |-> [i \in Cells |-> 0], length |-> HeaderCells, tail0 |-> <<>>]

-----------------------------------------------------------------------------
(* Sibling chains.                                                         *)

\* The labels from c on, at base: up to the first that is followed by 0.
Chain(t, base, c) ==
    LET upto[i \in 1 .. B] ==
          IF i = 1 THEN <<c>>
          ELSE LET chain == upto[i - 1]
                   next  == t.sibling[Xor(base, chain[Len(chain)])]
               IN  IF next = 0 THEN chain ELSE Append(chain, next)
    IN  upto[B]

Children(t, node) == Chain(t, t.array[node].base, t.child[node])

\* _push_sibling: label joins the chain of node, after the smaller labels
\* when in_order says there may be some.
PushSibling(t, node, base, label, in_order) ==
    LET c == t.child[node]
        smaller[i \in 1 .. B] ==
          IF i = 1 THEN c
          ELSE LET l == smaller[i - 1]
                   s == t.sibling[Xor(base, l)]
               IN  IF s = 0 \/ s >= label THEN l ELSE s
        before == Xor(base, smaller[B])
    IN  IF in_order /\ label > c
        THEN [t EXCEPT !.sibling = [@ EXCEPT ![Xor(base, label)] = t.sibling[before],
                                             ![before] = label]]
        ELSE [t EXCEPT !.sibling[Xor(base, label)] = c, !.child[node] = label]

\* _pop_sibling.
PopSibling(t, node, base, label) ==
    LET after == t.sibling[Xor(base, label)]
    IN  IF t.child[node] = label THEN [t EXCEPT !.child[node] = after]
        ELSE LET l == CHOOSE x \in Labels :
                        /\ t.sibling[Xor(base, x)] = label
                        /\ \E i \in DOMAIN Children(t, node) : Children(t, node)[i] = x
             IN  [t EXCEPT !.sibling[Xor(base, l)] = after]

\* _set_child with a label: the chain and the newcomer, in order.
WithLabel(chain, label) ==
    LET n == CHOOSE n \in 0 .. Len(chain) :
               /\ \A i \in 1 .. n : chain[i] < label
               /\ \A i \in n + 1 .. Len(chain) : chain[i] > label
    IN  [i \in 1 .. Len(chain) + 1 |->
           IF i <= n THEN chain[i] ELSE IF i = n + 1 THEN label ELSE chain[i - 1]]

-----------------------------------------------------------------------------
(* Edges.                                                                  *)

\* _find_place() and _find_place(first, last): the slot chosen, and the trie.
InNewBlock(t) == [t |-> AddBlock(t), at |-> t.nblk * B]

FindSlot(t) == IF SinglePlace(t) # 0 THEN [t |-> t, at |-> SinglePlace(t)] ELSE InNewBlock(t)

\* The round of the loop of _find_place(first, last) at r.block; last is where
\* it ends, and block 0 says that it has.
FindRound(r, places, labels, last) ==
    IF places # {}
    THEN LET first == CHOOSE x \in places : \A y \in places : x <= y
         IN  [t |-> SettleIn(r.t, r.block, first), block |-> 0,
              at |-> Empties(r.t, r.block)[first]]
    ELSE [t |-> RejectIn(r.t, r.block, Len(labels)), at |-> 0,
          block |-> IF r.block = last THEN 0 ELSE r.t.lists.next[r.block]]

OrInNewBlock(found) == IF found.at # 0 THEN found ELSE InNewBlock(found.t)

FindSlots(t, labels) ==
    LET open == t.lists.head["Open"]
        last == t.lists.prev[open]
        round[i \in 0 .. t.nblk] ==
          IF i = 0 THEN [t |-> t, block |-> open, at |-> 0]
          ELSE LET r == round[i - 1]
               IN  IF r.block = 0 THEN r
                   ELSE FindRound(r, Places(r.t, r.block, labels), labels, last)
    IN  OrInNewBlock(round[t.nblk])

\* _pop_enode: the slot of the child label of node, which gets a base if it
\* has none.
PopAnywhere(place, label, node) ==
    [TakeEnode(place.t, place.at, label, node)
       EXCEPT !.array[node].base = Xor(place.at, label)]

PopEnode(t, base, label, node) ==
    IF base < 0 THEN PopAnywhere(FindSlot(t), label, node)
                ELSE TakeEnode(t, Xor(base, label), label, node)

\* Mutant: the chain information of the slot survives.
ReleaseKeepsChain(t, e) == PushEnode(t, e)

\* _push_enode, which also clears the node's chain information.
Release(t, e) == [PushEnode(t, e) EXCEPT !.sibling[e] = 0, !.child[e] = 0]

-----------------------------------------------------------------------------
(* _resolve.                                                               *)

\* Mutant: the children of the moved node still name its old slot.
AdoptNone(t, to_, to) ==
    [t EXCEPT !.array[to].base = t.array[to_].base, !.child[to] = t.child[to_]]

\* The node at to takes over the base of the one at to_, and its children.
Adopt(t, to_, to) ==
    LET x == t.array[to_].base
        below == Chain(t, x, t.child[to_])
        grandchildren == {Xor(x, below[i]) : i \in DOMAIN below}
    IN  [t EXCEPT !.child[to] = t.child[to_],
                  !.array = [e \in Slots |->
                     IF e = to THEN Node(x, @[to].check)
                     ELSE IF e \in grandchildren THEN Node(@[e].base, to)
                     ELSE @[e]]]

\* A value, a suffix or no base at all is copied; nothing hangs below it.
Inherit(t, to_, to, label) ==
    IF t.array[to_].base > 0 /\ label # 0 THEN Adopt(t, to_, to)
    ELSE [t EXCEPT !.array[to].base = t.array[to_].base]

\* The conflict over the slot of the child label of n, which is a child of p:
\* the node with fewer children, n counted without the newcomer, moves its
\* children from base_.
Conflict(t, n, label) ==
    LET to_pn == Xor(t.array[n].base, label)
        p     == t.array[to_pn].check
        newer == Len(Children(t, n)) < Len(Children(t, p))       \* _consult
        node  == IF newer THEN n ELSE p
    IN  [n |-> n, label |-> label, base_n |-> t.array[n].base, to_pn |-> to_pn,
         newer |-> newer, node |-> node, base_ |-> t.array[node].base,
         labels |-> IF newer THEN WithLabel(Children(t, n), label) ELSE Children(t, p)]

\* The slot of p's child now goes to the newcomer.
TakeOver(t, c, from) ==
    [PushSibling(t, from, c.base_n, c.label, TRUE) EXCEPT
       !.child[c.to_pn] = 0,
       !.array[c.to_pn] = Node(IF c.label # 0 THEN -1 ELSE 0, from)]

\* Mutant: n is looked for where it was ("bug fix").
LeaveSlotForgets(t, c, to_, from) ==
    [t |-> IF ~ c.newer /\ to_ = c.to_pn THEN TakeOver(t, c, c.n) ELSE Release(t, to_),
     from |-> c.n]

\* A child is at its new slot in t, and leaves to_; n may be that child.
LeaveSlot(t, c, to_, from) ==
    [t |-> IF ~ c.newer /\ to_ = c.to_pn THEN TakeOver(t, c, from) ELSE Release(t, to_),
     from |-> from]

\* The slot of a label is taken in t; its old one is left, if it had one.
MoveTo(t, from, c, base, label) ==
    LET to_ == Xor(c.base_, label)
        to  == Xor(base, label)
    IN  IF c.newer /\ to_ = c.to_pn THEN [t |-> t, from |-> from]
        ELSE LeaveSlot(Inherit(t, to_, to, label), c, to_,
                       IF ~ c.newer /\ to_ = from THEN to ELSE from)

\* The i-th of the labels moves to base; the newcomer has no old slot.
MoveChild(s, c, base, i) ==
    LET next == IF i = Len(c.labels) THEN 0 ELSE c.labels[i + 1]
    IN  MoveTo([PopEnode(s.t, base, c.labels[i], c.node)
                  EXCEPT !.sibling[Xor(base, c.labels[i])] = next],
               s.from, c, base, c.labels[i])

NewcomerAt(s, to) == [t |-> s.t, from |-> s.from, to |-> to]

MoveChildren(t, c, base) ==
    LET start == [t EXCEPT !.array[c.node].base = base,
                           !.child[c.node] = IF c.newer /\ c.labels[1] = c.label
                                             THEN c.label ELSE @]
        moved[i \in 0 .. Len(c.labels)] ==
          IF i = 0 THEN [t |-> start, from |-> c.n] ELSE MoveChild(moved[i - 1], c, base, i)
    IN  NewcomerAt(moved[Len(c.labels)], IF c.newer THEN Xor(base, c.label) ELSE c.to_pn)

ResolveAt(c, place) == MoveChildren(place.t, c, Xor(place.at, c.labels[1]))

ResolveConflict(t, c) ==
    ResolveAt(c, IF Len(c.labels) = 1 THEN FindSlot(t) ELSE FindSlots(t, c.labels))

\* _resolve: the child label of n afterwards, and n, which may have moved.
Resolve(t, n, label) == ResolveConflict(t, Conflict(t, n, label))

\* _follow: the child label of node, made if it does not exist.
NewChild(t, node, label, in_order) ==
    LET base == t.array[node].base
    IN  [t |-> PushSibling(t, node, base, label, in_order),
         from |-> node, to |-> Xor(base, label)]

Follow(t, node, label) ==
    LET base == t.array[node].base
        to   == Xor(base, label)
    IN  IF base < 0 \/ t.array[to].check < 0
        THEN NewChild(PopEnode(t, base, label, node), node, label, base >= 0)
        ELSE IF t.array[to].check = node THEN [t |-> t, from |-> node, to |-> to]
        ELSE Resolve(t, node, label)
-----------------------------------------------------------------------------
(* erase, from the last node of a key upwards.                             *)

\* Mutant: a node above is left although nothing hangs on it.
HasSiblingAlways(t, from) == TRUE

\* Has the node from a second child?
HasSibling(t, from) == t.sibling[Xor(t.array[from].base, t.child[from])] # 0

Unchain(t, from, e) ==
    LET base == t.array[from].base IN PopSibling(t, from, base, Xor(base, e))

\* The slot u.at goes; if it was the last below u.from, that is next.
EraseRound(u) ==
    LET flag == HasSibling(u.t, u.from)
        left == IF flag THEN Unchain(u.t, u.from, u.at) ELSE u.t
    IN  [t |-> Release(left, u.at), at |-> u.from,
         from |-> left.array[u.from].check, stop |-> flag]

\* The node e below from goes, and those above it, n at most, that are left
\* without children.
EraseUp(t, e, from, n) ==
    LET up[i \in 0 .. n] ==
          IF i = 0 THEN [t |-> t, at |-> e, from |-> from, stop |-> FALSE]
          ELSE IF up[i - 1].stop THEN up[i - 1] ELSE EraseRound(up[i - 1])
    IN  up[n].t

-----------------------------------------------------------------------------
(* The tables beside the array, rebuilt from it.                           *)

\* Mutant: the terminal of a node is not taken for its first child.
ChildMetNoTerminal(t, from, base) == from = 0 \/ t.child[from] # 0

\* A child of from was met already, or is a terminal.
ChildMet(t, from, base) ==
    from = 0 \/ t.child[from] # 0 \/ t.array[base].check = from

\* The chains, label by label; a terminal, if there is one, comes first.
_restore_ninfo(t) ==
    LET upto[e \in -1 .. t.nblk * B - 1] ==
          IF e = -1 THEN [t EXCEPT !.sibling = [x \in Slots |-> 0], !.child = [x \in Slots |-> 0]]
          ELSE LET u    == upto[e - 1]
                   from == t.array[e].check
                   base == t.array[from].base
               IN  IF from < 0 \/ base = e THEN u
                   ELSE PushSibling(u, from, base, Xor(base, e), ChildMet(u, from, base))
    IN  upto[t.nblk * B - 1]

_restore_block(t) ==
    LET upto[b \in -1 .. t.nblk - 1] ==
          IF b = -1 THEN ForgetBlocks(t)
          ELSE RegisterBlockOf(upto[b - 1], b,
                 Cardinality({e \in SlotsOf(b) : t.array[e].check < 0}))
    IN  upto[t.nblk - 1]
=============================================================================
