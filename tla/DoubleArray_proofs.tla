------------------------- MODULE DoubleArray_proofs -------------------------
(***************************************************************************)
(* The trie of cedarpp.h holds its map: update and set give a key its      *)
(* value, splitting suffixes as needed, erase takes a key away, and        *)
(* shrink_tail and a save and a load lose nothing.  From that, for every   *)
(* set of keys: lookups and num_keys answer what the map does, no slot is  *)
(* leaked, chains match the array, suffixes and free places share no cell, *)
(* and the memory shrink_tail asks for is enough.                          *)
(***************************************************************************)
EXTENDS DoubleArray, TreeLemmas

\* The tail of u is that of t.
SameTail(t, u) ==
    {"tail", "length", "tail0"} \subseteq DOMAIN t =>
       /\ {"tail", "length", "tail0"} \subseteq DOMAIN u
       /\ u.tail = t.tail /\ u.length = t.length /\ u.tail0 = t.tail0

\* One after the other.
LEMMA SameTailOn ==
    ASSUME NEW t, NEW u, NEW v, SameTail(t, u), SameTail(u, v)
    PROVE  SameTail(t, v)
  BY DEF SameTail

\* The writes of _push_enode, _push_sibling and _pop_sibling.
LEMMA WritesSameTail ==
    ASSUME NEW t, NEW e, NEW n, NEW base, NEW l, NEW b
    PROVE  /\ SameTail(t, PushSibling(t, n, base, l, b)) /\ SameTail(t, Release(t, e))
           /\ SameTail(t, PopSibling(t, n, base, l))
  <1>1. SameTail(t, PushSibling(t, n, base, l, b))
    BY DEF PushSibling, SameTail
  <1>2. SameTail(t, Release(t, e))
    <2> DEFINE y == PushEnode(t, e)
    <2>1. SameTail(t, y)
      BY DEF PushEnode, SameTail
    <2> HIDE DEF y
    <2>2. SameTail(y, [y EXCEPT !.sibling[e] = 0, !.child[e] = 0])
      BY DEF SameTail
    <2> QED
      BY <2>1, <2>2, SameTailOn DEF Release, y
  <1>3. SameTail(t, PopSibling(t, n, base, l))
    BY DEF PopSibling, SameTail
  <1> QED
    BY <1>1, <1>2, <1>3

\* A place is found.
LEMMA FindSlotSameTail ==
    ASSUME NEW t
    PROVE  SameTail(t, AddBlock(t)) /\ SameTail(t, FindSlot(t).t)
  <1>1. SameTail(t, AddBlock(t))
    BY DEF AddBlock, SameTail
  <1>2. FindSlot(t).t = t \/ FindSlot(t).t = AddBlock(t)
    BY DEF FindSlot, InNewBlock
  <1>3. SameTail(t, t)
    BY DEF SameTail
  <1> QED
    BY <1>1, <1>2, <1>3

\* The loop of _find_place(first, last).
LEMMA FindSlotsLoop ==
    ASSUME NEW t, t.nblk \in Nat, NEW labels, NEW open, open = t.lists.head["Open"],
           NEW last, last = t.lists.prev[open]
    PROVE  \E g : /\ g[0] = [t |-> t, block |-> open, at |-> 0]
                  /\ \A i \in 1 .. t.nblk : g[i] = IF g[i - 1].block = 0 THEN g[i - 1]
                                           ELSE FindRound(g[i - 1], Places(g[i - 1].t, g[i - 1].block, labels), labels, last)
                  /\ FindSlots(t, labels) = OrInNewBlock(g[t.nblk])
  <1> DEFINE N == t.nblk
             s0 == [t |-> t, block |-> open, at |-> 0]
             Next1(s, i) == IF s.block = 0 THEN s ELSE FindRound(s, Places(s.t, s.block, labels), labels, last)
             Step(g, i) == IF i = 0 THEN s0 ELSE Next1(g[i - 1], i)
             Good(g, m) == g = [i \in 0 .. m |-> Step(g, i)]
             Bad == {m \in Nat : ~ \E g : Good(g, m)}
  <1>1. Bad = {}
    <2> SUFFICES ASSUME Bad # {} PROVE FALSE
      OBVIOUS
    <2> HIDE DEF Next1, s0
    <2>1. Bad \in SUBSET Nat
      OBVIOUS
    <2> HIDE DEF Bad
    <2>2. PICK m \in Bad : \A x \in Bad : m <= x
      BY <2>1, Least
    <2>3. m \in Nat /\ ~ \E g : Good(g, m)
      BY DEF Bad
    <2>4. CASE m = 0
      <3> DEFINE g == [i \in 0 .. 0 |-> s0]
      <3>1. Good(g, 0)
        BY DEF g
      <3> QED
        BY <3>1, <2>3, <2>4
    <2>5. CASE m # 0
      <3>1. m - 1 \in Nat /\ m - 1 \notin Bad
        BY <2>2, <2>3, <2>5
      <3>2. PICK h : Good(h, m - 1)
        BY <3>1 DEF Bad
      <3> DEFINE g == [i \in 0 .. m |-> Step(h, i)]
      <3>3. ASSUME NEW i \in 0 .. m PROVE Step(g, i) = Step(h, i)
        <4>1. CASE i = 0
          BY <4>1
        <4>2. CASE i # 0
          <5>1. i - 1 \in 0 .. m /\ i - 1 \in 0 .. m - 1
            BY <4>2, <2>3
          <5>2. g[i - 1] = Step(h, i - 1)
            BY <5>1
          <5>3. h[i - 1] = Step(h, i - 1)
            <6> HIDE DEF Step
            <6> QED
              BY <5>1, <3>2
          <5> HIDE DEF g
          <5> QED
            BY <4>2, <5>2, <5>3
        <4> QED
          BY <4>1, <4>2
      <3>4. Good(g, m)
        <4> HIDE DEF Step
        <4> QED
          BY <3>3
      <3> QED
        BY <3>4, <2>3
    <2> QED
      BY <2>4, <2>5
  <1>2. \E g : Good(g, N)
    BY <1>1
  <1>3. PICK g : Good(g, N) /\ FindSlots(t, labels) = OrInNewBlock(g[N])
    BY <1>2 DEF FindSlots
  <1> HIDE DEF Next1, s0
  <1>4. g[0] = s0 /\ \A i \in 1 .. N : g[i] = Next1(g[i - 1], i)
    <2>1. g = [i \in 0 .. N |-> Step(g, i)]
      BY <1>3
    <2>2. \A i \in 0 .. N : g[i] = Step(g, i)
      <3> HIDE DEF Step
      <3> QED
        BY <2>1
    <2> QED
      BY <2>2
  <1> QED
    BY <1>3, <1>4 DEF Next1, s0

\* The loop of _find_place(first, last).
LEMMA FindSlotsSameTail ==
    ASSUME NEW t, t.nblk \in Nat, NEW labels
    PROVE  SameTail(t, FindSlots(t, labels).t)
  <1> DEFINE N == t.nblk
             open == t.lists.head["Open"]
             last == t.lists.prev[open]
             s0 == [t |-> t, block |-> open, at |-> 0]
             Next1(s) == IF s.block = 0 THEN s ELSE FindRound(s, Places(s.t, s.block, labels), labels, last)
  <1>1. PICK g : /\ g[0] = s0 /\ \A i \in 1 .. N : g[i] = Next1(g[i - 1])
                 /\ FindSlots(t, labels) = OrInNewBlock(g[N])
    BY FindSlotsLoop
  <1> HIDE DEF Next1, s0
  <1>2. g[0] = s0 /\ \A i \in 1 .. N : g[i] = Next1(g[i - 1])
    BY <1>1
  <1>3. ASSUME NEW s PROVE SameTail(s.t, Next1(s).t)
    <2> DEFINE r == FindRound(s, Places(s.t, s.block, labels), labels, last)
    <2>1. SameTail(s.t, s.t)
      BY DEF SameTail
    <2>2. SameTail(s.t, r.t)
      <3>1. \A i : SameTail(s.t, SettleIn(s.t, s.block, i))
        BY DEF SettleIn, SameTail
      <3>2. \A nc : SameTail(s.t, RejectIn(s.t, s.block, nc))
        BY DEF RejectIn, SameTail
      <3>3. (\E i : r.t = SettleIn(s.t, s.block, i)) \/ \E nc : r.t = RejectIn(s.t, s.block, nc)
        BY DEF FindRound
      <3> QED
        BY <3>1, <3>2, <3>3
    <2> QED
      BY <2>1, <2>2 DEF Next1
  <1> DEFINE In == {i \in 0 .. N : SameTail(t, g[i].t)}
  <1>4. 0 \in In
    <2>1. g[0].t = t
      BY <1>2 DEF s0
    <2> QED
      BY <2>1 DEF SameTail
  <1>5. ASSUME NEW i \in 1 .. N, i - 1 \in In PROVE i \in In
    <2>1. SameTail(g[i - 1].t, g[i].t)
      BY <1>2, <1>3
    <2> QED
      BY <2>1, <1>5, SameTailOn
  <1>6. SameTail(t, g[N].t)
    <2>1. \A i \in 0 .. N : i \in In
      <3> HIDE DEF In
      <3> QED
        BY <1>4, <1>5, UpTo
    <2> QED
      BY <2>1
  <1>7. OrInNewBlock(g[N]).t = g[N].t \/ OrInNewBlock(g[N]).t = AddBlock(g[N].t)
    BY DEF OrInNewBlock, InNewBlock
  <1> QED
    BY <1>1, <1>6, <1>7, FindSlotSameTail, SameTailOn

\* _pop_enode.
LEMMA TakeSameTail ==
    ASSUME NEW t, NEW base, NEW l, NEW n
    PROVE  SameTail(t, PopEnode(t, base, l, n))
  <1>1. \A u, e : SameTail(u, TakeEnode(u, e, l, n))
    BY DEF TakeEnode, SameTail
  <1>2. ASSUME NEW u, NEW e PROVE SameTail(u, [TakeEnode(u, e, l, n) EXCEPT !.array[n].base = Xor(e, l)])
    <2> DEFINE v == TakeEnode(u, e, l, n)
    <2>1. SameTail(u, v)
      BY <1>1
    <2> HIDE DEF v
    <2>2. SameTail(v, [v EXCEPT !.array[n].base = Xor(e, l)])
      BY DEF SameTail
    <2> QED
      BY <2>1, <2>2, SameTailOn DEF v
  <1>3. CASE base < 0
    <2> DEFINE f == FindSlot(t)
    <2>1. SameTail(t, f.t)
      BY FindSlotSameTail
    <2>2. SameTail(f.t, PopAnywhere(f, l, n))
      BY <1>2 DEF PopAnywhere
    <2> HIDE DEF f
    <2> QED
      BY <2>1, <2>2, <1>3, SameTailOn DEF PopEnode, f
  <1>4. CASE ~ base < 0
    BY <1>1, <1>4 DEF PopEnode
  <1> QED
    BY <1>3, <1>4

\* A step of the loop of _resolve.
LEMMA MoveSameTail ==
    ASSUME NEW s, NEW c, NEW base, NEW i
    PROVE  SameTail(s.t, MoveChild(s, c, base, i).t)
  <1> DEFINE u == s.t
             l == c.labels[i]
             to == Xor(base, l)
             k == PopEnode(u, base, l, c.node)
             next == IF i = Len(c.labels) THEN 0 ELSE c.labels[i + 1]
             v == [k EXCEPT !.sibling[to] = next]
             a == Xor(c.base_, l)
             x == Inherit(v, a, to, l)
             f == IF ~ c.newer /\ a = s.from THEN to ELSE s.from
  <1>1. SameTail(u, k)
    BY TakeSameTail
  <1>2. SameTail(k, v)
    <2> HIDE DEF k
    <2> QED
      BY DEF SameTail
  <1>3. SameTail(u, v)
    <2> HIDE DEF k, v
    <2> QED
      BY <1>1, <1>2, SameTailOn
  <1>4. SameTail(v, x)
    <2> HIDE DEF v, a, to, l
    <2>1. CASE v.array[a].base > 0 /\ l # 0
      BY <2>1 DEF Inherit, Adopt, SameTail
    <2>2. CASE ~ (v.array[a].base > 0 /\ l # 0)
      BY <2>2 DEF Inherit, SameTail
    <2> QED
      BY <2>1, <2>2
  <1>5. SameTail(u, x)
    <2> HIDE DEF x, v
    <2> QED
      BY <1>3, <1>4, SameTailOn
  <1>6. SameTail(x, Release(x, a))
    BY WritesSameTail
  <1>7. SameTail(x, TakeOver(x, c, f))
    <2> HIDE DEF x, f
    <2> DEFINE z == PushSibling(x, f, c.base_n, c.label, TRUE)
    <2>1. SameTail(x, z)
      BY WritesSameTail
    <2>2. TakeOver(x, c, f) = [z EXCEPT !.child[c.to_pn] = 0,
                                 !.array[c.to_pn] = Node(IF c.label # 0 THEN -1 ELSE 0, f)]
      BY DEF TakeOver
    <2> HIDE DEF z
    <2>3. SameTail(z, TakeOver(x, c, f))
      BY <2>2 DEF SameTail
    <2> QED
      BY <2>1, <2>3, SameTailOn
  <1>8. MoveChild(s, c, base, i) = MoveTo(v, s.from, c, base, l)
    BY DEF MoveChild
  <1>9. MoveTo(v, s.from, c, base, l) =
          IF c.newer /\ a = c.to_pn THEN [t |-> v, from |-> s.from]
          ELSE [t |-> IF ~ c.newer /\ a = c.to_pn THEN TakeOver(x, c, f) ELSE Release(x, a),
                from |-> f]
    <2> HIDE DEF v
    <2> QED
      BY DEF MoveTo, LeaveSlot
  <1> HIDE DEF u, k, v, a, x, f
  <1> DEFINE y == TakeOver(x, c, f)
             z == Release(x, a)
  <1>10. SameTail(u, y) /\ SameTail(u, z)
    BY <1>5, <1>6, <1>7, SameTailOn
  <1> HIDE DEF y, z
  <1>11. MoveChild(s, c, base, i).t \in {v, y, z}
    BY <1>8, <1>9 DEF y, z
  <1> QED
    BY <1>3, <1>10, <1>11 DEF u

\* The loop of _resolve, where it starts and where the newcomer then is.
MoveStart(t, c, base) ==
    [t |-> [t EXCEPT !.array[c.node].base = base,
                     !.child[c.node] = IF c.newer /\ c.labels[1] = c.label THEN c.label ELSE @],
     from |-> c.n]

\* Where the newcomer is in the end.
NewcomerEnd(c, base) == IF c.newer THEN Xor(base, c.label) ELSE c.to_pn

\* The loop of _resolve.
LEMMA MoveLoop ==
    ASSUME NEW t, NEW c, Len(c.labels) \in Nat, NEW base
    PROVE  \E g : /\ g[0] = MoveStart(t, c, base)
                  /\ \A i \in 1 .. Len(c.labels) : g[i] = MoveChild(g[i - 1], c, base, i)
                  /\ MoveChildren(t, c, base) = NewcomerAt(g[Len(c.labels)], NewcomerEnd(c, base))
  <1> DEFINE N == Len(c.labels)
             s0 == MoveStart(t, c, base)
             Next1(s, i) == MoveChild(s, c, base, i)
             Step(g, i) == IF i = 0 THEN s0 ELSE Next1(g[i - 1], i)
             Good(g, m) == g = [i \in 0 .. m |-> Step(g, i)]
             Bad == {m \in Nat : ~ \E g : Good(g, m)}
  <1>1. Bad = {}
    <2> SUFFICES ASSUME Bad # {} PROVE FALSE
      OBVIOUS
    <2> HIDE DEF Next1, s0
    <2>1. Bad \in SUBSET Nat
      OBVIOUS
    <2> HIDE DEF Bad
    <2>2. PICK m \in Bad : \A x \in Bad : m <= x
      BY <2>1, Least
    <2>3. m \in Nat /\ ~ \E g : Good(g, m)
      BY DEF Bad
    <2>4. CASE m = 0
      <3> DEFINE g == [i \in 0 .. 0 |-> s0]
      <3>1. Good(g, 0)
        BY DEF g
      <3> QED
        BY <3>1, <2>3, <2>4
    <2>5. CASE m # 0
      <3>1. m - 1 \in Nat /\ m - 1 \notin Bad
        BY <2>2, <2>3, <2>5
      <3>2. PICK h : Good(h, m - 1)
        BY <3>1 DEF Bad
      <3> DEFINE g == [i \in 0 .. m |-> Step(h, i)]
      <3>3. ASSUME NEW i \in 0 .. m PROVE Step(g, i) = Step(h, i)
        <4>1. CASE i = 0
          BY <4>1
        <4>2. CASE i # 0
          <5>1. i - 1 \in 0 .. m /\ i - 1 \in 0 .. m - 1
            BY <4>2, <2>3
          <5>2. g[i - 1] = Step(h, i - 1)
            BY <5>1
          <5>3. h[i - 1] = Step(h, i - 1)
            <6> HIDE DEF Step
            <6> QED
              BY <5>1, <3>2
          <5> HIDE DEF g
          <5> QED
            BY <4>2, <5>2, <5>3
        <4> QED
          BY <4>1, <4>2
      <3>4. Good(g, m)
        <4> HIDE DEF Step
        <4> QED
          BY <3>3
      <3> QED
        BY <3>4, <2>3
    <2> QED
      BY <2>4, <2>5
  <1>2. \E g : Good(g, N)
    BY <1>1
  <1>3. PICK g : Good(g, N) /\ MoveChildren(t, c, base) = NewcomerAt(g[N], NewcomerEnd(c, base))
    BY <1>2 DEF MoveChildren, MoveStart, NewcomerEnd
  <1> HIDE DEF Next1, s0
  <1>4. g[0] = s0 /\ \A i \in 1 .. N : g[i] = Next1(g[i - 1], i)
    <2>1. g = [i \in 0 .. N |-> Step(g, i)]
      BY <1>3
    <2>2. \A i \in 0 .. N : g[i] = Step(g, i)
      <3> HIDE DEF Step
      <3> QED
        BY <2>1
    <2> QED
      BY <2>2
  <1> QED
    BY <1>3, <1>4 DEF Next1, s0

\* _resolve.
LEMMA ResolveSameTail ==
    ASSUME NEW t, t.nblk \in Nat, NEW n, NEW label, NEW c, c = Conflict(t, n, label), Len(c.labels) \in Nat
    PROVE  SameTail(t, Resolve(t, n, label).t)
  <1> DEFINE p == IF Len(c.labels) = 1 THEN FindSlot(t) ELSE FindSlots(t, c.labels)
             u == p.t
             base == Xor(p.at, c.labels[1])
             s0 == MoveStart(u, c, base)
             N == Len(c.labels)
  <1>1. SameTail(t, u)
    BY FindSlotSameTail, FindSlotsSameTail
  <1>2. Resolve(t, n, label) = MoveChildren(u, c, base)
    BY DEF Resolve, ResolveConflict, ResolveAt
  <1> HIDE DEF p, u, base
  <1>3. PICK g : /\ g[0] = s0 /\ \A i \in 1 .. N : g[i] = MoveChild(g[i - 1], c, base, i)
                 /\ MoveChildren(u, c, base) = NewcomerAt(g[N], NewcomerEnd(c, base))
    <2>1. Len(c.labels) \in Nat
      OBVIOUS
    <2> HIDE DEF s0
    <2> QED
      BY ONLY <2>1, MoveLoop DEF s0
  <1>4. SameTail(u, s0.t)
    BY DEF SameTail, MoveStart
  <1>5. SameTail(t, s0.t)
    <2> HIDE DEF s0
    <2> QED
      BY <1>1, <1>4, SameTailOn
  <1> HIDE DEF s0
  <1> DEFINE In == {i \in 0 .. N : SameTail(t, g[i].t)}
  <1>6. 0 \in In
    BY <1>3, <1>5
  <1>7. ASSUME NEW i \in 1 .. N, i - 1 \in In PROVE i \in In
    <2>1. SameTail(g[i - 1].t, g[i].t)
      BY <1>3, MoveSameTail
    <2> QED
      BY <2>1, <1>7, SameTailOn
  <1>8. SameTail(t, g[N].t)
    <2>1. \A i \in 0 .. N : i \in In
      <3> HIDE DEF In
      <3> QED
        BY <1>6, <1>7, UpTo
    <2> QED
      BY <2>1
  <1> QED
    BY <1>2, <1>3, <1>8 DEF NewcomerAt

\* _follow.
LEMMA FollowSameTail ==
    ASSUME NEW R, Spare("chain", R), NEW t, NEW U, NEW P, NEW L, NEW O, NEW n, NEW label,
           CanFollow(R, t, U, P, L, O, n, label)
    PROVE  SameTail(t, Follow(t, n, label).t)
  <1> DEFINE base == t.array[n].base
             to == Xor(base, label)
  <1>1. /\ Sound(R, t) /\ U = Taken(t) /\ IsTree(t, U, P, L, O, {}, {}) /\ n \in U \cup {0}
        /\ (n # 0 => L[n] # 0) /\ label \in Labels /\ (n = 0 => label \in R) /\ R \subseteq Labels \ {0}
    BY DEF CanFollow, Spare
  <1>2. /\ U \in SUBSET (Slots \ {0}) /\ O \in [Slots -> Slots] /\ L \in [Slots -> Labels] /\ TrieTyped(t)
        /\ 0 \in Slots /\ n \in Slots
    BY <1>1, SlotRange DEF IsTree, GhostTyped
  <1>3. base \in Int /\ n \in Nat /\ t.nblk \in Nat
    <2>1. t.array \in [Slots -> [base : Int, check : Int]] /\ t.nblk \in 1 .. MaxBlocks
      BY <1>2 DEF TrieTyped
    <2> QED
      BY <2>1, <1>2, SlotFacts, BlockAssumption
  <1>4. Follow(t, n, label) =
          IF base < 0 \/ t.array[to].check < 0
          THEN NewChild(PopEnode(t, base, label, n), n, label, base >= 0)
          ELSE IF t.array[to].check = n THEN [t |-> t, from |-> n, to |-> to]
          ELSE Resolve(t, n, label)
    BY DEF Follow
  <1>5. CASE base < 0 \/ t.array[to].check < 0
    <2> DEFINE v == PopEnode(t, base, label, n)
               u == PushSibling(v, n, v.array[n].base, label, base >= 0)
    <2>1. SameTail(t, v)
      BY TakeSameTail
    <2>2. SameTail(v, u)
      BY WritesSameTail
    <2>3. NewChild(v, n, label, base >= 0).t = u
      BY DEF NewChild
    <2> HIDE DEF v, u, base, to
    <2>4. Follow(t, n, label) = NewChild(v, n, label, base >= 0)
      BY <1>4, <1>5 DEF v
    <2> QED
      BY <2>1, <2>2, <2>3, <2>4, SameTailOn
  <1>6. CASE ~ (base < 0 \/ t.array[to].check < 0) /\ t.array[to].check = n
    <2>1. Follow(t, n, label).t = t
      BY <1>4, <1>6
    <2> QED
      BY <2>1 DEF SameTail
  <1>7. CASE ~ (base < 0 \/ t.array[to].check < 0) /\ t.array[to].check # n
    <2>1. base >= 0 /\ InnerNode(t, L, n)
      BY <1>1, <1>3, <1>7 DEF InnerNode
    <2>2. /\ base \in Slots /\ Block(base) < t.nblk /\ (n # 0 => Block(base) # 0)
          /\ t.array[0].base = 0 /\ t.array[0].check < 0 /\ Block(0) = 0
      <3>1. t.array[0].base = 0 /\ t.array[0].check < 0 /\ Block(0) = 0
        BY <1>1, SlotFacts, SoundFacts DEF IsTree, Bases
      <3>2. CASE n = 0
        <4>1. t.nblk >= 1
          BY <1>2, BlockAssumption DEF TrieTyped
        <4> QED
          BY <3>1, <3>2, <4>1, <1>2, <1>3
      <3>3. CASE n # 0
        BY <3>1, <3>3, <2>1, <1>1 DEF IsTree, Bases
      <3> QED
        BY <3>2, <3>3
    <2>3. to \in Slots /\ Block(to) = Block(base)
      BY <2>2, <1>1, XorAssumption
    <2>4. t.array[to].check >= 0
      <3>1. t.array[to].check \in Int
        BY <2>3, <1>2 DEF TrieTyped
      <3> QED
        BY <3>1, <1>7
    <2> HIDE DEF base
    <2>5. to # 0
      <3> HIDE DEF to
      <3>1. t.array[0].check \in Int
        BY <1>2 DEF TrieTyped
      <3> QED
        BY <3>1, <2>2, <2>4
    <2> HIDE DEF to
    <2>6. to \in U
      BY <2>2, <2>3, <2>4, <2>5, <1>1 DEF Taken
    <2>7. n # 0
      <3> SUFFICES ASSUME n = 0 PROVE FALSE
        OBVIOUS
      <3> DEFINE p == t.array[to].check
      <3>1. p \in U /\ InnerNode(t, L, p) /\ to = Xor(O[to], L[to]) /\ O[to] = t.array[p].base
        BY <2>6, <1>1, <1>7 DEF IsTree, Edges, Settled
      <3>2. t.array[p].base \in Slots /\ Block(t.array[p].base) # 0
        BY <3>1, <1>1 DEF IsTree, Bases
      <3> HIDE DEF p
      <3>3. L[to] \in Labels
        BY <2>6, <1>2
      <3>4. Block(to) # 0
        BY <3>1, <3>2, <3>3, XorAssumption
      <3>5. base = 0
        BY <2>2 DEF base
      <3> QED
        BY <3>4, <3>5, <2>2, <2>3
    <2>8. InConflict(t, U, P, L, O, n, label)
      <3>1. n \in U
        BY <2>7, <1>1
      <3>2. /\ t.array[Xor(t.array[n].base, label)].check >= 0
            /\ t.array[Xor(t.array[n].base, label)].check # n
        BY <2>4, <1>7 DEF to, base
      <3> QED
        BY <3>1, <3>2, <2>1, <1>1 DEF InConflict
    <2> DEFINE c == Conflict(t, n, label)
    <2>9. ConflictOf(t, U, P, L, n, label, c)
      BY <2>8, ConflictIs
    <2> HIDE DEF c
    <2>10. Len(c.labels) \in Nat
      <3>1. c.labels \in Seq(Labels)
        BY <2>9 DEF ConflictOf, IsConflict
      <3> QED
        BY <3>1
    <2>11. SameTail(t, Resolve(t, n, label).t)
      BY <2>10, <1>3, ResolveSameTail DEF c
    <2> QED
      BY <2>11, <1>4, <1>7
  <1> QED
    BY <1>5, <1>6, <1>7

\* erase.
LEMMA EraseSameTail ==
    ASSUME NEW t, NEW e, NEW from, NEW n \in Nat
    PROVE  SameTail(t, EraseUp(t, e, from, n))
  <1>1. PICK g : /\ g[0] = [t |-> t, at |-> e, from |-> from, stop |-> FALSE]
                 /\ \A i \in 1 .. n : g[i] = IF g[i - 1].stop THEN g[i - 1] ELSE EraseRound(g[i - 1])
                 /\ EraseUp(t, e, from, n) = g[n].t
    BY EraseUpLoop
  <1> DEFINE In == {i \in 0 .. n : SameTail(t, g[i].t)}
  <1>2. 0 \in In
    <2>1. g[0].t = t
      BY <1>1
    <2> QED
      BY <2>1 DEF SameTail
  <1>3. ASSUME NEW i \in 1 .. n, i - 1 \in In PROVE i \in In
    <2> DEFINE s == g[i - 1]
               v == IF HasSibling(s.t, s.from) THEN Unchain(s.t, s.from, s.at) ELSE s.t
    <2>1. SameTail(t, s.t) /\ (g[i] = s \/ g[i] = EraseRound(s))
      BY <1>1, <1>3
    <2> HIDE DEF s
    <2>2. SameTail(s.t, v)
      <3>1. SameTail(s.t, Unchain(s.t, s.from, s.at))
        BY WritesSameTail DEF Unchain
      <3>2. SameTail(s.t, s.t)
        BY DEF SameTail
      <3> QED
        BY <3>1, <3>2
    <2>3. EraseRound(s).t = Release(v, s.at)
      BY DEF EraseRound
    <2> HIDE DEF v
    <2>4. SameTail(v, Release(v, s.at))
      BY WritesSameTail
    <2>5. SameTail(t, EraseRound(s).t)
      BY <2>1, <2>2, <2>3, <2>4, SameTailOn
    <2> QED
      BY <2>1, <2>5
  <1>4. \A i \in 0 .. n : i \in In
    <2> HIDE DEF In
    <2> QED
      BY <1>2, <1>3, UpTo
  <1> QED
    BY <1>1, <1>4

-----------------------------------------------------------------------------
(* The nodes without children hold something else.                         *)

\* u is t but for the bases of nodes without children, and for the tail.
RefilledAs(t, u, V, L) ==
    /\ TrieTyped(u) /\ PoolFields \subseteq DOMAIN u
    /\ u.sibling = t.sibling /\ u.child = t.child /\ u.nblk = t.nblk /\ u.num = t.num
    /\ u.ehead = t.ehead /\ u.lists = t.lists /\ u.trial = t.trial /\ u.reject = t.reject
    /\ u.limit = t.limit
    /\ \A x \in Slots : u.array[x].check = t.array[x].check
    /\ \A x \in Slots : x \notin V \/ InnerNode(t, L, x) => u.array[x] = t.array[x]
    /\ \A x \in V : InnerNode(t, L, x) \/ L[x] = 0 \/ u.array[x].base < 0

\* The tree stands, with the same inner nodes.
LEMMA RefilledTree ==
    ASSUME NEW R, NEW t, NEW V, NEW P, NEW L, NEW O, Sound(R, t), V = Taken(t),
           IsTree(t, V, P, L, O, {}, {}), NEW u, RefilledAs(t, u, V, L)
    PROVE  /\ Sound(R, u) /\ V = Taken(u) /\ IsTree(u, V, P, L, O, {}, {})
           /\ \A x \in V \cup {0} : InnerNode(u, L, x) <=> InnerNode(t, L, x)
  <1> USE DEF RefilledAs
  <1>1. /\ V \in SUBSET (Slots \ {0}) /\ L \in [Slots -> Labels] /\ 0 \in Slots
        /\ t.array[0].base = 0
    BY SlotRange DEF IsTree, GhostTyped, Bases
  <1>2. V = Taken(u)
    BY DEF Taken
  <1>3. InnerNode(t, L, 0) /\ u.array[0] = t.array[0]
    BY <1>1 DEF InnerNode
  <1>4. /\ \A x \in V \cup {0} : InnerNode(u, L, x) <=> InnerNode(t, L, x)
        /\ \A x \in V \cup {0} : InnerNode(t, L, x) => u.array[x].base = t.array[x].base
    <2>1. ASSUME NEW x \in V
          PROVE  /\ InnerNode(u, L, x) <=> InnerNode(t, L, x)
                 /\ InnerNode(t, L, x) => u.array[x].base = t.array[x].base
      <3>1. x \in Slots /\ x # 0
        BY <1>1
      <3>2. CASE InnerNode(t, L, x)
        BY <3>1, <3>2 DEF InnerNode
      <3>3. CASE ~ InnerNode(t, L, x)
        <4>1. u.array[x].base \in Int
          BY <3>1 DEF TrieTyped
        <4>2. L[x] = 0 \/ u.array[x].base < 0
          BY <3>3
        <4>3. ~ InnerNode(u, L, x)
          BY <4>1, <4>2, <3>1 DEF InnerNode
        <4> QED
          BY <4>3, <3>3
      <3> QED
        BY <3>2, <3>3
    <2>2. InnerNode(u, L, 0) /\ InnerNode(t, L, 0)
      BY <1>1, <1>3 DEF InnerNode
    <2> QED
      BY <2>1, <2>2, <1>3
  <1>5. Sound(R, u)
    <2>1. WrittenIn(t, u)
      <3>1. ASSUME NEW x \in Slots
            PROVE  IF t.array[x].check < 0 THEN u.array[x] = t.array[x] ELSE u.array[x].check >= 0
        <4>1. t.array[x].check < 0 => x \notin V
          BY SoundFacts DEF Taken, TrieTyped
        <4>2. t.array[x].check \in Int
          BY SoundFacts DEF TrieTyped
        <4> QED
          BY <4>1, <4>2
      <3> QED
        BY <3>1 DEF WrittenIn
    <2> QED
      BY <2>1, WriteSound
  <1>6. \A n : Listed(u, V, L, n) = Listed(t, V, L, n)
    BY <1>1 DEF Listed
  <1>7. IsTree(u, V, P, L, O, {}, {})
    <2>1. GhostTyped(V, P, L, O)
      BY DEF IsTree
    <2>2. Edges(u, V, P, L, O)
      <3>1. \A x \in V : x \in Slots /\ t.array[x].check \in V \cup {0}
        BY <1>1 DEF IsTree, Edges
      <3> QED
        BY <3>1, <1>4 DEF IsTree, Edges
    <2>3. Settled(u, V, O, {})
      <3>1. \A x \in V : /\ x \in Slots /\ t.array[x].check \in V \cup {0}
                         /\ InnerNode(t, L, t.array[x].check)
                         /\ O[x] = t.array[t.array[x].check].base
        BY <1>1 DEF IsTree, Edges, Settled
      <3> QED
        BY <3>1, <1>4 DEF Settled
    <2>4. Bases(u, V, L)
      <3>1. u.array[0].base = 0
        BY <1>1, <1>3
      <3> QED
        BY <3>1, <1>4 DEF IsTree, Bases
    <2>5. Clear(u, V, L, {})
      BY <1>4 DEF IsTree, Clear
    <2>6. Chains(u, V, L, {})
      <3>1. ASSUME NEW n \in V \cup {0}, InnerNode(u, L, n)
            PROVE  /\ Listed(u, V, L, n) # {}
                   /\ ChainOf(u, n, u.array[n].base, Listed(u, V, L, n))
        <4>1. InnerNode(t, L, n) /\ u.array[n].base = t.array[n].base
          BY <3>1, <1>4
        <4> DEFINE S == Listed(t, V, L, n)
        <4>2. S # {} /\ ChainOf(t, n, t.array[n].base, S)
          BY <4>1 DEF IsTree, Chains
        <4>3. S = Listed(u, V, L, n)
          BY <1>6
        <4> HIDE DEF S
        <4>4. ChainOf(u, n, u.array[n].base, S)
          BY <4>1, <4>2 DEF ChainOf
        <4> QED
          BY <4>2, <4>3, <4>4
      <3> QED
        BY <3>1 DEF Chains
    <2> QED
      BY <2>1, <2>2, <2>3, <2>4, <2>5, <2>6 DEF IsTree
  <1> QED
    BY <1>2, <1>4, <1>5, <1>7

\* The tree with b in the node without children that is named p.
Renewed(C, p, b) == {x \in C : x[1] # p} \cup {<<p, FALSE, b>>}

\* u is t with b as the base of e, and another tail perhaps.
BasedAs(t, u, e, b) ==
    /\ DOMAIN u = DOMAIN t
    /\ \A f \in DOMAIN t \ {"array", "tail", "length", "tail0"} : u[f] = t[f]
    /\ u.array = [t.array EXCEPT ![e] = Node(b, t.array[e].check)]

\* One node without children holds something else.
LEMMA RefillOne ==
    ASSUME NEW R, NEW t, NEW C, NEW V, NEW P, NEW L, NEW O, TrieAs(R, t, C, V, P, L, O),
           NEW e \in V, ~ InnerNode(t, L, e), NEW b \in Int, L[e] = 0 \/ b < 0,
           NEW u, BasedAs(t, u, e, b), NEW p, p = P[e]
    PROVE  TrieAs(R, u, Renewed(C, p, b), V, P, L, O)
  <1>1. /\ Sound(R, t) /\ V = Taken(t) /\ IsTree(t, V, P, L, O, {}, {}) /\ C = Content(t, V, P, L)
    BY DEF TrieAs
  <1>2. /\ V \in SUBSET (Slots \ {0}) /\ e \in Slots /\ e # 0 /\ 0 \in Slots
        /\ TrieTyped(t) /\ PoolFields \subseteq DOMAIN t
    BY <1>1, SlotRange, SoundFacts DEF IsTree, GhostTyped
  <1>3. /\ t.array \in [Slots -> [base : Int, check : Int]]
        /\ {"sibling", "child", "array", "nblk"} \subseteq DOMAIN t
    BY <1>2 DEF TrieTyped, IsNinfo
  <1>4. /\ u.array[e].base = b /\ u.array[e].check = t.array[e].check
        /\ \A x \in Slots : x # e => u.array[x] = t.array[x]
        /\ u.array \in [Slots -> [base : Int, check : Int]]
    <2>1. t.array[e].check \in Int
      BY <1>2, <1>3
    <2>2. Node(b, t.array[e].check) \in [base : Int, check : Int]
      BY <2>1 DEF Node
    <2> QED
      BY <2>2, <1>2, <1>3 DEF BasedAs, Node
  <1>5. /\ u.sibling = t.sibling /\ u.child = t.child /\ u.nblk = t.nblk /\ u.num = t.num
        /\ u.ehead = t.ehead /\ u.lists = t.lists /\ u.trial = t.trial /\ u.reject = t.reject
        /\ u.limit = t.limit /\ DOMAIN u = DOMAIN t
    BY <1>2, <1>3 DEF BasedAs, PoolFields
  <1>6. TrieTyped(u)
    BY <1>2, <1>4, <1>5 DEF TrieTyped, IsNinfo
  <1>7. RefilledAs(t, u, V, L)
    <2>1. \A x \in Slots : u.array[x].check = t.array[x].check
      BY <1>4
    <2>2. \A x \in Slots : x \notin V \/ InnerNode(t, L, x) => u.array[x] = t.array[x]
      BY <1>4
    <2>3. \A x \in V : InnerNode(t, L, x) \/ L[x] = 0 \/ u.array[x].base < 0
      <3>1. ASSUME NEW x \in V, ~ InnerNode(t, L, x), L[x] # 0 PROVE u.array[x].base < 0
        <4>1. CASE x = e
          BY <4>1, <3>1, <1>4
        <4>2. CASE x # e
          <5>1. u.array[x] = t.array[x] /\ t.array[x].base \in Int /\ x # 0
            BY <4>2, <1>2, <1>3, <1>4
          <5> QED
            BY <5>1, <3>1 DEF InnerNode
        <4> QED
          BY <4>1, <4>2
      <3> QED
        BY <3>1
    <2> QED
      BY <2>1, <2>2, <2>3, <1>2, <1>5, <1>6 DEF RefilledAs
  <1>8. /\ Sound(R, u) /\ V = Taken(u) /\ IsTree(u, V, P, L, O, {}, {})
        /\ \A x \in V \cup {0} : InnerNode(u, L, x) <=> InnerNode(t, L, x)
    BY <1>1, <1>7, RefilledTree
  <1>9. Content(u, V, P, L) = Renewed(C, p, b)
    <2> DEFINE f(x) == Holding(t, P, L, x)
               g(x) == Holding(u, P, L, x)
               D == Content(u, V, P, L)
               z == <<p, FALSE, b>>
    <2>1. /\ \A x \in V : f(x) \in C /\ f(x)[1] = P[x]
          /\ \A y \in C : \E x \in V : y = f(x)
      BY <1>1, NodesOf
    <2>2. /\ \A x \in V : g(x) \in D /\ g(x)[1] = P[x]
          /\ \A y \in D : \E x \in V : y = g(x)
      BY NodesOf
    <2>3. ASSUME NEW x \in V, x # e PROVE g(x) = f(x) /\ P[x] # p
      <3>1. u.array[x] = t.array[x] /\ (InnerNode(u, L, x) <=> InnerNode(t, L, x))
        BY <2>3, <1>2, <1>4, <1>8
      <3>2. \A a, d \in V \cup {0} : P[a] = P[d] => a = d
        BY <1>1, PathsApart
      <3>3. P[x] # p
        BY <2>3, <3>2
      <3> QED
        BY <3>1, <3>3 DEF Holding
    <2>4. g(e) = z
      <3>1. ~ InnerNode(u, L, e)
        BY <1>8
      <3> QED
        BY <3>1, <1>4 DEF Holding
    <2> HIDE DEF f, g, z, D
    <2>5. D = {x \in C : x[1] # p} \cup {z}
      <3>1. ASSUME NEW y \in D PROVE (y \in C /\ y[1] # p) \/ y = z
        <4>1. PICK x \in V : y = g(x)
          BY <2>2
        <4> QED
          BY <4>1, <2>1, <2>2, <2>3, <2>4
      <3>2. ASSUME NEW y \in C, y[1] # p PROVE y \in D
        <4>1. PICK x \in V : y = f(x)
          BY <2>1
        <4>2. x # e
          BY <4>1, <2>1, <3>2
        <4> QED
          BY <4>1, <4>2, <2>2, <2>3
      <3>3. z \in D
        BY <2>2, <2>4
      <3> QED
        BY <3>1, <3>2, <3>3
    <2> QED
      BY <2>5 DEF D, z, Renewed
  <1> QED
    BY <1>8, <1>9 DEF TrieAs

-----------------------------------------------------------------------------
(* _follow, from a node named p.                                           *)

\* The node the walk may follow a label from: one of block 0 only for the
\* labels R, and no terminal.
CanGo(R, s, p, l) ==
    /\ s.t.nblk < MaxBlocks /\ l \in Labels /\ p \in Seq(Labels)
    /\ IF p = <<>> THEN l \in R ELSE p[Len(p)] # 0

\* The child of s named after p and l, in f.
Went(R, s, C, p, l, f) ==
    /\ Stands(R, [t |-> f.t, at |-> f.to], Extended(C, p, l), Named(p, l))
    /\ Stands(R, [t |-> f.t, at |-> f.from], Extended(C, p, l), p)
    /\ SameTail(s.t, f.t) /\ f.t.nblk \in {s.t.nblk, s.t.nblk + 1}

\* The child of s named after p and l, and s, in f.
Bore(R, s, C, p, l, f) ==
    /\ HasChild(R, Extended(C, p, l), p, l, f)
    /\ SameTail(s.t, f.t) /\ f.t.nblk \in {s.t.nblk, s.t.nblk + 1}

\* One label more.
LEMMA FollowBears ==
    ASSUME NEW R, Spare("chain", R), NEW s, NEW C, NEW p, NEW l, Stands(R, s, C, p),
           CanGo(R, s, p, l), NEW f, f = Follow(s.t, s.at, l)
    PROVE  Bore(R, s, C, p, l, f)
  <1> DEFINE E == Extended(C, p, l)
             t == s.t
             n == s.at
  <1>1. PICK V, P, L, O : StandsAt(R, s, C, p, V, P, L, O)
    BY DEF Stands
  <1>2. /\ Sound(R, t) /\ V = Taken(t) /\ IsTree(t, V, P, L, O, {}, {})
        /\ n \in V \cup {0} /\ P[n] = p /\ C = Content(t, V, P, L) /\ l \in Labels
        /\ p \in Seq(Labels) /\ t.nblk < MaxBlocks
    BY <1>1 DEF StandsAt, CanGo
  <1>3. (n = 0 <=> Len(p) = 0) /\ (n # 0 => L[n] = p[Len(p)]) /\ Len(p) \in Nat
    <2>1. Len(p) \in 0 .. Len(p) /\ Cut(p, Len(p)) = p
      <3>1. Len(p) \in 0 .. Len(p)
        BY <1>2
      <3> QED
        BY <3>1, <1>2, CutFacts
    <2> HIDE DEF t, n
    <2>2. P[n] = Cut(p, Len(p))
      BY <2>1, <1>2
    <2> QED
      BY <2>1, <2>2, <1>2, LastLabel
  <1>4. CanFollow(R, t, V, P, L, O, n, l)
    <2>1. n # 0 => L[n] # 0
      <3>1. n # 0 => p # <<>>
        BY <1>2, <1>3
      <3> QED
        BY <3>1, <1>3 DEF CanGo
    <2>2. n = 0 => l \in R
      <3>1. n = 0 => p = <<>>
        BY <1>2, <1>3
      <3> QED
        BY <3>1 DEF CanGo
    <2> HIDE DEF t, n
    <2> QED
      BY <2>1, <2>2, <1>2 DEF CanFollow
  <1> HIDE DEF E, t, n
  <1>5. f = Follow(t, n, l) /\ p = P[n] /\ E = Extended(Content(t, V, P, L), p, l)
    BY <1>2 DEF t, n, E
  <1>6. HasChild(R, E, p, l, f) /\ f.t.nblk \in {t.nblk, t.nblk + 1}
    BY <1>4, <1>5, FollowTree
  <1>7. SameTail(t, f.t)
    BY <1>4, <1>5, FollowSameTail
  <1> QED
    BY <1>6, <1>7 DEF Bore, E, t

\* ... with names of its own for either.
LEMMA FollowStands ==
    ASSUME NEW R, Spare("chain", R), NEW s, NEW C, NEW p, NEW l, Stands(R, s, C, p),
           CanGo(R, s, p, l), NEW f, f = Follow(s.t, s.at, l)
    PROVE  Went(R, s, C, p, l, f)
  <1> DEFINE E == Extended(C, p, l)
  <1>6. Bore(R, s, C, p, l, f)
    BY FollowBears
  <1>7. HasChild(R, E, p, l, f)
    BY <1>6 DEF Bore
  <1> HIDE DEF E
  <1>8. PICK V2, P2, L2, O2 : Followed(R, E, p, l, f, V2, P2, L2, O2)
    BY <1>7 DEF HasChild
  <1>9. P2[f.to] = Named(p, l)
    BY <1>8 DEF Followed, IsTree, Edges
  <1>10. Stands(R, [t |-> f.t, at |-> f.to], E, Named(p, l))
    <2> DEFINE g == [t |-> f.t, at |-> f.to]
    <2>1. g.t = f.t /\ g.at = f.to
      OBVIOUS
    <2> HIDE DEF g
    <2>2. StandsAt(R, g, E, Named(p, l), V2, P2, L2, O2)
      BY <1>8, <1>9, <2>1 DEF Followed, StandsAt
    <2>3. Stands(R, g, E, Named(p, l))
      BY <2>2 DEF Stands
    <2> QED
      BY <2>3 DEF g
  <1>11. Stands(R, [t |-> f.t, at |-> f.from], E, p)
    <2> DEFINE g == [t |-> f.t, at |-> f.from]
    <2>1. g.t = f.t /\ g.at = f.from
      OBVIOUS
    <2> HIDE DEF g
    <2>2. StandsAt(R, g, E, p, V2, P2, L2, O2)
      BY <1>8, <2>1 DEF Followed, StandsAt
    <2>3. Stands(R, g, E, p)
      BY <2>2 DEF Stands
    <2> QED
      BY <2>3 DEF g
  <1> QED
    BY <1>6, <1>10, <1>11 DEF Went, Bore, E

-----------------------------------------------------------------------------
(* The trie of a map.                                                      *)

\* A map from keys to values.
IsMap(m) == /\ DOMAIN m \subseteq {k \in Seq(Labels \ {0}) : IsKey(k)}
            /\ \A k \in DOMAIN m : m[k] \in Nat

\* The node where the way to k ends, after d of its labels: its terminal with
\* the value v, or the node whose suffix is at a.
EndOf(k, v, d, a) == <<Cut(Ended(k), d), FALSE, IF d = Len(k) + 1 THEN v ELSE - a>>

\* The nodes without children are the ends of the keys of m.
Ends(C, m, D, A) ==
    /\ \A x \in C : ~ x[2] => \E k \in DOMAIN m : x = EndOf(k, m[k], D[k], A[k])
    /\ \A k \in DOMAIN m : EndOf(k, m[k], D[k], A[k]) \in C

\* An inner node has a child.
NoBare(C) == \A x \in C : x[2] => \E c \in Labels : Has(C, Named(x[1], c))

\* The rest of k after d labels is at a in the tail, and the value v after it.
Spelled(t, k, v, d, a) ==
    /\ \A j \in d + 1 .. Len(k) : t.tail[a + (j - d - 1)] = k[j]
    /\ t.tail[a + (Len(k) - d)] = 0
    /\ t.tail[a + (Len(k) - d) + 1] = v

\* The cells of that.
Extent(k, d, a) == a .. a + (Len(k) - d) + 1

\* So it is for the key k, whose cells W gives to it.
KeyAt(t, W, k, v, d, a) ==
    /\ d \in 1 .. Len(k) + 1
    /\ d <= Len(k) =>
          /\ a \in Nat /\ a >= HeaderCells /\ a + (Len(k) - d) + 1 < t.length
          /\ Spelled(t, k, v, d, a)
          /\ \A c \in Extent(k, d, a) : W[c] = <<k, 0>>

\* The i-th place for an empty suffix has cells of its own.
PlaceAt(t, W, i) ==
    /\ t.tail0[i] \in Nat /\ t.tail0[i] >= HeaderCells /\ t.tail0[i] + 1 < t.length
    /\ W[t.tail0[i]] = << <<>>, i>> /\ W[t.tail0[i] + 1] = << <<>>, i>>

\* The tail: cells past its length are 0.
TailTyped(t) ==
    /\ {"tail", "length", "tail0"} \subseteq DOMAIN t
    /\ t.tail \in [Cells -> Int] /\ t.length \in HeaderCells .. MaxTail /\ t.tail0 \in Seq(Nat)
    /\ \A c \in Cells : c >= t.length => t.tail[c] = 0

\* The tail has the suffixes of the keys of m, each in cells of its own.
TailHolds(t, m, D, A, W) ==
    /\ TailTyped(t)
    /\ \A k \in DOMAIN m : KeyAt(t, W, k, m[k], D[k], A[k])
    /\ \A i \in DOMAIN t.tail0 : PlaceAt(t, W, i)

\* The nodes in C and the tail of t hold the map m.
StoredAs(C, t, m, D, A, W) ==
    IsMap(m) /\ Ends(C, m, D, A) /\ NoBare(C) /\ TailHolds(t, m, D, A, W)

\* The trie t holds the map m.
HoldsAs(R, t, m, C, D, A, W) == TrieOf(R, t, C) /\ StoredAs(C, t, m, D, A, W)

\* There is such a tree.
Holds(R, t, m) == \E C, D, A, W : HoldsAs(R, t, m, C, D, A, W)

-----------------------------------------------------------------------------
(* What does not concern the map.                                          *)

\* Another array with the same tail.
LEMMA TailSame ==
    ASSUME NEW C, NEW t, NEW m, NEW D, NEW A, NEW W, StoredAs(C, t, m, D, A, W),
           NEW u, SameTail(t, u)
    PROVE  StoredAs(C, u, m, D, A, W)
  <1>1. TailTyped(t)
    BY DEF StoredAs, TailHolds
  <1>2. /\ {"tail", "length", "tail0"} \subseteq DOMAIN u
        /\ u.tail = t.tail /\ u.length = t.length /\ u.tail0 = t.tail0
    BY <1>1 DEF SameTail, TailTyped
  <1>3. TailTyped(u)
    BY <1>1, <1>2 DEF TailTyped
  <1>4. \A k \in DOMAIN m : KeyAt(u, W, k, m[k], D[k], A[k])
    BY <1>2 DEF StoredAs, TailHolds, KeyAt, Spelled
  <1>5. \A i \in DOMAIN u.tail0 : PlaceAt(u, W, i)
    BY <1>2 DEF StoredAs, TailHolds, PlaceAt
  <1> QED
    BY <1>3, <1>4, <1>5 DEF StoredAs, TailHolds

\* Another tail with the same array.
TailOnly(t, u) ==
    /\ DOMAIN u = DOMAIN t
    /\ \A f \in DOMAIN t \ {"tail", "length", "tail0"} : u[f] = t[f]

\* The tree does not know of the tail.
LEMMA TrieTail ==
    ASSUME NEW R, NEW t, NEW C, NEW V, NEW P, NEW L, NEW O, TrieAs(R, t, C, V, P, L, O),
           NEW u, TailOnly(t, u)
    PROVE  TrieAs(R, u, C, V, P, L, O)
  <1>1. /\ Sound(R, t) /\ V = Taken(t) /\ IsTree(t, V, P, L, O, {}, {}) /\ C = Content(t, V, P, L)
    BY DEF TrieAs
  <1>2. TrieTyped(t) /\ PoolFields \subseteq DOMAIN t
    BY <1>1, SoundFacts
  <1>3. {"sibling", "child", "array", "nblk"} \subseteq DOMAIN t
    BY <1>2 DEF TrieTyped, IsNinfo
  <1>4. /\ u.sibling = t.sibling /\ u.child = t.child /\ u.nblk = t.nblk /\ u.num = t.num
        /\ u.ehead = t.ehead /\ u.lists = t.lists /\ u.trial = t.trial /\ u.reject = t.reject
        /\ u.limit = t.limit /\ DOMAIN u = DOMAIN t /\ u.array = t.array
    BY <1>2, <1>3 DEF TailOnly, PoolFields
  <1>5. TrieTyped(u)
    BY <1>2, <1>4 DEF TrieTyped, IsNinfo
  <1>6. RefilledAs(t, u, V, L)
    <2>1. \A x \in V : InnerNode(t, L, x) \/ L[x] = 0 \/ t.array[x].base < 0
      <3>1. ASSUME NEW x \in V PROVE InnerNode(t, L, x) \/ L[x] = 0 \/ t.array[x].base < 0
        <4>1. x \in Slots
          BY <1>1 DEF IsTree, GhostTyped
        <4>2. t.array[x].base \in Int
          BY <4>1, <1>2 DEF TrieTyped
        <4> QED
          BY <4>2 DEF InnerNode
      <3> QED
        BY <3>1
    <2> QED
      BY <2>1, <1>2, <1>4, <1>5 DEF RefilledAs
  <1>7. Sound(R, u) /\ V = Taken(u) /\ IsTree(u, V, P, L, O, {}, {})
    BY <1>1, <1>6, RefilledTree
  <1>8. Content(u, V, P, L) = C
    BY <1>1, <1>4 DEF Content, InnerNode
  <1> QED
    BY <1>7, <1>8 DEF TrieAs

\* Another map with the same values.
LEMMA MapSame ==
    ASSUME NEW C, NEW t, NEW m, NEW D, NEW A, NEW W, StoredAs(C, t, m, D, A, W),
           NEW w, DOMAIN w = DOMAIN m, \A k \in DOMAIN m : w[k] = m[k]
    PROVE  StoredAs(C, t, w, D, A, W)
  <1>1. IsMap(w)
    BY DEF StoredAs, IsMap
  <1>2. Ends(C, w, D, A)
    BY DEF StoredAs, Ends
  <1>3. TailHolds(t, w, D, A, W)
    BY DEF StoredAs, TailHolds
  <1> QED
    BY <1>1, <1>2, <1>3 DEF StoredAs

-----------------------------------------------------------------------------
(* Where the keys end.                                                     *)

\* A key of the map, and its end x.
KeyEnd(C, m, D, A, k, x) ==
    /\ IsKey(k) /\ Ended(k) \in Seq(Labels) /\ Len(Ended(k)) = Len(k) + 1 /\ Len(k) \in Nat
    /\ D[k] \in 1 .. Len(k) + 1 /\ m[k] \in Nat
    /\ x \in C /\ x[1] = Cut(Ended(k), D[k]) /\ x[2] = FALSE
    /\ x[3] = IF D[k] = Len(k) + 1 THEN m[k] ELSE - A[k]
    /\ D[k] <= Len(k) => A[k] \in Nat /\ A[k] >= 2
    /\ Len(Cut(Ended(k), D[k])) = D[k]

\* A key and its end.
LEMMA EndFacts ==
    ASSUME NEW C, NEW t, NEW m, NEW D, NEW A, NEW W, StoredAs(C, t, m, D, A, W),
           NEW k \in DOMAIN m, NEW x, x = EndOf(k, m[k], D[k], A[k])
    PROVE  KeyEnd(C, m, D, A, k, x)
  <1>1. IsKey(k) /\ m[k] \in Nat
    BY DEF StoredAs, IsMap
  <1>2. Ended(k) \in Seq(Labels) /\ Len(Ended(k)) = Len(k) + 1 /\ Len(k) \in Nat
    BY <1>1, EndedFacts
  <1>3. D[k] \in 1 .. Len(k) + 1 /\ (D[k] <= Len(k) => A[k] \in Nat /\ A[k] >= 2)
    BY DEF StoredAs, TailHolds, KeyAt, HeaderCells
  <1>4. x \in C
    BY DEF StoredAs, Ends
  <1>5. Len(Cut(Ended(k), D[k])) = D[k]
    <2>1. D[k] \in 0 .. Len(Ended(k))
      BY <1>2, <1>3
    <2> QED
      BY <2>1, <1>2, CutFacts
  <1> QED
    BY <1>1, <1>2, <1>3, <1>4, <1>5 DEF EndOf, KeyEnd

\* Two keys have two ends.
LEMMA EndsDiffer ==
    ASSUME NEW C, IsForest(C), NEW t, NEW m, NEW D, NEW A, NEW W, StoredAs(C, t, m, D, A, W),
           NEW k \in DOMAIN m, NEW l \in DOMAIN m, Cut(Ended(k), D[k]) = Cut(Ended(l), D[l])
    PROVE  k = l
  <1> DEFINE x == EndOf(k, m[k], D[k], A[k])
             y == EndOf(l, m[l], D[l], A[l])
  <1>0. x = EndOf(k, m[k], D[k], A[k]) /\ y = EndOf(l, m[l], D[l], A[l])
    OBVIOUS
  <1> HIDE DEF x, y
  <1>1. KeyEnd(C, m, D, A, k, x)
    BY <1>0, EndFacts
  <1>2. KeyEnd(C, m, D, A, l, y)
    BY <1>0, EndFacts
  <1> USE DEF KeyEnd
  <1>3. x = y
    BY <1>1, <1>2 DEF IsForest
  <1>4. D[k] = D[l]
    BY <1>1, <1>2
  <1>5. D[k] = Len(k) + 1 <=> D[l] = Len(l) + 1
    BY <1>1, <1>2, <1>3
  <1>6. CASE D[k] = Len(k) + 1
    <2>1. D[l] = Len(l) + 1
      BY <1>5, <1>6
    <2>2. Cut(Ended(k), Len(Ended(k))) = Ended(k) /\ Cut(Ended(l), Len(Ended(l))) = Ended(l)
      <3>1. Len(Ended(k)) \in 0 .. Len(Ended(k)) /\ Len(Ended(l)) \in 0 .. Len(Ended(l))
        BY <1>1, <1>2
      <3> QED
        BY <3>1, <1>1, <1>2, CutFacts
    <2>3. Ended(k) = Ended(l)
      BY <2>1, <2>2, <1>1, <1>2, <1>6
    <2> QED
      BY <2>3, <1>1, <1>2, EndsApart
  <1>7. CASE D[k] # Len(k) + 1
    <2>1. D[l] # Len(l) + 1 /\ D[k] <= Len(k) /\ D[l] <= Len(l)
      BY <1>1, <1>2, <1>5, <1>7
    <2>2. A[k] = A[l]
      BY <2>1, <1>1, <1>2, <1>3
    <2>3. A[k] \in Extent(k, D[k], A[k]) /\ A[l] \in Extent(l, D[l], A[l])
      <3> DEFINE dk == D[k]
                 dl == D[l]
                 ak == A[k]
                 al == A[l]
      <3>1. ak \in Nat /\ al \in Nat /\ Len(k) - dk \in Nat /\ Len(l) - dl \in Nat
        <4>1. ak \in Nat /\ dk \in 1 .. Len(k) + 1 /\ Len(k) \in Nat /\ dk <= Len(k)
          BY <2>1, <1>1
        <4>2. al \in Nat /\ dl \in 1 .. Len(l) + 1 /\ Len(l) \in Nat /\ dl <= Len(l)
          BY <2>1, <1>2
        <4> HIDE DEF dk, dl, ak, al
        <4> QED
          BY <4>1, <4>2
      <3> HIDE DEF dk, dl, ak, al
      <3>2. ak \in Extent(k, dk, ak) /\ al \in Extent(l, dl, al)
        BY <3>1 DEF Extent
      <3> QED
        BY <3>2 DEF dk, dl, ak, al
    <2>4. W[A[k]] = <<k, 0>> /\ W[A[l]] = <<l, 0>>
      BY <2>1, <2>3 DEF StoredAs, TailHolds, KeyAt
    <2> QED
      BY <2>2, <2>4
  <1> QED
    BY <1>6, <1>7

\* A child label is missing below the j-th node of a path.
CanBear(C, path, j) == (j = 0 \/ InnerOf(Cut(path, j)) \in C) /\ ~ Has(C, Cut(path, j + 1))

\* Then the key is not in the map.
LEMMA FreshKey ==
    ASSUME NEW C, IsForest(C), NEW t, NEW m, NEW D, NEW A, NEW W, StoredAs(C, t, m, D, A, W),
           NEW k, IsKey(k), NEW path, path = Ended(k), NEW j \in 0 .. Len(k), CanBear(C, path, j)
    PROVE  k \notin DOMAIN m
  <1> SUFFICES ASSUME k \in DOMAIN m PROVE FALSE
    OBVIOUS
  <1> DEFINE x == EndOf(k, m[k], D[k], A[k])
             d == D[k]
  <1>1. /\ path \in Seq(Labels) /\ Len(path) = Len(k) + 1 /\ Len(k) \in Nat
        /\ d \in 1 .. Len(path) /\ x \in C /\ x[1] = Cut(path, d) /\ x[2] = FALSE
    <2>1. x = EndOf(k, m[k], D[k], A[k])
      OBVIOUS
    <2> HIDE DEF x
    <2>2. KeyEnd(C, m, D, A, k, x)
      BY <2>1, EndFacts
    <2> QED
      BY <2>2 DEF KeyEnd
  <1> HIDE DEF x, d
  <1>2. Has(C, Cut(path, d))
    BY <1>1 DEF Has
  <1>3. \A i \in 1 .. d - 1 : InnerOf(Cut(path, i)) \in C
    BY <1>1, <1>2, Beginnings
  <1>4. CASE d <= j
    <2>1. InnerOf(Cut(path, d)) \in C
      <3>1. InnerOf(Cut(path, j)) \in C /\ j \in 1 .. Len(path)
        BY <1>1, <1>4 DEF CanBear
      <3>2. Has(C, Cut(path, j))
        <4>1. InnerOf(Cut(path, j))[1] = Cut(path, j)
          BY DEF InnerOf
        <4> QED
          BY <3>1, <4>1 DEF Has
      <3>3. \A i \in 1 .. j - 1 : InnerOf(Cut(path, i)) \in C
        BY <1>1, <3>1, <3>2, Beginnings
      <3>4. CASE d = j
        BY <3>1, <3>4
      <3>5. CASE d # j
        <4>1. d \in 1 .. j - 1
          BY <3>5, <1>1, <1>4
        <4> QED
          BY <4>1, <3>3
      <3> QED
        BY <3>4, <3>5
    <2>2. InnerOf(Cut(path, d))[1] = Cut(path, d) /\ InnerOf(Cut(path, d))[2] = TRUE
      BY DEF InnerOf
    <2>3. x = InnerOf(Cut(path, d))
      BY <2>1, <2>2, <1>1 DEF IsForest
    <2> QED
      BY <2>2, <2>3, <1>1
  <1>5. CASE d = j + 1
    BY <1>2, <1>5 DEF CanBear
  <1>6. CASE d > j + 1
    <2>1. j + 1 \in 1 .. d - 1
      BY <1>1, <1>6
    <2>2. InnerOf(Cut(path, j + 1)) \in C
      BY <2>1, <1>3
    <2>3. InnerOf(Cut(path, j + 1))[1] = Cut(path, j + 1)
      BY DEF InnerOf
    <2> QED
      BY <2>2, <2>3 DEF CanBear, Has
  <1> QED
    BY <1>1, <1>4, <1>5, <1>6

\* Nothing is below a node without children.
LEMMA DeepEmpty ==
    ASSUME NEW C, IsForest(C), NEW x \in C, ~ x[2], NEW path \in Seq(Labels),
           NEW i \in 1 .. Len(path), x[1] = Cut(path, i), NEW n \in i .. Len(path),
           NEW q, q = Cut(path, n)
    PROVE  (n > i => ~ Has(C, q)) /\ \A l \in Labels : ~ Has(C, Named(q, l))
  <1>1. InnerOf(Cut(path, i)) \notin C
    <2>1. InnerOf(Cut(path, i))[1] = x[1] /\ InnerOf(Cut(path, i))[2] = TRUE
      BY DEF InnerOf
    <2> QED
      BY <2>1 DEF IsForest
  <1>2. n \in 1 .. Len(path) /\ n \in 0 .. Len(path) /\ n \in Nat /\ i \in Nat
    OBVIOUS
  <1>3. n > i => ~ Has(C, q)
    <2>1. ASSUME n > i, Has(C, Cut(path, n)) PROVE FALSE
      <3>1. \A j \in 1 .. n - 1 : InnerOf(Cut(path, j)) \in C
        BY <2>1, <1>2, Beginnings
      <3>2. i \in 1 .. n - 1
        BY <2>1, <1>2
      <3> QED
        BY <3>1, <3>2, <1>1
    <2> QED
      BY <2>1
  <1>4. ASSUME NEW l \in Labels, Has(C, Named(q, l)) PROVE FALSE
    <2>1. q \in Seq(Labels) /\ Len(q) = n
      BY <1>2, CutFacts
    <2>2. q # <<>>
      BY <2>1, <1>2
    <2>3. InnerOf(q) \in C
      BY <1>4, <2>1, <2>2 DEF IsForest
    <2>4. Has(C, q)
      <3>1. InnerOf(q)[1] = q
        BY DEF InnerOf
      <3> QED
        BY <3>1, <2>3 DEF Has
    <2> QED
      BY <2>3, <2>4, <1>1, <1>2, <1>3
  <1> QED
    BY <1>3, <1>4

-----------------------------------------------------------------------------
(* The cells of the tail.                                                  *)

\* The suffix of a key stays when its cells do.
LEMMA KeptKey ==
    ASSUME NEW t, NEW W, NEW k, NEW v, NEW d, NEW a, KeyAt(t, W, k, v, d, a), Len(k) \in Nat,
           NEW u, NEW W2, d <= Len(k) => \A c \in Extent(k, d, a) : u.tail[c] = t.tail[c] /\ W2[c] = W[c],
           t.length \in Nat, u.length \in Nat, t.length <= u.length
    PROVE  KeyAt(u, W2, k, v, d, a)
  <1>1. d \in 1 .. Len(k) + 1
    BY DEF KeyAt
  <1>2. CASE d <= Len(k)
    <2>1. a \in Nat /\ a >= HeaderCells /\ a + (Len(k) - d) + 1 < t.length /\ Spelled(t, k, v, d, a)
      BY <1>2 DEF KeyAt
    <2>2. /\ \A j \in d + 1 .. Len(k) : a + (j - d - 1) \in Extent(k, d, a)
          /\ a + (Len(k) - d) \in Extent(k, d, a) /\ a + (Len(k) - d) + 1 \in Extent(k, d, a)
      BY <1>1, <1>2, <2>1 DEF Extent
    <2>3. Spelled(u, k, v, d, a)
      BY <1>2, <2>1, <2>2 DEF Spelled
    <2>4. a + (Len(k) - d) + 1 < u.length
      BY <1>1, <2>1
    <2> QED
      BY <1>1, <1>2, <2>1, <2>3, <2>4 DEF KeyAt
  <1>3. CASE ~ (d <= Len(k))
    BY <1>1, <1>3 DEF KeyAt
  <1> QED
    BY <1>2, <1>3

\* A key's suffix has cells in the tail, which no other key's has.
LEMMA CellsApart ==
    ASSUME NEW C, NEW t, NEW m, NEW D, NEW A, NEW W, StoredAs(C, t, m, D, A, W),
           NEW k \in DOMAIN m, D[k] <= Len(k)
    PROVE  \A c \in Extent(k, D[k], A[k]) :
              c \in Cells /\ c >= HeaderCells /\ c < t.length /\ W[c] = <<k, 0>>
  <1> DEFINE d == D[k]
             a == A[k]
  <1>1. IsKey(k) /\ TailTyped(t) /\ KeyAt(t, W, k, m[k], d, a)
    BY DEF StoredAs, IsMap, TailHolds
  <1>2. Len(k) \in Nat /\ d \in 1 .. Len(k) + 1
    BY <1>1, EndedFacts DEF KeyAt
  <1>3. /\ a \in Nat /\ a >= 2 /\ a + (Len(k) - d) + 1 < t.length
        /\ \A c \in Extent(k, d, a) : W[c] = <<k, 0>>
    BY <1>1 DEF KeyAt, HeaderCells
  <1>4. MaxTail \in Int /\ t.length \in 2 .. MaxTail
    <2>1. t.length \in 2 .. MaxTail
      BY <1>1 DEF TailTyped, HeaderCells
    <2> QED
      BY <2>1, TailAssumption
  <1>5. d <= Len(k)
    OBVIOUS
  <1> HIDE DEF d, a
  <1>6. \A c \in Extent(k, d, a) : c \in Cells /\ c >= 2 /\ c < t.length
    BY <1>2, <1>3, <1>4, <1>5 DEF Extent, Cells
  <1> QED
    BY <1>3, <1>6 DEF HeaderCells, d, a

-----------------------------------------------------------------------------
(* The reference update returns.                                           *)

\* The map w is m with v at k.
WithAt(m, w, k, v) ==
    /\ DOMAIN w = DOMAIN m \cup {k} /\ w[k] = v
    /\ \A l \in DOMAIN m : l # k => w[l] = m[l]

\* The value at k, or 0.
ValueOf(m, k) == IF k \in DOMAIN m THEN m[k] ELSE 0

\* The value of k is in the node at, or in the cell at of the tail.
ValueAs(m, k, in, at, V, P, D, A) ==
    /\ k \in DOMAIN m
    /\ \/ in = "node" /\ at \in V /\ P[at] = Ended(k) /\ D[k] = Len(k) + 1
       \/ in = "tail" /\ D[k] <= Len(k) /\ at = A[k] + (Len(k) - D[k]) + 1

\* The trie holds m, and the value of k is there.
ReadyAs(R, t, m, k, in, at, C, V, P, L, O, D, A, W) ==
    TrieAs(R, t, C, V, P, L, O) /\ StoredAs(C, t, m, D, A, W) /\ ValueAs(m, k, in, at, V, P, D, A)

\* There is such a tree.
Ready(R, t, m, k, in, at) ==
    \E C, V, P, L, O, D, A, W : ReadyAs(R, t, m, k, in, at, C, V, P, L, O, D, A, W)

\* u is t with the value v there.
PutAs(t, u, in, at, v) ==
    /\ DOMAIN u = DOMAIN t
    /\ IF in = "node"
       THEN /\ \A f \in DOMAIN t \ {"array"} : u[f] = t[f]
            /\ u.array = [t.array EXCEPT ![at] = Node(v, t.array[at].check)]
       ELSE /\ \A f \in DOMAIN t \ {"tail"} : u[f] = t[f]
            /\ u.tail = [t.tail EXCEPT ![at] = v]

\* The forest keeps its inner nodes' children when a node holds something else.
LEMMA RenewedBare ==
    ASSUME NEW C, NoBare(C), NEW p, NEW b
    PROVE  NoBare(Renewed(C, p, b))
  <1> DEFINE z == <<p, FALSE, b>>
             E == Renewed(C, p, b)
  <1>1. E = {x \in C : x[1] # p} \cup {z} /\ z[1] = p /\ ~ z[2]
    BY DEF Renewed
  <1> HIDE DEF z, E
  <1>2. \A q : Has(C, q) => Has(E, q)
    BY <1>1 DEF Has
  <1>3. \A x \in E : x[2] => x \in C
    BY <1>1
  <1>4. NoBare(E)
    BY <1>2, <1>3 DEF NoBare
  <1> QED
    BY <1>4 DEF E

\* The node e is the terminal of k.
TerminalAt(t, C, L, k, e) ==
    L[e] = 0 /\ ~ InnerNode(t, L, e) /\ <<Ended(k), FALSE, t.array[e].base>> \in C

\* The node of a terminal.
LEMMA TerminalNode ==
    ASSUME NEW R, NEW t, NEW C, NEW V, NEW P, NEW L, NEW O, TrieAs(R, t, C, V, P, L, O),
           NEW k, IsKey(k), NEW e \in V, P[e] = Ended(k)
    PROVE  TerminalAt(t, C, L, k, e)
  <1> DEFINE path == Ended(k)
             n == Len(k) + 1
  <1>1. path \in Seq(Labels) /\ Len(path) = n /\ n \in 0 .. Len(path) /\ path[n] = 0 /\ n \in Nat
    BY EndedFacts
  <1>2. IsTree(t, V, P, L, O, {}, {}) /\ C = Content(t, V, P, L)
    BY DEF TrieAs
  <1>3. e \in Slots /\ e # 0
    BY <1>2 DEF IsTree, GhostTyped
  <1> HIDE DEF path, n
  <1>4. Cut(path, n) = path
    BY <1>1, CutFacts
  <1>5. e # 0 => L[e] = path[n]
    <2>1. P[e] = Cut(path, n) /\ e \in V \cup {0}
      BY <1>4 DEF path
    <2> QED
      BY <2>1, <1>1, <1>2, LastLabel
  <1>6. ~ InnerNode(t, L, e)
    BY <1>1, <1>3, <1>5 DEF InnerNode
  <1>7. Holding(t, P, L, e) \in C
    BY <1>2, NodesOf
  <1> QED
    BY <1>1, <1>3, <1>5, <1>6, <1>7 DEF Holding, path, TerminalAt

\* What is there is the value of the key.
LEMMA ReadyValue ==
    ASSUME NEW R, NEW t, NEW m, NEW k, NEW in, NEW at, Ready(R, t, m, k, in, at)
    PROVE  /\ IsKey(k) /\ k \in DOMAIN m /\ m[k] \in Nat
           /\ IF in = "node" THEN at \in Slots /\ t.array[at].base = m[k]
              ELSE in = "tail" /\ at \in Cells /\ t.tail[at] = m[k]
           /\ t.array \in [Slots -> [base : Int, check : Int]] /\ t.tail \in [Cells -> Int]
           /\ {"array", "tail", "length", "tail0"} \subseteq DOMAIN t
  <1>1. PICK C, V, P, L, O, D, A, W : ReadyAs(R, t, m, k, in, at, C, V, P, L, O, D, A, W)
    BY DEF Ready
  <1>2. /\ TrieAs(R, t, C, V, P, L, O) /\ StoredAs(C, t, m, D, A, W)
        /\ ValueAs(m, k, in, at, V, P, D, A) /\ k \in DOMAIN m
    BY <1>1 DEF ReadyAs, ValueAs
  <1> DEFINE x == EndOf(k, m[k], D[k], A[k])
  <1>3. x = EndOf(k, m[k], D[k], A[k])
    OBVIOUS
  <1> HIDE DEF x
  <1>4. KeyEnd(C, m, D, A, k, x)
    BY <1>2, <1>3, EndFacts
  <1>5. /\ IsForest(C) /\ t.array \in [Slots -> [base : Int, check : Int]] /\ "array" \in DOMAIN t
        /\ V \subseteq Slots
    <2>1. IsTree(t, V, P, L, O, {}, {}) /\ C = Content(t, V, P, L)
      BY <1>2 DEF TrieAs
    <2> QED
      BY <2>1, ContentForest DEF IsTree, TrieTyped, GhostTyped
  <1>6. CASE in = "node"
    <2>1. at \in V /\ P[at] = Ended(k) /\ D[k] = Len(k) + 1
      BY <1>2, <1>6 DEF ValueAs
    <2>2. <<Ended(k), FALSE, t.array[at].base>> \in C
      <3>1. IsKey(k)
        BY <1>4 DEF KeyEnd
      <3>2. TerminalAt(t, C, L, k, at)
        BY <3>1, <1>2, <2>1, TerminalNode
      <3> QED
        BY <3>2 DEF TerminalAt
    <2>3. Cut(Ended(k), D[k]) = Ended(k)
      <3>1. D[k] \in 0 .. Len(Ended(k)) /\ D[k] = Len(Ended(k))
        BY <2>1, <1>4 DEF KeyEnd
      <3> QED
        BY <3>1, <1>4, CutFacts DEF KeyEnd
    <2> DEFINE y == <<Ended(k), FALSE, t.array[at].base>>
    <2>4. y \in C /\ y[1] = Ended(k) /\ y[3] = t.array[at].base
      BY <2>2
    <2> HIDE DEF y
    <2>5. y = x
      BY <2>3, <2>4, <1>4, <1>5 DEF IsForest, KeyEnd
    <2>6. t.array[at].base = m[k]
      BY <2>1, <2>4, <2>5, <1>4 DEF KeyEnd
    <2> QED
      BY <2>1, <2>6, <1>2, <1>4, <1>5, <1>6 DEF KeyEnd, StoredAs, TailHolds, TailTyped
  <1>7. CASE in # "node"
    <2>1. in = "tail" /\ D[k] <= Len(k) /\ at = A[k] + (Len(k) - D[k]) + 1
      BY <1>2, <1>7 DEF ValueAs
    <2>2. t.tail[at] = m[k]
      BY <2>1, <1>2 DEF StoredAs, TailHolds, KeyAt, Spelled
    <2>3. at \in Extent(k, D[k], A[k])
      <3> DEFINE d == D[k]
                 a == A[k]
      <3>1. a \in Nat /\ d \in 1 .. Len(k) + 1 /\ Len(k) \in Nat /\ d <= Len(k) /\ at = a + (Len(k) - d) + 1
        BY <2>1, <1>4 DEF KeyEnd
      <3> HIDE DEF d, a
      <3>2. at \in Extent(k, d, a)
        BY <3>1 DEF Extent
      <3> QED
        BY <3>2 DEF d, a
    <2>4. at \in Cells
      BY <2>1, <2>3, <1>2, CellsApart
    <2> QED
      BY <2>1, <2>2, <2>4, <1>2, <1>4, <1>5, <1>7 DEF KeyEnd, StoredAs, TailHolds, TailTyped
  <1> QED
    BY <1>6, <1>7

\* Writing it.
LEMMA PutNode ==
    ASSUME NEW R, NEW t, NEW m, NEW k, NEW at, NEW C, NEW V, NEW P, NEW L, NEW O, NEW D, NEW A, NEW W,
           ReadyAs(R, t, m, k, "node", at, C, V, P, L, O, D, A, W), NEW v \in Nat,
           NEW u, PutAs(t, u, "node", at, v), NEW w, WithAt(m, w, k, v), DOMAIN w = DOMAIN m,
           NEW E, E = Renewed(C, Ended(k), v)
    PROVE  TrieAs(R, u, E, V, P, L, O) /\ StoredAs(E, u, w, D, A, W)
  <1>1. /\ TrieAs(R, t, C, V, P, L, O) /\ StoredAs(C, t, m, D, A, W) /\ k \in DOMAIN m
        /\ at \in V /\ P[at] = Ended(k) /\ D[k] = Len(k) + 1 /\ IsKey(k)
    BY DEF ReadyAs, ValueAs, StoredAs, IsMap
  <1>2. L[at] = 0 /\ ~ InnerNode(t, L, at)
    <2>1. TerminalAt(t, C, L, k, at)
      BY <1>1, TerminalNode
    <2> QED
      BY <2>1 DEF TerminalAt
  <1>3. TrieAs(R, u, E, V, P, L, O)
    <2>1. BasedAs(t, u, at, v)
      BY DEF PutAs, BasedAs
    <2>2. Ended(k) = P[at] /\ v \in Int /\ (L[at] = 0 \/ v < 0)
      BY <1>1, <1>2
    <2>3. TrieAs(R, u, Renewed(C, Ended(k), v), V, P, L, O)
      BY <1>1, <1>2, <2>1, <2>2, RefillOne
    <2> QED
      BY <2>3
  <1>4. SameTail(t, u)
    BY DEF SameTail, PutAs
  <1>5. StoredAs(C, u, m, D, A, W)
    BY <1>1, <1>4, TailSame
  <1>6. IsForest(C)
    BY <1>1, ContentForest DEF TrieAs
  <1> DEFINE end(l) == EndOf(l, m[l], D[l], A[l])
             new(l) == EndOf(l, w[l], D[l], A[l])
             z == <<Ended(k), FALSE, v>>
  <1>7. Cut(Ended(k), D[k]) = Ended(k) /\ D[k] = Len(k) + 1 /\ ~ (D[k] <= Len(k))
    <2>1. /\ Len(k) + 1 = Len(Ended(k)) /\ Len(k) + 1 \in 0 .. Len(Ended(k)) /\ Ended(k) \in Seq(Labels)
          /\ Len(k) \in Nat
      BY <1>1, EndedFacts
    <2>2. Cut(Ended(k), Len(Ended(k))) = Ended(k)
      BY <2>1, CutFacts
    <2> QED
      BY <2>1, <2>2, <1>1
  <1>8. new(k) = z
    BY <1>7 DEF WithAt, EndOf
  <1>9. \A l \in DOMAIN m : l # k => new(l) = end(l)
    BY DEF WithAt
  <1>10. \A l \in DOMAIN m : end(l) \in C /\ end(l)[1] = Cut(Ended(l), D[l])
    BY <1>1 DEF StoredAs, Ends, EndOf
  <1>11. \A l \in DOMAIN m : l # k => end(l)[1] # Ended(k)
    <2>1. ASSUME NEW l \in DOMAIN m, end(l)[1] = Ended(k) PROVE l = k
      <3>1. Cut(Ended(l), D[l]) = Cut(Ended(k), D[k])
        BY <2>1, <1>7, <1>10
      <3> QED
        BY <3>1, <1>1, <1>6, EndsDiffer
    <2> QED
      BY <2>1
  <1>12. \A x \in C : ~ x[2] => \E l \in DOMAIN m : x = end(l)
    BY <1>1 DEF StoredAs, Ends
  <1>13. z[1] = Ended(k)
    OBVIOUS
  <1>14. E = {x \in C : x[1] # Ended(k)} \cup {z}
    BY DEF Renewed
  <1>15. Ends(E, w, D, A)
    <2> HIDE DEF end, new, z
    <2>1. ASSUME NEW x \in E, ~ x[2] PROVE \E l \in DOMAIN w : x = new(l)
      <3>1. CASE x = z
        BY <3>1, <1>1, <1>8
      <3>2. CASE x # z
        <4>1. x \in C /\ x[1] # Ended(k)
          BY <3>2, <1>14
        <4>2. PICK l \in DOMAIN m : x = end(l)
          BY <4>1, <2>1, <1>12
        <4>3. l # k
          BY <4>1, <4>2, <1>1, <1>7, <1>10
        <4> QED
          BY <4>2, <4>3, <1>9
      <3> QED
        BY <3>1, <3>2
    <2>2. ASSUME NEW l \in DOMAIN w PROVE new(l) \in E
      BY <1>8, <1>9, <1>10, <1>11, <1>14
    <2> QED
      BY <2>1, <2>2 DEF Ends, new
  <1>16. NoBare(E)
    BY <1>1, RenewedBare DEF StoredAs
  <1>17. IsMap(w)
    BY <1>1 DEF StoredAs, IsMap, WithAt
  <1>18. TailHolds(u, w, D, A, W)
    <2>1. ASSUME NEW l \in DOMAIN w PROVE KeyAt(u, W, l, w[l], D[l], A[l])
      <3>1. KeyAt(u, W, l, m[l], D[l], A[l])
        BY <1>5 DEF StoredAs, TailHolds
      <3>2. CASE l = k
        <4>1. D[l] \in 1 .. Len(l) + 1 /\ ~ (D[l] <= Len(l))
          BY <3>1, <3>2, <1>7 DEF KeyAt
        <4> QED
          BY <4>1 DEF KeyAt
      <3>3. CASE l # k
        BY <3>1, <3>3 DEF WithAt
      <3> QED
        BY <3>2, <3>3
    <2> QED
      BY <2>1, <1>5 DEF StoredAs, TailHolds
  <1> QED
    BY <1>3, <1>15, <1>16, <1>17, <1>18 DEF StoredAs

\* ... in the tail.
LEMMA PutCell ==
    ASSUME NEW R, NEW t, NEW m, NEW k, NEW at, NEW C, NEW V, NEW P, NEW L, NEW O, NEW D, NEW A, NEW W,
           ReadyAs(R, t, m, k, "tail", at, C, V, P, L, O, D, A, W), NEW v \in Nat,
           NEW u, PutAs(t, u, "tail", at, v), NEW w, WithAt(m, w, k, v), DOMAIN w = DOMAIN m
    PROVE  TrieAs(R, u, C, V, P, L, O) /\ StoredAs(C, u, w, D, A, W)
  <1>1. /\ TrieAs(R, t, C, V, P, L, O) /\ StoredAs(C, t, m, D, A, W) /\ k \in DOMAIN m
        /\ D[k] <= Len(k) /\ at = A[k] + (Len(k) - D[k]) + 1 /\ IsKey(k)
    BY DEF ReadyAs, ValueAs, StoredAs, IsMap
  <1>2. TrieAs(R, u, C, V, P, L, O)
    <2>1. TailOnly(t, u)
      BY DEF PutAs, TailOnly
    <2> QED
      BY <2>1, <1>1, TrieTail
  <1>3. TailTyped(t)
    BY <1>1 DEF StoredAs, TailHolds
  <1> DEFINE d == D[k]
             a == A[k]
             n == Len(k)
  <1>4. /\ n \in Nat /\ d \in 1 .. n /\ a \in Nat /\ at = a + (n - d) + 1
        /\ KeyAt(t, W, k, m[k], d, a) /\ d <= n
    <2>1. n \in Nat
      BY <1>1, EndedFacts
    <2>2. KeyAt(t, W, k, m[k], d, a)
      BY <1>1 DEF StoredAs, TailHolds
    <2> QED
      BY <2>1, <2>2, <1>1 DEF KeyAt
  <1> HIDE DEF d, a, n
  <1>5. at \in Extent(k, d, a)
    BY <1>4 DEF Extent, n
  <1>6. at \in Cells /\ at < t.length /\ W[at] = <<k, 0>>
    BY <1>1, <1>5, CellsApart DEF d, a
  <1>7. u.length = t.length /\ u.tail0 = t.tail0 /\ DOMAIN u = DOMAIN t
    BY <1>3 DEF TailTyped, PutAs
  <1>8. u.tail \in [Cells -> Int] /\ u.tail[at] = v /\ \A c \in Cells : c # at => u.tail[c] = t.tail[c]
    BY <1>3, <1>6 DEF TailTyped, PutAs
  <1>9. t.length \in Nat /\ MaxTail \in Int
    <2>1. t.length \in 2 .. MaxTail
      BY <1>3 DEF TailTyped, HeaderCells
    <2> QED
      BY <2>1, TailAssumption
  <1>10. TailTyped(u)
    <2>1. \A c \in Cells : c >= t.length => c # at
      BY <1>6, <1>9 DEF Cells
    <2> QED
      BY <2>1, <1>3, <1>7, <1>8 DEF TailTyped
  <1>11. ASSUME NEW l \in DOMAIN w PROVE KeyAt(u, W, l, w[l], D[l], A[l])
    <2>1. KeyAt(t, W, l, m[l], D[l], A[l]) /\ l \in DOMAIN m
      BY <1>1 DEF StoredAs, TailHolds
    <2>2. CASE l # k
      <3>1. D[l] <= Len(l) => \A c \in Extent(l, D[l], A[l]) : u.tail[c] = t.tail[c]
        <4>1. ASSUME D[l] <= Len(l), NEW c \in Extent(l, D[l], A[l]) PROVE u.tail[c] = t.tail[c]
          <5>1. c \in Cells /\ W[c] = <<l, 0>>
            BY <4>1, <2>1, <1>1, CellsApart
          <5>2. c # at
            BY <5>1, <1>6, <2>2
          <5> QED
            BY <5>1, <5>2, <1>8
        <4> QED
          BY <4>1
      <3>2. IsKey(l) /\ Len(l) \in Nat
        BY <2>1, <1>1, EndedFacts DEF StoredAs, IsMap
      <3>3. KeyAt(u, W, l, m[l], D[l], A[l])
        BY <2>1, <3>1, <3>2, <1>7, <1>9, KeptKey
      <3> QED
        BY <3>3, <2>1, <2>2 DEF WithAt
    <2>3. CASE l = k
      <3>1. /\ a >= HeaderCells /\ a + (n - d) + 1 < t.length /\ Spelled(t, k, m[k], d, a)
            /\ \A c \in Extent(k, d, a) : W[c] = <<k, 0>>
        BY <1>4 DEF KeyAt, n
      <3>2. \A j \in d + 1 .. n : a + (j - d - 1) \in Extent(k, d, a) /\ a + (j - d - 1) # at
        BY <1>4 DEF Extent, n
      <3>3. a + (n - d) \in Extent(k, d, a) /\ a + (n - d) # at
        BY <1>4 DEF Extent, n
      <3>4. \A c \in Extent(k, d, a) : c \in Cells
        BY <1>1, CellsApart DEF d, a
      <3>5. Spelled(u, k, v, d, a)
        <4>1. \A j \in d + 1 .. n : u.tail[a + (j - d - 1)] = k[j]
          BY <3>1, <3>2, <3>4, <1>8 DEF Spelled, n
        <4>2. u.tail[a + (n - d)] = 0
          BY <3>1, <3>3, <3>4, <1>8 DEF Spelled, n
        <4>3. u.tail[a + (n - d) + 1] = v
          BY <1>4, <1>8
        <4> QED
          BY <4>1, <4>2, <4>3 DEF Spelled, n
      <3>6. KeyAt(u, W, k, v, d, a)
        BY <3>1, <3>5, <1>4, <1>7 DEF KeyAt, n
      <3> QED
        BY <3>6, <2>3 DEF WithAt, d, a
    <2> QED
      BY <2>2, <2>3
  <1>12. \A i \in DOMAIN u.tail0 : PlaceAt(u, W, i)
    BY <1>1, <1>7 DEF StoredAs, TailHolds, PlaceAt
  <1>13. IsMap(w)
    BY <1>1 DEF StoredAs, IsMap, WithAt
  <1>14. Ends(C, w, D, A)
    <2>1. ASSUME NEW l \in DOMAIN m PROVE EndOf(l, w[l], D[l], A[l]) = EndOf(l, m[l], D[l], A[l])
      <3>1. CASE l = k
        <4>1. D[k] # Len(k) + 1
          BY <1>4 DEF d, n
        <4> QED
          BY <3>1, <4>1 DEF EndOf
      <3>2. CASE l # k
        BY <3>2 DEF WithAt
      <3> QED
        BY <3>1, <3>2
    <2> QED
      BY <2>1, <1>1 DEF StoredAs, Ends
  <1> QED
    BY <1>1, <1>2, <1>10, <1>11, <1>12, <1>13, <1>14 DEF StoredAs, TailHolds

\* The value is written where the reference says: the map has it.
LEMMA PutReady ==
    ASSUME NEW R, NEW t, NEW m, NEW k, NEW in, NEW at, Ready(R, t, m, k, in, at), NEW v \in Nat,
           NEW u, PutAs(t, u, in, at, v), NEW w, WithAt(m, w, k, v)
    PROVE  Holds(R, u, w)
  <1>1. PICK C, V, P, L, O, D, A, W : ReadyAs(R, t, m, k, in, at, C, V, P, L, O, D, A, W)
    BY DEF Ready
  <1>2. k \in DOMAIN m /\ (in = "node" \/ in = "tail")
    BY <1>1 DEF ReadyAs, ValueAs
  <1>3. DOMAIN w = DOMAIN m
    BY <1>2 DEF WithAt
  <1>4. CASE in = "node"
    <2> DEFINE E == Renewed(C, Ended(k), v)
    <2>1. /\ ReadyAs(R, t, m, k, "node", at, C, V, P, L, O, D, A, W) /\ PutAs(t, u, "node", at, v)
          /\ E = Renewed(C, Ended(k), v)
      BY <1>1, <1>4
    <2> HIDE DEF E
    <2>2. TrieAs(R, u, E, V, P, L, O) /\ StoredAs(E, u, w, D, A, W)
      BY <2>1, <1>3, PutNode
    <2> QED
      BY <2>2 DEF Holds, HoldsAs, TrieOf
  <1>5. CASE in = "tail"
    <2>1. ReadyAs(R, t, m, k, "tail", at, C, V, P, L, O, D, A, W) /\ PutAs(t, u, "tail", at, v)
      BY <1>1, <1>5
    <2>2. TrieAs(R, u, C, V, P, L, O) /\ StoredAs(C, u, w, D, A, W)
      BY <2>1, <1>3, PutCell
    <2> QED
      BY <2>2 DEF Holds, HoldsAs, TrieOf
  <1> QED
    BY <1>2, <1>4, <1>5

-----------------------------------------------------------------------------
(* A child more.                                                           *)

\* A node with children is open already; the root always is.
LEMMA OpenStays ==
    ASSUME NEW C, IsForest(C), NEW p, p = <<>> \/ InnerOf(p) \in C
    PROVE  Opened(C, p) = C
  <1>1. ASSUME NEW x \in C PROVE (IF x[1] = p THEN <<p, TRUE, 0>> ELSE x) = x
    <2>1. CASE x[1] = p
      <3>1. p # <<>>
        BY <2>1 DEF IsForest
      <3>2. InnerOf(p) \in C /\ InnerOf(p)[1] = p
        BY <3>1 DEF InnerOf
      <3>3. x = InnerOf(p)
        BY <3>2, <2>1 DEF IsForest
      <3> QED
        BY <2>1, <3>3 DEF InnerOf
    <2> QED
      BY <2>1
  <1> QED
    BY <1>1 DEF Opened

\* What the forest is with the child below the j-th node of the path.
ExtendedTo(C, path, j) ==
    LET E == Extended(C, Cut(path, j), path[j + 1])
    IN  /\ Has(C, Cut(path, j + 1)) => E = C
        /\ ~ Has(C, Cut(path, j + 1)) =>
              E = C \cup {<<Cut(path, j + 1), FALSE, IF path[j + 1] # 0 THEN -1 ELSE 0>>}

\* Following the path from an inner node of it.
LEMMA ExtendedFacts ==
    ASSUME NEW C, IsForest(C), NEW path \in Seq(Labels), NEW j \in 0 .. Len(path) - 1,
           j = 0 \/ InnerOf(Cut(path, j)) \in C
    PROVE  ExtendedTo(C, path, j)
  <1>1. j \in 0 .. Len(path) /\ j < Len(path)
    OBVIOUS
  <1>2. Cut(path, j + 1) = Named(Cut(path, j), path[j + 1]) /\ Cut(path, 0) = <<>>
    BY <1>1, CutFacts
  <1>3. Cut(path, j) = <<>> \/ InnerOf(Cut(path, j)) \in C
    BY <1>2
  <1>4. Opened(C, Cut(path, j)) = C
    BY <1>3, OpenStays
  <1> QED
    BY <1>2, <1>4 DEF ExtendedTo, Extended, Has, Leaf

\* A node where a key ends with its terminal is the end of that key.
EndsHere(m, D, k, x) == k \in DOMAIN m /\ D[k] = Len(k) + 1 /\ x = <<Ended(k), FALSE, m[k]>>

\* A node with the name of a key's terminal is that key's end.
LEMMA EndHere ==
    ASSUME NEW C, IsForest(C), NEW t, NEW m, NEW D, NEW A, NEW W, StoredAs(C, t, m, D, A, W),
           NEW k, IsKey(k), NEW x \in C, x[1] = Ended(k)
    PROVE  EndsHere(m, D, k, x)
  <1>1. /\ Ended(k) \in Seq(Labels) /\ Len(Ended(k)) = Len(k) + 1 /\ Len(k) \in Nat
        /\ Ended(k)[Len(k) + 1] = 0 /\ k \in Seq(Labels) /\ Cut(Ended(k), Len(k)) = k
    BY EndedFacts
  <1>2. ~ x[2]
    <2>1. ASSUME x[2] PROVE FALSE
      <3>1. x = InnerOf(Ended(k))
        BY <2>1 DEF IsForest
      <3>2. Ended(k) = Named(k, 0)
        BY DEF Ended, Named
      <3>3. 0 \in Labels
        BY BlockAssumption DEF Labels
      <3>4. InnerOf(Named(k, 0)) \in C
        BY <3>1, <3>2
      <3> QED
        BY <3>3, <3>4, <1>1 DEF IsForest
    <2> QED
      BY <2>1
  <1>3. PICK l \in DOMAIN m : x = EndOf(l, m[l], D[l], A[l])
    BY <1>2 DEF StoredAs, Ends
  <1>4. KeyEnd(C, m, D, A, l, x)
    BY <1>3, EndFacts
  <1>5. /\ IsKey(l) /\ Ended(l) \in Seq(Labels) /\ Len(Ended(l)) = Len(l) + 1 /\ Len(l) \in Nat
        /\ D[l] \in 1 .. Len(l) + 1 /\ Cut(Ended(l), D[l]) = Ended(k) /\ Len(Cut(Ended(l), D[l])) = D[l]
    BY <1>4 DEF KeyEnd
  <1>6. D[l] = Len(k) + 1
    BY <1>1, <1>5
  <1>7. Ended(l)[D[l]] = 0
    <2>1. D[l] \in 0 .. Len(Ended(l)) /\ D[l] \in 1 .. D[l]
      BY <1>5
    <2>2. Cut(Ended(l), D[l])[D[l]] = Ended(l)[D[l]]
      BY <2>1, <1>5, CutFacts
    <2> QED
      BY <2>2, <1>1, <1>5, <1>6
  <1>8. D[l] = Len(l) + 1
    <2>1. \A i \in 1 .. Len(l) : Ended(l)[i] # 0
      BY <1>5, EndedFacts
    <2> QED
      BY <2>1, <1>5, <1>7
  <1>9. Ended(l) = Ended(k)
    <2>1. Len(Ended(l)) \in 0 .. Len(Ended(l)) /\ D[l] = Len(Ended(l))
      BY <1>5, <1>8
    <2>2. Cut(Ended(l), Len(Ended(l))) = Ended(l)
      BY <2>1, <1>5, CutFacts
    <2> QED
      BY <2>1, <2>2, <1>5
  <1>10. l = k
    BY <1>5, <1>9, EndsApart
  <1> QED
    BY <1>3, <1>5, <1>8, <1>10 DEF EndsHere, EndOf

\* The key k has its end after d of its labels, at a in the tail if there.
SetAt(F, w, k, d) == [l \in DOMAIN w |-> IF l = k THEN d ELSE F[l]]
BornAs(C, E, m, w, D, A, k, d, a) ==
    /\ Ends(E, w, SetAt(D, w, k, d), SetAt(A, w, k, a)) /\ NoBare(E) /\ IsMap(w)
    /\ k \notin DOMAIN m /\ DOMAIN w = DOMAIN m \cup {k} /\ w[k] = 0
    /\ \A l \in DOMAIN m : l # k /\ w[l] = m[l]

\* A key gets an end of its own.
LEMMA NewEnd ==
    ASSUME NEW C, IsForest(C), NEW t, NEW m, NEW D, NEW A, NEW W, StoredAs(C, t, m, D, A, W),
           NEW k, IsKey(k), NEW path, path = Ended(k), NEW j \in 0 .. Len(k), CanBear(C, path, j),
           NEW w, WithAt(m, w, k, ValueOf(m, k)), NEW a,
           NEW E, E = C \cup {EndOf(k, 0, j + 1, a)}
    PROVE  BornAs(C, E, m, w, D, A, k, j + 1, a)
  <1>1. k \notin DOMAIN m
    BY FreshKey
  <1>2. /\ DOMAIN w = DOMAIN m \cup {k} /\ w[k] = 0
        /\ \A l \in DOMAIN m : l # k /\ w[l] = m[l]
    BY <1>1 DEF WithAt, ValueOf
  <1> DEFINE D2 == SetAt(D, w, k, j + 1)
             A2 == SetAt(A, w, k, a)
             new(l) == EndOf(l, w[l], D2[l], A2[l])
             end(l) == EndOf(l, m[l], D[l], A[l])
             z == EndOf(k, 0, j + 1, a)
  <1>3. new(k) = z /\ \A l \in DOMAIN m : new(l) = end(l)
    BY <1>2 DEF SetAt
  <1>4. /\ \A x \in C : ~ x[2] => \E l \in DOMAIN m : x = end(l)
        /\ \A l \in DOMAIN m : end(l) \in C
    BY DEF StoredAs, Ends
  <1>5. z[2] = FALSE
    BY DEF EndOf
  <1> HIDE DEF new, end, z
  <1>6. Ends(E, w, D2, A2)
    <2>1. E = C \cup {z}
      BY DEF z
    <2>2. \A x \in E : ~ x[2] => \E l \in DOMAIN w : x = new(l)
      BY <2>1, <1>2, <1>3, <1>4
    <2>3. \A l \in DOMAIN w : new(l) \in E
      BY <2>1, <1>2, <1>3, <1>4
    <2> QED
      BY <2>2, <2>3 DEF Ends, new
  <1>7. NoBare(E)
    <2>1. NoBare(C)
      BY DEF StoredAs
    <2>2. E = C \cup {z}
      BY DEF z
    <2> QED
      BY <2>1, <2>2, <1>5 DEF NoBare, Has
  <1>8. IsMap(w)
    <2>1. IsMap(m) /\ k \in Seq(Labels \ {0})
      BY DEF StoredAs, IsKey
    <2> QED
      BY <2>1, <1>2 DEF IsMap
  <1> QED
    BY <1>1, <1>2, <1>6, <1>7, <1>8 DEF BornAs

-----------------------------------------------------------------------------
(* A key ends at an inner node.                                            *)

\* The terminal of k, which is made if it does not exist.
LEMMA TerminalReady ==
    ASSUME NEW R, Spare("chain", R), NEW s, NEW C, NEW m, NEW D, NEW A, NEW W, NEW k, IsKey(k),
           Stands(R, s, C, k), StoredAs(C, s.t, m, D, A, W), InnerOf(k) \in C, s.t.nblk < MaxBlocks,
           NEW f, f = Follow(s.t, s.at, 0), NEW w, WithAt(m, w, k, ValueOf(m, k))
    PROVE  Ready(R, f.t, w, k, "node", f.to) /\ f.t.nblk \in {s.t.nblk, s.t.nblk + 1}
  <1> DEFINE path == Ended(k)
             t == f.t
             e == f.to
             n == Len(k)
  <1>1. /\ path \in Seq(Labels) /\ Len(path) = n + 1 /\ n \in Nat /\ n >= 1 /\ path[n + 1] = 0
        /\ k \in Seq(Labels) /\ Cut(path, n) = k /\ k[n] # 0 /\ path = Named(k, 0)
    <2>1. n \in 1 .. n
      BY EndedFacts
    <2> QED
      BY <2>1, EndedFacts DEF Ended, Named
  <1>2. 0 \in Labels
    BY BlockAssumption DEF Labels
  <1>3. CanGo(R, s, k, 0)
    BY <1>1, <1>2 DEF CanGo, IsKey
  <1>4. Went(R, s, C, k, 0, f)
    BY <1>3, FollowStands
  <1>5. IsForest(C)
    <2>1. PICK V, P, L, O : StandsAt(R, s, C, k, V, P, L, O)
      BY DEF Stands
    <2> QED
      BY <2>1, ContentForest DEF StandsAt
  <1> DEFINE E == Extended(C, k, 0)
  <1>6. /\ Has(C, path) => E = C
        /\ ~ Has(C, path) => E = C \cup {<<path, FALSE, 0>>}
    <2>1. n \in 0 .. Len(path) - 1 /\ Cut(path, n + 1) = path
      <3>1. n \in 0 .. Len(path) - 1 /\ Len(path) \in 0 .. Len(path)
        BY <1>1
      <3> QED
        BY <3>1, <1>1, CutFacts
    <2> HIDE DEF path, n
    <2>2. n = 0 \/ InnerOf(Cut(path, n)) \in C
      BY <1>1
    <2>3. ExtendedTo(C, path, n)
      BY <2>1, <2>2, <1>1, <1>5, ExtendedFacts
    <2> QED
      BY <2>1, <2>3, <1>1 DEF ExtendedTo
  <1>7. PICK V, P, L, O : StandsAt(R, [t |-> t, at |-> e], E, path, V, P, L, O)
    BY <1>1, <1>4 DEF Went, Stands
  <1> HIDE DEF t, e, E
  <1>8. TrieAs(R, t, E, V, P, L, O) /\ e \in V /\ P[e] = path
    <2>1. /\ Sound(R, t) /\ V = Taken(t) /\ IsTree(t, V, P, L, O, {}, {}) /\ e \in V \cup {0}
          /\ P[e] = path /\ Content(t, V, P, L) = E
      BY <1>7 DEF StandsAt
    <2>2. P[0] = <<>> /\ path # <<>>
      BY <2>1, <1>1 DEF IsTree, GhostTyped
    <2> QED
      BY <2>1, <2>2 DEF TrieAs
  <1>9. StoredAs(C, t, m, D, A, W)
    BY <1>4, TailSame DEF Went, t
  <1>10. CASE Has(C, path)
    <2>1. PICK x \in C : x[1] = path
      BY <1>10 DEF Has
    <2>2. EndsHere(m, D, k, x)
      BY <2>1, <1>5, <1>9, EndHere
    <2>3. DOMAIN w = DOMAIN m /\ \A l \in DOMAIN m : w[l] = m[l]
      BY <2>2 DEF EndsHere, WithAt, ValueOf
    <2>4. StoredAs(C, t, w, D, A, W)
      BY <2>3, <1>9, MapSame
    <2>5. ValueAs(w, k, "node", e, V, P, D, A)
      BY <2>2, <2>3, <1>8 DEF EndsHere, ValueAs
    <2>6. ReadyAs(R, t, w, k, "node", e, C, V, P, L, O, D, A, W)
      BY <2>4, <2>5, <1>6, <1>8, <1>10 DEF ReadyAs
    <2>7. Ready(R, t, w, k, "node", e)
      BY <2>6 DEF Ready
    <2> QED
      BY <2>7, <1>4 DEF Went, t, e
  <1>11. CASE ~ Has(C, path)
    <2> DEFINE D2 == SetAt(D, w, k, n + 1)
               A2 == SetAt(A, w, k, 0)
    <2>1. CanBear(C, path, n)
      <3>1. Cut(path, n + 1) = path
        <4>1. Len(path) \in 0 .. Len(path)
          BY <1>1
        <4> QED
          BY <4>1, <1>1, CutFacts
      <3> QED
        BY <3>1, <1>1, <1>11 DEF CanBear
    <2>2. E = C \cup {EndOf(k, 0, n + 1, 0)}
      <3>1. Cut(path, n + 1) = path
        <4>1. Len(path) \in 0 .. Len(path)
          BY <1>1
        <4> QED
          BY <4>1, <1>1, CutFacts
      <3>2. EndOf(k, 0, n + 1, 0) = <<path, FALSE, 0>>
        BY <3>1 DEF EndOf
      <3> QED
        BY <3>2, <1>6, <1>11
    <2>3. n \in 0 .. Len(k) /\ path = Ended(k)
      BY <1>1
    <2> HIDE DEF path, n
    <2>4. BornAs(C, E, m, w, D, A, k, n + 1, 0)
      BY <2>1, <2>2, <2>3, <1>5, <1>9, NewEnd
    <2>5. /\ DOMAIN w = DOMAIN m \cup {k} /\ \A l \in DOMAIN m : l # k /\ w[l] = m[l]
          /\ Ends(E, w, D2, A2) /\ NoBare(E) /\ IsMap(w)
      BY <2>4 DEF BornAs
    <2>6. D2[k] = n + 1 /\ \A l \in DOMAIN m : D2[l] = D[l] /\ A2[l] = A[l]
      BY <2>5 DEF SetAt
    <2> HIDE DEF D2, A2
    <2>7. ASSUME NEW l \in DOMAIN w PROVE KeyAt(t, W, l, w[l], D2[l], A2[l])
      <3>1. CASE l = k
        <4>1. D2[l] = Len(l) + 1 /\ Len(l) \in Nat
          BY <3>1, <2>6, <1>1 DEF n
        <4>2. D2[l] \in 1 .. Len(l) + 1 /\ ~ (D2[l] <= Len(l))
          BY <4>1
        <4> QED
          BY <4>2 DEF KeyAt
      <3>2. CASE l # k
        <4>1. l \in DOMAIN m
          BY <3>2, <2>5
        <4>2. KeyAt(t, W, l, m[l], D[l], A[l])
          BY <4>1, <1>9 DEF StoredAs, TailHolds
        <4> QED
          BY <4>1, <4>2, <2>5, <2>6
      <3> QED
        BY <3>1, <3>2
    <2>8. StoredAs(E, t, w, D2, A2, W)
      BY <2>5, <2>7, <1>9 DEF StoredAs, TailHolds
    <2>9. ValueAs(w, k, "node", e, V, P, D2, A2)
      BY <2>5, <2>6, <1>8 DEF ValueAs, n, path
    <2>10. ReadyAs(R, t, w, k, "node", e, E, V, P, L, O, D2, A2, W)
      BY <2>8, <2>9, <1>8 DEF ReadyAs
    <2>11. Ready(R, t, w, k, "node", e)
      BY <2>10 DEF Ready
    <2> QED
      BY <2>11, <1>4 DEF Went, t, e
  <1> QED
    BY <1>10, <1>11

-----------------------------------------------------------------------------
(* A key gets a suffix.                                                    *)

\* The cells at a are given to k, and to it alone.
Gave(W, k, d, a) == [c \in Cells |-> IF c \in Extent(k, d, a) THEN <<k, 0>> ELSE W[c]]

\* u is t with that suffix, its value 0, at a.
GivenAs(t, u, m, D, A, k, d, a) ==
    /\ TailTyped(u) /\ u.length >= t.length
    /\ d \in 1 .. Len(k) /\ a \in Nat /\ a >= HeaderCells /\ a + (Len(k) - d) + 1 < u.length
    /\ Spelled(u, k, 0, d, a)
    /\ \A c \in Cells : c \notin Extent(k, d, a) => u.tail[c] = t.tail[c]
    /\ \A l \in DOMAIN m : D[l] <= Len(l) => Extent(l, D[l], A[l]) \cap Extent(k, d, a) = {}
    /\ \A i \in DOMAIN u.tail0 : /\ i \in DOMAIN t.tail0 /\ u.tail0[i] = t.tail0[i]
                                 /\ t.tail0[i] \notin Extent(k, d, a)
                                 /\ t.tail0[i] + 1 \notin Extent(k, d, a)

\* The tail then holds the map with k.
LEMMA GivenTail ==
    ASSUME NEW C, NEW t, NEW m, NEW D, NEW A, NEW W, StoredAs(C, t, m, D, A, W),
           NEW k, IsKey(k), NEW d, NEW a, NEW u, GivenAs(t, u, m, D, A, k, d, a),
           NEW w, DOMAIN w = DOMAIN m \cup {k}, w[k] = 0, \A l \in DOMAIN m : l # k /\ w[l] = m[l]
    PROVE  TailHolds(u, w, SetAt(D, w, k, d), SetAt(A, w, k, a), Gave(W, k, d, a))
  <1> DEFINE D2 == SetAt(D, w, k, d)
             A2 == SetAt(A, w, k, a)
             W2 == Gave(W, k, d, a)
             n == Len(k)
  <1>1. /\ D2[k] = d /\ A2[k] = a /\ \A l \in DOMAIN m : D2[l] = D[l] /\ A2[l] = A[l]
    BY DEF SetAt
  <1>2. /\ TailTyped(u) /\ u.length >= t.length /\ d \in 1 .. n /\ a \in Nat /\ a >= HeaderCells
        /\ a + (n - d) + 1 < u.length /\ Spelled(u, k, 0, d, a)
        /\ \A c \in Cells : c \notin Extent(k, d, a) => u.tail[c] = t.tail[c]
    BY DEF GivenAs
  <1>3. \A c \in Cells : W2[c] = IF c \in Extent(k, d, a) THEN <<k, 0>> ELSE W[c]
    BY DEF Gave
  <1>4. /\ t.length \in Nat /\ u.length \in Nat /\ MaxTail \in Nat /\ t.length <= MaxTail
        /\ u.length <= MaxTail
    <2>1. t.length \in 2 .. MaxTail /\ u.length \in 2 .. MaxTail
      BY <1>2 DEF StoredAs, TailHolds, TailTyped, HeaderCells
    <2> QED
      BY <2>1, TailAssumption
  <1> HIDE DEF D2, A2, W2
  <1>5. ASSUME NEW l \in DOMAIN w PROVE KeyAt(u, W2, l, w[l], D2[l], A2[l])
    <2>1. CASE l = k
      <3>1. n \in Nat /\ d \in 1 .. n + 1
        BY <1>2, EndedFacts
      <3>2. \A c \in Extent(k, d, a) : c \in Cells
        BY <1>2, <1>4, <3>1 DEF Extent, Cells
      <3>3. KeyAt(u, W2, k, 0, d, a)
        BY <1>2, <1>3, <3>1, <3>2 DEF KeyAt
      <3> QED
        BY <2>1, <3>3, <1>1
    <2>2. CASE l # k
      <3>1. l \in DOMAIN m /\ w[l] = m[l] /\ D2[l] = D[l] /\ A2[l] = A[l]
        BY <2>2, <1>1
      <3>2. KeyAt(t, W, l, m[l], D[l], A[l]) /\ IsKey(l)
        BY <3>1 DEF StoredAs, TailHolds, IsMap
      <3>3. Len(l) \in Nat
        BY <3>2, EndedFacts
      <3>4. D[l] <= Len(l) => \A c \in Extent(l, D[l], A[l]) : u.tail[c] = t.tail[c] /\ W2[c] = W[c]
        <4>1. ASSUME D[l] <= Len(l), NEW c \in Extent(l, D[l], A[l])
              PROVE u.tail[c] = t.tail[c] /\ W2[c] = W[c]
          <5>1. c \in Cells
            BY <4>1, <3>1, CellsApart
          <5>2. c \notin Extent(k, d, a)
            BY <4>1, <3>1 DEF GivenAs
          <5> QED
            BY <5>1, <5>2, <1>2, <1>3
        <4> QED
          BY <4>1
      <3>5. t.length <= u.length
        BY <1>2, <1>4
      <3>6. KeyAt(u, W2, l, m[l], D[l], A[l])
        BY <3>2, <3>3, <3>4, <3>5, <1>4, KeptKey
      <3> QED
        BY <3>6, <3>1
    <2> QED
      BY <2>1, <2>2
  <1>6. ASSUME NEW i \in DOMAIN u.tail0 PROVE PlaceAt(u, W2, i)
    <2>1. /\ i \in DOMAIN t.tail0 /\ u.tail0[i] = t.tail0[i]
          /\ t.tail0[i] \notin Extent(k, d, a) /\ t.tail0[i] + 1 \notin Extent(k, d, a)
      BY DEF GivenAs
    <2>2. PlaceAt(t, W, i)
      BY <2>1 DEF StoredAs, TailHolds
    <2>3. /\ t.tail0[i] \in Nat /\ t.tail0[i] >= HeaderCells /\ t.tail0[i] + 1 < t.length
          /\ W[t.tail0[i]] = << <<>>, i>> /\ W[t.tail0[i] + 1] = << <<>>, i>>
      BY <2>2 DEF PlaceAt
    <2>4. t.tail0[i] \in Cells /\ t.tail0[i] + 1 \in Cells /\ t.tail0[i] + 1 < u.length
      BY <2>3, <1>2, <1>4 DEF Cells
    <2>5. W2[t.tail0[i]] = W[t.tail0[i]] /\ W2[t.tail0[i] + 1] = W[t.tail0[i] + 1]
      BY <2>1, <2>4, <1>3
    <2> QED
      BY <2>1, <2>3, <2>4, <2>5 DEF PlaceAt
  <1> QED
    BY <1>2, <1>5, <1>6 DEF TailHolds, D2, A2, W2

\* s stands at a leaf without a suffix, on the path of k.
AtLeaf(R, s, C, t, k, path, j) ==
    /\ IsKey(k) /\ path = Ended(k) /\ j \in 0 .. Len(k) - 1 /\ IsForest(C) /\ CanBear(C, path, j)
    /\ Stands(R, s, C \cup {<<Cut(path, j + 1), FALSE, -1>>}, Cut(path, j + 1))

\* The node of s, with some names for the nodes.
LeafNode(R, s, C, p, V, P, L, O) ==
    /\ TrieAs(R, s.t, C \cup {<<p, FALSE, -1>>}, V, P, L, O)
    /\ s.at \in V /\ s.at \in Slots /\ P[s.at] = p /\ ~ InnerNode(s.t, L, s.at)
    /\ s.t.array[s.at].base = -1
    /\ s.t.array \in [Slots -> [base : Int, check : Int]]

\* There are such names.
LEMMA LeafNodeIs ==
    ASSUME NEW R, NEW s, NEW C, NEW k, NEW path, NEW j, AtLeaf(R, s, C, s.t, k, path, j),
           NEW p, p = Cut(path, j + 1)
    PROVE  \E V, P, L, O : LeafNode(R, s, C, p, V, P, L, O)
  <1> DEFINE E == C \cup {<<p, FALSE, -1>>}
             t == s.t
             e == s.at
  <1>1. ~ Has(C, p) /\ Stands(R, s, E, p) /\ p # <<>>
    <2>1. ~ Has(C, p) /\ Stands(R, s, E, p)
      BY DEF AtLeaf, CanBear
    <2>2. path \in Seq(Labels) /\ j + 1 \in 0 .. Len(path) /\ j + 1 > 0
      BY EndedFacts DEF AtLeaf
    <2>3. Len(p) = j + 1
      BY <2>2, CutFacts
    <2> QED
      BY <2>1, <2>2, <2>3
  <1>2. PICK V, P, L, O : StandsAt(R, s, E, p, V, P, L, O)
    BY <1>1 DEF Stands
  <1>3. /\ Sound(R, t) /\ V = Taken(t) /\ IsTree(t, V, P, L, O, {}, {}) /\ e \in V \cup {0}
        /\ P[e] = p /\ Content(t, V, P, L) = E
    BY <1>2 DEF StandsAt
  <1> HIDE DEF t, e, E
  <1>4. TrieAs(R, t, E, V, P, L, O) /\ e \in V /\ e \in Slots /\ t.array \in [Slots -> [base : Int, check : Int]]
    <2>1. P[0] = <<>> /\ V \subseteq Slots /\ t.array \in [Slots -> [base : Int, check : Int]]
      BY <1>3 DEF IsTree, GhostTyped, TrieTyped
    <2> QED
      BY <2>1, <1>1, <1>3 DEF TrieAs
  <1>5. Holding(t, P, L, e) \in E /\ Holding(t, P, L, e)[1] = p
    BY <1>3, <1>4, NodesOf
  <1>6. Holding(t, P, L, e) = <<p, FALSE, -1>>
    BY <1>1, <1>5 DEF E, Has
  <1>7. ~ InnerNode(t, L, e) /\ t.array[e].base = -1
    BY <1>6 DEF Holding, InnerOf
  <1>8. LeafNode(R, s, C, p, V, P, L, O)
    BY <1>3, <1>4, <1>7 DEF LeafNode, t, e, E
  <1> QED
    BY <1>8

\* The leaf has that suffix: the key is there, with the value 0.
LEMMA GivenReady ==
    ASSUME NEW R, NEW s, NEW C, NEW m, NEW D, NEW A, NEW W, NEW k, NEW path, NEW j,
           AtLeaf(R, s, C, s.t, k, path, j), StoredAs(C, s.t, m, D, A, W),
           NEW a, NEW u, GivenAs(s.t, u, m, D, A, k, j + 1, a), BasedAs(s.t, u, s.at, - a),
           NEW w, WithAt(m, w, k, ValueOf(m, k))
    PROVE  Ready(R, u, w, k, "tail", a + (Len(k) - (j + 1)) + 1)
  <1> DEFINE p == Cut(path, j + 1)
             n == Len(k)
             E0 == C \cup {<<p, FALSE, -1>>}
             E == C \cup {EndOf(k, 0, j + 1, a)}
             t == s.t
             e == s.at
  <1>1. /\ IsKey(k) /\ path = Ended(k) /\ j \in 0 .. n - 1 /\ IsForest(C) /\ CanBear(C, path, j)
        /\ n \in Nat /\ j + 1 # n + 1 /\ a \in Nat /\ a >= 2 /\ ~ Has(C, p) /\ j \in 0 .. n
    <2>1. n \in Nat
      BY EndedFacts DEF AtLeaf
    <2>2. j \in 0 .. n - 1
      BY DEF AtLeaf
    <2> QED
      BY <2>1, <2>2 DEF AtLeaf, CanBear, GivenAs, HeaderCells
  <1>2. PICK V, P, L, O : LeafNode(R, s, C, p, V, P, L, O)
    BY LeafNodeIs
  <1>3. TrieAs(R, t, E0, V, P, L, O) /\ e \in V /\ P[e] = p /\ ~ InnerNode(t, L, e)
    BY <1>2 DEF LeafNode
  <1>4. - a \in Int /\ - a < 0 /\ BasedAs(t, u, e, - a)
    BY <1>1
  <1> HIDE DEF t, e, E0
  <1>5. TrieAs(R, u, Renewed(E0, p, - a), V, P, L, O)
    BY <1>3, <1>4, RefillOne
  <1>6. Renewed(E0, p, - a) = E
    <2>1. EndOf(k, 0, j + 1, a) = <<p, FALSE, - a>>
      BY <1>1 DEF EndOf
    <2>2. \A x \in C : x[1] # p
      BY <1>1 DEF Has
    <2> DEFINE y == <<p, FALSE, -1>>
               z == <<p, FALSE, - a>>
    <2>3. y[1] = p
      OBVIOUS
    <2>4. E0 = C \cup {y} /\ E = C \cup {z}
      BY <2>1 DEF E0
    <2>5. Renewed(E0, p, - a) = {x \in E0 : x[1] # p} \cup {z}
      BY DEF Renewed
    <2> HIDE DEF p, y, z, E
    <2> QED
      BY <2>2, <2>3, <2>4, <2>5
  <1> DEFINE d == j + 1
             D2 == SetAt(D, w, k, d)
             A2 == SetAt(A, w, k, a)
             W2 == Gave(W, k, d, a)
  <1>7. BornAs(C, E, m, w, D, A, k, d, a)
    <2>1. StoredAs(C, t, m, D, A, W)
      BY DEF t
    <2> QED
      BY <2>1, <1>1, NewEnd
  <1>8. /\ Ends(E, w, D2, A2) /\ NoBare(E) /\ IsMap(w) /\ DOMAIN w = DOMAIN m \cup {k} /\ w[k] = 0
        /\ \A l \in DOMAIN m : l # k /\ w[l] = m[l]
    BY <1>7 DEF BornAs
  <1>9. TailHolds(u, w, D2, A2, W2)
    <2>1. StoredAs(C, t, m, D, A, W) /\ GivenAs(t, u, m, D, A, k, d, a)
      BY DEF t
    <2> HIDE DEF d
    <2> QED
      BY <2>1, <1>1, <1>8, GivenTail
  <1>10. StoredAs(E, u, w, D2, A2, W2)
    BY <1>8, <1>9 DEF StoredAs
  <1>11. ValueAs(w, k, "tail", a + (n - d) + 1, V, P, D2, A2)
    <2>1. D2[k] = d /\ A2[k] = a /\ d <= Len(k) /\ k \in DOMAIN w
      BY <1>1, <1>8 DEF SetAt
    <2> HIDE DEF D2, A2, d
    <2> QED
      BY <2>1 DEF ValueAs
  <1>12. ReadyAs(R, u, w, k, "tail", a + (n - d) + 1, E, V, P, L, O, D2, A2, W2)
    BY <1>5, <1>6, <1>10, <1>11 DEF ReadyAs
  <1> QED
    BY <1>12 DEF Ready

\* The key is there, and update returns where its value is.
LandsAt(R, w, k, val, r, N) ==
    \E u, at : /\ u.nblk <= N
               /\ \/ r = AtNode(u, at, val) /\ Ready(R, u, w, k, "node", at)
                  \/ r = AtCell(u, at, val) /\ Ready(R, u, w, k, "tail", at)

\* The tail grows.
GrownAs(t, u, e, s) ==
    /\ BasedAs(t, u, e, - t.length) /\ u.length = t.length + Len(s) + 1 + ValueCells
    /\ u.tail0 = t.tail0
    /\ u.tail = [i \in Cells |-> IF i \in t.length .. t.length + Len(s) - 1
                                 THEN s[i - t.length + 1] ELSE t.tail[i]]

\* That is what GrowTail writes.
LEMMA GrowForm ==
    ASSUME NEW t, {"array", "tail", "length", "tail0"} \subseteq DOMAIN t,
           t.array \in [Slots -> [base : Int, check : Int]], t.length \in Nat, NEW e \in Slots, NEW s
    PROVE  GrownAs(t, GrowTail(t, e, s), e, s)
  <1> DEFINE X == [t.array EXCEPT ![e].base = - t.length]
             Y == t.length + Len(s) + 1 + ValueCells
             Z == [i \in Cells |-> IF i \in t.length .. t.length + Len(s) - 1
                                   THEN s[i - t.length + 1] ELSE t.tail[i]]
             u == [t EXCEPT !.array = X, !.length = Y, !.tail = Z]
  <1>1. GrowTail(t, e, s) = u
    BY DEF GrowTail
  <1>2. X = [t.array EXCEPT ![e] = Node(- t.length, t.array[e].check)]
    BY DEF Node
  <1> HIDE DEF X, Y, Z
  <1>3. /\ DOMAIN u = DOMAIN t /\ u.array = X /\ u.length = Y /\ u.tail = Z /\ u.tail0 = t.tail0
        /\ \A f \in DOMAIN t \ {"array", "tail", "length", "tail0"} : u[f] = t[f]
    OBVIOUS
  <1> HIDE DEF u
  <1> QED
    BY <1>1, <1>2, <1>3 DEF GrownAs, BasedAs, Y, Z

\* A place is used.
UsedAs(t, u, e, old) ==
    /\ BasedAs(t, u, e, - old) /\ u.length = t.length
    /\ u.tail0 = SubSeq(t.tail0, 1, Len(t.tail0) - 1)
    /\ u.tail = [t.tail EXCEPT ![old] = 0, ![old + 1] = 0]

\* That is what UsePlace writes, once the value is 0.
LEMMA UseForm ==
    ASSUME NEW t, {"array", "tail", "length", "tail0"} \subseteq DOMAIN t,
           t.array \in [Slots -> [base : Int, check : Int]], NEW e \in Slots, NEW old
    PROVE  UsedAs(t, [UsePlace(t, e, old) EXCEPT !.tail[old + 1] = 0], e, old)
  <1> DEFINE X == [t.array EXCEPT ![e].base = - old]
             Y == SubSeq(t.tail0, 1, Len(t.tail0) - 1)
             Z == [t.tail EXCEPT ![old] = 0]
             Z2 == [Z EXCEPT ![old + 1] = 0]
             v == [t EXCEPT !.array = X, !.tail = Z, !.tail0 = Y]
             u == [v EXCEPT !.tail = Z2]
  <1>1. UsePlace(t, e, old) = v
    BY DEF UsePlace
  <1>2. X = [t.array EXCEPT ![e] = Node(- old, t.array[e].check)]
    BY DEF Node
  <1>3. Z2 = [t.tail EXCEPT ![old] = 0, ![old + 1] = 0]
    OBVIOUS
  <1> HIDE DEF X, Y, Z
  <1>4. /\ DOMAIN v = DOMAIN t /\ v.array = X /\ v.length = t.length /\ v.tail = Z /\ v.tail0 = Y
        /\ \A f \in DOMAIN t \ {"array", "tail", "length", "tail0"} : v[f] = t[f]
    OBVIOUS
  <1> HIDE DEF v
  <1>5. [v EXCEPT !.tail[old + 1] = 0] = u
    BY <1>4
  <1> HIDE DEF Z2
  <1>6. /\ DOMAIN u = DOMAIN v /\ u.array = v.array /\ u.length = v.length /\ u.tail = Z2 /\ u.tail0 = v.tail0
        /\ \A f \in DOMAIN t \ {"array", "tail", "length", "tail0"} : u[f] = v[f]
    BY <1>4
  <1> HIDE DEF u
  <1> QED
    BY <1>1, <1>2, <1>3, <1>4, <1>5, <1>6 DEF UsedAs, BasedAs, Y

\* The rest of a key.
RestOf(k, d, r) ==
    /\ r \in Seq(Labels \ {0}) /\ Len(r) = Len(k) - d /\ \A i \in 1 .. Len(k) - d : r[i] = k[d + i]
    /\ r = <<>> <=> d = Len(k)

\* That is what Rest cuts off.
LEMMA RestFacts ==
    ASSUME NEW k, IsKey(k), NEW d \in 0 .. Len(k), NEW r, r = Rest(k, d)
    PROVE  RestOf(k, d, r)
  <1>1. k \in Seq(Labels \ {0}) /\ Len(k) \in Nat
    BY DEF IsKey
  <1>2. r = SubSeq(k, d + 1, Len(k)) /\ d + 1 \in 1 .. Len(k) + 1
    BY <1>1 DEF Rest
  <1>3. Len(r) = Len(k) - d /\ \A i \in 1 .. Len(k) - d : r[i] = k[d + i]
    BY <1>1, <1>2
  <1>4. r \in Seq(Labels \ {0})
    BY <1>1, <1>2
  <1> QED
    BY <1>1, <1>3, <1>4 DEF RestOf

\* The tail grows by the rest of the key.
LEMMA GrownGives ==
    ASSUME NEW C, NEW t, NEW m, NEW D, NEW A, NEW W, StoredAs(C, t, m, D, A, W),
           NEW k, IsKey(k), NEW d \in 1 .. Len(k), NEW s, s = Rest(k, d), NEW e,
           t.length + Len(k) - d + 2 <= MaxTail, NEW u, GrownAs(t, u, e, s)
    PROVE  GivenAs(t, u, m, D, A, k, d, t.length)
  <1> DEFINE a == t.length
             n == Len(k)
  <1>1. /\ TailTyped(t) /\ a \in Nat /\ a >= 2 /\ MaxTail \in Nat /\ n \in Nat /\ d \in 1 .. n
        /\ a <= MaxTail /\ a + n - d + 2 <= MaxTail
    <2>1. TailTyped(t) /\ a \in 2 .. MaxTail
      BY DEF StoredAs, TailHolds, TailTyped, HeaderCells
    <2>2. n \in Nat
      BY EndedFacts
    <2> QED
      BY <2>1, <2>2, TailAssumption
  <1>2. /\ s \in Seq(Labels \ {0}) /\ Len(s) = n - d /\ \A i \in 1 .. n - d : s[i] = k[d + i]
    <2>1. IsKey(k) /\ d \in 0 .. Len(k) /\ s = Rest(k, d)
      BY <1>1
    <2>2. RestOf(k, d, s)
      BY ONLY <2>1, RestFacts
    <2> QED
      BY <2>2 DEF RestOf
  <1>3. /\ u.length = a + (n - d) + 2 /\ u.tail0 = t.tail0
        /\ u.tail = [i \in Cells |-> IF i \in a .. a + (n - d) - 1 THEN s[i - a + 1] ELSE t.tail[i]]
        /\ DOMAIN u = DOMAIN t
    <2>1. /\ u.length = a + Len(s) + 1 + 1 /\ u.tail0 = t.tail0 /\ DOMAIN u = DOMAIN t
          /\ u.tail = [i \in Cells |-> IF i \in a .. a + Len(s) - 1 THEN s[i - a + 1] ELSE t.tail[i]]
      BY DEF GrownAs, BasedAs, ValueCells
    <2>2. Len(s) = n - d
      BY <1>2
    <2> HIDE DEF a, n
    <2>3. a + Len(s) + 1 + 1 = a + (n - d) + 2
      BY <2>2, <1>1
    <2> QED
      BY <2>1, <2>2, <2>3
  <1>4. t.tail \in [Cells -> Int] /\ \A c \in Cells : c >= a => t.tail[c] = 0
    BY <1>1 DEF TailTyped
  <1> HIDE DEF a, n
  <1>5. u.tail \in [Cells -> Int]
    <2>1. ASSUME NEW i \in a .. a + (n - d) - 1 PROVE s[i - a + 1] \in Int
      <3>1. i - a + 1 \in 1 .. Len(s)
        BY <1>1, <1>2
      <3>2. s[i - a + 1] \in Labels
        BY <3>1, <1>2
      <3> QED
        BY <3>2, BlockAssumption DEF Labels
    <2> QED
      BY <2>1, <1>3, <1>4
  <1>6. TailTyped(u)
    <2>1. u.length \in HeaderCells .. MaxTail
      BY <1>1, <1>3 DEF HeaderCells
    <2>2. ASSUME NEW c \in Cells, c >= u.length PROVE u.tail[c] = 0
      <3>1. c \notin a .. a + (n - d) - 1 /\ c >= a
        BY <2>2, <1>1, <1>3 DEF Cells
      <3> QED
        BY <3>1, <1>3, <1>4
    <2>3. {"tail", "length", "tail0"} \subseteq DOMAIN u /\ u.tail0 \in Seq(Nat)
      BY <1>1, <1>3 DEF TailTyped
    <2> QED
      BY <2>1, <2>2, <2>3, <1>5 DEF TailTyped
  <1>7. Spelled(u, k, 0, d, a)
    <2>1. ASSUME NEW j \in d + 1 .. n PROVE u.tail[a + (j - d - 1)] = k[j]
      <3> DEFINE i == a + (j - d - 1)
      <3>1. i \in Cells /\ i \in a .. a + (n - d) - 1 /\ i - a + 1 = j - d /\ j - d \in 1 .. n - d
        BY <1>1 DEF Cells
      <3>2. u.tail[i] = s[j - d]
        BY <3>1, <1>3
      <3>3. d + (j - d) = j
        BY <1>1
      <3> QED
        BY <3>1, <3>2, <3>3, <1>2
    <2>2. \A i \in {a + (n - d), a + (n - d) + 1} : i \in Cells /\ i >= a /\ i \notin a .. a + (n - d) - 1
      BY <1>1 DEF Cells
    <2>3. u.tail[a + (n - d)] = 0 /\ u.tail[a + (n - d) + 1] = 0
      BY <2>2, <1>3, <1>4
    <2> QED
      BY <2>1, <2>3 DEF Spelled, n
  <1>8. \A c \in Cells : c \notin Extent(k, d, a) => u.tail[c] = t.tail[c]
    <2>1. \A c \in Cells : c \in a .. a + (n - d) - 1 => c \in a .. a + (n - d) + 1
      BY <1>1 DEF Cells
    <2> QED
      BY <2>1, <1>3 DEF Extent, n
  <1>9. \A c \in Extent(k, d, a) : c >= a
    BY <1>1 DEF Extent, n
  <1>10. ASSUME NEW l \in DOMAIN m, D[l] <= Len(l), NEW c \in Extent(l, D[l], A[l]) PROVE c \notin Extent(k, d, a)
    <2>1. c \in Cells /\ c < a
      BY <1>10, CellsApart DEF a
    <2>2. ~ (c >= a)
      BY <2>1, <1>1 DEF Cells
    <2> QED
      BY <2>2, <1>9
  <1>11. ASSUME NEW i \in DOMAIN t.tail0
         PROVE t.tail0[i] \notin Extent(k, d, a) /\ t.tail0[i] + 1 \notin Extent(k, d, a)
    <2>1. t.tail0[i] \in Nat /\ t.tail0[i] + 1 < a
      BY DEF StoredAs, TailHolds, PlaceAt, a
    <2>2. ~ (t.tail0[i] >= a) /\ ~ (t.tail0[i] + 1 >= a)
      BY <2>1, <1>1
    <2> QED
      BY <2>2, <1>9
  <1>12. /\ u.length >= t.length /\ a >= HeaderCells /\ a + (Len(k) - d) + 1 < u.length
    BY <1>1, <1>3 DEF HeaderCells, a, n
  <1> QED
    BY <1>1, <1>3, <1>6, <1>7, <1>8, <1>10, <1>11, <1>12 DEF GivenAs, a, n

\* The whole key is behind, and a place for an empty suffix is used.
LEMMA UsedGives ==
    ASSUME NEW C, NEW t, NEW m, NEW D, NEW A, NEW W, StoredAs(C, t, m, D, A, W),
           NEW k, IsKey(k), NEW e, t.tail0 # <<>>, NEW old, old = t.tail0[Len(t.tail0)],
           NEW u, UsedAs(t, u, e, old)
    PROVE  GivenAs(t, u, m, D, A, k, Len(k), old)
  <1> DEFINE n == Len(k)
             q == Len(t.tail0)
  <1>1. /\ TailTyped(t) /\ t.length \in Nat /\ MaxTail \in Nat /\ n \in Nat /\ n >= 1
        /\ t.length <= MaxTail /\ t.tail0 \in Seq(Nat) /\ q \in DOMAIN t.tail0 /\ q \in Nat /\ q >= 1
        /\ t.length >= 2
    <2>1. TailTyped(t) /\ t.length \in 2 .. MaxTail /\ t.tail0 \in Seq(Nat)
      BY DEF StoredAs, TailHolds, TailTyped, HeaderCells
    <2>2. n \in Nat /\ n >= 1
      BY EndedFacts
    <2>3. q \in Nat /\ q >= 1 /\ q \in DOMAIN t.tail0
      BY <2>1
    <2> QED
      BY <2>1, <2>2, <2>3, TailAssumption
  <1>2. /\ old \in Nat /\ old >= 2 /\ old + 1 < t.length
        /\ W[old] = << <<>>, q>> /\ W[old + 1] = << <<>>, q>>
    BY <1>1 DEF StoredAs, TailHolds, PlaceAt, HeaderCells
  <1>3. /\ u.length = t.length /\ u.tail0 = SubSeq(t.tail0, 1, q - 1)
        /\ u.tail = [t.tail EXCEPT ![old] = 0, ![old + 1] = 0] /\ DOMAIN u = DOMAIN t
    BY DEF UsedAs, BasedAs
  <1>4. t.tail \in [Cells -> Int] /\ \A c \in Cells : c >= t.length => t.tail[c] = 0
    BY <1>1 DEF TailTyped
  <1>5. \A c : c \in Extent(k, n, old) <=> c \in {old, old + 1}
    BY <1>1, <1>2 DEF Extent
  <1>6. old \in Cells /\ old + 1 \in Cells
    BY <1>1, <1>2 DEF Cells
  <1>7. /\ u.tail0 \in Seq(Nat)
        /\ \A i \in DOMAIN u.tail0 : i \in DOMAIN t.tail0 /\ u.tail0[i] = t.tail0[i] /\ i # q
    <2> DEFINE z == t.tail0
    <2>1. z \in Seq(Nat) /\ q = Len(z) /\ q \in Nat /\ u.tail0 = SubSeq(z, 1, q - 1)
      BY <1>1, <1>3
    <2> HIDE DEF z, q
    <2>2. /\ SubSeq(z, 1, q - 1) \in Seq(Nat) /\ DOMAIN z = 1 .. q
          /\ DOMAIN SubSeq(z, 1, q - 1) = 1 .. q - 1
          /\ \A i \in 1 .. q - 1 : SubSeq(z, 1, q - 1)[i] = z[i]
      BY <2>1
    <2>3. \A i \in 1 .. q - 1 : i \in 1 .. q /\ i # q
      BY <2>1
    <2> QED
      BY <2>1, <2>2, <2>3 DEF z
  <1> HIDE DEF n, q
  <1>8. /\ u.tail \in [Cells -> Int] /\ u.tail[old] = 0 /\ u.tail[old + 1] = 0
        /\ \A c \in Cells : c # old /\ c # old + 1 => u.tail[c] = t.tail[c]
    BY <1>2, <1>3, <1>4, <1>6
  <1>9. TailTyped(u)
    <2>1. ASSUME NEW c \in Cells, c >= u.length PROVE u.tail[c] = 0
      <3> DEFINE h == t.length
      <3>1. c \in Nat /\ h \in Nat /\ c >= h /\ old + 1 < h /\ old \in Nat
        BY <2>1, <1>1, <1>2, <1>3 DEF Cells
      <3> HIDE DEF h
      <3>2. c # old /\ c # old + 1
        BY <3>1
      <3> QED
        BY <3>1, <3>2, <1>4, <1>8 DEF h
    <2>2. {"tail", "length", "tail0"} \subseteq DOMAIN u /\ u.length \in HeaderCells .. MaxTail
      BY <1>1, <1>3 DEF TailTyped
    <2> QED
      BY <2>1, <2>2, <1>7, <1>8 DEF TailTyped
  <1>10. Spelled(u, k, 0, n, old)
    <2>1. n + 1 .. n = {} /\ old + (n - n) = old
      BY <1>1, <1>2
    <2>2. \A j \in n + 1 .. n : u.tail[old + (j - n - 1)] = k[j]
      BY <2>1
    <2> QED
      BY <2>1, <2>2, <1>8 DEF Spelled, n
  <1>11. ASSUME NEW l \in DOMAIN m, D[l] <= Len(l), NEW c \in Extent(l, D[l], A[l]) PROVE c \notin Extent(k, n, old)
    <2>1. W[c] = <<l, 0>> /\ l # <<>>
      BY <1>11, CellsApart DEF StoredAs, IsMap, IsKey
    <2> QED
      BY <2>1, <1>2, <1>5
  <1>12. ASSUME NEW i \in DOMAIN t.tail0, i # q
         PROVE t.tail0[i] \notin Extent(k, n, old) /\ t.tail0[i] + 1 \notin Extent(k, n, old)
    <2>1. W[t.tail0[i]] = << <<>>, i>> /\ W[t.tail0[i] + 1] = << <<>>, i>>
      BY DEF StoredAs, TailHolds, PlaceAt
    <2> QED
      BY <2>1, <1>2, <1>5, <1>12
  <1>13. u.length >= t.length /\ old >= HeaderCells /\ old + (Len(k) - n) + 1 < u.length /\ n \in 1 .. Len(k)
    BY <1>1, <1>2, <1>3 DEF HeaderCells, n
  <1>14. \A c \in Cells : c \notin Extent(k, n, old) => u.tail[c] = t.tail[c]
    BY <1>5, <1>8
  <1> QED
    BY <1>2, <1>7, <1>9, <1>10, <1>11, <1>12, <1>13, <1>14 DEF GivenAs, n

\* The rest of a key whose node has no suffix yet.
LEMMA SuffixReady ==
    ASSUME NEW R, NEW s, NEW C, NEW m, NEW D, NEW A, NEW W, NEW k, NEW path, NEW j,
           AtLeaf(R, s, C, s.t, k, path, j), StoredAs(C, s.t, m, D, A, W),
           s.t.length + Len(k) + 1 + ValueCells <= MaxTail, NEW rest, rest = Rest(k, j + 1), NEW val,
           NEW w, WithAt(m, w, k, ValueOf(m, k)), NEW r, r = AddSuffix(s.t, s.at, rest, val),
           NEW N, s.t.nblk <= N
    PROVE  LandsAt(R, w, k, val, r, N)
  <1> DEFINE t == s.t
             e == s.at
             n == Len(k)
             d == j + 1
             q == Len(t.tail0)
  <1>1. n \in Nat /\ j \in 0 .. n - 1 /\ d \in 1 .. n /\ d \in 0 .. n /\ IsKey(k)
    <2>1. n \in Nat /\ IsKey(k)
      BY EndedFacts DEF AtLeaf
    <2>2. j \in 0 .. n - 1
      BY DEF AtLeaf
    <2> QED
      BY <2>1, <2>2
  <1>2. e \in Slots /\ t.array \in [Slots -> [base : Int, check : Int]] /\ "array" \in DOMAIN t
    <2>1. PICK V, P, L, O : LeafNode(R, s, C, Cut(path, j + 1), V, P, L, O)
      BY LeafNodeIs
    <2> QED
      BY <2>1 DEF LeafNode, TrieAs, IsTree, TrieTyped
  <1>3. {"tail", "length", "tail0"} \subseteq DOMAIN t /\ t.length \in Nat /\ t.tail0 \in Seq(Nat)
    <2>1. TailTyped(t) /\ t.length \in 2 .. MaxTail
      BY DEF StoredAs, TailHolds, TailTyped, HeaderCells
    <2> QED
      BY <2>1, TailAssumption DEF TailTyped
  <1>4. {"array", "tail", "length", "tail0"} \subseteq DOMAIN t
    BY <1>2, <1>3
  <1>5. Len(rest) = n - d /\ (rest = <<>> <=> d = n)
    BY <1>1, RestFacts DEF RestOf
  <1>6. StoredAs(C, t, m, D, A, W) /\ rest = Rest(k, d) /\ r = AddSuffix(t, e, rest, val)
    OBVIOUS
  <1>7. CASE rest = <<>> /\ q > 0
    <2> DEFINE old == t.tail0[q]
               u == [UsePlace(t, e, old) EXCEPT !.tail[old + 1] = 0]
    <2>1. r = AtCell(u, old + 1, val)
      BY <1>7 DEF AddSuffix
    <2>2. UsedAs(t, u, e, old)
      BY <1>2, <1>4, UseForm
    <2>3. t.tail0 # <<>> /\ old = t.tail0[Len(t.tail0)]
      BY <1>3, <1>7
    <2> HIDE DEF u, old, t, e
    <2>4. GivenAs(t, u, m, D, A, k, Len(k), old)
      BY <2>2, <2>3, <1>1, <1>6, UsedGives
    <2>5. GivenAs(t, u, m, D, A, k, j + 1, old) /\ BasedAs(t, u, e, - old) /\ j + 1 = Len(k) /\ old \in Nat
      <3>1. j + 1 = Len(k)
        BY <1>5, <1>7
      <3> QED
        BY <3>1, <2>2, <2>4 DEF UsedAs, GivenAs
    <2>6. Ready(R, u, w, k, "tail", old + (Len(k) - (j + 1)) + 1)
      BY <2>5, <1>6, GivenReady DEF t, e
    <2>7. old + (Len(k) - (j + 1)) + 1 = old + 1
      BY <2>5, <1>1
    <2>8. u.nblk = t.nblk
      <3>1. "nblk" \in DOMAIN t
        <4>1. PICK V, P, L, O : LeafNode(R, s, C, Cut(path, j + 1), V, P, L, O)
          BY LeafNodeIs
        <4> QED
          BY <4>1 DEF LeafNode, TrieAs, IsTree, TrieTyped, t
      <3> QED
        BY <3>1, <2>5 DEF BasedAs
    <2> QED
      BY <2>1, <2>6, <2>7, <2>8 DEF LandsAt, t
  <1>8. CASE ~ (rest = <<>> /\ q > 0)
    <2> DEFINE a == t.length
               u == GrowTail(t, e, rest)
    <2>1. r = AtCell(u, a + Len(rest) + 1, val)
      BY <1>8 DEF AddSuffix
    <2>2. GrownAs(t, u, e, rest)
      BY <1>2, <1>3, <1>4, GrowForm
    <2>3. t.length + Len(k) - d + 2 <= MaxTail
      BY <1>1, <1>3, TailAssumption DEF ValueCells
    <2> HIDE DEF u, t, e, d
    <2>4. GivenAs(t, u, m, D, A, k, d, t.length)
      BY <2>2, <2>3, <1>1, <1>6, GrownGives
    <2>5. BasedAs(t, u, e, - t.length)
      BY <2>2 DEF GrownAs
    <2>6. Ready(R, u, w, k, "tail", a + (Len(k) - (j + 1)) + 1)
      BY <2>4, <2>5, <1>6, GivenReady DEF t, e, d
    <2>7. a + (Len(k) - (j + 1)) + 1 = a + Len(rest) + 1
      BY <1>5 DEF d
    <2>8. u.nblk = t.nblk
      <3>1. "nblk" \in DOMAIN t
        <4>1. PICK V, P, L, O : LeafNode(R, s, C, Cut(path, j + 1), V, P, L, O)
          BY LeafNodeIs
        <4> QED
          BY <4>1 DEF LeafNode, TrieAs, IsTree, TrieTyped, t
      <3> QED
        BY <3>1, <2>5 DEF BasedAs
    <2> HIDE DEF a
    <2> QED
      BY <2>1, <2>6, <2>7, <2>8 DEF LandsAt, t
  <1> QED
    BY <1>7, <1>8

-----------------------------------------------------------------------------
(* Where a key and a suffix part.                                          *)

\* How far the suffix at offset is the rest.
MatchedAs(t, offset, rest, n) ==
    /\ n \in 0 .. Len(rest) /\ \A i \in 1 .. n : t.tail[offset + i - 1] = rest[i]
    /\ n < Len(rest) => t.tail[offset + n] # rest[n + 1]

\* That is what Matched counts.
LEMMA MatchedFacts ==
    ASSUME NEW t, NEW offset \in Nat, NEW rest, Len(rest) \in Nat, NEW n, n = Matched(t, offset, rest)
    PROVE  MatchedAs(t, offset, rest, n)
  <1> DEFINE N == Len(rest)
             agree(m) == \A i \in 1 .. m : t.tail[offset + i - 1] = rest[i]
             best(m) == agree(m) /\ (m < N => ~ agree(m + 1))
  <1>1. \E m \in 0 .. N : best(m)
    <2>1. ASSUME \A m \in 0 .. N : ~ best(m) PROVE FALSE
      <3> DEFINE S == {m \in 0 .. N : agree(m)}
      <3>1. 0 \in S
        OBVIOUS
      <3>2. \A i \in 1 .. N : i - 1 \in S => i \in S
        <4>1. ASSUME NEW i \in 1 .. N, i - 1 \in S PROVE i \in S
          <5>1. i - 1 \in 0 .. N /\ agree(i - 1) /\ i - 1 < N /\ (i - 1) + 1 = i
            BY <4>1
          <5> HIDE DEF agree
          <5>2. agree(i)
            BY <5>1, <2>1
          <5> QED
            BY <5>2
        <4> QED
          BY <4>1
      <3> HIDE DEF S
      <3>3. \A i \in 0 .. N : i \in S
        BY <3>1, <3>2, UpTo
      <3>4. agree(N)
        BY <3>3 DEF S
      <3> HIDE DEF agree
      <3>5. best(N) /\ N \in 0 .. N
        BY <3>4
      <3> QED
        BY <3>5, <2>1
    <2> QED
      BY <2>1
  <1>2. n = CHOOSE m \in 0 .. N : best(m)
    BY DEF Matched
  <1> HIDE DEF best
  <1>3. n \in 0 .. N /\ best(n)
    BY <1>1, <1>2
  <1>4. n < N => t.tail[offset + n] # rest[n + 1]
    <2>1. ASSUME n < N, t.tail[offset + n] = rest[n + 1] PROVE FALSE
      <3>1. agree(n) /\ ~ agree(n + 1)
        BY <2>1, <1>3 DEF best
      <3>2. \A i \in 1 .. n + 1 : i \in 1 .. n \/ i = n + 1
        BY <1>3
      <3>3. offset + (n + 1) - 1 = offset + n
        BY <1>3
      <3> QED
        BY <3>1, <3>2, <3>3, <2>1
    <2> QED
      BY <2>1
  <1> QED
    BY <1>3, <1>4 DEF MatchedAs, best

\* The key whose suffix hangs on the node x of the path.
OwnerOf(C, m, D, A, k0, x, path, pos) ==
    /\ k0 \in DOMAIN m /\ IsKey(k0) /\ D[k0] = pos /\ pos \in 1 .. Len(k0) /\ A[k0] = - x[3]
    /\ Cut(Ended(k0), pos) = Cut(path, pos) /\ x = EndOf(k0, m[k0], pos, A[k0])

\* There is one: a negative base is a suffix of some key.
LEMMA SuffixOwner ==
    ASSUME NEW C, NEW t, NEW m, NEW D, NEW A, NEW W, StoredAs(C, t, m, D, A, W),
           NEW path \in Seq(Labels), NEW pos \in 1 .. Len(path),
           NEW x \in C, x[1] = Cut(path, pos), ~ x[2], x[3] \in Int, x[3] < 0
    PROVE  \E k0 : OwnerOf(C, m, D, A, k0, x, path, pos)
  <1>1. PICK k0 \in DOMAIN m : x = EndOf(k0, m[k0], D[k0], A[k0])
    BY DEF StoredAs, Ends
  <1>2. KeyEnd(C, m, D, A, k0, x)
    BY <1>1, EndFacts
  <1>3. /\ IsKey(k0) /\ Len(k0) \in Nat /\ D[k0] \in 1 .. Len(k0) + 1 /\ m[k0] \in Nat
        /\ x[1] = Cut(Ended(k0), D[k0]) /\ x[3] = IF D[k0] = Len(k0) + 1 THEN m[k0] ELSE - A[k0]
        /\ D[k0] <= Len(k0) => A[k0] \in Nat
        /\ Len(Cut(Ended(k0), D[k0])) = D[k0]
    BY <1>2 DEF KeyEnd
  <1>4. D[k0] = pos
    <2>1. Len(path) \in Nat /\ pos \in 0 .. Len(path)
      OBVIOUS
    <2>2. Len(Cut(path, pos)) = pos
      BY <2>1, CutFacts
    <2> QED
      BY <2>2, <1>3
  <1>5. pos # Len(k0) + 1
    BY <1>3, <1>4
  <1>6. pos \in 1 .. Len(k0) /\ A[k0] = - x[3]
    BY <1>3, <1>4, <1>5
  <1> QED
    BY <1>1, <1>3, <1>4, <1>6 DEF OwnerOf

\* What is spelled at the suffix of a key is its path.
SpelledHere(t, k, m, d, a, i) ==
    t.tail[a + i] = Ended(k)[d + i + 1] /\ (i = Len(k) - d => t.tail[a + i + 1] = m[k])

\* It is: the terminal's 0 and the value come last.
LEMMA SpelledPath ==
    ASSUME NEW C, NEW t, NEW m, NEW D, NEW A, NEW W, StoredAs(C, t, m, D, A, W),
           NEW k \in DOMAIN m, NEW d, d = D[k], d <= Len(k), NEW a, a = A[k], NEW i \in 0 .. Len(k) - d
    PROVE  SpelledHere(t, k, m, d, a, i)
  <1> DEFINE n == Len(k)
  <1>1. KeyAt(t, W, k, m[k], d, a) /\ IsKey(k)
    BY DEF StoredAs, TailHolds, IsMap
  <1>2. n \in Nat /\ d \in 1 .. n /\ a \in Nat /\ Spelled(t, k, m[k], d, a)
    <2>1. n \in Nat
      BY <1>1, EndedFacts
    <2> QED
      BY <2>1, <1>1 DEF KeyAt
  <1>3. Ended(k)[n + 1] = 0 /\ \A j \in 1 .. n : Ended(k)[j] = k[j]
    BY <1>1, EndedFacts
  <1>4. CASE i = n - d
    <2>1. t.tail[a + (n - d)] = 0 /\ t.tail[a + (n - d) + 1] = m[k]
      BY <1>2 DEF Spelled
    <2> HIDE DEF n
    <2>2. d + i + 1 = n + 1
      BY <1>2, <1>4
    <2> QED
      BY <2>1, <2>2, <1>3, <1>4 DEF n, SpelledHere
  <1>5. CASE i # n - d
    <2> DEFINE j == d + i + 1
    <2>1. j \in d + 1 .. n /\ j - d - 1 = i /\ j \in 1 .. n
      BY <1>2, <1>5
    <2>2. t.tail[a + (j - d - 1)] = k[j]
      BY <2>1, <1>2 DEF Spelled
    <2> QED
      BY <2>1, <2>2, <1>3, <1>5 DEF SpelledHere
  <1> QED
    BY <1>4, <1>5

\* The path of k and that of k0, whose suffix is at a, part after q labels.
Parts(C, t, m, D, A, W, k, k0, path, path0, pos, q, a) ==
    /\ IsForest(C) /\ StoredAs(C, t, m, D, A, W) /\ IsKey(k) /\ path = Ended(k)
    /\ k0 \in DOMAIN m /\ IsKey(k0) /\ path0 = Ended(k0) /\ D[k0] = pos /\ A[k0] = a
    /\ pos \in 1 .. Len(k0) /\ q \in pos .. Len(k) /\ q <= Len(k0)
    /\ EndOf(k0, m[k0], pos, a) \in C
    /\ Cut(path0, q) = Cut(path, q) /\ path0[q + 1] # path[q + 1]
    /\ t.tail[a + (q - pos)] = path0[q + 1]

\* Either the suffix is that of the key itself, or the two part where their
\* characters first differ.
LEMMA PartsOrSame ==
    ASSUME NEW C, IsForest(C), NEW t, NEW m, NEW D, NEW A, NEW W, StoredAs(C, t, m, D, A, W),
           NEW k, IsKey(k), NEW path, path = Ended(k), NEW pos \in 1 .. Len(k), NEW x \in C,
           NEW k0, OwnerOf(C, m, D, A, k0, x, path, pos), NEW a, a = A[k0],
           NEW rest, rest = Rest(k, pos), NEW n, n = Matched(t, a, rest)
    PROVE  IF n = Len(rest) /\ t.tail[a + n] = 0
           THEN k0 = k /\ n = Len(k) - pos
           ELSE n \in Nat /\ Parts(C, t, m, D, A, W, k, k0, path, Ended(k0), pos, pos + n, a)
  <1> DEFINE path0 == Ended(k0)
             N == Len(k)
             N0 == Len(k0)
             q == pos + n
  <1>1. /\ k0 \in DOMAIN m /\ IsKey(k0) /\ D[k0] = pos /\ pos \in 1 .. N0 /\ Cut(path0, pos) = Cut(path, pos)
        /\ EndOf(k0, m[k0], pos, a) \in C
    BY DEF OwnerOf
  <1>2. N \in Nat /\ N0 \in Nat /\ a \in Nat /\ pos <= N0 /\ pos \in 1 .. N /\ pos \in 0 .. N
    <2>1. N \in Nat /\ N0 \in Nat
      BY <1>1, EndedFacts
    <2>2. KeyAt(t, W, k0, m[k0], D[k0], A[k0])
      BY <1>1 DEF StoredAs, TailHolds
    <2>3. pos <= N0
      BY <2>1, <1>1
    <2>4. a \in Nat
      BY <2>2, <2>3, <1>1 DEF KeyAt
    <2> QED
      BY <2>1, <2>3, <2>4
  <1>3. Len(rest) = N - pos /\ \A i \in 1 .. N - pos : rest[i] = k[pos + i]
    <2>1. RestOf(k, pos, rest)
      BY <1>2, RestFacts
    <2> QED
      BY <2>1 DEF RestOf
  <1>4. /\ n \in 0 .. N - pos /\ \A i \in 1 .. n : t.tail[a + i - 1] = rest[i]
        /\ n < N - pos => t.tail[a + n] # rest[n + 1]
    <2>1. Len(rest) \in Nat
      BY <1>2, <1>3
    <2>2. MatchedAs(t, a, rest, n)
      BY <2>1, <1>2, MatchedFacts
    <2> QED
      BY <2>2, <1>3 DEF MatchedAs
  <1>5. /\ path \in Seq(Labels) /\ Len(path) = N + 1 /\ path[N + 1] = 0
        /\ \A i \in 1 .. N : path[i] = k[i] /\ path[i] # 0
    BY EndedFacts
  <1>6. /\ path0 \in Seq(Labels) /\ Len(path0) = N0 + 1 /\ path0[N0 + 1] = 0
        /\ \A i \in 1 .. N0 : path0[i] # 0
    BY <1>1, EndedFacts
  <1>7. \A i \in 0 .. N0 - pos : t.tail[a + i] = path0[pos + i + 1]
    <2>1. k0 \in DOMAIN m /\ pos = D[k0] /\ pos <= Len(k0) /\ a = A[k0]
      BY <1>1, <1>2
    <2>2. \A i \in 0 .. Len(k0) - pos : SpelledHere(t, k0, m, pos, a, i)
      BY <2>1, SpelledPath
    <2> QED
      BY <2>2 DEF SpelledHere
  <1> HIDE DEF path0, N, N0
  <1>8. \A i \in 1 .. n : t.tail[a + i - 1] = path[pos + i] /\ t.tail[a + i - 1] # 0
    <2>1. ASSUME NEW i \in 1 .. n PROVE t.tail[a + i - 1] = path[pos + i] /\ path[pos + i] # 0
      <3>1. i \in 1 .. N - pos /\ pos + i \in 1 .. N
        BY <1>2, <1>4
      <3> QED
        BY <3>1, <1>3, <1>4, <1>5
    <2> QED
      BY <2>1
  <1>9. n <= N0 - pos
    <2>1. ASSUME ~ (n <= N0 - pos) PROVE FALSE
      <3> DEFINE i == N0 - pos + 1
      <3>1. i \in 1 .. n /\ i - 1 \in 0 .. N0 - pos /\ a + i - 1 = a + (i - 1) /\ pos + (i - 1) + 1 = N0 + 1
        BY <2>1, <1>2, <1>4
      <3> HIDE DEF i
      <3>2. t.tail[a + (i - 1)] = path0[pos + (i - 1) + 1]
        BY <3>1, <1>7
      <3>3. t.tail[a + i - 1] # 0
        BY <3>1, <1>8
      <3> QED
        BY <3>1, <3>2, <3>3, <1>6
    <2> QED
      BY <2>1
  <1>10. q \in pos .. N /\ q <= N0 /\ q \in Nat /\ q - pos = n /\ n \in 0 .. N0 - pos
    BY <1>2, <1>4, <1>9
  <1>11. Cut(path0, q) = Cut(path, q)
    <2>1. q \in 0 .. Len(path) /\ q \in 0 .. Len(path0) /\ pos \in 0 .. Len(path) /\ pos \in 0 .. Len(path0)
      BY <1>2, <1>5, <1>6, <1>10
    <2>2. \A j \in 1 .. q : path0[j] = path[j]
      <3>1. ASSUME NEW j \in 1 .. q, j <= pos PROVE path0[j] = path[j]
        <4>1. j \in 1 .. pos
          BY <3>1, <1>2
        <4>2. Cut(path, pos)[j] = path[j]
          BY <4>1, <2>1, <1>5, CutFacts
        <4>3. Cut(path0, pos)[j] = path0[j]
          BY <4>1, <2>1, <1>6, CutFacts
        <4> QED
          BY <4>2, <4>3, <1>1 DEF path0
      <3>2. ASSUME NEW j \in 1 .. q, ~ (j <= pos) PROVE path0[j] = path[j]
        <4> DEFINE i == j - pos
        <4>1. /\ i \in 1 .. n /\ i - 1 \in 0 .. N0 - pos /\ a + i - 1 = a + (i - 1)
              /\ pos + (i - 1) + 1 = j /\ pos + i = j
          BY <3>2, <1>2, <1>10
        <4> HIDE DEF i
        <4>2. t.tail[a + (i - 1)] = path0[pos + (i - 1) + 1]
          BY <4>1, <1>7
        <4>3. t.tail[a + i - 1] = path[pos + i]
          BY <4>1, <1>8
        <4> QED
          BY <4>1, <4>2, <4>3
      <3> QED
        BY <3>1, <3>2
    <2>3. Cut(path, q) = [j \in 1 .. q |-> path[j]] /\ Cut(path0, q) = [j \in 1 .. q |-> path0[j]]
      BY <2>1, <1>5, <1>6, <1>10 DEF Cut
    <2> QED
      BY <2>2, <2>3
  <1>12. t.tail[a + n] = path0[q + 1]
    <2>1. t.tail[a + n] = path0[pos + n + 1]
      BY <1>7, <1>10
    <2> QED
      BY <2>1
  <1>13. CASE n = N - pos /\ t.tail[a + n] = 0
    <2>1. q = N
      BY <1>13, <1>2
    <2>2. q = N0
      <3>1. path0[q + 1] = 0
        BY <1>12, <1>13
      <3>2. q + 1 \in 1 .. N0 \/ q = N0
        BY <1>10, <1>2
      <3> QED
        BY <3>1, <3>2, <1>6
    <2>3. k0 = k
      <3>1. Cut(path, N) = k /\ Cut(path0, N0) = k0
        BY <1>1, EndedFacts DEF path0, N, N0
      <3> QED
        BY <3>1, <2>1, <2>2, <1>11
    <2> QED
      BY <2>3, <1>3, <1>13 DEF N
  <1>14. CASE ~ (n = N - pos /\ t.tail[a + n] = 0)
    <2>1. path0[q + 1] # path[q + 1]
      <3>1. CASE n = N - pos
        <4>1. q = N
          BY <3>1, <1>2
        <4> QED
          BY <4>1, <3>1, <1>5, <1>12, <1>14
      <3>2. CASE n # N - pos
        <4>1. n < N - pos /\ n + 1 \in 1 .. N - pos /\ pos + (n + 1) = q + 1 /\ q + 1 \in 1 .. N
          BY <3>2, <1>2, <1>4
        <4> HIDE DEF q
        <4>2. rest[n + 1] = k[pos + (n + 1)]
          BY <4>1, <1>3
        <4>3. rest[n + 1] = path[q + 1]
          BY <4>1, <4>2, <1>5
        <4> QED
          BY <4>1, <4>3, <1>4, <1>12
      <3> QED
        BY <3>1, <3>2
    <2>2. a + (q - pos) = a + n /\ q = pos + n
      BY <1>10
    <2> HIDE DEF q
    <2>3. Parts(C, t, m, D, A, W, k, k0, path, path0, pos, q, a)
      BY <2>1, <2>2, <1>1, <1>2, <1>10, <1>11, <1>12 DEF Parts, N, N0, path0
    <2>4. Parts(C, t, m, D, A, W, k, k0, path, path0, pos, pos + n, a) /\ n \in Nat
      BY <2>2, <2>3, <1>10
    <2> QED
      BY <2>4, <1>3, <1>14 DEF N, path0
  <1> QED
    BY <1>3, <1>13, <1>14 DEF N

-----------------------------------------------------------------------------
(* Nodes are made for the characters a suffix and a key share.             *)

\* C with the suffix's node and those made below it open, down to the q-th of
\* the path; and the node that comes after.
Stem(C, path, pos, q) ==
    {x \in C : x[1] # Cut(path, pos)} \cup {InnerOf(Cut(path, j)) : j \in pos .. q - 1}
Thread(C, path, pos, q, b) == Stem(C, path, pos, q) \cup {<<Cut(path, q), FALSE, b>>}

\* The names in it.
StemNames(C, path, pos, q, T, l) ==
    /\ \A y \in T : y[1] = Cut(path, q) => y = <<Cut(path, q), FALSE, y[3]>> /\ y \notin Stem(C, path, pos, q)
    /\ \A y \in Stem(C, path, pos, q) : y[1] # Cut(path, q)
    /\ ~ Has(T, Named(Cut(path, q), l))

\* The node that comes after is new, and so is any child of it.
LEMMA StemNamesAre ==
    ASSUME NEW C, IsForest(C), NEW path \in Seq(Labels), NEW pos \in 1 .. Len(path),
           NEW x \in C, x[1] = Cut(path, pos), ~ x[2], NEW q \in pos .. Len(path), NEW b,
           NEW l \in Labels, NEW T, T = Thread(C, path, pos, q, b)
    PROVE  StemNames(C, path, pos, q, T, l)
  <1> DEFINE p == Cut(path, q)
             z == <<p, FALSE, b>>
             X == {y \in C : y[1] # Cut(path, pos)}
             Y == {InnerOf(Cut(path, j)) : j \in pos .. q - 1}
             S == Stem(C, path, pos, q)
  <1>1. q \in 0 .. Len(path) /\ q \in Nat /\ Len(path) \in Nat /\ pos \in 0 .. Len(path)
    OBVIOUS
  <1>2. p \in Seq(Labels) /\ Len(p) = q /\ Len(Named(p, l)) = q + 1
    <2>1. p \in Seq(Labels) /\ Len(p) = q
      BY <1>1, CutFacts
    <2> QED
      BY <2>1 DEF Named
  <1>3. ASSUME NEW y \in Y PROVE y[1] # p /\ y[1] # Named(p, l)
    <2>1. PICK j \in pos .. q - 1 : y = InnerOf(Cut(path, j))
      OBVIOUS
    <2>2. j \in 0 .. Len(path) /\ j < q /\ j < q + 1
      BY <1>1
    <2>3. Len(Cut(path, j)) = j
      BY <2>2, CutFacts
    <2>4. y[1] = Cut(path, j)
      BY <2>1 DEF InnerOf
    <2> QED
      BY <2>2, <2>3, <2>4, <1>2
  <1>4. /\ q > pos => ~ Has(C, p)
        /\ \A a \in Labels : ~ Has(C, Named(p, a))
    <2>1. q \in pos .. Len(path) /\ p = Cut(path, q)
      OBVIOUS
    <2> QED
      BY <2>1, DeepEmpty
  <1>5. ASSUME NEW y \in X PROVE y[1] # p /\ y[1] # Named(p, l)
    <2>1. y[1] # Named(p, l)
      BY <1>4 DEF Has
    <2>2. q > pos \/ q = pos
      BY <1>1
    <2> QED
      BY <2>1, <2>2, <1>4 DEF Has
  <1>6. z[1] = p /\ z[3] = b /\ p # Named(p, l) /\ z = <<p, FALSE, z[3]>>
    BY <1>2
  <1>7. S = X \cup Y /\ T = S \cup {z}
    BY DEF Stem, Thread
  <1> HIDE DEF X, Y, S, z, p
  <1>8. \A y \in S : y[1] # p /\ y[1] # Named(p, l)
    BY <1>3, <1>5, <1>7
  <1>9. \A y \in T : y[1] = p => y = <<p, FALSE, y[3]>> /\ y \notin S
    BY <1>6, <1>7, <1>8
  <1>10. ~ Has(T, Named(p, l))
    BY <1>6, <1>7, <1>8 DEF Has
  <1> QED
    BY <1>8, <1>9, <1>10 DEF StemNames, S, p

\* A child below the node it ends at.
LEMMA ThreadGrows ==
    ASSUME NEW C, IsForest(C), NEW path \in Seq(Labels), NEW pos \in 1 .. Len(path),
           NEW x \in C, x[1] = Cut(path, pos), ~ x[2], NEW q \in pos .. Len(path), NEW b,
           NEW l \in Labels, NEW T, T = Thread(C, path, pos, q, b)
    PROVE  Extended(T, Cut(path, q), l)
             = Stem(C, path, pos, q + 1) \cup {Leaf(Named(Cut(path, q), l), l)}
  <1> DEFINE p == Cut(path, q)
             z == <<p, FALSE, b>>
             S == Stem(C, path, pos, q)
             f(y) == IF y[1] = p THEN <<p, TRUE, 0>> ELSE y
  <1>1. StemNames(C, path, pos, q, T, l)
    BY StemNamesAre
  <1>2. (\A y \in S : y[1] # p) /\ ~ Has(T, Named(p, l))
    BY <1>1 DEF StemNames
  <1>3. T = S \cup {z} /\ z[1] = p /\ InnerOf(p) = <<p, TRUE, 0>>
    BY DEF Thread, InnerOf
  <1>4. Opened(T, p) = {f(y) : y \in T}
    BY DEF Opened
  <1>5. Stem(C, path, pos, q + 1) = S \cup {InnerOf(p)}
    <2> DEFINE g(j) == InnerOf(Cut(path, j))
    <2>1. pos .. (q + 1) - 1 = (pos .. q - 1) \cup {q}
      OBVIOUS
    <2>2. g(q) = InnerOf(p)
      OBVIOUS
    <2> HIDE DEF g, p
    <2>3. {g(j) : j \in (pos .. q - 1) \cup {q}} = {g(j) : j \in pos .. q - 1} \cup {g(q)}
      OBVIOUS
    <2>4. S = {y \in C : y[1] # Cut(path, pos)} \cup {g(j) : j \in pos .. q - 1}
      BY DEF Stem, g
    <2>5. Stem(C, path, pos, q + 1) = {y \in C : y[1] # Cut(path, pos)} \cup {g(j) : j \in pos .. (q + 1) - 1}
      BY DEF Stem, g
    <2> HIDE DEF S
    <2> QED
      BY <2>1, <2>2, <2>3, <2>4, <2>5
  <1> HIDE DEF S, z, p
  <1>6. Opened(T, p) = S \cup {InnerOf(p)}
    <2>1. f(z) = InnerOf(p) /\ \A y \in S : f(y) = y
      BY <1>2, <1>3
    <2> HIDE DEF f
    <2> QED
      BY <2>1, <1>3, <1>4
  <1>7. Extended(T, p, l) = Opened(T, p) \cup {Leaf(Named(p, l), l)}
    BY <1>2 DEF Extended, Has
  <1> QED
    BY <1>5, <1>6, <1>7 DEF p

\* The loop over the labels of s.
LEMMA FollowAllLoop ==
    ASSUME NEW t, NEW node, NEW sq, Len(sq) \in Nat
    PROVE  \E g : /\ g[0] = [t |-> t, at |-> node]
                  /\ \A i \in 1 .. Len(sq) : g[i] = AtChild(Follow(g[i - 1].t, g[i - 1].at, sq[i]))
                  /\ FollowAll(t, node, sq) = g[Len(sq)]
  <1> DEFINE N == Len(sq)
             s0 == [t |-> t, at |-> node]
             Next1(s, i) == AtChild(Follow(s.t, s.at, sq[i]))
             Step(g, i) == IF i = 0 THEN s0 ELSE Next1(g[i - 1], i)
             Good(g, m) == g = [i \in 0 .. m |-> Step(g, i)]
             Bad == {m \in Nat : ~ \E g : Good(g, m)}
  <1>1. Bad = {}
    <2> SUFFICES ASSUME Bad # {} PROVE FALSE
      OBVIOUS
    <2> HIDE DEF Next1, s0
    <2>1. Bad \in SUBSET Nat
      OBVIOUS
    <2> HIDE DEF Bad
    <2>2. PICK m \in Bad : \A x \in Bad : m <= x
      BY <2>1, Least
    <2>3. m \in Nat /\ ~ \E g : Good(g, m)
      BY DEF Bad
    <2>4. CASE m = 0
      <3> DEFINE g == [i \in 0 .. 0 |-> s0]
      <3>1. Good(g, 0)
        BY DEF g
      <3> QED
        BY <3>1, <2>3, <2>4
    <2>5. CASE m # 0
      <3>1. m - 1 \in Nat /\ m - 1 \notin Bad
        BY <2>2, <2>3, <2>5
      <3>2. PICK h : Good(h, m - 1)
        BY <3>1 DEF Bad
      <3> DEFINE g == [i \in 0 .. m |-> Step(h, i)]
      <3>3. ASSUME NEW i \in 0 .. m PROVE Step(g, i) = Step(h, i)
        <4>1. CASE i = 0
          BY <4>1
        <4>2. CASE i # 0
          <5>1. i - 1 \in 0 .. m /\ i - 1 \in 0 .. m - 1
            BY <4>2, <2>3
          <5>2. g[i - 1] = Step(h, i - 1)
            BY <5>1
          <5>3. h[i - 1] = Step(h, i - 1)
            <6> HIDE DEF Step
            <6> QED
              BY <5>1, <3>2
          <5> HIDE DEF g
          <5> QED
            BY <4>2, <5>2, <5>3
        <4> QED
          BY <4>1, <4>2
      <3>4. Good(g, m)
        <4> HIDE DEF Step
        <4> QED
          BY <3>3
      <3> QED
        BY <3>4, <2>3
    <2> QED
      BY <2>4, <2>5
  <1>2. \E g : Good(g, N)
    BY <1>1
  <1>3. PICK g : Good(g, N) /\ FollowAll(t, node, sq) = g[N]
    BY <1>2 DEF FollowAll
  <1> HIDE DEF Next1, s0
  <1>4. g[0] = s0 /\ \A i \in 1 .. N : g[i] = Next1(g[i - 1], i)
    <2>1. g = [i \in 0 .. N |-> Step(g, i)]
      BY <1>3
    <2>2. \A i \in 0 .. N : g[i] = Step(g, i)
      <3> HIDE DEF Step
      <3> QED
        BY <2>1
    <2> QED
      BY <2>2
  <1> QED
    BY <1>3, <1>4 DEF Next1, s0

\* The steps of FollowAll.
FollowsAll(t, node, sq, g) ==
    /\ g[0] = [t |-> t, at |-> node]
    /\ \A i \in 1 .. Len(sq) : g[i] = AtChild(Follow(g[i - 1].t, g[i - 1].at, sq[i]))
    /\ FollowAll(t, node, sq) = g[Len(sq)]

\* FollowAll is those steps.
LEMMA FollowAllRuns ==
    ASSUME NEW t, NEW node, NEW sq, Len(sq) \in Nat
    PROVE  \E g : FollowsAll(t, node, sq, g)
  BY FollowAllLoop DEF FollowsAll

\* The walk has made those nodes.
ThreadedTo(R, s, u, C, path, pos, q, N) ==
    /\ \E b : Stands(R, u, Thread(C, path, pos, q, b), Cut(path, q))
    /\ u = [t |-> u.t, at |-> u.at] /\ SameTail(s.t, u.t) /\ u.t.nblk \in Nat /\ u.t.nblk <= N

\* A label more.
LEMMA ThreadStep ==
    ASSUME NEW R, Spare("chain", R), NEW s, NEW C, IsForest(C), NEW k, IsKey(k), NEW path, path = Ended(k),
           NEW pos \in 1 .. Len(k), NEW x \in C, x[1] = Cut(path, pos), ~ x[2],
           NEW q \in pos .. Len(k), q < Len(k), NEW N \in Nat, N < MaxBlocks,
           NEW v, ThreadedTo(R, s, v, C, path, pos, q, N),
           NEW u, u = AtChild(Follow(v.t, v.at, path[q + 1]))
    PROVE  ThreadedTo(R, s, u, C, path, pos, q + 1, N + 1)
  <1> DEFINE p == Cut(path, q)
             l == path[q + 1]
             f == Follow(v.t, v.at, l)
  <1>1. /\ path \in Seq(Labels) /\ Len(path) = Len(k) + 1 /\ Len(k) \in Nat
        /\ \A i \in 1 .. Len(k) : path[i] # 0 /\ path[i] \in Labels
    <2>1. IsKey(k) /\ path = Ended(k)
      OBVIOUS
    <2> QED
      BY ONLY <2>1, EndedFacts
  <1>2. /\ q \in 0 .. Len(path) /\ q < Len(path) /\ q >= 1 /\ q \in 1 .. Len(k) /\ q + 1 \in 1 .. Len(k)
        /\ pos \in 1 .. Len(path) /\ q \in pos .. Len(path)
    BY <1>1
  <1>3. p \in Seq(Labels) /\ Len(p) = q /\ p[q] = path[q] /\ Cut(path, q + 1) = Named(p, l) /\ p # <<>>
    <2> q \in 0 .. Len(path) /\ q \in 1 .. q /\ q < Len(path)
      BY <1>2
    <2>2. p \in Seq(Labels) /\ Len(p) = q /\ p[q] = path[q]
      BY <1>1, CutFacts
    <2>3. Cut(path, q + 1) = Named(p, l)
      BY <1>1, CutFacts
    <2>1. p \in Seq(Labels) /\ Len(p) = q /\ p[q] = path[q] /\ Cut(path, q + 1) = Named(p, l)
      BY <2>2, <2>3
    <2> QED
      BY <2>1, <1>2
  <1>4. l \in Labels /\ l # 0 /\ p[Len(p)] # 0
    BY <1>1, <1>2, <1>3
  <1>5. PICK b : Stands(R, v, Thread(C, path, pos, q, b), p)
    BY DEF ThreadedTo
  <1>6. v.t.nblk \in Nat /\ v.t.nblk <= N /\ v.t.nblk < MaxBlocks /\ SameTail(s.t, v.t)
    BY BlockAssumption DEF ThreadedTo
  <1> DEFINE T == Thread(C, path, pos, q, b)
             T2 == Thread(C, path, pos, q + 1, -1)
  <1>7. Extended(T, p, l) = T2
    <2>1. Extended(T, p, l) = Stem(C, path, pos, q + 1) \cup {Leaf(Named(p, l), l)}
      BY <1>1, <1>2, <1>4, ThreadGrows
    <2>2. Leaf(Named(p, l), l) = <<Cut(path, q + 1), FALSE, -1>>
      BY <1>3, <1>4 DEF Leaf
    <2> QED
      BY <2>1, <2>2 DEF Thread
  <1> HIDE DEF p, l, T, T2
  <1>8. Stands(R, v, T, p) /\ CanGo(R, v, p, l) /\ f = Follow(v.t, v.at, l)
    BY <1>3, <1>4, <1>5, <1>6 DEF CanGo, T
  <1> HIDE DEF f
  <1>9. Went(R, v, T, p, l, f)
    BY <1>8, FollowStands
  <1>10. Stands(R, u, T2, Cut(path, q + 1))
    <2>1. u = [t |-> f.t, at |-> f.to]
      BY DEF AtChild, f, l
    <2> QED
      BY <2>1, <1>3, <1>7, <1>9 DEF Went
  <1>11. u.t = f.t
    BY DEF AtChild, f, l
  <1>12. SameTail(s.t, u.t)
    BY <1>6, <1>9, <1>11, SameTailOn DEF Went
  <1>13. u.t.nblk \in Nat /\ u.t.nblk <= N + 1
    <2>1. u.t.nblk \in {v.t.nblk, v.t.nblk + 1}
      BY <1>9, <1>11 DEF Went
    <2> QED
      BY <2>1, <1>6
  <1> QED
    BY <1>10, <1>12, <1>13 DEF ThreadedTo, T2, AtChild

\* All of them.
LEMMA Threaded ==
    ASSUME NEW R, Spare("chain", R), NEW s, NEW C, IsForest(C), NEW k, IsKey(k), NEW path, path = Ended(k),
           NEW pos \in 1 .. Len(k), NEW x \in C, x[1] = Cut(path, pos), ~ x[2],
           Stands(R, s, C, Cut(path, pos)), NEW n \in Nat, pos + n <= Len(k),
           NEW sq, Len(sq) = n, \A i \in 1 .. n : sq[i] = path[pos + i],
           NEW N \in Nat, s.t.nblk \in Nat, s.t.nblk <= N, N + n <= MaxBlocks,
           NEW u, u = FollowAll(s.t, s.at, sq)
    PROVE  ThreadedTo(R, s, u, C, path, pos, pos + n, N + n)
  <1>1. PICK g : /\ g[0] = [t |-> s.t, at |-> s.at]
                 /\ \A i \in 1 .. Len(sq) : g[i] = AtChild(Follow(g[i - 1].t, g[i - 1].at, sq[i]))
                 /\ FollowAll(s.t, s.at, sq) = g[Len(sq)]
    <2> DEFINE t0 == s.t
               e0 == s.at
    <2>1. Len(sq) \in Nat
      OBVIOUS
    <2> HIDE DEF t0, e0
    <2>2. \E g : FollowsAll(t0, e0, sq, g)
      BY <2>1, FollowAllRuns
    <2> QED
      BY <2>2 DEF t0, e0, FollowsAll
  <1> DEFINE S == {i \in 0 .. n : ThreadedTo(R, s, g[i], C, path, pos, pos + i, N + i)}
  <1>2. 0 \in S
    <2> DEFINE v == [t |-> s.t, at |-> s.at]
    <2>1. v.t = s.t /\ v.at = s.at
      OBVIOUS
    <2> HIDE DEF v
    <2>2. Stands(R, v, C, Cut(path, pos))
      BY <2>1 DEF Stands, StandsAt
    <2>3. Thread(C, path, pos, pos, x[3]) = C
      <3> DEFINE p == Cut(path, pos)
                 z == <<p, FALSE, x[3]>>
                 X == {y \in C : y[1] # p}
      <3>1. x = z /\ \A y \in C : y[1] = p => y = x
        <4>1. x = <<x[1], FALSE, x[3]>>
          BY DEF IsForest
        <4>2. \A y \in C : y[1] = x[1] => y = x
          BY DEF IsForest
        <4> QED
          BY <4>1, <4>2
      <3>2. Thread(C, path, pos, pos, x[3]) = (X \cup {InnerOf(Cut(path, j)) : j \in pos .. pos - 1}) \cup {z}
        BY DEF Thread, Stem
      <3>3. pos .. pos - 1 = {}
        OBVIOUS
      <3> HIDE DEF X, z, p
      <3>4. Thread(C, path, pos, pos, x[3]) = X \cup {z}
        BY <3>2, <3>3
      <3> QED
        BY <3>1, <3>4 DEF X, p
    <2>4. SameTail(s.t, v.t)
      BY <2>1 DEF SameTail
    <2>5. ThreadedTo(R, s, v, C, path, pos, pos, N)
      <3>1. v = [t |-> v.t, at |-> v.at]
        BY DEF v
      <3> QED
        BY <3>1, <2>1, <2>2, <2>3, <2>4 DEF ThreadedTo
    <2>6. pos + 0 = pos /\ N + 0 = N
      OBVIOUS
    <2> QED
      BY <2>5, <2>6, <1>1 DEF v
  <1>3. \A i \in 1 .. n : i - 1 \in S => i \in S
    <2>1. ASSUME NEW i \in 1 .. n, i - 1 \in S PROVE i \in S
      <3> DEFINE q == pos + (i - 1)
                 M == N + (i - 1)
      <3>1. /\ Len(k) \in Nat /\ q \in pos .. Len(k) /\ q < Len(k) /\ M \in Nat /\ M < MaxBlocks
            /\ q + 1 = pos + i /\ M + 1 = N + i /\ i \in 0 .. n /\ i \in 1 .. Len(sq)
        <4>1. Len(k) \in Nat
          BY EndedFacts
        <4> QED
          BY <4>1, BlockAssumption
      <3>2. ThreadedTo(R, s, g[i - 1], C, path, pos, q, M)
        BY <2>1
      <3>3. g[i] = AtChild(Follow(g[i - 1].t, g[i - 1].at, path[q + 1]))
        BY <3>1, <1>1
      <3> HIDE DEF q, M, S
      <3>4. ThreadedTo(R, s, g[i], C, path, pos, q + 1, M + 1)
        BY <3>1, <3>2, <3>3, ThreadStep
      <3> QED
        BY <3>1, <3>4 DEF S
    <2> QED
      BY <2>1
  <1> HIDE DEF S
  <1>4. n \in S
    <2>1. \A i \in 0 .. n : i \in S
      BY <1>2, <1>3, UpTo
    <2> QED
      BY <2>1
  <1> QED
    BY <1>1, <1>4 DEF S

-----------------------------------------------------------------------------
(* The suffix that was there, once the keys part.                          *)

\* The forest with the nodes down to where they part, and the rest of the
\* suffix below them.
Branch(C, m, k0, path, pos, q, a2) == Stem(C, path, pos, q + 1) \cup {EndOf(k0, m[k0], q + 1, a2)}

\* What Parts says.
LEMMA PartsFacts ==
    ASSUME NEW C, NEW t, NEW m, NEW D, NEW A, NEW W, NEW k, NEW k0, NEW path, NEW path0,
           NEW pos, NEW q, NEW a, Parts(C, t, m, D, A, W, k, k0, path, path0, pos, q, a)
    PROVE  /\ Len(k) \in Nat /\ Len(k0) \in Nat /\ pos \in Nat /\ pos >= 1 /\ q \in Nat /\ q >= pos
           /\ q <= Len(k) /\ q <= Len(k0) /\ a \in Nat /\ a >= 2 /\ m[k0] \in Nat
           /\ path \in Seq(Labels) /\ Len(path) = Len(k) + 1 /\ path0 \in Seq(Labels) /\ Len(path0) = Len(k0) + 1
           /\ path0[q + 1] \in Labels
           /\ a + (Len(k0) - pos) + 1 < t.length /\ t.length \in Nat /\ t.length <= MaxTail /\ MaxTail \in Nat
  <1>1. IsKey(k) /\ IsKey(k0) /\ path = Ended(k) /\ path0 = Ended(k0) /\ k0 \in DOMAIN m
    BY DEF Parts
  <1>2. /\ Len(k) \in Nat /\ Len(k0) \in Nat
        /\ path \in Seq(Labels) /\ Len(path) = Len(k) + 1 /\ path0 \in Seq(Labels) /\ Len(path0) = Len(k0) + 1
    BY <1>1, EndedFacts
  <1>3. pos \in 1 .. Len(k0) /\ q \in pos .. Len(k) /\ q <= Len(k0)
    BY DEF Parts
  <1>4. pos \in Nat /\ pos >= 1 /\ q \in Nat /\ q >= pos /\ q <= Len(k) /\ q <= Len(k0) /\ pos <= Len(k0)
    BY <1>2, <1>3
  <1>5. path0[q + 1] \in Labels
    <2>1. q + 1 \in 1 .. Len(path0)
      BY <1>2, <1>4
    <2> QED
      BY <2>1, <1>2
  <1>6. KeyAt(t, W, k0, m[k0], pos, a) /\ TailTyped(t) /\ m[k0] \in Nat
    BY <1>1 DEF Parts, StoredAs, TailHolds, IsMap
  <1>7. a \in Nat /\ a >= 2 /\ a + (Len(k0) - pos) + 1 < t.length
    BY <1>4, <1>6 DEF KeyAt, HeaderCells
  <1>8. t.length \in 2 .. MaxTail /\ MaxTail \in Nat
    BY <1>6, TailAssumption DEF TailTyped, HeaderCells
  <1> QED
    BY <1>2, <1>4, <1>5, <1>6, <1>7, <1>8

\* The forest of the map.
BranchHolds(C, m, D2, A2, path, q) == Ends(C, m, D2, A2) /\ NoBare(C) /\ CanBear(C, path, q)

\* Once the suffix's end is one label further, every key of the map ends in it.
LEMMA BranchEnds ==
    ASSUME NEW C, NEW t, NEW m, NEW D, NEW A, NEW W, NEW k, NEW k0, NEW path, NEW path0,
           NEW pos, NEW q, NEW a, Parts(C, t, m, D, A, W, k, k0, path, path0, pos, q, a), NEW a2,
           NEW H, H = Branch(C, m, k0, path, pos, q, a2)
    PROVE  BranchHolds(H, m, SetAt(D, m, k0, q + 1), SetAt(A, m, k0, a2), path, q)
  <1> DEFINE p == Cut(path, pos)
             x0 == EndOf(k0, m[k0], pos, a)
             z == EndOf(k0, m[k0], q + 1, a2)
             X == {y \in C : y[1] # p}
             Y == {InnerOf(Cut(path, j)) : j \in pos .. q}
             D2 == SetAt(D, m, k0, q + 1)
             A2 == SetAt(A, m, k0, a2)
             end(l) == EndOf(l, m[l], D[l], A[l])
             new(l) == EndOf(l, m[l], D2[l], A2[l])
  <1>1. /\ Len(k) \in Nat /\ Len(k0) \in Nat /\ pos \in Nat /\ pos >= 1 /\ q \in Nat /\ q >= pos
        /\ q <= Len(k) /\ q <= Len(k0) /\ path \in Seq(Labels) /\ Len(path) = Len(k) + 1
        /\ path0 \in Seq(Labels) /\ Len(path0) = Len(k0) + 1 /\ path0[q + 1] \in Labels
    BY PartsFacts
  <1>2. /\ IsForest(C) /\ StoredAs(C, t, m, D, A, W) /\ IsKey(k) /\ IsKey(k0) /\ k0 \in DOMAIN m
        /\ path = Ended(k) /\ path0 = Ended(k0) /\ D[k0] = pos /\ A[k0] = a /\ x0 \in C
        /\ Cut(path0, q) = Cut(path, q) /\ path0[q + 1] # path[q + 1]
    BY DEF Parts
  <1>3. \A j \in 0 .. q : Cut(path0, j) = Cut(path, j)
    <2>1. q <= Len(path) /\ q <= Len(path0)
      BY <1>1
    <2> QED
      BY <2>1, <1>1, <1>2, BeginAlike
  <1>4. x0 = end(k0) /\ x0[1] = p /\ x0[2] = FALSE
    <2>1. Cut(path0, pos) = p
      BY <1>1, <1>3
    <2> QED
      BY <2>1, <1>2 DEF EndOf
  <1>5. H = (X \cup Y) \cup {z}
    <2>1. (q + 1) - 1 = q
      BY <1>1
    <2> QED
      BY <2>1 DEF Branch, Stem
  <1>6. z[1] = Named(Cut(path, q), path0[q + 1]) /\ z[2] = FALSE
    <2>1. Cut(path0, q + 1) = Named(Cut(path0, q), path0[q + 1])
      <3>1. q \in 0 .. Len(path0) /\ q < Len(path0)
        BY <1>1
      <3> QED
        BY <3>1, <1>1, CutFacts
    <2> QED
      BY <2>1, <1>2 DEF EndOf
  <1>7. /\ \A y \in C : ~ y[2] => \E l \in DOMAIN m : y = end(l)
        /\ \A l \in DOMAIN m : end(l) \in C /\ end(l)[2] = FALSE
    BY <1>2 DEF StoredAs, Ends, EndOf
  <1>8. \A l \in DOMAIN m : l # k0 => end(l)[1] # p
    <2>1. ASSUME NEW l \in DOMAIN m, end(l)[1] = p PROVE l = k0
      <3>1. Cut(Ended(l), D[l]) = Cut(Ended(k0), D[k0])
        <4>1. Cut(Ended(l), D[l]) = p /\ Cut(Ended(k0), D[k0]) = p
          BY <2>1, <1>4 DEF EndOf
        <4> QED
          BY <4>1
      <3> QED
        BY <3>1, <1>2, EndsDiffer
    <2> QED
      BY <2>1
  <1>9. new(k0) = z /\ \A l \in DOMAIN m : l # k0 => new(l) = end(l)
    BY <1>2 DEF SetAt
  <1>10. \A y \in Y : y[2] = TRUE
    <2>1. \A j \in pos .. q : InnerOf(Cut(path, j))[2] = TRUE
      BY DEF InnerOf
    <2> QED
      BY <2>1
  <1>11. \A j \in pos .. q : InnerOf(Cut(path, j)) \in Y
    OBVIOUS
  <1>12. ~ Has(H, Named(Cut(path, q), path[q + 1]))
    <2> DEFINE b == Named(Cut(path, q), path[q + 1])
    <2>1. Len(b) = q + 1 /\ \A j \in pos .. q : Len(Cut(path, j)) = j
      <3>1. q \in 0 .. Len(path)
        BY <1>1
      <3>2. Len(Cut(path, q)) = q /\ Cut(path, q) \in Seq(Labels)
        BY <3>1, <1>1, CutFacts
      <3>3. \A j \in pos .. q : j \in 0 .. Len(path)
        BY <1>1
      <3> QED
        BY <3>2, <3>3, <1>1, CutFacts DEF Named
    <2>2. \A y \in Y : y[1] # b
      <3>1. ASSUME NEW j \in pos .. q PROVE InnerOf(Cut(path, j))[1] # b
        <4>1. j # q + 1
          BY <1>1
        <4> QED
          BY <4>1, <2>1 DEF InnerOf
      <3> QED
        BY <3>1
    <2>3. z[1] # b
      <3>1. Named(Cut(path, q), path0[q + 1])[q + 1] = path0[q + 1] /\ b[q + 1] = path[q + 1]
        <4>1. q \in 0 .. Len(path)
          BY <1>1
        <4>2. Len(Cut(path, q)) = q /\ Cut(path, q) \in Seq(Labels)
          BY <4>1, <1>1, CutFacts
        <4> QED
          BY <4>2 DEF Named
      <3> QED
        BY <3>1, <1>2, <1>6
    <2>4. \A y \in X : y[1] # b
      <3>1. pos \in 1 .. Len(path) /\ q \in pos .. Len(path) /\ path[q + 1] \in Labels
        <4>1. pos \in 1 .. Len(path) /\ q \in pos .. Len(path) /\ q + 1 \in 1 .. Len(path)
          BY <1>1
        <4> QED
          BY <4>1, <1>1
      <3>2. x0 \in C /\ ~ x0[2] /\ x0[1] = Cut(path, pos)
        BY <1>2, <1>4
      <3> HIDE DEF x0
      <3>3. \A c \in Labels : ~ Has(C, Named(Cut(path, q), c))
        BY <3>1, <3>2, <1>1, <1>2, DeepEmpty
      <3> QED
        BY <3>1, <3>3 DEF Has
    <2> HIDE DEF b, z, X, Y
    <2> QED
      BY <2>2, <2>3, <2>4, <1>5 DEF Has, b
  <1>13. Cut(path, q + 1) = Named(Cut(path, q), path[q + 1])
    <2>1. q \in 0 .. Len(path) /\ q < Len(path)
      BY <1>1
    <2> QED
      BY <2>1, <1>1, CutFacts
  <1>14. CanBear(H, path, q)
    <2>1. q \in pos .. q
      BY <1>1
    <2> QED
      BY <2>1, <1>5, <1>11, <1>12, <1>13 DEF CanBear
  <1> HIDE DEF end, new, D2, A2
  <1>15. Ends(H, m, D2, A2)
    <2>1. ASSUME NEW y \in H, ~ y[2] PROVE \E l \in DOMAIN m : y = new(l)
      <3>1. CASE y = z
        BY <3>1, <1>2, <1>9
      <3>2. CASE y # z
        <4>1. y \in X
          BY <3>2, <2>1, <1>5, <1>10
        <4>2. y \in C /\ y[1] # p
          BY <4>1
        <4>3. PICK l \in DOMAIN m : y = end(l)
          BY <4>2, <2>1, <1>7
        <4>4. l # k0
          BY <4>2, <4>3, <1>4
        <4> QED
          BY <4>3, <4>4, <1>9
      <3> QED
        BY <3>1, <3>2
    <2>2. ASSUME NEW l \in DOMAIN m PROVE new(l) \in H
      <3>1. CASE l = k0
        BY <3>1, <1>5, <1>9
      <3>2. CASE l # k0
        <4>1. end(l) \in X
          BY <3>2, <1>7, <1>8
        <4> QED
          BY <4>1, <3>2, <1>5, <1>9
      <3> QED
        BY <3>1, <3>2
    <2> QED
      BY <2>1, <2>2 DEF Ends, new
  <1>16. NoBare(H)
    <2>1. ASSUME NEW y \in H, y[2] PROVE \E c \in Labels : Has(H, Named(y[1], c))
      <3>1. CASE y \in X
        <4>1. y \in C
          BY <3>1
        <4>2. PICK c \in Labels : Has(C, Named(y[1], c))
          BY <4>1, <2>1, <1>2 DEF StoredAs, NoBare
        <4>3. PICK b \in C : b[1] = Named(y[1], c)
          BY <4>2 DEF Has
        <4>4. CASE b[1] # p
          <5>1. b \in H
            BY <4>4, <1>5
          <5> QED
            BY <5>1, <4>3 DEF Has
        <4>5. CASE b[1] = p
          <5>1. InnerOf(p) \in H /\ InnerOf(p)[1] = p
            <6>1. pos \in pos .. q
              BY <1>1
            <6> QED
              BY <6>1, <1>5, <1>11 DEF InnerOf
          <5> QED
            BY <5>1, <4>3, <4>5 DEF Has
        <4> QED
          BY <4>4, <4>5
      <3>2. CASE y \in Y
        <4>1. PICK j \in pos .. q : y = InnerOf(Cut(path, j))
          BY <3>2
        <4>2. y[1] = Cut(path, j)
          BY <4>1 DEF InnerOf
        <4>3. CASE j = q
          BY <4>2, <4>3, <1>1, <1>5, <1>6 DEF Has
        <4>4. CASE j # q
          <5>1. j \in 0 .. Len(path) /\ j < Len(path) /\ j + 1 \in pos .. q /\ j + 1 \in 1 .. Len(path)
            BY <4>4, <1>1
          <5>2. Cut(path, j + 1) = Named(Cut(path, j), path[j + 1]) /\ path[j + 1] \in Labels
            BY <5>1, <1>1, CutFacts
          <5>3. InnerOf(Cut(path, j + 1)) \in H /\ InnerOf(Cut(path, j + 1))[1] = Cut(path, j + 1)
            BY <5>1, <1>5, <1>11 DEF InnerOf
          <5> QED
            BY <5>2, <5>3, <4>2 DEF Has
        <4> QED
          BY <4>3, <4>4
      <3> QED
        BY <3>1, <3>2, <2>1, <1>5, <1>6
    <2> QED
      BY <2>1 DEF NoBare
  <1> QED
    BY <1>14, <1>15, <1>16 DEF BranchHolds, D2, A2

\* The places in the cells a suffix leaves.
PlacesAs(a, freed, P, n) ==
    /\ n \in Nat /\ P \in Seq(Nat) /\ Len(P) = n /\ \A i \in 1 .. n : P[i] = a + (i - 1) * 2
    /\ IF freed < 0 THEN n = 0 ELSE 2 * n <= freed + 2

\* That is what PlacesIn offers: as many as fit.
LEMMA PlacesFacts ==
    ASSUME NEW a \in Nat, NEW freed \in Int, NEW P, P = PlacesIn(a, freed), NEW n, n = Len(P)
    PROVE  PlacesAs(a, freed, P, n)
  <1>1. CASE freed < 0
    <2>1. P = <<>>
      BY <1>1 DEF PlacesIn
    <2> QED
      BY <2>1, <1>1 DEF PlacesAs
  <1>2. CASE ~ (freed < 0)
    <2> DEFINE h == freed \div 2 + 1
    <2>1. h \in Nat /\ 2 * h <= freed + 2
      BY <1>2
    <2>2. P = [i \in 1 .. h |-> a + (i - 1) * 2]
      BY <1>2 DEF PlacesIn, ValueCells
    <2> HIDE DEF h
    <2>3. \A i \in 1 .. h : a + (i - 1) * 2 \in Nat
      BY <2>1
    <2>4. P \in Seq(Nat) /\ Len(P) = h
      BY <2>1, <2>2, <2>3
    <2> QED
      BY <2>1, <2>2, <2>4, <1>2 DEF PlacesAs
  <1> QED
    BY <1>1, <1>2

\* The tail, with those places on offer and the suffix shorter.
SplitAs(t, u, a, n) ==
    /\ {"tail", "length", "tail0"} \subseteq DOMAIN u
    /\ u.tail = t.tail /\ u.length = t.length
    /\ u.tail0 = t.tail0 \o PlacesIn(a, Freed(n, t.tail[a + n]))

\* The cells of n places from a on are given to the places from h on.
Freeing(W, a, n, h) ==
    [x \in Cells |-> IF x \in a .. a + 2 * n - 1 THEN << <<>>, h + 1 + ((x - a) \div 2)>> ELSE W[x]]

\* Such a tail holds the map, with the suffix's end where it went.
LEMMA SplitTail ==
    ASSUME NEW C, NEW t, NEW m, NEW D, NEW A, NEW W, NEW k, NEW k0, NEW path, NEW path0,
           NEW pos, NEW q, NEW a, Parts(C, t, m, D, A, W, k, k0, path, path0, pos, q, a),
           NEW u, SplitAs(t, u, a, q - pos)
    PROVE  \E W2 : TailHolds(u, m, SetAt(D, m, k0, q + 1), SetAt(A, m, k0, a + (q - pos) + 1), W2)
  <1> DEFINE n == q - pos
             N0 == Len(k0)
             c == t.tail[a + n]
             freed == Freed(n, c)
             Q == PlacesIn(a, freed)
             np == Len(Q)
             h == Len(t.tail0)
             W2 == Freeing(W, a, np, h)
             a2 == a + n + 1
             D2 == SetAt(D, m, k0, q + 1)
             A2 == SetAt(A, m, k0, a2)
  <1>1. /\ N0 \in Nat /\ pos \in Nat /\ pos >= 1 /\ q \in Nat /\ q >= pos /\ q <= N0
        /\ a \in Nat /\ a >= 2 /\ path0 \in Seq(Labels) /\ Len(path0) = N0 + 1
        /\ a + (N0 - pos) + 1 < t.length /\ t.length \in Nat /\ t.length <= MaxTail /\ MaxTail \in Nat
    BY PartsFacts
  <1>2. /\ StoredAs(C, t, m, D, A, W) /\ IsKey(k0) /\ k0 \in DOMAIN m
        /\ path0 = Ended(k0) /\ D[k0] = pos /\ A[k0] = a /\ c = path0[q + 1]
    BY DEF Parts
  <1>3. n \in Nat /\ n <= N0 - pos /\ q = pos + n
    BY <1>1
  <1>4. c = 0 <=> n = N0 - pos
    <2>1. path0[N0 + 1] = 0 /\ \A i \in 1 .. N0 : path0[i] # 0
      BY <1>2, EndedFacts
    <2>2. q + 1 \in 1 .. N0 \/ q = N0
      BY <1>1
    <2>3. q + 1 \in 1 .. N0 <=> q < N0
      BY <1>1
    <2>4. q = N0 <=> n = N0 - pos
      BY <1>1
    <2> HIDE DEF n, c
    <2> QED
      BY <2>1, <2>2, <2>3, <2>4, <1>1, <1>2
  <1>5. freed \in Int /\ freed = IF c # 0 THEN n - 1 ELSE n
    BY <1>3 DEF Freed, ValueCells
  <1>6. PlacesAs(a, freed, Q, np)
    <2> HIDE DEF freed, Q
    <2>1. Q = PlacesIn(a, freed)
      BY DEF Q
    <2> QED
      BY <2>1, <1>1, <1>5, PlacesFacts
  <1>7. /\ np \in Nat /\ Q \in Seq(Nat) /\ \A i \in 1 .. np : Q[i] = a + (i - 1) * 2
        /\ a + 2 * np - 1 <= a + (N0 - pos) + 1
        /\ n < N0 - pos => a + 2 * np - 1 < a2
    <2>1. /\ np \in Nat /\ Q \in Seq(Nat) /\ \A i \in 1 .. np : Q[i] = a + (i - 1) * 2
          /\ IF freed < 0 THEN np = 0 ELSE 2 * np <= freed + 2
      BY <1>6 DEF PlacesAs
    <2> HIDE DEF Q, np, freed, c, N0, n
    <2>2. 2 * np <= IF c # 0 THEN n + 1 ELSE n + 2
      BY <2>1, <1>3, <1>5
    <2>3. a + 2 * np - 1 <= a + (N0 - pos) + 1
      BY <2>1, <2>2, <1>1, <1>3, <1>4
    <2>4. n < N0 - pos => a + 2 * np - 1 < a2
      BY <2>1, <2>2, <1>1, <1>3, <1>4
    <2> QED
      BY <2>1, <2>3, <2>4
  <1>8. TailTyped(t) /\ t.tail0 \in Seq(Nat) /\ h \in Nat /\ DOMAIN t.tail0 = 1 .. h
    BY <1>2 DEF StoredAs, TailHolds, TailTyped
  <1>9. u.tail = t.tail /\ u.length = t.length /\ u.tail0 = t.tail0 \o Q /\ {"tail", "length", "tail0"} \subseteq DOMAIN u
    BY DEF SplitAs
  <1> HIDE DEF Q, np, h, c, freed
  <1>10. /\ u.tail0 \in Seq(Nat) /\ DOMAIN u.tail0 = 1 .. h + np
         /\ \A i \in 1 .. h : u.tail0[i] = t.tail0[i]
         /\ \A i \in 1 .. np : u.tail0[h + i] = Q[i]
    <2> DEFINE z == t.tail0
    <2>1. Len(Q) = np /\ Len(z) = h /\ z \in Seq(Nat) /\ Q \in Seq(Nat) /\ np \in Nat /\ h \in Nat
      BY <1>7, <1>8 DEF np, h
    <2> HIDE DEF z
    <2>2. z \o Q \in Seq(Nat)
      BY <2>1
    <2>3. Len(z \o Q) = h + np
      BY <2>1
    <2>4. \A i \in 1 .. h : (z \o Q)[i] = z[i]
      BY <2>1
    <2>5. \A i \in 1 .. np : (z \o Q)[h + i] = Q[i]
      <3>1. ASSUME NEW i \in 1 .. np PROVE (z \o Q)[h + i] = Q[i]
        <4> DEFINE j == h + i
        <4>1. j \in 1 .. Len(z) + Len(Q) /\ ~ (j <= Len(z)) /\ j - Len(z) = i
          BY <2>1
        <4> HIDE DEF j
        <4>2. (z \o Q)[j] = Q[j - Len(z)]
          BY <4>1, <2>1, ConcatProperties
        <4> QED
          BY <4>1, <4>2 DEF j
      <3> QED
        BY <3>1
    <2>6. DOMAIN (z \o Q) = 1 .. h + np
      BY <2>2, <2>3
    <2>7. u.tail0 = z \o Q
      BY <1>9 DEF z
    <2> QED
      BY <2>2, <2>4, <2>5, <2>6, <2>7 DEF z
  <1>11. TailTyped(u)
    BY <1>8, <1>9, <1>10 DEF TailTyped
  <1>12. KeyAt(t, W, k0, m[k0], pos, a)
    BY <1>2 DEF StoredAs, TailHolds
  <1>13. \A x \in a .. a + 2 * np - 1 : x \in Extent(k0, pos, a) /\ W[x] = <<k0, 0>> /\ x \in Cells
    <2>1. ASSUME NEW x \in a .. a + 2 * np - 1 PROVE x \in Extent(k0, pos, a) /\ W[x] = <<k0, 0>> /\ x \in Cells
      <3>1. x \in Extent(k0, pos, a)
        BY <1>1, <1>7 DEF Extent, N0
      <3>2. pos <= Len(k0)
        BY <1>1, <1>3 DEF N0
      <3> QED
        BY <3>1, <3>2, <1>2, CellsApart
    <2> QED
      BY <2>1
  <1>14. \A x \in Cells : W2[x] = IF x \in a .. a + 2 * np - 1 THEN << <<>>, h + 1 + ((x - a) \div 2)>> ELSE W[x]
    BY DEF Freeing
  <1> HIDE DEF W2, a2, n, N0
  <1>15. D2[k0] = q + 1 /\ A2[k0] = a2 /\ \A l \in DOMAIN m : l # k0 => D2[l] = D[l] /\ A2[l] = A[l]
    BY <1>2 DEF SetAt
  <1> HIDE DEF D2, A2
  <1>16. ASSUME NEW l \in DOMAIN m PROVE KeyAt(u, W2, l, m[l], D2[l], A2[l])
    <2>1. CASE l # k0
      <3>1. KeyAt(t, W, l, m[l], D[l], A[l]) /\ IsKey(l)
        BY <1>2 DEF StoredAs, TailHolds, IsMap
      <3>2. Len(l) \in Nat
        BY <3>1, EndedFacts
      <3>3. D[l] <= Len(l) => \A x \in Extent(l, D[l], A[l]) : u.tail[x] = t.tail[x] /\ W2[x] = W[x]
        <4>1. ASSUME D[l] <= Len(l), NEW x \in Extent(l, D[l], A[l]) PROVE W2[x] = W[x]
          <5>1. x \in Cells /\ W[x] = <<l, 0>>
            BY <4>1, <1>2, CellsApart
          <5>2. x \notin a .. a + 2 * np - 1
            BY <5>1, <1>13, <2>1
          <5> QED
            BY <5>1, <5>2, <1>14
        <4> QED
          BY <4>1, <1>9
      <3>4. t.length <= u.length /\ u.length \in Nat
        BY <1>1, <1>9
      <3>5. KeyAt(u, W2, l, m[l], D[l], A[l])
        BY <3>1, <3>2, <3>3, <3>4, <1>1, KeptKey
      <3> QED
        BY <3>5, <2>1, <1>15
    <2>2. CASE l = k0
      <3>1. N0 = Len(k0) /\ n = q - pos /\ a2 = a + n + 1
        BY DEF N0, n, a2
      <3>2. CASE q = N0
        <4>1. D2[l] \in 1 .. Len(l) + 1 /\ ~ (D2[l] <= Len(l))
          BY <3>1, <3>2, <2>2, <1>1, <1>15
        <4> QED
          BY <4>1 DEF KeyAt
      <3>3. CASE q # N0
        <4>1. q < N0 /\ n < N0 - pos
          BY <3>1, <3>3, <1>1
        <4>2. \A j \in q + 2 .. N0 : j \in pos + 1 .. N0 /\ a2 + (j - (q + 1) - 1) = a + (j - pos - 1)
          BY <3>1, <1>1
        <4>3. a2 + (N0 - (q + 1)) = a + (N0 - pos) /\ a2 \in Nat /\ a2 >= 2
          BY <3>1, <1>1
        <4>4. /\ \A j \in pos + 1 .. N0 : t.tail[a + (j - pos - 1)] = k0[j]
              /\ t.tail[a + (N0 - pos)] = 0 /\ t.tail[a + (N0 - pos) + 1] = m[k0]
          BY <3>1, <1>1, <1>12 DEF KeyAt, Spelled
        <4>5. Spelled(u, k0, m[k0], q + 1, a2)
          <5>1. (q + 1) + 1 = q + 2
            BY <1>1
          <5>2. \A j \in (q + 1) + 1 .. N0 : u.tail[a2 + (j - (q + 1) - 1)] = k0[j]
            BY <5>1, <4>2, <4>4, <1>9
          <5>3. u.tail[a2 + (N0 - (q + 1))] = 0 /\ u.tail[a2 + (N0 - (q + 1)) + 1] = m[k0]
            BY <4>3, <4>4, <1>9
          <5> QED
            BY <5>2, <5>3, <3>1 DEF Spelled
        <4>6. ASSUME NEW x \in Extent(k0, q + 1, a2) PROVE W2[x] = <<k0, 0>>
          <5>1. x \in a2 .. a + (N0 - pos) + 1
            BY <4>3, <3>1 DEF Extent
          <5>2. x \in Extent(k0, pos, a) /\ ~ (x < a2)
            BY <5>1, <4>3, <3>1, <1>1 DEF Extent
          <5>3. x \notin a .. a + 2 * np - 1
            BY <5>1, <4>1, <4>3, <1>1, <1>7
          <5>4. pos <= Len(k0)
            BY <3>1, <1>1
          <5>5. x \in Cells /\ W[x] = <<k0, 0>>
            BY <5>2, <5>4, <1>2, CellsApart
          <5> QED
            BY <5>3, <5>5, <1>14
        <4>7. q + 1 \in 1 .. N0 + 1 /\ a2 + (N0 - (q + 1)) + 1 < u.length
          BY <4>1, <4>3, <1>1, <1>9
        <4>8. KeyAt(u, W2, k0, m[k0], q + 1, a2)
          BY <4>3, <4>5, <4>6, <4>7, <3>1 DEF KeyAt, HeaderCells
        <4> QED
          BY <4>8, <2>2, <1>15
      <3> QED
        BY <3>2, <3>3
    <2> QED
      BY <2>1, <2>2
  <1>17. ASSUME NEW i \in DOMAIN u.tail0 PROVE PlaceAt(u, W2, i)
    <2>1. CASE i \in 1 .. h
      <3>1. PlaceAt(t, W, i)
        BY <2>1, <1>2, <1>8 DEF StoredAs, TailHolds
      <3>2. /\ t.tail0[i] \in Nat /\ t.tail0[i] >= HeaderCells /\ t.tail0[i] + 1 < t.length
            /\ W[t.tail0[i]] = << <<>>, i>> /\ W[t.tail0[i] + 1] = << <<>>, i>>
        BY <3>1 DEF PlaceAt
      <3>3. t.tail0[i] \in Cells /\ t.tail0[i] + 1 \in Cells
        BY <3>2, <1>1 DEF Cells
      <3>4. <<k0, 0>> # << <<>>, i>>
        BY <1>2 DEF IsKey
      <3>5. t.tail0[i] \notin a .. a + 2 * np - 1 /\ t.tail0[i] + 1 \notin a .. a + 2 * np - 1
        BY <3>2, <3>4, <1>13
      <3>6. W2[t.tail0[i]] = << <<>>, i>> /\ W2[t.tail0[i] + 1] = << <<>>, i>>
        BY <3>2, <3>3, <3>5, <1>14
      <3> QED
        BY <3>2, <3>6, <2>1, <1>9, <1>10 DEF PlaceAt
    <2>2. CASE i \notin 1 .. h
      <3> DEFINE j == i - h
                 b == a + (j - 1) * 2
      <3>1. j \in 1 .. np /\ h + j = i
        BY <2>2, <1>7, <1>8, <1>10
      <3> HIDE DEF j
      <3>2. u.tail0[i] = b
        BY <3>1, <1>7, <1>10
      <3>3. /\ b \in a .. a + 2 * np - 1 /\ b + 1 \in a .. a + 2 * np - 1 /\ b \in Nat /\ b >= 2
            /\ (b - a) \div 2 = j - 1 /\ ((b + 1) - a) \div 2 = j - 1
        BY <3>1, <1>1, <1>7
      <3>4. h + 1 + (j - 1) = i
        BY <3>1, <1>8, <1>7
      <3> HIDE DEF b
      <3>5. b \in Cells /\ b + 1 \in Cells
        BY <3>3, <1>13
      <3>6. W2[b] = << <<>>, i>> /\ W2[b + 1] = << <<>>, i>>
        <4>1. W2[b] = << <<>>, i>> /\ W2[b + 1] = << <<>>, i>>
          <5> DEFINE b1 == b + 1
          <5>1. b1 \in Cells /\ b1 \in a .. a + 2 * np - 1
            BY <3>3, <3>5
          <5> HIDE DEF b1
          <5>2. W2[b1] = << <<>>, h + 1 + ((b1 - a) \div 2)>>
            BY <5>1, <1>14
          <5>3. W2[b] = << <<>>, h + 1 + ((b - a) \div 2)>>
            BY <3>3, <3>5, <1>14
          <5>4. (b1 - a) \div 2 = j - 1
            BY <3>3 DEF b1
          <5>5. W2[b1] = << <<>>, i>> /\ W2[b] = << <<>>, i>>
            BY <5>2, <5>3, <5>4, <3>3, <3>4
          <5> QED
            BY <5>5 DEF b1
        <4> QED
          BY <4>1
      <3>7. b + 1 < u.length
        BY <3>3, <1>1, <1>7, <1>9
      <3> QED
        BY <3>2, <3>3, <3>6, <3>7 DEF PlaceAt, HeaderCells
    <2> QED
      BY <2>1, <2>2
  <1>18. TailHolds(u, m, D2, A2, W2)
    BY <1>11, <1>16, <1>17 DEF TailHolds
  <1> QED
    BY <1>18 DEF D2, A2, a2, n

-----------------------------------------------------------------------------
(* What is left of the suffix gets a child.                                *)

\* Its name is new.
LEMMA StemAbove ==
    ASSUME NEW C, IsForest(C), NEW path \in Seq(Labels), NEW pos \in 1 .. Len(path),
           NEW x \in C, x[1] = Cut(path, pos), ~ x[2], NEW q \in pos .. Len(path), NEW l \in Labels,
           NEW p, p = Cut(path, q)
    PROVE  \A y \in Stem(C, path, pos, q + 1) : y[1] # Named(p, l)
  <1> DEFINE T == Thread(C, path, pos, q, 0)
             r == Named(p, l)
  <1>1. StemNames(C, path, pos, q, T, l)
    BY StemNamesAre
  <1>2. \A y \in Stem(C, path, pos, q) : y[1] # r
    BY <1>1 DEF StemNames, Has, Thread
  <1>3. p # r
    <2>1. q \in 0 .. Len(path)
      OBVIOUS
    <2>2. p \in Seq(Labels)
      BY <2>1, CutFacts
    <2> QED
      BY <2>2 DEF Named
  <1> HIDE DEF r
  <1>4. ASSUME NEW y \in Stem(C, path, pos, q + 1) PROVE y[1] # r
    <2>1. CASE y \in Stem(C, path, pos, q)
      BY <2>1, <1>2
    <2>2. CASE y \notin Stem(C, path, pos, q)
      <3>1. PICK j \in pos .. (q + 1) - 1 : y = InnerOf(Cut(path, j))
        BY <2>2, <1>4 DEF Stem
      <3>2. j \notin pos .. q - 1
        BY <3>1, <2>2 DEF Stem
      <3>3. j = q
        BY <3>1, <3>2
      <3>4. y = InnerOf(p)
        BY <3>1, <3>3
      <3>5. InnerOf(p)[1] = p
        BY DEF InnerOf
      <3> QED
        BY <3>4, <3>5, <1>3
    <2> QED
      BY <2>1, <2>2
  <1> QED
    BY <1>4 DEF r

\* The child of the node where they part, with b as its base.
LeafMade(R, f, E, p, l, V, P, L, O) ==
    /\ TrieAs(R, f.t, E, V, P, L, O) /\ f.to \in V /\ f.to \in Slots /\ P[f.to] = Named(p, l) /\ L[f.to] = l
    /\ ~ InnerNode(f.t, L, f.to) /\ f.t.array[f.to].base = IF l # 0 THEN -1 ELSE 0
    /\ f.from \in V \cup {0} /\ P[f.from] = p
    /\ f.t.array \in [Slots -> [base : Int, check : Int]] /\ "array" \in DOMAIN f.t

\* Where the walk may make that child.
MayBranch(R, v, C, path, pos, q, b, l) ==
    /\ IsForest(C) /\ path \in Seq(Labels) /\ pos \in 1 .. Len(path) /\ q \in pos .. Len(path)
    /\ path[q] # 0 /\ l \in Labels /\ v.t.nblk < MaxBlocks
    /\ \E x \in C : x[1] = Cut(path, pos) /\ ~ x[2]
    /\ Stands(R, v, Thread(C, path, pos, q, b), Cut(path, q))

\* The tail stays, and at most one block is new.
LeafSteps(v, f) == SameTail(v.t, f.t) /\ f.t.nblk \in {v.t.nblk, v.t.nblk + 1}

\* _follow makes that child.
LEMMA LeafIsMade ==
    ASSUME NEW R, Spare("chain", R), NEW v, NEW C, NEW path, NEW pos, NEW q, NEW b, NEW l,
           MayBranch(R, v, C, path, pos, q, b, l), NEW p, p = Cut(path, q),
           NEW f, f = Follow(v.t, v.at, l),
           NEW E, E = Stem(C, path, pos, q + 1) \cup {Leaf(Named(p, l), l)}
    PROVE  LeafSteps(v, f) /\ \E V, P, L, O : LeafMade(R, f, E, p, l, V, P, L, O)
  <1> DEFINE T == Thread(C, path, pos, q, b)
             r == Named(p, l)
             z == Leaf(r, l)
  <1>1. PICK x \in C : x[1] = Cut(path, pos) /\ ~ x[2]
    BY DEF MayBranch
  <1>2. /\ IsForest(C) /\ path \in Seq(Labels) /\ pos \in 1 .. Len(path) /\ q \in pos .. Len(path)
        /\ path[q] # 0 /\ l \in Labels /\ v.t.nblk < MaxBlocks /\ Stands(R, v, T, p)
    BY DEF MayBranch
  <1>3. q \in 0 .. Len(path) /\ q >= 1 /\ q \in 1 .. q /\ Len(path) \in Nat
    BY <1>2
  <1>4. p \in Seq(Labels) /\ Len(p) = q /\ p[q] = path[q]
    BY <1>2, <1>3, CutFacts
  <1>5. Extended(T, p, l) = E
    BY <1>1, <1>2, ThreadGrows
  <1>6. StemNames(C, path, pos, q, T, l)
    BY <1>1, <1>2, StemNamesAre
  <1> HIDE DEF T
  <1>7. CanGo(R, v, p, l)
    <2>1. p # <<>> /\ p[Len(p)] # 0
      BY <1>2, <1>3, <1>4
    <2> QED
      BY <2>1, <1>2, <1>4 DEF CanGo
  <1>8. Bore(R, v, T, p, l, f)
    BY <1>2, <1>7, FollowBears
  <1>9. PICK V, P, L, O : Followed(R, E, p, l, f, V, P, L, O)
    BY <1>5, <1>8 DEF Bore, HasChild
  <1>10. /\ TrieAs(R, f.t, E, V, P, L, O) /\ f.to \in V /\ P[f.to] = r /\ L[f.to] = l
         /\ f.from \in V \cup {0} /\ P[f.from] = p
         /\ f.t.array \in [Slots -> [base : Int, check : Int]] /\ "array" \in DOMAIN f.t /\ f.to \in Slots
    <2>1. /\ Sound(R, f.t) /\ V = Taken(f.t) /\ IsTree(f.t, V, P, L, O, {}, {})
          /\ f.from \in V \cup {0} /\ P[f.from] = p
          /\ f.to \in V /\ f.t.array[f.to].check = f.from /\ L[f.to] = l
          /\ Content(f.t, V, P, L) = E
      BY <1>9 DEF Followed
    <2>2. P[f.to] = r
      BY <2>1 DEF IsTree, Edges
    <2>3. TrieTyped(f.t) /\ V \subseteq Slots
      BY <2>1 DEF IsTree, GhostTyped
    <2> QED
      BY <2>1, <2>2, <2>3 DEF TrieAs, TrieTyped
  <1>11. \A y \in E : y[1] = r => y = z
    <2>1. \A y \in Stem(C, path, pos, q + 1) : y[1] # r
      BY <1>1, <1>2, StemAbove
    <2>2. E = Stem(C, path, pos, q + 1) \cup {z}
      OBVIOUS
    <2> HIDE DEF r, z
    <2> QED
      BY <2>1, <2>2
  <1> HIDE DEF r, z
  <1>12. Holding(f.t, P, L, f.to) = z
    <2>1. Holding(f.t, P, L, f.to) \in E /\ Holding(f.t, P, L, f.to)[1] = r
      BY <1>10, NodesOf DEF TrieAs
    <2> QED
      BY <2>1, <1>11
  <1>13. ~ InnerNode(f.t, L, f.to) /\ f.t.array[f.to].base = IF l # 0 THEN -1 ELSE 0
    BY <1>12 DEF Holding, InnerOf, z, Leaf
  <1>14. LeafMade(R, f, E, p, l, V, P, L, O)
    BY <1>10, <1>13 DEF LeafMade, r
  <1> QED
    BY <1>8, <1>14 DEF Bore, LeafSteps

\* It holds b.
LEMMA LeafGiven ==
    ASSUME NEW R, NEW f, NEW C, NEW path, NEW pos, NEW q, NEW p, NEW l, NEW V, NEW P, NEW L, NEW O,
           NEW S, NEW E, E = S \cup {Leaf(Named(p, l), l)}, \A y \in S : y[1] # Named(p, l),
           LeafMade(R, f, E, p, l, V, P, L, O), NEW b \in Int, l = 0 \/ b < 0,
           NEW g, BasedAs(f.t, g.t, f.to, b), g.at = f.from
    PROVE  Stands(R, g, S \cup {<<Named(p, l), FALSE, b>>}, p)
  <1> DEFINE r == Named(p, l)
             z == Leaf(r, l)
             z2 == <<r, FALSE, b>>
             t == f.t
             e == f.to
             u == g.t
             E2 == S \cup {z2}
  <1>1. TrieAs(R, t, E, V, P, L, O) /\ e \in V /\ P[e] = r /\ L[e] = l /\ ~ InnerNode(t, L, e)
    BY DEF LeafMade
  <1>2. L[e] = 0 \/ b < 0
    BY <1>1
  <1>3. BasedAs(t, u, e, b)
    OBVIOUS
  <1> HIDE DEF t, e, u
  <1>4. TrieAs(R, u, Renewed(E, r, b), V, P, L, O)
    BY <1>1, <1>2, <1>3, RefillOne
  <1>5. Renewed(E, r, b) = E2
    <2>1. z[1] = r
      BY DEF Leaf
    <2>2. E = S \cup {z}
      OBVIOUS
    <2>3. Renewed(E, r, b) = {x \in E : x[1] # r} \cup {z2}
      BY DEF Renewed
    <2>4. \A y \in S : y[1] # r
      OBVIOUS
    <2> HIDE DEF z, z2, r
    <2> QED
      BY <2>1, <2>2, <2>3, <2>4
  <1>6. g.at \in V \cup {0} /\ P[g.at] = p
    BY DEF LeafMade
  <1>7. StandsAt(R, g, E2, p, V, P, L, O)
    BY <1>4, <1>5, <1>6 DEF StandsAt, TrieAs, u
  <1> HIDE DEF E2
  <1>8. Stands(R, g, E2, p)
    BY <1>7 DEF Stands
  <1> QED
    BY <1>8 DEF E2

\* What becomes of the suffix.
KeptSuffix(p, a, n) == KeepValue(FreeCells(KeepSuffix(p, a, n), a, n), a, n)

\* The places are offered.
FreeForm(p, r, a, n) ==
    /\ r.at = p.at /\ DOMAIN r.t = DOMAIN p.t
    /\ \A x \in DOMAIN p.t \ {"tail0"} : r.t[x] = p.t[x]
    /\ r.t.tail0 = p.t.tail0 \o PlacesIn(a, Freed(n, p.t.tail[a + n]))

\* That is all FreeCells does.
LEMMA FreeForms ==
    ASSUME NEW t, "tail0" \in DOMAIN t, NEW e, NEW p, p = [t |-> t, at |-> e], NEW a, NEW n,
           NEW r, r = FreeCells(p, a, n)
    PROVE  FreeForm(p, r, a, n)
  <1> DEFINE Q == PlacesIn(a, Freed(n, t.tail[a + n]))
  <1>1. r = [p EXCEPT !.t = [t EXCEPT !.tail0 = t.tail0 \o Q]]
    BY DEF FreeCells
  <1> HIDE DEF Q
  <1>2. r.at = e /\ r.t = [t EXCEPT !.tail0 = t.tail0 \o Q]
    BY <1>1
  <1>3. p.t = t /\ p.at = e
    OBVIOUS
  <1> QED
    BY <1>2, <1>3 DEF FreeForm, Q

\* The writes to a child.
GiveForm(f, g, b) == BasedAs(f.t, g.t, f.to, b) /\ g.at = f.from /\ SameTail(f.t, g.t)

\* That is all GiveSuffix and GiveValue do.
LEMMA GiveForms ==
    ASSUME NEW f, "array" \in DOMAIN f.t, f.t.array \in [Slots -> [base : Int, check : Int]], f.to \in Slots,
           NEW a, NEW v
    PROVE  /\ GiveForm(f, GiveSuffix(f, a), - a)
           /\ GiveForm(f, GiveValue(f, v), f.t.array[f.to].base + v)
  <1> DEFINE t == f.t
             e == f.to
             A(b) == [t.array EXCEPT ![e].base = b]
             u(b) == [t EXCEPT !.array = A(b)]
             g(b) == [t |-> u(b), at |-> f.from]
  <1>1. GiveSuffix(f, a) = g(- a)
    BY DEF GiveSuffix
  <1>2. GiveValue(f, v) = g(t.array[e].base + v)
    BY DEF GiveValue
  <1>3. ASSUME NEW b PROVE GiveForm(f, g(b), b)
    <2>1. A(b) = [t.array EXCEPT ![e] = Node(b, t.array[e].check)]
      BY DEF Node
    <2>2. g(b).t = u(b) /\ g(b).at = f.from
      OBVIOUS
    <2> HIDE DEF A
    <2>3. /\ DOMAIN u(b) = DOMAIN t /\ u(b).array = A(b)
          /\ \A x \in DOMAIN t \ {"array"} : u(b)[x] = t[x]
      OBVIOUS
    <2> HIDE DEF u, g
    <2>4. BasedAs(t, g(b).t, e, b)
      BY <2>1, <2>2, <2>3 DEF BasedAs
    <2>5. SameTail(t, g(b).t)
      BY <2>2, <2>3 DEF SameTail
    <2> QED
      BY <2>2, <2>4, <2>5 DEF GiveForm
  <1> HIDE DEF g
  <1> QED
    BY <1>1, <1>2, <1>3

\* The same place in the same tree, with another tail.
LEMMA StandsTail ==
    ASSUME NEW R, NEW s, NEW C, NEW p, Stands(R, s, C, p), NEW r, r.at = s.at, TailOnly(s.t, r.t)
    PROVE  Stands(R, r, C, p)
  <1>1. PICK V, P, L, O : StandsAt(R, s, C, p, V, P, L, O)
    BY DEF Stands
  <1> DEFINE t == s.t
             u == r.t
  <1>2. TrieAs(R, t, C, V, P, L, O) /\ s.at \in V \cup {0} /\ P[s.at] = p
    BY <1>1 DEF StandsAt, TrieAs
  <1>3. TailOnly(t, u)
    OBVIOUS
  <1> HIDE DEF t, u
  <1>4. TrieAs(R, u, C, V, P, L, O)
    BY <1>2, <1>3, TrieTail
  <1>5. StandsAt(R, r, C, p, V, P, L, O)
    BY <1>2, <1>4 DEF StandsAt, TrieAs, u
  <1> QED
    BY <1>5 DEF Stands

\* It does: the walk stands where they part.
KeptTo(R, t, tv, w, C, m, k0, path, pos, q, a) ==
    /\ Stands(R, w, Branch(C, m, k0, path, pos, q, a + (q - pos) + 1), Cut(path, q))
    /\ SplitAs(t, w.t, a, q - pos) /\ w.t.nblk \in {tv.nblk, tv.nblk + 1}

\* The label that goes on, and its end.
BranchEnd(C, t, m, k0, path, path0, pos, q, a, l, S) ==
    /\ l = path0[q + 1] /\ l \in Labels /\ l = t.tail[a + (q - pos)]
    /\ l = 0 => t.tail[a + (q - pos) + 1] = m[k0]
    /\ Branch(C, m, k0, path, pos, q, a + (q - pos) + 1)
         = S \cup {<<Named(Cut(path, q), l), FALSE, IF l = 0 THEN m[k0] ELSE - (a + (q - pos) + 1)>>}
    /\ \A y \in S : y[1] # Named(Cut(path, q), l)

\* They are: the label is the one in the tail where the keys part.
LEMMA BranchEndIs ==
    ASSUME NEW C, NEW t, NEW m, NEW D, NEW A, NEW W, NEW k, NEW k0, NEW path, NEW path0,
           NEW pos, NEW q, NEW a, Parts(C, t, m, D, A, W, k, k0, path, path0, pos, q, a),
           NEW l, l = path0[q + 1], NEW S, S = Stem(C, path, pos, q + 1)
    PROVE  BranchEnd(C, t, m, k0, path, path0, pos, q, a, l, S)
  <1> DEFINE p == Cut(path, q)
             a2 == a + (q - pos) + 1
             N0 == Len(k0)
  <1>1. /\ Len(k) \in Nat /\ N0 \in Nat /\ pos \in Nat /\ pos >= 1 /\ q \in Nat /\ q >= pos
        /\ q <= Len(k) /\ q <= N0 /\ a \in Nat
        /\ path \in Seq(Labels) /\ Len(path) = Len(k) + 1 /\ path0 \in Seq(Labels) /\ Len(path0) = N0 + 1
        /\ path0[q + 1] \in Labels
    BY PartsFacts
  <1>2. /\ IsForest(C) /\ StoredAs(C, t, m, D, A, W) /\ IsKey(k0) /\ k0 \in DOMAIN m
        /\ path0 = Ended(k0) /\ D[k0] = pos /\ A[k0] = a
        /\ Cut(path0, q) = p /\ t.tail[a + (q - pos)] = l /\ EndOf(k0, m[k0], pos, a) \in C
    BY DEF Parts
  <1>3. l = 0 <=> q = N0
    <2>1. path0[N0 + 1] = 0 /\ \A i \in 1 .. N0 : path0[i] # 0
      BY <1>2, EndedFacts
    <2>2. q + 1 \in 1 .. N0 \/ q = N0
      BY <1>1
    <2>3. q + 1 \in 1 .. N0 => q # N0
      BY <1>1
    <2> QED
      BY <2>1, <2>2, <2>3
  <1>4. Cut(path0, q + 1) = Named(p, l)
    <2>1. q \in 0 .. Len(path0) /\ q < Len(path0)
      BY <1>1
    <2> QED
      BY <2>1, <1>1, <1>2, CutFacts
  <1>5. q + 1 = N0 + 1 <=> l = 0
    BY <1>1, <1>3
  <1>6. EndOf(k0, m[k0], q + 1, a2) = <<Named(p, l), FALSE, IF l = 0 THEN m[k0] ELSE - a2>>
    BY <1>2, <1>4, <1>5 DEF EndOf
  <1>7. l = 0 => t.tail[a2] = m[k0]
    <2>1. pos <= Len(k0) /\ pos = D[k0] /\ a = A[k0] /\ q - pos \in 0 .. Len(k0) - pos
      BY <1>1, <1>2
    <2>2. SpelledHere(t, k0, m, pos, a, q - pos)
      BY <2>1, <1>2, SpelledPath
    <2>3. l = 0 => q - pos = Len(k0) - pos
      BY <1>3
    <2> QED
      BY <2>2, <2>3 DEF SpelledHere
  <1>8. \A y \in S : y[1] # Named(p, l)
    <2> DEFINE x == EndOf(k0, m[k0], pos, a)
    <2>1. pos \in 1 .. Len(path) /\ q \in pos .. Len(path) /\ q <= Len(path0) /\ q <= Len(path) /\ pos \in 0 .. q
      BY <1>1
    <2>2. Cut(path0, pos) = Cut(path, pos)
      BY <2>1, <1>1, <1>2, BeginAlike
    <2>3. x \in C /\ x[1] = Cut(path, pos) /\ ~ x[2]
      BY <2>2, <1>2 DEF EndOf
    <2> HIDE DEF x
    <2>4. l \in Labels /\ p = Cut(path, q)
      BY <1>1
    <2> QED
      BY <2>1, <2>3, <2>4, <1>1, <1>2, StemAbove
  <1> QED
    BY <1>1, <1>2, <1>6, <1>7, <1>8 DEF BranchEnd, Branch

-----------------------------------------------------------------------------
(* The suffix that was there gets a child.                                 *)

\* The places are offered; the tree stands.
OfferedTo(R, t, p, r, C, path, a, n) ==
    Stands(R, r, C, path) /\ SplitAs(t, r.t, a, n) /\ r.t.nblk = p.t.nblk

\* FreeCells offers them.
LEMMA FreedSplit ==
    ASSUME NEW R, NEW t, {"tail", "length", "tail0"} \subseteq DOMAIN t, NEW p, SameTail(t, p.t),
           NEW C, NEW path, Stands(R, p, C, path), NEW a, NEW n, NEW r, FreeForm(p, r, a, n)
    PROVE  OfferedTo(R, t, p, r, C, path, a, n)
  <1> DEFINE u == p.t
             w == r.t
  <1>0. PICK V, P, L, O : StandsAt(R, p, C, path, V, P, L, O)
    BY DEF Stands
  <1>1. "nblk" \in DOMAIN u
    BY <1>0 DEF StandsAt, Sound, SoundTo, TrieTyped
  <1>2. {"tail", "length", "tail0"} \subseteq DOMAIN u
        /\ u.tail = t.tail /\ u.length = t.length /\ u.tail0 = t.tail0
    BY DEF SameTail
  <1>3. DOMAIN w = DOMAIN u /\ (\A x \in DOMAIN u \ {"tail0"} : w[x] = u[x])
        /\ w.tail0 = u.tail0 \o PlacesIn(a, Freed(n, u.tail[a + n]))
    BY DEF FreeForm
  <1>4. r.at = p.at
    BY DEF FreeForm
  <1>5. TailOnly(u, w)
    BY <1>3 DEF TailOnly
  <1>6. Stands(R, r, C, path)
    BY <1>4, <1>5, StandsTail
  <1> HIDE DEF u, w
  <1>7. w["tail"] = u["tail"] /\ w["length"] = u["length"] /\ w["nblk"] = u["nblk"]
    BY <1>1, <1>2, <1>3
  <1>8. SplitAs(t, w, a, n)
    BY <1>2, <1>3, <1>7 DEF SplitAs
  <1> QED
    BY <1>6, <1>7, <1>8 DEF OfferedTo, u, w

\* ... and what comes after.
LEMMA SplitOn ==
    ASSUME NEW t, NEW r, NEW a, NEW n, SplitAs(t, r, a, n), NEW u, SameTail(r, u)
    PROVE  SplitAs(t, u, a, n)
  BY DEF SplitAs, SameTail

\* A child f is made and given b: where the walk is then.
GivenTo(R, v, g, p, l, b, S) ==
    Stands(R, g, S \cup {<<Named(p, l), FALSE, b>>}, p) /\ SameTail(v.t, g.t)
    /\ g.t.nblk \in {v.t.nblk, v.t.nblk + 1}

\* A child that keeps the rest of the suffix.
LEMMA SuffixGiven ==
    ASSUME NEW R, Spare("chain", R), NEW v, NEW C, NEW path, NEW pos, NEW q, NEW b0, NEW l,
           MayBranch(R, v, C, path, pos, q, b0, l), l # 0, NEW p, p = Cut(path, q),
           NEW S, S = Stem(C, path, pos, q + 1), \A y \in S : y[1] # Named(p, l),
           NEW a \in Nat, a > 0, NEW g, g = GiveSuffix(Follow(v.t, v.at, l), a)
    PROVE  GivenTo(R, v, g, p, l, - a, S)
  <1> DEFINE f == Follow(v.t, v.at, l)
             E == Stem(C, path, pos, q + 1) \cup {Leaf(Named(p, l), l)}
  <1>1. LeafSteps(v, f) /\ \E V, P, L, O : LeafMade(R, f, E, p, l, V, P, L, O)
    BY LeafIsMade
  <1>2. g = GiveSuffix(f, a)
    OBVIOUS
  <1> HIDE DEF f
  <1>3. PICK V, P, L, O : LeafMade(R, f, E, p, l, V, P, L, O)
    BY <1>1
  <1>4. "array" \in DOMAIN f.t /\ f.t.array \in [Slots -> [base : Int, check : Int]] /\ f.to \in Slots
    BY <1>3 DEF LeafMade
  <1>5. GiveForm(f, GiveSuffix(f, a), - a)
    BY <1>4, GiveForms
  <1>6. BasedAs(f.t, g.t, f.to, - a) /\ g.at = f.from /\ SameTail(f.t, g.t)
    BY <1>5, <1>2 DEF GiveForm
  <1>7. - a \in Int /\ - a < 0
    OBVIOUS
  <1>8. E = S \cup {Leaf(Named(p, l), l)}
    OBVIOUS
  <1> HIDE DEF E
  <1>9. Stands(R, g, S \cup {<<Named(p, l), FALSE, - a>>}, p)
    <2> DEFINE b == - a
    <2>1. b \in Int /\ (l = 0 \/ b < 0) /\ BasedAs(f.t, g.t, f.to, b)
      BY <1>7, <1>6
    <2> HIDE DEF b
    <2>2. Stands(R, g, S \cup {<<Named(p, l), FALSE, b>>}, p)
      BY <2>1, <1>3, <1>6, <1>8, LeafGiven
    <2> QED
      BY <2>2 DEF b
  <1>10. SameTail(v.t, g.t)
    BY <1>1, <1>6, SameTailOn DEF LeafSteps
  <1>11. g.t.nblk = f.t.nblk
    <2>1. "nblk" \in DOMAIN f.t
      BY <1>3 DEF LeafMade, TrieAs, Sound, SoundTo, TrieTyped
    <2> QED
      BY <2>1, <1>6 DEF BasedAs
  <1> QED
    BY <1>1, <1>9, <1>10, <1>11 DEF GivenTo, LeafSteps

\* A terminal that keeps its value.
LEMMA ValueGiven ==
    ASSUME NEW R, Spare("chain", R), NEW v, NEW C, NEW path, NEW pos, NEW q, NEW b0,
           MayBranch(R, v, C, path, pos, q, b0, 0), NEW p, p = Cut(path, q),
           NEW S, S = Stem(C, path, pos, q + 1), \A y \in S : y[1] # Named(p, 0),
           NEW b \in Int, NEW g, g = GiveValue(Follow(v.t, v.at, 0), b)
    PROVE  GivenTo(R, v, g, p, 0, b, S)
  <1> DEFINE f == Follow(v.t, v.at, 0)
             E == Stem(C, path, pos, q + 1) \cup {Leaf(Named(p, 0), 0)}
  <1>1. LeafSteps(v, f) /\ \E V, P, L, O : LeafMade(R, f, E, p, 0, V, P, L, O)
    BY LeafIsMade
  <1>2. g = GiveValue(f, b)
    OBVIOUS
  <1> HIDE DEF f
  <1>3. PICK V, P, L, O : LeafMade(R, f, E, p, 0, V, P, L, O)
    BY <1>1
  <1>4. "array" \in DOMAIN f.t /\ f.t.array \in [Slots -> [base : Int, check : Int]] /\ f.to \in Slots
    BY <1>3 DEF LeafMade
  <1>5. GiveForm(f, GiveValue(f, b), f.t.array[f.to].base + b)
    BY <1>4, GiveForms
  <1>5a. f.t.array[f.to].base = 0
    BY <1>3 DEF LeafMade
  <1>6. BasedAs(f.t, g.t, f.to, b) /\ g.at = f.from /\ SameTail(f.t, g.t)
    BY <1>5, <1>5a, <1>2 DEF GiveForm
  <1>8. E = S \cup {Leaf(Named(p, 0), 0)}
    OBVIOUS
  <1> HIDE DEF E
  <1>9. Stands(R, g, S \cup {<<Named(p, 0), FALSE, b>>}, p)
    BY <1>3, <1>6, <1>8, LeafGiven
  <1>10. SameTail(v.t, g.t)
    BY <1>1, <1>6, SameTailOn DEF LeafSteps
  <1>11. g.t.nblk = f.t.nblk
    <2>1. "nblk" \in DOMAIN f.t
      BY <1>3 DEF LeafMade, TrieAs, Sound, SoundTo, TrieTyped
    <2> QED
      BY <2>1, <1>6 DEF BasedAs
  <1> QED
    BY <1>1, <1>9, <1>10, <1>11 DEF GivenTo, LeafSteps

\* The suffix goes on below a child with the label l, or its value does.
LEMMA KeptForm ==
    ASSUME NEW v, NEW a, NEW n, NEW w, w = KeptSuffix(v, a, n),
           NEW l, l = v.t.tail[a + n], v = [t |-> v.t, at |-> v.at], "tail0" \in DOMAIN v.t
    PROVE  /\ l # 0 => \E g : /\ g = GiveSuffix(Follow(v.t, v.at, l), a + n + 1)
                              /\ ("tail0" \in DOMAIN g.t /\ g.t.tail = v.t.tail =>
                                    FreeForm(g, w, a, n) /\ w = FreeCells(KeepSuffix(v, a, n), a, n))
           /\ l = 0 => \E r : /\ FreeForm(v, r, a, n)
                              /\ (r.t.tail = v.t.tail => w = GiveValue(Follow(r.t, r.at, 0), v.t.tail[a + n + 1]))
  <1>1. CASE l # 0
    <2> DEFINE g == GiveSuffix(Follow(v.t, v.at, l), a + n + 1)
               r == FreeCells(g, a, n)
    <2>1. KeepSuffix(v, a, n) = g
      BY <1>1 DEF KeepSuffix
    <2>2. w = KeepValue(r, a, n)
      BY <2>1 DEF KeptSuffix
    <2>3. ASSUME "tail0" \in DOMAIN g.t, g.t.tail = v.t.tail
          PROVE  FreeForm(g, w, a, n) /\ w = FreeCells(KeepSuffix(v, a, n), a, n)
      <3>1. g = [t |-> g.t, at |-> g.at]
        BY DEF GiveSuffix
      <3> HIDE DEF g
      <3>2. FreeForm(g, r, a, n)
        <4> DEFINE gt == g.t
                   ga == g.at
        <4>1. g = [t |-> gt, at |-> ga] /\ "tail0" \in DOMAIN gt
          BY <3>1, <2>3
        <4> HIDE DEF gt, ga
        <4> QED
          BY <4>1, FreeForms
      <3>3. r = [g EXCEPT !.t.tail0 = @ \o PlacesIn(a, Freed(n, g.t.tail[a + n]))]
        BY DEF FreeCells
      <3> HIDE DEF r
      <3>3a. g.t.tail = r.t.tail
        <4> DEFINE x == "tail"
        <4>1. x \in DOMAIN g.t \/ x \notin DOMAIN g.t
          OBVIOUS
        <4> DEFINE gt == g.t
                   ga == g.at
                   Z == PlacesIn(a, Freed(n, g.t.tail[a + n]))
        <4>2. g = [t |-> gt, at |-> ga]
          BY <3>1
        <4>3. r = [g EXCEPT !.t.tail0 = @ \o Z]
          BY <3>3
        <4> HIDE DEF gt, ga, Z
        <4>4. r.t = [gt EXCEPT !.tail0 = @ \o Z]
          BY <4>2, <4>3
        <4>5. r.t.tail = gt.tail
          BY <4>4
        <4> QED
          BY <4>5 DEF gt
      <3>4. r.t.tail[a + n] # 0
        BY <3>3a, <2>3, <1>1
      <3>5. w = r
        BY <2>2, <3>4 DEF KeepValue
      <3>6. r = FreeCells(KeepSuffix(v, a, n), a, n)
        BY <2>1 DEF r
      <3> QED
        BY <3>2, <3>5, <3>6
    <2> QED
      BY <1>1, <2>3
  <1>2. CASE l = 0
    <2> DEFINE r == FreeCells(v, a, n)
    <2>1. KeepSuffix(v, a, n) = v
      BY <1>2 DEF KeepSuffix
    <2>2. w = KeepValue(r, a, n)
      BY <2>1 DEF KeptSuffix
    <2>3. FreeForm(v, r, a, n)
      <3> DEFINE vt == v.t
                 va == v.at
      <3>1. v = [t |-> vt, at |-> va] /\ "tail0" \in DOMAIN vt
        OBVIOUS
      <3> HIDE DEF vt, va
      <3> QED
        BY <3>1, FreeForms
    <2> HIDE DEF r
    <2>4. r.t.tail = v.t.tail => w = GiveValue(Follow(r.t, r.at, 0), v.t.tail[a + n + 1])
      BY <2>2, <1>2 DEF KeepValue
    <2> QED
      BY <1>2, <2>3, <2>4
  <1> QED
    BY <1>1, <1>2

\* It does: the walk then stands where the key and the suffix part.
LEMMA KeptBranch ==
    ASSUME NEW R, Spare("chain", R), NEW C, NEW t, NEW m, NEW D, NEW A, NEW W, NEW k, NEW k0,
           NEW path, NEW path0, NEW pos, NEW q, NEW a,
           Parts(C, t, m, D, A, W, k, k0, path, path0, pos, q, a),
           NEW v, v = [t |-> v.t, at |-> v.at], SameTail(t, v.t), v.t.nblk \in Nat, v.t.nblk < MaxBlocks,
           NEW b, Stands(R, v, Thread(C, path, pos, q, b), Cut(path, q)),
           NEW w, w = KeptSuffix(v, a, q - pos)
    PROVE  /\ KeptTo(R, t, v.t, w, C, m, k0, path, pos, q, a)
           /\ path0[q + 1] # 0 => w = FreeCells(KeepSuffix(v, a, q - pos), a, q - pos)
  <1> DEFINE n == q - pos
             l == path0[q + 1]
             S == Stem(C, path, pos, q + 1)
             p == Cut(path, q)
  <1>1. BranchEnd(C, t, m, k0, path, path0, pos, q, a, l, S)
    BY BranchEndIs
  <1>2. /\ Len(k) \in Nat /\ Len(k0) \in Nat /\ pos \in Nat /\ pos >= 1 /\ q \in Nat /\ q >= pos
        /\ q <= Len(k) /\ q <= Len(k0) /\ a \in Nat /\ a >= 2 /\ m[k0] \in Nat
        /\ path \in Seq(Labels) /\ Len(path) = Len(k) + 1
    BY PartsFacts
  <1>3. {"tail", "length", "tail0"} \subseteq DOMAIN t
    BY DEF Parts, StoredAs, TailHolds, TailTyped
  <1>4. /\ {"tail", "length", "tail0"} \subseteq DOMAIN v.t
        /\ v.t.tail = t.tail
    BY <1>3 DEF SameTail
  <1>5. l \in Labels /\ l = v.t.tail[a + n] /\ (l = 0 => v.t.tail[a + n + 1] = m[k0])
        /\ Branch(C, m, k0, path, pos, q, a + n + 1)
             = S \cup {<<Named(p, l), FALSE, IF l = 0 THEN m[k0] ELSE - (a + n + 1)>>}
        /\ \A y \in S : y[1] # Named(p, l)
    BY <1>1, <1>4 DEF BranchEnd
  <1>6. MayBranch(R, v, C, path, pos, q, b, l)
    <2>1. IsForest(C) /\ IsKey(k) /\ path = Ended(k) /\ EndOf(k0, m[k0], pos, a) \in C
          /\ Cut(Ended(k0), q) = Cut(path, q) /\ pos \in 1 .. Len(k0) /\ IsKey(k0)
      BY DEF Parts
    <2>2. path[q] # 0
      <3>1. \A i \in 1 .. Len(k) : Ended(k)[i] = k[i] /\ k[i] # 0
        BY <2>1, EndedFacts
      <3>2. q \in 1 .. Len(k)
        BY <1>2
      <3> QED
        BY <3>1, <3>2, <2>1
    <2>3. Cut(Ended(k0), pos) = Cut(path, pos)
      <3>1. Ended(k0) \in Seq(Labels) /\ Len(Ended(k0)) = Len(k0) + 1
        BY <2>1, EndedFacts
      <3> QED
        BY <3>1, <2>1, <1>2, BeginAlike
    <2>4. \E x \in C : x[1] = Cut(path, pos) /\ ~ x[2]
      BY <2>1, <2>3 DEF EndOf
    <2> QED
      BY <2>1, <2>2, <2>4, <1>2, <1>5 DEF MayBranch
  <1>7. n \in Nat
    BY <1>2
  <1>8. /\ l # 0 => \E g : /\ g = GiveSuffix(Follow(v.t, v.at, l), a + n + 1)
                           /\ ("tail0" \in DOMAIN g.t /\ g.t.tail = v.t.tail =>
                                 FreeForm(g, w, a, n) /\ w = FreeCells(KeepSuffix(v, a, n), a, n))
        /\ l = 0 => \E r : /\ FreeForm(v, r, a, n)
                           /\ (r.t.tail = v.t.tail => w = GiveValue(Follow(r.t, r.at, 0), v.t.tail[a + n + 1]))
    BY <1>4, <1>5, KeptForm
  <1> HIDE DEF n, l, S, p
  <1>9. CASE l # 0
    <2>1. PICK g : /\ g = GiveSuffix(Follow(v.t, v.at, l), a + n + 1)
                   /\ ("tail0" \in DOMAIN g.t /\ g.t.tail = v.t.tail =>
                         FreeForm(g, w, a, n) /\ w = FreeCells(KeepSuffix(v, a, n), a, n))
      BY <1>8, <1>9
    <2> DEFINE z == a + n + 1
    <2>2. z \in Nat /\ z > 0
      BY <1>2, <1>7
    <2>3. g = GiveSuffix(Follow(v.t, v.at, l), z)
      BY <2>1
    <2>3a. S = Stem(C, path, pos, q + 1) /\ p = Cut(path, q) /\ \A y \in S : y[1] # Named(p, l)
      BY <1>5 DEF S, p
    <2> HIDE DEF z
    <2>4. GivenTo(R, v, g, p, l, - z, S)
      BY <1>6, <1>9, <2>2, <2>3, <2>3a, SuffixGiven
    <2>5. Stands(R, g, S \cup {<<Named(p, l), FALSE, - z>>}, p) /\ SameTail(v.t, g.t)
          /\ g.t.nblk \in {v.t.nblk, v.t.nblk + 1}
      BY <2>4 DEF GivenTo
    <2>6. SameTail(t, g.t)
      BY <2>5, SameTailOn
    <2>7. "tail0" \in DOMAIN g.t /\ g.t.tail = v.t.tail
      BY <2>6, <1>3, <1>4 DEF SameTail
    <2>8. FreeForm(g, w, a, n) /\ w = FreeCells(KeepSuffix(v, a, n), a, n)
      BY <2>1, <2>7
    <2>9. Stands(R, g, Branch(C, m, k0, path, pos, q, a + n + 1), p)
      BY <2>5, <1>5, <1>9 DEF z
    <2>10. OfferedTo(R, t, g, w, Branch(C, m, k0, path, pos, q, a + n + 1), p, a, n)
      BY <2>6, <2>8, <2>9, <1>3, FreedSplit
    <2> QED
      BY <2>5, <2>8, <2>10 DEF OfferedTo, KeptTo, n, p
  <1>10. CASE l = 0
    <2>1. PICK r : /\ FreeForm(v, r, a, n)
                   /\ (r.t.tail = v.t.tail => w = GiveValue(Follow(r.t, r.at, 0), v.t.tail[a + n + 1]))
      BY <1>8, <1>10
    <2> DEFINE T == Thread(C, path, pos, q, b)
    <2>2. Stands(R, v, T, p)
      BY DEF p
    <2>3. OfferedTo(R, t, v, r, T, p, a, n)
      BY <2>1, <2>2, <1>3, FreedSplit
    <2>4. Stands(R, r, T, p) /\ SplitAs(t, r.t, a, n) /\ r.t.nblk = v.t.nblk
      BY <2>3 DEF OfferedTo
    <2>5. r.t.tail = v.t.tail
      BY <2>4, <1>4 DEF SplitAs
    <2> DEFINE y0 == m[k0]
    <2>6. w = GiveValue(Follow(r.t, r.at, 0), y0) /\ y0 \in Int
      BY <2>1, <2>5, <1>5, <1>10, <1>2
    <2>7. MayBranch(R, r, C, path, pos, q, b, 0)
      BY <1>6, <1>10, <2>4 DEF MayBranch, p
    <2>7a. S = Stem(C, path, pos, q + 1) /\ p = Cut(path, q) /\ \A y \in S : y[1] # Named(p, 0)
      BY <1>5, <1>10 DEF S, p
    <2> HIDE DEF y0
    <2>8. GivenTo(R, r, w, p, 0, y0, S)
      BY <2>6, <2>7, <2>7a, ValueGiven
    <2>9. Stands(R, w, S \cup {<<Named(p, 0), FALSE, y0>>}, p) /\ SameTail(r.t, w.t)
          /\ w.t.nblk \in {r.t.nblk, r.t.nblk + 1}
      BY <2>8 DEF GivenTo
    <2>10. SplitAs(t, w.t, a, n)
      BY <2>9, <2>4, SplitOn
    <2>11. Stands(R, w, Branch(C, m, k0, path, pos, q, a + n + 1), p)
      BY <2>9, <1>5, <1>10 DEF y0
    <2> QED
      BY <1>10, <2>4, <2>9, <2>10, <2>11 DEF KeptTo, n, p, l
  <1> QED
    BY <1>9, <1>10

-----------------------------------------------------------------------------
(* The key goes on where it parts from the suffix.                         *)

\* The rest of a rest.
LEMMA RestTwice ==
    ASSUME NEW k, IsKey(k), NEW d \in 0 .. Len(k), NEW n \in 0 .. Len(k) - d, NEW r, r = Rest(k, d)
    PROVE  /\ Rest(r, n) = Rest(k, d + n) /\ (Rest(r, n) = <<>> <=> d + n = Len(k))
           /\ d + n < Len(k) => Rest(r, n)[1] = k[d + n + 1]
  <1>1. RestOf(k, d, r)
    BY RestFacts
  <1>2. k \in Seq(Labels \ {0}) /\ Len(k) \in Nat
    BY DEF IsKey
  <1>3. d + n \in 0 .. Len(k)
    BY <1>2
  <1> DEFINE s == Rest(k, d + n)
             z == Rest(r, n)
  <1>4. RestOf(k, d + n, s)
    BY <1>3, RestFacts
  <1>5. r \in Seq(Labels \ {0}) /\ Len(r) = Len(k) - d /\ \A i \in 1 .. Len(k) - d : r[i] = k[d + i]
    BY <1>1 DEF RestOf
  <1>6. z = SubSeq(r, n + 1, Len(r))
    BY DEF Rest
  <1>7. z \in Seq(Labels \ {0}) /\ Len(z) = Len(r) - n /\ \A i \in 1 .. Len(r) - n : z[i] = r[n + i]
    BY <1>2, <1>5, <1>6
  <1>8. s \in Seq(Labels \ {0}) /\ Len(s) = Len(k) - (d + n) /\ (\A i \in 1 .. Len(k) - (d + n) : s[i] = k[(d + n) + i])
        /\ (s = <<>> <=> d + n = Len(k))
    BY <1>4 DEF RestOf
  <1> HIDE DEF s, z
  <1>9. Len(z) = Len(s) /\ \A i \in 1 .. Len(s) : z[i] = s[i]
    <2>1. Len(z) = Len(s)
      BY <1>2, <1>5, <1>7, <1>8
    <2>2. ASSUME NEW i \in 1 .. Len(s) PROVE z[i] = s[i]
      <3>1. i \in 1 .. Len(r) - n /\ n + i \in 1 .. Len(k) - d /\ i \in 1 .. Len(k) - (d + n)
        BY <1>2, <1>5, <1>8
      <3>2. z[i] = r[n + i] /\ r[n + i] = k[d + (n + i)] /\ s[i] = k[(d + n) + i]
        BY <3>1, <1>5, <1>7, <1>8
      <3>3. d + (n + i) = (d + n) + i
        BY <3>1, <1>2
      <3> QED
        BY <3>2, <3>3
    <2> QED
      BY <2>1, <2>2
  <1>10. z = s
    BY <1>7, <1>8, <1>9
  <1>11. d + n < Len(k) => s[1] = k[d + n + 1]
    BY <1>8, <1>2
  <1> QED
    BY <1>10, <1>8, <1>11 DEF s, z

\* The key ends there, or gets a child for its next label.
Goes(s, k, q, val) ==
    IF q = Len(k) THEN AddTerminal(Follow(s.t, s.at, 0), val)
    ELSE AddChild(Follow(s.t, s.at, k[q + 1]), Rest(k, q + 1), val)

\* Either way the key is in the map, with the value it got.
LEMMA BranchLands ==
    ASSUME NEW R, Spare("chain", R), NEW s, NEW H, NEW m, NEW D, NEW A, NEW W, NEW k, IsKey(k),
           NEW path, path = Ended(k), NEW q \in 1 .. Len(k), Stands(R, s, H, Cut(path, q)),
           StoredAs(H, s.t, m, D, A, W), CanBear(H, path, q),
           s.t.length + Len(k) + 1 + ValueCells <= MaxTail, s.t.nblk < MaxBlocks,
           NEW N \in Nat, s.t.nblk <= N, NEW val, NEW w, WithAt(m, w, k, ValueOf(m, k)),
           NEW r, r = Goes(s, k, q, val)
    PROVE  LandsAt(R, w, k, val, r, N + 1)
  <1>0. PICK V, P, L, O : StandsAt(R, s, H, Cut(path, q), V, P, L, O)
    BY DEF Stands
  <1>1. IsForest(H) /\ s.t.nblk \in Nat
    <2>1. IsTree(s.t, V, P, L, O, {}, {}) /\ H = Content(s.t, V, P, L)
      BY <1>0 DEF StandsAt
    <2>2. s.t.nblk \in 1 .. MaxBlocks
      BY <1>0 DEF StandsAt, Sound, SoundTo, TrieTyped
    <2>3. IsForest(H)
      BY <2>1, ContentForest
    <2> QED
      BY <2>2, <2>3
  <1>2. /\ path \in Seq(Labels) /\ Len(path) = Len(k) + 1 /\ Len(k) \in Nat
        /\ Cut(path, Len(k)) = k /\ \A i \in 1 .. Len(k) : path[i] = k[i] /\ k[i] # 0 /\ k[i] \in Labels
    BY EndedFacts
  <1>3. InnerOf(Cut(path, q)) \in H /\ ~ Has(H, Cut(path, q + 1))
    BY <1>2 DEF CanBear
  <1>4. CASE q = Len(k)
    <2> DEFINE f == Follow(s.t, s.at, 0)
    <2>1. r = AtNode(f.t, f.to, val)
      BY <1>4 DEF Goes, AddTerminal
    <2>2. Stands(R, s, H, k) /\ InnerOf(k) \in H
      BY <1>2, <1>3, <1>4
    <2>3. f = Follow(s.t, s.at, 0)
      OBVIOUS
    <2> HIDE DEF f
    <2>4. Ready(R, f.t, w, k, "node", f.to) /\ f.t.nblk \in {s.t.nblk, s.t.nblk + 1}
      BY <2>2, <2>3, TerminalReady
    <2>5. f.t.nblk <= N + 1
      BY <2>4, <1>1
    <2> QED
      BY <2>1, <2>4, <2>5 DEF LandsAt
  <1>5. CASE q # Len(k)
    <2> DEFINE l == k[q + 1]
               p == Cut(path, q)
               f == Follow(s.t, s.at, l)
               z == [t |-> f.t, at |-> f.to]
               E == H \cup {<<Cut(path, q + 1), FALSE, -1>>}
    <2>0. q \in Nat /\ q < Len(k) /\ q + 1 \in 1 .. Len(k)
      BY <1>2, <1>5
    <2>1. l = path[q + 1] /\ l \in Labels /\ l # 0
      BY <2>0, <1>2
    <2>2. r = AddSuffix(f.t, f.to, Rest(k, q + 1), val)
      BY <1>5 DEF Goes, AddChild
    <2>3. p \in Seq(Labels) /\ Len(p) = q /\ p[q] = path[q] /\ Cut(path, q + 1) = Named(p, l)
      <3>1. q \in 0 .. Len(path) /\ q < Len(path) /\ q \in 1 .. q
        BY <2>0, <1>2
      <3> QED
        <4>1. Cut(path, q) \in Seq(Labels) /\ Len(Cut(path, q)) = q /\ (\A j \in 1 .. q : Cut(path, q)[j] = path[j])
              /\ Cut(path, q + 1) = Named(Cut(path, q), path[q + 1])
          BY <3>1, <1>2, CutFacts
        <4> QED
          BY <4>1, <3>1, <2>1
    <2>4. CanGo(R, s, p, l)
      <3>1. p # <<>> /\ p[Len(p)] # 0
        BY <2>3, <1>2
      <3> QED
        BY <3>1, <2>1, <2>3 DEF CanGo
    <2>5. Extended(H, p, l) = E
      <3>1. q \in 0 .. Len(path) - 1
        BY <2>0, <1>2
      <3>2. ExtendedTo(H, path, q)
        BY <3>1, <1>1, <1>2, <1>3, ExtendedFacts
      <3> QED
        BY <3>2, <2>1, <1>3 DEF ExtendedTo
    <2>5a. f = Follow(s.t, s.at, l)
      OBVIOUS
    <2> HIDE DEF f, l, p
    <2>6. Went(R, s, H, p, l, f)
      <3>1. Stands(R, s, H, p)
        BY DEF p
      <3> QED
        BY <3>1, <2>4, <2>5a, FollowStands
    <2>7. Stands(R, z, E, Cut(path, q + 1)) /\ SameTail(s.t, f.t) /\ f.t.nblk \in {s.t.nblk, s.t.nblk + 1}
      BY <2>3, <2>5, <2>6 DEF Went
    <2>8. AtLeaf(R, z, H, z.t, k, path, q)
      BY <2>0, <2>7, <1>1, <1>2 DEF AtLeaf
    <2>9. StoredAs(H, z.t, m, D, A, W)
      BY <2>7, TailSame
    <2>10. z.t.length = s.t.length
      BY <2>7 DEF SameTail, StoredAs, TailHolds, TailTyped
    <2>11. z.t.nblk <= N + 1
      BY <2>7, <1>1
    <2>12. r = AddSuffix(z.t, z.at, Rest(k, q + 1), val)
      BY <2>2
    <2>13. z.t.length + Len(k) + 1 + ValueCells <= MaxTail
      BY <2>10
    <2> DEFINE rest == Rest(k, q + 1)
               M == N + 1
    <2>14. rest = Rest(k, q + 1) /\ r = AddSuffix(z.t, z.at, rest, val) /\ z.t.nblk <= M
      BY <2>11, <2>12
    <2> HIDE DEF z, rest, M
    <2>15. LandsAt(R, w, k, val, r, M)
      BY <2>8, <2>9, <2>13, <2>14, SuffixReady
    <2> QED
      BY <2>15 DEF M
  <1> QED
    BY <1>4, <1>5

\* The key and a suffix part: the trie has the key, and every other key still.
LEMMA SplitLands ==
    ASSUME NEW R, Spare("chain", R), NEW C, NEW t, NEW m, NEW D, NEW A, NEW W, NEW k, NEW k0,
           NEW path, NEW path0, NEW pos, NEW q, NEW a,
           Parts(C, t, m, D, A, W, k, k0, path, path0, pos, q, a),
           NEW v, v = [t |-> v.t, at |-> v.at], SameTail(t, v.t), v.t.nblk \in Nat,
           NEW N \in Nat, v.t.nblk <= N, N + 1 < MaxBlocks,
           NEW b, Stands(R, v, Thread(C, path, pos, q, b), Cut(path, q)),
           t.length + Len(k) + 1 + ValueCells <= MaxTail,
           NEW val, NEW w, WithAt(m, w, k, ValueOf(m, k)),
           NEW rest, rest = Rest(k, pos), NEW n, n = q - pos,
           NEW r, r = EndBranch(FreeCells(KeepSuffix(v, a, n), a, n), a, n, Rest(rest, n), val)
    PROVE  LandsAt(R, w, k, val, r, N + 2)
  <1> DEFINE p == FreeCells(KeepSuffix(v, a, n), a, n)
             u == KeptSuffix(v, a, n)
             a2 == a + n + 1
             H == Branch(C, m, k0, path, pos, q, a2)
             D2 == SetAt(D, m, k0, q + 1)
             A2 == SetAt(A, m, k0, a2)
  <1>1. /\ Len(k) \in Nat /\ Len(k0) \in Nat /\ pos \in Nat /\ pos >= 1 /\ q \in Nat /\ q >= pos
        /\ q <= Len(k) /\ q <= Len(k0) /\ a \in Nat /\ a >= 2 /\ m[k0] \in Nat
        /\ path \in Seq(Labels) /\ Len(path) = Len(k) + 1
    BY PartsFacts
  <1>2. IsKey(k) /\ path = Ended(k) /\ path0[q + 1] # path[q + 1] /\ IsMap(m)
    BY DEF Parts, StoredAs
  <1>3. MaxBlocks \in Nat /\ v.t.nblk < MaxBlocks
    BY <1>1, BlockAssumption
  <1>4. KeptTo(R, t, v.t, u, C, m, k0, path, pos, q, a)
        /\ (path0[q + 1] # 0 => u = p)
    <2>1. u = KeptSuffix(v, a, q - pos)
      OBVIOUS
    <2>2. p = FreeCells(KeepSuffix(v, a, q - pos), a, q - pos)
      OBVIOUS
    <2> HIDE DEF u, p
    <2>3. KeptTo(R, t, v.t, u, C, m, k0, path, pos, q, a)
          /\ (path0[q + 1] # 0 => u = FreeCells(KeepSuffix(v, a, q - pos), a, q - pos))
      BY <1>3, <2>1, KeptBranch
    <2> QED
      BY <2>2, <2>3
  <1>5. u = KeepValue(p, a, n)
    BY DEF KeptSuffix
  <1>6. Stands(R, u, H, Cut(path, q)) /\ SplitAs(t, u.t, a, n) /\ u.t.nblk \in {v.t.nblk, v.t.nblk + 1}
    BY <1>4 DEF KeptTo
  <1> HIDE DEF u, p
  <1>7. Ends(H, m, D2, A2) /\ NoBare(H) /\ CanBear(H, path, q)
    <2>0. H = Branch(C, m, k0, path, pos, q, a2)
      OBVIOUS
    <2> HIDE DEF H, a2
    <2>1. BranchHolds(H, m, SetAt(D, m, k0, q + 1), SetAt(A, m, k0, a2), path, q)
      BY <2>0, BranchEnds
    <2> QED
      BY <2>1 DEF BranchHolds
  <1>8. PICK W2 : TailHolds(u.t, m, D2, A2, W2)
    <2> DEFINE ut == u.t
    <2>1. SplitAs(t, ut, a, q - pos)
      BY <1>6
    <2> HIDE DEF ut
    <2>2. \E W2 : TailHolds(ut, m, SetAt(D, m, k0, q + 1), SetAt(A, m, k0, a + (q - pos) + 1), W2)
      BY <2>1, SplitTail
    <2> QED
      BY <2>2 DEF ut
  <1>9. StoredAs(H, u.t, m, D2, A2, W2)
    BY <1>2, <1>7, <1>8 DEF StoredAs
  <1>10. u.t.length = t.length
    BY <1>6 DEF SplitAs
  <1>11. u.t.length + Len(k) + 1 + ValueCells <= MaxTail /\ u.t.nblk < MaxBlocks /\ u.t.nblk <= N + 1
         /\ N + 1 \in Nat
    BY <1>3, <1>6, <1>10
  <1>12. Rest(rest, n) = Rest(k, pos + n) /\ (Rest(rest, n) = <<>> <=> pos + n = Len(k))
         /\ (pos + n < Len(k) => Rest(rest, n)[1] = k[pos + n + 1])
    <2>1. pos \in 0 .. Len(k) /\ n \in 0 .. Len(k) - pos
      BY <1>1
    <2> QED
      BY <2>1, <1>2, RestTwice
  <1>13. pos + n = q
    BY <1>1
  <1>14. r = EndBranch(p, a, n, Rest(k, q), val) /\ (Rest(k, q) = <<>> <=> q = Len(k))
         /\ (q < Len(k) => Rest(k, q)[1] = k[q + 1])
    BY <1>12, <1>13 DEF p
  <1>15. r = Goes(u, k, q, val)
    <2>1. CASE q = Len(k)
      <3>1. path[q + 1] = 0
        BY <2>1, <1>2, EndedFacts
      <3>2. u = p
        BY <3>1, <1>2, <1>4
      <3> QED
        BY <2>1, <1>14, <3>2 DEF EndBranch, Goes
    <2>2. CASE q < Len(k)
      <3>1. r = AddBranch(u, Rest(k, q), val)
        BY <2>2, <1>14, <1>5 DEF EndBranch
      <3>2. r = AddChild(Follow(u.t, u.at, k[q + 1]), Rest(Rest(k, q), 1), val)
        BY <3>1, <2>2, <1>14 DEF AddBranch
      <3>3. Rest(Rest(k, q), 1) = Rest(k, q + 1)
        <4>1. q \in 0 .. Len(k) /\ 1 \in 0 .. Len(k) - q
          BY <2>2, <1>1
        <4> QED
          BY <4>1, <1>2, RestTwice
      <3> QED
        BY <2>2, <1>1, <3>2, <3>3 DEF Goes
    <2> QED
      BY <2>1, <2>2, <1>1
  <1>16. q \in 1 .. Len(k)
    BY <1>1
  <1> DEFINE M == N + 1
  <1>17. M \in Nat /\ u.t.nblk <= M
    BY <1>11
  <1> HIDE DEF H, D2, A2, M
  <1>18. LandsAt(R, w, k, val, r, M + 1)
    BY <1>2, <1>6, <1>7, <1>9, <1>11, <1>15, <1>16, <1>17, BranchLands
  <1>19. M + 1 = N + 2
    BY DEF M
  <1> QED
    BY <1>18, <1>19

-----------------------------------------------------------------------------
(* The way to the key ends in the tail.                                    *)

\* More blocks may be in use.
LEMMA LandsMore ==
    ASSUME NEW R, NEW w, NEW k, NEW val, NEW r, NEW M \in Nat, LandsAt(R, w, k, val, r, M),
           NEW N \in Nat, M <= N
    PROVE  LandsAt(R, w, k, val, r, N)
  <1>1. PICK u, at : /\ u.nblk <= M
                     /\ \/ r = AtNode(u, at, val) /\ Ready(R, u, w, k, "node", at)
                        \/ r = AtCell(u, at, val) /\ Ready(R, u, w, k, "tail", at)
    BY DEF LandsAt
  <1>2. u.nblk \in Int
    <2>1. \E in : Ready(R, u, w, k, in, at)
      BY <1>1
    <2> QED
      BY <2>1 DEF Ready, ReadyAs, TrieAs, Sound, SoundTo, TrieTyped
  <1>3. u.nblk <= N
    BY <1>1, <1>2
  <1> QED
    BY <1>1, <1>3 DEF LandsAt

\* The key is found whole in its suffix.
LEMMA CellReady ==
    ASSUME NEW R, NEW t, NEW C, NEW m, NEW D, NEW A, NEW W, NEW k, IsKey(k), TrieOf(R, t, C),
           StoredAs(C, t, m, D, A, W), k \in DOMAIN m, NEW pos, D[k] = pos, pos \in 1 .. Len(k), NEW a, A[k] = a,
           NEW at, at = a + (Len(k) - pos) + 1,
           NEW w, WithAt(m, w, k, ValueOf(m, k))
    PROVE  Ready(R, t, w, k, "tail", at)
  <1>1. PICK V, P, L, O : TrieAs(R, t, C, V, P, L, O)
    BY DEF TrieOf
  <1>2. DOMAIN w = DOMAIN m /\ \A l \in DOMAIN m : w[l] = m[l]
    BY DEF WithAt, ValueOf
  <1>3. StoredAs(C, t, w, D, A, W)
    BY <1>2, MapSame
  <1>4. Len(k) \in Nat
    BY DEF IsKey
  <1>5. ValueAs(w, k, "tail", at, V, P, D, A)
    BY <1>2, <1>4 DEF ValueAs
  <1>6. ReadyAs(R, t, w, k, "tail", at, C, V, P, L, O, D, A, W)
    BY <1>1, <1>3, <1>5 DEF ReadyAs
  <1> QED
    BY <1>6 DEF Ready

\* The node of s has its suffix at a; pos labels of k are behind.
AtSuffix(R, s, C, k, path, pos, a) ==
    /\ IsForest(C) /\ IsKey(k) /\ path = Ended(k) /\ pos \in 1 .. Len(k) /\ Stands(R, s, C, Cut(path, pos))
    /\ a \in Nat /\ a > 0 /\ <<Cut(path, pos), FALSE, - a>> \in C

\* update goes on from there: in the tail, or past where the keys part.
LEMMA TailLands ==
    ASSUME NEW R, Spare("chain", R), NEW s, NEW C, NEW m, NEW D, NEW A, NEW W, NEW k, NEW path, NEW pos, NEW a,
           AtSuffix(R, s, C, k, path, pos, a), StoredAs(C, s.t, m, D, A, W), NEW rest, rest = Rest(k, pos),
           NEW N \in Nat, s.t.nblk <= N, N + (Len(k) - pos) + 2 <= MaxBlocks,
           s.t.length + Len(k) + 1 + ValueCells <= MaxTail,
           NEW val, NEW w, WithAt(m, w, k, ValueOf(m, k)), NEW r, r = UpdateInTail(s.t, s.at, a, rest, val)
    PROVE  LandsAt(R, w, k, val, r, N + (Len(k) - pos) + 2)
  <1> DEFINE t == s.t
             n == Matched(t, a, rest)
             x == <<Cut(path, pos), FALSE, - a>>
             M == N + (Len(k) - pos) + 2
  <1>1. IsForest(C) /\ IsKey(k) /\ path = Ended(k) /\ pos \in 1 .. Len(k) /\ Stands(R, s, C, Cut(path, pos))
        /\ a \in Nat /\ a > 0 /\ x \in C
    BY DEF AtSuffix
  <1>2. path \in Seq(Labels) /\ Len(path) = Len(k) + 1 /\ Len(k) \in Nat
    BY <1>1, EndedFacts
  <1>3. pos \in 1 .. Len(path) /\ x[1] = Cut(path, pos) /\ ~ x[2] /\ x[3] = - a /\ x[3] \in Int /\ x[3] < 0
        /\ pos \in Nat
    BY <1>1, <1>2
  <1>4. s.t.nblk \in Nat
    BY <1>1 DEF Stands, StandsAt, Sound, SoundTo, TrieTyped
  <1>5. TrieOf(R, t, C)
    BY <1>1 DEF Stands, StandsAt, TrieOf, TrieAs
  <1>6. M \in Nat /\ s.t.nblk <= M
    BY <1>2, <1>3, <1>4
  <1>7. StoredAs(C, t, m, D, A, W)
    OBVIOUS
  <1>7a. n = Matched(t, a, rest)
    OBVIOUS
  <1>7b. r = IF n = Len(rest) /\ t.tail[a + n] = 0 THEN AtCell(t, a + n + 1, val)
             ELSE SplitSuffix(t, s.at, a, n, rest, val)
    BY DEF UpdateInTail
  <1>7c. t = s.t
    OBVIOUS
  <1> HIDE DEF t, n, x
  <1>8. PICK k0 : OwnerOf(C, m, D, A, k0, x, path, pos)
    BY <1>1, <1>2, <1>3, <1>7, SuffixOwner
  <1>9. k0 \in DOMAIN m /\ D[k0] = pos /\ A[k0] = a
    <2> DEFINE y == A[k0]
    <2>1. k0 \in DOMAIN m /\ D[k0] = pos /\ y = - x[3]
      BY <1>8 DEF OwnerOf
    <2> HIDE DEF y
    <2>2. y = a
      BY <2>1, <1>1, <1>3
    <2> QED
      BY <2>1, <2>2 DEF y
  <1>10. IF n = Len(rest) /\ t.tail[a + n] = 0
         THEN k0 = k /\ n = Len(k) - pos
         ELSE n \in Nat /\ Parts(C, t, m, D, A, W, k, k0, path, Ended(k0), pos, pos + n, a)
    <2>1. IsForest(C) /\ StoredAs(C, t, m, D, A, W) /\ IsKey(k) /\ path = Ended(k) /\ pos \in 1 .. Len(k)
      BY <1>1, <1>7
    <2>2. x \in C /\ OwnerOf(C, m, D, A, k0, x, path, pos) /\ a = A[k0] /\ rest = Rest(k, pos)
          /\ n = Matched(t, a, rest)
      BY <1>1, <1>7a, <1>8, <1>9
    <2> QED
      BY ONLY <2>1, <2>2, PartsOrSame
  <1>11. CASE n = Len(rest) /\ t.tail[a + n] = 0
    <2>1. k0 = k /\ n = Len(k) - pos
      BY <1>10, <1>11
    <2> DEFINE at == a + (Len(k) - pos) + 1
    <2>2. r = AtCell(t, at, val)
      BY <1>7b, <1>11, <2>1
    <2>3. at = a + (Len(k) - pos) + 1
      OBVIOUS
    <2> HIDE DEF at
    <2>4. Ready(R, t, w, k, "tail", at)
      BY <1>1, <1>5, <1>7, <1>9, <2>1, <2>3, CellReady
    <2> QED
      BY <2>2, <2>4, <1>6, <1>7c DEF LandsAt
  <1>12. CASE ~ (n = Len(rest) /\ t.tail[a + n] = 0)
    <2> DEFINE q == pos + n
               sq == SubSeq(rest, 1, n)
               v == FollowAll(s.t, s.at, sq)
    <2>1. n \in Nat /\ Parts(C, t, m, D, A, W, k, k0, path, Ended(k0), pos, q, a)
      BY <1>10, <1>12
    <2>2. q \in pos .. Len(k)
      BY <2>1 DEF Parts
    <2>3. RestOf(k, pos, rest)
      <3>1. pos \in 0 .. Len(k)
        BY <1>1, <1>2
      <3> QED
        BY <3>1, <1>1, RestFacts
    <2>4. Len(sq) = n /\ \A i \in 1 .. n : sq[i] = path[pos + i]
      <3>1. rest \in Seq(Labels \ {0}) /\ Len(rest) = Len(k) - pos /\ \A i \in 1 .. Len(k) - pos : rest[i] = k[pos + i]
        BY <2>3 DEF RestOf
      <3>2. n <= Len(rest)
        BY <2>1, <2>2, <3>1, <1>2, <1>3
      <3>3. Len(sq) = n /\ \A i \in 1 .. n : sq[i] = rest[i]
        BY <2>1, <3>1, <3>2
      <3>4. ASSUME NEW i \in 1 .. n PROVE sq[i] = path[pos + i]
        <4>1. i \in 1 .. Len(k) - pos /\ pos + i \in 1 .. Len(k)
          <5>1. i \in Nat /\ i >= 1 /\ i <= n
            BY <2>1
          <5> DEFINE y == Len(rest)
                     z == Len(k)
          <5>2. y = z - pos /\ n <= y /\ z \in Nat
            BY <3>1, <3>2, <1>2
          <5> HIDE DEF y, z
          <5>3. i <= z - pos /\ pos + i <= z /\ pos + i >= 1
            BY <5>1, <5>2, <2>1, <1>3
          <5>4. i \in 1 .. z - pos /\ pos + i \in 1 .. z
            BY <5>1, <5>2, <5>3, <1>3
          <5> QED
            BY <5>4 DEF z
        <4>2. sq[i] = k[pos + i]
          BY <4>1, <3>1, <3>3
        <4>3. \A j \in 1 .. Len(k) : path[j] = k[j]
          BY <1>1, EndedFacts
        <4> QED
          BY <4>1, <4>2, <4>3
      <3> QED
        BY <3>3, <3>4
    <2>5. pos + n <= Len(k) /\ N + n <= MaxBlocks /\ N + n + 1 < MaxBlocks /\ N + n \in Nat
          /\ N + n + 2 <= M /\ n = q - pos /\ MaxBlocks \in Nat
      BY <2>1, <2>2, <1>2, <1>3, BlockAssumption
    <2>5a. v = FollowAll(s.t, s.at, sq)
      OBVIOUS
    <2>5b. r = EndBranch(FreeCells(KeepSuffix(v, a, n), a, n), a, n, Rest(rest, n), val)
      BY <1>7b, <1>7c, <1>12 DEF SplitSuffix
    <2> HIDE DEF v, sq
    <2>6. ThreadedTo(R, s, v, C, path, pos, pos + n, N + n)
      BY <1>1, <1>3, <1>4, <2>1, <2>4, <2>5, <2>5a, Threaded
    <2>7. PICK b : Stands(R, v, Thread(C, path, pos, q, b), Cut(path, q))
      BY <2>6 DEF ThreadedTo
    <2>8. v = [t |-> v.t, at |-> v.at] /\ SameTail(t, v.t) /\ v.t.nblk \in Nat /\ v.t.nblk <= N + n
      BY <2>6, <1>7c DEF ThreadedTo
    <2> DEFINE K == N + n
               path0 == Ended(k0)
    <2>9. K \in Nat /\ v.t.nblk <= K /\ K + 1 < MaxBlocks /\ K + 2 <= M
      BY <2>5, <2>8
    <2>10. Parts(C, t, m, D, A, W, k, k0, path, path0, pos, q, a)
      BY <2>1
    <2>11. t.length + Len(k) + 1 + ValueCells <= MaxTail
      BY <1>7c
    <2> HIDE DEF K, path0, q
    <2>12. LandsAt(R, w, k, val, r, K + 2)
      BY <2>5, <2>5b, <2>7, <2>8, <2>9, <2>10, <2>11, SplitLands
    <2> HIDE DEF M
    <2>13. LandsAt(R, w, k, val, r, M)
      <3>1. K + 2 \in Nat
        BY <2>9
      <3> DEFINE Z == K + 2
      <3>2. Z \in Nat /\ Z <= M /\ LandsAt(R, w, k, val, r, Z)
        BY <3>1, <2>9, <2>12
      <3> HIDE DEF Z
      <3> QED
        BY <3>2, <1>6, LandsMore
    <2> QED
      BY <2>13 DEF M
  <1> QED
    BY <1>11, <1>12

-----------------------------------------------------------------------------
(* update's way down from the root.                                        *)

\* The loop over the labels of the key.
LEMMA WalkLoop ==
    ASSUME NEW t, NEW key, Len(key) \in Nat
    PROVE  \E g : /\ g[0] = [t |-> t, at |-> 0, pos |-> 0]
                  /\ \A i \in 1 .. Len(key) : g[i] =
                         IF g[i - 1].t.array[g[i - 1].at].base < 0 THEN g[i - 1]
                         ELSE AtDepth(Follow(g[i - 1].t, g[i - 1].at, key[i]), i)
                  /\ Walk(t, key) = g[Len(key)]
  <1> DEFINE N == Len(key)
             s0 == [t |-> t, at |-> 0, pos |-> 0]
             Next1(s, i) == IF s.t.array[s.at].base < 0 THEN s ELSE AtDepth(Follow(s.t, s.at, key[i]), i)
             Step(g, i) == IF i = 0 THEN s0 ELSE Next1(g[i - 1], i)
             Good(g, m) == g = [i \in 0 .. m |-> Step(g, i)]
             Bad == {m \in Nat : ~ \E g : Good(g, m)}
  <1>1. Bad = {}
    <2> SUFFICES ASSUME Bad # {} PROVE FALSE
      OBVIOUS
    <2> HIDE DEF Next1, s0
    <2>1. Bad \in SUBSET Nat
      OBVIOUS
    <2> HIDE DEF Bad
    <2>2. PICK m \in Bad : \A x \in Bad : m <= x
      BY <2>1, Least
    <2>3. m \in Nat /\ ~ \E g : Good(g, m)
      BY DEF Bad
    <2>4. CASE m = 0
      <3> DEFINE g == [i \in 0 .. 0 |-> s0]
      <3>1. Good(g, 0)
        BY DEF g
      <3> QED
        BY <3>1, <2>3, <2>4
    <2>5. CASE m # 0
      <3>1. m - 1 \in Nat /\ m - 1 \notin Bad
        BY <2>2, <2>3, <2>5
      <3>2. PICK h : Good(h, m - 1)
        BY <3>1 DEF Bad
      <3> DEFINE g == [i \in 0 .. m |-> Step(h, i)]
      <3>3. ASSUME NEW i \in 0 .. m PROVE Step(g, i) = Step(h, i)
        <4>1. CASE i = 0
          BY <4>1
        <4>2. CASE i # 0
          <5>1. i - 1 \in 0 .. m /\ i - 1 \in 0 .. m - 1
            BY <4>2, <2>3
          <5>2. g[i - 1] = Step(h, i - 1)
            BY <5>1
          <5>3. h[i - 1] = Step(h, i - 1)
            <6> HIDE DEF Step
            <6> QED
              BY <5>1, <3>2
          <5> HIDE DEF g
          <5> QED
            BY <4>2, <5>2, <5>3
        <4> QED
          BY <4>1, <4>2
      <3>4. Good(g, m)
        <4> HIDE DEF Step
        <4> QED
          BY <3>3
      <3> QED
        BY <3>4, <2>3
    <2> QED
      BY <2>4, <2>5
  <1>2. \E g : Good(g, N)
    BY <1>1
  <1>3. PICK g : Good(g, N) /\ Walk(t, key) = g[N]
    BY <1>2 DEF Walk
  <1> HIDE DEF Next1, s0
  <1>4. g[0] = s0 /\ \A i \in 1 .. N : g[i] = Next1(g[i - 1], i)
    <2>1. g = [i \in 0 .. N |-> Step(g, i)]
      BY <1>3
    <2>2. \A i \in 0 .. N : g[i] = Step(g, i)
      <3> HIDE DEF Step
      <3> QED
        BY <2>1
    <2> QED
      BY <2>2
  <1> QED
    BY <1>3, <1>4 DEF Next1, s0

\* The steps of Walk.
WalksAs(t, key, g) ==
    /\ g[0] = [t |-> t, at |-> 0, pos |-> 0]
    /\ \A i \in 1 .. Len(key) : g[i] = IF g[i - 1].t.array[g[i - 1].at].base < 0 THEN g[i - 1]
                                       ELSE AtDepth(Follow(g[i - 1].t, g[i - 1].at, key[i]), i)
    /\ Walk(t, key) = g[Len(key)]

\* Walk is those steps.
LEMMA WalkRuns ==
    ASSUME NEW t, NEW key, Len(key) \in Nat
    PROVE  \E g : WalksAs(t, key, g)
  BY WalkLoop DEF WalksAs

\* The node a walk has come to: one with a negative base has no children, any
\* other has some.
NodeIs(s, C, path, j) ==
    LET b == s.t.array[s.at].base
    IN  /\ b \in Int /\ s.at \in Slots
        /\ IF b < 0 THEN j >= 1 /\ <<Cut(path, j), FALSE, b>> \in C
           ELSE j = 0 \/ InnerOf(Cut(path, j)) \in C

\* Every node is of one of those kinds.
LEMMA NodeKind ==
    ASSUME NEW R, NEW s, NEW C, NEW path \in Seq(Labels), NEW j \in 0 .. Len(path),
           j = 0 \/ path[j] # 0, Stands(R, s, C, Cut(path, j))
    PROVE  NodeIs(s, C, path, j)
  <1> DEFINE p == Cut(path, j)
             t == s.t
             e == s.at
  <1>1. PICK V, P, L, O : StandsAt(R, s, C, p, V, P, L, O)
    BY DEF Stands
  <1>2. IsTree(t, V, P, L, O, {}, {}) /\ e \in V \cup {0} /\ P[e] = p /\ Content(t, V, P, L) = C
    BY <1>1 DEF StandsAt
  <1> HIDE DEF t, e
  <1>3. V \in SUBSET (Slots \ {0}) /\ t.array \in [Slots -> [base : Int, check : Int]] /\ t.array[0].base = 0
        /\ 0 \in Slots
    <2>1. 0 \in Slots
      BY SlotRange
    <2> QED
      BY <2>1, <1>2 DEF IsTree, GhostTyped, TrieTyped, Bases
  <1>4. e \in Slots /\ t.array[e].base \in Int
    BY <1>2, <1>3
  <1>5. (e = 0 <=> j = 0) /\ (e # 0 => L[e] = path[j])
    BY <1>2, LastLabel DEF p
  <1>6. j \in Nat
    OBVIOUS
  <1>7. CASE e = 0
    BY <1>3, <1>4, <1>5, <1>7 DEF NodeIs, t, e
  <1>8. CASE e # 0
    <2>1. e \in V /\ j # 0 /\ L[e] # 0
      BY <1>2, <1>5, <1>8
    <2>2. Holding(t, P, L, e) \in C
      BY <2>1, <1>2, NodesOf
    <2>3. InnerNode(t, L, e) <=> t.array[e].base >= 0
      BY <2>1, <1>8 DEF InnerNode
    <2>4. IF t.array[e].base < 0 THEN <<p, FALSE, t.array[e].base>> \in C ELSE InnerOf(p) \in C
      BY <1>2, <1>4, <2>2, <2>3 DEF Holding
    <2>5. j >= 1
      BY <2>1, <1>6
    <2> QED
      BY <1>4, <2>4, <2>5 DEF NodeIs, t, e, p
  <1> QED
    BY <1>7, <1>8

-----------------------------------------------------------------------------
(* update, from the root.                                                  *)

\* Where the walk has come to after i labels: to a node that was there, of
\* which only one without children holds it up; or to a leaf just made.
HereAt(d) == [t |-> d.t, at |-> d.at]
WalkAt(R, t, C, k, path, d, i) ==
    /\ d.pos \in 0 .. i /\ SameTail(t, d.t) /\ d.t.nblk \in Nat /\ d.t.nblk <= t.nblk + d.pos
    /\ \/ Stands(R, HereAt(d), C, Cut(path, d.pos)) /\ (d.t.array[d.at].base >= 0 => d.pos = i)
       \/ d.pos >= 1 /\ d.t.array[d.at].base < 0 /\ AtLeaf(R, HereAt(d), C, d.t, k, path, d.pos - 1)

\* A node without children holds the walk up.
LEMMA WalkStays ==
    ASSUME NEW R, NEW t, NEW C, NEW k, NEW path, NEW d, NEW i \in Nat, WalkAt(R, t, C, k, path, d, i),
           d.t.array[d.at].base < 0
    PROVE  WalkAt(R, t, C, k, path, d, i + 1)
  <1>1. d.pos \in 0 .. i + 1
    BY DEF WalkAt
  <1>2. CASE Stands(R, HereAt(d), C, Cut(path, d.pos))
    <2>0. PICK V, P, L, O : StandsAt(R, HereAt(d), C, Cut(path, d.pos), V, P, L, O)
      BY <1>2 DEF Stands
    <2>1. d.t.array[d.at].base \in Int
      <3> DEFINE s == HereAt(d)
      <3>1. s.t = d.t /\ s.at = d.at
        BY DEF HereAt
      <3>2. s.at \in Slots /\ s.t.array \in [Slots -> [base : Int, check : Int]]
        <4>1. StandsAt(R, s, C, Cut(path, d.pos), V, P, L, O)
          BY <2>0
        <4> HIDE DEF s
        <4>2. IsTree(s.t, V, P, L, O, {}, {}) /\ s.at \in V \cup {0}
          BY <4>1 DEF StandsAt
        <4>3. 0 \in Slots
          BY SlotRange
        <4> QED
          BY <4>2, <4>3 DEF IsTree, TrieTyped, GhostTyped
      <3> QED
        BY <3>1, <3>2
    <2>2. ~ d.t.array[d.at].base >= 0
      BY <2>1
    <2> QED
      BY <1>1, <1>2, <2>2 DEF WalkAt
  <1>3. CASE ~ Stands(R, HereAt(d), C, Cut(path, d.pos))
    BY <1>1, <1>3 DEF WalkAt
  <1> QED
    BY <1>2, <1>3

\* A label more, from a node with children.
LEMMA WalkStep ==
    ASSUME NEW R, Spare("chain", R), NEW t, NEW C, IsForest(C), NEW k, IsKey(k), k[1] \in R,
           NEW path, path = Ended(k), NEW i \in 0 .. Len(k) - 1, NEW d, WalkAt(R, t, C, k, path, d, i),
           ~ d.t.array[d.at].base < 0, t.nblk \in Nat, t.nblk + Len(k) <= MaxBlocks,
           NEW e, e = AtDepth(Follow(d.t, d.at, k[i + 1]), i + 1)
    PROVE  WalkAt(R, t, C, k, path, e, i + 1)
  <1> DEFINE s == HereAt(d)
             l == k[i + 1]
             f == Follow(s.t, s.at, l)
             p == Cut(path, i)
  <1>1. s.t = d.t /\ s.at = d.at
    BY DEF HereAt
  <1>2. e = [t |-> f.t, at |-> f.to, pos |-> i + 1]
    BY <1>1 DEF AtDepth
  <1>3. /\ path \in Seq(Labels) /\ Len(path) = Len(k) + 1 /\ Len(k) \in Nat
        /\ \A j \in 1 .. Len(k) : path[j] = k[j] /\ k[j] # 0 /\ k[j] \in Labels
    BY EndedFacts
  <1>4. i \in Nat /\ i + 1 \in 1 .. Len(k) /\ i \in 0 .. Len(path) /\ i < Len(path) /\ i \in 0 .. Len(path) - 1
        /\ i + 1 <= Len(k)
    BY <1>3
  <1>5. l = path[i + 1] /\ l \in Labels /\ l # 0
    BY <1>3, <1>4
  <1>6. /\ d.pos \in 0 .. i /\ SameTail(t, d.t) /\ d.t.nblk \in Nat /\ d.t.nblk <= t.nblk + d.pos
        /\ Stands(R, s, C, Cut(path, d.pos)) /\ (d.t.array[d.at].base >= 0 => d.pos = i)
    BY DEF WalkAt
  <1>7. d.pos \in 0 .. Len(path) /\ (d.pos = 0 \/ path[d.pos] # 0)
    <2>1. d.pos \in 0 .. Len(path) /\ (d.pos = 0 \/ d.pos \in 1 .. Len(k))
      BY <1>3, <1>4, <1>6
    <2> QED
      BY <2>1, <1>3
  <1> HIDE DEF s
  <1>8. NodeIs(s, C, path, d.pos)
    <2> DEFINE n == d.pos
    <2>1. n \in 0 .. Len(path) /\ (n = 0 \/ path[n] # 0) /\ Stands(R, s, C, Cut(path, n))
      BY <1>6, <1>7
    <2> HIDE DEF n
    <2>2. NodeIs(s, C, path, n)
      BY <2>1, <1>3, NodeKind
    <2> QED
      BY <2>2 DEF n
  <1>9. d.pos = i /\ (i = 0 \/ InnerOf(p) \in C)
    <2>1. s.t.array[s.at].base \in Int /\ ~ s.t.array[s.at].base < 0
      BY <1>1, <1>8 DEF NodeIs
    <2>2. d.pos = i
      <3> DEFINE b == s.t.array[s.at].base
      <3>1. b = d.t.array[d.at].base
        BY <1>1
      <3>2. b \in Int /\ ~ b < 0 /\ (b >= 0 => d.pos = i)
        BY <2>1, <3>1, <1>6
      <3> HIDE DEF b
      <3>3. b >= 0
        BY <3>2
      <3> QED
        BY <3>2, <3>3
    <2> QED
      BY <2>1, <2>2, <1>8 DEF NodeIs
  <1>10. Stands(R, s, C, p) /\ s.t.nblk \in Nat /\ s.t.nblk <= t.nblk + i /\ SameTail(t, s.t)
    BY <1>1, <1>6, <1>9
  <1>11. p \in Seq(Labels) /\ Len(p) = i /\ (i # 0 => p[i] = path[i]) /\ Cut(path, i + 1) = Named(p, l)
         /\ (i = 0 => p = <<>>)
    <2>1. /\ p \in Seq(Labels) /\ Len(p) = i
          /\ \A j \in 1 .. i : p[j] = path[j]
          /\ Cut(path, i + 1) = Named(p, path[i + 1])
      BY <1>3, <1>4, CutFacts
    <2>2. i # 0 => i \in 1 .. i
      BY <1>4
    <2>3. i = 0 => p = <<>>
      BY <2>1
    <2> QED
      BY <2>1, <2>2, <2>3, <1>5
  <1>12. CanGo(R, s, p, l)
    <2>1. s.t.nblk < MaxBlocks
      BY <1>3, <1>4, <1>10, BlockAssumption
    <2>2. IF p = <<>> THEN l \in R ELSE p[Len(p)] # 0
      <3>1. CASE i = 0
        BY <3>1, <1>11
      <3>2. CASE i # 0
        <4>1. i \in 1 .. Len(k)
          BY <3>2, <1>4
        <4> QED
          BY <4>1, <3>2, <1>3, <1>11
      <3> QED
        BY <3>1, <3>2
    <2> QED
      BY <2>1, <2>2, <1>5, <1>11 DEF CanGo
  <1> DEFINE E == Extended(C, p, l)
  <1>13. ExtendedTo(C, path, i)
    BY <1>3, <1>4, <1>9, ExtendedFacts
  <1>14. /\ Has(C, Cut(path, i + 1)) => E = C
         /\ ~ Has(C, Cut(path, i + 1)) => E = C \cup {<<Cut(path, i + 1), FALSE, -1>>}
    BY <1>13, <1>5 DEF ExtendedTo
  <1>15. f = Follow(s.t, s.at, l)
    OBVIOUS
  <1> HIDE DEF f, l, p, E
  <1>16. Went(R, s, C, p, l, f)
    BY <1>10, <1>12, <1>15, FollowStands
  <1>17. Stands(R, [t |-> f.t, at |-> f.to], E, Cut(path, i + 1)) /\ SameTail(s.t, f.t)
         /\ f.t.nblk \in {s.t.nblk, s.t.nblk + 1}
    BY <1>11, <1>16 DEF Went, E
  <1>18. /\ e.pos = i + 1 /\ e.t = f.t /\ e.at = f.to /\ HereAt(e) = [t |-> f.t, at |-> f.to]
    BY <1>2 DEF HereAt
  <1>19. e.pos \in 0 .. i + 1 /\ SameTail(t, e.t) /\ e.t.nblk \in Nat /\ e.t.nblk <= t.nblk + e.pos
    <2>1. SameTail(t, e.t)
      BY <1>10, <1>17, <1>18, SameTailOn
    <2>2. e.t.nblk \in Nat /\ e.t.nblk <= t.nblk + (i + 1)
      <3> DEFINE x == s.t.nblk
                 y == f.t.nblk
                 z == t.nblk
      <3>1. x \in Nat /\ x <= z + i /\ z \in Nat /\ y \in {x, x + 1} /\ e.t.nblk = y
        BY <1>10, <1>17, <1>18
      <3> HIDE DEF x, y, z
      <3>2. y \in Nat /\ y <= z + (i + 1)
        BY <3>1, <1>4
      <3> QED
        BY <3>1, <3>2 DEF z
    <2> QED
      BY <2>1, <2>2, <1>18, <1>4
  <1>20. CASE Has(C, Cut(path, i + 1))
    BY <1>14, <1>17, <1>18, <1>19, <1>20 DEF WalkAt
  <1>21. CASE ~ Has(C, Cut(path, i + 1))
    <2>1. CanBear(C, path, i)
      BY <1>9, <1>21 DEF CanBear, p
    <2>2. AtLeaf(R, HereAt(e), C, e.t, k, path, i)
      <3>1. Stands(R, HereAt(e), C \cup {<<Cut(path, i + 1), FALSE, -1>>}, Cut(path, i + 1))
        BY <1>14, <1>17, <1>18, <1>21
      <3> QED
        BY <2>1, <3>1 DEF AtLeaf
    <2>3. e.t.array[e.at].base < 0
      <3> DEFINE z == HereAt(e)
                 p2 == Cut(path, i + 1)
      <3>1. AtLeaf(R, z, C, z.t, k, path, i) /\ z.t = e.t /\ z.at = e.at
        BY <2>2, <1>18
      <3> HIDE DEF z
      <3>2. \E V, P, L, O : LeafNode(R, z, C, p2, V, P, L, O)
        BY <3>1, LeafNodeIs
      <3>3. z.t.array[z.at].base = -1
        BY <3>2 DEF LeafNode
      <3> QED
        <4> DEFINE b == z.t.array[z.at].base
        <4>1. b = -1 /\ b = e.t.array[e.at].base
          BY <3>1, <3>3
        <4> HIDE DEF b
        <4>2. b < 0
          BY <4>1
        <4> QED
          BY <4>1, <4>2
    <2>4. e.pos - 1 = i /\ e.pos >= 1
      BY <1>4, <1>18
    <2> QED
      BY <1>19, <2>2, <2>3, <2>4 DEF WalkAt
  <1> QED
    BY <1>20, <1>21

\* The way down.
LEMMA WalkDown ==
    ASSUME NEW R, Spare("chain", R), NEW t, NEW C, TrieOf(R, t, C), NEW k, IsKey(k), k[1] \in R,
           t.nblk + Len(k) <= MaxBlocks, NEW path, path = Ended(k)
    PROVE  WalkAt(R, t, C, k, path, Walk(t, k), Len(k))
  <1>1. Len(k) \in Nat
    BY DEF IsKey
  <1>2. PICK g : WalksAs(t, k, g)
    BY <1>1, WalkRuns
  <1>3. /\ g[0] = [t |-> t, at |-> 0, pos |-> 0]
        /\ \A i \in 1 .. Len(k) : g[i] = IF g[i - 1].t.array[g[i - 1].at].base < 0 THEN g[i - 1]
                                         ELSE AtDepth(Follow(g[i - 1].t, g[i - 1].at, k[i]), i)
        /\ Walk(t, k) = g[Len(k)]
    BY <1>2 DEF WalksAs
  <1>4. PICK V, P, L, O : TrieAs(R, t, C, V, P, L, O)
    BY DEF TrieOf
  <1>5. IsForest(C) /\ t.nblk \in Nat /\ P[0] = <<>>
    <2>1. IsTree(t, V, P, L, O, {}, {}) /\ C = Content(t, V, P, L)
      BY <1>4 DEF TrieAs
    <2>2. IsForest(C)
      BY <2>1, ContentForest
    <2>3. t.nblk \in 1 .. MaxBlocks /\ P[0] = <<>>
      BY <2>1 DEF IsTree, TrieTyped, GhostTyped
    <2> QED
      BY <2>2, <2>3
  <1> DEFINE S == {i \in 0 .. Len(k) : WalkAt(R, t, C, k, path, g[i], i)}
  <1>6. 0 \in S
    <2>1. Cut(path, 0) = <<>>
      BY DEF Cut
    <2>2. StandsAt(R, [t |-> t, at |-> 0], C, <<>>, V, P, L, O)
      BY <1>4, <1>5 DEF StandsAt, TrieAs
    <2>3. Stands(R, HereAt(g[0]), C, Cut(path, 0))
      BY <1>3, <2>1, <2>2 DEF Stands, HereAt
    <2>4. SameTail(t, t)
      BY DEF SameTail
    <2>5. g[0].t = t /\ g[0].pos = 0
      BY <1>3
    <2>6. WalkAt(R, t, C, k, path, g[0], 0)
      BY <2>3, <2>4, <2>5, <1>5 DEF WalkAt
    <2> QED
      BY <2>6, <1>1
  <1>7. ASSUME NEW i \in 1 .. Len(k), i - 1 \in S PROVE i \in S
    <2> DEFINE d == g[i - 1]
               e == g[i]
               j == i - 1
    <2>1. j \in 0 .. Len(k) - 1 /\ j \in Nat /\ j + 1 = i
      BY <1>1
    <2>2. WalkAt(R, t, C, k, path, d, j)
      BY <1>7
    <2>3. e = IF d.t.array[d.at].base < 0 THEN d ELSE AtDepth(Follow(d.t, d.at, k[j + 1]), j + 1)
      BY <1>3, <2>1
    <2> HIDE DEF d, j, e
    <2>4. CASE d.t.array[d.at].base < 0
      <3>1. WalkAt(R, t, C, k, path, d, j + 1)
        BY <2>1, <2>2, <2>4, WalkStays
      <3> QED
        BY <3>1, <2>1, <2>3, <2>4 DEF e
    <2>5. CASE ~ d.t.array[d.at].base < 0
      <3>1. e = AtDepth(Follow(d.t, d.at, k[j + 1]), j + 1)
        BY <2>3, <2>5
      <3>2. WalkAt(R, t, C, k, path, e, j + 1)
        BY <1>5, <2>1, <2>2, <2>5, <3>1, WalkStep
      <3> QED
        BY <3>2, <2>1 DEF e
    <2> QED
      BY <2>4, <2>5
  <1> HIDE DEF S
  <1>8. \A i \in 0 .. Len(k) : i \in S
    BY <1>1, <1>6, <1>7, UpTo
  <1>9. Len(k) \in S
    BY <1>1, <1>8
  <1> QED
    BY <1>3, <1>9 DEF S

\* The suffix of a node is never where the length is kept.
LEMMA SuffixBase ==
    ASSUME NEW C, NEW t, NEW m, NEW D, NEW A, NEW W, StoredAs(C, t, m, D, A, W),
           NEW path \in Seq(Labels), NEW pos \in 1 .. Len(path),
           NEW b \in Int, b < 0, <<Cut(path, pos), FALSE, b>> \in C
    PROVE  - b >= HeaderCells
  <1> DEFINE x == <<Cut(path, pos), FALSE, b>>
  <1>1. x \in C /\ x[1] = Cut(path, pos) /\ ~ x[2] /\ x[3] = b /\ x[3] \in Int /\ x[3] < 0
    OBVIOUS
  <1> HIDE DEF x
  <1>2. PICK k0 : OwnerOf(C, m, D, A, k0, x, path, pos)
    BY <1>1, SuffixOwner
  <1>3. k0 \in DOMAIN m /\ D[k0] = pos /\ pos \in 1 .. Len(k0) /\ A[k0] = - x[3]
    BY <1>2 DEF OwnerOf
  <1>4. KeyAt(t, W, k0, m[k0], D[k0], A[k0])
    BY <1>3 DEF StoredAs, TailHolds
  <1>5. A[k0] >= HeaderCells
    <2>1. D[k0] <= Len(k0) => A[k0] >= HeaderCells
      BY <1>4 DEF KeyAt
    <2>2. pos <= Len(k0)
      BY <1>3
    <2> QED
      BY <2>1, <2>2, <1>3
  <1>6. A[k0] = - b
    BY <1>1, <1>3
  <1> QED
    BY <1>5, <1>6

\* update: afterwards the key is there, and update returns where its value is.
LEMMA UpdateLands ==
    ASSUME NEW R, Spare("chain", R), NEW t, NEW m, NEW C, NEW D, NEW A, NEW W, HoldsAs(R, t, m, C, D, A, W),
           NEW k, IsKey(k), k[1] \in R, t.length + Len(k) + 1 + ValueCells <= MaxTail,
           t.nblk + Len(k) + 2 <= MaxBlocks, NEW val,
           NEW w, WithAt(m, w, k, ValueOf(m, k)), NEW r, r = Update(t, k, val)
    PROVE  LandsAt(R, w, k, val, r, t.nblk + Len(k) + 2)
  <1> DEFINE path == Ended(k)
             d == Walk(t, k)
             s == HereAt(d)
             pos == d.pos
             b == d.t.array[d.at].base
             M == t.nblk + Len(k) + 2
             N == t.nblk + pos
  <1>1. TrieOf(R, t, C) /\ StoredAs(C, t, m, D, A, W)
    BY DEF HoldsAs
  <1>2. t.nblk \in Nat /\ MaxBlocks \in Nat /\ IsForest(C)
    <2>1. PICK V, P, L, O : TrieAs(R, t, C, V, P, L, O)
      BY <1>1 DEF TrieOf
    <2>2. IsTree(t, V, P, L, O, {}, {}) /\ C = Content(t, V, P, L)
      BY <2>1 DEF TrieAs
    <2>3. IsForest(C)
      BY <2>2, ContentForest
    <2>4. t.nblk \in 1 .. MaxBlocks
      BY <2>2 DEF IsTree, TrieTyped
    <2> QED
      BY <2>3, <2>4, BlockAssumption
  <1>3. /\ path \in Seq(Labels) /\ Len(path) = Len(k) + 1 /\ Len(k) \in Nat /\ Len(k) >= 1
        /\ Cut(path, Len(k)) = k /\ \A j \in 1 .. Len(k) : path[j] # 0
    BY EndedFacts
  <1>4. WalkAt(R, t, C, k, path, d, Len(k))
    <2>1. t.nblk + Len(k) <= MaxBlocks
      BY <1>2, <1>3
    <2> QED
      BY <2>1, <1>1, WalkDown
  <1>5. r = UpdateFrom(d, Rest(k, pos), val)
    BY DEF Update, UpdateAfter
  <1>6. s.t = d.t /\ s.at = d.at
    BY DEF HereAt
  <1> HIDE DEF d, s, path, pos, b
  <1>7. /\ pos \in 0 .. Len(k) /\ SameTail(t, s.t) /\ s.t.nblk \in Nat /\ s.t.nblk <= N
        /\ \/ Stands(R, s, C, Cut(path, pos)) /\ (b >= 0 => pos = Len(k))
           \/ pos >= 1 /\ b < 0 /\ AtLeaf(R, s, C, s.t, k, path, pos - 1)
    BY <1>4, <1>6 DEF WalkAt, s, pos, b
  <1>8. r = IF b >= 0 THEN AddTerminal(Follow(s.t, s.at, 0), val)
            ELSE IF - b >= HeaderCells THEN UpdateInTail(s.t, s.at, - b, Rest(k, pos), val)
            ELSE AddSuffix(s.t, s.at, Rest(k, pos), val)
    BY <1>5, <1>6 DEF UpdateFrom, b
  <1>9. StoredAs(C, s.t, m, D, A, W)
    BY <1>1, <1>7, TailSame
  <1>10. s.t.length = t.length
    BY <1>1, <1>7 DEF SameTail, StoredAs, TailHolds, TailTyped
  <1>11. s.t.length + Len(k) + 1 + ValueCells <= MaxTail
    BY <1>10
  <1>12. N \in Nat /\ M \in Nat /\ M <= MaxBlocks /\ N + 2 <= M /\ s.t.nblk < MaxBlocks /\ N + (Len(k) - pos) + 2 = M
    <2> DEFINE x == t.nblk
               n == Len(k)
               y == s.t.nblk
    <2>1. x \in Nat /\ MaxBlocks \in Nat /\ n \in Nat /\ n >= 1 /\ pos \in 0 .. n /\ y \in Nat /\ y <= N
          /\ N = x + pos /\ M = x + n + 2 /\ x + n + 2 <= MaxBlocks
      BY <1>2, <1>3, <1>7
    <2> HIDE DEF x, n, y, N, M
    <2>2. N \in Nat /\ M \in Nat /\ M <= MaxBlocks /\ N + 2 <= M /\ y < MaxBlocks /\ N + (n - pos) + 2 = M
      BY <2>1
    <2> QED
      BY <2>2 DEF n, y
  <1> HIDE DEF N, M
  <1>13. CASE pos >= 1 /\ b < 0 /\ AtLeaf(R, s, C, s.t, k, path, pos - 1)
    <2> DEFINE j == pos - 1
               p == Cut(path, j + 1)
    <2>1. AtLeaf(R, s, C, s.t, k, path, j) /\ j + 1 = pos
      BY <1>7, <1>13
    <2>2. p = Cut(path, j + 1)
      OBVIOUS
    <2> HIDE DEF j, p
    <2>3. \E V, P, L, O : LeafNode(R, s, C, p, V, P, L, O)
      BY <2>1, <2>2, LeafNodeIs
    <2>4. b = -1
      BY <2>3, <1>6 DEF LeafNode, b
    <2>5. r = AddSuffix(s.t, s.at, Rest(k, j + 1), val)
      <3>1. ~ b >= 0 /\ ~ - b >= HeaderCells
        BY <2>4 DEF HeaderCells
      <3> QED
        BY <3>1, <2>1, <1>8
    <2>6. s.t.nblk <= M
      BY <1>7, <1>12
    <2> DEFINE rest == Rest(k, j + 1)
    <2>7. rest = Rest(k, j + 1) /\ r = AddSuffix(s.t, s.at, rest, val)
      BY <2>5
    <2> HIDE DEF rest
    <2>8. LandsAt(R, w, k, val, r, M)
      BY <2>1, <2>6, <2>7, <1>9, <1>11, SuffixReady
    <2> QED
      BY <2>8 DEF M
  <1>14. CASE Stands(R, s, C, Cut(path, pos)) /\ (b >= 0 => pos = Len(k))
    <2>1. NodeIs(s, C, path, pos)
      <3>1. pos \in 0 .. Len(path) /\ (pos = 0 \/ pos \in 1 .. Len(k))
        BY <1>3, <1>7
      <3>2. pos = 0 \/ path[pos] # 0
        BY <3>1, <1>3
      <3> QED
        BY <3>1, <3>2, <1>3, <1>14, NodeKind
    <2>2. b \in Int /\ IF b < 0 THEN pos >= 1 /\ <<Cut(path, pos), FALSE, b>> \in C
                       ELSE pos = 0 \/ InnerOf(Cut(path, pos)) \in C
      BY <2>1, <1>6 DEF NodeIs, b
    <2>3. CASE b >= 0
      <3> DEFINE f == Follow(s.t, s.at, 0)
      <3>1. pos = Len(k) /\ Stands(R, s, C, k) /\ InnerOf(k) \in C
        <4>1. pos = Len(k) /\ ~ b < 0 /\ pos # 0
          BY <1>3, <1>14, <2>2, <2>3
        <4> QED
          BY <4>1, <1>3, <1>14, <2>2
      <3>2. r = AtNode(f.t, f.to, val)
        BY <1>8, <2>3 DEF AddTerminal
      <3>2a. f = Follow(s.t, s.at, 0)
        OBVIOUS
      <3> HIDE DEF f
      <3>3. Ready(R, f.t, w, k, "node", f.to) /\ f.t.nblk \in {s.t.nblk, s.t.nblk + 1}
        BY <3>1, <3>2a, <1>9, <1>12, TerminalReady
      <3>4. f.t.nblk <= M
        <4> DEFINE x == f.t.nblk
                   y == s.t.nblk
        <4>1. x \in {y, y + 1} /\ y \in Nat /\ y <= N /\ N \in Nat /\ M \in Nat /\ N + 2 <= M
          BY <3>3, <1>7, <1>12
        <4> HIDE DEF x, y
        <4>2. x <= M
          BY <4>1
        <4> QED
          BY <4>2 DEF x
      <3>5. LandsAt(R, w, k, val, r, M)
        BY <3>2, <3>3, <3>4 DEF LandsAt
      <3> QED
        BY <3>5 DEF M
    <2>4. CASE ~ b >= 0
      <3> DEFINE a == - b
                 rest == Rest(k, pos)
                 K == N + (Len(k) - pos) + 2
      <3>1. b < 0 /\ pos >= 1 /\ <<Cut(path, pos), FALSE, b>> \in C
        BY <2>2, <2>4
      <3>2. pos \in 1 .. Len(k) /\ pos \in 1 .. Len(path)
        BY <1>3, <1>7, <3>1
      <3>3. a >= HeaderCells
        BY <1>3, <1>9, <2>2, <3>1, <3>2, SuffixBase
      <3>4. r = UpdateInTail(s.t, s.at, a, rest, val)
        BY <1>8, <2>4, <3>3
      <3>5. a \in Nat /\ a > 0 /\ b = - a
        BY <2>2, <3>1
      <3>6. rest = Rest(k, pos) /\ K <= MaxBlocks /\ K = M
        BY <1>12
      <3>6a. K = N + (Len(k) - pos) + 2
        OBVIOUS
      <3> HIDE DEF a, rest, K
      <3>7. AtSuffix(R, s, C, k, path, pos, a)
        BY <1>2, <1>14, <3>1, <3>2, <3>5 DEF AtSuffix, path
      <3>8. LandsAt(R, w, k, val, r, N + (Len(k) - pos) + 2)
        BY <1>7, <1>9, <1>11, <1>12, <3>4, <3>6, <3>6a, <3>7, TailLands
      <3>9. LandsAt(R, w, k, val, r, M)
        BY <3>6, <3>6a, <3>8
      <3> QED
        BY <3>9 DEF M
    <2> QED
      BY <2>3, <2>4
  <1> QED
    BY <1>7, <1>13, <1>14

-----------------------------------------------------------------------------
(* What is stored.                                                         *)

\* The writes through update's reference.
LEMMA AddForms ==
    ASSUME NEW u, {"array", "tail"} \subseteq DOMAIN u, u.array \in [Slots -> [base : Int, check : Int]],
           u.tail \in [Cells -> Int], NEW at, NEW v, NEW val
    PROVE  /\ at \in Slots => /\ PutAs(u, AtNode(u, at, val).t, "node", at, u.array[at].base + val)
                              /\ PutAs(u, Write(AtNode(u, at, val), v), "node", at, v)
           /\ at \in Cells => /\ PutAs(u, AtCell(u, at, val).t, "tail", at, u.tail[at] + val)
                              /\ PutAs(u, Write(AtCell(u, at, val), v), "tail", at, v)
  <1>1. ASSUME at \in Slots
        PROVE  /\ PutAs(u, AtNode(u, at, val).t, "node", at, u.array[at].base + val)
               /\ PutAs(u, Write(AtNode(u, at, val), v), "node", at, v)
    <2> DEFINE x == u.array[at].base + val
               a == [u.array EXCEPT ![at] = Node(x, u.array[at].check)]
               y == [u EXCEPT !.array[at].base = @ + val]
               z == [y EXCEPT !.array[at].base = v]
    <2>1. AtNode(u, at, val) = [t |-> y, in |-> "node", at |-> at]
      BY DEF AtNode
    <2>2. y = [u EXCEPT !.array = a]
      <3>1. [u.array[at] EXCEPT !.base = @ + val] = Node(x, u.array[at].check)
        BY <1>1 DEF Node
      <3>2. y = [u EXCEPT !.array = [u.array EXCEPT ![at] = [u.array[at] EXCEPT !.base = @ + val]]]
        OBVIOUS
      <3> QED
        BY <3>1, <3>2
    <2>3. Write(AtNode(u, at, val), v) = z
      <3> DEFINE g == AtNode(u, at, val)
      <3>1. g.t = y /\ g.in = "node" /\ g.at = at
        BY <2>1
      <3> HIDE DEF g, y
      <3>2. Write(g, v) = [g.t EXCEPT !.array[g.at].base = v]
        BY <3>1 DEF Write
      <3> QED
        BY <3>1, <3>2 DEF g
    <2>4. a \in [Slots -> [base : {x} \cup Int, check : Int]]
      BY <1>1 DEF Node
    <2> HIDE DEF y, x
    <2>5. DOMAIN y = DOMAIN u /\ y.array = a /\ \A f \in DOMAIN u \ {"array"} : y[f] = u[f]
      BY <2>2
    <2> DEFINE c == [a EXCEPT ![at] = Node(v, u.array[at].check)]
    <2>6. z = [y EXCEPT !.array = c]
      <3>1. [y.array[at] EXCEPT !.base = v] = Node(v, u.array[at].check)
        <4>1. y.array[at] = Node(x, u.array[at].check)
          BY <2>5, <1>1
        <4> QED
          BY <4>1 DEF Node
      <3>2. z = [y EXCEPT !.array = [y.array EXCEPT ![at] = [y.array[at] EXCEPT !.base = v]]]
        OBVIOUS
      <3> QED
        BY <3>1, <3>2, <2>5
    <2> HIDE DEF z
    <2>7. DOMAIN z = DOMAIN u /\ z.array = c /\ \A f \in DOMAIN u \ {"array"} : z[f] = u[f]
      BY <2>5, <2>6
    <2>8. c = [u.array EXCEPT ![at] = Node(v, u.array[at].check)]
      BY <1>1
    <2>9. PutAs(u, y, "node", at, x)
      BY <2>5 DEF PutAs
    <2>10. PutAs(u, z, "node", at, v)
      BY <2>7, <2>8 DEF PutAs
    <2> QED
      BY <2>1, <2>3, <2>9, <2>10 DEF x
  <1>2. ASSUME at \in Cells
        PROVE  /\ PutAs(u, AtCell(u, at, val).t, "tail", at, u.tail[at] + val)
               /\ PutAs(u, Write(AtCell(u, at, val), v), "tail", at, v)
    <2> DEFINE x == u.tail[at] + val
               a == [u.tail EXCEPT ![at] = x]
               y == [u EXCEPT !.tail[at] = @ + val]
               z == [y EXCEPT !.tail[at] = v]
    <2>1. AtCell(u, at, val) = [t |-> y, in |-> "tail", at |-> at]
      BY DEF AtCell
    <2>2. y = [u EXCEPT !.tail = a]
      OBVIOUS
    <2>3. Write(AtCell(u, at, val), v) = z
      <3> DEFINE g == AtCell(u, at, val)
      <3>1. g.t = y /\ g.in = "tail" /\ g.at = at
        BY <2>1
      <3> HIDE DEF g, y
      <3>2. Write(g, v) = [g.t EXCEPT !.tail[g.at] = v]
        BY <3>1 DEF Write
      <3> QED
        BY <3>1, <3>2 DEF g
    <2> HIDE DEF y, x
    <2>5. DOMAIN y = DOMAIN u /\ y.tail = a /\ \A f \in DOMAIN u \ {"tail"} : y[f] = u[f]
      BY <2>2
    <2> DEFINE c == [a EXCEPT ![at] = v]
    <2>6. z = [y EXCEPT !.tail = c]
      BY <2>5
    <2> HIDE DEF z
    <2>7. DOMAIN z = DOMAIN u /\ z.tail = c /\ \A f \in DOMAIN u \ {"tail"} : z[f] = u[f]
      BY <2>5, <2>6
    <2>8. c = [u.tail EXCEPT ![at] = v]
      BY <1>2
    <2>9. PutAs(u, y, "tail", at, x)
      BY <2>5 DEF PutAs
    <2>10. PutAs(u, z, "tail", at, v)
      BY <2>7, <2>8 DEF PutAs
    <2> QED
      BY <2>1, <2>3, <2>9, <2>10 DEF x
  <1> QED
    BY <1>1, <1>2

\* The trie has room for the key.
RoomFor(R, t, k) ==
    /\ IsKey(k) /\ k[1] \in R /\ t.length + Len(k) + 1 + ValueCells <= MaxTail
    /\ t.nblk + Len(k) + 2 <= MaxBlocks

\* It has the key then.
LEMMA UpdateMade ==
    ASSUME NEW R, Spare("chain", R), NEW t, NEW m, Holds(R, t, m), NEW k, RoomFor(R, t, k),
           NEW val, NEW r, r = Update(t, k, val),
           NEW w, w = [l \in DOMAIN m \cup {k} |-> IF l = k THEN ValueOf(m, k) ELSE m[l]]
    PROVE  \E u, at : \/ r = AtNode(u, at, val) /\ Ready(R, u, w, k, "node", at)
                      \/ r = AtCell(u, at, val) /\ Ready(R, u, w, k, "tail", at)
  <1>1. PICK C, D, A, W : HoldsAs(R, t, m, C, D, A, W)
    BY DEF Holds
  <1>2. WithAt(m, w, k, ValueOf(m, k))
    <2>1. DOMAIN w = DOMAIN m \cup {k} /\ w[k] = ValueOf(m, k)
      OBVIOUS
    <2>2. \A l \in DOMAIN m : l # k => w[l] = m[l]
      OBVIOUS
    <2> QED
      BY <2>1, <2>2 DEF WithAt
  <1> DEFINE N == t.nblk + Len(k) + 2
  <1>3. LandsAt(R, w, k, val, r, N)
    <2>1. /\ IsKey(k) /\ k[1] \in R /\ t.length + Len(k) + 1 + ValueCells <= MaxTail
          /\ t.nblk + Len(k) + 2 <= MaxBlocks
      BY DEF RoomFor
    <2> QED
      BY <1>1, <1>2, <2>1, UpdateLands
  <1> HIDE DEF N
  <1> QED
    BY <1>3 DEF LandsAt

\* d[k] = v: the map has v at k.
THEOREM SetHolds ==
    ASSUME NEW R, Spare("chain", R), NEW t, NEW m, Holds(R, t, m), NEW k, RoomFor(R, t, k),
           NEW v \in Nat, NEW w, WithAt(m, w, k, v)
    PROVE  Holds(R, Set(t, k, v), w)
  <1> DEFINE r == Update(t, k, v)
             w0 == [l \in DOMAIN m \cup {k} |-> IF l = k THEN ValueOf(m, k) ELSE m[l]]
  <1>1. r = Update(t, k, v) /\ w0 = [l \in DOMAIN m \cup {k} |-> IF l = k THEN ValueOf(m, k) ELSE m[l]]
    OBVIOUS
  <1>2. WithAt(w0, w, k, v)
    <2>1. DOMAIN w = DOMAIN m \cup {k} /\ w[k] = v /\ \A l \in DOMAIN m : l # k => w[l] = m[l]
      BY DEF WithAt
    <2>2. DOMAIN w0 = DOMAIN m \cup {k}
      OBVIOUS
    <2>3. ASSUME NEW l \in DOMAIN w0, l # k PROVE w[l] = w0[l]
      BY <2>1, <2>3
    <2> QED
      BY <2>1, <2>2, <2>3 DEF WithAt
  <1>3. Set(t, k, v) = Write(r, v)
    BY DEF Set
  <1> HIDE DEF r, w0
  <1>4. PICK u, at : \/ r = AtNode(u, at, v) /\ Ready(R, u, w0, k, "node", at)
                     \/ r = AtCell(u, at, v) /\ Ready(R, u, w0, k, "tail", at)
    BY <1>1, UpdateMade
  <1>5. CASE r = AtNode(u, at, v) /\ Ready(R, u, w0, k, "node", at)
    <2>1. /\ at \in Slots /\ u.array \in [Slots -> [base : Int, check : Int]] /\ u.tail \in [Cells -> Int]
          /\ {"array", "tail", "length", "tail0"} \subseteq DOMAIN u
      BY <1>5, ReadyValue
    <2>2. PutAs(u, Write(AtNode(u, at, v), v), "node", at, v)
      BY <2>1, AddForms
    <2>3. PutAs(u, Write(r, v), "node", at, v)
      BY <2>2, <1>5
    <2> QED
      BY <1>2, <1>3, <1>5, <2>3, PutReady
  <1>6. CASE r = AtCell(u, at, v) /\ Ready(R, u, w0, k, "tail", at)
    <2>1. /\ at \in Cells /\ u.array \in [Slots -> [base : Int, check : Int]] /\ u.tail \in [Cells -> Int]
          /\ {"array", "tail", "length", "tail0"} \subseteq DOMAIN u
      BY <1>6, ReadyValue
    <2>2. PutAs(u, Write(AtCell(u, at, v), v), "tail", at, v)
      BY <2>1, AddForms
    <2>3. PutAs(u, Write(r, v), "tail", at, v)
      BY <2>2, <1>6
    <2> QED
      BY <1>2, <1>3, <1>6, <2>3, PutReady
  <1> QED
    BY <1>4, <1>5, <1>6

\* update(k, d): the map has the sum at k.
THEOREM AddHolds ==
    ASSUME NEW R, Spare("chain", R), NEW t, NEW m, Holds(R, t, m), NEW k, RoomFor(R, t, k),
           NEW d \in Nat, NEW w, WithAt(m, w, k, ValueOf(m, k) + d)
    PROVE  Holds(R, Update(t, k, d).t, w)
  <1> DEFINE r == Update(t, k, d)
             w0 == [l \in DOMAIN m \cup {k} |-> IF l = k THEN ValueOf(m, k) ELSE m[l]]
             v == ValueOf(m, k) + d
  <1>1. r = Update(t, k, d) /\ w0 = [l \in DOMAIN m \cup {k} |-> IF l = k THEN ValueOf(m, k) ELSE m[l]]
    OBVIOUS
  <1>2. WithAt(w0, w, k, v)
    <2>1. DOMAIN w = DOMAIN m \cup {k} /\ w[k] = v /\ \A l \in DOMAIN m : l # k => w[l] = m[l]
      BY DEF WithAt
    <2>2. DOMAIN w0 = DOMAIN m \cup {k}
      OBVIOUS
    <2>3. ASSUME NEW l \in DOMAIN w0, l # k PROVE w[l] = w0[l]
      BY <2>1, <2>3
    <2> QED
      BY <2>1, <2>2, <2>3 DEF WithAt
  <1>2a. w0[k] = ValueOf(m, k)
    OBVIOUS
  <1> HIDE DEF r, w0
  <1>4. PICK u, at : \/ r = AtNode(u, at, d) /\ Ready(R, u, w0, k, "node", at)
                     \/ r = AtCell(u, at, d) /\ Ready(R, u, w0, k, "tail", at)
    BY <1>1, UpdateMade
  <1>5. CASE r = AtNode(u, at, d) /\ Ready(R, u, w0, k, "node", at)
    <2>1. /\ at \in Slots /\ u.array \in [Slots -> [base : Int, check : Int]] /\ u.tail \in [Cells -> Int]
          /\ {"array", "tail", "length", "tail0"} \subseteq DOMAIN u
          /\ u.array[at].base = w0[k] /\ w0[k] \in Nat
      BY <1>5, ReadyValue
    <2>2. PutAs(u, AtNode(u, at, d).t, "node", at, u.array[at].base + d)
      BY <2>1, AddForms
    <2>3. PutAs(u, r.t, "node", at, v) /\ v \in Nat
      BY <2>1, <2>2, <1>2a, <1>5
    <2> HIDE DEF v
    <2> QED
      BY <1>1, <1>2, <1>5, <2>3, PutReady
  <1>6. CASE r = AtCell(u, at, d) /\ Ready(R, u, w0, k, "tail", at)
    <2>1. /\ at \in Cells /\ u.array \in [Slots -> [base : Int, check : Int]] /\ u.tail \in [Cells -> Int]
          /\ {"array", "tail", "length", "tail0"} \subseteq DOMAIN u
          /\ u.tail[at] = w0[k] /\ w0[k] \in Nat
      BY <1>6, ReadyValue
    <2>2. PutAs(u, AtCell(u, at, d).t, "tail", at, u.tail[at] + d)
      BY <2>1, AddForms
    <2>3. PutAs(u, r.t, "tail", at, v) /\ v \in Nat
      BY <2>1, <2>2, <1>2a, <1>6
    <2> HIDE DEF v
    <2> QED
      BY <1>1, <1>2, <1>6, <2>3, PutReady
  <1> QED
    BY <1>4, <1>5, <1>6

\* A round of the loop of _find.
Deeper(t, key, d, i) ==
    LET to == Xor(t.array[d.at].base, key[d.pos + 1])
    IN  IF d.miss \/ t.array[d.at].base < 0 THEN d
        ELSE IF t.array[to].check # d.at THEN [d EXCEPT !.miss = TRUE]
        ELSE [at |-> to, pos |-> d.pos + 1, miss |-> FALSE]

\* The loop of _find, from the root.
LEMMA DescendLoop ==
    ASSUME NEW t, NEW key, Len(key) \in Nat
    PROVE  \E g : /\ g[0] = [at |-> 0, pos |-> 0, miss |-> FALSE]
                  /\ \A i \in 1 .. Len(key) : g[i] = Deeper(t, key, g[i - 1], i)
                  /\ Descend(t, key) = g[Len(key)]
  <1> DEFINE N == Len(key)
             s0 == [at |-> 0, pos |-> 0, miss |-> FALSE]
             Next1(s, i) == Deeper(t, key, s, i)
             Step(g, i) == IF i = 0 THEN s0 ELSE Next1(g[i - 1], i)
             Good(g, m) == g = [i \in 0 .. m |-> Step(g, i)]
             Bad == {m \in Nat : ~ \E g : Good(g, m)}
  <1>1. Bad = {}
    <2> SUFFICES ASSUME Bad # {} PROVE FALSE
      OBVIOUS
    <2> HIDE DEF Next1, s0
    <2>1. Bad \in SUBSET Nat
      OBVIOUS
    <2> HIDE DEF Bad
    <2>2. PICK m \in Bad : \A x \in Bad : m <= x
      BY <2>1, Least
    <2>3. m \in Nat /\ ~ \E g : Good(g, m)
      BY DEF Bad
    <2>4. CASE m = 0
      <3> DEFINE g == [i \in 0 .. 0 |-> s0]
      <3>1. Good(g, 0)
        BY DEF g
      <3> QED
        BY <3>1, <2>3, <2>4
    <2>5. CASE m # 0
      <3>1. m - 1 \in Nat /\ m - 1 \notin Bad
        BY <2>2, <2>3, <2>5
      <3>2. PICK h : Good(h, m - 1)
        BY <3>1 DEF Bad
      <3> DEFINE g == [i \in 0 .. m |-> Step(h, i)]
      <3>3. ASSUME NEW i \in 0 .. m PROVE Step(g, i) = Step(h, i)
        <4>1. CASE i = 0
          BY <4>1
        <4>2. CASE i # 0
          <5>1. i - 1 \in 0 .. m /\ i - 1 \in 0 .. m - 1
            BY <4>2, <2>3
          <5>2. g[i - 1] = Step(h, i - 1)
            BY <5>1
          <5>3. h[i - 1] = Step(h, i - 1)
            <6> HIDE DEF Step
            <6> QED
              BY <5>1, <3>2
          <5> HIDE DEF g
          <5> QED
            BY <4>2, <5>2, <5>3
        <4> QED
          BY <4>1, <4>2
      <3>4. Good(g, m)
        <4> HIDE DEF Step
        <4> QED
          BY <3>3
      <3> QED
        BY <3>4, <2>3
    <2> QED
      BY <2>4, <2>5
  <1>2. \E g : Good(g, N)
    BY <1>1
  <1>3. PICK g : Good(g, N) /\ Descend(t, key) = g[N]
    BY <1>2 DEF Deeper, Descend, DescendFrom
  <1> HIDE DEF Next1, s0
  <1>4. g[0] = s0 /\ \A i \in 1 .. N : g[i] = Next1(g[i - 1], i)
    <2>1. g = [i \in 0 .. N |-> Step(g, i)]
      BY <1>3
    <2>2. \A i \in 0 .. N : g[i] = Step(g, i)
      <3> HIDE DEF Step
      <3> QED
        BY <2>1
    <2> QED
      BY <2>2
  <1> QED
    BY <1>3, <1>4 DEF Next1, s0

\* The steps of Descend.
DescendsAs(t, key, g) ==
    /\ g[0] = [at |-> 0, pos |-> 0, miss |-> FALSE]
    /\ \A i \in 1 .. Len(key) : g[i] = Deeper(t, key, g[i - 1], i)
    /\ Descend(t, key) = g[Len(key)]

\* Descend is those steps.
LEMMA DescendRuns ==
    ASSUME NEW t, NEW key, Len(key) \in Nat
    PROVE  \E g : DescendsAs(t, key, g)
  BY DescendLoop DEF DescendsAs

\* Where _find has come to after i labels: to a node on the path, of which only
\* one without children holds it up, or to one that has no child for the next.
SeekAt(t, C, V, P, k, path, d, i) ==
    /\ d = [at |-> d.at, pos |-> d.pos, miss |-> d.miss] /\ d.miss \in BOOLEAN
    /\ d.pos \in 0 .. i /\ d.at \in V \cup {0} /\ P[d.at] = Cut(path, d.pos)
    /\ d.miss => CanBear(C, path, d.pos) /\ d.pos < Len(k)
    /\ ~ d.miss => t.array[d.at].base < 0 \/ d.pos = i

\* One label more.
LEMMA SeekStep ==
    ASSUME NEW R, NEW t, NEW C, NEW V, NEW P, NEW L, NEW O, TrieAs(R, t, C, V, P, L, O), NEW k, IsKey(k),
           NEW path, path = Ended(k), NEW i \in 0 .. Len(k) - 1, NEW d, SeekAt(t, C, V, P, k, path, d, i),
           NEW e, e = Deeper(t, k, d, i + 1)
    PROVE  SeekAt(t, C, V, P, k, path, e, i + 1)
  <1>1. /\ path \in Seq(Labels) /\ Len(path) = Len(k) + 1 /\ Len(k) \in Nat
        /\ \A j \in 1 .. Len(k) : path[j] = k[j] /\ k[j] # 0 /\ k[j] \in Labels
    BY EndedFacts
  <1>2. i \in Nat /\ i < Len(k) /\ i + 1 <= Len(k)
    BY <1>1
  <1>3. CASE d.miss \/ t.array[d.at].base < 0
    <2>1. e = d
      BY <1>3 DEF Deeper
    <2> QED
      BY <2>1, <1>2, <1>3 DEF SeekAt
  <1>4. CASE ~ d.miss /\ ~ t.array[d.at].base < 0
    <2> DEFINE n == d.at
               c == k[i + 1]
               p == Cut(path, i)
               q == Cut(path, i + 1)
               to == Xor(t.array[n].base, c)
    <2>1. d.pos = i /\ n \in V \cup {0} /\ P[n] = p
      BY <1>4 DEF SeekAt
    <2>2. e = IF t.array[to].check # n THEN [d EXCEPT !.miss = TRUE]
              ELSE [at |-> to, pos |-> i + 1, miss |-> FALSE]
      BY <2>1, <1>4 DEF Deeper
    <2>3. c = path[i + 1] /\ c \in Labels /\ c # 0 /\ q = Named(p, c)
      <3>1. i + 1 \in 1 .. Len(k) /\ i \in 0 .. Len(path) /\ i < Len(path)
        BY <1>1, <1>2
      <3>2. q = Named(p, path[i + 1])
        BY <3>1, <1>1, CutFacts
      <3> QED
        BY <3>1, <3>2, <1>1
    <2>4. IsTree(t, V, P, L, O, {}, {}) /\ C = Content(t, V, P, L)
      BY DEF TrieAs
    <2>5. V \in SUBSET (Slots \ {0}) /\ t.array \in [Slots -> [base : Int, check : Int]] /\ 0 \in Slots
          /\ t.array[0].base = 0
      BY <2>4, SlotRange DEF IsTree, GhostTyped, TrieTyped, Bases
    <2>6. (n = 0 <=> i = 0) /\ (n # 0 => L[n] = path[i])
      <3>1. i \in 0 .. Len(path)
        BY <1>1, <1>2
      <3> QED
        BY <3>1, <2>1, <2>4, <1>1, LastLabel
    <2>7. InnerNode(t, L, n)
      <3>1. t.array[n].base \in Int
        BY <2>1, <2>5
      <3>2. n # 0 => L[n] # 0
        <4>1. n # 0 => i \in 1 .. Len(k)
          BY <2>6, <1>2
        <4> QED
          BY <4>1, <2>6, <1>1
      <3> QED
        BY <3>1, <3>2, <1>4 DEF InnerNode
    <2>8. q = Named(P[n], c)
      BY <2>1, <2>3
    <2>9. ChildIn(t, V, P, L, n, c, to, q, C)
      <3>1. Shape(t, V, P, L, O)
        BY TreeShape
      <3>2. to = Xor(t.array[n].base, c)
        OBVIOUS
      <3> HIDE DEF to, c, n, p, q
      <3> QED
        BY <3>1, <3>2, <2>1, <2>3, <2>4, <2>7, <2>8, StepTo
    <2>10. (t.array[to].check = n <=> Has(C, q)) /\ (t.array[to].check = n => to \in V /\ P[to] = q)
      BY <2>9 DEF ChildIn
    <2>11. CASE t.array[to].check = n
      <3>1. e = [at |-> to, pos |-> i + 1, miss |-> FALSE]
        BY <2>2, <2>11
      <3> HIDE DEF to, n, c
      <3>2. e.at = to /\ e.pos = i + 1 /\ e.miss = FALSE /\ e = [at |-> e.at, pos |-> e.pos, miss |-> e.miss]
        BY <3>1
      <3>3. e.pos \in 0 .. i + 1 /\ e.at \in V \cup {0} /\ P[e.at] = Cut(path, e.pos)
        BY <3>2, <2>10, <2>11, <1>2
      <3> QED
        BY <3>2, <3>3 DEF SeekAt
    <2>12. CASE t.array[to].check # n
      <3>1. e = [d EXCEPT !.miss = TRUE]
        BY <2>2, <2>12
      <3>2. d = [at |-> d.at, pos |-> d.pos, miss |-> d.miss]
        BY DEF SeekAt
      <3>3. e = [at |-> n, pos |-> i, miss |-> TRUE]
        <4> DEFINE y == d.pos
                   z == d.miss
        <4>1. d = [at |-> n, pos |-> y, miss |-> z] /\ y = i
          BY <3>2, <2>1
        <4> HIDE DEF n, y, z
        <4> QED
          BY <4>1, <3>1
      <3>4. CanBear(C, path, i)
        <4>1. i = 0 \/ InnerOf(p) \in C
          <5>1. CASE i # 0
            <6>1. n \in V
              BY <5>1, <2>1, <2>6
            <6>2. Holding(t, P, L, n) \in C
              BY <6>1, <2>4, NodesOf
            <6> QED
              BY <6>2, <2>1, <2>7 DEF Holding
          <5> QED
            BY <5>1
        <4> QED
          BY <4>1, <2>10, <2>12 DEF CanBear
      <3> HIDE DEF to, n, c
      <3>5. e.at = n /\ e.pos = i /\ e.miss = TRUE /\ e = [at |-> e.at, pos |-> e.pos, miss |-> e.miss]
        BY <3>3
      <3>9. e.miss \in BOOLEAN
        BY <3>5
      <3>10. e.pos = i
        BY <3>5
      <3>11. e.pos \in 0 .. i + 1 /\ e.pos < Len(k)
        BY <3>10, <1>2
      <3>6. e.miss \in BOOLEAN /\ e.pos \in 0 .. i + 1 /\ e.pos < Len(k)
        BY <3>9, <3>11
      <3>7. e.at \in V \cup {0} /\ P[e.at] = Cut(path, e.pos)
        BY <3>5, <2>1 DEF p
      <3>8. CanBear(C, path, e.pos)
        BY <3>4, <3>5
      <3> QED
        BY <3>5, <3>6, <3>7, <3>8 DEF SeekAt
    <2> QED
      BY <2>11, <2>12
  <1> QED
    BY <1>3, <1>4

\* The way down.
LEMMA SeekDown ==
    ASSUME NEW R, NEW t, NEW C, NEW V, NEW P, NEW L, NEW O, TrieAs(R, t, C, V, P, L, O), NEW k, IsKey(k),
           NEW path, path = Ended(k)
    PROVE  SeekAt(t, C, V, P, k, path, Descend(t, k), Len(k))
  <1>1. Len(k) \in Nat
    BY DEF IsKey
  <1>2. PICK g : DescendsAs(t, k, g)
    BY <1>1, DescendRuns
  <1>3. /\ g[0] = [at |-> 0, pos |-> 0, miss |-> FALSE]
        /\ \A i \in 1 .. Len(k) : g[i] = Deeper(t, k, g[i - 1], i)
        /\ Descend(t, k) = g[Len(k)]
    BY <1>2 DEF DescendsAs
  <1> DEFINE S == {i \in 0 .. Len(k) : SeekAt(t, C, V, P, k, path, g[i], i)}
  <1>4. 0 \in S
    <2>1. Cut(path, 0) = <<>>
      BY DEF Cut
    <2>2. P[0] = <<>>
      BY DEF TrieAs, IsTree, GhostTyped
    <2> DEFINE d == g[0]
    <2>3. d.at = 0 /\ d.pos = 0 /\ d.miss = FALSE /\ d = [at |-> d.at, pos |-> d.pos, miss |-> d.miss]
      BY <1>3
    <2> HIDE DEF d
    <2>7. d.miss \in BOOLEAN
      BY <2>3
    <2>8. d.pos = 0 /\ d.at = 0
      BY <2>3
    <2>9. d.pos \in 0 .. 0
      BY <2>8
    <2>10. P[d.at] = Cut(path, d.pos)
      BY <2>1, <2>2, <2>8
    <2>4. d.miss \in BOOLEAN /\ d.pos \in 0 .. 0 /\ d.at \in V \cup {0} /\ P[d.at] = Cut(path, d.pos)
      BY <2>7, <2>8, <2>9, <2>10
    <2>6. SeekAt(t, C, V, P, k, path, d, 0)
      BY <2>3, <2>4 DEF SeekAt
    <2> QED
      BY <2>6, <1>1 DEF d
  <1>5. ASSUME NEW i \in 1 .. Len(k), i - 1 \in S PROVE i \in S
    <2> DEFINE d == g[i - 1]
               e == g[i]
               j == i - 1
    <2>1. j \in 0 .. Len(k) - 1 /\ j + 1 = i
      BY <1>1
    <2>2. SeekAt(t, C, V, P, k, path, d, j)
      BY <1>5
    <2>3. e = Deeper(t, k, d, j + 1)
      BY <1>3, <2>1
    <2> HIDE DEF d, e, j
    <2>4. SeekAt(t, C, V, P, k, path, e, j + 1)
      BY <2>1, <2>2, <2>3, SeekStep
    <2> QED
      BY <2>1, <2>4 DEF e
  <1> HIDE DEF S
  <1>6. \A i \in 0 .. Len(k) : i \in S
    BY <1>1, <1>4, <1>5, UpTo
  <1>7. Len(k) \in S
    BY <1>1, <1>6
  <1> QED
    BY <1>3, <1>7 DEF S

-----------------------------------------------------------------------------
(* What _find says.                                                        *)

\* A key that parts from the suffix on its path is not in the map.
LEMMA PartsFresh ==
    ASSUME NEW C, NEW t, NEW m, NEW D, NEW A, NEW W, NEW k, NEW k0, NEW path, NEW path0,
           NEW pos, NEW q, NEW a, Parts(C, t, m, D, A, W, k, k0, path, path0, pos, q, a)
    PROVE  k \notin DOMAIN m
  <1> SUFFICES ASSUME k \in DOMAIN m
               PROVE  FALSE
    OBVIOUS
  <1> DEFINE x == EndOf(k, m[k], D[k], A[k])
             x0 == EndOf(k0, m[k0], pos, a)
             i == D[k]
  <1>1. /\ IsForest(C) /\ StoredAs(C, t, m, D, A, W) /\ IsKey(k) /\ path = Ended(k)
        /\ k0 \in DOMAIN m /\ IsKey(k0) /\ path0 = Ended(k0) /\ D[k0] = pos /\ A[k0] = a
        /\ pos \in 1 .. Len(k0) /\ q \in pos .. Len(k) /\ q <= Len(k0)
        /\ Cut(path0, q) = Cut(path, q) /\ path0[q + 1] # path[q + 1]
    BY DEF Parts
  <1>2. KeyEnd(C, m, D, A, k, x) /\ KeyEnd(C, m, D, A, k0, x0)
    BY <1>1, EndFacts
  <1>3. /\ path \in Seq(Labels) /\ path0 \in Seq(Labels) /\ Len(path) = Len(k) + 1 /\ Len(k) \in Nat
        /\ Len(path0) = Len(k0) + 1 /\ Len(k0) \in Nat
        /\ i \in 1 .. Len(path) /\ x \in C /\ ~ x[2] /\ x[1] = Cut(path, i)
        /\ x0 \in C /\ ~ x0[2] /\ x0[1] = Cut(path0, pos)
    BY <1>1, <1>2 DEF KeyEnd
  <1>4. Cut(path0, pos) = Cut(path, pos)
    <2>1. q \in Nat /\ q <= Len(path) /\ q <= Len(path0) /\ pos \in 0 .. q
      BY <1>1, <1>3
    <2> QED
      BY <2>1, <1>1, <1>3, BeginAlike
  <1>5. pos \in 1 .. Len(path) /\ pos <= Len(k)
    BY <1>1, <1>3
  <1> HIDE DEF x, x0, i
  <1>6. CASE i = pos
    <2>1. k = k0
      BY <1>1, <1>4, <1>6, EndsDiffer DEF i
    <2> QED
      BY <2>1, <1>1
  <1>7. CASE i > pos
    <2> DEFINE y == Cut(path, i)
    <2>1. i \in pos .. Len(path)
      BY <1>3, <1>5, <1>7
    <2>2. x0[1] = Cut(path, pos)
      BY <1>3, <1>4
    <2>3. ~ Has(C, y)
      <3> HIDE DEF y
      <3>1. y = Cut(path, i)
        BY DEF y
      <3> QED
        BY <3>1, <2>1, <2>2, <1>1, <1>3, <1>5, <1>7, DeepEmpty
    <2> QED
      BY <2>3, <1>3 DEF Has
  <1>8. CASE i < pos
    <2> DEFINE y == Cut(path, pos)
    <2>1. pos \in i .. Len(path)
      BY <1>3, <1>5, <1>8
    <2>3. ~ Has(C, y)
      <3> HIDE DEF y
      <3>1. y = Cut(path, pos)
        BY DEF y
      <3> QED
        BY <3>1, <2>1, <1>1, <1>3, <1>5, <1>8, DeepEmpty
    <2> QED
      BY <2>3, <1>3, <1>4 DEF Has
  <1>9. i \in Nat /\ pos \in Nat
    BY <1>3, <1>5
  <1> QED
    BY <1>6, <1>7, <1>8, <1>9

\* _find says whether the key is in the map, and its value; if it is, the last
\* node is the one where the key ends.
FoundAs(t, m, D, V, P, L, k, f) ==
    IF k \in DOMAIN m
    THEN /\ f.value = m[k] /\ LastNode(t, f) \in V /\ ~ InnerNode(t, L, LastNode(t, f))
         /\ P[LastNode(t, f)] = Cut(Ended(k), D[k])
    ELSE f.value \in {NoPath, NoValue}

\* It missed a label.
LEMMA FindMisses ==
    ASSUME NEW C, IsForest(C), NEW t, NEW m, NEW D, NEW A, NEW W, StoredAs(C, t, m, D, A, W),
           NEW V, NEW P, NEW L, NEW k, IsKey(k), NEW path, path = Ended(k), NEW d,
           SeekAt(t, C, V, P, k, path, d, Len(k)), d.miss, NEW f, f = FoundAt(t, k, d)
    PROVE  FoundAs(t, m, D, V, P, L, k, f)
  <1>1. CanBear(C, path, d.pos) /\ d.pos \in 0 .. Len(k)
    BY DEF SeekAt
  <1>2. k \notin DOMAIN m
    <2> DEFINE j == d.pos
    <2>1. CanBear(C, path, j) /\ j \in 0 .. Len(k)
      BY <1>1
    <2> HIDE DEF j
    <2> QED
      BY <2>1, FreshKey
  <1>3. f.value = NoPath
    BY DEF FoundAt
  <1> QED
    BY <1>2, <1>3 DEF FoundAs

\* It came to a node without children.
LEMMA FindEnds ==
    ASSUME NEW R, NEW t, NEW C, NEW V, NEW P, NEW L, NEW O, TrieAs(R, t, C, V, P, L, O), IsForest(C),
           NEW m, NEW D, NEW A, NEW W, StoredAs(C, t, m, D, A, W),
           NEW k, IsKey(k), NEW path, path = Ended(k), NEW d,
           SeekAt(t, C, V, P, k, path, d, Len(k)), ~ d.miss, t.array[d.at].base < 0,
           NEW f, f = FoundAt(t, k, d)
    PROVE  FoundAs(t, m, D, V, P, L, k, f)
  <1> DEFINE n == d.at
             pos == d.pos
             b == t.array[n].base
             x == <<Cut(path, pos), FALSE, b>>
             a == - b
             rest == Rest(k, pos)
             c == Matched(t, a, rest)
  <1>1. /\ path \in Seq(Labels) /\ Len(path) = Len(k) + 1 /\ Len(k) \in Nat
        /\ \A i \in 1 .. Len(k) : path[i] = k[i] /\ k[i] # 0
    BY EndedFacts
  <1>2. pos \in 0 .. Len(k) /\ n \in V \cup {0} /\ P[n] = Cut(path, pos)
    BY DEF SeekAt
  <1>3. pos \in 0 .. Len(path) /\ (pos = 0 \/ path[pos] # 0)
    <2>1. pos \in 0 .. Len(path)
      BY <1>1, <1>2
    <2>2. pos # 0 => pos \in 1 .. Len(k)
      BY <1>2, <1>1
    <2> QED
      BY <1>1, <2>1, <2>2
  <1>4. NodeIs([t |-> t, at |-> n], C, path, pos)
    <2> DEFINE s == [t |-> t, at |-> n]
    <2>1. s.t = t /\ s.at = n
      OBVIOUS
    <2> HIDE DEF s, n, pos
    <2>2. Stands(R, s, C, Cut(path, pos))
      BY <2>1, <1>2 DEF Stands, StandsAt, TrieAs
    <2> QED
      BY <2>2, <1>1, <1>3, NodeKind DEF s
  <1>5. b \in Int /\ b < 0 /\ pos >= 1 /\ x \in C
    BY <1>4 DEF NodeIs
  <1>6. pos \in 1 .. Len(path) /\ pos \in 1 .. Len(k)
    BY <1>1, <1>2, <1>5
  <1>7. \E k0 : OwnerOf(C, m, D, A, k0, x, path, pos)
    <2>1. x[1] = Cut(path, pos) /\ ~ x[2] /\ x[3] = b
      OBVIOUS
    <2> HIDE DEF x, b, pos
    <2> QED
      BY <2>1, <1>1, <1>5, <1>6, SuffixOwner
  <1>8. PICK k0 : OwnerOf(C, m, D, A, k0, x, path, pos)
    BY <1>7
  <1>9. A[k0] = a /\ k0 \in DOMAIN m /\ D[k0] = pos
    BY <1>8 DEF OwnerOf
  <1>10. f.value = FindInTail(t, a, rest) /\ f.at = n
    BY DEF FoundAt
  <1>11. FindInTail(t, a, rest) = IF c < Len(rest) THEN NoPath
                                  ELSE IF t.tail[a + c] # 0 THEN NoValue
                                  ELSE t.tail[a + c + 1]
    BY DEF FindInTail
  <1>12. Len(rest) = Len(k) - pos
    <2> HIDE DEF rest, pos
    <2>1. RestOf(k, pos, rest)
      BY <1>2, RestFacts DEF rest
    <2> QED
      BY <2>1 DEF RestOf
  <1>13. c \in 0 .. Len(rest)
    <2>1. a \in Nat /\ Len(rest) \in Nat
      BY <1>5, <1>6, <1>12
    <2> HIDE DEF a, rest
    <2>2. MatchedAs(t, a, rest, c)
      BY <2>1, MatchedFacts
    <2> QED
      BY <2>2 DEF MatchedAs
  <1>14. LastNode(t, f) = n
    BY <1>10, <1>5 DEF LastNode
  <1> HIDE DEF n, pos, b, x, a, rest
  <1>15. IF c = Len(rest) /\ t.tail[a + c] = 0
         THEN k0 = k /\ c = Len(k) - pos
         ELSE c \in Nat /\ Parts(C, t, m, D, A, W, k, k0, path, Ended(k0), pos, pos + c, a)
    <2>1. a = A[k0] /\ rest = Rest(k, pos)
      BY <1>9 DEF rest
    <2> HIDE DEF c
    <2>2. c = Matched(t, a, rest)
      BY DEF c
    <2> QED
      BY ONLY <1>5, <1>6, <1>8, <2>1, <2>2, IsForest(C), StoredAs(C, t, m, D, A, W), IsKey(k),
              path = Ended(k), PartsOrSame
  <1> HIDE DEF c
  <1>16. CASE c = Len(rest) /\ t.tail[a + c] = 0
    <2>1. k0 = k /\ c = Len(k) - pos
      BY <1>15, <1>16
    <2>2. k \in DOMAIN m /\ D[k] = pos /\ A[k] = a
      BY <2>1, <1>9
    <2>3. f.value = t.tail[a + c + 1]
      BY <1>10, <1>11, <1>16
    <2>4. KeyAt(t, W, k, m[k], pos, a)
      BY <2>2 DEF StoredAs, TailHolds
    <2>5. t.tail[a + (Len(k) - pos) + 1] = m[k]
      BY <2>4, <1>6 DEF KeyAt, Spelled
    <2>6. f.value = m[k]
      BY <2>3, <2>5, <2>1
    <2>7. n # 0
      <3>1. n = 0 <=> pos = 0
        BY <1>1, <1>2, <1>3, LastLabel DEF TrieAs
      <3> QED
        BY <3>1, <1>6
    <2>8. ~ InnerNode(t, L, n)
      <3>1. ~ b >= 0
        BY <1>5
      <3> QED
        BY <3>1, <2>7 DEF InnerNode, b
    <2>9. P[n] = Cut(Ended(k), D[k]) /\ n \in V
      BY <2>2, <2>7, <1>2
    <2> QED
      BY <2>2, <2>6, <2>8, <2>9, <1>14 DEF FoundAs
  <1>17. CASE ~ (c = Len(rest) /\ t.tail[a + c] = 0)
    <2>1. Parts(C, t, m, D, A, W, k, k0, path, Ended(k0), pos, pos + c, a)
      BY <1>15, <1>17
    <2>2. k \notin DOMAIN m
      <3> DEFINE y == pos + c
                 path0 == Ended(k0)
      <3>1. Parts(C, t, m, D, A, W, k, k0, path, path0, pos, y, a)
        BY <2>1
      <3> HIDE DEF y, path0
      <3> QED
        BY <3>1, PartsFresh
    <2>3. Len(rest) \in Nat
      BY <1>12, <1>6
    <2>4. c < Len(rest) \/ c = Len(rest)
      BY <1>13, <2>3
    <2>5. f.value \in {NoPath, NoValue}
      <3>1. CASE c < Len(rest)
        BY <3>1, <1>10, <1>11
      <3>2. CASE ~ c < Len(rest)
        <4>1. c = Len(rest)
          BY <2>4, <3>2
        <4>2. t.tail[a + c] # 0
          BY <4>1, <1>17
        <4> QED
          BY <4>2, <3>2, <1>10, <1>11
      <3> QED
        BY <3>1, <3>2
    <2> QED
      BY <2>2, <2>5 DEF FoundAs
  <1> QED
    BY <1>16, <1>17

\* It came to a node with children, with all labels of the key.
LEMMA FindThrough ==
    ASSUME NEW R, NEW t, NEW C, NEW V, NEW P, NEW L, NEW O, TrieAs(R, t, C, V, P, L, O), IsForest(C),
           NEW m, NEW D, NEW A, NEW W, StoredAs(C, t, m, D, A, W),
           NEW k, IsKey(k), NEW path, path = Ended(k), NEW d,
           SeekAt(t, C, V, P, k, path, d, Len(k)), ~ d.miss, ~ t.array[d.at].base < 0,
           NEW f, f = FoundAt(t, k, d)
    PROVE  FoundAs(t, m, D, V, P, L, k, f)
  <1> DEFINE n == d.at
             b == t.array[n].base
             h == Len(k)
  <1>1. /\ path \in Seq(Labels) /\ Len(path) = h + 1 /\ h \in Nat /\ h >= 1
        /\ path[h + 1] = 0 /\ path[h] # 0 /\ Cut(path, h) = k /\ k \in Seq(Labels)
    <2>1. h \in Nat /\ h >= 1 /\ \A i \in 1 .. h : path[i] = k[i] /\ k[i] # 0
      BY EndedFacts
    <2>2. h \in 1 .. h
      BY <2>1
    <2> QED
      BY <2>1, <2>2, EndedFacts
  <1>2. d.pos = h /\ n \in V \cup {0} /\ P[n] = k
    BY <1>1 DEF SeekAt
  <1>3. n # 0 /\ L[n] # 0
    <2>1. h \in 0 .. Len(path) /\ P[n] = Cut(path, h)
      BY <1>1, <1>2
    <2>2. (n = 0 <=> h = 0) /\ (n # 0 => L[n] = path[h])
      <3> HIDE DEF n, h
      <3> QED
        BY <2>1, <1>1, <1>2, LastLabel DEF TrieAs
    <2> QED
      BY <2>2, <1>1
  <1>4. V \in SUBSET (Slots \ {0}) /\ t.array \in [Slots -> [base : Int, check : Int]]
    BY DEF TrieAs, IsTree, GhostTyped, TrieTyped
  <1>5. b \in Int /\ b >= 0 /\ InnerNode(t, L, n)
    BY <1>2, <1>3, <1>4 DEF InnerNode
  <1>6. 0 \in Labels /\ Named(P[n], 0) = path
    <2>1. 0 \in Labels
      BY BlockAssumption DEF Labels
    <2>2. path = Named(k, 0)
      BY <1>1 DEF Named, Ended
    <2> QED
      BY <2>1, <2>2, <1>2
  <1>7. ChildIn(t, V, P, L, n, 0, Xor(b, 0), path, C)
    <2>1. Shape(t, V, P, L, O) /\ C = Content(t, V, P, L)
      BY TreeShape DEF TrieAs
    <2> DEFINE e == Xor(b, 0)
    <2>2. e = Xor(t.array[n].base, 0)
      OBVIOUS
    <2> HIDE DEF e, b, n
    <2>3. path = Named(P[n], 0)
      BY <1>6
    <2>4. n \in V \cup {0} /\ (n = 0 => 0 # 0)
      BY <1>2, <1>3
    <2>5. ChildIn(t, V, P, L, n, 0, e, path, C)
      BY <2>1, <2>2, <2>3, <2>4, <1>5, <1>6, StepTo
    <2> QED
      BY <2>5 DEF e
  <1>8. b \in Slots /\ Xor(b, 0) = b
    <2>1. b \in Slots
      BY <1>7 DEF ChildIn
    <2> QED
      BY <2>1, XorAssumption
  <1>9. /\ t.array[b].check = n <=> Has(C, path)
        /\ t.array[b].check = n => b \in V /\ P[b] = path /\ L[b] = 0
    BY <1>7, <1>8 DEF ChildIn
  <1>10. f.at = n /\ f.value = IF t.array[b].check # n THEN NoValue ELSE t.array[b].base
    BY <1>5 DEF FoundAt
  <1>11. LastNode(t, f) = b
    BY <1>10, <1>5 DEF LastNode
  <1>12. CASE t.array[b].check # n
    <2>1. ~ Has(C, path)
      BY <1>9, <1>12
    <2>2. InnerOf(k) \in C
      <3>1. C = Content(t, V, P, L) /\ n \in V
        BY <1>2, <1>3 DEF TrieAs
      <3>2. Holding(t, P, L, n) \in C
        BY <3>1, NodesOf
      <3> QED
        BY <3>2, <1>2, <1>5 DEF Holding
    <2>3. CanBear(C, path, h)
      <3>1. Cut(path, h + 1) = path
        BY <1>1, CutFacts
      <3> QED
        BY <3>1, <2>1, <2>2, <1>1 DEF CanBear
    <2>4. k \notin DOMAIN m
      <3>1. h \in 0 .. Len(k)
        BY <1>1
      <3> HIDE DEF h
      <3> QED
        BY <3>1, <2>3, FreshKey
    <2> QED
      BY <2>4, <1>10, <1>12 DEF FoundAs
  <1>13. CASE t.array[b].check = n
    <2>1. b \in V /\ P[b] = path
      BY <1>9, <1>13
    <2>2. TerminalAt(t, C, L, k, b)
      <3> HIDE DEF b
      <3> QED
        BY <2>1, TerminalNode
    <2> DEFINE v == t.array[b].base
               x == <<Ended(k), FALSE, v>>
    <2>3. x \in C /\ ~ InnerNode(t, L, b)
      BY <2>2 DEF TerminalAt
    <2>4. EndsHere(m, D, k, x)
      <3>1. x[1] = Ended(k)
        OBVIOUS
      <3> HIDE DEF x
      <3> QED
        BY <3>1, <2>3, EndHere
    <2>5. k \in DOMAIN m /\ D[k] = Len(k) + 1 /\ x = <<Ended(k), FALSE, m[k]>>
      BY <2>4 DEF EndsHere
    <2>6. v = m[k]
      BY <2>5
    <2>7. Cut(Ended(k), D[k]) = path
      <3>1. Len(path) \in Nat /\ D[k] = Len(path) /\ Len(path) \in 0 .. Len(path)
        BY <2>5, <1>1
      <3> QED
        BY <3>1, <1>1, CutFacts
    <2>8. f.value = v
      BY <1>10, <1>13
    <2> HIDE DEF v, x, b
    <2> QED
      BY <2>1, <2>3, <2>5, <2>6, <2>7, <2>8, <1>11 DEF FoundAs
  <1> QED
    BY <1>12, <1>13

\* exactMatchSearch and the search of erase.
LEMMA FindIs ==
    ASSUME NEW R, NEW t, NEW C, NEW V, NEW P, NEW L, NEW O, TrieAs(R, t, C, V, P, L, O),
           NEW m, NEW D, NEW A, NEW W, StoredAs(C, t, m, D, A, W), NEW k, IsKey(k),
           NEW f, f = Find(t, k)
    PROVE  FoundAs(t, m, D, V, P, L, k, f)
  <1> DEFINE d == Descend(t, k)
             path == Ended(k)
  <1>1. f = FoundAt(t, k, d)
    BY DEF Find
  <1>2. IsForest(C)
    BY ContentForest DEF TrieAs
  <1>3. SeekAt(t, C, V, P, k, path, d, Len(k))
    <2> HIDE DEF path, d
    <2>1. path = Ended(k)
      BY DEF path
    <2> QED
      BY <2>1, SeekDown DEF d
  <1>4. path = Ended(k)
    OBVIOUS
  <1> HIDE DEF d, path
  <1>5. CASE d.miss
    BY <1>1, <1>2, <1>3, <1>4, <1>5, FindMisses
  <1>6. CASE ~ d.miss /\ t.array[d.at].base < 0
    BY <1>1, <1>2, <1>3, <1>4, <1>6, FindEnds
  <1>7. CASE ~ d.miss /\ ~ t.array[d.at].base < 0
    BY <1>1, <1>2, <1>3, <1>4, <1>7, FindThrough
  <1> QED
    BY <1>5, <1>6, <1>7

\* The lookup answers what the map does.
THEOREM FindRight ==
    ASSUME NEW R, NEW t, NEW m, Holds(R, t, m), NEW k, IsKey(k)
    PROVE  IF k \in DOMAIN m THEN Find(t, k).value = m[k] ELSE Find(t, k).value \in {NoPath, NoValue}
  <1>1. PICK C, D, A, W : TrieOf(R, t, C) /\ StoredAs(C, t, m, D, A, W)
    BY DEF Holds, HoldsAs
  <1>2. PICK V, P, L, O : TrieAs(R, t, C, V, P, L, O)
    BY <1>1 DEF TrieOf
  <1> DEFINE f == Find(t, k)
  <1>3. FoundAs(t, m, D, V, P, L, k, f)
    <2> HIDE DEF f
    <2>1. f = Find(t, k)
      BY DEF f
    <2> QED
      BY <1>1, <1>2, <2>1, FindIs
  <1> QED
    BY <1>3 DEF FoundAs

-----------------------------------------------------------------------------
(* Removal.                                                                *)

\* What is left beside the path of a key still has children where it had.
LEMMA PrunedBare ==
    ASSUME NEW C, IsForest(C), NoBare(C), NEW path \in Seq(Labels), NEW i \in 0 .. Len(path) - 1,
           i = 0 \/ Beside(C, path, i)
    PROVE  NoBare(Pruned(C, path, i + 1))
  <1> DEFINE E == Pruned(C, path, i + 1)
             n == Len(path)
  <1>1. n \in Nat /\ i \in 0 .. n /\ i + 1 \in 1 .. n
    OBVIOUS
  <1> SUFFICES ASSUME NEW x \in E, x[2]
               PROVE  \E c \in Labels : Has(E, Named(x[1], c))
    BY DEF NoBare
  <1> DEFINE p == x[1]
  <1>2. x \in C /\ \A j \in i + 1 .. n : p # Cut(path, j)
    BY DEF Pruned
  <1>3. p \in Seq(Labels) /\ p # <<>>
    BY <1>2 DEF IsForest
  <1>4. PICK c \in Labels : Has(C, Named(p, c))
    BY <1>2 DEF NoBare
  <1>5. PICK y \in C : y[1] = Named(p, c)
    BY <1>4 DEF Has
  <1>6. CASE \A j \in i + 1 .. n : Named(p, c) # Cut(path, j)
    <2>1. y \in E
      BY <1>5, <1>6 DEF Pruned
    <2> QED
      BY <2>1, <1>5 DEF Has
  <1>7. CASE \E j \in i + 1 .. n : Named(p, c) = Cut(path, j)
    <2>1. PICK j \in i + 1 .. n : Named(p, c) = Cut(path, j)
      BY <1>7
    <2> DEFINE h == j - 1
               q == Cut(path, h)
    <2>2. h \in 0 .. n /\ h < n /\ h + 1 = j /\ h >= i
      BY <1>1
    <2> HIDE DEF h
    <2>3. q \in Seq(Labels) /\ path[h + 1] \in Labels /\ Cut(path, h + 1) = Named(q, path[h + 1])
      BY <2>2, CutFacts
    <2> HIDE DEF q, p
    <2>4. p = q
      <3> DEFINE a == path[h + 1]
      <3>1. Named(p, c) = Named(q, a)
        BY <2>1, <2>2, <2>3
      <3>2. p \in Seq(Labels) /\ q \in Seq(Labels) /\ a \in Labels /\ c \in Labels
        BY <2>3, <1>3 DEF p
      <3> HIDE DEF a
      <3> QED
        BY <3>1, <3>2, Names
    <2>5. h = i
      <3>1. h \notin i + 1 .. n
        BY <2>4, <1>2 DEF q, p
      <3> QED
        BY <3>1, <2>2, <1>1
    <2>6. i # 0
      <3>1. Cut(path, 0) = <<>>
        BY <1>1, CutFacts
      <3> QED
        BY <3>1, <2>4, <2>5, <1>3 DEF q
    <2>7. PICK d \in Labels : d # path[i + 1] /\ Has(C, Named(Cut(path, i), d))
      BY <2>6 DEF Beside
    <2>8. PICK z \in C : z[1] = Named(p, d)
      BY <2>7, <2>4, <2>5 DEF Has, q
    <2>9. ASSUME NEW g \in i + 1 .. n PROVE Named(p, d) # Cut(path, g)
      <3> SUFFICES ASSUME Named(p, d) = Cut(path, g)
                   PROVE  FALSE
        OBVIOUS
      <3> DEFINE a == g - 1
                 r == Cut(path, a)
      <3>1. a \in 0 .. n /\ a < n /\ a + 1 = g
        BY <1>1
      <3> HIDE DEF a
      <3>2. r \in Seq(Labels) /\ Len(r) = a /\ path[a + 1] \in Labels /\ Cut(path, a + 1) = Named(r, path[a + 1])
        BY <3>1, CutFacts
      <3> HIDE DEF r
      <3>3. p = r /\ d = path[a + 1]
        <4> DEFINE b == path[a + 1]
        <4>1. Named(p, d) = Named(r, b)
          BY <3>1, <3>2
        <4>2. p \in Seq(Labels) /\ r \in Seq(Labels) /\ b \in Labels /\ d \in Labels
          BY <3>2, <1>3 DEF p
        <4> HIDE DEF b
        <4>3. p = r /\ d = b
          BY <4>1, <4>2, Names
        <4> QED
          BY <4>3 DEF b
      <3>4. Len(p) = i
        BY <2>4, <2>5, <1>1, CutFacts DEF q
      <3> QED
        BY <3>2, <3>3, <3>4, <2>7
    <2>10. z \in E
      BY <2>8, <2>9 DEF Pruned
    <2> QED
      BY <2>8, <2>10 DEF Has, p
  <1> QED
    BY <1>6, <1>7

\* The other keys keep their ends.
LEMMA PrunedEnds ==
    ASSUME NEW C, IsForest(C), NEW t, NEW m, NEW D, NEW A, NEW W, StoredAs(C, t, m, D, A, W),
           NEW k \in DOMAIN m, NEW path, path = Cut(Ended(k), D[k]), NEW i \in 0 .. Len(path) - 1,
           NEW w, w = [l \in DOMAIN m \ {k} |-> m[l]]
    PROVE  Ends(Pruned(C, path, i + 1), w, D, A)
  <1> DEFINE E == Pruned(C, path, i + 1)
             n == Len(path)
             X(l) == EndOf(l, m[l], D[l], A[l])
  <1>1. /\ \A x \in C : ~ x[2] => \E l \in DOMAIN m : x = X(l)
        /\ \A l \in DOMAIN m : X(l) \in C
    BY DEF StoredAs, Ends
  <1>2. \A l \in DOMAIN m : X(l)[1] = Cut(Ended(l), D[l]) /\ ~ X(l)[2]
    BY DEF EndOf
  <1>3. path \in Seq(Labels) /\ n \in Nat /\ n >= 1 /\ Cut(path, n) = path /\ Has(C, path)
    <2> DEFINE x == X(k)
    <2>1. KeyEnd(C, m, D, A, k, x)
      BY EndFacts
    <2> HIDE DEF x
    <2>2. /\ Ended(k) \in Seq(Labels) /\ D[k] \in 0 .. Len(Ended(k)) /\ D[k] >= 1 /\ x \in C
          /\ x[1] = path
      BY <2>1 DEF KeyEnd
    <2>3. path \in Seq(Labels) /\ Len(path) = D[k]
      BY <2>2, CutFacts
    <2>4. n \in 0 .. Len(path)
      BY <2>2, <2>3
    <2> QED
      BY <2>2, <2>3, <2>4, CutFacts DEF Has
  <1>4. n \in i + 1 .. n
    BY <1>3
  <1>5. ASSUME NEW x \in E, ~ x[2]
        PROVE  \E l \in DOMAIN w : x = EndOf(l, w[l], D[l], A[l])
    <2>1. x \in C /\ x[1] # path
      BY <1>3, <1>4, <1>5 DEF Pruned
    <2>2. PICK l \in DOMAIN m : x = X(l)
      BY <1>1, <1>5, <2>1
    <2>3. l # k
      BY <2>1, <2>2, <1>2
    <2> QED
      BY <2>2, <2>3
  <1>6. ASSUME NEW l \in DOMAIN w
        PROVE  EndOf(l, w[l], D[l], A[l]) \in E
    <2>1. l \in DOMAIN m /\ l # k /\ w[l] = m[l]
      OBVIOUS
    <2> DEFINE y == X(l)
    <2>2. y \in C /\ ~ y[2]
      BY <2>1, <1>1, <1>2
    <2>3. ASSUME NEW j \in i + 1 .. n PROVE y[1] # Cut(path, j)
      <3>1. CASE j = n
        BY <3>1, <2>1, <1>2, <1>3, EndsDiffer
      <3>2. CASE j # n
        <4>1. j \in 1 .. n - 1 /\ n \in 1 .. Len(path)
          BY <3>2, <1>3
        <4>2. InnerOf(Cut(path, j)) \in C
          BY <4>1, <1>3, Beginnings
        <4> DEFINE z == InnerOf(Cut(path, j))
        <4>3. z \in C /\ z[1] = Cut(path, j) /\ z[2]
          BY <4>2 DEF InnerOf
        <4> HIDE DEF z, y
        <4>4. y[1] # z[1]
          BY <4>3, <2>2 DEF IsForest
        <4> QED
          BY <4>3, <4>4
      <3> QED
        BY <3>1, <3>2
    <2>4. y \in E
      BY <2>2, <2>3 DEF Pruned
    <2> QED
      BY <2>4, <2>1
  <1> HIDE DEF E, X
  <1> QED
    BY <1>5, <1>6 DEF Ends, E

\* Fewer keys in the same tail.
LEMMA LessTail ==
    ASSUME NEW t, NEW m, NEW D, NEW A, NEW W, TailHolds(t, m, D, A, W), IsMap(m), NEW k,
           NEW w, w = [l \in DOMAIN m \ {k} |-> m[l]]
    PROVE  TailHolds(t, w, D, A, W) /\ IsMap(w)
  <1>1. DOMAIN w \subseteq DOMAIN m /\ \A l \in DOMAIN w : w[l] = m[l]
    OBVIOUS
  <1>2. IsMap(w)
    BY <1>1 DEF IsMap
  <1>3. \A l \in DOMAIN w : KeyAt(t, W, l, w[l], D[l], A[l])
    BY <1>1 DEF TailHolds
  <1> QED
    BY <1>2, <1>3 DEF TailHolds

\* erase(k): the map has k no more.
THEOREM EraseHolds ==
    ASSUME NEW R, Spare("chain", R), NEW t, NEW m, Holds(R, t, m), NEW k \in DOMAIN m,
           NEW w, w = [l \in DOMAIN m \ {k} |-> m[l]]
    PROVE  Holds(R, Erase(t, k), w)
  <1>1. PICK C, D, A, W : TrieOf(R, t, C) /\ StoredAs(C, t, m, D, A, W)
    BY DEF Holds, HoldsAs
  <1>2. PICK V, P, L, O : TrieAs(R, t, C, V, P, L, O)
    BY <1>1 DEF TrieOf
  <1>3. IsForest(C)
    BY <1>2, ContentForest DEF TrieAs
  <1> DEFINE f == Find(t, k)
             e == LastNode(t, f)
             path == Cut(Ended(k), D[k])
             from == t.array[e].check
             n == Len(k) + 1
             u == EraseUp(t, e, from, n)
  <1>4. KeyEnd(C, m, D, A, k, EndOf(k, m[k], D[k], A[k]))
    BY <1>1, EndFacts
  <1>5. /\ IsKey(k) /\ m[k] \in Nat /\ n \in Nat /\ D[k] \in 0 .. Len(Ended(k))
        /\ Ended(k) \in Seq(Labels) /\ D[k] <= n
    BY <1>4 DEF KeyEnd
  <1>6. path \in Seq(Labels) /\ Len(path) = D[k]
    BY <1>5, CutFacts
  <1>7. FoundAs(t, m, D, V, P, L, k, f)
    <2> HIDE DEF f
    <2>1. f = Find(t, k)
      BY DEF f
    <2> QED
      BY <2>1, <1>1, <1>2, <1>5, FindIs
  <1>8. f.value = m[k] /\ e \in V /\ ~ InnerNode(t, L, e) /\ P[e] = path
    BY <1>7 DEF FoundAs
  <1>9. Erase(t, k) = u
    <2>1. ~ f.value \in {NoPath, NoValue}
      <3>1. f.value # -1 /\ f.value # -2
        BY <1>5, <1>8
      <3> QED
        BY <3>1 DEF NoPath, NoValue
    <2> QED
      BY <2>1 DEF Erase, EraseFound
  <1> HIDE DEF f, e, path, from, n
  <1>10. PrunedTo(R, u, C, path)
    <2>1. from = t.array[e].check /\ Len(path) <= n
      BY <1>5, <1>6 DEF from
    <2> HIDE DEF u
    <2>2. u = EraseUp(t, e, from, n)
      BY DEF u
    <2> QED
      BY <2>1, <2>2, <1>2, <1>5, <1>6, <1>8, EraseTree
  <1>11. PICK i \in 0 .. Len(path) - 1 :
            TrieOf(R, u, Pruned(C, path, i + 1)) /\ (i = 0 \/ Beside(C, path, i))
    BY <1>10 DEF PrunedTo, PrunedAt
  <1> DEFINE E == Pruned(C, path, i + 1)
  <1>12. NoBare(E)
    <2>1. NoBare(C)
      BY <1>1 DEF StoredAs
    <2> QED
      BY <2>1, <1>3, <1>6, <1>11, PrunedBare
  <1>13. Ends(E, w, D, A)
    <2>1. path = Cut(Ended(k), D[k])
      BY DEF path
    <2> QED
      BY <2>1, <1>1, <1>3, <1>11, PrunedEnds
  <1>14. TailHolds(t, w, D, A, W) /\ IsMap(w)
    BY <1>1, LessTail DEF StoredAs
  <1> HIDE DEF E
  <1>15. StoredAs(E, t, w, D, A, W)
    BY <1>12, <1>13, <1>14 DEF StoredAs
  <1>16. StoredAs(E, u, w, D, A, W)
    <2>1. SameTail(t, u)
      BY <1>5, EraseSameTail DEF u
    <2> QED
      BY <2>1, <1>15, TailSame
  <1> QED
    BY <1>9, <1>11, <1>16 DEF Holds, HoldsAs, E

-----------------------------------------------------------------------------
(* The nodes that suffixes hang on.                                        *)

\* The suffix of k hangs on the node e.
Hung(m, V, P, D, k, e) ==
    k \in DOMAIN m /\ D[k] <= Len(k) /\ e \in V /\ P[e] = Cut(Ended(k), D[k])

\* What is known of such a node.
HungOn(t, L, D, A, k, e) ==
    /\ e \in Slots /\ e # 0 /\ ~ InnerNode(t, L, e) /\ L[e] # 0
    /\ t.array[e].base = - A[k] /\ t.array[e].base < 0 /\ HasSuffix(t, e)
    /\ A[k] \in Nat /\ A[k] >= HeaderCells
    /\ D[k] \in 1 .. Len(k) /\ Len(k) \in Nat /\ IsKey(k)

\* A suffix hangs on a node without children, which has its place.
LEMMA HungFacts ==
    ASSUME NEW R, NEW t, NEW C, NEW V, NEW P, NEW L, NEW O, TrieAs(R, t, C, V, P, L, O),
           NEW m, NEW D, NEW A, NEW W, StoredAs(C, t, m, D, A, W),
           NEW k, NEW e, Hung(m, V, P, D, k, e)
    PROVE  HungOn(t, L, D, A, k, e)
  <1> DEFINE x == EndOf(k, m[k], D[k], A[k])
             d == D[k]
             path == Ended(k)
  <1>1. k \in DOMAIN m /\ d <= Len(k) /\ e \in V /\ P[e] = Cut(path, d)
    BY DEF Hung
  <1>2. KeyEnd(C, m, D, A, k, x)
    BY <1>1, EndFacts
  <1>3. /\ IsKey(k) /\ path \in Seq(Labels) /\ Len(path) = Len(k) + 1 /\ Len(k) \in Nat
        /\ d \in 1 .. Len(k) /\ x \in C /\ x[1] = Cut(path, d) /\ ~ x[2] /\ x[3] = - A[k]
        /\ A[k] \in Nat /\ A[k] >= 2
    BY <1>1, <1>2 DEF KeyEnd
  <1>4. /\ IsTree(t, V, P, L, O, {}, {}) /\ C = Content(t, V, P, L) /\ V = Taken(t)
    BY DEF TrieAs
  <1>5. /\ V \in SUBSET (Slots \ {0}) /\ L \in [Slots -> Labels] /\ O \in [Slots -> Slots]
        /\ t.array \in [Slots -> [base : Int, check : Int]]
        /\ Edges(t, V, P, L, O) /\ Settled(t, V, O, {}) /\ Bases(t, V, L)
        /\ \A a, b \in V \cup {0} : P[a] = P[b] => a = b
    <2>1. \A a, b \in V \cup {0} : P[a] = P[b] => a = b
      BY <1>4, PathsApart
    <2> QED
      BY <2>1, <1>4 DEF IsTree, GhostTyped, TrieTyped
  <1> HIDE DEF x
  <1>6. PICK y \in V : x = Holding(t, P, L, y)
    BY <1>3, <1>4, NodesOf
  <1>7. y = e
    <2>1. P[y] = x[1]
      BY <1>4, <1>6, NodesOf
    <2> QED
      BY <2>1, <1>1, <1>3, <1>5
  <1>8. ~ InnerNode(t, L, e) /\ t.array[e].base = - A[k]
    <2>1. ~ InnerNode(t, L, e)
      <3>1. InnerNode(t, L, e) => x[2]
        BY <1>6, <1>7 DEF Holding, InnerOf
      <3> QED
        BY <3>1, <1>3
    <2>2. x = <<P[e], FALSE, t.array[e].base>>
      BY <2>1, <1>6, <1>7 DEF Holding
    <2> QED
      BY <2>1, <2>2, <1>3
  <1>9. L[e] # 0
    <2>1. d \in 0 .. Len(path) /\ e \in V \cup {0} /\ e # 0
      BY <1>1, <1>3, <1>5
    <2>2. L[e] = path[d]
      <3> HIDE DEF d, path
      <3> QED
        BY <2>1, <1>1, <1>3, <1>4, LastLabel
    <2>3. path[d] # 0
      BY <1>3, EndedFacts
    <2> QED
      BY <2>2, <2>3
  <1>10. t.array[e].base < 0 /\ e \in Slots /\ e # 0
    BY <1>1, <1>3, <1>5, <1>8
  <1>11. HasSuffix(t, e)
    <2> DEFINE n == t.array[e].check
               b == t.array[n].base
               l == L[e]
    <2>1. n \in V \cup {0} /\ InnerNode(t, L, n) /\ e = Xor(b, l) /\ l \in Labels
      <3>1. O[e] = b
        BY <1>1, <1>5 DEF Settled
      <3> QED
        BY <3>1, <1>1, <1>5 DEF Edges
    <2>2. n >= 0
      BY <1>1, <1>4 DEF Taken
    <2>3. b \in Slots
      BY <2>1, <1>5, SlotRange DEF Bases
    <2>4. b # e
      <3> HIDE DEF b, l, n
      <3>1. Xor(b, Xor(b, l)) = l /\ Xor(b, Xor(b, 0)) = 0 /\ Xor(b, 0) = b
        <4>1. 0 \in Labels
          BY BlockAssumption DEF Labels
        <4> QED
          BY <4>1, <2>1, <2>3, XorAssumption
      <3> QED
        BY <3>1, <2>1, <1>9 DEF l
    <2> QED
      BY <2>2, <2>4, <1>10 DEF HasSuffix
  <1> QED
    BY <1>3, <1>8, <1>9, <1>10, <1>11 DEF HungOn, HeaderCells

\* A node that shrink_tail takes for one with a suffix is.
LEMMA HangsThere ==
    ASSUME NEW R, NEW t, NEW C, NEW V, NEW P, NEW L, NEW O, TrieAs(R, t, C, V, P, L, O),
           NEW m, NEW D, NEW A, NEW W, StoredAs(C, t, m, D, A, W),
           NEW e \in 0 .. t.nblk * B - 1, HasSuffix(t, e)
    PROVE  \E k : Hung(m, V, P, D, k, e)
  <1>1. /\ IsTree(t, V, P, L, O, {}, {}) /\ C = Content(t, V, P, L) /\ V = Taken(t)
        /\ t.nblk \in 1 .. MaxBlocks /\ t.array[0].check < 0
    BY SoundFacts DEF TrieAs, IsTree, TrieTyped
  <1>2. e \in Slots /\ Block(e) < t.nblk
    <2> DEFINE n == t.nblk
    <2>1. n \in Nat /\ n <= MaxBlocks /\ MaxBlocks \in Nat
      BY <1>1, BlockAssumption
    <2>2. e \in Nat
      OBVIOUS
    <2>3. e \in 0 .. n * B - 1
      OBVIOUS
    <2> HIDE DEF n
    <2>4. Block(e) < n
      BY <2>1, <2>2, <2>3, Below
    <2>5. Block(e) < MaxBlocks
      BY <2>1, <2>2, <2>4, BlockAssumption DEF Block
    <2>6. e \in 0 .. MaxBlocks * B - 1
      BY <2>1, <2>2, <2>5, Below
    <2> QED
      BY <2>4, <2>6 DEF n, Slots
  <1>3. t.array[e].check >= 0 /\ t.array[e].base < 0
    BY DEF HasSuffix
  <1>4. e \in V /\ e # 0
    <2>1. e # 0
      <3>1. t.array[0].check \in Int
        BY <1>1, SlotRange DEF IsTree, TrieTyped
      <3>2. ~ t.array[0].check >= 0
        BY <1>1, <3>1
      <3> QED
        BY <3>2, <1>3
    <2>2. e \in Taken(t)
      BY <2>1, <1>2, <1>3 DEF Taken
    <2> QED
      BY <2>1, <2>2, <1>1
  <1> DEFINE b == t.array[e].base
             x == <<P[e], FALSE, b>>
  <1>5. b \in Int /\ ~ InnerNode(t, L, e)
    BY <1>1, <1>2, <1>3 DEF IsTree, TrieTyped, InnerNode
  <1>6. x \in C /\ ~ x[2]
    <2>1. Holding(t, P, L, e) \in C
      BY <1>1, <1>4, NodesOf
    <2> QED
      BY <2>1, <1>5 DEF Holding
  <1>7. PICK k \in DOMAIN m : x = EndOf(k, m[k], D[k], A[k])
    <2> HIDE DEF x
    <2> QED
      BY <1>6 DEF StoredAs, Ends
  <1>8. KeyEnd(C, m, D, A, k, EndOf(k, m[k], D[k], A[k]))
    BY EndFacts
  <1>9. P[e] = Cut(Ended(k), D[k]) /\ b = IF D[k] = Len(k) + 1 THEN m[k] ELSE - A[k]
    BY <1>7 DEF EndOf
  <1>10. D[k] <= Len(k)
    <2>1. m[k] \in Nat /\ D[k] \in 1 .. Len(k) + 1 /\ Len(k) \in Nat
      BY <1>8 DEF KeyEnd
    <2>2. D[k] # Len(k) + 1
      BY <2>1, <1>3, <1>9
    <2> QED
      BY <2>1, <2>2
  <1> QED
    BY <1>4, <1>9, <1>10 DEF Hung

\* A key has a node for its suffix.
LEMMA EachHangs ==
    ASSUME NEW R, NEW t, NEW C, NEW V, NEW P, NEW L, NEW O, TrieAs(R, t, C, V, P, L, O),
           NEW m, NEW D, NEW A, NEW W, StoredAs(C, t, m, D, A, W),
           NEW k \in DOMAIN m, D[k] <= Len(k)
    PROVE  \E e : Hung(m, V, P, D, k, e)
  <1> DEFINE x == EndOf(k, m[k], D[k], A[k])
  <1>1. x \in C /\ x[1] = Cut(Ended(k), D[k])
    <2>1. KeyEnd(C, m, D, A, k, x)
      BY EndFacts
    <2> QED
      BY <2>1 DEF KeyEnd
  <1>2. C = Content(t, V, P, L)
    BY DEF TrieAs
  <1> HIDE DEF x
  <1>3. PICK e \in V : x = Holding(t, P, L, e)
    BY <1>1, <1>2, NodesOf
  <1>4. P[e] = x[1]
    BY <1>2, <1>3, NodesOf
  <1> QED
    BY <1>1, <1>3, <1>4 DEF Hung

\* No two on one node, and none on two.
LEMMA HungApart ==
    ASSUME NEW R, NEW t, NEW C, NEW V, NEW P, NEW L, NEW O, TrieAs(R, t, C, V, P, L, O),
           NEW m, NEW D, NEW A, NEW W, StoredAs(C, t, m, D, A, W),
           NEW k, NEW e, Hung(m, V, P, D, k, e), NEW l, NEW f, Hung(m, V, P, D, l, f)
    PROVE  k = l <=> e = f
  <1>1. IsTree(t, V, P, L, O, {}, {})
    BY DEF TrieAs
  <1>2. \A a, b \in V \cup {0} : P[a] = P[b] => a = b
    BY <1>1, PathsApart
  <1>3. IsForest(C)
    BY ContentForest DEF TrieAs
  <1>4. /\ k \in DOMAIN m /\ e \in V /\ P[e] = Cut(Ended(k), D[k])
        /\ l \in DOMAIN m /\ f \in V /\ P[f] = Cut(Ended(l), D[l])
    BY DEF Hung
  <1>5. CASE e = f
    BY <1>3, <1>4, <1>5, EndsDiffer
  <1>6. CASE k = l
    BY <1>2, <1>4, <1>6
  <1> QED
    BY <1>5, <1>6

\* The length of the suffix of a key.
LEMMA SuffixLenIs ==
    ASSUME NEW t, TailTyped(t), NEW W, NEW k, IsKey(k), NEW v, NEW d \in 1 .. Len(k), NEW a,
           KeyAt(t, W, k, v, d, a)
    PROVE  SuffixLen(t, a) = Len(k) - d
  <1> DEFINE n == Len(k) - d
             Q(i) == t.tail[a + i] = 0 /\ \A j \in 0 .. i - 1 : t.tail[a + j] # 0
  <1>1. Len(k) \in Nat /\ \A j \in 1 .. Len(k) : k[j] # 0
    BY EndedFacts
  <1>2. a \in Nat /\ a + n + 1 < t.length /\ Spelled(t, k, v, d, a)
    BY DEF KeyAt
  <1>3. n \in Nat /\ n \in 0 .. MaxTail - a
    BY <1>1, <1>2, TailAssumption DEF TailTyped, HeaderCells
  <1>4. t.tail[a + n] = 0
    BY <1>2 DEF Spelled
  <1>5. ASSUME NEW j \in 0 .. n - 1 PROVE t.tail[a + j] # 0
    <2> DEFINE h == d + 1 + j
    <2>1. h \in d + 1 .. Len(k) /\ h - d - 1 = j /\ h \in 1 .. Len(k)
      BY <1>1, <1>3
    <2> HIDE DEF h
    <2>2. t.tail[a + (h - d - 1)] = k[h]
      BY <2>1, <1>2 DEF Spelled
    <2> QED
      BY <2>1, <2>2, <1>1
  <1>6. Q(n)
    BY <1>4, <1>5
  <1>7. ASSUME NEW i \in 0 .. MaxTail - a, Q(i) PROVE i = n
    <2>1. i \in Nat /\ n \in Nat
      BY <1>3
    <2>2. ~ i < n
      <3>1. i < n => i \in 0 .. n - 1
        BY <2>1
      <3> QED
        BY <3>1, <1>5, <1>7
    <2>3. ~ n < i
      <3>1. n < i => n \in 0 .. i - 1
        BY <2>1
      <3> QED
        BY <3>1, <1>4, <1>7
    <2> QED
      BY <2>1, <2>2, <2>3
  <1>8. SuffixLen(t, a) = CHOOSE i \in 0 .. MaxTail - a : Q(i)
    BY DEF SuffixLen
  <1> HIDE DEF Q, n
  <1>9. SuffixLen(t, a) = n
    BY <1>3, <1>6, <1>7, <1>8
  <1> QED
    BY <1>9 DEF n

-----------------------------------------------------------------------------
(* shrink_tail.                                                            *)

\* The cells of the first n places for empty suffixes.
PlaceCells(t, n) == {c \in Cells : \E i \in 1 .. n : c = t.tail0[i] \/ c = t.tail0[i] + 1}

\* A place has two cells, which are no other's.
LEMMA PlaceCount ==
    ASSUME NEW t, NEW m, NEW D, NEW A, NEW W, TailHolds(t, m, D, A, W),
           NEW U, U = PlaceCells(t, Len(t.tail0))
    PROVE  /\ Len(t.tail0) \in Nat /\ IsFiniteSet(U) /\ Cardinality(U) = 2 * Len(t.tail0)
           /\ \A c \in U : c >= HeaderCells /\ c < t.length /\ \E i \in 1 .. Len(t.tail0) : W[c] = << <<>>, i>>
  <1> DEFINE N == Len(t.tail0)
             T(n) == PlaceCells(t, n)
             S == {n \in 0 .. N : IsFiniteSet(T(n)) /\ Cardinality(T(n)) = 2 * n}
  <1>1. N \in Nat /\ t.length \in HeaderCells .. MaxTail /\ DOMAIN t.tail0 = 1 .. N
    BY DEF TailHolds, TailTyped
  <1>2. ASSUME NEW i \in 1 .. N
        PROVE  /\ t.tail0[i] \in Nat /\ t.tail0[i] >= HeaderCells /\ t.tail0[i] + 1 < t.length
               /\ W[t.tail0[i]] = << <<>>, i>> /\ W[t.tail0[i] + 1] = << <<>>, i>>
    BY <1>1 DEF TailHolds, PlaceAt
  <1>3. 0 \in S
    <2>1. T(0) = {}
      BY DEF PlaceCells
    <2>2. IsFiniteSet({}) /\ Cardinality({}) = 0
      BY FS_EmptySet
    <2>3. IsFiniteSet(T(0)) /\ Cardinality(T(0)) = 0
      <3> HIDE DEF T
      <3> QED
        BY <2>1, <2>2
    <2>4. 2 * 0 = 0 /\ 0 \in 0 .. N
      BY <1>1
    <2> HIDE DEF T, N
    <2>5. Cardinality(T(0)) = 2 * 0
      BY <2>3, <2>4
    <2> QED
      BY <2>3, <2>4, <2>5
  <1>4. ASSUME NEW n \in 1 .. N, n - 1 \in S PROVE n \in S
    <2> DEFINE a == t.tail0[n]
               b == a + 1
               Y == T(n - 1)
    <2>1. a \in Cells /\ b \in Cells /\ a # b
      BY <1>1, <1>2, TailAssumption DEF Cells, HeaderCells
    <2>2. T(n) = (Y \cup {a}) \cup {b}
      <3>1. ASSUME NEW c \in T(n) PROVE c \in (Y \cup {a}) \cup {b}
        <4>1. PICK i \in 1 .. n : c = t.tail0[i] \/ c = t.tail0[i] + 1
          BY DEF PlaceCells
        <4>2. CASE i = n
          BY <4>1, <4>2
        <4>3. CASE i # n
          <5>1. i \in 1 .. n - 1 /\ c \in Cells
            BY <4>3 DEF PlaceCells
          <5> QED
            BY <5>1, <4>1 DEF PlaceCells
        <4> QED
          BY <4>2, <4>3
      <3>2. Y \subseteq T(n)
        <4>1. \A i \in 1 .. n - 1 : i \in 1 .. n
          OBVIOUS
        <4> QED
          BY <4>1 DEF PlaceCells
      <3>3. a \in T(n) /\ b \in T(n)
        <4>1. n \in 1 .. n
          OBVIOUS
        <4> QED
          BY <2>1, <4>1 DEF PlaceCells
      <3> HIDE DEF T, Y, a, b
      <3> QED
        BY <3>1, <3>2, <3>3
    <2>3. ASSUME NEW c \in Y PROVE c # a /\ c # b
      <3>1. PICK i \in 1 .. n - 1 : c = t.tail0[i] \/ c = t.tail0[i] + 1
        BY DEF PlaceCells
      <3>2. i \in 1 .. N /\ i # n
        BY <1>1
      <3>3. W[c] = << <<>>, i>>
        BY <3>1, <3>2, <1>2
      <3>4. W[a] = << <<>>, n>> /\ W[b] = << <<>>, n>>
        BY <1>2
      <3> HIDE DEF a, b
      <3> QED
        BY <3>2, <3>3, <3>4
    <2>4. IsFiniteSet(Y) /\ Cardinality(Y) = 2 * (n - 1)
      BY <1>4
    <2> HIDE DEF Y, T, a, b
    <2>5. IsFiniteSet(Y \cup {a}) /\ Cardinality(Y \cup {a}) = 2 * (n - 1) + 1
      BY <2>3, <2>4, FS_AddElement
    <2>6. b \notin Y \cup {a}
      BY <2>1, <2>3
    <2>7. IsFiniteSet((Y \cup {a}) \cup {b}) /\ Cardinality((Y \cup {a}) \cup {b}) = (2 * (n - 1) + 1) + 1
      BY <2>5, <2>6, FS_AddElement
    <2>8. IsFiniteSet(T(n)) /\ Cardinality(T(n)) = 2 * n
      BY <2>2, <2>7, <1>1
    <2> QED
      BY <2>8
  <1> HIDE DEF S
  <1>5. N \in S
    <2>1. \A n \in 0 .. N : n \in S
      BY <1>1, <1>3, <1>4, UpTo
    <2> QED
      BY <2>1, <1>1
  <1>6. ASSUME NEW c \in U
        PROVE  c >= HeaderCells /\ c < t.length /\ \E i \in 1 .. Len(t.tail0) : W[c] = << <<>>, i>>
    <2>1. PICK i \in 1 .. N : c = t.tail0[i] \/ c = t.tail0[i] + 1
      BY DEF PlaceCells
    <2>2. c >= HeaderCells /\ c < t.length
      BY <2>1, <1>1, <1>2 DEF HeaderCells
    <2>3. W[c] = << <<>>, i>>
      BY <2>1, <1>2
    <2> QED
      BY <2>2, <2>3
  <1> QED
    BY <1>1, <1>5, <1>6 DEF S

\* The cells of the suffixes that hang on the nodes up to e.
SuffixCells(m, V, P, D, A, e) ==
    {c \in Cells : \E k \in DOMAIN m, x \in V : Hung(m, V, P, D, k, x) /\ x <= e /\ c \in Extent(k, D[k], A[k])}

\* The new tail is long enough for the suffixes, without the places for empty ones.
LEMMA SuffixRoom ==
    ASSUME NEW C, NEW t, NEW m, NEW D, NEW A, NEW W, StoredAs(C, t, m, D, A, W),
           NEW V, NEW P, NEW e, NEW U, U = SuffixCells(m, V, P, D, A, e)
    PROVE  /\ IsFiniteSet(U) /\ Cardinality(U) \in Nat /\ Len(t.tail0) \in Nat
           /\ HeaderCells + Cardinality(U) + 2 * Len(t.tail0) <= t.length
           /\ t.length \in HeaderCells .. MaxTail
  <1> DEFINE N == Len(t.tail0)
             Q == PlaceCells(t, N)
             I == 2 .. t.length - 1
  <1>1. TailHolds(t, m, D, A, W) /\ t.length \in HeaderCells .. MaxTail
    BY DEF StoredAs, TailHolds, TailTyped
  <1>2. /\ N \in Nat /\ IsFiniteSet(Q) /\ Cardinality(Q) = 2 * N
        /\ \A c \in Q : c >= HeaderCells /\ c < t.length /\ \E i \in 1 .. N : W[c] = << <<>>, i>>
    <2> HIDE DEF Q
    <2>1. Q = PlaceCells(t, Len(t.tail0))
      BY DEF Q
    <2> QED
      BY <2>1, <1>1, PlaceCount
  <1>3. ASSUME NEW c \in U
        PROVE  c \in I /\ \E k \in DOMAIN m : IsKey(k) /\ W[c] = <<k, 0>>
    <2>1. PICK k \in DOMAIN m, x \in V : Hung(m, V, P, D, k, x) /\ c \in Extent(k, D[k], A[k])
      BY DEF SuffixCells
    <2>2. D[k] <= Len(k)
      BY <2>1 DEF Hung
    <2>3. c \in Cells /\ c >= HeaderCells /\ c < t.length /\ W[c] = <<k, 0>>
      BY <2>1, <2>2, CellsApart
    <2>4. IsKey(k)
      BY DEF StoredAs, IsMap
    <2> QED
      BY <2>3, <2>4, <1>1 DEF HeaderCells, Cells
  <1>4. U \cap Q = {}
    <2> SUFFICES ASSUME NEW c \in U, c \in Q PROVE FALSE
      OBVIOUS
    <2>1. PICK k \in DOMAIN m : IsKey(k) /\ W[c] = <<k, 0>>
      BY <1>3
    <2>2. PICK i \in 1 .. N : W[c] = << <<>>, i>>
      BY <1>2
    <2>3. k = <<>>
      BY <2>1, <2>2
    <2> QED
      BY <2>1, <2>3 DEF IsKey
  <1>5. U \subseteq I /\ Q \subseteq I
    <2>1. \A c \in Q : c \in Cells
      BY DEF PlaceCells
    <2>2. \A c \in Q : c \in I
      BY <2>1, <1>1, <1>2 DEF HeaderCells, Cells
    <2> QED
      BY <2>2, <1>3
  <1>6. t.length \in Int /\ t.length >= 2
    BY <1>1 DEF HeaderCells
  <1>7. IsFiniteSet(I) /\ Cardinality(I) = t.length - 2
    <2> DEFINE z == t.length - 1
    <2>1. z \in Int /\ 2 \in Int /\ (2 > z \/ z >= 2)
      BY <1>6
    <2> HIDE DEF z
    <2>2. IsFiniteSet(2 .. z) /\ Cardinality(2 .. z) = IF 2 > z THEN 0 ELSE (z - 2) + 1
      BY <2>1, FS_Interval
    <2> QED
      BY <2>2, <1>6 DEF z
  <1> HIDE DEF I, Q
  <1>8. IsFiniteSet(U) /\ Cardinality(U) \in Nat
    BY <1>5, <1>7, FS_Subset, FS_CardinalityType
  <1>9. IsFiniteSet(U \cup Q) /\ Cardinality(U \cup Q) = Cardinality(U) + Cardinality(Q)
    <2>1. Cardinality(U \cap Q) = 0
      BY <1>4, FS_EmptySet
    <2>2. IsFiniteSet(U \cup Q) /\ Cardinality(U \cup Q) = Cardinality(U) + Cardinality(Q) - Cardinality(U \cap Q)
      BY <1>2, <1>8, FS_Union
    <2>3. Cardinality(U) \in Nat /\ Cardinality(Q) \in Nat
      BY <1>2, <1>8
    <2> QED
      BY <2>1, <2>2, <2>3
  <1>10. Cardinality(U \cup Q) <= Cardinality(I)
    <2>1. U \cup Q \in SUBSET I
      BY <1>5
    <2> QED
      BY <2>1, <1>7, FS_Subset
  <1> HIDE DEF N
  <1>11. HeaderCells + Cardinality(U) + 2 * N <= t.length
    <2> DEFINE a == Cardinality(U)
               b == Cardinality(Q)
    <2>1. a \in Nat /\ b = 2 * N /\ N \in Nat /\ a + b <= t.length - 2
      BY <1>2, <1>7, <1>8, <1>9, <1>10
    <2> HIDE DEF a, b
    <2>2. 2 + a + 2 * N <= t.length
      BY <2>1, <1>6
    <2> QED
      BY <2>2 DEF a, HeaderCells
  <1> QED
    BY <1>1, <1>2, <1>8, <1>11 DEF N

\* A suffix more: its cells are no other's.
LEMMA SuffixMore ==
    ASSUME NEW R, NEW t, NEW C, NEW V, NEW P, NEW L, NEW O, TrieAs(R, t, C, V, P, L, O),
           NEW m, NEW D, NEW A, NEW W, StoredAs(C, t, m, D, A, W), NEW e \in Nat,
           NEW U, U = SuffixCells(m, V, P, D, A, e - 1), NEW T, T = SuffixCells(m, V, P, D, A, e)
    PROVE  /\ (\A k : ~ Hung(m, V, P, D, k, e)) => T = U
           /\ \A k : Hung(m, V, P, D, k, e) => Cardinality(T) = Cardinality(U) + (Len(k) - D[k]) + 2
  <1>1. ASSUME NEW k, NEW x \in V, Hung(m, V, P, D, k, x)
        PROVE  HungOn(t, L, D, A, k, x) /\ k \in DOMAIN m /\ x \in Nat
    <2>1. HungOn(t, L, D, A, k, x)
      BY <1>1, HungFacts
    <2>2. x \in Nat
      BY <2>1, SlotFacts DEF HungOn
    <2> QED
      BY <1>1, <2>1, <2>2 DEF Hung
  <1>2. \A x \in Nat : x <= e <=> x <= e - 1 \/ x = e
    OBVIOUS
  <1>3. ASSUME \A k : ~ Hung(m, V, P, D, k, e) PROVE T = U
    <2>1. \A k \in DOMAIN m, x \in V : Hung(m, V, P, D, k, x) => (x <= e <=> x <= e - 1)
      BY <1>1, <1>2, <1>3
    <2> QED
      BY <2>1 DEF SuffixCells
  <1>4. ASSUME NEW k, Hung(m, V, P, D, k, e)
        PROVE  Cardinality(T) = Cardinality(U) + (Len(k) - D[k]) + 2
    <2> DEFINE X == Extent(k, D[k], A[k])
               n == Len(k) - D[k]
               a == A[k]
    <2>1. k \in DOMAIN m /\ e \in V /\ D[k] <= Len(k)
      BY <1>4 DEF Hung
    <2>2. HungOn(t, L, D, A, k, e)
      BY <1>1, <1>4, <2>1
    <2>3. n \in Nat /\ a \in Nat
      BY <2>2 DEF HungOn
    <2>4. \A c \in X : c \in Cells /\ W[c] = <<k, 0>>
      BY <2>1, CellsApart
    <2>5. T = U \cup X
      <3>1. ASSUME NEW c \in T PROVE c \in U \cup X
        <4>1. PICK l \in DOMAIN m, x \in V : Hung(m, V, P, D, l, x) /\ x <= e /\ c \in Extent(l, D[l], A[l])
          BY DEF SuffixCells
        <4>2. CASE x = e
          <5>1. l = k
            BY <4>1, <4>2, <1>4, HungApart
          <5> QED
            BY <5>1, <4>1
        <4>3. CASE x # e
          <5>1. x <= e - 1
            BY <4>1, <4>3, <1>1, <1>2
          <5> QED
            BY <5>1, <4>1 DEF SuffixCells
        <4> QED
          BY <4>2, <4>3
      <3>2. ASSUME NEW c \in U PROVE c \in T
        <4>1. PICK l \in DOMAIN m, x \in V : Hung(m, V, P, D, l, x) /\ x <= e - 1 /\ c \in Extent(l, D[l], A[l])
          BY DEF SuffixCells
        <4>2. x <= e
          BY <4>1, <1>1, <1>2
        <4>3. c \in Cells
          BY DEF SuffixCells
        <4> QED
          BY <4>1, <4>2, <4>3 DEF SuffixCells
      <3>3. ASSUME NEW c \in X PROVE c \in T
        <4>1. c \in Cells /\ e <= e
          BY <2>4
        <4> QED
          BY <4>1, <2>1, <1>4 DEF SuffixCells
      <3> HIDE DEF X
      <3> QED
        BY <3>1, <3>2, <3>3
    <2>6. U \cap X = {}
      <3> SUFFICES ASSUME NEW c \in U, c \in X PROVE FALSE
        OBVIOUS
      <3>1. PICK l \in DOMAIN m, x \in V : Hung(m, V, P, D, l, x) /\ x <= e - 1 /\ c \in Extent(l, D[l], A[l])
        BY DEF SuffixCells
      <3>2. D[l] <= Len(l)
        BY <3>1 DEF Hung
      <3>3. W[c] = <<l, 0>>
        BY <3>1, <3>2, CellsApart
      <3>4. l = k
        BY <3>3, <2>4
      <3>5. x = e
        BY <3>1, <3>4, <1>4, HungApart
      <3> QED
        BY <3>1, <3>5
    <2>7. IsFiniteSet(X) /\ Cardinality(X) = n + 2
      <3> DEFINE z == a + n + 1
      <3>1. z \in Int /\ a \in Int /\ ~ a > z /\ z - a + 1 = n + 2
        BY <2>3
      <3>2. X = a .. z
        BY DEF Extent
      <3> HIDE DEF X, z, a
      <3>3. IsFiniteSet(a .. z) /\ Cardinality(a .. z) = IF a > z THEN 0 ELSE z - a + 1
        BY <3>1, FS_Interval
      <3>4. Cardinality(a .. z) = z - a + 1
        BY <3>1, <3>3
      <3>5. Cardinality(a .. z) = n + 2
        BY <3>1, <3>4
      <3> QED
        BY <3>2, <3>3, <3>5
    <2>8. IsFiniteSet(U) /\ Cardinality(U) \in Nat
      <3> DEFINE f == e - 1
      <3>1. U = SuffixCells(m, V, P, D, A, f)
        OBVIOUS
      <3> HIDE DEF f
      <3> QED
        BY <3>1, SuffixRoom
    <2> HIDE DEF X, n
    <2>9. Cardinality(U \cup X) = Cardinality(U) + Cardinality(X)
      <3>1. Cardinality(U \cap X) = 0
        BY <2>6, FS_EmptySet
      <3>2. Cardinality(U \cup X) = Cardinality(U) + Cardinality(X) - Cardinality(U \cap X)
        BY <2>7, <2>8, FS_Union
      <3>3. Cardinality(X) \in Nat
        BY <2>3, <2>7
      <3> QED
        BY <3>1, <3>2, <3>3, <2>8
    <2>10. Cardinality(T) = Cardinality(U) + (n + 2)
      BY <2>5, <2>7, <2>9
    <2>11. Cardinality(T) = Cardinality(U) + n + 2
      BY <2>3, <2>8, <2>10
    <2> QED
      BY <2>11 DEF n
  <1> QED
    BY <1>3, <1>4

\* A round of shrink_tail.
CopyRound(t, c, e) ==
    LET old  == - t.array[e].base
        size == SuffixLen(t, old) + 1 + ValueCells
    IN  IF ~ HasSuffix(t, e) THEN c
        ELSE [c EXCEPT !.array[e].base = - c.length,
                       !.length = @ + size,
                       !.tail = [i \in Cells |->
                          IF i \in c.length .. c.length + size - 1
                          THEN t.tail[old + i - c.length] ELSE @[i]]]

\* The loop.
LEMMA CopyLoop ==
    ASSUME NEW t, t.nblk * B \in Nat
    PROVE  \E g : /\ g[-1] = Emptied(t)
                  /\ \A e \in 0 .. t.nblk * B - 1 : g[e] = CopyRound(t, g[e - 1], e)
                  /\ Compact(t) = g[t.nblk * B - 1]
  <1> DEFINE N == t.nblk * B
             s0 == Emptied(t)
             Next1(s, i) == CopyRound(t, s, i)
             Step(g, i) == IF i = -1 THEN s0 ELSE Next1(g[i - 1], i)
             Good(g, m) == g = [i \in -1 .. m - 1 |-> Step(g, i)]
             Bad == {m \in Nat : ~ \E g : Good(g, m)}
  <1>1. Bad = {}
    <2> SUFFICES ASSUME Bad # {} PROVE FALSE
      OBVIOUS
    <2> HIDE DEF Next1, s0
    <2>1. Bad \in SUBSET Nat
      OBVIOUS
    <2> HIDE DEF Bad
    <2>2. PICK m \in Bad : \A x \in Bad : m <= x
      BY <2>1, Least
    <2>3. m \in Nat /\ ~ \E g : Good(g, m)
      BY DEF Bad
    <2>4. CASE m = 0
      <3> DEFINE g == [i \in -1 .. 0 - 1 |-> s0]
      <3>1. Good(g, 0)
        BY DEF g
      <3> QED
        BY <3>1, <2>3, <2>4
    <2>5. CASE m # 0
      <3>1. m - 1 \in Nat /\ m - 1 \notin Bad
        BY <2>2, <2>3, <2>5
      <3>2. PICK h : Good(h, m - 1)
        BY <3>1 DEF Bad
      <3> DEFINE g == [i \in -1 .. m - 1 |-> Step(h, i)]
      <3>3. ASSUME NEW i \in -1 .. m - 1 PROVE Step(g, i) = Step(h, i)
        <4>1. CASE i = -1
          BY <4>1
        <4>2. CASE i # -1
          <5>1. i - 1 \in -1 .. m - 1 /\ i - 1 \in -1 .. (m - 1) - 1
            BY <4>2, <2>3
          <5>2. g[i - 1] = Step(h, i - 1)
            BY <5>1
          <5>3. h[i - 1] = Step(h, i - 1)
            <6> HIDE DEF Step
            <6> QED
              BY <5>1, <3>2
          <5> HIDE DEF g
          <5> QED
            BY <4>2, <5>2, <5>3
        <4> QED
          BY <4>1, <4>2
      <3>4. Good(g, m)
        <4> HIDE DEF Step
        <4> QED
          BY <3>3
      <3> QED
        BY <3>4, <2>3
    <2> QED
      BY <2>4, <2>5
  <1>2. \E g : Good(g, N)
    BY <1>1
  <1>3. PICK g : Good(g, N) /\ Compact(t) = g[N - 1]
    BY <1>2 DEF CopyRound, Compact
  <1> HIDE DEF Next1, s0
  <1>4. g[-1] = s0 /\ \A i \in 0 .. N - 1 : g[i] = Next1(g[i - 1], i)
    <2>1. g = [i \in -1 .. N - 1 |-> Step(g, i)]
      BY <1>3
    <2>2. \A i \in -1 .. N - 1 : g[i] = Step(g, i)
      <3> HIDE DEF Step
      <3> QED
        BY <2>1
    <2> QED
      BY <2>2
  <1> QED
    BY <1>3, <1>4 DEF Next1, s0

\* The suffix at old, which has n characters, is copied to the end, where a is.
PastedAs(t, c, u, e, a, n, old) ==
    /\ DOMAIN u = DOMAIN c
    /\ \A f \in DOMAIN c \ {"array", "tail", "length"} : u[f] = c[f]
    /\ u.array = [c.array EXCEPT ![e] = Node(- a, c.array[e].check)]
    /\ u.length = a + n + 2
    /\ u.tail = [i \in Cells |-> IF i \in a .. a + n + 1 THEN t.tail[old + (i - a)] ELSE c.tail[i]]

\* That is what shrink_tail writes for a node with a suffix.
LEMMA PasteForm ==
    ASSUME NEW t, NEW c, {"array", "tail", "length"} \subseteq DOMAIN c,
           c.array \in [Slots -> [base : Int, check : Int]], NEW e \in Slots, HasSuffix(t, e),
           NEW a \in Nat, a = c.length, NEW old \in Nat, t.array[e].base = - old,
           NEW n \in Nat, n = SuffixLen(t, old)
    PROVE  PastedAs(t, c, CopyRound(t, c, e), e, a, n, old)
  <1> DEFINE Old == - t.array[e].base
             size == SuffixLen(t, Old) + 1 + ValueCells
             X == [c.array EXCEPT ![e].base = - c.length]
             Y == c.length + size
             Z == [i \in Cells |-> IF i \in c.length .. c.length + size - 1
                                   THEN t.tail[Old + i - c.length] ELSE c.tail[i]]
             u == [c EXCEPT !.array = X, !.length = Y, !.tail = Z]
  <1>1. Old = old
    OBVIOUS
  <1>2. size = n + 2 /\ Y = a + n + 2
    BY <1>1 DEF ValueCells
  <1>3. CopyRound(t, c, e) = u
    BY DEF CopyRound
  <1>4. X = [c.array EXCEPT ![e] = Node(- a, c.array[e].check)]
    BY DEF Node
  <1>5. Z = [i \in Cells |-> IF i \in a .. a + n + 1 THEN t.tail[old + (i - a)] ELSE c.tail[i]]
    <2> HIDE DEF size, Old
    <2>1. c.length + size - 1 = a + n + 1
      BY <1>2
    <2>2. ASSUME NEW i \in Cells PROVE Old + i - c.length = old + (i - a)
      BY <1>1 DEF Cells
    <2> QED
      BY <2>1, <2>2
  <1> HIDE DEF X, Y, Z
  <1>6. /\ DOMAIN u = DOMAIN c /\ u.array = X /\ u.length = Y /\ u.tail = Z
        /\ \A f \in DOMAIN c \ {"array", "tail", "length"} : u[f] = c[f]
    OBVIOUS
  <1> HIDE DEF u
  <1> QED
    BY <1>2, <1>3, <1>4, <1>5, <1>6 DEF PastedAs

\* shrink_tail has come past the node e: the suffixes up to there are at F in
\* the new tail, which ends with the last of them.
CopiedTo(t, u, m, V, P, D, A, F, X, e) ==
    /\ DOMAIN u = DOMAIN t
    /\ \A f \in DOMAIN t \ {"array", "tail", "length", "tail0"} : u[f] = t[f]
    /\ u.array \in [Slots -> [base : Int, check : Int]]
    /\ \A x \in Slots : /\ u.array[x].check = t.array[x].check
                        /\ (\A k : ~ Hung(m, V, P, D, k, x)) \/ x > e => u.array[x] = t.array[x]
    /\ F \in [DOMAIN m -> Int]
    /\ \A k, x : Hung(m, V, P, D, k, x) /\ x <= e =>
          u.array[x].base = - F[k] /\ KeyAt(u, X, k, m[k], D[k], F[k])
    /\ TailTyped(u) /\ u.tail0 = <<>>
    /\ u.length = HeaderCells + Cardinality(SuffixCells(m, V, P, D, A, e))
Copying(t, u, m, V, P, D, A, e) == \E F, X : CopiedTo(t, u, m, V, P, D, A, F, X, e)

\* It begins with an empty tail.
LEMMA CopyStarts ==
    ASSUME NEW R, NEW t, NEW C, NEW V, NEW P, NEW L, NEW O, TrieAs(R, t, C, V, P, L, O),
           NEW m, NEW D, NEW A, NEW W, StoredAs(C, t, m, D, A, W), NEW u, u = Emptied(t)
    PROVE  Copying(t, u, m, V, P, D, A, -1)
  <1> DEFINE F == [k \in DOMAIN m |-> 0]
             Z == [i \in Cells |-> 0]
             T == SuffixCells(m, V, P, D, A, -1)
  <1>1. TailTyped(t) /\ t.array \in [Slots -> [base : Int, check : Int]]
    BY DEF StoredAs, TailHolds, TrieAs, IsTree, TrieTyped
  <1>2. /\ DOMAIN u = DOMAIN t /\ u.length = HeaderCells /\ u.tail = Z /\ u.tail0 = <<>>
        /\ \A f \in DOMAIN t \ {"tail", "length", "tail0"} : u[f] = t[f]
    <2>1. {"tail", "length", "tail0"} \subseteq DOMAIN t
      BY <1>1 DEF TailTyped
    <2> HIDE DEF Z
    <2>2. u = [t EXCEPT !.tail = Z, !.length = HeaderCells, !.tail0 = <<>>]
      BY DEF Emptied, Z
    <2> QED
      BY <2>1, <2>2
  <1>3. "array" \in DOMAIN t
    BY DEF TrieAs, IsTree, TrieTyped
  <1>4. u.array = t.array
    BY <1>2, <1>3
  <1>5. ASSUME NEW k, NEW x, Hung(m, V, P, D, k, x) PROVE ~ x <= -1
    <2>1. HungOn(t, L, D, A, k, x)
      BY <1>5, HungFacts
    <2>2. x \in Nat
      BY <2>1, SlotFacts DEF HungOn
    <2> QED
      BY <2>2
  <1>6. TailTyped(u)
    <2>1. HeaderCells \in HeaderCells .. MaxTail
      BY <1>1, TailAssumption DEF TailTyped, HeaderCells
    <2>2. Z \in [Cells -> Int] /\ \A c \in Cells : Z[c] = 0
      OBVIOUS
    <2> HIDE DEF Z
    <2> QED
      BY <1>1, <1>2, <2>1, <2>2 DEF TailTyped
  <1>7. T = {}
    BY <1>5 DEF SuffixCells
  <1>8. u.length = HeaderCells + Cardinality(T)
    <2>1. Cardinality(T) = 0
      BY <1>7, FS_EmptySet
    <2> HIDE DEF T
    <2> QED
      BY <2>1, <1>2 DEF HeaderCells
  <1>9. F \in [DOMAIN m -> Int]
    OBVIOUS
  <1> HIDE DEF F, T, Z
  <1>10. CopiedTo(t, u, m, V, P, D, A, F, F, -1)
    BY <1>1, <1>2, <1>4, <1>5, <1>6, <1>8, <1>9 DEF CopiedTo, T
  <1> QED
    BY <1>10 DEF Copying

\* The n + 2 cells at a are those of k.
Tagged(X, k, a, n) == [i \in Cells |-> IF i \in a .. a + n + 1 THEN <<k, 0>> ELSE X[i]]

\* The suffix of k, at old in the tail of t, goes where a is.
CanPaste(t, c, u, e, k, v, d, n, a, old, W) ==
    /\ TailTyped(t) /\ TailTyped(c) /\ n \in Nat /\ a = c.length /\ old \in Nat /\ IsKey(k)
    /\ d \in 1 .. Len(k) /\ n = Len(k) - d /\ KeyAt(t, W, k, v, d, old)
    /\ PastedAs(t, c, u, e, a, n, old) /\ a + n + 2 <= MaxTail

\* It is there.
HasPasted(c, u, X, X2, k, v, d, a) ==
    /\ TailTyped(u) /\ KeyAt(u, X2, k, v, d, a) /\ u.tail0 = c.tail0 /\ u.length \in Nat /\ a \in Nat
    /\ \A i \in Cells : i < a => u.tail[i] = c.tail[i] /\ X2[i] = X[i]

\* The suffix of k is written at the end of the new tail.
LEMMA Pasted ==
    ASSUME NEW t, NEW c, NEW u, NEW e, NEW k, NEW v, NEW d, NEW n, NEW a, NEW old, NEW W,
           CanPaste(t, c, u, e, k, v, d, n, a, old, W), NEW X
    PROVE  HasPasted(c, u, X, Tagged(X, k, a, n), k, v, d, a)
  <1> USE DEF CanPaste
  <1> DEFINE X2 == Tagged(X, k, a, n)
  <1>1. /\ a \in HeaderCells .. MaxTail /\ t.length \in HeaderCells .. MaxTail /\ MaxTail \in Nat
        /\ a \in Nat /\ a >= HeaderCells /\ t.length \in Nat /\ t.length <= MaxTail
    BY TailAssumption DEF TailTyped, HeaderCells
  <1> HIDE DEF X2
  <1>2. /\ DOMAIN u = DOMAIN c /\ u.length = a + n + 2
        /\ u.tail = [i \in Cells |-> IF i \in a .. a + n + 1 THEN t.tail[old + (i - a)] ELSE c.tail[i]]
        /\ u.tail0 = c.tail0
    BY DEF PastedAs, TailTyped
  <1>3. old >= HeaderCells /\ old + n + 1 < t.length /\ Spelled(t, k, v, d, old)
    <2>1. d <= Len(k)
      OBVIOUS
    <2> QED
      BY <2>1 DEF KeyAt
  <1>4. t.tail \in [Cells -> Int] /\ c.tail \in [Cells -> Int] /\ \A i \in Cells : i >= a => c.tail[i] = 0
    BY DEF TailTyped
  <1>5. ASSUME NEW i \in a .. a + n + 1 PROVE i \in Cells /\ old + (i - a) \in Cells
    <2>1. a + n + 2 <= MaxTail
      OBVIOUS
    <2> DEFINE y == t.length
               j == i - a
    <2>2. /\ a \in Nat /\ n \in Nat /\ old \in Nat /\ MaxTail \in Nat /\ y \in Nat /\ y <= MaxTail
          /\ old + n + 1 < y
      BY <1>1, <1>3
    <2>3. i \in Int /\ i >= a /\ i <= a + n + 1
      BY <2>2
    <2> HIDE DEF y
    <2>4. j \in Nat /\ j <= n + 1
      BY ONLY <2>2, <2>3
    <2> HIDE DEF j
    <2>5. i \in 0 .. MaxTail /\ old + j \in 0 .. MaxTail
      BY ONLY <2>1, <2>2, <2>3, <2>4
    <2> QED
      BY <2>5 DEF Cells, j
  <1>6. u.length \in HeaderCells .. MaxTail /\ u.length \in Nat
    BY <1>1, <1>2 DEF HeaderCells
  <1>7. TailTyped(u)
    <2>1. u.tail \in [Cells -> Int]
      <3>1. \A i \in Cells : (IF i \in a .. a + n + 1 THEN t.tail[old + (i - a)] ELSE c.tail[i]) \in Int
        BY <1>4, <1>5
      <3> QED
        BY <3>1, <1>2
    <2>2. ASSUME NEW i \in Cells, i >= u.length PROVE u.tail[i] = 0
      <3>1. i \notin a .. a + n + 1 /\ i >= a
        BY <2>2, <1>1, <1>2 DEF Cells
      <3> QED
        BY <3>1, <1>2, <1>4
    <2> QED
      BY <2>1, <2>2, <1>2, <1>6 DEF TailTyped
  <1>8. \A i \in Cells : i < a => u.tail[i] = c.tail[i] /\ X2[i] = X[i]
    <2>1. \A i \in Cells : i < a => i \notin a .. a + n + 1
      BY <1>1 DEF Cells
    <2> QED
      BY <2>1, <1>2 DEF Tagged, X2
  <1>9. ASSUME NEW i \in 0 .. n + 1 PROVE u.tail[a + i] = t.tail[old + i]
    <2> DEFINE j == a + i
    <2>1. j \in a .. a + n + 1 /\ j - a = i
      BY <1>1
    <2> HIDE DEF j
    <2>2. u.tail[j] = t.tail[old + (j - a)]
      BY <2>1, <1>2, <1>5
    <2> QED
      BY <2>1, <2>2 DEF j
  <1>10. Len(k) \in Nat
    BY EndedFacts
  <1>11. Spelled(u, k, v, d, a)
    <2>1. ASSUME NEW j \in d + 1 .. Len(k) PROVE u.tail[a + (j - d - 1)] = k[j]
      <3> DEFINE i == j - d - 1
      <3>1. i \in 0 .. n + 1
        BY <1>10
      <3>2. t.tail[old + i] = k[j]
        BY <1>3 DEF Spelled
      <3> HIDE DEF i
      <3>3. u.tail[a + i] = t.tail[old + i]
        BY <3>1, <1>9
      <3> QED
        BY <3>2, <3>3 DEF i
    <2>2. t.tail[old + n] = 0 /\ t.tail[old + n + 1] = v
      BY <1>3 DEF Spelled
    <2>3. u.tail[a + n] = 0
      <3>1. n \in 0 .. n + 1
        OBVIOUS
      <3> QED
        BY <3>1, <2>2, <1>9
    <2>4. u.tail[a + n + 1] = v
      <3> DEFINE i == n + 1
      <3>1. i \in 0 .. n + 1 /\ a + i = a + n + 1 /\ old + i = old + n + 1
        BY <1>1
      <3> HIDE DEF i
      <3> QED
        BY <3>1, <2>2, <1>9
    <2> QED
      BY <2>1, <2>3, <2>4 DEF Spelled
  <1>12. KeyAt(u, X2, k, v, d, a)
    <2>1. \A i \in Extent(k, d, a) : X2[i] = <<k, 0>>
      <3>1. \A i \in Extent(k, d, a) : i \in a .. a + n + 1
        BY DEF Extent
      <3> QED
        BY <3>1, <1>5 DEF Tagged, X2
    <2>2. a + (Len(k) - d) + 1 < u.length
      BY <1>1, <1>2
    <2>3. d \in 1 .. Len(k) + 1
      BY <1>10
    <2> QED
      BY <2>1, <2>2, <2>3, <1>1, <1>11 DEF KeyAt
  <1> QED
    BY <1>1, <1>2, <1>6, <1>7, <1>8, <1>12 DEF HasPasted, X2

\* A node without a suffix is passed.
LEMMA CopyNone ==
    ASSUME NEW R, NEW t, NEW C, NEW V, NEW P, NEW L, NEW O, TrieAs(R, t, C, V, P, L, O),
           NEW m, NEW D, NEW A, NEW W, StoredAs(C, t, m, D, A, W), NEW e \in Nat, ~ HasSuffix(t, e),
           NEW u, Copying(t, u, m, V, P, D, A, e - 1)
    PROVE  Copying(t, u, m, V, P, D, A, e)
  <1>1. PICK F, X : CopiedTo(t, u, m, V, P, D, A, F, X, e - 1)
    BY DEF Copying
  <1>2. ASSUME NEW k, NEW x, Hung(m, V, P, D, k, x) PROVE x # e /\ x \in Nat
    <2>1. HungOn(t, L, D, A, k, x)
      BY <1>2, HungFacts
    <2> QED
      BY <2>1, SlotFacts DEF HungOn
  <1>3. SuffixCells(m, V, P, D, A, e) = SuffixCells(m, V, P, D, A, e - 1)
    BY <1>2, SuffixMore
  <1>4. /\ DOMAIN u = DOMAIN t
        /\ \A f \in DOMAIN t \ {"array", "tail", "length", "tail0"} : u[f] = t[f]
        /\ u.array \in [Slots -> [base : Int, check : Int]]
        /\ F \in [DOMAIN m -> Int] /\ TailTyped(u) /\ u.tail0 = <<>>
        /\ u.length = HeaderCells + Cardinality(SuffixCells(m, V, P, D, A, e))
    BY <1>1, <1>3 DEF CopiedTo
  <1>5. ASSUME NEW x \in Slots
        PROVE  /\ u.array[x].check = t.array[x].check
               /\ (\A k : ~ Hung(m, V, P, D, k, x)) \/ x > e => u.array[x] = t.array[x]
    <2>1. x > e => x > e - 1
      BY SlotFacts
    <2> QED
      BY <2>1, <1>1 DEF CopiedTo
  <1>6. ASSUME NEW k, NEW x, Hung(m, V, P, D, k, x), x <= e
        PROVE  u.array[x].base = - F[k] /\ KeyAt(u, X, k, m[k], D[k], F[k])
    <2>1. x <= e - 1
      BY <1>2, <1>6
    <2> QED
      BY <2>1, <1>1, <1>6 DEF CopiedTo
  <1>7. CopiedTo(t, u, m, V, P, D, A, F, X, e)
    BY <1>4, <1>5, <1>6 DEF CopiedTo
  <1> QED
    BY <1>7 DEF Copying

\* A suffix is copied.
LEMMA CopyOne ==
    ASSUME NEW R, NEW t, NEW C, NEW V, NEW P, NEW L, NEW O, TrieAs(R, t, C, V, P, L, O),
           NEW m, NEW D, NEW A, NEW W, StoredAs(C, t, m, D, A, W), NEW e \in Nat, HasSuffix(t, e),
           NEW k, Hung(m, V, P, D, k, e),
           NEW c, Copying(t, c, m, V, P, D, A, e - 1), NEW u, u = CopyRound(t, c, e)
    PROVE  Copying(t, u, m, V, P, D, A, e)
  <1>1. PICK F, X : CopiedTo(t, c, m, V, P, D, A, F, X, e - 1)
    BY DEF Copying
  <1> DEFINE a == c.length
             d == D[k]
             n == Len(k) - d
             old == A[k]
             F2 == [F EXCEPT ![k] = a]
             X2 == Tagged(X, k, a, n)
             T == SuffixCells(m, V, P, D, A, e)
             U == SuffixCells(m, V, P, D, A, e - 1)
  <1>2. /\ DOMAIN c = DOMAIN t
        /\ \A f \in DOMAIN t \ {"array", "tail", "length", "tail0"} : c[f] = t[f]
        /\ c.array \in [Slots -> [base : Int, check : Int]]
        /\ \A x \in Slots : /\ c.array[x].check = t.array[x].check
                            /\ (\A l : ~ Hung(m, V, P, D, l, x)) \/ x > e - 1 => c.array[x] = t.array[x]
        /\ F \in [DOMAIN m -> Int]
        /\ \A l, x : Hung(m, V, P, D, l, x) /\ x <= e - 1 =>
              c.array[x].base = - F[l] /\ KeyAt(c, X, l, m[l], D[l], F[l])
        /\ TailTyped(c) /\ c.tail0 = <<>> /\ a = HeaderCells + Cardinality(U)
    BY <1>1 DEF CopiedTo
  <1>3. HungOn(t, L, D, A, k, e) /\ k \in DOMAIN m
    BY HungFacts DEF Hung
  <1>4. /\ e \in Slots /\ t.array[e].base = - old /\ old \in Nat /\ d \in 1 .. Len(k) /\ Len(k) \in Nat
        /\ IsKey(k) /\ n \in Nat
    BY <1>3 DEF HungOn
  <1>5. TailTyped(t) /\ KeyAt(t, W, k, m[k], d, old)
    BY <1>3 DEF StoredAs, TailHolds
  <1>6. n = SuffixLen(t, old)
    <2> HIDE DEF d, old, n
    <2>1. SuffixLen(t, old) = Len(k) - d
      BY <1>4, <1>5, SuffixLenIs
    <2> QED
      BY <2>1 DEF n
  <1>7. {"array", "tail", "length"} \subseteq DOMAIN c
    BY <1>2 DEF TailTyped, TrieAs, IsTree, TrieTyped
  <1>8. a \in Nat
    BY <1>2, TailAssumption DEF TailTyped, HeaderCells
  <1>9. PastedAs(t, c, u, e, a, n, old)
    <2> HIDE DEF a, n, old
    <2>1. a = c.length
      BY DEF a
    <2> QED
      BY <2>1, <1>2, <1>4, <1>6, <1>7, <1>8, PasteForm
  <1>10. Cardinality(T) = Cardinality(U) + n + 2
    <2> HIDE DEF n, d, T, U
    <2>1. Cardinality(T) = Cardinality(U) + (Len(k) - D[k]) + 2
      BY SuffixMore DEF T, U
    <2> QED
      BY <2>1 DEF n, d
  <1>11. a + n + 2 = HeaderCells + Cardinality(T) /\ a + n + 2 <= MaxTail
    <2>1. Cardinality(U) \in Nat
      <3> DEFINE f == e - 1
      <3>1. U = SuffixCells(m, V, P, D, A, f)
        OBVIOUS
      <3> HIDE DEF f, U
      <3> QED
        BY <3>1, SuffixRoom
    <2>2. /\ Cardinality(T) \in Nat /\ Len(t.tail0) \in Nat
          /\ HeaderCells + Cardinality(T) + 2 * Len(t.tail0) <= t.length
          /\ t.length \in HeaderCells .. MaxTail
      <3> HIDE DEF T
      <3>1. T = SuffixCells(m, V, P, D, A, e)
        BY DEF T
      <3> QED
        BY <3>1, SuffixRoom
    <2> DEFINE x == Cardinality(U)
               y == Cardinality(T)
               z == Len(t.tail0)
    <2>3. x \in Nat /\ y \in Nat /\ z \in Nat /\ y = x + n + 2 /\ a = 2 + x /\ n \in Nat /\ MaxTail \in Nat
          /\ 2 + y + 2 * z <= t.length /\ t.length <= MaxTail /\ t.length \in Nat
      <3>1. x \in Nat /\ y \in Nat /\ z \in Nat /\ MaxTail \in Nat
        BY <2>1, <2>2, TailAssumption
      <3>2. y = x + n + 2 /\ n \in Nat
        BY <1>4, <1>10
      <3>3. a = 2 + x
        BY <1>2 DEF HeaderCells
      <3> HIDE DEF x, n, z, a
      <3>4. 2 + y + 2 * z <= t.length
        BY <2>2 DEF HeaderCells, z
      <3>5. t.length <= MaxTail /\ t.length \in Nat
        BY <2>2, <3>1 DEF HeaderCells
      <3> QED
        BY <3>1, <3>2, <3>3, <3>4, <3>5
    <2> HIDE DEF x, y, z, a, n
    <2>4. a + n + 2 = 2 + y /\ a + n + 2 <= MaxTail
      BY <2>3
    <2> QED
      BY <2>4 DEF y, HeaderCells
  <1>12. /\ TailTyped(u) /\ KeyAt(u, X2, k, m[k], d, a) /\ u.tail0 = c.tail0 /\ u.length \in Nat
         /\ \A i \in Cells : i < a => u.tail[i] = c.tail[i] /\ X2[i] = X[i]
    <2> DEFINE v == m[k]
    <2>1. a = c.length /\ n = Len(k) - d
      OBVIOUS
    <2>2. X2 = Tagged(X, k, a, n)
      OBVIOUS
    <2> HIDE DEF a, n, d, old, X2, v
    <2>3. KeyAt(t, W, k, v, d, old)
      BY <1>5 DEF v
    <2>4. /\ TailTyped(u) /\ KeyAt(u, X2, k, v, d, a) /\ u.tail0 = c.tail0 /\ u.length \in Nat
          /\ \A i \in Cells : i < a => u.tail[i] = c.tail[i] /\ X2[i] = X[i]
      <3>1. TailTyped(c) /\ TailTyped(t) /\ n \in Nat /\ old \in Nat /\ IsKey(k) /\ d \in 1 .. Len(k)
        BY <1>2, <1>4, <1>5
      <3>2. a + n + 2 <= MaxTail
        BY <1>11
      <3> QED
        <4>1. CanPaste(t, c, u, e, k, v, d, n, a, old, W)
          BY <3>1, <3>2, <2>1, <2>3, <1>9 DEF CanPaste
        <4>2. HasPasted(c, u, X, X2, k, v, d, a)
          BY ONLY <4>1, <2>2, Pasted
        <4> QED
          BY <4>2 DEF HasPasted
    <2> QED
      BY <2>4 DEF v
  <1>13. /\ DOMAIN u = DOMAIN c /\ \A f \in DOMAIN c \ {"array", "tail", "length"} : u[f] = c[f]
         /\ u.array = [c.array EXCEPT ![e] = Node(- a, c.array[e].check)] /\ u.length = a + n + 2
    BY <1>9 DEF PastedAs
  <1>14. /\ \A x \in Slots : x # e => u.array[x] = c.array[x]
         /\ u.array[e].base = - a /\ u.array[e].check = c.array[e].check
         /\ u.array \in [Slots -> [base : Int, check : Int]]
    <2>1. Node(- a, c.array[e].check) \in [base : Int, check : Int]
      BY <1>2, <1>4, <1>8 DEF Node
    <2> HIDE DEF a
    <2> QED
      BY <2>1, <1>2, <1>4, <1>13 DEF Node
  <1>15. F2 \in [DOMAIN m -> Int] /\ F2[k] = a /\ \A l \in DOMAIN m : l # k => F2[l] = F[l]
    BY <1>2, <1>3, <1>8
  <1> HIDE DEF F2, X2
  <1>16. ASSUME NEW x \in Slots
         PROVE  /\ u.array[x].check = t.array[x].check
                /\ (\A l : ~ Hung(m, V, P, D, l, x)) \/ x > e => u.array[x] = t.array[x]
    <2>1. CASE x = e
      <3>1. ~ x > e
        BY <2>1
      <3> QED
        BY <3>1, <2>1, <1>2, <1>14
    <2>2. CASE x # e
      <3>1. x > e => x > e - 1
        BY SlotFacts
      <3> QED
        BY <3>1, <2>2, <1>2, <1>14
    <2> QED
      BY <2>1, <2>2
  <1>17. ASSUME NEW l, NEW x, Hung(m, V, P, D, l, x), x <= e
         PROVE  u.array[x].base = - F2[l] /\ KeyAt(u, X2, l, m[l], D[l], F2[l])
    <2>1. CASE x = e
      <3>1. l = k
        BY <2>1, <1>17, HungApart
      <3> QED
        BY <3>1, <2>1, <1>12, <1>14, <1>15
    <2>2. CASE x # e
      <3>1. l # k
        BY <2>2, <1>17, HungApart
      <3>2. HungOn(t, L, D, A, l, x) /\ l \in DOMAIN m
        BY <1>17, HungFacts DEF Hung
      <3>3. x \in Slots /\ D[l] \in 1 .. Len(l) /\ Len(l) \in Nat
        BY <3>2 DEF HungOn
      <3>4. x <= e - 1
        BY <3>3, <2>2, <1>17, SlotFacts
      <3>5. c.array[x].base = - F[l] /\ KeyAt(c, X, l, m[l], D[l], F[l])
        BY <3>4, <1>2, <1>17
      <3>6. F2[l] = F[l]
        BY <3>1, <3>2, <1>15
      <3> DEFINE g == F[l]
                 h == D[l]
      <3>7. h <= Len(l) => \A i \in Extent(l, h, g) : u.tail[i] = c.tail[i] /\ X2[i] = X[i]
        <4>1. ASSUME h <= Len(l), NEW i \in Extent(l, h, g)
              PROVE  u.tail[i] = c.tail[i] /\ X2[i] = X[i]
          <5>1. g \in Nat /\ g >= HeaderCells /\ g + (Len(l) - h) + 1 < a
            BY <4>1, <3>5 DEF KeyAt
          <5>2. a <= MaxTail /\ MaxTail \in Nat
            BY <1>2, TailAssumption DEF TailTyped
          <5>3. i \in Cells /\ i < a
            BY <5>1, <5>2, <3>3, <1>8 DEF Extent, Cells, HeaderCells
          <5> QED
            BY <5>3, <1>12
        <4> QED
          BY <4>1
      <3>8. a <= u.length /\ u.length \in Nat
        BY <1>4, <1>8, <1>12, <1>13
      <3> DEFINE v == m[l]
      <3>9. KeyAt(c, X, l, v, h, g)
        BY <3>5
      <3>10. a = c.length
        OBVIOUS
      <3> HIDE DEF g, h, v, a
      <3>11. KeyAt(u, X2, l, v, h, g)
        BY <3>3, <3>7, <3>8, <3>9, <3>10, <1>8, KeptKey
      <3> QED
        BY <3>3, <3>5, <3>6, <3>11, <2>2, <1>14 DEF g, h, v
    <2> QED
      BY <2>1, <2>2
  <1>18. \A f \in DOMAIN t \ {"array", "tail", "length", "tail0"} : u[f] = t[f]
    BY <1>2, <1>13
  <1>19. u.length = HeaderCells + Cardinality(T)
    BY <1>11, <1>13
  <1> HIDE DEF T, U, a, n, d, old
  <1>20. CopiedTo(t, u, m, V, P, D, A, F2, X2, e)
    BY <1>2, <1>12, <1>13, <1>14, <1>15, <1>16, <1>17, <1>18, <1>19 DEF CopiedTo, T
  <1> QED
    BY <1>20 DEF Copying

\* A round of shrink_tail.
LEMMA CopyStep ==
    ASSUME NEW R, NEW t, NEW C, NEW V, NEW P, NEW L, NEW O, TrieAs(R, t, C, V, P, L, O),
           NEW m, NEW D, NEW A, NEW W, StoredAs(C, t, m, D, A, W), NEW e \in 0 .. t.nblk * B - 1,
           NEW c, Copying(t, c, m, V, P, D, A, e - 1), NEW u, u = CopyRound(t, c, e)
    PROVE  Copying(t, u, m, V, P, D, A, e)
  <1>1. e \in Nat
    OBVIOUS
  <1>2. CASE HasSuffix(t, e)
    <2>1. PICK k : Hung(m, V, P, D, k, e)
      BY <1>2, HangsThere
    <2> QED
      BY <2>1, <1>1, <1>2, CopyOne
  <1>3. CASE ~ HasSuffix(t, e)
    <2>1. u = c
      BY <1>3 DEF CopyRound
    <2> QED
      BY <2>1, <1>1, <1>3, CopyNone
  <1> QED
    BY <1>2, <1>3

\* Loops that start at -1.
LEMMA UpFrom ==
    ASSUME NEW N \in Nat, NEW S, -1 \in S, \A i \in 0 .. N - 1 : i - 1 \in S => i \in S
    PROVE  N - 1 \in S
  <1> DEFINE T == {i \in 0 .. N : i - 1 \in S}
  <1>1. 0 \in T
    OBVIOUS
  <1>2. ASSUME NEW i \in 1 .. N, i - 1 \in T PROVE i \in T
    <2>1. i - 1 \in 0 .. N - 1 /\ (i - 1) - 1 \in S
      BY <1>2
    <2> QED
      BY <2>1
  <1> HIDE DEF T
  <1>3. N \in T
    <2>1. \A i \in 0 .. N : i \in T
      BY <1>1, <1>2, UpTo
    <2> QED
      BY <2>1
  <1> QED
    BY <1>3 DEF T

\* shrink_tail, with all nodes behind.
LEMMA CopiesAll ==
    ASSUME NEW R, NEW t, NEW C, NEW V, NEW P, NEW L, NEW O, TrieAs(R, t, C, V, P, L, O),
           NEW m, NEW D, NEW A, NEW W, StoredAs(C, t, m, D, A, W)
    PROVE  t.nblk * B \in Nat /\ Copying(t, Compact(t), m, V, P, D, A, t.nblk * B - 1)
  <1> DEFINE N == t.nblk * B
  <1>1. N \in Nat
    <2>1. t.nblk \in Nat
      BY BlockAssumption DEF TrieAs, IsTree, TrieTyped
    <2> QED
      BY <2>1, BlockAssumption
  <1>2. PICK g : /\ g[-1] = Emptied(t)
                 /\ \A e \in 0 .. N - 1 : g[e] = CopyRound(t, g[e - 1], e)
                 /\ Compact(t) = g[N - 1]
    BY <1>1, CopyLoop
  <1> DEFINE S == {e \in Int : Copying(t, g[e], m, V, P, D, A, e)}
  <1>3. -1 \in S
    <2> DEFINE u == g[-1]
    <2>1. u = Emptied(t)
      BY <1>2
    <2> HIDE DEF u
    <2>2. Copying(t, u, m, V, P, D, A, -1)
      BY <2>1, CopyStarts
    <2> QED
      BY <2>2 DEF u
  <1>4. ASSUME NEW e \in 0 .. N - 1, e - 1 \in S PROVE e \in S
    <2> DEFINE c == g[e - 1]
               u == g[e]
    <2>1. u = CopyRound(t, c, e) /\ Copying(t, c, m, V, P, D, A, e - 1)
      BY <1>2, <1>4
    <2> HIDE DEF c, u
    <2>2. Copying(t, u, m, V, P, D, A, e)
      BY <2>1, CopyStep
    <2> QED
      BY <2>2 DEF u
  <1> HIDE DEF S
  <1>5. N - 1 \in S
    BY <1>1, <1>3, <1>4, UpFrom
  <1> QED
    BY <1>1, <1>2, <1>5 DEF S

\* A node without children is the end of a key: its terminal, or the node its
\* suffix hangs on.
EndAt(t, m, V, P, L, D, A, k, x) ==
    /\ k \in DOMAIN m /\ Holding(t, P, L, x) = EndOf(k, m[k], D[k], A[k])
    /\ \/ L[x] = 0 /\ D[k] = Len(k) + 1 /\ \A l : ~ Hung(m, V, P, D, l, x)
       \/ L[x] # 0 /\ D[k] <= Len(k) /\ Hung(m, V, P, D, k, x)

\* Either of these.
LEMMA EndKind ==
    ASSUME NEW R, NEW t, NEW C, NEW V, NEW P, NEW L, NEW O, TrieAs(R, t, C, V, P, L, O),
           NEW m, NEW D, NEW A, NEW W, StoredAs(C, t, m, D, A, W), NEW x \in V,
           NEW k \in DOMAIN m, Holding(t, P, L, x) = EndOf(k, m[k], D[k], A[k])
    PROVE  EndAt(t, m, V, P, L, D, A, k, x) /\ ~ InnerNode(t, L, x)
  <1> DEFINE y == EndOf(k, m[k], D[k], A[k])
  <1>1. KeyEnd(C, m, D, A, k, y)
    BY EndFacts
  <1>2. /\ IsKey(k) /\ Len(k) \in Nat /\ D[k] \in 1 .. Len(k) + 1 /\ y[1] = Cut(Ended(k), D[k]) /\ y[2] = FALSE
        /\ Len(Ended(k)) = Len(k) + 1 /\ Ended(k) \in Seq(Labels)
    BY <1>1 DEF KeyEnd
  <1>3. P[x] = Cut(Ended(k), D[k])
    <2>1. Holding(t, P, L, x)[1] = P[x]
      BY NodesOf DEF TrieAs
    <2> QED
      BY <2>1, <1>2
  <1>4. ~ InnerNode(t, L, x)
    <2>1. InnerNode(t, L, x) => Holding(t, P, L, x)[2] = TRUE
      BY DEF Holding, InnerOf
    <2>2. Holding(t, P, L, x)[2] = FALSE
      BY <1>2
    <2> QED
      BY <2>1, <2>2
  <1>5. CASE D[k] = Len(k) + 1
    <2>1. P[x] = Ended(k)
      BY <1>2, <1>3, <1>5, CutFacts
    <2>2. L[x] = 0
      <3>1. TerminalAt(t, C, L, k, x)
        BY <1>2, <2>1, TerminalNode
      <3> QED
        BY <3>1 DEF TerminalAt
    <2>3. ASSUME NEW l, Hung(m, V, P, D, l, x) PROVE FALSE
      BY <2>2, <2>3, HungFacts DEF HungOn
    <2> QED
      BY <1>4, <1>5, <2>2, <2>3 DEF EndAt
  <1>6. CASE D[k] <= Len(k)
    <2>1. Hung(m, V, P, D, k, x)
      BY <1>3, <1>6 DEF Hung
    <2>2. L[x] # 0
      BY <2>1, HungFacts DEF HungOn
    <2> QED
      BY <1>4, <1>6, <2>1, <2>2 DEF EndAt
  <1> QED
    BY <1>2, <1>5, <1>6

\* What is left of the trie once shrink_tail is done.
LEMMA CopyEnds ==
    ASSUME NEW R, NEW t, NEW C, NEW V, NEW P, NEW L, NEW O, TrieAs(R, t, C, V, P, L, O),
           NEW m, NEW D, NEW A, NEW W, StoredAs(C, t, m, D, A, W),
           NEW u, NEW F, NEW X, CopiedTo(t, u, m, V, P, D, A, F, X, t.nblk * B - 1)
    PROVE  Holds(R, u, m)
  <1> DEFINE E == Content(u, V, P, L)
             f(x) == Holding(t, P, L, x)
             g(x) == Holding(u, P, L, x)
             last == t.nblk * B - 1
  <1>1. /\ Sound(R, t) /\ V = Taken(t) /\ IsTree(t, V, P, L, O, {}, {}) /\ C = Content(t, V, P, L)
        /\ V \in SUBSET (Slots \ {0}) /\ TrieTyped(t) /\ PoolFields \subseteq DOMAIN t
        /\ IsMap(m) /\ Ends(C, m, D, A) /\ NoBare(C) /\ TailHolds(t, m, D, A, W)
    BY SoundFacts DEF TrieAs, IsTree, GhostTyped, StoredAs
  <1>2. /\ DOMAIN u = DOMAIN t
        /\ \A h \in DOMAIN t \ {"array", "tail", "length", "tail0"} : u[h] = t[h]
        /\ u.array \in [Slots -> [base : Int, check : Int]]
        /\ \A x \in Slots : /\ u.array[x].check = t.array[x].check
                            /\ (\A k : ~ Hung(m, V, P, D, k, x)) => u.array[x] = t.array[x]
        /\ F \in [DOMAIN m -> Int] /\ TailTyped(u) /\ u.tail0 = <<>>
    BY DEF CopiedTo
  <1>3. ASSUME NEW k, NEW x, Hung(m, V, P, D, k, x)
        PROVE  /\ HungOn(t, L, D, A, k, x) /\ k \in DOMAIN m /\ x \in V /\ F[k] \in Nat /\ F[k] >= 2
               /\ u.array[x].base = - F[k] /\ KeyAt(u, X, k, m[k], D[k], F[k])
    <2>1. HungOn(t, L, D, A, k, x) /\ k \in DOMAIN m /\ x \in V /\ D[k] <= Len(k)
      BY <1>3, HungFacts DEF Hung
    <2>2. x <= last
      <3>1. x \in Nat /\ Block(x) < t.nblk /\ t.nblk \in Nat
        BY <2>1, <1>1, SlotFacts, BlockAssumption DEF Taken, TrieTyped
      <3>2. x \in 0 .. t.nblk * B - 1
        BY <3>1, Below
      <3> QED
        BY <3>2
    <2>3. u.array[x].base = - F[k] /\ KeyAt(u, X, k, m[k], D[k], F[k])
      BY <1>3, <2>2 DEF CopiedTo
    <2>4. F[k] \in Nat /\ F[k] >= 2
      BY <2>1, <2>3 DEF KeyAt, HeaderCells
    <2> QED
      BY <2>1, <2>3, <2>4
  <1>4. /\ \A x \in V : f(x) \in C /\ f(x)[1] = P[x]
        /\ \A y \in C : \E x \in V : y = f(x)
        /\ \A p : Has(C, p) <=> \E x \in V : P[x] = p
    BY <1>1, NodesOf
  <1>5. /\ \A x \in V : g(x) \in E /\ g(x)[1] = P[x]
        /\ \A y \in E : \E x \in V : y = g(x)
        /\ \A p : Has(E, p) <=> \E x \in V : P[x] = p
    BY NodesOf
  <1>6. ASSUME NEW x \in V, ~ InnerNode(t, L, x)
        PROVE  \E k : EndAt(t, m, V, P, L, D, A, k, x)
    <2>1. f(x) \in C /\ f(x)[2] = FALSE
      BY <1>4, <1>6 DEF Holding
    <2>2. PICK k \in DOMAIN m : f(x) = EndOf(k, m[k], D[k], A[k])
      BY <2>1, <1>1 DEF Ends
    <2> QED
      BY <2>2, EndKind
  <1>7. RefilledAs(t, u, V, L)
    <2>1. /\ u.sibling = t.sibling /\ u.child = t.child /\ u.nblk = t.nblk /\ u.num = t.num
          /\ u.ehead = t.ehead /\ u.lists = t.lists /\ u.trial = t.trial /\ u.reject = t.reject
          /\ u.limit = t.limit
      BY <1>1, <1>2 DEF PoolFields, TrieTyped, IsNinfo
    <2>2. TrieTyped(u) /\ PoolFields \subseteq DOMAIN u
      BY <1>1, <1>2, <2>1 DEF TrieTyped, IsNinfo
    <2>3. ASSUME NEW x \in Slots, x \notin V \/ InnerNode(t, L, x) PROVE u.array[x] = t.array[x]
      <3>1. ASSUME NEW k PROVE ~ Hung(m, V, P, D, k, x)
        BY <1>3, <2>3 DEF HungOn
      <3> QED
        BY <3>1, <1>2
    <2>4. ASSUME NEW x \in V, ~ InnerNode(t, L, x), L[x] # 0 PROVE u.array[x].base < 0
      <3>1. PICK k : EndAt(t, m, V, P, L, D, A, k, x)
        BY <2>4, <1>6
      <3>2. Hung(m, V, P, D, k, x)
        BY <3>1, <2>4 DEF EndAt
      <3>3. F[k] \in Nat /\ F[k] >= 2 /\ u.array[x].base = - F[k]
        BY <3>2, <1>3
      <3> QED
        BY <3>3
    <2> QED
      BY <2>1, <2>2, <2>3, <2>4, <1>2 DEF RefilledAs
  <1>8. /\ Sound(R, u) /\ V = Taken(u) /\ IsTree(u, V, P, L, O, {}, {})
        /\ \A x \in V \cup {0} : InnerNode(u, L, x) <=> InnerNode(t, L, x)
    BY <1>1, <1>7, RefilledTree
  <1>9. TrieAs(R, u, E, V, P, L, O)
    BY <1>8 DEF TrieAs
  <1>10. ASSUME NEW x \in V, InnerNode(t, L, x) PROVE g(x) = f(x) /\ InnerNode(u, L, x)
    BY <1>8, <1>10 DEF Holding
  <1>11. ASSUME NEW x \in V, NEW k, EndAt(t, m, V, P, L, D, A, k, x)
         PROVE  g(x) = EndOf(k, m[k], D[k], F[k])
    <2>1. k \in DOMAIN m /\ f(x) = EndOf(k, m[k], D[k], A[k])
      BY <1>11 DEF EndAt
    <2>2. ~ InnerNode(t, L, x) /\ ~ InnerNode(u, L, x)
      BY <2>1, <1>8, EndKind
    <2>3. g(x) = <<P[x], FALSE, u.array[x].base>> /\ f(x) = <<P[x], FALSE, t.array[x].base>>
      BY <2>2 DEF Holding
    <2>4. P[x] = Cut(Ended(k), D[k]) /\ t.array[x].base = IF D[k] = Len(k) + 1 THEN m[k] ELSE - A[k]
      BY <2>1, <2>3 DEF EndOf
    <2>5. CASE L[x] = 0 /\ D[k] = Len(k) + 1 /\ \A l : ~ Hung(m, V, P, D, l, x)
      <3>1. u.array[x] = t.array[x]
        BY <2>5, <1>1, <1>2
      <3> QED
        BY <3>1, <2>3, <2>4, <2>5 DEF EndOf
    <2>6. CASE L[x] # 0 /\ D[k] <= Len(k) /\ Hung(m, V, P, D, k, x)
      <3>1. u.array[x].base = - F[k] /\ HungOn(t, L, D, A, k, x)
        BY <2>6, <1>3
      <3>2. D[k] # Len(k) + 1
        <4>1. D[k] \in 1 .. Len(k) /\ Len(k) \in Nat
          BY <3>1 DEF HungOn
        <4> DEFINE d == D[k]
                   n == Len(k)
        <4>2. d \in 1 .. n /\ n \in Nat
          BY <4>1
        <4> HIDE DEF d, n
        <4>3. d # n + 1
          BY <4>2
        <4> QED
          BY <4>3 DEF d, n
      <3> QED
        BY <3>1, <3>2, <2>3, <2>4 DEF EndOf
    <2> QED
      BY <2>5, <2>6, <1>11 DEF EndAt
  <1>12. Ends(E, m, D, F)
    <2>1. ASSUME NEW y \in E, ~ y[2] PROVE \E k \in DOMAIN m : y = EndOf(k, m[k], D[k], F[k])
      <3>1. PICK x \in V : y = g(x)
        BY <1>5
      <3>2. ~ InnerNode(t, L, x)
        <4>1. ASSUME InnerNode(t, L, x) PROVE FALSE
          <5>1. InnerNode(u, L, x)
            BY <4>1, <1>8
          <5> QED
            BY <5>1, <3>1, <2>1 DEF Holding, InnerOf
        <4> QED
          BY <4>1
      <3>3. PICK k : EndAt(t, m, V, P, L, D, A, k, x)
        BY <3>2, <1>6
      <3>4. k \in DOMAIN m
        BY <3>3 DEF EndAt
      <3> QED
        BY <3>1, <3>3, <3>4, <1>11
    <2>2. ASSUME NEW k \in DOMAIN m PROVE EndOf(k, m[k], D[k], F[k]) \in E
      <3>1. EndOf(k, m[k], D[k], A[k]) \in C
        BY <1>1 DEF Ends
      <3>2. PICK x \in V : f(x) = EndOf(k, m[k], D[k], A[k])
        BY <3>1, <1>4
      <3>3. EndAt(t, m, V, P, L, D, A, k, x)
        BY <3>2, EndKind
      <3> QED
        BY <3>3, <1>5, <1>11
    <2> QED
      BY <2>1, <2>2 DEF Ends
  <1>13. NoBare(E)
    <2>1. ASSUME NEW y \in E, y[2] PROVE \E c \in Labels : Has(E, Named(y[1], c))
      <3>1. PICK x \in V : y = g(x)
        BY <1>5
      <3>2. InnerNode(t, L, x)
        <4>1. ASSUME ~ InnerNode(t, L, x) PROVE FALSE
          <5>1. ~ InnerNode(u, L, x)
            BY <4>1, <1>8
          <5> QED
            BY <5>1, <3>1, <2>1 DEF Holding
        <4> QED
          BY <4>1
      <3>3. y \in C
        BY <3>1, <3>2, <1>4, <1>10
      <3>4. PICK c \in Labels : Has(C, Named(y[1], c))
        BY <3>3, <2>1, <1>1 DEF NoBare
      <3>5. Has(E, Named(y[1], c))
        BY <3>4, <1>4, <1>5
      <3> QED
        BY <3>5
    <2> QED
      BY <2>1 DEF NoBare
  <1>14. TailHolds(u, m, D, F, X)
    <2>1. ASSUME NEW k \in DOMAIN m PROVE KeyAt(u, X, k, m[k], D[k], F[k])
      <3>1. D[k] \in 1 .. Len(k) + 1
        BY <1>1 DEF TailHolds, KeyAt
      <3>2. CASE D[k] <= Len(k)
        <4>1. PICK x : Hung(m, V, P, D, k, x)
          BY <3>2, EachHangs
        <4> QED
          BY <4>1, <1>3
      <3>3. CASE ~ D[k] <= Len(k)
        BY <3>1, <3>3 DEF KeyAt
      <3> QED
        BY <3>2, <3>3
    <2>2. \A i \in DOMAIN u.tail0 : PlaceAt(u, X, i)
      BY <1>2
    <2> QED
      BY <2>1, <2>2, <1>2 DEF TailHolds
  <1>15. StoredAs(E, u, m, D, F, X)
    BY <1>1, <1>12, <1>13, <1>14 DEF StoredAs
  <1>16. TrieOf(R, u, E)
    BY <1>9 DEF TrieOf
  <1> QED
    BY <1>15, <1>16 DEF Holds, HoldsAs

\* shrink_tail keeps the map.
THEOREM CompactHolds ==
    ASSUME NEW R, NEW t, NEW m, Holds(R, t, m)
    PROVE  Holds(R, Compact(t), m)
  <1>1. PICK C, D, A, W : HoldsAs(R, t, m, C, D, A, W)
    BY DEF Holds
  <1>2. PICK V, P, L, O : TrieAs(R, t, C, V, P, L, O)
    BY <1>1 DEF HoldsAs, TrieOf
  <1>3. StoredAs(C, t, m, D, A, W)
    BY <1>1 DEF HoldsAs
  <1> DEFINE u == Compact(t)
  <1>4. Copying(t, u, m, V, P, D, A, t.nblk * B - 1)
    BY <1>2, <1>3, CopiesAll
  <1> HIDE DEF u
  <1>5. PICK F, X : CopiedTo(t, u, m, V, P, D, A, F, X, t.nblk * B - 1)
    BY <1>4 DEF Copying
  <1>6. Holds(R, u, m)
    BY <1>2, <1>3, <1>5, CopyEnds
  <1> QED
    BY <1>6 DEF u

\* The new tail fits the memory shrink_tail asks for.
THEOREM CompactFits ==
    ASSUME NEW R, NEW t, NEW m, Holds(R, t, m)
    PROVE  Compact(t).length <= Asked(t)
  <1>1. PICK C, D, A, W : HoldsAs(R, t, m, C, D, A, W)
    BY DEF Holds
  <1>2. PICK V, P, L, O : TrieAs(R, t, C, V, P, L, O)
    BY <1>1 DEF HoldsAs, TrieOf
  <1>3. StoredAs(C, t, m, D, A, W)
    BY <1>1 DEF HoldsAs
  <1> DEFINE u == Compact(t)
             e == t.nblk * B - 1
             U == SuffixCells(m, V, P, D, A, e)
             x == Cardinality(U)
             z == Len(t.tail0)
  <1>4. Copying(t, u, m, V, P, D, A, e)
    BY <1>2, <1>3, CopiesAll
  <1>5. u.length = HeaderCells + x
    BY <1>4 DEF Copying, CopiedTo
  <1>6. /\ x \in Nat /\ z \in Nat /\ HeaderCells + x + 2 * z <= t.length /\ t.length \in HeaderCells .. MaxTail
    <2>1. U = SuffixCells(m, V, P, D, A, e)
      OBVIOUS
    <2> HIDE DEF U, e
    <2> QED
      BY <2>1, <1>3, SuffixRoom
  <1>7. Asked(t) = t.length - z * (1 + ValueCells)
    BY DEF Asked
  <1> HIDE DEF u, x, z
  <1>8. t.length \in Nat
    BY <1>6, TailAssumption DEF HeaderCells
  <1>9. u.length <= Asked(t)
    BY <1>5, <1>6, <1>7, <1>8 DEF HeaderCells, ValueCells
  <1> QED
    BY <1>9 DEF u

-----------------------------------------------------------------------------
(* Restoration.                                                            *)

\* _restore_block leaves the tail alone.
LEMMA RestoreBlockSameTail ==
    ASSUME NEW t, t.nblk \in Nat
    PROVE  SameTail(t, _restore_block(t))
  <1> DEFINE N == t.nblk
             n(b) == Cardinality({e \in SlotsOf(b) : t.array[e].check < 0})
  <1>1. PICK g : /\ g[-1] = ForgetBlocks(t)
                 /\ \A b \in 0 .. N - 1 : g[b] = RegisterBlockOf(g[b - 1], b, n(b))
                 /\ _restore_block(t) = g[N - 1]
    BY RestoreBlockLoop
  <1> HIDE DEF n
  <1> DEFINE S == {i \in -1 .. N - 1 : SameTail(t, g[i])}
  <1>2. -1 \in S
    <2>1. SameTail(t, ForgetBlocks(t))
      BY DEF SameTail, ForgetBlocks
    <2>2. -1 \in -1 .. N - 1
      OBVIOUS
    <2> QED
      BY <2>1, <2>2, <1>1
  <1>3. ASSUME NEW i \in 0 .. N - 1, i - 1 \in S PROVE i \in S
    <2> DEFINE s == g[i - 1]
               k == n(i)
    <2>1. g[i] = RegisterBlockOf(s, i, k) /\ SameTail(t, s) /\ i \in -1 .. N - 1
      BY <1>1, <1>3
    <2> HIDE DEF s, k
    <2>2. SameTail(s, RegisterBlockOf(s, i, k))
      BY DEF SameTail, RegisterBlockOf
    <2>3. SameTail(t, g[i])
      BY <2>1, <2>2, SameTailOn
    <2> QED
      BY <2>1, <2>3
  <1> HIDE DEF S
  <1>4. N - 1 \in S
    BY <1>2, <1>3, UpFrom
  <1> QED
    BY <1>1, <1>4 DEF S

\* An inner node of a trie that holds a map has a child.
LEMMA InnerHasChild ==
    ASSUME NEW t, NEW V, NEW P, NEW L, NEW O, Shape(t, V, P, L, O), NEW C, C = Content(t, V, P, L),
           NoBare(C), NEW n \in V, InnerNode(t, L, n)
    PROVE  \E e \in V : t.array[e].check = n
  <1>1. Holding(t, P, L, n) \in C /\ Holding(t, P, L, n) = InnerOf(P[n])
    BY NodesOf DEF Holding
  <1>2. PICK c \in Labels : Has(C, Named(P[n], c))
    <2>1. InnerOf(P[n]) \in C /\ InnerOf(P[n])[1] = P[n] /\ InnerOf(P[n])[2]
      BY <1>1 DEF InnerOf
    <2> QED
      BY <2>1 DEF NoBare
  <1> DEFINE e == Xor(t.array[n].base, c)
             q == Named(P[n], c)
  <1>3. n \in V \cup {0} /\ n # 0
    BY DEF Shape, GhostTyped
  <1>4. ChildIn(t, V, P, L, n, c, e, q, C)
    BY <1>3, StepTo
  <1> QED
    BY <1>2, <1>4 DEF ChildIn

\* What open read: the cells in use, and no more.
Reread(t) == [t EXCEPT !.tail0 = <<>>, !.tail = [i \in Cells |-> IF i < t.length THEN @[i] ELSE 0]]

\* These are the cells there were, and no place is offered.
LEMMA RereadTail ==
    ASSUME NEW C, NEW t, NEW m, NEW D, NEW A, NEW W, StoredAs(C, t, m, D, A, W), NEW u, u = Reread(t)
    PROVE  TailOnly(t, u) /\ StoredAs(C, u, m, D, A, W)
  <1>1. /\ IsMap(m) /\ Ends(C, m, D, A) /\ NoBare(C) /\ TailTyped(t)
        /\ \A k \in DOMAIN m : KeyAt(t, W, k, m[k], D[k], A[k])
    BY DEF StoredAs, TailHolds
  <1>2. /\ {"tail", "length", "tail0"} \subseteq DOMAIN t
        /\ t.tail \in [Cells -> Int] /\ t.length \in HeaderCells .. MaxTail
        /\ \A c \in Cells : c >= t.length => t.tail[c] = 0
    BY <1>1 DEF TailTyped
  <1> DEFINE X == [i \in Cells |-> IF i < t.length THEN t.tail[i] ELSE 0]
  <1>3. X = t.tail
    <2>1. ASSUME NEW c \in Cells PROVE X[c] = t.tail[c]
      <3>1. c \in Int /\ t.length \in Int
        BY <1>2, TailAssumption DEF Cells, HeaderCells
      <3> QED
        BY <3>1, <1>2
    <2> QED
      BY <2>1, <1>2
  <1> HIDE DEF X
  <1>4. u = [t EXCEPT !.tail0 = <<>>, !.tail = X]
    BY DEF Reread, X
  <1>5. DOMAIN u = DOMAIN t /\ \A f \in DOMAIN t \ {"tail", "tail0"} : u[f] = t[f]
    BY <1>4
  <1>6. u.tail0 = <<>> /\ u.tail = t.tail /\ u.length = t.length
    BY <1>2, <1>3, <1>4
  <1>7. TailTyped(u)
    BY <1>2, <1>5, <1>6 DEF TailTyped
  <1>8. \A k \in DOMAIN m : KeyAt(u, W, k, m[k], D[k], A[k])
    BY <1>1, <1>6 DEF KeyAt, Spelled
  <1>9. \A i \in DOMAIN u.tail0 : PlaceAt(u, W, i)
    <2>1. DOMAIN u.tail0 = {}
      BY <1>6
    <2> QED
      BY <2>1
  <1> QED
    BY <1>1, <1>5, <1>7, <1>8, <1>9 DEF StoredAs, TailHolds, TailOnly

\* loads(dumps()) keeps the map.
THEOREM RestoredHolds ==
    ASSUME NEW R, NEW t, NEW m, Holds(R, t, m)
    PROVE  Holds(R, Restored(t), m)
  <1>1. PICK C, D, A, W : HoldsAs(R, t, m, C, D, A, W)
    BY DEF Holds
  <1>2. StoredAs(C, t, m, D, A, W)
    BY <1>1 DEF HoldsAs
  <1>3. PICK V, P, L, O : TrieAs(R, t, C, V, P, L, O)
    BY <1>1 DEF HoldsAs, TrieOf
  <1> DEFINE r == Reread(t)
             b == _restore_block(r)
             u == _restore_ninfo(b)
  <1>4. Restored(t) = u
    BY DEF Restored, Reread
  <1>5. TailOnly(t, r) /\ StoredAs(C, r, m, D, A, W)
    BY <1>2, RereadTail
  <1> HIDE DEF r
  <1>6. TrieAs(R, r, C, V, P, L, O)
    BY <1>3, <1>5, TrieTail
  <1>7. Sound(R, r) /\ IsTree(r, V, P, L, O, {}, {}) /\ r.nblk \in Nat
    BY <1>6, BlockAssumption DEF TrieAs, IsTree, TrieTyped
  <1>8. Sound(R, b) /\ SameNodes(r, b)
    BY <1>7, RestoreBlockSound DEF Sound
  <1>9. SameTail(r, b)
    BY <1>7, RestoreBlockSameTail
  <1> HIDE DEF b
  <1>10. TrieTyped(b)
    BY <1>8, SoundFacts
  <1>11. IsTree(b, V, P, L, O, {}, {})
    BY <1>7, <1>8, <1>10, TreeSame
  <1>12. Shape(b, V, P, L, O) /\ Content(b, V, P, L) = C
    <2>1. Shape(r, V, P, L, O) /\ Content(r, V, P, L) = C
      BY <1>6, TreeShape DEF TrieAs
    <2>2. b.array = r.array /\ b.nblk = r.nblk
      BY <1>8 DEF SameNodes
    <2> QED
      BY <2>1, <2>2, ShapeSame
  <1>13. ASSUME NEW n \in V, InnerNode(b, L, n) PROVE \E e \in V : b.array[e].check = n
    <2>1. NoBare(C)
      BY <1>2 DEF StoredAs
    <2> QED
      BY <2>1, <1>12, <1>13, InnerHasChild
  <1>14. /\ IsTree(u, V, P, L, O, {}, {}) /\ DOMAIN u = DOMAIN b
         /\ \A field \in DOMAIN b \ {"sibling", "child"} : u[field] = b[field]
    BY <1>10, <1>12, <1>13, RestoreNinfoTree
  <1> HIDE DEF u
  <1>15. TrieTyped(u) /\ PoolFields \subseteq DOMAIN b
    BY <1>8, <1>14, SoundFacts DEF IsTree
  <1>16. u.array = b.array /\ u.nblk = b.nblk
    BY <1>14, <1>15 DEF PoolFields
  <1>17. Sound(R, u)
    <2>1. SoundTo(R, u, b.nblk, b.nblk)
      BY <1>8, <1>14, <1>15, SoundSame DEF Sound
    <2> QED
      BY <2>1, <1>16 DEF Sound
  <1>18. TrieAs(R, u, C, V, P, L, O)
    <2>1. Shape(u, V, P, L, O) /\ Content(u, V, P, L) = C
      BY <1>12, <1>16, ShapeSame
    <2> QED
      BY <2>1, <1>14, <1>17 DEF TrieAs, Shape
  <1>19. SameTail(r, u)
    <2>1. SameTail(b, u)
      BY <1>14 DEF SameTail
    <2> QED
      BY <2>1, <1>9, SameTailOn
  <1>20. StoredAs(C, u, m, D, A, W)
    BY <1>5, <1>19, TailSame
  <1> QED
    BY <1>4, <1>18, <1>20 DEF Holds, HoldsAs, TrieOf

\* Nor keys.
LEMMA InitialHolds ==
    ASSUME NEW R, Spare("chain", R), NEW m, DOMAIN m = {}
    PROVE  Holds(R, InitialTrie, m)
  <1> DEFINE t == InitialTrie
  <1>1. TrieOf(R, t, {})
    BY InitialTree
  <1>2. TailTyped(t) /\ DOMAIN t.tail0 = {}
    <2>1. /\ {"tail", "length", "tail0"} \subseteq DOMAIN t /\ t.tail = [i \in Cells |-> 0]
          /\ t.length = HeaderCells /\ t.tail0 = <<>>
      BY DEF InitialTrie
    <2> HIDE DEF t
    <2>2. HeaderCells \in HeaderCells .. MaxTail
      BY TailAssumption DEF HeaderCells
    <2> QED
      BY <2>1, <2>2 DEF TailTyped
  <1> HIDE DEF t
  <1>3. IsMap(m) /\ NoBare({})
    BY DEF IsMap, NoBare
  <1>4. PICK e : e = [k \in {} |-> 0]
    OBVIOUS
  <1>5. Ends({}, m, e, e)
    BY DEF Ends
  <1>6. TailHolds(t, m, e, e, e)
    BY <1>2 DEF TailHolds
  <1>7. StoredAs({}, t, m, e, e, e)
    BY <1>3, <1>5, <1>6 DEF StoredAs
  <1> QED
    BY <1>1, <1>7 DEF Holds, HoldsAs, t

-----------------------------------------------------------------------------
(* The inductive invariant.                                                *)

\* The keys there ever are, and their first labels.
EveryKey == Keys \cup {Preload[i] : i \in DOMAIN Preload}

FirstLabels == {k[1] : k \in EveryKey}

\* No key starts with the label 1: block 0 keeps a slot that is never used.
RootSpare == Spare("chain", FirstLabels)

\* The trie holds the map.
IInv ==
    /\ Holds(FirstLabels, trie, map)
    /\ DOMAIN map \subseteq EveryKey
    /\ \A k \in DOMAIN map : map[k] <= MaxValue

\* The keys are keys.
LEMMA EachIsKey ==
    ASSUME NEW k \in EveryKey
    PROVE  IsKey(k) /\ k[1] \in FirstLabels
  <1>1. CASE k \in Keys
    BY <1>1, KeyAssumption DEF IsKey, FirstLabels
  <1>2. CASE k \in {Preload[i] : i \in DOMAIN Preload}
    <2>1. PICK i \in DOMAIN Preload : k = Preload[i]
      BY <1>2
    <2>2. k \in Seq(Labels \ {0}) \ {<<>>}
      BY <2>1, KeyAssumption
    <2> QED
      BY <2>2 DEF IsKey, FirstLabels
  <1> QED
    BY <1>1, <1>2 DEF EveryKey

\* The keys stored at the start, one after the other.
LEMMA FilledRuns ==
    ASSUME Len(Preload) \in Nat
    PROVE  \E g : /\ g[0] = InitialTrie
                  /\ \A i \in 1 .. Len(Preload) : g[i] = Set(g[i - 1], Preload[i], 1)
                  /\ Filled = g
  <1> DEFINE N == Len(Preload)
             s0 == InitialTrie
             Next1(s, i) == Set(s, Preload[i], 1)
             Step(g, i) == IF i = 0 THEN s0 ELSE Next1(g[i - 1], i)
             Good(g, m) == g = [i \in 0 .. m |-> Step(g, i)]
             Bad == {m \in Nat : ~ \E g : Good(g, m)}
  <1>1. Bad = {}
    <2> SUFFICES ASSUME Bad # {} PROVE FALSE
      OBVIOUS
    <2> HIDE DEF Next1, s0
    <2>1. Bad \in SUBSET Nat
      OBVIOUS
    <2> HIDE DEF Bad
    <2>2. PICK m \in Bad : \A x \in Bad : m <= x
      BY <2>1, Least
    <2>3. m \in Nat /\ ~ \E g : Good(g, m)
      BY DEF Bad
    <2>4. CASE m = 0
      <3> DEFINE g == [i \in 0 .. 0 |-> s0]
      <3>1. Good(g, 0)
        BY DEF g
      <3> QED
        BY <3>1, <2>3, <2>4
    <2>5. CASE m # 0
      <3>1. m - 1 \in Nat /\ m - 1 \notin Bad
        BY <2>2, <2>3, <2>5
      <3>2. PICK h : Good(h, m - 1)
        BY <3>1 DEF Bad
      <3> DEFINE g == [i \in 0 .. m |-> Step(h, i)]
      <3>3. ASSUME NEW i \in 0 .. m PROVE Step(g, i) = Step(h, i)
        <4>1. CASE i = 0
          BY <4>1
        <4>2. CASE i # 0
          <5>1. i - 1 \in 0 .. m /\ i - 1 \in 0 .. m - 1
            BY <4>2, <2>3
          <5>2. g[i - 1] = Step(h, i - 1)
            BY <5>1
          <5>3. h[i - 1] = Step(h, i - 1)
            <6> HIDE DEF Step
            <6> QED
              BY <5>1, <3>2
          <5> HIDE DEF g
          <5> QED
            BY <4>2, <5>2, <5>3
        <4> QED
          BY <4>1, <4>2
      <3>4. Good(g, m)
        <4> HIDE DEF Step
        <4> QED
          BY <3>3
      <3> QED
        BY <3>4, <2>3
    <2> QED
      BY <2>4, <2>5
  <1>2. \E g : Good(g, N)
    BY <1>1
  <1>3. PICK g : Good(g, N) /\ Filled = g
    BY <1>2 DEF Filled
  <1> HIDE DEF Next1, s0
  <1>4. g[0] = s0 /\ \A i \in 1 .. N : g[i] = Next1(g[i - 1], i)
    <2>1. g = [i \in 0 .. N |-> Step(g, i)]
      BY <1>3
    <2>2. \A i \in 0 .. N : g[i] = Step(g, i)
      <3> HIDE DEF Step
      <3> QED
        BY <2>1
    <2> QED
      BY <2>2
  <1> QED
    BY <1>3, <1>4 DEF Next1, s0

\* They are all there then.
LEMMA FilledHolds ==
    ASSUME RootSpare
    PROVE  Holds(FirstLabels, Filled[Len(Preload)], [k \in {Preload[i] : i \in DOMAIN Preload} |-> 1])
  <1> DEFINE n == Len(Preload)
             R == FirstLabels
             h(i) == [k \in {Preload[j] : j \in 1 .. i} |-> 1]
  <1>1. n \in Nat /\ DOMAIN Preload = 1 .. n
    BY KeyAssumption
  <1>2. Spare("chain", R)
    BY DEF RootSpare
  <1>3. \A i \in 1 .. n : Preload[i] \in EveryKey
    BY <1>1 DEF EveryKey
  <1>8. Filled[0] = InitialTrie /\ \A i \in 1 .. n : Filled[i] = Set(Filled[i - 1], Preload[i], 1)
    BY <1>1, FilledRuns
  <1> HIDE DEF n, R
  <1> DEFINE S == {i \in 0 .. n : Holds(R, Filled[i], h(i))}
  <1>4. 0 \in S
    <2>1. DOMAIN h(0) = {}
      OBVIOUS
    <2> HIDE DEF h
    <2>2. Holds(R, Filled[0], h(0))
      BY <2>1, <1>2, <1>8, InitialHolds
    <2> QED
      BY <2>2, <1>1
  <1>5. ASSUME NEW i \in 1 .. n, i - 1 \in S PROVE i \in S
    <2> DEFINE t == Filled[i - 1]
               k == Preload[i]
               m == h(i - 1)
               w == h(i)
    <2>1. Holds(R, t, m) /\ Filled[i] = Set(t, k, 1)
      BY <1>5, <1>8
    <2>2. HasRoom(t, k)
      BY PreloadAssumption DEF n
    <2>3. IsKey(k) /\ k[1] \in R
      BY <1>3, EachIsKey DEF R
    <2>4. RoomFor(R, t, k)
      BY <2>2, <2>3 DEF HasRoom, RoomFor
    <2>5. WithAt(m, w, k, 1)
      <3>1. 1 .. i = (1 .. i - 1) \cup {i}
        BY <1>1
      <3> QED
        BY <3>1 DEF WithAt
    <2> HIDE DEF t, k, m, w
    <2>6. Holds(R, Set(t, k, 1), w)
      BY <2>1, <2>4, <2>5, <1>2, SetHolds
    <2> QED
      BY <2>1, <2>6, <1>5 DEF w
  <1>6. n \in S
    <2> HIDE DEF S
    <2>1. \A i \in 0 .. n : i \in S
      BY <1>1, <1>4, <1>5, UpTo
    <2> QED
      BY <2>1, <1>1
  <1>7. Holds(R, Filled[n], h(n))
    BY <1>6
  <1> QED
    BY <1>1, <1>7 DEF n, R

\* Every key of the first ones has a value in range.
LEMMA IInvInit ==
    ASSUME RootSpare, Init
    PROVE  IInv
  <1> DEFINE K == {Preload[i] : i \in DOMAIN Preload}
  <1>1. map = [k \in K |-> 1] /\ trie = Filled[Len(Preload)]
    BY DEF Init
  <1>2. Holds(FirstLabels, trie, map)
    BY <1>1, FilledHolds
  <1>3. \A k \in DOMAIN map : map[k] <= MaxValue
    <2>1. ASSUME NEW k \in K PROVE 1 <= MaxValue
      <3>1. Preload # <<>>
        BY <2>1
      <3> QED
        BY <3>1, PreloadAssumption, KeyAssumption
    <2> QED
      BY <2>1, <1>1
  <1> QED
    BY <1>1, <1>2, <1>3 DEF IInv, EveryKey

\* Every call keeps it.
LEMMA IInvNext ==
    ASSUME RootSpare, IInv, [Next]_vars
    PROVE  IInv'
  <1> DEFINE R == FirstLabels
  <1>1. /\ Holds(R, trie, map) /\ DOMAIN map \subseteq EveryKey
        /\ \A k \in DOMAIN map : map[k] <= MaxValue
    BY DEF IInv
  <1>2. Spare("chain", R)
    BY DEF RootSpare
  <1>3. ASSUME NEW k \in Keys PROVE k \in EveryKey /\ IsKey(k) /\ (Fitting(k) => RoomFor(R, trie, k))
    BY EachIsKey DEF EveryKey, Fitting, HasRoom, RoomFor
  <1>4. IsMap(map)
    BY <1>1 DEF Holds, HoldsAs, StoredAs
  <1> HIDE DEF R
  <1>5. ASSUME NEW k \in Keys, NEW v \in Values, SetKey(k, v)
        PROVE  IInv'
    <2>1. /\ RoomFor(R, trie, k) /\ trie' = Set(trie, k, v)
          /\ map' = [x \in DOMAIN map \cup {k} |-> IF x = k THEN v ELSE map[x]]
      BY <1>3, <1>5 DEF SetKey, Map!Set, Map!Put, Map!With
    <2>2. v \in Nat /\ v <= MaxValue
      BY KeyAssumption
    <2>3. WithAt(map, map', k, v)
      BY <2>1 DEF WithAt
    <2>4. Holds(R, trie', map')
      BY <2>1, <2>2, <2>3, <1>1, <1>2, SetHolds
    <2>5. \A l \in DOMAIN map' : map'[l] <= MaxValue
      BY <2>1, <2>2, <1>1
    <2> QED
      BY <2>1, <2>4, <2>5, <1>1, <1>3 DEF IInv, R
  <1>6. ASSUME NEW k \in Keys, NEW d \in Values, AddKey(k, d)
        PROVE  IInv'
    <2> DEFINE v == ValueOf(map, k) + d
    <2>1. /\ RoomFor(R, trie, k) /\ trie' = Update(trie, k, d).t /\ v <= MaxValue
          /\ map' = [x \in DOMAIN map \cup {k} |-> IF x = k THEN v ELSE map[x]]
      BY <1>3, <1>6 DEF AddKey, Map!Add, Map!Put, Map!With, Map!ValueAt, Map!ValueIn, ValueOf
    <2>2. d \in Nat
      BY KeyAssumption
    <2> HIDE DEF v
    <2>3. WithAt(map, map', k, v)
      BY <2>1 DEF WithAt
    <2>4. Holds(R, trie', map')
      BY <2>1, <2>2, <2>3, <1>1, <1>2, AddHolds DEF v
    <2>5. \A l \in DOMAIN map' : map'[l] <= MaxValue
      BY <2>1, <2>2, <1>1
    <2> QED
      BY <2>1, <2>4, <2>5, <1>1, <1>3 DEF IInv, R
  <1>7. ASSUME NEW k \in Keys, EraseKey(k)
        PROVE  IInv'
    <2>1. k \in DOMAIN map /\ trie' = Erase(trie, k) /\ map' = [x \in DOMAIN map \ {k} |-> map[x]]
      BY <1>7 DEF EraseKey, Map!Erase, Map!Without
    <2>2. Holds(R, trie', map')
      BY <2>1, <1>1, <1>2, EraseHolds
    <2> QED
      BY <2>1, <2>2, <1>1 DEF IInv, R
  <1>8. ASSUME ShrinkTail PROVE IInv'
    BY <1>1, <1>8, CompactHolds DEF ShrinkTail, IInv, R
  <1>9. ASSUME Reload PROVE IInv'
    BY <1>1, <1>9, RestoredHolds DEF Reload, IInv, R
  <1>10. ASSUME UNCHANGED vars PROVE IInv'
    BY <1>10 DEF vars, IInv
  <1> QED
    BY <1>5, <1>6, <1>7, <1>8, <1>9, <1>10 DEF Next

\* The trie holds the map at all times: the invariant that the theorems below
\* rest on.
THEOREM IInvHolds ==
    ASSUME RootSpare
    PROVE  Spec => []IInv
  <1>1. Init => IInv
    BY IInvInit
  <1>2. IInv /\ [Next]_vars => IInv'
    BY IInvNext
  <1> QED
    BY <1>1, <1>2, PTL DEF Spec

-----------------------------------------------------------------------------
(* The properties.                                                         *)

\* The nodes of the trie, their names and what is stored.
Known(V, P, L, O, C, D, A, W) ==
    TrieAs(FirstLabels, trie, C, V, P, L, O) /\ StoredAs(C, trie, map, D, A, W)

\* There are such.
LEMMA SomeKnown ==
    ASSUME IInv
    PROVE  \E V, P, L, O, C, D, A, W : Known(V, P, L, O, C, D, A, W)
  BY DEF IInv, Holds, HoldsAs, TrieOf, Known

\* The nodes are the slots the properties speak of.
NodesAre(V, L) ==
    /\ V = Held /\ IsFiniteSet(V) /\ 0 \notin V
    /\ \A e \in V : IsTerminal(e) <=> L[e] = 0
    /\ \A n \in V \cup {0} : IsInner(n) <=> InnerNode(trie, L, n)

\* So they are.
LEMMA KnownNodes ==
    ASSUME NEW V, NEW P, NEW L, NEW O, NEW C, NEW D, NEW A, NEW W, Known(V, P, L, O, C, D, A, W)
    PROVE  Shape(trie, V, P, L, O) /\ NodesAre(V, L)
  <1>1. Shape(trie, V, P, L, O)
    BY TreeShape DEF Known
  <1>2. Seen(trie, V, L)
    BY <1>1, ShapeSeen
  <1>3. V = Held /\ IsFiniteSet(V) /\ 0 \notin V
    BY <1>1, <1>2 DEF Seen, Held, InUse, Shape, GhostTyped
  <1>4. \A e \in V : IsTerminal(e) <=> L[e] = 0
    BY <1>2 DEF Seen, IsTerminal
  <1>5. ASSUME NEW n \in V \cup {0}
        PROVE  IsInner(n) <=> InnerNode(trie, L, n)
    BY <1>3, <1>4 DEF IsInner, InnerNode
  <1> QED
    BY <1>1, <1>3, <1>4, <1>5 DEF NodesAre

\* Every lookup answers what the map does, after any calls in any order.
THEOREM LookupsCorrect ==
    ASSUME RootSpare
    PROVE  Spec => []LookupsRight
  <1>1. IInv => LookupsRight
    <2> SUFFICES ASSUME IInv, NEW k \in EveryKey
                 PROVE  IF k \in DOMAIN map THEN Find(trie, k).value = map[k]
                        ELSE Find(trie, k).value \in {NoPath, NoValue}
      BY DEF LookupsRight, EveryKey
    <2>1. IsKey(k) /\ Holds(FirstLabels, trie, map)
      BY EachIsKey DEF IInv
    <2> QED
      BY <2>1, FindRight
  <1> QED
    BY <1>1, IInvHolds, PTL

\* The nodes with a value or a suffix, which num_keys counts.
Counting(V, L) == {e \in V : ~ InnerNode(trie, L, e)}

\* num_keys counts the nodes without children.
LEMMA CountedNodes ==
    ASSUME NEW V, NEW P, NEW L, NEW O, NEW C, NEW D, NEW A, NEW W, Known(V, P, L, O, C, D, A, W)
    PROVE  num_keys(trie) = Cardinality(Counting(V, L))
  <1>1. NodesAre(V, L) /\ Shape(trie, V, P, L, O)
    BY KnownNodes
  <1>2. V \subseteq Slots /\ \A e \in Slots : trie.array[e].base \in Int
    BY <1>1 DEF Shape, GhostTyped
  <1> DEFINE K == {e \in 0 .. trie.nblk * B - 1 :
                     /\ trie.array[e].check >= 0
                     /\ trie.array[trie.array[e].check].base = e \/ trie.array[e].base < 0}
  <1>3. K = {e \in V : L[e] = 0 \/ trie.array[e].base < 0}
    BY <1>1 DEF NodesAre, Held, InUse, IsTerminal
  <1>4. ASSUME NEW e \in V
        PROVE  L[e] = 0 \/ trie.array[e].base < 0 <=> ~ InnerNode(trie, L, e)
    <2>1. trie.array[e].base \in Int /\ e # 0
      BY <1>1, <1>2 DEF NodesAre
    <2> QED
      BY <2>1 DEF InnerNode
  <1>5. K = Counting(V, L)
    BY <1>3, <1>4 DEF Counting
  <1> QED
    BY <1>5 DEF num_keys

\* num_keys, which the length of a dict comes from, is the number of keys.
THEOREM NumKeysCorrect ==
    ASSUME RootSpare
    PROVE  Spec => []NumKeysRight
  <1>1. IInv => NumKeysRight
    <2> SUFFICES ASSUME IInv PROVE num_keys(trie) = Cardinality(DOMAIN map)
      BY DEF NumKeysRight
    <2>1. PICK V, P, L, O, C, D, A, W : Known(V, P, L, O, C, D, A, W)
      BY SomeKnown
    <2> DEFINE T == Counting(V, L)
               h == [k \in DOMAIN map |-> Cut(Ended(k), D[k])]
    <2>2. /\ TrieAs(FirstLabels, trie, C, V, P, L, O) /\ StoredAs(C, trie, map, D, A, W)
          /\ IsTree(trie, V, P, L, O, {}, {}) /\ C = Content(trie, V, P, L) /\ Ends(C, map, D, A)
      BY <2>1 DEF Known, TrieAs, StoredAs
    <2>3. IsForest(C)
      BY <2>2, ContentForest
    <2>4. IsFiniteSet(T)
      <3>1. IsFiniteSet(V) /\ T \subseteq V
        BY <2>1, KnownNodes DEF NodesAre, Counting
      <3> QED
        BY <3>1, FS_Subset
    <2>5. \A a, b \in T : P[a] = P[b] => a = b
      <3>1. T \subseteq V
        BY DEF Counting
      <3> QED
        BY <3>1, <2>2, PathsApart
    <2>6. \A k, l \in DOMAIN map : h[k] = h[l] => k = l
      BY <2>2, <2>3, EndsDiffer
    <2>7. ASSUME NEW k \in DOMAIN map PROVE \E e \in T : P[e] = h[k]
      <3> DEFINE x == EndOf(k, map[k], D[k], A[k])
      <3>1. x \in C /\ x[1] = h[k] /\ ~ x[2]
        BY <2>2 DEF Ends, EndOf
      <3> HIDE DEF x, h
      <3>2. PICK e \in V : x = Holding(trie, P, L, e)
        BY <2>2, <3>1, NodesOf
      <3>3. ~ InnerNode(trie, L, e) /\ P[e] = x[1]
        BY <3>1, <3>2 DEF Holding, InnerOf
      <3> QED
        BY <3>1, <3>3 DEF Counting
    <2>8. ASSUME NEW e \in T PROVE \E k \in DOMAIN map : P[e] = h[k]
      <3>1. e \in V /\ ~ InnerNode(trie, L, e)
        BY DEF Counting
      <3> DEFINE x == Holding(trie, P, L, e)
      <3>2. x \in C /\ x[1] = P[e]
        BY <2>2, <3>1, NodesOf
      <3>3. ~ x[2]
        BY <3>1 DEF Holding
      <3> HIDE DEF x
      <3>4. PICK k \in DOMAIN map : x = EndOf(k, map[k], D[k], A[k])
        BY <2>2, <3>2, <3>3 DEF Ends
      <3>5. x[1] = h[k]
        BY <3>4 DEF EndOf
      <3> QED
        BY <3>2, <3>5
    <2> DEFINE S == DOMAIN map
    <2>9. num_keys(trie) = Cardinality(T)
      BY <2>1, CountedNodes
    <2> HIDE DEF T, h
    <2>10. Cardinality(S) = Cardinality(T)
      BY <2>4, <2>5, <2>6, <2>7, <2>8, NamesCount
    <2> QED
      BY <2>9, <2>10
  <1> QED
    BY <1>1, IInvHolds, PTL

\* The sibling chains list exactly the children, in the order of their labels.
THEOREM ChainsCorrect ==
    ASSUME RootSpare
    PROVE  Spec => []ChainsMatchChecks
  <1>1. IInv => ChainsMatchChecks
    <2> SUFFICES ASSUME IInv, NEW n \in {0} \cup Held, IsInner(n),
                        NEW c, c = Children(trie, n), NEW base, base = trie.array[n].base
                 PROVE  /\ \A i, j \in DOMAIN c : i < j => c[i] < c[j]
                        /\ {e \in Held : trie.array[e].check = n}
                             = {Xor(base, c[i]) : i \in {j \in DOMAIN c : n # 0 \/ c[j] # 0}}
      BY DEF ChainsMatchChecks
    <2>1. PICK V, P, L, O, C, D, A, W : Known(V, P, L, O, C, D, A, W)
      BY SomeKnown
    <2>2. Shape(trie, V, P, L, O) /\ NodesAre(V, L) /\ IsTree(trie, V, P, L, O, {}, {})
      BY <2>1, KnownNodes DEF Known, TrieAs
    <2>3. n \in V \cup {0} /\ InnerNode(trie, L, n)
      BY <2>2 DEF NodesAre
    <2>4. ListsChildren(trie, n, base, c)
      BY <2>2, <2>3, ChainAgrees
    <2>5. {e \in Held : trie.array[e].check = n} = {e \in 0 .. trie.nblk * B - 1 : trie.array[e].check = n}
      <3>1. n >= 0
        BY <2>2, <2>3, SlotFacts DEF Shape, GhostTyped
      <3> QED
        BY <3>1 DEF Held, InUse
    <2> QED
      BY <2>4, <2>5 DEF ListsChildren, Ascending
  <1> QED
    BY <1>1, IInvHolds, PTL

\* Every branch of the trie ends in a terminal or a suffix: no slot outlives
\* the keys it was made for.
THEOREM NoLeakHolds ==
    ASSUME RootSpare
    PROVE  Spec => []NoLeak
  <1>1. IInv => NoLeak
    <2> SUFFICES ASSUME IInv, NEW n \in Held
                 PROVE  /\ trie.array[n].check # 0 => IsInner(trie.array[n].check)
                        /\ ~ IsTerminal(n) => \/ trie.array[n].base <= -HeaderCells
                                              \/ \E e \in Held : trie.array[e].check = n
      BY DEF NoLeak
    <2>1. PICK V, P, L, O, C, D, A, W : Known(V, P, L, O, C, D, A, W)
      BY SomeKnown
    <2>2. /\ Shape(trie, V, P, L, O) /\ NodesAre(V, L) /\ C = Content(trie, V, P, L)
          /\ TrieAs(FirstLabels, trie, C, V, P, L, O) /\ StoredAs(C, trie, map, D, A, W)
      BY <2>1, KnownNodes DEF Known, TrieAs
    <2>3. n \in V /\ V = Held
      BY <2>2 DEF NodesAre
    <2>4. IsInner(trie.array[n].check)
      <3>1. trie.array[n].check \in V \cup {0} /\ InnerNode(trie, L, trie.array[n].check)
        BY <2>2, <2>3 DEF Shape, Edges
      <3> QED
        BY <3>1, <2>2 DEF NodesAre
    <2>5. CASE InnerNode(trie, L, n)
      <3>1. NoBare(C)
        BY <2>2 DEF StoredAs
      <3> QED
        BY <3>1, <2>2, <2>3, <2>4, <2>5, InnerHasChild
    <2>6. CASE ~ InnerNode(trie, L, n)
      <3> DEFINE x == Holding(trie, P, L, n)
      <3>1. x \in C /\ ~ x[2]
        BY <2>2, <2>3, <2>6, NodesOf DEF Holding
      <3>2. PICK k \in DOMAIN map : x = EndOf(k, map[k], D[k], A[k])
        BY <2>2, <3>1 DEF StoredAs, Ends
      <3>3. EndAt(trie, map, V, P, L, D, A, k, n)
        BY <2>2, <2>3, <3>2, EndKind
      <3>4. CASE L[n] = 0
        BY <3>4, <2>2, <2>3, <2>4 DEF NodesAre
      <3>5. CASE L[n] # 0
        <4>1. HungOn(trie, L, D, A, k, n)
          BY <3>3, <3>5, <2>2, HungFacts DEF EndAt
        <4>2. trie.array[n].base = - A[k] /\ A[k] \in Nat /\ A[k] >= HeaderCells
          BY <4>1 DEF HungOn
        <4>3. trie.array[n].base <= -HeaderCells
          BY <4>2 DEF HeaderCells
        <4> QED
          BY <4>3, <2>4
      <3> QED
        BY <3>4, <3>5
    <2> QED
      BY <2>5, <2>6
  <1> QED
    BY <1>1, IInvHolds, PTL

\* The node e has its suffix in the cells of the key k.
CellsAre(m, D, A, W, k, e) ==
    /\ k \in DOMAIN m /\ IsKey(k) /\ CellsOf(e) = Extent(k, D[k], A[k])
    /\ \A c \in CellsOf(e) : c \in HeaderCells .. trie.length - 1 /\ W[c] = <<k, 0>>

\* So it has.
LEMMA HungCells ==
    ASSUME NEW V, NEW P, NEW L, NEW O, NEW C, NEW D, NEW A, NEW W, Known(V, P, L, O, C, D, A, W),
           NEW k, NEW e, Hung(map, V, P, D, k, e)
    PROVE  CellsAre(map, D, A, W, k, e)
  <1>1. /\ TrieAs(FirstLabels, trie, C, V, P, L, O) /\ StoredAs(C, trie, map, D, A, W)
        /\ TailTyped(trie) /\ \A l \in DOMAIN map : KeyAt(trie, W, l, map[l], D[l], A[l])
    BY DEF Known, StoredAs, TailHolds
  <1>2. HungOn(trie, L, D, A, k, e) /\ k \in DOMAIN map /\ D[k] <= Len(k)
    BY <1>1, HungFacts DEF Hung
  <1> DEFINE a == A[k]
             d == D[k]
             n == Len(k)
             o == - trie.array[e].base
  <1>3. a \in Nat /\ d \in 1 .. n /\ n \in Nat /\ IsKey(k) /\ o = a
    <2>1. A[k] \in Nat /\ D[k] \in 1 .. Len(k) /\ Len(k) \in Nat /\ IsKey(k) /\ trie.array[e].base = - A[k]
      BY <1>2 DEF HungOn
    <2> QED
      BY <2>1
  <1>4. KeyAt(trie, W, k, map[k], d, a)
    BY <1>1, <1>2
  <1>5. \A c \in Extent(k, d, a) : c \in Cells /\ c >= HeaderCells /\ c < trie.length /\ W[c] = <<k, 0>>
    BY <1>1, <1>2, CellsApart
  <1>6. trie.length \in Int
    BY <1>1, TailAssumption DEF TailTyped
  <1> HIDE DEF a, d
  <1>7. SuffixLen(trie, a) = Len(k) - d
    <2>1. d \in 1 .. Len(k)
      BY <1>3
    <2> QED
      BY <2>1, <1>1, <1>3, <1>4, SuffixLenIs
  <1>8. CellsOf(e) = Extent(k, d, a)
    <2>1. CellsOf(e) = a .. a + SuffixLen(trie, a) + 1
      BY <1>3 DEF CellsOf, ValueCells
    <2> HIDE DEF n
    <2>2. CellsOf(e) = a .. a + (n - d) + 1
      BY <2>1, <1>7 DEF n
    <2> QED
      BY <2>2 DEF Extent, n
  <1>9. ASSUME NEW c \in CellsOf(e) PROVE c \in HeaderCells .. trie.length - 1 /\ W[c] = <<k, 0>>
    <2>1. c \in Cells /\ c >= HeaderCells /\ c < trie.length /\ W[c] = <<k, 0>>
      BY <1>5, <1>8
    <2> QED
      BY <2>1, <1>6 DEF Cells, HeaderCells
  <1> QED
    BY <1>2, <1>3, <1>8, <1>9 DEF CellsAre, a, d

\* The suffixes of different keys share no cell, nor do the places offered for
\* empty suffixes, whatever was split, compacted and used again.
THEOREM TailDisjointHolds ==
    ASSUME RootSpare
    PROVE  Spec => []TailDisjoint
  <1>1. IInv => TailDisjoint
    <2> DEFINE used == {e \in Held : HasSuffix(trie, e)}
               place(i) == trie.tail0[i] .. trie.tail0[i] + ValueCells
    <2> SUFFICES ASSUME IInv
                 PROVE  /\ \A e \in used : CellsOf(e) \subseteq HeaderCells .. trie.length - 1
                        /\ \A e, f \in used : e # f => CellsOf(e) \cap CellsOf(f) = {}
                        /\ \A i \in DOMAIN trie.tail0 :
                             /\ \A e \in used : place(i) \cap CellsOf(e) = {}
                             /\ \A j \in DOMAIN trie.tail0 : i # j => place(i) \cap place(j) = {}
      BY DEF TailDisjoint
    <2>1. PICK V, P, L, O, C, D, A, W : Known(V, P, L, O, C, D, A, W)
      BY SomeKnown
    <2>2. /\ TrieAs(FirstLabels, trie, C, V, P, L, O) /\ StoredAs(C, trie, map, D, A, W)
          /\ \A i \in DOMAIN trie.tail0 : PlaceAt(trie, W, i)
      BY <2>1 DEF Known, StoredAs, TailHolds
    <2>3. ASSUME NEW e \in used PROVE \E k : Hung(map, V, P, D, k, e) /\ CellsAre(map, D, A, W, k, e)
      <3>1. e \in 0 .. trie.nblk * B - 1 /\ HasSuffix(trie, e)
        BY DEF Held, InUse
      <3>2. PICK k : Hung(map, V, P, D, k, e)
        BY <3>1, <2>2, HangsThere
      <3> QED
        BY <3>2, <2>1, HungCells
    <2> HIDE DEF used
    <2>4. ASSUME NEW e \in used PROVE CellsOf(e) \subseteq HeaderCells .. trie.length - 1
      BY <2>3 DEF CellsAre
    <2>5. ASSUME NEW e \in used, NEW f \in used, e # f PROVE CellsOf(e) \cap CellsOf(f) = {}
      <3>1. PICK k : Hung(map, V, P, D, k, e) /\ CellsAre(map, D, A, W, k, e)
        BY <2>3
      <3>2. PICK l : Hung(map, V, P, D, l, f) /\ CellsAre(map, D, A, W, l, f)
        BY <2>3
      <3>3. k # l
        BY <3>1, <3>2, <2>2, <2>5, HungApart
      <3>4. <<k, 0>> # <<l, 0>>
        BY <3>3
      <3> QED
        BY <3>1, <3>2, <3>4 DEF CellsAre
    <2>6. ASSUME NEW i \in DOMAIN trie.tail0, NEW c \in place(i) PROVE W[c] = << <<>>, i>>
      <3> DEFINE p == trie.tail0[i]
      <3>1. p \in Nat /\ W[p] = << <<>>, i>> /\ W[p + 1] = << <<>>, i>>
        BY <2>2 DEF PlaceAt
      <3>2. c \in p .. p + 1
        BY DEF ValueCells
      <3> HIDE DEF p
      <3>3. c = p \/ c = p + 1
        BY <3>1, <3>2
      <3> QED
        BY <3>1, <3>3
    <2>7. ASSUME NEW i \in DOMAIN trie.tail0, NEW e \in used PROVE place(i) \cap CellsOf(e) = {}
      <3>1. PICK k : CellsAre(map, D, A, W, k, e)
        BY <2>3
      <3>2. << <<>>, i>> # <<k, 0>>
        BY <3>1 DEF CellsAre, IsKey
      <3> QED
        BY <3>1, <3>2, <2>6 DEF CellsAre
    <2>8. ASSUME NEW i \in DOMAIN trie.tail0, NEW j \in DOMAIN trie.tail0, i # j
          PROVE  place(i) \cap place(j) = {}
      <3>1. << <<>>, i>> # << <<>>, j>>
        BY <2>8
      <3> HIDE DEF place
      <3> QED
        BY <3>1, <2>6
    <2> QED
      BY <2>4, <2>5, <2>7, <2>8
  <1> QED
    BY <1>1, IInvHolds, PTL

\* The cells after those in use are zeros, which a new suffix relies on.
THEOREM ZeroSlackHolds ==
    ASSUME RootSpare
    PROVE  Spec => []ZeroSlack
  <1>1. IInv => ZeroSlack
    <2> SUFFICES ASSUME IInv PROVE \A c \in Cells : c >= trie.length => trie.tail[c] = 0
      BY DEF ZeroSlack
    <2> QED
      BY DEF IInv, Holds, HoldsAs, StoredAs, TailHolds, TailTyped
  <1> QED
    BY <1>1, IInvHolds, PTL

\* What shrink_tail copies never exceeds what it asked malloc for.
THEOREM ShrinkFitsHolds ==
    ASSUME RootSpare
    PROVE  Spec => []ShrinkFits
  <1>1. IInv => ShrinkFits
    BY CompactFits DEF IInv, ShrinkFits
  <1> QED
    BY <1>1, IInvHolds, PTL

\* The empty slots of a block other than 0 form one ring, counted by num,
\* although nodes were moved and slots taken and given back.
THEOREM RingsHold ==
    ASSUME RootSpare
    PROVE  Spec => []RingsWhole
  <1>1. IInv => RingsWhole
    <2> SUFFICES ASSUME IInv, NEW b \in 1 .. trie.nblk - 1,
                        NEW E, E = SlotsOf(b) \ Held,
                        NEW v, v = [e \in E |-> - trie.array[e].base],
                        NEW n, n = [e \in E |-> - trie.array[e].check]
                 PROVE  trie.num[b] = Cardinality(E) /\ (E # {} => trie.ehead[b] \in E /\ IsRing(E, v, n))
      BY DEF RingsWhole
    <2> DEFINE p == PoolOf(trie)
    <2>1. Sound(FirstLabels, trie)
      BY DEF IInv, Holds, HoldsAs, TrieOf, TrieAs
    <2>2. /\ TrieTyped(trie) /\ p \in PoolRec /\ Whole("chain", FirstLabels, p, trie.nblk, trie.nblk)
          /\ p.nblk = trie.nblk
      BY <2>1, SoundFacts
    <2>3. /\ p.num = trie.num /\ p.ehead = trie.ehead
          /\ \A x \in Slots : /\ trie.array[x].check \in Int
                              /\ trie.array[x].check < 0 => p.array[x] = trie.array[x]
                              /\ p.array[x].check < 0 <=> trie.array[x].check < 0
      BY <2>2, PoolFacts
    <2> HIDE DEF p
    <2>4. trie.nblk \in 1 .. MaxBlocks
      BY <2>2 DEF TrieTyped
    <2>5. b \in Blocks /\ b < trie.nblk /\ b # 0
      BY <2>4, BlockAssumption DEF Blocks
    <2>6. /\ SlotsOf(b) \subseteq Slots /\ 0 \notin SlotsOf(b)
          /\ \A e \in SlotsOf(b) : e \in InUse
      <3>1. SlotsOf(b) \subseteq Slots /\ \A e \in SlotsOf(b) : Block(e) = b
        BY <2>5, SlotFacts
      <3>2. 0 .. trie.nblk * B - 1 = {x \in Slots : Block(x) < trie.nblk}
        BY <2>4, SlotFacts
      <3>3. Block(0) = 0
        BY SlotFacts
      <3> QED
        BY <3>1, <3>2, <3>3, <2>5 DEF InUse
    <2>7. E = {x \in SlotsOf(b) : trie.array[x].check < 0}
      <3>1. \A x \in SlotsOf(b) : x \in InUse /\ trie.array[x].check \in Int
        BY <2>3, <2>6
      <3>2. \A x \in SlotsOf(b) : x \notin Held <=> trie.array[x].check < 0
        BY <3>1 DEF Held
      <3> QED
        BY <3>2
    <2>8. E = Emp(p.array, b) /\ E = Counted(p.array, b)
      BY <2>3, <2>6, <2>7 DEF Emp, Counted
    <2>9. CountAt(p, b) /\ RingAt(p, b) /\ HeadAt(p, b)
      BY <2>2, <2>5, WholeAt
    <2>10. trie.num[b] = Cardinality(E)
      BY <2>3, <2>8, <2>9 DEF CountAt
    <2>11. ASSUME E # {} PROVE trie.ehead[b] \in E /\ IsRing(E, v, n)
      <3> DEFINE v2 == Prv(p.array)
                 n2 == Nxt(p.array)
      <3>1. trie.ehead[b] \in E /\ IsRing(E, v2, n2)
        BY <2>3, <2>8, <2>9, <2>11 DEF RingAt, HeadAt
      <3>2. \A e \in E : v[e] = v2[e] /\ n[e] = n2[e]
        <4>1. \A e \in E : e \in Slots /\ p.array[e] = trie.array[e]
          BY <2>3, <2>6, <2>7
        <4> QED
          BY <4>1 DEF Prv, Nxt
      <3> HIDE DEF v2, n2
      <3>3. IsRing(E, v, n)
        BY <3>1, <3>2, RingFrame
      <3> QED
        BY <3>1, <3>3
    <2> QED
      BY <2>10, <2>11
  <1> QED
    BY <1>1, IInvHolds, PTL

\* What the slots of the array hold.
LEMMA NodeBounds ==
    ASSUME IInv, NEW V, NEW P, NEW L, NEW O, NEW C, NEW D, NEW A, NEW W,
           Known(V, P, L, O, C, D, A, W), NEW e \in Slots, Block(e) < trie.nblk
    PROVE  /\ trie.array[e].base \in -(MaxBlocks * B + MaxTail) .. MaxBlocks * B + MaxValue
           /\ trie.array[e].check \in -(MaxBlocks * B) .. MaxBlocks * B
  <1> DEFINE N == MaxBlocks * B
             base == trie.array[e].base
             check == trie.array[e].check
  <1>1. /\ TrieAs(FirstLabels, trie, C, V, P, L, O) /\ StoredAs(C, trie, map, D, A, W)
        /\ Shape(trie, V, P, L, O) /\ NodesAre(V, L) /\ Sound(FirstLabels, trie)
        /\ C = Content(trie, V, P, L)
    BY KnownNodes DEF Known, TrieAs
  <1>2. N \in Nat /\ MaxTail \in Nat /\ MaxValue \in Nat /\ Slots = 0 .. N - 1
    <2>1. N \in Nat
      BY BlockAssumption
    <2> QED
      BY <2>1, TailAssumption, KeyAssumption DEF Slots
  <1>3. base \in Int /\ check \in Int
    BY <1>1 DEF Shape
  <1>4. CASE check < 0
    <2> DEFINE p == PoolOf(trie)
    <2>1. p \in PoolRec /\ p.array[e] = trie.array[e]
      BY <1>1, <1>4, SoundFacts, PoolFacts
    <2>2. base \in Links /\ check \in Links
      BY <2>1 DEF PoolRec, PoolNodes
    <2>3. base \in -(N - 1) .. N - 1 /\ check \in -(N - 1) .. N - 1
      BY <2>2 DEF Links
    <2> HIDE DEF N, base, check
    <2>4. base \in -(N + MaxTail) .. N + MaxValue /\ check \in -N .. N
      BY <2>3, <1>2
    <2> QED
      BY <2>4 DEF N, base, check
  <1>5. CASE ~ check < 0
    <2>1. e \in V
      <3>1. V = Taken(trie) /\ trie.array[0].check < 0
        BY <1>1 DEF Shape
      <3> QED
        BY <3>1, <1>3, <1>5 DEF Taken
    <2>2. check \in Slots
      BY <2>1, <1>1, SlotRange DEF Shape, Edges, GhostTyped
    <2>3. base \in Slots \/ base \in 0 .. MaxValue \/ base \in -MaxTail .. 0
      <3>1. CASE InnerNode(trie, L, e)
        BY <3>1, <2>1, <1>1 DEF Shape, Bases
      <3>2. CASE ~ InnerNode(trie, L, e)
        <4> DEFINE x == Holding(trie, P, L, e)
        <4>1. x \in C /\ ~ x[2] /\ x[3] = base
          BY <1>1, <2>1, <3>2, NodesOf DEF Holding
        <4>2. PICK k \in DOMAIN map : x = EndOf(k, map[k], D[k], A[k])
          BY <1>1, <4>1 DEF StoredAs, Ends
        <4>3. EndAt(trie, map, V, P, L, D, A, k, e)
          BY <1>1, <2>1, <4>2, EndKind
        <4> HIDE DEF x
        <4>4. CASE D[k] = Len(k) + 1
          <5>1. base = map[k]
            BY <4>1, <4>2, <4>4 DEF EndOf
          <5>2. map[k] \in Nat /\ map[k] <= MaxValue
            BY <1>1 DEF IInv, StoredAs, IsMap
          <5> QED
            BY <5>1, <5>2, <1>2
        <4>5. CASE D[k] # Len(k) + 1
          <5>1. Hung(map, V, P, D, k, e)
            BY <4>3, <4>5 DEF EndAt
          <5>2. base = - A[k] /\ A[k] \in Nat
            BY <5>1, <1>1, HungFacts DEF HungOn
          <5>3. CellsAre(map, D, A, W, k, e) /\ trie.length \in HeaderCells .. MaxTail
            BY <5>1, HungCells DEF Known, StoredAs, TailHolds, TailTyped
          <5>4. D[k] \in 1 .. Len(k) /\ Len(k) \in Nat
            BY <5>1, <1>1, HungFacts DEF HungOn
          <5> DEFINE a == A[k]
                     w == (Len(k) - D[k]) + 1
          <5>5. w \in Nat
            BY <5>4
          <5> HIDE DEF w
          <5>6. a \in a .. a + w
            BY <5>2, <5>5
          <5>7. a \in Extent(k, D[k], A[k])
            <6>1. a .. a + (Len(k) - D[k]) + 1 = a .. a + w
              BY <5>2, <5>4 DEF w
            <6> QED
              BY <5>6, <6>1 DEF Extent
          <5>8. a < trie.length
            BY <5>3, <5>7 DEF CellsAre
          <5> QED
            BY <5>2, <5>3, <5>8, <1>2
        <4> QED
          BY <4>4, <4>5
      <3> QED
        BY <3>1, <3>2
    <2> HIDE DEF N, base, check
    <2>4. base \in -(N + MaxTail) .. N + MaxValue /\ check \in -N .. N
      BY <2>2, <2>3, <1>2
    <2> QED
      BY <2>4 DEF N, base, check
  <1> QED
    BY <1>4, <1>5

\* The types of the parts of the trie: no node holds a base, a value or an
\* offset out of range.
THEOREM TypesHold ==
    ASSUME RootSpare
    PROVE  Spec => []TypeOK
  <1>1. IInv => TypeOK
    <2> SUFFICES ASSUME IInv PROVE TypeOK
      OBVIOUS
    <2>1. PICK V, P, L, O, C, D, A, W : Known(V, P, L, O, C, D, A, W)
      BY SomeKnown
    <2>2. /\ TrieTyped(trie) /\ TailTyped(trie) /\ \A i \in DOMAIN trie.tail0 : PlaceAt(trie, W, i)
      BY <2>1, SoundFacts DEF Known, TrieAs, StoredAs, TailHolds
    <2>3. /\ trie.nblk \in 1 .. MaxBlocks /\ trie.sibling \in [Slots -> Labels]
          /\ trie.child \in [Slots -> Labels] /\ trie.length \in HeaderCells .. MaxTail
      BY <2>2 DEF TrieTyped, IsNinfo, TailTyped
    <2> DEFINE X == -(MaxBlocks * B + MaxTail) .. MaxBlocks * B + MaxValue
               Y == -(MaxBlocks * B) .. MaxBlocks * B
    <2>4. DOMAIN trie.array = Slots /\ \A e \in InUse : trie.array[e] \in [base : X, check : Y]
      <3>1. trie.array \in [Slots -> [base : Int, check : Int]]
        BY <2>2 DEF TrieTyped
      <3>2. \A e \in InUse : e \in Slots /\ Block(e) < trie.nblk
        BY <2>3, SlotFacts DEF InUse
      <3>3. \A e \in InUse : trie.array[e].base \in X /\ trie.array[e].check \in Y
        BY <2>1, <3>2, NodeBounds
      <3> HIDE DEF X, Y
      <3> QED
        BY <3>1, <3>2, <3>3
    <2>5. ASSUME NEW i \in DOMAIN trie.tail0
          PROVE  trie.tail0[i] \in HeaderCells .. trie.length - 1 - ValueCells
      <3>1. trie.tail0[i] \in Nat /\ trie.tail0[i] >= HeaderCells /\ trie.tail0[i] + 1 < trie.length
        BY <2>2 DEF PlaceAt
      <3>2. trie.length \in Int
        BY <2>3, TailAssumption
      <3> QED
        BY <3>1, <3>2 DEF HeaderCells, ValueCells
    <2> QED
      BY ONLY <2>3, <2>4, <2>5 DEF TypeOK, X, Y
  <1> QED
    BY <1>1, IInvHolds, PTL
=============================================================================
