----------------------------- MODULE TreeLemmas ------------------------------
(***************************************************************************)
(* What the operations of TrieOps (cedarpp.h, and cedar.h alike) do to the *)
(* tree of a trie.  _resolve and _follow: a child that is missing is made, *)
(* in an empty slot of its parent's block or after one of the two nodes in *)
(* conflict has moved its children elsewhere, and every node keeps what it *)
(* holds.  erase: a node without children goes, and those above it that    *)
(* are left without children.  _restore_ninfo and _restore_block: chains   *)
(* and blocks, rebuilt from the array, are as good as those maintained.    *)
(***************************************************************************)
EXTENDS TrieLemmas, SequenceTheorems

-----------------------------------------------------------------------------
(* _resolve and _follow.                                                   *)

-----------------------------------------------------------------------------
\* What the nodes of a tree hold, by their paths: which are inner nodes, and
\* the values and suffixes of the others.
Content(t, U, P, L) ==
    {<<P[e], InnerNode(t, L, e), IF InnerNode(t, L, e) THEN 0 ELSE t.array[e].base>> : e \in U}

\* The tree and the slots in use after _pop_enode.
LEMMA TakeTree ==
    ASSUME NEW R, Spare("chain", R), NEW t, Sound(R, t), NEW U, U = Taken(t),
           NEW P, NEW L, NEW O, NEW X, IsTree(t, U, P, L, O, X, {}),
           NEW e, Takeable(R, t, e), NEW label, NEW from \in Slots,
           NEW u, u = TakeEnode(t, e, label, from)
    PROVE  /\ Sound(R, u) /\ TakenAs(t, u, e, label, from) /\ IsTree(u, U, P, L, O, X, {})
           /\ Taken(u) = U \cup {e} /\ e \notin U /\ e # 0 /\ e \in Slots /\ u.child[e] = 0
           /\ \A x \in U : u.array[x] = t.array[x]
  <1>1. Sound(R, u) /\ TakenAs(t, u, e, label, from)
    BY TakeSound
  <1>2. TrieTyped(t) /\ TrieTyped(u)
    BY <1>1, SoundFacts
  <1>3. e \in Slots /\ e # 0 /\ Block(e) < t.nblk /\ t.array[e].check < 0
    BY DEF Takeable
  <1>4. \A x \in Slots : t.array[x].check \in Int /\ u.array[x].check \in Int
    BY <1>2 DEF TrieTyped
  <1>5. e \notin U
    BY <1>3, <1>4 DEF Taken
  <1>6. \A x \in U : x \in Slots /\ x # e /\ t.array[x].check >= 0 /\ u.array[x] = t.array[x]
    BY <1>1, <1>5 DEF Taken, TakenAs, SameUse
  <1>7. Taken(u) = U \cup {e}
    <2>1. u.array[e].check >= 0
      <3>1. u.array[e].check = from
        BY <1>1 DEF TakenAs, Node
      <3> QED
        BY <3>1, SlotFacts
    <2>2. \A x \in Slots : x # e => (u.array[x].check >= 0 <=> t.array[x].check >= 0)
      BY <1>1, <1>4 DEF TakenAs, SameUse
    <2>3. u.nblk = t.nblk
      BY <1>1 DEF TakenAs
    <2> QED
      BY <2>1, <2>2, <2>3, <1>3 DEF Taken
  <1>8. SameTree(t, u, U)
    <2>1. u.nblk >= t.nblk
      BY <1>1, <1>2 DEF TakenAs, TrieTyped
    <2> QED
      BY <2>1, <1>1, <1>6 DEF SameTree, TakenAs, SameUse
  <1>9. \A x \in Slots : x # 0 /\ x \notin U => u.child[x] = 0
    BY <1>1 DEF IsTree, Clear, TakenAs
  <1>10. IsTree(u, U, P, L, O, X, {})
    BY <1>2, <1>8, <1>9, TreeFrame
  <1> QED
    BY <1>1, <1>3, <1>5, <1>6, <1>7, <1>9, <1>10

\* Looking for a place leaves the tree as it is.
LEMMA KeptTree ==
    ASSUME NEW R, NEW t, Sound(R, t), NEW u, Sound(R, u), Kept(t, u), NEW U, U = Taken(t),
           NEW P, NEW L, NEW O, NEW X, IsTree(t, U, P, L, O, X, {})
    PROVE  /\ Taken(u) = U /\ IsTree(u, U, P, L, O, X, {})
           /\ \A x \in U : u.array[x] = t.array[x]
           /\ u.array[0].base = t.array[0].base
  <1>1. TrieTyped(t) /\ TrieTyped(u)
    BY SoundFacts
  <1>2. t.nblk \in Nat /\ t.nblk # 0 /\ u.nblk \in Nat /\ u.nblk >= t.nblk
    BY <1>1, BlockAssumption DEF TrieTyped, Kept
  <1>3. \A x \in Slots : Block(x) \in Nat /\ t.array[x].check \in Int /\ u.array[x].check \in Int
    BY <1>1, SlotFacts DEF TrieTyped
  <1>4. \A x \in Slots : Block(x) # t.nblk => u.array[x] = t.array[x]
    BY DEF Kept
  <1>5. Taken(u) = U
    <2>1. ASSUME NEW x \in Slots PROVE x \in Taken(u) <=> x \in U
      <3>1. CASE u.nblk = t.nblk /\ u.array = t.array
        BY <3>1 DEF Taken
      <3>2. CASE u.nblk = t.nblk + 1 /\ \A y \in Slots : Block(y) = t.nblk => u.array[y].check < 0
        <4>1. CASE Block(x) = t.nblk
          <5>1. ~ u.array[x].check >= 0 /\ ~ Block(x) < t.nblk
            BY <3>2, <4>1, <1>2, <1>3
          <5> QED
            BY <5>1 DEF Taken
        <4>2. CASE Block(x) # t.nblk
          BY <4>2, <3>2, <1>2, <1>3, <1>4 DEF Taken
        <4> QED
          BY <4>1, <4>2
      <3> QED
        BY <3>1, <3>2 DEF Kept
    <2> QED
      BY <2>1 DEF Taken
  <1>6. \A x \in U : u.array[x] = t.array[x]
    BY <1>2, <1>4 DEF Taken
  <1>7. u.array[0].base = t.array[0].base
    BY <1>2, <1>4, SlotFacts, SlotRange
  <1>8. IsTree(u, U, P, L, O, X, {})
    <2>1. SameTree(t, u, U)
      BY <1>2, <1>6, <1>7 DEF SameTree, Kept
    <2>2. \A x \in Slots : x # 0 /\ x \notin U => u.child[x] = 0
      BY DEF IsTree, Clear, Kept
    <2> QED
      BY <2>1, <2>2, <1>1, TreeFrame
  <1> QED
    BY <1>5, <1>6, <1>7, <1>8

\* The slot e is in use, but in the tree no more.
CanRelease(R, t, U, P, L, O, X, e) ==
    /\ Sound(R, t) /\ e \in Slots /\ e \notin U /\ e # 0 /\ Taken(t) = U \cup {e}
    /\ IsTree(t, U, P, L, O, X, {e})

\* The tree without the slot e.
HasReleased(R, t, u, U, P, L, O, X, e) ==
    /\ Sound(R, u) /\ ReleasedAs(t, u, e) /\ IsTree(u, U, P, L, O, X, {})
    /\ Taken(u) = U /\ \A x \in U : u.array[x] = t.array[x]

\* _push_enode gives it back.
LEMMA ReleaseTree ==
    ASSUME NEW R, Spare("chain", R), NEW t, NEW U, NEW P, NEW L, NEW O, NEW X, NEW e,
           CanRelease(R, t, U, P, L, O, X, e), NEW u, u = Release(t, e)
    PROVE  HasReleased(R, t, u, U, P, L, O, X, e)
  <1> USE DEF CanRelease
  <1>1. Block(e) < t.nblk /\ t.array[e].check >= 0
    BY DEF Taken
  <1>2. Sound(R, u) /\ ReleasedAs(t, u, e)
    BY <1>1, ReleaseSound
  <1>3. TrieTyped(t) /\ TrieTyped(u)
    BY <1>2, SoundFacts
  <1>4. \A x \in Slots : t.array[x].check \in Int /\ u.array[x].check \in Int
    BY <1>3 DEF TrieTyped
  <1>5. \A x \in U : x \in Slots /\ x # e /\ t.array[x].check >= 0 /\ u.array[x] = t.array[x]
    <2>1. \A x \in U : x \in Taken(t) /\ x # e
      OBVIOUS
    <2> QED
      BY <2>1, <1>2 DEF Taken, ReleasedAs, SameUse
  <1>6. Taken(u) = U
    <2>1. ~ u.array[e].check >= 0
      BY <1>2, <1>4 DEF ReleasedAs
    <2>2. \A x \in Slots : x # e => (u.array[x].check >= 0 <=> t.array[x].check >= 0)
      BY <1>2, <1>4 DEF ReleasedAs, SameUse
    <2>3. u.nblk = t.nblk
      BY <1>2 DEF ReleasedAs
    <2>4. Taken(u) = Taken(t) \ {e}
      BY <2>1, <2>2, <2>3 DEF Taken
    <2> QED
      BY <2>4
  <1>7. SameTree(t, u, U)
    <2>1. u.nblk >= t.nblk
      BY <1>2, <1>3 DEF ReleasedAs, TrieTyped
    <2>2. \A x \in U \cup {0} : x \in Slots /\ x # e
      BY <1>5, SlotRange
    <2> QED
      BY <2>1, <2>2, <1>2, <1>5 DEF SameTree, ReleasedAs, SameUse, ZeroAt
  <1>8. \A x \in Slots : x # 0 /\ x \notin U => u.child[x] = 0
    BY <1>2 DEF IsTree, Clear, ReleasedAs, ZeroAt
  <1>9. IsTree(u, U, P, L, O, X, {})
    BY <1>3, <1>7, <1>8, TreeFrame
  <1> QED
    BY <1>2, <1>5, <1>6, <1>9 DEF HasReleased

-----------------------------------------------------------------------------
(* A child moves.                                                          *)

\* The child a of m is now at b.
MovedAs(t, u, U, a, b, m) ==
    /\ DOMAIN u = DOMAIN t /\ u.nblk = t.nblk /\ u.sibling = t.sibling
    /\ \A field \in DOMAIN t \ {"array", "child"} : u[field] = t[field]
    /\ u.array[0].base = t.array[0].base
    /\ \A x \in Slots : x # b => u.child[x] = t.child[x]
    /\ u.child[b] = t.child[a]
    /\ u.array[b].base = t.array[a].base /\ u.array[b].check = m
    /\ \A x \in U \ {a} :
          /\ u.array[x].base = t.array[x].base
          /\ u.array[x].check = IF t.array[x].check = a THEN b ELSE t.array[x].check
    /\ \A x \in Slots : x # b /\ x \notin U \ {a} => u.array[x] = t.array[x]

\* The children of a node whose chain stands are those below its base.
LEMMA ChildrenOf ==
    ASSUME NEW t, NEW U, NEW P, NEW L, NEW O, NEW X, NEW V, IsTree(t, U, P, L, O, X, V),
           NEW n \in U, n \notin X, InnerNode(t, L, n)
    PROVE  LET q == Children(t, n)
           IN  /\ q \in Seq(Labels) /\ Ascending(q) /\ Members(q) = Listed(t, U, L, n)
               /\ q # <<>>
               /\ {x \in U : t.array[x].check = n} = {Xor(t.array[n].base, q[i]) : i \in DOMAIN q}
  <1> DEFINE S == Listed(t, U, L, n)
             base == t.array[n].base
             q == Children(t, n)
  <1>1. /\ U \in SUBSET (Slots \ {0}) /\ L \in [Slots -> Labels] /\ O \in [Slots -> Slots]
        /\ IsNinfo(t)
    BY DEF IsTree, GhostTyped, TrieTyped
  <1>2. base \in Slots /\ S # {} /\ ChainOf(t, n, base, S) /\ S \in SUBSET Labels
    BY DEF IsTree, Bases, Chains, Listed
  <1>3. q \in Seq(Labels) /\ Ascending(q) /\ Members(q) = S
    <2> HIDE DEF S, base
    <2>1. LET w == Chain(t, base, t.child[n])
          IN  w \in Seq(Labels) /\ Ascending(w) /\ Members(w) = S
      BY <1>1, <1>2, ChainLists
    <2> QED
      BY <2>1 DEF Children, base
  <1>4. n # 0
    BY <1>1
  <1>5. ASSUME NEW c \in S PROVE Xor(base, c) \in U /\ t.array[Xor(base, c)].check = n
    BY <1>4, <1>5, ChildAt
  <1>6. ASSUME NEW x \in U, t.array[x].check = n PROVE L[x] \in S /\ x = Xor(base, L[x])
    <2>1. L[x] \in S
      BY <1>1, <1>6, ListedChild
    <2>2. x = Xor(O[x], L[x]) /\ O[x] = base
      BY <1>6 DEF IsTree, Edges, Settled
    <2> QED
      BY <2>1, <2>2
  <1> HIDE DEF S, base, q
  <1>7. {x \in U : t.array[x].check = n} = {Xor(base, c) : c \in S}
    BY <1>5, <1>6
  <1>8. {Xor(base, c) : c \in S} = {Xor(base, q[i]) : i \in DOMAIN q}
    BY <1>3 DEF Members
  <1>9. q # <<>>
    <2>1. DOMAIN q # {}
      BY <1>2, <1>3 DEF Members
    <2> QED
      BY <2>1
  <1> QED
    BY <1>3, <1>7, <1>8, <1>9 DEF S, base, q

\* What Inherit writes.
LEMMA InheritForm ==
    ASSUME NEW t, NEW U, NEW P, NEW L, NEW O, NEW m, IsTree(t, U, P, L, O, {m}, {}),
           NEW a \in U, t.array[a].check = m, m # a, NEW b \in Slots, b # 0, b \notin U,
           t.array[b].check = m, NEW u, u = Inherit(t, a, b, L[a])
    PROVE  TrieTyped(u) /\ MovedAs(t, u, U, a, b, m)
  <1> DEFINE x == t.array[a].base
             G == {y \in U : t.array[y].check = a}
  <1>1. /\ U \in SUBSET (Slots \ {0}) /\ L \in [Slots -> Labels] /\ TrieTyped(t)
        /\ t.array \in [Slots -> [base : Int, check : Int]]
        /\ t.child \in [Slots -> Labels] /\ t.sibling \in [Slots -> Labels]
    BY DEF IsTree, GhostTyped, TrieTyped, IsNinfo
  <1>2. a \in Slots /\ a # 0 /\ a # b /\ x \in Int /\ 0 \in Slots
    BY <1>1, SlotRange
  <1>3. InnerNode(t, L, a) <=> x > 0 /\ L[a] # 0
    <2>1. InnerNode(t, L, a) => x \in Slots /\ Block(x) # 0
      BY DEF IsTree, Bases
    <2>2. x \in Slots /\ Block(x) # 0 => x > 0
      <3>1. Block(0) = 0
        BY SlotFacts
      <3>2. x \in Slots => x \in Nat
        BY SlotFacts
      <3> HIDE DEF x
      <3> QED
        BY <3>1, <3>2
    <2> QED
      BY <2>1, <2>2, <1>2 DEF InnerNode
  <1>4. a \notin G /\ b \notin G /\ G \subseteq U
    BY <1>1, <1>2
  <1>5. CASE InnerNode(t, L, a)
    <2> DEFINE A == [e \in Slots |-> IF e = b THEN Node(x, t.array[b].check)
                                     ELSE IF e \in G THEN Node(t.array[e].base, b)
                                     ELSE t.array[e]]
               C == [t.child EXCEPT ![b] = t.child[a]]
    <2>1. G = {Xor(x, Children(t, a)[i]) : i \in DOMAIN Children(t, a)}
      <3>1. a \notin {m}
        OBVIOUS
      <3> QED
        BY <1>5, <3>1, ChildrenOf
    <2>2. u = Adopt(t, a, b)
      BY <1>3, <1>5 DEF Inherit
    <2> DEFINE K == {Xor(x, Children(t, a)[i]) : i \in DOMAIN Children(t, a)}
               A0 == [e \in Slots |-> IF e = b THEN Node(x, t.array[b].check)
                                     ELSE IF e \in K THEN Node(t.array[e].base, b)
                                     ELSE t.array[e]]
    <2>3. u = [t EXCEPT !.child[b] = t.child[a], !.array = A0]
      BY <2>2 DEF Adopt, Children
    <2>4. A0 = A
      BY <2>1
    <2> HIDE DEF A0, K
    <2> HIDE DEF A, G
    <2>5. /\ DOMAIN u = DOMAIN t /\ u.array = A /\ u.child = C /\ u.nblk = t.nblk
          /\ u.sibling = t.sibling
          /\ \A field \in DOMAIN t \ {"array", "child"} : u[field] = t[field]
      BY <2>3, <2>4, <1>1 DEF TrieTyped, IsNinfo
    <2>6. \A e \in Slots : A[e] = IF e = b THEN Node(x, m) ELSE IF e \in G THEN Node(t.array[e].base, b)
                                  ELSE t.array[e]
      BY DEF A
    <2>7. A \in [Slots -> [base : Int, check : Int]]
      <3>1. \A e \in Slots : A[e] \in [base : Int, check : Int]
        <4>1. m \in Int /\ b \in Int
          BY <1>1, <1>2, SlotFacts
        <4>2. \A e \in Slots : t.array[e] \in [base : Int, check : Int]
          BY <1>1
        <4> SUFFICES ASSUME NEW e \in Slots PROVE A[e] \in [base : Int, check : Int]
          OBVIOUS
        <4>3. x \in Int /\ t.array[e].base \in Int
          BY <4>2, <1>2
        <4> HIDE DEF x
        <4>4. Node(x, m) \in [base : Int, check : Int]
              /\ Node(t.array[e].base, b) \in [base : Int, check : Int]
          BY <4>1, <4>3 DEF Node
        <4> QED
          BY <4>2, <4>4, <2>6
      <3> QED
        BY <3>1 DEF A
    <2>8. TrieTyped(u)
      BY <2>5, <2>7, <1>1, <1>2 DEF TrieTyped, IsNinfo
    <2>9. A[b].base = x /\ A[b].check = m
      <3>1. A[b] = Node(x, m)
        BY <2>6
      <3> HIDE DEF x
      <3> QED
        BY <3>1 DEF Node
    <2>10. ASSUME NEW y \in U \ {a}
           PROVE  /\ A[y].base = t.array[y].base
                  /\ A[y].check = IF t.array[y].check = a THEN b ELSE t.array[y].check
      <3>1. y \in Slots /\ y # b /\ (y \in G <=> t.array[y].check = a)
        BY <1>1 DEF G
      <3>2. CASE y \in G
        <4>1. A[y] = Node(t.array[y].base, b)
          BY <3>1, <3>2, <2>6
        <4> QED
          BY <4>1, <3>1, <3>2 DEF Node
      <3>3. CASE y \notin G
        BY <3>1, <3>3, <2>6
      <3> QED
        BY <3>2, <3>3
    <2>11. ASSUME NEW y \in Slots, y # b, y \notin U \ {a} PROVE A[y] = t.array[y]
      BY <2>6, <2>11, <1>4
    <2>12. A[0].base = t.array[0].base
      BY <1>1, <1>2, <2>6, <1>4
    <2>13. MovedAs(t, u, U, a, b, m)
      BY <2>5, <2>9, <2>10, <2>11, <2>12, <1>1, <1>2 DEF MovedAs, C
    <2> QED
      BY <2>8, <2>13
  <1>6. CASE ~ InnerNode(t, L, a)
    <2> DEFINE A == [t.array EXCEPT ![b].base = x]
    <2>1. u = [t EXCEPT !.array = A]
      BY <1>3, <1>6 DEF Inherit
    <2>2. /\ A \in [Slots -> [base : Int, check : Int]] /\ A[b].base = x /\ A[b].check = m
          /\ \A y \in Slots : y # b => A[y] = t.array[y]
      <3> HIDE DEF x
      <3> QED
        BY <1>1, <1>2
    <2> HIDE DEF A
    <2>3. /\ DOMAIN u = DOMAIN t /\ u.array = A /\ u.child = t.child /\ u.nblk = t.nblk
          /\ u.sibling = t.sibling
          /\ \A field \in DOMAIN t \ {"array", "child"} : u[field] = t[field]
      BY <2>1, <1>1 DEF TrieTyped, IsNinfo
    <2>4. t.child[b] = 0 /\ t.child[a] = 0
      BY <1>6 DEF IsTree, Clear
    <2>5. G = {}
      <3>1. \A y \in U : InnerNode(t, L, t.array[y].check)
        BY DEF IsTree, Edges
      <3> QED
        BY <3>1, <1>6
    <2>6. TrieTyped(u)
      BY <2>2, <2>3, <1>1 DEF TrieTyped, IsNinfo
    <2>7. \A y \in U : y \in Slots /\ y # b /\ t.array[y].check # a
      BY <2>5, <1>1
    <2>8. MovedAs(t, u, U, a, b, m)
      BY <2>2, <2>3, <2>4, <2>7, <1>2 DEF MovedAs
    <2> QED
      BY <2>6, <2>8
  <1> QED
    BY <1>5, <1>6

\* The tree once the node at a stands at b as well: a is the slot it has left.
LEMMA MovedTree ==
    ASSUME NEW t, NEW U, NEW P, NEW L, NEW O, NEW m, IsTree(t, U, P, L, O, {m}, {}),
           m \in U, InnerNode(t, L, m), NEW a \in U, t.array[a].check = m,
           NEW b \in Slots, b # 0, b \notin U, b = Xor(t.array[m].base, L[a]),
           NEW u, TrieTyped(u), MovedAs(t, u, U, a, b, m), NEW U2, NEW P2, NEW L2, NEW O2,
           OneMore(U \ {a}, P, L, O, b, P[a], L[a], t.array[m].base, U2, P2, L2, O2)
    PROVE  IsTree(u, U2, P2, L2, O2, {m}, {a})
  <1> DEFINE base == t.array[m].base
  <1>1. base \in Slots /\ m \in U \cup {0} /\ U \in SUBSET (Slots \ {0}) /\ TrieTyped(t)
    BY DEF IsTree, Bases, GhostTyped
  <1>2. u.nblk >= t.nblk
    BY <1>1 DEF MovedAs, TrieTyped
  <1>3. \A x \in U \ {a} :
          /\ u.array[x].base = t.array[x].base
          /\ u.array[x].check = IF t.array[x].check = a THEN b ELSE t.array[x].check
    BY DEF MovedAs
  <1>4. \A x \in (U \cup {0}) \ {a} : u.child[x] = t.child[x] /\ u.sibling[x] = t.sibling[x]
    BY <1>1, SlotRange DEF MovedAs
  <1>5. /\ u.array[b].base = t.array[a].base /\ u.array[b].check = m
        /\ u.child[b] = t.child[a] /\ u.array[0].base = t.array[0].base
    BY DEF MovedAs
  <1>6. \A x \in Slots : x # 0 /\ x \notin U \ {a} /\ x # b /\ x \notin {a} => u.child[x] = 0
    BY DEF MovedAs, IsTree, Clear
  <1>7. base = t.array[m].base /\ b = Xor(base, L[a])
    OBVIOUS
  <1> DEFINE X == {m}
             V2 == {a}
  <1>8. OneMore(U \ {a}, P, L, O, b, P[a], L[a], base, U2, P2, L2, O2) /\ X = {m} /\ IsTree(t, U, P, L, O, X, {})
    OBVIOUS
  <1> HIDE DEF base, X, V2
  <1> QED
    <2>1. MovedTo(t, u, U, a, b, m, V2)
      BY <1>2, <1>3, <1>4, <1>5, <1>6 DEF MovedTo, V2
    <2>2. CanMove(t, U, L, m, base, a, b)
      BY <1>1, <1>7 DEF CanMove
    <2>3. IsTree(u, U2, P2, L2, O2, X, V2)
      BY <1>8, <2>1, <2>2, Moved
    <2> QED
      BY <2>3 DEF X, V2

\* The slot b was taken for the child a of m.
CanInherit(R, t, U, P, L, O, m, a, b) ==
    /\ Sound(R, t) /\ IsTree(t, U, P, L, O, {m}, {})
    /\ m \in U /\ InnerNode(t, L, m) /\ a \in U /\ t.array[a].check = m
    /\ b \notin U /\ b # 0 /\ b \in Slots /\ Taken(t) = U \cup {b}
    /\ t.array[b].check = m /\ b = Xor(t.array[m].base, L[a])

\* The child a of m is at b, and its own slot not yet given back.
HasInherited(R, t, u, U, P, L, m, a, b, U2, P2, L2, O2) ==
    /\ Sound(R, u) /\ MovedAs(t, u, U, a, b, m) /\ IsTree(u, U2, P2, L2, O2, {m}, {a})
    /\ Taken(u) = U2 \cup {a} /\ a \notin U2 /\ a # 0
    /\ Content(u, U2, P2, L2) = Content(t, U, P, L)
    /\ \A x \in U \ {a} : InnerNode(u, L2, x) <=> InnerNode(t, L, x)
    /\ InnerNode(u, L2, b) <=> InnerNode(t, L, a)

\* The child a of m, for which the slot b was taken, moves there.
LEMMA InheritTree ==
    ASSUME NEW R, NEW t, NEW U, NEW P, NEW L, NEW O, NEW m, NEW a, NEW b,
           CanInherit(R, t, U, P, L, O, m, a, b), NEW u, u = Inherit(t, a, b, L[a]),
           NEW U2, NEW P2, NEW L2, NEW O2,
           OneMore(U \ {a}, P, L, O, b, P[a], L[a], t.array[m].base, U2, P2, L2, O2)
    PROVE  HasInherited(R, t, u, U, P, L, m, a, b, U2, P2, L2, O2)
  <1> USE DEF CanInherit
  <1>1. /\ U \in SUBSET (Slots \ {0}) /\ TrieTyped(t) /\ PoolFields \subseteq DOMAIN t
        /\ P \in [Slots -> Seq(Labels)] /\ L \in [Slots -> Labels] /\ O \in [Slots -> Slots]
    <2>1. Sound(R, t)
      OBVIOUS
    <2>2. TrieTyped(t) /\ PoolFields \subseteq DOMAIN t
      BY <2>1, SoundFacts
    <2> QED
      BY <2>2 DEF IsTree, GhostTyped
  <1>0. U2 = (U \ {a}) \cup {b}
    BY DEF OneMore
  <1>2. m # a
    <2>1. P[a] = Named(P[m], L[a]) /\ P[m] \in Seq(Labels) /\ L[a] \in Labels
      BY <1>1 DEF IsTree, Edges
    <2>2. P[a] # P[m]
      BY <2>1, Names
    <2> QED
      BY <2>2
  <1>3. TrieTyped(u) /\ MovedAs(t, u, U, a, b, m)
    BY <1>2, InheritForm
  <1>4. m # 0 /\ a # 0 /\ a # b /\ a \in Slots /\ m \in Slots /\ m # b
    BY <1>1
  <1>5. /\ \A x \in U : t.array[x].check >= 0
        /\ \A x \in Slots : t.array[x].check \in Int
    <2>1. \A x \in U : x \in Taken(t)
      OBVIOUS
    <2> QED
      BY <2>1, <1>1 DEF Taken, TrieTyped
  <1>6. \A x \in Slots : IF t.array[x].check < 0 THEN u.array[x] = t.array[x]
                         ELSE u.array[x].check >= 0
    <2> SUFFICES ASSUME NEW x \in Slots
                 PROVE  IF t.array[x].check < 0 THEN u.array[x] = t.array[x]
                        ELSE u.array[x].check >= 0
      OBVIOUS
    <2>0. t.array[x].check \in Int
      BY <1>5
    <2>1. CASE x = b
      <3>1. u.array[b].check = m
        BY <1>3 DEF MovedAs
      <3>2. m \in Nat
        BY <1>4, SlotFacts
      <3>3. u.array[x].check >= 0 /\ ~ t.array[x].check < 0
        BY <3>1, <3>2, <2>1, <2>0
      <3> QED
        BY <3>3
    <2>2. CASE x # b /\ x \in U \ {a}
      <3>1. u.array[x].check = IF t.array[x].check = a THEN b ELSE t.array[x].check
        BY <2>2, <1>3 DEF MovedAs
      <3>2. t.array[x].check >= 0
        BY <2>2, <1>5
      <3>3. b \in Nat
        BY SlotFacts
      <3>4. u.array[x].check >= 0
        BY <3>1, <3>2, <3>3, <2>0
      <3> QED
        BY <3>4, <3>2, <2>0
    <2>3. CASE x # b /\ x \notin U \ {a}
      <3>1. u.array[x] = t.array[x]
        BY <2>3, <1>3 DEF MovedAs
      <3> QED
        BY <3>1, <2>0
    <2> QED
      BY <2>1, <2>2, <2>3
  <1>7. Sound(R, u)
    <2>1. WrittenIn(t, u)
      BY <1>1, <1>3, <1>6 DEF WrittenIn, MovedAs, PoolFields
    <2> QED
      BY <2>1, <1>3, WriteSound
  <1>8. Taken(u) = Taken(t)
    <2>1. u.nblk = t.nblk
      BY <1>3 DEF MovedAs
    <2>2. \A x \in Slots : u.array[x].check \in Int
      BY <1>3 DEF TrieTyped
    <2>3. \A x \in Slots : u.array[x].check >= 0 <=> t.array[x].check >= 0
      BY <2>2, <1>5, <1>6
    <2> QED
      BY <2>1, <2>3 DEF Taken
  <1>9. IsTree(u, U2, P2, L2, O2, {m}, {a})
    BY <1>3, MovedTree
  <1>10. /\ P2[b] = P[a] /\ L2[b] = L[a]
         /\ \A x \in Slots : x # b => P2[x] = P[x] /\ L2[x] = L[x]
    BY <1>1, <1>4 DEF With, OneMore
  <1>11. \A x \in U \ {a} : InnerNode(u, L2, x) <=> InnerNode(t, L, x)
    BY <1>1, <1>3, <1>10 DEF InnerNode, MovedAs
  <1>12. InnerNode(u, L2, b) <=> InnerNode(t, L, a)
    BY <1>3, <1>4, <1>10 DEF InnerNode, MovedAs
  <1>13. Content(u, U2, P2, L2) = Content(t, U, P, L)
    <2> DEFINE f(x) == <<P2[x], InnerNode(u, L2, x),
                         IF InnerNode(u, L2, x) THEN 0 ELSE u.array[x].base>>
               g(x) == <<P[x], InnerNode(t, L, x),
                         IF InnerNode(t, L, x) THEN 0 ELSE t.array[x].base>>
    <2>1. ASSUME NEW x \in U \ {a} PROVE f(x) = g(x)
      <3>1. u.array[x].base = t.array[x].base
        BY <1>3 DEF MovedAs
      <3>2. InnerNode(u, L2, x) = InnerNode(t, L, x)
        BY <1>11 DEF InnerNode
      <3>3. P2[x] = P[x]
        BY <1>1, <1>10
      <3> QED
        BY <3>1, <3>2, <3>3
    <2>2. f(b) = g(a)
      <3>1. u.array[b].base = t.array[a].base
        BY <1>3 DEF MovedAs
      <3>2. InnerNode(u, L2, b) = InnerNode(t, L, a)
        BY <1>12 DEF InnerNode
      <3> QED
        BY <3>1, <3>2, <1>10
    <2>3. Content(u, U2, P2, L2) = {f(x) : x \in U2}
      BY DEF Content
    <2>4. Content(t, U, P, L) = {g(x) : x \in U}
      BY DEF Content
    <2> HIDE DEF f, g
    <2>5. {f(x) : x \in U2} = {g(x) : x \in U}
      BY <2>1, <2>2, <1>0
    <2> QED
      BY <2>3, <2>4, <2>5
  <1> QED
    BY <1>0, <1>3, <1>4, <1>7, <1>8, <1>9, <1>11, <1>12, <1>13 DEF HasInherited

-----------------------------------------------------------------------------
(* The conflict.                                                           *)

\* The slots of the j-th label at the old base and at the new one.
OldSlot(c, j)       == Xor(c.base_, c.labels[j])
NewSlot(c, base, j) == Xor(base, c.labels[j])

\* What follows the j-th label on the chain.
NextLabel(c, j) == IF j = Len(c.labels) THEN 0 ELSE c.labels[j + 1]

\* The conflict c: the labels of the node that moves, among them the one whose
\* slot is asked for.
IsConflict(c) ==
    /\ c.labels \in Seq(Labels) /\ Ascending(c.labels)
    /\ c.label \in Labels /\ c.base_n \in Slots /\ c.base_ \in Slots /\ c.newer \in BOOLEAN
    /\ c.n \in Slots \ {0} /\ c.node \in Slots \ {0}
    /\ c.to_pn = Xor(c.base_n, c.label)
    /\ \E k \in DOMAIN c.labels : OldSlot(c, k) = c.to_pn
    /\ c.newer => c.node = c.n /\ c.base_ = c.base_n

\* The newcomer's label has no slot at the old base to leave.
Leaves(c, j) == ~ (c.newer /\ OldSlot(c, j) = c.to_pn)

\* What a node without children holds when it is made.
Leaf(path, label) == <<path, FALSE, IF label # 0 THEN -1 ELSE 0>>

\* The newcomer has its slot.
Placed(c, i) == \E k \in 1 .. i : OldSlot(c, k) = c.to_pn

\* The slot of the newcomer, and what it adds to the tree.
NewcomerSlot(c, base) == IF c.newer THEN Xor(base, c.label) ELSE c.to_pn
Newcomer(c, path)     == Leaf(Named(path, c.label), c.label)

\* Two labels have two slots, old and new.
LEMMA ConflictSlots ==
    ASSUME NEW c, IsConflict(c), NEW base \in Slots
    PROVE  /\ \A j \in DOMAIN c.labels : /\ c.labels[j] \in Labels
                                         /\ OldSlot(c, j) \in Slots /\ NewSlot(c, base, j) \in Slots
                                         /\ NextLabel(c, j) \in Labels
           /\ \A j, k \in DOMAIN c.labels : j # k =>
                 /\ c.labels[j] # c.labels[k] /\ OldSlot(c, j) # OldSlot(c, k)
                 /\ NewSlot(c, base, j) # NewSlot(c, base, k)
           /\ c.newer => \A j \in DOMAIN c.labels : OldSlot(c, j) = c.to_pn <=> c.labels[j] = c.label
           /\ DOMAIN c.labels = 1 .. Len(c.labels) /\ Len(c.labels) \in Nat \ {0}
  <1>1. DOMAIN c.labels = 1 .. Len(c.labels) /\ Len(c.labels) \in Nat
        /\ \A j \in DOMAIN c.labels : c.labels[j] \in Labels
    BY DEF IsConflict
  <1>2. Len(c.labels) # 0
    BY <1>1 DEF IsConflict
  <1>3. \A j, k \in DOMAIN c.labels : j # k => c.labels[j] # c.labels[k]
    <2>1. \A x \in Labels : x \in Nat
      BY SlotFacts DEF Labels
    <2>2. ASSUME NEW j \in DOMAIN c.labels, NEW k \in DOMAIN c.labels, j # k
          PROVE  c.labels[j] # c.labels[k]
      <3>1. j \in Nat /\ k \in Nat /\ (j < k \/ k < j)
        BY <1>1, <2>2
      <3>2. c.labels[j] < c.labels[k] \/ c.labels[k] < c.labels[j]
        BY <3>1 DEF IsConflict, Ascending
      <3>3. c.labels[j] \in Nat /\ c.labels[k] \in Nat
        BY <1>1, <2>1
      <3> QED
        BY <3>2, <3>3
    <2> QED
      BY <2>2
  <1>4. \A j \in DOMAIN c.labels : NextLabel(c, j) \in Labels
    <2>1. 0 \in Labels
      BY SlotFacts
    <2> QED
      BY <1>1, <2>1 DEF NextLabel
  <1>5. \A b \in Slots, x \in Labels, y \in Labels : Xor(b, x) \in Slots /\ (Xor(b, x) = Xor(b, y) => x = y)
    BY XorApart
  <1>6. c.base_ \in Slots
    BY DEF IsConflict
  <1>7. c.newer => c.to_pn = Xor(c.base_, c.label) /\ c.label \in Labels
    BY DEF IsConflict
  <1> QED
    BY <1>1, <1>2, <1>3, <1>4, <1>5, <1>6, <1>7 DEF OldSlot, NewSlot

-----------------------------------------------------------------------------
(* After i of its labels.                                                  *)

\* The node that moves its children, and n, which may be one of them.
MovingNode(u, V, P, L, path, c, base, from) ==
    /\ c.node \in V /\ InnerNode(u, L, c.node)
    /\ u.array[c.node].base = base /\ u.child[c.node] = c.labels[1]
    /\ from \in V /\ InnerNode(u, L, from) /\ P[from] = path
    /\ IF c.newer THEN from = c.node ELSE from # c.node /\ u.array[from].base = c.base_n

\* Its children: those that have moved, those that have not, and no others.
MovingChildren(u, V, L, O, c, base, i) ==
    /\ \A j \in DOMAIN c.labels :
          /\ j <= i => /\ NewSlot(c, base, j) \in V
                       /\ u.array[NewSlot(c, base, j)].check = c.node
                       /\ L[NewSlot(c, base, j)] = c.labels[j]
                       /\ O[NewSlot(c, base, j)] = base
                       /\ u.sibling[NewSlot(c, base, j)] = NextLabel(c, j)
          /\ j > i => Offer(u, NewSlot(c, base, j))
          /\ j > i /\ Leaves(c, j) => /\ OldSlot(c, j) \in V
                                      /\ u.array[OldSlot(c, j)].check = c.node
                                      /\ L[OldSlot(c, j)] = c.labels[j]
    /\ \A x \in V : u.array[x].check = c.node =>
          \E j \in DOMAIN c.labels : \/ j <= i /\ x = NewSlot(c, base, j)
                                     \/ j > i /\ Leaves(c, j) /\ x = OldSlot(c, j)

\* What the tree holds: as before, and the newcomer once it has its slot.
MovingContent(u, V, P, L, path, C, c, base, from, i) ==
    /\ \A x \in C : x[1] # Named(path, c.label)
    /\ IF Placed(c, i)
       THEN /\ Content(u, V, P, L) = C \cup {Newcomer(c, path)}
            /\ NewcomerSlot(c, base) \in V /\ u.array[NewcomerSlot(c, base)].check = from
            /\ L[NewcomerSlot(c, base)] = c.label
       ELSE Content(u, V, P, L) = C

\* The loop of _resolve after i labels.
Moving(R, path, C, c, base, s, V, P, L, O, i) ==
    /\ Sound(R, s.t) /\ V = Taken(s.t) /\ IsTree(s.t, V, P, L, O, {c.node}, {})
    /\ MovingNode(s.t, V, P, L, path, c, base, s.from)
    /\ MovingChildren(s.t, V, L, O, c, base, i)
    /\ MovingContent(s.t, V, P, L, path, C, c, base, s.from, i)

-----------------------------------------------------------------------------
(* One child.                                                              *)

\* The slot w is taken, and next follows it on a chain.
SlotMade(u, v, V, w, label, from, next) ==
    /\ DOMAIN v = DOMAIN u /\ v.nblk = u.nblk /\ v.child = u.child
    /\ \A x \in V : v.array[x] = u.array[x]
    /\ v.array[w] = Node(IF label # 0 THEN -1 ELSE 0, from)
    /\ v.sibling[w] = next /\ v.child[w] = 0
    /\ \A x \in Slots : x # w => v.sibling[x] = u.sibling[x]
    /\ \A x \in Slots : x # w /\ Offer(u, x) => Offer(v, x)

\* Writing a chain in a slot outside the tree does not concern the tree.
LEMMA SlotForTree ==
    ASSUME NEW R, Spare("chain", R), NEW u, Sound(R, u), NEW V, V = Taken(u),
           NEW P, NEW L, NEW O, NEW X, IsTree(u, V, P, L, O, X, {}),
           NEW w, Offer(u, w), NEW label, NEW from \in Slots, NEW next \in Labels,
           NEW v, v = [TakeEnode(u, w, label, from) EXCEPT !.sibling[w] = next]
    PROVE  /\ Sound(R, v) /\ IsTree(v, V, P, L, O, X, {}) /\ Taken(v) = V \cup {w}
           /\ w \notin V /\ w # 0 /\ w \in Slots
           /\ SlotMade(u, v, V, w, label, from, next)
  <1> DEFINE k == TakeEnode(u, w, label, from)
  <1>1. Takeable(R, u, w)
    BY OfferTakeable
  <1>2. /\ Sound(R, k) /\ TakenAs(u, k, w, label, from) /\ IsTree(k, V, P, L, O, X, {})
        /\ Taken(k) = V \cup {w} /\ w \notin V /\ w # 0 /\ w \in Slots /\ k.child[w] = 0
        /\ \A x \in V : k.array[x] = u.array[x]
    BY <1>1, TakeTree
  <1>3. v = [k EXCEPT !.sibling[w] = next]
    OBVIOUS
  <1> HIDE DEF k
  <1>4. TrieTyped(k) /\ TrieTyped(u) /\ PoolFields \subseteq DOMAIN k /\ PoolFields \subseteq DOMAIN u
    BY <1>2, SoundFacts
  <1>5. /\ DOMAIN v = DOMAIN k /\ v.sibling = [k.sibling EXCEPT ![w] = next]
        /\ \A field \in DOMAIN k \ {"sibling"} : v[field] = k[field]
    BY <1>3, <1>4 DEF TrieTyped, IsNinfo
  <1>6. /\ v.child = k.child /\ v.array = k.array /\ v.nblk = k.nblk
        /\ v.num = k.num /\ v.ehead = k.ehead /\ v.lists = k.lists /\ v.trial = k.trial
        /\ v.reject = k.reject /\ v.limit = k.limit
    BY <1>4, <1>5 DEF TrieTyped, IsNinfo, PoolFields
  <1>7. TrieTyped(v)
    <2>1. k.sibling \in [Slots -> Labels] /\ k.child \in [Slots -> Labels]
          /\ {"sibling", "child", "array", "nblk"} \subseteq DOMAIN k
      BY <1>4 DEF TrieTyped, IsNinfo
    <2>2. v.sibling \in [Slots -> Labels]
      BY <2>1, <1>5
    <2>3. k.array \in [Slots -> [base : Int, check : Int]] /\ k.nblk \in 1 .. MaxBlocks
      BY <1>4 DEF TrieTyped
    <2>4. IsNinfo(v)
      BY <2>1, <2>2, <1>5, <1>6 DEF IsNinfo
    <2> QED
      BY <2>1, <2>3, <2>4, <1>5, <1>6 DEF TrieTyped
  <1>8. Sound(R, v)
    <2>1. \A x \in Slots : k.array[x].check \in Int
      BY <1>4 DEF TrieTyped
    <2>2. \A x \in Slots : IF k.array[x].check < 0 THEN v.array[x] = k.array[x]
                           ELSE v.array[x].check >= 0
      BY <2>1, <1>6
    <2>3. WrittenIn(k, v)
      BY <2>2, <1>4, <1>5, <1>6 DEF WrittenIn
    <2> QED
      BY <2>3, <1>2, <1>7, WriteSound
  <1>9. V \subseteq Slots /\ \A x \in V \cup {0} : x \in Slots /\ x # w
    BY <1>2, SlotRange DEF Taken
  <1>10. IsTree(v, V, P, L, O, X, {})
    <2>1. \A x \in Slots : x # w => v.sibling[x] = k.sibling[x]
      BY <1>4, <1>5 DEF TrieTyped, IsNinfo
    <2>2. k.nblk \in Nat
      BY <1>4 DEF TrieTyped
    <2>3. SameTree(k, v, V)
      BY <2>1, <2>2, <1>6, <1>9 DEF SameTree
    <2>4. \A x \in Slots : x # 0 /\ x \notin V /\ x \notin {} => v.child[x] = 0
      BY <1>2, <1>6 DEF IsTree, Clear
    <2> QED
      BY <2>3, <2>4, <1>2, <1>7, TreeFrame
  <1>11. Taken(v) = V \cup {w}
    BY <1>2, <1>6 DEF Taken
  <1>12. SlotMade(u, v, V, w, label, from, next)
    <2>1. /\ k.child = u.child /\ k.sibling = u.sibling /\ k.nblk = u.nblk /\ DOMAIN k = DOMAIN u
          /\ k.array[w] = Node(IF label # 0 THEN -1 ELSE 0, from)
          /\ \A x \in Slots : x # w => (k.array[x].check < 0 <=> u.array[x].check < 0)
      BY <1>2 DEF TakenAs, SameUse
    <2>2. v.sibling[w] = next /\ \A x \in Slots : x # w => v.sibling[x] = u.sibling[x]
      <3>1. k.sibling \in [Slots -> Labels]
        BY <1>4 DEF TrieTyped, IsNinfo
      <3>2. v.sibling[w] = next /\ \A x \in Slots : x # w => v.sibling[x] = k.sibling[x]
        BY <3>1, <1>2, <1>5
      <3> QED
        BY <3>2, <2>1
    <2>3. \A x \in Slots : x # w /\ Offer(u, x) => Offer(v, x)
      BY <2>1, <1>6 DEF Offer
    <2> QED
      BY <2>1, <2>2, <2>3, <1>2, <1>5, <1>6 DEF SlotMade
  <1> QED
    BY <1>2, <1>8, <1>10, <1>11, <1>12

\* The i-th child has its new slot; its old one, if it had one, is no child's.
ChildMoved(u, v, V, V2, L, L2, O, O2, c, base, i) ==
    LET w == NewSlot(c, base, i)
        Z == IF Leaves(c, i) THEN {OldSlot(c, i)} ELSE {}
    IN  /\ w \in V2 /\ L2[w] = c.labels[i] /\ O2[w] = base
        /\ v.array[w].check = c.node /\ v.sibling[w] = NextLabel(c, i)
        /\ \A x \in V \ Z : /\ x \in V2 /\ L2[x] = L[x] /\ O2[x] = O[x]
                            /\ v.array[x].check = c.node <=> u.array[x].check = c.node
                            /\ v.array[x].check = c.node => v.sibling[x] = u.sibling[x]
        /\ \A x \in V2 : x = w \/ x \in V \ Z \/ (x \in Z /\ v.array[x].check # c.node)
        /\ \A x \in Slots : x # w /\ Offer(u, x) => Offer(v, x)

\* The i-th label has moved, the ones before and after stay where they are.
LEMMA ChildMovedOn ==
    ASSUME NEW c, IsConflict(c), NEW base \in Slots, NEW i \in DOMAIN c.labels,
           NEW u, NEW V, NEW L, NEW O, MovingChildren(u, V, L, O, c, base, i - 1),
           NEW v, NEW V2, NEW L2, NEW O2,
           ChildMoved(u, v, V, V2, L, L2, O, O2, c, base, i)
    PROVE  MovingChildren(v, V2, L2, O2, c, base, i)
  <1> DEFINE w == NewSlot(c, base, i)
             Z == IF Leaves(c, i) THEN {OldSlot(c, i)} ELSE {}
             new(j) == NewSlot(c, base, j)
             old(j) == OldSlot(c, j)
             J == DOMAIN c.labels
  <1>1. /\ \A j \in J : old(j) \in Slots /\ new(j) \in Slots
        /\ \A j, k \in J : j # k => c.labels[j] # c.labels[k] /\ old(j) # old(k) /\ new(j) # new(k)
        /\ i \in Nat /\ \A j \in J : j \in Nat
    BY ConflictSlots
  <1>2. /\ w \in V2 /\ L2[w] = c.labels[i] /\ O2[w] = base
        /\ v.array[w].check = c.node /\ v.sibling[w] = NextLabel(c, i)
    BY DEF ChildMoved
  <1>3. \A x \in V \ Z : /\ x \in V2 /\ L2[x] = L[x] /\ O2[x] = O[x]
                         /\ v.array[x].check = c.node <=> u.array[x].check = c.node
                         /\ v.array[x].check = c.node => v.sibling[x] = u.sibling[x]
    BY DEF ChildMoved
  <1>4. \A x \in V2 : x = w \/ x \in V \ Z \/ (x \in Z /\ v.array[x].check # c.node)
    BY DEF ChildMoved
  <1>5. \A x \in Slots : x # w /\ Offer(u, x) => Offer(v, x)
    BY DEF ChildMoved
  <1>6. \A j \in J :
          /\ j <= i - 1 => /\ new(j) \in V /\ u.array[new(j)].check = c.node
                           /\ L[new(j)] = c.labels[j] /\ O[new(j)] = base
                           /\ u.sibling[new(j)] = NextLabel(c, j)
          /\ j > i - 1 => Offer(u, new(j))
          /\ j > i - 1 /\ Leaves(c, j) => /\ old(j) \in V /\ u.array[old(j)].check = c.node
                                          /\ L[old(j)] = c.labels[j]
    BY DEF MovingChildren
  <1>7. \A x \in V : u.array[x].check = c.node =>
          \E j \in J : (j <= i - 1 /\ x = new(j)) \/ (j > i - 1 /\ Leaves(c, j) /\ x = old(j))
    BY DEF MovingChildren
  <1>8. i \in J /\ w = new(i)
    OBVIOUS
  <1>9. Z = IF Leaves(c, i) THEN {old(i)} ELSE {}
    OBVIOUS
  <1> HIDE DEF w, Z, new, old, J
  <1>10. \A j \in J : j <= i => j = i \/ j <= i - 1
    BY <1>1, <1>8
  <1>11. \A j \in J : j > i => j # i /\ j > i - 1
    BY <1>1, <1>8
  <1>12. i > i - 1 /\ ~ i <= i - 1
    BY <1>1, <1>8
  <1>13. ASSUME NEW j \in J, j <= i
         PROVE  /\ new(j) \in V2 /\ v.array[new(j)].check = c.node
                /\ L2[new(j)] = c.labels[j] /\ O2[new(j)] = base
                /\ v.sibling[new(j)] = NextLabel(c, j)
    <2>1. CASE j = i
      BY <2>1, <1>2, <1>8
    <2>2. CASE j # i
      <3>1. /\ new(j) \in V /\ u.array[new(j)].check = c.node
            /\ L[new(j)] = c.labels[j] /\ O[new(j)] = base
            /\ u.sibling[new(j)] = NextLabel(c, j)
        BY <2>2, <1>6, <1>10, <1>13
      <3>2. new(j) \notin Z
        <4>1. CASE Leaves(c, i)
          <5>1. L[old(i)] = c.labels[i]
            BY <4>1, <1>6, <1>8, <1>12
          <5>2. c.labels[i] # c.labels[j]
            BY <2>2, <1>1, <1>8
          <5> QED
            BY <5>1, <5>2, <3>1, <4>1, <1>9
        <4>2. CASE ~ Leaves(c, i)
          BY <4>2, <1>9
        <4> QED
          BY <4>1, <4>2
      <3> QED
        BY <3>1, <3>2, <1>3
    <2> QED
      BY <2>1, <2>2
  <1>14. ASSUME NEW j \in J, j > i
         PROVE  /\ Offer(v, new(j))
                /\ Leaves(c, j) => /\ old(j) \in V2 /\ v.array[old(j)].check = c.node
                                   /\ L2[old(j)] = c.labels[j]
    <2>1. j # i /\ j > i - 1 /\ new(j) # w /\ old(j) # old(i)
      BY <1>1, <1>8, <1>11, <1>14
    <2>2. Offer(v, new(j))
      BY <2>1, <1>1, <1>5, <1>6
    <2>3. ASSUME Leaves(c, j)
          PROVE  old(j) \in V2 /\ v.array[old(j)].check = c.node /\ L2[old(j)] = c.labels[j]
      <3>1. old(j) \in V /\ u.array[old(j)].check = c.node /\ L[old(j)] = c.labels[j]
        BY <2>1, <2>3, <1>6
      <3>2. old(j) \notin Z
        BY <2>1, <1>9
      <3> QED
        BY <3>1, <3>2, <1>3
    <2> QED
      BY <2>2, <2>3
  <1>15. ASSUME NEW x \in V2, v.array[x].check = c.node
         PROVE  \E j \in J : (j <= i /\ x = new(j)) \/ (j > i /\ Leaves(c, j) /\ x = old(j))
    <2>1. CASE x = w
      <3>1. i <= i
        BY <1>1, <1>8
      <3> QED
        BY <2>1, <3>1, <1>8
    <2>2. CASE x # w
      <3>1. x \in V /\ x \notin Z /\ u.array[x].check = c.node
        BY <2>2, <1>3, <1>4, <1>15
      <3>2. PICK j \in J : (j <= i - 1 /\ x = new(j)) \/ (j > i - 1 /\ Leaves(c, j) /\ x = old(j))
        BY <3>1, <1>7
      <3>3. j <= i - 1 => j <= i
        BY <1>1, <1>8
      <3>4. j > i - 1 => j = i \/ j > i
        BY <1>1, <1>8
      <3>5. j = i /\ Leaves(c, j) => x # old(j)
        BY <3>1, <1>9
      <3> QED
        BY <3>2, <3>3, <3>4, <3>5
    <2> QED
      BY <2>1, <2>2
  <1> QED
    BY <1>13, <1>14, <1>15 DEF MovingChildren, new, old, J

-----------------------------------------------------------------------------
(* The newcomer.                                                           *)

\* The nodes V have the bases they had.
SameBases(t, u, V) == \A x \in V : u.array[x].base = t.array[x].base

\* The slot w holds a new node, and the nodes V what they held.
NewLeaf(t, u, V, P, L, w, l) ==
    /\ V \in SUBSET (Slots \ {0}) /\ P \in [Slots -> Seq(Labels)] /\ L \in [Slots -> Labels]
    /\ w \in Slots /\ w # 0 /\ w \notin V /\ l \in Labels
    /\ SameBases(t, u, V) /\ u.array[w].base = IF l # 0 THEN -1 ELSE 0

\* One node more, without children.
LEMMA ContentGrows ==
    ASSUME NEW t, NEW u, NEW V, NEW P, NEW L, NEW w, NEW path, NEW l,
           NewLeaf(t, u, V, P, L, w, l), NEW O, NEW base, NEW V2, NEW P2, NEW L2, NEW O2,
           OneMore(V, P, L, O, w, path, l, base, V2, P2, L2, O2)
    PROVE  /\ Content(u, V2, P2, L2) = Content(t, V, P, L) \cup {Leaf(path, l)}
           /\ \A x \in V : InnerNode(u, L2, x) <=> InnerNode(t, L, x)
  <1> USE DEF NewLeaf
  <1> DEFINE f(x) == <<P2[x], InnerNode(u, L2, x), IF InnerNode(u, L2, x) THEN 0 ELSE u.array[x].base>>
             g(x) == <<P[x], InnerNode(t, L, x), IF InnerNode(t, L, x) THEN 0 ELSE t.array[x].base>>
  <1>1. P2[w] = path /\ L2[w] = l /\ \A x \in Slots : x # w => P2[x] = P[x] /\ L2[x] = L[x]
    BY DEF With, OneMore
  <1>8. V2 = V \cup {w}
    BY DEF OneMore
  <1>2. ASSUME NEW x \in V PROVE InnerNode(u, L2, x) <=> InnerNode(t, L, x)
    <2>1. u.array[x].base = t.array[x].base /\ L2[x] = L[x]
      BY <1>1 DEF SameBases
    <2> QED
      BY <2>1 DEF InnerNode
  <1>3. ASSUME NEW x \in V PROVE f(x) = g(x)
    <2>1. u.array[x].base = t.array[x].base /\ P2[x] = P[x]
      BY <1>1 DEF SameBases
    <2>2. InnerNode(u, L2, x) = InnerNode(t, L, x)
      BY <1>2 DEF InnerNode
    <2> QED
      BY <2>1, <2>2
  <1>4. f(w) = Leaf(path, l)
    <2>1. InnerNode(u, L2, w) = FALSE
      <3>1. l # 0 => ~ u.array[w].base >= 0
        OBVIOUS
      <3> QED
        BY <3>1, <1>1 DEF InnerNode
    <2> QED
      BY <2>1, <1>1 DEF Leaf
  <1>5. Content(u, V2, P2, L2) = {f(x) : x \in V2}
    BY DEF Content
  <1>6. Content(t, V, P, L) = {g(x) : x \in V}
    BY DEF Content
  <1> HIDE DEF f, g
  <1>7. {f(x) : x \in V2} = {g(x) : x \in V} \cup {Leaf(path, l)}
    BY <1>3, <1>4, <1>8
  <1> QED
    BY <1>2, <1>5, <1>6, <1>7

\* A label that leads to no path of the tree is no child's.
LEMMA FreshLabel ==
    ASSUME NEW t, NEW U, NEW P, NEW L, NEW O, NEW X, NEW V, IsTree(t, U, P, L, O, X, V),
           NEW n, NEW label, n = 0 => label # 0,
           \A x \in Content(t, U, P, L) : x[1] # Named(P[n], label)
    PROVE  label \notin Listed(t, U, L, n)
  <1>1. ASSUME NEW e \in U, t.array[e].check = n, L[e] = label PROVE FALSE
    <2> DEFINE x == <<P[e], InnerNode(t, L, e), IF InnerNode(t, L, e) THEN 0 ELSE t.array[e].base>>
    <2>1. x \in Content(t, U, P, L) /\ x[1] = P[e]
      BY DEF Content
    <2>2. P[e] = Named(P[n], label)
      BY <1>1 DEF IsTree, Edges
    <2> HIDE DEF x
    <2> QED
      BY <2>1, <2>2
  <1> QED
    BY <1>1 DEF Listed

\* The slot w was taken for the i-th label, and its chain goes on there.
WithSlot(R, u, v, V, P, L, O, c, base, i, w) ==
    /\ w = NewSlot(c, base, i) /\ w \notin V /\ w # 0 /\ w \in Slots
    /\ Sound(R, v) /\ IsTree(v, V, P, L, O, {c.node}, {}) /\ Taken(v) = V \cup {w}
    /\ SlotMade(u, v, V, w, c.labels[i], c.node, NextLabel(c, i))

\* Whether the newcomer has its slot, after one label more.
LEMMA PlacedOn ==
    ASSUME NEW c, IsConflict(c), NEW i \in DOMAIN c.labels
    PROVE  /\ Placed(c, i) <=> Placed(c, i - 1) \/ OldSlot(c, i) = c.to_pn
           /\ OldSlot(c, i) = c.to_pn => ~ Placed(c, i - 1)
           /\ Placed(c, Len(c.labels)) /\ ~ Placed(c, 0)
  <1>1. /\ \A j, k \in DOMAIN c.labels : j # k => OldSlot(c, j) # OldSlot(c, k)
        /\ DOMAIN c.labels = 1 .. Len(c.labels) /\ Len(c.labels) \in Nat
    BY SlotRange, ConflictSlots
  <1>2. \A k : k \in 1 .. i <=> k \in 1 .. i - 1 \/ k = i
    BY <1>1
  <1>3. \A k \in 1 .. i - 1 : k \in DOMAIN c.labels /\ k # i
    BY <1>1
  <1>4. Placed(c, i) <=> Placed(c, i - 1) \/ OldSlot(c, i) = c.to_pn
    BY <1>2 DEF Placed
  <1>5. OldSlot(c, i) = c.to_pn => ~ Placed(c, i - 1)
    BY <1>1, <1>3 DEF Placed
  <1>6. Placed(c, Len(c.labels))
    BY <1>1 DEF Placed, IsConflict
  <1>7. ~ Placed(c, 0)
    <2>1. 1 .. 0 = {}
      OBVIOUS
    <2> QED
      BY <2>1 DEF Placed
  <1> QED
    BY <1>4, <1>5, <1>6, <1>7

\* The newcomer takes its slot among the children it moves with.
LEMMA PlaceNewcomer ==
    ASSUME NEW R, Spare("chain", R), NEW path, NEW C, NEW c, IsConflict(c), NEW base \in Slots,
           NEW s, NEW V, NEW P, NEW L, NEW O, NEW i \in DOMAIN c.labels,
           Moving(R, path, C, c, base, s, V, P, L, O, i - 1), ~ Leaves(c, i),
           NEW w, NEW v, WithSlot(R, s.t, v, V, P, L, O, c, base, i, w),
           NEW V2, NEW P2, NEW L2, NEW O2,
           OneMore(V, P, L, O, w, Named(path, c.label), c.label, base, V2, P2, L2, O2)
    PROVE  Moving(R, path, C, c, base, [t |-> v, from |-> s.from], V2, P2, L2, O2, i)
  <1> USE DEF WithSlot
  <1> DEFINE u == s.t
             m == c.node
             label == c.label
  <1>1. /\ Sound(R, u) /\ V = Taken(u) /\ IsTree(u, V, P, L, O, {m}, {})
        /\ MovingNode(u, V, P, L, path, c, base, s.from)
        /\ MovingChildren(u, V, L, O, c, base, i - 1)
        /\ MovingContent(u, V, P, L, path, C, c, base, s.from, i - 1)
    BY DEF Moving
  <1>2. /\ c.newer /\ OldSlot(c, i) = c.to_pn /\ c.labels[i] = label /\ s.from = m
        /\ m \in V /\ m \in Slots /\ m # 0 /\ label \in Labels /\ w \in Slots
        /\ w = Xor(base, label) /\ P[m] = path /\ InnerNode(u, L, m) /\ u.array[m].base = base
        /\ u.child[m] = c.labels[1]
    <2>1. c.newer /\ OldSlot(c, i) = c.to_pn
      BY DEF Leaves
    <2>2. c.labels[i] = label /\ NewSlot(c, base, i) \in Slots
      BY <2>1, ConflictSlots
    <2>3. w = Xor(base, label)
      BY <2>2 DEF NewSlot
    <2> QED
      BY <2>1, <2>2, <2>3, <1>1 DEF IsConflict, MovingNode
  <1>3. /\ ~ Placed(c, i - 1) /\ Placed(c, i)
    BY <1>2, PlacedOn
  <1>4. /\ Content(u, V, P, L) = C /\ \A x \in C : x[1] # Named(path, label)
    BY <1>1, <1>3 DEF MovingContent
  <1>5. /\ V \in SUBSET (Slots \ {0}) /\ P \in [Slots -> Seq(Labels)] /\ L \in [Slots -> Labels]
        /\ O \in [Slots -> Slots] /\ TrieTyped(v)
    BY DEF IsTree, GhostTyped
  <1>6. /\ \A x \in V : v.array[x] = u.array[x]
        /\ v.array[w] = Node(IF label # 0 THEN -1 ELSE 0, m) /\ v.child = u.child
        /\ v.sibling[w] = NextLabel(c, i) /\ v.child[w] = 0
        /\ \A x \in Slots : x # w => v.sibling[x] = u.sibling[x]
        /\ \A x \in Slots : x # w /\ Offer(u, x) => Offer(v, x)
    BY <1>2 DEF SlotMade
  <1>7. v.array[w].check = m /\ v.array[w].base = IF label # 0 THEN -1 ELSE 0
    BY <1>6 DEF Node
  <1>8. P2[w] = Named(path, label) /\ L2[w] = label /\ O2[w] = base
        /\ \A x \in Slots : x # w => P2[x] = P[x] /\ L2[x] = L[x] /\ O2[x] = O[x]
    BY <1>2, <1>5 DEF With, OneMore
  <1>0. V2 = V \cup {w}
    BY DEF OneMore
  <1>9. /\ Content(v, V2, P2, L2) = C \cup {Newcomer(c, path)}
        /\ \A x \in V : InnerNode(v, L2, x) <=> InnerNode(u, L, x)
    <2>1. SameBases(u, v, V)
      BY <1>6 DEF SameBases
    <2>2. /\ Content(v, V2, P2, L2)
               = Content(u, V, P, L) \cup {Leaf(Named(path, label), label)}
          /\ \A x \in V : InnerNode(v, L2, x) <=> InnerNode(u, L, x)
      <3>1. OneMore(V, P, L, O, w, Named(path, label), label, base, V2, P2, L2, O2)
        OBVIOUS
      <3>2. NewLeaf(u, v, V, P, L, w, label)
        BY <2>1, <1>2, <1>5, <1>7 DEF NewLeaf
      <3> HIDE DEF u, m, label
      <3> QED
        BY <3>1, <3>2, ContentGrows
    <2> QED
      BY <2>2, <1>4 DEF Newcomer
  <1>10. MovingChildren(v, V2, L2, O2, c, base, i)
    <2>1. ChildMoved(u, v, V, V2, L, L2, O, O2, c, base, i)
      <3>1. w \in V2 /\ L2[w] = c.labels[i] /\ O2[w] = base
        BY <1>0, <1>2, <1>8
      <3>2. \A x \in V : /\ x \in V2 /\ L2[x] = L[x] /\ O2[x] = O[x]
                         /\ v.array[x].check = m <=> u.array[x].check = m
                         /\ v.sibling[x] = u.sibling[x]
        BY <1>0, <1>5, <1>6, <1>8
      <3>3. \A x \in V2 : x = w \/ x \in V
        BY <1>0
      <3> QED
        BY <3>1, <3>2, <3>3, <1>6, <1>7 DEF ChildMoved
    <2> QED
      BY <2>1, <1>1, ChildMovedOn
  <1>11. IsTree(v, V2, P2, L2, O2, {m}, {})
    <2>1. label \notin Listed(v, V, L, m)
      <3>1. Listed(v, V, L, m) = Listed(u, V, L, m)
        BY <1>6 DEF Listed
      <3>2. label \notin Listed(u, V, L, m)
        BY <1>1, <1>2, <1>4, FreshLabel
      <3> QED
        BY <3>1, <3>2
    <2>2. AttachedTo(v, v, V, m, base, w, label, Listed(v, V, L, m) \cup {label}, {m}, {})
      <3>1. \A x \in Slots : x # 0 /\ x \notin V /\ x # w /\ x \notin {} => v.child[x] = 0
        BY DEF IsTree, Clear
      <3>2. v.nblk \in Nat
        BY <1>5 DEF TrieTyped
      <3>3. label # 0 => v.array[w].base < 0
        BY <1>7
      <3> QED
        BY <3>1, <3>2, <3>3, <1>6, <1>7 DEF AttachedTo
    <2>3. InnerNode(v, L, m) /\ base = v.array[m].base
      BY <1>2, <1>6 DEF InnerNode
    <2>4. IsTree(v, V2, P2, L2, O2, {m}, {})
      <3> DEFINE T == Listed(v, V, L, m) \cup {label}
                 Y == {m}
      <3>1. T = Listed(v, V, L, m) \cup {label} /\ Y \in {{m}, {m} \ {m}} /\ m \in Y
        OBVIOUS
      <3>2. m \in V \cup {0} /\ (m = 0 => label # 0)
        BY <1>2
      <3>5. m \in {m} \ Y => m # 0 /\ \A x \in V : v.array[x].check # m
        OBVIOUS
      <3>6. IsTree(v, V, P, L, O, {m}, {})
        OBVIOUS
      <3>3. AttachedTo(v, v, V, m, base, w, label, T, Y, {})
        BY <2>2
      <3>7. OneMore(V, P, L, O, w, Named(P[m], label), label, base, V2, P2, L2, O2)
        BY <1>2
      <3>8. CanAttach(v, V, L, {m}, m, base, w, label, T, Y)
        <4> HIDE DEF T, Y, m, u, label
        <4> QED
          BY <1>2, <2>1, <2>3, <3>1, <3>2, <3>5 DEF CanAttach
      <3> HIDE DEF T, Y, m, u, label
      <3>4. IsTree(v, V2, P2, L2, O2, Y, {})
        BY <1>5, <3>3, <3>6, <3>7, <3>8, Attached
      <3> QED
        BY <3>4 DEF Y
    <2> QED
      BY <2>4
  <1>12. MovingNode(v, V2, P2, L2, path, c, base, m)
    <2>1. m # w
      BY <1>2
    <2>2. v.array[m].base = base /\ v.child[m] = c.labels[1] /\ P2[m] = path /\ InnerNode(v, L2, m)
      BY <2>1, <1>2, <1>6, <1>8, <1>9
    <2> QED
      BY <2>2, <1>0, <1>2 DEF MovingNode
  <1>13. MovingContent(v, V2, P2, L2, path, C, c, base, m, i)
    <2>1. NewcomerSlot(c, base) = w
      BY <1>2 DEF NewcomerSlot
    <2> QED
      BY <2>1, <1>0, <1>3, <1>4, <1>7, <1>8, <1>9 DEF MovingContent
  <1>14. Taken(v) = V2
    BY <1>0
  <1>15. [t |-> v, from |-> s.from].t = v /\ [t |-> v, from |-> s.from].from = m
    BY <1>2
  <1> QED
    BY <1>10, <1>11, <1>12, <1>13, <1>14, <1>15 DEF Moving

-----------------------------------------------------------------------------
(* A child that moves.                                                     *)

\* The i-th child has moved from a to w in x, and n, which is now f, with it.
Inherited(R, u, x, path, C, c, base, i, from, f, a, w, V, P, L, O, V2, P2, L2, O2) ==
    /\ a = OldSlot(c, i) /\ a \in V /\ a \notin V2 /\ a # 0 /\ a \in Slots
    /\ V2 = (V \ {a}) \cup {w} /\ Taken(x) = V2 \cup {a}
    /\ Sound(R, x) /\ IsTree(x, V2, P2, L2, O2, {c.node}, {a})
    /\ MovingNode(x, V2, P2, L2, path, c, base, f)
    /\ ChildMoved(u, x, V, V2, L, L2, O, O2, c, base, i)
    /\ Content(x, V2, P2, L2) = Content(u, V, P, L)
    /\ \A y \in V \ {a} : u.array[y].check = from => x.array[y].check = f

\* The i-th child once the new slot has its base and its children.
LEMMA ChildInherits ==
    ASSUME NEW R, NEW path, NEW C, NEW c, IsConflict(c), NEW base \in Slots,
           NEW s, NEW V, NEW P, NEW L, NEW O, NEW i \in DOMAIN c.labels,
           Moving(R, path, C, c, base, s, V, P, L, O, i - 1), Leaves(c, i),
           NEW w, NEW v, WithSlot(R, s.t, v, V, P, L, O, c, base, i, w),
           NEW a, a = OldSlot(c, i), NEW x, x = Inherit(v, a, w, c.labels[i]),
           NEW f, f = IF ~ c.newer /\ a = s.from THEN w ELSE s.from,
           NEW V2, NEW P2, NEW L2, NEW O2,
           OneMore(V \ {a}, P, L, O, w, P[a], c.labels[i], base, V2, P2, L2, O2)
    PROVE  Inherited(R, s.t, x, path, C, c, base, i, s.from, f, a, w, V, P, L, O, V2, P2, L2, O2)
  <1> DEFINE u == s.t
             m == c.node
  <1>1. /\ Sound(R, u) /\ V = Taken(u) /\ IsTree(u, V, P, L, O, {m}, {})
        /\ MovingNode(u, V, P, L, path, c, base, s.from)
        /\ MovingChildren(u, V, L, O, c, base, i - 1)
    BY DEF Moving
  <1>2. /\ V \in SUBSET (Slots \ {0}) /\ P \in [Slots -> Seq(Labels)] /\ L \in [Slots -> Labels]
        /\ O \in [Slots -> Slots] /\ TrieTyped(v)
    BY DEF IsTree, GhostTyped, WithSlot
  <1>3. a \in V /\ u.array[a].check = m /\ L[a] = c.labels[i]
    <2>1. i \in Nat
      BY ConflictSlots
    <2>2. i > i - 1
      BY <2>1
    <2> QED
      BY <2>2, <1>1 DEF MovingChildren
  <1>4. /\ m \in V /\ InnerNode(u, L, m) /\ u.array[m].base = base /\ u.child[m] = c.labels[1]
        /\ s.from \in V /\ InnerNode(u, L, s.from) /\ P[s.from] = path
        /\ IF c.newer THEN s.from = m ELSE s.from # m /\ u.array[s.from].base = c.base_n
    BY <1>1 DEF MovingNode
  <1>5. /\ w = NewSlot(c, base, i) /\ w \notin V /\ w # 0 /\ w \in Slots
        /\ Sound(R, v) /\ IsTree(v, V, P, L, O, {m}, {}) /\ Taken(v) = V \cup {w}
        /\ SlotMade(u, v, V, w, c.labels[i], m, NextLabel(c, i))
    BY DEF WithSlot
  <1>6. /\ \A y \in V : v.array[y] = u.array[y]
        /\ v.array[w] = Node(IF c.labels[i] # 0 THEN -1 ELSE 0, m) /\ v.child = u.child
        /\ v.sibling[w] = NextLabel(c, i) /\ v.child[w] = 0
        /\ \A y \in Slots : y # w => v.sibling[y] = u.sibling[y]
        /\ \A y \in Slots : y # w /\ Offer(u, y) => Offer(v, y)
    BY <1>5 DEF SlotMade
  <1>7. \A y \in V : InnerNode(v, L, y) <=> InnerNode(u, L, y)
    BY <1>6 DEF InnerNode
  <1>8. CanInherit(R, v, V, P, L, O, m, a, w)
    <2>1. v.array[w].check = m
      BY <1>6 DEF Node
    <2>2. w = Xor(v.array[m].base, L[a])
      BY <1>3, <1>4, <1>5, <1>6 DEF NewSlot
    <2>3. v.array[a].check = m
      BY <1>3, <1>6
    <2> QED
      BY <2>1, <2>2, <2>3, <1>3, <1>4, <1>5, <1>7 DEF CanInherit
  <1>9. OneMore(V \ {a}, P, L, O, w, P[a], L[a], v.array[m].base, V2, P2, L2, O2)
    <2>1. v.array[m].base = base
      BY <1>4, <1>6
    <2> QED
      BY <2>1, <1>3
  <1>10. /\ Sound(R, x) /\ MovedAs(v, x, V, a, w, m) /\ IsTree(x, V2, P2, L2, O2, {m}, {a})
         /\ Taken(x) = V2 \cup {a} /\ a \notin V2 /\ a # 0
         /\ Content(x, V2, P2, L2) = Content(v, V, P, L)
         /\ \A y \in V \ {a} : InnerNode(x, L2, y) <=> InnerNode(v, L, y)
         /\ InnerNode(x, L2, w) <=> InnerNode(v, L, a)
    <2>1. x = Inherit(v, a, w, L[a])
      BY <1>3
    <2> HIDE DEF m, u
    <2>2. HasInherited(R, v, x, V, P, L, m, a, w, V2, P2, L2, O2)
      BY <2>1, <1>8, <1>9, InheritTree
    <2> QED
      BY <2>2 DEF HasInherited
  <1>11. Content(v, V, P, L) = Content(u, V, P, L)
    <2> DEFINE k(y) == <<P[y], InnerNode(v, L, y), IF InnerNode(v, L, y) THEN 0 ELSE v.array[y].base>>
               g(y) == <<P[y], InnerNode(u, L, y), IF InnerNode(u, L, y) THEN 0 ELSE u.array[y].base>>
    <2>1. ASSUME NEW y \in V PROVE k(y) = g(y)
      <3>1. v.array[y] = u.array[y]
        BY <1>6
      <3>2. InnerNode(v, L, y) = InnerNode(u, L, y)
        BY <1>7 DEF InnerNode
      <3> QED
        BY <3>1, <3>2
    <2>2. Content(v, V, P, L) = {k(y) : y \in V} /\ Content(u, V, P, L) = {g(y) : y \in V}
      BY DEF Content
    <2> HIDE DEF k, g
    <2> QED
      BY <2>1, <2>2
  <1>0. V2 = (V \ {a}) \cup {w}
    BY DEF OneMore
  <1>12. P2[w] = P[a] /\ L2[w] = c.labels[i] /\ O2[w] = base
         /\ \A y \in Slots : y # w => P2[y] = P[y] /\ L2[y] = L[y] /\ O2[y] = O[y]
    BY <1>2, <1>5 DEF With, OneMore
  <1>13. /\ x.sibling = v.sibling /\ \A y \in Slots : y # w => x.child[y] = v.child[y]
         /\ x.array[w].base = v.array[a].base /\ x.array[w].check = m
         /\ x.nblk = v.nblk
         /\ \A y \in V \ {a} :
              /\ x.array[y].base = v.array[y].base
              /\ x.array[y].check = IF v.array[y].check = a THEN w ELSE v.array[y].check
         /\ \A y \in Slots : y # w /\ y \notin V \ {a} => x.array[y] = v.array[y]
    BY <1>10 DEF MovedAs
  <1>14. m # a /\ m # w
    <2>1. m \in V /\ a \notin V2
      BY <1>4, <1>10
    <2>2. P[a] = Named(P[m], L[a]) /\ P[m] \in Seq(Labels) /\ L[a] \in Labels
      <3>1. P[a] = Named(P[m], L[a])
        BY <1>1, <1>3 DEF IsTree, Edges
      <3>2. m \in Slots /\ a \in Slots
        BY <1>2, <1>3, <1>4
      <3> QED
        BY <3>1, <3>2, <1>2
    <2>3. P[a] # P[m]
      BY <2>2, Names
    <2> QED
      BY <2>1, <2>3, <1>5
  <1>15. \A y \in V \ {a} : /\ y \in V2 /\ y \in Slots /\ y # w
                            /\ x.array[y].check = IF u.array[y].check = a THEN w ELSE u.array[y].check
                            /\ x.sibling[y] = u.sibling[y]
                            /\ x.array[y].base = u.array[y].base
    <2> SUFFICES ASSUME NEW y \in V \ {a}
                 PROVE  /\ y \in V2 /\ y \in Slots /\ y # w
                        /\ x.array[y].check = IF u.array[y].check = a THEN w ELSE u.array[y].check
                        /\ x.sibling[y] = u.sibling[y]
                        /\ x.array[y].base = u.array[y].base
      OBVIOUS
    <2>1. y \in V2 /\ y \in Slots /\ y # w
      BY <1>0, <1>2, <1>5
    <2>2. v.array[y] = u.array[y] /\ v.sibling[y] = u.sibling[y]
      BY <2>1, <1>6
    <2> QED
      BY <2>1, <2>2, <1>13
  <1>16. ChildMoved(u, x, V, V2, L, L2, O, O2, c, base, i)
    <2>1. w \in V2 /\ x.sibling[w] = NextLabel(c, i)
      BY <1>0, <1>6, <1>13
    <2>2. \A y \in V \ {a} : /\ y \in V2 /\ L2[y] = L[y] /\ O2[y] = O[y]
                             /\ x.array[y].check = m <=> u.array[y].check = m
                             /\ x.sibling[y] = u.sibling[y]
      <3>1. \A y \in V \ {a} : x.array[y].check = m <=> u.array[y].check = m
        BY <1>14, <1>15
      <3> QED
        BY <3>1, <1>12, <1>15
    <2>3. \A y \in V2 : y = w \/ y \in V \ {a}
      BY <1>0
    <2>4. \A y \in Slots : y # w /\ Offer(u, y) => Offer(x, y)
      <3> SUFFICES ASSUME NEW y \in Slots, y # w, Offer(u, y) PROVE Offer(x, y)
        OBVIOUS
      <3>1. Offer(v, y)
        BY <1>6
      <3>2. y \notin V
        <4>1. ASSUME y \in V PROVE FALSE
          <5>1. u.array[y].check >= 0 /\ u.array[y].check < 0
            BY <4>1, <1>1 DEF Taken, Offer
          <5>2. u.array[y].check \in Int
            BY <1>1 DEF IsTree, TrieTyped
          <5> QED
            BY <5>1, <5>2
        <4> QED
          BY <4>1
      <3>3. x.array[y] = v.array[y]
        BY <3>2, <1>13
      <3> QED
        BY <3>1, <3>3, <1>13 DEF Offer
    <2>5. w = NewSlot(c, base, i) /\ (IF Leaves(c, i) THEN {OldSlot(c, i)} ELSE {}) = {a}
      BY <1>5
    <2>6. L2[w] = c.labels[i] /\ O2[w] = base /\ x.array[w].check = m
      BY <1>12, <1>13
    <2> QED
      BY <2>1, <2>2, <2>3, <2>4, <2>5, <2>6 DEF ChildMoved
  <1>17. \A y \in V \ {a} : u.array[y].check = s.from => x.array[y].check = f
    <2>1. c.newer => s.from # a
      BY <1>4, <1>14
    <2> QED
      BY <2>1, <1>15
  <1>18. MovingNode(x, V2, P2, L2, path, c, base, f)
    <2>1. m \in V2 /\ InnerNode(x, L2, m) /\ x.array[m].base = base /\ x.child[m] = c.labels[1]
      <3>1. m \in V \ {a} /\ m \in Slots
        BY <1>2, <1>4, <1>14
      <3>2. x.child[m] = u.child[m]
        BY <3>1, <1>6, <1>13, <1>14
      <3>3. m \in V2 /\ x.array[m].base = u.array[m].base
        BY <3>1, <1>15
      <3>4. InnerNode(x, L2, m)
        BY <3>1, <1>4, <1>7, <1>10
      <3> QED
        BY <3>2, <3>3, <3>4, <1>4
    <2>2. CASE s.from = a /\ ~ c.newer
      <3>1. f = w /\ f # m
        BY <2>2, <1>14
      <3>2. InnerNode(x, L2, w) /\ w \in V2 /\ P2[w] = path
        BY <2>2, <1>0, <1>3, <1>4, <1>7, <1>10, <1>12
      <3>3. x.array[w].base = c.base_n
        BY <2>2, <1>3, <1>4, <1>6, <1>13
      <3> QED
        BY <2>1, <2>2, <3>1, <3>2, <3>3 DEF MovingNode
    <2>3. CASE ~ (s.from = a /\ ~ c.newer)
      <3>1. f = s.from
        BY <2>3
      <3>2. f \in V \ {a}
        BY <2>3, <3>1, <1>4, <1>14
      <3>3. f \in V2 /\ x.array[f].base = u.array[f].base /\ P2[f] = P[f]
        BY <3>2, <1>12, <1>15
      <3>4. InnerNode(x, L2, f)
        BY <3>1, <3>2, <1>4, <1>7, <1>10
      <3> QED
        BY <2>1, <3>1, <3>3, <3>4, <1>4 DEF MovingNode
    <2> QED
      BY <2>2, <2>3
  <1> QED
    <2>1. a \in Slots
      BY <1>2, <1>3
    <2> QED
      BY <2>1, <1>0, <1>3, <1>10, <1>11, <1>16, <1>17, <1>18 DEF Inherited

\* ... and its old slot is given back.
LEMMA MovedAway ==
    ASSUME NEW R, Spare("chain", R), NEW path, NEW C, NEW c, IsConflict(c), NEW base \in Slots,
           NEW s, NEW V, NEW P, NEW L, NEW O, NEW i \in DOMAIN c.labels,
           Moving(R, path, C, c, base, s, V, P, L, O, i - 1), Leaves(c, i),
           OldSlot(c, i) # c.to_pn, NEW x, NEW f, NEW a, NEW w,
           NEW V2, NEW P2, NEW L2, NEW O2,
           Inherited(R, s.t, x, path, C, c, base, i, s.from, f, a, w, V, P, L, O, V2, P2, L2, O2),
           NEW y, y = Release(x, a)
    PROVE  Moving(R, path, C, c, base, [t |-> y, from |-> f], V2, P2, L2, O2, i)
  <1> DEFINE u == s.t
             m == c.node
             e0 == NewcomerSlot(c, base)
  <1>1. /\ a = OldSlot(c, i) /\ a \in V /\ a \notin V2 /\ a # 0 /\ a \in Slots
        /\ V2 = (V \ {a}) \cup {w} /\ Taken(x) = V2 \cup {a}
        /\ Sound(R, x) /\ IsTree(x, V2, P2, L2, O2, {m}, {a})
        /\ MovingNode(x, V2, P2, L2, path, c, base, f)
        /\ ChildMoved(u, x, V, V2, L, L2, O, O2, c, base, i)
        /\ Content(x, V2, P2, L2) = Content(u, V, P, L)
        /\ \A z \in V \ {a} : u.array[z].check = s.from => x.array[z].check = f
    BY DEF Inherited
  <1>2. /\ Sound(R, u) /\ V = Taken(u) /\ IsTree(u, V, P, L, O, {m}, {})
        /\ MovingChildren(u, V, L, O, c, base, i - 1)
        /\ MovingContent(u, V, P, L, path, C, c, base, s.from, i - 1)
    BY DEF Moving
  <1>3. HasReleased(R, x, y, V2, P2, L2, O2, {m}, a)
    <2>1. CanRelease(R, x, V2, P2, L2, O2, {m}, a)
      BY <1>1 DEF CanRelease
    <2> QED
      BY <2>1, ReleaseTree
  <1>4. /\ Sound(R, y) /\ IsTree(y, V2, P2, L2, O2, {m}, {}) /\ Taken(y) = V2
        /\ \A z \in V2 : y.array[z] = x.array[z]
        /\ ReleasedAs(x, y, a)
    BY <1>3 DEF HasReleased
  <1>5. /\ y.nblk = x.nblk
        /\ \A z \in Slots : z # a => /\ y.sibling[z] = x.sibling[z] /\ y.child[z] = x.child[z]
                                     /\ y.array[z].check < 0 <=> x.array[z].check < 0
    BY <1>4 DEF ReleasedAs, ZeroAt, SameUse
  <1>6. V2 \subseteq Slots /\ \A z \in V2 : z # a
    BY <1>1, <1>4 DEF Taken
  <1>7. MovingNode(y, V2, P2, L2, path, c, base, f)
    <2>1. /\ m \in V2 /\ InnerNode(x, L2, m) /\ x.array[m].base = base /\ x.child[m] = c.labels[1]
          /\ f \in V2 /\ InnerNode(x, L2, f) /\ P2[f] = path
          /\ IF c.newer THEN f = m ELSE f # m /\ x.array[f].base = c.base_n
      BY <1>1 DEF MovingNode
    <2>2. y.array[m] = x.array[m] /\ y.array[f] = x.array[f] /\ y.child[m] = x.child[m]
      BY <2>1, <1>4, <1>5, <1>6
    <2> QED
      BY <2>1, <2>2 DEF MovingNode, InnerNode
  <1>8. ChildMoved(u, y, V, V2, L, L2, O, O2, c, base, i)
    <2> DEFINE Z == IF Leaves(c, i) THEN {OldSlot(c, i)} ELSE {}
               n == NewSlot(c, base, i)
    <2>1. /\ n \in V2 /\ L2[n] = c.labels[i] /\ O2[n] = base
          /\ x.array[n].check = m /\ x.sibling[n] = NextLabel(c, i)
          /\ \A z \in V \ Z : /\ z \in V2 /\ L2[z] = L[z] /\ O2[z] = O[z]
                              /\ x.array[z].check = m <=> u.array[z].check = m
                              /\ x.array[z].check = m => x.sibling[z] = u.sibling[z]
          /\ \A z \in V2 : z = n \/ z \in V \ Z \/ (z \in Z /\ x.array[z].check # m)
          /\ \A z \in Slots : z # n /\ Offer(u, z) => Offer(x, z)
      BY <1>1 DEF ChildMoved
    <2> HIDE DEF Z
    <2>2. \A z \in V2 : y.array[z] = x.array[z] /\ y.sibling[z] = x.sibling[z]
      BY <1>4, <1>5, <1>6
    <2>3. \A z \in Slots : Offer(x, z) => Offer(y, z)
      <3>1. ~ Offer(x, a)
        <4>1. x.array[a].check >= 0 /\ x.array[a].check \in Int
          BY <1>1 DEF Taken, IsTree, TrieTyped
        <4> QED
          BY <4>1 DEF Offer
      <3> QED
        BY <3>1, <1>5 DEF Offer
    <2>4. /\ n \in V2 /\ L2[n] = c.labels[i] /\ O2[n] = base
          /\ y.array[n].check = m /\ y.sibling[n] = NextLabel(c, i)
      BY <2>1, <2>2
    <2>5. \A z \in V \ Z : /\ z \in V2 /\ L2[z] = L[z] /\ O2[z] = O[z]
                           /\ y.array[z].check = m <=> u.array[z].check = m
                           /\ y.array[z].check = m => y.sibling[z] = u.sibling[z]
      BY <2>1, <2>2
    <2>6. \A z \in V2 : z = n \/ z \in V \ Z \/ (z \in Z /\ y.array[z].check # m)
      BY <2>1, <2>2
    <2>7. \A z \in Slots : z # n /\ Offer(u, z) => Offer(y, z)
      BY <2>1, <2>3
    <2> QED
      BY <2>4, <2>5, <2>6, <2>7 DEF ChildMoved, Z
  <1>9. MovingChildren(y, V2, L2, O2, c, base, i)
    BY <1>2, <1>8, ChildMovedOn
  <1>10. Content(y, V2, P2, L2) = Content(u, V, P, L)
    <2>1. Content(y, V2, P2, L2) = Content(x, V2, P2, L2)
      BY <1>4 DEF Content, InnerNode
    <2> QED
      BY <2>1, <1>1
  <1>11. MovingContent(y, V2, P2, L2, path, C, c, base, f, i)
    <2>1. Placed(c, i) <=> Placed(c, i - 1)
      BY PlacedOn
    <2>2. CASE Placed(c, i)
      <3>1. /\ Content(u, V, P, L) = C \cup {Newcomer(c, path)}
            /\ e0 \in V /\ u.array[e0].check = s.from /\ L[e0] = c.label
            /\ \A z \in C : z[1] # Named(path, c.label)
        BY <2>1, <2>2, <1>2 DEF MovingContent
      <3>2. e0 # a
        <4>1. CASE c.newer
          <5>1. L[a] = c.labels[i]
            <6>1. i \in Nat
              BY ConflictSlots
            <6>2. i > i - 1
              BY <6>1
            <6> QED
              BY <6>2, <1>1, <1>2 DEF MovingChildren
          <5>2. c.labels[i] # c.label
            BY <4>1, ConflictSlots
          <5> QED
            BY <5>1, <5>2, <3>1
        <4>2. CASE ~ c.newer
          BY <4>2, <1>1 DEF NewcomerSlot
        <4> QED
          BY <4>1, <4>2
      <3>3. x.array[e0].check = f
        BY <3>1, <3>2, <1>1
      <3>4. e0 \in V2 /\ L2[e0] = L[e0]
        <4>1. (IF Leaves(c, i) THEN {OldSlot(c, i)} ELSE {}) = {a}
          BY <1>1
        <4> HIDE DEF e0
        <4> QED
          BY <3>1, <3>2, <4>1, <1>1 DEF ChildMoved
      <3>5. y.array[e0].check = f
        BY <3>3, <3>4, <1>4
      <3> HIDE DEF e0
      <3>6. Content(y, V2, P2, L2) = C \cup {Newcomer(c, path)}
        BY <3>1, <1>10
      <3> QED
        BY <2>2, <3>1, <3>4, <3>5, <3>6 DEF MovingContent, e0
    <2>3. CASE ~ Placed(c, i)
      <3>1. Content(u, V, P, L) = C /\ \A z \in C : z[1] # Named(path, c.label)
        BY <2>1, <2>3, <1>2 DEF MovingContent
      <3> QED
        BY <2>3, <3>1, <1>10 DEF MovingContent
    <2> QED
      BY <2>2, <2>3
  <1>12. [t |-> y, from |-> f].t = y /\ [t |-> y, from |-> f].from = f
    OBVIOUS
  <1> QED
    BY <1>4, <1>7, <1>9, <1>11, <1>12 DEF Moving

\* ... or its old slot goes to the newcomer, which joins the children of n.
LEMMA TakeOverChild ==
    ASSUME NEW R, Spare("chain", R), NEW path, NEW C, NEW c, IsConflict(c), NEW base \in Slots,
           NEW s, NEW V, NEW P, NEW L, NEW O, NEW i \in DOMAIN c.labels,
           Moving(R, path, C, c, base, s, V, P, L, O, i - 1), ~ c.newer,
           OldSlot(c, i) = c.to_pn, NEW x, NEW f, NEW a, NEW w,
           NEW V2, NEW P2, NEW L2, NEW O2,
           Inherited(R, s.t, x, path, C, c, base, i, s.from, f, a, w, V, P, L, O, V2, P2, L2, O2),
           NEW y, y = TakeOver(x, c, f), NEW V3, NEW P3, NEW L3, NEW O3,
           OneMore(V2, P2, L2, O2, a, Named(path, c.label), c.label, c.base_n, V3, P3, L3, O3)
    PROVE  Moving(R, path, C, c, base, [t |-> y, from |-> f], V3, P3, L3, O3, i)
  <1> DEFINE u == s.t
             m == c.node
             label == c.label
             b == c.base_n
             S == Listed(x, V2, L2, f)
             T == S \cup {label}
             z == PushSibling(x, f, b, label, TRUE)
  <1>1. /\ a = OldSlot(c, i) /\ a \in V /\ a \notin V2 /\ a # 0 /\ a \in Slots
        /\ V2 = (V \ {a}) \cup {w} /\ Taken(x) = V2 \cup {a}
        /\ Sound(R, x) /\ IsTree(x, V2, P2, L2, O2, {m}, {a})
        /\ MovingNode(x, V2, P2, L2, path, c, base, f)
        /\ ChildMoved(u, x, V, V2, L, L2, O, O2, c, base, i)
        /\ Content(x, V2, P2, L2) = Content(u, V, P, L)
    BY DEF Inherited
  <1>2. /\ Sound(R, u) /\ V = Taken(u) /\ IsTree(u, V, P, L, O, {m}, {})
        /\ MovingChildren(u, V, L, O, c, base, i - 1)
        /\ MovingContent(u, V, P, L, path, C, c, base, s.from, i - 1)
    BY DEF Moving
  <1>3. Placed(c, i) /\ ~ Placed(c, i - 1)
    BY PlacedOn
  <1>4. /\ Content(x, V2, P2, L2) = C /\ \A e \in C : e[1] # Named(path, label)
    BY <1>1, <1>2, <1>3 DEF MovingContent
  <1>5. /\ m \in V2 /\ InnerNode(x, L2, m) /\ x.array[m].base = base /\ x.child[m] = c.labels[1]
        /\ f \in V2 /\ InnerNode(x, L2, f) /\ P2[f] = path /\ f # m /\ x.array[f].base = b
    BY <1>1 DEF MovingNode
  <1>6. /\ V2 \in SUBSET (Slots \ {0}) /\ P2 \in [Slots -> Seq(Labels)] /\ L2 \in [Slots -> Labels]
        /\ O2 \in [Slots -> Slots] /\ TrieTyped(x)
    BY <1>1 DEF IsTree, GhostTyped
  <1>7. f \in Slots /\ f # 0 /\ f # a /\ m \in Slots /\ m # a /\ b \in Slots /\ label \in Labels
        /\ a = Xor(b, label) /\ 0 \in Slots
    BY <1>1, <1>5, <1>6, SlotRange DEF IsConflict
  <1>8. S \in SUBSET Labels /\ S # {} /\ ChainOf(x, f, b, S)
    <2>1. S # {} /\ ChainOf(x, f, x.array[f].base, S)
      BY <1>1, <1>5 DEF IsTree, Chains
    <2>2. S \in SUBSET Labels
      BY DEF Listed
    <2> QED
      BY <2>1, <2>2, <1>5
  <1>9. label \notin S
    <2>1. \A e \in Content(x, V2, P2, L2) : e[1] # Named(P2[f], label)
      BY <1>4, <1>5
    <2> HIDE DEF m, label, b, u
    <2> QED
      BY <2>1, <1>1, <1>7, FreshLabel
  <1>10. ChainOf(z, f, b, T) /\ OnlyChain(x, z, f, b, T)
    <2>1. IsNinfo(x) /\ label \in Labels \ S /\ TRUE \in BOOLEAN /\ (TRUE <=> S # {})
      BY <1>6, <1>7, <1>8, <1>9 DEF TrieTyped
    <2> HIDE DEF S, label, b
    <2> QED
      BY <2>1, <1>7, <1>8, PushSiblingOrder
  <1>11. /\ DOMAIN z = DOMAIN x /\ \A field \in DOMAIN x \ {"sibling", "child"} : z[field] = x[field]
         /\ IsNinfo(z)
         /\ \A n \in Slots \ {f} : z.child[n] = x.child[n]
         /\ \A e \in Slots : (\A l \in T : e # Xor(b, l)) => z.sibling[e] = x.sibling[e]
    BY <1>10 DEF OnlyChain
  <1>12. y = [z EXCEPT !.child[a] = 0, !.array[a] = Node(IF label # 0 THEN -1 ELSE 0, f)]
    BY <1>1 DEF TakeOver
  <1> HIDE DEF z, S, T
  <1>13. /\ DOMAIN y = DOMAIN z /\ y.child = [z.child EXCEPT ![a] = 0]
         /\ y.array = [z.array EXCEPT ![a] = Node(IF label # 0 THEN -1 ELSE 0, f)]
         /\ \A field \in DOMAIN z \ {"child", "array"} : y[field] = z[field]
    BY <1>6, <1>11, <1>12 DEF IsNinfo, TrieTyped
  <1>14. PoolFields \subseteq DOMAIN x /\ {"sibling", "child", "array", "nblk"} \subseteq DOMAIN x
    <2>1. PoolFields \subseteq DOMAIN x
      BY <1>1, SoundFacts
    <2> QED
      BY <2>1, <1>6 DEF TrieTyped, IsNinfo
  <1>15. /\ y.nblk = x.nblk /\ y.num = x.num /\ y.ehead = x.ehead /\ y.lists = x.lists
         /\ y.trial = x.trial /\ y.reject = x.reject /\ y.limit = x.limit /\ y.sibling = z.sibling
         /\ z.array = x.array /\ DOMAIN y = DOMAIN x
    BY <1>11, <1>13, <1>14 DEF PoolFields
  <1>16. /\ y.array[a] = Node(IF label # 0 THEN -1 ELSE 0, f)
         /\ \A e \in Slots : e # a => y.array[e] = x.array[e]
         /\ x.array \in [Slots -> [base : Int, check : Int]]
         /\ y.array \in [Slots -> [base : Int, check : Int]]
    <2>1. x.array \in [Slots -> [base : Int, check : Int]]
      BY <1>6 DEF TrieTyped
    <2>2. Node(IF label # 0 THEN -1 ELSE 0, f) \in [base : Int, check : Int]
      <3>1. f \in Int
        BY <1>7, SlotFacts
      <3> QED
        BY <3>1 DEF Node
    <2>3. y.array = [x.array EXCEPT ![a] = Node(IF label # 0 THEN -1 ELSE 0, f)]
      BY <1>13, <1>15
    <2> HIDE DEF label
    <2> QED
      BY <2>1, <2>2, <2>3, <1>1
  <1>17. /\ y.child[a] = 0 /\ \A e \in Slots : e # a => y.child[e] = z.child[e]
         /\ y.child \in [Slots -> Labels]
    <2>1. z.child \in [Slots -> Labels] /\ 0 \in Labels
      BY <1>11, SlotFacts DEF IsNinfo
    <2> QED
      BY <2>1, <1>1, <1>13
  <1>18. TrieTyped(y)
    <2>1. y.sibling \in [Slots -> Labels]
      BY <1>11, <1>15 DEF IsNinfo
    <2>2. IsNinfo(y)
      BY <2>1, <1>14, <1>15, <1>17 DEF IsNinfo
    <2> QED
      BY <2>2, <1>6, <1>14, <1>15, <1>16 DEF TrieTyped
  <1>19. y.array[a].check = f /\ f >= 0 /\ f \in Int /\ y.array[a].base = IF label # 0 THEN -1 ELSE 0
    <2>1. f \in Int /\ f >= 0
      BY <1>7, SlotFacts
    <2> QED
      BY <2>1, <1>16 DEF Node
  <1>20. x.array[a].check >= 0 /\ \A e \in Slots : x.array[e].check \in Int
    BY <1>1, <1>16 DEF Taken
  <1>21. Sound(R, y)
    <2>1. \A e \in Slots : IF x.array[e].check < 0 THEN y.array[e] = x.array[e]
                           ELSE y.array[e].check >= 0
      <3> SUFFICES ASSUME NEW e \in Slots
                   PROVE  IF x.array[e].check < 0 THEN y.array[e] = x.array[e]
                          ELSE y.array[e].check >= 0
        OBVIOUS
      <3>1. CASE e = a
        BY <3>1, <1>19, <1>20
      <3>2. CASE e # a
        BY <3>2, <1>16, <1>20
      <3> QED
        BY <3>1, <3>2
    <2>2. WrittenIn(x, y)
      BY <2>1, <1>14, <1>15 DEF WrittenIn
    <2> QED
      BY <2>2, <1>1, <1>18, WriteSound
  <1>22. \A e \in V2 \cup {0} : e # a /\ e \in Slots
    BY <1>1, <1>6, <1>7
  <1>23. IsTree(y, V3, P3, L3, O3, {m}, {})
    <2> DEFINE Y == {m}
    <2>1. T = S \cup {label} /\ Y \in {{m}, {m} \ {f}} /\ f \notin {m} \ Y /\ f \notin Y
      BY <1>5 DEF T
    <2>2. CanAttach(x, V2, L2, {m}, f, b, a, label, T, Y)
      <3>1. f \in V2 \cup {0} /\ (f = 0 => label # 0)
        BY <1>5, <1>7
      <3>2. f \in {m} \ Y => f # 0 /\ \A e \in V2 : x.array[e].check # f
        BY <2>1
      <3> HIDE DEF m, b, label, Y
      <3> QED
        BY <3>1, <3>2, <2>1, <1>1, <1>5, <1>7, <1>9 DEF CanAttach, S
    <2>3. AttachedTo(x, y, V2, f, b, a, label, T, Y, {})
      <3>1. y.nblk >= x.nblk /\ y.array[0].base = x.array[0].base
        <4>1. x.nblk \in Nat
          BY <1>6 DEF TrieTyped
        <4> QED
          BY <4>1, <1>1, <1>7, <1>15, <1>16
      <3>2. \A e \in V2 : y.array[e] = x.array[e]
        BY <1>16, <1>22
      <3>3. y.array[a].check = f /\ y.child[a] = 0 /\ (label # 0 => y.array[a].base < 0)
        BY <1>17, <1>19
      <3>4. \A e \in V2 \cup {0} : e # f => y.child[e] = x.child[e]
        BY <1>11, <1>17, <1>22
      <3>5. ChainOf(y, f, b, T)
        <4>1. y.child[f] = z.child[f]
          BY <1>7, <1>17
        <4> QED
          BY <4>1, <1>10, <1>15 DEF ChainOf
      <3>6. \A e \in V2 \cup {0} : (\A l \in T : e # Xor(b, l)) => y.sibling[e] = x.sibling[e]
        BY <1>11, <1>15, <1>22
      <3>7. \A e \in Slots : e # 0 /\ e \notin V2 /\ e # a /\ e \notin {} => y.child[e] = 0
        <4> SUFFICES ASSUME NEW e \in Slots, e # 0, e \notin V2, e # a PROVE y.child[e] = 0
          OBVIOUS
        <4>1. x.child[e] = 0
          BY <1>1 DEF IsTree, Clear
        <4>2. y.child[e] = x.child[e]
          BY <1>5, <1>11, <1>17
        <4> QED
          BY <4>1, <4>2
      <3> HIDE DEF m, b, label, Y
      <3> QED
        BY <2>1, <3>1, <3>2, <3>3, <3>4, <3>5, <3>6, <3>7 DEF AttachedTo
    <2>4. OneMore(V2, P2, L2, O2, a, Named(P2[f], label), label, b, V3, P3, L3, O3)
      BY <1>5
    <2>6. IsTree(x, V2, P2, L2, O2, {m}, {a})
      BY <1>1
    <2> HIDE DEF m, b, label, Y, u
    <2>5. IsTree(y, V3, P3, L3, O3, Y, {})
      BY <2>2, <2>3, <2>4, <2>6, <1>18, Attached
    <2> QED
      BY <2>5 DEF Y
  <1>24. /\ V3 = V2 \cup {a} /\ P3[a] = Named(path, label) /\ L3[a] = label /\ O3[a] = b
         /\ \A e \in Slots : e # a => P3[e] = P2[e] /\ L3[e] = L2[e] /\ O3[e] = O2[e]
    BY <1>1, <1>6 DEF With, OneMore
  <1>25. V3 = Taken(y)
    <2>1. \A e \in Slots : y.array[e].check >= 0 <=> x.array[e].check >= 0
      <3> SUFFICES ASSUME NEW e \in Slots PROVE y.array[e].check >= 0 <=> x.array[e].check >= 0
        OBVIOUS
      <3>1. CASE e = a
        BY <3>1, <1>19, <1>20
      <3>2. CASE e # a
        BY <3>2, <1>16
      <3> QED
        BY <3>1, <3>2
    <2>2. Taken(y) = Taken(x)
      BY <2>1, <1>15 DEF Taken
    <2> QED
      BY <2>2, <1>1, <1>24
  <1>26. /\ Content(y, V3, P3, L3) = C \cup {Newcomer(c, path)}
         /\ \A e \in V2 : InnerNode(y, L3, e) <=> InnerNode(x, L2, e)
    <2>1. SameBases(x, y, V2)
      BY <1>16, <1>22 DEF SameBases
    <2>2. NewLeaf(x, y, V2, P2, L2, a, label)
      BY <2>1, <1>1, <1>6, <1>7, <1>19 DEF NewLeaf
    <2>3. /\ Content(y, V3, P3, L3) = Content(x, V2, P2, L2) \cup {Leaf(Named(path, label), label)}
          /\ \A e \in V2 : InnerNode(y, L3, e) <=> InnerNode(x, L2, e)
      <3>1. OneMore(V2, P2, L2, O2, a, Named(path, label), label, b, V3, P3, L3, O3)
        OBVIOUS
      <3> HIDE DEF u, m, label, b
      <3> QED
        BY <3>1, <2>2, ContentGrows
    <2> QED
      BY <2>3, <1>4 DEF Newcomer
  <1>27. MovingNode(y, V3, P3, L3, path, c, base, f)
    <2>1. m \in V3 /\ f \in V3 /\ InnerNode(y, L3, m) /\ InnerNode(y, L3, f)
      BY <1>5, <1>24, <1>26
    <2>2. y.array[m] = x.array[m] /\ y.array[f] = x.array[f] /\ P3[f] = path
      BY <1>5, <1>7, <1>16, <1>24
    <2>3. y.child[m] = x.child[m]
      BY <1>5, <1>7, <1>11, <1>17
    <2> QED
      BY <2>1, <2>2, <2>3, <1>5 DEF MovingNode
  <1>28. \A e \in V2 : x.array[e].check = m => y.sibling[e] = x.sibling[e]
    <2> SUFFICES ASSUME NEW e \in V2, x.array[e].check = m PROVE y.sibling[e] = x.sibling[e]
      OBVIOUS
    <2>1. ASSUME NEW l \in T PROVE e # Xor(b, l)
      <3>1. CASE l = label
        BY <3>1, <1>1, <1>7
      <3>2. CASE l # label
        <4>1. l \in S
          BY <3>2 DEF T
        <4>2. /\ IsTree(x, V2, P2, L2, O2, {m}, {a}) /\ f \in V2 \cup {0} /\ f \notin {m}
              /\ l \in Listed(x, V2, L2, f)
          BY <4>1, <1>1, <1>5 DEF S
        <4>3. \/ Xor(b, l) \in V2 /\ x.array[Xor(b, l)].check = f
              \/ f = 0
          <5>1. LET d == Xor(x.array[f].base, l)
                IN  \/ d \in V2 /\ x.array[d].check = f /\ L2[d] = l
                    \/ d = 0 /\ f = 0 /\ l = 0
            <6> HIDE DEF m
            <6> QED
              BY <4>2, ChildAt
          <5> QED
            BY <5>1, <1>5
        <4> QED
          BY <4>3, <1>5, <1>7
      <3> QED
        BY <3>1, <3>2
    <2>2. z.sibling[e] = x.sibling[e]
      BY <2>1, <1>11, <1>22
    <2> QED
      BY <2>2, <1>15
  <1>29. MovingChildren(y, V3, L3, O3, c, base, i)
    <2>1. ChildMoved(u, y, V, V3, L, L3, O, O3, c, base, i)
      <3> DEFINE Z == IF Leaves(c, i) THEN {OldSlot(c, i)} ELSE {}
                 n == NewSlot(c, base, i)
      <3>1. /\ n \in V2 /\ L2[n] = c.labels[i] /\ O2[n] = base
            /\ x.array[n].check = m /\ x.sibling[n] = NextLabel(c, i)
            /\ \A e \in V \ Z : /\ e \in V2 /\ L2[e] = L[e] /\ O2[e] = O[e]
                                /\ x.array[e].check = m <=> u.array[e].check = m
                                /\ x.array[e].check = m => x.sibling[e] = u.sibling[e]
            /\ \A e \in V2 : e = n \/ e \in V \ Z \/ (e \in Z /\ x.array[e].check # m)
            /\ \A e \in Slots : e # n /\ Offer(u, e) => Offer(x, e)
        BY <1>1 DEF ChildMoved
      <3>2. Z = {a}
        BY <1>1 DEF Leaves
      <3> HIDE DEF Z, n
      <3>3. \A e \in V2 : /\ e \in V3 /\ L3[e] = L2[e] /\ O3[e] = O2[e]
                          /\ y.array[e] = x.array[e]
                          /\ x.array[e].check = m => y.sibling[e] = x.sibling[e]
        BY <1>16, <1>22, <1>24, <1>28
      <3>4. \A e \in Slots : Offer(x, e) => Offer(y, e)
        <4>1. ~ Offer(x, a)
          BY <1>20 DEF Offer
        <4> QED
          BY <4>1, <1>15, <1>16 DEF Offer
      <3>5. /\ n \in V3 /\ L3[n] = c.labels[i] /\ O3[n] = base
            /\ y.array[n].check = m /\ y.sibling[n] = NextLabel(c, i)
        BY <3>1, <3>3
      <3>6. \A e \in V \ Z : /\ e \in V3 /\ L3[e] = L[e] /\ O3[e] = O[e]
                             /\ y.array[e].check = m <=> u.array[e].check = m
                             /\ y.array[e].check = m => y.sibling[e] = u.sibling[e]
        BY <3>1, <3>3
      <3>7. \A e \in V3 : e = n \/ e \in V \ Z \/ (e \in Z /\ y.array[e].check # m)
        <4>1. y.array[a].check # m
          BY <1>5, <1>19
        <4> QED
          BY <4>1, <3>1, <3>2, <3>3, <1>24
      <3>8. \A e \in Slots : e # n /\ Offer(u, e) => Offer(y, e)
        BY <3>1, <3>4
      <3> QED
        BY <3>5, <3>6, <3>7, <3>8 DEF ChildMoved, Z, n
    <2> QED
      BY <2>1, <1>2, ChildMovedOn
  <1>30. MovingContent(y, V3, P3, L3, path, C, c, base, f, i)
    <2>1. NewcomerSlot(c, base) = a
      BY <1>1 DEF NewcomerSlot
    <2>2. a \in V3 /\ y.array[a].check = f /\ L3[a] = label
      BY <1>19, <1>24
    <2> QED
      BY <2>1, <2>2, <1>3, <1>4, <1>26 DEF MovingContent
  <1>31. [t |-> y, from |-> f].t = y /\ [t |-> y, from |-> f].from = f
    OBVIOUS
  <1> QED
    BY <1>21, <1>23, <1>25, <1>27, <1>29, <1>30, <1>31 DEF Moving

\* One label of the loop of _resolve.
LEMMA MoveStep ==
    ASSUME NEW R, Spare("chain", R), NEW path, NEW C, NEW c, IsConflict(c), NEW base \in Slots,
           NEW s, NEW V, NEW P, NEW L, NEW O, NEW i \in DOMAIN c.labels,
           Moving(R, path, C, c, base, s, V, P, L, O, i - 1)
    PROVE  \E V2, P2, L2, O2 :
              Moving(R, path, C, c, base, MoveChild(s, c, base, i), V2, P2, L2, O2, i)
  <1> DEFINE u == s.t
             m == c.node
             l == c.labels[i]
             w == NewSlot(c, base, i)
             a == OldSlot(c, i)
             next == NextLabel(c, i)
             v == [TakeEnode(u, w, l, m) EXCEPT !.sibling[w] = next]
             f == IF ~ c.newer /\ a = s.from THEN w ELSE s.from
             x == Inherit(v, a, w, l)
  <1>1. /\ Sound(R, u) /\ V = Taken(u) /\ IsTree(u, V, P, L, O, {m}, {})
        /\ MovingChildren(u, V, L, O, c, base, i - 1)
    BY DEF Moving
  <1>2. next \in Labels /\ m \in Slots /\ l \in Labels /\ i \in Nat
    <2>1. l \in Labels /\ next \in Labels /\ i \in Nat
      BY ConflictSlots
    <2>2. m \in Slots
      BY DEF IsConflict
    <2> QED
      BY <2>1, <2>2
  <1>3. Offer(u, w)
    <2>1. i > i - 1
      BY <1>2
    <2> QED
      BY <2>1, <1>1 DEF MovingChildren
  <1>4. WithSlot(R, u, v, V, P, L, O, c, base, i, w)
    <2>1. v = [TakeEnode(u, w, l, m) EXCEPT !.sibling[w] = next]
      OBVIOUS
    <2>2. w = NewSlot(c, base, i) /\ l = c.labels[i] /\ next = NextLabel(c, i) /\ m = c.node
      OBVIOUS
    <2> DEFINE X == {m}
    <2>4. IsTree(u, V, P, L, O, X, {}) /\ X = {m}
      BY <1>1
    <2> HIDE DEF u, v, w, l, next, m, X
    <2>3. /\ Sound(R, v) /\ IsTree(v, V, P, L, O, X, {}) /\ Taken(v) = V \cup {w}
          /\ w \notin V /\ w # 0 /\ w \in Slots
          /\ SlotMade(u, v, V, w, l, m, next)
      BY <2>1, <2>4, <1>1, <1>2, <1>3, SlotForTree
    <2> QED
      BY <2>2, <2>3, <2>4 DEF WithSlot
  <1>5. MoveChild(s, c, base, i) = MoveTo(v, s.from, c, base, l)
    <2>1. PopEnode(s.t, base, l, m) = TakeEnode(u, w, l, m)
      <3>1. ~ base < 0
        BY SlotFacts
      <3> QED
        BY <3>1 DEF PopEnode, NewSlot
    <2>2. next = IF i = Len(c.labels) THEN 0 ELSE c.labels[i + 1]
      BY DEF NextLabel
    <2>3. v = [PopEnode(s.t, base, l, m) EXCEPT !.sibling[w] = next]
      BY <2>1
    <2>4. w = Xor(base, l)
      BY DEF NewSlot
    <2> HIDE DEF v, u, next, w
    <2> QED
      BY <2>2, <2>3, <2>4 DEF MoveChild
  <1>6. MoveTo(v, s.from, c, base, l) =
          IF c.newer /\ a = c.to_pn THEN [t |-> v, from |-> s.from]
          ELSE [t |-> IF ~ c.newer /\ a = c.to_pn THEN TakeOver(x, c, f) ELSE Release(x, a),
                from |-> f]
    <2>1. a = Xor(c.base_, l) /\ w = Xor(base, l)
      BY DEF OldSlot, NewSlot
    <2> HIDE DEF v, a, w
    <2> QED
      BY <2>1 DEF MoveTo, LeaveSlot
  <1>7. CASE c.newer /\ a = c.to_pn
    <2>1. ~ Leaves(c, i)
      BY <1>7 DEF Leaves
    <2> DEFINE V2 == V \cup {w}
               P2 == With(P, w, Named(path, c.label))
               L2 == With(L, w, c.label)
               O2 == With(O, w, base)
    <2>2. OneMore(V, P, L, O, w, Named(path, c.label), c.label, base, V2, P2, L2, O2)
      BY DEF OneMore
    <2>4. MoveChild(s, c, base, i) = [t |-> v, from |-> s.from]
      BY <1>5, <1>6, <1>7
    <2>5. WithSlot(R, s.t, v, V, P, L, O, c, base, i, w)
      BY <1>4
    <2> HIDE DEF V2, P2, L2, O2, v, w, a, u
    <2>3. Moving(R, path, C, c, base, [t |-> v, from |-> s.from], V2, P2, L2, O2, i)
      BY <2>1, <2>2, <2>5, PlaceNewcomer
    <2> QED
      BY <2>3, <2>4
  <1>8. CASE ~ (c.newer /\ a = c.to_pn)
    <2>1. Leaves(c, i)
      BY <1>8 DEF Leaves
    <2> DEFINE V2 == (V \ {a}) \cup {w}
               P2 == With(P, w, P[a])
               L2 == With(L, w, l)
               O2 == With(O, w, base)
    <2>2. OneMore(V \ {a}, P, L, O, w, P[a], l, base, V2, P2, L2, O2)
      BY DEF OneMore
    <2>3. Inherited(R, u, x, path, C, c, base, i, s.from, f, a, w, V, P, L, O, V2, P2, L2, O2)
      <3>1. /\ a = OldSlot(c, i) /\ x = Inherit(v, a, w, l) /\ l = c.labels[i]
            /\ f = IF ~ c.newer /\ a = s.from THEN w ELSE s.from
            /\ WithSlot(R, s.t, v, V, P, L, O, c, base, i, w) /\ u = s.t
        BY <1>4
      <3> HIDE DEF V2, P2, L2, O2, v, w, a, x, f, l, u
      <3> QED
        BY <2>1, <2>2, <3>1, ChildInherits
    <2>4. CASE a = c.to_pn
      <3> DEFINE y == TakeOver(x, c, f)
                 V3 == V2 \cup {a}
                 P3 == With(P2, a, Named(path, c.label))
                 L3 == With(L2, a, c.label)
                 O3 == With(O2, a, c.base_n)
      <3>1. OneMore(V2, P2, L2, O2, a, Named(path, c.label), c.label, c.base_n, V3, P3, L3, O3)
        BY DEF OneMore
      <3>2. MoveChild(s, c, base, i) = [t |-> y, from |-> f] /\ ~ c.newer /\ OldSlot(c, i) = c.to_pn
        BY <1>5, <1>6, <1>8, <2>4
      <3>3. y = TakeOver(x, c, f)
            /\ Inherited(R, s.t, x, path, C, c, base, i, s.from, f, a, w, V, P, L, O, V2, P2, L2, O2)
        BY <2>3
      <3> HIDE DEF V2, P2, L2, O2, V3, P3, L3, O3, v, w, a, x, f, y, u
      <3>4. Moving(R, path, C, c, base, [t |-> y, from |-> f], V3, P3, L3, O3, i)
        BY <3>1, <3>2, <3>3, TakeOverChild
      <3> QED
        BY <3>2, <3>4
    <2>5. CASE a # c.to_pn
      <3> DEFINE y == Release(x, a)
      <3>2. MoveChild(s, c, base, i) = [t |-> y, from |-> f] /\ OldSlot(c, i) # c.to_pn
        BY <1>5, <1>6, <1>8, <2>5
      <3>3. y = Release(x, a)
            /\ Inherited(R, s.t, x, path, C, c, base, i, s.from, f, a, w, V, P, L, O, V2, P2, L2, O2)
        BY <2>3
      <3> HIDE DEF V2, P2, L2, O2, v, w, a, x, f, y, u
      <3>4. Moving(R, path, C, c, base, [t |-> y, from |-> f], V2, P2, L2, O2, i)
        BY <2>1, <3>2, <3>3, MovedAway
      <3> QED
        BY <3>2, <3>4
    <2> QED
      BY <2>4, <2>5
  <1> QED
    BY <1>7, <1>8

-----------------------------------------------------------------------------
\* Two nodes have two paths while every child is where its parent's base says.
LEMMA NamesApart ==
    ASSUME NEW t, NEW U, NEW P, NEW L, NEW O, GhostTyped(U, P, L, O), Edges(t, U, P, L, O),
           Settled(t, U, O, {})
    PROVE  \A a, b \in U \cup {0} : P[a] = P[b] => a = b
  <1>1. /\ U \in SUBSET (Slots \ {0}) /\ P \in [Slots -> Seq(Labels)] /\ L \in [Slots -> Labels]
        /\ P[0] = <<>> /\ 0 \in Slots
    BY SlotRange DEF GhostTyped
  <1>2. \A e \in U : /\ t.array[e].check \in U \cup {0} /\ e = Xor(O[e], L[e])
                     /\ P[e] = Named(P[t.array[e].check], L[e])
                     /\ O[e] = t.array[t.array[e].check].base
    BY DEF Edges, Settled
  <1> DEFINE Twins(n) == \E a, b \in U \cup {0} : P[a] = P[b] /\ a # b /\ Len(P[a]) = n
             Bad == {n \in Nat : Twins(n)}
  <1>3. Bad = {}
    <2> SUFFICES ASSUME Bad # {} PROVE FALSE
      OBVIOUS
    <2>1. Bad \in SUBSET Nat
      OBVIOUS
    <2> HIDE DEF Bad
    <2>2. PICK n \in Bad : \A x \in Bad : n <= x
      BY <2>1, Least
    <2>3. n \in Nat /\ Twins(n)
      BY DEF Bad
    <2>4. PICK a \in U \cup {0}, b \in U \cup {0} : P[a] = P[b] /\ a # b /\ Len(P[a]) = n
      BY <2>3
    <2>5. ASSUME NEW e \in U
          PROVE  LET p == t.array[e].check
                 IN  /\ p \in U \cup {0} /\ P[p] \in Seq(Labels) /\ L[e] \in Labels
                     /\ P[e] = Named(P[p], L[e]) /\ P[e] # <<>>
                     /\ Len(P[e]) = Len(P[p]) + 1 /\ Len(P[p]) \in Nat
      <3> DEFINE p == t.array[e].check
      <3>1. p \in U \cup {0} /\ P[p] \in Seq(Labels) /\ L[e] \in Labels /\ P[e] = Named(P[p], L[e])
        BY <1>1, <1>2
      <3> HIDE DEF p
      <3>2. /\ Named(P[p], L[e]) # <<>> /\ Len(Named(P[p], L[e])) = Len(P[p]) + 1
            /\ Len(P[p]) \in Nat
        BY <3>1, Names
      <3>3. P[e] # <<>> /\ Len(P[e]) = Len(P[p]) + 1
        BY <3>1, <3>2
      <3> QED
        BY <3>1, <3>2, <3>3 DEF p
    <2>6. a \in U /\ b \in U
      BY <2>4, <2>5, <1>1
    <2> DEFINE p == t.array[a].check
               q == t.array[b].check
    <2>7. /\ p \in U \cup {0} /\ q \in U \cup {0} /\ P[p] \in Seq(Labels) /\ P[q] \in Seq(Labels)
          /\ L[a] \in Labels /\ L[b] \in Labels
          /\ Named(P[p], L[a]) = Named(P[q], L[b])
          /\ n = Len(P[p]) + 1 /\ Len(P[p]) \in Nat
      BY <2>4, <2>5, <2>6
    <2> HIDE DEF p, q
    <2>8. P[p] = P[q] /\ L[a] = L[b]
      <3>1. \A r \in Seq(Labels), l \in Labels : Named(P[p], L[a]) = Named(r, l)
               => P[p] = r /\ L[a] = l
        BY <2>7, Names
      <3> QED
        BY <3>1, <2>7
    <2>9. p = q
      <3>1. Len(P[p]) \notin Bad
        BY <2>2, <2>3, <2>7
      <3> QED
        BY <3>1, <2>7, <2>8 DEF Bad
    <2> QED
      BY <2>4, <2>6, <2>8, <2>9, <1>2 DEF p, q
  <1> SUFFICES ASSUME NEW a \in U \cup {0}, NEW b \in U \cup {0}, P[a] = P[b], a # b
               PROVE  FALSE
    OBVIOUS
  <1>4. P[a] \in Seq(Labels)
    BY <1>1
  <1>5. Len(P[a]) \in Bad
    BY <1>4
  <1> QED
    BY <1>3, <1>5

\* Two nodes of a tree have two paths.
LEMMA PathsApart ==
    ASSUME NEW t, NEW U, NEW P, NEW L, NEW O, NEW V, IsTree(t, U, P, L, O, {}, V)
    PROVE  \A a, b \in U \cup {0} : P[a] = P[b] => a = b
  BY NamesApart DEF IsTree

\* The labels of an ascending sequence, one after the other.
LEMMA AscendingChain ==
    ASSUME NEW q \in Seq(Labels), Ascending(q), q # <<>>, NEW S, S = Members(q)
    PROVE  /\ S \in SUBSET Labels /\ S # {} /\ FirstOf(S) = q[1] /\ 1 \in DOMAIN q
           /\ \A j \in DOMAIN q :
                FirstOf(Above(S, q[j])) = IF j = Len(q) THEN 0 ELSE q[j + 1]
  <1>1. DOMAIN q = 1 .. Len(q) /\ Len(q) \in Nat \ {0} /\ \A j \in DOMAIN q : q[j] \in Labels
    <2>1. Len(q) # 0
      OBVIOUS
    <2> QED
      BY <2>1
  <1>2. S \in SUBSET Labels /\ S = {q[j] : j \in DOMAIN q}
    BY <1>1 DEF Members
  <1>3. \A x \in Labels : x \in Nat
    BY SlotFacts DEF Labels
  <1>4. 1 \in DOMAIN q /\ q[1] \in S
    BY <1>1, <1>2
  <1>5. \A i, j \in DOMAIN q : i <= j => q[i] <= q[j]
    <2> SUFFICES ASSUME NEW i \in DOMAIN q, NEW j \in DOMAIN q, i <= j PROVE q[i] <= q[j]
      OBVIOUS
    <2>1. i \in Nat /\ j \in Nat /\ q[i] \in Nat /\ q[j] \in Nat
      BY <1>1, <1>3
    <2>2. CASE i = j
      BY <2>1, <2>2
    <2>3. CASE i < j
      <3>1. q[i] < q[j]
        BY <2>3 DEF Ascending
      <3> QED
        BY <2>1, <3>1
    <2> QED
      BY <2>1, <2>2, <2>3
  <1>6. FirstOf(S) = q[1]
    <2>1. \A j \in DOMAIN q : 1 <= j
      BY <1>1
    <2>2. \A x \in S : q[1] <= x
      BY <2>1, <1>2, <1>4, <1>5
    <2> QED
      BY <2>2, <1>2, <1>4, FirstIs
  <1>7. ASSUME NEW j \in DOMAIN q
        PROVE  FirstOf(Above(S, q[j])) = IF j = Len(q) THEN 0 ELSE q[j + 1]
    <2>1. CASE j = Len(q)
      <3>1. ASSUME NEW x \in S PROVE ~ x > q[j]
        <4>1. PICK k \in DOMAIN q : x = q[k]
          BY <1>2
        <4>2. k <= j
          BY <2>1, <1>1
        <4>3. q[k] <= q[j] /\ q[k] \in Nat /\ q[j] \in Nat
          BY <4>2, <1>1, <1>3, <1>5
        <4> QED
          BY <4>1, <4>3
      <3>2. Above(S, q[j]) = {}
        BY <3>1 DEF Above
      <3> QED
        BY <2>1, <3>2 DEF FirstOf
    <2>2. CASE j # Len(q)
      <3>1. j + 1 \in DOMAIN q /\ j \in Nat
        BY <2>2, <1>1
      <3>2. q[j] < q[j + 1]
        BY <3>1 DEF Ascending
      <3> DEFINE A == Above(S, q[j])
      <3>3. q[j + 1] \in A /\ A \in SUBSET Labels
        BY <3>1, <3>2, <1>1, <1>2, <1>3 DEF Above
      <3>4. ASSUME NEW x \in A PROVE q[j + 1] <= x
        <4>1. x \in S /\ x > q[j]
          BY DEF Above
        <4>2. PICK k \in DOMAIN q : x = q[k]
          BY <4>1, <1>2
        <4>3. q[k] \in Nat /\ q[j] \in Nat /\ k \in Nat
          BY <1>1, <1>3
        <4>4. ~ k <= j
          BY <4>1, <4>2, <4>3, <1>5
        <4>5. j + 1 <= k
          BY <3>1, <4>3, <4>4
        <4> QED
          BY <3>1, <4>2, <4>5, <1>5
      <3> HIDE DEF A
      <3>5. FirstOf(A) = q[j + 1]
        BY <3>3, <3>4, FirstIs
      <3> QED
        BY <2>2, <3>5 DEF A
    <2> QED
      BY <2>1, <2>2
  <1> QED
    BY <1>2, <1>4, <1>6, <1>7

\* There are at most B labels.
LEMMA FewLabels ==
    ASSUME NEW q \in Seq(Labels), Ascending(q)
    PROVE  Len(q) \in 0 .. B
  <1>1. Len(q) \in Nat /\ B \in Nat /\ DOMAIN q = 1 .. Len(q)
    BY BlockAssumption
  <1>2. CASE Len(q) = 0
    BY <1>1, <1>2
  <1>3. CASE Len(q) # 0
    <2>1. Len(q) \in DOMAIN q
      BY <1>1, <1>3
    <2>2. q[Len(q)] >= Len(q) - 1 /\ q[Len(q)] \in Labels
      BY <2>1, AscendingLabels
    <2>3. q[Len(q)] \in Nat /\ q[Len(q)] <= B - 1
      BY <2>2, <1>1 DEF Labels
    <2> QED
      BY <2>2, <2>3, <1>1
  <1> QED
    BY <1>2, <1>3

-----------------------------------------------------------------------------
(* The conflict of _resolve.                                               *)

\* The slot of the label of n is in use, but not for a child of n.
InConflict(t, U, P, L, O, n, label) ==
    /\ U = Taken(t) /\ IsTree(t, U, P, L, O, {}, {})
    /\ n \in U /\ InnerNode(t, L, n) /\ label \in Labels
    /\ t.array[Xor(t.array[n].base, label)].check >= 0
    /\ t.array[Xor(t.array[n].base, label)].check # n

\* What _resolve starts from: the node that moves its children, and their labels.
ConflictOf(t, U, P, L, n, label, c) ==
    /\ IsConflict(c) /\ c.n = n /\ c.label = label /\ c.base_n = t.array[n].base
    /\ c.node \in U /\ InnerNode(t, L, c.node) /\ c.base_ = t.array[c.node].base
    /\ ~ c.newer => c.node # n
    /\ Len(c.labels) \in 1 .. B /\ c.labels[1] \in Labels
    /\ Members(c.labels) = Listed(t, U, L, c.node) \cup (IF c.newer THEN {label} ELSE {})
    /\ label \notin Listed(t, U, L, n)
    /\ \A x \in Content(t, U, P, L) : x[1] # Named(P[n], label)

\* The slot in use is a child of another node, which is not the root.
LEMMA ConflictIs ==
    ASSUME NEW t, NEW U, NEW P, NEW L, NEW O, NEW n, NEW label,
           InConflict(t, U, P, L, O, n, label), NEW c, c = Conflict(t, n, label)
    PROVE  ConflictOf(t, U, P, L, n, label, c)
  <1> DEFINE b == t.array[n].base
             e == Xor(b, label)
             p == t.array[e].check
             qn == Children(t, n)
             qp == Children(t, p)
  <1>1. /\ U = Taken(t) /\ IsTree(t, U, P, L, O, {}, {}) /\ n \in U /\ InnerNode(t, L, n)
        /\ label \in Labels /\ p >= 0 /\ p # n
    BY DEF InConflict
  <1>2. /\ U \in SUBSET (Slots \ {0}) /\ P \in [Slots -> Seq(Labels)] /\ L \in [Slots -> Labels]
        /\ O \in [Slots -> Slots] /\ 0 \in Slots /\ TrieTyped(t)
    BY <1>1, SlotRange DEF IsTree, GhostTyped
  <1>3. b \in Slots /\ Block(b) # 0 /\ Block(b) < t.nblk
    BY <1>1 DEF IsTree, Bases
  <1>4. e \in Slots /\ Block(e) = Block(b)
    BY <1>1, <1>3, XorAssumption
  <1>5. e # 0
    <2>1. Block(0) = 0
      BY SlotFacts
    <2> QED
      BY <2>1, <1>3, <1>4
  <1>6. e \in U
    BY <1>1, <1>3, <1>4, <1>5 DEF Taken
  <1>7. p \in U \cup {0} /\ InnerNode(t, L, p) /\ e = Xor(O[e], L[e]) /\ O[e] = t.array[p].base
    BY <1>1, <1>6 DEF IsTree, Edges, Settled
  <1>8. p # 0
    <2>1. ASSUME p = 0 PROVE FALSE
      <3>1. t.array[0].base = 0
        BY <1>1 DEF IsTree, Bases
      <3>2. L[e] \in Labels
        BY <1>2, <1>4
      <3>4. O[e] = 0
        BY <2>1, <3>1, <1>7
      <3>5. e = Xor(0, L[e])
        BY <3>4, <1>7
      <3>3. Block(Xor(0, L[e])) = Block(0)
        BY <3>2, <1>2, XorAssumption
      <3>6. Block(e) = 0
        BY <3>3, <3>5, SlotFacts
      <3> QED
        BY <3>6, <1>3, <1>4
    <2> QED
      BY <2>1
  <1>9. p \in U /\ t.array[p].base \in Slots
    BY <1>1, <1>7, <1>8 DEF IsTree, Bases
  <1> HIDE DEF qn, qp
  <1>10. /\ qn \in Seq(Labels) /\ Ascending(qn) /\ Members(qn) = Listed(t, U, L, n) /\ qn # <<>>
    <2>1. n \notin {}
      OBVIOUS
    <2> QED
      BY <2>1, <1>1, ChildrenOf DEF qn
  <1>11. /\ qp \in Seq(Labels) /\ Ascending(qp) /\ Members(qp) = Listed(t, U, L, p) /\ qp # <<>>
         /\ {x \in U : t.array[x].check = p} = {Xor(t.array[p].base, qp[i]) : i \in DOMAIN qp}
    <2>1. p \notin {}
      OBVIOUS
    <2> HIDE DEF p
    <2> QED
      BY <2>1, <1>1, <1>7, <1>9, ChildrenOf DEF qp
  <1>12. label \notin Listed(t, U, L, n)
    <2>1. ASSUME label \in Listed(t, U, L, n) PROVE FALSE
      <3>1. n \in U \cup {0} /\ n \notin {} /\ n # 0
        BY <1>1, <1>2
      <3>2. \/ e \in U /\ t.array[e].check = n /\ L[e] = label
            \/ e = 0 /\ n = 0 /\ label = 0
        BY <2>1, <3>1, <1>1, ChildAt
      <3> QED
        BY <3>1, <3>2, <1>1
    <2> QED
      BY <2>1
  <1>13. \A x \in Content(t, U, P, L) : x[1] # Named(P[n], label)
    <2> SUFFICES ASSUME NEW a \in U, P[a] = Named(P[n], label) PROVE FALSE
      BY DEF Content
    <2> DEFINE q == t.array[a].check
    <2>1. /\ q \in U \cup {0} /\ P[a] = Named(P[q], L[a]) /\ L[a] \in Labels
          /\ P[q] \in Seq(Labels) /\ P[n] \in Seq(Labels)
      <3>1. q \in U \cup {0} /\ P[a] = Named(P[q], L[a])
        BY <1>1 DEF IsTree, Edges
      <3> HIDE DEF q
      <3> QED
        BY <3>1, <1>1, <1>2
    <2> HIDE DEF q
    <2>2. P[q] = P[n] /\ L[a] = label
      <3>1. \A r \in Seq(Labels), l \in Labels : Named(P[q], L[a]) = Named(r, l)
               => P[q] = r /\ L[a] = l
        BY <2>1, Names
      <3> QED
        BY <3>1, <2>1, <1>1
    <2>3. q = n
      BY <2>1, <2>2, <1>1, PathsApart
    <2> QED
      BY <2>2, <2>3, <1>1, <1>12 DEF Listed, q
  <1> DEFINE newer == Len(qn) < Len(qp)
             node == IF newer THEN n ELSE p
             labels == IF newer THEN WithLabel(qn, label) ELSE qp
  <1>14. c = [n |-> n, label |-> label, base_n |-> b, to_pn |-> e,
              newer |-> newer, node |-> node, base_ |-> t.array[node].base,
              labels |-> labels]
    BY DEF Conflict, qn, qp
  <1>15. /\ c.n = n /\ c.label = label /\ c.base_n = b /\ c.to_pn = e
         /\ c.newer = newer /\ c.node = node /\ c.base_ = t.array[node].base /\ c.labels = labels
    <2> HIDE DEF b, e, newer, node, labels
    <2> QED
      BY <1>14
  <1>16. newer \in BOOLEAN /\ node \in U /\ InnerNode(t, L, node) /\ (~ newer => node # n)
         /\ t.array[node].base \in Slots
    BY <1>1, <1>3, <1>7, <1>9
  <1>17. /\ labels \in Seq(Labels) /\ Ascending(labels)
         /\ Members(labels) = Listed(t, U, L, node) \cup (IF newer THEN {label} ELSE {})
    <2>1. CASE newer
      <3>1. /\ WithLabel(qn, label) \in Seq(Labels) /\ Ascending(WithLabel(qn, label))
            /\ Members(WithLabel(qn, label)) = Members(qn) \cup {label}
        BY <1>1, <1>10, <1>12, WithLabelOrder
      <3> QED
        BY <2>1, <3>1, <1>10
    <2>2. CASE ~ newer
      BY <2>2, <1>11
    <2> QED
      BY <2>1, <2>2
  <1>18. \E k \in DOMAIN labels : Xor(t.array[node].base, labels[k]) = e
    <2>1. CASE newer
      <3>1. label \in Members(labels)
        BY <2>1, <1>17
      <3>2. PICK k \in DOMAIN labels : labels[k] = label
        BY <3>1 DEF Members
      <3> QED
        BY <2>1, <3>2
    <2>2. CASE ~ newer
      <3>1. e \in {x \in U : t.array[x].check = p}
        BY <1>6
      <3>2. PICK k \in DOMAIN qp : e = Xor(t.array[p].base, qp[k])
        BY <3>1, <1>11
      <3> QED
        BY <2>2, <3>2
    <2> QED
      BY <2>1, <2>2
  <1>19. Len(labels) \in 1 .. B /\ labels[1] \in Labels
    <2>1. Len(labels) \in 0 .. B
      BY <1>17, FewLabels
    <2>2. DOMAIN labels # {} /\ DOMAIN labels = 1 .. Len(labels)
      BY <1>17, <1>18
    <2>3. Len(labels) # 0
      BY <2>2
    <2>4. B \in Nat
      BY BlockAssumption
    <2>5. Len(labels) \in 1 .. B /\ 1 \in DOMAIN labels
      BY <2>1, <2>2, <2>3, <2>4
    <2> QED
      BY <2>5, <1>17
  <1> HIDE DEF newer, node, labels
  <1>20. n \in Slots \ {0} /\ node \in Slots \ {0} /\ (newer => node = n)
    BY <1>1, <1>2, <1>16 DEF node
  <1>21. IsConflict(c)
    <2>1. c.to_pn = Xor(c.base_n, c.label)
      BY <1>15
    <2>2. \E k \in DOMAIN c.labels : OldSlot(c, k) = c.to_pn
      BY <1>15, <1>18 DEF OldSlot
    <2>3. c.newer => c.node = c.n /\ c.base_ = c.base_n
      BY <1>15, <1>20
    <2> HIDE DEF b, e
    <2> QED
      BY <2>1, <2>2, <2>3, <1>1, <1>3, <1>15, <1>16, <1>17, <1>20 DEF IsConflict
  <1> QED
    BY <1>12, <1>13, <1>15, <1>16, <1>17, <1>19, <1>21 DEF ConflictOf

-----------------------------------------------------------------------------
(* The start and the end of the loop.                                      *)

\* With all its children at their new slots, the node's chain is whole again.
LEMMA CloseChain ==
    ASSUME NEW R, NEW path, NEW C, NEW c, IsConflict(c), NEW base \in Slots,
           NEW s, NEW V, NEW P, NEW L, NEW O,
           Moving(R, path, C, c, base, s, V, P, L, O, Len(c.labels))
    PROVE  IsTree(s.t, V, P, L, O, {}, {})
  <1> DEFINE u == s.t
             m == c.node
             q == c.labels
             S == Members(q)
  <1>1. /\ IsTree(u, V, P, L, O, {m}, {}) /\ MovingNode(u, V, P, L, path, c, base, s.from)
        /\ MovingChildren(u, V, L, O, c, base, Len(q))
    BY DEF Moving
  <1>2. /\ m \in V /\ InnerNode(u, L, m) /\ u.array[m].base = base /\ u.child[m] = q[1]
        /\ m # 0 /\ q \in Seq(Labels) /\ Ascending(q)
    BY <1>1 DEF MovingNode, IsConflict
  <1>3. q # <<>> /\ DOMAIN q = 1 .. Len(q) /\ Len(q) \in Nat
    BY <1>2 DEF IsConflict
  <1>4. \A j \in DOMAIN q :
          /\ NewSlot(c, base, j) \in V /\ u.array[NewSlot(c, base, j)].check = m
          /\ L[NewSlot(c, base, j)] = q[j] /\ O[NewSlot(c, base, j)] = base
          /\ u.sibling[NewSlot(c, base, j)] = NextLabel(c, j)
    BY <1>1, <1>3 DEF MovingChildren
  <1>5. \A x \in V : u.array[x].check = m => \E j \in DOMAIN q : x = NewSlot(c, base, j)
    <2> SUFFICES ASSUME NEW x \in V, u.array[x].check = m
                 PROVE  \E j \in DOMAIN q : x = NewSlot(c, base, j)
      OBVIOUS
    <2>1. PICK j \in DOMAIN q : \/ j <= Len(q) /\ x = NewSlot(c, base, j)
                                \/ j > Len(q) /\ Leaves(c, j) /\ x = OldSlot(c, j)
      BY <1>1 DEF MovingChildren
    <2>2. ~ j > Len(q)
      BY <1>3
    <2> QED
      BY <2>1, <2>2
  <1>6. /\ S \in SUBSET Labels /\ S # {} /\ FirstOf(S) = q[1]
        /\ \A j \in DOMAIN q : FirstOf(Above(S, q[j])) = NextLabel(c, j)
    <2> HIDE DEF S
    <2>1. S = Members(q)
      BY DEF S
    <2>2. /\ S \in SUBSET Labels /\ S # {} /\ FirstOf(S) = q[1]
          /\ \A j \in DOMAIN q :
               FirstOf(Above(S, q[j])) = IF j = Len(q) THEN 0 ELSE q[j + 1]
      BY <2>1, <1>2, <1>3, AscendingChain
    <2> QED
      BY <2>2 DEF NextLabel
  <1>7. S = {q[j] : j \in DOMAIN q}
    BY DEF Members
  <1> HIDE DEF q, S
  <1>8. Listed(u, V, L, m) = S
    <2>1. ASSUME NEW l \in Listed(u, V, L, m) PROVE l \in S
      <3>1. PICK x \in V : u.array[x].check = m /\ L[x] = l
        BY <1>2 DEF Listed
      <3>2. PICK j \in DOMAIN q : x = NewSlot(c, base, j)
        BY <3>1, <1>5
      <3> QED
        BY <3>1, <3>2, <1>4, <1>7
    <2>2. ASSUME NEW l \in S PROVE l \in Listed(u, V, L, m)
      <3>1. PICK j \in DOMAIN q : l = q[j]
        BY <1>7
      <3> QED
        BY <3>1, <1>4, <1>6 DEF Listed
    <2> QED
      BY <2>1, <2>2
  <1>9. ChainOf(u, m, base, S)
    <2>1. ASSUME NEW l \in S PROVE u.sibling[Xor(base, l)] = FirstOf(Above(S, l))
      <3>1. PICK j \in DOMAIN q : l = q[j]
        BY <1>7
      <3>2. NewSlot(c, base, j) = Xor(base, l)
        BY <3>1 DEF NewSlot, q
      <3> QED
        BY <3>1, <3>2, <1>4, <1>6
    <2> QED
      BY <2>1, <1>2, <1>6 DEF ChainOf
  <1>10. Chains(u, V, L, {})
    <2> SUFFICES ASSUME NEW n \in V \cup {0}, InnerNode(u, L, n)
                 PROVE  /\ Listed(u, V, L, n) # {}
                        /\ ChainOf(u, n, u.array[n].base, Listed(u, V, L, n))
      BY DEF Chains
    <2>1. CASE n = m
      BY <2>1, <1>2, <1>6, <1>8, <1>9
    <2>2. CASE n # m
      BY <2>2, <1>1 DEF IsTree, Chains
    <2> QED
      BY <2>1, <2>2
  <1>11. Settled(u, V, O, {})
    <2> SUFFICES ASSUME NEW e \in V PROVE O[e] = u.array[u.array[e].check].base
      BY DEF Settled
    <2>1. CASE u.array[e].check = m
      BY <2>1, <1>2, <1>4, <1>5
    <2>2. CASE u.array[e].check # m
      BY <2>2, <1>1 DEF IsTree, Settled
    <2> QED
      BY <2>1, <2>2
  <1> QED
    BY <1>1, <1>10, <1>11 DEF IsTree

\* The node that is to move its children has its new base and its first label.
Rebased(t, c, base) == [t EXCEPT !.array[c.node].base = base, !.child[c.node] = c.labels[1]]

\* _find_place has offered the slots at base.
CanRebase(R, t, u, U, P, L, O, n, label, c, base) ==
    /\ Sound(R, t) /\ InConflict(t, U, P, L, O, n, label) /\ ConflictOf(t, U, P, L, n, label, c)
    /\ Sound(R, u) /\ Kept(t, u) /\ base \in Slots /\ Block(base) # 0 /\ Block(base) < u.nblk
    /\ \A j \in DOMAIN c.labels : Offer(u, NewSlot(c, base, j))

\* The loop of _resolve at its start.
LEMMA StartMoving ==
    ASSUME NEW R, NEW t, NEW u, NEW U, NEW P, NEW L, NEW O, NEW n, NEW label, NEW c, NEW base,
           CanRebase(R, t, u, U, P, L, O, n, label, c, base),
           NEW s, s = [t |-> Rebased(u, c, base), from |-> c.n]
    PROVE  Moving(R, P[n], Content(t, U, P, L), c, base, s, U, P, L, O, 0)
  <1> USE DEF CanRebase
  <1> DEFINE v == s.t
             m == c.node
             q == c.labels
  <1>1. /\ U = Taken(t) /\ IsTree(t, U, P, L, O, {}, {}) /\ n \in U /\ InnerNode(t, L, n)
        /\ label \in Labels
    BY DEF InConflict
  <1>2. /\ IsConflict(c) /\ c.n = n /\ c.label = label /\ c.base_n = t.array[n].base
        /\ m \in U /\ InnerNode(t, L, m) /\ c.base_ = t.array[m].base
        /\ (~ c.newer => m # n) /\ Len(q) \in 1 .. B /\ q[1] \in Labels
        /\ Members(q) = Listed(t, U, L, m) \cup (IF c.newer THEN {label} ELSE {})
        /\ label \notin Listed(t, U, L, n)
        /\ \A x \in Content(t, U, P, L) : x[1] # Named(P[n], label)
    BY DEF ConflictOf
  <1>3. m \in Slots /\ m # 0 /\ n \in Slots /\ (c.newer => m = n) /\ 0 \in Slots
    BY <1>2, SlotRange DEF IsConflict
  <1>4. /\ Taken(u) = U /\ IsTree(u, U, P, L, O, {}, {})
        /\ \A x \in U : u.array[x] = t.array[x]
        /\ u.array[0].base = t.array[0].base
    BY <1>1, KeptTree
  <1>5. /\ U \in SUBSET (Slots \ {0}) /\ P \in [Slots -> Seq(Labels)] /\ L \in [Slots -> Labels]
        /\ O \in [Slots -> Slots] /\ TrieTyped(u)
    BY <1>4 DEF IsTree, GhostTyped
  <1>6. PoolFields \subseteq DOMAIN u /\ {"sibling", "child", "array", "nblk"} \subseteq DOMAIN u
    <2>1. PoolFields \subseteq DOMAIN u
      BY SoundFacts
    <2> QED
      BY <2>1, <1>5 DEF TrieTyped, IsNinfo
  <1>7. v = Rebased(u, c, base) /\ s.from = n
    BY <1>2
  <1> HIDE DEF v, m, q
  <1>8. /\ DOMAIN v = DOMAIN u /\ v.child = [u.child EXCEPT ![m] = q[1]]
        /\ v.array = [u.array EXCEPT ![m].base = base]
        /\ \A field \in DOMAIN u \ {"child", "array"} : v[field] = u[field]
    BY <1>6, <1>7 DEF Rebased, m, q
  <1>9. /\ v.nblk = u.nblk /\ v.num = u.num /\ v.ehead = u.ehead /\ v.lists = u.lists
        /\ v.trial = u.trial /\ v.reject = u.reject /\ v.limit = u.limit /\ v.sibling = u.sibling
    BY <1>6, <1>8 DEF PoolFields
  <1>10. /\ \A x \in Slots : x # m => v.array[x] = u.array[x]
         /\ \A x \in Slots : v.array[x].check = u.array[x].check
         /\ v.array[m].base = base /\ base \in Int
         /\ v.array \in [Slots -> [base : Int, check : Int]]
    <2>1. u.array \in [Slots -> [base : Int, check : Int]]
      BY <1>5 DEF TrieTyped
    <2>2. base \in Int
      BY SlotFacts
    <2> QED
      BY <2>1, <2>2, <1>3, <1>8
  <1>11. /\ v.child[m] = q[1] /\ \A x \in Slots : x # m => v.child[x] = u.child[x]
         /\ v.child \in [Slots -> Labels] /\ v.sibling \in [Slots -> Labels]
    <2>1. u.child \in [Slots -> Labels] /\ u.sibling \in [Slots -> Labels] /\ q[1] \in Labels
      BY <1>2, <1>5 DEF TrieTyped, IsNinfo
    <2> QED
      BY <2>1, <1>3, <1>8, <1>9
  <1>12. TrieTyped(v)
    <2>1. IsNinfo(v)
      BY <1>6, <1>8, <1>11 DEF IsNinfo
    <2> QED
      BY <2>1, <1>5, <1>6, <1>8, <1>9, <1>10 DEF TrieTyped
  <1>13. Sound(R, v)
    <2>1. u.array[m].check >= 0 /\ \A x \in Slots : u.array[x].check \in Int
      BY <1>2, <1>4, <1>5 DEF Taken, TrieTyped
    <2>2. \A x \in Slots : IF u.array[x].check < 0 THEN v.array[x] = u.array[x]
                           ELSE v.array[x].check >= 0
      <3> SUFFICES ASSUME NEW x \in Slots
                   PROVE  IF u.array[x].check < 0 THEN v.array[x] = u.array[x]
                          ELSE v.array[x].check >= 0
        OBVIOUS
      <3>1. CASE x = m
        BY <3>1, <2>1, <1>10
      <3>2. CASE x # m
        BY <3>2, <2>1, <1>10
      <3> QED
        BY <3>1, <3>2
    <2>3. WrittenIn(u, v)
      BY <2>2, <1>6, <1>8, <1>9 DEF WrittenIn
    <2> QED
      BY <2>3, <1>12, WriteSound
  <1>14. Taken(v) = U
    BY <1>4, <1>9, <1>10 DEF Taken
  <1>15. \A x \in U \cup {0} : x \in Slots
    BY <1>3, <1>5
  <1>16. base >= 0
    BY SlotFacts
  <1>17. InnerNode(u, L, m)
    BY <1>2, <1>4 DEF InnerNode
  <1>18. \A x \in U \cup {0} : InnerNode(v, L, x) <=> InnerNode(u, L, x)
    <2> SUFFICES ASSUME NEW x \in U \cup {0} PROVE InnerNode(v, L, x) <=> InnerNode(u, L, x)
      OBVIOUS
    <2>1. CASE x = m
      BY <2>1, <1>10, <1>16, <1>17 DEF InnerNode
    <2>2. CASE x # m
      BY <2>2, <1>10, <1>15 DEF InnerNode
    <2> QED
      BY <2>1, <2>2
  <1>19. \A x \in U : v.array[x].check = u.array[x].check /\ u.array[x].check \in U \cup {0}
    BY <1>4, <1>10, <1>15 DEF IsTree, Edges
  <1>20. IsTree(v, U, P, L, O, {m}, {})
    <2>1. Edges(v, U, P, L, O)
      BY <1>4, <1>18, <1>19 DEF IsTree, Edges
    <2>2. Settled(v, U, O, {m})
      <3> SUFFICES ASSUME NEW e \in U, v.array[e].check # m
                   PROVE  O[e] = v.array[v.array[e].check].base
        BY DEF Settled
      <3>1. O[e] = u.array[u.array[e].check].base
        BY <1>4 DEF IsTree, Settled
      <3> QED
        BY <3>1, <1>10, <1>15, <1>19
    <2>3. Bases(v, U, L)
      <3>1. v.array[0].base = 0
        BY <1>3, <1>4, <1>10 DEF IsTree, Bases
      <3>2. ASSUME NEW x \in U, InnerNode(v, L, x)
            PROVE  /\ v.array[x].base \in Slots
                   /\ Block(v.array[x].base) # 0 /\ Block(v.array[x].base) < v.nblk
        <4>1. CASE x = m
          BY <4>1, <1>9, <1>10
        <4>2. CASE x # m
          <5>1. InnerNode(u, L, x) /\ v.array[x] = u.array[x]
            BY <4>2, <3>2, <1>10, <1>15, <1>18
          <5> QED
            BY <5>1, <1>4, <1>9 DEF IsTree, Bases
        <4> QED
          BY <4>1, <4>2
      <3> QED
        BY <3>1, <3>2 DEF Bases
    <2>4. Clear(v, U, L, {})
      <3>1. \A x \in U : ~ InnerNode(v, L, x) => v.child[x] = 0
        <4> SUFFICES ASSUME NEW x \in U, ~ InnerNode(v, L, x) PROVE v.child[x] = 0
          OBVIOUS
        <4>1. ~ InnerNode(u, L, x)
          BY <1>18
        <4>2. x # m
          BY <4>1, <1>17
        <4>3. u.child[x] = 0
          BY <4>1, <1>4 DEF IsTree, Clear
        <4> QED
          BY <4>2, <4>3, <1>11, <1>15
      <3>2. \A x \in Slots : x # 0 /\ x \notin U /\ x \notin {} => v.child[x] = 0
        <4>1. m \in U
          BY <1>2 DEF m
        <4> QED
          BY <4>1, <1>4, <1>11 DEF IsTree, Clear
      <3> QED
        BY <3>1, <3>2 DEF Clear
    <2>5. \A x : Listed(v, U, L, x) = Listed(u, U, L, x)
      BY <1>19 DEF Listed
    <2>6. Chains(v, U, L, {m})
      <3> SUFFICES ASSUME NEW x \in U \cup {0}, x # m, InnerNode(v, L, x)
                   PROVE  /\ Listed(v, U, L, x) # {}
                          /\ ChainOf(v, x, v.array[x].base, Listed(v, U, L, x))
        BY DEF Chains
      <3>1. InnerNode(u, L, x) /\ v.array[x] = u.array[x] /\ v.child[x] = u.child[x]
        BY <1>10, <1>11, <1>15, <1>18
      <3>2. Listed(u, U, L, x) # {} /\ ChainOf(u, x, u.array[x].base, Listed(u, U, L, x))
        BY <3>1, <1>4 DEF IsTree, Chains
      <3>3. Listed(v, U, L, x) = Listed(u, U, L, x)
        BY <2>5
      <3>4. ChainOf(v, x, u.array[x].base, Listed(u, U, L, x))
        BY <3>1, <3>2, <1>9 DEF ChainOf
      <3> QED
        BY <3>1, <3>2, <3>3, <3>4
    <2> QED
      BY <2>1, <2>2, <2>3, <2>4, <2>6, <1>4, <1>12 DEF IsTree
  <1>21. MovingNode(v, U, P, L, P[n], c, base, n)
    <2>1. m \in U /\ InnerNode(v, L, m) /\ v.array[m].base = base /\ v.child[m] = q[1]
      <3>1. m \in U
        BY <1>2 DEF m
      <3> QED
        BY <3>1, <1>10, <1>11, <1>17, <1>18
    <2>2. n \in U /\ InnerNode(v, L, n)
      <3>1. InnerNode(u, L, n)
        BY <1>1, <1>4 DEF InnerNode
      <3> QED
        BY <3>1, <1>1, <1>18
    <2>3. IF c.newer THEN n = m ELSE n # m /\ v.array[n].base = c.base_n
      <3>1. CASE c.newer
        BY <3>1, <1>3
      <3>2. CASE ~ c.newer
        <4>1. n # m
          BY <3>2, <1>2 DEF m
        <4>2. v.array[n] = t.array[n]
          BY <4>1, <1>1, <1>4, <1>10, <1>15
        <4> QED
          BY <3>2, <4>1, <4>2, <1>2
      <3> QED
        BY <3>1, <3>2
    <2> QED
      BY <2>1, <2>2, <2>3 DEF MovingNode, m, q
  <1>22. ASSUME NEW j \in DOMAIN q, Leaves(c, j)
         PROVE  /\ OldSlot(c, j) \in U /\ v.array[OldSlot(c, j)].check = m
                /\ L[OldSlot(c, j)] = q[j]
    <2>1. q[j] \in Listed(t, U, L, m)
      <3>1. q[j] \in Members(q)
        BY DEF Members
      <3>2. ~ (c.newer /\ q[j] = label)
        <4>1. ASSUME c.newer, q[j] = label PROVE FALSE
          <5>1. OldSlot(c, j) = c.to_pn <=> q[j] = label
            BY <4>1, <1>2, ConflictSlots DEF q
          <5> QED
            BY <4>1, <5>1, <1>22 DEF Leaves
        <4> QED
          BY <4>1
      <3> QED
        BY <3>1, <3>2, <1>2 DEF m, q
    <2>2. OldSlot(c, j) = Xor(t.array[m].base, q[j])
      BY <1>2 DEF OldSlot, m, q
    <2>3. m \in U \cup {0} /\ m \notin {} /\ m # 0
      BY <1>2, <1>3 DEF m
    <2>4. LET e == Xor(t.array[m].base, q[j])
          IN  \/ e \in U /\ t.array[e].check = m /\ L[e] = q[j]
              \/ e = 0 /\ m = 0 /\ q[j] = 0
      BY <2>1, <2>3, <1>1, ChildAt
    <2>5. OldSlot(c, j) \in U /\ t.array[OldSlot(c, j)].check = m /\ L[OldSlot(c, j)] = q[j]
      BY <2>2, <2>3, <2>4
    <2> QED
      BY <2>5, <1>4, <1>10, <1>15
  <1>23. MovingChildren(v, U, L, O, c, base, 0)
    <2>1. \A j \in DOMAIN q : j \in Nat /\ j > 0
      <3>1. \A j \in DOMAIN c.labels : j \in 1 .. Len(c.labels)
        BY <1>2 DEF IsConflict
      <3> QED
        BY <3>1 DEF q
    <2>2. \A j \in DOMAIN q : Offer(v, NewSlot(c, base, j))
      <3>1. \A x : Offer(u, x) => Offer(v, x)
        BY <1>9, <1>10 DEF Offer
      <3> QED
        BY <3>1 DEF q
    <2>3. \A x \in U : v.array[x].check = m => \E j \in DOMAIN q : Leaves(c, j) /\ x = OldSlot(c, j)
      <3> SUFFICES ASSUME NEW x \in U, v.array[x].check = m
                   PROVE  \E j \in DOMAIN q : Leaves(c, j) /\ x = OldSlot(c, j)
        OBVIOUS
      <3>1. t.array[x].check = m
        BY <1>4, <1>19
      <3>2. x = Xor(O[x], L[x]) /\ O[x] = t.array[m].base
        BY <3>1, <1>1 DEF IsTree, Edges, Settled
      <3>3. L[x] \in Listed(t, U, L, m)
        BY <3>1, <1>5, <1>15 DEF Listed
      <3>4. L[x] \in Members(q)
        BY <3>3, <1>2 DEF m, q
      <3>5. PICK j \in DOMAIN q : L[x] = q[j]
        BY <3>4 DEF Members
      <3>6. x = OldSlot(c, j)
        BY <3>2, <3>5, <1>2 DEF OldSlot, m, q
      <3>7. Leaves(c, j)
        <4>1. ASSUME c.newer, OldSlot(c, j) = c.to_pn PROVE FALSE
          <5>1. q[j] = label
            BY <4>1, <1>2, ConflictSlots DEF q
          <5> QED
            BY <4>1, <5>1, <3>3, <3>5, <1>2, <1>3
        <4> QED
          BY <4>1 DEF Leaves
      <3> QED
        BY <3>6, <3>7
    <2>4. \A j \in DOMAIN q : ~ j <= 0
      BY <2>1
    <2> QED
      BY <2>1, <2>2, <2>3, <2>4, <1>22 DEF MovingChildren, m, q
  <1>24. Content(v, U, P, L) = Content(t, U, P, L)
    <2> DEFINE k(y) == <<P[y], InnerNode(v, L, y), IF InnerNode(v, L, y) THEN 0 ELSE v.array[y].base>>
               g(y) == <<P[y], InnerNode(t, L, y), IF InnerNode(t, L, y) THEN 0 ELSE t.array[y].base>>
    <2>1. ASSUME NEW y \in U PROVE k(y) = g(y)
      <3>1. InnerNode(v, L, y) = InnerNode(t, L, y)
        <4>1. InnerNode(v, L, y) <=> InnerNode(u, L, y)
          BY <1>18
        <4> QED
          BY <4>1, <1>4 DEF InnerNode
      <3>2. ~ InnerNode(t, L, y) => y # m
        BY <1>2 DEF m
      <3>3. ~ InnerNode(t, L, y) => v.array[y] = t.array[y]
        BY <3>2, <1>4, <1>10, <1>15
      <3> QED
        BY <3>1, <3>3
    <2>2. Content(v, U, P, L) = {k(y) : y \in U} /\ Content(t, U, P, L) = {g(y) : y \in U}
      BY DEF Content
    <2> HIDE DEF k, g
    <2> QED
      BY <2>1, <2>2
  <1>25. MovingContent(v, U, P, L, P[n], Content(t, U, P, L), c, base, n, 0)
    <2>1. ~ Placed(c, 0)
      <3>1. 1 .. 0 = {}
        OBVIOUS
      <3> QED
        BY <3>1 DEF Placed
    <2> QED
      BY <2>1, <1>2, <1>24 DEF MovingContent
  <1> QED
    BY <1>7, <1>13, <1>14, <1>20, <1>21, <1>23, <1>25 DEF Moving, v, m

\* No step of the loop adds a block.
LEMMA StepSize ==
    ASSUME NEW s, "nblk" \in DOMAIN s.t, NEW c, NEW base \in Slots, NEW i
    PROVE  LET r == MoveChild(s, c, base, i)
           IN  "nblk" \in DOMAIN r.t /\ r.t.nblk = s.t.nblk
  <1> DEFINE u == s.t
             l == c.labels[i]
             to == Xor(base, l)
             k == TakeEnode(u, to, l, c.node)
             next == IF i = Len(c.labels) THEN 0 ELSE c.labels[i + 1]
             v == [k EXCEPT !.sibling[to] = next]
             a == Xor(c.base_, l)
             x == Inherit(v, a, to, l)
             f == IF ~ c.newer /\ a = s.from THEN to ELSE s.from
             Same(p, q) == "nblk" \in DOMAIN p => "nblk" \in DOMAIN q /\ q.nblk = p.nblk
  <1>1. Same(u, k)
    BY DEF TakeEnode
  <1>2. Same(k, v)
    OBVIOUS
  <1>3. \A p, q \in {v} : Same(p, q)
    OBVIOUS
  <1>4. Same(v, x)
    <2> HIDE DEF v, a, to, l
    <2>1. CASE v.array[a].base > 0 /\ l # 0
      BY <2>1 DEF Inherit, Adopt
    <2>2. CASE ~ (v.array[a].base > 0 /\ l # 0)
      BY <2>2 DEF Inherit
    <2> QED
      BY <2>1, <2>2
  <1>5. Same(x, Release(x, a))
    <2> HIDE DEF x, a
    <2>1. Same(x, PushEnode(x, a))
      BY DEF PushEnode
    <2> DEFINE y == PushEnode(x, a)
    <2>2. Same(y, [y EXCEPT !.sibling[a] = 0, !.child[a] = 0])
      <3> HIDE DEF y
      <3> QED
        OBVIOUS
    <2>3. Release(x, a) = [y EXCEPT !.sibling[a] = 0, !.child[a] = 0]
      BY DEF Release
    <2> HIDE DEF y
    <2> QED
      BY <2>1, <2>2, <2>3 DEF y
  <1>6. Same(x, TakeOver(x, c, f))
    <2> HIDE DEF x, f
    <2> DEFINE z == PushSibling(x, f, c.base_n, c.label, TRUE)
    <2>1. Same(x, z)
      BY DEF PushSibling
    <2>2. TakeOver(x, c, f) = [z EXCEPT !.child[c.to_pn] = 0,
                                 !.array[c.to_pn] = Node(IF c.label # 0 THEN -1 ELSE 0, f)]
      BY DEF TakeOver
    <2> HIDE DEF z
    <2>3. Same(z, TakeOver(x, c, f))
      BY <2>2
    <2> QED
      BY <2>1, <2>3
  <1>7. ~ base < 0
    BY SlotFacts
  <1>8. PopEnode(s.t, base, l, c.node) = k
    BY <1>7 DEF PopEnode
  <1>9. MoveChild(s, c, base, i) = MoveTo(v, s.from, c, base, l)
    <2>1. v = [PopEnode(s.t, base, l, c.node) EXCEPT !.sibling[to] = next]
      BY <1>8
    <2> HIDE DEF v
    <2> QED
      BY <2>1 DEF MoveChild
  <1>10. MoveTo(v, s.from, c, base, l) =
           IF c.newer /\ a = c.to_pn THEN [t |-> v, from |-> s.from]
           ELSE [t |-> IF ~ c.newer /\ a = c.to_pn THEN TakeOver(x, c, f) ELSE Release(x, a),
                 from |-> f]
    <2> HIDE DEF v
    <2> QED
      BY DEF MoveTo, LeaveSlot
  <1> HIDE DEF u, k, v, a, x, f
  <1>11. /\ "nblk" \in DOMAIN v /\ v.nblk = s.t.nblk /\ "nblk" \in DOMAIN x /\ x.nblk = s.t.nblk
    BY <1>1, <1>2, <1>4 DEF u
  <1> DEFINE y == TakeOver(x, c, f)
             z == Release(x, a)
  <1>12. "nblk" \in DOMAIN y /\ y.nblk = s.t.nblk /\ "nblk" \in DOMAIN z /\ z.nblk = s.t.nblk
    BY <1>5, <1>6, <1>11
  <1> HIDE DEF y, z
  <1>13. \/ MoveChild(s, c, base, i) = [t |-> v, from |-> s.from]
         \/ MoveChild(s, c, base, i) = [t |-> y, from |-> f]
         \/ MoveChild(s, c, base, i) = [t |-> z, from |-> f]
    BY <1>9, <1>10 DEF y, z
  <1> QED
    BY <1>11, <1>12, <1>13

\* The first label of the node that moves is the child it has, or gets.
LEMMA FirstLabel ==
    ASSUME NEW t, NEW U, NEW P, NEW L, NEW O, NEW n, NEW label, NEW c,
           InConflict(t, U, P, L, O, n, label), ConflictOf(t, U, P, L, n, label, c)
    PROVE  (IF c.newer /\ c.labels[1] = c.label THEN c.label ELSE t.child[c.node]) = c.labels[1]
  <1> DEFINE m == c.node
             q == c.labels
             S == Listed(t, U, L, m)
             M == Members(q)
  <1>1. /\ m \in U /\ InnerNode(t, L, m) /\ c.label = label /\ Len(q) \in 1 .. B
        /\ q \in Seq(Labels) /\ Ascending(q)
        /\ M = S \cup (IF c.newer THEN {label} ELSE {})
        /\ (c.newer => m = n) /\ label \notin Listed(t, U, L, n) /\ label \in Labels
        /\ IsTree(t, U, P, L, O, {}, {})
    BY DEF ConflictOf, IsConflict, InConflict
  <1>2. S # {} /\ t.child[m] = FirstOf(S) /\ S \in SUBSET Labels
    <2>1. S # {} /\ ChainOf(t, m, t.array[m].base, S)
      BY <1>1 DEF IsTree, Chains
    <2> QED
      BY <2>1 DEF ChainOf, Listed
  <1>3. q # <<>>
    BY <1>1
  <1>4. FirstOf(M) = q[1]
    <2> HIDE DEF M, q
    <2>1. M = Members(q)
      BY DEF M
    <2> QED
      BY <2>1, <1>1, <1>3, AscendingChain
  <1>5. CASE ~ c.newer
    BY <1>1, <1>2, <1>4, <1>5
  <1>6. CASE c.newer /\ q[1] = label
    BY <1>1, <1>6
  <1>7. CASE c.newer /\ q[1] # label
    <2>1. label \notin S
      BY <1>1, <1>7
    <2> HIDE DEF S, M
    <2>2. M = S \cup {label}
      BY <1>1, <1>7
    <2>3. FirstOf(S \cup {label}) = IF S = {} \/ label < FirstOf(S) THEN label ELSE FirstOf(S)
      BY <2>1, <1>1, <1>2, FirstWith
    <2>4. q[1] = FirstOf(S)
      BY <2>2, <2>3, <1>2, <1>4, <1>7
    <2> QED
      BY <2>4, <1>1, <1>2, <1>7
  <1> QED
    BY <1>5, <1>6, <1>7

\* The tree of r, whose node r.from at path has the child label at r.to.
Followed(R, C, path, label, r, V, P, L, O) ==
    /\ Sound(R, r.t) /\ V = Taken(r.t) /\ IsTree(r.t, V, P, L, O, {}, {})
    /\ r.from \in V \cup {0} /\ InnerNode(r.t, L, r.from) /\ P[r.from] = path
    /\ r.to \in V /\ r.t.array[r.to].check = r.from /\ L[r.to] = label
    /\ Content(r.t, V, P, L) = C

\* The same, whatever the slots.
HasChild(R, C, path, label, r) == \E V, P, L, O : Followed(R, C, path, label, r, V, P, L, O)

\* The loop of _resolve, from the place _find_place has offered.
LEMMA MoveAll ==
    ASSUME NEW R, Spare("chain", R), NEW t, NEW u, NEW U, NEW P, NEW L, NEW O, NEW n, NEW label,
           NEW c, NEW base, CanRebase(R, t, u, U, P, L, O, n, label, c, base),
           NEW r, r = MoveChildren(u, c, base),
           NEW path, path = P[n], NEW D, D = Content(t, U, P, L) \cup {Newcomer(c, path)}
    PROVE  r.t.nblk = u.nblk /\ HasChild(R, D, path, label, r)
  <1> DEFINE s0 == [t |-> Rebased(u, c, base), from |-> c.n]
             N == Len(c.labels)
             C == Content(t, U, P, L)
             Next1(s, i) == MoveChild(s, c, base, i)
             Step(g, i) == IF i = 0 THEN s0 ELSE Next1(g[i - 1], i)
             Good(g, k) == g = [i \in 0 .. k |-> Step(g, i)]
             Bad == {k \in Nat : ~ \E g : Good(g, k)}
             to == IF c.newer THEN Xor(base, c.label) ELSE c.to_pn
  <1>1. Bad = {}
    <2> SUFFICES ASSUME Bad # {} PROVE FALSE
      OBVIOUS
    <2> HIDE DEF Next1, s0
    <2>1. Bad \in SUBSET Nat
      OBVIOUS
    <2> HIDE DEF Bad
    <2>2. PICK m \in Bad : \A x \in Bad : m <= x
      BY <2>1, Least
    <2>3. m \in Nat /\ ~ \E g : Good(g, m)
      BY DEF Bad
    <2>4. CASE m = 0
      <3> DEFINE g == [i \in 0 .. 0 |-> s0]
      <3>1. Good(g, 0)
        BY DEF g
      <3> QED
        BY <3>1, <2>3, <2>4
    <2>5. CASE m # 0
      <3>1. m - 1 \in Nat /\ m - 1 \notin Bad
        BY <2>2, <2>3, <2>5
      <3>2. PICK h : Good(h, m - 1)
        BY <3>1 DEF Bad
      <3> DEFINE g == [i \in 0 .. m |-> Step(h, i)]
      <3>3. ASSUME NEW i \in 0 .. m PROVE Step(g, i) = Step(h, i)
        <4>1. CASE i = 0
          BY <4>1
        <4>2. CASE i # 0
          <5>1. i - 1 \in 0 .. m /\ i - 1 \in 0 .. m - 1
            BY <4>2, <2>3
          <5>2. g[i - 1] = Step(h, i - 1)
            BY <5>1
          <5>3. h[i - 1] = Step(h, i - 1)
            <6> HIDE DEF Step
            <6> QED
              BY <5>1, <3>2
          <5> HIDE DEF g
          <5> QED
            BY <4>2, <5>2, <5>3
        <4> QED
          BY <4>1, <4>2
      <3>4. Good(g, m)
        <4> HIDE DEF Step
        <4> QED
          BY <3>3
      <3> QED
        BY <3>4, <2>3
    <2> QED
      BY <2>4, <2>5
  <1>2. /\ IsConflict(c) /\ c.label = label /\ N \in 1 .. B /\ N \in Nat /\ DOMAIN c.labels = 1 .. N
        /\ base \in Slots /\ c.n = n
    <2>1. /\ IsConflict(c) /\ c.label = label /\ N \in 1 .. B /\ base \in Slots /\ c.n = n
      BY DEF CanRebase, ConflictOf
    <2> QED
      BY <2>1, BlockAssumption DEF IsConflict
  <1>3. \E g : Good(g, N)
    BY <1>1, <1>2
  <1>4. s0 = [t |-> [u EXCEPT !.array[c.node].base = base,
                         !.child[c.node] = IF c.newer /\ c.labels[1] = c.label
                                           THEN c.label ELSE u.child[c.node]],
              from |-> c.n]
    <2>1. u.child = t.child /\ InConflict(t, U, P, L, O, n, label) /\ ConflictOf(t, U, P, L, n, label, c)
      BY DEF CanRebase, Kept
    <2>2. (IF c.newer /\ c.labels[1] = c.label THEN c.label ELSE t.child[c.node]) = c.labels[1]
      BY <2>1, FirstLabel
    <2> QED
      BY <2>1, <2>2 DEF Rebased
  <1>5. PICK g : Good(g, N) /\ r = NewcomerAt(g[N], to)
    <2> HIDE DEF s0
    <2> QED
      BY <1>3, <1>4 DEF MoveChildren
  <1> DEFINE Fine(s, i) ==
               /\ "nblk" \in DOMAIN s.t /\ s.t.nblk = u.nblk
               /\ \E V2, P2, L2, O2 : Moving(R, P[n], C, c, base, s, V2, P2, L2, O2, i)
  <1>6. Fine(s0, 0)
    <2>1. Moving(R, P[n], C, c, base, s0, U, P, L, O, 0)
      <3> HIDE DEF C
      <3> QED
        BY StartMoving DEF C
    <2>2. s0.t = Rebased(u, c, base)
      OBVIOUS
    <2>3. "nblk" \in DOMAIN u
      BY SoundFacts DEF CanRebase, TrieTyped
    <2>4. "nblk" \in DOMAIN s0.t /\ s0.t.nblk = u.nblk
      BY <2>2, <2>3 DEF Rebased
    <2> HIDE DEF s0, C
    <2> QED
      BY <2>1, <2>4
  <1> HIDE DEF s0, C
  <1>7. g[0] = s0 /\ \A i \in 1 .. N : g[i] = Next1(g[i - 1], i)
    BY <1>2, <1>5
  <1> HIDE DEF Next1
  <1> DEFINE Out == {i \in 0 .. N : ~ Fine(g[i], i)}
  <1>8. Out = {}
    <2> SUFFICES ASSUME Out # {} PROVE FALSE
      OBVIOUS
    <2> HIDE DEF Fine
    <2>1. Out \in SUBSET Nat
      OBVIOUS
    <2> HIDE DEF Out
    <2>2. PICK m \in Out : \A x \in Out : m <= x
      BY <2>1, Least
    <2>3. m \in 0 .. N /\ ~ Fine(g[m], m)
      BY DEF Out
    <2>4. m # 0
      BY <2>3, <1>6, <1>7
    <2>5. m - 1 \in 0 .. N /\ m - 1 \notin Out /\ m \in 1 .. N
      BY <1>2, <2>2, <2>3, <2>4
    <2> DEFINE a == g[m - 1]
               b == g[m]
    <2>6. Fine(a, m - 1) /\ b = MoveChild(a, c, base, m)
      BY <2>5, <1>7 DEF Out, Next1
    <2> HIDE DEF a, b
    <2>7. PICK V2, P2, L2, O2 : Moving(R, P[n], C, c, base, a, V2, P2, L2, O2, m - 1)
      BY <2>6 DEF Fine
    <2>8. \E V3, P3, L3, O3 : Moving(R, P[n], C, c, base, b, V3, P3, L3, O3, m)
      <3>1. m \in DOMAIN c.labels
        BY <2>5, <1>2
      <3>2. Moving(R, path, C, c, base, a, V2, P2, L2, O2, m - 1)
        BY <2>7
      <3> HIDE DEF N
      <3>3. \E V3, P3, L3, O3 :
              Moving(R, path, C, c, base, MoveChild(a, c, base, m), V3, P3, L3, O3, m)
        BY <3>1, <3>2, <1>2, MoveStep
      <3> QED
        BY <3>3, <2>6
    <2>9. "nblk" \in DOMAIN b.t /\ b.t.nblk = u.nblk
      <3>1. "nblk" \in DOMAIN a.t /\ a.t.nblk = u.nblk
        BY <2>6 DEF Fine
      <3> QED
        BY <3>1, <2>6, <1>2, StepSize
    <2> QED
      BY <2>3, <2>8, <2>9 DEF b, Fine
  <1> DEFINE s == g[N]
  <1>9. Fine(s, N) /\ r = NewcomerAt(s, to)
    <2> HIDE DEF Fine
    <2>1. N \in 0 .. N
      BY <1>2
    <2>2. Fine(g[N], N)
      BY <2>1, <1>8
    <2> QED
      BY <2>2, <1>5
  <1> HIDE DEF s
  <1>10. r.t = s.t /\ r.from = s.from /\ r.to = to
    BY <1>9 DEF NewcomerAt
  <1>11. PICK V2, P2, L2, O2 : Moving(R, P[n], C, c, base, s, V2, P2, L2, O2, N)
    BY <1>9
  <1>12. IsTree(s.t, V2, P2, L2, O2, {}, {})
    <2>1. Moving(R, path, C, c, base, s, V2, P2, L2, O2, Len(c.labels))
      BY <1>11
    <2> HIDE DEF N
    <2> QED
      BY <2>1, <1>2, CloseChain
  <1>13. Placed(c, N)
    <2>1. N \in DOMAIN c.labels
      BY <1>2
    <2> QED
      BY <2>1, <1>2, PlacedOn
  <1>14. to = NewcomerSlot(c, base)
    BY DEF NewcomerSlot
  <1>15. /\ Sound(R, s.t) /\ V2 = Taken(s.t)
         /\ s.from \in V2 /\ InnerNode(s.t, L2, s.from) /\ P2[s.from] = P[n]
         /\ Content(s.t, V2, P2, L2) = C \cup {Newcomer(c, P[n])}
         /\ to \in V2 /\ s.t.array[to].check = s.from /\ L2[to] = label
    <2> HIDE DEF N, to
    <2> QED
      BY <1>2, <1>11, <1>13, <1>14 DEF Moving, MovingNode, MovingContent
  <1>16. Followed(R, C \cup {Newcomer(c, P[n])}, P[n], label, r, V2, P2, L2, O2)
    BY <1>10, <1>12, <1>15 DEF Followed
  <1>17. HasChild(R, D, path, label, r)
    BY <1>16 DEF C, HasChild
  <1> QED
    BY <1>9, <1>10, <1>17

\* _resolve: whichever node moves its children, and even if that moves n, the
\* trie is as before but for a new child of n, without children.
THEOREM ResolveTree ==
    ASSUME NEW R, Spare("chain", R), NEW t, Sound(R, t), t.nblk < MaxBlocks,
           NEW U, NEW P, NEW L, NEW O, NEW n, NEW label, InConflict(t, U, P, L, O, n, label),
           NEW r, r = Resolve(t, n, label),
           NEW path, path = P[n],
           NEW D, D = Content(t, U, P, L) \cup {Leaf(Named(path, label), label)}
    PROVE  r.t.nblk \in {t.nblk, t.nblk + 1} /\ HasChild(R, D, path, label, r)
  <1> DEFINE c == Conflict(t, n, label)
             place == IF Len(c.labels) = 1 THEN FindSlot(t) ELSE FindSlots(t, c.labels)
             base == Xor(place.at, c.labels[1])
             u == place.t
  <1>1. ConflictOf(t, U, P, L, n, label, c)
    BY ConflictIs
  <1> HIDE DEF c
  <1>2. /\ IsConflict(c) /\ c.label = label /\ Len(c.labels) \in 1 .. B
        /\ c.labels \in Seq(Labels) /\ c.labels[1] \in Labels /\ DOMAIN c.labels = 1 .. Len(c.labels)
    BY <1>1 DEF ConflictOf, IsConflict
  <1>3. /\ Sound(R, u) /\ Kept(t, u) /\ Offer(u, place.at)
        /\ \A j \in DOMAIN c.labels : Offer(u, Xor(base, c.labels[j]))
    <2>1. CASE Len(c.labels) = 1
      <3> DEFINE f == FindSlot(t)
      <3>1. Sound(R, f.t) /\ Kept(t, f.t) /\ Offer(f.t, f.at)
        BY FindSlotSound
      <3> HIDE DEF f
      <3>2. Xor(Xor(f.at, c.labels[1]), c.labels[1]) = f.at
        BY <3>1, <1>2, XorAssumption DEF Offer
      <3>3. place = f
        BY <2>1 DEF f
      <3>4. \A j \in DOMAIN c.labels : j = 1
        BY <2>1, <1>2
      <3> HIDE DEF place
      <3> QED
        BY <3>1, <3>2, <3>3, <3>4
    <2>2. CASE Len(c.labels) # 1
      <3> DEFINE q == c.labels
                 f == FindSlots(t, q)
      <3>0. Len(q) \in 1 .. B /\ Len(q) # 1 /\ B \in Nat /\ Len(q) \in Nat
        BY <2>2, <1>2, BlockAssumption
      <3>1. q \in Seq(Labels) /\ Len(q) \in 2 .. B
        <4>1. Len(q) \in 2 .. B
          <5> DEFINE k == Len(q)
          <5>1. k \in 1 .. B /\ k # 1 /\ B \in Nat /\ k \in Nat
            BY <3>0
          <5> HIDE DEF k
          <5>2. k \in 2 .. B
            BY <5>1
          <5> QED
            BY <5>2 DEF k
        <4> QED
          BY <4>1, <1>2
      <3>2. place = f
        BY <2>2
      <3> HIDE DEF q, place
      <3>3. Sound(R, f.t) /\ Kept(t, f.t) /\ Offer(f.t, f.at) /\ AllOffered(f.t, f.at, q)
        BY <3>1, FindSlotsSound
      <3> HIDE DEF f
      <3> QED
        BY <3>2, <3>3 DEF AllOffered, q
    <2> QED
      BY <2>1, <2>2
  <1>4. r = MoveChildren(u, c, base)
    BY DEF Resolve, ResolveConflict, ResolveAt, c
  <1> HIDE DEF place, u
  <1>5. base \in Slots /\ Block(base) # 0 /\ Block(base) < u.nblk
    BY <1>2, <1>3, XorAssumption DEF Offer
  <1>6. CanRebase(R, t, u, U, P, L, O, n, label, c, base)
    BY <1>1, <1>3, <1>5 DEF CanRebase, NewSlot
  <1> HIDE DEF base
  <1>8. D = Content(t, U, P, L) \cup {Newcomer(c, path)}
    BY <1>2 DEF Newcomer
  <1>7. r.t.nblk = u.nblk /\ HasChild(R, D, path, label, r)
    <2> HIDE DEF c
    <2> QED
      BY <1>4, <1>6, <1>8, MoveAll
  <1>9. u.nblk \in {t.nblk, t.nblk + 1}
    BY <1>3 DEF Kept
  <1> QED
    BY <1>7, <1>9

-----------------------------------------------------------------------------
(* _follow: a new child.                                                   *)

\* The slot e was taken for the child label of n, which lists S so far: a
\* node whose chain stands, or one that has just got its base (X).
CanAppend(R, v, U, P, L, O, X, n, base, e, label, S) ==
    /\ Sound(R, v) /\ IsTree(v, U, P, L, O, X, {}) /\ Taken(v) = U \cup {e}
    /\ e \in Slots /\ e \notin U /\ e # 0 /\ v.child[e] = 0
    /\ v.array[e] = Node(IF label # 0 THEN -1 ELSE 0, n)
    /\ n \in U \cup {0} /\ InnerNode(v, L, n) /\ label \in Labels /\ (n = 0 => label # 0)
    /\ base \in Slots /\ base = v.array[n].base /\ e = Xor(base, label)
    /\ S = Listed(v, U, L, n) /\ label \notin S
    /\ X \in {{}, {n}}
    /\ n \in X => n # 0 /\ v.child[n] = 0 /\ \A x \in U : v.array[x].check # n

\* _push_sibling completes the new child.
LEMMA AppendTree ==
    ASSUME NEW R, NEW v, NEW U, NEW P, NEW L, NEW O, NEW X, NEW n, NEW base, NEW e, NEW label,
           NEW S, CanAppend(R, v, U, P, L, O, X, n, base, e, label, S),
           NEW in_order \in BOOLEAN, in_order <=> S # {},
           NEW r, r = NewChild(v, n, label, in_order), NEW path, path = P[n],
           NEW D, D = Content(v, U, P, L) \cup {Leaf(Named(path, label), label)}
    PROVE  HasChild(R, D, path, label, r) /\ r.t.nblk = v.nblk
  <1> USE DEF CanAppend
  <1> DEFINE z == PushSibling(v, n, base, label, in_order)
             T == S \cup {label}
             Y == {}
             U2 == U \cup {e}
             P2 == With(P, e, Named(path, label))
             L2 == With(L, e, label)
             O2 == With(O, e, base)
  <1>1. /\ U \in SUBSET (Slots \ {0}) /\ P \in [Slots -> Seq(Labels)] /\ L \in [Slots -> Labels]
        /\ O \in [Slots -> Slots] /\ TrieTyped(v) /\ 0 \in Slots /\ n \in Slots
    BY SlotRange DEF IsTree, GhostTyped
  <1>2. r = [t |-> z, from |-> n, to |-> e]
    BY DEF NewChild
  <1>3. r.t = z /\ r.from = n /\ r.to = e
    <2> HIDE DEF z
    <2> QED
      BY <1>2
  <1>4. S \in SUBSET Labels /\ ChainOf(v, n, base, S)
    <2>1. S \in SUBSET Labels
      BY DEF Listed
    <2>2. CASE n \in X
      <3>1. S = {}
        BY <2>2 DEF Listed
      <3> QED
        BY <2>1, <2>2, <3>1 DEF ChainOf, FirstOf
    <2>3. CASE n \notin X
      BY <2>1, <2>3 DEF IsTree, Chains
    <2> QED
      BY <2>2, <2>3
  <1>5. ChainOf(z, n, base, T) /\ OnlyChain(v, z, n, base, T)
    <2>1. IsNinfo(v) /\ label \in Labels \ S
      BY <1>1 DEF TrieTyped
    <2> HIDE DEF z, T
    <2> QED
      BY <2>1, <1>1, <1>4, PushSiblingOrder DEF z, T
  <1>6. /\ DOMAIN z = DOMAIN v /\ \A field \in DOMAIN v \ {"sibling", "child"} : z[field] = v[field]
        /\ IsNinfo(z)
        /\ \A x \in Slots \ {n} : z.child[x] = v.child[x]
        /\ \A x \in Slots : (\A l \in T : x # Xor(base, l)) => z.sibling[x] = v.sibling[x]
    BY <1>5 DEF OnlyChain
  <1> HIDE DEF z, T, Y, U2, P2, L2, O2
  <1>7. PoolFields \subseteq DOMAIN v /\ {"sibling", "child", "array", "nblk"} \subseteq DOMAIN v
    <2>1. PoolFields \subseteq DOMAIN v
      BY SoundFacts
    <2> QED
      BY <2>1, <1>1 DEF TrieTyped, IsNinfo
  <1>8. /\ z.array = v.array /\ z.nblk = v.nblk /\ z.num = v.num /\ z.ehead = v.ehead
        /\ z.lists = v.lists /\ z.trial = v.trial /\ z.reject = v.reject /\ z.limit = v.limit
    BY <1>6, <1>7 DEF PoolFields
  <1>9. TrieTyped(z)
    BY <1>1, <1>6, <1>7, <1>8 DEF TrieTyped
  <1>10. \A x \in Slots : v.array[x].check \in Int /\ v.array[x].base \in Int
    BY <1>1 DEF TrieTyped
  <1>11. Sound(R, z)
    <2>1. WrittenIn(v, z)
      BY <1>6, <1>7, <1>8, <1>10 DEF WrittenIn
    <2> QED
      BY <2>1, <1>9, WriteSound
  <1>12. v.array[e].check = n /\ v.array[e].base = IF label # 0 THEN -1 ELSE 0
    BY DEF Node
  <1>13. OneMore(U, P, L, O, e, Named(P[n], label), label, base, U2, P2, L2, O2)
    BY DEF OneMore, U2, P2, L2, O2
  <1>14. CanAttach(v, U, L, X, n, base, e, label, T, Y)
    <2>1. Y \in {X, X \ {n}} /\ T = Listed(v, U, L, n) \cup {label}
      BY DEF Y, T
    <2>2. n \in X \ Y => n # 0 /\ \A x \in U : v.array[x].check # n
      OBVIOUS
    <2>3. label \notin Listed(v, U, L, n)
      OBVIOUS
    <2> QED
      BY <2>1, <2>2, <2>3 DEF CanAttach
  <1>15. AttachedTo(v, z, U, n, base, e, label, T, Y, {})
    <2>1. z.nblk >= v.nblk /\ z.array[0].base = v.array[0].base /\ \A x \in U : z.array[x] = v.array[x]
      <3>1. v.nblk \in Nat
        BY <1>1 DEF TrieTyped
      <3> QED
        BY <3>1, <1>8
    <2>2. z.array[e].check = n /\ (label # 0 => z.array[e].base < 0)
      BY <1>8, <1>12
    <2>3. n # e
      OBVIOUS
    <2>4. z.child[e] = 0
      BY <2>3, <1>6
    <2>5. \A m \in U \cup {0} : m # n => z.child[m] = v.child[m]
      BY <1>1, <1>6
    <2>6. \A x \in U \cup {0} : (\A l \in T : x # Xor(base, l)) => z.sibling[x] = v.sibling[x]
      BY <1>1, <1>6
    <2>7. \A x \in Slots : x # 0 /\ x \notin U /\ x # e /\ x \notin {} => z.child[x] = 0
      <3> SUFFICES ASSUME NEW x \in Slots, x # 0, x \notin U, x # e PROVE z.child[x] = 0
        OBVIOUS
      <3>1. v.child[x] = 0
        BY DEF IsTree, Clear
      <3>2. x # n
        OBVIOUS
      <3> QED
        BY <3>1, <3>2, <1>6
    <2>8. n \notin Y => ChainOf(z, n, base, T)
      BY <1>5
    <2>9. \A x \in U \cup {0} : n \in Y \/ (\A l \in T : x # Xor(base, l)) => z.sibling[x] = v.sibling[x]
      BY <2>6 DEF Y
    <2> QED
      BY <2>1, <2>2, <2>4, <2>5, <2>7, <2>8, <2>9 DEF AttachedTo
  <1>16. IsTree(z, U2, P2, L2, O2, Y, {})
    <2>1. IsTree(v, U, P, L, O, X, {})
      OBVIOUS
    <2> QED
      BY <2>1, <1>9, <1>13, <1>14, <1>15, Attached
  <1>17. Taken(z) = U2
    <2>1. Taken(z) = Taken(v)
      BY <1>8 DEF Taken
    <2> QED
      BY <2>1 DEF U2
  <1>18. Content(z, U2, P2, L2) = D /\ \A x \in U : InnerNode(z, L2, x) <=> InnerNode(v, L, x)
    <2>1. SameBases(v, z, U)
      BY <1>8 DEF SameBases
    <2>2. NewLeaf(v, z, U, P, L, e, label)
      BY <2>1, <1>1, <1>8, <1>12 DEF NewLeaf
    <2>3. /\ Content(z, U2, P2, L2) = Content(v, U, P, L) \cup {Leaf(Named(P[n], label), label)}
          /\ \A x \in U : InnerNode(z, L2, x) <=> InnerNode(v, L, x)
      BY <2>2, <1>13, ContentGrows
    <2> QED
      BY <2>3
  <1>19. /\ \A x \in Slots : x # e => P2[x] = P[x] /\ L2[x] = L[x]
         /\ L2[e] = label
    BY <1>1 DEF With, P2, L2
  <1>20. n \in U2 \cup {0} /\ InnerNode(z, L2, n) /\ P2[n] = path /\ n # e
    <2>1. n # e
      OBVIOUS
    <2>2. InnerNode(z, L2, n)
      BY <2>1, <1>1, <1>8, <1>19 DEF InnerNode
    <2> QED
      BY <2>1, <2>2, <1>1, <1>19 DEF U2
  <1>21. e \in U2 /\ z.array[e].check = n
    BY <1>8, <1>12 DEF U2
  <1>22. Followed(R, D, path, label, r, U2, P2, L2, O2)
    BY <1>3, <1>11, <1>16, <1>17, <1>18, <1>19, <1>20, <1>21 DEF Followed, Y
  <1>23. HasChild(R, D, path, label, r)
    BY <1>22 DEF HasChild
  <1> QED
    BY <1>3, <1>8, <1>23

\* What a tree holds once the node at path has children.
Opened(C, path) == {IF x[1] = path THEN <<path, TRUE, 0>> ELSE x : x \in C}

\* A node with children is open; the root always is.
LEMMA OpenedSame ==
    ASSUME NEW t, NEW U, NEW P, NEW L, NEW O, NEW V, IsTree(t, U, P, L, O, {}, V),
           NEW n \in U \cup {0}, InnerNode(t, L, n)
    PROVE  Opened(Content(t, U, P, L), P[n]) = Content(t, U, P, L)
  <1> DEFINE g(y) == <<P[y], InnerNode(t, L, y), IF InnerNode(t, L, y) THEN 0 ELSE t.array[y].base>>
  <1>1. Content(t, U, P, L) = {g(y) : y \in U}
    BY DEF Content
  <1>2. ASSUME NEW y \in U PROVE (IF g(y)[1] = P[n] THEN <<P[n], TRUE, 0>> ELSE g(y)) = g(y)
    <2>1. CASE P[y] = P[n]
      <3>1. y = n
        BY <2>1, PathsApart
      <3>2. InnerNode(t, L, y) = TRUE
        BY <3>1 DEF InnerNode
      <3> QED
        BY <2>1, <3>2
    <2>2. CASE P[y] # P[n]
      BY <2>2
    <2> QED
      BY <2>1, <2>2
  <1> HIDE DEF g
  <1>3. Opened({g(y) : y \in U}, P[n]) = {g(y) : y \in U}
    <2>1. ASSUME NEW x \in {g(y) : y \in U} PROVE (IF x[1] = P[n] THEN <<P[n], TRUE, 0>> ELSE x) = x
      BY <1>2
    <2> QED
      BY <2>1 DEF Opened
  <1> QED
    BY <1>1, <1>3

\* The leaf n, which is no terminal, gets its first child, anywhere.
CanOpen(R, t, U, P, L, O, n, label) ==
    /\ Sound(R, t) /\ t.nblk < MaxBlocks /\ U = Taken(t) /\ IsTree(t, U, P, L, O, {}, {})
    /\ n \in U /\ L[n] # 0 /\ t.array[n].base < 0 /\ label \in Labels

\* A leaf gets a base, and its first child a slot.
LEMMA OpenLeaf ==
    ASSUME NEW R, Spare("chain", R), NEW t, NEW U, NEW P, NEW L, NEW O, NEW n, NEW label,
           CanOpen(R, t, U, P, L, O, n, label), NEW f, f = FindSlot(t),
           NEW v, v = PopAnywhere(f, label, n), NEW base, base = Xor(f.at, label),
           NEW X, X = {n}, NEW S, S = {}
    PROVE  /\ CanAppend(R, v, U, P, L, O, X, n, base, f.at, label, S)
           /\ Content(v, U, P, L) = Opened(Content(t, U, P, L), P[n])
           /\ v.nblk \in {t.nblk, t.nblk + 1}
  <1> USE DEF CanOpen
  <1> DEFINE u == f.t
             e == f.at
             k == TakeEnode(u, e, label, n)
  <1>1. Sound(R, u) /\ Kept(t, u) /\ Offer(u, e)
    BY FindSlotSound
  <1>2. /\ Taken(u) = U /\ IsTree(u, U, P, L, O, {}, {})
        /\ \A x \in U : u.array[x] = t.array[x]
    BY <1>1, KeptTree
  <1>3. /\ U \in SUBSET (Slots \ {0}) /\ P \in [Slots -> Seq(Labels)] /\ L \in [Slots -> Labels]
        /\ O \in [Slots -> Slots] /\ n \in Slots /\ n # 0 /\ 0 \in Slots
    BY SlotRange DEF IsTree, GhostTyped
  <1>4. /\ Sound(R, k) /\ TakenAs(u, k, e, label, n) /\ IsTree(k, U, P, L, O, {}, {})
        /\ Taken(k) = U \cup {e} /\ e \notin U /\ e # 0 /\ e \in Slots /\ k.child[e] = 0
        /\ \A x \in U : k.array[x] = u.array[x]
    <2> DEFINE W == {}
    <2>1. Takeable(R, u, e)
      BY <1>1, OfferTakeable
    <2>2. IsTree(u, U, P, L, O, W, {}) /\ U = Taken(u)
      BY <1>2
    <2> HIDE DEF W, k, u, e
    <2>3. /\ Sound(R, k) /\ TakenAs(u, k, e, label, n) /\ IsTree(k, U, P, L, O, W, {})
          /\ Taken(k) = U \cup {e} /\ e \notin U /\ e # 0 /\ e \in Slots /\ k.child[e] = 0
          /\ \A x \in U : k.array[x] = u.array[x]
      BY <2>1, <2>2, <1>1, <1>3, TakeTree DEF k
    <2> QED
      BY <2>3 DEF W
  <1>5. v = [k EXCEPT !.array[n].base = base]
    BY DEF PopAnywhere
  <1>6. /\ k.nblk = u.nblk /\ k.array[e] = Node(IF label # 0 THEN -1 ELSE 0, n)
    BY <1>4 DEF TakenAs
  <1> HIDE DEF k
  <1>7. TrieTyped(k) /\ PoolFields \subseteq DOMAIN k /\ {"sibling", "child", "array", "nblk"} \subseteq DOMAIN k
    <2>1. TrieTyped(k) /\ PoolFields \subseteq DOMAIN k
      BY <1>4, SoundFacts
    <2> QED
      BY <2>1 DEF TrieTyped, IsNinfo
  <1>8. /\ DOMAIN v = DOMAIN k /\ v.array = [k.array EXCEPT ![n].base = base]
        /\ \A field \in DOMAIN k \ {"array"} : v[field] = k[field]
    BY <1>5, <1>7
  <1>9. /\ v.nblk = k.nblk /\ v.num = k.num /\ v.ehead = k.ehead /\ v.lists = k.lists
        /\ v.trial = k.trial /\ v.reject = k.reject /\ v.limit = k.limit
        /\ v.sibling = k.sibling /\ v.child = k.child
    BY <1>7, <1>8 DEF PoolFields
  <1>10. base \in Slots /\ Block(base) # 0 /\ Block(base) < v.nblk /\ e = Xor(base, label)
    BY <1>1, <1>6, <1>9, XorAssumption DEF Offer
  <1>11. /\ \A x \in Slots : x # n => v.array[x] = k.array[x]
         /\ \A x \in Slots : v.array[x].check = k.array[x].check
         /\ v.array[n].base = base /\ base \in Int /\ base >= 0
         /\ v.array \in [Slots -> [base : Int, check : Int]]
    <2>1. k.array \in [Slots -> [base : Int, check : Int]]
      BY <1>7 DEF TrieTyped
    <2>2. base \in Int /\ base >= 0
      BY <1>10, SlotFacts
    <2> DEFINE A == k.array
    <2>3. A \in [Slots -> [base : Int, check : Int]] /\ v.array = [A EXCEPT ![n].base = base]
      BY <2>1, <1>8
    <2> HIDE DEF A
    <2>6. v.array[n] = [A[n] EXCEPT !.base = base] /\ n \in Slots
      BY <2>3, <1>3
    <2>7. \A x \in Slots : x # n => v.array[x] = A[x]
      BY <2>3
    <2>8. A[n] \in [base : Int, check : Int]
      BY <2>3, <1>3
    <2>9. v.array[n].base = base /\ v.array[n].check = A[n].check
      BY <2>6, <2>8
    <2>4. /\ \A x \in Slots : x # n => v.array[x] = A[x]
          /\ \A x \in Slots : v.array[x].check = A[x].check
          /\ v.array[n].base = base
      BY <2>7, <2>9
    <2>10. base \in Int
      BY <2>2
    <2>11. v.array[n] \in [base : Int, check : Int]
      BY <2>6, <2>8, <2>10
    <2>12. v.array = [x \in Slots |-> IF x = n THEN v.array[n] ELSE A[x]]
      BY <2>3, <2>6
    <2>5. v.array \in [Slots -> [base : Int, check : Int]]
      <3> DEFINE a == v.array[n]
      <3>1. v.array = [x \in Slots |-> IF x = n THEN a ELSE A[x]] /\ a \in [base : Int, check : Int]
        BY <2>11, <2>12
      <3> HIDE DEF a
      <3> QED
        BY <3>1, <2>3
    <2> QED
      BY <2>2, <2>4, <2>5 DEF A
  <1>12. TrieTyped(v)
    <2>1. IsNinfo(v)
      BY <1>7, <1>8, <1>9 DEF TrieTyped, IsNinfo
    <2> QED
      BY <2>1, <1>7, <1>8, <1>9, <1>11 DEF TrieTyped
  <1>13. Sound(R, v)
    <2>1. k.array[n].check >= 0 /\ \A x \in Slots : k.array[x].check \in Int
      BY <1>4, <1>7 DEF Taken, TrieTyped
    <2>2. \A x \in Slots : IF k.array[x].check < 0 THEN v.array[x] = k.array[x]
                           ELSE v.array[x].check >= 0
      <3> SUFFICES ASSUME NEW x \in Slots
                   PROVE  IF k.array[x].check < 0 THEN v.array[x] = k.array[x]
                          ELSE v.array[x].check >= 0
        OBVIOUS
      <3>1. CASE x = n
        BY <3>1, <2>1, <1>11
      <3>2. CASE x # n
        BY <3>2, <2>1, <1>11
      <3> QED
        BY <3>1, <3>2
    <2>3. WrittenIn(k, v)
      BY <2>2, <1>7, <1>8, <1>9 DEF WrittenIn
    <2> QED
      BY <2>3, <1>4, <1>12, WriteSound
  <1>14. Taken(v) = U \cup {e}
    BY <1>4, <1>9, <1>11 DEF Taken
  <1>15. \A x \in U \cup {0} : x \in Slots
    BY <1>3
  <1>16. \A x \in U : v.array[x].check = k.array[x].check /\ k.array[x].check \in U \cup {0}
                      /\ InnerNode(k, L, k.array[x].check)
    BY <1>4, <1>11, <1>15 DEF IsTree, Edges
  <1>17. k.array[n].base < 0 /\ ~ InnerNode(k, L, n) /\ InnerNode(v, L, n)
    <2>1. k.array[n] = t.array[n]
      BY <1>2, <1>4
    <2>2. t.array[n].base \in Int
      BY <1>3 DEF IsTree, TrieTyped
    <2> QED
      BY <2>1, <2>2, <1>11 DEF InnerNode
  <1>18. \A x \in U \cup {0} : x # n => (InnerNode(v, L, x) <=> InnerNode(k, L, x))
    BY <1>11, <1>15 DEF InnerNode
  <1>19. \A x \in U : v.array[x].check # n
    BY <1>16, <1>17
  <1>20. IsTree(v, U, P, L, O, X, {})
    <2>1. Edges(v, U, P, L, O)
      <3>1. \A x \in U : InnerNode(v, L, v.array[x].check)
        BY <1>16, <1>17, <1>18
      <3> QED
        BY <3>1, <1>4, <1>16 DEF IsTree, Edges
    <2>2. Settled(v, U, O, X)
      <3> SUFFICES ASSUME NEW x \in U PROVE O[x] = v.array[v.array[x].check].base
        BY DEF Settled
      <3>1. O[x] = k.array[k.array[x].check].base
        BY <1>4 DEF IsTree, Settled
      <3> QED
        BY <3>1, <1>11, <1>15, <1>16, <1>19
    <2>3. Bases(v, U, L)
      <3>1. v.array[0].base = 0
        BY <1>3, <1>4, <1>11 DEF IsTree, Bases
      <3>2. ASSUME NEW x \in U, InnerNode(v, L, x)
            PROVE  /\ v.array[x].base \in Slots
                   /\ Block(v.array[x].base) # 0 /\ Block(v.array[x].base) < v.nblk
        <4>1. CASE x = n
          BY <4>1, <1>10, <1>11
        <4>2. CASE x # n
          <5>1. InnerNode(k, L, x) /\ v.array[x] = k.array[x]
            BY <4>2, <3>2, <1>11, <1>15, <1>18
          <5> QED
            BY <5>1, <1>4, <1>9 DEF IsTree, Bases
        <4> QED
          BY <4>1, <4>2
      <3> QED
        BY <3>1, <3>2 DEF Bases
    <2>4. Clear(v, U, L, {})
      <3>1. \A x \in U : ~ InnerNode(v, L, x) => v.child[x] = 0
        BY <1>4, <1>9, <1>17, <1>18 DEF IsTree, Clear
      <3> QED
        BY <3>1, <1>4, <1>9 DEF IsTree, Clear
    <2>5. \A x : Listed(v, U, L, x) = Listed(k, U, L, x)
      BY <1>16 DEF Listed
    <2>6. Chains(v, U, L, X)
      <3> SUFFICES ASSUME NEW x \in U \cup {0}, x # n, InnerNode(v, L, x)
                   PROVE  /\ Listed(v, U, L, x) # {}
                          /\ ChainOf(v, x, v.array[x].base, Listed(v, U, L, x))
        BY DEF Chains
      <3>1. InnerNode(k, L, x) /\ v.array[x] = k.array[x]
        BY <1>11, <1>15, <1>18
      <3>2. Listed(k, U, L, x) # {} /\ ChainOf(k, x, k.array[x].base, Listed(k, U, L, x))
        BY <3>1, <1>4 DEF IsTree, Chains
      <3>3. Listed(v, U, L, x) = Listed(k, U, L, x)
        BY <2>5
      <3>4. ChainOf(v, x, k.array[x].base, Listed(k, U, L, x))
        BY <3>2, <1>9 DEF ChainOf
      <3> QED
        BY <3>1, <3>2, <3>3, <3>4
    <2> QED
      BY <2>1, <2>2, <2>3, <2>4, <2>6, <1>4, <1>12 DEF IsTree
  <1>21. Listed(v, U, L, n) = {}
    BY <1>3, <1>19 DEF Listed
  <1>22. v.child[n] = 0 /\ v.child[e] = 0 /\ v.array[e] = Node(IF label # 0 THEN -1 ELSE 0, n)
    <2>1. k.child[n] = 0
      BY <1>4, <1>17 DEF IsTree, Clear
    <2>2. e # n
      BY <1>4
    <2> QED
      BY <2>1, <2>2, <1>4, <1>6, <1>9, <1>11
  <1>23. CanAppend(R, v, U, P, L, O, X, n, base, f.at, label, S)
    <2>1. n \in U \cup {0} /\ (n = 0 => label # 0) /\ X \in {{}, {n}} /\ label \notin S
      BY <1>3
    <2>2. e \in Slots /\ e \notin U /\ e # 0
      BY <1>4
    <2> QED
      BY <2>1, <2>2, <1>3, <1>10, <1>11, <1>13, <1>14, <1>17, <1>19, <1>20, <1>21, <1>22 DEF CanAppend
  <1>24. Content(v, U, P, L) = Opened(Content(t, U, P, L), P[n])
    <2> DEFINE h(y) == <<P[y], InnerNode(v, L, y), IF InnerNode(v, L, y) THEN 0 ELSE v.array[y].base>>
               g(y) == <<P[y], InnerNode(t, L, y), IF InnerNode(t, L, y) THEN 0 ELSE t.array[y].base>>
               o(x) == IF x[1] = P[n] THEN <<P[n], TRUE, 0>> ELSE x
    <2>1. ASSUME NEW y \in U PROVE h(y) = o(g(y))
      <3>1. CASE y = n
        <4>1. InnerNode(v, L, y) = TRUE
          BY <3>1, <1>17 DEF InnerNode
        <4> QED
          BY <3>1, <4>1
      <3>2. CASE y # n
        <4>1. P[y] # P[n]
          BY <3>2, PathsApart
        <4>2. v.array[y] = t.array[y]
          BY <3>2, <1>2, <1>4, <1>11, <1>15
        <4>3. InnerNode(v, L, y) = InnerNode(t, L, y)
          BY <4>2 DEF InnerNode
        <4> QED
          BY <4>1, <4>2, <4>3
      <3> QED
        BY <3>1, <3>2
    <2>2. Content(v, U, P, L) = {h(y) : y \in U} /\ Content(t, U, P, L) = {g(y) : y \in U}
      BY DEF Content
    <2>3. \A D : Opened(D, P[n]) = {o(x) : x \in D}
      BY DEF Opened
    <2> HIDE DEF h, g, o
    <2> QED
      BY <2>1, <2>2, <2>3
  <1>25. v.nblk \in {t.nblk, t.nblk + 1}
    BY <1>1, <1>6, <1>9 DEF Kept
  <1> QED
    BY <1>23, <1>24, <1>25

-----------------------------------------------------------------------------
(* _follow.                                                                *)

\* A label a node does not list leads to no node.
LEMMA FreshPath ==
    ASSUME NEW t, NEW U, NEW P, NEW L, NEW O, NEW V, IsTree(t, U, P, L, O, {}, V),
           NEW n \in U \cup {0}, NEW label \in Labels, label \notin Listed(t, U, L, n)
    PROVE  \A x \in Content(t, U, P, L) : x[1] # Named(P[n], label)
  <1>1. /\ U \in SUBSET (Slots \ {0}) /\ P \in [Slots -> Seq(Labels)] /\ L \in [Slots -> Labels]
        /\ 0 \in Slots
    BY SlotRange DEF IsTree, GhostTyped
  <1> SUFFICES ASSUME NEW a \in U, P[a] = Named(P[n], label) PROVE FALSE
    BY DEF Content
  <1> DEFINE q == t.array[a].check
  <1>2. /\ q \in U \cup {0} /\ P[a] = Named(P[q], L[a]) /\ L[a] \in Labels
        /\ P[q] \in Seq(Labels) /\ P[n] \in Seq(Labels)
    <2>1. q \in U \cup {0} /\ P[a] = Named(P[q], L[a])
      BY DEF IsTree, Edges
    <2> HIDE DEF q
    <2> QED
      BY <2>1, <1>1
  <1> HIDE DEF q
  <1>3. P[q] = P[n] /\ L[a] = label
    <2>1. \A r \in Seq(Labels), l \in Labels : Named(P[q], L[a]) = Named(r, l)
             => P[q] = r /\ L[a] = l
      BY <1>2, Names
    <2> QED
      BY <2>1, <1>2
  <1>4. q = n
    BY <1>2, <1>3, PathsApart
  <1> QED
    BY <1>3, <1>4 DEF Listed, q

\* What a tree holds once the node at path has a child label.
Extended(C, path, label) ==
    IF \E x \in C : x[1] = Named(path, label) THEN C
    ELSE Opened(C, path) \cup {Leaf(Named(path, label), label)}

\* A node that may get a child label: no terminal, and only in block 0 the
\* labels R.
CanFollow(R, t, U, P, L, O, n, label) ==
    /\ Sound(R, t) /\ t.nblk < MaxBlocks /\ U = Taken(t) /\ IsTree(t, U, P, L, O, {}, {})
    /\ n \in U \cup {0} /\ (n # 0 => L[n] # 0) /\ label \in Labels /\ (n = 0 => label \in R)

\* _follow: the child, which is made if it does not exist; every other node is
\* as it was, whatever was moved on the way.
THEOREM FollowTree ==
    ASSUME NEW R, Spare("chain", R), NEW t, NEW U, NEW P, NEW L, NEW O, NEW n, NEW label,
           CanFollow(R, t, U, P, L, O, n, label), NEW r, r = Follow(t, n, label),
           NEW path, path = P[n],
           NEW D, D = Extended(Content(t, U, P, L), path, label)
    PROVE  HasChild(R, D, path, label, r) /\ r.t.nblk \in {t.nblk, t.nblk + 1}
  <1> USE DEF CanFollow
  <1> DEFINE base == t.array[n].base
             to == Xor(base, label)
             C == Content(t, U, P, L)
             S == Listed(t, U, L, n)
  <1>1. /\ U \in SUBSET (Slots \ {0}) /\ P \in [Slots -> Seq(Labels)] /\ L \in [Slots -> Labels]
        /\ O \in [Slots -> Slots] /\ TrieTyped(t) /\ 0 \in Slots /\ n \in Slots
    BY SlotRange DEF IsTree, GhostTyped
  <1>2. t.nblk \in Nat /\ t.nblk >= 1 /\ base \in Int /\ n \in Nat /\ R \subseteq Labels \ {0}
    <2>1. t.nblk \in 1 .. MaxBlocks /\ t.array \in [Slots -> [base : Int, check : Int]]
      BY <1>1 DEF TrieTyped
    <2>2. n \in Nat /\ MaxBlocks \in Nat
      BY <1>1, SlotFacts, BlockAssumption
    <2>3. R \subseteq Labels \ {0}
      BY DEF Spare
    <2> QED
      BY <2>1, <2>2, <2>3, <1>1
  <1>3. t.array[0].base = 0 /\ t.array[0].check < 0 /\ Block(0) = 0
    <2>1. t.array[0].base = 0
      BY DEF IsTree, Bases
    <2>2. t.array[0].check < 0
      BY SoundFacts
    <2> QED
      BY <2>1, <2>2, SlotFacts
  <1>4. base >= 0 => InnerNode(t, L, n)
    BY DEF InnerNode
  <1>5. base >= 0 => /\ base \in Slots /\ to \in Slots /\ Block(to) = Block(base)
                     /\ Block(to) < t.nblk /\ (n # 0 => Block(to) # 0) /\ (n = 0 => to = label)
    <2> SUFFICES ASSUME base >= 0
                 PROVE  /\ base \in Slots /\ to \in Slots /\ Block(to) = Block(base)
                        /\ Block(to) < t.nblk /\ (n # 0 => Block(to) # 0) /\ (n = 0 => to = label)
      OBVIOUS
    <2>1. CASE n = 0
      <3>1. base = 0
        BY <2>1, <1>3
      <3>2. Xor(0, label) = label /\ Xor(0, label) \in Slots /\ Block(Xor(0, label)) = Block(0)
        BY <1>1, XorAssumption
      <3> QED
        BY <2>1, <3>1, <3>2, <1>1, <1>2, <1>3
    <2>2. CASE n # 0
      <3>1. base \in Slots /\ Block(base) # 0 /\ Block(base) < t.nblk
        BY <2>2, <1>4 DEF IsTree, Bases
      <3>2. to \in Slots /\ Block(to) = Block(base)
        BY <3>1, XorAssumption
      <3> QED
        BY <2>2, <3>1, <3>2
    <2> QED
      BY <2>1, <2>2
  <1>6. n = 0 => label # 0
    BY <1>2
  <1> HIDE DEF to
  <1>7. Follow(t, n, label) =
          IF base < 0 \/ t.array[to].check < 0
          THEN NewChild(PopEnode(t, base, label, n), n, label, base >= 0)
          ELSE IF t.array[to].check = n THEN [t |-> t, from |-> n, to |-> to]
          ELSE Resolve(t, n, label)
    BY DEF Follow, to
  <1>8. CASE base < 0
    <2> DEFINE f == FindSlot(t)
               v == PopAnywhere(f, label, n)
               b == Xor(f.at, label)
               X == {n}
               W == {}
    <2>1. n \in U /\ n # 0
      BY <1>3, <1>8
    <2>2. CanOpen(R, t, U, P, L, O, n, label)
      BY <2>1, <1>8 DEF CanOpen
    <2>3. /\ CanAppend(R, v, U, P, L, O, X, n, b, f.at, label, W)
          /\ Content(v, U, P, L) = Opened(C, path)
          /\ v.nblk \in {t.nblk, t.nblk + 1}
      <3>1. f = FindSlot(t) /\ v = PopAnywhere(f, label, n) /\ b = Xor(f.at, label) /\ X = {n} /\ W = {}
        OBVIOUS
      <3> HIDE DEF f, v, b, X, W, C
      <3>2. /\ CanAppend(R, v, U, P, L, O, X, n, b, f.at, label, W)
            /\ Content(v, U, P, L) = Opened(Content(t, U, P, L), P[n])
            /\ v.nblk \in {t.nblk, t.nblk + 1}
        BY <3>1, <2>2, OpenLeaf
      <3> QED
        BY <3>2 DEF C
    <2>4. r = NewChild(v, n, label, FALSE)
      <3>1. (base >= 0) = FALSE
        BY <1>2, <1>8
      <3>2. PopEnode(t, base, label, n) = v
        BY <1>8 DEF PopEnode
      <3> HIDE DEF v
      <3> QED
        BY <3>1, <3>2, <1>7, <1>8
    <2>5. label \notin S
      <3>1. \A x \in U : t.array[x].check # n
        <4>1. ~ InnerNode(t, L, n)
          BY <1>2, <1>8 DEF InnerNode
        <4> QED
          BY <4>1 DEF IsTree, Edges
      <3> QED
        BY <2>1, <3>1 DEF Listed
    <2>6. D = Content(v, U, P, L) \cup {Leaf(Named(path, label), label)}
      <3>1. \A x \in C : x[1] # Named(P[n], label)
        BY <2>5, FreshPath
      <3> HIDE DEF v, C
      <3> QED
        BY <2>3, <3>1 DEF Extended, C
    <2> HIDE DEF v, f, b, X, W
    <2>7. HasChild(R, D, path, label, r) /\ r.t.nblk = v.nblk
      <3> DEFINE y == FALSE
      <3>1. y \in BOOLEAN /\ (y <=> W # {})
        BY DEF W
      <3>2. r = NewChild(v, n, label, y)
        BY <2>4
      <3>3. CanAppend(R, v, U, P, L, O, X, n, b, f.at, label, W)
        BY <2>3
      <3> HIDE DEF y, base, to, C, S, CanFollow
      <3>4. D = Content(v, U, P, L) \cup {Leaf(Named(path, label), label)}
        BY <2>6
      <3> DEFINE e == f.at
      <3>5. CanAppend(R, v, U, P, L, O, X, n, b, e, label, W)
        BY <3>3
      <3> HIDE DEF e
      <3> QED
        BY <3>1, <3>2, <3>5, <3>4, AppendTree
    <2> QED
      BY <2>3, <2>7
  <1>9. CASE base >= 0 /\ t.array[to].check < 0
    <2> DEFINE k == TakeEnode(t, to, label, n)
               X == {}
    <2>1. InnerNode(t, L, n)
      BY <1>4, <1>9
    <2>2. Takeable(R, t, to)
      <3>1. to \in Slots /\ Block(to) < t.nblk /\ t.array[to].check < 0
        BY <1>5, <1>9
      <3>2. Block(to) = 0 => to \in R
        BY <1>5, <1>9
      <3>3. to # 0
        <4>1. CASE n = 0
          BY <4>1, <1>5, <1>6, <1>9
        <4>2. CASE n # 0
          BY <4>2, <1>3, <1>5, <1>9
        <4> QED
          BY <4>1, <4>2
      <3> QED
        BY <3>1, <3>2, <3>3 DEF Takeable
    <2>3. /\ Sound(R, k) /\ TakenAs(t, k, to, label, n) /\ IsTree(k, U, P, L, O, X, {})
          /\ Taken(k) = U \cup {to} /\ to \notin U /\ to # 0 /\ to \in Slots /\ k.child[to] = 0
          /\ \A x \in U : k.array[x] = t.array[x]
      <3>1. IsTree(t, U, P, L, O, X, {}) /\ k = TakeEnode(t, to, label, n)
        OBVIOUS
      <3> HIDE DEF X, k
      <3> QED
        BY <3>1, <2>2, <1>1, TakeTree
    <2> HIDE DEF k
    <2>4. k.nblk = t.nblk /\ k.array[0].base = t.array[0].base
          /\ k.array[to] = Node(IF label # 0 THEN -1 ELSE 0, n)
      BY <2>3 DEF TakenAs, SameUse
    <2>5. \A x \in U \cup {0} : k.array[x].base = t.array[x].base
      BY <2>3, <2>4
    <2>6. label \notin S
      <3>1. ASSUME label \in S PROVE FALSE
        <4>1. n \notin {}
          OBVIOUS
        <4>2. LET e == Xor(t.array[n].base, label)
              IN  \/ e \in U /\ t.array[e].check = n /\ L[e] = label
                  \/ e = 0 /\ n = 0 /\ label = 0
          BY <3>1, <4>1, ChildAt
        <4>3. to \in U
          BY <4>2, <1>6 DEF to
        <4> QED
          BY <4>3, <2>3
      <3> QED
        BY <3>1
    <2>7. Listed(k, U, L, n) = S
      BY <2>3 DEF Listed
    <2>8. CanAppend(R, k, U, P, L, O, X, n, base, to, label, S)
      <3>1. InnerNode(k, L, n)
        BY <2>1, <2>5 DEF InnerNode
      <3>2. base \in Slots /\ base = k.array[n].base
        BY <2>5, <1>5, <1>9
      <3>3. to = Xor(base, label)
        BY DEF to
      <3>4. X \in {{}, {n}} /\ (n \in X => n # 0 /\ k.child[n] = 0 /\ \A x \in U : k.array[x].check # n)
        OBVIOUS
      <3> HIDE DEF X, base, S
      <3> QED
        BY <3>1, <3>2, <3>3, <3>4, <2>3, <2>4, <2>6, <2>7, <1>6 DEF CanAppend
    <2>9. Content(k, U, P, L) = C
      <3> DEFINE h(y) == <<P[y], InnerNode(k, L, y), IF InnerNode(k, L, y) THEN 0 ELSE k.array[y].base>>
                 g(y) == <<P[y], InnerNode(t, L, y), IF InnerNode(t, L, y) THEN 0 ELSE t.array[y].base>>
      <3>1. ASSUME NEW y \in U PROVE h(y) = g(y)
        <4>1. k.array[y] = t.array[y]
          BY <2>3
        <4>2. InnerNode(k, L, y) = InnerNode(t, L, y)
          BY <4>1 DEF InnerNode
        <4> QED
          BY <4>1, <4>2
      <3>2. Content(k, U, P, L) = {h(y) : y \in U} /\ C = {g(y) : y \in U}
        BY DEF Content
      <3> HIDE DEF h, g, C
      <3> QED
        BY <3>1, <3>2
    <2>10. r = NewChild(k, n, label, TRUE)
      <3>1. (base >= 0) = TRUE
        BY <1>9
      <3>2. PopEnode(t, base, label, n) = k
        <4>1. ~ base < 0
          BY <1>2, <1>9
        <4> QED
          BY <4>1 DEF PopEnode, k, to
      <3> QED
        BY <3>1, <3>2, <1>7, <1>9
    <2>11. D = Content(k, U, P, L) \cup {Leaf(Named(path, label), label)}
      <3>1. \A x \in C : x[1] # Named(P[n], label)
        BY <2>6, FreshPath
      <3>2. Opened(C, P[n]) = C
        BY <2>1, OpenedSame
      <3> HIDE DEF C
      <3> QED
        BY <2>9, <3>1, <3>2 DEF Extended, C
    <2>12. S # {}
      <3>1. n \notin {}
        OBVIOUS
      <3> QED
        BY <2>1, <3>1 DEF IsTree, Chains
    <2> HIDE DEF S, X, base, C
    <2>13. HasChild(R, D, path, label, r) /\ r.t.nblk = k.nblk
      <3> DEFINE y == TRUE
      <3>1. y \in BOOLEAN /\ (y <=> S # {})
        BY <2>12
      <3>2. r = NewChild(k, n, label, y)
        BY <2>10
      <3> HIDE DEF y, CanFollow
      <3> QED
        BY <3>1, <3>2, <2>8, <2>11, AppendTree
    <2> QED
      BY <2>4, <2>13
  <1>10. ASSUME base >= 0, t.array[to].check >= 0 PROVE to \in U /\ to # 0
    <2>1. to # 0
      <3>1. t.array[0].check \in Int
        BY <1>1 DEF TrieTyped
      <3>2. t.array[0].check < 0
        BY <1>3
      <3> QED
        BY <3>1, <3>2, <1>10
    <2>2. to \in Slots /\ Block(to) < t.nblk
      BY <1>5, <1>10
    <2> QED
      BY <2>1, <2>2, <1>10 DEF Taken
  <1>11. CASE base >= 0 /\ t.array[to].check = n
    <2>1. ~ t.array[to].check < 0 /\ t.array[to].check >= 0
      BY <1>2, <1>11
    <2>2. to \in U
      BY <2>1, <1>10, <1>11
    <2>3. r = [t |-> t, from |-> n, to |-> to]
      <3>1. ~ base < 0
        BY <1>2, <1>11
      <3> QED
        BY <2>1, <3>1, <1>7, <1>11
    <2>4. L[to] = label
      <3>1. to = Xor(O[to], L[to]) /\ O[to] = base
        BY <2>2, <1>11 DEF IsTree, Edges, Settled
      <3>2. to = Xor(base, label)
        BY DEF to
      <3>3. L[to] \in Labels /\ base \in Slots
        BY <2>2, <1>1, <1>5, <1>11
      <3>4. Xor(base, L[to]) = Xor(base, label) => L[to] = label
        <4> HIDE DEF base
        <4> QED
          BY <3>3, XorApart
      <3> QED
        BY <3>1, <3>2, <3>4
    <2>5. InnerNode(t, L, n)
      BY <1>4, <1>11
    <2>6. D = C
      <3>1. P[to] = Named(path, label)
        BY <2>2, <2>4, <1>11 DEF IsTree, Edges
      <3> DEFINE x == <<P[to], InnerNode(t, L, to), IF InnerNode(t, L, to) THEN 0 ELSE t.array[to].base>>
      <3>2. x \in C /\ x[1] = Named(path, label)
        BY <2>2, <3>1 DEF Content
      <3> HIDE DEF x, C
      <3> QED
        BY <3>2 DEF Extended, C
    <2>7. r.t = t /\ r.from = n /\ r.to = to
      BY <2>3
    <2>8. Followed(R, D, path, label, r, U, P, L, O)
      BY <2>2, <2>4, <2>5, <2>6, <2>7, <1>11 DEF Followed
    <2>9. HasChild(R, D, path, label, r)
      BY <2>8 DEF HasChild
    <2> QED
      BY <2>7, <2>9
  <1>12. CASE base >= 0 /\ t.array[to].check >= 0 /\ t.array[to].check # n
    <2>1. to \in U
      BY <1>10, <1>12
    <2>2. n # 0
      <3>1. ASSUME n = 0 PROVE FALSE
        <4> DEFINE p == t.array[to].check
        <4>1. p \in U /\ InnerNode(t, L, p) /\ to = Xor(O[to], L[to]) /\ O[to] = t.array[p].base
          BY <2>1, <3>1, <1>12 DEF IsTree, Edges, Settled
        <4>2. t.array[p].base \in Slots /\ Block(t.array[p].base) # 0
          BY <4>1 DEF IsTree, Bases
        <4> HIDE DEF p
        <4>3. L[to] \in Labels
          BY <2>1, <1>1
        <4>4. Block(to) # 0
          BY <4>1, <4>2, <4>3, XorAssumption
        <4>5. base = 0
          BY <3>1, <1>3
        <4> QED
          BY <4>4, <4>5, <1>3, <1>5, <1>12
      <3> QED
        BY <3>1
    <2>3. InConflict(t, U, P, L, O, n, label)
      BY <2>2, <1>4, <1>12 DEF InConflict, to
    <2>4. r = Resolve(t, n, label)
      <3>1. ~ base < 0 /\ ~ t.array[to].check < 0
        <4>1. t.array[to].check \in Int
          BY <2>1, <1>1 DEF TrieTyped
        <4> QED
          BY <4>1, <1>2, <1>12
      <3> QED
        BY <3>1, <1>7, <1>12
    <2>5. D = C \cup {Leaf(Named(path, label), label)}
      <3>1. label \notin S
        <4>1. ASSUME label \in S PROVE FALSE
          <5>1. n \notin {}
            OBVIOUS
          <5>2. LET e == Xor(t.array[n].base, label)
                IN  \/ e \in U /\ t.array[e].check = n /\ L[e] = label
                    \/ e = 0 /\ n = 0 /\ label = 0
            BY <4>1, <5>1, ChildAt
          <5> QED
            BY <5>2, <2>2, <1>12 DEF to
        <4> QED
          BY <4>1
      <3>2. \A x \in C : x[1] # Named(P[n], label)
        BY <3>1, FreshPath
      <3>3. Opened(C, P[n]) = C
        BY <1>4, <1>12, OpenedSame
      <3> HIDE DEF C
      <3> QED
        BY <3>2, <3>3 DEF Extended, C
    <2> HIDE DEF C
    <2>6. r.t.nblk \in {t.nblk, t.nblk + 1} /\ HasChild(R, D, path, label, r)
      <3>1. D = Content(t, U, P, L) \cup {Leaf(Named(path, label), label)}
        BY <2>5 DEF C
      <3>2. Sound(R, t) /\ t.nblk < MaxBlocks /\ path = P[n]
        OBVIOUS
      <3> HIDE DEF base, to, S, CanFollow
      <3> QED
        BY <2>3, <2>4, <3>1, <3>2, ResolveTree
    <2> QED
      BY <2>6
  <1>13. base < 0 \/ base >= 0
    BY <1>2
  <1>14. base >= 0 => t.array[to].check < 0 \/ t.array[to].check >= 0
    <2>1. to \in Slots => t.array[to].check \in Int
      BY <1>1 DEF TrieTyped
    <2> QED
      BY <2>1, <1>5
  <1> QED
    BY <1>8, <1>9, <1>11, <1>12, <1>13, <1>14

-----------------------------------------------------------------------------
(* Paths and names.                                                        *)

\* The first i labels of a path.
Cut(path, i) == SubSeq(path, 1, i)

\* A path and its beginnings.
LEMMA CutFacts ==
    ASSUME NEW path \in Seq(Labels), NEW i \in 0 .. Len(path)
    PROVE  /\ Cut(path, i) \in Seq(Labels) /\ Len(Cut(path, i)) = i
           /\ \A j \in 1 .. i : Cut(path, i)[j] = path[j]
           /\ Cut(path, 0) = <<>> /\ Cut(path, Len(path)) = path
           /\ i < Len(path) => /\ i + 1 \in 1 .. Len(path) /\ path[i + 1] \in Labels
                               /\ Cut(path, i + 1) = Named(Cut(path, i), path[i + 1])
  <1>1. /\ Cut(path, i) = [j \in 1 .. i |-> path[j]]
        /\ i < Len(path) => Cut(path, i + 1) = [j \in 1 .. i + 1 |-> path[j]]
        /\ Cut(path, Len(path)) = [j \in 1 .. Len(path) |-> path[j]]
        /\ Cut(path, 0) = [j \in 1 .. 0 |-> path[j]]
    BY DEF Cut
  <1>2. \A j \in 1 .. Len(path) : path[j] \in Labels
    OBVIOUS
  <1>3. Cut(path, i) \in Seq(Labels) /\ Len(Cut(path, i)) = i
    BY <1>1, <1>2
  <1>4. \A j \in 1 .. i : Cut(path, i)[j] = path[j]
    BY <1>1
  <1>5. Cut(path, 0) = <<>> /\ Cut(path, Len(path)) = path
    BY <1>1
  <1>6. ASSUME i < Len(path)
        PROVE  /\ i + 1 \in 1 .. Len(path) /\ path[i + 1] \in Labels
               /\ Cut(path, i + 1) = Named(Cut(path, i), path[i + 1])
    <2>1. i + 1 \in 1 .. Len(path)
      BY <1>6
    <2>2. Named(Cut(path, i), path[i + 1]) = [j \in 1 .. i + 1 |-> path[j]]
      BY <1>1, <1>3, <1>4, <2>1 DEF Named
    <2> QED
      BY <2>1, <2>2, <1>1, <1>2, <1>6
  <1> QED
    BY <1>3, <1>4, <1>5, <1>6

\* Two paths that begin alike.
LEMMA BeginAlike ==
    ASSUME NEW p \in Seq(Labels), NEW q \in Seq(Labels), NEW n \in Nat, n <= Len(p), n <= Len(q),
           Cut(p, n) = Cut(q, n)
    PROVE  \A j \in 0 .. n : Cut(p, j) = Cut(q, j)
  <1>1. \A j \in 1 .. n : p[j] = q[j]
    <2>1. n \in 0 .. Len(p) /\ n \in 0 .. Len(q)
      OBVIOUS
    <2>2. \A j \in 1 .. n : Cut(p, n)[j] = p[j] /\ Cut(q, n)[j] = q[j]
      BY <2>1, CutFacts
    <2> QED
      BY <2>2
  <1>2. ASSUME NEW j \in 0 .. n PROVE Cut(p, j) = Cut(q, j)
    <2>1. Cut(p, j) = [i \in 1 .. j |-> p[i]] /\ Cut(q, j) = [i \in 1 .. j |-> q[i]]
      BY DEF Cut
    <2> QED
      BY <2>1, <1>1
  <1> QED
    BY <1>2

\* The label of a node named after a path.
LEMMA LastLabel ==
    ASSUME NEW t, NEW U, NEW P, NEW L, NEW O, NEW X, NEW V, IsTree(t, U, P, L, O, X, V),
           NEW path \in Seq(Labels), NEW i \in 0 .. Len(path), NEW e \in U \cup {0},
           P[e] = Cut(path, i)
    PROVE  (e = 0 <=> i = 0) /\ (e # 0 => L[e] = path[i])
  <1>1. CASE e = 0
    <2>1. P[0] = <<>>
      BY DEF IsTree, GhostTyped
    <2>2. Len(Cut(path, i)) = i /\ Len(<<>>) = 0
      BY CutFacts
    <2> QED
      BY <2>1, <2>2, <1>1
  <1>2. CASE e # 0
    <2> DEFINE a == t.array[e].check
    <2>1. e \in U /\ P[e] = Named(P[a], L[e]) /\ a \in U \cup {0}
      BY <1>2 DEF IsTree, Edges
    <2>2. P[a] \in Seq(Labels) /\ L[e] \in Labels
      BY <2>1, SlotRange DEF IsTree, GhostTyped
    <2> HIDE DEF a
    <2>3. Len(Named(P[a], L[e])) # 0
      BY <2>2 DEF Named
    <2>4. i # 0
      <3>1. Len(Cut(path, i)) = i
        BY CutFacts
      <3> QED
        BY <3>1, <2>1, <2>3
    <2>5. i - 1 \in 0 .. Len(path) /\ i - 1 < Len(path) /\ (i - 1) + 1 = i
      BY <2>4
    <2> DEFINE j == i - 1
    <2>6. Cut(path, j) \in Seq(Labels) /\ path[i] \in Labels /\ Cut(path, i) = Named(Cut(path, j), path[i])
      <3>1. j \in 0 .. Len(path) /\ j < Len(path) /\ j + 1 = i
        BY <2>5
      <3> HIDE DEF j
      <3>2. /\ Cut(path, j) \in Seq(Labels) /\ path[j + 1] \in Labels
            /\ Cut(path, j + 1) = Named(Cut(path, j), path[j + 1])
        BY <3>1, CutFacts
      <3> QED
        BY <3>1, <3>2
    <2> HIDE DEF j
    <2> DEFINE x == P[a]
               y == L[e]
    <2>7. \A q \in Seq(Labels), k \in Labels : Named(x, y) = Named(q, k) => y = k
      <3> HIDE DEF x, y
      <3>1. x \in Seq(Labels) /\ y \in Labels
        BY <2>2 DEF x, y
      <3> QED
        BY <3>1, Names
    <2>8. L[e] = path[i]
      BY <2>1, <2>6, <2>7
    <2> QED
      BY <2>4, <2>8, <1>2
  <1> QED
    BY <1>1, <1>2

\* The node named p is there.
Has(C, p) == \E x \in C : x[1] = p

\* An inner node of a tree, named after a path.
InnerOf(p) == <<p, TRUE, 0>>

\* The trie is sound, and its tree holds C.
TrieAs(R, t, C, V, P, L, O) ==
    /\ Sound(R, t) /\ V = Taken(t) /\ IsTree(t, V, P, L, O, {}, {})
    /\ Content(t, V, P, L) = C

\* It does, with some names for the nodes.
TrieOf(R, t, C) == \E V, P, L, O : TrieAs(R, t, C, V, P, L, O)

\* The walk has come to the node named p, in a tree that holds C.
StandsAt(R, s, C, p, V, P, L, O) ==
    /\ Sound(R, s.t) /\ V = Taken(s.t) /\ IsTree(s.t, V, P, L, O, {}, {})
    /\ s.at \in V \cup {0} /\ P[s.at] = p
    /\ Content(s.t, V, P, L) = C

\* It has, with some names for the nodes.
Stands(R, s, C, p) == \E V, P, L, O : StandsAt(R, s, C, p, V, P, L, O)

-----------------------------------------------------------------------------
(* A round of erase.                                                       *)

\* The node e has no children, and X holds at most e.
Tip(R, t, V, P, L, O, X, e) ==
    /\ Sound(R, t) /\ V = Taken(t) /\ IsTree(t, V, P, L, O, X, {}) /\ X \subseteq {e}
    /\ e \in V /\ \A x \in V : t.array[x].check # e

\* What stands above such a node.
AboveTip(t, V, P, L, O, e, n, base, S) ==
    /\ e \in Slots /\ e # 0 /\ n \in V \cup {0} /\ n \in Slots /\ n # e
    /\ InnerNode(t, L, n) /\ base \in Slots
    /\ S \in SUBSET Labels /\ L[e] \in S /\ (n = 0 => 0 \in S /\ L[e] # 0)
    /\ ChainOf(t, n, base, S) /\ e = Xor(base, L[e]) /\ Xor(base, e) = L[e]
    /\ \A a, b \in V \cup {0} : P[a] = P[b] => a = b

\* It does.
LEMMA TipFacts ==
    ASSUME NEW R, NEW t, NEW V, NEW P, NEW L, NEW O, NEW X, NEW e, Tip(R, t, V, P, L, O, X, e),
           NEW n, n = t.array[e].check, NEW base, base = t.array[n].base,
           NEW S, S = Listed(t, V, L, n)
    PROVE  AboveTip(t, V, P, L, O, e, n, base, S)
  <1>1. /\ V \in SUBSET (Slots \ {0}) /\ L \in [Slots -> Labels] /\ O \in [Slots -> Slots]
        /\ GhostTyped(V, P, L, O) /\ Edges(t, V, P, L, O) /\ 0 \in Slots /\ e \in V
        /\ IsTree(t, V, P, L, O, X, {})
    BY SlotRange DEF Tip, IsTree, GhostTyped
  <1>2. n \in V \cup {0} /\ InnerNode(t, L, n) /\ e = Xor(O[e], L[e]) /\ (n = 0 => L[e] # 0)
    BY <1>1 DEF Edges
  <1>3. n # e /\ n \notin X
    BY <1>1 DEF Tip
  <1>4. Settled(t, V, O, {})
    <2> SUFFICES ASSUME NEW x \in V PROVE O[x] = t.array[t.array[x].check].base
      BY DEF Settled
    <2>1. t.array[x].check \notin X
      BY DEF Tip
    <2> QED
      BY <2>1, <1>1 DEF IsTree, Settled
  <1>5. O[e] = base /\ base \in Slots
    BY <1>1, <1>4 DEF Settled
  <1>6. \A a, b \in V \cup {0} : P[a] = P[b] => a = b
    BY <1>1, <1>4, NamesApart
  <1>7. S \in SUBSET Labels /\ L[e] \in S /\ (n = 0 => 0 \in S)
    <2>1. 0 \in Labels
      BY BlockAssumption DEF Labels
    <2> QED
      BY <2>1, <1>1 DEF Listed
  <1>8. ChainOf(t, n, base, S)
    BY <1>1, <1>2, <1>3 DEF IsTree, Chains
  <1>9. Xor(base, e) = L[e]
    <2>1. L[e] \in Labels /\ e = Xor(base, L[e])
      BY <1>1, <1>2, <1>5
    <2> QED
      BY <2>1, <1>5, XorAssumption
  <1> QED
    BY <1>1, <1>2, <1>3, <1>5, <1>6, <1>7, <1>8, <1>9 DEF AboveTip

\* A second label follows the first.
LEMMA SecondLabel ==
    ASSUME NEW S \in SUBSET Labels, NEW l \in S
    PROVE  FirstOf(Above(S, FirstOf(S))) # 0 <=> S \ {l} # {}
  <1> DEFINE f == FirstOf(S)
             A == Above(S, f)
  <1>1. f \in S /\ \A x \in S : f <= x
    BY FirstIn
  <1>2. FirstOf(A) = 0 <=> A = {}
    BY <1>1, FirstAbove
  <1>3. \A x \in Labels : x \in Nat
    BY BlockAssumption DEF Labels
  <1>4. ASSUME S \ {l} # {} PROVE A # {}
    <2>1. PICK c \in S : c # l
      BY <1>4
    <2> HIDE DEF f
    <2>2. PICK x \in S : x # f
      BY <2>1
    <2>3. x > f
      BY <2>2, <1>1, <1>3
    <2> QED
      BY <2>2, <2>3 DEF Above
  <1>5. ASSUME A # {} PROVE S \ {l} # {}
    <2> HIDE DEF f
    <2>1. PICK x \in S : x > f
      BY <1>5 DEF Above
    <2>2. x # f
      BY <2>1, <1>1, <1>3
    <2> QED
      BY <2>1, <2>2, <1>1
  <1> QED
    BY <1>2, <1>4, <1>5

\* The labels at a node with a second child, besides l.
SeenBeside(t, n, S, l) == HasSibling(t, n) <=> S \ {l} # {}

\* has_sibling: the node above such a node has another child.
LEMMA SiblingSeen ==
    ASSUME NEW R, NEW t, NEW V, NEW P, NEW L, NEW O, NEW X, NEW e, Tip(R, t, V, P, L, O, X, e),
           NEW n, n = t.array[e].check, NEW S, S = Listed(t, V, L, n)
    PROVE  SeenBeside(t, n, S, L[e])
  <1> DEFINE base == t.array[n].base
             f == FirstOf(S)
  <1>1. AboveTip(t, V, P, L, O, e, n, base, S)
    BY TipFacts
  <1>2. S \in SUBSET Labels /\ L[e] \in S /\ ChainOf(t, n, base, S)
    BY <1>1 DEF AboveTip
  <1>3. f \in S
    BY <1>2, FirstIn
  <1>4. t.sibling[Xor(base, t.child[n])] = FirstOf(Above(S, f))
    BY <1>2, <1>3 DEF ChainOf
  <1>5. FirstOf(Above(S, f)) # 0 <=> S \ {L[e]} # {}
    BY <1>2, SecondLabel
  <1> HIDE DEF f
  <1> QED
    BY <1>4, <1>5 DEF HasSibling, SeenBeside

\* One round of erase: the slot e is given back, and its label leaves the chain
\* of n if that has another.
Pops(t, n, e, v) == v = IF HasSibling(t, n) THEN Unchain(t, n, e) ELSE t

\* The trie u without the slot e, by way of v.
PoppedTo(R, t, v, u, V, P, L, O, Y, e, S) ==
    /\ Sound(R, u) /\ V \ {e} = Taken(u) /\ IsTree(u, V \ {e}, P, L, O, Y, {})
    /\ \A x \in V \ {e} : u.array[x] = t.array[x]
    /\ v.array = t.array /\ u.nblk = t.nblk
    /\ Y = {} <=> S \ {L[e]} # {}

\* What stands once its label has left the chain, in which T are left.
Unchained(R, t, v, V, L, n, base, e, T) ==
    /\ Sound(R, v) /\ v.array = t.array /\ v.nblk = t.nblk
    /\ DetachedFrom(t, v, V, L, n, base, e, T, {}, {e})

\* The label of such a node leaves its chain.
LEMMA TipUnchained ==
    ASSUME NEW R, NEW t, NEW V, NEW P, NEW L, NEW O, NEW X, NEW e, Tip(R, t, V, P, L, O, X, e),
           NEW n, n = t.array[e].check, NEW base, base = t.array[n].base,
           NEW S, S = Listed(t, V, L, n), NEW T, T = S \ {L[e]}, T # {},
           NEW v, v = Unchain(t, n, e)
    PROVE  Unchained(R, t, v, V, L, n, base, e, T)
  <1>1. AboveTip(t, V, P, L, O, e, n, base, S)
    BY TipFacts
  <1>2. /\ e \in Slots /\ n \in Slots /\ base \in Slots /\ S \in SUBSET Labels /\ L[e] \in S
        /\ ChainOf(t, n, base, S) /\ Xor(base, e) = L[e] /\ n # e
    BY <1>1 DEF AboveTip
  <1>3. TrieTyped(t) /\ IsNinfo(t) /\ PoolFields \subseteq DOMAIN t
    BY SoundFacts DEF Tip, TrieTyped
  <1> DEFINE l == L[e]
  <1>4. v = PopSibling(t, n, base, l)
    BY <1>2 DEF Unchain
  <1>5. ChainOf(v, n, base, T) /\ OnlyChain(t, v, n, base, S)
    <2>1. l \in S /\ T = S \ {l}
      BY <1>2
    <2> HIDE DEF l
    <2>2. LET w == PopSibling(t, n, base, l)
          IN  ChainOf(w, n, base, S \ {l}) /\ OnlyChain(t, w, n, base, S)
      BY <2>1, <1>2, <1>3, PopSiblingOrder
    <2> QED
      BY <2>1, <2>2, <1>4
  <1>6. /\ DOMAIN v = DOMAIN t /\ IsNinfo(v)
        /\ \A field \in DOMAIN t \ {"sibling", "child"} : v[field] = t[field]
    BY <1>5 DEF OnlyChain
  <1>7. /\ v.array = t.array /\ v.nblk = t.nblk /\ v.num = t.num /\ v.ehead = t.ehead
        /\ v.lists = t.lists /\ v.trial = t.trial /\ v.reject = t.reject /\ v.limit = t.limit
    BY <1>3, <1>6 DEF PoolFields
  <1>8. TrieTyped(v)
    BY <1>3, <1>6, <1>7 DEF TrieTyped
  <1>9. Sound(R, v)
    <2>1. \A x \in Slots : t.array[x].check \in Int
      BY <1>3 DEF TrieTyped
    <2>2. WrittenIn(t, v)
      BY <2>1, <1>3, <1>6, <1>7 DEF WrittenIn
    <2> QED
      BY <2>2, <1>8, WriteSound DEF Tip
  <1>10. DetachedFrom(t, v, V, L, n, base, e, T, {}, {e})
    <2>1. V \subseteq Slots /\ 0 \in Slots
      BY SlotRange DEF Tip, IsTree, GhostTyped
    <2>2. t.nblk \in Nat /\ v.nblk >= t.nblk
      BY <1>3, <1>7 DEF TrieTyped
    <2>3. \A x \in Slots \ {n} : v.child[x] = t.child[x]
      BY <1>5 DEF OnlyChain
    <2>4. \A x \in V \cup {0} : (\A c \in S : x # Xor(base, c)) => v.sibling[x] = t.sibling[x]
      BY <2>1, <1>5 DEF OnlyChain
    <2>5. \A x \in Slots : x # 0 /\ x \notin V => t.child[x] = 0
      BY DEF Tip, IsTree, Clear
    <2>6. \A x \in Slots : x # 0 /\ x \notin V \ {e} /\ x \notin {e} => v.child[x] = 0
      <3>1. n \in V \cup {0}
        BY <1>1 DEF AboveTip
      <3> QED
        BY <3>1, <2>3, <2>5
    <2> QED
      BY <2>1, <2>2, <2>3, <2>4, <2>6, <1>5, <1>7 DEF DetachedFrom
  <1> QED
    BY <1>7, <1>9, <1>10 DEF Unchained

\* One round of erase.
LEMMA EraseOne ==
    ASSUME NEW R, Spare("chain", R), NEW t, NEW V, NEW P, NEW L, NEW O, NEW X, NEW e,
           Tip(R, t, V, P, L, O, X, e), NEW n, n = t.array[e].check,
           NEW S, S = Listed(t, V, L, n), NEW v, Pops(t, n, e, v), NEW u, u = Release(v, e),
           NEW Y, Y = IF HasSibling(t, n) THEN {} ELSE {n}
    PROVE  PoppedTo(R, t, v, u, V, P, L, O, Y, e, S)
  <1> DEFINE base == t.array[n].base
             T == S \ {L[e]}
             U == V \ {e}
  <1>1. AboveTip(t, V, P, L, O, e, n, base, S)
    BY TipFacts
  <1>2. HasSibling(t, n) <=> T # {}
    BY SiblingSeen DEF SeenBeside
  <1>3. /\ Sound(R, v) /\ v.array = t.array /\ v.nblk = t.nblk
        /\ DetachedFrom(t, v, V, L, n, base, e, T, Y, {e})
    <2>1. CASE HasSibling(t, n)
      <3>1. T # {} /\ v = Unchain(t, n, e) /\ Y = {}
        BY <2>1, <1>2 DEF Pops
      <3>2. T = S \ {L[e]} /\ base = t.array[n].base /\ Tip(R, t, V, P, L, O, X, e)
        OBVIOUS
      <3> HIDE DEF T, base
      <3>3. Unchained(R, t, v, V, L, n, base, e, T)
        BY <3>1, <3>2, TipUnchained
      <3> QED
        BY <3>1, <3>3 DEF Unchained
    <2>2. CASE ~ HasSibling(t, n)
      <3>1. v = t /\ Y = {n}
        BY <2>2 DEF Pops
      <3>2. \A x \in Slots : x # 0 /\ x \notin V => t.child[x] = 0
        BY DEF Tip, IsTree, Clear
      <3>3. TrieTyped(t)
        BY SoundFacts DEF Tip
      <3>4. t.nblk >= t.nblk
        BY <3>3 DEF TrieTyped
      <3>5. \A x \in Slots : x # 0 /\ x \notin U /\ x \notin {e} => t.child[x] = 0
        BY <3>2
      <3> QED
        BY <3>1, <3>4, <3>5 DEF DetachedFrom, Tip
    <2> QED
      BY <2>1, <2>2
  <1>4. TrieTyped(v) /\ e \in Slots /\ e # 0
    BY <1>1, <1>3, SoundFacts DEF AboveTip
  <1>5. IsTree(v, U, P, L, O, Y, {e})
    <2>1. CanDetach(t, V, L, X, e, n, base, T, Y)
      BY DEF CanDetach, Tip
    <2>2. IsTree(t, V, P, L, O, X, {})
      BY DEF Tip
    <2> HIDE DEF base, T, U
    <2> QED
      BY <2>1, <2>2, <1>3, <1>4, Detached DEF U
  <1>6. CanRelease(R, v, U, P, L, O, Y, e)
    <2>1. Taken(v) = Taken(t)
      BY <1>3 DEF Taken
    <2>2. Taken(v) = U \cup {e} /\ e \notin U
      BY <2>1 DEF Tip
    <2> QED
      BY <2>2, <1>3, <1>4, <1>5 DEF CanRelease
  <1> HIDE DEF U
  <1>7. HasReleased(R, v, u, U, P, L, O, Y, e)
    BY <1>6, ReleaseTree
  <1>8. Y = {} <=> T # {}
    BY <1>2
  <1> QED
    BY <1>3, <1>7, <1>8 DEF PoppedTo, HasReleased, ReleasedAs, U

\* What the nodes hold once one is gone.
LEMMA ContentLess ==
    ASSUME NEW t, NEW V, NEW P, NEW L, NEW e \in V, NEW u, NEW U, U = V \ {e},
           \A x \in U : u.array[x] = t.array[x], \A a \in V : P[a] = P[e] => a = e
    PROVE  Content(u, U, P, L) = {x \in Content(t, V, P, L) : x[1] # P[e]}
  <1> DEFINE f(x) == <<P[x], InnerNode(t, L, x), IF InnerNode(t, L, x) THEN 0 ELSE t.array[x].base>>
             g(x) == <<P[x], InnerNode(u, L, x), IF InnerNode(u, L, x) THEN 0 ELSE u.array[x].base>>
             q == P[e]
  <1>1. Content(t, V, P, L) = {f(x) : x \in V} /\ Content(u, U, P, L) = {g(x) : x \in U}
    BY DEF Content
  <1>2. ASSUME NEW x \in U PROVE g(x) = f(x) /\ f(x)[1] # q
    <2>1. u.array[x] = t.array[x] /\ (InnerNode(u, L, x) = InnerNode(t, L, x))
      <3>1. u.array[x] = t.array[x]
        OBVIOUS
      <3> QED
        BY <3>1 DEF InnerNode
    <2>2. f(x)[1] = P[x]
      OBVIOUS
    <2> QED
      BY <2>1, <2>2
  <1>3. f(e)[1] = q
    OBVIOUS
  <1> HIDE DEF f, g, q
  <1>4. {g(x) : x \in U} = {y \in {f(x) : x \in V} : y[1] # q}
    BY <1>2, <1>3
  <1> QED
    BY <1>1, <1>4 DEF q

-----------------------------------------------------------------------------
(* erase.                                                                  *)

\* What is left of C once the nodes on a path from the n-th on are gone.
Pruned(C, path, n) == {x \in C : \A j \in n .. Len(path) : x[1] # Cut(path, j)}

\* A node of C beside the path, below the n-th on it.
Beside(C, path, n) == \E c \in Labels : c # path[n + 1] /\ Has(C, Named(Cut(path, n), c))

\* No node of C is beside the path below the n-th or a later one.
AloneFrom(C, path, n) == \A i \in n .. Len(path) - 1 : ~ Beside(C, path, i)

\* One node of the path more is gone.
LEMMA PrunedOn ==
    ASSUME NEW C, NEW path, Len(path) \in Nat, NEW j \in 1 .. Len(path)
    PROVE  {x \in Pruned(C, path, j + 1) : x[1] # Cut(path, j)} = Pruned(C, path, j)
  <1>1. j .. Len(path) = {j} \cup (j + 1 .. Len(path))
    OBVIOUS
  <1> QED
    BY <1>1 DEF Pruned

\* The nodes below n are those named after it and one label more.
LEMMA ChildNames ==
    ASSUME NEW t, NEW V, NEW P, NEW L, NEW O, GhostTyped(V, P, L, O), Edges(t, V, P, L, O),
           \A a, b \in V \cup {0} : P[a] = P[b] => a = b,
           NEW n \in V \cup {0}, NEW p, p = P[n], NEW c \in Labels
    PROVE  /\ \A x \in V : P[x] = Named(p, c) <=> t.array[x].check = n /\ L[x] = c
           /\ Has(Content(t, V, P, L), Named(p, c)) <=> \E x \in V : t.array[x].check = n /\ L[x] = c
  <1>1. V \in SUBSET (Slots \ {0}) /\ P \in [Slots -> Seq(Labels)] /\ L \in [Slots -> Labels]
        /\ 0 \in Slots /\ p \in Seq(Labels)
    BY SlotRange DEF GhostTyped
  <1>2. ASSUME NEW x \in V
        PROVE  P[x] = Named(p, c) <=> t.array[x].check = n /\ L[x] = c
    <2> DEFINE a == t.array[x].check
               y == P[a]
               l == L[x]
    <2>1. a \in V \cup {0} /\ P[x] = Named(y, l)
      BY DEF Edges
    <2>2. y \in Seq(Labels) /\ l \in Labels
      BY <2>1, <1>1
    <2>3. ASSUME Named(y, l) = Named(p, c) PROVE y = p /\ l = c
      <3> HIDE DEF y, l
      <3>1. \A r \in Seq(Labels), d \in Labels : Named(y, l) = Named(r, d) => y = r /\ l = d
        BY <2>2, Names
      <3> QED
        BY <3>1, <2>3, <1>1
    <2>4. y = p <=> a = n
      BY <2>1
    <2> HIDE DEF a, y, l
    <2>5. P[x] = Named(p, c) <=> a = n /\ l = c
      BY <2>1, <2>3, <2>4
    <2> QED
      BY <2>5 DEF a, l
  <1>3. Has(Content(t, V, P, L), Named(p, c)) <=> \E x \in V : P[x] = Named(p, c)
    <2> DEFINE g(x) == <<P[x], InnerNode(t, L, x), IF InnerNode(t, L, x) THEN 0 ELSE t.array[x].base>>
    <2>1. Content(t, V, P, L) = {g(x) : x \in V}
      BY DEF Content
    <2>2. \A x \in V : g(x)[1] = P[x]
      OBVIOUS
    <2> HIDE DEF g
    <2> QED
      BY <2>1, <2>2 DEF Has
  <1> QED
    BY <1>2, <1>3

\* While the nodes of a path below the j-th are gone: that one has another child
\* exactly if C has a node beside the path.
LEMMA BesideSeen ==
    ASSUME NEW D, NEW path \in Seq(Labels), NEW j \in 0 .. Len(path) - 1,
           NEW t, NEW V, NEW P, NEW L, NEW O, GhostTyped(V, P, L, O), Edges(t, V, P, L, O),
           \A a, b \in V \cup {0} : P[a] = P[b] => a = b,
           NEW C, C = Content(t, V, P, L), C = Pruned(D, path, j + 2),
           NEW n \in V, P[n] = Cut(path, j)
    PROVE  Listed(t, V, L, n) \ {path[j + 1]} # {} <=> Beside(D, path, j)
  <1> DEFINE p == Cut(path, j)
  <1>1. j \in Nat /\ j \in 0 .. Len(path) /\ Len(path) \in Nat
    OBVIOUS
  <1>3. p \in Seq(Labels) /\ Len(p) = j
    BY <1>1, CutFacts
  <1>4. \A c \in Labels : Len(Named(p, c)) = j + 1
    BY <1>3, Names
  <1>5. \A c \in Labels : \A i \in j + 2 .. Len(path) : Cut(path, i) # Named(p, c)
    <2> SUFFICES ASSUME NEW c \in Labels, NEW i \in j + 2 .. Len(path) PROVE Cut(path, i) # Named(p, c)
      OBVIOUS
    <2>1. i \in 0 .. Len(path) /\ i # j + 1
      BY <1>1
    <2>2. Len(Cut(path, i)) = i
      BY <2>1, <1>1, CutFacts
    <2> QED
      BY <2>1, <2>2, <1>4
  <1> HIDE DEF p
  <1>6. \A c \in Labels : Has(C, Named(p, c)) <=> Has(D, Named(p, c))
    BY <1>5 DEF Has, Pruned
  <1>7. ASSUME NEW c \in Labels
        PROVE  Has(C, Named(p, c)) <=> c \in Listed(t, V, L, n)
    <2>1. /\ n \in V \cup {0} /\ p = P[n] /\ GhostTyped(V, P, L, O) /\ Edges(t, V, P, L, O)
          /\ \A a, b \in V \cup {0} : P[a] = P[b] => a = b
          /\ C = Content(t, V, P, L)
      BY DEF p
    <2>2. Has(C, Named(p, c)) <=> \E x \in V : t.array[x].check = n /\ L[x] = c
      <3>1. Has(Content(t, V, P, L), Named(p, c)) <=> \E x \in V : t.array[x].check = n /\ L[x] = c
        BY ONLY <2>1, <1>7, ChildNames
      <3> QED
        BY <3>1, <2>1
    <2>3. n # 0
      BY DEF GhostTyped
    <2>4. c \in Listed(t, V, L, n) <=> \E x \in V : t.array[x].check = n /\ L[x] = c
      BY <2>3 DEF Listed
    <2> QED
      BY <2>2, <2>4
  <1>8. Beside(D, path, j) <=> \E c \in Labels : c # path[j + 1] /\ Has(D, Named(p, c))
    BY DEF Beside, p
  <1>9. Listed(t, V, L, n) \subseteq Labels
    BY DEF Listed
  <1> QED
    BY <1>6, <1>7, <1>8, <1>9

\* erase has come to the node named after the first j labels of the path, which
\* is the next to go.
ClimbsAs(R, s, D, path, j, V, P, L, O, X) ==
    /\ Tip(R, s.t, V, P, L, O, X, s.at) /\ s.from = s.t.array[s.at].check /\ ~ s.stop
    /\ P[s.at] = Cut(path, j) /\ Content(s.t, V, P, L) = Pruned(D, path, j + 1)
    /\ AloneFrom(D, path, j)

\* It has, with some names for the nodes.
Climbs(R, s, D, path, j) == \E V, P, L, O, X : ClimbsAs(R, s, D, path, j, V, P, L, O, X)

\* The path is gone from where it is alone, which is the i-th of its nodes on.
PrunedAt(R, u, D, path, i) ==
    /\ TrieOf(R, u, Pruned(D, path, i + 1)) /\ (i = 0 \/ Beside(D, path, i))
    /\ AloneFrom(D, path, i + 1)

\* It is gone from some node on.
PrunedTo(R, u, D, path) == \E i \in 0 .. Len(path) - 1 : PrunedAt(R, u, D, path, i)

\* A round of erase at the j-th node of the path, from s to r.
StepsUp(R, D, path, j, s, r) ==
    /\ r.t.nblk = s.t.nblk
    /\ \/ r.stop /\ PrunedTo(R, r.t, D, path)
       \/ j - 1 \in 1 .. Len(path) /\ Climbs(R, r, D, path, j - 1)

\* A round ends there, or comes one node higher.
LEMMA EraseStep ==
    ASSUME NEW R, Spare("chain", R), NEW D, NEW path \in Seq(Labels),
           NEW j \in 1 .. Len(path), NEW s, Climbs(R, s, D, path, j), NEW r, r = EraseRound(s)
    PROVE  StepsUp(R, D, path, j, s, r)
  <1>1. PICK V, P, L, O, X : ClimbsAs(R, s, D, path, j, V, P, L, O, X)
    BY DEF Climbs
  <1>2. /\ j \in 0 .. Len(path) /\ j - 1 \in 0 .. Len(path) /\ j - 1 < Len(path)
        /\ j \in Nat /\ j - 1 \in 0 .. Len(path) - 1 /\ j - 1 + 1 = j /\ j - 1 + 2 = j + 1
    OBVIOUS
  <1> DEFINE t == s.t
             e == s.at
             n == s.from
             i == j - 1
             S == Listed(t, V, L, n)
             base == t.array[n].base
             flag == HasSibling(t, n)
             v == IF flag THEN Unchain(t, n, e) ELSE t
             u == Release(v, e)
             U == V \ {e}
             Y == IF flag THEN {} ELSE {n}
  <1>3. /\ Tip(R, t, V, P, L, O, X, e) /\ n = t.array[e].check /\ P[e] = Cut(path, j)
        /\ Content(t, V, P, L) = Pruned(D, path, j + 1) /\ AloneFrom(D, path, j)
        /\ IsTree(t, V, P, L, O, X, {}) /\ e \in V /\ GhostTyped(V, P, L, O) /\ Edges(t, V, P, L, O)
    BY <1>1 DEF ClimbsAs, Tip, IsTree
  <1>4. /\ r.t = u /\ r.at = n /\ r.from = v.array[n].check /\ r.stop = flag
    BY DEF EraseRound
  <1>5. AboveTip(t, V, P, L, O, e, n, base, S)
    <2> HIDE DEF t, n, e
    <2> QED
      BY <1>3, TipFacts
  <1>6. PoppedTo(R, t, v, u, V, P, L, O, Y, e, S) /\ (flag <=> S \ {L[e]} # {})
    <2>1. Pops(t, n, e, v)
      BY DEF Pops
    <2> HIDE DEF t, n, e, v
    <2>2. S = Listed(t, V, L, n) /\ u = Release(v, e) /\ Y = IF HasSibling(t, n) THEN {} ELSE {n}
      OBVIOUS
    <2> HIDE DEF S, u, Y
    <2>3. PoppedTo(R, t, v, u, V, P, L, O, Y, e, S)
      BY <2>1, <2>2, <1>3, EraseOne
    <2>4. HasSibling(t, n) <=> S \ {L[e]} # {}
      <3>1. Tip(R, t, V, P, L, O, X, e) /\ n = t.array[e].check /\ S = Listed(t, V, L, n)
        BY <2>2, <1>3
      <3>2. SeenBeside(t, n, S, L[e])
        BY ONLY <3>1, SiblingSeen
      <3> QED
        BY <3>2 DEF SeenBeside
    <2> QED
      BY <2>3, <2>4
  <1> HIDE DEF S, base, v, u
  <1>7. /\ Sound(R, u) /\ U = Taken(u) /\ IsTree(u, U, P, L, O, Y, {})
        /\ \A x \in U : u.array[x] = t.array[x] /\ x \in V
        /\ v.array = t.array /\ u.nblk = t.nblk
    BY <1>6 DEF PoppedTo
  <1>8. /\ n \in V \cup {0} /\ n # e /\ (n = 0 => 0 \in S /\ L[e] # 0)
        /\ \A a, b \in V \cup {0} : P[a] = P[b] => a = b
    BY <1>5 DEF AboveTip
  <1>9. Content(u, U, P, L) = Pruned(D, path, j)
    <2> HIDE DEF t, e
    <2>1. \A a \in V : P[a] = P[e] => a = e
      BY <1>3, <1>8
    <2>2. \A x \in V \ {e} : u.array[x] = t.array[x]
      BY <1>7
    <2>3. U = V \ {e}
      OBVIOUS
    <2> HIDE DEF U
    <2>4. Content(u, U, P, L) = {x \in Content(t, V, P, L) : x[1] # P[e]}
      BY <1>3, <2>1, <2>2, <2>3, ContentLess
    <2>5. {x \in Pruned(D, path, j + 1) : x[1] # Cut(path, j)} = Pruned(D, path, j)
      BY PrunedOn
    <2> QED
      BY <2>4, <2>5, <1>3
  <1>10. L[e] = path[j] /\ P[n] = Cut(path, i) /\ (n = 0 <=> i = 0)
    <2> HIDE DEF t, e
    <2>1. L[e] = path[j]
      <3>1. (e = 0 <=> j = 0) /\ (e # 0 => L[e] = path[j])
        BY <1>2, <1>3, LastLabel
      <3> QED
        BY <3>1
    <2>2. P[e] = Named(P[n], L[e]) /\ P[n] \in Seq(Labels) /\ L[e] \in Labels
      <3>1. n \in Slots /\ e \in Slots
        BY <1>5 DEF AboveTip
      <3> HIDE DEF n
      <3>2. P[e] = Named(P[n], L[e])
        BY <1>3 DEF Edges
      <3> QED
        BY <3>1, <3>2, <1>3 DEF GhostTyped
    <2>3. Cut(path, j) = Named(Cut(path, i), path[j]) /\ Cut(path, i) \in Seq(Labels) /\ path[j] \in Labels
      <3>1. i \in 0 .. Len(path) /\ i < Len(path) /\ i + 1 = j
        BY <1>2
      <3> HIDE DEF i
      <3>2. Cut(path, i + 1) = Named(Cut(path, i), path[i + 1])
            /\ Cut(path, i) \in Seq(Labels) /\ path[i + 1] \in Labels
        BY <1>2, <3>1, CutFacts
      <3> QED
        BY <3>1, <3>2
    <2>4. P[n] = Cut(path, i)
      <3> DEFINE x == P[n]
                 y == L[e]
                 a == Cut(path, i)
                 b == path[j]
      <3>1. Named(x, y) = Named(a, b) /\ x \in Seq(Labels) /\ y \in Labels
            /\ a \in Seq(Labels) /\ b \in Labels
        BY <2>2, <2>3, <1>3
      <3> HIDE DEF x, y, a, b
      <3>2. \A q \in Seq(Labels), d \in Labels : Named(x, y) = Named(q, d) => x = q /\ y = d
        BY <3>1, Names
      <3>3. x = a
        BY <3>1, <3>2
      <3> QED
        BY <3>3 DEF x, a
    <2>5. n = 0 <=> i = 0
      <3>1. i \in 0 .. Len(path)
        BY <1>2
      <3> HIDE DEF n, i
      <3> QED
        BY <3>1, <2>4, <1>2, <1>3, <1>8, LastLabel
    <2> QED
      BY <2>1, <2>4, <2>5
  <1>11. n # 0 => (S \ {L[e]} # {} <=> Beside(D, path, i))
    <2> SUFFICES ASSUME n # 0 PROVE S \ {L[e]} # {} <=> Beside(D, path, i)
      OBVIOUS
    <2>1. n \in V /\ i \in 0 .. Len(path) - 1 /\ i + 1 = j /\ i + 2 = j + 1
      BY <1>2, <1>8
    <2> HIDE DEF n, i, t, e
    <2>2. Content(t, V, P, L) = Pruned(D, path, i + 2)
      BY <2>1, <1>3
    <2>3. Listed(t, V, L, n) \ {path[i + 1]} # {} <=> Beside(D, path, i)
      BY <2>1, <2>2, <1>3, <1>8, <1>10, BesideSeen
    <2> QED
      BY <2>1, <2>3, <1>10 DEF S
  <1>12. CASE flag
    <2>1. i = 0 \/ Beside(D, path, i)
      BY <1>6, <1>10, <1>11, <1>12
    <2>2. i \in 0 .. Len(path) - 1 /\ i + 1 = j
      BY <1>2
    <2> HIDE DEF i
    <2>4. Y = {}
      BY <1>12
    <2>5. TrieAs(R, u, Pruned(D, path, i + 1), U, P, L, O)
      BY <2>2, <2>4, <1>7, <1>9 DEF TrieAs
    <2>6. TrieOf(R, u, Pruned(D, path, i + 1))
      BY <2>5 DEF TrieOf
    <2>7. PrunedAt(R, u, D, path, i)
      BY <2>1, <2>2, <2>6, <1>3 DEF PrunedAt
    <2>8. PrunedTo(R, u, D, path)
      BY <2>2, <2>7 DEF PrunedTo
    <2> QED
      BY <2>8, <1>4, <1>7, <1>12 DEF StepsUp
  <1>13. CASE ~ flag
    <2>1. n # 0
      BY <1>6, <1>8, <1>13
    <2>2. i \in 1 .. Len(path) /\ i + 1 = j /\ n \in U
      BY <2>1, <1>2, <1>8, <1>10
    <2>3. ~ Beside(D, path, i)
      BY <2>1, <1>6, <1>11, <1>13
    <2>4. AloneFrom(D, path, i)
      <3> HIDE DEF i
      <3>1. \A x \in i .. Len(path) - 1 : x = i \/ x \in j .. Len(path) - 1
        BY <2>2
      <3> QED
        BY <3>1, <2>3, <1>3 DEF AloneFrom
    <2>5. \A x \in U : u.array[x].check # n
      <3> SUFFICES ASSUME NEW x \in U, u.array[x].check = n PROVE FALSE
        OBVIOUS
      <3>1. x \in V /\ t.array[x].check = n /\ x # e
        BY <1>7
      <3>2. L[x] \in S
        <4>1. L \in [Slots -> Labels] /\ V \subseteq Slots
          BY <1>3 DEF GhostTyped
        <4> QED
          BY <3>1, <4>1, ListedChild DEF S
      <3>3. L[x] = L[e]
        BY <3>2, <1>6, <1>13
      <3>4. P[x] = P[e]
        BY <3>1, <3>3, <1>3 DEF Edges
      <3> QED
        BY <3>1, <3>4, <1>3, <1>8
    <2>6. Tip(R, u, U, P, L, O, {n}, n)
      BY <2>2, <2>5, <1>7, <1>13 DEF Tip
    <2>7. r.from = u.array[n].check
      BY <2>2, <1>4, <1>7
    <2>8. ClimbsAs(R, r, D, path, i, U, P, L, O, {n})
      <3> HIDE DEF t, n, i, U, flag
      <3> QED
        BY <2>2, <2>4, <2>6, <2>7, <1>4, <1>9, <1>10, <1>13 DEF ClimbsAs
    <2> QED
      BY <2>2, <2>8, <1>4, <1>7 DEF Climbs, StepsUp
  <1> QED
    BY <1>12, <1>13

\* erase starts at a node without children.
LEMMA EraseStarts ==
    ASSUME NEW R, NEW D, NEW path \in Seq(Labels), NEW t, NEW V, NEW P, NEW L, NEW O,
           TrieAs(R, t, D, V, P, L, O), NEW e \in V, P[e] = path, ~ InnerNode(t, L, e),
           NEW from, from = t.array[e].check,
           NEW s, s = [t |-> t, at |-> e, from |-> from, stop |-> FALSE]
    PROVE  Climbs(R, s, D, path, Len(path)) /\ Len(path) >= 1
  <1>1. Sound(R, t) /\ V = Taken(t) /\ IsTree(t, V, P, L, O, {}, {}) /\ Content(t, V, P, L) = D
    BY DEF TrieAs
  <1>2. Len(path) \in Nat /\ Cut(path, Len(path)) = path
    <2>1. Len(path) \in 0 .. Len(path)
      OBVIOUS
    <2> QED
      BY <2>1, CutFacts
  <1>3. Len(path) >= 1
    <2>1. e # 0
      BY <1>1 DEF IsTree, GhostTyped
    <2>2. (e = 0 <=> Len(path) = 0)
      <3>1. Len(path) \in 0 .. Len(path)
        BY <1>2
      <3>2. P[e] = Cut(path, Len(path))
        BY <1>2
      <3> QED
        BY <3>1, <3>2, <1>1, LastLabel
    <2> QED
      BY <2>1, <2>2, <1>2
  <1>4. \A x \in V : t.array[x].check # e
    BY <1>1 DEF IsTree, Edges
  <1>5. Tip(R, t, V, P, L, O, {}, e)
    BY <1>1, <1>4 DEF Tip
  <1>6. Pruned(D, path, Len(path) + 1) = D
    <2>1. Len(path) + 1 .. Len(path) = {}
      BY <1>2
    <2> QED
      BY <2>1 DEF Pruned
  <1>7. AloneFrom(D, path, Len(path))
    <2>1. Len(path) .. Len(path) - 1 = {}
      BY <1>2
    <2> QED
      BY <2>1 DEF AloneFrom
  <1>8. ClimbsAs(R, s, D, path, Len(path), V, P, L, O, {})
    BY <1>1, <1>2, <1>5, <1>6, <1>7 DEF ClimbsAs
  <1> QED
    BY <1>3, <1>8 DEF Climbs

\* The loop of erase.
LEMMA EraseUpLoop ==
    ASSUME NEW t, NEW e, NEW from, NEW n \in Nat
    PROVE  \E g : /\ g[0] = [t |-> t, at |-> e, from |-> from, stop |-> FALSE]
                  /\ \A i \in 1 .. n : g[i] = IF g[i - 1].stop THEN g[i - 1] ELSE EraseRound(g[i - 1])
                  /\ EraseUp(t, e, from, n) = g[n].t
  <1> DEFINE N == n
             s0 == [t |-> t, at |-> e, from |-> from, stop |-> FALSE]
             Next1(s, i) == IF s.stop THEN s ELSE EraseRound(s)
             Step(g, i) == IF i = 0 THEN s0 ELSE Next1(g[i - 1], i)
             Good(g, m) == g = [i \in 0 .. m |-> Step(g, i)]
             Bad == {m \in Nat : ~ \E g : Good(g, m)}
  <1>1. Bad = {}
    <2> SUFFICES ASSUME Bad # {} PROVE FALSE
      OBVIOUS
    <2> HIDE DEF Next1, s0
    <2>1. Bad \in SUBSET Nat
      OBVIOUS
    <2> HIDE DEF Bad
    <2>2. PICK m \in Bad : \A x \in Bad : m <= x
      BY <2>1, Least
    <2>3. m \in Nat /\ ~ \E g : Good(g, m)
      BY DEF Bad
    <2>4. CASE m = 0
      <3> DEFINE g == [i \in 0 .. 0 |-> s0]
      <3>1. Good(g, 0)
        BY DEF g
      <3> QED
        BY <3>1, <2>3, <2>4
    <2>5. CASE m # 0
      <3>1. m - 1 \in Nat /\ m - 1 \notin Bad
        BY <2>2, <2>3, <2>5
      <3>2. PICK h : Good(h, m - 1)
        BY <3>1 DEF Bad
      <3> DEFINE g == [i \in 0 .. m |-> Step(h, i)]
      <3>3. ASSUME NEW i \in 0 .. m PROVE Step(g, i) = Step(h, i)
        <4>1. CASE i = 0
          BY <4>1
        <4>2. CASE i # 0
          <5>1. i - 1 \in 0 .. m /\ i - 1 \in 0 .. m - 1
            BY <4>2, <2>3
          <5>2. g[i - 1] = Step(h, i - 1)
            BY <5>1
          <5>3. h[i - 1] = Step(h, i - 1)
            <6> HIDE DEF Step
            <6> QED
              BY <5>1, <3>2
          <5> HIDE DEF g
          <5> QED
            BY <4>2, <5>2, <5>3
        <4> QED
          BY <4>1, <4>2
      <3>4. Good(g, m)
        <4> HIDE DEF Step
        <4> QED
          BY <3>3
      <3> QED
        BY <3>4, <2>3
    <2> QED
      BY <2>4, <2>5
  <1>2. \E g : Good(g, N)
    BY <1>1
  <1>3. PICK g : Good(g, N) /\ EraseUp(t, e, from, n) = g[N].t
    BY <1>2 DEF EraseUp
  <1> HIDE DEF Next1, s0
  <1>4. g[0] = s0 /\ \A i \in 1 .. N : g[i] = Next1(g[i - 1], i)
    <2>1. g = [i \in 0 .. N |-> Step(g, i)]
      BY <1>3
    <2>2. \A i \in 0 .. N : g[i] = Step(g, i)
      <3> HIDE DEF Step
      <3> QED
        BY <2>1
    <2> QED
      BY <2>2
  <1> QED
    BY <1>3, <1>4 DEF Next1, s0

\* erase: the path of a node without children goes, up to where another begins.
THEOREM EraseTree ==
    ASSUME NEW R, Spare("chain", R), NEW D, NEW path \in Seq(Labels), NEW t,
           NEW V, NEW P, NEW L, NEW O,
           TrieAs(R, t, D, V, P, L, O), NEW e \in V, P[e] = path, ~ InnerNode(t, L, e),
           NEW from, from = t.array[e].check, NEW n \in Nat, Len(path) <= n,
           NEW u, u = EraseUp(t, e, from, n)
    PROVE  PrunedTo(R, u, D, path) /\ u.nblk = t.nblk
  <1> DEFINE N == n
             M == Len(path)
             s0 == [t |-> t, at |-> e, from |-> from, stop |-> FALSE]
             Next1(s, i) == IF s.stop THEN s ELSE EraseRound(s)
  <1>0. N \in Nat /\ M \in Nat /\ M <= N
    OBVIOUS
  <1>3. PICK g : /\ g[0] = s0 /\ \A i \in 1 .. N : g[i] = Next1(g[i - 1], i)
                 /\ u = g[N].t
    BY EraseUpLoop
  <1> HIDE DEF Next1, s0
  <1>4. g[0] = s0 /\ \A i \in 1 .. N : g[i] = Next1(g[i - 1], i)
    BY <1>3
  <1> DEFINE Fine(s, i) == /\ s.t.nblk = t.nblk
                           /\ \/ s.stop = TRUE /\ PrunedTo(R, s.t, D, path)
                              \/ M - i \in 1 .. M /\ s.stop = FALSE /\ Climbs(R, s, D, path, M - i)
             Out == {i \in 0 .. N : ~ Fine(g[i], i)}
  <1>5. Fine(s0, 0)
    <2>1. Climbs(R, s0, D, path, M) /\ M >= 1
      BY EraseStarts DEF s0
    <2>2. s0.t = t /\ s0.stop = FALSE
      BY DEF s0
    <2>3. M - 0 \in 1 .. M /\ M - 0 = M
      BY <1>0, <2>1
    <2> HIDE DEF M
    <2> QED
      BY <2>1, <2>2, <2>3
  <1>6. Out = {}
    <2> SUFFICES ASSUME Out # {} PROVE FALSE
      OBVIOUS
    <2> HIDE DEF Fine
    <2>1. Out \in SUBSET Nat
      OBVIOUS
    <2> HIDE DEF Out
    <2>2. PICK m \in Out : \A x \in Out : m <= x
      BY <2>1, Least
    <2>3. m \in 0 .. N /\ ~ Fine(g[m], m)
      BY DEF Out
    <2>4. m # 0
      BY <2>3, <1>4, <1>5
    <2>5. m - 1 \in 0 .. N /\ m - 1 \notin Out /\ m \in 1 .. N
      BY <1>0, <2>2, <2>3, <2>4
    <2> DEFINE i == m - 1
               a == g[i]
               b == g[m]
    <2>6. Fine(a, i) /\ b = Next1(a, m)
      BY <2>5, <1>4 DEF Out
    <2>7. i \in 0 .. N /\ M - i - 1 = M - m
      BY <2>5, <1>0
    <2> HIDE DEF a, b, i
    <2>8. CASE a.stop
      <3>1. b = a
        BY <2>6, <2>8 DEF Next1
      <3>2. Fine(b, m)
        BY <3>1, <2>6, <2>8 DEF Fine
      <3> QED
        BY <3>2, <2>3 DEF b
    <2>9. CASE ~ a.stop
      <3> DEFINE j == M - i
      <3>1. b = EraseRound(a) /\ a.t.nblk = t.nblk
        BY <2>6, <2>9 DEF Next1, Fine
      <3>2. j \in 1 .. Len(path) /\ Climbs(R, a, D, path, j)
        BY <2>6, <2>9, <1>0 DEF Fine
      <3> HIDE DEF j
      <3>3. /\ b.t.nblk = a.t.nblk
            /\ \/ b.stop /\ PrunedTo(R, b.t, D, path)
               \/ j - 1 \in 1 .. Len(path) /\ Climbs(R, b, D, path, j - 1)
        <4>1. /\ Spare("chain", R) /\ path \in Seq(Labels) /\ j \in 1 .. Len(path)
              /\ Climbs(R, a, D, path, j) /\ b = EraseRound(a)
          BY <3>1, <3>2
        <4>2. StepsUp(R, D, path, j, a, b)
          BY ONLY <4>1, EraseStep
        <4> QED
          BY <4>2 DEF StepsUp
      <3>4. b.stop \in BOOLEAN
        BY <3>1 DEF EraseRound, HasSibling
      <3>5. j - 1 = M - m
        BY <2>7 DEF j
      <3>6. Climbs(R, b, D, path, j - 1) => b.stop = FALSE
        <4>1. Climbs(R, b, D, path, j - 1) => ~ b.stop
          BY DEF Climbs, ClimbsAs
        <4> QED
          BY <4>1, <3>4
      <3>7. Fine(b, m)
        BY <3>1, <3>3, <3>4, <3>5, <3>6, <1>0 DEF Fine
      <3> QED
        BY <3>7, <2>3 DEF b
    <2> QED
      BY <2>8, <2>9
  <1>7. Fine(g[N], N)
    BY <1>0, <1>6
  <1>8. ~ M - N \in 1 .. M
    BY <1>0
  <1> HIDE DEF N, M
  <1>9. PrunedTo(R, g[N].t, D, path) /\ g[N].t.nblk = t.nblk
    BY <1>7, <1>8
  <1> QED
    BY <1>3, <1>9 DEF N

-----------------------------------------------------------------------------
(* Keys and their paths.                                                   *)

\* An interval of which every number is in S.
LEMMA UpTo ==
    ASSUME NEW N \in Nat, NEW S, 0 \in S, \A i \in 1 .. N : i - 1 \in S => i \in S
    PROVE  \A i \in 0 .. N : i \in S
  <1> DEFINE Out == {i \in 0 .. N : i \notin S}
  <1> SUFFICES ASSUME Out # {} PROVE FALSE
    OBVIOUS
  <1>1. Out \in SUBSET Nat
    OBVIOUS
  <1> HIDE DEF Out
  <1>2. PICK m \in Out : \A x \in Out : m <= x
    BY <1>1, Least
  <1>3. m \in 0 .. N /\ m \notin S /\ m # 0
    BY DEF Out
  <1>4. m - 1 \notin Out /\ m - 1 \in 0 .. N /\ m \in 1 .. N
    BY <1>1, <1>2, <1>3
  <1> QED
    BY <1>3, <1>4 DEF Out

\* The path of a key, down to its terminal.
Ended(k) == Append(k, 0)

\* A key has no label 0, and is not empty.
IsKey(k) == k \in Seq(Labels \ {0}) /\ k # <<>>

\* A key and its path.
LEMMA EndedFacts ==
    ASSUME NEW k, IsKey(k)
    PROVE  /\ Ended(k) \in Seq(Labels) /\ Len(Ended(k)) = Len(k) + 1 /\ Len(k) \in Nat /\ Len(k) >= 1
           /\ Ended(k)[Len(k) + 1] = 0 /\ k \in Seq(Labels) /\ Cut(Ended(k), Len(k)) = k
           /\ \A i \in 1 .. Len(k) : Ended(k)[i] = k[i] /\ k[i] # 0 /\ k[i] \in Labels
           /\ \A i \in 0 .. Len(k) : Cut(Ended(k), i) = Cut(k, i)
  <1>1. 0 \in Labels
    BY BlockAssumption DEF Labels
  <1>2. k \in Seq(Labels) /\ k \in Seq(Labels \ {0}) /\ k # <<>>
    BY DEF IsKey
  <1>3. /\ Len(k) \in Nat /\ Len(k) >= 1 /\ Ended(k) \in Seq(Labels) /\ Len(Ended(k)) = Len(k) + 1
        /\ Ended(k)[Len(k) + 1] = 0 /\ \A i \in 1 .. Len(k) : Ended(k)[i] = k[i]
    BY <1>1, <1>2 DEF Ended
  <1>4. \A i \in 1 .. Len(k) : k[i] # 0 /\ k[i] \in Labels
    BY <1>2
  <1>5. ASSUME NEW i \in 0 .. Len(k) PROVE Cut(Ended(k), i) = Cut(k, i)
    <2>1. Cut(Ended(k), i) = [j \in 1 .. i |-> Ended(k)[j]] /\ Cut(k, i) = [j \in 1 .. i |-> k[j]]
      BY <1>2, <1>3 DEF Cut
    <2>2. \A j \in 1 .. i : Ended(k)[j] = k[j]
      BY <1>3
    <2> QED
      BY <2>1, <2>2
  <1>6. Cut(k, Len(k)) = k
    BY <1>2, <1>3, CutFacts
  <1>7. Len(k) \in 0 .. Len(k)
    BY <1>3
  <1>8. Cut(Ended(k), Len(k)) = k
    BY <1>5, <1>6, <1>7
  <1> QED
    BY <1>2, <1>3, <1>4, <1>5, <1>8

\* Two keys have two terminals, which are no inner nodes.
LEMMA EndsApart ==
    ASSUME NEW k, IsKey(k), NEW l, IsKey(l)
    PROVE  /\ Ended(k) = Ended(l) => k = l
           /\ \A i \in 1 .. Len(k) : Ended(l) # Cut(k, i)
  <1>1. /\ Cut(Ended(k), Len(k)) = k /\ Cut(Ended(l), Len(l)) = l
        /\ Len(Ended(k)) = Len(k) + 1 /\ Len(Ended(l)) = Len(l) + 1
        /\ Len(k) \in Nat /\ Len(l) \in Nat
        /\ k \in Seq(Labels) /\ Ended(l)[Len(l) + 1] = 0 /\ \A i \in 1 .. Len(k) : k[i] # 0
    BY EndedFacts
  <1>2. Ended(k) = Ended(l) => k = l
    <2>1. ASSUME Ended(k) = Ended(l) PROVE k = l
      <3>1. Len(k) = Len(l)
        BY <2>1, <1>1
      <3> QED
        BY <2>1, <3>1, <1>1
    <2> QED
      BY <2>1
  <1>3. ASSUME NEW i \in 1 .. Len(k), Ended(l) = Cut(k, i) PROVE FALSE
    <2>1. i \in 0 .. Len(k) /\ i \in 1 .. i /\ i \in Nat
      BY <1>1
    <2>2. Len(Cut(k, i)) = i /\ Cut(k, i)[i] = k[i]
      BY <2>1, <1>1, CutFacts
    <2> QED
      BY <2>1, <2>2, <1>1, <1>3
  <1> QED
    BY <1>2, <1>3

-----------------------------------------------------------------------------
(* The nodes of a tree, by what it holds.                                  *)

\* What a tree can hold: every node has a path of its own, which goes on from
\* an inner node.
IsForest(C) ==
    /\ \A x \in C : /\ x[1] \in Seq(Labels) /\ x[1] # <<>>
                    /\ IF x[2] THEN x = InnerOf(x[1]) ELSE x = <<x[1], FALSE, x[3]>>
    /\ \A x, y \in C : x[1] = y[1] => x = y
    /\ \A p \in Seq(Labels), l \in Labels :
          /\ p # <<>> /\ Has(C, Named(p, l)) => InnerOf(p) \in C
          /\ InnerOf(Named(p, l)) \in C => l # 0

\* What the node e holds.
Holding(t, P, L, e) ==
    IF InnerNode(t, L, e) THEN InnerOf(P[e]) ELSE <<P[e], FALSE, t.array[e].base>>

\* The nodes and what the tree holds.
LEMMA NodesOf ==
    ASSUME NEW t, NEW V, NEW P, NEW L, NEW C, C = Content(t, V, P, L)
    PROVE  /\ \A e \in V : Holding(t, P, L, e) \in C /\ Holding(t, P, L, e)[1] = P[e]
           /\ \A x \in C : \E e \in V : x = Holding(t, P, L, e)
           /\ \A p : Has(C, p) <=> \E e \in V : P[e] = p
  <1> DEFINE f(e) == <<P[e], InnerNode(t, L, e), IF InnerNode(t, L, e) THEN 0 ELSE t.array[e].base>>
             h(e) == Holding(t, P, L, e)
  <1>1. C = {f(e) : e \in V}
    BY DEF Content
  <1>2. ASSUME NEW e \in V PROVE f(e) = h(e) /\ h(e)[1] = P[e]
    <2>1. InnerNode(t, L, e) \in BOOLEAN
      BY DEF InnerNode
    <2>2. CASE InnerNode(t, L, e) = TRUE
      BY <2>2 DEF Holding, InnerOf
    <2>3. CASE InnerNode(t, L, e) = FALSE
      BY <2>3 DEF Holding, InnerOf
    <2> QED
      BY <2>1, <2>2, <2>3
  <1> HIDE DEF f, h
  <1>3. \A e \in V : h(e) \in C /\ h(e)[1] = P[e]
    BY <1>1, <1>2
  <1>4. \A x \in C : \E e \in V : x = h(e)
    BY <1>1, <1>2
  <1>5. \A p : Has(C, p) <=> \E e \in V : P[e] = p
    BY <1>3, <1>4 DEF Has
  <1> QED
    BY <1>3, <1>4, <1>5 DEF h

\* What a tree holds is a forest.
LEMMA ContentForest ==
    ASSUME NEW t, NEW V, NEW P, NEW L, NEW O, IsTree(t, V, P, L, O, {}, {}),
           NEW C, C = Content(t, V, P, L)
    PROVE  IsForest(C)
  <1> DEFINE h(e) == Holding(t, P, L, e)
  <1>1. /\ V \in SUBSET (Slots \ {0}) /\ P \in [Slots -> Seq(Labels)] /\ L \in [Slots -> Labels]
        /\ 0 \in Slots /\ P[0] = <<>> /\ Edges(t, V, P, L, O)
    BY SlotRange DEF IsTree, GhostTyped
  <1>2. /\ \A e \in V : h(e) \in C /\ h(e)[1] = P[e]
        /\ \A x \in C : \E e \in V : x = h(e)
        /\ \A p : Has(C, p) <=> \E e \in V : P[e] = p
    BY NodesOf
  <1>3. \A a, b \in V \cup {0} : P[a] = P[b] => a = b
    BY PathsApart
  <1>4. \A e \in V : /\ t.array[e].check \in V \cup {0} /\ P[e] = Named(P[t.array[e].check], L[e])
                     /\ InnerNode(t, L, t.array[e].check)
                     /\ P[t.array[e].check] \in Seq(Labels) /\ L[e] \in Labels
    BY <1>1 DEF Edges
  <1>5. ASSUME NEW x \in C
        PROVE  /\ x[1] \in Seq(Labels) /\ x[1] # <<>>
               /\ IF x[2] THEN x = InnerOf(x[1]) ELSE x = <<x[1], FALSE, x[3]>>
    <2>1. PICK e \in V : x = h(e)
      BY <1>2
    <2>2. x[1] = P[e] /\ P[e] \in Seq(Labels)
      BY <1>1, <1>2, <2>1
    <2>3. P[e] # <<>>
      <3> DEFINE y == P[t.array[e].check]
                 l == L[e]
      <3>1. y \in Seq(Labels) /\ l \in Labels /\ P[e] = Named(y, l)
        BY <1>4
      <3> HIDE DEF y, l
      <3> QED
        BY <3>1, Names
    <2>4. IF x[2] THEN x = InnerOf(x[1]) ELSE x = <<x[1], FALSE, x[3]>>
      <3>1. CASE InnerNode(t, L, e)
        <4>1. x = InnerOf(P[e])
          BY <2>1, <3>1 DEF Holding
        <4> QED
          BY <4>1 DEF InnerOf
      <3>2. CASE ~ InnerNode(t, L, e)
        <4>1. x = <<P[e], FALSE, t.array[e].base>>
          BY <2>1, <3>2 DEF Holding
        <4> QED
          BY <4>1
      <3> QED
        BY <3>1, <3>2
    <2> QED
      BY <2>2, <2>3, <2>4
  <1>6. ASSUME NEW x \in C, NEW y \in C, x[1] = y[1] PROVE x = y
    <2>1. PICK e \in V : x = h(e)
      BY <1>2
    <2>2. PICK d \in V : y = h(d)
      BY <1>2
    <2>3. P[e] = P[d]
      BY <2>1, <2>2, <1>2, <1>6
    <2> QED
      BY <2>1, <2>2, <2>3, <1>3
  <1> HIDE DEF h
  <1>7. ASSUME NEW p \in Seq(Labels), NEW l \in Labels, p # <<>>, Has(C, Named(p, l))
        PROVE  InnerOf(p) \in C
    <2>1. PICK e \in V : P[e] = Named(p, l)
      BY <1>2, <1>7
    <2> DEFINE n == t.array[e].check
    <2>2. n \in V \cup {0} /\ P[n] \in Seq(Labels) /\ Named(P[n], L[e]) = Named(p, l) /\ InnerNode(t, L, n)
          /\ L[e] \in Labels
      BY <1>4, <2>1
    <2> HIDE DEF n
    <2>3. P[n] = p
      BY <2>2, Names
    <2>4. n \in V
      BY <2>2, <2>3, <1>1, <1>7
    <2>5. h(n) = InnerOf(p)
      BY <2>2, <2>3 DEF h, Holding
    <2> QED
      BY <2>4, <2>5, <1>2
  <1>8. ASSUME NEW p \in Seq(Labels), NEW l \in Labels, InnerOf(Named(p, l)) \in C PROVE l # 0
    <2>1. PICK e \in V : InnerOf(Named(p, l)) = h(e)
      BY <1>2, <1>8
    <2>2. InnerNode(t, L, e) /\ P[e] = Named(p, l)
      <3>1. CASE InnerNode(t, L, e)
        BY <2>1, <3>1 DEF h, Holding, InnerOf
      <3>2. CASE ~ InnerNode(t, L, e)
        <4>1. InnerOf(Named(p, l)) = <<P[e], FALSE, t.array[e].base>>
          BY <2>1, <3>2 DEF h, Holding
        <4>2. InnerOf(Named(p, l))[2] = TRUE
          BY DEF InnerOf
        <4> QED
          BY <4>1, <4>2
      <3> QED
        BY <3>1, <3>2
    <2>3. L[e] # 0
      BY <2>2, <1>1 DEF InnerNode
    <2>4. L[e] = l
      <3> DEFINE y == P[t.array[e].check]
                 d == L[e]
      <3>1. y \in Seq(Labels) /\ d \in Labels /\ Named(p, l) = Named(y, d)
        BY <1>4, <2>2
      <3> HIDE DEF y, d
      <3>2. l = d
        BY <3>1, Names
      <3> QED
        BY <3>2 DEF d
    <2> QED
      BY <2>3, <2>4
  <1> QED
    BY <1>5, <1>6, <1>7, <1>8 DEF IsForest

\* A node of a forest has inner nodes above it.
LEMMA Beginnings ==
    ASSUME NEW C, IsForest(C), NEW path \in Seq(Labels), NEW n \in 1 .. Len(path),
           Has(C, Cut(path, n))
    PROVE  \A i \in 1 .. n - 1 : InnerOf(Cut(path, i)) \in C
  <1> DEFINE S == {d \in 0 .. n - 1 : Has(C, Cut(path, n - d)) /\ (d = 0 \/ InnerOf(Cut(path, n - d)) \in C)}
  <1>1. Len(path) \in Nat /\ n - 1 \in Nat /\ n \in Nat
    OBVIOUS
  <1>2. 0 \in S
    BY <1>1
  <1>3. ASSUME NEW d \in 1 .. n - 1, d - 1 \in S PROVE d \in S
    <2> DEFINE i == n - d
    <2>1. i \in 0 .. Len(path) /\ i < Len(path) /\ i >= 1 /\ i + 1 = n - (d - 1)
      BY <1>1
    <2>2. Has(C, Cut(path, i + 1))
      BY <1>3, <2>1
    <2> HIDE DEF i
    <2>3. /\ Cut(path, i) \in Seq(Labels) /\ Len(Cut(path, i)) = i /\ path[i + 1] \in Labels
          /\ Cut(path, i + 1) = Named(Cut(path, i), path[i + 1])
      BY <2>1, CutFacts
    <2>4. Cut(path, i) # <<>>
      BY <2>1, <2>3
    <2>5. InnerOf(Cut(path, i)) \in C
      BY <2>2, <2>3, <2>4 DEF IsForest
    <2>6. Has(C, Cut(path, i))
      <3>1. InnerOf(Cut(path, i))[1] = Cut(path, i)
        BY DEF InnerOf
      <3> QED
        BY <2>5, <3>1 DEF Has
    <2> QED
      BY <2>5, <2>6 DEF i
  <1> HIDE DEF S
  <1>4. \A d \in 0 .. n - 1 : d \in S
    BY <1>1, <1>2, <1>3, UpTo
  <1>5. ASSUME NEW i \in 1 .. n - 1 PROVE InnerOf(Cut(path, i)) \in C
    <2>1. n - i \in 0 .. n - 1 /\ n - i # 0 /\ n - (n - i) = i
      BY <1>1
    <2>2. n - i \in S
      BY <2>1, <1>4
    <2> QED
      BY <2>1, <2>2 DEF S
  <1> QED
    BY <1>5

-----------------------------------------------------------------------------
(* What the array alone says.                                              *)

\* What the array alone says of a tree, whatever the tables beside it hold.
Shape(t, V, P, L, O) ==
    /\ t.array \in [Slots -> [base : Int, check : Int]] /\ t.nblk \in 1 .. MaxBlocks
    /\ t.array[0].check < 0 /\ V = Taken(t)
    /\ GhostTyped(V, P, L, O) /\ Edges(t, V, P, L, O) /\ Settled(t, V, O, {}) /\ Bases(t, V, L)

\* A trie says so.
LEMMA TreeShape ==
    ASSUME NEW R, NEW t, NEW C, NEW V, NEW P, NEW L, NEW O, TrieAs(R, t, C, V, P, L, O)
    PROVE  Shape(t, V, P, L, O)
  <1>1. TrieTyped(t) /\ t.array[0].check < 0
    BY SoundFacts DEF TrieAs
  <1> QED
    BY <1>1 DEF TrieAs, IsTree, TrieTyped, Shape

\* The slot e, where the child c of a node is, if it has one; its name is q.
ChildIn(t, V, P, L, n, c, e, q, C) ==
    /\ e \in Slots /\ t.array[n].base \in Slots
    /\ t.array[e].check = n <=> Has(C, q)
    /\ t.array[e].check = n => e \in V /\ P[e] = q /\ L[e] = c

\* A child is found by its label: base, its parent's, says where.
LEMMA StepTo ==
    ASSUME NEW t, NEW V, NEW P, NEW L, NEW O, Shape(t, V, P, L, O), NEW C, C = Content(t, V, P, L),
           NEW n \in V \cup {0}, InnerNode(t, L, n), NEW c \in Labels, n = 0 => c # 0,
           NEW e, e = Xor(t.array[n].base, c), NEW q, q = Named(P[n], c)
    PROVE  ChildIn(t, V, P, L, n, c, e, q, C)
  <1> DEFINE b == t.array[n].base
             p == P[n]
  <1>1. /\ GhostTyped(V, P, L, O) /\ Edges(t, V, P, L, O) /\ Settled(t, V, O, {}) /\ Bases(t, V, L)
        /\ V = Taken(t) /\ t.nblk \in 1 .. MaxBlocks /\ t.array \in [Slots -> [base : Int, check : Int]]
    BY DEF Shape
  <1>2. /\ V \in SUBSET (Slots \ {0}) /\ P \in [Slots -> Seq(Labels)] /\ L \in [Slots -> Labels]
        /\ O \in [Slots -> Slots] /\ P[0] = <<>> /\ 0 \in Slots
    BY <1>1, SlotRange DEF GhostTyped
  <1>3. \A a, d \in V \cup {0} : P[a] = P[d] => a = d
    BY <1>1, NamesApart
  <1>4. b \in Slots /\ Block(b) < t.nblk /\ (n # 0 => Block(b) # 0) /\ (n = 0 => b = 0)
    <2>1. CASE n = 0
      <3>1. b = 0 /\ Block(0) = 0
        BY <2>1, <1>1, SlotFacts DEF Bases
      <3> QED
        BY <3>1, <2>1, <1>1, <1>2
    <2>2. CASE n # 0
      BY <2>2, <1>1 DEF Bases
    <2> QED
      BY <2>1, <2>2
  <1>5. e = Xor(b, c)
    OBVIOUS
  <1> HIDE DEF b, p
  <1>6. e \in Slots /\ Block(e) = Block(b) /\ (n = 0 => e = c /\ e # 0)
    BY <1>4, <1>5, XorAssumption
  <1>7. /\ \A x \in V : P[x] = Named(p, c) <=> t.array[x].check = n /\ L[x] = c
        /\ Has(C, Named(p, c)) <=> \E x \in V : t.array[x].check = n /\ L[x] = c
    <2>1. p = P[n]
      BY DEF p
    <2> QED
      BY <1>1, <1>3, <2>1, ChildNames
  <1>8. q = Named(p, c)
    BY DEF p
  <1>9. ASSUME t.array[e].check = n PROVE e \in V /\ L[e] = c
    <2>1. e # 0
      <3>1. Block(0) = 0
        BY SlotFacts
      <3> QED
        BY <3>1, <1>4, <1>6
    <2>2. n >= 0
      BY <1>2, SlotFacts
    <2>3. e \in V
      BY <2>1, <2>2, <1>1, <1>4, <1>6, <1>9 DEF Taken
    <2>4. e = Xor(O[e], L[e]) /\ O[e] = b
      BY <2>3, <1>1, <1>9 DEF Edges, Settled, b
    <2>5. L[e] \in Labels
      BY <1>2, <1>6
    <2>6. Xor(b, Xor(b, L[e])) = L[e] /\ Xor(b, Xor(b, c)) = c
      BY <2>5, <1>4, XorAssumption
    <2>7. L[e] = c
      BY <2>4, <2>6, <1>5
    <2> QED
      BY <2>3, <2>7
  <1>10. ASSUME NEW x \in V, t.array[x].check = n, L[x] = c PROVE t.array[e].check = n
    <2>1. x = Xor(O[x], L[x]) /\ O[x] = b
      BY <1>1, <1>10 DEF Edges, Settled, b
    <2> QED
      BY <2>1, <1>5, <1>10
  <1> QED
    BY <1>4, <1>6, <1>7, <1>8, <1>9, <1>10 DEF ChildIn, b

-----------------------------------------------------------------------------
(* open and _restore_block.                                                *)

\* Only the block table changes.
SameNodes(t, u) ==
    /\ u.array = t.array /\ u.nblk = t.nblk /\ u.sibling = t.sibling /\ u.child = t.child

\* The first empty slot of a block is the same in the trie and in its pool.
LEMMA SameFirst ==
    ASSUME NEW t, TrieTyped(t), NEW p, p = PoolOf(t), NEW r \in Blocks, Counted(p.array, r) # {}
    PROVE  (CHOOSE e \in SlotsOf(r) : /\ t.array[e].check < 0
                                      /\ \A f \in SlotsOf(r) : f < e => t.array[f].check >= 0)
             = CHOOSE e \in SlotsOf(r) : /\ p.array[e].check < 0
                                         /\ \A f \in SlotsOf(r) : f < e => p.array[f].check >= 0
  <1> DEFINE S == SlotsOf(r)
             In(e) == e \in S /\ (/\ t.array[e].check < 0
                                 /\ \A f \in S : f < e => t.array[f].check >= 0)
             On2(e) == e \in S /\ (/\ p.array[e].check < 0
                                  /\ \A f \in S : f < e => p.array[f].check >= 0)
  <1>1. S \in SUBSET Nat /\ S \subseteq Slots
    BY SlotFacts
  <1>2. \A x \in S : /\ t.array[x].check \in Int /\ p.array[x].check \in Int
                     /\ p.array[x].check < 0 <=> t.array[x].check < 0
    <2>1. \A x \in Slots : /\ t.array[x].check \in Int
                           /\ t.array[x].check >= 0 => p.array[x].check = 0
                           /\ t.array[x].check < 0 => p.array[x] = t.array[x]
                           /\ p.array[x].check < 0 <=> t.array[x].check < 0
      BY PoolFacts
    <2>2. ASSUME NEW x \in S PROVE p.array[x].check \in Int
      <3>1. x \in Slots /\ t.array[x].check \in Int
        BY <1>1, <2>1
      <3>2. t.array[x].check >= 0 \/ t.array[x].check < 0
        BY <3>1
      <3> QED
        BY <2>1, <3>1, <3>2
    <2> QED
      BY <2>1, <2>2, <1>1
  <1>3. PICK m \in Counted(p.array, r) : \A x \in Counted(p.array, r) : m <= x
    <2>1. Counted(p.array, r) \in SUBSET Nat
      BY <1>1 DEF Counted
    <2> QED
      BY <2>1, Least
  <1> HIDE DEF S
  <1>4. \A x \in S : t.array[x].check < 0 => m <= x
    BY <1>2, <1>3 DEF Counted, S
  <1>5. m \in S /\ m \in Nat /\ p.array[m].check < 0
    BY <1>1, <1>3 DEF Counted, S
  <1>6. In(m) /\ On2(m)
    <2>1. t.array[m].check < 0
      BY <1>2, <1>5
    <2>2. ASSUME NEW f \in S, f < m PROVE t.array[f].check >= 0 /\ p.array[f].check >= 0
      <3>1. ~ t.array[f].check < 0 /\ f \in Nat
        BY <2>2, <1>1, <1>4, <1>5
      <3> QED
        BY <3>1, <1>2
    <2> QED
      BY <2>1, <2>2, <1>5
  <1>7. \A e : In(e) => e = m
    <2> SUFFICES ASSUME NEW e, In(e) PROVE e = m
      OBVIOUS
    <2>1. e \in S /\ e \in Nat /\ m <= e
      BY <1>1, <1>4
    <2>2. m < e => t.array[m].check >= 0
      BY <1>5
    <2>3. ~ t.array[m].check >= 0
      BY <1>2, <1>5
    <2> QED
      BY <2>1, <2>2, <2>3, <1>5
  <1>8. \A e : On2(e) => e = m
    <2> SUFFICES ASSUME NEW e, On2(e) PROVE e = m
      OBVIOUS
    <2>1. e \in S /\ e \in Nat /\ m <= e
      BY <1>1, <1>2, <1>4
    <2>2. m < e => p.array[m].check >= 0
      BY <1>5
    <2>3. ~ p.array[m].check >= 0
      BY <1>2, <1>5
    <2> QED
      BY <2>1, <2>2, <2>3, <1>5
  <1> DEFINE a == CHOOSE e \in S : /\ t.array[e].check < 0
                                   /\ \A f \in S : f < e => t.array[f].check >= 0
             b == CHOOSE e \in S : /\ p.array[e].check < 0
                                   /\ \A f \in S : f < e => p.array[f].check >= 0
  <1>9. In(a)
    BY <1>6
  <1>10. On2(b)
    BY <1>6
  <1> HIDE DEF In, On2
  <1>11. a = b
    <2> HIDE DEF a, b
    <2> QED
      BY <1>7, <1>8, <1>9, <1>10
  <1> QED
    BY <1>11 DEF S

\* _restore_block, for one block more.
LEMMA RegisterSound ==
    ASSUME NEW R, NEW t, NEW r, r # t.nblk, SoundTo(R, t, r, r),
           NEW n, n = Cardinality({e \in SlotsOf(r) : t.array[e].check < 0}),
           NEW u, u = RegisterBlockOf(t, r, n), IsNinfo(t)
    PROVE  SoundTo(R, u, r + 1, r + 1) /\ SameNodes(t, u)
  <1> DEFINE p == PoolOf(t)
             q == RegisterBlockOf(p, r, n)
  <1>1. /\ TrieTyped(t) /\ PoolFields \subseteq DOMAIN t /\ Fields(p) /\ p \in PoolRec
        /\ Whole("chain", R, p, r, r) /\ ListsOK(t.lists, t.num, t.trial, t.nblk, r)
    BY PoolFacts DEF SoundTo
  <1>2. /\ p.array = PoolArray(t) /\ p.lists = t.lists /\ p.num = t.num /\ p.trial = t.trial
        /\ p.ehead = t.ehead /\ p.reject = t.reject /\ p.limit = t.limit /\ p.nblk = t.nblk
    BY <1>1, PoolFacts
  <1>3. r \in 0 .. p.nblk - 1 /\ r \in Blocks /\ t.nblk \in 1 .. MaxBlocks /\ r \in {r, p.nblk}
    <2>1. r \in 0 .. t.nblk /\ t.nblk \in 1 .. MaxBlocks
      BY <1>1 DEF ListsOK, EntriesOK
    <2> QED
      BY <2>1, <1>2, BlockAssumption DEF Blocks
  <1>4. n = Cardinality(Counted(p.array, r))
    <2>1. \A x \in Slots : p.array[x].check < 0 <=> t.array[x].check < 0
      BY <1>1, PoolFacts
    <2>2. SlotsOf(r) \subseteq Slots
      BY <1>3, SlotFacts
    <2>3. Counted(p.array, r) = {e \in SlotsOf(r) : t.array[e].check < 0}
      BY <2>1, <2>2 DEF Counted
    <2> QED
      BY <2>3
  <1>10. p = PoolOf(t)
    OBVIOUS
  <1> HIDE DEF p
  <1>5. q = RegisterBlockOf(p, r, n)
    OBVIOUS
  <1> HIDE DEF q
  <1>6. Whole("chain", R, q, r + 1, r + 1)
    <2>1. Whole("chain", R, q, IF r = r THEN r + 1 ELSE r, r + 1)
      BY <1>1, <1>3, <1>4, <1>5, RegisterWhole
    <2> QED
      BY <2>1
  <1>7. RegisteredAs(p, q, r, n, r)
    BY <1>1, <1>3, <1>4, <1>5, RegisterFrame
  <1> DEFINE hp == CHOOSE e \in SlotsOf(r) : /\ p.array[e].check < 0
                                              /\ \A f \in SlotsOf(r) : f < e => p.array[f].check >= 0
             ht == CHOOSE e \in SlotsOf(r) : /\ t.array[e].check < 0
                                              /\ \A f \in SlotsOf(r) : f < e => t.array[f].check >= 0
             N == [t.num EXCEPT ![r] = n]
             H == [t.ehead EXCEPT ![r] = IF n = 0 THEN t.ehead[r] ELSE ht]
             G == [p.ehead EXCEPT ![r] = IF n = 0 THEN p.ehead[r] ELSE hp]
             L == ListsAfterRegister(t.lists, r, n)
             M == [p.num EXCEPT ![r] = n]
             K == ListsAfterRegister(p.lists, r, n)
  <1>8. u = [t EXCEPT !.num = N, !.ehead = H, !.lists = L]
    BY DEF RegisterBlockOf
  <1>9. q = [p EXCEPT !.num = M, !.ehead = G, !.lists = K]
    BY <1>5 DEF RegisterBlockOf
  <1>11. n # 0 => hp = ht
    <2>1. ASSUME n # 0 PROVE hp = ht
      <3>1. Counted(p.array, r) # {}
        BY <2>1, <1>4, FS_EmptySet
      <3> QED
        BY <3>1, <1>1, <1>3, <1>10, SameFirst
    <2> QED
      BY <2>1
  <1> HIDE DEF hp, ht
  <1>12. G = H /\ M = N
    BY <1>2, <1>11
  <1> HIDE DEF N, H, G, L, M, K
  <1>13. /\ DOMAIN u = DOMAIN t /\ u.num = N /\ u.ehead = H /\ u.lists = L /\ u.array = t.array
         /\ u.trial = t.trial /\ u.reject = t.reject /\ u.limit = t.limit /\ u.nblk = t.nblk
         /\ u.sibling = t.sibling /\ u.child = t.child
    BY <1>1, <1>8 DEF PoolFields, IsNinfo, TrieTyped
  <1>14. q.num = M /\ q.ehead = G /\ q.array = p.array /\ q.nblk = p.nblk
    BY <1>1, <1>9 DEF PoolRec
  <1>15. TrieTyped(u) /\ PoolArray(u) = PoolArray(t)
    BY <1>1, <1>13 DEF TrieTyped, IsNinfo, PoolArray
  <1>16. ListsOK(u.lists, u.num, u.trial, u.nblk, r + 1)
    <2>1. n \in 0 .. B /\ (r = 0 => n >= 1)
      BY <1>7 DEF RegisteredAs
    <2>2. ListsOK(L, N, t.trial, t.nblk, r + 1)
      BY <2>1, <1>1, RegisterLists DEF L, N
    <2> QED
      BY <2>2, <1>13
  <1>17. SoundTo(R, u, r + 1, r + 1)
    <2>1. PoolArray(u) \in [Slots -> PoolNodes] /\ t.reject \in [Blocks -> 0 .. B + 1]
          /\ t.limit \in [0 .. B -> 0 .. B + 1]
      BY <1>1, <1>2, <1>15 DEF Fields
    <2>2. q.ehead \in [Blocks -> Slots]
      BY <1>7 DEF RegisteredAs
    <2>3. /\ q.array = PoolArray(u) /\ q.num = u.num /\ q.ehead = u.ehead /\ q.nblk = u.nblk
          /\ u.ehead \in [Blocks -> Slots] /\ u.reject \in [Blocks -> 0 .. B + 1]
          /\ u.limit \in [0 .. B -> 0 .. B + 1] /\ PoolFields \subseteq DOMAIN u
      BY <2>1, <2>2, <1>1, <1>2, <1>12, <1>13, <1>14, <1>15
    <2> QED
      BY ONLY <2>1, <2>3, <1>6, <1>15, <1>16, SoundFrom
  <1> QED
    BY <1>13, <1>17 DEF SameNodes

\* The block table, forgotten.
Forgotten(t, u) ==
    /\ TrieTyped(u) /\ PoolFields \subseteq DOMAIN u /\ u.array = t.array /\ u.nblk = t.nblk
    /\ u.lists = NoLists /\ u.trial = [b \in Blocks |-> 0] /\ u.ehead = [b \in Blocks |-> 0]
    /\ u.reject = [b \in Blocks |-> B + 1] /\ u.limit = t.limit
    /\ u.num \in {t.num, [b \in Blocks |-> B]}

\* What is left can be registered, from block 0 on.
LEMMA ForgottenSound ==
    ASSUME NEW R, NEW t, NEW c, NEW r, SoundTo(R, t, c, r), NEW u, Forgotten(t, u)
    PROVE  SoundTo(R, u, 0, 0)
  <1> USE DEF Forgotten
  <1> DEFINE p == PoolOf(t)
             q == PoolOf(u)
  <1>1. /\ TrieTyped(t) /\ PoolFields \subseteq DOMAIN t /\ Fields(p) /\ p \in PoolRec
        /\ Whole("chain", R, p, c, r) /\ ListsOK(t.lists, t.num, t.trial, t.nblk, r)
    BY PoolFacts DEF SoundTo
  <1>2. /\ p.array = PoolArray(t) /\ p.num = t.num /\ p.nblk = t.nblk
        /\ p.limit = t.limit
    BY <1>1, PoolFacts
  <1>3. /\ q.array = PoolArray(u) /\ q.num = u.num /\ q.ehead = u.ehead /\ q.nblk = u.nblk
    BY <1>1, PoolFacts
  <1>4. q.array = p.array /\ q.nblk = p.nblk
    <2>1. PoolArray(u) = PoolArray(t)
      BY DEF PoolArray
    <2> QED
      BY <2>1, <1>2, <1>3
  <1> HIDE DEF p, q
  <1>5. Whole("chain", R, q, 0, 0)
    <2>1. q.ehead[0] = 0
      BY <1>3, SlotFacts
    <2>2. RootChain(q)
      BY <2>1, <1>1, <1>4 DEF Whole, RootWhole, RootChain
    <2>3. 0 .. 0 - 1 = {} /\ 1 .. 0 - 1 = {}
      OBVIOUS
    <2> QED
      BY <2>2, <2>3, <1>1, <1>4 DEF Whole, RootWhole, RingAt
  <1>6. ListsOK(u.lists, u.num, u.trial, u.nblk, 0)
    <2>1. /\ t.num \in [Blocks -> 0 .. B] /\ t.nblk \in 1 .. MaxBlocks /\ t.num[0] >= 1
          /\ \A b \in Blocks : b >= t.nblk => t.num[b] = B
      BY <1>1 DEF ListsOK, EntriesOK
    <2> DEFINE n == [b \in Blocks |-> B]
    <2>2. /\ n \in [Blocks -> 0 .. B] /\ n[0] >= 1
          /\ \A b \in Blocks : b >= t.nblk => n[b] = B
      BY SlotFacts, BlockAssumption
    <2> HIDE DEF n
    <2>3. u.num \in [Blocks -> 0 .. B] /\ u.num[0] >= 1 /\ \A b \in Blocks : b >= t.nblk => u.num[b] = B
      BY <2>1, <2>2 DEF n
    <2> QED
      BY <2>1, <2>3, NothingListed
  <1>7. /\ u.ehead \in [Blocks -> Slots] /\ u.reject \in [Blocks -> 0 .. B + 1]
        /\ u.limit \in [0 .. B -> 0 .. B + 1] /\ PoolArray(u) \in [Slots -> PoolNodes]
    <2>1. 0 \in Slots /\ B + 1 \in 0 .. B + 1
      BY SlotRange, BlockAssumption
    <2> QED
      BY <2>1, <1>1, <1>2, <1>3, <1>4 DEF Fields
  <1> QED
    BY <1>3, <1>5, <1>6, <1>7, SoundFrom

\* The loop of _restore_block.
LEMMA RestoreBlockLoop ==
    ASSUME NEW t, t.nblk \in Nat
    PROVE  \E g : /\ g[-1] = ForgetBlocks(t)
                  /\ \A b \in 0 .. t.nblk - 1 :
                       g[b] = RegisterBlockOf(g[b - 1], b, Cardinality({e \in SlotsOf(b) : t.array[e].check < 0}))
                  /\ _restore_block(t) = g[t.nblk - 1]
  <1> DEFINE N == t.nblk
             s0 == ForgetBlocks(t)
             Next1(s, i) == RegisterBlockOf(s, i, Cardinality({e \in SlotsOf(i) : t.array[e].check < 0}))
             Step(g, i) == IF i = -1 THEN s0 ELSE Next1(g[i - 1], i)
             Good(g, m) == g = [i \in -1 .. m - 1 |-> Step(g, i)]
             Bad == {m \in Nat : ~ \E g : Good(g, m)}
  <1>1. Bad = {}
    <2> SUFFICES ASSUME Bad # {} PROVE FALSE
      OBVIOUS
    <2> HIDE DEF Next1, s0
    <2>1. Bad \in SUBSET Nat
      OBVIOUS
    <2> HIDE DEF Bad
    <2>2. PICK m \in Bad : \A x \in Bad : m <= x
      BY <2>1, Least
    <2>3. m \in Nat /\ ~ \E g : Good(g, m)
      BY DEF Bad
    <2>4. CASE m = 0
      <3> DEFINE g == [i \in -1 .. 0 - 1 |-> s0]
      <3>1. Good(g, 0)
        BY DEF g
      <3> QED
        BY <3>1, <2>3, <2>4
    <2>5. CASE m # 0
      <3>1. m - 1 \in Nat /\ m - 1 \notin Bad
        BY <2>2, <2>3, <2>5
      <3>2. PICK h : Good(h, m - 1)
        BY <3>1 DEF Bad
      <3> DEFINE g == [i \in -1 .. m - 1 |-> Step(h, i)]
      <3>3. ASSUME NEW i \in -1 .. m - 1 PROVE Step(g, i) = Step(h, i)
        <4>1. CASE i = -1
          BY <4>1
        <4>2. CASE i # -1
          <5>1. i - 1 \in -1 .. m - 1 /\ i - 1 \in -1 .. (m - 1) - 1
            BY <4>2, <2>3
          <5>2. g[i - 1] = Step(h, i - 1)
            BY <5>1
          <5>3. h[i - 1] = Step(h, i - 1)
            <6> HIDE DEF Step
            <6> QED
              BY <5>1, <3>2
          <5> HIDE DEF g
          <5> QED
            BY <4>2, <5>2, <5>3
        <4> QED
          BY <4>1, <4>2
      <3>4. Good(g, m)
        <4> HIDE DEF Step
        <4> QED
          BY <3>3
      <3> QED
        BY <3>4, <2>3
    <2> QED
      BY <2>4, <2>5
  <1>2. \E g : Good(g, N)
    BY <1>1
  <1>3. PICK g : Good(g, N) /\ _restore_block(t) = g[N - 1]
    BY <1>2 DEF _restore_block
  <1> HIDE DEF Next1, s0
  <1>4. g[-1] = s0 /\ \A i \in 0 .. N - 1 : g[i] = Next1(g[i - 1], i)
    <2>1. g = [i \in -1 .. N - 1 |-> Step(g, i)]
      BY <1>3
    <2>2. \A i \in -1 .. N - 1 : g[i] = Step(g, i)
      <3> HIDE DEF Step
      <3> QED
        BY <2>1
    <2> QED
      BY <2>2
  <1> QED
    BY <1>3, <1>4 DEF Next1, s0

\* _restore_block makes the allocator whole, and leaves the nodes alone.
THEOREM RestoreBlockSound ==
    ASSUME NEW R, NEW t, NEW c, NEW r, SoundTo(R, t, c, r), NEW u, u = _restore_block(t)
    PROVE  Sound(R, u) /\ SameNodes(t, u)
  <1> DEFINE N == t.nblk
             x == ForgetBlocks(t)
  <1>1. TrieTyped(t) /\ PoolFields \subseteq DOMAIN t /\ N \in Nat /\ N >= 1
    BY DEF SoundTo, TrieTyped
  <1>2. PICK g : /\ g[-1] = ForgetBlocks(t)
                 /\ \A b \in 0 .. N - 1 :
                      g[b] = RegisterBlockOf(g[b - 1], b, Cardinality({e \in SlotsOf(b) : t.array[e].check < 0}))
                 /\ u = g[N - 1]
    BY <1>1, RestoreBlockLoop
  <1>3. SoundTo(R, x, 0, 0) /\ SameNodes(t, x)
    <2>1. /\ DOMAIN x = DOMAIN t /\ x.array = t.array /\ x.nblk = t.nblk /\ x.limit = t.limit
          /\ x.num = t.num /\ x.lists = NoLists /\ x.trial = [b \in Blocks |-> 0]
          /\ x.ehead = [b \in Blocks |-> 0] /\ x.reject = [b \in Blocks |-> B + 1]
          /\ x.sibling = t.sibling /\ x.child = t.child
      BY <1>1 DEF ForgetBlocks, PoolFields, TrieTyped, IsNinfo
    <2> HIDE DEF x
    <2>2. TrieTyped(x)
      BY <2>1, <1>1 DEF TrieTyped, IsNinfo
    <2>3. Forgotten(t, x)
      BY <2>1, <2>2, <1>1 DEF Forgotten
    <2> QED
      BY <2>1, <2>3, ForgottenSound DEF SameNodes
  <1>4. g[-1] = x
    BY <1>2
  <1> HIDE DEF x
  <1> DEFINE Fine(b) == SoundTo(R, g[b - 1], b, b) /\ SameNodes(t, g[b - 1])
             Out == {b \in 0 .. N : ~ Fine(b)}
  <1>5. Fine(0)
    BY <1>3, <1>4
  <1>6. Out = {}
    <2> SUFFICES ASSUME Out # {} PROVE FALSE
      OBVIOUS
    <2> HIDE DEF Fine
    <2>1. Out \in SUBSET Nat
      BY <1>1
    <2> HIDE DEF Out
    <2>2. PICK j \in Out : \A y \in Out : j <= y
      BY <2>1, Least
    <2>3. j \in 0 .. N /\ ~ Fine(j)
      BY DEF Out
    <2>4. j # 0
      BY <2>3, <1>5
    <2> DEFINE i == j - 1
    <2>5. i \in 0 .. N - 1 /\ i \in 0 .. N /\ i < j /\ i + 1 = j /\ i + 1 - 1 = i
      BY <2>3, <2>4, <1>1
    <2> HIDE DEF i
    <2>6. i \notin Out /\ Fine(i)
      <3>1. i \notin Out
        BY <2>2, <2>3, <2>5
      <3> QED
        BY <3>1, <2>5 DEF Out
    <2> DEFINE a == g[i - 1]
               z == g[i]
               n == Cardinality({e \in SlotsOf(i) : t.array[e].check < 0})
    <2>7. z = RegisterBlockOf(a, i, n) /\ SoundTo(R, a, i, i) /\ SameNodes(t, a)
      BY <2>5, <2>6, <1>2 DEF Fine
    <2> HIDE DEF a, z
    <2>8. a.array = t.array /\ a.nblk = t.nblk /\ IsNinfo(a)
      BY <2>7 DEF SameNodes, SoundTo, TrieTyped
    <2>9. i # a.nblk /\ n = Cardinality({e \in SlotsOf(i) : a.array[e].check < 0})
      BY <2>5, <2>8, <1>1
    <2> HIDE DEF n
    <2>10. SoundTo(R, z, i + 1, i + 1) /\ SameNodes(a, z)
      BY <2>7, <2>8, <2>9, RegisterSound
    <2>11. SoundTo(R, g[j - 1], j, j) /\ SameNodes(t, g[j - 1])
      <3>1. g[j - 1] = z
        BY <2>5 DEF z, i
      <3> QED
        BY <3>1, <2>5, <2>7, <2>10 DEF SameNodes
    <2> QED
      BY <2>3, <2>11 DEF Fine
  <1>7. Fine(N)
    BY <1>1, <1>6
  <1>8. SoundTo(R, u, N, N) /\ SameNodes(t, u) /\ u.nblk = N
    BY <1>2, <1>7 DEF SameNodes
  <1> QED
    BY <1>8 DEF Sound

-----------------------------------------------------------------------------
(* _restore_ninfo.                                                         *)

\* The labels of the children of n that the loop has pushed up to slot e; that
\* of a terminal, and the root's own, are there before.
Told(t, V, L, n, e) ==
    {l \in Labels : \/ n = 0 /\ l = 0
                    \/ \E x \in V : t.array[x].check = n /\ L[x] = l /\ (l = 0 \/ x <= e)}

\* u is t with the chains up to slot e.
RestoredTo(t, u, V, L, e) ==
    /\ DOMAIN u = DOMAIN t
    /\ \A field \in DOMAIN t \ {"sibling", "child"} : u[field] = t[field]
    /\ IsNinfo(u)
    /\ \A n \in V \cup {0} : InnerNode(t, L, n) => ChainOf(u, n, t.array[n].base, Told(t, V, L, n, e))
    /\ \A n \in Slots : ~ (n \in V \cup {0} /\ InnerNode(t, L, n)) => u.child[n] = 0

\* A round of the loop.
NinfoRound(t, u, e) ==
    LET from == t.array[e].check
        base == t.array[from].base
    IN  IF from < 0 \/ base = e THEN u
        ELSE PushSibling(u, from, base, Xor(base, e), ChildMet(u, from, base))

\* Where the labels of a node lead: to its children, or from the root to itself.
LEMMA ToldPlaces ==
    ASSUME NEW t, NEW V, NEW P, NEW L, NEW O, Shape(t, V, P, L, O),
           NEW n \in V \cup {0}, InnerNode(t, L, n), NEW e, NEW c \in Told(t, V, L, n, e),
           NEW x, x = Xor(t.array[n].base, c)
    PROVE  /\ x \in Slots /\ c \in Labels /\ t.array[n].base \in Slots
           /\ \/ n = 0 /\ x = 0
              \/ x \in V /\ t.array[x].check = n /\ L[x] = c
  <1>1. /\ GhostTyped(V, P, L, O) /\ Edges(t, V, P, L, O) /\ Settled(t, V, O, {}) /\ Bases(t, V, L)
    BY DEF Shape
  <1>2. t.array[n].base \in Slots /\ c \in Labels /\ (n = 0 => t.array[n].base = 0)
    <2>1. 0 \in Slots
      BY SlotRange
    <2> QED
      BY <2>1, <1>1 DEF Bases, Told
  <1>3. x \in Slots
    BY <1>2, XorAssumption
  <1>4. CASE n = 0 /\ c = 0
    <2>1. x = 0
      BY <1>2, <1>4, XorAssumption
    <2> QED
      BY <2>1, <1>2, <1>3, <1>4
  <1>5. CASE \E y \in V : t.array[y].check = n /\ L[y] = c
    <2>1. PICK y \in V : t.array[y].check = n /\ L[y] = c
      BY <1>5
    <2>2. y = Xor(O[y], L[y]) /\ O[y] = t.array[n].base
      BY <2>1, <1>1 DEF Edges, Settled
    <2>3. y = x
      BY <2>1, <2>2
    <2> QED
      BY <2>1, <2>3, <1>2, <1>3
  <1> QED
    BY <1>4, <1>5 DEF Told

\* One slot more.
LEMMA NinfoStep ==
    ASSUME NEW t, NEW V, NEW P, NEW L, NEW O, Shape(t, V, P, L, O), NEW e \in 0 .. t.nblk * B - 1,
           "array" \in DOMAIN t,
           NEW u, RestoredTo(t, u, V, L, e - 1), NEW v, v = NinfoRound(t, u, e)
    PROVE  RestoredTo(t, v, V, L, e)
  <1> DEFINE a == t.array[e].check
             b == t.array[a].base
             l == Xor(b, e)
             some == a = 0 \/ u.child[a] # 0 \/ t.array[b].check = a
             S == Told(t, V, L, a, e - 1)
             T == S \cup {l}
  <1>1. /\ GhostTyped(V, P, L, O) /\ Edges(t, V, P, L, O) /\ Settled(t, V, O, {}) /\ Bases(t, V, L)
        /\ V = Taken(t) /\ t.nblk \in 1 .. MaxBlocks /\ t.array \in [Slots -> [base : Int, check : Int]]
        /\ t.array[0].check < 0
    BY DEF Shape
  <1>2. /\ V \in SUBSET (Slots \ {0}) /\ L \in [Slots -> Labels] /\ O \in [Slots -> Slots] /\ 0 \in Slots
        /\ Slots \subseteq Nat /\ 0 \in Labels
    BY <1>1, SlotRange, SlotFacts, BlockAssumption DEF GhostTyped, Labels
  <1>3. e \in Slots /\ Block(e) < t.nblk /\ e \in Nat /\ a \in Int
    <2>1. 0 .. t.nblk * B - 1 = {x \in Slots : Block(x) < t.nblk}
      BY <1>1, SlotFacts
    <2>2. e \in Slots /\ Block(e) < t.nblk
      BY <2>1
    <2> QED
      BY <2>2, <1>1, <1>2
  <1>4. a >= 0 <=> e \in V
    BY <1>1, <1>3 DEF Taken
  <1>5. v = IF a < 0 \/ b = e THEN u ELSE PushSibling(u, a, b, l, some)
    <2>1. u.array = t.array
      BY DEF RestoredTo
    <2> QED
      BY <2>1 DEF NinfoRound, ChildMet
  <1>6. ASSUME NEW n, e \notin V \/ a # n \/ L[e] = 0
        PROVE  Told(t, V, L, n, e) = Told(t, V, L, n, e - 1)
    <2>1. ASSUME NEW x \in V, NEW k, t.array[x].check = n, L[x] = k, k # 0
          PROVE  x <= e <=> x <= e - 1
      <3>1. x \in Nat /\ x # e
        BY <2>1, <1>2, <1>6
      <3> QED
        BY <3>1, <1>3
    <2> QED
      BY <2>1 DEF Told
  <1>7. e \in V => /\ a \in V \cup {0} /\ InnerNode(t, L, a) /\ e = Xor(b, L[e]) /\ L[e] \in Labels
                   /\ b \in Slots /\ l = L[e]
    <2>1. ASSUME e \in V PROVE /\ a \in V \cup {0} /\ InnerNode(t, L, a) /\ e = Xor(O[e], L[e])
                               /\ L[e] \in Labels /\ O[e] = b /\ O[e] \in Slots
      BY <2>1, <1>1, <1>2 DEF Edges, Settled
    <2>2. ASSUME e \in V PROVE l = L[e]
      <3>1. b \in Slots /\ L[e] \in Labels /\ e = Xor(b, L[e])
        BY <2>1, <2>2
      <3> HIDE DEF b
      <3>2. Xor(b, Xor(b, L[e])) = L[e]
        BY <3>1, XorAssumption
      <3> QED
        BY <3>1, <3>2
    <2> QED
      BY <2>1, <2>2
  <1> HIDE DEF l, b, a, some
  <1>8. CASE a < 0
    <2>1. v = u /\ e \notin V
      BY <1>3, <1>4, <1>5, <1>8
    <2>2. \A n : Told(t, V, L, n, e) = Told(t, V, L, n, e - 1)
      BY <2>1, <1>6
    <2> QED
      BY <2>1, <2>2 DEF RestoredTo
  <1>9. CASE a >= 0 /\ b = e
    <2>1. v = u /\ e \in V
      BY <1>4, <1>5, <1>9
    <2>2. L[e] = 0
      <3>1. Xor(b, L[e]) = Xor(b, 0) /\ b \in Slots /\ L[e] \in Labels
        BY <2>1, <1>2, <1>7, <1>9, XorAssumption
      <3> QED
        BY <3>1, <1>2, XorApart
    <2>3. \A n : Told(t, V, L, n, e) = Told(t, V, L, n, e - 1)
      BY <2>2, <1>6
    <2> QED
      BY <2>1, <2>3 DEF RestoredTo
  <1>10. CASE a >= 0 /\ b # e
    <2>1. /\ e \in V /\ v = PushSibling(u, a, b, l, some) /\ a \in V \cup {0} /\ InnerNode(t, L, a)
          /\ e = Xor(b, l) /\ l \in Labels /\ b \in Slots /\ l = L[e] /\ a \in Slots
      BY <1>2, <1>3, <1>4, <1>5, <1>7, <1>10
    <2>2. l # 0
      BY <2>1, <1>10, XorAssumption
    <2>3. l \notin S
      <3> SUFFICES ASSUME l \in S PROVE FALSE
        OBVIOUS
      <3>1. PICK x \in V : t.array[x].check = a /\ L[x] = l /\ x <= e - 1
        BY <2>2 DEF Told
      <3>2. x = Xor(O[x], L[x]) /\ O[x] = b
        BY <3>1, <1>1 DEF Edges, Settled, b
      <3>3. x = e
        BY <3>1, <3>2, <2>1
      <3> QED
        BY <3>1, <3>3, <1>3
    <2>4. Told(t, V, L, a, e) = T
      <3>1. ASSUME NEW k \in Labels, NEW x \in V, t.array[x].check = a, L[x] = k, k = 0 \/ x <= e
            PROVE  k \in T
        <4>1. CASE x = e
          BY <4>1, <3>1, <2>1
        <4>2. CASE x # e
          <5>1. k = 0 \/ x <= e - 1
            BY <4>2, <3>1, <1>2, <1>3
          <5> QED
            BY <5>1, <3>1 DEF Told
        <4> QED
          BY <4>1, <4>2
      <3>2. ASSUME NEW k \in S PROVE k \in Told(t, V, L, a, e)
        <4>1. \A x \in V : x <= e - 1 => x <= e
          BY <1>2, <1>3
        <4> QED
          BY <4>1 DEF Told
      <3>3. l \in Told(t, V, L, a, e)
        <4>1. t.array[e].check = a /\ e <= e
          BY <1>3 DEF a
        <4> QED
          BY <4>1, <2>1 DEF Told
      <3>4. \A k \in Told(t, V, L, a, e) : k \in T
        BY <3>1 DEF Told
      <3> QED
        BY <3>2, <3>3, <3>4
    <2>5. ChainOf(u, a, b, S) /\ IsNinfo(u) /\ S \in SUBSET Labels
      <3>1. t.array[a].base = b
        BY DEF b
      <3> QED
        BY <3>1, <2>1 DEF RestoredTo, Told
    <2>6. some \in BOOLEAN /\ (some <=> S # {})
      <3>1. u.child[a] = FirstOf(S)
        BY <2>5 DEF ChainOf
      <3>2. S = {} => u.child[a] = 0
        BY <3>1 DEF FirstOf
      <3>3. S # {} /\ 0 \notin S => u.child[a] # 0
        BY <3>1, <2>5, FirstIn
      <3>4. 0 \in S <=> a = 0 \/ \E x \in V : t.array[x].check = a /\ L[x] = 0
        BY <1>2 DEF Told
      <3>5. ASSUME a # 0 PROVE (\E x \in V : t.array[x].check = a /\ L[x] = 0) <=> t.array[b].check = a
        <4>1. ASSUME NEW x \in V, t.array[x].check = a, L[x] = 0 PROVE t.array[b].check = a
          <5>1. x = Xor(O[x], L[x]) /\ O[x] = b
            BY <4>1, <1>1 DEF Edges, Settled, b
          <5>2. x = b
            BY <5>1, <4>1, <2>1, XorAssumption
          <5> QED
            BY <5>2, <4>1
        <4>2. ASSUME t.array[b].check = a PROVE b \in V /\ L[b] = 0
          <5>1. a \in V
            BY <2>1, <3>5
          <5>2. b # 0 /\ Block(b) < t.nblk
            <6>1. Block(b) # 0 /\ Block(b) < t.nblk
              BY <5>1, <2>1, <1>1 DEF Bases, b
            <6>2. Block(0) = 0
              BY SlotFacts
            <6> QED
              BY <6>1, <6>2
          <5>3. b \in V
            BY <5>2, <4>2, <2>1, <1>1, <1>10 DEF Taken
          <5>4. b = Xor(O[b], L[b]) /\ O[b] = b /\ L[b] \in Labels
            <6>1. t.array[t.array[b].check].base = b
              BY <4>2 DEF b
            <6> QED
              BY <6>1, <5>3, <1>1, <1>2 DEF Edges, Settled
          <5>5. Xor(b, L[b]) = Xor(b, 0)
            BY <5>4, <2>1, XorAssumption
          <5> QED
            BY <5>3, <5>4, <5>5, <2>1, <1>2, XorApart
        <4> QED
          BY <4>1, <4>2
      <3> QED
        BY <3>2, <3>3, <3>4, <3>5 DEF some
    <2>7. ChainOf(v, a, b, T) /\ OnlyChain(u, v, a, b, T)
      <3> HIDE DEF S
      <3>1. l \in Labels \ S
        BY <2>1, <2>3
      <3> QED
        BY <3>1, <2>1, <2>5, <2>6, PushSiblingOrder
    <2> HIDE DEF T, S
    <2>8. DOMAIN v = DOMAIN t /\ IsNinfo(v) /\ \A field \in DOMAIN t \ {"sibling", "child"} : v[field] = t[field]
      BY <2>7 DEF OnlyChain, RestoredTo
    <2>9. ASSUME NEW n \in V \cup {0}, InnerNode(t, L, n)
          PROVE  ChainOf(v, n, t.array[n].base, Told(t, V, L, n, e))
      <3>1. CASE n = a
        <4>1. t.array[n].base = b
          BY <3>1 DEF b
        <4> QED
          BY <4>1, <3>1, <2>4, <2>7
      <3>2. CASE n # a
        <4> DEFINE X == Told(t, V, L, n, e)
                   bn == t.array[n].base
        <4>1. X = Told(t, V, L, n, e - 1)
          BY <3>2, <1>6
        <4>2. ChainOf(u, n, bn, X)
          BY <4>1, <2>9 DEF RestoredTo
        <4>3. v.child[n] = u.child[n]
          BY <3>2, <2>7, <2>9, <1>2 DEF OnlyChain
        <4>4. ASSUME NEW c \in X PROVE v.sibling[Xor(bn, c)] = u.sibling[Xor(bn, c)]
          <5> DEFINE x == Xor(bn, c)
          <5>e. c \in Told(t, V, L, n, e) /\ x = Xor(t.array[n].base, c)
            BY <4>4
          <5> HIDE DEF x
          <5>1. x \in Slots /\ ((n = 0 /\ x = 0) \/ (x \in V /\ t.array[x].check = n))
            BY <5>e, <2>9, ToldPlaces
          <5>2. ASSUME NEW d \in T, x = Xor(b, d) PROVE FALSE
            <6>1. d \in Told(t, V, L, a, e) /\ x = Xor(t.array[a].base, d)
              BY <2>4, <5>2 DEF b
            <6>2. (a = 0 /\ x = 0) \/ (x \in V /\ t.array[x].check = a)
              BY <6>1, <2>1, ToldPlaces
            <6> QED
              BY <6>2, <5>1, <3>2, <1>2
          <5>3. v.sibling[x] = u.sibling[x]
            BY <5>1, <5>2, <2>7 DEF OnlyChain
          <5> QED
            BY <5>3 DEF x
        <4> HIDE DEF X, bn
        <4>5. ChainOf(v, n, bn, X)
          BY <4>2, <4>3, <4>4 DEF ChainOf
        <4> QED
          BY <4>5 DEF X, bn
      <3> QED
        BY <3>1, <3>2
    <2>10. ASSUME NEW n \in Slots, ~ (n \in V \cup {0} /\ InnerNode(t, L, n)) PROVE v.child[n] = 0
      <3>1. n # a
        BY <2>1, <2>10
      <3> QED
        BY <3>1, <2>7, <2>10 DEF OnlyChain, RestoredTo
    <2> QED
      BY <2>8, <2>9, <2>10 DEF RestoredTo
  <1> QED
    BY <1>3, <1>8, <1>9, <1>10

\* The loop.
LEMMA NinfoLoop ==
    ASSUME NEW t, t.nblk * B \in Nat
    PROVE  \E g : /\ g[-1] = [t EXCEPT !.sibling = [x \in Slots |-> 0], !.child = [x \in Slots |-> 0]]
                  /\ \A e \in 0 .. t.nblk * B - 1 : g[e] = NinfoRound(t, g[e - 1], e)
                  /\ _restore_ninfo(t) = g[t.nblk * B - 1]
  <1> DEFINE N == t.nblk * B
             s0 == [t EXCEPT !.sibling = [x \in Slots |-> 0], !.child = [x \in Slots |-> 0]]
             Next1(s, i) == NinfoRound(t, s, i)
             Step(g, i) == IF i = -1 THEN s0 ELSE Next1(g[i - 1], i)
             Good(g, m) == g = [i \in -1 .. m - 1 |-> Step(g, i)]
             Bad == {m \in Nat : ~ \E g : Good(g, m)}
  <1>1. Bad = {}
    <2> SUFFICES ASSUME Bad # {} PROVE FALSE
      OBVIOUS
    <2> HIDE DEF Next1, s0
    <2>1. Bad \in SUBSET Nat
      OBVIOUS
    <2> HIDE DEF Bad
    <2>2. PICK m \in Bad : \A x \in Bad : m <= x
      BY <2>1, Least
    <2>3. m \in Nat /\ ~ \E g : Good(g, m)
      BY DEF Bad
    <2>4. CASE m = 0
      <3> DEFINE g == [i \in -1 .. 0 - 1 |-> s0]
      <3>1. Good(g, 0)
        BY DEF g
      <3> QED
        BY <3>1, <2>3, <2>4
    <2>5. CASE m # 0
      <3>1. m - 1 \in Nat /\ m - 1 \notin Bad
        BY <2>2, <2>3, <2>5
      <3>2. PICK h : Good(h, m - 1)
        BY <3>1 DEF Bad
      <3> DEFINE g == [i \in -1 .. m - 1 |-> Step(h, i)]
      <3>3. ASSUME NEW i \in -1 .. m - 1 PROVE Step(g, i) = Step(h, i)
        <4>1. CASE i = -1
          BY <4>1
        <4>2. CASE i # -1
          <5>1. i - 1 \in -1 .. m - 1 /\ i - 1 \in -1 .. (m - 1) - 1
            BY <4>2, <2>3
          <5>2. g[i - 1] = Step(h, i - 1)
            BY <5>1
          <5>3. h[i - 1] = Step(h, i - 1)
            <6> HIDE DEF Step
            <6> QED
              BY <5>1, <3>2
          <5> HIDE DEF g
          <5> QED
            BY <4>2, <5>2, <5>3
        <4> QED
          BY <4>1, <4>2
      <3>4. Good(g, m)
        <4> HIDE DEF Step
        <4> QED
          BY <3>3
      <3> QED
        BY <3>4, <2>3
    <2> QED
      BY <2>4, <2>5
  <1>2. \E g : Good(g, N)
    BY <1>1
  <1>3. PICK g : Good(g, N) /\ _restore_ninfo(t) = g[N - 1]
    BY <1>2 DEF _restore_ninfo, NinfoRound
  <1> HIDE DEF Next1, s0
  <1>4. g[-1] = s0 /\ \A i \in 0 .. N - 1 : g[i] = Next1(g[i - 1], i)
    <2>1. g = [i \in -1 .. N - 1 |-> Step(g, i)]
      BY <1>3
    <2>2. \A i \in -1 .. N - 1 : g[i] = Step(g, i)
      <3> HIDE DEF Step
      <3> QED
        BY <2>1
    <2> QED
      BY <2>2
  <1> QED
    BY <1>3, <1>4 DEF Next1, s0

\* _restore_ninfo: every chain is as the array has it.
THEOREM RestoreNinfoTree ==
    ASSUME NEW t, TrieTyped(t), NEW V, NEW P, NEW L, NEW O, Shape(t, V, P, L, O),
           \A n \in V : InnerNode(t, L, n) => \E e \in V : t.array[e].check = n,
           NEW u, u = _restore_ninfo(t)
    PROVE  /\ IsTree(u, V, P, L, O, {}, {}) /\ DOMAIN u = DOMAIN t
           /\ \A field \in DOMAIN t \ {"sibling", "child"} : u[field] = t[field]
  <1> DEFINE N == t.nblk * B
             s0 == [t EXCEPT !.sibling = [x \in Slots |-> 0], !.child = [x \in Slots |-> 0]]
  <1>1. /\ GhostTyped(V, P, L, O) /\ Edges(t, V, P, L, O) /\ Settled(t, V, O, {}) /\ Bases(t, V, L)
        /\ V = Taken(t) /\ t.nblk \in 1 .. MaxBlocks /\ Shape(t, V, P, L, O)
    BY DEF Shape
  <1>2. /\ V \in SUBSET (Slots \ {0}) /\ L \in [Slots -> Labels] /\ 0 \in Slots
        /\ Slots \subseteq Nat /\ 0 \in Labels
    BY <1>1, SlotRange, SlotFacts, BlockAssumption DEF GhostTyped, Labels
  <1>3. N \in Nat
    BY <1>1, BlockAssumption
  <1>4. PICK g : /\ g[-1] = s0
                 /\ \A e \in 0 .. N - 1 : g[e] = NinfoRound(t, g[e - 1], e)
                 /\ u = g[N - 1]
    BY <1>3, NinfoLoop
  <1> DEFINE Fine(e) == RestoredTo(t, g[e - 1], V, L, e - 1)
             Out == {e \in 0 .. N : ~ Fine(e)}
  <1>5. Fine(0)
    <2>1. /\ DOMAIN s0 = DOMAIN t /\ s0.sibling = [x \in Slots |-> 0] /\ s0.child = [x \in Slots |-> 0]
          /\ \A field \in DOMAIN t \ {"sibling", "child"} : s0[field] = t[field]
      BY DEF TrieTyped, IsNinfo
    <2> HIDE DEF s0
    <2>2. IsNinfo(s0)
      BY <2>1, <1>2 DEF TrieTyped, IsNinfo
    <2>3. ASSUME NEW n \in V \cup {0}, InnerNode(t, L, n)
          PROVE  ChainOf(s0, n, t.array[n].base, Told(t, V, L, n, -1))
      <3> DEFINE S == Told(t, V, L, n, -1)
      <3>1. \A c \in S : c = 0
        <4>1. ASSUME NEW x \in V PROVE ~ (x <= -1)
          <5>1. x \in Nat
            BY <1>2
          <5> QED
            BY <5>1
        <4> QED
          BY <4>1 DEF Told
      <3>2. S \in SUBSET Labels
        BY DEF Told
      <3> HIDE DEF S
      <3>3. FirstOf(S) = 0
        <4>1. CASE S = {}
          BY <4>1 DEF FirstOf
        <4>2. CASE S # {}
          BY <4>2, <3>1, <3>2, FirstIn
        <4> QED
          BY <4>1, <4>2
      <3>4. ASSUME NEW c \in S PROVE s0.sibling[Xor(t.array[n].base, c)] = FirstOf(Above(S, c))
        <4>1. Above(S, c) = {}
          BY <3>1 DEF Above
        <4>2. t.array[n].base \in Slots /\ c \in Labels
          BY <3>2, <1>1, <1>2, <2>3 DEF Bases
        <4>3. Xor(t.array[n].base, c) \in Slots
          BY <4>2, XorAssumption
        <4> QED
          BY <4>1, <4>3, <2>1 DEF FirstOf
      <3>5. s0.child[n] = 0
        BY <2>1, <1>2
      <3>6. ChainOf(s0, n, t.array[n].base, S)
        BY <3>3, <3>4, <3>5 DEF ChainOf
      <3> QED
        BY <3>6 DEF S
    <2>4. RestoredTo(t, s0, V, L, -1)
      BY <2>1, <2>2, <2>3 DEF RestoredTo
    <2> QED
      BY <2>4, <1>4
  <1> HIDE DEF s0
  <1>6. Out = {}
    <2> SUFFICES ASSUME Out # {} PROVE FALSE
      OBVIOUS
    <2> HIDE DEF Fine
    <2>1. Out \in SUBSET Nat
      BY <1>3
    <2> HIDE DEF Out
    <2>2. PICK j \in Out : \A y \in Out : j <= y
      BY <2>1, Least
    <2>3. j \in 0 .. N /\ ~ Fine(j)
      BY DEF Out
    <2>4. j # 0
      BY <2>3, <1>5
    <2> DEFINE i == j - 1
    <2>5. i \in 0 .. N - 1 /\ i \in 0 .. N /\ i < j /\ i + 1 = j /\ j - 1 = i
      BY <2>3, <2>4, <1>3
    <2> HIDE DEF i
    <2>6. i \notin Out /\ Fine(i)
      <3>1. i \notin Out
        BY <2>2, <2>3, <2>5
      <3> QED
        BY <3>1, <2>5 DEF Out
    <2> DEFINE a == g[i - 1]
               z == g[i]
    <2>7. z = NinfoRound(t, a, i) /\ RestoredTo(t, a, V, L, i - 1)
      BY <2>5, <2>6, <1>4 DEF Fine
    <2> HIDE DEF a, z
    <2>8. i \in 0 .. t.nblk * B - 1
      BY <2>5
    <2>10. "array" \in DOMAIN t
      BY DEF TrieTyped
    <2>9. RestoredTo(t, z, V, L, i)
      BY ONLY <1>1, <2>7, <2>8, <2>10, NinfoStep
    <2> QED
      BY <2>3, <2>5, <2>9 DEF Fine, z
  <1>7. RestoredTo(t, u, V, L, N - 1)
    BY <1>3, <1>4, <1>6
  <1>8. /\ DOMAIN u = DOMAIN t /\ IsNinfo(u)
        /\ \A field \in DOMAIN t \ {"sibling", "child"} : u[field] = t[field]
    BY <1>7 DEF RestoredTo
  <1>9. u.array = t.array /\ u.nblk = t.nblk
    BY <1>8 DEF TrieTyped
  <1>10. TrieTyped(u) /\ \A n : InnerNode(u, L, n) <=> InnerNode(t, L, n)
    <2>1. TrieTyped(u)
      BY <1>8, <1>9 DEF TrieTyped
    <2> QED
      BY <2>1, <1>9 DEF InnerNode
  <1>11. ASSUME NEW n PROVE Told(t, V, L, n, N - 1) = Listed(u, V, L, n)
    <2>1. \A x \in V : x <= N - 1
      <3>1. 0 .. N - 1 = {x \in Slots : Block(x) < t.nblk}
        BY <1>1, SlotFacts
      <3>2. \A x \in V : x \in 0 .. N - 1
        BY <3>1, <1>1 DEF Taken
      <3> QED
        BY <3>2
    <2> QED
      BY <2>1, <1>9 DEF Told, Listed
  <1>12. Edges(u, V, P, L, O) /\ Settled(u, V, O, {}) /\ Bases(u, V, L)
    <2>1. Edges(u, V, P, L, O)
      BY <1>1, <1>9, <1>10 DEF Edges
    <2>2. Settled(u, V, O, {})
      BY <1>1, <1>9 DEF Settled
    <2>3. Bases(u, V, L)
      BY <1>1, <1>9, <1>10 DEF Bases
    <2> QED
      BY <2>1, <2>2, <2>3
  <1>13. Clear(u, V, L, {})
    <2>1. \A n \in Slots : ~ (n \in V \cup {0} /\ InnerNode(t, L, n)) => u.child[n] = 0
      BY <1>7 DEF RestoredTo
    <2> QED
      BY <2>1, <1>2, <1>10 DEF Clear
  <1>14. ASSUME NEW n \in V \cup {0}, InnerNode(u, L, n)
         PROVE  /\ Listed(u, V, L, n) # {}
                /\ ChainOf(u, n, u.array[n].base, Listed(u, V, L, n))
    <2>1. ChainOf(u, n, t.array[n].base, Told(t, V, L, n, N - 1))
      BY <1>7, <1>10, <1>14 DEF RestoredTo
    <2>2. Listed(u, V, L, n) # {}
      <3>1. CASE n = 0
        BY <3>1, <1>2 DEF Listed
      <3>2. CASE n \in V
        <4>1. PICK e \in V : t.array[e].check = n
          BY <3>2, <1>10, <1>14
        <4>2. L[e] \in Listed(u, V, L, n)
          BY <4>1, <1>2, <1>9 DEF Listed
        <4> QED
          BY <4>2
      <3> QED
        BY <3>1, <3>2
    <2> QED
      BY <2>1, <2>2, <1>9, <1>11
  <1>15. Chains(u, V, L, {})
    BY <1>14 DEF Chains
  <1> QED
    BY <1>1, <1>8, <1>10, <1>12, <1>13, <1>15 DEF IsTree

\* What the array holds does not depend on the tables.
LEMMA ShapeSame ==
    ASSUME NEW t, NEW V, NEW P, NEW L, NEW O, Shape(t, V, P, L, O),
           NEW u, u.array = t.array, u.nblk = t.nblk
    PROVE  Shape(u, V, P, L, O) /\ Content(u, V, P, L) = Content(t, V, P, L)
  <1>1. \A n : InnerNode(u, L, n) <=> InnerNode(t, L, n)
    BY DEF InnerNode
  <1>2. Content(u, V, P, L) = Content(t, V, P, L)
    <2> DEFINE f(x) == <<P[x], InnerNode(t, L, x), IF InnerNode(t, L, x) THEN 0 ELSE t.array[x].base>>
               g(x) == <<P[x], InnerNode(u, L, x), IF InnerNode(u, L, x) THEN 0 ELSE u.array[x].base>>
    <2>1. \A x : f(x) = g(x)
      <3> SUFFICES ASSUME NEW x PROVE f(x) = g(x)
        OBVIOUS
      <3>1. InnerNode(u, L, x) = InnerNode(t, L, x)
        BY DEF InnerNode
      <3> QED
        BY <3>1
    <2>2. Content(t, V, P, L) = {f(x) : x \in V} /\ Content(u, V, P, L) = {g(x) : x \in V}
      BY DEF Content
    <2> HIDE DEF f, g
    <2> QED
      BY <2>1, <2>2
  <1>3. Taken(u) = Taken(t)
    BY DEF Taken
  <1>4. Edges(u, V, P, L, O) /\ Settled(u, V, O, {}) /\ Bases(u, V, L)
    <2>1. Edges(t, V, P, L, O) /\ Settled(t, V, O, {}) /\ Bases(t, V, L)
      BY DEF Shape
    <2>2. Edges(u, V, P, L, O)
      BY <1>1, <2>1 DEF Edges
    <2>3. Settled(u, V, O, {})
      BY <2>1 DEF Settled
    <2>4. Bases(u, V, L)
      BY <1>1, <2>1 DEF Bases
    <2> QED
      BY <2>2, <2>3, <2>4
  <1> QED
    BY <1>2, <1>3, <1>4 DEF Shape

\* The tree does not depend on the blocks.
LEMMA TreeSame ==
    ASSUME NEW t, NEW V, NEW P, NEW L, NEW O, IsTree(t, V, P, L, O, {}, {}),
           NEW u, TrieTyped(u), SameNodes(t, u)
    PROVE  IsTree(u, V, P, L, O, {}, {})
  <1>0. u.array = t.array /\ u.nblk = t.nblk /\ u.sibling = t.sibling /\ u.child = t.child
    BY DEF SameNodes
  <1>1. /\ \A n : InnerNode(u, L, n) <=> InnerNode(t, L, n)
        /\ \A n : Listed(u, V, L, n) = Listed(t, V, L, n)
        /\ \A n, b, S : ChainOf(u, n, b, S) <=> ChainOf(t, n, b, S)
    BY <1>0 DEF InnerNode, Listed, ChainOf
  <1>2. Edges(u, V, P, L, O)
    BY <1>0, <1>1 DEF IsTree, Edges
  <1>3. Settled(u, V, O, {})
    BY <1>0 DEF IsTree, Settled
  <1>4. Bases(u, V, L)
    BY <1>0, <1>1 DEF IsTree, Bases
  <1>5. Clear(u, V, L, {})
    BY <1>0, <1>1 DEF IsTree, Clear
  <1>6. Chains(u, V, L, {})
    BY <1>0, <1>1 DEF IsTree, Chains
  <1> QED
    BY <1>2, <1>3, <1>4, <1>5, <1>6 DEF IsTree

\* The allocator does not depend on the chains.
LEMMA SoundSame ==
    ASSUME NEW R, NEW t, NEW c, NEW r, SoundTo(R, t, c, r), NEW u, TrieTyped(u),
           DOMAIN u = DOMAIN t, \A field \in DOMAIN t \ {"sibling", "child"} : u[field] = t[field]
    PROVE  SoundTo(R, u, c, r)
  <1>1. TrieTyped(t) /\ PoolFields \subseteq DOMAIN t
    BY DEF SoundTo
  <1>2. /\ u.array = t.array /\ u.lists = t.lists /\ u.num = t.num /\ u.trial = t.trial
        /\ u.ehead = t.ehead /\ u.reject = t.reject /\ u.limit = t.limit /\ u.nblk = t.nblk
    BY <1>1 DEF PoolFields
  <1>3. PoolOf(u) = PoolOf(t)
    <2>1. PoolArray(u) = PoolArray(t)
      BY <1>2 DEF PoolArray
    <2> QED
      BY <2>1, <1>2 DEF PoolOf
  <1> QED
    BY <1>1, <1>2, <1>3 DEF SoundTo

\* The slots in use are the ones the loops over the array see, and a terminal
\* is the node where the base of its parent is.
Seen(t, V, L) ==
    /\ V = {e \in 0 .. t.nblk * B - 1 : t.array[e].check >= 0} /\ IsFiniteSet(V)
    /\ \A e \in V : L[e] = 0 <=> t.array[t.array[e].check].base = e

\* So it is.
LEMMA ShapeSeen ==
    ASSUME NEW t, NEW V, NEW P, NEW L, NEW O, Shape(t, V, P, L, O)
    PROVE  Seen(t, V, L)
  <1>1. /\ GhostTyped(V, P, L, O) /\ Edges(t, V, P, L, O) /\ Settled(t, V, O, {}) /\ Bases(t, V, L)
        /\ V = Taken(t) /\ t.nblk \in 1 .. MaxBlocks /\ t.array \in [Slots -> [base : Int, check : Int]]
        /\ t.array[0].check < 0
    BY DEF Shape
  <1>2. /\ V \in SUBSET (Slots \ {0}) /\ L \in [Slots -> Labels] /\ P \in [Slots -> Seq(Labels)]
        /\ O \in [Slots -> Slots] /\ 0 \in Slots /\ 0 \in Labels
    <2>1. 0 \in Labels
      BY BlockAssumption DEF Labels
    <2>2. 0 \in Slots
      BY SlotRange
    <2> QED
      BY <2>1, <2>2, <1>1 DEF GhostTyped
  <1>3. V = {e \in 0 .. t.nblk * B - 1 : t.array[e].check >= 0}
    <2>1. 0 .. t.nblk * B - 1 = {x \in Slots : Block(x) < t.nblk}
      BY <1>1, SlotFacts
    <2> QED
      BY <2>1, <1>1 DEF Taken
  <1>4. IsFiniteSet(V)
    <2> DEFINE n == t.nblk * B - 1
    <2>1. n \in Int /\ 0 \in Int
      BY <1>1, BlockAssumption
    <2>2. V \subseteq 0 .. n
      BY <1>3
    <2> HIDE DEF n
    <2>3. IsFiniteSet(0 .. n)
      BY <2>1, FS_Interval
    <2> QED
      BY <2>2, <2>3, FS_Subset
  <1>5. ASSUME NEW e \in V
        PROVE  L[e] = 0 <=> t.array[t.array[e].check].base = e
    <2> DEFINE a == t.array[e].check
               b == O[e]
    <2>1. /\ a \in V \cup {0} /\ e = Xor(b, L[e]) /\ b = t.array[a].base /\ b \in Slots /\ L[e] \in Labels
      BY <1>1, <1>2 DEF Edges, Settled
    <2> HIDE DEF a, b
    <2>2. L[e] = 0 <=> b = e
      <3>1. Xor(b, 0) = b
        BY <2>1, XorAssumption
      <3>2. b = e => L[e] = 0
        BY <3>1, <2>1, <1>2, XorApart
      <3> QED
        BY <3>1, <3>2, <2>1
    <2> QED
      BY <2>1, <2>2 DEF a
  <1> QED
    BY <1>3, <1>4, <1>5 DEF Seen

\* The chain c of a node and the checks that name it.
ListsChildren(t, n, base, c) ==
    /\ Ascending(c)
    /\ {e \in 0 .. t.nblk * B - 1 : t.array[e].check = n}
         = {Xor(base, c[i]) : i \in {j \in DOMAIN c : n # 0 \/ c[j] # 0}}

\* They agree.
LEMMA ChainAgrees ==
    ASSUME NEW t, NEW V, NEW P, NEW L, NEW O, Shape(t, V, P, L, O),
           IsTree(t, V, P, L, O, {}, {}), NEW n \in V \cup {0}, InnerNode(t, L, n),
           NEW c, c = Children(t, n), NEW base, base = t.array[n].base
    PROVE  ListsChildren(t, n, base, c)
  <1>1. /\ GhostTyped(V, P, L, O) /\ Edges(t, V, P, L, O) /\ Settled(t, V, O, {}) /\ Bases(t, V, L)
        /\ Chains(t, V, L, {}) /\ IsNinfo(t) /\ t.array[0].check < 0
    BY DEF Shape, IsTree, TrieTyped
  <1>t. V = {e \in 0 .. t.nblk * B - 1 : t.array[e].check >= 0}
    BY ShapeSeen DEF Seen
  <1>2. /\ V \in SUBSET (Slots \ {0}) /\ L \in [Slots -> Labels] /\ 0 \in Slots /\ n \in Nat
        /\ V = {e \in 0 .. t.nblk * B - 1 : t.array[e].check >= 0}
    <2>1. V \in SUBSET (Slots \ {0}) /\ L \in [Slots -> Labels] /\ 0 \in Slots
      BY <1>1, SlotRange DEF GhostTyped
    <2>2. n \in Nat
      BY <2>1, SlotFacts
    <2> QED
      BY <2>1, <2>2, <1>t
  <1>3. InnerNode(t, L, n) /\ base \in Slots
    BY <1>1, <1>2 DEF Bases
  <1> DEFINE S == Listed(t, V, L, n)
  <1>4. S # {} /\ ChainOf(t, n, base, S) /\ S \in SUBSET Labels
    BY <1>1, <1>3 DEF Chains, Listed
  <1>5. c = Chain(t, base, t.child[n])
    BY DEF Children
  <1> HIDE DEF S
  <1>6. c \in Seq(Labels) /\ Ascending(c) /\ Members(c) = S
    <2>1. LET q == Chain(t, base, t.child[n])
          IN  q \in Seq(Labels) /\ Ascending(q) /\ Members(q) = S
      BY ONLY <1>1, <1>3, <1>4, ChainLists
    <2> QED
      BY <2>1, <1>5
  <1>7. ASSUME NEW e \in 0 .. t.nblk * B - 1, t.array[e].check = n
        PROVE  \E i \in {j \in DOMAIN c : n # 0 \/ c[j] # 0} : e = Xor(base, c[i])
    <2>1. e \in V
      BY <1>2, <1>7
    <2>2. e = Xor(base, L[e]) /\ L[e] \in S /\ (n = 0 => L[e] # 0)
      BY <2>1, <1>1, <1>2, <1>7 DEF Edges, Settled, S, Listed
    <2>3. PICK j \in DOMAIN c : c[j] = L[e]
      BY <2>2, <1>6 DEF Members
    <2> QED
      BY <2>2, <2>3
  <1>8. ASSUME NEW i \in DOMAIN c, n # 0 \/ c[i] # 0
        PROVE  /\ Xor(base, c[i]) \in 0 .. t.nblk * B - 1
               /\ t.array[Xor(base, c[i])].check = n
    <2>1. c[i] \in S
      BY <1>6 DEF Members
    <2>2. PICK e \in V : t.array[e].check = n /\ L[e] = c[i]
      BY <2>1, <1>8 DEF S, Listed
    <2>3. e = Xor(base, c[i])
      BY <2>2, <1>1 DEF Edges, Settled
    <2> QED
      BY <2>2, <2>3, <1>2
  <1>9. {e \in 0 .. t.nblk * B - 1 : t.array[e].check = n}
          = {Xor(base, c[i]) : i \in {j \in DOMAIN c : n # 0 \/ c[j] # 0}}
    BY <1>7, <1>8
  <1> QED
    BY <1>6, <1>9 DEF ListsChildren

\* As many nodes as there are names for them.
LEMMA NamesCount ==
    ASSUME NEW T, IsFiniteSet(T), NEW P, \A a, b \in T : P[a] = P[b] => a = b,
           NEW S, NEW h, \A a, b \in S : h[a] = h[b] => a = b,
           \A a \in S : \E e \in T : P[e] = h[a], \A e \in T : \E a \in S : P[e] = h[a]
    PROVE  IsFiniteSet(S) /\ Cardinality(S) = Cardinality(T)
  <1> DEFINE f == [a \in S |-> CHOOSE e \in T : P[e] = h[a]]
  <1>1. \A a \in S : f[a] \in T /\ P[f[a]] = h[a]
    OBVIOUS
  <1>2. f \in [S -> T]
    BY <1>1
  <1> HIDE DEF f
  <1>3. f \in Injection(S, T)
    BY <1>1, <1>2 DEF Injection, IsInjective
  <1>4. f \in Surjection(S, T)
    <2>1. ASSUME NEW e \in T PROVE \E a \in S : f[a] = e
      <3>1. PICK a \in S : P[e] = h[a]
        OBVIOUS
      <3> QED
        BY <3>1, <1>1
    <2> QED
      BY <2>1, <1>2 DEF Surjection
  <1> QED
    BY <1>3, <1>4, FS_Injection

\* The trie has no nodes at first.
LEMMA InitialTree ==
    ASSUME NEW R, Spare("chain", R)
    PROVE  TrieOf(R, InitialTrie, {}) /\ InitialTrie.nblk = 1
  <1> DEFINE t == InitialTrie
             a == InitialPool
             p == PoolOf(t)
             V == Taken(t)
             P == [x \in Slots |-> <<>>]
             L == [x \in Slots |-> 0]
             O == [x \in Slots |-> 0]
  <1>1. /\ a \in PoolRec /\ a.lists = NoLists /\ a.nblk = 1
        /\ a.num = [b \in Blocks |-> B] /\ a.trial = [b \in Blocks |-> 0]
        /\ CountAt(a, 0) /\ RootChain(a)
        /\ \A l \in Labels : a.array[l].check < 0
    BY InitialFacts
  <1>2. /\ DOMAIN t = {"array", "lists", "num", "trial", "ehead", "reject", "limit", "nblk",
                       "sibling", "child", "tail", "length", "tail0"}
        /\ t.array = a.array /\ t.lists = a.lists /\ t.num = a.num /\ t.trial = a.trial
        /\ t.ehead = a.ehead /\ t.reject = a.reject /\ t.limit = a.limit /\ t.nblk = a.nblk
        /\ t.sibling = [e \in Slots |-> 0] /\ t.child = [e \in Slots |-> 0]
    BY DEF InitialTrie
  <1>3. t.array[0].base = 0
    <2>1. a.array[0] = Node(0, -1)
      BY SlotRange DEF InitialPool
    <2> QED
      BY <2>1, <1>2 DEF Node
  <1> HIDE DEF t, a
  <1>4. TrieTyped(t) /\ PoolFields \subseteq DOMAIN t /\ 1 \in 1 .. MaxBlocks
    <2>1. t.array \in [Slots -> [base : Int, check : Int]]
      <3>1. a.array \in [Slots -> PoolNodes] /\ Links \subseteq Int
        BY <1>1, SlotRange DEF PoolRec, Links
      <3>2. PoolNodes \subseteq [base : Int, check : Int]
        BY <3>1 DEF PoolNodes
      <3> QED
        BY <3>1, <3>2, <1>2
    <2>2. IsNinfo(t)
      <3>1. 0 \in Labels
        BY BlockAssumption DEF Labels
      <3> QED
        BY <3>1, <1>2 DEF IsNinfo
    <2>3. 1 \in 1 .. MaxBlocks
      BY BlockAssumption
    <2> QED
      BY <2>1, <2>2, <2>3, <1>1, <1>2 DEF TrieTyped, PoolFields
  <1>5. p.array = PoolArray(t) /\ p.num = t.num /\ p.ehead = t.ehead /\ p.nblk = t.nblk
    BY <1>4, PoolFacts
  <1>6. \A x \in SlotsOf(0) : x \in Slots /\ p.array[x] = a.array[x]
    <2>1. \A x \in SlotsOf(0) : x \in Slots /\ a.array[x].check < 0
      BY <1>1, SlotFacts
    <2> QED
      BY <2>1, <1>2, <1>4, PoolFacts
  <1> HIDE DEF p
  <1>7. Whole("chain", R, p, 1, 1)
    <2> DEFINE C == Counted(a.array, 0)
               E == Emp(a.array, 0)
    <2>1. Counted(p.array, 0) = C /\ Emp(p.array, 0) = E
      BY <1>6 DEF Counted, Emp
    <2>2. CountAt(p, 0)
      BY <2>1, <1>1, <1>2, <1>5 DEF CountAt
    <2>3. RootChain(p)
      <3> DEFINE n1 == Nxt(a.array)
                 p1 == Prv(a.array)
                 n2 == Nxt(p.array)
                 p2 == Prv(p.array)
      <3>1. 0 \in C /\ 1 \in C /\ a.ehead[0] \in C /\ IsChain(C, E, p1, n1)
        BY <1>1 DEF RootChain
      <3>2. \A x \in C : n2[x] = n1[x] /\ p2[x] = p1[x]
        <4>1. \A x \in C : x \in Slots /\ p.array[x] = a.array[x]
          BY <1>6 DEF Counted
        <4> QED
          BY <4>1 DEF Nxt, Prv
      <3> HIDE DEF C, E, n1, p1, n2, p2
      <3>3. IsChain(C, E, p2, n2)
        <4>1. E \subseteq C
          BY <3>1 DEF IsChain
        <4>2. \A x \in C : n2[x] \in E /\ (n2[x] # 1 => p2[n2[x]] = x)
          BY <3>1, <3>2, <4>1 DEF IsChain
        <4>3. \A x \in E \ {1} : p2[x] \in C /\ n2[p2[x]] = x
          BY <3>1, <3>2, <4>1 DEF IsChain
        <4>4. ASSUME NEW S \in SUBSET C, S # {}, \A x \in S : n2[x] \in S PROVE 1 \in S
          <5>1. \A x \in S : n1[x] \in S
            BY <3>2, <4>4
          <5> QED
            BY <5>1, <3>1, <4>4 DEF IsChain
        <4> QED
          BY <4>1, <4>2, <4>3, <4>4 DEF IsChain
      <3>4. p.ehead[0] \in C
        BY <3>1, <1>2, <1>5
      <3> QED
        BY <2>1, <3>1, <3>3, <3>4 DEF RootChain, n2, p2
    <2>4. 0 .. 1 - 1 = {0} /\ 1 .. p.nblk - 1 = {} /\ 1 .. 1 - 1 = {}
      BY <1>1, <1>2, <1>5
    <2>5. \A l \in Labels : p.array[l].check < 0
      BY <1>1, <1>6, SlotFacts
    <2>6. 0 \in Labels
      BY BlockAssumption DEF Labels
    <2> QED
      BY <2>2, <2>3, <2>4, <2>5, <2>6 DEF Whole, RootWhole
  <1>8. SoundTo(R, t, 1, 1)
    <2>1. PoolArray(t) \in [Slots -> PoolNodes]
      <3>1. Node(-1, 0) \in PoolNodes
        BY SlotRange DEF Node, PoolNodes
      <3>2. \A x \in Slots : t.array[x] \in PoolNodes
        BY <1>1, <1>2 DEF PoolRec
      <3> QED
        BY <3>1, <3>2 DEF PoolArray
    <2>2. ListsOK(NoLists, t.num, t.trial, 1, 1)
      <3>1. [b \in Blocks |-> B] \in [Blocks -> 0 .. B] /\ B >= 1
        BY BlockAssumption
      <3> DEFINE n == [b \in Blocks |-> B]
      <3>2. n \in [Blocks -> 0 .. B] /\ n[0] >= 1 /\ \A b \in Blocks : b >= 1 => n[b] = B
        BY <3>1, SlotFacts
      <3> HIDE DEF n
      <3>3. ListsOK(NoLists, n, [b \in Blocks |-> 0], 1, 1)
        BY <3>2, <1>4, NothingListed
      <3> QED
        BY <3>3, <1>1, <1>2 DEF n
    <2> QED
      <3>1. /\ t.ehead \in [Blocks -> Slots] /\ t.reject \in [Blocks -> 0 .. B + 1]
            /\ t.limit \in [0 .. B -> 0 .. B + 1]
        BY <1>1, <1>2 DEF PoolRec
      <3>2. ListsOK(t.lists, t.num, t.trial, t.nblk, 1)
        BY <2>2, <1>1, <1>2
      <3> QED
        BY ONLY <2>1, <3>1, <3>2, <1>4, <1>5, <1>7, SoundFrom
  <1>9. V = {}
    <2> SUFFICES ASSUME NEW x \in V PROVE FALSE
      OBVIOUS
    <2>1. x \in Slots /\ Block(x) = 0 /\ a.array[x].check >= 0
      <3>1. x \in Slots /\ Block(x) < 1 /\ a.array[x].check >= 0
        BY <1>1, <1>2 DEF Taken
      <3>2. Block(x) \in Nat
        BY <3>1, SlotFacts
      <3> QED
        BY <3>1, <3>2
    <2>2. x \in Labels /\ a.array[x].check \in Int
      BY <2>1, <1>1, SlotFacts, SlotRange DEF PoolRec, PoolNodes, Links
    <2> QED
      BY <2>1, <2>2, <1>1
  <1>10. IsTree(t, V, P, L, O, {}, {})
    <2>1. 0 \in Labels /\ 0 \in Slots
      BY BlockAssumption, SlotRange DEF Labels
    <2>2. GhostTyped(V, P, L, O)
      <3>1. <<>> \in Seq(Labels)
        OBVIOUS
      <3> QED
        BY <3>1, <2>1, <1>9 DEF GhostTyped
    <2>3. Edges(t, V, P, L, O) /\ Settled(t, V, O, {}) /\ Bases(t, V, L) /\ Clear(t, V, L, {})
      <3>1. \A n \in Slots : t.child[n] = 0
        BY <1>2
      <3> QED
        BY <3>1, <1>3, <1>9 DEF Edges, Settled, Bases, Clear
    <2>4. Listed(t, V, L, 0) = {0}
      BY <2>1, <1>9 DEF Listed
    <2>5. ChainOf(t, 0, t.array[0].base, {0})
      <3>1. FirstOf({0}) = 0
        BY DEF FirstOf
      <3>2. Above({0}, 0) = {}
        BY DEF Above
      <3>3. FirstOf({}) = 0
        BY DEF FirstOf
      <3>4. Xor(0, 0) = 0
        BY <2>1, XorAssumption
      <3> QED
        BY <3>1, <3>2, <3>3, <3>4, <2>1, <1>2, <1>3 DEF ChainOf
    <2>6. Chains(t, V, L, {})
      <3>1. V \cup {0} = {0} /\ {0} # {}
        BY <1>9
      <3> HIDE DEF V, L
      <3> QED
        BY <2>4, <2>5, <3>1 DEF Chains
    <2> QED
      BY <2>2, <2>3, <2>6, <1>4 DEF IsTree
  <1>11. Content(t, V, P, L) = {}
    BY <1>9 DEF Content
  <1>12. TrieAs(R, t, {}, V, P, L, O)
    BY <1>1, <1>2, <1>8, <1>10, <1>11 DEF TrieAs, Sound
  <1>13. TrieOf(R, t, {})
    BY <1>12 DEF TrieOf
  <1> QED
    BY <1>13, <1>1, <1>2 DEF t
=============================================================================
