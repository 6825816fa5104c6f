----------------------------- MODULE TrieLemmas ------------------------------
(***************************************************************************)
(* Lemmas about the operators of SlotOps and TrieOps (cedarpp.h, and       *)
(* cedar.h alike), in four parts.  The slots of a block: what _pop_enode,  *)
(* _push_enode and _add_block do to the ring of empty ones, to its counter *)
(* and to the slots in use; links are negated slots, so the rings of       *)
(* ListLemmas are those of Prv and Nxt.  The chains of siblings: the       *)
(* labels of the children of a node, from its child on through sibling.    *)
(* The tree that array and chains hold together, and the steps that keep   *)
(* it: a child added, moved or removed.  The pool of a trie: the empty     *)
(* slots once the contents of the others is disregarded.                   *)
(***************************************************************************)
EXTENDS TrieOps, FiniteSetTheorems, ListLemmas

-----------------------------------------------------------------------------
(* The slots of a block.                                                   *)

\* Where the slots of a block begin.
LEMMA BlockStart ==
    ASSUME NEW b \in Nat
    PROVE  b * B \in Nat /\ (b + 1) * B = b * B + B
  BY BlockAssumption

\* Blocks do not overlap: one ends before a later one begins.
LEMMA BlockOrder ==
    ASSUME NEW b \in Nat, NEW c \in Nat, b < c
    PROVE  b * B + B <= c * B
  <1>1. PICK d \in Nat : c = b + 1 + d
    <2>1. c - b - 1 \in Nat /\ c = b + 1 + (c - b - 1)
      OBVIOUS
    <2> QED
      BY <2>1
  <1>2. c * B = b * B + B + d * B /\ d * B \in Nat /\ b * B \in Nat
    BY <1>1, BlockAssumption
  <1> QED
    BY <1>2, BlockAssumption

\* A slot is among those of its block (index >> 8 in cedarpp.h).
LEMMA InBlock ==
    ASSUME NEW e \in Nat
    PROVE  Block(e) \in Nat /\ e \in SlotsOf(Block(e))
  <1>1. e \div B \in Nat /\ e = B * (e \div B) + (e % B) /\ e % B \in 0 .. B - 1
    BY BlockAssumption
  <1> DEFINE q == e \div B
             r == e % B
  <1>2. q \in Nat /\ B * q = q * B /\ q * B \in Nat
    BY <1>1, BlockAssumption
  <1> HIDE DEF q, r
  <1>3. e \in q * B .. q * B + B - 1
    BY <1>1, <1>2, BlockAssumption DEF q, r
  <1> QED
    BY <1>2, <1>3 DEF q, Block, SlotsOf

\* The slots of a block have no other block.
LEMMA BlockOf ==
    ASSUME NEW b \in Nat, NEW e \in SlotsOf(b)
    PROVE  e \in Nat /\ Block(e) = b
  <1>1. b * B \in Nat /\ e \in Nat /\ e < b * B + B /\ b * B <= e
    BY BlockStart, BlockAssumption DEF SlotsOf
  <1> DEFINE c == Block(e)
  <1>2. c \in Nat /\ c * B \in Nat /\ c * B <= e /\ e < c * B + B
    <2>1. c \in Nat /\ e \in SlotsOf(c)
      BY <1>1, InBlock
    <2> QED
      BY <2>1, BlockStart, BlockAssumption DEF SlotsOf
  <1> HIDE DEF c
  <1>3. ~ c < b
    <2> SUFFICES ASSUME c < b PROVE FALSE
      OBVIOUS
    <2>1. c * B + B <= b * B
      BY <1>2, BlockOrder
    <2> QED
      BY <2>1, <1>1, <1>2, BlockAssumption
  <1>4. ~ b < c
    <2> SUFFICES ASSUME b < c PROVE FALSE
      OBVIOUS
    <2>1. b * B + B <= c * B
      BY <1>2, BlockOrder
    <2> QED
      BY <2>1, <1>1, <1>2, BlockAssumption
  <1> QED
    BY <1>1, <1>2, <1>3, <1>4 DEF c

\* The slots below the end of n blocks are those of a block below n.
LEMMA Below ==
    ASSUME NEW e \in Nat, NEW n \in Nat
    PROVE  e \in 0 .. n * B - 1 <=> Block(e) < n
  <1> DEFINE c == Block(e)
  <1>1. c \in Nat /\ c * B \in Nat /\ c * B <= e /\ e < c * B + B /\ n * B \in Nat
    <2>1. c \in Nat /\ e \in SlotsOf(c)
      BY InBlock
    <2> QED
      BY <2>1, BlockStart, BlockAssumption DEF SlotsOf
  <1> HIDE DEF c
  <1>2. CASE c < n
    <2>1. c * B + B <= n * B
      BY <1>1, <1>2, BlockOrder
    <2> QED
      BY <2>1, <1>1, <1>2, BlockAssumption DEF c
  <1>3. CASE ~ c < n
    <2>1. n * B <= c * B
      <3>1. CASE n = c
        BY <3>1, <1>1
      <3>2. CASE n < c
        <4>1. n * B + B <= c * B
          BY <1>1, <3>2, BlockOrder
        <4> QED
          BY <4>1, <1>1, BlockAssumption
      <3> QED
        BY <3>1, <3>2, <1>1, <1>3
    <2> QED
      BY <2>1, <1>1, <1>3, BlockAssumption DEF c
  <1> QED
    BY <1>2, <1>3

\* Slots and blocks, without the arithmetic.
LEMMA SlotFacts ==
    /\ \A e \in Slots : e \in Nat /\ Block(e) \in Blocks /\ e \in SlotsOf(Block(e))
    /\ \A b \in Blocks : /\ b \in Nat /\ SlotsOf(b) \subseteq Slots
                         /\ \A e \in SlotsOf(b) : Block(e) = b
                         /\ b * B \in SlotsOf(b)
    /\ \A n \in 1 .. MaxBlocks : 0 .. n * B - 1 = {e \in Slots : Block(e) < n}
    /\ SlotsOf(0) = Labels /\ 0 \in Blocks /\ 0 \in SlotsOf(0) /\ 1 \in SlotsOf(0)
    /\ Slots \subseteq Nat /\ Blocks \subseteq Nat
  <1>1. \A e \in Slots : e \in Nat /\ Block(e) \in Blocks /\ e \in SlotsOf(Block(e))
    <2> SUFFICES ASSUME NEW e \in Slots
                 PROVE  e \in Nat /\ Block(e) \in Blocks /\ e \in SlotsOf(Block(e))
      OBVIOUS
    <2>1. MaxBlocks * B \in Nat /\ MaxBlocks \in Nat
      BY BlockStart, BlockAssumption
    <2>2. e \in Nat
      BY <2>1 DEF Slots
    <2>3. Block(e) < MaxBlocks
      BY <2>1, <2>2, Below DEF Slots
    <2> QED
      BY <2>1, <2>2, <2>3, InBlock DEF Blocks
  <1>2. ASSUME NEW b \in Blocks
        PROVE  /\ b \in Nat /\ SlotsOf(b) \subseteq Slots
               /\ \A e \in SlotsOf(b) : Block(e) = b
               /\ b * B \in SlotsOf(b)
    <2>1. b \in Nat /\ b < MaxBlocks /\ MaxBlocks \in Nat
      BY BlockAssumption DEF Blocks
    <2>2. b * B \in SlotsOf(b)
      BY <2>1, BlockStart, BlockAssumption DEF SlotsOf
    <2>3. ASSUME NEW e \in SlotsOf(b) PROVE e \in Slots
      <3>1. e \in Nat /\ Block(e) < MaxBlocks
        BY <2>1, BlockOf
      <3> QED
        BY <3>1, <2>1, Below DEF Slots
    <2> QED
      BY <2>1, <2>2, <2>3, BlockOf
  <1>3. ASSUME NEW n \in 1 .. MaxBlocks
        PROVE  0 .. n * B - 1 = {e \in Slots : Block(e) < n}
    <2>1. n \in Nat /\ n * B \in Nat /\ n <= MaxBlocks
      BY BlockStart, BlockAssumption
    <2>2. ASSUME NEW e \in 0 .. n * B - 1 PROVE e \in Slots /\ Block(e) < n
      <3>1. e \in Nat /\ Block(e) < n
        BY <2>1, Below
      <3>2. Block(e) \in Nat /\ Block(e) < MaxBlocks
        BY <3>1, <2>1, InBlock, BlockAssumption
      <3> QED
        BY <3>1, <3>2, Below, BlockAssumption DEF Slots
    <2>3. ASSUME NEW e \in Slots, Block(e) < n PROVE e \in 0 .. n * B - 1
      BY <1>1, <2>1, <2>3, Below
    <2> QED
      BY <2>2, <2>3
  <1>4. SlotsOf(0) = Labels /\ 0 \in Blocks /\ 0 \in SlotsOf(0) /\ 1 \in SlotsOf(0)
    BY BlockAssumption DEF SlotsOf, Labels, Blocks
  <1> QED
    BY <1>1, <1>2, <1>3, <1>4 DEF Blocks

\* A block has B slots.
LEMMA SlotsFinite ==
    ASSUME NEW b \in Blocks
    PROVE  IsFiniteSet(SlotsOf(b)) /\ Cardinality(SlotsOf(b)) = B
  <1>1. b \in Nat /\ b * B \in Nat
    BY BlockStart DEF Blocks
  <1>2. /\ b * B \in Int /\ b * B + B - 1 \in Int /\ b * B <= b * B + B - 1
        /\ (b * B + B - 1) - b * B + 1 = B
    BY <1>1, BlockAssumption
  <1> DEFINE lo == b * B
             hi == b * B + B - 1
  <1> HIDE DEF lo, hi
  <1>3. IsFiniteSet(lo .. hi) /\ Cardinality(lo .. hi) = B
    BY <1>2, FS_Interval DEF lo, hi
  <1> QED
    BY <1>3 DEF lo, hi, SlotsOf

-----------------------------------------------------------------------------
\* A nonempty set of naturals has a least member.
LEMMA Least ==
    ASSUME NEW S \in SUBSET Nat, S # {}
    PROVE  \E m \in S : \A x \in S : m <= x
  <1> DEFINE T == {0 .. m : m \in S}
  <1>1. T # {} /\ T \subseteq FiniteSubsetsOf(Nat)
    <2> SUFFICES ASSUME NEW m \in S PROVE 0 .. m \in FiniteSubsetsOf(Nat)
      OBVIOUS
    <2>1. IsFiniteSet(0 .. m)
      BY FS_Interval
    <2>2. 0 .. m \in SUBSET Nat
      OBVIOUS
    <2> QED
      BY <2>1, <2>2 DEF FiniteSubsetsOf
  <1> HIDE DEF T
  <1>2. PICK u \in T : \A v \in T : ~ (<<v, u>> \in StrictSubsetOrdering(Nat))
    BY <1>1, FS_StrictSubsetOrderingWellFounded, WFMin
  <1>3. PICK m \in S : u = 0 .. m
    BY DEF T
  <1>4. ASSUME NEW x \in S, x < m PROVE FALSE
    <2>1. 0 .. x \in T
      BY DEF T
    <2>2. /\ 0 .. x \subseteq 0 .. m /\ 0 .. x # 0 .. m
          /\ 0 .. x \in SUBSET Nat /\ 0 .. m \in SUBSET Nat
      <3>1. m \in 0 .. m /\ m \notin 0 .. x
        BY <1>4
      <3> QED
        BY <1>4, <3>1
    <2>3. <<0 .. x, 0 .. m>> \in StrictSubsetOrdering(Nat)
      BY <2>2 DEF StrictSubsetOrdering
    <2> QED
      BY <1>2, <1>3, <2>1, <2>3
  <1> QED
    BY <1>4

\* A run of slots linked each to the next, the last to the first, is a ring.
LEMMA RunRing ==
    ASSUME NEW lo \in Nat, NEW hi \in Nat, lo <= hi, NEW p, NEW n,
           \A x \in lo .. hi : /\ p[x] = IF x = lo THEN hi ELSE x - 1
                               /\ n[x] = IF x = hi THEN lo ELSE x + 1
    PROVE  IsRing(lo .. hi, p, n)
  <1>1. \A x \in lo .. hi : /\ n[x] \in lo .. hi /\ p[n[x]] = x
                            /\ p[x] \in lo .. hi /\ n[p[x]] = x
    OBVIOUS
  <1>2. ASSUME NEW S \in SUBSET (lo .. hi), S # {}, \A x \in S : n[x] \in S
        PROVE  S = lo .. hi
    <2>1. lo \in S
      <3> DEFINE D == {hi - x : x \in S}
      <3>0. \A x \in S : x \in Nat /\ x <= hi /\ hi - x \in Nat
        BY <1>2
      <3>1. D \in SUBSET Nat /\ D # {}
        BY <3>0, <1>2
      <3>2. PICK d \in D : \A y \in D : d <= y
        BY <3>1, Least
      <3>3. PICK m \in S : d = hi - m
        OBVIOUS
      <3>4. ASSUME NEW x \in S PROVE x <= m
        <4>1. hi - x \in D
          OBVIOUS
        <4>2. hi - m <= hi - x
          BY <4>1, <3>2, <3>3
        <4> HIDE DEF D
        <4> QED
          BY <4>1, <4>2, <3>0, <3>3
      <3>5. m = hi
        <4>1. m \in lo .. hi /\ n[m] \in S
          BY <1>2
        <4>2. m # hi => n[m] = m + 1
          BY <4>1
        <4> QED
          BY <4>1, <4>2, <3>4
      <3> QED
        BY <3>5, <1>2
    <2>2. ASSUME NEW y \in lo .. hi, y \notin S PROVE FALSE
      <3> DEFINE M == {x \in lo .. hi : x \notin S}
      <3>1. M \in SUBSET Nat /\ M # {}
        BY <2>2
      <3>2. PICK m \in M : \A x \in M : m <= x
        BY <3>1, Least
      <3>3. m # lo /\ m \in lo .. hi
        BY <2>1
      <3>4. m - 1 \in S /\ m - 1 # hi /\ m - 1 \in lo .. hi
        BY <3>2, <3>3
      <3>5. n[m - 1] = m
        BY <3>4
      <3> QED
        BY <3>4, <3>5, <1>2
    <2> QED
      BY <2>2
  <1> QED
    BY <1>1, <1>2 DEF IsRing

-----------------------------------------------------------------------------
\* What a cell of the array can hold, and a pool.
Links == -(MaxBlocks * B - 1) .. MaxBlocks * B - 1
PoolNodes == [base : Links, check : Links]

PoolRec == [array  : [Slots -> PoolNodes],
            lists  : ListRec,
            num    : [Blocks -> 0 .. B],
            trial  : [Blocks -> 0 .. MaxTrial],
            ehead  : [Blocks -> Slots],
            reject : [Blocks -> 0 .. B + 1],
            limit  : [0 .. B -> 0 .. B + 1],
            nblk   : 1 .. MaxBlocks]

\* The links of the empty slots, as functions.
Prv(A) == [x \in Slots |-> - A[x].base]
Nxt(A) == [x \in Slots |-> - A[x].check]

\* The empty slots of block b; those block.num counts, the root among them.
Emp(A, b)     == {x \in SlotsOf(b) : A[x].check < 0 /\ x # 0}
Counted(A, b) == {x \in SlotsOf(b) : A[x].check < 0}

\* Block b is one ring of empty slots, entered at ehead, and counted.
RingAt(p, b)  == Emp(p.array, b) # {} => IsRing(Emp(p.array, b), Prv(p.array), Nxt(p.array))
HeadAt(p, b)  == Emp(p.array, b) # {} => p.ehead[b] \in Emp(p.array, b)
CountAt(p, b) == p.num[b] = Cardinality(Counted(p.array, b))

\* The ring E with a way in from outside it, through R: every member of R is
\* followed by one of E, and who precedes 1 is not known.
IsChain(R, E, p, n) ==
    /\ E \subseteq R
    /\ \A x \in R : n[x] \in E /\ (n[x] # 1 => p[n[x]] = x)
    /\ \A x \in E \ {1} : p[x] \in R /\ n[p[x]] = x
    /\ \A S \in SUBSET R : (S # {} /\ \A x \in S : n[x] \in S) => 1 \in S

\* Taking a member other than 1 off a chain leaves a chain.
LEMMA ChainUnlink ==
    ASSUME NEW R, NEW E, NEW p, NEW n, NEW p2, NEW n2,
           IsChain(R, E, p, n), NEW a \in E \ {1},
           \A x \in R \ {a} : /\ p2[x] = IF x = n[a] THEN p[a] ELSE p[x]
                              /\ n2[x] = IF x = p[a] THEN n[a] ELSE n[x]
    PROVE  IsChain(R \ {a}, E \ {a}, p2, n2) /\ n[a] \in E \ {a}
  <1>1. a \in R /\ E \subseteq R /\ n[a] \in E /\ p[a] \in R /\ n[p[a]] = a
    BY DEF IsChain
  <1>2. n[a] # a
    <2> SUFFICES ASSUME n[a] = a PROVE FALSE
      OBVIOUS
    <2>1. {a} \in SUBSET R /\ {a} # {} /\ \A x \in {a} : n[x] \in {a}
      BY <1>1
    <2>2. 1 \in {a}
      BY <2>1 DEF IsChain
    <2> QED
      BY <2>2
  <1>3. p[a] # a
    BY <1>1, <1>2
  <1>4. ASSUME NEW x \in R \ {a}
        PROVE  n2[x] \in E \ {a} /\ (n2[x] # 1 => p2[n2[x]] = x)
    <2>1. CASE x = p[a]
      BY <2>1, <1>1, <1>2, <1>4
    <2>2. CASE x # p[a]
      <3>1. n2[x] = n[x] /\ n[x] \in E /\ n[x] # a /\ (n[x] # 1 => p[n[x]] = x)
        BY <2>2, <1>4 DEF IsChain
      <3>2. n[x] # 1 => n[x] # n[a]
        BY <3>1, <1>1, <1>4 DEF IsChain
      <3> QED
        BY <3>1, <3>2, <1>1, <1>4
    <2> QED
      BY <2>1, <2>2
  <1>5. ASSUME NEW x \in (E \ {a}) \ {1}
        PROVE  p2[x] \in R \ {a} /\ n2[p2[x]] = x
    <2>1. CASE x = n[a]
      BY <2>1, <1>1, <1>3, <1>5
    <2>2. CASE x # n[a]
      <3>1. p2[x] = p[x] /\ p[x] \in R /\ n[p[x]] = x
        BY <2>2, <1>1, <1>5 DEF IsChain
      <3>2. p[x] # a /\ p[x] # p[a]
        BY <3>1, <2>2, <1>1, <1>5
      <3> QED
        BY <3>1, <3>2
    <2> QED
      BY <2>1, <2>2
  <1>6. ASSUME NEW S \in SUBSET (R \ {a}), S # {}, \A x \in S : n2[x] \in S
        PROVE  1 \in S
    <2>1. CASE p[a] \in S
      <3>1. \A x \in S \cup {a} : n[x] \in S \cup {a}
        BY <2>1, <1>1, <1>6
      <3>2. S \cup {a} \in SUBSET R /\ S \cup {a} # {}
        BY <1>1, <1>6
      <3>3. 1 \in S \cup {a}
        BY <3>1, <3>2 DEF IsChain
      <3> QED
        BY <3>3
    <2>2. CASE p[a] \notin S
      <3>1. \A x \in S : n[x] \in S
        BY <2>2, <1>6
      <3> QED
        BY <3>1, <1>6 DEF IsChain
    <2> QED
      BY <2>1, <2>2
  <1>7. E \ {a} \subseteq R \ {a}
    BY <1>1
  <1> QED
    BY <1>1, <1>2, <1>4, <1>5, <1>6, <1>7 DEF IsChain

\* Putting a slot after any member of a chain leaves a chain.
LEMMA ChainLink ==
    ASSUME NEW R, NEW E, NEW p, NEW n, NEW p2, NEW n2,
           IsChain(R, E, p, n), NEW h \in R, NEW a, a \notin R,
           \A x \in R \cup {a} :
              /\ p2[x] = IF x = n[h] THEN a ELSE IF x = a THEN h ELSE p[x]
              /\ n2[x] = IF x = h THEN a ELSE IF x = a THEN n[h] ELSE n[x]
    PROVE  IsChain(R \cup {a}, E \cup {a}, p2, n2)
  <1>1. E \subseteq R /\ n[h] \in E /\ n[h] # a /\ h # a
    BY DEF IsChain
  <1>2. ASSUME NEW x \in R \cup {a}
        PROVE  n2[x] \in E \cup {a} /\ (n2[x] # 1 => p2[n2[x]] = x)
    <2>1. CASE x = h \/ x = a
      BY <2>1, <1>1, <1>2
    <2>2. CASE x # h /\ x # a
      <3>1. n2[x] = n[x] /\ n[x] \in E /\ n[x] # a /\ (n[x] # 1 => p[n[x]] = x)
        BY <2>2, <1>1, <1>2 DEF IsChain
      <3>2. n[x] # 1 => n[x] # n[h]
        BY <3>1, <2>2 DEF IsChain
      <3> QED
        BY <3>1, <3>2, <1>1
    <2> QED
      BY <2>1, <2>2
  <1>3. ASSUME NEW x \in (E \cup {a}) \ {1}
        PROVE  p2[x] \in R \cup {a} /\ n2[p2[x]] = x
    <2>1. CASE x = a \/ x = n[h]
      BY <2>1, <1>1, <1>3
    <2>2. CASE x # a /\ x # n[h]
      <3>1. p2[x] = p[x] /\ p[x] \in R /\ n[p[x]] = x
        BY <2>2, <1>1, <1>3 DEF IsChain
      <3> QED
        BY <3>1, <2>2, <1>1
    <2> QED
      BY <2>1, <2>2
  <1>4. ASSUME NEW S \in SUBSET (R \cup {a}), S # {}, \A x \in S : n2[x] \in S
        PROVE  1 \in S
    <2> DEFINE T == S \ {a}
    <2>1. \A x \in T : n[x] \in T
      <3> SUFFICES ASSUME NEW x \in T PROVE n[x] \in T
        OBVIOUS
      <3>1. x \in R /\ n[x] \in R /\ n[x] # a /\ n2[x] \in S
        BY <1>1, <1>4 DEF IsChain
      <3>2. CASE x = h
        <4>1. n2[x] = a /\ n2[a] = n[h]
          BY <3>2, <1>1
        <4> QED
          BY <4>1, <3>1, <3>2, <1>1, <1>4
      <3>3. CASE x # h
        BY <3>1, <3>3
      <3> QED
        BY <3>2, <3>3
    <2>2. T # {} /\ T \in SUBSET R
      BY <1>1, <1>4
    <2> QED
      BY <2>1, <2>2 DEF IsChain
  <1>5. E \cup {a} \subseteq R \cup {a}
    BY <1>1
  <1> QED
    BY <1>2, <1>3, <1>4, <1>5 DEF IsChain

\* Block 0 once its table may have been rebuilt: its head may be the root, from
\* which the ring is entered at slot 1.
RootChain(p) ==
    /\ 0 \in Counted(p.array, 0) /\ 1 \in Counted(p.array, 0)
    /\ p.ehead[0] \in Counted(p.array, 0)
    /\ IsChain(Counted(p.array, 0), Emp(p.array, 0), Prv(p.array), Nxt(p.array))

\* What TakeEnode makes of the pool, field by field.
TakenArray(p, e) ==
    [x \in Slots |->
       IF x = e THEN Node(-1, 0)
       ELSE IF p.num[Block(e)] = 1 THEN p.array[x]
       ELSE Node(IF x = - p.array[e].check THEN p.array[e].base ELSE p.array[x].base,
                 IF x = - p.array[e].base THEN p.array[e].check ELSE p.array[x].check)]

TakenNum(p, e)   == [p.num EXCEPT ![Block(e)] = p.num[Block(e)] - 1]
TakenHeads(p, e) == IF p.num[Block(e)] = 1 THEN p.ehead
                    ELSE [p.ehead EXCEPT ![Block(e)] = NextHead(p, e)]
TakenLists(p, e) == ListsAfterTake(p.lists, Block(e), p.num[Block(e)] - 1, p.trial[Block(e)])

\* Slots and their negated links fit the cells of an array.
LEMMA SlotRange ==
    /\ MaxBlocks * B \in Nat /\ MaxBlocks * B >= 2
    /\ \A x \in Slots : - x \in Links /\ x \in Links
    /\ \A x \in Links : x <= 0 => - x \in Slots
    /\ -1 \in Links /\ 0 \in Links /\ 0 \in Slots /\ 1 \in Slots
  <1>1. MaxBlocks * B \in Nat /\ MaxBlocks * B >= 2
    BY BlockAssumption
  <1> QED
    BY <1>1 DEF Slots, Links

\* What TakeEnode makes of each field of the pool (_pop_enode).
LEMMA TakeForm ==
    ASSUME NEW p \in PoolRec, NEW e \in Slots,
           - p.array[e].base \in Slots, - p.array[e].check \in Slots,
           NEW q, q = TakeEnode(p, e, 1, 0)
    PROVE  /\ q.array = TakenArray(p, e)
           /\ q.lists = TakenLists(p, e) /\ q.num = TakenNum(p, e) /\ q.ehead = TakenHeads(p, e)
           /\ q.trial = p.trial /\ q.reject = p.reject /\ q.limit = p.limit /\ q.nblk = p.nblk
  <1> DEFINE b == Block(e)
             k == p.num[b] - 1
             n == p.array[e]
             U == [p.array EXCEPT ![-n.base].check = n.check, ![-n.check].base = n.base]
             A == [IF k = 0 THEN p.array ELSE U EXCEPT ![e] = Node(-1, 0)]
  <1>1. b \in Blocks /\ p.num \in [Blocks -> 0 .. B] /\ p.array \in [Slots -> PoolNodes]
    BY SlotFacts DEF PoolRec
  <1>2. p.num[b] \in 0 .. B /\ (k = 0 <=> p.num[b] = 1)
    BY <1>1, BlockAssumption
  <1>3. /\ U \in [Slots -> [base : Links, check : Links]]
        /\ \A x \in Slots : U[x] = Node(IF x = - n.check THEN n.base ELSE p.array[x].base,
                                        IF x = - n.base THEN n.check ELSE p.array[x].check)
    BY <1>1 DEF Node, PoolNodes
  <1> HIDE DEF U
  <1>4. /\ A = TakenArray(p, e)
    <2>1. A \in [Slots -> [base : Links, check : Links]]
      BY <1>1, <1>3, SlotRange DEF PoolNodes, Node
    <2>2. \A x \in Slots : A[x] = TakenArray(p, e)[x]
      BY <1>1, <1>2, <1>3 DEF TakenArray
    <2>3. A = [x \in Slots |-> A[x]]
      BY <2>1
    <2>4. TakenArray(p, e) = [x \in Slots |-> TakenArray(p, e)[x]]
      BY DEF TakenArray
    <2> QED
      BY <2>2, <2>3, <2>4
  <1> HIDE DEF A
  <1>5. q = [p EXCEPT !.num   = [@ EXCEPT ![b] = k],
                      !.lists = ListsAfterTake(@, b, k, p.trial[b]),
                      !.ehead = IF k = 0 THEN @ ELSE [@ EXCEPT ![b] = NextHead(p, e)],
                      !.array = A]
    BY DEF TakeEnode, U, A
  <1> QED
    BY <1>2, <1>4, <1>5 DEF PoolRec, TakenLists, TakenNum, TakenHeads

\* A block whose slots, head and counter stay keeps its ring.
LEMMA OtherBlock ==
    ASSUME NEW p, NEW q, NEW c \in Blocks,
           \A x \in SlotsOf(c) : q.array[x] = p.array[x],
           q.ehead[c] = p.ehead[c]
    PROVE  /\ Emp(q.array, c) = Emp(p.array, c) /\ Counted(q.array, c) = Counted(p.array, c)
           /\ RingAt(p, c) => RingAt(q, c)
           /\ HeadAt(p, c) => HeadAt(q, c)
           /\ q.num[c] = p.num[c] => (CountAt(p, c) => CountAt(q, c))
           /\ c = 0 => (RootChain(p) => RootChain(q))
  <1>1. Emp(q.array, c) = Emp(p.array, c) /\ Counted(q.array, c) = Counted(p.array, c)
    BY DEF Emp, Counted
  <1>2. \A x \in SlotsOf(c) : /\ Prv(q.array)[x] = Prv(p.array)[x]
                              /\ Nxt(q.array)[x] = Nxt(p.array)[x]
    BY SlotFacts DEF Prv, Nxt
  <1>3. Emp(p.array, c) \subseteq SlotsOf(c) /\ Counted(p.array, c) \subseteq SlotsOf(c)
    BY DEF Emp, Counted
  <1>4. RingAt(p, c) => RingAt(q, c)
    <2> DEFINE E == Emp(p.array, c)
               p1 == Prv(p.array)  n1 == Nxt(p.array)
               p2 == Prv(q.array)  n2 == Nxt(q.array)
    <2>1. \A x \in E : p2[x] = p1[x] /\ n2[x] = n1[x]
      BY <1>2, <1>3
    <2> HIDE DEF E, p1, n1, p2, n2
    <2>2. IsRing(E, p1, n1) => IsRing(E, p2, n2)
      BY <2>1, RingFrame
    <2> QED
      BY <2>2, <1>1 DEF RingAt, E, p1, n1, p2, n2
  <1>5. c = 0 => (RootChain(p) => RootChain(q))
    <2> SUFFICES ASSUME c = 0, RootChain(p) PROVE RootChain(q)
      OBVIOUS
    <2> DEFINE E == Emp(p.array, 0)  R == Counted(p.array, 0)
               p1 == Prv(p.array)  n1 == Nxt(p.array)
               p2 == Prv(q.array)  n2 == Nxt(q.array)
    <2>1. \A x \in R : p2[x] = p1[x] /\ n2[x] = n1[x]
      BY <1>2, <1>3
    <2>3. 0 \in R /\ 1 \in R /\ p.ehead[0] \in R /\ IsChain(R, E, p1, n1)
      BY DEF RootChain
    <2>4. q.ehead[0] = p.ehead[0] /\ Emp(q.array, 0) = E /\ Counted(q.array, 0) = R
      BY <1>1
    <2> HIDE DEF E, R, p1, n1, p2, n2
    <2>5. IsChain(R, E, p2, n2)
      <3>1. /\ E \subseteq R
            /\ \A x \in R : n2[x] \in E /\ (n2[x] # 1 => p2[n2[x]] = x)
            /\ \A x \in E \ {1} : p2[x] \in R /\ n2[p2[x]] = x
        BY <2>1, <2>3 DEF IsChain
      <3>2. ASSUME NEW S \in SUBSET R, S # {}, \A x \in S : n2[x] \in S
            PROVE  1 \in S
        BY <3>2, <2>1, <2>3 DEF IsChain
      <3> QED
        BY <3>1, <3>2 DEF IsChain
    <2> QED
      BY <2>3, <2>4, <2>5 DEF RootChain, p2, n2
  <1> QED
    BY <1>1, <1>4, <1>5 DEF HeadAt, CountAt

-----------------------------------------------------------------------------
\* The slots before and after an empty one.
Between(A, e) ==
    /\ A[e].check < 0 /\ e # 0
    /\ - A[e].base \in Counted(A, Block(e))
    /\ - A[e].check \in Emp(A, Block(e))

\* _pop_enode writes the slot taken and its two neighbours on the ring, and
\* no slot in use; it makes no other slot empty or used.
LEMMA TakeFrame ==
    ASSUME NEW p \in PoolRec, NEW e \in Slots, Between(p.array, e),
           NEW q, q = TakeEnode(p, e, 1, 0)
    PROVE  /\ q.array = TakenArray(p, e)
           /\ q.array \in [Slots -> PoolNodes]
           /\ q.array[e].check = 0
           /\ \A x \in Slots \ {e} : q.array[x].check < 0 <=> p.array[x].check < 0
           /\ \A x \in Slots : Block(x) # Block(e) => q.array[x] = p.array[x]
           /\ \A x \in Slots : p.array[x].check >= 0 => q.array[x] = p.array[x]
           /\ q.array[0].base = p.array[0].base
           /\ Emp(q.array, Block(e)) = Emp(p.array, Block(e)) \ {e}
           /\ Counted(q.array, Block(e)) = Counted(p.array, Block(e)) \ {e}
  <1> DEFINE b == Block(e)
             pr == - p.array[e].base
             nx == - p.array[e].check
  <1>1. /\ b \in Blocks /\ p.array \in [Slots -> PoolNodes]
        /\ pr \in SlotsOf(b) /\ nx \in SlotsOf(b) /\ pr \in Slots /\ nx \in Slots
        /\ p.array[pr].check < 0 /\ p.array[nx].check < 0 /\ nx # 0
    <2>1. b \in Blocks /\ p.array \in [Slots -> PoolNodes]
      BY SlotFacts DEF PoolRec
    <2>2. pr \in Counted(p.array, b) /\ nx \in Emp(p.array, b)
      BY DEF Between
    <2>3. SlotsOf(b) \subseteq Slots
      BY <2>1, SlotFacts
    <2> HIDE DEF b, pr, nx
    <2> QED
      BY <2>1, <2>2, <2>3 DEF Emp, Counted
  <1>2. q.array = TakenArray(p, e)
    <2>1. - p.array[e].base \in Slots
      BY <1>1
    <2>2. - p.array[e].check \in Slots
      BY <1>1
    <2> HIDE DEF pr, nx, b
    <2> QED
      BY <2>1, <2>2, TakeForm
  <1>3. nx \in Nat /\ nx > 0 /\ p.array[e].check = - nx /\ p.array[e].base = - pr
    <2>1. nx \in Nat /\ pr \in Nat
      BY <1>1, SlotFacts
    <2>2. p.array[e].check \in Int /\ p.array[e].base \in Int
      BY <1>1 DEF PoolNodes, Links
    <2> QED
      BY <2>1, <2>2, <1>1
  <1>4. \A x \in Slots \ {e} : q.array[x].check < 0 <=> p.array[x].check < 0
    BY <1>1, <1>2, <1>3 DEF TakenArray, Node
  <1>5. q.array[e].check = 0
    BY <1>2 DEF TakenArray, Node
  <1>6. \A x \in Slots : p.array[x] = Node(p.array[x].base, p.array[x].check)
    BY <1>1 DEF PoolNodes, Node
  <1>7. \A x \in Slots : Block(x) # b => q.array[x] = p.array[x]
    <2> SUFFICES ASSUME NEW x \in Slots, Block(x) # b PROVE q.array[x] = p.array[x]
      OBVIOUS
    <2>1. \A y \in Slots : y \in SlotsOf(b) => Block(y) = b
      BY <1>1, SlotFacts
    <2>2. x # pr /\ x # nx
      <3> HIDE DEF pr, nx
      <3> QED
        BY <2>1, <1>1
    <2>3. x # e
      OBVIOUS
    <2> QED
      BY <2>2, <2>3, <1>2, <1>6 DEF TakenArray
  <1>8. \A x \in Slots : p.array[x].check >= 0 => q.array[x] = p.array[x]
    <2> SUFFICES ASSUME NEW x \in Slots, p.array[x].check >= 0 PROVE q.array[x] = p.array[x]
      OBVIOUS
    <2>1. x # e /\ x # pr /\ x # nx
      <3>1. p.array[x].check \in Int
        BY <1>1 DEF PoolNodes, Links
      <3> QED
        BY <3>1, <1>1 DEF Between
    <2> QED
      BY <2>1, <1>2, <1>6 DEF TakenArray
  <1>9. q.array[0].base = p.array[0].base
    BY <1>1, <1>2, SlotRange DEF TakenArray, Node, Between
  <1>10. q.array \in [Slots -> PoolNodes]
    BY <1>1, <1>2, SlotRange DEF TakenArray, Node, PoolNodes
  <1>11. SlotsOf(b) \subseteq Slots
    BY <1>1, SlotFacts
  <1>12. Emp(q.array, b) = Emp(p.array, b) \ {e} /\ Counted(q.array, b) = Counted(p.array, b) \ {e}
    BY <1>4, <1>5, <1>11 DEF Emp, Counted
  <1> QED
    BY <1>2, <1>4, <1>5, <1>7, <1>8, <1>9, <1>10, <1>12

\* The sets of empty slots before and after _pop_enode.
LEMMA TakeSets ==
    ASSUME NEW p \in PoolRec, NEW e \in Slots, Between(p.array, e),
           NEW q, q = TakeEnode(p, e, 1, 0)
    PROVE  /\ q.array = TakenArray(p, e)
           /\ Emp(q.array, Block(e)) = Emp(p.array, Block(e)) \ {e}
           /\ Counted(q.array, Block(e)) = Counted(p.array, Block(e)) \ {e}
  BY TakeFrame

\* The neighbours of a slot on a ring are empty slots of its block.
LEMMA RingBetween ==
    ASSUME NEW p \in PoolRec, NEW e \in Slots, e \in Emp(p.array, Block(e)),
           RingAt(p, Block(e))
    PROVE  Between(p.array, e)
  <1>1. Prv(p.array)[e] \in Emp(p.array, Block(e)) /\ Nxt(p.array)[e] \in Emp(p.array, Block(e))
    BY DEF RingAt, IsRing
  <1> QED
    BY <1>1 DEF Between, Prv, Nxt, Emp, Counted

\* Taking a slot off a ring.
LEMMA TakeRing ==
    ASSUME NEW p \in PoolRec, NEW e \in Slots, e \in Emp(p.array, Block(e)),
           RingAt(p, Block(e)), HeadAt(p, Block(e)),
           p.num[Block(e)] = 1 <=> Emp(p.array, Block(e)) = {e},
           NEW q, q = TakeEnode(p, e, 1, 0)
    PROVE  RingAt(q, Block(e)) /\ HeadAt(q, Block(e))
  <1> DEFINE b == Block(e)
             E == Emp(p.array, b)
             p1 == Prv(p.array)  n1 == Nxt(p.array)
             p2 == Prv(q.array)  n2 == Nxt(q.array)
  <1>1. Between(p.array, e) /\ b \in Blocks /\ E \subseteq Slots
    BY RingBetween, SlotFacts DEF Emp
  <1>2. /\ q.array = TakenArray(p, e) /\ Emp(q.array, b) = E \ {e}
    BY <1>1, TakeFrame
  <1>3. IsRing(E, p1, n1) /\ p.ehead[b] \in E
    BY DEF RingAt, HeadAt
  <1>4. CASE E = {e}
    BY <1>4, <1>2 DEF RingAt, HeadAt
  <1>5. CASE E # {e}
    <2>1. p.num[b] # 1
      BY <1>5
    <2>2. \A x \in E \ {e} : /\ p2[x] = IF x = n1[e] THEN p1[e] ELSE p1[x]
                             /\ n2[x] = IF x = p1[e] THEN n1[e] ELSE n1[x]
      BY <1>1, <1>2, <2>1 DEF Prv, Nxt, TakenArray, Node
    <2>3. IsRing(E \ {e}, p2, n2)
      <3> HIDE DEF E, p1, n1, p2, n2
      <3> QED
        BY <1>3, <2>2, RingUnlink DEF E
    <2>4. n1[e] \in E \ {e}
      <3> HIDE DEF E, p1, n1
      <3>1. n1[e] \in E
        BY <1>3 DEF IsRing, E
      <3> QED
        BY <3>1, <1>3, <1>5, RingAlone DEF E
    <2>5. q.ehead = [p.ehead EXCEPT ![b] = NextHead(p, e)]
      <3>1. - p.array[e].base \in Slots
        BY <1>1, SlotFacts DEF Between, Counted
      <3>2. - p.array[e].check \in Slots
        BY <1>1, SlotFacts DEF Between, Emp
      <3>3. q.ehead = TakenHeads(p, e)
        BY <3>1, <3>2, TakeForm
      <3> QED
        BY <3>3, <2>1 DEF TakenHeads
    <2>6. q.ehead[b] \in E \ {e}
      <3>1. q.ehead[b] = NextHead(p, e)
        BY <1>1, <2>5 DEF PoolRec
      <3> QED
        BY <3>1, <2>4, <1>3 DEF NextHead, Nxt
    <2> QED
      BY <1>2, <2>3, <2>6 DEF RingAt, HeadAt
  <1> QED
    BY <1>4, <1>5

\* So they are on the chain a restored block 0 has.
LEMMA ChainBetween ==
    ASSUME NEW p \in PoolRec, NEW e \in Slots, e \in Emp(p.array, 0), e # 1, RootChain(p)
    PROVE  Between(p.array, e)
  <1>1. Block(e) = 0 /\ p.array[e].check < 0 /\ e # 0
    BY SlotFacts DEF Emp
  <1>2. Emp(p.array, 0) \subseteq Counted(p.array, 0)
    BY DEF Emp, Counted
  <1>3. Prv(p.array)[e] \in Counted(p.array, 0) /\ Nxt(p.array)[e] \in Emp(p.array, 0)
    BY <1>2 DEF RootChain, IsChain
  <1> QED
    BY <1>1, <1>3 DEF Between, Prv, Nxt

\* Taking a slot of block 0, but not the first one after the root.
LEMMA TakeChain ==
    ASSUME NEW p \in PoolRec, NEW e \in Slots, e \in Emp(p.array, 0), e # 1, RootChain(p),
           p.num[0] # 1,
           NEW q, q = TakeEnode(p, e, 1, 0)
    PROVE  RootChain(q)
  <1> DEFINE R == Counted(p.array, 0)
             E == Emp(p.array, 0)
             p1 == Prv(p.array)  n1 == Nxt(p.array)
             p2 == Prv(q.array)  n2 == Nxt(q.array)
  <1>0. Between(p.array, e)
    BY ChainBetween
  <1>1. /\ Block(e) = 0 /\ R \subseteq Slots
        /\ - p.array[e].base \in Slots /\ - p.array[e].check \in Slots
    BY <1>0, SlotFacts DEF Between, Counted, Emp
  <1>2. /\ q.array = TakenArray(p, e) /\ Emp(q.array, 0) = E \ {e}
        /\ Counted(q.array, 0) = R \ {e}
    <2>1. /\ q.array = TakenArray(p, e)
          /\ Emp(q.array, Block(e)) = Emp(p.array, Block(e)) \ {e}
          /\ Counted(q.array, Block(e)) = Counted(p.array, Block(e)) \ {e}
      BY <1>0, TakeSets
    <2> QED
      BY <2>1, <1>1
  <1>3. IsChain(R, E, p1, n1) /\ p.ehead[0] \in R /\ 0 \in R /\ 1 \in R /\ e # 0
    BY DEF RootChain, Emp
  <1>4. \A x \in R \ {e} : /\ p2[x] = IF x = n1[e] THEN p1[e] ELSE p1[x]
                           /\ n2[x] = IF x = p1[e] THEN n1[e] ELSE n1[x]
    BY <1>1, <1>2 DEF Prv, Nxt, TakenArray, Node
  <1>5. IsChain(R \ {e}, E \ {e}, p2, n2) /\ n1[e] \in E \ {e}
    <2> HIDE DEF E, R, p1, n1, p2, n2
    <2> QED
      BY <1>3, <1>4, ChainUnlink DEF E
  <1>6. q.ehead = [p.ehead EXCEPT ![0] = NextHead(p, e)]
    <2>1. - p.array[e].base \in Slots
      BY <1>1
    <2>2. - p.array[e].check \in Slots
      BY <1>1
    <2>3. q.ehead = TakenHeads(p, e)
      BY <2>1, <2>2, TakeForm
    <2> QED
      BY <2>3, <1>1 DEF TakenHeads
  <1>7. q.ehead[0] \in R \ {e}
    <2>1. q.ehead[0] = NextHead(p, e)
      BY <1>6, SlotFacts DEF PoolRec
    <2>2. E \subseteq R
      BY DEF Emp, Counted
    <2> QED
      BY <2>1, <2>2, <1>1, <1>3, <1>5 DEF NextHead, Nxt
  <1> QED
    BY <1>2, <1>3, <1>5, <1>7 DEF RootChain

-----------------------------------------------------------------------------
(* _push_enode.                                                            *)

\* The head of a block that has empty slots is one, and so is what follows.
Entered(p, b) ==
    p.num[b] # 0 => /\ p.ehead[b] \in Counted(p.array, b)
                    /\ - p.array[p.ehead[b]].check \in Emp(p.array, b)

\* What PushEnode makes of the pool, field by field.
PushedArray(p, e) ==
    LET h == p.ehead[Block(e)]
        next == - p.array[h].check
    IN  [x \in Slots |->
           IF p.num[Block(e)] = 0 THEN IF x = e THEN Node(-e, -e) ELSE p.array[x]
           ELSE IF x = e THEN Node(-h, -next)
           ELSE Node(IF x = next THEN -e ELSE p.array[x].base,
                     IF x = h THEN -e ELSE p.array[x].check)]

PushedNum(p, e)   == [p.num EXCEPT ![Block(e)] = p.num[Block(e)] + 1]
PushedTrial(p, e) == IF p.num[Block(e)] = 0 THEN p.trial ELSE [p.trial EXCEPT ![Block(e)] = 0]
PushedHeads(p, e) == IF p.num[Block(e)] = 0 THEN [p.ehead EXCEPT ![Block(e)] = e] ELSE p.ehead
PushedLists(p, e) == ListsAfterReturn(p.lists, Block(e), p.num[Block(e)] + 1, p.trial[Block(e)])
PushedReject(p, e, r) == [p.reject EXCEPT ![Block(e)] = r]

\* What PushEnode makes of each field of the pool (_push_enode).
LEMMA PushForm ==
    ASSUME NEW p \in PoolRec, NEW e \in Slots, p.array[e].check >= 0,
           Entered(p, Block(e)),
           NEW q, q = PushEnode(p, e)
    PROVE  /\ q.array = PushedArray(p, e)
           /\ q.lists = PushedLists(p, e) /\ q.num = PushedNum(p, e)
           /\ q.trial = PushedTrial(p, e) /\ q.ehead = PushedHeads(p, e)
           /\ \E r \in {p.reject[Block(e)], p.limit[p.num[Block(e)] + 1]} :
                 q.reject = PushedReject(p, e, r)
           /\ q.limit = p.limit /\ q.nblk = p.nblk
  <1> DEFINE b == Block(e)
             k == p.num[b] + 1
             h == p.ehead[b]
             next == - p.array[h].check
             N == [p.num EXCEPT ![b] = k]
             L == ListsAfterReturn(p.lists, b, k, p.trial[b])
             r == IF p.reject[b] < p.limit[k] THEN p.limit[k] ELSE p.reject[b]
             J == [p.reject EXCEPT ![b] = r]
  <1>1. b \in Blocks /\ p.num \in [Blocks -> 0 .. B] /\ p.array \in [Slots -> PoolNodes]
    BY SlotFacts DEF PoolRec
  <1>2. p.num[b] \in 0 .. B /\ (k = 1 <=> p.num[b] = 0)
    BY <1>1, BlockAssumption
  <1>3. J = [p.reject EXCEPT ![b] = r] /\ r \in {p.reject[b], p.limit[k]}
    OBVIOUS
  <1>4. CASE p.num[b] = 0
    <2> DEFINE A == [p.array EXCEPT ![e] = Node(-e, -e)]
               H == [p.ehead EXCEPT ![b] = e]
    <2>1. A = PushedArray(p, e)
      <3>1. A = [x \in Slots |-> A[x]]
        BY <1>1
      <3>2. PushedArray(p, e) = [x \in Slots |-> PushedArray(p, e)[x]]
        BY DEF PushedArray
      <3>3. \A x \in Slots : A[x] = PushedArray(p, e)[x]
        BY <1>1, <1>4 DEF PushedArray
      <3> QED
        BY <3>1, <3>2, <3>3
    <2>2. q = [[p EXCEPT !.ehead = H, !.array = A] EXCEPT
                 !.num    = [@ EXCEPT ![b] = k],
                 !.lists  = ListsAfterReturn(@, b, k, p.trial[b]),
                 !.reject = [@ EXCEPT ![b] = r]]
      BY <1>2, <1>4 DEF PushEnode
    <2> HIDE DEF A, H, r, k
    <2>3. /\ q.array = A /\ q.lists = L /\ q.num = N /\ q.trial = p.trial /\ q.ehead = H
          /\ q.reject = J /\ q.limit = p.limit /\ q.nblk = p.nblk
      BY <2>2 DEF PoolRec
    <2> QED
      BY <2>1, <2>3, <1>3, <1>4 DEF H, k, PushedLists, PushedNum, PushedTrial, PushedHeads, PushedReject
  <1>5. CASE p.num[b] # 0
    <2> DEFINE A0 == [p.array EXCEPT ![e] = Node(-h, -next)]
               A == [A0 EXCEPT ![h].check = -e, ![next].base = -e]
               T == [p.trial EXCEPT ![b] = 0]
    <2>1. h \in Slots /\ next \in Slots /\ h # e /\ next # e
      <3>1. h \in Counted(p.array, b) /\ next \in Emp(p.array, b)
        BY <1>5 DEF Entered
      <3>2. SlotsOf(b) \subseteq Slots
        BY <1>1, SlotFacts
      <3>3. p.array[e].check \in Int
        BY <1>1 DEF PoolNodes, Links
      <3> HIDE DEF h, next
      <3> QED
        BY <3>1, <3>2, <3>3 DEF Counted, Emp
    <2>2. A = PushedArray(p, e)
      <3>1. /\ A0 \in [Slots -> [base : Int, check : Int]]
            /\ \A x \in Slots : A0[x] = IF x = e THEN Node(-h, -next) ELSE p.array[x]
        <4>1. -h \in Int /\ -next \in Int
          <5> HIDE DEF h, next
          <5> QED
            BY <2>1, SlotFacts
        <4>2. p.array \in [Slots -> [base : Int, check : Int]]
          BY <1>1 DEF PoolNodes, Links
        <4> HIDE DEF h, next
        <4> QED
          BY <4>1, <4>2 DEF Node
      <3> HIDE DEF A0
      <3>2. /\ A \in [Slots -> [base : Int, check : Int]]
            /\ \A x \in Slots : A[x] = Node(IF x = next THEN -e ELSE A0[x].base,
                                            IF x = h THEN -e ELSE A0[x].check)
        <4>1. -e \in Int
          BY SlotFacts
        <4> HIDE DEF h, next
        <4> QED
          BY <4>1, <3>1, <2>1 DEF Node
      <3>3. PushedArray(p, e) = [x \in Slots |-> PushedArray(p, e)[x]]
        BY DEF PushedArray
      <3>4. \A x \in Slots : A[x] = PushedArray(p, e)[x]
        BY <1>5, <2>1, <3>1, <3>2 DEF PushedArray, Node
      <3>5. A = [x \in Slots |-> A[x]]
        BY <3>2
      <3> QED
        BY <3>3, <3>4, <3>5
    <2>3. q = [[p EXCEPT !.trial = T, !.array = A] EXCEPT
                 !.num    = [@ EXCEPT ![b] = k],
                 !.lists  = ListsAfterReturn(@, b, k, p.trial[b]),
                 !.reject = [@ EXCEPT ![b] = r]]
      <3>1. k # 1
        BY <1>2, <1>5
      <3> QED
        BY <3>1 DEF PushEnode
    <2> HIDE DEF A, T, r, k
    <2>4. /\ q.array = A /\ q.lists = L /\ q.num = N /\ q.trial = T /\ q.ehead = p.ehead
          /\ q.reject = J /\ q.limit = p.limit /\ q.nblk = p.nblk
      BY <2>3 DEF PoolRec
    <2> QED
      BY <2>2, <2>4, <1>3, <1>5 DEF T, k, PushedLists, PushedNum, PushedTrial, PushedHeads, PushedReject
  <1> QED
    BY <1>4, <1>5

\* _push_enode writes the slot given back and two empty slots of its block,
\* and no slot in use; it makes no other slot empty or used.
LEMMA PushFrame ==
    ASSUME NEW p \in PoolRec, NEW e \in Slots, p.array[e].check >= 0, e # 0,
           Entered(p, Block(e)),
           NEW q, q = PushEnode(p, e)
    PROVE  /\ q.array = PushedArray(p, e)
           /\ q.array \in [Slots -> PoolNodes]
           /\ q.array[e].check < 0
           /\ \A x \in Slots \ {e} : q.array[x].check < 0 <=> p.array[x].check < 0
           /\ \A x \in Slots : Block(x) # Block(e) => q.array[x] = p.array[x]
           /\ \A x \in Slots \ {e} : p.array[x].check >= 0 => q.array[x] = p.array[x]
           /\ q.array[0].base = p.array[0].base
  <1> DEFINE b == Block(e)
             h == p.ehead[b]
             next == - p.array[h].check
  <1>1. /\ b \in Blocks /\ p.array \in [Slots -> PoolNodes] /\ SlotsOf(b) \subseteq Slots
        /\ \A x \in Slots : p.array[x].check \in Int /\ p.array[x].base \in Int
        /\ e \in Nat /\ e > 0 /\ -e \in Links /\ -e < 0 /\ e \in SlotsOf(b)
    <2>1. b \in Blocks /\ e \in Nat /\ e \in SlotsOf(b) /\ -e \in Links
      BY SlotFacts, SlotRange
    <2>2. SlotsOf(b) \subseteq Slots
      BY <2>1, SlotFacts
    <2>3. p.array \in [Slots -> PoolNodes]
      BY DEF PoolRec
    <2>4. \A x \in Slots : p.array[x].check \in Int /\ p.array[x].base \in Int
      BY <2>3 DEF PoolNodes, Links
    <2> QED
      BY <2>1, <2>2, <2>3, <2>4
  <1>2. q.array = PushedArray(p, e)
    BY PushForm
  <1>3. p.num[b] # 0 => /\ h \in SlotsOf(b) /\ next \in SlotsOf(b) /\ h \in Slots /\ next \in Slots
                        /\ p.array[h].check < 0 /\ p.array[next].check < 0 /\ next # 0
                        /\ h # e /\ next # e /\ - next < 0 /\ - next \in Links /\ - h \in Links
    <2> SUFFICES ASSUME p.num[b] # 0
                 PROVE  /\ h \in SlotsOf(b) /\ next \in SlotsOf(b) /\ h \in Slots /\ next \in Slots
                        /\ p.array[h].check < 0 /\ p.array[next].check < 0 /\ next # 0
                        /\ h # e /\ next # e /\ - next < 0 /\ - next \in Links /\ - h \in Links
      OBVIOUS
    <2>1. h \in Counted(p.array, b) /\ next \in Emp(p.array, b)
      BY DEF Entered
    <2> HIDE DEF h, next
    <2>2. /\ h \in SlotsOf(b) /\ next \in SlotsOf(b) /\ h \in Slots /\ next \in Slots
          /\ p.array[h].check < 0 /\ p.array[next].check < 0 /\ next # 0
          /\ h # e /\ next # e
      BY <2>1, <1>1 DEF Counted, Emp
    <2>3. next \in Nat /\ next > 0
      BY <2>2, SlotFacts
    <2> QED
      BY <2>2, <2>3, SlotRange
  <1>4. \A x \in Slots \ {e} : q.array[x].check < 0 <=> p.array[x].check < 0
    BY <1>1, <1>2, <1>3 DEF PushedArray, Node
  <1>5. q.array[e].check < 0
    BY <1>1, <1>2, <1>3 DEF PushedArray, Node
  <1>6. \A x \in Slots : p.array[x] = Node(p.array[x].base, p.array[x].check)
    BY <1>1 DEF PoolNodes, Node
  <1>7. \A x \in Slots : Block(x) # b => q.array[x] = p.array[x]
    <2> SUFFICES ASSUME NEW x \in Slots, Block(x) # b PROVE q.array[x] = p.array[x]
      OBVIOUS
    <2>1. x # e /\ (p.num[b] # 0 => x # h /\ x # next)
      BY <1>1, <1>3, SlotFacts
    <2> QED
      BY <2>1, <1>2, <1>6 DEF PushedArray
  <1>8. \A x \in Slots \ {e} : p.array[x].check >= 0 => q.array[x] = p.array[x]
    <2> SUFFICES ASSUME NEW x \in Slots \ {e}, p.array[x].check >= 0 PROVE q.array[x] = p.array[x]
      OBVIOUS
    <2>1. p.num[b] # 0 => x # h /\ x # next
      BY <1>1, <1>3
    <2> QED
      BY <2>1, <1>2, <1>6 DEF PushedArray
  <1>9. q.array[0].base = p.array[0].base
    BY <1>1, <1>2, <1>3, SlotRange DEF PushedArray, Node
  <1>10. q.array \in [Slots -> PoolNodes]
    <2>1. ASSUME NEW x \in Slots PROVE q.array[x] \in PoolNodes
      <3>1. CASE p.num[b] = 0
        BY <3>1, <1>1, <1>2 DEF PushedArray, Node, PoolNodes
      <3>2. CASE p.num[b] # 0
        BY <3>2, <1>1, <1>2, <1>3 DEF PushedArray, Node, PoolNodes
      <3> QED
        BY <3>1, <3>2
    <2> QED
      BY <2>1, <1>2 DEF PushedArray
  <1> QED
    BY <1>2, <1>4, <1>5, <1>7, <1>8, <1>9, <1>10

\* The sets of empty slots before and after _push_enode.
LEMMA PushSets ==
    ASSUME NEW p \in PoolRec, NEW e \in Slots, p.array[e].check >= 0, e # 0,
           Entered(p, Block(e)),
           NEW q, q = PushEnode(p, e)
    PROVE  /\ q.array = PushedArray(p, e)
           /\ e \notin Counted(p.array, Block(e))
           /\ Emp(q.array, Block(e)) = Emp(p.array, Block(e)) \cup {e}
           /\ Counted(q.array, Block(e)) = Counted(p.array, Block(e)) \cup {e}
  <1> DEFINE b == Block(e)
  <1>1. q.array = PushedArray(p, e)
    BY PushFrame
  <1>2. q.array[e].check < 0
    BY PushFrame
  <1>3. \A x \in Slots \ {e} : q.array[x].check < 0 <=> p.array[x].check < 0
    BY PushFrame
  <1>4. e \in SlotsOf(b) /\ SlotsOf(b) \subseteq Slots /\ p.array[e].check \in Int
    <2>1. b \in Blocks /\ e \in SlotsOf(b)
      BY SlotFacts
    <2>2. SlotsOf(b) \subseteq Slots
      BY <2>1, SlotFacts
    <2>3. p.array[e].check \in Int
      BY DEF PoolRec, PoolNodes, Links
    <2> QED
      BY <2>1, <2>2, <2>3
  <1>5. \A x \in SlotsOf(b) : q.array[x].check < 0 <=> (p.array[x].check < 0 \/ x = e)
    BY <1>2, <1>3, <1>4
  <1> HIDE DEF b
  <1>6. e \notin Counted(p.array, b)
    BY <1>4 DEF Counted
  <1>7. Counted(q.array, b) = Counted(p.array, b) \cup {e}
    BY <1>4, <1>5 DEF Counted
  <1>8. Emp(q.array, b) = Emp(p.array, b) \cup {e}
    BY <1>4, <1>5 DEF Emp
  <1> QED
    BY <1>1, <1>6, <1>7, <1>8 DEF b

\* Giving a slot back to a ring.
LEMMA PushRing ==
    ASSUME NEW p \in PoolRec, NEW e \in Slots, p.array[e].check >= 0, e # 0,
           RingAt(p, Block(e)), HeadAt(p, Block(e)),
           p.num[Block(e)] = 0 <=> Emp(p.array, Block(e)) = {},
           NEW q, q = PushEnode(p, e)
    PROVE  Entered(p, Block(e)) /\ RingAt(q, Block(e)) /\ HeadAt(q, Block(e))
  <1> DEFINE b == Block(e)
             E == Emp(p.array, b)
             h == p.ehead[b]
             p1 == Prv(p.array)  n1 == Nxt(p.array)
             p2 == Prv(q.array)  n2 == Nxt(q.array)
  <1>1. b \in Blocks /\ E \subseteq Slots /\ E \subseteq Counted(p.array, b)
    BY SlotFacts DEF Emp, Counted
  <1>2. Entered(p, b)
    <2> SUFFICES ASSUME p.num[b] # 0 PROVE h \in E /\ n1[h] \in E
      BY <1>1 DEF Entered, Nxt
    <2> QED
      BY DEF RingAt, HeadAt, IsRing
  <1>3. q.array = PushedArray(p, e) /\ Emp(q.array, b) = E \cup {e} /\ e \notin E
    BY <1>1, <1>2, PushSets
  <1>4. CASE p.num[b] = 0
    <2>1. E = {} /\ q.ehead = [p.ehead EXCEPT ![b] = e]
      <3>1. q.ehead = PushedHeads(p, e)
        BY <1>2, PushForm
      <3> QED
        BY <3>1, <1>4 DEF PushedHeads
    <2>2. q.ehead[b] = e
      BY <2>1, <1>1 DEF PoolRec
    <2>3. p2[e] = e /\ n2[e] = e
      BY <1>3, <1>4, SlotFacts DEF Prv, Nxt, PushedArray, Node
    <2>4. IsRing({e}, p2, n2)
      BY <2>3, RingSingleton
    <2> QED
      <3>1. Emp(q.array, b) = {e}
        BY <2>1, <1>3
      <3> QED
        BY <3>1, <2>2, <2>4, <1>2 DEF RingAt, HeadAt
  <1>5. CASE p.num[b] # 0
    <2>1. IsRing(E, p1, n1) /\ h \in E
      BY <1>5 DEF RingAt, HeadAt
    <2>2. n1[h] \in E /\ p1[n1[h]] = h
      <3> HIDE DEF E, p1, n1, h
      <3> QED
        BY <2>1 DEF IsRing
    <2>3. \A x \in E \cup {e} :
             /\ p2[x] = IF x = n1[h] THEN e ELSE IF x = e THEN p1[n1[h]] ELSE p1[x]
             /\ n2[x] = IF x = p1[n1[h]] THEN e ELSE IF x = e THEN n1[h] ELSE n1[x]
      <3>1. \A x \in E \cup {e} : x \in Slots
        BY <1>1
      <3>2. n1[h] # e /\ h # e /\ n1[h] = - p.array[h].check
        BY <2>1, <2>2, <1>1, <1>3 DEF Nxt
      <3>3. h \in Nat /\ n1[h] \in Nat /\ e \in Nat
        BY <2>1, <2>2, <1>1, SlotFacts
      <3>4. ASSUME NEW x \in Slots
            PROVE  /\ p2[x] = IF x = n1[h] THEN e ELSE IF x = e THEN h ELSE p1[x]
                   /\ n2[x] = IF x = h THEN e ELSE IF x = e THEN n1[h] ELSE n1[x]
        <4>1. q.array[x] = IF x = e THEN Node(-h, - n1[h])
                           ELSE Node(IF x = n1[h] THEN -e ELSE p.array[x].base,
                                     IF x = h THEN -e ELSE p.array[x].check)
          BY <1>3, <1>5, <3>2 DEF PushedArray
        <4>2. /\ q.array[x].base = IF x = e THEN -h ELSE IF x = n1[h] THEN -e ELSE p.array[x].base
              /\ q.array[x].check = IF x = e THEN - n1[h] ELSE IF x = h THEN -e ELSE p.array[x].check
          BY <4>1 DEF Node
        <4>3. /\ p2[x] = - q.array[x].base /\ n2[x] = - q.array[x].check
              /\ p1[x] = - p.array[x].base /\ n1[x] = - p.array[x].check
          BY DEF Prv, Nxt
        <4> HIDE DEF p1, p2, n1, n2, h
        <4> QED
          BY <4>2, <4>3, <3>2, <3>3
      <3> QED
        BY <2>2, <3>1, <3>4
    <2>4. IsRing(E \cup {e}, p2, n2)
      <3> HIDE DEF E, p1, n1, p2, n2, h
      <3> QED
        BY <1>3, <2>1, <2>2, <2>3, RingLink
    <2>5. q.ehead = p.ehead
      <3>1. q.ehead = PushedHeads(p, e)
        BY <1>2, PushForm
      <3> QED
        BY <3>1, <1>5 DEF PushedHeads
    <2>6. Emp(q.array, b) = E \cup {e} /\ q.ehead[b] \in E \cup {e}
      BY <1>3, <2>1, <2>5
    <2> HIDE DEF E
    <2> QED
      BY <2>4, <2>6, <1>2 DEF RingAt, HeadAt
  <1> QED
    BY <1>2, <1>4, <1>5

\* _push_enode keeps the chain of a restored block 0, as long as slot 1 is
\* never used.
LEMMA PushChain ==
    ASSUME NEW p \in PoolRec, NEW e \in Slots, Block(e) = 0, p.array[e].check >= 0,
           RootChain(p), p.num[0] # 0,
           NEW q, q = PushEnode(p, e)
    PROVE  Entered(p, 0) /\ RootChain(q)
  <1> DEFINE R == Counted(p.array, 0)
             E == Emp(p.array, 0)
             h == p.ehead[0]
             p1 == Prv(p.array)  n1 == Nxt(p.array)
             p2 == Prv(q.array)  n2 == Nxt(q.array)
  <1>1. R \subseteq Slots /\ E \subseteq R /\ p.array \in [Slots -> PoolNodes]
    BY SlotFacts DEF Emp, Counted, PoolRec
  <1>2. IsChain(R, E, p1, n1) /\ h \in R /\ 0 \in R /\ 1 \in R
    BY DEF RootChain
  <1>3. n1[h] \in E
    BY <1>2 DEF IsChain
  <1>4. Entered(p, 0) /\ Entered(p, Block(e)) /\ e # 0
    <2>1. p.array[0].check < 0 /\ p.array[0].check \in Int
      BY <1>2, <1>1, SlotFacts DEF Counted, PoolNodes, Links
    <2> QED
      BY <2>1, <1>1, <1>2, <1>3 DEF Entered, Nxt
  <1>5. /\ q.array = PushedArray(p, e) /\ Emp(q.array, 0) = E \cup {e}
        /\ Counted(q.array, 0) = R \cup {e} /\ e \notin R
    <2>0. e # 0
      BY <1>4
    <2>1. Entered(p, Block(e))
      BY <1>4
    <2>2. /\ q.array = PushedArray(p, e) /\ e \notin Counted(p.array, Block(e))
          /\ Emp(q.array, Block(e)) = Emp(p.array, Block(e)) \cup {e}
          /\ Counted(q.array, Block(e)) = Counted(p.array, Block(e)) \cup {e}
      BY <2>0, <2>1, PushSets
    <2> QED
      BY <2>2
  <1>6. \A x \in R \cup {e} :
           /\ p2[x] = IF x = n1[h] THEN e ELSE IF x = e THEN h ELSE p1[x]
           /\ n2[x] = IF x = h THEN e ELSE IF x = e THEN n1[h] ELSE n1[x]
    <2>1. n1[h] # e /\ h # e /\ n1[h] = - p.array[h].check
      BY <1>1, <1>2, <1>3, <1>5 DEF Nxt
    <2>2. h \in Nat /\ n1[h] \in Nat /\ e \in Nat
      BY <1>1, <1>2, <1>3, SlotFacts
    <2>3. ASSUME NEW x \in Slots
          PROVE  /\ p2[x] = IF x = n1[h] THEN e ELSE IF x = e THEN h ELSE p1[x]
                 /\ n2[x] = IF x = h THEN e ELSE IF x = e THEN n1[h] ELSE n1[x]
      <3>1. q.array[x] = IF x = e THEN Node(-h, - n1[h])
                         ELSE Node(IF x = n1[h] THEN -e ELSE p.array[x].base,
                                   IF x = h THEN -e ELSE p.array[x].check)
        BY <1>5, <2>1 DEF PushedArray
      <3>2. /\ q.array[x].base = IF x = e THEN -h ELSE IF x = n1[h] THEN -e ELSE p.array[x].base
            /\ q.array[x].check = IF x = e THEN - n1[h] ELSE IF x = h THEN -e ELSE p.array[x].check
        BY <3>1 DEF Node
      <3>3. /\ p2[x] = - q.array[x].base /\ n2[x] = - q.array[x].check
            /\ p1[x] = - p.array[x].base /\ n1[x] = - p.array[x].check
        BY DEF Prv, Nxt
      <3> HIDE DEF p1, p2, n1, n2, h
      <3> QED
        BY <3>2, <3>3, <2>1, <2>2
    <2> QED
      BY <2>3, <1>1
  <1>7. IsChain(R \cup {e}, E \cup {e}, p2, n2)
    <2> HIDE DEF E, R, p1, n1, p2, n2, h
    <2> QED
      BY <1>2, <1>5, <1>6, ChainLink
  <1>8. q.ehead = p.ehead
    <2>1. Entered(p, Block(e))
      BY <1>4
    <2>2. q.ehead = PushedHeads(p, e)
      BY <2>1, PushForm
    <2> QED
      BY <2>2 DEF PushedHeads
  <1> QED
    BY <1>2, <1>4, <1>5, <1>7, <1>8 DEF RootChain

-----------------------------------------------------------------------------
(* Counting.                                                               *)

\* A block has at most B empty slots.
LEMMA CountedFinite ==
    ASSUME NEW A, NEW b \in Blocks
    PROVE  IsFiniteSet(Counted(A, b)) /\ Cardinality(Counted(A, b)) \in 0 .. B
  <1>1. Counted(A, b) \subseteq SlotsOf(b)
    BY DEF Counted
  <1> QED
    BY <1>1, SlotsFinite, FS_Subset, FS_CardinalityType, BlockAssumption

\* The counter of a block stays right when one empty slot fewer is counted,
LEMMA CountLess ==
    ASSUME NEW p, NEW q, NEW b \in Blocks, NEW e \in Counted(p.array, b), CountAt(p, b),
           Counted(q.array, b) = Counted(p.array, b) \ {e}, q.num[b] = p.num[b] - 1
    PROVE  CountAt(q, b) /\ p.num[b] >= 1
  <1>1. IsFiniteSet(Counted(p.array, b))
    BY CountedFinite
  <1>2. Cardinality(Counted(p.array, b) \ {e}) = Cardinality(Counted(p.array, b)) - 1
    BY <1>1, FS_RemoveElement
  <1>3. Cardinality(Counted(p.array, b) \ {e}) \in Nat /\ Cardinality(Counted(p.array, b)) \in Nat
    BY <1>1, FS_RemoveElement, FS_CardinalityType
  <1> QED
    BY <1>2, <1>3 DEF CountAt

\* and when one more is.
LEMMA CountMore ==
    ASSUME NEW p, NEW q, NEW b \in Blocks, NEW e \in SlotsOf(b), e \notin Counted(p.array, b),
           CountAt(p, b),
           Counted(q.array, b) = Counted(p.array, b) \cup {e}, q.num[b] = p.num[b] + 1
    PROVE  CountAt(q, b) /\ p.num[b] < B
  <1>1. IsFiniteSet(Counted(p.array, b)) /\ Cardinality(Counted(p.array, b)) \in Nat
    BY CountedFinite, FS_CardinalityType
  <1>2. Cardinality(Counted(p.array, b) \cup {e}) = Cardinality(Counted(p.array, b)) + 1
    BY <1>1, FS_AddElement
  <1>3. Cardinality(Counted(q.array, b)) \in 0 .. B
    BY CountedFinite
  <1> QED
    BY <1>1, <1>2, <1>3, BlockAssumption DEF CountAt

\* The counter tells an empty set and a set of one, as _pop_enode and
\* _push_enode use it.
LEMMA CountZero ==
    ASSUME NEW p, NEW b \in Blocks, CountAt(p, b)
    PROVE  /\ p.num[b] = 0 <=> Counted(p.array, b) = {}
           /\ \A e \in Counted(p.array, b) : p.num[b] = 1 <=> Counted(p.array, b) = {e}
  <1>1. IsFiniteSet(Counted(p.array, b))
    BY CountedFinite
  <1>2. p.num[b] = 0 <=> Counted(p.array, b) = {}
    BY <1>1, FS_EmptySet DEF CountAt
  <1>3. Cardinality(Counted(p.array, b)) = 1 <=> \E x : Counted(p.array, b) = {x}
    BY <1>1, FS_Singleton
  <1> QED
    BY <1>2, <1>3 DEF CountAt

-----------------------------------------------------------------------------
(* The other operations.                                                   *)

\* The slots _find_place walks through are empty slots of the block.
LEMMA EmptiesIn ==
    ASSUME NEW p, NEW b \in Blocks, p.num[b] \in Nat, Emp(p.array, b) # {},
           RingAt(p, b), HeadAt(p, b)
    PROVE  \A i \in 1 .. p.num[b] : Empties(p, b)[i] \in Emp(p.array, b)
  <1> DEFINE E == Emp(p.array, b)
             Step(f, i) == IF i = 1 THEN p.ehead[b] ELSE - p.array[f[i - 1]].check
             Good(f, n) == f = [i \in 1 .. n |-> Step(f, i)]
             Bad == {n \in Nat : ~ \E f : Good(f, n)}
  <1>1. Bad = {}
    <2> SUFFICES ASSUME Bad # {} PROVE FALSE
      OBVIOUS
    <2>1. Bad \in SUBSET Nat
      OBVIOUS
    <2> HIDE DEF Bad
    <2>2. PICK m \in Bad : \A x \in Bad : m <= x
      BY <2>1, Least
    <2>3. m \in Nat /\ ~ \E f : Good(f, m)
      BY DEF Bad
    <2>4. CASE m = 0
      <3>1. Good([i \in 1 .. 0 |-> 0], 0)
        OBVIOUS
      <3> QED
        BY <3>1, <2>3, <2>4
    <2>5. CASE m # 0
      <3>1. m - 1 \in Nat /\ m - 1 \notin Bad
        BY <2>2, <2>3, <2>5
      <3>2. PICK f : Good(f, m - 1)
        BY <3>1 DEF Bad
      <3> DEFINE g == [i \in 1 .. m |-> Step(f, i)]
      <3>3. ASSUME NEW i \in 1 .. m PROVE Step(g, i) = Step(f, i)
        <4>1. CASE i = 1
          BY <4>1
        <4>2. CASE i # 1
          <5>1. i - 1 \in 1 .. m /\ i - 1 \in 1 .. m - 1
            BY <4>2, <2>3
          <5>2. g[i - 1] = Step(f, i - 1)
            BY <5>1
          <5>3. f[i - 1] = Step(f, i - 1)
            <6> HIDE DEF Step
            <6> QED
              BY <5>1, <3>2
          <5> HIDE DEF g
          <5> QED
            BY <4>2, <5>2, <5>3
        <4> QED
          BY <4>1, <4>2
      <3>4. Good(g, m)
        <4> HIDE DEF Step
        <4> QED
          BY <3>3
      <3> QED
        BY <3>4, <2>3
    <2> QED
      BY <2>4, <2>5
  <1>2. PICK f : Good(f, p.num[b])
    BY <1>1
  <1>3. Good(Empties(p, b), p.num[b])
    BY <1>2 DEF Empties
  <1> DEFINE r == Empties(p, b)
             Out == {i \in 1 .. p.num[b] : r[i] \notin E}
  <1> HIDE DEF r
  <1>4. Out = {}
    <2> SUFFICES ASSUME Out # {} PROVE FALSE
      OBVIOUS
    <2>1. Out \in SUBSET Nat
      OBVIOUS
    <2> HIDE DEF Out
    <2>2. PICK m \in Out : \A x \in Out : m <= x
      BY <2>1, Least
    <2>3. m \in 1 .. p.num[b] /\ r[m] \notin E
      BY DEF Out
    <2>4. r[m] = Step(r, m)
      <3> HIDE DEF Step
      <3> QED
        BY <1>3, <2>3 DEF r
    <2>5. m # 1
      BY <2>3, <2>4 DEF HeadAt
    <2>6. m - 1 \in 1 .. p.num[b] /\ ~ m <= m - 1
      BY <2>3, <2>5
    <2>7. r[m - 1] \in E
      BY <2>2, <2>6 DEF Out
    <2>8. r[m] = - p.array[r[m - 1]].check
      BY <2>4, <2>5
    <2>9. E \subseteq Slots
      BY SlotFacts DEF Emp
    <2>10. Nxt(p.array)[r[m - 1]] \in E
      <3>1. IsRing(E, Prv(p.array), Nxt(p.array))
        BY DEF RingAt
      <3> HIDE DEF E
      <3> QED
        BY <3>1, <2>7 DEF IsRing
    <2> QED
      BY <2>3, <2>7, <2>8, <2>9, <2>10 DEF Nxt
  <1> QED
    BY <1>4 DEF r

\* The head _restore_block finds is the first counted slot.
LEMMA FirstCounted ==
    ASSUME NEW A \in [Slots -> PoolNodes], NEW b \in Blocks, Counted(A, b) # {},
           NEW h, h = CHOOSE e \in SlotsOf(b) :
                        /\ A[e].check < 0
                        /\ \A f \in SlotsOf(b) : f < e => A[f].check >= 0
    PROVE  h \in Counted(A, b)
  <1>1. Counted(A, b) \in SUBSET Nat /\ SlotsOf(b) \subseteq Slots /\ Slots \subseteq Nat
    BY SlotFacts DEF Counted
  <1>2. PICK m \in Counted(A, b) : \A x \in Counted(A, b) : m <= x
    BY <1>1, Least
  <1>3. ASSUME NEW f \in SlotsOf(b), f < m PROVE A[f].check >= 0
    <2>1. f \in Nat /\ A[f].check \in Int /\ m \in Nat
      <3>1. f \in Slots /\ f \in Nat /\ m \in Nat
        BY <1>1
      <3>2. A[f] \in PoolNodes
        BY <3>1
      <3>3. A[f].check \in Links
        BY <3>2 DEF PoolNodes
      <3> QED
        BY <3>1, <3>3 DEF Links
    <2>2. f \notin Counted(A, b)
      BY <1>2, <1>3, <2>1
    <2> QED
      BY <2>1, <2>2 DEF Counted
  <1>4. m \in SlotsOf(b) /\ A[m].check < 0
    BY DEF Counted
  <1> QED
    BY <1>3, <1>4 DEF Counted

-----------------------------------------------------------------------------
(* _add_block.                                                             *)

\* What AddBlock makes of each field of the pool (_add_block).
LEMMA AddForm ==
    ASSUME NEW p \in PoolRec, NEW q, q = AddBlock(p)
    PROVE  /\ \A x \in Slots : q.array[x] = IF Block(x) = p.nblk THEN FreshNode(p.nblk, x)
                                            ELSE p.array[x]
           /\ DOMAIN q.array = Slots
           /\ \A c \in Blocks : q.ehead[c] = IF c = p.nblk THEN p.nblk * B ELSE p.ehead[c]
           /\ q.lists = PushBlock(p.lists, p.nblk, "Open", B)
           /\ q.nblk = p.nblk + 1
           /\ q.num = p.num /\ q.trial = p.trial /\ q.reject = p.reject /\ q.limit = p.limit
  <1> DEFINE b == p.nblk
             A == [e \in Slots |-> IF e \in SlotsOf(b) THEN FreshNode(b, e) ELSE p.array[e]]
             H == [p.ehead EXCEPT ![b] = b * B]
             L == PushBlock(p.lists, b, "Open", B)
             n == b + 1
  <1>1. q = [p EXCEPT !.ehead = H, !.array = A, !.lists = L, !.nblk = n]
    BY DEF AddBlock
  <1> HIDE DEF H, A, L, n
  <1>2. /\ q.ehead = H /\ q.array = A /\ q.lists = L /\ q.nblk = n
        /\ q.num = p.num /\ q.trial = p.trial /\ q.reject = p.reject /\ q.limit = p.limit
    BY <1>1 DEF PoolRec
  <1>3. ASSUME NEW x \in Slots
        PROVE  A[x] = IF Block(x) = b THEN FreshNode(b, x) ELSE p.array[x]
    <2>1. x \in SlotsOf(b) <=> Block(x) = b
      <3>1. b \in Nat
        BY BlockAssumption DEF PoolRec
      <3> QED
        BY <3>1, BlockOf, SlotFacts
    <2> QED
      BY <2>1 DEF A
  <1>4. ASSUME NEW c \in Blocks
        PROVE  H[c] = IF c = b THEN b * B ELSE p.ehead[c]
    BY DEF H, PoolRec
  <1> QED
    BY <1>2, <1>3, <1>4 DEF A, L, n

\* The links _add_block writes make the slots of the new block one ring.
LEMMA FreshRing ==
    ASSUME NEW b \in Blocks, b # 0, NEW A, \A x \in SlotsOf(b) : A[x] = FreshNode(b, x)
    PROVE  /\ \A x \in SlotsOf(b) : A[x] \in PoolNodes /\ A[x].check < 0
           /\ Emp(A, b) = SlotsOf(b) /\ Counted(A, b) = SlotsOf(b)
           /\ IsRing(SlotsOf(b), Prv(A), Nxt(A))
  <1> DEFINE lo == b * B
             hi == b * B + B - 1
  <1>1. lo \in Nat /\ hi \in Nat /\ lo < hi /\ hi = lo + B - 1 /\ lo > 0 /\ SlotsOf(b) = lo .. hi
    <2>1. b \in Nat /\ b * B \in Nat
      BY BlockStart DEF Blocks
    <2>2. 0 * B + B <= b * B
      BY <2>1, BlockOrder, BlockAssumption
    <2> QED
      BY <2>1, <2>2, BlockAssumption DEF SlotsOf
  <1>2. SlotsOf(b) \subseteq Slots
    BY SlotFacts
  <1> HIDE DEF lo, hi
  <1>3. ASSUME NEW x \in lo .. hi
        PROVE  /\ A[x].base = - IF x = lo THEN hi ELSE x - 1
               /\ A[x].check = - IF x = hi THEN lo ELSE x + 1
               /\ A[x] = Node(A[x].base, A[x].check)
    <2>1. A[x] = FreshNode(b, x)
      BY <1>1
    <2>2. A[x] = Node(IF x = lo THEN - (x + B - 1) ELSE - (x - 1),
                      IF x = hi THEN - lo ELSE - (x + 1))
      BY <2>1 DEF FreshNode, lo, hi
    <2>3. /\ A[x].base = IF x = lo THEN - (x + B - 1) ELSE - (x - 1)
          /\ A[x].check = IF x = hi THEN - lo ELSE - (x + 1)
          /\ A[x] = Node(A[x].base, A[x].check)
      BY <2>2 DEF Node
    <2> QED
      BY <2>3, <1>1, BlockAssumption
  <1>4. ASSUME NEW x \in lo .. hi
        PROVE  A[x] \in PoolNodes /\ A[x].check < 0
    <2>1. /\ (IF x = lo THEN hi ELSE x - 1) \in lo .. hi
          /\ (IF x = hi THEN lo ELSE x + 1) \in lo .. hi
      BY <1>1
    <2>2. A[x].base \in Links /\ A[x].check \in Links
      BY <2>1, <1>1, <1>2, <1>3, SlotRange
    <2>3. A[x].check < 0
      BY <1>1, <1>3
    <2>4. [base |-> A[x].base, check |-> A[x].check] \in [base : Links, check : Links]
      BY <2>2
    <2>5. A[x] = [base |-> A[x].base, check |-> A[x].check]
      BY <1>3 DEF Node
    <2> QED
      BY <2>3, <2>4, <2>5 DEF PoolNodes
  <1>5. \A x \in lo .. hi : /\ Prv(A)[x] = IF x = lo THEN hi ELSE x - 1
                            /\ Nxt(A)[x] = IF x = hi THEN lo ELSE x + 1
    <2> SUFFICES ASSUME NEW x \in lo .. hi
                 PROVE  /\ Prv(A)[x] = IF x = lo THEN hi ELSE x - 1
                        /\ Nxt(A)[x] = IF x = hi THEN lo ELSE x + 1
      OBVIOUS
    <2>1. Prv(A)[x] = - A[x].base /\ Nxt(A)[x] = - A[x].check
      BY <1>1, <1>2 DEF Prv, Nxt
    <2> QED
      BY <2>1, <1>1, <1>3
  <1>6. IsRing(lo .. hi, Prv(A), Nxt(A))
    <2> DEFINE v == Prv(A)
               n == Nxt(A)
    <2>1. lo \in Nat /\ hi \in Nat /\ lo <= hi
      BY <1>1
    <2>2. \A x \in lo .. hi : /\ v[x] = IF x = lo THEN hi ELSE x - 1
                              /\ n[x] = IF x = hi THEN lo ELSE x + 1
      BY <1>5
    <2> HIDE DEF v, n
    <2>3. IsRing(lo .. hi, v, n)
      BY <2>1, <2>2, RunRing
    <2> QED
      BY <2>3 DEF v, n
  <1>7. Emp(A, b) = SlotsOf(b) /\ Counted(A, b) = SlotsOf(b)
    BY <1>1, <1>4 DEF Emp, Counted
  <1> QED
    BY <1>1, <1>4, <1>6, <1>7

-----------------------------------------------------------------------------
(* _initialize.                                                            *)

\* The pool of a new object (_initialize): the slots of block 0 other than
\* the root are one ring, entered at slot 1.
LEMMA InitialFacts ==
    ASSUME NEW p, p = InitialPool
    PROVE  /\ p \in PoolRec /\ p.lists = NoLists /\ p.nblk = 1
           /\ p.num = [b \in Blocks |-> B] /\ p.trial = [b \in Blocks |-> 0]
           /\ CountAt(p, 0) /\ RingAt(p, 0) /\ HeadAt(p, 0) /\ RootChain(p)
           /\ \A l \in Labels : p.array[l].check < 0
  <1> DEFINE A == p.array
  <1>1. /\ A = [e \in Slots |->
                 IF e = 0 THEN Node(0, -1)
                 ELSE IF e \in SlotsOf(0)
                 THEN Node(IF e = 1 THEN - (B - 1) ELSE - (e - 1),
                           IF e = B - 1 THEN -1 ELSE - (e + 1))
                 ELSE Node(0, 0)]
        /\ p.lists = NoLists /\ p.nblk = 1 /\ p.ehead[0] = 1
        /\ p.num = [b \in Blocks |-> B] /\ p.trial = [b \in Blocks |-> 0]
    BY SlotFacts DEF InitialPool, RootBlockHead
  <1>2. SlotsOf(0) = 0 .. B - 1 /\ SlotsOf(0) \subseteq Slots /\ 0 \in Slots /\ 1 \in 0 .. B - 1
    BY SlotFacts, BlockAssumption DEF Labels
  <1> HIDE DEF A
  <1>3. A[0].base = 0 /\ A[0].check = -1 /\ A[0] = Node(0, -1)
    BY <1>1, <1>2 DEF Node
  <1>4. ASSUME NEW x \in 1 .. B - 1
        PROVE  /\ A[x].base = - IF x = 1 THEN B - 1 ELSE x - 1
               /\ A[x].check = - IF x = B - 1 THEN 1 ELSE x + 1
               /\ A[x] = Node(A[x].base, A[x].check)
    <2>1. x # 0 /\ x \in SlotsOf(0) /\ x \in Slots
      <3>1. x # 0 /\ x \in 0 .. B - 1
        BY BlockAssumption
      <3> QED
        BY <3>1, <1>2
    <2>2. A[x] = Node(IF x = 1 THEN - (B - 1) ELSE - (x - 1), IF x = B - 1 THEN -1 ELSE - (x + 1))
      BY <1>1, <2>1
    <2> QED
      BY <2>2 DEF Node
  <1>5. \A x \in 0 .. B - 1 : A[x].check < 0
    BY <1>3, <1>4, BlockAssumption
  <1>6. Emp(A, 0) = 1 .. B - 1 /\ Counted(A, 0) = SlotsOf(0)
    <2>1. Counted(A, 0) = SlotsOf(0)
      BY <1>2, <1>5 DEF Counted
    <2>2. Emp(A, 0) = SlotsOf(0) \ {0}
      <3>1. \A x \in SlotsOf(0) : A[x].check < 0
        BY <1>2, <1>5
      <3> QED
        BY <3>1 DEF Emp
    <2>3. (0 .. B - 1) \ {0} = 1 .. B - 1
      BY BlockAssumption
    <2> QED
      BY <2>1, <2>2, <2>3, <1>2
  <1>7. \A x \in 1 .. B - 1 : /\ Prv(A)[x] = IF x = 1 THEN B - 1 ELSE x - 1
                              /\ Nxt(A)[x] = IF x = B - 1 THEN 1 ELSE x + 1
    <2> SUFFICES ASSUME NEW x \in 1 .. B - 1
                 PROVE  /\ Prv(A)[x] = IF x = 1 THEN B - 1 ELSE x - 1
                        /\ Nxt(A)[x] = IF x = B - 1 THEN 1 ELSE x + 1
      OBVIOUS
    <2>1. x \in Slots
      BY <1>2, BlockAssumption
    <2>2. Prv(A)[x] = - A[x].base /\ Nxt(A)[x] = - A[x].check
      BY <2>1 DEF Prv, Nxt
    <2> QED
      BY <2>2, <1>4, BlockAssumption
  <1>8. IsRing(1 .. B - 1, Prv(A), Nxt(A))
    <2> DEFINE hi == B - 1
    <2>1. 1 \in Nat /\ hi \in Nat /\ 1 <= hi
      BY BlockAssumption
    <2> HIDE DEF hi
    <2>2. \A x \in 1 .. hi : /\ Prv(A)[x] = IF x = 1 THEN hi ELSE x - 1
                             /\ Nxt(A)[x] = IF x = hi THEN 1 ELSE x + 1
      BY <1>7 DEF hi
    <2>3. IsRing(1 .. hi, Prv(A), Nxt(A))
      BY <2>1, <2>2, RunRing
    <2> QED
      BY <2>3 DEF hi
  <1>9. CountAt(p, 0)
    BY <1>1, <1>6, SlotsFinite, SlotFacts DEF CountAt, A
  <1>10. RootChain(p)
    <2> DEFINE n == Nxt(A)  v == Prv(A)
    <2>1. n[0] = 1
      BY <1>2, <1>3 DEF Nxt
    <2>2. \A x \in 1 .. B - 1 : n[x] \in 1 .. B - 1 /\ v[n[x]] = x /\ v[x] \in 1 .. B - 1 /\ n[v[x]] = x
      BY <1>8 DEF IsRing
    <2>3. ASSUME NEW S \in SUBSET (0 .. B - 1), S # {}, \A x \in S : n[x] \in S
          PROVE  1 \in S
      <3>1. CASE 0 \in S
        BY <3>1, <2>1, <2>3
      <3>2. CASE 0 \notin S
        <4>1. S \in SUBSET (1 .. B - 1)
          BY <3>2
        <4>2. S = 1 .. B - 1
          BY <4>1, <2>3, <1>8 DEF IsRing
        <4> QED
          BY <4>2, BlockAssumption
      <3> QED
        BY <3>1, <3>2
    <2> HIDE DEF n, v
    <2>4. IsChain(0 .. B - 1, 1 .. B - 1, v, n)
      <3>1. \A x \in 0 .. B - 1 : n[x] \in 1 .. B - 1 /\ (n[x] # 1 => v[n[x]] = x)
        BY <2>1, <2>2, <1>2
      <3>2. \A x \in (1 .. B - 1) \ {1} : v[x] \in 0 .. B - 1 /\ n[v[x]] = x
        BY <2>2
      <3> QED
        BY <3>1, <3>2, <2>3 DEF IsChain
    <2>5. IsChain(Counted(A, 0), Emp(A, 0), v, n)
      BY <2>4, <1>2, <1>6
    <2>6. 0 \in Counted(A, 0) /\ 1 \in Counted(A, 0)
      BY <1>2, <1>6, BlockAssumption
    <2>7. p.ehead[0] \in Counted(A, 0)
      BY <2>6, <1>1
    <2> QED
      BY <2>5, <2>6, <2>7 DEF RootChain, A, n, v
  <1>11. p \in PoolRec
    <2>1. A \in [Slots -> PoolNodes]
      <3>1. ASSUME NEW x \in Slots PROVE A[x] \in PoolNodes
        <4>1. CASE x = 0
          BY <4>1, <1>3, SlotRange DEF PoolNodes, Node
        <4>2. CASE x \in 1 .. B - 1
          <5> DEFINE u == IF x = 1 THEN B - 1 ELSE x - 1
                     w == IF x = B - 1 THEN 1 ELSE x + 1
          <5>1. u \in 0 .. B - 1 /\ w \in 0 .. B - 1
            BY <4>2, BlockAssumption
          <5>2. u \in Slots /\ w \in Slots
            BY <5>1, <1>2
          <5>3. A[x].base = - u /\ A[x].check = - w /\ A[x] = Node(A[x].base, A[x].check)
            BY <4>2, <1>4
          <5> HIDE DEF u, w
          <5>4. A[x].base \in Links /\ A[x].check \in Links
            BY <5>2, <5>3, SlotRange
          <5>5. [base |-> A[x].base, check |-> A[x].check] \in [base : Links, check : Links]
            BY <5>4
          <5> QED
            BY <5>3, <5>5 DEF PoolNodes, Node
        <4>3. CASE x \notin 0 .. B - 1
          BY <4>3, <1>1, <1>2, SlotRange DEF PoolNodes, Node
        <4> QED
          BY <4>1, <4>2, <4>3
      <3> QED
        BY <3>1, <1>1
    <2>2. NoLists \in ListRec
      BY SlotFacts DEF NoLists, ListRec
    <2>3. p = [array |-> A, lists |-> NoLists, num |-> [b \in Blocks |-> B], trial |-> [b \in Blocks |-> 0],
               ehead |-> [b \in Blocks |-> IF b = 0 THEN RootBlockHead ELSE 0],
               reject |-> [b \in Blocks |-> B + 1], limit |-> [i \in 0 .. B |-> i + 1], nblk |-> 1]
      BY DEF InitialPool, A
    <2> QED
      BY <2>1, <2>2, <2>3, SlotRange, BlockAssumption DEF PoolRec, RootBlockHead
  <1>12. RingAt(p, 0) /\ HeadAt(p, 0)
    <2>1. IsRing(Emp(A, 0), Prv(A), Nxt(A)) /\ 1 \in Emp(A, 0)
      BY <1>6, <1>8, BlockAssumption
    <2> QED
      BY <2>1, <1>1 DEF RingAt, HeadAt, A
  <1>13. \A l \in Labels : p.array[l].check < 0
    BY <1>5 DEF A, Labels
  <1> QED
    BY <1>1, <1>9, <1>10, <1>11, <1>12, <1>13

-----------------------------------------------------------------------------
(* Whole pools.  The empty slots of block 0 are a ring, or what a rebuilt  *)
(* block table makes of it, a chain (w); those of its slots that are ever  *)
(* used are R, the first bytes of the keys.                                *)

\* One slot of block 0 is never used: no key starts with its byte.  After a
\* rebuild of the block table it has to be slot 1.
Spare(w, R) ==
    /\ w \in {"chain", "ring"} /\ R \subseteq Labels \ {0}
    /\ IF w = "chain" THEN 1 \notin R ELSE R # Labels \ {0}

\* Block 0 of the pool p.
RootWhole(w, p) == IF w = "chain" THEN RootChain(p) ELSE RingAt(p, 0) /\ HeadAt(p, 0)

\* The slots of the pool p, of which r blocks are registered.
Whole(w, R, p, c, r) ==
    /\ \A b \in 0 .. c - 1 : CountAt(p, b)
    /\ \A b \in 1 .. p.nblk - 1 : RingAt(p, b)
    /\ \A b \in 1 .. r - 1 : HeadAt(p, b)
    /\ RootWhole(w, p)
    /\ p.array[0].check < 0
    /\ \A l \in Labels \ R : p.array[l].check < 0

\* The slot e can be taken: it is empty, and spare slots are let alone.
Takeable(R, p, e) ==
    /\ e \in Slots /\ e # 0 /\ Block(e) < p.nblk /\ p.array[e].check < 0
    /\ Block(e) = 0 => e \in R

\* The neighbours of a slot on the ring are slots.
LEMMA BetweenSlots ==
    ASSUME NEW A, NEW e, Block(e) \in Blocks, Between(A, e)
    PROVE  - A[e].base \in Slots /\ - A[e].check \in Slots
  <1>1. SlotsOf(Block(e)) \subseteq Slots
    BY SlotFacts
  <1>2. - A[e].base \in SlotsOf(Block(e)) /\ - A[e].check \in SlotsOf(Block(e))
    BY DEF Between, Counted, Emp
  <1> QED
    BY <1>1, <1>2

\* A step of p inside block b leaves the others of q whole.
LEMMA WholeElsewhere ==
    ASSUME NEW w, NEW R, NEW p \in PoolRec,
           NEW q, Whole(w, R, p, p.nblk, p.nblk), NEW b \in Blocks, b < p.nblk,
           q.nblk = p.nblk,
           \A x \in Slots : Block(x) # b => q.array[x] = p.array[x],
           \A c \in Blocks : c # b => q.ehead[c] = p.ehead[c] /\ q.num[c] = p.num[c],
           CountAt(q, b), b # 0 => RingAt(q, b) /\ HeadAt(q, b),
           b = 0 => RootWhole(w, q),
           q.array[0].check < 0, \A l \in Labels \ R : q.array[l].check < 0
    PROVE  Whole(w, R, q, q.nblk, q.nblk)
  <1>1. /\ p.nblk \in 1 .. MaxBlocks /\ Blocks = 0 .. MaxBlocks - 1
        /\ 0 .. p.nblk - 1 \subseteq Blocks /\ 1 .. p.nblk - 1 \subseteq Blocks
    <2>1. p.nblk \in 1 .. MaxBlocks
      BY DEF PoolRec
    <2> QED
      BY <2>1, BlockAssumption DEF Blocks
  <1>2. ASSUME NEW c \in Blocks, c # b
        PROVE  /\ RingAt(p, c) => RingAt(q, c)
               /\ HeadAt(p, c) => HeadAt(q, c)
               /\ CountAt(p, c) => CountAt(q, c)
               /\ c = 0 => (RootChain(p) => RootChain(q))
    <2>1. \A x \in SlotsOf(c) : q.array[x] = p.array[x]
      BY <1>2, SlotFacts
    <2>2. q.ehead[c] = p.ehead[c] /\ q.num[c] = p.num[c]
      BY <1>2
    <2> QED
      BY <2>1, <2>2, OtherBlock
  <1>3. \A c \in 0 .. p.nblk - 1 : CountAt(q, c)
    BY <1>1, <1>2 DEF Whole
  <1>4. \A c \in 1 .. p.nblk - 1 : RingAt(q, c) /\ HeadAt(q, c)
    <2> SUFFICES ASSUME NEW c \in 1 .. p.nblk - 1 PROVE RingAt(q, c) /\ HeadAt(q, c)
      OBVIOUS
    <2>1. c \in Blocks /\ c # 0 /\ RingAt(p, c) /\ HeadAt(p, c)
      BY <1>1 DEF Whole
    <2>2. CASE c = b
      BY <2>1, <2>2
    <2>3. CASE c # b
      BY <2>1, <2>3, <1>2
    <2> QED
      BY <2>2, <2>3
  <1>5. RootWhole(w, q)
    <2>1. CASE b = 0
      BY <2>1
    <2>2. CASE b # 0
      <3>1. 0 \in Blocks /\ RootWhole(w, p)
        BY SlotFacts DEF Whole
      <3> QED
        BY <3>1, <2>2, <1>2 DEF RootWhole
    <2> QED
      BY <2>1, <2>2
  <1> QED
    BY <1>3, <1>4, <1>5 DEF Whole

\* What the blocks of a whole pool have in common.
LEMMA WholeAt ==
    ASSUME NEW w, NEW R, NEW p \in PoolRec,
           Whole(w, R, p, p.nblk, p.nblk), NEW b \in Blocks, b < p.nblk
    PROVE  /\ CountAt(p, b) /\ p.num[b] \in 0 .. B /\ p.num[b] \in Nat
           /\ b # 0 => RingAt(p, b) /\ HeadAt(p, b)
  <1>1. p.nblk \in 1 .. MaxBlocks /\ p.num[b] \in 0 .. B
    BY DEF PoolRec
  <1>2. b \in Nat /\ b \in 0 .. p.nblk - 1 /\ (b # 0 => b \in 1 .. p.nblk - 1)
    BY <1>1, BlockAssumption DEF Blocks
  <1> QED
    BY <1>1, <1>2, BlockAssumption DEF Whole

\* The counter of the block of an empty slot, and where its ring passes.
LEMMA TakeableFacts ==
    ASSUME NEW w, NEW R, NEW p \in PoolRec,
           NEW e, Whole(w, R, p, p.nblk, p.nblk), Takeable(R, p, e), Spare(w, R)
    PROVE  /\ Block(e) \in Blocks /\ e \in Counted(p.array, Block(e))
           /\ e \in Emp(p.array, Block(e)) /\ Between(p.array, e)
           /\ p.num[Block(e)] > IF Block(e) = 0 THEN 1 ELSE 0
           /\ Block(e) # 0 => (p.num[Block(e)] = 1 <=> Emp(p.array, Block(e)) = {e})
           /\ w # "chain" /\ Block(e) = 0 => Emp(p.array, 0) # {e}
           /\ w = "chain" /\ Block(e) = 0 => e # 1
  <1> DEFINE b == Block(e)
  <1>1. /\ b \in Blocks /\ e \in SlotsOf(b) /\ b \in Nat /\ e \in Slots /\ e # 0
        /\ p.array[e].check < 0 /\ b < p.nblk
    BY SlotFacts DEF Takeable
  <1>2. e \in Counted(p.array, b) /\ e \in Emp(p.array, b)
    BY <1>1 DEF Counted, Emp
  <1>3. CountAt(p, b)
    BY <1>1 DEF Whole, PoolRec
  <1>4. p.num[b] = 0 <=> Counted(p.array, b) = {}
    BY <1>1, <1>3, CountZero
  <1>5. p.num[b] = 1 <=> Counted(p.array, b) = {e}
    BY <1>1, <1>2, <1>3, CountZero
  <1>6. p.num[b] \in 0 .. B /\ p.num[b] \in Nat
    BY <1>1, BlockAssumption DEF PoolRec
  <1>7. CASE b # 0
    <2>1. RingAt(p, b)
      BY <1>1, <1>7 DEF Whole, PoolRec
    <2>2. Emp(p.array, b) = Counted(p.array, b)
      <3>1. 0 \notin SlotsOf(b)
        BY <1>1, <1>7, SlotFacts
      <3> QED
        BY <3>1 DEF Emp, Counted
    <2>3. Between(p.array, e)
      BY <1>1, <1>2, <2>1, RingBetween
    <2> QED
      BY <1>1, <1>2, <1>4, <1>5, <1>6, <1>7, <2>2, <2>3
  <1>8. CASE b = 0
    <2>1. 0 \in Counted(p.array, 0)
      BY SlotFacts DEF Whole, Counted
    <2>2. p.num[b] > 1
      <3>1. p.num[b] # 0 /\ p.num[b] # 1
        BY <1>1, <1>2, <1>4, <1>5, <1>8, <2>1
      <3> QED
        BY <3>1, <1>6
    <2>3. CASE w = "chain"
      <3>1. e # 1 /\ RootChain(p)
        BY <1>8, <2>3 DEF Spare, Takeable, Whole, RootWhole
      <3>2. e \in Emp(p.array, 0)
        BY <1>2, <1>8
      <3>3. Between(p.array, e)
        BY <3>1, <3>2, <1>1, ChainBetween
      <3> QED
        BY <1>1, <1>2, <1>8, <2>2, <2>3, <3>1, <3>3
    <2>4. CASE w # "chain"
      <3>1. RingAt(p, 0)
        BY <2>4 DEF Whole, RootWhole
      <3>2. Between(p.array, e)
        <4>1. RingAt(p, b)
          BY <3>1, <1>8
        <4> QED
          BY <4>1, <1>1, <1>2, RingBetween
      <3>3. Emp(p.array, 0) # {e}
        <4>1. PICK l \in Labels \ {0} : l \notin R
          BY <2>4 DEF Spare
        <4>2. l # e
          BY <4>1, <1>8 DEF Takeable
        <4>3. l \in Emp(p.array, 0)
          BY <4>1, SlotFacts DEF Whole, Emp
        <4> QED
          BY <4>2, <4>3
      <3> QED
        BY <1>1, <1>2, <1>8, <2>2, <2>4, <3>2, <3>3
    <2> QED
      BY <2>3, <2>4
  <1> QED
    BY <1>7, <1>8

\* _pop_enode keeps every block whole and counts one slot less.
LEMMA TakeWhole ==
    ASSUME NEW w, NEW R, NEW p \in PoolRec,
           NEW e, Whole(w, R, p, p.nblk, p.nblk), Takeable(R, p, e), Spare(w, R),
           NEW q, q = TakeEnode(p, e, 1, 0)
    PROVE  Whole(w, R, q, q.nblk, q.nblk)
  <1> DEFINE b == Block(e)
  <1>1. /\ b \in Blocks /\ e \in Counted(p.array, b) /\ Between(p.array, e)
        /\ e \in Slots /\ e # 0 /\ b < p.nblk
    <2>1. e \in Slots /\ e # 0 /\ b < p.nblk
      BY DEF Takeable
    <2>2. b \in Blocks /\ e \in Counted(p.array, b) /\ Between(p.array, e)
      BY TakeableFacts
    <2> QED
      BY <2>1, <2>2
  <1>0. b = 0 => p.num[b] # 1
    <2>1. p.num[Block(e)] > IF Block(e) = 0 THEN 1 ELSE 0
      BY TakeableFacts
    <2> HIDE DEF Takeable
    <2>2. p.num[b] \in Nat
      BY <1>1, WholeAt
    <2> QED
      BY <2>1, <2>2
  <1>2. - p.array[e].base \in Slots /\ - p.array[e].check \in Slots
    BY <1>1, BetweenSlots
  <1>3. q.num = TakenNum(p, e) /\ q.ehead = TakenHeads(p, e) /\ q.nblk = p.nblk
    BY <1>1, <1>2, TakeForm
  <1>4. /\ p.num \in [Blocks -> 0 .. B] /\ p.ehead \in [Blocks -> Slots]
        /\ p.num[b] \in Nat
    BY <1>1, WholeAt DEF PoolRec
  <1>5. q.num[b] = p.num[b] - 1
    BY <1>1, <1>3, <1>4 DEF TakenNum
  <1>6. \A c \in Blocks : c # b => q.ehead[c] = p.ehead[c] /\ q.num[c] = p.num[c]
    BY <1>1, <1>3, <1>4 DEF TakenNum, TakenHeads
  <1>7. /\ \A x \in Slots : Block(x) # b => q.array[x] = p.array[x]
        /\ \A x \in Slots \ {e} : q.array[x].check < 0 <=> p.array[x].check < 0
        /\ Counted(q.array, b) = Counted(p.array, b) \ {e}
    <2>1. /\ \A x \in Slots : Block(x) # b => q.array[x] = p.array[x]
          /\ \A x \in Slots \ {e} : q.array[x].check < 0 <=> p.array[x].check < 0
      BY <1>1, TakeFrame
    <2>2. Counted(q.array, b) = Counted(p.array, b) \ {e}
      BY <1>1, TakeSets
    <2> QED
      BY <2>1, <2>2
  <1>8. CountAt(q, b)
    <2>1. CountAt(p, b)
      BY <1>1, WholeAt
    <2> QED
      BY <2>1, <1>1, <1>5, <1>7, CountLess
  <1>9. ASSUME b # 0
        PROVE  RingAt(q, b) /\ HeadAt(q, b)
    <2>1. RingAt(p, b) /\ HeadAt(p, b)
      BY <1>1, <1>9, WholeAt
    <2>2. e \in Emp(p.array, b) /\ (p.num[b] = 1 <=> Emp(p.array, b) = {e})
      BY <1>9, TakeableFacts
    <2> QED
      BY <2>1, <2>2, <1>1, TakeRing
  <1>10. ASSUME b = 0
         PROVE  RootWhole(w, q)
    <2>1. p.num[0] # 1 /\ p.num[b] # 1
      BY <1>0, <1>1, <1>4, <1>10
    <2>2. CASE w = "chain"
      <3>1. RootChain(p) /\ e # 1 /\ e \in Emp(p.array, 0)
        BY <1>10, <2>2, TakeableFacts DEF Whole, RootWhole
      <3>2. RootChain(q)
        BY <3>1, <2>1, <1>1, TakeChain
      <3> QED
        BY <3>2, <2>2 DEF RootWhole
    <2>3. CASE w # "chain"
      <3>1. RingAt(p, b) /\ HeadAt(p, b)
        BY <1>10, <2>3 DEF Whole, RootWhole
      <3>2. e \in Emp(p.array, b) /\ Emp(p.array, b) # {e}
        BY <1>10, <2>3, TakeableFacts
      <3>3. RingAt(q, b) /\ HeadAt(q, b)
        BY <3>1, <3>2, <2>1, <1>1, TakeRing
      <3> QED
        BY <3>3, <1>10, <2>3 DEF RootWhole
    <2> QED
      BY <2>2, <2>3
  <1>11. q.array[0].check < 0 /\ \A l \in Labels \ R : q.array[l].check < 0
    <2>1. \A l \in Labels : l \in Slots /\ Block(l) = 0
      BY SlotFacts
    <2>2. \A l \in Labels \ R : l # e
      BY <2>1 DEF Takeable
    <2> QED
      BY <1>1, <1>7, <2>1, <2>2, SlotFacts DEF Whole
  <1> HIDE DEF b
  <1> QED
    BY <1>1, <1>3, <1>6, <1>7, <1>8, <1>9, <1>10, <1>11, WholeElsewhere

\* A slot in use can be given back: its block has a way into its ring.
LEMMA GivenFacts ==
    ASSUME NEW w, NEW R, NEW p \in PoolRec,
           NEW e \in Slots, Whole(w, R, p, p.nblk, p.nblk), Spare(w, R),
           Block(e) < p.nblk, p.array[e].check >= 0
    PROVE  /\ Block(e) \in Blocks /\ e # 0
           /\ Block(e) = 0 => p.num[0] >= 1
           /\ w = "chain" => Block(e) # 0 \/ RootChain(p)
           /\ ~ (w = "chain" /\ Block(e) = 0) =>
                 /\ RingAt(p, Block(e)) /\ HeadAt(p, Block(e))
                 /\ p.num[Block(e)] = 0 <=> Emp(p.array, Block(e)) = {}
           /\ Entered(p, Block(e))
  <1> DEFINE b == Block(e)
  <1>1. b \in Blocks /\ e \in SlotsOf(b) /\ b \in Nat /\ p.array[e].check \in Int
    <2>1. p.array[e] \in PoolNodes
      BY DEF PoolRec
    <2>2. p.array[e].check \in Int
      BY <2>1 DEF PoolNodes, Links
    <2> QED
      BY <2>2, SlotFacts
  <1>2. e # 0
    BY <1>1 DEF Whole
  <1>3. CountAt(p, b) /\ (p.num[b] = 0 <=> Counted(p.array, b) = {})
    <2>1. CountAt(p, b)
      BY <1>1 DEF Whole, PoolRec
    <2> QED
      BY <2>1, <1>1, CountZero
  <1>4. p.num[b] \in Nat
    BY <1>1, BlockAssumption DEF PoolRec
  <1>5. ASSUME b # 0
        PROVE  RingAt(p, b) /\ HeadAt(p, b) /\ (p.num[b] = 0 <=> Emp(p.array, b) = {})
    <2>1. RingAt(p, b) /\ HeadAt(p, b)
      BY <1>1, <1>5 DEF Whole, PoolRec
    <2>2. 0 \notin SlotsOf(b)
      BY <1>1, <1>5, SlotFacts
    <2>3. Emp(p.array, b) = Counted(p.array, b)
      BY <2>2 DEF Emp, Counted
    <2> QED
      BY <2>1, <2>3, <1>3
  <1>6. ASSUME b = 0
        PROVE  p.num[b] # 0
    <2>1. 0 \in Counted(p.array, 0)
      BY SlotFacts DEF Whole, Counted
    <2> QED
      BY <2>1, <1>3, <1>6
  <1>7. ASSUME b = 0, w # "chain"
        PROVE  RingAt(p, b) /\ HeadAt(p, b) /\ Emp(p.array, b) # {}
    <2>1. PICK l \in Labels \ {0} : l \notin R
      BY <1>7 DEF Spare
    <2>2. l \in Emp(p.array, 0)
      BY <2>1, SlotFacts DEF Whole, Emp
    <2> QED
      BY <2>2, <1>7 DEF Whole, RootWhole
  <1>8. ASSUME b = 0, w = "chain"
        PROVE  RootChain(p)
    BY <1>8 DEF Whole, RootWhole
  <1>9. Entered(p, b)
    <2>1. CASE b = 0 /\ w = "chain"
      <3>1. RootChain(p) /\ p.num[0] # 0
        BY <2>1, <1>6, <1>8
      <3>2. Entered(p, 0)
        BY <3>1, <2>1, PushChain
      <3> QED
        BY <3>2, <2>1
    <2>2. CASE ~ (b = 0 /\ w = "chain")
      <3>1. RingAt(p, b) /\ HeadAt(p, b) /\ (p.num[b] = 0 <=> Emp(p.array, b) = {})
        BY <2>2, <1>5, <1>6, <1>7
      <3> QED
        BY <3>1, <1>2, PushRing
    <2> QED
      BY <2>1, <2>2
  <1> QED
    BY <1>1, <1>2, <1>4, <1>5, <1>6, <1>7, <1>8, <1>9

\* _push_enode keeps every block whole and counts one slot more.
LEMMA PushWhole ==
    ASSUME NEW w, NEW R, NEW p \in PoolRec,
           NEW e \in Slots, Whole(w, R, p, p.nblk, p.nblk), Spare(w, R),
           Block(e) < p.nblk, p.array[e].check >= 0,
           NEW q, q = PushEnode(p, e)
    PROVE  Whole(w, R, q, q.nblk, q.nblk) /\ p.num[Block(e)] < B
  <1> DEFINE b == Block(e)
  <1>1. b \in Blocks /\ e # 0 /\ Entered(p, b)
    BY GivenFacts
  <1>2. /\ q.num = PushedNum(p, e) /\ q.ehead = PushedHeads(p, e) /\ q.nblk = p.nblk
    BY <1>1, PushForm
  <1>3. /\ p.num \in [Blocks -> 0 .. B] /\ p.ehead \in [Blocks -> Slots]
        /\ p.num[b] \in Nat /\ CountAt(p, b)
    BY <1>1, WholeAt DEF PoolRec
  <1>4. q.num[b] = p.num[b] + 1
    BY <1>1, <1>2, <1>3 DEF PushedNum
  <1>5. \A c \in Blocks : c # b => q.ehead[c] = p.ehead[c] /\ q.num[c] = p.num[c]
    BY <1>1, <1>2, <1>3 DEF PushedNum, PushedHeads
  <1>6. /\ \A x \in Slots : Block(x) # b => q.array[x] = p.array[x]
        /\ \A x \in Slots \ {e} : q.array[x].check < 0 <=> p.array[x].check < 0
        /\ q.array[e].check < 0
    BY <1>1, PushFrame
  <1>7. Counted(q.array, b) = Counted(p.array, b) \cup {e} /\ e \notin Counted(p.array, b)
    BY <1>1, PushSets
  <1>8. CountAt(q, b) /\ p.num[b] < B
    <2>1. e \in SlotsOf(b)
      BY SlotFacts
    <2> QED
      BY <2>1, <1>1, <1>3, <1>4, <1>7, CountMore
  <1>9. ASSUME ~ (w = "chain" /\ b = 0)
        PROVE  RingAt(q, b) /\ HeadAt(q, b)
    <2>1. RingAt(p, b) /\ HeadAt(p, b) /\ (p.num[b] = 0 <=> Emp(p.array, b) = {})
      BY <1>9, GivenFacts
    <2> QED
      BY <2>1, <1>1, PushRing
  <1>10. ASSUME b = 0
         PROVE  RootWhole(w, q)
    <2>1. CASE w = "chain"
      <3>0. (Block(e) = 0 => p.num[0] >= 1) /\ (w = "chain" => Block(e) # 0 \/ RootChain(p))
        BY GivenFacts
      <3>1. RootChain(p) /\ p.num[0] # 0
        BY <1>3, <1>10, <2>1, <3>0
      <3>2. RootChain(q)
        BY <3>1, <1>10, PushChain
      <3> QED
        BY <3>2, <2>1 DEF RootWhole
    <2>2. CASE w # "chain"
      BY <1>9, <1>10, <2>2 DEF RootWhole
    <2> QED
      BY <2>1, <2>2
  <1>11. q.array[0].check < 0 /\ \A l \in Labels \ R : q.array[l].check < 0
    <2>1. \A l \in Labels : l \in Slots
      BY SlotFacts
    <2> QED
      BY <1>6, <2>1, SlotFacts DEF Whole
  <1> HIDE DEF b
  <1>12. b # 0 => RingAt(q, b) /\ HeadAt(q, b)
    BY <1>9
  <1>13. b < p.nblk
    BY DEF b
  <1>14. Whole(w, R, q, q.nblk, q.nblk)
    BY <1>1, <1>2, <1>5, <1>6, <1>8, <1>10, <1>11, <1>12, <1>13, WholeElsewhere
  <1> QED
    BY <1>8, <1>14 DEF b

\* _add_block adds a block with all its slots on its ring.
LEMMA AddWhole ==
    ASSUME NEW w, NEW R, NEW p \in PoolRec,
           Whole(w, R, p, p.nblk, p.nblk), p.nblk < MaxBlocks, p.num[p.nblk] = B,
           NEW q, q = AddBlock(p)
    PROVE  /\ Whole(w, R, q, q.nblk, q.nblk) /\ q.array \in [Slots -> PoolNodes]
           /\ \A x \in Slots : Block(x) = p.nblk => q.array[x].check < 0
           /\ \A x \in Slots : Block(x) # p.nblk => q.array[x] = p.array[x]
  <1> DEFINE b == p.nblk
  <1>1. b \in Blocks /\ b # 0 /\ b \in Nat /\ q.nblk = b + 1 /\ q.num = p.num
    <2>1. b \in 1 .. MaxBlocks
      BY DEF PoolRec
    <2>2. q.nblk = b + 1 /\ q.num = p.num
      BY AddForm
    <2> QED
      BY <2>1, <2>2, BlockAssumption DEF Blocks
  <1>2. /\ \A x \in Slots : q.array[x] = IF Block(x) = b THEN FreshNode(b, x) ELSE p.array[x]
        /\ DOMAIN q.array = Slots
        /\ \A c \in Blocks : q.ehead[c] = IF c = b THEN b * B ELSE p.ehead[c]
    BY AddForm
  <1>3. \A x \in SlotsOf(b) : q.array[x] = FreshNode(b, x) /\ x \in Slots
    BY <1>1, <1>2, SlotFacts
  <1>4. /\ \A x \in SlotsOf(b) : q.array[x] \in PoolNodes /\ q.array[x].check < 0
        /\ Emp(q.array, b) = SlotsOf(b) /\ Counted(q.array, b) = SlotsOf(b)
        /\ IsRing(SlotsOf(b), Prv(q.array), Nxt(q.array))
    <2> DEFINE A == q.array
    <2>1. \A x \in SlotsOf(b) : A[x] = FreshNode(b, x)
      BY <1>3
    <2> HIDE DEF A
    <2>2. /\ \A x \in SlotsOf(b) : A[x] \in PoolNodes /\ A[x].check < 0
          /\ Emp(A, b) = SlotsOf(b) /\ Counted(A, b) = SlotsOf(b)
          /\ IsRing(SlotsOf(b), Prv(A), Nxt(A))
      BY <1>1, <2>1, FreshRing
    <2> QED
      BY <2>2 DEF A
  <1>5. CountAt(q, b) /\ RingAt(q, b) /\ HeadAt(q, b)
    <2>1. q.ehead[b] \in SlotsOf(b) /\ q.num[b] = B
      BY <1>1, <1>2, SlotFacts
    <2>2. Cardinality(SlotsOf(b)) = B
      BY <1>1, SlotsFinite
    <2> QED
      BY <2>1, <2>2, <1>4 DEF CountAt, RingAt, HeadAt
  <1>6. \A x \in Slots : Block(x) # b => q.array[x] = p.array[x]
    BY <1>2
  <1>7. ASSUME NEW c \in Blocks, c # b
        PROVE  /\ RingAt(p, c) => RingAt(q, c)
               /\ HeadAt(p, c) => HeadAt(q, c)
               /\ CountAt(p, c) => CountAt(q, c)
               /\ c = 0 => (RootChain(p) => RootChain(q))
    <2>1. \A x \in SlotsOf(c) : q.array[x] = p.array[x]
      BY <1>6, <1>7, SlotFacts
    <2>2. q.ehead[c] = p.ehead[c] /\ q.num[c] = p.num[c]
      BY <1>1, <1>2, <1>7
    <2> QED
      BY <2>1, <2>2, OtherBlock
  <1>8. ASSUME NEW c \in 0 .. q.nblk - 1
        PROVE  CountAt(q, c) /\ (c # 0 => RingAt(q, c) /\ HeadAt(q, c))
    <2>1. CASE c = b
      BY <2>1, <1>5
    <2>2. CASE c # b
      <3>1. c \in Blocks /\ c < p.nblk
        BY <1>1, <2>2, BlockAssumption DEF Blocks
      <3>2. CountAt(p, c) /\ (c # 0 => RingAt(p, c) /\ HeadAt(p, c))
        BY <3>1, WholeAt
      <3> QED
        BY <3>1, <3>2, <2>2, <1>7
    <2> QED
      BY <2>1, <2>2
  <1>9. RootWhole(w, q)
    <2>1. 0 \in Blocks /\ RootWhole(w, p)
      BY SlotFacts DEF Whole
    <2> QED
      BY <2>1, <1>1, <1>7 DEF RootWhole
  <1>10. q.array[0].check < 0 /\ \A l \in Labels \ R : q.array[l].check < 0
    <2>1. \A l \in Labels : l \in Slots /\ Block(l) = 0
      BY SlotFacts
    <2>2. 0 \in Labels
      BY SlotFacts
    <2> QED
      BY <1>1, <1>6, <2>1, <2>2 DEF Whole
  <1>11. q.array \in [Slots -> PoolNodes]
    <2>1. ASSUME NEW x \in Slots PROVE q.array[x] \in PoolNodes
      <3>1. CASE Block(x) = b
        BY <3>1, <1>4, SlotFacts
      <3>2. CASE Block(x) # b
        BY <3>2, <1>6 DEF PoolRec
      <3> QED
        BY <3>1, <3>2
    <2>2. q.array = [x \in Slots |-> q.array[x]]
      BY DEF AddBlock, PoolRec
    <2> QED
      BY <2>1, <2>2
  <1>12. Whole(w, R, q, q.nblk, q.nblk)
    <2>1. \A c \in 1 .. q.nblk - 1 : c \in 0 .. q.nblk - 1 /\ c # 0
      BY <1>1
    <2> QED
      BY <2>1, <1>8, <1>9, <1>10 DEF Whole
  <1> QED
    BY <1>4, <1>6, <1>11, <1>12, SlotFacts

\* The steps that move heads only.
LEMMA HeadsWhole ==
    ASSUME NEW w, NEW R, NEW p, NEW q, NEW c, NEW r, NEW s, Whole(w, R, p, c, r),
           q.array = p.array, q.num = p.num, q.nblk = p.nblk,
           \A b \in 1 .. s - 1 : HeadAt(q, b),
           q.ehead[0] = p.ehead[0] \/ (w = "chain" /\ q.ehead[0] \in Counted(q.array, 0))
    PROVE  Whole(w, R, q, c, s)
  <1>1. RootWhole(w, q)
    BY DEF Whole, RootWhole, RootChain, RingAt, HeadAt
  <1> QED
    BY <1>1 DEF Whole, CountAt, RingAt

\* _restore_block forgets the heads: that of block 0 is the root now ...
LEMMA ForgetWhole ==
    ASSUME NEW R, NEW p \in PoolRec, NEW c, NEW r, Whole("chain", R, p, c, r),
           NEW q, q = ForgetBlocks(p)
    PROVE  Whole("chain", R, q, c, 0)
  <1>1. q.array = p.array /\ q.num = p.num /\ q.nblk = p.nblk /\ q.ehead = [b \in Blocks |-> 0]
    BY DEF ForgetBlocks, PoolRec
  <1>2. q.ehead[0] \in Counted(q.array, 0)
    BY <1>1, SlotFacts DEF Whole, Counted
  <1>3. RootWhole("chain", q)
    BY <1>1, <1>2 DEF Whole, RootWhole, RootChain
  <1> QED
    BY <1>1, <1>3 DEF Whole, CountAt, RingAt

\* What finding one block again leaves alone: all but its counter and its head,
\* which is now one of the slots counted.
RegisteredAs(p, q, r, n, c) ==
    /\ n \in 0 .. B /\ (r = 0 => n >= 1) /\ (c = p.nblk => n = p.num[r])
    /\ n = Cardinality(Counted(p.array, r))
    /\ q.num \in [Blocks -> 0 .. B] /\ q.num[r] = n
    /\ \A b \in Blocks \ {r} : q.num[b] = p.num[b] /\ q.ehead[b] = p.ehead[b]
    /\ q.array = p.array /\ q.nblk = p.nblk
    /\ q.ehead \in [Blocks -> Slots]
    /\ n = 0 => q.ehead[r] = p.ehead[r]
    /\ n # 0 => q.ehead[r] \in Counted(p.array, r)

LEMMA RegisterFrame ==
    ASSUME NEW R, NEW p \in PoolRec, NEW r \in 0 .. p.nblk - 1,
           NEW c \in {r, p.nblk}, Whole("chain", R, p, c, r),
           NEW n, n = Cardinality(Counted(p.array, r)),
           NEW q, q = RegisterBlockOf(p, r, n)
    PROVE  RegisteredAs(p, q, r, n, c)
  <1> DEFINE h == CHOOSE e \in SlotsOf(r) :
                    /\ p.array[e].check < 0
                    /\ \A f \in SlotsOf(r) : f < e => p.array[f].check >= 0
  <1>1. p.nblk \in 1 .. MaxBlocks /\ r \in Blocks /\ r \in Nat
    <2>1. p.nblk \in 1 .. MaxBlocks
      BY DEF PoolRec
    <2> QED
      BY <2>1, BlockAssumption DEF Blocks
  <1>2. /\ n = Cardinality(Counted(p.array, r)) /\ n \in 0 .. B
        /\ n # 0 <=> Counted(p.array, r) # {}
        /\ c = p.nblk => n = p.num[r]
        /\ r = 0 => n >= 1
    <2>1. n = Cardinality(Counted(p.array, r))
      OBVIOUS
    <2>2. IsFiniteSet(Counted(p.array, r)) /\ n \in 0 .. B
      BY <1>1, <2>1, CountedFinite
    <2>3. n # 0 <=> Counted(p.array, r) # {}
      BY <2>1, <2>2, FS_EmptySet
    <2>4. c = p.nblk => n = p.num[r]
      BY <2>1 DEF Whole, CountAt
    <2>5. r = 0 => 0 \in Counted(p.array, r)
      BY SlotFacts DEF Whole, Counted
    <2>6. r = 0 => n >= 1
      BY <2>2, <2>3, <2>5, BlockAssumption
    <2> QED
      BY <2>1, <2>2, <2>3, <2>4, <2>6
  <1>3. q.num = [p.num EXCEPT ![r] = n] /\ q.array = p.array /\ q.nblk = p.nblk
    <2> DEFINE N == [p.num EXCEPT ![r] = n]
               H == [p.ehead EXCEPT ![r] = IF n = 0 THEN p.ehead[r] ELSE h]
               L == ListsAfterRegister(p.lists, r, n)
    <2>1. q = [p EXCEPT !.num = N, !.ehead = H, !.lists = L]
      BY DEF RegisterBlockOf
    <2> HIDE DEF N, H, L
    <2>3. q.num = N /\ q.array = p.array /\ q.nblk = p.nblk
      BY <2>1 DEF PoolRec
    <2> QED
      BY <2>3 DEF N
  <1>4. q.ehead = [p.ehead EXCEPT ![r] = IF n = 0 THEN p.ehead[r] ELSE h]
    <2> DEFINE H == [p.ehead EXCEPT ![r] = IF n = 0 THEN p.ehead[r] ELSE h]
               N == [p.num EXCEPT ![r] = n]
               L == ListsAfterRegister(p.lists, r, n)
    <2>1. q = [p EXCEPT !.num = N, !.ehead = H, !.lists = L]
      BY DEF RegisterBlockOf
    <2> HIDE DEF N, H, L
    <2>2. q.ehead = H
      BY <2>1 DEF PoolRec
    <2> QED
      BY <2>2 DEF H
  <1>5. n # 0 => h \in Counted(p.array, r)
    <2>1. n # 0 => Counted(p.array, r) # {}
      BY <1>2
    <2>2. p.array \in [Slots -> PoolNodes]
      BY DEF PoolRec
    <2> QED
      BY <1>1, <2>1, <2>2, FirstCounted
  <1> HIDE DEF h
  <1>6. /\ p.ehead \in [Blocks -> Slots]
        /\ q.ehead[r] = IF n = 0 THEN p.ehead[r] ELSE h
        /\ \A b \in Blocks : b # r => q.ehead[b] = p.ehead[b]
    BY <1>1, <1>4 DEF PoolRec
  <1>7. q.ehead \in [Blocks -> Slots]
    <2>1. n # 0 => h \in Slots
      <3>1. \A x \in Counted(p.array, r) : x \in SlotsOf(r)
        BY DEF Counted
      <3>2. SlotsOf(r) \subseteq Slots
        BY <1>1, SlotFacts
      <3> QED
        BY <3>1, <3>2, <1>5
    <2>2. p.ehead[r] \in Slots
      BY <1>1, <1>6
    <2>3. (IF n = 0 THEN p.ehead[r] ELSE h) \in Slots
      BY <2>1, <2>2
    <2> QED
      BY <1>4, <1>6, <2>3
  <1>8. /\ q.num \in [Blocks -> 0 .. B] /\ q.num[r] = n
        /\ \A b \in Blocks \ {r} : q.num[b] = p.num[b]
    <2>1. p.num \in [Blocks -> 0 .. B]
      BY DEF PoolRec
    <2> QED
      BY <2>1, <1>1, <1>2, <1>3
  <1>9. n # 0 => q.ehead[r] \in Counted(p.array, r)
    BY <1>5, <1>6
  <1> QED
    BY <1>2, <1>3, <1>6, <1>7, <1>8, <1>9 DEF RegisteredAs

\* ... and finds them again, block by block.
LEMMA RegisterWhole ==
    ASSUME NEW R, NEW p \in PoolRec, NEW r \in 0 .. p.nblk - 1,
           NEW c \in {r, p.nblk}, Whole("chain", R, p, c, r),
           NEW n, n = Cardinality(Counted(p.array, r)),
           NEW q, q = RegisterBlockOf(p, r, n)
    PROVE  Whole("chain", R, q, IF c = r THEN r + 1 ELSE c, r + 1)
  <1>1. p.nblk \in 1 .. MaxBlocks /\ r \in Blocks /\ r \in Nat
    <2>1. p.nblk \in 1 .. MaxBlocks
      BY DEF PoolRec
    <2> QED
      BY <2>1, BlockAssumption DEF Blocks
  <1>2. RegisteredAs(p, q, r, n, c)
    BY RegisterFrame
  <1>3. /\ q.num \in [Blocks -> 0 .. B] /\ q.num[r] = n
        /\ n = Cardinality(Counted(p.array, r))
        /\ \A b \in Blocks \ {r} : q.num[b] = p.num[b]
        /\ q.array = p.array /\ q.nblk = p.nblk
    BY <1>2 DEF RegisteredAs
  <1>4. Counted(p.array, r) # {} => n # 0
    BY <1>1, <1>3, CountedFinite, FS_EmptySet
  <1>5. n # 0 => q.ehead[r] \in Counted(p.array, r)
    BY <1>2 DEF RegisteredAs
  <1>6. /\ n = 0 => q.ehead[r] = p.ehead[r]
        /\ \A b \in Blocks : b # r => q.ehead[b] = p.ehead[b]
    BY <1>2 DEF RegisteredAs
  <1>8. r # 0 => HeadAt(q, r)
    <2> SUFFICES ASSUME r # 0, Emp(q.array, r) # {} PROVE q.ehead[r] \in Emp(q.array, r)
      BY DEF HeadAt
    <2>1. 0 \notin SlotsOf(r)
      BY <1>1, SlotFacts
    <2>2. Emp(p.array, r) = Counted(p.array, r)
      BY <2>1 DEF Emp, Counted
    <2>3. n # 0
      <3>1. Counted(p.array, r) # {}
        BY <1>3, <2>2
      <3> QED
        BY <3>1, <1>4
    <2> QED
      BY <1>3, <1>5, <1>6, <2>2, <2>3
  <1>9. ASSUME NEW b \in 1 .. r PROVE HeadAt(q, b)
    <2>1. CASE b = r
      BY <2>1, <1>8
    <2>2. CASE b # r
      <3>1. b \in 1 .. r - 1 /\ b \in Blocks
        BY <2>2, <1>1, BlockAssumption DEF Blocks
      <3>2. HeadAt(p, b) /\ q.ehead[b] = p.ehead[b]
        BY <3>1, <2>2, <1>6 DEF Whole
      <3> QED
        BY <3>2, <1>3 DEF HeadAt
    <2> QED
      BY <2>1, <2>2
  <1>10. q.ehead[0] = p.ehead[0] \/ q.ehead[0] \in Counted(q.array, 0)
    BY <1>3, <1>5, <1>6, SlotFacts
  <1>11. \A b \in 1 .. (r + 1) - 1 : HeadAt(q, b)
    BY <1>9
  <1>12. \A b \in 0 .. (IF c = r THEN r + 1 ELSE c) - 1 : CountAt(q, b)
    <2> SUFFICES ASSUME NEW b \in 0 .. (IF c = r THEN r + 1 ELSE c) - 1 PROVE CountAt(q, b)
      OBVIOUS
    <2>1. p.num \in [Blocks -> 0 .. B]
      BY DEF PoolRec
    <2>5. b \in Blocks
      <3>1. CASE c = r
        BY <3>1, <1>1, BlockAssumption DEF Blocks
      <3>2. CASE c = p.nblk /\ c # r
        BY <3>2, <1>1, BlockAssumption DEF Blocks
      <3> QED
        BY <3>1, <3>2
    <2>2. CASE b = r
      BY <2>2, <1>3 DEF CountAt
    <2>3. CASE b # r
      <3>1. CountAt(p, b)
        BY <2>3, <1>1 DEF Whole
      <3> QED
        BY <3>1, <2>1, <2>5, <2>3, <1>3 DEF CountAt
    <2> QED
      BY <2>2, <2>3
  <1>13. RootWhole("chain", q)
    BY <1>3, <1>10 DEF Whole, RootWhole, RootChain
  <1>14. \A b \in 1 .. p.nblk - 1 : RingAt(q, b)
    BY <1>3 DEF Whole, RingAt
  <1>15. q.array[0].check < 0 /\ \A l \in Labels \ R : q.array[l].check < 0
    BY <1>3 DEF Whole
  <1>16. Whole("chain", R, q, IF c = r THEN r + 1 ELSE c, r + 1)
    BY <1>3, <1>11, <1>12, <1>13, <1>14, <1>15 DEF Whole
  <1> QED
    BY <1>16

\* The fields of a pool.
Fields(p) ==
    /\ p.array \in [Slots -> PoolNodes] /\ p.lists \in ListRec
    /\ p.num \in [Blocks -> 0 .. B] /\ p.trial \in [Blocks -> 0 .. MaxTrial]
    /\ p.ehead \in [Blocks -> Slots] /\ p.reject \in [Blocks -> 0 .. B + 1]
    /\ p.limit \in [0 .. B -> 0 .. B + 1] /\ p.nblk \in 1 .. MaxBlocks

\* A pool whose fields are typed is one: after _pop_enode,
LEMMA TakeTyped ==
    ASSUME NEW p \in PoolRec, NEW e, NEW q, q = TakeEnode(p, e, 1, 0), Fields(q)
    PROVE  q \in PoolRec
  <1> DEFINE b == Block(e)
             N == [p.num EXCEPT ![b] = p.num[b] - 1]
             L == ListsAfterTake(p.lists, b, p.num[b] - 1, p.trial[b])
             H == IF p.num[b] - 1 = 0 THEN p.ehead ELSE [p.ehead EXCEPT ![b] = NextHead(p, e)]
             n == p.array[e]
             U == [p.array EXCEPT ![-n.base].check = n.check, ![-n.check].base = n.base]
             A == [IF p.num[b] - 1 = 0 THEN p.array ELSE U EXCEPT ![e] = Node(-1, 0)]
  <1>1. q = [p EXCEPT !.num = N, !.lists = L, !.ehead = H, !.array = A]
    BY DEF TakeEnode
  <1> HIDE DEF N, L, H, A
  <1>2. q.num = N /\ q.lists = L /\ q.ehead = H /\ q.array = A
    BY <1>1 DEF PoolRec
  <1> QED
    BY <1>1, <1>2 DEF PoolRec, Fields

\* after _push_enode,
LEMMA PushTyped ==
    ASSUME NEW p \in PoolRec, NEW e, NEW q, q = PushEnode(p, e), Fields(q)
    PROVE  q \in PoolRec
  <1> DEFINE b == Block(e)
             k == p.num[b] + 1
             v == p.ehead[b]
             x == - p.array[v].check
             N == [p.num EXCEPT ![b] = k]
             L == ListsAfterReturn(p.lists, b, k, p.trial[b])
             R == [p.reject EXCEPT ![b] = IF p.reject[b] < p.limit[k] THEN p.limit[k]
                                          ELSE p.reject[b]]
  <1>1. CASE k = 1
    <2> DEFINE H == [p.ehead EXCEPT ![b] = e]
               A == [p.array EXCEPT ![e] = Node(-e, -e)]
               f == [p EXCEPT !.ehead = H, !.array = A]
    <2>1. q = [f EXCEPT !.num = N, !.lists = L, !.reject = R]
      BY <1>1 DEF PushEnode, PoolRec
    <2> HIDE DEF N, L, R, H, A
    <2>2. q.ehead = H /\ q.array = A /\ q.num = N /\ q.lists = L /\ q.reject = R
      BY <2>1 DEF PoolRec
    <2> QED
      BY <2>1, <2>2 DEF PoolRec, Fields
  <1>2. CASE k # 1
    <2> DEFINE T == [p.trial EXCEPT ![b] = 0]
               A == [p.array EXCEPT ![e] = Node(-v, -x), ![v].check = -e, ![x].base = -e]
               f == [p EXCEPT !.trial = T, !.array = A]
    <2>1. q = [f EXCEPT !.num = N, !.lists = ListsAfterReturn(p.lists, b, k, p.trial[b]),
                        !.reject = R]
      BY <1>2 DEF PushEnode, PoolRec
    <2> HIDE DEF N, R, T, A
    <2>2. q.trial = T /\ q.array = A /\ q.num = N /\ q.reject = R
      BY <2>1 DEF PoolRec
    <2> QED
      BY <2>1, <2>2 DEF PoolRec, Fields
  <1> QED
    BY <1>1, <1>2

\* and after _add_block.
LEMMA AddTyped ==
    ASSUME NEW p \in PoolRec, NEW q, q = AddBlock(p), Fields(q)
    PROVE  q \in PoolRec
  <1> DEFINE b == p.nblk
             A == [e \in Slots |-> IF e \in SlotsOf(b) THEN FreshNode(b, e) ELSE p.array[e]]
             H == [p.ehead EXCEPT ![b] = b * B]
             L == PushBlock(p.lists, b, "Open", B)
             n == b + 1
  <1>1. q = [p EXCEPT !.ehead = H, !.array = A, !.lists = L, !.nblk = n]
    BY DEF AddBlock
  <1> HIDE DEF H, A, L, n
  <1>2. q.ehead = H /\ q.array = A /\ q.lists = L /\ q.nblk = n
    BY <1>1 DEF PoolRec
  <1> QED
    BY <1>1, <1>2 DEF PoolRec, Fields

-----------------------------------------------------------------------------
(* Sibling chains.                                                         *)

\* The first of some labels, 0 when there are none, and those above a label.
FirstOf(S)  == IF S = {} THEN 0 ELSE CHOOSE m \in S : \A x \in S : m <= x
Above(S, c) == {x \in S : x > c}

\* _ninfo holds labels.
IsNinfo(t) ==
    /\ "sibling" \in DOMAIN t /\ t.sibling \in [Slots -> Labels]
    /\ "child" \in DOMAIN t /\ t.child \in [Slots -> Labels]

\* The chain of node, whose children are at base, holds the labels S in order.
ChainOf(t, node, base, S) ==
    /\ t.child[node] = FirstOf(S)
    /\ \A c \in S : t.sibling[Xor(base, c)] = FirstOf(Above(S, c))

Ascending(q) == \A i, j \in DOMAIN q : i < j => q[i] < q[j]
Members(q)   == {q[i] : i \in DOMAIN q}

-----------------------------------------------------------------------------
(* Recursion and order.                                                    *)

\* The steps s over an interval stay in V; the walk f follows them from v0.
AreSteps(s, lo, hi, V) == s \in [lo .. hi -> [V -> V]]
IsWalk(f, lo, hi, V, v0, s) ==
    /\ f \in [lo .. hi -> V]
    /\ \A i \in lo .. hi : f[i] = IF i = lo THEN v0 ELSE s[i][f[i - 1]]

\* A recursion over an interval is a function.
LEMMA RecursionIsFunction ==
    ASSUME NEW lo \in Int, NEW hi \in Int, NEW V, NEW v0 \in V,
           NEW s, AreSteps(s, lo, hi, V)
    PROVE  \E f : IsWalk(f, lo, hi, V, v0, s)
  <1> USE DEF AreSteps, IsWalk
  <1> DEFINE Step(f, i) == IF i = lo THEN v0 ELSE s[i][f[i - 1]]
             Good(f, m) == /\ f = [i \in lo .. m |-> Step(f, i)]
                           /\ f \in [lo .. m -> V]
             Bad == {n \in Nat : lo - 1 + n <= hi /\ ~ \E f : Good(f, lo - 1 + n)}
  <1>1. Bad = {}
    <2> SUFFICES ASSUME Bad # {} PROVE FALSE
      OBVIOUS
    <2>1. Bad \in SUBSET Nat
      OBVIOUS
    <2> HIDE DEF Bad
    <2>2. PICK n \in Bad : \A x \in Bad : n <= x
      BY <2>1, Least
    <2>3. n \in Nat /\ lo - 1 + n <= hi /\ ~ \E f : Good(f, lo - 1 + n)
      BY DEF Bad
    <2>4. n # 0
      <3> SUFFICES ASSUME n = 0 PROVE FALSE
        OBVIOUS
      <3>1. lo .. lo - 1 + n = {}
        OBVIOUS
      <3> DEFINE f == [i \in lo .. lo - 1 + n |-> v0]
      <3>2. f = [i \in lo .. lo - 1 + n |-> Step(f, i)]
        BY <3>1
      <3>3. f \in [lo .. lo - 1 + n -> V]
        OBVIOUS
      <3> QED
        BY <3>2, <3>3, <2>3
    <2>5. n - 1 \in Nat /\ n - 1 \notin Bad
      BY <2>2, <2>3, <2>4
    <2> DEFINE m == lo - 1 + n
    <2>6. m - 1 = lo - 1 + (n - 1) /\ m \in Int /\ lo <= m /\ m <= hi /\ m - 1 <= hi
      BY <2>3, <2>4
    <2>7. PICK f : Good(f, m - 1)
      BY <2>5, <2>6 DEF Bad
    <2> HIDE DEF m
    <2> DEFINE g == [i \in lo .. m |-> Step(f, i)]
    <2>8. ASSUME NEW i \in lo .. m PROVE Step(g, i) = Step(f, i) /\ Step(f, i) \in V
      <3>1. CASE i = lo
        BY <3>1
      <3>2. CASE i # lo
        <4>1. i - 1 \in lo .. m /\ i - 1 \in lo .. m - 1 /\ i \in lo .. hi
          BY <3>2, <2>6
        <4>2. g[i - 1] = Step(f, i - 1)
          BY <4>1
        <4>3. f[i - 1] = Step(f, i - 1) /\ f[i - 1] \in V
          <5> HIDE DEF Step
          <5> QED
            BY <4>1, <2>7
        <4>4. g[i - 1] = f[i - 1]
          BY <4>2, <4>3
        <4> HIDE DEF g
        <4> QED
          BY <3>2, <4>1, <4>3, <4>4
      <3> QED
        BY <3>1, <3>2
    <2>9. g = [i \in lo .. m |-> Step(g, i)] /\ g \in [lo .. m -> V]
      <3> HIDE DEF Step
      <3> QED
        BY <2>8
    <2> HIDE DEF g
    <2> QED
      BY <2>9, <2>3 DEF m
  <1>2. CASE lo <= hi
    <2> DEFINE n == hi - lo + 1
    <2>1. n \in Nat /\ lo - 1 + n = hi
      BY <1>2
    <2> HIDE DEF n, Good
    <2>4. ~ (n \in Nat /\ lo - 1 + n <= hi /\ ~ \E f : Good(f, lo - 1 + n))
      BY <1>1
    <2>2. \E f : Good(f, lo - 1 + n)
      BY <2>4, <2>1
    <2>3. PICK f : Good(f, hi)
      BY <2>1, <2>2
    <2> QED
      BY <2>3 DEF Good
  <1>3. CASE ~ lo <= hi
    <2>1. lo .. hi = {}
      BY <1>3
    <2> DEFINE f == [i \in lo .. hi |-> v0]
    <2>2. f = [i \in lo .. hi |-> Step(f, i)] /\ f \in [lo .. hi -> V]
      BY <2>1
    <2> QED
      BY <2>2
  <1> QED
    BY <1>2, <1>3

\* The first of some labels is one of them, and the least.
LEMMA FirstIn ==
    ASSUME NEW S \in SUBSET Labels, S # {}
    PROVE  FirstOf(S) \in S /\ \A x \in S : FirstOf(S) <= x
  <1>1. S \in SUBSET Nat
    BY BlockAssumption DEF Labels
  <1> QED
    BY <1>1, Least DEF FirstOf

\* The least of some labels is the first.
LEMMA FirstIs ==
    ASSUME NEW S \in SUBSET Labels, NEW m \in S, \A x \in S : m <= x
    PROVE  FirstOf(S) = m
  <1>1. FirstOf(S) \in S /\ \A x \in S : FirstOf(S) <= x
    BY FirstIn
  <1> DEFINE l == FirstOf(S)
  <1> HIDE DEF l
  <1>2. l \in Labels /\ m \in Labels
    BY <1>1 DEF l
  <1>3. l \in Nat /\ m \in Nat /\ l <= m /\ m <= l
    BY <1>1, <1>2, BlockAssumption DEF Labels, l
  <1>4. l = m
    BY <1>3
  <1> QED
    BY <1>4 DEF l

\* There is no label above c exactly when the first of them is 0.
LEMMA FirstAbove ==
    ASSUME NEW S \in SUBSET Labels, NEW c \in Labels
    PROVE  /\ Above(S, c) \in SUBSET Labels
           /\ FirstOf(Above(S, c)) \in Labels
           /\ FirstOf(Above(S, c)) = 0 <=> Above(S, c) = {}
           /\ Above(S, c) # {} => /\ FirstOf(Above(S, c)) \in S
                                  /\ FirstOf(Above(S, c)) > c
                                  /\ \A x \in S : x > c => FirstOf(Above(S, c)) <= x
  <1>1. Above(S, c) \in SUBSET Labels
    BY DEF Above
  <1>2. CASE Above(S, c) = {}
    BY <1>1, <1>2, BlockAssumption DEF FirstOf, Labels
  <1>3. CASE Above(S, c) # {}
    <2>1. FirstOf(Above(S, c)) \in Above(S, c)
          /\ \A x \in Above(S, c) : FirstOf(Above(S, c)) <= x
      BY <1>1, <1>3, FirstIn
    <2>2. FirstOf(Above(S, c)) \in Labels /\ FirstOf(Above(S, c)) > c
      BY <2>1, <1>1 DEF Above
    <2>3. FirstOf(Above(S, c)) # 0
      BY <2>2, BlockAssumption DEF Labels
    <2> QED
      BY <1>1, <1>3, <2>1, <2>2, <2>3 DEF Above
  <1> QED
    BY <1>2, <1>3

-----------------------------------------------------------------------------
(* Walking along a chain.                                                  *)

\* Labels in ascending order are at least their places, counted from 0.
LEMMA AscendingLabels ==
    ASSUME NEW q \in Seq(Labels), Ascending(q)
    PROVE  \A i \in DOMAIN q : q[i] >= i - 1
  <1> DEFINE Bad == {i \in DOMAIN q : ~ q[i] >= i - 1}
  <1> SUFFICES ASSUME Bad # {} PROVE FALSE
    OBVIOUS
  <1>1. Len(q) \in Nat /\ DOMAIN q = 1 .. Len(q) /\ \A i \in DOMAIN q : q[i] \in Labels
    OBVIOUS
  <1>2. Bad \in SUBSET Nat
    BY <1>1
  <1> HIDE DEF Bad
  <1>3. PICK m \in Bad : \A x \in Bad : m <= x
    BY <1>2, Least
  <1>4. m \in 1 .. Len(q) /\ ~ q[m] >= m - 1
    BY <1>1 DEF Bad
  <1>5. q[m] \in Nat
    BY <1>1, <1>4, BlockAssumption DEF Labels
  <1>6. m # 1
    BY <1>4, <1>5
  <1>7. m - 1 \in DOMAIN q /\ m - 1 \notin Bad /\ m - 1 < m
    BY <1>1, <1>3, <1>4, <1>6
  <1>8. q[m - 1] >= m - 1 - 1
    BY <1>7 DEF Bad
  <1>9. q[m - 1] < q[m]
    BY <1>1, <1>4, <1>7 DEF Ascending
  <1>10. q[m - 1] \in Nat
    BY <1>1, <1>7, BlockAssumption DEF Labels
  <1> QED
    BY <1>4, <1>5, <1>8, <1>9, <1>10

\* The labels of S up to the last of v.
PartOf(v, S) ==
    /\ v \in Seq(Labels) /\ v # <<>>
    /\ Ascending(v)
    /\ v[Len(v)] \in S
    /\ Members(v) = {x \in S : x <= v[Len(v)]}

\* The first label alone, and what one more step along the chain adds.
LEMMA PartStarts ==
    ASSUME NEW S \in SUBSET Labels, S # {}
    PROVE  PartOf(<<FirstOf(S)>>, S)
  <1> DEFINE l == FirstOf(S)
  <1>1. l \in S /\ \A x \in S : l <= x
    BY FirstIn
  <1> HIDE DEF l
  <1>2. <<l>> \in Seq(Labels) /\ <<l>> # <<>> /\ Len(<<l>>) = 1 /\ <<l>>[1] = l
    BY <1>1
  <1>3. Ascending(<<l>>)
    BY DEF Ascending
  <1>4. Members(<<l>>) = {l}
    BY DEF Members
  <1>5. {x \in S : x <= l} = {l}
    <2>1. \A x \in S : x \in Int
      BY BlockAssumption DEF Labels
    <2>2. \A x \in S : x <= l <=> x = l
      BY <1>1, <2>1
    <2> QED
      BY <1>1, <2>2
  <1>6. PartOf(<<l>>, S)
    BY <1>1, <1>2, <1>3, <1>4, <1>5 DEF PartOf
  <1> QED
    BY <1>6 DEF l

LEMMA PartGrows ==
    ASSUME NEW S \in SUBSET Labels, NEW v, PartOf(v, S), Above(S, v[Len(v)]) # {}
    PROVE  LET n == FirstOf(Above(S, v[Len(v)]))
           IN  PartOf(Append(v, n), S) /\ Len(Append(v, n)) = Len(v) + 1
  <1> DEFINE l == v[Len(v)]
             n == FirstOf(Above(S, l))
             w == Append(v, n)
  <1>1. v \in Seq(Labels) /\ Len(v) \in Nat /\ DOMAIN v = 1 .. Len(v) /\ Len(v) \in DOMAIN v
    BY DEF PartOf
  <1>2. l \in S /\ l \in Labels
    BY DEF PartOf
  <1>3. n \in S /\ n \in Labels /\ n > l /\ \A x \in S : x > l => n <= x
    BY <1>2, FirstAbove
  <1> HIDE DEF n, l
  <1>4. /\ w \in Seq(Labels) /\ w # <<>> /\ Len(w) = Len(v) + 1
        /\ DOMAIN w = 1 .. Len(v) + 1 /\ w[Len(v) + 1] = n
        /\ \A i \in DOMAIN v : w[i] = v[i]
    BY <1>1, <1>3
  <1> HIDE DEF w
  <1>5. \A i \in DOMAIN v : v[i] <= l /\ v[i] \in Labels
    BY <1>1 DEF PartOf, Members, l
  <1>6. Ascending(w)
    <2> SUFFICES ASSUME NEW i \in DOMAIN w, NEW j \in DOMAIN w, i < j
                 PROVE  w[i] < w[j]
      BY DEF Ascending
    <2>1. i \in DOMAIN v
      BY <1>1, <1>4
    <2>2. CASE j \in DOMAIN v
      BY <2>1, <2>2, <1>4 DEF PartOf, Ascending
    <2>3. CASE j \notin DOMAIN v
      <3>1. j = Len(v) + 1
        BY <2>3, <1>1, <1>4
      <3>2. w[i] = v[i] /\ w[j] = n /\ v[i] <= l /\ v[i] \in Labels
        BY <3>1, <2>1, <1>4, <1>5
      <3> QED
        BY <3>2, <1>2, <1>3, BlockAssumption DEF Labels
    <2> QED
      BY <2>2, <2>3
  <1>7. Members(w) = Members(v) \cup {n}
    BY <1>1, <1>4 DEF Members
  <1>8. {x \in S : x <= n} = {x \in S : x <= l} \cup {n}
    <2>1. n \in Int /\ l \in Int /\ \A x \in S : x \in Int
      BY <1>2, <1>3, BlockAssumption DEF Labels
    <2>2. \A x \in S : x <= n <=> x <= l \/ x = n
      BY <1>3, <2>1
    <2> QED
      BY <1>3, <2>2
  <1>9. PartOf(w, S)
    BY <1>3, <1>4, <1>6, <1>7, <1>8 DEF PartOf, l
  <1> QED
    BY <1>4, <1>9 DEF w, n, l

\* What the chain of a node lists: its labels, in ascending order.
THEOREM ChainLists ==
    ASSUME NEW t, IsNinfo(t), NEW node, NEW base \in Slots,
           NEW S \in SUBSET Labels, S # {}, ChainOf(t, node, base, S)
    PROVE  LET q == Chain(t, base, t.child[node])
           IN  q \in Seq(Labels) /\ Ascending(q) /\ Members(q) = S
  <1> DEFINE c == t.child[node]
             V == {v \in Seq(Labels) : v # <<>>}
             Grow(v) == IF t.sibling[Xor(base, v[Len(v)])] = 0 THEN v
                        ELSE Append(v, t.sibling[Xor(base, v[Len(v)])])
             s == [i \in 1 .. B |-> [v \in V |-> Grow(v)]]
             Walk(u) == u = [i \in 1 .. B |-> IF i = 1 THEN <<c>> ELSE Grow(u[i - 1])]
  <1>1. c = FirstOf(S) /\ PartOf(<<c>>, S) /\ <<c>> \in V
    <2>1. c = FirstOf(S) /\ PartOf(<<c>>, S)
      BY PartStarts DEF ChainOf
    <2> QED
      BY <2>1 DEF PartOf
  <1>2. \E u : Walk(u)
    <2>1. ASSUME NEW v \in V PROVE Grow(v) \in V
      <3>1. v \in Seq(Labels) /\ Len(v) \in DOMAIN v
        OBVIOUS
      <3>2. v[Len(v)] \in Labels
        BY <3>1
      <3>3. t.sibling[Xor(base, v[Len(v)])] \in Labels
        BY <3>2, XorAssumption DEF IsNinfo
      <3> QED
        BY <3>1, <3>3
    <2> HIDE DEF V, Grow, c
    <2>2. s \in [1 .. B -> [V -> V]]
      BY <2>1
    <2>3. 1 \in Int /\ B \in Int
      BY BlockAssumption
    <2>8. <<c>> \in V
      BY <1>1
    <2> HIDE DEF s
    <2> DEFINE v0 == <<c>>
    <2> HIDE DEF v0
    <2>9. v0 \in V
      BY <2>8 DEF v0
    <2> DEFINE lo == 1
    <2>11. lo \in Int /\ lo = 1
      OBVIOUS
    <2> HIDE DEF lo
    <2>12. AreSteps(s, lo, B, V)
      BY <2>2, <2>11 DEF AreSteps
    <2>13. \E f : IsWalk(f, lo, B, V, v0, s)
      BY <2>12, <2>3, <2>9, <2>11, RecursionIsFunction
    <2>10. PICK f \in [1 .. B -> V] :
             \A i \in 1 .. B : f[i] = IF i = 1 THEN v0 ELSE s[i][f[i - 1]]
      BY <2>11, <2>13 DEF IsWalk
    <2>5. ASSUME NEW i \in 1 .. B, i # 1 PROVE s[i][f[i - 1]] = Grow(f[i - 1])
      <3>1. i - 1 \in 1 .. B
        BY <2>5, BlockAssumption
      <3>2. f[i - 1] \in V
        BY <3>1, <2>10
      <3> QED
        BY <3>2 DEF s
    <2>6. f = [i \in 1 .. B |-> IF i = 1 THEN <<c>> ELSE Grow(f[i - 1])]
      <3>1. f = [i \in 1 .. B |-> f[i]]
        BY <2>10
      <3>2. \A i \in 1 .. B : f[i] = IF i = 1 THEN <<c>> ELSE Grow(f[i - 1])
        BY <2>10, <2>5 DEF v0
      <3> QED
        BY <3>1, <3>2
    <2> QED
      BY <2>6
  <1>3. PICK u : Walk(u) /\ Chain(t, base, c) = u[B]
    BY <1>2 DEF Chain
  <1> DEFINE Good(i) == PartOf(u[i], S) /\ (Above(S, u[i][Len(u[i])]) = {} \/ Len(u[i]) >= i)
             Bad == {i \in 1 .. B : ~ Good(i)}
  <1>4. ASSUME NEW v, PartOf(v, S)
        PROVE  IF Above(S, v[Len(v)]) = {} THEN Grow(v) = v
               ELSE PartOf(Grow(v), S) /\ Len(Grow(v)) = Len(v) + 1
    <2>1. v[Len(v)] \in S /\ v[Len(v)] \in Labels
      BY <1>4 DEF PartOf
    <2>2. t.sibling[Xor(base, v[Len(v)])] = FirstOf(Above(S, v[Len(v)]))
      BY <2>1 DEF ChainOf
    <2>3. FirstOf(Above(S, v[Len(v)])) = 0 <=> Above(S, v[Len(v)]) = {}
      BY <2>1, FirstAbove
    <2> QED
      BY <1>4, <2>2, <2>3, PartGrows
  <1> HIDE DEF Grow, c
  <1>5. u[1] = <<c>> /\ \A i \in 1 .. B : i # 1 => u[i] = Grow(u[i - 1])
    BY <1>3, BlockAssumption
  <1>6. Bad = {}
    <2> SUFFICES ASSUME Bad # {} PROVE FALSE
      OBVIOUS
    <2>1. Bad \in SUBSET Nat
      OBVIOUS
    <2> HIDE DEF Bad
    <2>2. PICK m \in Bad : \A x \in Bad : m <= x
      BY <2>1, Least
    <2>3. m \in 1 .. B /\ ~ Good(m)
      BY DEF Bad
    <2>4. m # 1
      <3>1. Good(1)
        BY <1>1, <1>5
      <3> QED
        BY <3>1, <2>3
    <2>5. m - 1 \in 1 .. B /\ m - 1 \notin Bad
      BY <2>2, <2>3, <2>4, BlockAssumption
    <2>6. Good(m - 1)
      BY <2>5 DEF Bad
    <2>7. u[m] = Grow(u[m - 1])
      BY <1>5, <2>3, <2>4
    <2>8. PartOf(u[m - 1], S) /\ Len(u[m - 1]) \in Nat
      BY <2>6 DEF PartOf
    <2>9. CASE Above(S, u[m - 1][Len(u[m - 1])]) = {}
      <3>1. u[m] = u[m - 1]
        BY <2>7, <2>8, <2>9, <1>4
      <3> QED
        BY <3>1, <2>3, <2>8, <2>9
    <2>10. CASE Above(S, u[m - 1][Len(u[m - 1])]) # {}
      <3>1. PartOf(u[m], S) /\ Len(u[m]) = Len(u[m - 1]) + 1
        BY <2>7, <2>8, <2>10, <1>4
      <3>2. Len(u[m - 1]) >= m - 1
        BY <2>6, <2>10
      <3> QED
        BY <3>1, <3>2, <2>3, <2>8
    <2> QED
      BY <2>9, <2>10
  <1> DEFINE q == u[B]
             l == q[Len(q)]
  <1>7. PartOf(q, S) /\ (Above(S, l) = {} \/ Len(q) >= B)
    BY <1>6, BlockAssumption
  <1> HIDE DEF q
  <1>8. l \in S /\ l \in Labels /\ Len(q) \in DOMAIN q /\ q \in Seq(Labels) /\ Ascending(q)
    BY <1>7 DEF PartOf
  <1>9. \A x \in S : x <= l
    <2>1. CASE Above(S, l) = {}
      BY <2>1, <1>8, BlockAssumption DEF Above, Labels
    <2>2. CASE Len(q) >= B
      <3>1. l >= Len(q) - 1
        BY <1>8, AscendingLabels
      <3>2. l >= B - 1
        BY <3>1, <2>2, <1>8, BlockAssumption DEF Labels
      <3> QED
        BY <3>2, <1>8, BlockAssumption DEF Labels
    <2> QED
      BY <1>7, <2>1, <2>2
  <1>10. Members(q) = S
    BY <1>7, <1>9 DEF PartOf
  <1> QED
    BY <1>3, <1>8, <1>10 DEF c, q

-----------------------------------------------------------------------------
(* _push_sibling.                                                          *)

\* The walk of _push_sibling from c: the last label before the newcomer.
Smaller(t, base, c, label) ==
    CHOOSE u : u = [i \in 1 .. B |->
                     IF i = 1 THEN c
                     ELSE LET l == u[i - 1]
                              s == t.sibling[Xor(base, l)]
                          IN  IF s = 0 \/ s >= label THEN l ELSE s]

LEMMA SmallerEnds ==
    ASSUME NEW t, IsNinfo(t), NEW node, NEW base \in Slots,
           NEW S \in SUBSET Labels, S # {}, ChainOf(t, node, base, S),
           NEW label \in Labels, label \notin S, label > t.child[node]
    PROVE  LET l == Smaller(t, base, t.child[node], label)[B]
           IN  l \in S /\ l < label /\ \A x \in S : x < label => x <= l
  <1> DEFINE c == t.child[node]
             After(l) == LET s == t.sibling[Xor(base, l)]
                         IN  IF s = 0 \/ s >= label THEN l ELSE s
             Walk(u) == u = [i \in 1 .. B |-> IF i = 1 THEN c ELSE After(u[i - 1])]
             s == [i \in 1 .. B |-> [l \in Labels |-> After(l)]]
             lo == 1
  <1>1. c = FirstOf(S) /\ c \in S /\ \A x \in S : c <= x
    BY FirstIn DEF ChainOf
  <1>2. \E u : Walk(u)
    <2>1. ASSUME NEW l \in Labels PROVE After(l) \in Labels
      <3>1. Xor(base, l) \in Slots
        BY XorAssumption
      <3> QED
        BY <3>1 DEF IsNinfo
    <2>2. c \in Labels /\ lo \in Int /\ lo = 1 /\ B \in Int
      BY <1>1, BlockAssumption
    <2> HIDE DEF After, c, lo
    <2>3. AreSteps(s, lo, B, Labels)
      BY <2>1, <2>2 DEF AreSteps
    <2> HIDE DEF s
    <2>4. PICK f : IsWalk(f, lo, B, Labels, c, s)
      BY <2>2, <2>3, RecursionIsFunction
    <2>5. /\ f = [i \in 1 .. B |-> f[i]]
          /\ \A i \in 1 .. B : f[i] = IF i = 1 THEN c ELSE s[i][f[i - 1]]
      BY <2>2, <2>4 DEF IsWalk
    <2>6. ASSUME NEW i \in 1 .. B, i # 1 PROVE s[i][f[i - 1]] = After(f[i - 1])
      <3>1. i - 1 \in 1 .. B
        BY <2>6, BlockAssumption
      <3>2. f[i - 1] \in Labels
        BY <3>1, <2>2, <2>4 DEF IsWalk
      <3> QED
        BY <3>2 DEF s
    <2>7. \A i \in 1 .. B : f[i] = IF i = 1 THEN c ELSE After(f[i - 1])
      BY <2>5, <2>6
    <2>8. f = [i \in 1 .. B |-> IF i = 1 THEN c ELSE After(f[i - 1])]
      BY <2>5, <2>7
    <2> QED
      BY <2>8
  <1>3. PICK u : Walk(u) /\ Smaller(t, base, c, label) = u
    BY <1>2 DEF Smaller
  <1> DEFINE Last(l) == \A x \in S : x < label => x <= l
             Good(i) == u[i] \in S /\ u[i] < label /\ (Last(u[i]) \/ u[i] >= i - 1)
             Bad == {i \in 1 .. B : ~ Good(i)}
  <1>4. ASSUME NEW l \in S, l < label
        PROVE  IF Last(l) THEN After(l) = l
               ELSE After(l) \in S /\ After(l) < label /\ After(l) > l
    <2>1. l \in Labels /\ t.sibling[Xor(base, l)] = FirstOf(Above(S, l))
      BY DEF ChainOf
    <2>2. l \in Int /\ label \in Int /\ \A x \in S : x \in Int
      BY <2>1, BlockAssumption DEF Labels
    <2> DEFINE n == FirstOf(Above(S, l))
    <2>3. /\ n = 0 <=> Above(S, l) = {}
          /\ Above(S, l) # {} => n \in S /\ n > l /\ \A x \in S : x > l => n <= x
      BY <2>1, FirstAbove
    <2> HIDE DEF n
    <2>4. After(l) = IF n = 0 \/ n >= label THEN l ELSE n
      BY <2>1 DEF n
    <2> HIDE DEF After
    <2>8. n \in Int
      <3>1. CASE Above(S, l) = {}
        BY <3>1, <2>3
      <3>2. CASE Above(S, l) # {}
        BY <3>2, <2>2, <2>3
      <3> QED
        BY <3>1, <3>2
    <2>5. CASE n = 0
      <3>1. \A x \in S : x <= l
        BY <2>2, <2>3, <2>5 DEF Above
      <3> QED
        BY <3>1, <2>4, <2>5
    <2>6. CASE n # 0 /\ n >= label
      <3>1. \A x \in S : x > l => x >= label
        BY <2>2, <2>3, <2>6, <2>8
      <3> QED
        BY <3>1, <2>2, <2>4, <2>6
    <2>7. CASE n # 0 /\ n < label
      <3>1. n \in S /\ n > l
        BY <2>3, <2>7
      <3>2. ~ Last(l)
        BY <3>1, <2>2, <2>7
      <3> QED
        BY <3>1, <3>2, <2>2, <2>4, <2>7
    <2> QED
      BY <2>8, <2>2, <2>5, <2>6, <2>7
  <1> HIDE DEF After, c
  <1>5. u[1] = c /\ \A i \in 1 .. B : i # 1 => u[i] = After(u[i - 1])
    BY <1>3, BlockAssumption
  <1>6. \A x \in S : x \in 0 .. B - 1
    BY DEF Labels
  <1>7. label \in 0 .. B - 1 /\ B \in Nat /\ B >= 2
    BY BlockAssumption DEF Labels
  <1>8. Bad = {}
    <2> SUFFICES ASSUME Bad # {} PROVE FALSE
      OBVIOUS
    <2>1. Bad \in SUBSET Nat
      OBVIOUS
    <2> HIDE DEF Bad
    <2>2. PICK m \in Bad : \A x \in Bad : m <= x
      BY <2>1, Least
    <2>3. m \in 1 .. B /\ ~ Good(m)
      BY DEF Bad
    <2>4. m # 1
      <3>1. c < label
        BY DEF c
      <3>2. Good(1)
        BY <1>1, <1>5, <1>6, <3>1
      <3> QED
        BY <3>2, <2>3
    <2>5. m - 1 \in 1 .. B /\ m - 1 \notin Bad
      BY <2>2, <2>3, <2>4, <1>7
    <2>6. Good(m - 1)
      BY <2>5 DEF Bad
    <2>7. u[m] = After(u[m - 1])
      BY <1>5, <2>3, <2>4
    <2> DEFINE l == u[m - 1]
    <2>8. l \in S /\ l < label /\ (Last(l) \/ l >= m - 1 - 1)
      BY <2>6
    <2> HIDE DEF l
    <2>9. u[m] = After(l)
      BY <2>7 DEF l
    <2>10. CASE Last(l)
      <3>1. u[m] = l
        BY <1>4, <2>8, <2>9, <2>10
      <3> QED
        BY <3>1, <2>3, <2>8, <2>10
    <2>11. CASE ~ Last(l)
      <3>1. u[m] \in S /\ u[m] < label /\ u[m] > l
        BY <1>4, <2>8, <2>9, <2>11
      <3>2. l >= m - 1 - 1
        BY <2>8, <2>11
      <3>3. u[m] >= m - 1
        BY <3>1, <3>2, <2>3, <2>8, <1>6
      <3> QED
        BY <3>1, <3>3, <2>3
    <2> QED
      BY <2>10, <2>11
  <1>9. u[B] \in S /\ u[B] < label /\ (Last(u[B]) \/ u[B] >= B - 1)
    BY <1>7, <1>8
  <1> DEFINE l == u[B]
  <1>10. Smaller(t, base, c, label)[B] = l
    BY <1>3
  <1>11. l \in S /\ l < label /\ (Last(l) \/ l >= B - 1)
    BY <1>9
  <1> HIDE DEF l
  <1>12. l \in 0 .. B - 1
    BY <1>6, <1>11
  <1>13. ~ l >= B - 1
    BY <1>7, <1>11, <1>12
  <1> QED
    BY <1>10, <1>11, <1>13 DEF c

\* What _push_sibling leaves alone: every field but the chains, every chain
\* but node's.
OnlyChain(t, u, node, base, S) ==
    /\ DOMAIN u = DOMAIN t
    /\ \A field \in DOMAIN t \ {"sibling", "child"} : u[field] = t[field]
    /\ IsNinfo(u)
    /\ \A n \in Slots \ {node} : u.child[n] = t.child[n]
    /\ \A e \in Slots : (\A x \in S : e # Xor(base, x)) => u.sibling[e] = t.sibling[e]

\* What the slots of two labels of a node are.
LEMMA XorApart ==
    ASSUME NEW base \in Slots, NEW c \in Labels, NEW d \in Labels
    PROVE  Xor(base, c) \in Slots /\ (Xor(base, c) = Xor(base, d) => c = d)
  BY XorAssumption

\* A label joins those of a node: what follows it, and what it follows.
LEMMA FirstWith ==
    ASSUME NEW S \in SUBSET Labels, NEW label \in Labels \ S
    PROVE  LET T == S \cup {label}
           IN  /\ FirstOf(T) = IF S = {} \/ label < FirstOf(S) THEN label ELSE FirstOf(S)
               /\ FirstOf(Above(T, label)) = FirstOf(Above(S, label))
               /\ \A x \in S : FirstOf(Above(T, x)) =
                     IF /\ x < label
                        /\ Above(S, x) = {} \/ label < FirstOf(Above(S, x))
                     THEN label ELSE FirstOf(Above(S, x))
  <1>1. \A x \in Labels : x \in Int
    BY BlockAssumption DEF Labels
  <1>2. ASSUME NEW R \in SUBSET Labels, label \notin R
        PROVE  FirstOf(R \cup {label})
                 = IF R = {} \/ label < FirstOf(R) THEN label ELSE FirstOf(R)
    <2>1. R \cup {label} \in SUBSET Labels
      OBVIOUS
    <2>2. CASE R = {}
      <3>1. label \in R \cup {label} /\ \A x \in R \cup {label} : label <= x
        BY <1>1, <2>2
      <3>2. FirstOf(R \cup {label}) = label
        BY <2>1, <3>1, FirstIs
      <3> QED
        BY <3>2, <2>2
    <2>3. CASE R # {}
      <3> DEFINE f == FirstOf(R)
      <3>1. f \in R /\ \A x \in R : f <= x
        BY <2>3, FirstIn
      <3> HIDE DEF f
      <3> DEFINE m == IF label < f THEN label ELSE f
      <3>2. m \in R \cup {label}
        BY <3>1
      <3>3. \A x \in R \cup {label} : m <= x
        BY <1>1, <3>1
      <3> HIDE DEF m
      <3>4. FirstOf(R \cup {label}) = m
        BY <2>1, <3>2, <3>3, FirstIs
      <3> QED
        BY <3>4, <2>3 DEF m, f
    <2> QED
      BY <2>2, <2>3
  <1> DEFINE T == S \cup {label}
  <1>3. Above(T, label) = Above(S, label)
    BY <1>1 DEF Above
  <1>4. ASSUME NEW x \in S, ~ x < label PROVE Above(T, x) = Above(S, x)
    BY <1>1, <1>4 DEF Above
  <1>5. ASSUME NEW x \in S, x < label
        PROVE  Above(T, x) = Above(S, x) \cup {label} /\ label \notin Above(S, x)
               /\ Above(S, x) \in SUBSET Labels
    BY <1>1, <1>5 DEF Above
  <1>6. ASSUME NEW x \in S
        PROVE  FirstOf(Above(T, x)) =
                 IF x < label /\ (Above(S, x) = {} \/ label < FirstOf(Above(S, x)))
                 THEN label ELSE FirstOf(Above(S, x))
    <2>1. CASE x < label
      <3>1. FirstOf(Above(S, x) \cup {label})
              = IF Above(S, x) = {} \/ label < FirstOf(Above(S, x)) THEN label
                ELSE FirstOf(Above(S, x))
        BY <1>5, <2>1, <1>2
      <3> QED
        BY <3>1, <1>5, <2>1
    <2>2. CASE ~ x < label
      BY <1>4, <2>2
    <2> QED
      BY <2>1, <2>2
  <1>7. FirstOf(T) = IF S = {} \/ label < FirstOf(S) THEN label ELSE FirstOf(S)
    BY <1>2
  <1> QED
    BY <1>3, <1>6, <1>7

\* _push_sibling keeps the chain of a node in order.
THEOREM PushSiblingOrder ==
    ASSUME NEW t, IsNinfo(t), NEW node \in Slots, NEW base \in Slots,
           NEW S \in SUBSET Labels, ChainOf(t, node, base, S),
           NEW label \in Labels \ S, NEW in_order \in BOOLEAN, in_order <=> S # {}
    PROVE  LET u == PushSibling(t, node, base, label, in_order)
           IN  ChainOf(u, node, base, S \cup {label}) /\ OnlyChain(t, u, node, base, S \cup {label})
  <1> DEFINE c == t.child[node]
             u == PushSibling(t, node, base, label, in_order)
             T == S \cup {label}
  <1>0. c = FirstOf(S) /\ c \in Labels /\ T \in SUBSET Labels
    BY DEF ChainOf, IsNinfo
  <1>1. \A x \in Labels : x \in Int
    BY BlockAssumption DEF Labels
  <1>2. /\ FirstOf(T) = IF S = {} \/ label < FirstOf(S) THEN label ELSE FirstOf(S)
        /\ FirstOf(Above(T, label)) = FirstOf(Above(S, label))
        /\ \A x \in S : FirstOf(Above(T, x)) =
              IF x < label /\ (Above(S, x) = {} \/ label < FirstOf(Above(S, x)))
              THEN label ELSE FirstOf(Above(S, x))
    BY FirstWith
  <1>3. \A x \in Labels, y \in Labels :
           Xor(base, x) \in Slots /\ (Xor(base, x) = Xor(base, y) => x = y)
    BY XorApart
  <1>4. \A x \in S : t.sibling[Xor(base, x)] = FirstOf(Above(S, x))
    BY DEF ChainOf
  <1>5. CASE in_order /\ label > c
    <2>1. S # {}
      BY <1>5
    <2> DEFINE l == Smaller(t, base, c, label)[B]
               before == Xor(base, l)
               sib == [[t.sibling EXCEPT ![Xor(base, label)] = t.sibling[before]] EXCEPT ![before] = label]
    <2>2. l \in S /\ l < label /\ \A x \in S : x < label => x <= l
      BY <1>5, <2>1, SmallerEnds
    <2>3. u = [t EXCEPT !.sibling = [t.sibling EXCEPT ![Xor(base, label)] = t.sibling[before],
                                                      ![before] = label]]
      BY <1>5 DEF PushSibling, Smaller
    <2>4. u = [t EXCEPT !.sibling = sib]
      BY <2>3
    <2> HIDE DEF l, u, c, T
    <2>5. /\ before \in Slots /\ Xor(base, label) \in Slots /\ before # Xor(base, label)
          /\ l \in Labels /\ label \in Labels
      BY <2>2, <1>3
    <2> HIDE DEF before
    <2>6. /\ sib \in [Slots -> Labels]
          /\ sib[before] = label /\ sib[Xor(base, label)] = t.sibling[before]
          /\ \A e \in Slots : e # before /\ e # Xor(base, label) => sib[e] = t.sibling[e]
      BY <2>5 DEF IsNinfo
    <2> HIDE DEF sib
    <2>7. /\ u.sibling = sib /\ u.child = t.child /\ DOMAIN u = DOMAIN t
          /\ \A field \in DOMAIN t \ {"sibling", "child"} : u[field] = t[field]
      BY <2>4 DEF IsNinfo
    <2>8. ASSUME NEW x \in S, x # l
          PROVE  sib[Xor(base, x)] = FirstOf(Above(T, x))
      <3>1. sib[Xor(base, x)] = FirstOf(Above(S, x))
        <4>1. Xor(base, x) \in Slots /\ Xor(base, x) # before /\ Xor(base, x) # Xor(base, label)
          BY <1>3, <2>2, <2>8 DEF before
        <4> QED
          BY <4>1, <2>6, <1>4
      <3>2. x \in Int /\ l \in Int /\ label \in Int
        BY <1>1, <2>5
      <3>3. CASE x < label
        <4>1. l \in Above(S, x) /\ Above(S, x) \in SUBSET Labels
          <5>1. x <= l /\ x # l
            BY <2>2, <2>8, <3>3
          <5>2. l > x
            BY <5>1, <3>2
          <5> QED
            BY <5>2, <2>2 DEF Above
        <4> DEFINE A == Above(S, x)
        <4>4. A \in SUBSET Labels /\ A # {} /\ l \in A
          BY <4>1
        <4> HIDE DEF A
        <4>5. FirstOf(A) \in A /\ \A y \in A : FirstOf(A) <= y
          BY <4>4, FirstIn
        <4>2. FirstOf(Above(S, x)) \in Labels /\ FirstOf(Above(S, x)) <= l
          BY <4>4, <4>5 DEF A
        <4> DEFINE f == FirstOf(Above(S, x))
        <4>3. ~ label < f /\ Above(S, x) # {}
          <5> HIDE DEF f, A
          <5>1. f \in Int /\ f <= l /\ l < label
            BY <4>2, <2>2, <1>1 DEF f
          <5> QED
            BY <5>1, <3>2, <4>1
        <4> QED
          BY <4>3, <3>1, <1>2 DEF T
      <3>4. CASE ~ x < label
        BY <3>1, <3>4, <1>2 DEF T
      <3> QED
        BY <3>3, <3>4
    <2>9. sib[Xor(base, l)] = FirstOf(Above(T, l))
      <3>1. Above(S, l) = {} \/ label < FirstOf(Above(S, l))
        <4> SUFFICES ASSUME Above(S, l) # {} PROVE label < FirstOf(Above(S, l))
          OBVIOUS
        <4> DEFINE f == FirstOf(Above(S, l))
        <4>1. f \in S /\ f > l
          BY <2>5, FirstAbove
        <4> HIDE DEF f
        <4>2. f \in Int /\ l \in Int /\ label \in Int /\ f # label
          BY <4>1, <1>1, <2>5
        <4>3. ~ f < label
          BY <4>1, <4>2, <2>2
        <4>4. label < f
          BY <4>2, <4>3
        <4> QED
          BY <4>4 DEF f
      <3>2. FirstOf(Above(T, l)) = label
        BY <3>1, <2>2, <1>2 DEF T
      <3> QED
        BY <3>2, <2>6 DEF before
    <2>10. sib[Xor(base, label)] = FirstOf(Above(T, label))
      <3>1. Above(S, l) = Above(S, label)
        <4>1. \A x \in S : x > l <=> x > label
          <5> SUFFICES ASSUME NEW x \in S PROVE x > l <=> x > label
            OBVIOUS
          <5>1. x \in Int /\ l \in Int /\ label \in Int /\ x # label
            BY <1>1, <2>5
          <5> QED
            BY <5>1, <2>2
        <4> QED
          BY <4>1 DEF Above
      <3>2. t.sibling[before] = FirstOf(Above(S, l))
        BY <2>2, <1>4 DEF before
      <3> QED
        BY <3>1, <3>2, <2>6, <1>2 DEF T
    <2>11. u.child[node] = FirstOf(T)
      <3>1. ~ label < c
        BY <1>0, <1>1, <1>5, <2>5
      <3> QED
        BY <3>1, <2>1, <2>7, <1>0, <1>2 DEF c, T
    <2>12. ChainOf(u, node, base, T)
      <3>1. \A x \in T : u.sibling[Xor(base, x)] = FirstOf(Above(T, x))
        BY <2>7, <2>8, <2>9, <2>10 DEF T
      <3> QED
        BY <3>1, <2>11 DEF ChainOf
    <2>13. OnlyChain(t, u, node, base, T)
      <3>1. IsNinfo(u)
        BY <2>6, <2>7 DEF IsNinfo
      <3>2. ASSUME NEW e \in Slots, \A x \in T : e # Xor(base, x)
            PROVE  u.sibling[e] = t.sibling[e]
        <4>1. e # before /\ e # Xor(base, label)
          BY <3>2, <2>2 DEF before, T
        <4> QED
          BY <4>1, <2>6, <2>7
      <3> QED
        BY <3>1, <3>2, <2>7 DEF OnlyChain
    <2> QED
      BY <2>12, <2>13 DEF T, u
  <1>6. CASE ~ (in_order /\ label > c)
    <2> DEFINE sib == [t.sibling EXCEPT ![Xor(base, label)] = c]
               chi == [t.child EXCEPT ![node] = label]
    <2>1. u = [t EXCEPT !.sibling[Xor(base, label)] = c, !.child[node] = label]
      BY <1>6 DEF PushSibling
    <2>2. S = {} \/ label < FirstOf(S)
      <3>1. CASE S # {}
        <4>1. c \in S
          BY <3>1, <1>0, FirstIn
        <4>2. c \in Int /\ label \in Int /\ c # label /\ ~ label > c
          BY <4>1, <1>1, <1>6, <3>1
        <4>3. label < c
          BY <4>2
        <4> QED
          BY <4>3, <1>0
      <3> QED
        BY <3>1
    <2> HIDE DEF u, c, T
    <2>3. /\ u.sibling = sib /\ u.child = chi /\ DOMAIN u = DOMAIN t
          /\ \A field \in DOMAIN t \ {"sibling", "child"} : u[field] = t[field]
      BY <2>1 DEF IsNinfo
    <2>4. /\ sib \in [Slots -> Labels] /\ sib[Xor(base, label)] = c
          /\ \A e \in Slots : e # Xor(base, label) => sib[e] = t.sibling[e]
      BY <1>0, <1>3 DEF IsNinfo
    <2>5. /\ chi \in [Slots -> Labels] /\ chi[node] = label
          /\ \A n \in Slots \ {node} : chi[n] = t.child[n]
      BY DEF IsNinfo
    <2> HIDE DEF sib, chi
    <2>6. FirstOf(Above(T, label)) = c
      <3>1. Above(S, label) = S
        <4>1. ASSUME NEW x \in S PROVE x > label
          <5> DEFINE f == FirstOf(S)
          <5>1. f <= x /\ label < f /\ f \in S
            BY FirstIn, <2>2
          <5> HIDE DEF f
          <5>2. f \in Int /\ x \in Int /\ label \in Int
            BY <5>1, <1>1
          <5> QED
            BY <5>1, <5>2
        <4> QED
          BY <4>1 DEF Above
      <3> QED
        BY <3>1, <1>0, <1>2 DEF T, c
    <2>7. ASSUME NEW x \in S PROVE sib[Xor(base, x)] = FirstOf(Above(T, x))
      <3>1. Xor(base, x) \in Slots /\ Xor(base, x) # Xor(base, label)
        BY <1>3
      <3>2. sib[Xor(base, x)] = FirstOf(Above(S, x))
        BY <3>1, <2>4, <1>4
      <3>3. ~ x < label
        <4> DEFINE f == FirstOf(S)
        <4>1. f <= x /\ label < f /\ f \in S
          BY FirstIn, <2>2
        <4> HIDE DEF f
        <4>2. f \in Int /\ x \in Int /\ label \in Int
          BY <4>1, <1>1
        <4> QED
          BY <4>1, <4>2
      <3> QED
        BY <3>2, <3>3, <1>2 DEF T
    <2>8. ChainOf(u, node, base, T)
      <3>1. u.child[node] = FirstOf(T)
        BY <2>2, <2>3, <2>5, <1>2 DEF T
      <3>2. \A x \in T : u.sibling[Xor(base, x)] = FirstOf(Above(T, x))
        BY <2>3, <2>4, <2>6, <2>7 DEF T
      <3> QED
        BY <3>1, <3>2 DEF ChainOf
    <2>9. OnlyChain(t, u, node, base, T)
      <3>1. IsNinfo(u)
        BY <2>3, <2>4, <2>5 DEF IsNinfo
      <3>2. ASSUME NEW e \in Slots, \A x \in T : e # Xor(base, x)
            PROVE  u.sibling[e] = t.sibling[e]
        <4>1. e # Xor(base, label)
          BY <3>2 DEF T
        <4> QED
          BY <4>1, <2>3, <2>4
      <3> QED
        BY <3>1, <3>2, <2>3, <2>5 DEF OnlyChain
    <2> QED
      BY <2>8, <2>9 DEF T, u
  <1> QED
    BY <1>5, <1>6

-----------------------------------------------------------------------------
(* _pop_sibling and _set_child.                                            *)

\* A label that is not the first has one just before it.
LEMMA Predecessor ==
    ASSUME NEW S \in SUBSET Labels, NEW label \in S, label # FirstOf(S)
    PROVE  \E l \in S : FirstOf(Above(S, l)) = label
  <1> DEFINE P == {x \in S : x < label}
             D == {B - 1 - x : x \in P}
  <1>1. \A x \in Labels : x \in Int /\ B - 1 - x \in Nat
    BY BlockAssumption DEF Labels
  <1>2. D \in SUBSET Nat
    BY <1>1
  <1>3. D # {}
    <2> DEFINE f == FirstOf(S)
    <2>1. f \in S /\ f <= label
      BY FirstIn
    <2> HIDE DEF f
    <2>2. f # label
      BY DEF f
    <2>3. f \in P
      BY <2>1, <2>2, <1>1
    <2> QED
      BY <2>3
  <1>4. PICK d \in D : \A x \in D : d <= x
    BY <1>2, <1>3, Least
  <1>5. PICK l \in P : d = B - 1 - l
    OBVIOUS
  <1>6. ASSUME NEW x \in S, x > l PROVE label <= x
    <2>1. CASE x \in P
      <3>1. B - 1 - l <= B - 1 - x
        BY <1>4, <1>5, <2>1
      <3> QED
        BY <3>1, <1>1, <1>6, BlockAssumption
    <2>2. CASE x \notin P
      BY <2>2, <1>1
    <2> QED
      BY <2>1, <2>2
  <1>7. /\ Above(S, l) \in SUBSET Labels /\ label \in Above(S, l)
        /\ \A x \in Above(S, l) : label <= x
    BY <1>1, <1>6 DEF Above
  <1>8. FirstOf(Above(S, l)) = label
    BY <1>7, FirstIs
  <1> QED
    BY <1>8

\* _pop_sibling keeps the chain of a node in order.
THEOREM PopSiblingOrder ==
    ASSUME NEW t, IsNinfo(t), NEW node \in Slots, NEW base \in Slots, t.array[node].base = base,
           NEW S \in SUBSET Labels, ChainOf(t, node, base, S), NEW label \in S
    PROVE  LET u == PopSibling(t, node, base, label)
           IN  ChainOf(u, node, base, S \ {label}) /\ OnlyChain(t, u, node, base, S)
  <1> DEFINE after == t.sibling[Xor(base, label)]
             u == PopSibling(t, node, base, label)
             T == S \ {label}
  <1>1. \A x \in Labels : x \in Int
    BY BlockAssumption DEF Labels
  <1>2. /\ FirstOf(S) = IF T = {} \/ label < FirstOf(T) THEN label ELSE FirstOf(T)
        /\ FirstOf(Above(S, label)) = FirstOf(Above(T, label))
        /\ \A x \in T : FirstOf(Above(S, x)) =
              IF x < label /\ (Above(T, x) = {} \/ label < FirstOf(Above(T, x)))
              THEN label ELSE FirstOf(Above(T, x))
    <2>1. T \in SUBSET Labels /\ label \in Labels \ T
      OBVIOUS
    <2>2. S = T \cup {label}
      OBVIOUS
    <2> HIDE DEF T
    <2>3. LET R == T \cup {label}
          IN  /\ FirstOf(R) = IF T = {} \/ label < FirstOf(T) THEN label ELSE FirstOf(T)
              /\ FirstOf(Above(R, label)) = FirstOf(Above(T, label))
              /\ \A x \in T : FirstOf(Above(R, x)) =
                    IF x < label /\ (Above(T, x) = {} \/ label < FirstOf(Above(T, x)))
                    THEN label ELSE FirstOf(Above(T, x))
      BY ONLY <2>1, FirstWith
    <2> QED
      BY <2>2, <2>3
  <1>3. \A x \in Labels, y \in Labels :
           Xor(base, x) \in Slots /\ (Xor(base, x) = Xor(base, y) => x = y)
    BY XorApart
  <1>4. t.child[node] = FirstOf(S) /\ \A x \in S : t.sibling[Xor(base, x)] = FirstOf(Above(S, x))
    BY DEF ChainOf
  <1>5. after = FirstOf(Above(T, label)) /\ after \in Labels
    BY <1>2, <1>3, <1>4 DEF IsNinfo
  <1>6. CASE t.child[node] = label
    <2>1. u = [t EXCEPT !.child[node] = after]
      BY <1>6 DEF PopSibling
    <2>2. \A x \in T : label < x
      <3> SUFFICES ASSUME NEW x \in T PROVE label < x
        OBVIOUS
      <3>1. label <= x
        <4>1. FirstOf(S) <= x
          BY FirstIn
        <4> QED
          BY <4>1, <1>4, <1>6
      <3>2. label \in Int /\ x \in Int /\ label # x
        BY <1>1
      <3> QED
        BY <3>1, <3>2
    <2>3. Above(T, label) = T
      BY <2>2, <1>1 DEF Above
    <2> HIDE DEF u, after, T
    <2>4. /\ u.sibling = t.sibling /\ u.child = [t.child EXCEPT ![node] = after]
          /\ DOMAIN u = DOMAIN t
          /\ \A field \in DOMAIN t \ {"sibling", "child"} : u[field] = t[field]
      BY <2>1 DEF IsNinfo
    <2>5. /\ u.child \in [Slots -> Labels] /\ u.child[node] = after
          /\ \A n \in Slots \ {node} : u.child[n] = t.child[n]
      BY <2>4, <1>5 DEF IsNinfo
    <2>6. ASSUME NEW x \in T PROVE u.sibling[Xor(base, x)] = FirstOf(Above(T, x))
      <3>1. ~ x < label /\ x \in S
        BY <2>2, <1>1 DEF T
      <3> QED
        BY <3>1, <2>4, <1>2, <1>4
    <2>7. ChainOf(u, node, base, T)
      BY <2>3, <2>5, <2>6, <1>5 DEF ChainOf
    <2>8. OnlyChain(t, u, node, base, S)
      BY <2>4, <2>5 DEF OnlyChain, IsNinfo
    <2> QED
      BY <2>7, <2>8 DEF T, u
  <1>7. CASE t.child[node] # label
    <2> DEFINE q == Children(t, node)
               Before(x) == /\ t.sibling[Xor(base, x)] = label
                            /\ \E i \in DOMAIN q : q[i] = x
               l == CHOOSE x \in Labels : Before(x)
               sib == [t.sibling EXCEPT ![Xor(base, l)] = after]
    <2>1. Members(q) = S
      BY ChainLists DEF Children
    <2> HIDE DEF q
    <2>2. \A x : (\E i \in DOMAIN q : q[i] = x) <=> x \in S
      BY <2>1 DEF Members
    <2>3. \E x \in Labels : Before(x)
      <3>1. PICK x \in S : FirstOf(Above(S, x)) = label
        BY <1>4, <1>7, Predecessor
      <3> QED
        BY <3>1, <2>2, <1>4
    <2>4. l \in Labels /\ Before(l)
      BY <2>3
    <2>5. u = [t EXCEPT !.sibling[Xor(base, l)] = after]
      BY <1>7 DEF PopSibling, q
    <2> HIDE DEF l, u, after
    <2>6. l \in S /\ FirstOf(Above(S, l)) = label
      BY <2>2, <2>4, <1>4
    <2>7. label # 0
      <3> DEFINE f == FirstOf(S)
      <3>1. f \in Labels /\ f # label /\ f <= label
        BY <1>4, <1>7, FirstIn
      <3> HIDE DEF f
      <3>2. f \in 0 .. B - 1 /\ label \in 0 .. B - 1 /\ B \in Nat
        BY <3>1, BlockAssumption DEF Labels
      <3> QED
        BY <3>1, <3>2
    <2>8. label > l /\ \A x \in S : x > l => label <= x
      BY <2>6, <2>7, FirstAbove
    <2>9. l \in Int /\ label \in Int /\ l \in T
      BY <2>6, <2>8, <1>1
    <2> HIDE DEF T
    <2>10. Above(T, l) = Above(T, label)
      <3> SUFFICES ASSUME NEW x \in T PROVE x > l <=> x > label
        BY DEF Above
      <3>1. x \in S /\ x # label /\ x \in Int
        BY <1>1 DEF T
      <3>2. x > l => label <= x
        BY <3>1, <2>8
      <3> QED
        BY <3>1, <3>2, <2>8, <2>9
    <2>11. /\ sib \in [Slots -> Labels] /\ sib[Xor(base, l)] = after
           /\ \A e \in Slots : e # Xor(base, l) => sib[e] = t.sibling[e]
      BY <2>4, <1>3, <1>5 DEF IsNinfo
    <2>17. u = [t EXCEPT !.sibling = sib]
      BY <2>5
    <2> HIDE DEF sib
    <2>12. /\ u.sibling = sib /\ u.child = t.child /\ DOMAIN u = DOMAIN t
           /\ \A field \in DOMAIN t \ {"sibling", "child"} : u[field] = t[field]
      BY <2>17 DEF IsNinfo
    <2>13. ASSUME NEW x \in T PROVE u.sibling[Xor(base, x)] = FirstOf(Above(T, x))
      <3>1. CASE x = l
        <4>1. after = FirstOf(Above(T, l))
          BY <1>5, <2>10 DEF after, T
        <4> QED
          BY <4>1, <3>1, <2>11, <2>12
      <3>2. CASE x # l
        <4>1. x \in S /\ x # label /\ x \in Int
          BY <1>1 DEF T
        <4>2. u.sibling[Xor(base, x)] = FirstOf(Above(S, x))
          <5>1. Xor(base, x) \in Slots /\ Xor(base, x) # Xor(base, l)
            BY <3>2, <4>1, <2>4, <1>3
          <5> QED
            BY <5>1, <4>1, <2>11, <2>12, <1>4
        <4>3. CASE x < label
          <5>1. l > x
            <6>1. ~ x > l
              BY <4>1, <4>3, <2>8, <2>9
            <6> QED
              BY <6>1, <3>2, <4>1, <2>9
          <5> DEFINE A == Above(T, x)
                     f == FirstOf(A)
          <5>2. A \in SUBSET Labels /\ l \in A
            BY <5>1, <2>9 DEF Above, T
          <5> HIDE DEF A
          <5>3. f \in A /\ f <= l
            BY <5>2, FirstIn
          <5> HIDE DEF f
          <5>4. f \in Int
            BY <5>2, <5>3, <1>1
          <5>5. ~ label < f /\ A # {}
            BY <5>2, <5>3, <5>4, <2>8, <2>9
          <5> QED
            BY <5>5, <4>2, <1>2 DEF f, A
        <4>4. CASE ~ x < label
          BY <4>4, <4>2, <1>2
        <4> QED
          BY <4>3, <4>4
      <3> QED
        BY <3>1, <3>2
    <2>14. u.child[node] = FirstOf(T)
      BY <2>12, <1>2, <1>4, <1>7
    <2>15. ChainOf(u, node, base, T)
      BY <2>13, <2>14 DEF ChainOf
    <2>16. OnlyChain(t, u, node, base, S)
      <3>1. IsNinfo(u)
        BY <2>11, <2>12 DEF IsNinfo
      <3>2. ASSUME NEW e \in Slots, \A x \in S : e # Xor(base, x)
            PROVE  u.sibling[e] = t.sibling[e]
        BY <3>2, <2>6, <2>11, <2>12
      <3> QED
        BY <3>1, <3>2, <2>12 DEF OnlyChain
    <2> QED
      BY <2>15, <2>16 DEF T, u
  <1> QED
    BY <1>6, <1>7

\* _set_child puts a label in its place among the children.
THEOREM WithLabelOrder ==
    ASSUME NEW q \in Seq(Labels), Ascending(q), NEW label \in Labels, label \notin Members(q)
    PROVE  LET w == WithLabel(q, label)
           IN  /\ w \in Seq(Labels) /\ Len(w) = Len(q) + 1
               /\ Ascending(w) /\ Members(w) = Members(q) \cup {label}
  <1> DEFINE Splits(n) == /\ \A i \in 1 .. n : q[i] < label
                          /\ \A i \in n + 1 .. Len(q) : q[i] > label
             n == CHOOSE x \in 0 .. Len(q) : Splits(x)
             w == WithLabel(q, label)
             At(i) == IF i <= n THEN q[i] ELSE IF i = n + 1 THEN label ELSE q[i - 1]
  <1>1. /\ Len(q) \in Nat /\ DOMAIN q = 1 .. Len(q)
        /\ \A i \in 1 .. Len(q) : q[i] \in Labels /\ q[i] \in Int /\ q[i] # label
        /\ label \in Int
    <2>1. \A x \in Labels : x \in Int
      BY BlockAssumption DEF Labels
    <2> QED
      BY <2>1 DEF Members
  <1>2. \E x \in 0 .. Len(q) : Splits(x)
    <2> DEFINE Late == {i \in 1 .. Len(q) + 1 : i = Len(q) + 1 \/ q[i] > label}
    <2>1. Late \in SUBSET Nat /\ Len(q) + 1 \in Late
      BY <1>1
    <2> HIDE DEF Late
    <2>2. PICK m \in Late : \A x \in Late : m <= x
      BY <2>1, Least
    <2>3. m \in 1 .. Len(q) + 1 /\ (m = Len(q) + 1 \/ q[m] > label)
      BY DEF Late
    <2>4. ASSUME NEW i \in 1 .. m - 1 PROVE q[i] < label
      <3>1. i \in 1 .. Len(q) /\ i \in 1 .. Len(q) + 1 /\ ~ m <= i
        BY <2>3, <1>1
      <3>2. i \notin Late
        BY <3>1, <2>2
      <3>3. ~ q[i] > label
        BY <3>1, <3>2 DEF Late
      <3> QED
        BY <3>1, <3>3, <1>1
    <2>5. ASSUME NEW i \in m - 1 + 1 .. Len(q) PROVE q[i] > label
      <3>1. m \in 1 .. Len(q) /\ i \in 1 .. Len(q) /\ m <= i /\ q[m] > label
        BY <2>3, <1>1
      <3>2. q[i] >= q[m]
        <4>1. CASE m = i
          BY <4>1, <3>1, <1>1
        <4>2. CASE m # i
          <5>1. m < i
            BY <4>2, <3>1
          <5>2. q[m] < q[i]
            BY <5>1, <3>1, <1>1 DEF Ascending
          <5> QED
            BY <5>2, <3>1, <1>1
        <4> QED
          BY <4>1, <4>2
      <3> QED
        BY <3>1, <3>2, <1>1
    <2>6. m - 1 \in 0 .. Len(q)
      BY <2>3, <1>1
    <2> QED
      BY <2>4, <2>5, <2>6
  <1>3. n \in 0 .. Len(q) /\ Splits(n)
    BY <1>2
  <1>4. w = [i \in 1 .. Len(q) + 1 |-> At(i)]
    BY DEF WithLabel
  <1> HIDE DEF n
  <1>5. ASSUME NEW i \in 1 .. Len(q) + 1 PROVE At(i) \in Labels
    <2>1. i <= n => i \in 1 .. Len(q)
      BY <1>1, <1>3
    <2>2. ~ i <= n /\ i # n + 1 => i - 1 \in 1 .. Len(q)
      BY <1>1, <1>3
    <2> QED
      BY <2>1, <2>2, <1>1
  <1>6. w \in Seq(Labels) /\ Len(w) = Len(q) + 1 /\ DOMAIN w = 1 .. Len(q) + 1
        /\ \A i \in 1 .. Len(q) + 1 : w[i] = At(i)
    <2> HIDE DEF At
    <2> QED
      BY <1>1, <1>4, <1>5
  <1> HIDE DEF w
  <1>7. ASSUME NEW i \in 1 .. Len(q) + 1, NEW j \in 1 .. Len(q) + 1, i < j
        PROVE  At(i) < At(j)
    <2>1. CASE j <= n
      <3>1. i <= n /\ i \in 1 .. Len(q) /\ j \in 1 .. Len(q)
        BY <2>1, <1>1, <1>3, <1>7
      <3> QED
        BY <3>1, <2>1, <1>1, <1>7 DEF Ascending
    <2>2. CASE j = n + 1
      <3>1. i <= n /\ i \in 1 .. n /\ ~ j <= n
        BY <2>2, <1>1, <1>3, <1>7
      <3> QED
        BY <3>1, <2>2, <1>3
    <2>3. CASE ~ j <= n /\ j # n + 1
      <3>1. j - 1 \in n + 1 .. Len(q) /\ j - 1 \in 1 .. Len(q)
        BY <2>3, <1>1, <1>3
      <3>2. At(j) = q[j - 1] /\ q[j - 1] > label
        BY <2>3, <3>1, <1>3
      <3>3. CASE i <= n
        <4>1. i \in 1 .. n /\ i \in 1 .. Len(q)
          BY <3>3, <1>1, <1>3
        <4>2. At(i) = q[i] /\ q[i] < label
          BY <4>1, <3>3, <1>3
        <4> HIDE DEF At
        <4> QED
          BY <4>1, <4>2, <3>1, <3>2, <1>1
      <3>4. CASE i = n + 1
        <4>1. At(i) = label
          BY <3>4, <1>1, <1>3
        <4> HIDE DEF At
        <4> QED
          BY <4>1, <3>1, <3>2, <1>1
      <3>5. CASE ~ i <= n /\ i # n + 1
        <4>1. i - 1 \in 1 .. Len(q) /\ i - 1 < j - 1
          BY <3>5, <1>1, <1>3, <1>7
        <4>2. q[i - 1] < q[j - 1]
          BY <4>1, <3>1, <1>1 DEF Ascending
        <4> QED
          BY <4>2, <3>2, <3>5
      <3> QED
        BY <3>3, <3>4, <3>5
    <2> QED
      BY <2>1, <2>2, <2>3
  <1>8. Ascending(w)
    <2> HIDE DEF At
    <2> QED
      BY <1>6, <1>7 DEF Ascending
  <1>9. Members(w) = Members(q) \cup {label}
    <2>1. ASSUME NEW i \in 1 .. Len(q) + 1 PROVE At(i) \in Members(q) \cup {label}
      <3>1. i <= n => i \in DOMAIN q
        BY <1>1, <1>3
      <3>2. ~ i <= n /\ i # n + 1 => i - 1 \in DOMAIN q
        BY <1>1, <1>3
      <3> QED
        BY <3>1, <3>2 DEF Members
    <2>2. ASSUME NEW i \in 1 .. Len(q) PROVE \E j \in 1 .. Len(q) + 1 : At(j) = q[i]
      <3>1. CASE i <= n
        <4>1. i \in 1 .. Len(q) + 1 /\ At(i) = q[i]
          BY <3>1, <1>1
        <4> HIDE DEF At
        <4> QED
          BY <4>1
      <3>2. CASE ~ i <= n
        <4>1. i + 1 \in 1 .. Len(q) + 1 /\ ~ i + 1 <= n /\ i + 1 # n + 1 /\ i + 1 - 1 = i
          BY <3>2, <1>1, <1>3
        <4>2. At(i + 1) = q[i]
          BY <4>1
        <4> HIDE DEF At
        <4> QED
          BY <4>1, <4>2
      <3> QED
        BY <3>1, <3>2
    <2>3. n + 1 \in 1 .. Len(q) + 1 /\ At(n + 1) = label
      BY <1>1, <1>3
    <2> HIDE DEF At
    <2>4. Members(w) = {At(i) : i \in 1 .. Len(q) + 1}
      BY <1>6 DEF Members
    <2>5. Members(q) = {q[i] : i \in 1 .. Len(q)}
      BY <1>1 DEF Members
    <2> QED
      BY <2>1, <2>2, <2>3, <2>4, <2>5
  <1> QED
    BY <1>6, <1>8, <1>9 DEF w

-----------------------------------------------------------------------------
(* The tree in the array.  Its nodes are the root and the slots U.  What   *)
(* the array does not say, three functions of the slots do: the labels P   *)
(* from the root to a node, its own label L, and the base O it was placed  *)
(* at.  While _resolve moves the children of a node, X holds that node,    *)
(* whose chain is not whole, and V a slot that was just left.              *)

\* The labels to a child.
Named(path, label) == Append(path, label)

\* The slots in use.
Taken(t) == {e \in Slots : e # 0 /\ Block(e) < t.nblk /\ t.array[e].check >= 0}

\* A node with children below, no terminal and no leaf.
InnerNode(t, L, n) == t.array[n].base >= 0 /\ (n = 0 \/ L[n] # 0)

\* The labels of the children of n; the root's chain begins with its own 0.
Listed(t, U, L, n) ==
    {l \in Labels : \/ n = 0 /\ l = 0
                    \/ \E e \in U : t.array[e].check = n /\ L[e] = l}

TrieTyped(t) ==
    /\ IsNinfo(t) /\ "array" \in DOMAIN t /\ "nblk" \in DOMAIN t
    /\ t.array \in [Slots -> [base : Int, check : Int]]
    /\ t.nblk \in 1 .. MaxBlocks

GhostTyped(U, P, L, O) ==
    /\ U \in SUBSET (Slots \ {0})
    /\ P \in [Slots -> Seq(Labels)] /\ L \in [Slots -> Labels] /\ O \in [Slots -> Slots]
    /\ P[0] = <<>>

\* A child is where its base and its label put it, and named after its parent.
Edges(t, U, P, L, O) ==
    \A e \in U : /\ t.array[e].check \in U \cup {0}
                 /\ InnerNode(t, L, t.array[e].check)
                 /\ e = Xor(O[e], L[e])
                 /\ P[e] = Named(P[t.array[e].check], L[e])
                 /\ t.array[e].check = 0 => L[e] # 0

\* Only the root has its children in block 0.
Bases(t, U, L) ==
    /\ t.array[0].base = 0
    /\ \A n \in U : InnerNode(t, L, n) =>
          /\ t.array[n].base \in Slots
          /\ Block(t.array[n].base) # 0 /\ Block(t.array[n].base) < t.nblk

\* Slots with no children say so.
Clear(t, U, L, V) ==
    /\ \A n \in U : ~ InnerNode(t, L, n) => t.child[n] = 0
    /\ \A n \in Slots : n # 0 /\ n \notin U /\ n \notin V => t.child[n] = 0

Chains(t, U, L, X) ==
    \A n \in U \cup {0} : n \notin X /\ InnerNode(t, L, n) =>
       /\ Listed(t, U, L, n) # {}
       /\ ChainOf(t, n, t.array[n].base, Listed(t, U, L, n))

\* Every child is where the base of its parent puts it now.
Settled(t, U, O, X) ==
    \A e \in U : t.array[e].check \notin X => O[e] = t.array[t.array[e].check].base

IsTree(t, U, P, L, O, X, V) ==
    /\ TrieTyped(t) /\ GhostTyped(U, P, L, O)
    /\ Edges(t, U, P, L, O) /\ Settled(t, U, O, X)
    /\ Bases(t, U, L) /\ Clear(t, U, L, V) /\ Chains(t, U, L, X)

-----------------------------------------------------------------------------
\* Names of children.
LEMMA Names ==
    ASSUME NEW p \in Seq(Labels), NEW l \in Labels
    PROVE  /\ Named(p, l) \in Seq(Labels) /\ Len(Named(p, l)) = Len(p) + 1
           /\ Len(p) \in Nat /\ Named(p, l) # p /\ Named(p, l) # <<>>
           /\ \A q \in Seq(Labels), m \in Labels : Named(p, l) = Named(q, m) => p = q /\ l = m
  <1>1. Named(p, l) \in Seq(Labels) /\ Len(Named(p, l)) = Len(p) + 1 /\ Len(p) \in Nat
    BY DEF Named
  <1>2. Named(p, l) # p /\ Named(p, l) # <<>>
    BY <1>1
  <1>3. ASSUME NEW q \in Seq(Labels), NEW m \in Labels, Named(p, l) = Named(q, m)
        PROVE  p = q /\ l = m
    <2>1. Len(p) = Len(q) /\ Len(q) \in Nat
      BY <1>1, <1>3 DEF Named
    <2>2. l = m
      BY <1>3, <2>1 DEF Named
    <2>3. \A i \in 1 .. Len(p) : p[i] = Named(p, l)[i] /\ q[i] = Named(q, m)[i]
      BY <2>1 DEF Named
    <2>4. p = q
      BY <1>3, <2>1, <2>3
    <2> QED
      BY <2>2, <2>4
  <1> QED
    BY <1>1, <1>2, <1>3

\* A child of n has a label that n lists.
LEMMA ListedChild ==
    ASSUME NEW t, NEW U, NEW L \in [Slots -> Labels], NEW e \in U, U \subseteq Slots
    PROVE  /\ L[e] \in Listed(t, U, L, t.array[e].check)
           /\ \A n : Listed(t, U, L, n) \subseteq Labels
  BY DEF Listed

\* Where the labels a node lists are found.
LEMMA ChildAt ==
    ASSUME NEW t, NEW U, NEW P, NEW L, NEW O, NEW X, NEW V, IsTree(t, U, P, L, O, X, V),
           NEW n \in U \cup {0}, n \notin X, NEW c \in Listed(t, U, L, n)
    PROVE  LET e == Xor(t.array[n].base, c)
           IN  \/ e \in U /\ t.array[e].check = n /\ L[e] = c
               \/ e = 0 /\ n = 0 /\ c = 0
  <1>1. CASE n = 0 /\ c = 0
    <2>1. t.array[0].base = 0 /\ Xor(0, 0) = 0
      BY XorAssumption, SlotRange DEF IsTree, Bases
    <2> QED
      BY <1>1, <2>1
  <1>2. CASE ~ (n = 0 /\ c = 0)
    <2>1. PICK e \in U : t.array[e].check = n /\ L[e] = c
      BY <1>2 DEF Listed
    <2>2. e = Xor(O[e], L[e]) /\ O[e] = t.array[n].base
      BY <2>1 DEF IsTree, Edges, Settled
    <2> QED
      BY <2>1, <2>2
  <1> QED
    BY <1>1, <1>2

\* The tree does not depend on the slots outside of it, and the table of
\* children only on that they have none.
SameTree(t, u, U) ==
    /\ \A e \in U : u.array[e] = t.array[e]
    /\ u.array[0].base = t.array[0].base
    /\ \A e \in U \cup {0} : u.sibling[e] = t.sibling[e] /\ u.child[e] = t.child[e]
    /\ u.nblk >= t.nblk

LEMMA TreeFrame ==
    ASSUME NEW t, NEW U, NEW P, NEW L, NEW O, NEW X, NEW V, IsTree(t, U, P, L, O, X, V),
           NEW u, TrieTyped(u), SameTree(t, u, U), NEW V2,
           \A e \in Slots : e # 0 /\ e \notin U /\ e \notin V2 => u.child[e] = 0
    PROVE  IsTree(u, U, P, L, O, X, V2)
  <1>1. U \subseteq Slots \ {0} /\ L \in [Slots -> Labels]
    BY DEF IsTree, GhostTyped
  <1>2. \A n \in U \cup {0} : InnerNode(u, L, n) <=> InnerNode(t, L, n)
    BY DEF SameTree, InnerNode
  <1>3. \A n : Listed(u, U, L, n) = Listed(t, U, L, n)
    BY DEF Listed, SameTree
  <1>4. Edges(u, U, P, L, O)
    BY <1>2 DEF IsTree, Edges, SameTree
  <1>5. Bases(u, U, L)
    <2>1. t.nblk \in Nat /\ u.nblk \in Nat
      BY DEF IsTree, TrieTyped
    <2>2. ASSUME NEW n \in U, InnerNode(u, L, n)
          PROVE  /\ u.array[n].base \in Slots
                 /\ Block(u.array[n].base) # 0 /\ Block(u.array[n].base) < u.nblk
      <3>1. u.array[n].base = t.array[n].base /\ InnerNode(t, L, n)
        BY <1>2, <2>2 DEF SameTree
      <3>2. /\ t.array[n].base \in Slots
            /\ Block(t.array[n].base) # 0 /\ Block(t.array[n].base) < t.nblk
        BY <3>1 DEF IsTree, Bases
      <3>3. Block(t.array[n].base) \in Nat
        BY <3>2, SlotFacts
      <3> QED
        BY <2>1, <3>1, <3>2, <3>3 DEF SameTree
    <2> QED
      BY <2>2 DEF IsTree, Bases, SameTree
  <1>6. Clear(u, U, L, V2)
    BY <1>2 DEF IsTree, Clear, SameTree
  <1>7. Chains(u, U, L, X)
    <2> SUFFICES ASSUME NEW n \in U \cup {0}, n \notin X, InnerNode(u, L, n)
                 PROVE  /\ Listed(u, U, L, n) # {}
                        /\ ChainOf(u, n, u.array[n].base, Listed(u, U, L, n))
      BY DEF Chains
    <2>1. InnerNode(t, L, n) /\ u.array[n].base = t.array[n].base /\ u.child[n] = t.child[n]
      BY <1>2 DEF SameTree
    <2> DEFINE S == Listed(t, U, L, n)
    <2>2. S # {} /\ ChainOf(t, n, t.array[n].base, S)
      BY <2>1 DEF IsTree, Chains
    <2>3. S = Listed(u, U, L, n)
      BY <1>3
    <2>4. ASSUME NEW c \in S
          PROVE  u.sibling[Xor(t.array[n].base, c)] = t.sibling[Xor(t.array[n].base, c)]
      <3>1. Xor(t.array[n].base, c) \in U \cup {0}
        BY ChildAt
      <3> QED
        BY <3>1 DEF SameTree
    <2> HIDE DEF S
    <2>5. ChainOf(u, n, u.array[n].base, S)
      BY <2>1, <2>2, <2>4 DEF ChainOf
    <2> QED
      BY <2>2, <2>3, <2>5
  <1>8. Settled(u, U, O, X)
    <2>1. \A e \in U : u.array[e] = t.array[e] /\ t.array[e].check \in U \cup {0}
      BY DEF SameTree, IsTree, Edges
    <2> QED
      BY <2>1 DEF SameTree, IsTree, Settled
  <1> QED
    BY <1>4, <1>5, <1>6, <1>7, <1>8 DEF IsTree

\* A function with another value at one place.
With(f, x, v) == [f EXCEPT ![x] = v]

\* The slot e can become the child label of n, whose children are then T.
CanAttach(t, U, L, X, n, base, e, label, T, Y) ==
    /\ n \in U \cup {0} /\ InnerNode(t, L, n)
    /\ label \in Labels /\ (n = 0 => label # 0) /\ label \notin Listed(t, U, L, n)
    /\ base \in Slots /\ base = t.array[n].base
    /\ e \in Slots /\ e # 0 /\ e \notin U /\ e = Xor(base, label)
    /\ T = Listed(t, U, L, n) \cup {label}
    /\ Y \in {X, X \ {n}}
    /\ n \in X \ Y => n # 0 /\ \A x \in U : t.array[x].check # n

\* One node more.
OneMore(U, P, L, O, e, path, label, base, U2, P2, L2, O2) ==
    /\ U2 = U \cup {e} /\ P2 = With(P, e, path)
    /\ L2 = With(L, e, label) /\ O2 = With(O, e, base)

\* What a new child e of n writes in the nodes of the tree.  The chain of n, if
\* it is to stand, gets the label.
AttachedTo(t, u, U, n, base, e, label, T, Y, V) ==
    /\ u.nblk >= t.nblk /\ u.array[0].base = t.array[0].base
    /\ \A x \in U : u.array[x] = t.array[x]
    /\ u.array[e].check = n /\ u.child[e] = 0
    /\ label # 0 => u.array[e].base < 0
    /\ \A m \in U \cup {0} : m # n => u.child[m] = t.child[m]
    /\ n \notin Y => ChainOf(u, n, base, T)
    /\ \A x \in U \cup {0} : n \in Y \/ (\A c \in T : x # Xor(base, c)) => u.sibling[x] = t.sibling[x]
    /\ \A x \in Slots : x # 0 /\ x \notin U /\ x # e /\ x \notin V => u.child[x] = 0

\* A slot taken for a new child of n makes a tree with one node more.
THEOREM Attached ==
    ASSUME NEW t, NEW U, NEW P, NEW L, NEW O, NEW X, NEW V, IsTree(t, U, P, L, O, X, V),
           NEW n, NEW base, NEW e, NEW label, NEW T, NEW Y,
           CanAttach(t, U, L, X, n, base, e, label, T, Y),
           NEW u, TrieTyped(u), NEW V2, AttachedTo(t, u, U, n, base, e, label, T, Y, V2),
           NEW U2, NEW P2, NEW L2, NEW O2,
           OneMore(U, P, L, O, e, Named(P[n], label), label, base, U2, P2, L2, O2)
    PROVE  IsTree(u, U2, P2, L2, O2, Y, V2)
  <1> USE DEF CanAttach, AttachedTo, OneMore
  <1>1. /\ U \in SUBSET (Slots \ {0})
        /\ P \in [Slots -> Seq(Labels)] /\ L \in [Slots -> Labels] /\ O \in [Slots -> Slots]
    BY DEF IsTree, GhostTyped
  <1>0. n \in Slots
    BY <1>1, SlotRange
  <1>2. /\ P2[e] = Named(P[n], label) /\ L2[e] = label /\ O2[e] = base
        /\ \A x \in Slots : x # e => P2[x] = P[x] /\ L2[x] = L[x] /\ O2[x] = O[x]
    BY <1>1 DEF With
  <1>3. GhostTyped(U2, P2, L2, O2)
    <2>1. Named(P[n], label) \in Seq(Labels)
      BY <1>0, <1>1, Names
    <2>2. P[0] = <<>> /\ 0 \in Slots
      BY SlotRange DEF IsTree, GhostTyped
    <2>3. P2[0] = <<>>
      BY <2>2, <1>2
    <2> QED
      BY <2>1, <2>3, <1>1 DEF GhostTyped, With
  <1>4. n # e /\ 0 # e /\ \A x \in U : x # e
    OBVIOUS
  <1>5. \A x \in U \cup {0} : InnerNode(u, L2, x) <=> InnerNode(t, L, x)
    BY <1>1, <1>2, <1>4 DEF InnerNode
  <1>6. ~ InnerNode(u, L2, e)
    <2>1. u.array[e].base \in Int
      BY DEF TrieTyped
    <2> QED
      BY <2>1, <1>2, <1>4 DEF InnerNode
  <1>7. Edges(u, U2, P2, L2, O2)
    <2> SUFFICES ASSUME NEW x \in U2
                 PROVE  /\ u.array[x].check \in U2 \cup {0}
                        /\ InnerNode(u, L2, u.array[x].check)
                        /\ x = Xor(O2[x], L2[x])
                        /\ P2[x] = Named(P2[u.array[x].check], L2[x])
                        /\ u.array[x].check = 0 => L2[x] # 0
      BY DEF Edges
    <2>1. CASE x = e
      BY <2>1, <1>0, <1>2, <1>4, <1>5
    <2>2. CASE x # e
      <3>1. x \in U /\ x \in Slots /\ u.array[x] = t.array[x]
        BY <2>2, <1>1
      <3>2. /\ t.array[x].check \in U \cup {0} /\ InnerNode(t, L, t.array[x].check)
            /\ x = Xor(O[x], L[x]) /\ P[x] = Named(P[t.array[x].check], L[x])
            /\ t.array[x].check = 0 => L[x] # 0
        BY <3>1 DEF IsTree, Edges
      <3>3. t.array[x].check \in Slots /\ t.array[x].check # e
        BY <3>2, <1>1, <1>4, SlotRange
      <3> QED
        BY <2>2, <3>1, <3>2, <3>3, <1>2, <1>5
    <2> QED
      BY <2>1, <2>2
  <1>8. Settled(u, U2, O2, Y)
    <2> SUFFICES ASSUME NEW x \in U2, u.array[x].check \notin Y
                 PROVE  O2[x] = u.array[u.array[x].check].base
      BY DEF Settled
    <2>0. u.array[n].base = base
      OBVIOUS
    <2>1. CASE x = e
      BY <2>0, <2>1, <1>2
    <2>2. CASE x # e
      <3>1. x \in U /\ x \in Slots /\ u.array[x] = t.array[x] /\ t.array[x].check \in U \cup {0}
        BY <2>2, <1>1 DEF IsTree, Edges
      <3>2. t.array[x].check \notin X
        BY <3>1
      <3> QED
        BY <2>2, <3>1, <3>2, <1>2 DEF IsTree, Settled
    <2> QED
      BY <2>1, <2>2
  <1>9. Bases(u, U2, L2)
    <2>1. t.nblk \in Nat /\ u.nblk \in Nat
      BY DEF IsTree, TrieTyped
    <2>2. ASSUME NEW x \in U2, InnerNode(u, L2, x)
          PROVE  /\ u.array[x].base \in Slots
                 /\ Block(u.array[x].base) # 0 /\ Block(u.array[x].base) < u.nblk
      <3>1. x \in U /\ u.array[x].base = t.array[x].base /\ InnerNode(t, L, x)
        BY <1>5, <1>6, <2>2
      <3>2. /\ t.array[x].base \in Slots
            /\ Block(t.array[x].base) # 0 /\ Block(t.array[x].base) < t.nblk
        BY <3>1 DEF IsTree, Bases
      <3>3. Block(t.array[x].base) \in Nat
        BY <3>2, SlotFacts
      <3> QED
        BY <2>1, <3>1, <3>2, <3>3
    <2> QED
      BY <2>2 DEF IsTree, Bases
  <1>10. Clear(u, U2, L2, V2)
    <2>1. ASSUME NEW x \in U2, ~ InnerNode(u, L2, x) PROVE u.child[x] = 0
      <3>1. CASE x = e
        BY <3>1
      <3>2. CASE x # e
        BY <3>2, <2>1, <1>5 DEF IsTree, Clear
      <3> QED
        BY <3>1, <3>2
    <2> QED
      BY <2>1 DEF Clear
  <1>14. \A x \in U : u.array[x].check = t.array[x].check /\ L2[x] = L[x]
    BY <1>1, <1>2, <1>4
  <1>11. \A m \in U \cup {0} : m # n => Listed(u, U2, L2, m) = Listed(t, U, L, m)
    BY <1>14 DEF Listed
  <1>12. Listed(u, U2, L2, n) = T
    <2>1. \A l \in Labels : l \in Listed(u, U2, L2, n) <=> l \in Listed(t, U, L, n) \/ l = label
      BY <1>14, <1>2 DEF Listed
    <2>2. Listed(u, U2, L2, n) \subseteq Labels /\ Listed(t, U, L, n) \subseteq Labels
      BY DEF Listed
    <2> QED
      BY <2>1, <2>2
  <1>13. Chains(u, U2, L2, Y)
    <2> SUFFICES ASSUME NEW m \in U2 \cup {0}, m \notin Y, InnerNode(u, L2, m)
                 PROVE  /\ Listed(u, U2, L2, m) # {}
                        /\ ChainOf(u, m, u.array[m].base, Listed(u, U2, L2, m))
      BY DEF Chains
    <2>1. CASE m = n
      <3>1. u.array[n].base = base
        OBVIOUS
      <3>2. label \in T
        OBVIOUS
      <3> QED
        BY <2>1, <3>1, <3>2, <1>12
    <2>2. CASE m # n
      <3>1. m \in U \cup {0} /\ m \notin X /\ InnerNode(t, L, m) /\ u.child[m] = t.child[m]
            /\ u.array[m].base = t.array[m].base
        BY <2>2, <1>5, <1>6
      <3> DEFINE S == Listed(t, U, L, m)
                 b == t.array[m].base
      <3>2. S # {} /\ ChainOf(t, m, b, S) /\ S = Listed(u, U2, L2, m)
        BY <2>2, <3>1, <1>11 DEF IsTree, Chains
      <3>3. ASSUME NEW c \in S PROVE u.sibling[Xor(b, c)] = t.sibling[Xor(b, c)]
        <4>1. \/ Xor(b, c) \in U /\ t.array[Xor(b, c)].check = m /\ L[Xor(b, c)] = c
              \/ Xor(b, c) = 0 /\ m = 0 /\ c = 0
          BY <3>1, ChildAt
        <4>0. CASE n \in Y
          BY <4>0, <4>1
        <4>2. ASSUME n \notin Y, NEW d \in T PROVE Xor(b, c) # Xor(base, d)
          <5>1. CASE d = label
            BY <5>1, <4>1
          <5>2. CASE d # label
            <6>1. d \in Listed(t, U, L, n)
              BY <5>2
            <6>2. n \notin X
              <7>0. n \notin X \ Y => n \notin X
                BY <4>2
              <7>1. \/ n = 0 /\ d = 0
                    \/ \E x \in U : t.array[x].check = n /\ L[x] = d
                BY <6>1 DEF Listed
              <7> QED
                BY <7>0, <7>1
            <6>3. \/ Xor(base, d) \in U /\ t.array[Xor(base, d)].check = n
                  \/ Xor(base, d) = 0 /\ n = 0
              BY <6>1, <6>2, ChildAt
            <6> QED
              BY <6>3, <4>1, <2>2, <1>1
          <5> QED
            BY <5>1, <5>2
        <4> QED
          BY <4>0, <4>1, <4>2
      <3> HIDE DEF S, b
      <3>4. u.child[m] = t.child[m]
        BY <3>1
      <3>5. ChainOf(t, m, b, S)
        BY <3>2
      <3>6. ChainOf(u, m, b, S)
        BY <3>3, <3>4, <3>5 DEF ChainOf
      <3>7. S # {} /\ S = Listed(u, U2, L2, m)
        BY <3>2
      <3>8. u.array[m].base = b
        BY <3>1 DEF b
      <3> QED
        BY <3>6, <3>7, <3>8
    <2> QED
      BY <2>1, <2>2
  <1>16. TrieTyped(u)
    OBVIOUS
  <1> QED
    BY <1>3, <1>7, <1>8, <1>9, <1>10, <1>13, <1>16 DEF IsTree

\* The child a of m can move to b.
CanMove(t, U, L, m, base, a, b) ==
    /\ m \in U \cup {0} /\ InnerNode(t, L, m)
    /\ a \in U /\ t.array[a].check = m
    /\ base \in Slots /\ base = t.array[m].base
    /\ b \in Slots /\ b # 0 /\ b \notin U /\ b = Xor(base, L[a])

\* What the move of a child of m from a to b writes in the nodes of the tree.
MovedTo(t, u, U, a, b, m, V) ==
    /\ u.nblk >= t.nblk /\ u.array[0].base = t.array[0].base
    /\ \A x \in U \ {a} :
          /\ u.array[x].base = t.array[x].base
          /\ u.array[x].check = IF t.array[x].check = a THEN b ELSE t.array[x].check
    /\ u.array[b].base = t.array[a].base /\ u.array[b].check = m
    /\ \A x \in (U \cup {0}) \ {a} : u.child[x] = t.child[x] /\ u.sibling[x] = t.sibling[x]
    /\ u.child[b] = t.child[a]
    /\ \A x \in Slots : x # 0 /\ x \notin U \ {a} /\ x # b /\ x \notin V => u.child[x] = 0

\* A child of m moves from a to b, and its children with it.
THEOREM Moved ==
    ASSUME NEW t, NEW U, NEW P, NEW L, NEW O, NEW m, NEW X, X = {m}, NEW V,
           IsTree(t, U, P, L, O, X, V), NEW base, NEW a, NEW b, CanMove(t, U, L, m, base, a, b),
           NEW u, TrieTyped(u), NEW V2, MovedTo(t, u, U, a, b, m, V2),
           NEW U2, NEW P2, NEW L2, NEW O2,
           OneMore(U \ {a}, P, L, O, b, P[a], L[a], base, U2, P2, L2, O2)
    PROVE  IsTree(u, U2, P2, L2, O2, X, V2)
  <1> USE DEF CanMove, MovedTo, OneMore
  <1>1. /\ U \in SUBSET (Slots \ {0})
        /\ P \in [Slots -> Seq(Labels)] /\ L \in [Slots -> Labels] /\ O \in [Slots -> Slots]
    BY DEF IsTree, GhostTyped
  <1>2. /\ P2[b] = P[a] /\ L2[b] = L[a] /\ O2[b] = base
        /\ \A x \in Slots : x # b => P2[x] = P[x] /\ L2[x] = L[x] /\ O2[x] = O[x]
    BY <1>1 DEF With
  <1>3. GhostTyped(U2, P2, L2, O2)
    <2>1. P[0] = <<>> /\ 0 \in Slots
      BY SlotRange DEF IsTree, GhostTyped
    <2>2. P2[0] = <<>>
      BY <2>1, <1>2
    <2> QED
      BY <2>2, <1>1 DEF GhostTyped, With
  <1>0. m \in Slots /\ a \in Slots /\ 0 \in Slots /\ m # b /\ a # b /\ a # 0
    BY <1>1, SlotRange
  <1>4. \A x \in U : /\ t.array[x].check \in U \cup {0} /\ InnerNode(t, L, t.array[x].check)
                     /\ x = Xor(O[x], L[x]) /\ P[x] = Named(P[t.array[x].check], L[x])
                     /\ t.array[x].check = 0 => L[x] # 0
    BY DEF IsTree, Edges
  <1>5. m # a
    <2>1. P[a] = Named(P[m], L[a]) /\ P[m] \in Seq(Labels) /\ L[a] \in Labels
      BY <1>0, <1>1, <1>4
    <2>2. P[a] # P[m]
      BY <2>1, Names
    <2> QED
      BY <2>2
  <1> DEFINE U1 == (U \cup {0}) \ {a}
  <1>6. /\ \A x \in U1 : x \in Slots /\ x # b /\ x \in U2 \cup {0} /\ x \in U \cup {0}
        /\ m \in U1
        /\ \A x \in U2 \cup {0} : x = b \/ x \in U1
        /\ \A x \in U2 : x = b \/ (x \in U /\ x \in U1)
    BY <1>0, <1>1, <1>5
  <1>7. \A x \in U1 : /\ InnerNode(u, L2, x) <=> InnerNode(t, L, x)
                      /\ u.array[x].base = t.array[x].base
    <2>1. \A x \in U1 : u.array[x].base = t.array[x].base
      OBVIOUS
    <2> QED
      BY <2>1, <1>2, <1>6 DEF InnerNode
  <1>8. InnerNode(u, L2, b) <=> InnerNode(t, L, a)
    BY <1>0, <1>2 DEF InnerNode
  <1> HIDE DEF U1
  <1>9. Edges(u, U2, P2, L2, O2)
    <2> SUFFICES ASSUME NEW x \in U2
                 PROVE  /\ u.array[x].check \in U2 \cup {0}
                        /\ InnerNode(u, L2, u.array[x].check)
                        /\ x = Xor(O2[x], L2[x])
                        /\ P2[x] = Named(P2[u.array[x].check], L2[x])
                        /\ u.array[x].check = 0 => L2[x] # 0
      BY DEF Edges
    <2>1. CASE x = b
      <3>1. InnerNode(u, L2, m) /\ P2[m] = P[m] /\ m \in U2 \cup {0}
        BY <1>2, <1>6, <1>7
      <3>2. P[a] = Named(P[m], L[a]) /\ (m = 0 => L[a] # 0)
        BY <1>4
      <3>3. u.array[x].check = m /\ x = Xor(O2[x], L2[x])
        BY <2>1, <1>2
      <3>4. P2[x] = Named(P2[m], L2[x])
        BY <2>1, <3>1, <3>2, <1>2
      <3>5. m = 0 => L2[x] # 0
        BY <2>1, <3>2, <1>2
      <3> QED
        BY <3>1, <3>3, <3>4, <3>5
    <2>2. CASE x # b
      <3>1. x \in U /\ x \in U1 /\ x # a /\ x \in Slots
        BY <2>2, <1>1, <1>6
      <3>2. x = Xor(O2[x], L2[x]) /\ P2[x] = P[x] /\ L2[x] = L[x]
        BY <3>1, <2>2, <1>2, <1>4
      <3>3. CASE t.array[x].check = a
        <4>1. u.array[x].check = b
          BY <3>1, <3>3
        <4>2. b \in U2 \cup {0} /\ InnerNode(u, L2, b)
          BY <3>1, <3>3, <1>4, <1>8
        <4>3. P[x] = Named(P[a], L[x])
          BY <3>1, <3>3, <1>4
        <4>4. P2[x] = Named(P2[b], L2[x])
          BY <3>2, <4>3, <1>2
        <4> QED
          BY <3>2, <4>1, <4>2, <4>4
      <3>4. CASE t.array[x].check # a
        <4>1. u.array[x].check = t.array[x].check
          BY <3>1, <3>4
        <4>2. t.array[x].check \in U1
          BY <3>1, <3>4, <1>4 DEF U1
        <4>3. /\ P[x] = Named(P[t.array[x].check], L[x]) /\ (t.array[x].check = 0 => L[x] # 0)
              /\ InnerNode(t, L, t.array[x].check)
          BY <3>1, <1>4
        <4>4. P2[t.array[x].check] = P[t.array[x].check] /\ t.array[x].check \in U2 \cup {0}
          BY <4>2, <1>2, <1>6
        <4>5. InnerNode(u, L2, t.array[x].check)
          BY <4>2, <4>3, <1>7
        <4>6. P2[x] = Named(P2[t.array[x].check], L2[x])
          BY <3>2, <4>3, <4>4
        <4> QED
          BY <3>2, <4>1, <4>3, <4>4, <4>5, <4>6
      <3> QED
        BY <3>3, <3>4
    <2> QED
      BY <2>1, <2>2
  <1>10. Settled(u, U2, O2, {m})
    <2> SUFFICES ASSUME NEW x \in U2, u.array[x].check # m
                 PROVE  O2[x] = u.array[u.array[x].check].base
      BY DEF Settled
    <2>1. x # b
      OBVIOUS
    <2>2. x \in U /\ x # a /\ x \in Slots /\ O2[x] = O[x]
      BY <2>1, <1>1, <1>2
    <2>3. CASE t.array[x].check = a
      <3>1. u.array[x].check = b /\ O[x] = t.array[a].base
        BY <2>2, <2>3, <1>5 DEF IsTree, Settled
      <3> QED
        BY <3>1, <2>2
    <2>4. CASE t.array[x].check # a
      <3>1. u.array[x].check = t.array[x].check /\ t.array[x].check \in U1
        BY <2>2, <2>4, <1>4 DEF U1
      <3>2. O[x] = t.array[t.array[x].check].base
        BY <3>1, <2>2 DEF IsTree, Settled
      <3> QED
        BY <3>1, <3>2, <2>2, <1>7
    <2> QED
      BY <2>3, <2>4
  <1>11. Bases(u, U2, L2)
    <2>1. t.nblk \in Nat /\ u.nblk \in Nat
      BY DEF IsTree, TrieTyped
    <2>2. ASSUME NEW x \in U2, InnerNode(u, L2, x)
          PROVE  /\ u.array[x].base \in Slots
                 /\ Block(u.array[x].base) # 0 /\ Block(u.array[x].base) < u.nblk
      <3>1. PICK y \in U : u.array[x].base = t.array[y].base /\ InnerNode(t, L, y)
        BY <2>2, <1>6, <1>7, <1>8
      <3>2. /\ t.array[y].base \in Slots
            /\ Block(t.array[y].base) # 0 /\ Block(t.array[y].base) < t.nblk
        BY <3>1 DEF IsTree, Bases
      <3>3. Block(t.array[y].base) \in Nat
        BY <3>2, SlotFacts
      <3> QED
        BY <2>1, <3>1, <3>2, <3>3
    <2> QED
      BY <2>2 DEF IsTree, Bases
  <1>12. Clear(u, U2, L2, V2)
    <2>1. ASSUME NEW x \in U2, ~ InnerNode(u, L2, x) PROVE u.child[x] = 0
      <3>1. CASE x = b
        BY <3>1, <2>1, <1>8 DEF IsTree, Clear
      <3>2. CASE x # b
        <4>1. x \in U /\ x # a /\ ~ InnerNode(t, L, x)
          BY <3>2, <2>1, <1>6, <1>7
        <4> QED
          BY <4>1 DEF IsTree, Clear
      <3> QED
        BY <3>1, <3>2
    <2> QED
      BY <2>1 DEF Clear
  <1>13. \A x \in U \ {a} : L2[x] = L[x]
    BY <1>1, <1>2
  <1>14. \A n \in U1 : n # m => Listed(u, U2, L2, n) = Listed(t, U, L, n)
    <2> SUFFICES ASSUME NEW n \in U1, n # m, NEW l \in Labels
                 PROVE  l \in Listed(u, U2, L2, n) <=> l \in Listed(t, U, L, n)
      BY DEF Listed
    <2>1. n # a /\ n # b
      BY <1>6 DEF U1
    <2>2. ASSUME NEW x \in U2, u.array[x].check = n, L2[x] = l
          PROVE  x \in U /\ t.array[x].check = n /\ L[x] = l
      BY <2>1, <2>2, <1>13
    <2>3. ASSUME NEW x \in U, t.array[x].check = n, L[x] = l
          PROVE  x \in U2 /\ u.array[x].check = n /\ L2[x] = l
      BY <2>1, <2>3, <1>13
    <2> QED
      BY <2>2, <2>3 DEF Listed
  <1>15. Listed(u, U2, L2, b) = Listed(t, U, L, a)
    <2> SUFFICES ASSUME NEW l \in Labels
                 PROVE  l \in Listed(u, U2, L2, b) <=> l \in Listed(t, U, L, a)
      BY DEF Listed
    <2>1. \A x \in U : t.array[x].check # b
      BY <1>4
    <2>2. ASSUME NEW x \in U2, u.array[x].check = b, L2[x] = l
          PROVE  x \in U /\ t.array[x].check = a /\ L[x] = l
      BY <2>1, <2>2, <1>0, <1>13
    <2>3. ASSUME NEW x \in U, t.array[x].check = a, L[x] = l
          PROVE  x \in U2 /\ u.array[x].check = b /\ L2[x] = l
      BY <2>1, <2>3, <1>5, <1>13
    <2> QED
      BY <2>2, <2>3, <1>0 DEF Listed
  <1>16. Chains(u, U2, L2, {m})
    <2> SUFFICES ASSUME NEW n \in U2 \cup {0}, n # m, InnerNode(u, L2, n)
                 PROVE  /\ Listed(u, U2, L2, n) # {}
                        /\ ChainOf(u, n, u.array[n].base, Listed(u, U2, L2, n))
      BY DEF Chains
    <2>1. PICK k \in U \cup {0} :
             /\ k # m /\ InnerNode(t, L, k) /\ u.array[n].base = t.array[k].base
             /\ Listed(u, U2, L2, n) = Listed(t, U, L, k) /\ u.child[n] = t.child[k]
      <3>1. CASE n = b
        BY <3>1, <1>5, <1>8, <1>15
      <3>2. CASE n # b
        <4>1. n \in U1
          BY <3>2, <1>6
        <4>2. n \in U \cup {0} /\ n # a
          BY <4>1 DEF U1
        <4>3. /\ InnerNode(t, L, n) /\ u.array[n].base = t.array[n].base
              /\ Listed(u, U2, L2, n) = Listed(t, U, L, n)
          BY <4>1, <1>7, <1>14
        <4>4. u.child[n] = t.child[n]
          BY <4>2
        <4> QED
          BY <4>2, <4>3, <4>4
      <3> QED
        BY <3>1, <3>2
    <2> DEFINE S == Listed(t, U, L, k)
               B0 == t.array[k].base
    <2>2. S # {} /\ ChainOf(t, k, B0, S)
      BY <2>1 DEF IsTree, Chains
    <2>3. ASSUME NEW c \in S PROVE u.sibling[Xor(B0, c)] = t.sibling[Xor(B0, c)]
      <3>1. \/ Xor(B0, c) \in U /\ t.array[Xor(B0, c)].check = k
            \/ Xor(B0, c) = 0
        BY <2>1, ChildAt
      <3>2. Xor(B0, c) \in (U \cup {0}) \ {a}
        BY <3>1, <2>1, <1>0
      <3> QED
        BY <3>2
    <2>4. Listed(u, U2, L2, n) = S /\ u.array[n].base = B0 /\ u.child[n] = t.child[k]
      BY <2>1
    <2> HIDE DEF S, B0
    <2>5. ChainOf(u, n, B0, S)
      BY <2>2, <2>3, <2>4 DEF ChainOf
    <2> QED
      BY <2>2, <2>4, <2>5
  <1>17. TrieTyped(u)
    OBVIOUS
  <1>18. IsTree(u, U2, P2, L2, O2, {m}, V2)
    BY <1>3, <1>9, <1>10, <1>11, <1>12, <1>16, <1>17 DEF IsTree
  <1> QED
    BY <1>18

\* The child e of n, which has none, can go, and leaves T.
CanDetach(t, U, L, X, e, n, base, T, Y) ==
    /\ e \in U /\ X \subseteq {e} /\ \A x \in U : t.array[x].check # e
    /\ n = t.array[e].check /\ base = t.array[n].base
    /\ T = Listed(t, U, L, n) \ {L[e]} /\ Y \in {{}, {n}}

\* What the end of the child e of n writes in the nodes of the tree.
DetachedFrom(t, u, U, L, n, base, e, T, Y, V) ==
    /\ u.nblk >= t.nblk /\ u.array[0].base = t.array[0].base
    /\ \A x \in U \ {e} : u.array[x] = t.array[x]
    /\ Y = {} => T # {} /\ ChainOf(u, n, base, T)
    /\ \A x \in (U \cup {0}) \ {e, n} : u.child[x] = t.child[x]
    /\ \A x \in (U \cup {0}) \ {e} :
          (\A c \in Listed(t, U, L, n) : x # Xor(base, c)) => u.sibling[x] = t.sibling[x]
    /\ \A x \in Slots : x # 0 /\ x \notin U \ {e} /\ x \notin V => u.child[x] = 0

\* A slot without children given back leaves a tree, but for the chain of its
\* parent n if that was its only child.
THEOREM Detached ==
    ASSUME NEW t, NEW U, NEW P, NEW L, NEW O, NEW X, NEW V, IsTree(t, U, P, L, O, X, V),
           NEW e, NEW n, NEW base, NEW T, NEW Y, CanDetach(t, U, L, X, e, n, base, T, Y),
           NEW u, TrieTyped(u), NEW V2,
           DetachedFrom(t, u, U, L, n, base, e, T, Y, V2), NEW U2, U2 = U \ {e}
    PROVE  IsTree(u, U2, P, L, O, Y, V2)
  <1> USE DEF CanDetach, DetachedFrom
  <1>1. /\ U \in SUBSET (Slots \ {0}) /\ e \in Slots /\ e # 0
        /\ P \in [Slots -> Seq(Labels)] /\ L \in [Slots -> Labels] /\ O \in [Slots -> Slots]
    BY DEF IsTree, GhostTyped
  <1>2. \A x \in U : /\ t.array[x].check \in U \cup {0} /\ InnerNode(t, L, t.array[x].check)
                     /\ x = Xor(O[x], L[x]) /\ P[x] = Named(P[t.array[x].check], L[x])
                     /\ t.array[x].check = 0 => L[x] # 0
    BY DEF IsTree, Edges
  <1>3. n \in U2 \cup {0} /\ n # e /\ InnerNode(t, L, n)
    BY <1>1, <1>2
  <1>4. \A x \in U2 \cup {0} : /\ InnerNode(u, L, x) <=> InnerNode(t, L, x)
                               /\ u.array[x].base = t.array[x].base
    BY DEF InnerNode
  <1>5. \A x \in U2 : u.array[x] = t.array[x] /\ t.array[x].check \in U2 \cup {0}
    BY <1>2
  <1>6. GhostTyped(U2, P, L, O)
    BY <1>1 DEF IsTree, GhostTyped
  <1>7. Edges(u, U2, P, L, O)
    BY <1>2, <1>4, <1>5 DEF Edges
  <1>8. Settled(u, U2, O, Y)
    <2> SUFFICES ASSUME NEW x \in U2
                 PROVE  O[x] = u.array[u.array[x].check].base
      BY DEF Settled
    <2>1. x \in U /\ t.array[x].check \notin X
      OBVIOUS
    <2>2. O[x] = t.array[t.array[x].check].base
      BY <2>1 DEF IsTree, Settled
    <2> QED
      BY <2>2, <1>4, <1>5
  <1>9. Bases(u, U2, L)
    <2>1. t.nblk \in Nat /\ u.nblk \in Nat
      BY DEF IsTree, TrieTyped
    <2>2. ASSUME NEW x \in U2, InnerNode(u, L, x)
          PROVE  /\ u.array[x].base \in Slots
                 /\ Block(u.array[x].base) # 0 /\ Block(u.array[x].base) < u.nblk
      <3>1. x \in U /\ u.array[x].base = t.array[x].base /\ InnerNode(t, L, x)
        BY <2>2, <1>4
      <3>2. /\ t.array[x].base \in Slots
            /\ Block(t.array[x].base) # 0 /\ Block(t.array[x].base) < t.nblk
        BY <3>1 DEF IsTree, Bases
      <3>3. Block(t.array[x].base) \in Nat
        BY <3>2, SlotFacts
      <3> QED
        BY <2>1, <3>1, <3>2, <3>3
    <2> QED
      BY <2>2 DEF IsTree, Bases
  <1>10. Clear(u, U2, L, V2)
    <2>1. ASSUME NEW x \in U2, ~ InnerNode(u, L, x) PROVE u.child[x] = 0
      <3>1. x \in U /\ x # e /\ x # n /\ ~ InnerNode(t, L, x)
        BY <2>1, <1>3, <1>4
      <3> QED
        BY <3>1 DEF IsTree, Clear
    <2> QED
      BY <2>1 DEF Clear
  <1>11. \A x \in U2 \cup {0} : x # n => Listed(u, U2, L, x) = Listed(t, U, L, x)
    BY <1>5 DEF Listed
  <1>12. \A x \in U : t.array[x].check = n /\ L[x] = L[e] => x = e
    <2>1. n \notin X
      BY <1>3
    <2> QED
      BY <1>2, <2>1 DEF IsTree, Settled
  <1>13. Listed(u, U2, L, n) = T
    <2> SUFFICES ASSUME NEW l \in Labels PROVE l \in Listed(u, U2, L, n) <=> l \in T
      BY DEF Listed
    <2>1. L[e] \in Labels /\ (n = 0 => L[e] # 0)
      BY <1>1, <1>2
    <2> QED
      BY <2>1, <1>5, <1>12 DEF Listed
  <1>14. Chains(u, U2, L, Y)
    <2> SUFFICES ASSUME NEW m \in U2 \cup {0}, m \notin Y, InnerNode(u, L, m)
                 PROVE  /\ Listed(u, U2, L, m) # {}
                        /\ ChainOf(u, m, u.array[m].base, Listed(u, U2, L, m))
      BY DEF Chains
    <2>1. CASE m = n
      <3>1. Y = {} /\ u.array[n].base = base
        BY <2>1, <1>3, <1>4
      <3>2. T # {} /\ ChainOf(u, n, base, T)
        BY <3>1
      <3> QED
        BY ONLY <2>1, <3>1, <3>2, <1>13
    <2>2. CASE m # n
      <3>1. m \in U \cup {0} /\ m # e /\ InnerNode(t, L, m) /\ u.array[m].base = t.array[m].base
        BY <1>1, <1>4
      <3>2. u.child[m] = t.child[m] /\ m \notin X
        BY <2>2, <3>1
      <3> DEFINE S == Listed(t, U, L, m)
                 b == t.array[m].base
      <3>3. S # {} /\ ChainOf(t, m, b, S) /\ S = Listed(u, U2, L, m)
        BY <2>2, <3>1, <3>2, <1>11 DEF IsTree, Chains
      <3>4. ASSUME NEW c \in S PROVE u.sibling[Xor(b, c)] = t.sibling[Xor(b, c)]
        <4>1. \/ Xor(b, c) \in U /\ t.array[Xor(b, c)].check = m
              \/ Xor(b, c) = 0 /\ m = 0
          BY <3>1, <3>2, ChildAt
        <4>2. Xor(b, c) # e
          BY <4>1, <2>2, <1>1
        <4>3. ASSUME NEW d \in Listed(t, U, L, n) PROVE Xor(b, c) # Xor(base, d)
          <5>1. n \notin X /\ n \in U \cup {0}
            BY <1>2, <1>3
          <5>2. \/ Xor(base, d) \in U /\ t.array[Xor(base, d)].check = n
                \/ Xor(base, d) = 0 /\ n = 0
            BY <5>1, ChildAt
          <5> QED
            BY <5>2, <4>1, <2>2, <1>1
        <4> QED
          BY <4>1, <4>2, <4>3
      <3>5. u.array[m].base = b
        BY <3>1
      <3> HIDE DEF S, b
      <3>6. ChainOf(t, m, b, S)
        BY <3>3
      <3>7. ChainOf(u, m, b, S)
        BY <3>2, <3>4, <3>6 DEF ChainOf
      <3>8. S # {} /\ S = Listed(u, U2, L, m)
        BY <3>3
      <3> QED
        BY <3>5, <3>7, <3>8
    <2> QED
      BY <2>1, <2>2
  <1>15. IsTree(u, U2, P, L, O, Y, V2)
    BY <1>6, <1>7, <1>8, <1>9, <1>10, <1>14 DEF IsTree
  <1> QED
    BY <1>15

-----------------------------------------------------------------------------
\* The array with every slot in use the same.
PoolArray(t) == [x \in Slots |-> IF t.array[x].check >= 0 THEN Node(-1, 0) ELSE t.array[x]]

PoolOf(t) == [array |-> PoolArray(t), lists |-> t.lists, num |-> t.num, trial |-> t.trial,
              ehead |-> t.ehead, reject |-> t.reject, limit |-> t.limit, nblk |-> t.nblk]

PoolFields == {"array", "lists", "num", "trial", "ehead", "reject", "limit", "nblk"}

\* The empty slots of the blocks of t are whole, and its lists match them:
\* c blocks are counted and r of them registered.
SoundTo(R, t, c, r) ==
    /\ TrieTyped(t) /\ PoolFields \subseteq DOMAIN t /\ Fields(PoolOf(t))
    /\ Whole("chain", R, PoolOf(t), c, r)
    /\ ListsOK(t.lists, t.num, t.trial, t.nblk, r)

Sound(R, t) == SoundTo(R, t, t.nblk, t.nblk)

\* The pool of a trie: its fields, and slots empty in both or in neither.
LEMMA PoolFacts ==
    ASSUME NEW t, TrieTyped(t), NEW p, p = PoolOf(t)
    PROVE  /\ p.array = PoolArray(t) /\ p.lists = t.lists /\ p.num = t.num /\ p.trial = t.trial
           /\ p.ehead = t.ehead /\ p.reject = t.reject /\ p.limit = t.limit /\ p.nblk = t.nblk
           /\ \A x \in Slots : /\ t.array[x].check \in Int /\ t.array[x].base \in Int
                               /\ t.array[x].check >= 0 => p.array[x] = Node(-1, 0) /\ p.array[x].check = 0
                               /\ t.array[x].check < 0 => p.array[x] = t.array[x]
                               /\ p.array[x].check < 0 <=> t.array[x].check < 0
           /\ Fields(p) => p \in PoolRec
  <1>1. /\ p.array = PoolArray(t) /\ p.lists = t.lists /\ p.num = t.num /\ p.trial = t.trial
        /\ p.ehead = t.ehead /\ p.reject = t.reject /\ p.limit = t.limit /\ p.nblk = t.nblk
    BY DEF PoolOf
  <1>2. \A x \in Slots : t.array[x].check \in Int /\ t.array[x].base \in Int
    BY DEF TrieTyped
  <1>3. \A x \in Slots : PoolArray(t)[x] = IF t.array[x].check >= 0 THEN Node(-1, 0) ELSE t.array[x]
    BY DEF PoolArray
  <1>4. Node(-1, 0).check = 0
    BY DEF Node
  <1>5. Fields(p) => p \in PoolRec
    BY <1>1 DEF PoolOf, Fields, PoolRec
  <1> QED
    BY <1>1, <1>2, <1>3, <1>4, <1>5

\* A trie is sound when a whole pool has its empty slots.
LEMMA SoundFrom ==
    ASSUME NEW R, NEW u, NEW c, NEW r, TrieTyped(u), PoolFields \subseteq DOMAIN u,
           NEW q, Whole("chain", R, q, c, r), q.array = PoolArray(u), q.num = u.num,
           q.ehead = u.ehead, q.nblk = u.nblk,
           PoolArray(u) \in [Slots -> PoolNodes], u.ehead \in [Blocks -> Slots],
           u.reject \in [Blocks -> 0 .. B + 1], u.limit \in [0 .. B -> 0 .. B + 1],
           ListsOK(u.lists, u.num, u.trial, u.nblk, r)
    PROVE  SoundTo(R, u, c, r)
  <1> DEFINE p == PoolOf(u)
  <1>1. /\ p.array = PoolArray(u) /\ p.lists = u.lists /\ p.num = u.num /\ p.trial = u.trial
        /\ p.ehead = u.ehead /\ p.reject = u.reject /\ p.limit = u.limit /\ p.nblk = u.nblk
    BY PoolFacts
  <1>2. Fields(p)
    BY <1>1 DEF Fields, ListsOK, EntriesOK
  <1> HIDE DEF p
  <1>3. \A b \in 1 .. r - 1 : HeadAt(p, b)
    BY <1>1 DEF Whole, HeadAt
  <1>4. Whole("chain", R, p, c, r)
    BY <1>1, <1>3, HeadsWhole
  <1> QED
    BY <1>2, <1>4 DEF SoundTo, p

\* What Sound says.
LEMMA SoundFacts ==
    ASSUME NEW R, NEW t, Sound(R, t)
    PROVE  /\ TrieTyped(t) /\ PoolFields \subseteq DOMAIN t
           /\ PoolOf(t) \in PoolRec /\ Whole("chain", R, PoolOf(t), t.nblk, t.nblk)
           /\ PoolOf(t).nblk = t.nblk
           /\ ListsOK(t.lists, t.num, t.trial, t.nblk, t.nblk)
           /\ t.array[0].check < 0
  <1>1. /\ TrieTyped(t) /\ PoolFields \subseteq DOMAIN t /\ Fields(PoolOf(t))
        /\ Whole("chain", R, PoolOf(t), t.nblk, t.nblk)
        /\ ListsOK(t.lists, t.num, t.trial, t.nblk, t.nblk)
    BY DEF Sound, SoundTo
  <1>2. PoolOf(t) \in PoolRec /\ PoolOf(t).nblk = t.nblk
    BY <1>1, PoolFacts
  <1>3. t.array[0].check < 0
    <2>1. PoolOf(t).array[0].check < 0
      BY <1>1 DEF Whole
    <2> QED
      BY <1>1, <2>1, PoolFacts, SlotRange
  <1> QED
    BY <1>1, <1>2, <1>3

-----------------------------------------------------------------------------
\* What a step of the pool makes of the slots but e: those in use keep their
\* contents, and none becomes empty or used.
SameUse(t, u, e) ==
    /\ u.array[0].base = t.array[0].base
    /\ \A x \in Slots : x # e => /\ u.array[x].check < 0 <=> t.array[x].check < 0
                                 /\ t.array[x].check >= 0 => u.array[x] = t.array[x]

\* _pop_enode has taken the slot e.
TakenAs(t, u, e, label, from) ==
    /\ DOMAIN u = DOMAIN t /\ u.sibling = t.sibling /\ u.child = t.child /\ u.nblk = t.nblk
    /\ SameUse(t, u, e)
    /\ u.array[e] = Node(IF label # 0 THEN -1 ELSE 0, from)

\* _pop_enode on a trie: the slot leaves its ring, its counter and, once it was
\* the last, its list; the rest of the allocator and every node stand.
THEOREM TakeSound ==
    ASSUME NEW R, Spare("chain", R), NEW t, Sound(R, t), NEW e, Takeable(R, t, e),
           NEW label, NEW from \in Slots, NEW u, u = TakeEnode(t, e, label, from)
    PROVE  Sound(R, u) /\ TakenAs(t, u, e, label, from)
  <1> DEFINE p == PoolOf(t)
             q == TakeEnode(p, e, 1, 0)
             b == Block(e)
             k == t.num[b] - 1
             n == t.array[e]
             v == IF label # 0 THEN -1 ELSE 0
             W == [t.array EXCEPT ![-n.base].check = n.check, ![-n.check].base = n.base]
             A == [IF k = 0 THEN t.array ELSE W EXCEPT ![e] = Node(v, from)]
             N == [t.num EXCEPT ![b] = k]
             L == ListsAfterTake(t.lists, b, k, t.trial[b])
             H == IF k = 0 THEN t.ehead ELSE [t.ehead EXCEPT ![b] = NextHead(t, e)]
  <1>1. /\ TrieTyped(t) /\ PoolFields \subseteq DOMAIN t
        /\ p \in PoolRec /\ Whole("chain", R, p, t.nblk, t.nblk) /\ p.nblk = t.nblk
        /\ ListsOK(t.lists, t.num, t.trial, t.nblk, t.nblk) /\ t.array[0].check < 0
    BY SoundFacts
  <1>2. /\ p.array = PoolArray(t) /\ p.lists = t.lists /\ p.num = t.num /\ p.trial = t.trial
        /\ p.ehead = t.ehead /\ p.reject = t.reject /\ p.limit = t.limit /\ p.nblk = t.nblk
        /\ \A x \in Slots : /\ t.array[x].check \in Int /\ t.array[x].base \in Int
                            /\ t.array[x].check >= 0 => p.array[x] = Node(-1, 0) /\ p.array[x].check = 0
                            /\ t.array[x].check < 0 => p.array[x] = t.array[x]
                            /\ p.array[x].check < 0 <=> t.array[x].check < 0
    BY <1>1, PoolFacts
  <1>3. u = [t EXCEPT !.num = N, !.lists = L, !.ehead = H, !.array = A]
    BY DEF TakeEnode
  <1> HIDE DEF p, q, N, L, H, A, W
  <1>4. /\ DOMAIN u = DOMAIN t /\ u.num = N /\ u.lists = L /\ u.ehead = H /\ u.array = A
        /\ u.trial = t.trial /\ u.reject = t.reject /\ u.limit = t.limit /\ u.nblk = t.nblk
        /\ u.sibling = t.sibling /\ u.child = t.child
    BY <1>1, <1>3 DEF PoolFields, TrieTyped, IsNinfo
  <1>5. Takeable(R, p, e) /\ e \in Slots /\ e # 0 /\ n.check < 0 /\ b < t.nblk
    BY <1>2 DEF Takeable
  <1>6. b \in Blocks /\ Between(p.array, e) /\ p.num[b] > IF b = 0 THEN 1 ELSE 0
    BY <1>1, <1>2, <1>5, TakeableFacts
  <1>7. - p.array[e].base \in Slots /\ - p.array[e].check \in Slots
    BY <1>6, BetweenSlots
  <1>8. p.array[e] = n
    BY <1>2, <1>5
  <1>9. /\ -n.base \in Slots /\ -n.check \in Slots
        /\ t.array[-n.base].check < 0 /\ t.array[-n.check].check < 0 /\ -n.check # 0
    <2>1. - n.base \in Counted(p.array, b) /\ - n.check \in Emp(p.array, b)
      BY <1>6, <1>8 DEF Between
    <2>2. p.array[-n.base].check < 0 /\ p.array[-n.check].check < 0 /\ - n.check # 0
      BY <2>1 DEF Counted, Emp
    <2> QED
      BY <1>2, <1>7, <1>8, <2>2
  <1>10. /\ q.array = TakenArray(p, e) /\ q.num = TakenNum(p, e) /\ q.ehead = TakenHeads(p, e)
         /\ q.nblk = p.nblk
    BY <1>1, <1>5, <1>7, TakeForm DEF q
  <1>11. t.num[b] \in 0 .. B /\ (k = 0 <=> t.num[b] = 1) /\ k \in Int
    <2>1. t.num \in [Blocks -> 0 .. B]
      BY <1>1 DEF ListsOK, EntriesOK
    <2> QED
      BY <2>1, <1>6, BlockAssumption
  <1>12. /\ W \in [Slots -> [base : Int, check : Int]]
         /\ \A x \in Slots : W[x] = Node(IF x = - n.check THEN n.base ELSE t.array[x].base,
                                         IF x = - n.base THEN n.check ELSE t.array[x].check)
    <2>1. t.array \in [Slots -> [base : Int, check : Int]]
      BY <1>1 DEF TrieTyped
    <2>2. n.base \in Int /\ n.check \in Int
      BY <1>2, <1>5
    <2> HIDE DEF n
    <2> QED
      BY <1>9, <2>1, <2>2 DEF W, Node
  <1>13. /\ A \in [Slots -> [base : Int, check : Int]] /\ A[e] = Node(v, from)
         /\ \A x \in Slots : x # e => A[x] = IF k = 0 THEN t.array[x] ELSE W[x]
    <2>1. t.array \in [Slots -> [base : Int, check : Int]]
      BY <1>1 DEF TrieTyped
    <2>2. Node(v, from) \in [base : Int, check : Int]
      BY SlotFacts DEF Node
    <2> HIDE DEF v, k
    <2> QED
      BY <2>1, <2>2, <1>12, <1>5 DEF A
  <1>14. \A x \in Slots : x # e => /\ A[x].check < 0 <=> t.array[x].check < 0
                                   /\ t.array[x].check >= 0 => A[x] = t.array[x]
    <2> SUFFICES ASSUME NEW x \in Slots, x # e
                 PROVE  /\ A[x].check < 0 <=> t.array[x].check < 0
                        /\ t.array[x].check >= 0 => A[x] = t.array[x]
      OBVIOUS
    <2>1. CASE k = 0
      BY <2>1, <1>13
    <2>2. CASE k # 0
      <3>1. A[x] = Node(IF x = - n.check THEN n.base ELSE t.array[x].base,
                        IF x = - n.base THEN n.check ELSE t.array[x].check)
        BY <2>2, <1>12, <1>13
      <3>2. A[x].check = IF x = - n.base THEN n.check ELSE t.array[x].check
        BY <3>1 DEF Node
      <3>3. t.array[x].check < 0 => A[x].check < 0
        BY <3>2, <1>5
      <3>4. ASSUME t.array[x].check >= 0 PROVE A[x] = t.array[x]
        <4>1. x # - n.check /\ x # - n.base
          BY <3>4, <1>2, <1>9
        <4>2. t.array[x] \in [base : Int, check : Int]
          BY <1>1 DEF TrieTyped
        <4>3. t.array[x] = [base |-> t.array[x].base, check |-> t.array[x].check]
          BY <4>2
        <4> QED
          BY <3>1, <4>1, <4>3 DEF Node
      <3> QED
        BY <3>3, <3>4, <1>2
    <2> QED
      BY <2>1, <2>2
  <1>15. A[0].base = t.array[0].base
    <2>1. 0 \in Slots /\ 0 # e
      BY <1>5, SlotRange
    <2>2. CASE k = 0
      BY <2>1, <2>2, <1>13
    <2>3. CASE k # 0
      <3>1. A[0] = W[0]
        BY <2>1, <2>3, <1>13
      <3> HIDE DEF n
      <3> QED
        BY <3>1, <2>1, <1>12, <1>9 DEF Node
    <2> QED
      BY <2>2, <2>3
  <1>16. TakenAs(t, u, e, label, from)
    BY <1>4, <1>13, <1>14, <1>15 DEF TakenAs, SameUse
  <1>17. TrieTyped(u) /\ PoolFields \subseteq DOMAIN u
    BY <1>1, <1>4, <1>13 DEF TrieTyped, IsNinfo
  <1>18. PoolArray(u) = TakenArray(p, e)
    <2>1. \A x \in Slots : PoolArray(u)[x] = TakenArray(p, e)[x]
      <3> SUFFICES ASSUME NEW x \in Slots PROVE PoolArray(u)[x] = TakenArray(p, e)[x]
        OBVIOUS
      <3>1. PoolArray(u)[x] = IF A[x].check >= 0 THEN Node(-1, 0) ELSE A[x]
        BY <1>4 DEF PoolArray
      <3>2. TakenArray(p, e)[x] =
               IF x = e THEN Node(-1, 0)
               ELSE IF k = 0 THEN p.array[x]
               ELSE Node(IF x = - n.check THEN n.base ELSE p.array[x].base,
                         IF x = - n.base THEN n.check ELSE p.array[x].check)
        BY <1>2, <1>8, <1>11 DEF TakenArray
      <3>3. CASE x = e
        <4>1. A[x].check = from
          BY <3>3, <1>13 DEF Node
        <4> QED
          BY <3>1, <3>2, <3>3, <4>1, SlotFacts
      <3>4. CASE x # e /\ t.array[x].check >= 0
        <4>1. PoolArray(u)[x] = Node(-1, 0)
          BY <3>1, <3>4, <1>14
        <4>2. p.array[x] = Node(-1, 0)
          BY <3>4, <1>2
        <4>3. x # - n.check /\ x # - n.base
          BY <3>4, <1>2, <1>9
        <4>4. Node(p.array[x].base, p.array[x].check) = Node(-1, 0)
          BY <4>2 DEF Node
        <4> HIDE DEF n, k
        <4> QED
          BY <3>2, <3>4, <4>1, <4>2, <4>3, <4>4
      <3>5. CASE x # e /\ t.array[x].check < 0
        <4>1. A[x].check < 0 /\ A[x] = IF k = 0 THEN t.array[x] ELSE W[x]
          BY <3>5, <1>13, <1>14
        <4>2. ~ A[x].check >= 0
          BY <4>1, <1>13
        <4>3. PoolArray(u)[x] = A[x]
          BY <3>1, <4>2
        <4>4. p.array[x] = t.array[x]
          BY <3>5, <1>2
        <4> HIDE DEF n, k
        <4> QED
          BY <3>2, <3>5, <4>1, <4>3, <4>4, <1>12
      <3> QED
        BY <3>3, <3>4, <3>5, <1>2
    <2>2. PoolArray(u) = [x \in Slots |-> PoolArray(u)[x]]
      BY DEF PoolArray
    <2>3. TakenArray(p, e) = [x \in Slots |-> TakenArray(p, e)[x]]
      BY DEF TakenArray
    <2> QED
      BY <2>1, <2>2, <2>3
  <1>19. q.array \in [Slots -> PoolNodes]
    BY <1>1, <1>5, <1>6, TakeFrame DEF q
  <1>20. Whole("chain", R, q, t.nblk, t.nblk)
    BY <1>1, <1>5, <1>10, TakeWhole DEF q
  <1>21. NextHead(t, e) = NextHead(p, e) /\ NextHead(p, e) \in Slots
    <2>1. NextHead(t, e) = NextHead(p, e)
      BY <1>2, <1>8 DEF NextHead
    <2>2. p.ehead[b] \in Slots
      BY <1>1, <1>6 DEF PoolRec
    <2> QED
      BY <2>1, <2>2, <1>7 DEF NextHead
  <1>22. q.num = u.num /\ q.ehead = u.ehead
    BY <1>2, <1>4, <1>10, <1>11, <1>21 DEF TakenNum, TakenHeads, N, H
  <1>23. u.ehead \in [Blocks -> Slots]
    <2>1. t.ehead \in [Blocks -> Slots]
      BY <1>1, <1>2 DEF PoolRec
    <2> QED
      BY <2>1, <1>4, <1>6, <1>21 DEF H
  <1>24. u.reject \in [Blocks -> 0 .. B + 1] /\ u.limit \in [0 .. B -> 0 .. B + 1]
    BY <1>1, <1>2, <1>4 DEF PoolRec
  <1>25. ListsOK(u.lists, u.num, u.trial, u.nblk, t.nblk)
    <2>1. t.num[b] > IF b = 0 THEN 1 ELSE 0
      BY <1>2, <1>6
    <2>2. ListsOK(L, N, t.trial, t.nblk, t.nblk)
      BY <1>1, <1>5, <1>6, <2>1, TakeLists DEF L, N
    <2> QED
      BY <2>2, <1>4
  <1>26. SoundTo(R, u, t.nblk, t.nblk)
    BY <1>4, <1>10, <1>2, <1>17, <1>18, <1>19, <1>20, <1>22, <1>23, <1>24, <1>25, SoundFrom
  <1> QED
    BY <1>4, <1>16, <1>26 DEF Sound

\* A function with the value 0 at e.
ZeroAt(f, g, e) == g[e] = 0 /\ \A x \in Slots : x # e => g[x] = f[x]

\* _push_enode has given back the slot e.
ReleasedAs(t, u, e) ==
    /\ DOMAIN u = DOMAIN t /\ u.nblk = t.nblk
    /\ SameUse(t, u, e) /\ u.array[e].check < 0
    /\ ZeroAt(t.sibling, u.sibling, e) /\ ZeroAt(t.child, u.child, e)

\* The fields _push_enode writes.
GivenArray(t, e) ==
    LET b == Block(e)
        h == t.ehead[b]
        z == - t.array[h].check
    IN  IF t.num[b] + 1 = 1 THEN [t.array EXCEPT ![e] = Node(-e, -e)]
        ELSE [t.array EXCEPT ![e] = Node(-h, -z), ![h].check = -e, ![z].base = -e]
GivenTrial(t, e) == IF t.num[Block(e)] + 1 = 1 THEN t.trial ELSE [t.trial EXCEPT ![Block(e)] = 0]
GivenHeads(t, e) == IF t.num[Block(e)] + 1 = 1 THEN [t.ehead EXCEPT ![Block(e)] = e] ELSE t.ehead
GivenReject(t, e) ==
    LET b == Block(e)
        k == t.num[b] + 1
    IN  [t.reject EXCEPT ![b] = IF t.reject[b] < t.limit[k] THEN t.limit[k] ELSE t.reject[b]]
GivenLists(t, e) ==
    ListsAfterReturn(t.lists, Block(e), t.num[Block(e)] + 1, t.trial[Block(e)])
GivenNum(t, e) == [t.num EXCEPT ![Block(e)] = t.num[Block(e)] + 1]

\* _push_enode, field by field.
LEMMA PushedAs ==
    ASSUME NEW t, TrieTyped(t), PoolFields \subseteq DOMAIN t, NEW e \in Slots,
           NEW u, u = PushEnode(t, e)
    PROVE  /\ DOMAIN u = DOMAIN t /\ u.array = GivenArray(t, e) /\ u.trial = GivenTrial(t, e)
           /\ u.ehead = GivenHeads(t, e) /\ u.reject = GivenReject(t, e)
           /\ u.num = GivenNum(t, e) /\ u.lists = GivenLists(t, e)
           /\ u.limit = t.limit /\ u.nblk = t.nblk /\ u.sibling = t.sibling /\ u.child = t.child
  <1> DEFINE b == Block(e)
             k == t.num[b] + 1
             h == t.ehead[b]
             x == - t.array[h].check
             A == IF k = 1 THEN [t.array EXCEPT ![e] = Node(-e, -e)]
                  ELSE [t.array EXCEPT ![e] = Node(-h, -x), ![h].check = -e, ![x].base = -e]
             T == IF k = 1 THEN t.trial ELSE [t.trial EXCEPT ![b] = 0]
             H == IF k = 1 THEN [t.ehead EXCEPT ![b] = e] ELSE t.ehead
             J == [t.reject EXCEPT ![b] = IF t.reject[b] < t.limit[k] THEN t.limit[k]
                                          ELSE t.reject[b]]
             N == [t.num EXCEPT ![b] = k]
             L == ListsAfterReturn(t.lists, b, k, t.trial[b])
  <1>3. /\ A = GivenArray(t, e) /\ T = GivenTrial(t, e) /\ H = GivenHeads(t, e)
        /\ J = GivenReject(t, e) /\ N = GivenNum(t, e) /\ L = GivenLists(t, e)
    BY DEF GivenArray, GivenTrial, GivenHeads, GivenReject, GivenNum, GivenLists
  <1>1. CASE k = 1
    <2> DEFINE f == [t EXCEPT !.ehead = H, !.array = A]
    <2>1. u = [f EXCEPT !.num = [@ EXCEPT ![b] = k],
                        !.lists = ListsAfterReturn(@, b, k, t.trial[b]), !.reject = J]
      BY <1>1 DEF PushEnode, PoolFields
    <2>2. /\ DOMAIN f = DOMAIN t /\ f.ehead = H /\ f.array = A /\ f.num = t.num /\ f.lists = t.lists
          /\ f.trial = t.trial /\ f.reject = t.reject /\ f.limit = t.limit /\ f.nblk = t.nblk
          /\ f.sibling = t.sibling /\ f.child = t.child
      BY DEF PoolFields, TrieTyped, IsNinfo
    <2> HIDE DEF f, N, L, A, T, H, J
    <2>3. u = [f EXCEPT !.num = N, !.lists = L, !.reject = J]
      BY <2>1, <2>2 DEF N, L
    <2>4. /\ DOMAIN u = DOMAIN t /\ u.array = A /\ u.trial = t.trial /\ u.ehead = H /\ u.reject = J
          /\ u.num = N /\ u.lists = L
          /\ u.limit = t.limit /\ u.nblk = t.nblk /\ u.sibling = t.sibling /\ u.child = t.child
      BY <2>2, <2>3 DEF PoolFields, TrieTyped, IsNinfo
    <2> QED
      BY <1>1, <2>4, <1>3 DEF T
  <1>2. CASE k # 1
    <2> DEFINE f == [t EXCEPT !.trial = T, !.array = A]
    <2>1. u = [f EXCEPT !.num = [@ EXCEPT ![b] = k],
                        !.lists = ListsAfterReturn(@, b, k, t.trial[b]), !.reject = J]
      BY <1>2 DEF PushEnode, PoolFields
    <2>2. /\ DOMAIN f = DOMAIN t /\ f.ehead = t.ehead /\ f.array = A /\ f.num = t.num /\ f.lists = t.lists
          /\ f.trial = T /\ f.reject = t.reject /\ f.limit = t.limit /\ f.nblk = t.nblk
          /\ f.sibling = t.sibling /\ f.child = t.child
      BY DEF PoolFields, TrieTyped, IsNinfo
    <2> HIDE DEF f, N, L, A, T, H, J
    <2>3. u = [f EXCEPT !.num = N, !.lists = L, !.reject = J]
      BY <2>1, <2>2 DEF N, L
    <2>4. /\ DOMAIN u = DOMAIN t /\ u.array = A /\ u.trial = T /\ u.ehead = t.ehead /\ u.reject = J
          /\ u.num = N /\ u.lists = L
          /\ u.limit = t.limit /\ u.nblk = t.nblk /\ u.sibling = t.sibling /\ u.child = t.child
      BY <2>2, <2>3 DEF PoolFields, TrieTyped, IsNinfo
    <2> QED
      BY <1>2, <2>4, <1>3 DEF H
  <1> QED
    BY <1>1, <1>2

\* _push_enode on a trie: the slot is in its ring again, its chain information
\* is cleared, and the rest of the allocator and every node stand.
THEOREM ReleaseSound ==
    ASSUME NEW R, Spare("chain", R), NEW t, Sound(R, t), NEW e \in Slots,
           Block(e) < t.nblk, t.array[e].check >= 0,
           NEW u, u = Release(t, e)
    PROVE  Sound(R, u) /\ ReleasedAs(t, u, e)
  <1> DEFINE p == PoolOf(t)
             q == PushEnode(p, e)
             w == PushEnode(t, e)
             b == Block(e)
             k == t.num[b] + 1
             h == t.ehead[b]
             z == - t.array[h].check
             A == IF k = 1 THEN [t.array EXCEPT ![e] = Node(-e, -e)]
                  ELSE [t.array EXCEPT ![e] = Node(-h, -z), ![h].check = -e, ![z].base = -e]
             A0 == [t.array EXCEPT ![e] = Node(-h, -z)]
             A1 == [A0 EXCEPT ![h].check = -e, ![z].base = -e]
             T == IF k = 1 THEN t.trial ELSE [t.trial EXCEPT ![b] = 0]
             H == IF k = 1 THEN [t.ehead EXCEPT ![b] = e] ELSE t.ehead
             J == [t.reject EXCEPT ![b] = IF t.reject[b] < t.limit[k] THEN t.limit[k]
                                          ELSE t.reject[b]]
             N == [t.num EXCEPT ![b] = k]
             L == ListsAfterReturn(t.lists, b, k, t.trial[b])
  <1>1. /\ TrieTyped(t) /\ PoolFields \subseteq DOMAIN t
        /\ p \in PoolRec /\ Whole("chain", R, p, t.nblk, t.nblk) /\ p.nblk = t.nblk
        /\ ListsOK(t.lists, t.num, t.trial, t.nblk, t.nblk) /\ t.array[0].check < 0
    BY SoundFacts
  <1>2. /\ p.array = PoolArray(t) /\ p.lists = t.lists /\ p.num = t.num /\ p.trial = t.trial
        /\ p.ehead = t.ehead /\ p.reject = t.reject /\ p.limit = t.limit /\ p.nblk = t.nblk
        /\ \A x \in Slots : /\ t.array[x].check \in Int /\ t.array[x].base \in Int
                            /\ t.array[x].check >= 0 => p.array[x] = Node(-1, 0) /\ p.array[x].check = 0
                            /\ t.array[x].check < 0 => p.array[x] = t.array[x]
                            /\ p.array[x].check < 0 <=> t.array[x].check < 0
    BY <1>1, PoolFacts
  <1>3. /\ DOMAIN w = DOMAIN t /\ w.array = A /\ w.trial = T /\ w.ehead = H /\ w.reject = J
        /\ w.num = N /\ w.lists = L
        /\ w.limit = t.limit /\ w.nblk = t.nblk /\ w.sibling = t.sibling /\ w.child = t.child
    <2>1. /\ DOMAIN w = DOMAIN t /\ w.array = GivenArray(t, e) /\ w.trial = GivenTrial(t, e)
          /\ w.ehead = GivenHeads(t, e) /\ w.reject = GivenReject(t, e)
          /\ w.num = GivenNum(t, e) /\ w.lists = GivenLists(t, e)
          /\ w.limit = t.limit /\ w.nblk = t.nblk /\ w.sibling = t.sibling /\ w.child = t.child
      BY <1>1, PushedAs
    <2>2. /\ A = GivenArray(t, e) /\ T = GivenTrial(t, e) /\ H = GivenHeads(t, e)
          /\ J = GivenReject(t, e) /\ N = GivenNum(t, e) /\ L = GivenLists(t, e)
      BY DEF GivenArray, GivenTrial, GivenHeads, GivenReject, GivenNum, GivenLists
    <2> HIDE DEF p, q, w, A, A0, A1, T, H, J, N, L, b, k, h, z
    <2> QED
      BY <2>1, <2>2
  <1>4. u = [w EXCEPT !.sibling = [@ EXCEPT ![e] = 0], !.child = [@ EXCEPT ![e] = 0]]
    BY DEF Release
  <1> HIDE DEF p, q, w, A, A0, A1, T, H, J, N, L
  <1>5. /\ DOMAIN u = DOMAIN t /\ u.array = A /\ u.trial = T /\ u.ehead = H /\ u.reject = J
        /\ u.num = N /\ u.lists = L /\ u.limit = t.limit /\ u.nblk = t.nblk
        /\ u.sibling = [t.sibling EXCEPT ![e] = 0] /\ u.child = [t.child EXCEPT ![e] = 0]
    BY <1>1, <1>3, <1>4 DEF PoolFields, TrieTyped, IsNinfo
  <1>6. b \in Blocks /\ e # 0 /\ Entered(p, b) /\ p.array[e].check >= 0 /\ b < p.nblk
    <2>1. p.array[e].check >= 0 /\ Block(e) < p.nblk
      BY <1>2
    <2>2. Whole("chain", R, p, p.nblk, p.nblk)
      BY <1>1
    <2> QED
      BY <1>1, <2>1, <2>2, GivenFacts
  <1>7. Whole("chain", R, q, t.nblk, t.nblk) /\ t.num[b] < B
    <2>1. Whole("chain", R, q, q.nblk, q.nblk) /\ p.num[b] < B
      BY <1>1, <1>2, <1>6, PushWhole DEF q
    <2>2. q.nblk = p.nblk
      BY <1>1, <1>6, PushForm DEF q
    <2> QED
      BY <2>1, <2>2, <1>2
  <1>8. /\ q.array = PushedArray(p, e) /\ q.num = PushedNum(p, e) /\ q.ehead = PushedHeads(p, e)
        /\ q.nblk = p.nblk
    BY <1>1, <1>6, PushForm DEF q
  <1>9. t.num[b] \in 0 .. B /\ (k = 1 <=> t.num[b] = 0) /\ k \in 1 .. B
    <2>1. t.num \in [Blocks -> 0 .. B]
      BY <1>1 DEF ListsOK, EntriesOK
    <2> QED
      BY <2>1, <1>6, <1>7, BlockAssumption
  <1>10. k # 1 => /\ h \in Slots /\ z \in Slots /\ h # e /\ z # e /\ z # 0
                  /\ t.array[h].check < 0 /\ t.array[z].check < 0
                  /\ z = - p.array[h].check
    <2> SUFFICES ASSUME k # 1
                 PROVE  /\ h \in Slots /\ z \in Slots /\ h # e /\ z # e /\ z # 0
                        /\ t.array[h].check < 0 /\ t.array[z].check < 0
                        /\ z = - p.array[h].check
      OBVIOUS
    <2>1. h \in Counted(p.array, b) /\ - p.array[h].check \in Emp(p.array, b)
      BY <1>2, <1>6, <1>9 DEF Entered
    <2>2. h \in Slots /\ p.array[h].check < 0
      BY <2>1, <1>6, SlotFacts DEF Counted
    <2>3. t.array[h].check < 0 /\ p.array[h] = t.array[h]
      BY <2>2, <1>2
    <2>4. z \in Emp(p.array, b)
      BY <2>1, <2>3
    <2>5. z \in Slots /\ p.array[z].check < 0 /\ z # 0
      BY <2>4, <1>6, SlotFacts DEF Emp
    <2>6. t.array[z].check < 0
      BY <2>5, <1>2
    <2> QED
      BY <2>2, <2>3, <2>5, <2>6, <1>2
  <1>11. t.array \in [Slots -> [base : Int, check : Int]] /\ -e \in Int /\ e \in Nat
    BY <1>1, SlotFacts DEF TrieTyped
  <1> DEFINE Known == /\ ReleasedAs(t, u, e) /\ A \in [Slots -> [base : Int, check : Int]]
                      /\ \A x \in Slots : PoolArray(u)[x] = PushedArray(p, e)[x]
  <1>12. ASSUME k = 1 PROVE Known
    <2>1. A = [t.array EXCEPT ![e] = Node(-e, -e)]
      BY <1>12 DEF A
    <2>2. /\ A \in [Slots -> [base : Int, check : Int]] /\ A[e] = Node(-e, -e)
          /\ \A x \in Slots : x # e => A[x] = t.array[x]
      BY <1>11, <2>1 DEF Node
    <2>3. A[e].check < 0
      <3>1. A[e].check = -e
        BY <2>2 DEF Node
      <3> QED
        BY <3>1, <1>6, <1>11
    <2>4. SameUse(t, u, e)
      <3>1. 0 \in Slots
        BY SlotRange
      <3> QED
        BY <3>1, <2>2, <1>5, <1>6 DEF SameUse
    <2>5. ReleasedAs(t, u, e)
      <3>1. t.sibling \in [Slots -> Labels] /\ t.child \in [Slots -> Labels]
        BY <1>1 DEF TrieTyped, IsNinfo
      <3> QED
        BY <3>1, <2>3, <2>4, <1>5 DEF ReleasedAs, ZeroAt
    <2>6. \A x \in Slots : PoolArray(u)[x] = PushedArray(p, e)[x]
      <3>1. \A x \in Slots : PoolArray(u)[x] = IF A[x].check >= 0 THEN Node(-1, 0) ELSE A[x]
        BY <1>5 DEF PoolArray
      <3>2. \A x \in Slots : PushedArray(p, e)[x] = IF x = e THEN Node(-e, -e) ELSE p.array[x]
        BY <1>2, <1>9, <1>12 DEF PushedArray
      <3>3. \A x \in Slots : p.array[x] = IF t.array[x].check >= 0 THEN Node(-1, 0) ELSE t.array[x]
        BY <1>2 DEF PoolArray
      <3>4. ~ A[e].check >= 0
        BY <2>2, <2>3
      <3> QED
        BY <3>1, <3>2, <3>3, <3>4, <2>2
    <2>7. A \in [Slots -> [base : Int, check : Int]]
      BY <2>2
    <2> QED
      BY <2>5, <2>6, <2>7
  <1>13. ASSUME k # 1 PROVE Known
    <2>1. A = A1
      BY <1>13 DEF A, A0, A1
    <2>2. /\ A0 \in [Slots -> [base : Int, check : Int]]
          /\ \A x \in Slots : A0[x] = IF x = e THEN Node(-h, -z) ELSE t.array[x]
      <3>1. -h \in Int /\ -z \in Int
        BY <1>10, <1>13, SlotFacts
      <3> HIDE DEF h, z
      <3> QED
        BY <3>1, <1>11 DEF A0, Node
    <2>3. /\ A1 \in [Slots -> [base : Int, check : Int]]
          /\ \A x \in Slots : A1[x] = Node(IF x = z THEN -e ELSE A0[x].base,
                                           IF x = h THEN -e ELSE A0[x].check)
      <3> HIDE DEF h, z, k
      <3> QED
        BY <2>2, <1>10, <1>11, <1>13 DEF A1, Node
    <2>4. A[e] = Node(-h, -z)
      <3> HIDE DEF h, z, k
      <3> QED
        BY <2>1, <2>2, <2>3, <1>10, <1>13 DEF Node
    <2>5. A[e].check < 0
      <3>1. A[e].check = -z
        BY <2>4 DEF Node
      <3>2. z \in Nat /\ z # 0
        BY <1>10, <1>13, SlotFacts
      <3> HIDE DEF z
      <3> QED
        BY <3>1, <3>2
    <2>6. \A x \in Slots : x # e =>
             A[x] = Node(IF x = z THEN -e ELSE t.array[x].base,
                         IF x = h THEN -e ELSE t.array[x].check)
      <3> HIDE DEF h, z
      <3> QED
        BY <2>1, <2>2, <2>3
    <2>7. \A x \in Slots : x # e => /\ A[x].check < 0 <=> t.array[x].check < 0
                                    /\ t.array[x].check >= 0 => A[x] = t.array[x]
      <3> SUFFICES ASSUME NEW x \in Slots, x # e
                   PROVE  /\ A[x].check < 0 <=> t.array[x].check < 0
                          /\ t.array[x].check >= 0 => A[x] = t.array[x]
        OBVIOUS
      <3>1. A[x].check = IF x = h THEN -e ELSE t.array[x].check
        <4> HIDE DEF h, z, k
        <4>1. A[x] = Node(IF x = z THEN -e ELSE t.array[x].base,
                          IF x = h THEN -e ELSE t.array[x].check)
          BY <2>6
        <4> QED
          BY <4>1 DEF Node
      <3>2. -e < 0
        BY <1>6, <1>11
      <3>3. A[x].check < 0 <=> t.array[x].check < 0
        <4> HIDE DEF h, z, k
        <4> QED
          BY <3>1, <3>2, <1>10, <1>13
      <3>4. ASSUME t.array[x].check >= 0 PROVE A[x] = t.array[x]
        <4>1. x # h /\ x # z
          <5> HIDE DEF h, z, k
          <5> QED
            BY <3>4, <1>2, <1>10, <1>13
        <4>2. t.array[x] \in [base : Int, check : Int]
          BY <1>11
        <4>3. t.array[x] = [base |-> t.array[x].base, check |-> t.array[x].check]
          BY <4>2
        <4> QED
          BY <2>6, <4>1, <4>3 DEF Node
      <3> QED
        BY <3>3, <3>4
    <2>8. A[0].base = t.array[0].base
      <3>1. 0 \in Slots /\ 0 # e /\ 0 # z
        BY <1>6, <1>10, <1>13, SlotRange
      <3> HIDE DEF h, z
      <3>2. A[0] = Node(IF 0 = z THEN -e ELSE t.array[0].base, IF 0 = h THEN -e ELSE t.array[0].check)
        BY <3>1, <2>6
      <3> QED
        BY <3>1, <3>2 DEF Node
    <2>9. ReleasedAs(t, u, e)
      <3>1. t.sibling \in [Slots -> Labels] /\ t.child \in [Slots -> Labels]
        BY <1>1 DEF TrieTyped, IsNinfo
      <3>2. SameUse(t, u, e)
        BY <2>7, <2>8, <1>5 DEF SameUse
      <3> QED
        BY <3>1, <3>2, <2>5, <1>5 DEF ReleasedAs, ZeroAt
    <2>10. \A x \in Slots : PoolArray(u)[x] = PushedArray(p, e)[x]
      <3> SUFFICES ASSUME NEW x \in Slots PROVE PoolArray(u)[x] = PushedArray(p, e)[x]
        OBVIOUS
      <3>1. PoolArray(u)[x] = IF A[x].check >= 0 THEN Node(-1, 0) ELSE A[x]
        BY <1>5 DEF PoolArray
      <3>2. PushedArray(p, e)[x] = IF x = e THEN Node(-h, -z)
                                   ELSE Node(IF x = z THEN -e ELSE p.array[x].base,
                                             IF x = h THEN -e ELSE p.array[x].check)
        BY <1>2, <1>9, <1>10, <1>13 DEF PushedArray
      <3>3. CASE x = e
        BY <3>1, <3>2, <3>3, <2>3, <2>1, <2>4, <2>5
      <3>4. CASE x # e /\ t.array[x].check >= 0
        <4>1. PoolArray(u)[x] = Node(-1, 0)
          BY <3>1, <3>4, <2>7
        <4>2. p.array[x] = Node(-1, 0)
          BY <3>4, <1>2
        <4>3. x # h /\ x # z
          <5> HIDE DEF h, z, k
          <5> QED
            BY <3>4, <1>2, <1>10, <1>13
        <4>4. Node(p.array[x].base, p.array[x].check) = Node(-1, 0)
          BY <4>2 DEF Node
        <4> HIDE DEF h, z
        <4> QED
          BY <3>2, <3>4, <4>1, <4>3, <4>4
      <3>5. CASE x # e /\ t.array[x].check < 0
        <4>1. A[x].check < 0 /\ A[x].check \in Int
          BY <3>5, <2>7, <2>3, <2>1
        <4>2. ~ A[x].check >= 0
          BY <4>1
        <4>3. p.array[x] = t.array[x]
          BY <3>5, <1>2
        <4> HIDE DEF h, z
        <4> QED
          BY <3>1, <3>2, <3>5, <4>2, <4>3, <2>6
      <3> QED
        BY <3>3, <3>4, <3>5, <1>2
    <2>11. A \in [Slots -> [base : Int, check : Int]]
      BY <2>1, <2>3
    <2> QED
      BY <2>9, <2>10, <2>11
  <1>14. ReleasedAs(t, u, e) /\ A \in [Slots -> [base : Int, check : Int]]
    BY <1>12, <1>13
  <1>15. PoolArray(u) = q.array
    <2>1. \A x \in Slots : PoolArray(u)[x] = PushedArray(p, e)[x]
      BY <1>12, <1>13
    <2>2. PoolArray(u) = [x \in Slots |-> PoolArray(u)[x]]
      BY DEF PoolArray
    <2>3. PushedArray(p, e) = [x \in Slots |-> PushedArray(p, e)[x]]
      BY DEF PushedArray
    <2> QED
      BY <2>1, <2>2, <2>3, <1>8
  <1>16. TrieTyped(u) /\ PoolFields \subseteq DOMAIN u
    <2>1. t.sibling \in [Slots -> Labels] /\ t.child \in [Slots -> Labels] /\ 0 \in Labels
      BY <1>1, BlockAssumption DEF TrieTyped, IsNinfo, Labels
    <2>2. u.sibling \in [Slots -> Labels] /\ u.child \in [Slots -> Labels]
      BY <2>1, <1>5
    <2> QED
      BY <2>2, <1>1, <1>5, <1>14 DEF TrieTyped, IsNinfo
  <1>17. q.array \in [Slots -> PoolNodes]
    BY <1>1, <1>6, PushFrame DEF q
  <1>18. q.num = u.num /\ q.ehead = u.ehead
    BY <1>2, <1>5, <1>8, <1>9 DEF PushedNum, PushedHeads, N, H
  <1>19. /\ u.ehead \in [Blocks -> Slots] /\ u.reject \in [Blocks -> 0 .. B + 1]
         /\ u.limit \in [0 .. B -> 0 .. B + 1]
    <2>1. /\ t.ehead \in [Blocks -> Slots] /\ t.reject \in [Blocks -> 0 .. B + 1]
          /\ t.limit \in [0 .. B -> 0 .. B + 1]
      BY <1>1, <1>2 DEF PoolRec
    <2>2. t.limit[k] \in 0 .. B + 1
      <3>1. k \in 0 .. B
        BY <1>9
      <3> HIDE DEF k
      <3> QED
        BY <3>1, <2>1
    <2>3. (IF t.reject[b] < t.limit[k] THEN t.limit[k] ELSE t.reject[b]) \in 0 .. B + 1
      BY <2>1, <2>2, <1>6
    <2> QED
      BY <2>1, <2>3, <1>5, <1>6 DEF H, J
  <1>20. ListsOK(u.lists, u.num, u.trial, u.nblk, t.nblk)
    <2>1. ListsOK(L, N, T, t.nblk, t.nblk)
      <3>1. (k = 1 => T = t.trial) /\ (k # 1 => T = [t.trial EXCEPT ![b] = 0])
        BY DEF T
      <3> QED
        BY <3>1, <1>1, <1>2, <1>6, <1>7, ReturnLists DEF L, N
    <2> QED
      BY <2>1, <1>5
  <1>21. SoundTo(R, u, t.nblk, t.nblk)
    <2>1. q.array = PoolArray(u) /\ PoolArray(u) \in [Slots -> PoolNodes] /\ q.nblk = u.nblk
      BY <1>2, <1>5, <1>8, <1>15, <1>17
    <2> QED
      BY <2>1, <1>7, <1>16, <1>18, <1>19, <1>20, SoundFrom
  <1> QED
    BY <1>5, <1>14, <1>21 DEF Sound

-----------------------------------------------------------------------------
(* _find_place.                                                            *)

\* The blocks on the list k.
On(t, k) == MembersOf(t.num, t.trial, t.nblk)[k]

\* A slot _find_place may offer.
Offer(t, e) == e \in Slots /\ Block(e) # 0 /\ Block(e) < t.nblk /\ t.array[e].check < 0

\* What _find_place does to the slots: at most, it adds a block of empty ones.
Kept(t, u) ==
    /\ DOMAIN u = DOMAIN t /\ u.sibling = t.sibling /\ u.child = t.child
    /\ \/ u.nblk = t.nblk /\ u.array = t.array
       \/ /\ u.nblk = t.nblk + 1
          /\ \A x \in Slots : IF Block(x) = t.nblk THEN u.array[x].check < 0
                              ELSE u.array[x] = t.array[x]

\* The empty slots of a trie and of its pool.
LEMMA SameEmpties ==
    ASSUME NEW R, NEW t, Sound(R, t), NEW b \in Blocks
    PROVE  /\ Emp(PoolArray(t), b) = Emp(t.array, b)
           /\ Counted(PoolArray(t), b) = Counted(t.array, b)
           /\ RingAt(PoolOf(t), b) => RingAt(t, b)
           /\ HeadAt(PoolOf(t), b) => HeadAt(t, b)
  <1> DEFINE p == PoolOf(t)
  <1>1. TrieTyped(t) /\ SlotsOf(b) \subseteq Slots
    BY SoundFacts, SlotFacts
  <1>2. /\ p.array = PoolArray(t) /\ p.ehead = t.ehead
        /\ \A x \in Slots : /\ t.array[x].check < 0 => p.array[x] = t.array[x]
                            /\ p.array[x].check < 0 <=> t.array[x].check < 0
    BY <1>1, PoolFacts
  <1> HIDE DEF p
  <1>3. Emp(p.array, b) = Emp(t.array, b) /\ Counted(p.array, b) = Counted(t.array, b)
    BY <1>1, <1>2 DEF Emp, Counted
  <1>4. \A x \in Emp(t.array, b) : /\ Prv(t.array)[x] = Prv(p.array)[x]
                                   /\ Nxt(t.array)[x] = Nxt(p.array)[x]
    BY <1>1, <1>2 DEF Emp, Prv, Nxt
  <1>5. RingAt(p, b) => RingAt(t, b)
    BY <1>3, <1>4, RingFrame DEF RingAt
  <1>6. HeadAt(p, b) => HeadAt(t, b)
    BY <1>2, <1>3 DEF HeadAt
  <1> QED
    BY <1>2, <1>3, <1>5, <1>6 DEF p

\* The blocks of the lists _find_place reads have room.
LEMMA ListedBlocks ==
    ASSUME NEW R, NEW t, Sound(R, t), NEW k \in {"Closed", "Open"}, NEW b \in On(t, k)
    PROVE  /\ b \in Blocks /\ b # 0 /\ b < t.nblk /\ b \in 1 .. t.nblk - 1
           /\ t.num[b] \in 1 .. B
           /\ k = "Open" => t.num[b] >= 2 /\ t.trial[b] < MaxTrial
           /\ Emp(t.array, b) # {} /\ RingAt(t, b) /\ HeadAt(t, b)
  <1> DEFINE p == PoolOf(t)
  <1>1. /\ TrieTyped(t) /\ p \in PoolRec /\ Whole("chain", R, p, p.nblk, p.nblk)
        /\ ListsOK(t.lists, t.num, t.trial, t.nblk, t.nblk) /\ p.nblk = t.nblk
    BY SoundFacts
  <1>2. p.array = PoolArray(t) /\ p.num = t.num
    BY <1>1, PoolFacts
  <1>3. b \in 1 .. t.nblk - 1 /\ Belongs(k, t.num[b], t.trial[b])
    BY DEF On, MembersOf, Kinds
  <1>4. t.nblk \in 1 .. MaxBlocks
    BY <1>1 DEF TrieTyped
  <1>5. b \in Blocks /\ b # 0 /\ b < t.nblk
    BY <1>3, <1>4, BlockAssumption DEF Blocks
  <1>6. t.num[b] \in 0 .. B /\ t.trial[b] \in 0 .. MaxTrial
    BY <1>1, <1>5 DEF ListsOK, EntriesOK
  <1>7. t.num[b] # 0 /\ (k = "Open" => t.num[b] >= 2 /\ t.trial[b] # MaxTrial)
    BY <1>3, <1>6, BlockAssumption DEF Belongs
  <1>8. t.num[b] \in 1 .. B /\ (k = "Open" => t.trial[b] < MaxTrial)
    BY <1>6, <1>7, BlockAssumption
  <1>9. CountAt(p, b) /\ RingAt(p, b) /\ HeadAt(p, b)
    <2> HIDE DEF p
    <2> QED
      BY <1>1, <1>5, WholeAt
  <1>10. Counted(p.array, b) # {}
    <2> HIDE DEF p
    <2> QED
      BY <1>2, <1>5, <1>7, <1>9, CountZero
  <1>11. Counted(t.array, b) # {} /\ RingAt(t, b) /\ HeadAt(t, b)
    BY <1>2, <1>5, <1>9, <1>10, SameEmpties
  <1>12. Emp(t.array, b) # {}
    <2>1. 0 \notin SlotsOf(b)
      BY <1>5, SlotFacts
    <2> QED
      BY <1>11, <2>1 DEF Emp, Counted
  <1> QED
    BY <1>3, <1>5, <1>7, <1>8, <1>11, <1>12

\* The head of a list, if there is one, is on it, and the list is a ring.
LEMMA ListHead ==
    ASSUME NEW R, NEW t, Sound(R, t), NEW k \in {"Closed", "Open"}, t.lists.head[k] # 0
    PROVE  t.lists.head[k] \in On(t, k) /\ IsRing(On(t, k), t.lists.prev, t.lists.next)
  <1>1. ListsHold(t.lists, MembersOf(t.num, t.trial, t.nblk))
    BY SoundFacts DEF ListsOK
  <1> QED
    BY <1>1 DEF ListsHold, On

\* A slot that is offered can be taken.
LEMMA OfferTakeable ==
    ASSUME NEW R, NEW t, NEW e, Offer(t, e)
    PROVE  Takeable(R, t, e)
  <1>1. e # 0
    BY SlotFacts DEF Offer
  <1> QED
    BY <1>1 DEF Offer, Takeable

\* _add_block: the new block is whole and on the Open list.
LEMMA AddSound ==
    ASSUME NEW R, NEW t, Sound(R, t), t.nblk < MaxBlocks, NEW u, u = AddBlock(t)
    PROVE  /\ Sound(R, u) /\ Kept(t, u)
           /\ \A x \in Slots : Block(x) = t.nblk => Offer(u, x)
           /\ t.nblk * B \in Slots /\ Block(t.nblk * B) = t.nblk
  <1> DEFINE p == PoolOf(t)
             q == AddBlock(p)
             b == t.nblk
             H == [t.ehead EXCEPT ![b] = b * B]
             A == [e \in Slots |-> IF e \in SlotsOf(b) THEN FreshNode(b, e) ELSE t.array[e]]
             L == PushBlock(t.lists, b, "Open", B)
  <1>1. /\ TrieTyped(t) /\ PoolFields \subseteq DOMAIN t /\ Fields(p)
        /\ p \in PoolRec /\ Whole("chain", R, p, b, b)
        /\ ListsOK(t.lists, t.num, t.trial, b, b)
    BY SoundFacts DEF Sound, SoundTo
  <1>2. /\ p.array = PoolArray(t) /\ p.num = t.num /\ p.ehead = t.ehead /\ p.nblk = b
        /\ p.lists = t.lists /\ p.reject = t.reject /\ p.limit = t.limit
        /\ \A x \in Slots : t.array[x].check < 0 => p.array[x] = t.array[x]
    BY <1>1, PoolFacts
  <1>3. b \in Blocks /\ b # 0 /\ b \in Nat /\ b + 1 \in 1 .. MaxBlocks
    <2>1. b \in 1 .. MaxBlocks
      BY <1>1 DEF TrieTyped
    <2> QED
      BY <2>1, BlockAssumption DEF Blocks
  <1>4. u = [t EXCEPT !.ehead = H, !.array = A, !.lists = L, !.nblk = b + 1]
    BY DEF AddBlock
  <1> HIDE DEF p, q, H, A, L
  <1>5. /\ DOMAIN u = DOMAIN t /\ u.ehead = H /\ u.array = A /\ u.lists = L /\ u.nblk = b + 1
        /\ u.num = t.num /\ u.trial = t.trial /\ u.reject = t.reject /\ u.limit = t.limit
        /\ u.sibling = t.sibling /\ u.child = t.child
    BY <1>1, <1>4 DEF PoolFields, TrieTyped, IsNinfo
  <1>6. \A x \in Slots : x \in SlotsOf(b) <=> Block(x) = b
    BY <1>3, SlotFacts
  <1>7. \A x \in Slots : A[x] = IF Block(x) = b THEN FreshNode(b, x) ELSE t.array[x]
    BY <1>6 DEF A
  <1>8. \A x \in Slots : Block(x) = b => /\ FreshNode(b, x) \in PoolNodes
                                         /\ FreshNode(b, x).check < 0
    <2>1. \A x \in SlotsOf(b) : A[x] = FreshNode(b, x)
      BY <1>3, <1>6, <1>7, SlotFacts
    <2>2. \A x \in SlotsOf(b) : A[x] \in PoolNodes /\ A[x].check < 0
      BY <1>3, <2>1, FreshRing
    <2> QED
      BY <1>6, <2>1, <2>2
  <1>9. A \in [Slots -> [base : Int, check : Int]]
    <2>1. Links \subseteq Int
      BY SlotRange DEF Links
    <2>2. \A x \in Slots : A[x] \in [base : Int, check : Int]
      <3>1. \A x \in Slots : t.array[x] \in [base : Int, check : Int]
        BY <1>1 DEF TrieTyped
      <3>2. \A z \in PoolNodes : z \in [base : Int, check : Int]
        BY <2>1 DEF PoolNodes
      <3> QED
        BY <3>1, <3>2, <1>7, <1>8
    <2> QED
      BY <2>2 DEF A
  <1>10. Kept(t, u)
    BY <1>5, <1>7, <1>8 DEF Kept
  <1>11. \A x \in Slots : Block(x) = b => Offer(u, x)
    BY <1>3, <1>5, <1>7, <1>8 DEF Offer
  <1>12. b * B \in Slots /\ Block(b * B) = b
    BY <1>3, SlotFacts
  <1>13. /\ \A x \in Slots : q.array[x] = IF Block(x) = b THEN FreshNode(b, x) ELSE p.array[x]
         /\ DOMAIN q.array = Slots
         /\ \A c \in Blocks : q.ehead[c] = IF c = b THEN b * B ELSE p.ehead[c]
         /\ q.nblk = b + 1 /\ q.num = p.num
    BY <1>1, <1>2, AddForm DEF q
  <1>14. Whole("chain", R, q, b + 1, b + 1) /\ q.array \in [Slots -> PoolNodes]
    <2>1. p.num[p.nblk] = B
      BY <1>1, <1>2, <1>3 DEF ListsOK
    <2>2. Whole("chain", R, p, p.nblk, p.nblk) /\ p.nblk < MaxBlocks
      BY <1>1, <1>2
    <2>3. q = AddBlock(p)
      BY DEF q
    <2>4. Whole("chain", R, q, q.nblk, q.nblk) /\ q.array \in [Slots -> PoolNodes]
      BY <2>1, <2>2, <2>3, <1>1, AddWhole
    <2> QED
      BY <2>4, <1>13
  <1>15. q.array = PoolArray(u)
    <2>1. \A x \in Slots : PoolArray(u)[x] = q.array[x]
      <3> SUFFICES ASSUME NEW x \in Slots PROVE PoolArray(u)[x] = q.array[x]
        OBVIOUS
      <3>1. PoolArray(u)[x] = IF A[x].check >= 0 THEN Node(-1, 0) ELSE A[x]
        BY <1>5 DEF PoolArray
      <3>2. CASE Block(x) = b
        <4>1. A[x] = FreshNode(b, x) /\ A[x].check < 0 /\ A[x].check \in Int
          BY <3>2, <1>7, <1>8, <1>9
        <4>2. ~ A[x].check >= 0
          BY <4>1
        <4> QED
          BY <3>1, <3>2, <4>1, <4>2, <1>13
      <3>3. CASE Block(x) # b
        <4>1. A[x] = t.array[x] /\ q.array[x] = p.array[x]
          BY <3>3, <1>7, <1>13
        <4>2. p.array[x] = IF t.array[x].check >= 0 THEN Node(-1, 0) ELSE t.array[x]
          BY <1>2 DEF PoolArray
        <4> QED
          BY <3>1, <4>1, <4>2
      <3> QED
        BY <3>2, <3>3
    <2>2. PoolArray(u) = [x \in Slots |-> PoolArray(u)[x]]
      BY DEF PoolArray
    <2> QED
      BY <2>1, <2>2, <1>14
  <1>16. q.ehead = u.ehead /\ u.ehead \in [Blocks -> Slots]
    <2>1. t.ehead \in [Blocks -> Slots]
      BY <1>1, <1>2 DEF Fields
    <2>2. u.ehead \in [Blocks -> Slots] /\ \A c \in Blocks : u.ehead[c] = IF c = b THEN b * B ELSE t.ehead[c]
      BY <2>1, <1>3, <1>5, <1>12 DEF H
    <2>3. q.ehead \in [Blocks -> Slots]
      <3>1. q.ehead = [p.ehead EXCEPT ![p.nblk] = p.nblk * B]
        <4>1. "ehead" \in DOMAIN p
          BY <1>1 DEF PoolRec
        <4> QED
          BY <4>1, <1>1 DEF q, AddBlock, PoolRec
      <3>2. q.ehead = H
        BY <3>1, <1>2 DEF H
      <3> QED
        BY <3>2, <2>2, <1>5
    <2> QED
      BY <2>2, <2>3, <1>2, <1>13
  <1>17. TrieTyped(u) /\ PoolFields \subseteq DOMAIN u
    BY <1>1, <1>3, <1>5, <1>9 DEF TrieTyped, IsNinfo
  <1>18. ListsOK(u.lists, u.num, u.trial, u.nblk, b + 1)
    BY <1>1, <1>5, AddLists DEF L
  <1>19. SoundTo(R, u, b + 1, b + 1)
    <2>1. u.reject \in [Blocks -> 0 .. B + 1] /\ u.limit \in [0 .. B -> 0 .. B + 1]
      BY <1>1, <1>2, <1>5 DEF Fields
    <2> QED
      BY <2>1, <1>2, <1>5, <1>13, <1>14, <1>15, <1>16, <1>17, <1>18, SoundFrom
  <1> QED
    BY <1>5, <1>10, <1>11, <1>12, <1>19 DEF Sound

\* A trie keeps its own nodes.
LEMMA KeptSame ==
    ASSUME NEW t
    PROVE  Kept(t, t)
  BY DEF Kept

\* _find_place() offers an empty slot outside the root's block.
LEMMA FindSlotSound ==
    ASSUME NEW R, NEW t, Sound(R, t), t.nblk < MaxBlocks, NEW f, f = FindSlot(t)
    PROVE  Sound(R, f.t) /\ Kept(t, f.t) /\ Offer(f.t, f.at)
  <1>1. CASE SinglePlace(t) # 0
    <2>1. f.t = t /\ f.at = SinglePlace(t)
      BY <1>1 DEF FindSlot
    <2>2. PICK k \in {"Closed", "Open"} :
            t.lists.head[k] # 0 /\ SinglePlace(t) = t.ehead[t.lists.head[k]]
      BY <1>1 DEF SinglePlace
    <2> DEFINE b == t.lists.head[k]
    <2>3. b \in On(t, k)
      BY <2>2, ListHead
    <2> HIDE DEF b
    <2>4. b \in Blocks /\ b # 0 /\ b < t.nblk /\ Emp(t.array, b) # {} /\ HeadAt(t, b)
      BY <2>3, ListedBlocks
    <2>5. f.at \in Emp(t.array, b)
      BY <2>1, <2>2, <2>4 DEF HeadAt, b
    <2>6. Offer(t, f.at)
      <3>1. f.at \in SlotsOf(b) /\ t.array[f.at].check < 0
        BY <2>5 DEF Emp
      <3>2. f.at \in Slots /\ Block(f.at) = b
        BY <3>1, <2>4, SlotFacts
      <3> QED
        BY <3>1, <3>2, <2>4 DEF Offer
    <2> QED
      BY <2>1, <2>6, KeptSame
  <1>2. CASE SinglePlace(t) = 0
    <2>1. f = [t |-> AddBlock(t), at |-> t.nblk * B]
      BY <1>2 DEF FindSlot, InNewBlock
    <2>2. f.t = AddBlock(t) /\ f.at = t.nblk * B
      BY <2>1
    <2> QED
      BY <2>2, AddSound
  <1> QED
    BY <1>1, <1>2

\* What the loop of _find_place(first, last) leaves alone.
Alike(t, u) ==
    /\ DOMAIN u = DOMAIN t /\ u.sibling = t.sibling /\ u.child = t.child
    /\ u.array = t.array /\ u.num = t.num /\ u.nblk = t.nblk

\* Heads, rejections and lists may change, as long as they are right.
LEMMA AlikeSound ==
    ASSUME NEW R, NEW t, Sound(R, t), NEW u, Alike(t, u), u.ehead \in [Blocks -> Slots],
           \A b \in 1 .. t.nblk - 1 : HeadAt(u, b), u.ehead[0] = t.ehead[0],
           u.reject \in [Blocks -> 0 .. B + 1], u.limit \in [0 .. B -> 0 .. B + 1],
           ListsOK(u.lists, u.num, u.trial, u.nblk, u.nblk)
    PROVE  Sound(R, u)
  <1> DEFINE p == PoolOf(t)
             q == [p EXCEPT !.ehead = u.ehead]
  <1>1. /\ TrieTyped(t) /\ PoolFields \subseteq DOMAIN t /\ Fields(p)
        /\ Whole("chain", R, p, t.nblk, t.nblk)
    BY DEF Sound, SoundTo
  <1>2. /\ p.array = PoolArray(t) /\ p.num = t.num /\ p.nblk = t.nblk /\ p.ehead = t.ehead
        /\ p \in PoolRec
    BY <1>1, PoolFacts
  <1> HIDE DEF p
  <1>3. /\ q.array = p.array /\ q.num = p.num /\ q.nblk = p.nblk /\ q.ehead = u.ehead
    BY <1>2 DEF PoolRec
  <1> HIDE DEF q
  <1>4. PoolArray(u) = PoolArray(t)
    BY DEF Alike, PoolArray
  <1>5. \A b \in 1 .. t.nblk - 1 : HeadAt(q, b)
    <2> SUFFICES ASSUME NEW b \in 1 .. t.nblk - 1 PROVE HeadAt(q, b)
      OBVIOUS
    <2>1. b \in Blocks
      <3>1. t.nblk \in 1 .. MaxBlocks
        BY <1>1 DEF TrieTyped
      <3> QED
        BY <3>1, BlockAssumption DEF Blocks
    <2>2. Emp(q.array, b) = Emp(u.array, b)
      BY <2>1, <1>2, <1>3, SameEmpties DEF Alike
    <2> QED
      BY <2>2, <1>3 DEF HeadAt
  <1>6. Whole("chain", R, q, t.nblk, t.nblk)
    BY <1>1, <1>2, <1>3, <1>5, HeadsWhole
  <1>7. TrieTyped(u) /\ PoolFields \subseteq DOMAIN u
    BY <1>1 DEF Alike, TrieTyped, IsNinfo
  <1>8. PoolArray(u) \in [Slots -> PoolNodes]
    BY <1>1, <1>2, <1>4 DEF Fields
  <1>9. /\ q.array = PoolArray(u) /\ q.num = u.num /\ q.ehead = u.ehead /\ q.nblk = u.nblk
        /\ u.nblk = t.nblk
    BY <1>2, <1>3, <1>4 DEF Alike
  <1>10. SoundTo(R, u, t.nblk, t.nblk)
    BY <1>6, <1>7, <1>8, <1>9, SoundFrom
  <1> QED
    BY <1>9, <1>10 DEF Sound

\* The loop stops at an empty slot of an Open block: it becomes the head.
LEMMA SettleSound ==
    ASSUME NEW R, NEW t, Sound(R, t), NEW b \in On(t, "Open"), NEW i \in 1 .. t.num[b],
           NEW u, u = SettleIn(t, b, i), NEW e, e = Empties(t, b)[i]
    PROVE  /\ Sound(R, u) /\ Alike(t, u)
           /\ Offer(u, e) /\ Block(e) = b
  <1>1. /\ b \in Blocks /\ b # 0 /\ b < t.nblk /\ t.num[b] \in 1 .. B
        /\ Emp(t.array, b) # {} /\ RingAt(t, b) /\ HeadAt(t, b)
    BY ListedBlocks
  <1>2. e \in Emp(t.array, b)
    <2>1. t.num[b] \in Nat
      BY <1>1, BlockAssumption
    <2> QED
      BY <2>1, <1>1, EmptiesIn
  <1>3. e \in Slots /\ Block(e) = b /\ t.array[e].check < 0
    BY <1>1, <1>2, SlotFacts DEF Emp
  <1> DEFINE H == [t.ehead EXCEPT ![b] = e]
  <1>4. u = [t EXCEPT !.ehead = H]
    BY DEF SettleIn
  <1>5. TrieTyped(t) /\ PoolFields \subseteq DOMAIN t /\ Fields(PoolOf(t))
    BY DEF Sound, SoundTo
  <1>6. /\ t.ehead \in [Blocks -> Slots] /\ t.reject \in [Blocks -> 0 .. B + 1]
        /\ t.limit \in [0 .. B -> 0 .. B + 1]
    BY <1>5, PoolFacts DEF Fields
  <1>7. H \in [Blocks -> Slots] /\ H[b] = e /\ \A c \in Blocks : c # b => H[c] = t.ehead[c]
    BY <1>1, <1>3, <1>6
  <1> HIDE DEF H
  <1>8. /\ Alike(t, u) /\ u.ehead = H /\ u.reject = t.reject /\ u.limit = t.limit
        /\ u.lists = t.lists /\ u.trial = t.trial
    BY <1>4, <1>5 DEF Alike, PoolFields, TrieTyped, IsNinfo
  <1>9. \A c \in 1 .. t.nblk - 1 : HeadAt(u, c)
    <2> SUFFICES ASSUME NEW c \in 1 .. t.nblk - 1 PROVE HeadAt(u, c)
      OBVIOUS
    <2>1. CASE c = b
      BY <2>1, <1>2, <1>7, <1>8 DEF HeadAt, Alike
    <2>2. CASE c # b
      <3>1. t.nblk \in 1 .. MaxBlocks
        BY <1>5 DEF TrieTyped
      <3>2. c \in Blocks
        BY <3>1, BlockAssumption DEF Blocks
      <3>3. HeadAt(PoolOf(t), c)
        BY DEF Sound, SoundTo, Whole
      <3>4. HeadAt(t, c)
        BY <3>2, <3>3, SameEmpties
      <3> QED
        BY <2>2, <3>2, <3>4, <1>7, <1>8 DEF HeadAt, Alike
    <2> QED
      BY <2>1, <2>2
  <1>10. ListsOK(u.lists, u.num, u.trial, u.nblk, u.nblk)
    BY <1>8, SoundFacts DEF Alike
  <1>11. u.ehead[0] = t.ehead[0]
    BY <1>1, <1>7, <1>8, SlotFacts
  <1>12. Sound(R, u)
    BY <1>6, <1>7, <1>8, <1>9, <1>10, <1>11, AlikeSound
  <1> QED
    BY <1>1, <1>3, <1>8, <1>12 DEF Offer, Alike

\* The loop rejects a block, which may close it.
LEMMA RejectSound ==
    ASSUME NEW R, NEW t, Sound(R, t), NEW b \in On(t, "Open"), NEW nc \in 2 .. B,
           NEW u, u = RejectIn(t, b, nc)
    PROVE  /\ Sound(R, u) /\ Alike(t, u)
           /\ u.trial = [t.trial EXCEPT ![b] = t.trial[b] + 1]
           /\ \/ u.lists = t.lists
              \/ u.lists = TransferBlock(t.lists, b, "Open", "Closed", t.num[b])
  <1> DEFINE y == t.trial[b] + 1
             n == t.num[b]
             J == [t.reject EXCEPT ![b] = nc]
             M == [t.limit EXCEPT ![n] = IF nc < t.limit[n] THEN nc ELSE t.limit[n]]
             T == [t.trial EXCEPT ![b] = y]
             L == IF y = MaxTrial THEN TransferBlock(t.lists, b, "Open", "Closed", n)
                  ELSE t.lists
  <1>1. /\ b \in Blocks /\ b # 0 /\ b \in 1 .. t.nblk - 1 /\ n \in 1 .. B /\ n >= 2
        /\ t.trial[b] < MaxTrial
    BY ListedBlocks
  <1>2. u = [t EXCEPT !.reject = J, !.limit = M, !.trial = T, !.lists = L]
    BY DEF RejectIn
  <1>3. TrieTyped(t) /\ PoolFields \subseteq DOMAIN t /\ Fields(PoolOf(t))
    BY DEF Sound, SoundTo
  <1>4. /\ t.ehead \in [Blocks -> Slots] /\ t.reject \in [Blocks -> 0 .. B + 1]
        /\ t.limit \in [0 .. B -> 0 .. B + 1]
    BY <1>3, PoolFacts DEF Fields
  <1>5. J \in [Blocks -> 0 .. B + 1] /\ M \in [0 .. B -> 0 .. B + 1]
    <2>1. n \in 0 .. B /\ nc \in 0 .. B + 1
      BY <1>1, BlockAssumption
    <2> HIDE DEF n
    <2>2. (IF nc < t.limit[n] THEN nc ELSE t.limit[n]) \in 0 .. B + 1
      BY <2>1, <1>4
    <2> QED
      BY <2>1, <2>2, <1>1, <1>4
  <1> HIDE DEF J, M, T, L
  <1>6. /\ Alike(t, u) /\ u.ehead = t.ehead /\ u.reject = J /\ u.limit = M
        /\ u.lists = L /\ u.trial = T
    BY <1>2, <1>3 DEF Alike, PoolFields, TrieTyped, IsNinfo
  <1>7. \A c \in 1 .. t.nblk - 1 : HeadAt(u, c)
    <2> SUFFICES ASSUME NEW c \in 1 .. t.nblk - 1 PROVE HeadAt(u, c)
      OBVIOUS
    <2>1. t.nblk \in 1 .. MaxBlocks
      BY <1>3 DEF TrieTyped
    <2>2. c \in Blocks
      BY <2>1, BlockAssumption DEF Blocks
    <2>3. HeadAt(PoolOf(t), c)
      BY DEF Sound, SoundTo, Whole
    <2>4. HeadAt(t, c)
      BY <2>2, <2>3, SameEmpties
    <2> QED
      BY <2>4, <1>6 DEF HeadAt, Alike
  <1>8. ListsOK(u.lists, u.num, u.trial, u.nblk, u.nblk)
    <2>1. ListsOK(t.lists, t.num, t.trial, t.nblk, t.nblk)
      BY SoundFacts
    <2>2. ListsOK(L, t.num, T, t.nblk, t.nblk)
      BY <2>1, <1>1, RejectLists DEF L, T
    <2> QED
      BY <2>2, <1>6 DEF Alike
  <1>9. Sound(R, u)
    BY <1>4, <1>5, <1>6, <1>7, <1>8, AlikeSound
  <1> QED
    BY <1>6, <1>9 DEF T, L

\* The loop is at block b and ends at block z: every block from b on is Open.
OnRound(t, b, z) ==
    \E T \in SUBSET On(t, "Open") :
       b \in T /\ z \in T /\ \A x \in T \ {z} : t.lists.next[x] \in T \ {b}

\* The slots of the labels when the first of them is at e.
AllOffered(t, e, labels) ==
    \A j \in DOMAIN labels : Offer(t, Xor(Xor(e, labels[1]), labels[j]))

\* What holds at the start of a round of the loop.
InLoop(R, t, r, z, labels) ==
    /\ Sound(R, r.t) /\ Alike(t, r.t)
    /\ r.at # 0 => r.block = 0 /\ Offer(r.t, r.at) /\ AllOffered(r.t, r.at, labels)
    /\ r.block # 0 => OnRound(r.t, r.block, z)

\* Rejecting the block of this round, what is left to look at follows on: the
\* next block is read before the transfer, and still Open after it.
LEMMA RoundOn ==
    ASSUME NEW R, NEW t, Sound(R, t), NEW b, NEW z, b # z, OnRound(t, b, z), NEW nc \in 2 .. B,
           NEW u, u = RejectIn(t, b, nc)
    PROVE  OnRound(u, t.lists.next[b], z)
  <1> DEFINE L == t.lists
             M == MembersOf(t.num, t.trial, t.nblk)
  <1>1. PICK T \in SUBSET On(t, "Open") :
           b \in T /\ z \in T /\ \A x \in T \ {z} : L.next[x] \in T \ {b}
    BY DEF OnRound
  <1>2. /\ ListsOK(L, t.num, t.trial, t.nblk, t.nblk) /\ TrieTyped(t)
    BY SoundFacts
  <1>3. /\ L \in ListRec /\ M \in Listing /\ ListsHold(L, M)
        /\ t.num \in [Blocks -> 0 .. B] /\ t.trial \in [Blocks -> 0 .. MaxTrial]
    <2>1. t.nblk \in 0 .. MaxBlocks
      BY <1>2, BlockAssumption DEF TrieTyped
    <2> QED
      BY <2>1, <1>2, MembersListing DEF ListsOK, EntriesOK
  <1>4. M["Open"] = On(t, "Open")
    BY DEF On
  <1>5. IsRing(M["Open"], L.prev, L.next)
    <2>1. M["Open"] # {}
      BY <1>1, <1>4
    <2> HIDE DEF M
    <2> QED
      BY <2>1, <1>3 DEF ListsHold
  <1>6. b \in Blocks /\ t.num[b] \in Nat
    <2>1. b \in Blocks /\ t.num[b] \in 1 .. B
      BY <1>1, ListedBlocks
    <2> QED
      BY <2>1, BlockAssumption
  <1>7. /\ u.num = t.num /\ u.nblk = t.nblk
        /\ u.trial = [t.trial EXCEPT ![b] = t.trial[b] + 1]
        /\ \/ u.lists = L
           \/ u.lists = TransferBlock(L, b, "Open", "Closed", t.num[b])
    BY <1>1, RejectSound DEF Alike
  <1> DEFINE S == T \ {b}
  <1>8. L.next[b] \in S /\ z \in S
    BY <1>1
  <1>9. S \subseteq On(u, "Open")
    <2> SUFFICES ASSUME NEW x \in T, x # b PROVE x \in On(u, "Open")
      OBVIOUS
    <2>1. x \in 1 .. t.nblk - 1 /\ Belongs("Open", t.num[x], t.trial[x])
      BY <1>1 DEF On, MembersOf, Kinds
    <2>2. u.trial[x] = t.trial[x]
      <3>1. x \in Blocks
        BY <1>1, ListedBlocks
      <3> QED
        BY <3>1, <1>3, <1>7
    <2> QED
      BY <2>1, <2>2, <1>7 DEF On, MembersOf, Kinds
  <1>10. ASSUME NEW x \in S \ {z}
         PROVE  u.lists.next[x] \in S \ {L.next[b]}
    <2>1. x \in M["Open"] /\ b \in M["Open"] /\ x # b /\ L.next[x] # b /\ L.next[x] \in T
      BY <1>1, <1>4, <1>10
    <2> HIDE DEF M
    <2>2. L.next[x] # L.next[b]
      <3>1. L.prev[L.next[x]] = x /\ L.prev[L.next[b]] = b
        BY <1>5, <2>1 DEF IsRing
      <3> QED
        BY <3>1, <2>1
    <2> HIDE DEF L
    <2>3. u.lists.next[x] = L.next[x]
      <3>1. CASE u.lists = L
        BY <3>1
      <3>2. CASE u.lists = TransferBlock(L, b, "Open", "Closed", t.num[b])
        BY <3>2, <2>1, <1>3, <1>6, TransferNext
      <3> QED
        BY <3>1, <3>2, <1>7
    <2> QED
      BY <2>1, <2>2, <2>3
  <1> HIDE DEF S, L
  <1>11. /\ S \in SUBSET On(u, "Open") /\ L.next[b] \in S /\ z \in S
         /\ \A x \in S \ {z} : u.lists.next[x] \in S \ {L.next[b]}
    BY <1>8, <1>9, <1>10
  <1>12. OnRound(u, L.next[b], z)
    BY <1>11 DEF OnRound
  <1> QED
    BY <1>12 DEF L

\* One round of the loop.
LEMMA RoundSound ==
    ASSUME NEW R, NEW t, NEW r, NEW z, NEW labels \in Seq(Labels), Len(labels) \in 2 .. B,
           InLoop(R, t, r, z, labels), r.block # 0,
           NEW s, s = FindRound(r, Places(r.t, r.block, labels), labels, z)
    PROVE  InLoop(R, t, s, z, labels)
  <1> DEFINE b == r.block
             places == Places(r.t, b, labels)
             i == CHOOSE x \in places : \A y \in places : x <= y
             e == Empties(r.t, b)[i]
  <1>1. Sound(R, r.t) /\ Alike(t, r.t) /\ OnRound(r.t, b, z)
    BY DEF InLoop
  <1>2. b \in On(r.t, "Open")
    BY <1>1 DEF OnRound
  <1>3. \A v : Alike(r.t, v) => Alike(t, v)
    BY <1>1 DEF Alike
  <1>4. CASE places # {}
    <2>1. s = [t |-> SettleIn(r.t, b, i), block |-> 0, at |-> e]
      BY <1>4 DEF FindRound
    <2>2. i \in 1 .. r.t.num[b] /\ Fits(r.t, e, labels)
      <3>1. places = {x \in 1 .. r.t.num[b] : Fits(r.t, Empties(r.t, b)[x], labels)}
        BY <1>4 DEF Places
      <3>2. places \in SUBSET Nat
        BY <3>1
      <3> HIDE DEF places
      <3>3. PICK m \in places : \A y \in places : m <= y
        BY <1>4, <3>2, Least
      <3>4. i \in places
        BY <3>3
      <3> HIDE DEF i
      <3> QED
        BY <3>1, <3>4
    <2> HIDE DEF i, places
    <2>3. s.t = SettleIn(r.t, b, i) /\ s.block = 0 /\ s.at = e
      BY <2>1
    <2>4. Sound(R, s.t) /\ Alike(r.t, s.t) /\ Offer(s.t, e) /\ Block(e) = b
      BY <1>1, <1>2, <2>2, <2>3, SettleSound
    <2> HIDE DEF e
    <2>5. AllOffered(s.t, e, labels)
      <3> SUFFICES ASSUME NEW j \in DOMAIN labels
                   PROVE  Offer(s.t, Xor(Xor(e, labels[1]), labels[j]))
        BY DEF AllOffered
      <3> DEFINE x == Xor(Xor(e, labels[1]), labels[j])
      <3>1. labels[1] \in Labels /\ labels[j] \in Labels /\ e \in Slots
        BY <2>4 DEF Offer
      <3>2. /\ Xor(e, labels[1]) \in Slots /\ Block(Xor(e, labels[1])) = Block(e)
            /\ Xor(Xor(e, labels[1]), labels[1]) = e
        BY <3>1, XorAssumption
      <3>3. x \in Slots /\ Block(x) = Block(e)
        BY <3>1, <3>2, XorAssumption
      <3>4. CASE j = 1
        BY <3>4, <3>2, <2>4
      <3>5. CASE j # 1
        <4>1. j \in 2 .. Len(labels)
          BY <3>5
        <4>2. r.t.array[x].check < 0
          BY <4>1, <2>2 DEF Fits
        <4> HIDE DEF x
        <4>3. Offer(s.t, x)
          BY <4>2, <3>3, <2>4 DEF Offer, Alike
        <4> QED
          BY <4>3 DEF x
      <3> QED
        BY <3>4, <3>5
    <2> QED
      BY <2>3, <2>4, <2>5, <1>3 DEF InLoop
  <1>5. CASE places = {}
    <2>1. s = [t |-> RejectIn(r.t, b, Len(labels)), at |-> 0,
               block |-> IF b = z THEN 0 ELSE r.t.lists.next[b]]
      BY <1>5 DEF FindRound
    <2> HIDE DEF places, b
    <2>2. /\ s.t = RejectIn(r.t, b, Len(labels)) /\ s.at = 0
          /\ s.block = IF b = z THEN 0 ELSE r.t.lists.next[b]
      BY <2>1
    <2>3. Sound(R, s.t) /\ Alike(r.t, s.t)
      <3> DEFINE nc == Len(labels)
                 v == s.t
                 w == r.t
      <3>1. nc \in 2 .. B /\ v = RejectIn(w, b, nc) /\ Sound(R, w) /\ b \in On(w, "Open")
        BY <1>1, <1>2, <2>2
      <3> HIDE DEF nc, v, w
      <3>2. Sound(R, v) /\ Alike(w, v)
        BY <3>1, RejectSound
      <3> QED
        BY <3>2 DEF v, w
    <2>4. s.block # 0 => OnRound(s.t, s.block, z)
      BY <1>1, <2>2, RoundOn
    <2> QED
      BY <2>2, <2>3, <2>4, <1>3 DEF InLoop
  <1> QED
    BY <1>4, <1>5

\* A new block offers the slots of any labels.
LEMMA NewBlockOffers ==
    ASSUME NEW R, NEW t, Sound(R, t), t.nblk < MaxBlocks,
           NEW labels \in Seq(Labels), Len(labels) \in 2 .. B, NEW f, f = InNewBlock(t)
    PROVE  Sound(R, f.t) /\ Kept(t, f.t) /\ Offer(f.t, f.at) /\ AllOffered(f.t, f.at, labels)
  <1>1. f.t = AddBlock(t) /\ f.at = t.nblk * B
    BY DEF InNewBlock
  <1> DEFINE e == f.at
             u == f.t
  <1>2. /\ Sound(R, u) /\ Kept(t, u) /\ \A x \in Slots : Block(x) = t.nblk => Offer(u, x)
        /\ e \in Slots /\ Block(e) = t.nblk
    BY <1>1, AddSound
  <1> HIDE DEF e, u
  <1>3. ASSUME NEW j \in DOMAIN labels
        PROVE  Offer(u, Xor(Xor(e, labels[1]), labels[j]))
    <2>1. labels[1] \in Labels /\ labels[j] \in Labels
      OBVIOUS
    <2>2. Xor(e, labels[1]) \in Slots /\ Block(Xor(e, labels[1])) = Block(e)
      BY <1>2, <2>1, XorAssumption
    <2>3. /\ Xor(Xor(e, labels[1]), labels[j]) \in Slots
          /\ Block(Xor(Xor(e, labels[1]), labels[j])) = Block(Xor(e, labels[1]))
      BY <2>1, <2>2, XorAssumption
    <2> QED
      BY <1>2, <2>2, <2>3
  <1>4. Sound(R, u) /\ Kept(t, u) /\ Offer(u, e) /\ AllOffered(u, e, labels)
    BY <1>2, <1>3 DEF AllOffered
  <1> QED
    BY <1>4 DEF e, u

\* _find_place(first, last), whatever the lists hold and however many blocks
\* it rejects on its way, offers a slot at which every label finds an empty one
\* outside the root's block; the slots in use are as they were.
THEOREM FindSlotsSound ==
    ASSUME NEW R, NEW t, Sound(R, t), t.nblk < MaxBlocks,
           NEW labels \in Seq(Labels), Len(labels) \in 2 .. B, NEW f, f = FindSlots(t, labels)
    PROVE  Sound(R, f.t) /\ Kept(t, f.t) /\ Offer(f.t, f.at) /\ AllOffered(f.t, f.at, labels)
  <1> DEFINE open == t.lists.head["Open"]
             z == t.lists.prev[open]
             Next1(r) == IF r.block = 0 THEN r
                         ELSE FindRound(r, Places(r.t, r.block, labels), labels, z)
             r0 == [t |-> t, block |-> open, at |-> 0]
             Step(g, i) == IF i = 0 THEN r0 ELSE Next1(g[i - 1])
             Good(g, n) == g = [i \in 0 .. n |-> Step(g, i)]
             Bad == {n \in Nat : ~ \E g : Good(g, n)}
  <1>1. Bad = {}
    <2> SUFFICES ASSUME Bad # {} PROVE FALSE
      OBVIOUS
    <2> HIDE DEF Next1, r0
    <2>1. Bad \in SUBSET Nat
      OBVIOUS
    <2> HIDE DEF Bad
    <2>2. PICK m \in Bad : \A x \in Bad : m <= x
      BY <2>1, Least
    <2>3. m \in Nat /\ ~ \E g : Good(g, m)
      BY DEF Bad
    <2>4. CASE m = 0
      <3> DEFINE g == [i \in 0 .. 0 |-> r0]
      <3>1. Good(g, 0)
        BY DEF g
      <3> QED
        BY <3>1, <2>3, <2>4
    <2>5. CASE m # 0
      <3>1. m - 1 \in Nat /\ m - 1 \notin Bad
        BY <2>2, <2>3, <2>5
      <3>2. PICK h : Good(h, m - 1)
        BY <3>1 DEF Bad
      <3> DEFINE g == [i \in 0 .. m |-> Step(h, i)]
      <3>3. ASSUME NEW i \in 0 .. m PROVE Step(g, i) = Step(h, i)
        <4>1. CASE i = 0
          BY <4>1
        <4>2. CASE i # 0
          <5>1. i - 1 \in 0 .. m /\ i - 1 \in 0 .. m - 1
            BY <4>2, <2>3
          <5>2. g[i - 1] = Step(h, i - 1)
            BY <5>1
          <5>3. h[i - 1] = Step(h, i - 1)
            <6> HIDE DEF Step
            <6> QED
              BY <5>1, <3>2
          <5> HIDE DEF g
          <5> QED
            BY <4>2, <5>2, <5>3
        <4> QED
          BY <4>1, <4>2
      <3>4. Good(g, m)
        <4> HIDE DEF Step
        <4> QED
          BY <3>3
      <3> QED
        BY <3>4, <2>3
    <2> QED
      BY <2>4, <2>5
  <1>2. t.nblk \in 1 .. MaxBlocks /\ t.nblk \in Nat
    BY SoundFacts, BlockAssumption DEF TrieTyped
  <1>3. \E g : Good(g, t.nblk)
    BY <1>1, <1>2
  <1>4. PICK g : Good(g, t.nblk) /\ FindSlots(t, labels) = OrInNewBlock(g[t.nblk])
    BY <1>3 DEF FindSlots
  <1>5. InLoop(R, t, r0, z, labels)
    <2>1. r0.t = t /\ r0.block = open /\ r0.at = 0
      OBVIOUS
    <2>2. ASSUME open # 0 PROVE OnRound(t, open, z)
      <3> DEFINE T == On(t, "Open")
      <3>1. open \in T /\ IsRing(T, t.lists.prev, t.lists.next)
        BY <2>2, ListHead
      <3> HIDE DEF T, open
      <3>2. z \in T /\ \A x \in T \ {z} : t.lists.next[x] \in T \ {open}
        BY <3>1 DEF IsRing
      <3> HIDE DEF z
      <3> QED
        BY <3>1, <3>2 DEF OnRound, T
    <2> HIDE DEF r0, z, open
    <2> QED
      BY <2>1, <2>2 DEF InLoop, Alike
  <1> HIDE DEF r0, z
  <1>6. g[0] = r0 /\ \A i \in 1 .. t.nblk : g[i] = Next1(g[i - 1])
    BY <1>2, <1>4
  <1> DEFINE Out == {i \in 0 .. t.nblk : ~ InLoop(R, t, g[i], z, labels)}
  <1>7. Out = {}
    <2> SUFFICES ASSUME Out # {} PROVE FALSE
      OBVIOUS
    <2>1. Out \in SUBSET Nat
      OBVIOUS
    <2> HIDE DEF Out
    <2>2. PICK m \in Out : \A x \in Out : m <= x
      BY <2>1, Least
    <2>3. m \in 0 .. t.nblk /\ ~ InLoop(R, t, g[m], z, labels)
      BY DEF Out
    <2>4. m # 0
      BY <2>3, <1>5, <1>6
    <2>5. m - 1 \in 0 .. t.nblk /\ m - 1 \notin Out /\ m \in 1 .. t.nblk
      BY <1>2, <2>2, <2>3, <2>4
    <2> DEFINE r == g[m - 1]
               s == g[m]
    <2>6. InLoop(R, t, r, z, labels) /\ s = Next1(r)
      BY <2>5, <1>6 DEF Out
    <2> HIDE DEF r, s
    <2>7. InLoop(R, t, s, z, labels)
      BY <2>6, RoundSound
    <2> QED
      BY <2>3, <2>7 DEF s
  <1> DEFINE r == g[t.nblk]
  <1>8. InLoop(R, t, r, z, labels)
    BY <1>2, <1>7
  <1> HIDE DEF r
  <1>9. f = OrInNewBlock(r)
    BY <1>4 DEF r
  <1>10. \A u : Kept(r.t, u) => Kept(t, u)
    BY <1>8 DEF InLoop, Alike, Kept
  <1>11. CASE r.at # 0
    <2>1. f = r
      BY <1>9, <1>11 DEF OrInNewBlock
    <2> QED
      BY <2>1, <1>8, <1>10, <1>11, KeptSame DEF InLoop
  <1>12. CASE r.at = 0
    <2> DEFINE w == r.t
    <2>1. f = InNewBlock(w) /\ Sound(R, w) /\ w.nblk < MaxBlocks
      BY <1>8, <1>9, <1>12 DEF OrInNewBlock, InLoop, Alike
    <2> HIDE DEF w
    <2>2. Sound(R, f.t) /\ Kept(w, f.t) /\ Offer(f.t, f.at) /\ AllOffered(f.t, f.at, labels)
      BY <2>1, NewBlockOffers
    <2> QED
      BY <2>2, <1>10 DEF w
  <1> QED
    BY <1>11, <1>12

\* What is written in the slots in use does not concern the pool.
WrittenIn(t, u) ==
    /\ PoolFields \subseteq DOMAIN u /\ u.nblk = t.nblk /\ u.num = t.num /\ u.ehead = t.ehead
    /\ u.lists = t.lists /\ u.trial = t.trial /\ u.reject = t.reject /\ u.limit = t.limit
    /\ \A x \in Slots : IF t.array[x].check < 0 THEN u.array[x] = t.array[x]
                        ELSE u.array[x].check >= 0

\* Writing to slots in use leaves the allocator as it is.
LEMMA WriteSound ==
    ASSUME NEW R, NEW t, Sound(R, t), NEW u, TrieTyped(u), WrittenIn(t, u)
    PROVE  Sound(R, u)
  <1> DEFINE p == PoolOf(t)
  <1>1. /\ TrieTyped(t) /\ Fields(p) /\ Whole("chain", R, p, t.nblk, t.nblk)
        /\ ListsOK(t.lists, t.num, t.trial, t.nblk, t.nblk)
    BY DEF Sound, SoundTo
  <1>2. /\ p.array = PoolArray(t) /\ p.num = t.num /\ p.nblk = t.nblk /\ p.ehead = t.ehead
        /\ p.reject = t.reject /\ p.limit = t.limit
    BY <1>1, PoolFacts
  <1> HIDE DEF p
  <1>3. PoolArray(u) = PoolArray(t)
    <2>1. ASSUME NEW x \in Slots
          PROVE  (IF u.array[x].check >= 0 THEN Node(-1, 0) ELSE u.array[x])
                    = IF t.array[x].check >= 0 THEN Node(-1, 0) ELSE t.array[x]
      <3>1. t.array[x].check \in Int
        BY <1>1 DEF TrieTyped
      <3>2. CASE t.array[x].check < 0
        <4>1. ~ t.array[x].check >= 0 /\ u.array[x] = t.array[x]
          BY <3>1, <3>2 DEF WrittenIn
        <4> QED
          BY <4>1
      <3>3. CASE ~ t.array[x].check < 0
        BY <3>1, <3>3 DEF WrittenIn
      <3> QED
        BY <3>2, <3>3
    <2> QED
      BY <2>1 DEF PoolArray
  <1>4. SoundTo(R, u, t.nblk, t.nblk)
    BY <1>1, <1>2, <1>3, SoundFrom DEF WrittenIn, Fields
  <1> QED
    BY <1>4 DEF Sound, WrittenIn
=============================================================================
