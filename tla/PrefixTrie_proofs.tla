------------------------- MODULE PrefixTrie_proofs -------------------------
(***************************************************************************)
(* The trie of cedar.h holds its map: update adds a value to it, erase     *)
(* takes a key from it, and open, _restore_ninfo and _restore_block lose   *)
(* nothing.  From that, for every set of keys: _find answers what the map  *)
(* does, no slot in use is without its key, and the chains agree with the  *)
(* array.  What _follow, _resolve, erase and the restorations do to a tree *)
(* is taken from TreeLemmas.                                               *)
(***************************************************************************)
EXTENDS PrefixTrie, TreeLemmas

-----------------------------------------------------------------------------
(* The tree of a map.                                                      *)

\* What the tree of a map holds: an inner node for every beginning of a key, and
\* a terminal with the value of each.
EndOf(m, k) == <<Ended(k), FALSE, m[k]>>
KeyTree(m) ==
    {InnerOf(p) : p \in UNION {Prefixes(k) : k \in DOMAIN m}} \cup {EndOf(m, k) : k \in DOMAIN m}

\* A map from keys to values.
IsMap(m) == DOMAIN m \subseteq {k \in Seq(Labels \ {0}) : IsKey(k)} /\ \A k \in DOMAIN m : m[k] \in Nat

\* The beginnings of a key.
LEMMA PrefixForm ==
    ASSUME NEW k, IsKey(k), NEW p
    PROVE  /\ p \in Prefixes(k) <=> \E i \in 1 .. Len(k) : p = Cut(k, i)
           /\ p \in Prefixes(k) => IsKey(p) /\ p \in Seq(Labels) /\ Len(p) <= Len(k)
  <1>1. p \in Prefixes(k) <=> \E i \in 1 .. Len(k) : p = Cut(k, i)
    BY DEF Prefixes, Cut
  <1>2. ASSUME p \in Prefixes(k) PROVE IsKey(p) /\ p \in Seq(Labels) /\ Len(p) <= Len(k)
    <2>1. PICK i \in 1 .. Len(k) : p = Cut(k, i)
      BY <1>1, <1>2
    <2>2. k \in Seq(Labels) /\ Len(k) \in Nat /\ i \in 0 .. Len(k) /\ i >= 1
      BY EndedFacts
    <2>3. p \in Seq(Labels) /\ Len(p) = i /\ \A j \in 1 .. i : p[j] = k[j]
      BY <2>1, <2>2, CutFacts
    <2>4. \A j \in 1 .. i : p[j] \in Labels \ {0}
      BY <2>2, <2>3, EndedFacts
    <2>5. p \in Seq(Labels \ {0})
      BY <2>3, <2>4
    <2> QED
      BY <2>2, <2>3, <2>5 DEF IsKey
  <1> QED
    BY <1>1, <1>2

\* What is named after a beginning of a path is an inner node, and what is
\* named after a longer one stands below it.
Grown(C, path) ==
    /\ \A x \in C : x[1] # <<>>
    /\ \A i \in 1 .. Len(path) - 1 :
         /\ \A x \in C : x[1] = Cut(path, i) => x = InnerOf(Cut(path, i))
         /\ (\E x \in C : x[1] = Cut(path, i + 1)) => \E x \in C : x[1] = Cut(path, i)

\* The nodes of the tree of a map.
LEMMA TreeForm ==
    ASSUME NEW m, IsMap(m), NEW x \in KeyTree(m)
    PROVE  \/ \E k \in DOMAIN m : IsKey(k) /\ \E i \in 1 .. Len(k) : x = InnerOf(Cut(k, i))
           \/ \E k \in DOMAIN m : IsKey(k) /\ x = EndOf(m, k)
  <1>1. \A k \in DOMAIN m : IsKey(k)
    BY DEF IsMap
  <1>2. CASE \E k \in DOMAIN m : x = EndOf(m, k)
    BY <1>1, <1>2
  <1>3. CASE \E p \in UNION {Prefixes(k) : k \in DOMAIN m} : x = InnerOf(p)
    <2>1. PICK k \in DOMAIN m : \E p \in Prefixes(k) : x = InnerOf(p)
      BY <1>3
    <2> QED
      BY <2>1, <1>1, PrefixForm
  <1> QED
    BY <1>2, <1>3 DEF KeyTree

\* The tree of a map has every beginning of its keys.
LEMMA TreeHas ==
    ASSUME NEW m, IsMap(m), NEW k \in DOMAIN m
    PROVE  /\ IsKey(k) /\ EndOf(m, k) \in KeyTree(m)
           /\ \A i \in 1 .. Len(k) : InnerOf(Cut(k, i)) \in KeyTree(m)
  <1>1. IsKey(k)
    BY DEF IsMap
  <1>2. \A i \in 1 .. Len(k) : Cut(k, i) \in Prefixes(k)
    BY <1>1, PrefixForm
  <1> QED
    BY <1>1, <1>2 DEF KeyTree

\* In the tree of a map, every path of a key can be followed.
LEMMA TreeGrown ==
    ASSUME NEW m, IsMap(m), NEW k, IsKey(k)
    PROVE  Grown(KeyTree(m), Ended(k))
  <1> DEFINE path == Ended(k)
  <1>1. /\ path \in Seq(Labels) /\ Len(path) = Len(k) + 1 /\ Len(k) \in Nat
        /\ \A i \in 1 .. Len(k) : path[i] # 0
    BY EndedFacts
  <1> HIDE DEF path
  <1>2. ASSUME NEW x \in KeyTree(m) PROVE x[1] # <<>>
    <2>1. CASE \E l \in DOMAIN m : IsKey(l) /\ \E i \in 1 .. Len(l) : x = InnerOf(Cut(l, i))
      <3>1. PICK l \in DOMAIN m : IsKey(l) /\ \E i \in 1 .. Len(l) : x = InnerOf(Cut(l, i))
        BY <2>1
      <3>2. PICK i \in 1 .. Len(l) : x = InnerOf(Cut(l, i))
        BY <3>1
      <3>3. l \in Seq(Labels) /\ Len(l) \in Nat /\ i \in 0 .. Len(l) /\ i # 0
        BY <3>1, EndedFacts
      <3>4. Len(Cut(l, i)) = i
        BY <3>3, CutFacts
      <3>5. x[1] = Cut(l, i) /\ Len(<<>>) = 0
        BY <3>2 DEF InnerOf
      <3> QED
        BY <3>3, <3>4, <3>5
    <2>2. CASE \E l \in DOMAIN m : IsKey(l) /\ x = EndOf(m, l)
      <3>1. PICK l \in DOMAIN m : IsKey(l) /\ x = EndOf(m, l)
        BY <2>2
      <3>2. Len(Ended(l)) = Len(l) + 1 /\ Len(l) \in Nat
        BY <3>1, EndedFacts
      <3>3. x[1] = Ended(l) /\ Len(<<>>) = 0
        BY <3>1 DEF EndOf
      <3> QED
        BY <3>2, <3>3
    <2> QED
      BY <2>1, <2>2, TreeForm
  <1>3. ASSUME NEW i \in 1 .. Len(k), NEW x \in KeyTree(m), x[1] = Cut(path, i)
        PROVE  x = InnerOf(Cut(path, i))
    <2>1. i \in 0 .. Len(path) /\ i >= 1 /\ i <= Len(k)
      BY <1>1
    <2>2. Len(Cut(path, i)) = i /\ Cut(path, i)[i] = path[i] /\ path[i] # 0
      BY <2>1, <1>1, CutFacts
    <2>3. CASE \E l \in DOMAIN m : IsKey(l) /\ \E j \in 1 .. Len(l) : x = InnerOf(Cut(l, j))
      BY <2>3, <1>3 DEF InnerOf
    <2>4. CASE \E l \in DOMAIN m : IsKey(l) /\ x = EndOf(m, l)
      <3>1. PICK l \in DOMAIN m : IsKey(l) /\ x = EndOf(m, l)
        BY <2>4
      <3>2. Ended(l) = Cut(path, i)
        BY <3>1, <1>3 DEF EndOf
      <3>3. Len(Ended(l)) = Len(l) + 1 /\ Ended(l)[Len(l) + 1] = 0
        BY <3>1, EndedFacts
      <3>4. FALSE
        BY <3>2, <3>3, <2>2
      <3> QED
        BY <3>4
    <2> QED
      BY <2>3, <2>4, TreeForm
  <1>4. ASSUME NEW i \in 1 .. Len(k), NEW x \in KeyTree(m), x[1] = Cut(path, i + 1)
        PROVE  \E y \in KeyTree(m) : y[1] = Cut(path, i)
    <2>1. i + 1 \in 0 .. Len(path) /\ i + 1 <= Len(path) /\ i \in 0 .. i + 1 /\ i >= 1 /\ i + 1 \in Nat
      BY <1>1
    <2>2. Len(Cut(path, i + 1)) = i + 1
      BY <2>1, <1>1, CutFacts
    <2>3. CASE \E l \in DOMAIN m : IsKey(l) /\ \E j \in 1 .. Len(l) : x = InnerOf(Cut(l, j))
      <3>1. PICK l \in DOMAIN m : IsKey(l) /\ \E j \in 1 .. Len(l) : x = InnerOf(Cut(l, j))
        BY <2>3
      <3>2. PICK j \in 1 .. Len(l) : x = InnerOf(Cut(l, j))
        BY <3>1
      <3>3. l \in Seq(Labels) /\ Len(l) \in Nat /\ j \in 0 .. Len(l)
        BY <3>1, EndedFacts
      <3>4. Cut(l, j) = Cut(path, i + 1) /\ Len(Cut(l, j)) = j
        BY <3>2, <3>3, <1>4, CutFacts DEF InnerOf
      <3>5. j = i + 1 /\ i + 1 <= Len(l) /\ i \in 1 .. Len(l)
        BY <3>3, <3>4, <2>1, <2>2
      <3>6. Cut(l, i) = Cut(path, i)
        BY <3>3, <3>4, <3>5, <2>1, <1>1, BeginAlike
      <3>7. InnerOf(Cut(path, i)) \in KeyTree(m)
        BY <3>1, <3>5, <3>6, TreeHas
      <3> QED
        BY <3>7 DEF InnerOf
    <2>4. CASE \E l \in DOMAIN m : IsKey(l) /\ x = EndOf(m, l)
      <3>1. PICK l \in DOMAIN m : IsKey(l) /\ x = EndOf(m, l)
        BY <2>4
      <3>2. /\ Ended(l) \in Seq(Labels) /\ Len(Ended(l)) = Len(l) + 1 /\ Len(l) \in Nat /\ Len(l) >= 1
            /\ l \in Seq(Labels) /\ Cut(Ended(l), Len(l)) = l
        BY <3>1, EndedFacts
      <3>3. Ended(l) = Cut(path, i + 1)
        BY <3>1, <1>4 DEF EndOf
      <3>4. i = Len(l) /\ i \in 1 .. Len(l)
        BY <3>2, <3>3, <2>1, <2>2
      <3>5. Cut(Ended(l), i + 1) = Ended(l)
        BY <3>2, <3>4, CutFacts
      <3>6. Cut(Ended(l), i) = Cut(path, i)
        <4>1. Cut(Ended(l), i + 1) = Cut(path, i + 1) /\ i + 1 <= Len(Ended(l))
          BY <3>2, <3>3, <3>4, <3>5
        <4> QED
          BY <4>1, <3>2, <2>1, <1>1, BeginAlike
      <3>7. Cut(l, i) = l
        BY <3>2, <3>4, CutFacts
      <3>8. InnerOf(Cut(path, i)) \in KeyTree(m)
        BY <3>1, <3>2, <3>4, <3>6, <3>7, TreeHas
      <3> QED
        BY <3>8 DEF InnerOf
    <2> QED
      BY <2>3, <2>4, TreeForm
  <1>5. 1 .. Len(path) - 1 = 1 .. Len(k)
    BY <1>1
  <1> QED
    BY <1>2, <1>3, <1>4, <1>5 DEF Grown, path

-----------------------------------------------------------------------------
(* update.                                                                 *)

\* The tree once the first i labels of a path were followed.
Walked(C, path, i) ==
    IF i = 0 \/ Has(C, Cut(path, i)) THEN C
    ELSE C \cup {InnerOf(Cut(path, j)) : j \in 1 .. i - 1} \cup {Leaf(Cut(path, i), path[i])}

\* One label more.
LEMMA WalkedOn ==
    ASSUME NEW C, NEW path \in Seq(Labels), Grown(C, path), NEW i \in Nat, i < Len(path),
           NEW D, D = Walked(C, path, i)
    PROVE  Extended(D, Cut(path, i), path[i + 1]) = Walked(C, path, i + 1)
  <1> DEFINE p == Cut(path, i)
             q == Cut(path, i + 1)
             l == path[i + 1]
  <1>1. /\ p \in Seq(Labels) /\ Len(p) = i /\ q = Named(p, l) /\ l \in Labels
        /\ i + 1 \in 1 .. Len(path) /\ i = 0 => p = <<>>
    <2>1. i \in 0 .. Len(path)
      OBVIOUS
    <2> QED
      BY <2>1, CutFacts
  <1>2. Len(q) = i + 1
    BY <1>1, Names
  <1>3. ASSUME NEW j \in 1 .. i PROVE Len(Cut(path, j)) = j /\ Cut(path, j) # q
    <2>1. j \in 0 .. Len(path) /\ j <= i
      BY <1>1
    <2>2. Len(Cut(path, j)) = j
      BY <2>1, CutFacts
    <2> QED
      BY <2>1, <2>2, <1>2
  <1>4. Extended(D, p, l) = IF Has(D, q) THEN D ELSE Opened(D, p) \cup {Leaf(q, l)}
    BY <1>1 DEF Extended, Has
  <1>5. i # 0 => i \in 1 .. Len(path) - 1
    BY <1>1
  <1> DEFINE In == {InnerOf(Cut(path, j)) : j \in 1 .. i - 1}
             In2 == {InnerOf(Cut(path, j)) : j \in 1 .. i}
  <1>6. CASE Has(C, q)
    <2>1. i = 0 \/ Has(C, p)
      BY <1>5, <1>6 DEF Grown, Has
    <2>2. D = C
      BY <2>1 DEF Walked
    <2> HIDE DEF p, q, l
    <2>3. Walked(C, path, i + 1) = C
      BY <1>6 DEF Walked, q
    <2> QED
      BY <2>2, <2>3, <1>4, <1>6 DEF p, l
  <1>7. CASE ~ Has(C, q)
    <2>1. Walked(C, path, i + 1) = C \cup In2 \cup {Leaf(q, l)}
      <3>1. i + 1 # 0 /\ (i + 1) - 1 = i
        OBVIOUS
      <3> QED
        BY <3>1, <1>7 DEF Walked
    <2>2. ~ Has(D, q)
      <3>1. CASE i = 0 \/ Has(C, p)
        BY <3>1, <1>7 DEF Walked
      <3>2. CASE i # 0 /\ ~ Has(C, p)
        <4>1. D = C \cup In \cup {Leaf(p, path[i])}
          BY <3>2 DEF Walked
        <4>2. ASSUME NEW x \in In PROVE x[1] # q
          <5>1. PICK j \in 1 .. i - 1 : x = InnerOf(Cut(path, j))
            OBVIOUS
          <5>2. j \in 1 .. i
            OBVIOUS
          <5> HIDE DEF q
          <5> QED
            BY <5>1, <5>2, <1>3 DEF InnerOf
        <4>3. Leaf(p, path[i])[1] # q
          <5>1. i \in 1 .. i
            BY <3>2
          <5> QED
            BY <5>1, <1>3 DEF Leaf
        <4> HIDE DEF In, q, p
        <4> QED
          BY <4>1, <4>2, <4>3, <1>7 DEF Has
      <3> QED
        BY <3>1, <3>2
    <2>3. Opened(D, p) = C \cup In2
      <3>1. CASE i = 0
        <4>1. D = C /\ In2 = {} /\ p = <<>>
          BY <3>1, <1>1 DEF Walked
        <4>2. \A x \in C : x[1] # p
          BY <4>1 DEF Grown
        <4> HIDE DEF p, In2
        <4> QED
          BY <4>1, <4>2 DEF Opened
      <3>2. CASE i # 0 /\ Has(C, p)
        <4>1. D = C
          BY <3>2 DEF Walked
        <4>2. \A x \in C : x[1] = p => x = InnerOf(p)
          BY <3>2, <1>5 DEF Grown
        <4>3. ASSUME NEW x \in In2 PROVE x \in C
          <5>1. PICK j \in 1 .. i : x = InnerOf(Cut(path, j))
            OBVIOUS
          <5> DEFINE Lost == {n \in Nat : n < i /\ ~ Has(C, Cut(path, i - n))}
          <5>2. Lost = {}
            <6> SUFFICES ASSUME Lost # {} PROVE FALSE
              OBVIOUS
            <6>1. Lost \in SUBSET Nat
              OBVIOUS
            <6> HIDE DEF Lost
            <6>2. PICK n \in Lost : \A y \in Lost : n <= y
              BY <6>1, Least
            <6>3. n \in Nat /\ n < i /\ ~ Has(C, Cut(path, i - n))
              BY DEF Lost
            <6>4. n # 0
              BY <6>3, <3>2
            <6>5. n - 1 \in Nat /\ n - 1 < i /\ n - 1 \notin Lost
              BY <6>2, <6>3, <6>4
            <6>6. Has(C, Cut(path, i - (n - 1)))
              BY <6>5 DEF Lost
            <6>7. i - n \in 1 .. Len(path) - 1 /\ (i - n) + 1 = i - (n - 1)
              BY <6>3, <1>1
            <6>8. Has(C, Cut(path, i - n))
              BY <6>6, <6>7 DEF Grown, Has
            <6> QED
              BY <6>3, <6>8
          <5>3. i - j \in Nat /\ i - j < i /\ i - (i - j) = j
            OBVIOUS
          <5>4. Has(C, Cut(path, j))
            BY <5>2, <5>3
          <5>5. j \in 1 .. Len(path) - 1
            BY <1>1
          <5> QED
            BY <5>1, <5>4, <5>5 DEF Grown, Has
        <4> HIDE DEF In2, p
        <4>4. C \cup In2 = C
          BY <4>3
        <4>5. Opened(C, p) = C
          BY <4>2 DEF Opened, InnerOf
        <4> QED
          BY <4>1, <4>4, <4>5
      <3>3. CASE i # 0 /\ ~ Has(C, p)
        <4>1. D = C \cup In \cup {Leaf(p, path[i])}
          BY <3>3 DEF Walked
        <4>2. \A x \in C : x[1] # p
          BY <3>3 DEF Has
        <4>3. ASSUME NEW x \in In PROVE x[1] # p
          <5>1. PICK j \in 1 .. i - 1 : x = InnerOf(Cut(path, j))
            OBVIOUS
          <5>2. j \in 1 .. i /\ j # i
            OBVIOUS
          <5> HIDE DEF p
          <5> QED
            BY <5>1, <5>2, <1>1, <1>3 DEF InnerOf
        <4>4. Leaf(p, path[i])[1] = p
          BY DEF Leaf
        <4>5. In2 = In \cup {InnerOf(p)}
          <5>1. 1 .. i = (1 .. i - 1) \cup {i}
            BY <3>3
          <5> QED
            BY <5>1
        <4> HIDE DEF In, In2, p
        <4> DEFINE z == Leaf(p, path[i])
        <4> HIDE DEF z
        <4>6. Opened(D, p) = C \cup In \cup {InnerOf(p)}
          <5>1. Opened(C, p) = C
            BY <4>2 DEF Opened
          <5>2. Opened(In, p) = In
            BY <4>3 DEF Opened
          <5>3. z[1] = p
            BY <4>4 DEF z
          <5>4. Opened({z}, p) = {InnerOf(p)}
            BY <5>3 DEF Opened, InnerOf
          <5>5. D = C \cup In \cup {z}
            BY <4>1 DEF z
          <5>6. Opened(D, p) = Opened(C, p) \cup Opened(In, p) \cup Opened({z}, p)
            BY <5>5 DEF Opened
          <5> QED
            BY <5>1, <5>2, <5>4, <5>6
        <4> QED
          BY <4>5, <4>6
      <3> QED
        BY <3>1, <3>2, <3>3
    <2> QED
      BY <2>1, <2>2, <2>3, <1>4
  <1> QED
    BY <1>6, <1>7

\* A path whose labels can be followed: it begins outside the spare slots, and
\* only a terminal has the label 0.
Walkable(R, path) ==
    /\ path \in Seq(Labels) /\ path[1] \in R
    /\ \A i \in 1 .. Len(path) - 1 : path[i] # 0

\* One label of update.
LEMMA UpdateStep ==
    ASSUME NEW R, Spare("chain", R), NEW path, Walkable(R, path), NEW C, Grown(C, path),
           NEW i \in Nat, i < Len(path), NEW s, s.t.nblk < MaxBlocks,
           NEW D, D = Walked(C, path, i), Stands(R, s, D, Cut(path, i)),
           NEW f, f = Follow(s.t, s.at, path[i + 1])
    PROVE  /\ Stands(R, [t |-> f.t, at |-> f.to], Walked(C, path, i + 1), Cut(path, i + 1))
           /\ f.t.nblk \in {s.t.nblk, s.t.nblk + 1}
  <1> DEFINE l == path[i + 1]
             p == Cut(path, i)
             E == Extended(D, p, l)
             t == s.t
             n == s.at
  <1>1. path \in Seq(Labels) /\ i \in 0 .. Len(path)
    BY DEF Walkable
  <1>2. /\ l \in Labels /\ Cut(path, i + 1) = Named(p, l)
        /\ E = Walked(C, path, i + 1)
    <2>1. E = Walked(C, path, i + 1)
      BY <1>1, WalkedOn
    <2> QED
      BY <2>1, <1>1, CutFacts
  <1>3. PICK V, P, L, O : StandsAt(R, s, D, p, V, P, L, O)
    BY DEF Stands
  <1> HIDE DEF p
  <1>4. /\ Sound(R, t) /\ V = Taken(t) /\ IsTree(t, V, P, L, O, {}, {})
        /\ n \in V \cup {0} /\ P[n] = p /\ D = Content(t, V, P, L)
    BY <1>3 DEF StandsAt
  <1>5. CanFollow(R, t, V, P, L, O, n, l)
    <2>1. (n = 0 <=> i = 0) /\ (n # 0 => L[n] = path[i])
      BY <1>1, <1>4, LastLabel DEF p
    <2>2. n # 0 => L[n] # 0
      <3>1. n # 0 => i \in 1 .. Len(path) - 1
        BY <2>1, <1>1
      <3> QED
        BY <3>1, <2>1 DEF Walkable
    <2>3. n = 0 => l \in R
      BY <2>1 DEF Walkable
    <2> HIDE DEF t, n, l
    <2> QED
      BY <2>2, <2>3, <1>2, <1>4 DEF CanFollow, t
  <1> HIDE DEF l, E, t, n
  <1>6. f = Follow(t, n, l) /\ p = P[n] /\ E = Extended(Content(t, V, P, L), p, l)
    BY <1>4 DEF t, n, l, E
  <1>7. HasChild(R, E, p, l, f) /\ f.t.nblk \in {t.nblk, t.nblk + 1}
    BY <1>5, <1>6, FollowTree
  <1>8. PICK V2, P2, L2, O2 : Followed(R, E, p, l, f, V2, P2, L2, O2)
    BY <1>7 DEF HasChild
  <1> DEFINE g == [t |-> f.t, at |-> f.to]
  <1>9. g.t = f.t /\ g.at = f.to
    OBVIOUS
  <1> HIDE DEF g
  <1>10. P2[f.to] = Named(p, l)
    BY <1>8 DEF Followed, IsTree, Edges
  <1>11. StandsAt(R, g, E, Named(p, l), V2, P2, L2, O2)
    BY <1>8, <1>9, <1>10 DEF Followed, StandsAt
  <1>12. Stands(R, g, E, Named(p, l))
    BY <1>11 DEF Stands
  <1> QED
    BY <1>2, <1>7, <1>12 DEF g, t

\* _follow of cedar.h is that of cedarpp.h.
LEMMA SameFollow ==
    ASSUME NEW t, NEW n, NEW label
    PROVE  _follow(t, n, label) = Follow(t, n, label)
  BY DEF _follow, Follow, _pop_enode, _resolve

\* The loop of update, which ends at the terminal.
LEMMA UpdateWalk ==
    ASSUME NEW R, Spare("chain", R), NEW k, NEW path, path = Ended(k), Walkable(R, path),
           NEW C, Grown(C, path), NEW t, t.nblk \in Nat, t.nblk + Len(path) <= MaxBlocks,
           NEW s0, s0 = [t |-> t, at |-> 0], Stands(R, s0, C, <<>>), NEW d
    PROVE  \E s : /\ update(t, k, d) = Added(s.t, s.at, d)
                  /\ Stands(R, s, Walked(C, path, Len(path)), path)
                  /\ s.t.nblk \in Nat /\ s.t.nblk <= t.nblk + Len(path)
  <1> DEFINE N == Len(path)
             Went(f) == [t |-> f.t, at |-> f.to]
             Next1(s, i) == Went(_follow(s.t, s.at, path[i]))
             Step(g, i) == IF i = 0 THEN s0 ELSE Next1(g[i - 1], i)
             Good(g, m) == g = [i \in 0 .. m |-> Step(g, i)]
             Bad == {m \in Nat : ~ \E g : Good(g, m)}
  <1>0. path \in Seq(Labels) /\ N \in Nat /\ MaxBlocks \in Nat
    BY BlockAssumption DEF Walkable
  <1>1. Bad = {}
    <2> SUFFICES ASSUME Bad # {} PROVE FALSE
      OBVIOUS
    <2> HIDE DEF Next1
    <2>1. Bad \in SUBSET Nat
      OBVIOUS
    <2> HIDE DEF Bad
    <2>2. PICK m \in Bad : \A x \in Bad : m <= x
      BY <2>1, Least
    <2>3. m \in Nat /\ ~ \E g : Good(g, m)
      BY DEF Bad
    <2>4. CASE m = 0
      <3> DEFINE g == [i \in 0 .. 0 |-> s0]
      <3>1. Good(g, 0)
        BY DEF g
      <3> QED
        BY <3>1, <2>3, <2>4
    <2>5. CASE m # 0
      <3>1. m - 1 \in Nat /\ m - 1 \notin Bad
        BY <2>2, <2>3, <2>5
      <3>2. PICK h : Good(h, m - 1)
        BY <3>1 DEF Bad
      <3> DEFINE g == [i \in 0 .. m |-> Step(h, i)]
      <3>3. ASSUME NEW i \in 0 .. m PROVE Step(g, i) = Step(h, i)
        <4>1. CASE i = 0
          BY <4>1
        <4>2. CASE i # 0
          <5>1. i - 1 \in 0 .. m /\ i - 1 \in 0 .. m - 1
            BY <4>2, <2>3
          <5>2. g[i - 1] = Step(h, i - 1)
            BY <5>1
          <5>3. h[i - 1] = Step(h, i - 1)
            <6> HIDE DEF Step
            <6> QED
              BY <5>1, <3>2
          <5> HIDE DEF g
          <5> QED
            BY <4>2, <5>2, <5>3
        <4> QED
          BY <4>1, <4>2
      <3>4. Good(g, m)
        <4> HIDE DEF Step
        <4> QED
          BY <3>3
      <3> QED
        BY <3>4, <2>3
    <2> QED
      BY <2>4, <2>5
  <1>3. \E g : Good(g, N)
    BY <1>1, <1>0
  <1>5. PICK g : Good(g, N) /\ update(t, k, d) = Added(g[N].t, g[N].at, d)
    <2>1. update(t, k, d) =
            LET walk == CHOOSE g : Good(g, N)
            IN  Added(walk[N].t, walk[N].at, d)
      BY DEF update, Ended
    <2> HIDE DEF Good
    <2> QED
      BY <1>3, <2>1
  <1> HIDE DEF Next1
  <1>7. g[0] = s0 /\ \A i \in 1 .. N : g[i] = Next1(g[i - 1], i)
    <2>1. g = [i \in 0 .. N |-> Step(g, i)]
      BY <1>5
    <2>2. \A i \in 0 .. N : g[i] = Step(g, i)
      <3> HIDE DEF Step
      <3> QED
        BY <2>1
    <2> QED
      BY <2>2, <1>0
  <1> DEFINE Fine(s, i) == /\ Stands(R, s, Walked(C, path, i), Cut(path, i))
                           /\ s.t.nblk \in Nat /\ s.t.nblk <= t.nblk + i
             Out == {i \in 0 .. N : ~ Fine(g[i], i)}
  <1>6. Fine(s0, 0)
    <2>1. Walked(C, path, 0) = C
      BY DEF Walked
    <2>2. Cut(path, 0) = <<>>
      BY <1>0, CutFacts
    <2>3. s0.t = t
      OBVIOUS
    <2> QED
      BY <2>1, <2>2, <2>3
  <1>8. Out = {}
    <2> SUFFICES ASSUME Out # {} PROVE FALSE
      OBVIOUS
    <2> HIDE DEF Fine
    <2>1. Out \in SUBSET Nat
      OBVIOUS
    <2> HIDE DEF Out
    <2>2. PICK m \in Out : \A x \in Out : m <= x
      BY <2>1, Least
    <2>3. m \in 0 .. N /\ ~ Fine(g[m], m)
      BY DEF Out
    <2>4. m # 0
      BY <2>3, <1>6, <1>7
    <2>5. m - 1 \in 0 .. N /\ m - 1 \notin Out /\ m \in 1 .. N
      BY <1>0, <2>2, <2>3, <2>4
    <2> DEFINE i == m - 1
               a == g[i]
               b == g[m]
               f == Follow(a.t, a.at, path[m])
               D == Walked(C, path, i)
    <2>6. Fine(a, i) /\ b = Went(f)
      BY <2>5, <1>7, SameFollow DEF Out, Next1
    <2>7. i \in Nat /\ i < N /\ i + 1 = m
      BY <2>5, <1>0
    <2>8. Stands(R, a, D, Cut(path, i)) /\ a.t.nblk \in Nat /\ a.t.nblk <= t.nblk + i
      BY <2>6 DEF Fine
    <2>9. f = Follow(a.t, a.at, path[i + 1])
      BY <2>7
    <2>10. b.t = f.t /\ b = [t |-> f.t, at |-> f.to]
      BY <2>6
    <2> HIDE DEF a, b, f, D, i
    <2>11. a.t.nblk < MaxBlocks
      BY <2>7, <2>8, <1>0
    <2>12. D = Walked(C, path, i)
      BY DEF D
    <2>13. /\ Stands(R, [t |-> f.t, at |-> f.to], Walked(C, path, i + 1), Cut(path, i + 1))
           /\ f.t.nblk \in {a.t.nblk, a.t.nblk + 1}
      BY <2>7, <2>8, <2>9, <2>11, <2>12, UpdateStep
    <2>14. f.t.nblk \in Nat /\ f.t.nblk <= t.nblk + m
      <3> DEFINE x == f.t.nblk
                 y == a.t.nblk
                 z == t.nblk
      <3>1. x \in {y, y + 1} /\ y \in Nat /\ y <= z + i /\ z \in Nat /\ i \in Nat /\ m = i + 1
        BY <2>7, <2>8, <2>13
      <3> HIDE DEF x, y, z
      <3>2. x \in Nat /\ x <= z + m
        BY <3>1
      <3> QED
        BY <3>2 DEF x, z
    <2>15. Fine(b, m)
      BY <2>7, <2>10, <2>13, <2>14 DEF Fine
    <2> QED
      BY <2>3, <2>15 DEF b
  <1>9. Fine(g[N], N)
    BY <1>0, <1>8
  <1>10. Cut(path, N) = path
    <2>1. N \in 0 .. N
      BY <1>0
    <2> QED
      BY <2>1, <1>0, CutFacts
  <1> QED
    BY <1>5, <1>9, <1>10

\* The node at the end of a key.
LEMMA EndNamed ==
    ASSUME NEW m, IsMap(m), NEW k, IsKey(k)
    PROVE  /\ \A x \in KeyTree(m) : x[1] = Ended(k) => k \in DOMAIN m /\ x = EndOf(m, k)
           /\ Has(KeyTree(m), Ended(k)) <=> k \in DOMAIN m
  <1>1. ASSUME NEW x \in KeyTree(m), x[1] = Ended(k)
        PROVE  k \in DOMAIN m /\ x = EndOf(m, k)
    <2>1. CASE \E l \in DOMAIN m : IsKey(l) /\ \E i \in 1 .. Len(l) : x = InnerOf(Cut(l, i))
      <3>1. PICK l \in DOMAIN m : IsKey(l) /\ \E i \in 1 .. Len(l) : x = InnerOf(Cut(l, i))
        BY <2>1
      <3>2. PICK i \in 1 .. Len(l) : x = InnerOf(Cut(l, i))
        BY <3>1
      <3>3. x[1] = Cut(l, i)
        BY <3>2 DEF InnerOf
      <3> QED
        BY <3>1, <3>3, <1>1, EndsApart
    <2>2. CASE \E l \in DOMAIN m : IsKey(l) /\ x = EndOf(m, l)
      <3>1. PICK l \in DOMAIN m : IsKey(l) /\ x = EndOf(m, l)
        BY <2>2
      <3>2. x[1] = Ended(l)
        BY <3>1 DEF EndOf
      <3>3. l = k
        BY <3>1, <3>2, <1>1, EndsApart
      <3> QED
        BY <3>1, <3>3
    <2> QED
      BY <2>1, <2>2, TreeForm
  <1>2. ASSUME k \in DOMAIN m PROVE Has(KeyTree(m), Ended(k))
    <2>1. EndOf(m, k) \in KeyTree(m)
      BY <1>2, TreeHas
    <2>2. EndOf(m, k)[1] = Ended(k)
      BY DEF EndOf
    <2> QED
      BY <2>1, <2>2 DEF Has
  <1> QED
    BY <1>1, <1>2 DEF Has

\* The tree with v in the terminal named after a path.
Renewed(W, path, v) == {x \in W : x[1] # path} \cup {<<path, FALSE, v>>}

\* The tree of a map with another value at a key.
LEMMA NewTree ==
    ASSUME NEW m, IsMap(m), NEW k, IsKey(k), NEW v, NEW path, path = Ended(k),
           NEW W, W = Walked(KeyTree(m), path, Len(path))
    PROVE  Renewed(W, path, v) = KeyTree(Map!With(m, k, v))
  <1> USE DEF Renewed
  <1> DEFINE C == KeyTree(m)
             w == Map!With(m, k, v)
             M == DOMAIN m
             I == {InnerOf(p) : p \in UNION {Prefixes(l) : l \in M}}
             J == {InnerOf(p) : p \in Prefixes(k)}
             E == {EndOf(m, l) : l \in M}
             F == {EndOf(m, l) : l \in M \ {k}}
             z == <<path, FALSE, v>>
  <1>1. /\ Len(path) = Len(k) + 1 /\ Len(k) \in Nat /\ path \in Seq(Labels) /\ path[Len(k) + 1] = 0
        /\ k \in Seq(Labels) /\ \A i \in 0 .. Len(k) : Cut(path, i) = Cut(k, i)
    BY EndedFacts
  <1>2. DOMAIN w = M \cup {k} /\ w[k] = v /\ \A l \in M \ {k} : w[l] = m[l]
    BY DEF Map!With
  <1>3. KeyTree(w) = I \cup J \cup F \cup {z}
    <2>1. {EndOf(w, l) : l \in DOMAIN w} = F \cup {z}
      <3>1. EndOf(w, k) = z
        BY <1>2 DEF EndOf
      <3>2. ASSUME NEW l \in M \ {k} PROVE EndOf(w, l) = EndOf(m, l)
        BY <1>2 DEF EndOf
      <3> HIDE DEF z, w
      <3> QED
        BY <3>1, <3>2, <1>2
    <2>2. {InnerOf(p) : p \in UNION {Prefixes(l) : l \in DOMAIN w}} = I \cup J
      <3> HIDE DEF w
      <3> QED
        BY <1>2
    <2> HIDE DEF w, F, I, J, z
    <2> QED
      BY <2>1, <2>2 DEF KeyTree
  <1>4. {x \in C : x[1] # path} = I \cup F
    <2>1. C = I \cup E
      BY DEF KeyTree
    <2>2. ASSUME NEW x \in I PROVE x[1] # path
      <3>1. x \in C
        BY <2>1
      <3>2. x[2] = TRUE
        <4>1. PICK p \in UNION {Prefixes(l) : l \in M} : x = InnerOf(p)
          OBVIOUS
        <4> QED
          BY <4>1 DEF InnerOf
      <3>3. EndOf(m, k)[2] = FALSE
        BY DEF EndOf
      <3> HIDE DEF I, C
      <3>4. x[1] = path => x = EndOf(m, k)
        BY <3>1, EndNamed DEF C
      <3> QED
        BY <3>2, <3>3, <3>4
    <2>3. \A l \in M : EndOf(m, l)[1] = path <=> l = k
      <3>1. \A l \in M : IsKey(l)
        BY DEF IsMap
      <3>2. \A l \in M : EndOf(m, l)[1] = Ended(l)
        BY DEF EndOf
      <3> QED
        BY <3>1, <3>2, EndsApart
    <2>4. \A x \in F : x[1] # path
      BY <2>3
    <2>5. \A x \in E : x[1] # path => x \in F
      BY <2>3
    <2>6. F \subseteq E
      OBVIOUS
    <2> HIDE DEF I, F, E, C
    <2> QED
      BY <2>1, <2>2, <2>4, <2>5, <2>6
  <1> HIDE DEF w, F, z
  <1>5. CASE k \in M
    <2>1. W = C
      <3>1. Has(C, path) /\ Cut(path, Len(path)) = path
        <4>1. Len(path) \in 0 .. Len(path)
          BY <1>1
        <4> QED
          BY <4>1, <1>1, <1>5, EndNamed, CutFacts
      <3> HIDE DEF C
      <3> QED
        BY <3>1 DEF Walked, C
    <2>2. J \subseteq I
      BY <1>5
    <2> HIDE DEF I, J, C
    <2> QED
      BY <2>1, <2>2, <1>3, <1>4 DEF z, w
  <1>6. CASE k \notin M
    <2>1. W = C \cup J \cup {Leaf(path, 0)}
      <3>1. ~ Has(C, path) /\ Cut(path, Len(path)) = path
        <4>1. Len(path) \in 0 .. Len(path)
          BY <1>1
        <4> QED
          BY <4>1, <1>1, <1>6, EndNamed, CutFacts
      <3>2. {InnerOf(Cut(path, j)) : j \in 1 .. Len(path) - 1} = J
        <4>1. J = {InnerOf(Cut(k, j)) : j \in 1 .. Len(k)}
          BY DEF Prefixes, Cut
        <4>2. Len(path) - 1 = Len(k) /\ \A j \in 1 .. Len(k) : Cut(path, j) = Cut(k, j)
          BY <1>1
        <4> HIDE DEF J
        <4> QED
          BY <4>1, <4>2
      <3>3. Len(path) # 0 /\ path[Len(path)] = 0
        BY <1>1
      <3> HIDE DEF J, C
      <3> QED
        BY <3>1, <3>2, <3>3 DEF Walked, C
    <2>2. \A x \in J : x[1] # path
      <3>1. \A i \in 1 .. Len(k) : Cut(k, i) # path
        BY EndsApart
      <3>2. \A p \in Prefixes(k) : p # path
        BY <3>1 DEF Prefixes, Cut
      <3>3. ASSUME NEW x \in J PROVE x[1] # path
        <4>1. PICK p \in Prefixes(k) : x = InnerOf(p)
          OBVIOUS
        <4> QED
          BY <4>1, <3>2 DEF InnerOf
      <3> QED
        BY <3>3
    <2>3. Leaf(path, 0)[1] = path
      BY DEF Leaf
    <2> HIDE DEF I, J, C
    <2> DEFINE y == Leaf(path, 0)
    <2> HIDE DEF y
    <2>4. {x \in W : x[1] # path} = {x \in C : x[1] # path} \cup J
      BY <2>1, <2>2, <2>3 DEF y
    <2>5. {x \in W : x[1] # path} \cup {z} = I \cup J \cup F \cup {z}
      BY <2>4, <1>4
    <2> QED
      BY <2>5, <1>3 DEF z, w
  <1> QED
    BY <1>5, <1>6

\* The terminal e named after a path, whose value becomes b.
CanAdd(R, v, V, P, L, O, e, path) ==
    /\ Sound(R, v) /\ V = Taken(v) /\ IsTree(v, V, P, L, O, {}, {})
    /\ e \in V /\ L[e] = 0 /\ P[e] = path

\* The trie u is v with that value.
AddedAs(R, v, u, V, P, L, O, path, b) ==
    /\ Sound(R, u) /\ V = Taken(u) /\ IsTree(u, V, P, L, O, {}, {}) /\ u.nblk = v.nblk
    /\ Content(u, V, P, L) = Renewed(Content(v, V, P, L), path, b)

\* Adding to a terminal.
LEMMA AddedTree ==
    ASSUME NEW R, NEW v, NEW V, NEW P, NEW L, NEW O, NEW e, NEW path,
           CanAdd(R, v, V, P, L, O, e, path), NEW d \in Int, NEW u, u = Added(v, e, d),
           NEW c, c = v.array[e].base + d
    PROVE  AddedAs(R, v, u, V, P, L, O, path, c)
  <1> USE DEF CanAdd
  <1>1. /\ V \in SUBSET (Slots \ {0}) /\ e \in Slots /\ e # 0 /\ 0 \in Slots
        /\ v.array \in [Slots -> [base : Int, check : Int]] /\ PoolFields \subseteq DOMAIN v
        /\ TrieTyped(v)
    BY SlotRange, SoundFacts DEF IsTree, GhostTyped, TrieTyped
  <1> DEFINE b == v.array[e].base + d
             A == [v.array EXCEPT ![e] = [v.array[e] EXCEPT !.base = b]]
  <1>2. u = [v EXCEPT !.array = A]
    BY DEF Added
  <1>3. "array" \in DOMAIN v
    BY <1>1 DEF PoolFields
  <1> HIDE DEF A
  <1>4. /\ DOMAIN u = DOMAIN v /\ u.array = A /\ u.sibling = v.sibling /\ u.child = v.child
        /\ u.nblk = v.nblk /\ u.num = v.num /\ u.ehead = v.ehead /\ u.lists = v.lists
        /\ u.trial = v.trial /\ u.reject = v.reject /\ u.limit = v.limit
    BY <1>2, <1>3
  <1>5. b \in Int /\ v.array[e] \in [base : Int, check : Int]
    BY <1>1
  <1>6. /\ u.array[e] = [base |-> b, check |-> v.array[e].check]
        /\ \A x \in Slots : x # e => u.array[x] = v.array[x]
        /\ u.array \in [Slots -> [base : Int, check : Int]]
    <2>1. [v.array[e] EXCEPT !.base = b] = [base |-> b, check |-> v.array[e].check]
      BY <1>5
    <2>2. [base |-> b, check |-> v.array[e].check] \in [base : Int, check : Int]
      BY <1>5
    <2> HIDE DEF b
    <2> QED
      BY <2>1, <2>2, <1>1, <1>4 DEF A
  <1>7. /\ \A x \in Slots : u.array[x].check = v.array[x].check
        /\ u.array[e].base = b /\ u.array[e].check = v.array[e].check
    BY <1>6
  <1>8. V = Taken(u)
    BY <1>4, <1>7 DEF Taken
  <1>9. TrieTyped(u)
    BY <1>1, <1>4, <1>6 DEF TrieTyped, IsNinfo
  <1>10. Sound(R, u)
    <2>1. WrittenIn(v, u)
      <3>1. v.array[e].check >= 0
        BY DEF Taken
      <3> QED
        BY <3>1, <1>1, <1>4, <1>6, <1>7 DEF WrittenIn
    <2> QED
      BY <2>1, <1>9, WriteSound
  <1>11. /\ \A x \in V \cup {0} : InnerNode(u, L, x) <=> InnerNode(v, L, x)
         /\ \A x \in V \cup {0} : InnerNode(v, L, x) => x # e /\ u.array[x].base = v.array[x].base
         /\ ~ InnerNode(u, L, e) /\ ~ InnerNode(v, L, e)
    <2>1. \A x \in V \cup {0} : x \in Slots
      BY <1>1
    <2>2. ~ InnerNode(u, L, e) /\ ~ InnerNode(v, L, e)
      BY <1>1 DEF InnerNode
    <2>3. \A x \in V \cup {0} : x # e => u.array[x] = v.array[x]
      BY <2>1, <1>6
    <2> QED
      BY <2>2, <2>3 DEF InnerNode
  <1>12. \A n : Listed(u, V, L, n) = Listed(v, V, L, n)
    BY <1>1, <1>7 DEF Listed
  <1>13. IsTree(u, V, P, L, O, {}, {})
    <2>1. GhostTyped(V, P, L, O)
      BY DEF IsTree
    <2>2. Edges(u, V, P, L, O)
      <3>1. \A x \in V : x \in Slots /\ v.array[x].check \in V \cup {0}
        BY <1>1 DEF IsTree, Edges
      <3> QED
        BY <3>1, <1>7, <1>11 DEF IsTree, Edges
    <2>3. Settled(u, V, O, {})
      <3>1. \A x \in V : /\ x \in Slots /\ v.array[x].check \in V \cup {0}
                         /\ InnerNode(v, L, v.array[x].check)
                         /\ O[x] = v.array[v.array[x].check].base
        BY <1>1 DEF IsTree, Edges, Settled
      <3> QED
        BY <3>1, <1>7, <1>11 DEF Settled
    <2>4. Bases(u, V, L)
      <3>1. InnerNode(v, L, 0) /\ v.array[0].base = 0
        BY DEF IsTree, Bases, InnerNode
      <3>2. u.array[0].base = 0
        BY <3>1, <1>11
      <3> QED
        BY <3>2, <1>4, <1>11 DEF IsTree, Bases
    <2>5. Clear(u, V, L, {})
      BY <1>4, <1>11 DEF IsTree, Clear
    <2>6. Chains(u, V, L, {})
      <3>1. ASSUME NEW n \in V \cup {0}, InnerNode(u, L, n)
            PROVE  /\ Listed(u, V, L, n) # {}
                   /\ ChainOf(u, n, u.array[n].base, Listed(u, V, L, n))
        <4>1. InnerNode(v, L, n) /\ u.array[n].base = v.array[n].base
          BY <3>1, <1>11
        <4> DEFINE S == Listed(v, V, L, n)
        <4>2. S # {} /\ ChainOf(v, n, v.array[n].base, S)
          BY <4>1 DEF IsTree, Chains
        <4>3. S = Listed(u, V, L, n)
          BY <1>12
        <4> HIDE DEF S
        <4>4. ChainOf(u, n, u.array[n].base, S)
          BY <4>1, <4>2, <1>4 DEF ChainOf
        <4> QED
          BY <4>2, <4>3, <4>4
      <3> QED
        BY <3>1 DEF Chains
    <2> QED
      BY <2>1, <2>2, <2>3, <2>4, <2>5, <2>6, <1>9 DEF IsTree
  <1>14. Content(u, V, P, L) = {x \in Content(v, V, P, L) : x[1] # P[e]} \cup {<<P[e], FALSE, b>>}
    <2> DEFINE f(x) == <<P[x], InnerNode(v, L, x), IF InnerNode(v, L, x) THEN 0 ELSE v.array[x].base>>
               g(x) == <<P[x], InnerNode(u, L, x), IF InnerNode(u, L, x) THEN 0 ELSE u.array[x].base>>
    <2>1. Content(v, V, P, L) = {f(x) : x \in V} /\ Content(u, V, P, L) = {g(x) : x \in V}
      BY DEF Content
    <2>2. ASSUME NEW x \in V, x # e PROVE g(x) = f(x) /\ f(x)[1] # P[e]
      <3>1. u.array[x] = v.array[x] /\ (InnerNode(u, L, x) = InnerNode(v, L, x))
        <4>1. u.array[x] = v.array[x]
          BY <2>2, <1>1, <1>6
        <4> QED
          BY <4>1 DEF InnerNode
      <3>2. P[x] # P[e]
        <4>1. \A y, z \in V \cup {0} : P[y] = P[z] => y = z
          BY PathsApart
        <4> QED
          BY <4>1, <2>2
      <3>3. f(x)[1] = P[x]
        OBVIOUS
      <3> QED
        BY <3>1, <3>2, <3>3
    <2>3. g(e) = <<P[e], FALSE, b>> /\ f(e)[1] = P[e]
      <3>1. InnerNode(u, L, e) = FALSE
        BY <1>11
      <3> HIDE DEF b
      <3> QED
        BY <3>1, <1>7
    <2> DEFINE z == <<P[e], FALSE, b>>
               q == P[e]
    <2>4. g(e) = z /\ f(e)[1] = q /\ e \in V
      BY <2>3
    <2>5. \A x \in V : x # e => g(x) = f(x) /\ f(x)[1] # q
      BY <2>2
    <2> HIDE DEF f, g, b, z, q
    <2>6. {g(x) : x \in V} = {y \in {f(x) : x \in V} : y[1] # q} \cup {z}
      BY <2>4, <2>5
    <2> QED
      BY <2>1, <2>6 DEF z, q
  <1> QED
    BY <1>4, <1>8, <1>10, <1>13, <1>14 DEF AddedAs, Renewed

\* The trie holds the map m: its allocator is in order, and its nodes are those
\* of the keys of m, with their values.
HoldsAs(R, t, m, V, P, L, O) ==
    /\ Sound(R, t) /\ V = Taken(t) /\ IsTree(t, V, P, L, O, {}, {})
    /\ Content(t, V, P, L) = KeyTree(m)

\* It does, with some names for the nodes.
Holds(R, t, m) == \E V, P, L, O : HoldsAs(R, t, m, V, P, L, O)

\* update: the trie of a map becomes that of the map with the value added.
THEOREM UpdateHolds ==
    ASSUME NEW R, Spare("chain", R), NEW m, IsMap(m), NEW k, IsKey(k), k[1] \in R,
           NEW t, Holds(R, t, m), Room(t, k), NEW d \in Nat, NEW u, u = update(t, k, d),
           NEW w, w = Map!With(m, k, Map!ValueIn(m, k) + d)
    PROVE  Holds(R, u, w) /\ IsMap(w) /\ u.nblk \in Nat /\ u.nblk <= t.nblk + Len(k) + 1
  <1> DEFINE path == Ended(k)
             N == Len(path)
             C == KeyTree(m)
             W == Walked(C, path, N)
             s0 == [t |-> t, at |-> 0]
             e0 == <<>>
  <1>1. /\ path \in Seq(Labels) /\ N = Len(k) + 1 /\ Len(k) \in Nat /\ Len(k) >= 1 /\ path[N] = 0
        /\ path[1] = k[1] /\ \A i \in 1 .. N - 1 : path[i] # 0
    BY EndedFacts
  <1>2. Grown(C, path)
    BY TreeGrown
  <1>3. Walkable(R, path)
    BY <1>1 DEF Walkable
  <1>4. PICK V0, P0, L0, O0 : HoldsAs(R, t, m, V0, P0, L0, O0)
    BY DEF Holds
  <1>5. Stands(R, s0, C, e0)
    <2>1. s0.t = t /\ s0.at = 0
      OBVIOUS
    <2>2. P0[0] = <<>>
      BY <1>4 DEF HoldsAs, IsTree, GhostTyped
    <2> HIDE DEF s0, C
    <2>3. StandsAt(R, s0, C, e0, V0, P0, L0, O0)
      BY <2>1, <2>2, <1>4 DEF HoldsAs, StandsAt, C
    <2> QED
      BY <2>3 DEF Stands
  <1>6. t.nblk \in Nat /\ t.nblk + N <= MaxBlocks
    <2>1. TrieTyped(t) /\ MaxBlocks \in Nat
      BY <1>4, BlockAssumption DEF HoldsAs, IsTree
    <2>2. t.nblk \in Nat
      BY <2>1 DEF TrieTyped
    <2> QED
      BY <2>2, <1>1 DEF Room
  <1> HIDE DEF C, s0, e0
  <1>7. PICK s : /\ update(t, k, d) = Added(s.t, s.at, d)
                 /\ Stands(R, s, W, path)
                 /\ s.t.nblk \in Nat /\ s.t.nblk <= t.nblk + N
    <2>1. s0 = [t |-> t, at |-> 0] /\ Stands(R, s0, C, <<>>)
      BY <1>5 DEF s0, e0
    <2>2. path = Ended(k)
      OBVIOUS
    <2> HIDE DEF path
    <2> QED
      BY <2>1, <2>2, <1>2, <1>3, <1>6, UpdateWalk
  <1> HIDE DEF W
  <1>8. PICK V, P, L, O : StandsAt(R, s, W, path, V, P, L, O)
    BY <1>7 DEF Stands
  <1> DEFINE v == s.t
             e == s.at
             x == <<P[e], InnerNode(v, L, e), IF InnerNode(v, L, e) THEN 0 ELSE v.array[e].base>>
             b == v.array[e].base
  <1>9. /\ Sound(R, v) /\ V = Taken(v) /\ IsTree(v, V, P, L, O, {}, {})
        /\ e \in V \cup {0} /\ P[e] = path /\ Content(v, V, P, L) = W
    BY <1>8 DEF StandsAt
  <1>10. e # 0 /\ e \in V /\ L[e] = 0
    <2>1. N \in 0 .. Len(path) /\ path = Cut(path, N)
      <3>1. N \in 0 .. Len(path)
        BY <1>1
      <3> QED
        BY <3>1, <1>1, CutFacts
    <2> HIDE DEF path, N, v, e
    <2>2. (e = 0 <=> N = 0) /\ (e # 0 => L[e] = path[N])
      BY <2>1, <1>1, <1>9, LastLabel
    <2> QED
      BY <2>2, <1>1, <1>9
  <1>11. ~ InnerNode(v, L, e)
    BY <1>10 DEF InnerNode
  <1>12. x = <<path, FALSE, b>> /\ x \in W
    <2>1. x \in Content(v, V, P, L)
      BY <1>10 DEF Content
    <2>2. InnerNode(v, L, e) = FALSE
      BY <1>11
    <2> HIDE DEF v, e, path, W
    <2> QED
      BY <2>1, <2>2, <1>9
  <1> HIDE DEF x, v, e
  <1>13. b = Map!ValueIn(m, k)
    <2>1. CASE k \in DOMAIN m
      <3>1. Has(C, path) /\ W = C
        <4>1. N \in 0 .. N
          BY <1>1
        <4>2. Has(C, path)
          BY <2>1, EndNamed DEF C
        <4>3. Cut(path, N) = path
          BY <4>1, <1>1, CutFacts
        <4> QED
          BY <4>2, <4>3 DEF Walked, W
      <3>2. x = EndOf(m, k)
        <4>1. x[1] = Ended(k) /\ x \in KeyTree(m)
          BY <3>1, <1>12 DEF C
        <4> QED
          BY <4>1, EndNamed
      <3> QED
        BY <3>2, <2>1, <1>12 DEF EndOf, Map!ValueIn
    <2>2. CASE k \notin DOMAIN m
      <3>1. ~ Has(C, path) /\ Cut(path, N) = path
        <4>1. N \in 0 .. N
          BY <1>1
        <4>2. ~ Has(C, path)
          BY <2>2, EndNamed DEF C
        <4> QED
          BY <4>1, <4>2, <1>1, CutFacts
      <3>2. W = C \cup {InnerOf(Cut(path, j)) : j \in 1 .. N - 1} \cup {Leaf(path, path[N])}
        <4>1. N # 0
          BY <1>1
        <4> HIDE DEF path, N
        <4> QED
          BY <4>1, <3>1 DEF Walked, W
      <3>3. x \notin C
        BY <3>1, <1>12 DEF Has
      <3>4. x \notin {InnerOf(Cut(path, j)) : j \in 1 .. N - 1}
        <4>1. x[2] = FALSE
          BY <1>12
        <4>2. \A j : InnerOf(Cut(path, j))[2] = TRUE
          BY DEF InnerOf
        <4> QED
          BY <4>1, <4>2
      <3>5. x = Leaf(path, 0)
        BY <3>2, <3>3, <3>4, <1>1, <1>12
      <3>6. x[3] = b /\ Leaf(path, 0)[3] = 0
        BY <1>12 DEF Leaf
      <3> QED
        BY <3>5, <3>6, <2>2 DEF Map!ValueIn
    <2> QED
      BY <2>1, <2>2
  <1> HIDE DEF b
  <1> DEFINE c == b + d
  <1>14. AddedAs(R, v, u, V, P, L, O, path, c)
    <2>1. u = Added(v, e, d) /\ d \in Int
      BY <1>7 DEF v, e
    <2>2. CanAdd(R, v, V, P, L, O, e, path)
      BY <1>9, <1>10 DEF CanAdd
    <2>3. c = v.array[e].base + d
      BY DEF b
    <2> HIDE DEF path, N, W, c
    <2> QED
      BY <2>1, <2>2, <2>3, AddedTree
  <1>15. Content(u, V, P, L) = KeyTree(w)
    <2>1. Content(u, V, P, L) = Renewed(W, path, c)
      <3> HIDE DEF path, c
      <3> QED
        BY <1>9, <1>14 DEF AddedAs
    <2>2. w = Map!With(m, k, c)
      BY <1>13
    <2>3. Renewed(W, path, c) = KeyTree(Map!With(m, k, c))
      <3>1. path = Ended(k) /\ W = Walked(KeyTree(m), path, Len(path))
        BY DEF W, C
      <3> HIDE DEF path, c
      <3> QED
        BY <3>1, NewTree
    <2> QED
      BY <2>1, <2>2, <2>3
  <1>16. Holds(R, u, w)
    BY <1>14, <1>15 DEF Holds, HoldsAs, AddedAs
  <1>17. IsMap(w)
    <2>1. Map!ValueIn(m, k) \in Nat
      BY DEF Map!ValueIn, IsMap
    <2>2. Map!ValueIn(m, k) + d \in Nat
      BY <2>1
    <2>3. DOMAIN w = DOMAIN m \cup {k} /\ \A l \in DOMAIN w : w[l] \in Nat
      BY <2>2 DEF Map!With, IsMap
    <2> QED
      BY <2>3 DEF IsMap, IsKey
  <1>18. u.nblk \in Nat /\ u.nblk <= t.nblk + Len(k) + 1
    BY <1>1, <1>6, <1>7, <1>14 DEF v, AddedAs
  <1> QED
    BY <1>16, <1>17, <1>18

-----------------------------------------------------------------------------
(* erase.                                                                  *)

\* The node of key l after j labels.
NodeOf(m, l, j) == IF j <= Len(l) THEN InnerOf(Cut(l, j)) ELSE EndOf(m, l)

\* The tree of a map, node by node.
LEMMA TreeNodes ==
    ASSUME NEW m, IsMap(m)
    PROVE  /\ \A x \in KeyTree(m) : \E l \in DOMAIN m : \E j \in 1 .. Len(l) + 1 : x = NodeOf(m, l, j)
           /\ \A l \in DOMAIN m : \A j \in 1 .. Len(l) + 1 :
                /\ NodeOf(m, l, j) \in KeyTree(m) /\ NodeOf(m, l, j)[1] = Cut(Ended(l), j)
                /\ Len(Cut(Ended(l), j)) = j /\ IsKey(l) /\ Len(l) \in Nat
                /\ Ended(l) \in Seq(Labels) /\ Len(Ended(l)) = Len(l) + 1
  <1>1. ASSUME NEW x \in KeyTree(m)
        PROVE  \E l \in DOMAIN m : \E j \in 1 .. Len(l) + 1 : x = NodeOf(m, l, j)
    <2>1. CASE \E l \in DOMAIN m : IsKey(l) /\ \E i \in 1 .. Len(l) : x = InnerOf(Cut(l, i))
      <3>1. PICK l \in DOMAIN m : IsKey(l) /\ \E i \in 1 .. Len(l) : x = InnerOf(Cut(l, i))
        BY <2>1
      <3>2. PICK i \in 1 .. Len(l) : x = InnerOf(Cut(l, i))
        BY <3>1
      <3>3. Len(l) \in Nat
        BY <3>1, EndedFacts
      <3>4. i \in 1 .. Len(l) + 1 /\ i <= Len(l)
        BY <3>3
      <3> QED
        BY <3>2, <3>4 DEF NodeOf
    <2>2. CASE \E l \in DOMAIN m : IsKey(l) /\ x = EndOf(m, l)
      <3>1. PICK l \in DOMAIN m : IsKey(l) /\ x = EndOf(m, l)
        BY <2>2
      <3>2. Len(l) \in Nat
        BY <3>1, EndedFacts
      <3>3. Len(l) + 1 \in 1 .. Len(l) + 1 /\ ~ Len(l) + 1 <= Len(l)
        BY <3>2
      <3>4. x = NodeOf(m, l, Len(l) + 1)
        BY <3>1, <3>3 DEF NodeOf
      <3> QED
        BY <3>3, <3>4
    <2> QED
      BY <2>1, <2>2, TreeForm
  <1>2. ASSUME NEW l \in DOMAIN m, NEW j \in 1 .. Len(l) + 1
        PROVE  /\ NodeOf(m, l, j) \in KeyTree(m) /\ NodeOf(m, l, j)[1] = Cut(Ended(l), j)
               /\ Len(Cut(Ended(l), j)) = j /\ IsKey(l) /\ Len(l) \in Nat
               /\ Ended(l) \in Seq(Labels) /\ Len(Ended(l)) = Len(l) + 1
    <2>1. /\ IsKey(l) /\ EndOf(m, l) \in KeyTree(m)
          /\ \A i \in 1 .. Len(l) : InnerOf(Cut(l, i)) \in KeyTree(m)
      BY TreeHas
    <2>2. /\ Len(l) \in Nat /\ Ended(l) \in Seq(Labels) /\ Len(Ended(l)) = Len(l) + 1
          /\ \A i \in 0 .. Len(l) : Cut(Ended(l), i) = Cut(l, i)
      BY <2>1, EndedFacts
    <2>3. j \in 0 .. Len(Ended(l))
      BY <2>2
    <2>4. Len(Cut(Ended(l), j)) = j /\ Cut(Ended(l), Len(Ended(l))) = Ended(l)
      BY <2>2, <2>3, CutFacts
    <2>5. CASE j <= Len(l)
      <3>1. j \in 1 .. Len(l) /\ j \in 0 .. Len(l) /\ NodeOf(m, l, j) = InnerOf(Cut(l, j))
        BY <2>2, <2>5 DEF NodeOf
      <3>2. InnerOf(Cut(l, j))[1] = Cut(l, j)
        BY DEF InnerOf
      <3> QED
        BY <2>1, <2>2, <2>4, <3>1, <3>2
    <2>6. CASE ~ j <= Len(l)
      <3>1. j = Len(Ended(l)) /\ NodeOf(m, l, j) = EndOf(m, l)
        BY <2>2, <2>6 DEF NodeOf
      <3>2. EndOf(m, l)[1] = Ended(l)
        BY DEF EndOf
      <3> QED
        BY <2>1, <2>2, <2>4, <3>1, <3>2
    <2> QED
      BY <2>5, <2>6
  <1> QED
    BY <1>1, <1>2

\* No other key begins with the first n labels of the path of k.
Alone(m, k, n) ==
    \A l \in DOMAIN m \ {k} : n <= Len(Ended(l)) => Cut(Ended(l), n) # Cut(Ended(k), n)

\* A node beside the path of k belongs to another key, which begins as k does.
LEMMA BesideKey ==
    ASSUME NEW m, IsMap(m), NEW k \in DOMAIN m, NEW n \in 0 .. Len(k), Beside(KeyTree(m), Ended(k), n)
    PROVE  \E l \in DOMAIN m : l # k /\ n <= Len(l) /\ Cut(Ended(l), n) = Cut(Ended(k), n)
  <1> DEFINE path == Ended(k)
  <1>1. IsKey(k) /\ path \in Seq(Labels) /\ Len(path) = Len(k) + 1 /\ Len(k) \in Nat
    BY EndedFacts DEF IsMap
  <1> HIDE DEF path
  <1>2. PICK c \in Labels : c # path[n + 1] /\ Has(KeyTree(m), Named(Cut(path, n), c))
    BY DEF Beside, path
  <1> DEFINE q == Named(Cut(path, n), c)
  <1>3. PICK x \in KeyTree(m) : x[1] = q
    BY <1>2 DEF Has
  <1>4. PICK l \in DOMAIN m : \E j \in 1 .. Len(l) + 1 : x = NodeOf(m, l, j)
    BY TreeNodes
  <1>5. PICK j \in 1 .. Len(l) + 1 : x = NodeOf(m, l, j)
    BY <1>4
  <1>6. /\ q = Cut(Ended(l), j) /\ Len(Cut(Ended(l), j)) = j /\ IsKey(l) /\ Len(l) \in Nat
        /\ Ended(l) \in Seq(Labels) /\ Len(Ended(l)) = Len(l) + 1
    BY <1>3, <1>5, TreeNodes
  <1>7. n \in 0 .. Len(path) /\ n < Len(path) /\ n \in Nat
    BY <1>1
  <1>8. Cut(path, n) \in Seq(Labels) /\ Len(Cut(path, n)) = n
    BY <1>1, <1>7, CutFacts
  <1>9. Len(q) = n + 1 /\ q[n + 1] = c
    BY <1>8, <1>7 DEF Named
  <1> HIDE DEF q
  <1>10. j = n + 1 /\ n <= Len(l) /\ n \in 0 .. Len(Ended(l)) /\ n < Len(Ended(l))
    BY <1>6, <1>7, <1>9
  <1>11. /\ Cut(Ended(l), n + 1) = Named(Cut(Ended(l), n), Ended(l)[n + 1])
         /\ Cut(Ended(l), n) \in Seq(Labels) /\ Ended(l)[n + 1] \in Labels
    BY <1>6, <1>10, CutFacts
  <1> DEFINE a == Cut(path, n)
             b == Cut(Ended(l), n)
             d == Ended(l)[n + 1]
  <1>12. Named(a, c) = Named(b, d)
    BY <1>6, <1>10, <1>11 DEF q
  <1>13. a = b /\ c = d
    <2>1. a \in Seq(Labels) /\ b \in Seq(Labels) /\ d \in Labels
      BY <1>8, <1>11
    <2> HIDE DEF a, b, d
    <2>2. \A y \in Seq(Labels), z \in Labels : Named(a, c) = Named(y, z) => a = y /\ c = z
      BY <2>1, Names
    <2> QED
      BY <2>1, <2>2, <1>12
  <1>14. l # k
    BY <1>2, <1>13 DEF path
  <1> QED
    BY <1>10, <1>13, <1>14 DEF path

\* Nothing beside the path of k below n labels, and no other key after one more:
\* then no other key has these n labels.
LEMMA AloneUp ==
    ASSUME NEW m, IsMap(m), NEW k \in DOMAIN m, NEW n \in 1 .. Len(k), Alone(m, k, n + 1),
           ~ Beside(KeyTree(m), Ended(k), n)
    PROVE  Alone(m, k, n)
  <1> DEFINE path == Ended(k)
  <1>1. IsKey(k) /\ path \in Seq(Labels) /\ Len(path) = Len(k) + 1 /\ Len(k) \in Nat
        /\ Cut(path, n) = Cut(k, n)
    <2>1. IsKey(k)
      BY DEF IsMap
    <2>2. /\ path \in Seq(Labels) /\ Len(path) = Len(k) + 1 /\ Len(k) \in Nat
          /\ \A i \in 0 .. Len(k) : Cut(path, i) = Cut(k, i)
      BY <2>1, EndedFacts
    <2>3. n \in 0 .. Len(k)
      OBVIOUS
    <2> QED
      BY <2>1, <2>2, <2>3
  <1> HIDE DEF path
  <1>2. ASSUME NEW l \in DOMAIN m \ {k}, n <= Len(Ended(l)), Cut(Ended(l), n) = Cut(path, n)
        PROVE  FALSE
    <2>1. IsKey(l) /\ Ended(l) \in Seq(Labels) /\ Len(Ended(l)) = Len(l) + 1 /\ Len(l) \in Nat
      BY EndedFacts DEF IsMap
    <2>2. n # Len(Ended(l))
      <3>1. Cut(Ended(l), Len(Ended(l))) = Ended(l)
        <4>1. 0 \in 0 .. Len(Ended(l))
          BY <2>1
        <4> QED
          BY <4>1, <2>1, CutFacts
      <3>2. Ended(l) # Cut(k, n)
        BY <1>1, <2>1, EndsApart
      <3> QED
        BY <3>1, <3>2, <1>1, <1>2
    <2>3. n \in 0 .. Len(Ended(l)) /\ n < Len(Ended(l)) /\ n + 1 \in 1 .. Len(l) + 1
          /\ n \in 0 .. Len(path) /\ n < Len(path)
      BY <1>1, <1>2, <2>1, <2>2
    <2> DEFINE d == Ended(l)[n + 1]
    <2>4. Cut(Ended(l), n + 1) = Named(Cut(path, n), d) /\ d \in Labels
      <3>1. /\ Ended(l)[n + 1] \in Labels
            /\ Cut(Ended(l), n + 1) = Named(Cut(Ended(l), n), Ended(l)[n + 1])
        BY ONLY <2>1, <2>3, CutFacts
      <3> QED
        BY <3>1, <1>2
    <2>5. d # path[n + 1]
      <3>1. Cut(path, n + 1) = Named(Cut(path, n), path[n + 1])
        BY <1>1, <2>3, CutFacts
      <3>2. Cut(Ended(l), n + 1) # Cut(path, n + 1)
        <4>1. n + 1 <= Len(Ended(l))
          BY <2>1, <2>3
        <4> QED
          BY <4>1 DEF Alone, path
      <3> QED
        BY <3>1, <3>2, <2>4
    <2>6. Has(KeyTree(m), Named(Cut(path, n), d))
      <3>1. NodeOf(m, l, n + 1) \in KeyTree(m) /\ NodeOf(m, l, n + 1)[1] = Cut(Ended(l), n + 1)
        BY <2>3, TreeNodes
      <3> QED
        BY <3>1, <2>4 DEF Has
    <2> HIDE DEF d
    <2>7. Beside(KeyTree(m), Ended(k), n)
      BY <2>4, <2>5, <2>6 DEF Beside, path
    <2> QED
      BY <2>7
  <1> QED
    BY <1>2 DEF Alone, path

\* Nothing is beside the path of k below n labels or more: no other key has
\* these n labels.
LEMMA AloneIn ==
    ASSUME NEW m, IsMap(m), NEW k \in DOMAIN m, NEW n \in 1 .. Len(k) + 1,
           AloneFrom(KeyTree(m), Ended(k), n)
    PROVE  Alone(m, k, n)
  <1> DEFINE path == Ended(k)
             M == Len(k) + 1
             S == {i \in Nat : Alone(m, k, M - i)}
             N == M - n
  <1>1. IsKey(k) /\ path \in Seq(Labels) /\ Len(path) = M /\ Len(k) \in Nat /\ Cut(path, M) = path
    <2>1. IsKey(k) /\ path \in Seq(Labels) /\ Len(path) = M /\ Len(k) \in Nat
      BY EndedFacts DEF IsMap
    <2>2. M \in 0 .. Len(path)
      BY <2>1
    <2> QED
      BY <2>1, <2>2, CutFacts
  <1>2. Alone(m, k, M)
    <2> SUFFICES ASSUME NEW l \in DOMAIN m \ {k}, M <= Len(Ended(l)), Cut(Ended(l), M) = path
                 PROVE  FALSE
      BY <1>1 DEF Alone
    <2>1. IsKey(l)
      BY DEF IsMap
    <2>2. /\ Len(Ended(l)) = Len(l) + 1 /\ Len(l) \in Nat /\ Ended(l) \in Seq(Labels)
          /\ \A i \in 0 .. Len(l) : Cut(Ended(l), i) = Cut(l, i)
      BY <2>1, EndedFacts
    <2>3. CASE M <= Len(l)
      <3>1. M \in 0 .. Len(l) /\ M \in 1 .. Len(l)
        BY <2>2, <2>3, <1>1
      <3>2. Cut(l, M) = Ended(k)
        BY <2>2, <3>1
      <3> QED
        BY <3>1, <3>2, <2>1, <1>1, EndsApart
    <2>4. CASE ~ M <= Len(l)
      <3>1. M = Len(Ended(l)) /\ M \in 0 .. Len(Ended(l))
        BY <2>2, <2>4, <1>1
      <3>2. Cut(Ended(l), M) = Ended(l)
        BY <3>1, <2>2, CutFacts
      <3> QED
        BY <3>2, <2>1, <1>1, EndsApart
    <2> QED
      BY <2>3, <2>4
  <1>3. N \in Nat /\ M \in Nat
    BY <1>1
  <1>4. 0 \in S
    <2>1. M - 0 = M
      BY <1>3
    <2> HIDE DEF M
    <2> QED
      BY <2>1, <1>2
  <1>5. ASSUME NEW i \in 1 .. N, i - 1 \in S PROVE i \in S
    <2> DEFINE j == M - i
    <2>1. j \in 1 .. Len(k) /\ j \in n .. Len(path) - 1 /\ M - (i - 1) = j + 1 /\ i \in Nat
      BY <1>1, <1>5
    <2>2. Alone(m, k, j + 1)
      BY <2>1, <1>5
    <2>3. ~ Beside(KeyTree(m), Ended(k), j)
      BY <2>1 DEF AloneFrom
    <2> HIDE DEF j
    <2>4. Alone(m, k, j)
      BY <2>1, <2>2, <2>3, AloneUp
    <2> QED
      BY <2>1, <2>4 DEF j
  <1> HIDE DEF S, N
  <1>6. \A i \in 0 .. N : i \in S
    BY ONLY <1>3, <1>4, <1>5, UpTo
  <1>7. N \in 0 .. N /\ M - N = n
    BY <1>1, <1>3 DEF N
  <1> HIDE DEF M
  <1>8. N \in S
    BY <1>6, <1>7
  <1> QED
    BY <1>7, <1>8 DEF S

\* Pruned where it meets another key, the tree is that of the map without k.
LEMMA PrunedTree ==
    ASSUME NEW m, IsMap(m), NEW k \in DOMAIN m, NEW n \in 0 .. Len(k), Alone(m, k, n + 1),
           n = 0 \/ Beside(KeyTree(m), Ended(k), n), NEW path, path = Ended(k), NEW w, w = Map!Without(m, k)
    PROVE  Pruned(KeyTree(m), path, n + 1) = KeyTree(w) /\ IsMap(w)
  <1>1. IsKey(k) /\ path \in Seq(Labels) /\ Len(path) = Len(k) + 1 /\ Len(k) \in Nat
    BY EndedFacts DEF IsMap
  <1>2. DOMAIN w = DOMAIN m \ {k} /\ \A l \in DOMAIN w : w[l] = m[l]
    BY DEF Map!Without
  <1>3. IsMap(w)
    BY <1>2 DEF IsMap, IsKey
  <1>4. \A l \in DOMAIN w : \A j : NodeOf(w, l, j) = NodeOf(m, l, j)
    BY <1>2 DEF NodeOf, EndOf
  <1>5. ASSUME NEW x \in KeyTree(w)
        PROVE  x \in Pruned(KeyTree(m), path, n + 1)
    <2>1. PICK l \in DOMAIN w : \E j \in 1 .. Len(l) + 1 : x = NodeOf(w, l, j)
      BY <1>3, TreeNodes
    <2>2. PICK j \in 1 .. Len(l) + 1 : x = NodeOf(w, l, j)
      BY <2>1
    <2>3. l \in DOMAIN m /\ l # k /\ x = NodeOf(m, l, j)
      BY <1>2, <1>4, <2>2
    <2>4. /\ x \in KeyTree(m) /\ x[1] = Cut(Ended(l), j) /\ Len(Cut(Ended(l), j)) = j
          /\ Ended(l) \in Seq(Labels) /\ Len(Ended(l)) = Len(l) + 1 /\ Len(l) \in Nat
      BY <2>3, TreeNodes
    <2>5. ASSUME NEW i \in n + 1 .. Len(path), Cut(Ended(l), j) = Cut(path, i) PROVE FALSE
      <3>1. i \in 0 .. Len(path) /\ i \in Nat
        BY <1>1
      <3>2. Len(Cut(path, i)) = i
        BY <3>1, <1>1, CutFacts
      <3>3. i = j /\ i <= Len(Ended(l)) /\ i <= Len(path) /\ n + 1 \in 0 .. i /\ n + 1 <= Len(Ended(l))
        BY <2>4, <2>5, <3>2, <1>1
      <3>4. Cut(Ended(l), i) = Cut(path, i)
        BY <3>3, <2>5
      <3>5. Cut(Ended(l), n + 1) = Cut(path, n + 1)
        BY <3>1, <3>3, <3>4, <2>4, <1>1, BeginAlike
      <3> QED
        BY <3>3, <3>5, <2>3 DEF Alone
    <2> QED
      BY <2>4, <2>5 DEF Pruned
  <1>6. ASSUME NEW x \in Pruned(KeyTree(m), path, n + 1)
        PROVE  x \in KeyTree(w)
    <2>0. x \in KeyTree(m) /\ \A i \in n + 1 .. Len(path) : x[1] # Cut(path, i)
      BY DEF Pruned
    <2>1. PICK l \in DOMAIN m : \E j \in 1 .. Len(l) + 1 : x = NodeOf(m, l, j)
      BY <2>0, TreeNodes
    <2>2. PICK j \in 1 .. Len(l) + 1 : x = NodeOf(m, l, j)
      BY <2>1
    <2>3. CASE l # k
      <3>1. l \in DOMAIN w /\ x = NodeOf(w, l, j)
        BY <1>2, <1>4, <2>2, <2>3
      <3> QED
        BY <3>1, <1>3, TreeNodes
    <2>4. CASE l = k
      <3>1. x[1] = Cut(path, j)
        BY <2>2, <2>4, TreeNodes
      <3>2. j \in 1 .. n
        <4>1. ~ j \in n + 1 .. Len(path)
          BY <2>0, <3>1
        <4> QED
          BY <4>1, <2>4, <1>1
      <3>3. n # 0 /\ j <= Len(k)
        BY <3>2, <1>1
      <3>4. PICK o \in DOMAIN m : o # k /\ n <= Len(o) /\ Cut(Ended(o), n) = Cut(path, n)
        BY <3>3, BesideKey
      <3>5. /\ IsKey(o) /\ Ended(o) \in Seq(Labels) /\ Len(Ended(o)) = Len(o) + 1 /\ Len(o) \in Nat
            /\ \A i \in 0 .. Len(o) : Cut(Ended(o), i) = Cut(o, i)
        BY EndedFacts DEF IsMap
      <3>6. Cut(Ended(o), j) = Cut(path, j)
        <4>1. n \in Nat /\ n <= Len(Ended(o)) /\ n <= Len(path) /\ j \in 0 .. n
          BY <3>2, <3>4, <3>5, <1>1
        <4> QED
          BY <4>1, <3>4, <3>5, <1>1, BeginAlike
      <3>7. j \in 1 .. Len(o) + 1 /\ j <= Len(o) /\ j \in 0 .. Len(o)
        BY <3>2, <3>4, <3>5
      <3>8. Cut(k, j) = Cut(path, j)
        <4>1. j \in 0 .. Len(k)
          BY <3>2, <1>1
        <4> QED
          BY <4>1, <1>1, EndedFacts
      <3>9. x = InnerOf(Cut(k, j))
        BY <2>2, <2>4, <3>3 DEF NodeOf
      <3>10. x = NodeOf(w, o, j)
        BY <3>5, <3>6, <3>7, <3>8, <3>9 DEF NodeOf
      <3>11. o \in DOMAIN w
        BY <3>4, <1>2
      <3> QED
        BY <3>7, <3>10, <3>11, <1>3, TreeNodes
    <2> QED
      BY <2>3, <2>4
  <1> QED
    BY <1>3, <1>5, <1>6

-----------------------------------------------------------------------------

\* The node n of the trie of m is that of the path p.
NodeAt(R, t, m, n, p) == \E V, P, L, O : HoldsAs(R, t, m, V, P, L, O) /\ n \in V /\ P[n] = p

\* The terminal of k is below the node of k, at the base of it.
TerminalAt(t, V, P, L, e, from, path) ==
    /\ e \in V /\ P[e] = path /\ ~ InnerNode(t, L, e)
    /\ t.array[e].check = from /\ t.array[from].base = e

\* It is there.
LEMMA TerminalBelow ==
    ASSUME NEW R, NEW m, IsMap(m), NEW k \in DOMAIN m, NEW t, NEW V, NEW P, NEW L, NEW O,
           HoldsAs(R, t, m, V, P, L, O), NEW from \in V, P[from] = k, NEW path, path = Ended(k)
    PROVE  \E e : TerminalAt(t, V, P, L, e, from, path)
  <1>1. /\ IsTree(t, V, P, L, O, {}, {}) /\ Content(t, V, P, L) = KeyTree(m)
    BY DEF HoldsAs
  <1>2. path = Named(k, 0) /\ IsKey(k) /\ 0 \in Labels /\ k \in Seq(Labels)
    <2>1. IsKey(k)
      BY DEF IsMap
    <2>2. 0 \in Labels
      BY BlockAssumption DEF Labels
    <2>3. k \in Seq(Labels)
      BY <2>1, EndedFacts
    <2> QED
      BY <2>1, <2>2, <2>3 DEF Ended, Named
  <1>3. /\ V \in SUBSET (Slots \ {0}) /\ P \in [Slots -> Seq(Labels)] /\ L \in [Slots -> Labels]
        /\ O \in [Slots -> Slots] /\ P[0] = <<>> /\ 0 \in Slots
    BY <1>1, SlotRange DEF IsTree, GhostTyped
  <1>4. PICK e \in V : P[e] = path
    <2> DEFINE g(x) == <<P[x], InnerNode(t, L, x), IF InnerNode(t, L, x) THEN 0 ELSE t.array[x].base>>
    <2>1. KeyTree(m) = {g(x) : x \in V}
      BY <1>1 DEF Content
    <2>2. \A x \in V : g(x)[1] = P[x]
      OBVIOUS
    <2> HIDE DEF g
    <2>3. Has(KeyTree(m), path)
      BY <1>2, EndNamed
    <2> QED
      BY <2>1, <2>2, <2>3 DEF Has
  <1> DEFINE n == t.array[e].check
  <1>5. n \in V \cup {0} /\ P[e] = Named(P[n], L[e]) /\ e = Xor(O[e], L[e]) /\ O[e] = t.array[n].base
    BY <1>1, <1>4 DEF IsTree, Edges, Settled
  <1>6. P[n] = k /\ L[e] = 0
    <2> DEFINE x == P[n]
               y == L[e]
    <2>1. x \in Seq(Labels) /\ y \in Labels /\ Named(x, y) = Named(k, 0)
      BY <1>2, <1>3, <1>4, <1>5
    <2> HIDE DEF x, y
    <2>2. \A q \in Seq(Labels), d \in Labels : Named(x, y) = Named(q, d) => x = q /\ y = d
      BY <2>1, Names
    <2>3. x = k /\ y = 0
      BY <2>1, <2>2, <1>2
    <2> QED
      BY <2>3 DEF x, y
  <1>7. n = from
    <2>1. \A a, b \in V \cup {0} : P[a] = P[b] => a = b
      BY <1>1, PathsApart
    <2> QED
      BY <2>1, <1>5, <1>6
  <1>8. e = t.array[from].base
    <2>1. e = Xor(O[e], 0) /\ O[e] \in Slots /\ O[e] = t.array[from].base
      BY <1>3, <1>4, <1>5, <1>6, <1>7
    <2> QED
      BY <2>1, XorAssumption
  <1>9. ~ InnerNode(t, L, e)
    <2>1. e # 0 /\ L[e] = 0
      BY <1>3, <1>4, <1>6
    <2> QED
      BY <2>1 DEF InnerNode
  <1> QED
    BY <1>4, <1>7, <1>8, <1>9 DEF TerminalAt

\* erase: the trie of a map becomes that of the map without the key.
THEOREM EraseHolds ==
    ASSUME NEW R, Spare("chain", R), NEW m, IsMap(m), NEW k \in DOMAIN m, NEW t, NEW from,
           NodeAt(R, t, m, from, k), NEW u, u = erase(t, k, from), NEW w, w = Map!Without(m, k)
    PROVE  Holds(R, u, w) /\ IsMap(w) /\ u.nblk = t.nblk
  <1> DEFINE path == Ended(k)
             D == KeyTree(m)
             n == Len(k) + 1
  <1>1. PICK V, P, L, O : HoldsAs(R, t, m, V, P, L, O) /\ from \in V /\ P[from] = k
    BY DEF NodeAt
  <1>2. PICK e : TerminalAt(t, V, P, L, e, from, path)
    BY <1>1, TerminalBelow
  <1>3. path \in Seq(Labels) /\ Len(path) = n /\ n \in Nat /\ Len(path) <= n
    <2>1. IsKey(k)
      BY DEF IsMap
    <2> QED
      BY <2>1, EndedFacts
  <1>4. TrieAs(R, t, D, V, P, L, O)
    BY <1>1 DEF HoldsAs, TrieAs
  <1>5. u = EraseUp(t, e, from, n)
    BY <1>2 DEF erase, TerminalAt
  <1> HIDE DEF path, n, D
  <1>6. PrunedTo(R, u, D, path) /\ u.nblk = t.nblk
    <2>1. e \in V /\ P[e] = path /\ ~ InnerNode(t, L, e) /\ from = t.array[e].check
      BY <1>2 DEF TerminalAt
    <2>2. path \in Seq(Labels) /\ n \in Nat /\ Len(path) <= n
      BY <1>3
    <2> QED
      BY ONLY Spare("chain", R), <2>2, <1>4, <1>5, <2>1, EraseTree
  <1>7. PICK i \in 0 .. Len(path) - 1 : PrunedAt(R, u, D, path, i)
    BY <1>6 DEF PrunedTo
  <1>8. i \in 0 .. Len(k) /\ i + 1 \in 1 .. Len(k) + 1
    BY <1>3, <1>7 DEF n
  <1>9. Alone(m, k, i + 1)
    <2>1. AloneFrom(KeyTree(m), Ended(k), i + 1)
      BY <1>7 DEF PrunedAt, D, path
    <2> QED
      BY <2>1, <1>8, AloneIn
  <1>10. i = 0 \/ Beside(KeyTree(m), Ended(k), i)
    BY <1>7 DEF PrunedAt, D, path
  <1>11. Pruned(D, path, i + 1) = KeyTree(w) /\ IsMap(w)
    <2>1. Pruned(KeyTree(m), Ended(k), i + 1) = KeyTree(w) /\ IsMap(w)
      BY <1>8, <1>9, <1>10, PrunedTree
    <2> QED
      BY <2>1 DEF D, path
  <1>12. TrieOf(R, u, KeyTree(w))
    BY <1>7, <1>11 DEF PrunedAt
  <1>13. Holds(R, u, w)
    BY <1>12 DEF TrieOf, TrieAs, Holds, HoldsAs
  <1> QED
    BY <1>6, <1>11, <1>13

-----------------------------------------------------------------------------
(* Lookup.                                                                 *)

\* The array holds the map m, in nodes with these names.
SpellsAs(t, m, V, P, L, O) == Shape(t, V, P, L, O) /\ Content(t, V, P, L) = KeyTree(m)

\* It does, with some names.
Spells(t, m) == \E V, P, L, O : SpellsAs(t, m, V, P, L, O)

\* A trie that holds a map has it in its array.
LEMMA HoldsSpells ==
    ASSUME NEW R, NEW t, NEW m
    PROVE  /\ \A V, P, L, O : HoldsAs(R, t, m, V, P, L, O) => SpellsAs(t, m, V, P, L, O)
           /\ Holds(R, t, m) => Spells(t, m)
  <1>1. ASSUME NEW V, NEW P, NEW L, NEW O, HoldsAs(R, t, m, V, P, L, O)
        PROVE  SpellsAs(t, m, V, P, L, O)
    <2>1. TrieTyped(t) /\ t.array[0].check < 0
      BY <1>1, SoundFacts DEF HoldsAs
    <2> QED
      BY <2>1, <1>1 DEF HoldsAs, IsTree, TrieTyped, SpellsAs, Shape
  <1> QED
    BY <1>1 DEF Holds, Spells

\* The nodes of the tree are those of the map.
LEMMA NodesAre ==
    ASSUME NEW t, NEW m, NEW V, NEW P, NEW L, NEW O, SpellsAs(t, m, V, P, L, O)
    PROVE  /\ \A x \in V : <<P[x], InnerNode(t, L, x), IF InnerNode(t, L, x) THEN 0 ELSE t.array[x].base>>
                             \in KeyTree(m)
           /\ \A y \in KeyTree(m) : \E x \in V :
                y = <<P[x], InnerNode(t, L, x), IF InnerNode(t, L, x) THEN 0 ELSE t.array[x].base>>
           /\ \A p : Has(KeyTree(m), p) <=> \E x \in V : P[x] = p
  <1> DEFINE g(x) == <<P[x], InnerNode(t, L, x), IF InnerNode(t, L, x) THEN 0 ELSE t.array[x].base>>
  <1>1. KeyTree(m) = {g(x) : x \in V}
    BY DEF SpellsAs, Content
  <1>2. \A x \in V : g(x)[1] = P[x]
    OBVIOUS
  <1> HIDE DEF g
  <1>3. \A x \in V : g(x) \in KeyTree(m)
    BY <1>1
  <1>4. \A y \in KeyTree(m) : \E x \in V : y = g(x)
    BY <1>1
  <1>5. ASSUME NEW p PROVE Has(KeyTree(m), p) <=> \E x \in V : P[x] = p
    BY <1>2, <1>3, <1>4 DEF Has
  <1> QED
    BY <1>3, <1>4, <1>5 DEF g

\* The node n is the i-th on the way to k, and e where the next one would be.
OnWay(t, m, V, P, L, O, k, i, n, path, e) ==
    /\ IsMap(m) /\ SpellsAs(t, m, V, P, L, O) /\ IsKey(k) /\ path = Ended(k) /\ i \in 0 .. Len(k)
    /\ n \in V \cup {0} /\ P[n] = Cut(path, i) /\ e = Xor(t.array[n].base, path[i + 1])

\* There is a node at e exactly if a key goes on to it.
Leads(t, m, V, P, L, i, n, path, e) ==
    /\ t.array[n].base \in Slots /\ e \in Slots
    /\ t.array[e].check = n <=> Has(KeyTree(m), Cut(path, i + 1))
    /\ t.array[e].check = n => e \in V /\ P[e] = Cut(path, i + 1) /\ L[e] = path[i + 1]

\* From a node on the way to a key, one label further: the slot it leads to is
\* a child of the node when the tree goes on, and then is named so.
LEMMA FindStep ==
    ASSUME NEW t, NEW m, NEW V, NEW P, NEW L, NEW O, NEW k, NEW i, NEW n, NEW path, NEW e,
           OnWay(t, m, V, P, L, O, k, i, n, path, e)
    PROVE  Leads(t, m, V, P, L, i, n, path, e)
  <1> USE DEF OnWay, Leads
  <1> DEFINE l == path[i + 1]
             b == t.array[n].base
             p == Cut(path, i)
             q == Cut(path, i + 1)
  <1>1. /\ GhostTyped(V, P, L, O) /\ Edges(t, V, P, L, O) /\ Settled(t, V, O, {}) /\ Bases(t, V, L)
        /\ V = Taken(t) /\ t.nblk \in 1 .. MaxBlocks /\ t.array \in [Slots -> [base : Int, check : Int]]
    BY DEF SpellsAs, Shape
  <1>2. /\ V \in SUBSET (Slots \ {0}) /\ P \in [Slots -> Seq(Labels)] /\ L \in [Slots -> Labels]
        /\ O \in [Slots -> Slots] /\ P[0] = <<>> /\ 0 \in Slots
    BY <1>1, SlotRange DEF GhostTyped
  <1>3. /\ path \in Seq(Labels) /\ Len(path) = Len(k) + 1 /\ Len(k) \in Nat /\ Len(k) >= 1
        /\ \A j \in 1 .. Len(k) : path[j] # 0
    BY EndedFacts
  <1>4. p \in Seq(Labels) /\ Len(p) = i /\ l \in Labels /\ q = Named(p, l)
    <2>1. i \in 0 .. Len(path) /\ i < Len(path)
      BY <1>3
    <2> QED
      BY <2>1, <1>3, CutFacts
  <1>5. \A a, c \in V \cup {0} : P[a] = P[c] => a = c
    BY <1>1, NamesApart
  <1>6. n # 0 => i # 0
    <2>1. i = 0 => P[n] = P[0]
      <3>1. i = 0 => p = <<>>
        <4>1. 0 \in 0 .. Len(path)
          BY <1>3
        <4> QED
          BY <4>1, <1>3, CutFacts
      <3> QED
        BY <3>1, <1>2
    <2> QED
      BY <2>1, <1>5
  <1>7. n = 0 => i = 0
    <2>1. n = 0 => p = <<>>
      BY <1>2
    <2>2. Len(<<>>) = 0
      OBVIOUS
    <2> HIDE DEF p
    <2> QED
      BY <2>1, <2>2, <1>4
  <1>8. InnerNode(t, L, n)
    <2>1. CASE n = 0
      BY <2>1, <1>1 DEF Bases, InnerNode
    <2>2. CASE n # 0
      <3> DEFINE x == <<P[n], InnerNode(t, L, n), IF InnerNode(t, L, n) THEN 0 ELSE t.array[n].base>>
      <3>1. x \in KeyTree(m)
        BY <2>2, NodesAre
      <3>2. x[1] = p /\ x[2] = InnerNode(t, L, n)
        OBVIOUS
      <3> HIDE DEF x
      <3>3. Grown(KeyTree(m), path) /\ i \in 1 .. Len(path) - 1
        BY <2>2, <1>3, <1>6, TreeGrown
      <3>4. x = InnerOf(p)
        BY <3>1, <3>2, <3>3 DEF Grown
      <3> QED
        BY <3>2, <3>4 DEF InnerOf
    <2> QED
      BY <2>1, <2>2
  <1>9. b \in Slots /\ Block(b) < t.nblk /\ (n # 0 => Block(b) # 0) /\ (n = 0 => b = 0)
    <2>1. CASE n = 0
      <3>1. b = 0 /\ Block(0) = 0
        BY <2>1, <1>1, SlotFacts DEF Bases
      <3> QED
        BY <3>1, <2>1, <1>1, <1>2
    <2>2. CASE n # 0
      BY <2>2, <1>1, <1>8 DEF Bases
    <2> QED
      BY <2>1, <2>2
  <1>10. e \in Slots /\ Block(e) = Block(b) /\ e = Xor(b, l)
    <2>1. e = Xor(b, l)
      OBVIOUS
    <2> HIDE DEF b, l
    <2> QED
      BY <2>1, <1>4, <1>9, XorAssumption
  <1>11. n = 0 => e = l /\ l # 0
    <2>1. n = 0 => i + 1 \in 1 .. Len(k)
      BY <1>3, <1>7
    <2> QED
      BY <2>1, <1>3, <1>4, <1>9, <1>10, XorAssumption
  <1> HIDE DEF l, b, p, q
  <1>12. ASSUME t.array[e].check = n PROVE e \in V /\ P[e] = q /\ L[e] = l
    <2>1. e # 0
      <3>1. Block(0) = 0
        BY SlotFacts
      <3> QED
        BY <3>1, <1>9, <1>10, <1>11
    <2>2. n >= 0
      BY <1>2, SlotFacts
    <2>3. e \in V
      BY <2>1, <2>2, <1>1, <1>9, <1>10, <1>12 DEF Taken
    <2>4. e = Xor(O[e], L[e]) /\ P[e] = Named(P[n], L[e]) /\ O[e] = b
      BY <2>3, <1>1, <1>12 DEF Edges, Settled, b
    <2>5. L[e] = l
      <3>1. L[e] \in Labels
        BY <1>2, <1>10
      <3>2. Xor(b, Xor(b, L[e])) = L[e] /\ Xor(b, Xor(b, l)) = l
        BY <3>1, <1>4, <1>9, XorAssumption
      <3> QED
        BY <3>2, <2>4, <1>10
    <2> QED
      BY <2>3, <2>4, <2>5, <1>4 DEF p
  <1>13. ASSUME Has(KeyTree(m), q) PROVE t.array[e].check = n
    <2>1. PICK x \in V : P[x] = q
      BY <1>13, NodesAre
    <2> DEFINE a == t.array[x].check
               y == P[a]
               d == L[x]
    <2>2. /\ a \in V \cup {0} /\ x = Xor(O[x], L[x]) /\ P[x] = Named(P[a], L[x])
          /\ O[x] = t.array[a].base
      BY <2>1, <1>1 DEF Edges, Settled
    <2>3. y \in Seq(Labels) /\ d \in Labels /\ Named(y, d) = Named(p, l)
      BY <2>1, <2>2, <1>2, <1>4
    <2> HIDE DEF a, y, d
    <2>4. \A r \in Seq(Labels), c \in Labels : Named(y, d) = Named(r, c) => y = r /\ d = c
      BY <2>3, Names
    <2>5. y = p /\ d = l
      BY <2>3, <2>4, <1>4
    <2>6. a = n
      BY <2>2, <2>5, <1>5 DEF y, p
    <2> QED
      BY <2>2, <2>5, <2>6, <1>10 DEF a, d, b
  <1>14. ASSUME t.array[e].check = n PROVE Has(KeyTree(m), q)
    BY <1>12, <1>14, NodesAre
  <1> QED
    BY <1>9, <1>10, <1>12, <1>13, <1>14 DEF l, b, q

\* A round of the loop of _find.
Down(t, key, d, i) ==
    LET to == Xor(t.array[d.at].base, key[i])
    IN  IF d.miss \/ t.array[to].check # d.at THEN [d EXCEPT !.miss = TRUE]
        ELSE [at |-> to, pos |-> i, miss |-> FALSE]

\* What it answers in the end.
Answer(t, end) ==
    LET last == t.array[t.array[end.at].base]
    IN  [at |-> end.at, pos |-> end.pos,
         value |-> IF end.miss THEN NoPath
                   ELSE IF last.check # end.at THEN NoValue ELSE last.base]

\* The loop of _find, from the root.
LEMMA FindLoop ==
    ASSUME NEW t, NEW k, Len(k) \in Nat
    PROVE  \E g : /\ g[0] = [at |-> 0, pos |-> 0, miss |-> FALSE]
                  /\ \A i \in 1 .. Len(k) : g[i] = Down(t, k, g[i - 1], i)
                  /\ _find(t, k, 0, 0) = Answer(t, g[Len(k)])
  <1> DEFINE N == Len(k)
             s0 == [at |-> 0, pos |-> 0, miss |-> FALSE]
             Next1(d, i) == Down(t, k, d, i)
             Step(g, i) == IF i = 0 THEN s0 ELSE Next1(g[i - 1], i)
             Good(g, m) == g = [i \in 0 .. m |-> Step(g, i)]
             Bad == {m \in Nat : ~ \E g : Good(g, m)}
  <1>1. Bad = {}
    <2> SUFFICES ASSUME Bad # {} PROVE FALSE
      OBVIOUS
    <2> HIDE DEF Next1, s0
    <2>1. Bad \in SUBSET Nat
      OBVIOUS
    <2> HIDE DEF Bad
    <2>2. PICK m \in Bad : \A x \in Bad : m <= x
      BY <2>1, Least
    <2>3. m \in Nat /\ ~ \E g : Good(g, m)
      BY DEF Bad
    <2>4. CASE m = 0
      <3> DEFINE g == [i \in 0 .. 0 |-> s0]
      <3>1. Good(g, 0)
        BY DEF g
      <3> QED
        BY <3>1, <2>3, <2>4
    <2>5. CASE m # 0
      <3>1. m - 1 \in Nat /\ m - 1 \notin Bad
        BY <2>2, <2>3, <2>5
      <3>2. PICK h : Good(h, m - 1)
        BY <3>1 DEF Bad
      <3> DEFINE g == [i \in 0 .. m |-> Step(h, i)]
      <3>3. ASSUME NEW i \in 0 .. m PROVE Step(g, i) = Step(h, i)
        <4>1. CASE i = 0
          BY <4>1
        <4>2. CASE i # 0
          <5>1. i - 1 \in 0 .. m /\ i - 1 \in 0 .. m - 1
            BY <4>2, <2>3
          <5>2. g[i - 1] = Step(h, i - 1)
            BY <5>1
          <5>3. h[i - 1] = Step(h, i - 1)
            <6> HIDE DEF Step
            <6> QED
              BY <5>1, <3>2
          <5> HIDE DEF g
          <5> QED
            BY <4>2, <5>2, <5>3
        <4> QED
          BY <4>1, <4>2
      <3>4. Good(g, m)
        <4> HIDE DEF Step
        <4> QED
          BY <3>3
      <3> QED
        BY <3>4, <2>3
    <2> QED
      BY <2>4, <2>5
  <1>2. \E g : Good(g, N)
    BY <1>1
  <1>3. PICK g : Good(g, N) /\ _find(t, k, 0, 0) = Answer(t, g[N])
    BY <1>2 DEF _find, Down, Answer
  <1> HIDE DEF Next1, s0
  <1>4. g[0] = s0 /\ \A i \in 1 .. N : g[i] = Next1(g[i - 1], i)
    <2>1. g = [i \in 0 .. N |-> Step(g, i)]
      BY <1>3
    <2>2. \A i \in 0 .. N : g[i] = Step(g, i)
      <3> HIDE DEF Step
      <3> QED
        BY <2>1
    <2> QED
      BY <2>2
  <1> QED
    BY <1>3, <1>4 DEF Next1, s0

\* What the trie of a map answers for a path k.
Right(m, k, v) ==
    IF k \in DOMAIN m THEN v = m[k]
    ELSE v = IF \E x \in DOMAIN m : k \in Prefixes(x) THEN NoValue ELSE NoPath

\* A path that is named in the tree of a map is the beginning of a key.
LEMMA HasKey ==
    ASSUME NEW m, IsMap(m), NEW k, IsKey(k)
    PROVE  Has(KeyTree(m), k) <=> \E x \in DOMAIN m : k \in Prefixes(x)
  <1> DEFINE N == Len(k)
             C == KeyTree(m)
  <1>1. N \in Nat /\ N >= 1 /\ k \in Seq(Labels)
    BY EndedFacts
  <1>8. Has(C, k) <=> \E x \in DOMAIN m : k \in Prefixes(x)
    <2>1. ASSUME NEW y \in C, y[1] = k PROVE \E x \in DOMAIN m : k \in Prefixes(x)
      <3>1. CASE \E l \in DOMAIN m : IsKey(l) /\ \E j \in 1 .. Len(l) : y = InnerOf(Cut(l, j))
        <4>1. PICK l \in DOMAIN m : IsKey(l) /\ \E j \in 1 .. Len(l) : y = InnerOf(Cut(l, j))
          BY <3>1
        <4>2. \E j \in 1 .. Len(l) : k = Cut(l, j)
          BY <4>1, <2>1 DEF InnerOf
        <4> QED
          BY <4>1, <4>2, PrefixForm
      <3>2. CASE \E l \in DOMAIN m : IsKey(l) /\ y = EndOf(m, l)
        <4>1. PICK l \in DOMAIN m : IsKey(l) /\ y = EndOf(m, l)
          BY <3>2
        <4>2. Ended(l) = k /\ Cut(k, N) = k /\ N \in 1 .. Len(k)
          <5>1. Cut(k, N) = k
            <6>1. N \in 0 .. Len(k)
              BY <1>1
            <6> QED
              BY <6>1, <1>1, CutFacts
          <5> QED
            BY <5>1, <4>1, <2>1, <1>1 DEF EndOf
        <4> QED
          BY <4>1, <4>2, EndsApart
      <3> QED
        BY <3>1, <3>2, <2>1, TreeForm DEF C
    <2>2. ASSUME NEW x \in DOMAIN m, k \in Prefixes(x) PROVE Has(C, k)
      <3>1. IsKey(x) /\ \A j \in 1 .. Len(x) : InnerOf(Cut(x, j)) \in C
        BY TreeHas DEF C
      <3>2. PICK j \in 1 .. Len(x) : k = Cut(x, j)
        BY <3>1, <2>2, PrefixForm
      <3>3. InnerOf(k) \in C /\ InnerOf(k)[1] = k
        BY <3>1, <3>2 DEF InnerOf
      <3> QED
        BY <3>3 DEF Has
    <2> QED
      BY <2>1, <2>2 DEF Has
  <1> QED
    BY <1>8

\* The search has come to the node named k, or missed one on the way to it.
CameTo(t, m, V, P, k, e) ==
    \/ e.miss = TRUE /\ ~ Has(KeyTree(m), k)
    \/ e.miss = FALSE /\ e.at \in V \cup {0} /\ P[e.at] = k

\* What is answered then is right.
LEMMA AnswerRight ==
    ASSUME NEW t, NEW m, IsMap(m), NEW V, NEW P, NEW L, NEW O, SpellsAs(t, m, V, P, L, O),
           NEW k, IsKey(k), NEW e, CameTo(t, m, V, P, k, e), NEW r, r = Answer(t, e)
    PROVE  /\ Right(m, k, r.value)
           /\ k \in DOMAIN m => r.at \in V /\ P[r.at] = k
  <1> DEFINE N == Len(k)
             path == Ended(k)
             C == KeyTree(m)
  <1>1. /\ path \in Seq(Labels) /\ Len(path) = N + 1 /\ N \in Nat /\ N >= 1 /\ path[N + 1] = 0
        /\ \A i \in 1 .. N : path[i] = k[i] /\ path[i] # 0
        /\ Cut(path, N) = k /\ k \in Seq(Labels)
    BY EndedFacts
  <1>3. path = Ended(k)
    OBVIOUS
  <1>4. P[0] = <<>> /\ V \in SUBSET (Slots \ {0})
    BY DEF SpellsAs, Shape, GhostTyped
  <1>5. Cut(path, 0) = <<>> /\ Cut(path, N + 1) = path
    <2>1. N + 1 \in 0 .. Len(path) /\ 0 \in 0 .. Len(path)
      BY <1>1
    <2> HIDE DEF path
    <2> QED
      BY <2>1, <1>1, CutFacts
  <1>7. \/ e.miss = TRUE /\ ~ Has(C, k)
        \/ e.miss = FALSE /\ e.at \in V \cup {0} /\ P[e.at] = Cut(path, N)
    BY <1>1 DEF CameTo
  <1> HIDE DEF path, C
  <1>8. Has(C, k) <=> \E x \in DOMAIN m : k \in Prefixes(x)
    BY HasKey DEF C
  <1>9. Has(C, path) <=> k \in DOMAIN m
    BY <1>3, EndNamed DEF C
  <1> DEFINE n == e.at
             z == t.array[n].base
             to == Xor(z, path[N + 1])
  <1>10. r.at = n /\ r.value = IF e.miss THEN NoPath ELSE IF t.array[z].check # n THEN NoValue ELSE t.array[z].base
    BY DEF Answer
  <1>11. CASE e.miss
    <2>1. ~ Has(C, k) /\ r.value = NoPath
      BY <1>7, <1>10, <1>11, <1>1 DEF C
    <2>2. k \in Prefixes(k)
      <3>1. N \in 1 .. Len(k) /\ N \in 0 .. Len(k)
        BY <1>1
      <3>2. Cut(k, N) = k
        BY <3>1, <1>1, CutFacts
      <3> QED
        BY <3>1, <3>2, PrefixForm
    <2> QED
      BY <2>1, <2>2, <1>8 DEF Right
  <1>12. CASE ~ e.miss
    <2>1. n \in V \cup {0} /\ P[n] = Cut(path, N) /\ N \in 0 .. Len(k)
      BY <1>7, <1>12, <1>1
    <2> HIDE DEF n
    <2>2. /\ z \in Slots
          /\ t.array[to].check = n <=> Has(C, Cut(path, N + 1))
          /\ t.array[to].check = n => to \in V /\ P[to] = Cut(path, N + 1) /\ L[to] = path[N + 1]
      <3>1. z = t.array[n].base /\ path = Ended(k)
        BY <1>3
      <3> QED
        <4>1. OnWay(t, m, V, P, L, O, k, N, n, path, to)
          BY <2>1, <3>1 DEF OnWay
        <4> HIDE DEF N, to
        <4>2. Leads(t, m, V, P, L, N, n, path, to)
          BY ONLY <4>1, FindStep
        <4> QED
          BY <4>2 DEF Leads, C
    <2>3. to = z
      BY <2>2, <1>1, XorAssumption
    <2>4. n # 0 /\ n \in V
      <3>1. Len(<<>>) = 0
        OBVIOUS
      <3> QED
        BY <3>1, <2>1, <1>1, <1>4
    <2>5. Has(C, k)
      BY <2>1, <2>4, <1>1, NodesAre DEF C
    <2>6. r.value = IF t.array[z].check # n THEN NoValue ELSE t.array[z].base
      BY <1>10, <1>12
    <2>7. CASE k \notin DOMAIN m
      <3>1. t.array[z].check # n
        BY <2>2, <2>3, <2>7, <1>5, <1>9
      <3> QED
        BY <3>1, <2>5, <2>6, <2>7, <1>8 DEF Right
    <2>8. CASE k \in DOMAIN m
      <3>1. t.array[z].check = n /\ z \in V /\ P[z] = path /\ L[z] = 0
        BY <2>2, <2>3, <2>8, <1>1, <1>5, <1>9
      <3>2. ~ InnerNode(t, L, z)
        BY <3>1, <1>4 DEF InnerNode
      <3>3. <<path, FALSE, t.array[z].base>> \in KeyTree(m)
        <4> DEFINE x == <<P[z], InnerNode(t, L, z), IF InnerNode(t, L, z) THEN 0 ELSE t.array[z].base>>
        <4>1. x \in KeyTree(m)
          BY <3>1, NodesAre
        <4>2. InnerNode(t, L, z) = FALSE
          BY <3>2
        <4>3. x = <<path, FALSE, t.array[z].base>>
          BY <4>2, <3>1
        <4> HIDE DEF x
        <4> QED
          BY <4>1, <4>3
      <3> DEFINE y == <<path, FALSE, t.array[z].base>>
      <3>4. y[1] = Ended(k) /\ y[3] = t.array[z].base /\ y \in KeyTree(m)
        BY <3>3, <1>3
      <3> HIDE DEF y
      <3>5. y = EndOf(m, k)
        BY <3>4, EndNamed
      <3>6. t.array[z].base = m[k]
        BY <3>4, <3>5 DEF EndOf
      <3> QED
        BY <3>1, <3>6, <2>1, <2>4, <2>6, <2>8, <1>1, <1>10 DEF Right
    <2> QED
      BY <2>7, <2>8
  <1> QED
    BY <1>11, <1>12

\* _find follows the nodes on the way to a key while there are any.
LEMMA FindSpells ==
    ASSUME NEW t, NEW m, IsMap(m), NEW V, NEW P, NEW L, NEW O, SpellsAs(t, m, V, P, L, O),
           NEW k, IsKey(k), NEW r, r = _find(t, k, 0, 0)
    PROVE  /\ Right(m, k, r.value)
           /\ k \in DOMAIN m => r.at \in V /\ P[r.at] = k
  <1> DEFINE N == Len(k)
             path == Ended(k)
             C == KeyTree(m)
  <1>1. /\ path \in Seq(Labels) /\ Len(path) = N + 1 /\ N \in Nat /\ N >= 1 /\ path[N + 1] = 0
        /\ \A i \in 1 .. N : path[i] = k[i] /\ path[i] # 0
        /\ Cut(path, N) = k /\ k \in Seq(Labels)
    BY EndedFacts
  <1>2. PICK g : /\ g[0] = [at |-> 0, pos |-> 0, miss |-> FALSE]
                 /\ \A i \in 1 .. N : g[i] = Down(t, k, g[i - 1], i)
                 /\ r = Answer(t, g[N])
    BY <1>1, FindLoop
  <1>3. Grown(C, path) /\ path = Ended(k)
    BY TreeGrown
  <1>4. P[0] = <<>> /\ V \in SUBSET (Slots \ {0})
    BY DEF SpellsAs, Shape, GhostTyped
  <1>5. Cut(path, 0) = <<>> /\ Cut(path, N + 1) = path
    <2>1. N + 1 \in 0 .. Len(path) /\ 0 \in 0 .. Len(path)
      BY <1>1
    <2> HIDE DEF path
    <2> QED
      BY <2>1, <1>1, CutFacts
  <1> HIDE DEF path, C
  <1> DEFINE Fine(d, i) == /\ "miss" \in DOMAIN d
                           /\ \/ d.miss = TRUE /\ i # 0 /\ ~ Has(C, Cut(path, i))
                              \/ d.miss = FALSE /\ d.at \in V \cup {0} /\ P[d.at] = Cut(path, i)
             Out == {i \in 0 .. N : ~ Fine(g[i], i)}
  <1>6. Out = {}
    <2> SUFFICES ASSUME Out # {} PROVE FALSE
      OBVIOUS
    <2>1. Out \in SUBSET Nat
      OBVIOUS
    <2> HIDE DEF Out
    <2>2. PICK n \in Out : \A x \in Out : n <= x
      BY <2>1, Least
    <2>3. n \in 0 .. N /\ ~ Fine(g[n], n)
      BY DEF Out
    <2>4. n # 0
      <3>1. g[0].miss = FALSE /\ g[0].at = 0 /\ "miss" \in DOMAIN g[0]
        BY <1>2
      <3> QED
        BY <3>1, <2>3, <1>4, <1>5
    <2>5. n - 1 \in 0 .. N /\ n - 1 \notin Out /\ n \in 1 .. N
      BY <1>1, <2>2, <2>3, <2>4
    <2> DEFINE i == n - 1
               a == g[i]
               b == g[n]
               to == Xor(t.array[a.at].base, path[i + 1])
    <2>6. Fine(a, i) /\ b = Down(t, k, a, n) /\ i + 1 = n /\ i \in 0 .. N
      BY <2>5, <1>1, <1>2 DEF Out
    <2>7. path[n] = k[n]
      BY <2>5, <1>1
    <2>8. /\ a.miss \/ t.array[to].check # a.at => b = [a EXCEPT !.miss = TRUE]
          /\ ~ (a.miss \/ t.array[to].check # a.at) => b = [at |-> to, pos |-> n, miss |-> FALSE]
      BY <2>6, <2>7 DEF Down
    <2>9. CASE a.miss
      <3>1. a.miss = TRUE /\ i # 0 /\ ~ Has(C, Cut(path, i))
        BY <2>6, <2>9
      <3>2. i \in 1 .. Len(path) - 1
        BY <3>1, <2>6, <1>1
      <3>3. ~ Has(C, Cut(path, i + 1))
        BY <3>1, <3>2, <1>3 DEF Grown, Has
      <3> HIDE DEF a, b, i
      <3>4. "miss" \in DOMAIN a /\ b = [a EXCEPT !.miss = TRUE]
        BY <2>6, <2>8, <2>9
      <3>5. b.miss = TRUE /\ "miss" \in DOMAIN b
        BY <3>4
      <3> QED
        BY <3>3, <3>5, <2>3, <2>4, <2>6 DEF b
    <2>10. CASE ~ a.miss
      <3>1. a.miss = FALSE /\ a.at \in V \cup {0} /\ P[a.at] = Cut(path, i)
        BY <2>6, <2>10
      <3> DEFINE c == a.at
      <3>2. c \in V \cup {0} /\ P[c] = Cut(path, i) /\ to = Xor(t.array[c].base, path[i + 1])
        BY <3>1
      <3> HIDE DEF a, b, i, to, c
      <3>3. /\ t.array[to].check = c <=> Has(C, Cut(path, i + 1))
            /\ t.array[to].check = c => to \in V /\ P[to] = Cut(path, i + 1)
        <4>1. i \in 0 .. Len(k) /\ path = Ended(k)
          BY <2>6, <1>3
        <4>2. to = Xor(t.array[c].base, path[i + 1]) /\ P[c] = Cut(path, i) /\ c \in V \cup {0}
          BY <3>2
        <4> HIDE DEF C
        <4>3. /\ t.array[to].check = c <=> Has(KeyTree(m), Cut(path, i + 1))
              /\ t.array[to].check = c => to \in V /\ P[to] = Cut(path, i + 1) /\ L[to] = path[i + 1]
          <5>1. OnWay(t, m, V, P, L, O, k, i, c, path, to)
            BY <4>1, <4>2 DEF OnWay
          <5>2. Leads(t, m, V, P, L, i, c, path, to)
            BY ONLY <5>1, FindStep
          <5> QED
            BY ONLY <5>2 DEF Leads
        <4> QED
          BY ONLY <4>3 DEF C
      <3>4. CASE t.array[to].check = c
        <4>1. b = [at |-> to, pos |-> n, miss |-> FALSE]
          BY <2>8, <3>1, <3>4 DEF c
        <4>2. b.miss = FALSE /\ b.at = to /\ "miss" \in DOMAIN b
          BY <4>1
        <4> QED
          BY <4>2, <3>3, <3>4, <2>3, <2>6 DEF b
      <3>5. CASE t.array[to].check # c
        <4>1. b = [a EXCEPT !.miss = TRUE]
          BY <2>8, <3>5 DEF c
        <4>2. "miss" \in DOMAIN a
          BY <2>6
        <4>3. b.miss = TRUE /\ "miss" \in DOMAIN b
          BY <4>1, <4>2
        <4> QED
          BY <4>3, <3>3, <3>5, <2>3, <2>4, <2>6 DEF b
      <3> QED
        BY <3>4, <3>5
    <2> QED
      BY <2>9, <2>10
  <1>7. Fine(g[N], N)
    BY <1>1, <1>6
  <1> HIDE DEF Out
  <1>8. CameTo(t, m, V, P, k, g[N])
    BY <1>1, <1>7 DEF CameTo, C
  <1> QED
    BY ONLY IsMap(m), SpellsAs(t, m, V, P, L, O), IsKey(k), <1>2, <1>8, AnswerRight

-----------------------------------------------------------------------------
(* build.                                                                  *)

\* The empty trie.
LEMMA InitialHolds ==
    ASSUME NEW R, Spare("chain", R)
    PROVE  Holds(R, InitialTrie, [k \in {} |-> 0]) /\ IsMap([k \in {} |-> 0]) /\ InitialTrie.nblk = 1
  <1> DEFINE m == [k \in {} |-> 0]
  <1>1. TrieOf(R, InitialTrie, {}) /\ InitialTrie.nblk = 1
    BY InitialTree
  <1>2. KeyTree(m) = {} /\ IsMap(m)
    BY DEF KeyTree, IsMap
  <1>3. Holds(R, InitialTrie, m)
    BY <1>1, <1>2 DEF TrieOf, TrieAs, Holds, HoldsAs
  <1> QED
    BY <1>1, <1>2, <1>3

\* The loop of build.
LEMMA BuildLoop ==
    ASSUME NEW t, NEW lines, Len(lines) \in Nat
    PROVE  \E g : /\ g[0] = t
                  /\ \A i \in 1 .. Len(lines) : g[i] = update(g[i - 1], lines[i], i - 1)
                  /\ build(t, lines) = g[Len(lines)]
  <1> DEFINE N == Len(lines)
             s0 == t
             Next1(s, i) == update(s, lines[i], i - 1)
             Step(g, i) == IF i = 0 THEN s0 ELSE Next1(g[i - 1], i)
             Good(g, m) == g = [i \in 0 .. m |-> Step(g, i)]
             Bad == {m \in Nat : ~ \E g : Good(g, m)}
  <1>1. Bad = {}
    <2> SUFFICES ASSUME Bad # {} PROVE FALSE
      OBVIOUS
    <2> HIDE DEF Next1, s0
    <2>1. Bad \in SUBSET Nat
      OBVIOUS
    <2> HIDE DEF Bad
    <2>2. PICK m \in Bad : \A x \in Bad : m <= x
      BY <2>1, Least
    <2>3. m \in Nat /\ ~ \E g : Good(g, m)
      BY DEF Bad
    <2>4. CASE m = 0
      <3> DEFINE g == [i \in 0 .. 0 |-> s0]
      <3>1. Good(g, 0)
        BY DEF g
      <3> QED
        BY <3>1, <2>3, <2>4
    <2>5. CASE m # 0
      <3>1. m - 1 \in Nat /\ m - 1 \notin Bad
        BY <2>2, <2>3, <2>5
      <3>2. PICK h : Good(h, m - 1)
        BY <3>1 DEF Bad
      <3> DEFINE g == [i \in 0 .. m |-> Step(h, i)]
      <3>3. ASSUME NEW i \in 0 .. m PROVE Step(g, i) = Step(h, i)
        <4>1. CASE i = 0
          BY <4>1
        <4>2. CASE i # 0
          <5>1. i - 1 \in 0 .. m /\ i - 1 \in 0 .. m - 1
            BY <4>2, <2>3
          <5>2. g[i - 1] = Step(h, i - 1)
            BY <5>1
          <5>3. h[i - 1] = Step(h, i - 1)
            <6> HIDE DEF Step
            <6> QED
              BY <5>1, <3>2
          <5> HIDE DEF g
          <5> QED
            BY <4>2, <5>2, <5>3
        <4> QED
          BY <4>1, <4>2
      <3>4. Good(g, m)
        <4> HIDE DEF Step
        <4> QED
          BY <3>3
      <3> QED
        BY <3>4, <2>3
    <2> QED
      BY <2>4, <2>5
  <1>2. \E g : Good(g, N)
    BY <1>1
  <1>3. PICK g : Good(g, N) /\ build(t, lines) = g[N]
    BY <1>2 DEF build
  <1> HIDE DEF Next1, s0
  <1>4. g[0] = s0 /\ \A i \in 1 .. N : g[i] = Next1(g[i - 1], i)
    <2>1. g = [i \in 0 .. N |-> Step(g, i)]
      BY <1>3
    <2>2. \A i \in 0 .. N : g[i] = Step(g, i)
      <3> HIDE DEF Step
      <3> QED
        BY <2>1
    <2> QED
      BY <2>2
  <1> QED
    BY <1>3, <1>4 DEF Next1, s0

\* The map is made in the same steps.
LEMMA NumberedLoop ==
    ASSUME NEW lines, Len(lines) \in Nat
    PROVE  \E g : /\ g[0] = [k \in {} |-> 0]
                  /\ \A i \in 1 .. Len(lines) :
                       g[i] = Map!With(g[i - 1], lines[i], Map!ValueIn(g[i - 1], lines[i]) + i - 1)
                  /\ Numbered(lines) = g[Len(lines)]
  <1> DEFINE N == Len(lines)
             s0 == [k \in {} |-> 0]
             Next1(s, i) == Map!With(s, lines[i], Map!ValueIn(s, lines[i]) + i - 1)
             Step(g, i) == IF i = 0 THEN s0 ELSE Next1(g[i - 1], i)
             Good(g, m) == g = [i \in 0 .. m |-> Step(g, i)]
             Bad == {m \in Nat : ~ \E g : Good(g, m)}
  <1>1. Bad = {}
    <2> SUFFICES ASSUME Bad # {} PROVE FALSE
      OBVIOUS
    <2> HIDE DEF Next1, s0
    <2>1. Bad \in SUBSET Nat
      OBVIOUS
    <2> HIDE DEF Bad
    <2>2. PICK m \in Bad : \A x \in Bad : m <= x
      BY <2>1, Least
    <2>3. m \in Nat /\ ~ \E g : Good(g, m)
      BY DEF Bad
    <2>4. CASE m = 0
      <3> DEFINE g == [i \in 0 .. 0 |-> s0]
      <3>1. Good(g, 0)
        BY DEF g
      <3> QED
        BY <3>1, <2>3, <2>4
    <2>5. CASE m # 0
      <3>1. m - 1 \in Nat /\ m - 1 \notin Bad
        BY <2>2, <2>3, <2>5
      <3>2. PICK h : Good(h, m - 1)
        BY <3>1 DEF Bad
      <3> DEFINE g == [i \in 0 .. m |-> Step(h, i)]
      <3>3. ASSUME NEW i \in 0 .. m PROVE Step(g, i) = Step(h, i)
        <4>1. CASE i = 0
          BY <4>1
        <4>2. CASE i # 0
          <5>1. i - 1 \in 0 .. m /\ i - 1 \in 0 .. m - 1
            BY <4>2, <2>3
          <5>2. g[i - 1] = Step(h, i - 1)
            BY <5>1
          <5>3. h[i - 1] = Step(h, i - 1)
            <6> HIDE DEF Step
            <6> QED
              BY <5>1, <3>2
          <5> HIDE DEF g
          <5> QED
            BY <4>2, <5>2, <5>3
        <4> QED
          BY <4>1, <4>2
      <3>4. Good(g, m)
        <4> HIDE DEF Step
        <4> QED
          BY <3>3
      <3> QED
        BY <3>4, <2>3
    <2> QED
      BY <2>4, <2>5
  <1>2. \E g : Good(g, N)
    BY <1>1
  <1>3. PICK g : Good(g, N) /\ Numbered(lines) = g[N]
    BY <1>2 DEF Numbered
  <1> HIDE DEF Next1, s0
  <1>4. g[0] = s0 /\ \A i \in 1 .. N : g[i] = Next1(g[i - 1], i)
    <2>1. g = [i \in 0 .. N |-> Step(g, i)]
      BY <1>3
    <2>2. \A i \in 0 .. N : g[i] = Step(g, i)
      <3> HIDE DEF Step
      <3> QED
        BY <2>1
    <2> QED
      BY <2>2
  <1> QED
    BY <1>3, <1>4 DEF Next1, s0

\* build, from the empty trie: the trie holds the map of the lines.
LEMMA BuildHolds ==
    ASSUME NEW R, Spare("chain", R), NEW lines, NEW n \in Nat, Len(lines) = n,
           NEW K, \A i \in 1 .. n : lines[i] \in K,
           \A k \in K : IsKey(k) /\ k[1] \in R, NEW w \in Nat,
           \A i \in 1 .. n : Len(lines[i]) < w, n * w < MaxBlocks
    PROVE  /\ Holds(R, build(InitialTrie, lines), Numbered(lines))
           /\ IsMap(Numbered(lines)) /\ DOMAIN Numbered(lines) \subseteq K
  <1> DEFINE m0 == [k \in {} |-> 0]
  <1>1. PICK g : /\ g[0] = InitialTrie
                 /\ \A i \in 1 .. n : g[i] = update(g[i - 1], lines[i], i - 1)
                 /\ build(InitialTrie, lines) = g[n]
    <2> DEFINE t == InitialTrie
    <2> HIDE DEF t
    <2>1. Len(lines) \in Nat
      OBVIOUS
    <2>2. \E g : /\ g[0] = t
                 /\ \A i \in 1 .. Len(lines) : g[i] = update(g[i - 1], lines[i], i - 1)
                 /\ build(t, lines) = g[Len(lines)]
      BY ONLY <2>1, BuildLoop
    <2> QED
      BY <2>2 DEF t
  <1>2. PICK h : /\ h[0] = m0
                 /\ \A i \in 1 .. n :
                      h[i] = Map!With(h[i - 1], lines[i], Map!ValueIn(h[i - 1], lines[i]) + i - 1)
                 /\ Numbered(lines) = h[n]
    BY NumberedLoop
  <1>3. Holds(R, InitialTrie, m0) /\ IsMap(m0) /\ DOMAIN m0 = {} /\ InitialTrie.nblk = 1
    BY InitialHolds
  <1> HIDE DEF m0
  <1> DEFINE Fine(i) == /\ Holds(R, g[i], h[i]) /\ IsMap(h[i]) /\ DOMAIN h[i] \subseteq K
                        /\ g[i].nblk \in Nat /\ g[i].nblk <= 1 + i * w
             Out == {i \in 0 .. n : ~ Fine(i)}
  <1>4. Fine(0)
    BY <1>1, <1>2, <1>3
  <1>5. Out = {}
    <2> SUFFICES ASSUME Out # {} PROVE FALSE
      OBVIOUS
    <2> HIDE DEF Fine
    <2>1. Out \in SUBSET Nat
      OBVIOUS
    <2> HIDE DEF Out
    <2>2. PICK j \in Out : \A x \in Out : j <= x
      BY <2>1, Least
    <2>3. j \in 0 .. n /\ ~ Fine(j)
      BY DEF Out
    <2>4. j # 0
      BY <2>3, <1>4
    <2>5. j - 1 \in 0 .. n /\ j - 1 \notin Out /\ j \in 1 .. n
      BY <2>2, <2>3, <2>4
    <2> DEFINE i == j - 1
               t == g[i]
               m == h[i]
               k == lines[j]
               v == Map!ValueIn(m, k) + i
    <2>6. Fine(i) /\ g[j] = update(t, k, i) /\ h[j] = Map!With(m, k, Map!ValueIn(m, k) + j - 1)
      BY <2>5, <1>1, <1>2 DEF Out
    <2>7. i \in Nat /\ j = i + 1 /\ i + 1 <= n
      BY <2>5
    <2>8. k \in K /\ IsKey(k) /\ k[1] \in R /\ Len(k) < w
      BY <2>5
    <2> HIDE DEF i, t, k
    <2>9. Holds(R, t, m) /\ IsMap(m) /\ DOMAIN m \subseteq K /\ t.nblk \in Nat /\ t.nblk <= 1 + i * w
      BY <2>6 DEF Fine, t
    <2> HIDE DEF m
    <2>10. Len(k) \in Nat
      BY <2>8, EndedFacts
    <2>11. t.nblk + Len(k) + 1 <= 1 + j * w /\ 1 + j * w <= MaxBlocks
      <3>1. j * w = i * w + w
        BY <2>7
      <3>2. j * w <= n * w
        BY <2>7
      <3>3. j * w \in Nat /\ i * w \in Nat /\ n * w \in Nat /\ MaxBlocks \in Nat
        BY <2>7, BlockAssumption
      <3> QED
        BY <3>1, <3>2, <3>3, <2>8, <2>9, <2>10
    <2>12. Room(t, k)
      <3>1. j * w \in Nat /\ MaxBlocks \in Nat
        BY <2>7, BlockAssumption
      <3> QED
        BY <3>1, <2>9, <2>10, <2>11 DEF Room
    <2>13. h[j] = Map!With(m, k, v)
      <3>1. Map!ValueIn(m, k) \in Int
        BY <2>9 DEF Map!ValueIn, IsMap
      <3>2. Map!ValueIn(m, k) + j - 1 = v
        BY <3>1, <2>7
      <3> QED
        BY <3>2, <2>6
    <2> HIDE DEF v
    <2> DEFINE y == g[j]
               z == h[j]
    <2>14. y = update(t, k, i) /\ z = Map!With(m, k, v) /\ v = Map!ValueIn(m, k) + i
      BY <2>6, <2>13 DEF v
    <2> HIDE DEF y, z
    <2>15. Holds(R, y, z) /\ IsMap(z) /\ y.nblk \in Nat /\ y.nblk <= t.nblk + Len(k) + 1
      BY <2>7, <2>8, <2>9, <2>12, <2>14, UpdateHolds
    <2>16. DOMAIN z \subseteq K
      BY <2>8, <2>9, <2>14 DEF Map!With
    <2>17. y.nblk <= 1 + j * w
      <3>1. j * w \in Nat
        BY <2>7
      <3> QED
        BY <3>1, <2>9, <2>10, <2>11, <2>15
    <2>18. Fine(j)
      BY <2>15, <2>16, <2>17 DEF Fine, y, z
    <2> QED
      BY <2>3, <2>18
  <1>6. Fine(n)
    BY <1>5
  <1> QED
    BY <1>1, <1>2, <1>6

-----------------------------------------------------------------------------
(* open and _restore_block.                                                *)

\* open: the array is what it was, and the tables are empty.
LEMMA OpenSound ==
    ASSUME NEW R, NEW t, NEW c, NEW r, SoundTo(R, t, c, r), NEW u, u = open(t)
    PROVE  SoundTo(R, u, 0, 0) /\ u.array = t.array /\ u.nblk = t.nblk
  <1>1. TrieTyped(t) /\ PoolFields \subseteq DOMAIN t
    BY DEF SoundTo
  <1>2. /\ DOMAIN u = DOMAIN t /\ u.array = t.array /\ u.nblk = t.nblk /\ u.limit = t.limit
        /\ u.num = [b \in Blocks |-> B] /\ u.lists = NoLists /\ u.trial = [b \in Blocks |-> 0]
        /\ u.ehead = [b \in Blocks |-> 0] /\ u.reject = [b \in Blocks |-> B + 1]
        /\ u.sibling = [e \in Slots |-> 0] /\ u.child = [e \in Slots |-> 0]
    BY <1>1 DEF open, ForgetBlocks, PoolFields, TrieTyped, IsNinfo
  <1>3. TrieTyped(u)
    <2>1. 0 \in Labels
      BY BlockAssumption DEF Labels
    <2> QED
      BY <2>1, <1>1, <1>2 DEF TrieTyped, IsNinfo
  <1>4. Forgotten(t, u)
    BY <1>1, <1>2, <1>3 DEF Forgotten
  <1> QED
    BY <1>2, <1>4, ForgottenSound

-----------------------------------------------------------------------------
(* _restore_ninfo.                                                         *)

\* An inner node has a child: the keys below it go on.
LEMMA InnerGoesOn ==
    ASSUME NEW t, NEW m, IsMap(m), NEW V, NEW P, NEW L, NEW O, SpellsAs(t, m, V, P, L, O),
           NEW n \in V, InnerNode(t, L, n)
    PROVE  \E e \in V : t.array[e].check = n
  <1>1. <<P[n], TRUE, 0>> \in KeyTree(m)
    BY NodesAre
  <1> DEFINE x == <<P[n], TRUE, 0>>
  <1>2. ASSUME NEW k \in DOMAIN m, x = EndOf(m, k) PROVE FALSE
    <2>1. x[2] = EndOf(m, k)[2]
      BY <1>2
    <2> QED
      BY <2>1 DEF EndOf
  <1>3. PICK k \in DOMAIN m : IsKey(k) /\ \E i \in 1 .. Len(k) : x = InnerOf(Cut(k, i))
    BY <1>1, <1>2, TreeForm
  <1>4. PICK i \in 1 .. Len(k) : x = InnerOf(Cut(k, i))
    BY <1>3
  <1>5. P[n] = Cut(k, i)
    <2>1. x[1] = InnerOf(Cut(k, i))[1]
      BY <1>4
    <2> QED
      BY <2>1 DEF InnerOf
  <1> DEFINE path == Ended(k)
             e == Xor(t.array[n].base, path[i + 1])
  <1>6. /\ i \in 0 .. Len(k) /\ Len(k) \in Nat /\ path \in Seq(Labels) /\ Len(path) = Len(k) + 1
        /\ \A j \in 0 .. Len(k) : Cut(path, j) = Cut(k, j)
    BY <1>3, EndedFacts
  <1>7. Has(KeyTree(m), Cut(path, i + 1))
    <2>1. CASE i < Len(k)
      <3>1. i + 1 \in 1 .. Len(k) /\ i + 1 \in 0 .. Len(k)
        BY <2>1, <1>6
      <3>2. InnerOf(Cut(k, i + 1)) \in KeyTree(m) /\ Cut(path, i + 1) = Cut(k, i + 1)
        BY <3>1, <1>6, TreeHas
      <3> QED
        BY <3>2 DEF InnerOf, Has
    <2>2. CASE i = Len(k)
      <3>1. Cut(path, i + 1) = path
        BY <2>2, <1>6, CutFacts
      <3>2. EndOf(m, k) \in KeyTree(m)
        BY TreeHas
      <3> QED
        BY <3>1, <3>2 DEF EndOf, Has
    <2> QED
      BY <2>1, <2>2, <1>6
  <1>8. P[n] = Cut(path, i)
    BY <1>5, <1>6
  <1>9. e = Xor(t.array[n].base, path[i + 1]) /\ path = Ended(k) /\ n \in V \cup {0}
    OBVIOUS
  <1> HIDE DEF e, path
  <1>10. OnWay(t, m, V, P, L, O, k, i, n, path, e)
    BY <1>3, <1>6, <1>8, <1>9 DEF OnWay
  <1>11. Leads(t, m, V, P, L, i, n, path, e)
    BY <1>10, FindStep
  <1> QED
    BY <1>7, <1>11 DEF Leads

-----------------------------------------------------------------------------
(* The invariant.                                                          *)

\* The trie and those of its tables that are there hold the map: the array in
\* any case, the chains with _ninfo, and the blocks with _block.  Without it,
\* no block is registered.
KeptAs(R, t, m, has, V, P, L, O) ==
    /\ SpellsAs(t, m, V, P, L, O)
    /\ IF "_block" \in has THEN Sound(R, t) ELSE SoundTo(R, t, 0, 0)
    /\ "_ninfo" \in has => IsTree(t, V, P, L, O, {}, {})

\* They do, with some names for the nodes.
Keeps(R, t, m, has) == \E V, P, L, O : KeptAs(R, t, m, has, V, P, L, O)

\* A trie with both tables.
LEMMA KeptHolds ==
    ASSUME NEW R, NEW t, NEW m
    PROVE  Keeps(R, t, m, Tables) <=> Holds(R, t, m)
  <1>1. ASSUME NEW V, NEW P, NEW L, NEW O, KeptAs(R, t, m, Tables, V, P, L, O)
        PROVE  HoldsAs(R, t, m, V, P, L, O)
    BY <1>1 DEF KeptAs, Tables, HoldsAs, SpellsAs, Shape
  <1>2. ASSUME NEW V, NEW P, NEW L, NEW O, HoldsAs(R, t, m, V, P, L, O)
        PROVE  KeptAs(R, t, m, Tables, V, P, L, O)
    BY <1>2, HoldsSpells DEF KeptAs, Tables, HoldsAs
  <1> QED
    BY <1>1, <1>2 DEF Keeps, Holds

\* The allocator of a trie, with both counts the same.
LEMMA KeptSound ==
    ASSUME NEW R, NEW t, NEW m, NEW has, NEW V, NEW P, NEW L, NEW O, KeptAs(R, t, m, has, V, P, L, O)
    PROVE  TrieTyped(t) /\ PoolFields \subseteq DOMAIN t /\ \E c : SoundTo(R, t, c, c)
  <1>1. \E c : SoundTo(R, t, c, c)
    BY DEF KeptAs, Sound
  <1> QED
    BY <1>1 DEF SoundTo

\* What the array holds does not depend on the tables.
LEMMA SpellsSame ==
    ASSUME NEW t, NEW m, NEW V, NEW P, NEW L, NEW O, SpellsAs(t, m, V, P, L, O),
           NEW u, u.array = t.array, u.nblk = t.nblk
    PROVE  SpellsAs(u, m, V, P, L, O)
  <1>1. \A n : InnerNode(u, L, n) <=> InnerNode(t, L, n)
    BY DEF InnerNode
  <1>2. Content(u, V, P, L) = Content(t, V, P, L)
    <2> DEFINE f(x) == <<P[x], InnerNode(t, L, x), IF InnerNode(t, L, x) THEN 0 ELSE t.array[x].base>>
               g(x) == <<P[x], InnerNode(u, L, x), IF InnerNode(u, L, x) THEN 0 ELSE u.array[x].base>>
    <2>1. \A x : f(x) = g(x)
      <3> SUFFICES ASSUME NEW x PROVE f(x) = g(x)
        OBVIOUS
      <3>1. InnerNode(u, L, x) = InnerNode(t, L, x)
        BY DEF InnerNode
      <3> QED
        BY <3>1
    <2>2. Content(t, V, P, L) = {f(x) : x \in V} /\ Content(u, V, P, L) = {g(x) : x \in V}
      BY DEF Content
    <2> HIDE DEF f, g
    <2> QED
      BY <2>1, <2>2
  <1>3. Taken(u) = Taken(t)
    BY DEF Taken
  <1>4. Edges(u, V, P, L, O) /\ Settled(u, V, O, {}) /\ Bases(u, V, L)
    <2>1. Edges(t, V, P, L, O) /\ Settled(t, V, O, {}) /\ Bases(t, V, L)
      BY DEF SpellsAs, Shape
    <2>2. Edges(u, V, P, L, O)
      BY <1>1, <2>1 DEF Edges
    <2>3. Settled(u, V, O, {})
      BY <2>1 DEF Settled
    <2>4. Bases(u, V, L)
      BY <1>1, <2>1 DEF Bases
    <2> QED
      BY <2>2, <2>3, <2>4
  <1> QED
    BY <1>2, <1>3, <1>4 DEF SpellsAs, Shape

\* _restore_ninfo: the trie holds what its array does, now with its chains.
LEMMA NinfoKeeps ==
    ASSUME NEW R, NEW t, NEW m, IsMap(m), NEW has, Keeps(R, t, m, has), NEW u, u = _restore_ninfo(t)
    PROVE  Keeps(R, u, m, has \cup {"_ninfo"}) /\ u.nblk = t.nblk
  <1>1. PICK V, P, L, O : KeptAs(R, t, m, has, V, P, L, O)
    BY DEF Keeps
  <1>2. TrieTyped(t) /\ SpellsAs(t, m, V, P, L, O)
    BY <1>1, KeptSound DEF KeptAs
  <1>2i. Shape(t, V, P, L, O) /\ \A n \in V : InnerNode(t, L, n) => \E e \in V : t.array[e].check = n
    <2>1. IsMap(m) /\ SpellsAs(t, m, V, P, L, O)
      BY <1>1, <1>2 DEF Keeps
    <2>2. \A n \in V : InnerNode(t, L, n) => \E e \in V : t.array[e].check = n
      BY <2>1, InnerGoesOn
    <2>3. Shape(t, V, P, L, O)
      BY <2>1 DEF SpellsAs
    <2> QED
      BY <2>2, <2>3
  <1>3. /\ IsTree(u, V, P, L, O, {}, {}) /\ DOMAIN u = DOMAIN t
        /\ \A field \in DOMAIN t \ {"sibling", "child"} : u[field] = t[field]
    BY ONLY <1>2, <1>2i, RestoreNinfoTree, u = _restore_ninfo(t)
  <1>4. TrieTyped(u) /\ u.array = t.array /\ u.nblk = t.nblk
    BY <1>2, <1>3 DEF IsTree, TrieTyped
  <1>5. SpellsAs(u, m, V, P, L, O)
    BY <1>2, <1>4, SpellsSame
  <1>6. IF "_block" \in has THEN Sound(R, u) ELSE SoundTo(R, u, 0, 0)
    <2>1. CASE "_block" \in has
      <3>1. SoundTo(R, t, t.nblk, t.nblk)
        BY <1>1, <2>1 DEF KeptAs, Sound
      <3>2. SoundTo(R, u, t.nblk, t.nblk)
        BY <3>1, <1>3, <1>4, SoundSame
      <3> QED
        BY <3>2, <2>1, <1>4 DEF Sound
    <2>2. CASE "_block" \notin has
      <3>1. SoundTo(R, t, 0, 0)
        BY <1>1, <2>2 DEF KeptAs
      <3>2. SoundTo(R, u, 0, 0)
        BY <3>1, <1>3, <1>4, SoundSame
      <3> QED
        BY <3>2, <2>2
    <2> QED
      BY <2>1, <2>2
  <1>7. KeptAs(R, u, m, has \cup {"_ninfo"}, V, P, L, O)
    BY <1>3, <1>5, <1>6 DEF KeptAs
  <1> QED
    BY <1>4, <1>7 DEF Keeps

\* _restore_block: so it does, now with its blocks.
LEMMA BlockKeeps ==
    ASSUME NEW R, NEW t, NEW m, NEW has, Keeps(R, t, m, has), NEW u, u = _restore_block(t)
    PROVE  Keeps(R, u, m, has \cup {"_block"}) /\ u.nblk = t.nblk
  <1>1. PICK V, P, L, O : KeptAs(R, t, m, has, V, P, L, O)
    BY DEF Keeps
  <1>2. PICK c : SoundTo(R, t, c, c)
    BY <1>1, KeptSound
  <1>3. Sound(R, u) /\ SameNodes(t, u)
    BY <1>2, RestoreBlockSound
  <1>4. SpellsAs(u, m, V, P, L, O)
    BY <1>1, <1>3, SpellsSame DEF KeptAs, SameNodes
  <1>5. "_ninfo" \in has => IsTree(u, V, P, L, O, {}, {})
    BY <1>1, <1>3, TreeSame DEF KeptAs, Sound, SoundTo
  <1>6. KeptAs(R, u, m, has \cup {"_block"}, V, P, L, O)
    BY <1>3, <1>4, <1>5 DEF KeptAs
  <1> QED
    BY <1>3, <1>6 DEF Keeps, SameNodes

\* restore: the trie holds the map with both tables.
LEMMA RestoreHolds ==
    ASSUME NEW R, NEW t, NEW m, IsMap(m), NEW has, has \subseteq Tables, Keeps(R, t, m, has),
           NEW u, u = restore(t, has)
    PROVE  Holds(R, u, m) /\ u.nblk = t.nblk
  <1> DEFINE z == IF "_block" \notin has THEN _restore_block(t) ELSE t
  <1>1. Keeps(R, z, m, has \cup {"_block"}) /\ z.nblk = t.nblk
    <2>1. CASE "_block" \notin has
      BY <2>1, BlockKeeps
    <2>2. CASE "_block" \in has
      <3>1. has \cup {"_block"} = has
        BY <2>2
      <3> QED
        BY <3>1, <2>2
    <2> QED
      BY <2>1, <2>2
  <1>2. u = IF "_ninfo" \notin has THEN _restore_ninfo(z) ELSE z
    BY DEF restore
  <1> HIDE DEF z
  <1>3. Keeps(R, u, m, Tables) /\ u.nblk = z.nblk
    <2>1. CASE "_ninfo" \notin has
      <3>1. Keeps(R, u, m, (has \cup {"_block"}) \cup {"_ninfo"}) /\ u.nblk = z.nblk
        BY <2>1, <1>1, <1>2, NinfoKeeps
      <3>2. (has \cup {"_block"}) \cup {"_ninfo"} = Tables
        BY DEF Tables
      <3> QED
        BY <3>1, <3>2
    <2>2. CASE "_ninfo" \in has
      <3>1. has \cup {"_block"} = Tables
        BY <2>2 DEF Tables
      <3> QED
        BY <3>1, <2>2, <1>1, <1>2
    <2> QED
      BY <2>1, <2>2
  <1> QED
    BY <1>1, <1>3, KeptHolds

\* open: the array is all that is left, and it is enough.
LEMMA OpenKeeps ==
    ASSUME NEW R, NEW t, NEW m, NEW has, Keeps(R, t, m, has), NEW u, u = open(t)
    PROVE  Keeps(R, u, m, {})
  <1>1. PICK V, P, L, O : KeptAs(R, t, m, has, V, P, L, O)
    BY DEF Keeps
  <1>2. PICK c : SoundTo(R, t, c, c)
    BY <1>1, KeptSound
  <1>3. SoundTo(R, u, 0, 0) /\ u.array = t.array /\ u.nblk = t.nblk
    BY <1>2, OpenSound
  <1>4. SpellsAs(u, m, V, P, L, O)
    BY <1>1, <1>3, SpellsSame DEF KeptAs
  <1>5. KeptAs(R, u, m, {}, V, P, L, O)
    BY <1>3, <1>4 DEF KeptAs
  <1> QED
    BY <1>5 DEF Keeps

\* No key starts with the label 1, whose slot of block 0 a rebuilt block table
\* never gives away.
RootSpare == \A k \in Keys : k[1] # 1

\* The labels keys start with.
FirstLabels == {k[1] : k \in Keys}

\* The trie holds the map, however many of its tables are there.
IInv ==
    /\ tables \subseteq Tables
    /\ IsMap(map) /\ DOMAIN map \subseteq Keys
    /\ Keeps(FirstLabels, trie, map, tables)

\* The keys of the model.
LEMMA KeysFacts ==
    ASSUME RootSpare
    PROVE  /\ Spare("chain", FirstLabels)
           /\ \A k \in Keys : IsKey(k) /\ k[1] \in FirstLabels
           /\ Values \subseteq Nat
  <1>1. \A k \in Keys : IsKey(k) /\ k[1] \in FirstLabels
    BY KeyAssumption DEF IsKey, FirstLabels
  <1>2. \A k \in Keys : k[1] \in Labels \ {0} /\ k[1] # 1
    <2> SUFFICES ASSUME NEW k \in Keys PROVE k[1] \in Labels \ {0}
      BY DEF RootSpare
    <2>1. IsKey(k)
      BY <1>1
    <2>2. 1 \in 1 .. Len(k)
      BY <2>1, EndedFacts
    <2> QED
      BY <2>1, <2>2 DEF IsKey
  <1>3. Values \subseteq Nat
    BY KeyAssumption
  <1> QED
    BY <1>1, <1>2, <1>3 DEF Spare, FirstLabels

\* build makes the trie of the lines.
LEMMA InitKept ==
    ASSUME RootSpare, Init
    PROVE  IInv
  <1> DEFINE n == Len(Preload)
  <1>1. PICK m \in 1 .. MaxBlocks : /\ \A i \in DOMAIN Preload : Len(Preload[i]) < m
                                    /\ n * m < MaxBlocks
    BY KeyAssumption
  <1>2. n \in Nat /\ DOMAIN Preload = 1 .. n /\ \A i \in 1 .. n : Preload[i] \in Keys
    BY KeyAssumption
  <1>3. m \in Nat
    BY <1>1, BlockAssumption
  <1>4. /\ Holds(FirstLabels, build(InitialTrie, Preload), Numbered(Preload))
        /\ IsMap(Numbered(Preload)) /\ DOMAIN Numbered(Preload) \subseteq Keys
    BY <1>1, <1>2, <1>3, KeysFacts, BuildHolds
  <1> QED
    BY <1>4, KeptHolds DEF Init, IInv

\* update, with what restore does before.
LEMMA UpdateKept ==
    ASSUME RootSpare, IInv, NEW k \in Keys, NEW d \in Values, UpdateKey(k, d)
    PROVE  IInv'
  <1> DEFINE R == FirstLabels
             t == restore(trie, tables)
             w == Map!With(map, k, Map!ValueIn(map, k) + d)
  <1>1. Spare("chain", R) /\ IsKey(k) /\ k[1] \in R /\ d \in Nat
    BY KeysFacts
  <1>2. Holds(R, t, map) /\ IsMap(map)
    BY RestoreHolds DEF IInv
  <1>3. Room(t, k)
    <2>1. t.nblk = trie.nblk
      BY RestoreHolds DEF IInv
    <2> QED
      BY <2>1 DEF UpdateKey, Room
  <1>4. trie' = update(t, k, d) /\ tables' = Tables /\ map' = w
    BY DEF UpdateKey, Map!Add, Map!Put, Map!ValueAt
  <1> HIDE DEF R, t, w
  <1>5. Holds(R, trie', w) /\ IsMap(w)
    BY <1>1, <1>2, <1>3, <1>4, UpdateHolds DEF w
  <1>6. DOMAIN w \subseteq Keys
    BY DEF w, Map!With, IInv
  <1> QED
    BY <1>4, <1>5, <1>6, KeptHolds DEF IInv, R, FirstLabels

\* erase, from the node _find has reached.
LEMMA EraseKept ==
    ASSUME RootSpare, IInv, NEW k \in Keys, EraseKey(k)
    PROVE  IInv'
  <1> DEFINE R == FirstLabels
             r == _find(trie, k, 0, 0)
             w == Map!Without(map, k)
  <1>1. Spare("chain", R) /\ IsKey(k) /\ IsMap(map)
    BY KeysFacts DEF IInv
  <1>2. Holds(R, trie, map)
    BY KeptHolds DEF IInv, EraseKey
  <1>3. PICK V, P, L, O : HoldsAs(R, trie, map, V, P, L, O)
    BY <1>2 DEF Holds
  <1>4. SpellsAs(trie, map, V, P, L, O)
    BY <1>3, HoldsSpells
  <1>5. r = _find(trie, k, 0, 0) /\ r.value \notin {NoPath, NoValue}
    BY DEF EraseKey
  <1>6. trie' = erase(trie, k, r.at) /\ tables' = tables /\ map' = w /\ tables = Tables
    BY DEF EraseKey, Map!Erase
  <1> HIDE DEF R, r, w
  <1>7. Right(map, k, r.value) /\ (k \in DOMAIN map => r.at \in V /\ P[r.at] = k)
    BY <1>1, <1>4, <1>5, FindSpells
  <1>8. k \in DOMAIN map
    BY <1>5, <1>7 DEF Right
  <1>9. NodeAt(R, trie, map, r.at, k)
    BY <1>3, <1>7, <1>8 DEF NodeAt
  <1>10. Holds(R, trie', w) /\ IsMap(w)
    BY <1>1, <1>6, <1>8, <1>9, EraseHolds DEF w
  <1>11. DOMAIN w \subseteq Keys
    BY DEF w, Map!Without, IInv
  <1> QED
    BY <1>6, <1>10, <1>11, KeptHolds DEF IInv, R, FirstLabels

\* Every call keeps the invariant.
LEMMA NextKept ==
    ASSUME RootSpare, IInv, [Next]_vars
    PROVE  IInv'
  <1>1. CASE \E k \in Keys : EraseKey(k) \/ \E d \in Values : UpdateKey(k, d)
    <2>1. PICK k \in Keys : EraseKey(k) \/ \E d \in Values : UpdateKey(k, d)
      BY <1>1
    <2>2. CASE EraseKey(k)
      BY <2>2, EraseKept
    <2>3. CASE \E d \in Values : UpdateKey(k, d)
      BY <2>3, UpdateKept
    <2> QED
      BY <2>1, <2>2, <2>3
  <1>2. CASE SaveAndOpen
    <2>1. trie' = open(trie) /\ tables' = {} /\ map' = map
      BY <1>2 DEF SaveAndOpen
    <2>2. Keeps(FirstLabels, trie', map, {})
      BY <2>1, OpenKeeps DEF IInv
    <2> QED
      BY <2>1, <2>2 DEF IInv, FirstLabels
  <1>3. CASE Enumerate
    <2>1. trie' = _restore_ninfo(trie) /\ tables' = tables \cup {"_ninfo"} /\ map' = map
      BY <1>3 DEF Enumerate
    <2>2. Keeps(FirstLabels, trie', map, tables \cup {"_ninfo"})
      BY <2>1, NinfoKeeps DEF IInv
    <2> QED
      BY <2>1, <2>2 DEF IInv, FirstLabels, Tables
  <1>4. CASE UNCHANGED vars
    BY <1>4 DEF vars, IInv, FirstLabels
  <1> QED
    BY <1>1, <1>2, <1>3, <1>4 DEF Next

\* The invariant holds of every state.
THEOREM IInvHolds ==
    ASSUME RootSpare
    PROVE  Spec => []IInv
  <1>1. Init => IInv
    BY InitKept
  <1>2. IInv /\ [Next]_vars => IInv'
    BY NextKept
  <1> QED
    BY <1>1, <1>2, PTL DEF Spec

\* Whatever is added, erased, moved, saved and opened, _find answers what the
\* map does, for the keys and for their beginnings.
THEOREM LookupsCorrect ==
    ASSUME RootSpare
    PROVE  Spec => []LookupsRight
  <1>1. IInv => LookupsRight
    <2> SUFFICES ASSUME IInv, NEW x \in Keys, NEW k \in Prefixes(x), NEW v, v = _find(trie, k, 0, 0).value
                 PROVE  IF k \in DOMAIN map THEN v = map[k]
                        ELSE v = IF \E y \in DOMAIN map : k \in Prefixes(y) THEN NoValue ELSE NoPath
      BY DEF LookupsRight
    <2>1. IsKey(k)
      <3>1. IsKey(x)
        BY KeysFacts
      <3> QED
        BY <3>1, PrefixForm
    <2>2. PICK V, P, L, O : SpellsAs(trie, map, V, P, L, O)
      BY DEF IInv, Keeps, KeptAs
    <2>3. IsMap(map)
      BY DEF IInv
    <2> DEFINE r == _find(trie, k, 0, 0)
    <2>4. r = _find(trie, k, 0, 0) /\ v = r.value
      OBVIOUS
    <2> HIDE DEF r
    <2>5. Right(map, k, r.value)
      BY <2>1, <2>2, <2>3, <2>4, FindSpells
    <2> QED
      BY <2>4, <2>5 DEF Right
  <1> QED
    BY <1>1, IInvHolds, PTL

-----------------------------------------------------------------------------
(* The chains, and the slots in use.                                       *)

\* The slots in use are the ones the loops over the array see, and a terminal
\* is the node where the base of its parent is.
Ending(t, m, V, P, L) ==
    /\ V = {e \in 0 .. t.nblk * B - 1 : t.array[e].check >= 0} /\ IsFiniteSet(V)
    /\ \A e \in V : /\ L[e] = 0 <=> t.array[t.array[e].check].base = e
                    /\ InnerNode(t, L, e) <=> L[e] # 0
                    /\ L[e] = 0 => \E k \in DOMAIN m : P[e] = Ended(k)
                    /\ L[e] # 0 => \E k \in DOMAIN m : P[e] \in Prefixes(k)

\* So it is in the trie of a map.
LEMMA Terminals ==
    ASSUME NEW t, NEW m, IsMap(m), NEW V, NEW P, NEW L, NEW O, SpellsAs(t, m, V, P, L, O)
    PROVE  Ending(t, m, V, P, L)
  <1>1. /\ GhostTyped(V, P, L, O) /\ Edges(t, V, P, L, O) /\ Settled(t, V, O, {}) /\ Bases(t, V, L)
        /\ V = Taken(t) /\ t.nblk \in 1 .. MaxBlocks /\ t.array \in [Slots -> [base : Int, check : Int]]
        /\ t.array[0].check < 0
    BY DEF SpellsAs, Shape
  <1>2. /\ V \in SUBSET (Slots \ {0}) /\ L \in [Slots -> Labels] /\ P \in [Slots -> Seq(Labels)]
        /\ O \in [Slots -> Slots] /\ 0 \in Slots /\ 0 \in Labels
    <2>1. 0 \in Labels
      BY BlockAssumption DEF Labels
    <2>2. 0 \in Slots
      BY SlotRange
    <2> QED
      BY <2>1, <2>2, <1>1 DEF GhostTyped
  <1>3. V = {e \in 0 .. t.nblk * B - 1 : t.array[e].check >= 0}
    <2>1. 0 .. t.nblk * B - 1 = {x \in Slots : Block(x) < t.nblk}
      BY <1>1, SlotFacts
    <2> QED
      BY <2>1, <1>1 DEF Taken
  <1>4. IsFiniteSet(V)
    <2>1. t.nblk * B - 1 \in Int
      BY <1>1, BlockAssumption
    <2>2. IsFiniteSet(0 .. t.nblk * B - 1) /\ V \subseteq 0 .. t.nblk * B - 1
      BY <2>1, <1>3, FS_Interval
    <2> QED
      BY <2>2, FS_Subset
  <1>5. ASSUME NEW e \in V
        PROVE  /\ L[e] = 0 <=> t.array[t.array[e].check].base = e
               /\ InnerNode(t, L, e) <=> L[e] # 0
               /\ L[e] = 0 => \E k \in DOMAIN m : P[e] = Ended(k)
               /\ L[e] # 0 => \E k \in DOMAIN m : P[e] \in Prefixes(k)
    <2> DEFINE a == t.array[e].check
               b == O[e]
    <2>1. /\ a \in V \cup {0} /\ e = Xor(b, L[e]) /\ b = t.array[a].base /\ b \in Slots /\ L[e] \in Labels
          /\ P[e] = Named(P[a], L[e]) /\ P[a] \in Seq(Labels) /\ e \in Slots
      BY <1>1, <1>2 DEF Edges, Settled
    <2> HIDE DEF a, b
    <2>2. L[e] = 0 <=> b = e
      <3>1. Xor(b, 0) = b
        BY <2>1, XorAssumption
      <3>2. b = e => L[e] = 0
        BY <3>1, <2>1, <1>2, XorApart
      <3> QED
        BY <3>1, <3>2, <2>1
    <2>3. P[e][Len(P[e])] = L[e]
      BY <2>1 DEF Named
    <2> DEFINE x == <<P[e], InnerNode(t, L, e), IF InnerNode(t, L, e) THEN 0 ELSE t.array[e].base>>
    <2>4. x \in KeyTree(m) /\ x[1] = P[e] /\ x[2] = InnerNode(t, L, e)
      BY NodesAre
    <2> HIDE DEF x
    <2>5. CASE \E k \in DOMAIN m : IsKey(k) /\ \E i \in 1 .. Len(k) : x = InnerOf(Cut(k, i))
      <3>1. PICK k \in DOMAIN m : IsKey(k) /\ \E i \in 1 .. Len(k) : x = InnerOf(Cut(k, i))
        BY <2>5
      <3>2. PICK i \in 1 .. Len(k) : x = InnerOf(Cut(k, i))
        BY <3>1
      <3>3. P[e] = Cut(k, i) /\ (InnerNode(t, L, e) <=> TRUE)
        BY <3>2, <2>4 DEF InnerOf
      <3>4. P[e] \in Prefixes(k)
        BY <3>1, <3>3, PrefixForm
      <3>5. L[e] # 0
        <4>1. k \in Seq(Labels) /\ Len(k) \in Nat /\ i \in 0 .. Len(k) /\ k[i] # 0 /\ i \in 1 .. i
          BY <3>1, EndedFacts
        <4>2. Len(Cut(k, i)) = i /\ Cut(k, i)[i] = k[i]
          BY <4>1, CutFacts
        <4> QED
          BY <4>1, <4>2, <3>3, <2>3
      <3> QED
        BY <3>3, <3>4, <3>5, <2>1, <2>2 DEF a
    <2>6. CASE \E k \in DOMAIN m : IsKey(k) /\ x = EndOf(m, k)
      <3>1. PICK k \in DOMAIN m : IsKey(k) /\ x = EndOf(m, k)
        BY <2>6
      <3>2. P[e] = Ended(k) /\ (InnerNode(t, L, e) <=> FALSE)
        BY <3>1, <2>4 DEF EndOf
      <3>3. L[e] = 0
        <4>1. Len(Ended(k)) = Len(k) + 1 /\ Ended(k)[Len(k) + 1] = 0
          BY <3>1, EndedFacts
        <4> QED
          BY <4>1, <3>2, <2>3
      <3> QED
        BY <3>2, <3>3, <2>1, <2>2 DEF a
    <2> QED
      BY <2>4, <2>5, <2>6, TreeForm
  <1> QED
    BY <1>3, <1>4, <1>5 DEF Ending

\* The slots in use, counted.
LEMMA SlotsCount ==
    ASSUME NEW t, NEW m, IsMap(m), NEW V, NEW P, NEW L, NEW O, SpellsAs(t, m, V, P, L, O)
    PROVE  /\ num_keys(t) = Cardinality(DOMAIN m)
           /\ nonzero_size(t) = Cardinality(DOMAIN m)
                                + Cardinality(UNION {Prefixes(k) : k \in DOMAIN m})
  <1> DEFINE Ends == {e \in V : L[e] = 0}
             Inner == {e \in V : L[e] # 0}
             G == UNION {Prefixes(k) : k \in DOMAIN m}
  <1>1. /\ V = {e \in 0 .. t.nblk * B - 1 : t.array[e].check >= 0} /\ IsFiniteSet(V)
        /\ \A e \in V : L[e] = 0 <=> t.array[t.array[e].check].base = e
        /\ \A e \in Ends : \E k \in DOMAIN m : P[e] = Ended(k)
        /\ \A e \in Inner : \E k \in DOMAIN m : P[e] \in Prefixes(k)
    <2>0. Ending(t, m, V, P, L)
      BY Terminals
    <2>1. /\ V = {e \in 0 .. t.nblk * B - 1 : t.array[e].check >= 0} /\ IsFiniteSet(V)
          /\ \A e \in V : /\ L[e] = 0 <=> t.array[t.array[e].check].base = e
                          /\ L[e] = 0 => \E k \in DOMAIN m : P[e] = Ended(k)
                          /\ L[e] # 0 => \E k \in DOMAIN m : P[e] \in Prefixes(k)
      BY <2>0 DEF Ending
    <2>2. /\ \A e \in V : L[e] = 0 <=> t.array[t.array[e].check].base = e
          /\ \A e \in Ends : \E k \in DOMAIN m : P[e] = Ended(k)
          /\ \A e \in Inner : \E k \in DOMAIN m : P[e] \in Prefixes(k)
      BY <2>1
    <2> QED
      BY <2>1, <2>2
  <1>2. \A a, b \in V : P[a] = P[b] => a = b
    BY NamesApart DEF SpellsAs, Shape
  <1>3. IsFiniteSet(Ends) /\ IsFiniteSet(Inner) /\ Ends \cup Inner = V /\ Ends \cap Inner = {}
    <2>1. Ends \subseteq V /\ Inner \subseteq V
      OBVIOUS
    <2> QED
      BY <2>1, <1>1, FS_Subset
  <1>4. \A k \in DOMAIN m : IsKey(k)
    BY DEF IsMap
  <1>5. IsFiniteSet(DOMAIN m) /\ Cardinality(DOMAIN m) = Cardinality(Ends)
    <2> DEFINE h == [k \in DOMAIN m |-> Ended(k)]
    <2>1. \A a, b \in DOMAIN m : h[a] = h[b] => a = b
      BY <1>4, EndsApart
    <2>2. ASSUME NEW k \in DOMAIN m PROVE \E e \in Ends : P[e] = h[k]
      <3>1. Has(KeyTree(m), Ended(k))
        BY <1>4, EndNamed
      <3>2. PICK e \in V : P[e] = Ended(k)
        BY <3>1, NodesAre
      <3>3. L[e] = 0
        <4> SUFFICES ASSUME L[e] # 0 PROVE FALSE
          OBVIOUS
        <4>1. PICK l \in DOMAIN m : P[e] \in Prefixes(l)
          BY <3>2, <1>1
        <4>2. PICK i \in 1 .. Len(l) : P[e] = Cut(l, i)
          BY <4>1, <1>4, PrefixForm
        <4> QED
          BY <4>2, <3>2, <1>4, EndsApart
      <3> QED
        BY <3>2, <3>3
    <2>3. \A e \in Ends : \E k \in DOMAIN m : P[e] = h[k]
      BY <1>1
    <2>4. \A a, b \in Ends : P[a] = P[b] => a = b
      BY <1>2
    <2> HIDE DEF h, Ends
    <2> QED
      BY <2>1, <2>2, <2>3, <2>4, <1>3, NamesCount
  <1>6. IsFiniteSet(G) /\ Cardinality(G) = Cardinality(Inner)
    <2> DEFINE h == [p \in G |-> p]
    <2>1. \A a, b \in G : h[a] = h[b] => a = b
      OBVIOUS
    <2>2. ASSUME NEW p \in G PROVE \E e \in Inner : P[e] = h[p]
      <3>1. PICK k \in DOMAIN m : p \in Prefixes(k)
        OBVIOUS
      <3>2. PICK i \in 1 .. Len(k) : p = Cut(k, i)
        BY <3>1, <1>4, PrefixForm
      <3>3. InnerOf(p) \in KeyTree(m)
        BY <3>2, TreeHas
      <3>4. Has(KeyTree(m), p)
        BY <3>3 DEF InnerOf, Has
      <3>5. PICK e \in V : P[e] = p
        BY <3>4, NodesAre
      <3>6. L[e] # 0
        <4> SUFFICES ASSUME L[e] = 0 PROVE FALSE
          OBVIOUS
        <4>1. PICK l \in DOMAIN m : P[e] = Ended(l)
          BY <3>5, <1>1
        <4> QED
          BY <4>1, <3>2, <3>5, <1>4, EndsApart
      <3> QED
        BY <3>5, <3>6
    <2>3. \A e \in Inner : \E p \in G : P[e] = h[p]
      BY <1>1
    <2>4. \A a, b \in Inner : P[a] = P[b] => a = b
      BY <1>2
    <2> HIDE DEF h, Inner, G
    <2> QED
      BY <2>1, <2>2, <2>3, <2>4, <1>3, NamesCount
  <1>7. num_keys(t) = Cardinality(Ends)
    <2>1. {e \in 0 .. t.nblk * B - 1 : t.array[e].check >= 0 /\ t.array[t.array[e].check].base = e} = Ends
      BY <1>1
    <2> QED
      BY <2>1 DEF num_keys
  <1>8. nonzero_size(t) = Cardinality(V)
    BY <1>1 DEF nonzero_size
  <1>9. Cardinality(V) = Cardinality(Ends) + Cardinality(Inner)
    <2> HIDE DEF Ends, Inner
    <2>1. Cardinality(Ends \cup Inner) = Cardinality(Ends) + Cardinality(Inner) - Cardinality(Ends \cap Inner)
      BY <1>3, FS_Union
    <2>2. Cardinality(Ends \cap Inner) = 0
      BY <1>3, FS_EmptySet
    <2>3. Cardinality(Ends) \in Nat /\ Cardinality(Inner) \in Nat
      BY <1>3, FS_CardinalityType
    <2>4. Cardinality(V) = Cardinality(Ends) + Cardinality(Inner) - Cardinality(Ends \cap Inner)
      BY <2>1, <1>3
    <2> QED
      BY <2>2, <2>3, <2>4
  <1> QED
    BY <1>5, <1>6, <1>7, <1>8, <1>9

\* The chains that update and erase change, and those _restore_ninfo makes,
\* list the slots whose check names the node, each once and in order.
THEOREM ChainsCorrect ==
    ASSUME RootSpare
    PROVE  Spec => []ChainsAgree
  <1>1. IInv => ChainsAgree
    <2> SUFFICES ASSUME IInv, "_ninfo" \in tables,
                        NEW n \in {0} \cup {e \in 0 .. trie.nblk * B - 1 :
                                              /\ trie.array[e].check >= 0
                                              /\ trie.array[trie.array[e].check].base # e},
                        NEW c, c = Children(trie, n), NEW base, base = trie.array[n].base
                 PROVE  /\ \A i, j \in DOMAIN c : i < j => c[i] < c[j]
                        /\ {e \in 0 .. trie.nblk * B - 1 : trie.array[e].check = n}
                             = {Xor(base, c[i]) : i \in {j \in DOMAIN c : n # 0 \/ c[j] # 0}}
      BY DEF ChainsAgree
    <2>1. IsMap(map)
      BY DEF IInv
    <2>2. PICK V, P, L, O : KeptAs(FirstLabels, trie, map, tables, V, P, L, O)
      BY DEF IInv, Keeps
    <2>3. SpellsAs(trie, map, V, P, L, O) /\ IsTree(trie, V, P, L, O, {}, {})
      BY <2>2 DEF KeptAs
    <2>t. /\ V = {e \in 0 .. trie.nblk * B - 1 : trie.array[e].check >= 0}
          /\ \A e \in V : L[e] = 0 <=> trie.array[trie.array[e].check].base = e
      <3>1. Ending(trie, map, V, P, L)
        BY <2>1, <2>3, Terminals
      <3> QED
        BY <3>1 DEF Ending
    <2>4. n \in V \cup {0} /\ (n # 0 => L[n] # 0)
      <3>1. CASE n = 0
        BY <3>1
      <3>2. CASE n # 0
        <4>1. n \in V
          BY <3>2, <2>t
        <4> QED
          BY <3>2, <4>1, <2>t
      <3> QED
        BY <3>1, <3>2
    <2>i. Shape(trie, V, P, L, O) /\ InnerNode(trie, L, n)
      <3>1. Ending(trie, map, V, P, L)
        BY <2>1, <2>3, Terminals
      <3>2. Shape(trie, V, P, L, O)
        BY <2>3 DEF SpellsAs
      <3>3. InnerNode(trie, L, n)
        <4>1. CASE n = 0
          BY <4>1, <3>2 DEF InnerNode, Shape, Bases
        <4>2. CASE n # 0
          <5>1. n \in V /\ L[n] # 0
            BY <2>4, <4>2
          <5> QED
            BY <5>1, <3>1 DEF Ending
        <4> QED
          BY <4>1, <4>2
      <3> QED
        BY <3>2, <3>3
    <2>5. ListsChildren(trie, n, base, c)
      BY ONLY <2>3, <2>4, <2>i, c = Children(trie, n), base = trie.array[n].base, ChainAgrees
    <2> QED
      BY <2>5 DEF Ascending, ListsChildren
  <1> QED
    BY <1>1, IInvHolds, PTL

\* Every slot in use is a node on the way to a key, or a key's terminal: erase
\* and _resolve leave none behind and none is made twice, so that num_keys and
\* nonzero_size count what they should.
THEOREM SlotsCorrect ==
    ASSUME RootSpare
    PROVE  Spec => []SlotsEarned
  <1>1. IInv => SlotsEarned
    <2> SUFFICES ASSUME IInv PROVE SlotsEarned
      OBVIOUS
    <2>1. PICK V, P, L, O : SpellsAs(trie, map, V, P, L, O)
      BY DEF IInv, Keeps, KeptAs
    <2>2. IsMap(map)
      BY DEF IInv
    <2> QED
      BY <2>1, <2>2, SlotsCount DEF SlotsEarned
  <1> QED
    BY <1>1, IInvHolds, PTL

-----------------------------------------------------------------------------
(* commonPrefixSearch.                                                     *)

\* _find for one label more.
LEMMA FindOnce ==
    ASSUME NEW t, NEW k, NEW i \in Nat, Len(k) = i, i >= 1, NEW n
    PROVE  _find(t, k, n, i - 1) = Answer(t, Down(t, k, [at |-> n, pos |-> i - 1, miss |-> FALSE], i))
  <1> DEFINE s0 == [at |-> n, pos |-> i - 1, miss |-> FALSE]
             Good(g) == g = [j \in i - 1 .. i |-> IF j = i - 1 THEN s0 ELSE Down(t, k, g[j - 1], j)]
             f == [j \in i - 1 .. i |-> IF j = i - 1 THEN s0 ELSE Down(t, k, s0, i)]
  <1>1. Good(f)
    <2>1. f[i - 1] = s0
      OBVIOUS
    <2>2. ASSUME NEW j \in i - 1 .. i, j # i - 1 PROVE j = i /\ j - 1 = i - 1
      BY <2>2
    <2> HIDE DEF s0
    <2>3. ASSUME NEW j \in i - 1 .. i
          PROVE  f[j] = IF j = i - 1 THEN s0 ELSE Down(t, k, f[j - 1], j)
      BY <2>1, <2>2
    <2>4. f = [j \in i - 1 .. i |-> f[j]]
      OBVIOUS
    <2> HIDE DEF f
    <2> QED
      BY <2>3, <2>4
  <1>2. PICK g : Good(g) /\ _find(t, k, n, i - 1) = Answer(t, g[i])
    <2>1. _find(t, k, n, i - 1) = LET down == CHOOSE g : Good(g) IN Answer(t, down[i])
      BY DEF _find, Down, Answer
    <2> HIDE DEF Good
    <2> QED
      BY <1>1, <2>1
  <1> HIDE DEF s0
  <1>3. g[i - 1] = s0 /\ g[i] = Down(t, k, g[i - 1], i)
    <2>1. i - 1 \in i - 1 .. i /\ i \in i - 1 .. i /\ i # i - 1
      OBVIOUS
    <2> QED
      BY <2>1, <1>2
  <1> QED
    BY <1>2, <1>3 DEF s0

\* The answer r for a path q of i labels, and where the search then stands.
FoundAt(m, V, P, q, r, i) ==
    /\ Right(m, q, r.value)
    /\ r \in [at : Slots, pos : Nat, value : Int]
    /\ r.value = NoPath <=> ~ Has(KeyTree(m), q)
    /\ r.value # NoPath => r.at \in V \cup {0} /\ P[r.at] = q /\ r.pos = i

\* From the node named after i - 1 labels of a key, _find answers for i.
LEMMA FindOn ==
    ASSUME NEW t, NEW m, IsMap(m), NEW V, NEW P, NEW L, NEW O, SpellsAs(t, m, V, P, L, O),
           NEW k, IsKey(k), NEW i \in 1 .. Len(k), NEW n \in V \cup {0}, P[n] = Cut(k, i - 1),
           NEW q, q = Cut(k, i), NEW r, r = _find(t, q, n, i - 1)
    PROVE  FoundAt(m, V, P, q, r, i)
  <1> DEFINE path == Ended(k)
             to == Xor(t.array[n].base, path[i])
             e == Down(t, q, [at |-> n, pos |-> i - 1, miss |-> FALSE], i)
             j == i - 1
  <1>1. /\ path \in Seq(Labels) /\ Len(k) \in Nat /\ k \in Seq(Labels) /\ path[i] = k[i]
        /\ j \in 0 .. Len(k) /\ i \in 0 .. Len(k) /\ i >= 1 /\ j + 1 = i
        /\ \A x \in 0 .. Len(k) : Cut(path, x) = Cut(k, x)
    <2>1. /\ Ended(k) \in Seq(Labels) /\ Len(k) \in Nat /\ k \in Seq(Labels)
          /\ \A x \in 1 .. Len(k) : Ended(k)[x] = k[x]
          /\ \A x \in 0 .. Len(k) : Cut(Ended(k), x) = Cut(k, x)
      BY EndedFacts
    <2>2. j \in 0 .. Len(k) /\ i \in 0 .. Len(k) /\ i >= 1 /\ j + 1 = i
      BY <2>1
    <2> HIDE DEF j
    <2> QED
      BY <2>1, <2>2
  <1>2. q \in Seq(Labels) /\ Len(q) = i /\ q[i] = k[i]
    BY <1>1, CutFacts
  <1>3. IsKey(q)
    <2>1. q \in Prefixes(k)
      BY PrefixForm
    <2> QED
      BY <2>1, PrefixForm
  <1>4. r = Answer(t, e)
    BY <1>1, <1>2, FindOnce
  <1>5. Leads(t, m, V, P, L, j, n, path, to)
    <2>1. OnWay(t, m, V, P, L, O, k, j, n, path, to)
      <3>1. P[n] = Cut(path, j) /\ to = Xor(t.array[n].base, path[j + 1])
        BY <1>1
      <3>2. n \in V \cup {0} /\ path = Ended(k)
        OBVIOUS
      <3> HIDE DEF to, path, j
      <3> QED
        BY <3>1, <3>2, <1>1 DEF OnWay
    <2> HIDE DEF to, path, j
    <2> QED
      BY <2>1, FindStep
  <1>6. /\ t.array[to].check = n <=> Has(KeyTree(m), q)
        /\ t.array[to].check = n => to \in V /\ P[to] = q
    <2> HIDE DEF to, path, j
    <2>1. Cut(path, j + 1) = q
      BY <1>1
    <2> QED
      BY <1>5, <2>1 DEF Leads
  <1>7. IF t.array[to].check # n THEN e.at = n /\ e.pos = i - 1 /\ e.miss = TRUE
        ELSE e = [at |-> to, pos |-> i, miss |-> FALSE]
    <2> DEFINE d == [at |-> n, pos |-> i - 1, miss |-> FALSE]
    <2>1. Xor(t.array[n].base, q[i]) = to
      BY <1>1, <1>2
    <2> HIDE DEF to, e, path
    <2>2. d.at = n /\ ~ d.miss
      OBVIOUS
    <2> DEFINE c == [d EXCEPT !.miss = TRUE]
    <2>2a. c.at = n /\ c.pos = i - 1 /\ c.miss = TRUE
      OBVIOUS
    <2> HIDE DEF d
    <2>3. e = IF t.array[to].check # n THEN c
              ELSE [at |-> to, pos |-> i, miss |-> FALSE]
      <3>1. e = Down(t, q, d, i)
        BY DEF d, e
      <3> HIDE DEF e
      <3> QED
        BY <2>1, <2>2, <3>1 DEF Down
    <2> QED
      BY <2>2a, <2>3
  <1> HIDE DEF e, to, path, j
  <1>8. CameTo(t, m, V, P, q, e)
    BY <1>6, <1>7 DEF CameTo
  <1>9. Right(m, q, r.value) /\ (q \in DOMAIN m => r.at \in V /\ P[r.at] = q)
    BY ONLY IsMap(m), SpellsAs(t, m, V, P, L, O), <1>3, <1>4, <1>8, AnswerRight
  <1>10. /\ r.at = e.at /\ r.pos = e.pos /\ r = [at |-> r.at, pos |-> r.pos, value |-> r.value]
         /\ e.miss = TRUE => r.value = NoPath
    BY <1>4 DEF Answer
  <1>11. V \in SUBSET Slots /\ 0 \in Slots
    BY SlotRange DEF SpellsAs, Shape, GhostTyped
  <1>12. r.value \in Int /\ (Has(KeyTree(m), q) => r.value # NoPath)
    <2>1. q \in DOMAIN m => m[q] \in Nat
      BY DEF IsMap
    <2>2. Has(KeyTree(m), q) => \E x \in DOMAIN m : q \in Prefixes(x)
      BY <1>3, HasKey
    <2> QED
      BY <2>1, <2>2, <1>9 DEF Right, NoPath, NoValue
  <1>13. r.at \in Slots /\ r.pos \in Nat
    BY <1>6, <1>7, <1>10, <1>11
  <1>14. r.value = NoPath <=> ~ Has(KeyTree(m), q)
    BY <1>6, <1>7, <1>10, <1>12
  <1>15. r.value # NoPath => r.at \in V \cup {0} /\ P[r.at] = q /\ r.pos = i
    BY <1>6, <1>7, <1>10
  <1> QED
    BY <1>9, <1>10, <1>12, <1>13, <1>14, <1>15 DEF FoundAt

\* What was found after i labels of a key, in the order it was found.
MetTo(m, k, met, i) ==
    /\ met \in Seq([at : Slots, pos : Nat, value : Int])
    /\ \A j \in DOMAIN met : /\ met[j].pos \in 1 .. i /\ Cut(k, met[j].pos) \in DOMAIN m
                             /\ met[j].value = m[Cut(k, met[j].pos)]
    /\ \A x \in 1 .. i : Cut(k, x) \in DOMAIN m => \E j \in DOMAIN met : met[j].pos = x
    /\ \A a, b \in DOMAIN met : a < b => met[a].pos < met[b].pos

\* One found more, or none.
LEMMA MetOn ==
    ASSUME NEW m, NEW k, NEW met, NEW i \in Nat, MetTo(m, k, met, i), NEW q, q = Cut(k, i + 1),
           NEW r \in [at : Slots, pos : Nat, value : Int], r.pos = i + 1, NEW more,
           more = IF q \in DOMAIN m THEN Append(met, r) ELSE met, q \in DOMAIN m => r.value = m[q]
    PROVE  MetTo(m, k, more, i + 1)
  <1> DEFINE RR == [at : Slots, pos : Nat, value : Int]
  <1>1. met \in Seq(RR) /\ Len(met) \in Nat /\ DOMAIN met = 1 .. Len(met)
    BY DEF MetTo
  <1>2. \A x \in 1 .. i + 1 : x \in 1 .. i \/ x = i + 1
    OBVIOUS
  <1>3. CASE q \notin DOMAIN m
    <2>1. more = met
      BY <1>3
    <2>2. \A x \in 1 .. i : x \in 1 .. i + 1
      OBVIOUS
    <2> QED
      BY <1>2, <1>3, <2>1, <2>2 DEF MetTo
  <1>4. CASE q \in DOMAIN m
    <2> HIDE DEF RR
    <2>1. /\ more = Append(met, r) /\ r \in RR
      BY <1>4 DEF RR
    <2>2. /\ more \in Seq(RR) /\ Len(more) = Len(met) + 1 /\ DOMAIN more = 1 .. Len(met) + 1
          /\ \A j \in 1 .. Len(met) : more[j] = met[j]
          /\ more[Len(met) + 1] = r
      BY <1>1, <2>1
    <2>3. ASSUME NEW j \in DOMAIN more
          PROVE  /\ more[j].pos \in 1 .. i + 1 /\ Cut(k, more[j].pos) \in DOMAIN m
                 /\ more[j].value = m[Cut(k, more[j].pos)]
      <3>1. CASE j = Len(met) + 1
        BY <3>1, <2>2, <1>4
      <3>2. CASE j # Len(met) + 1
        <4>1. j \in DOMAIN met /\ more[j] = met[j]
          BY <3>2, <2>2, <1>1
        <4>2. met[j].pos \in 1 .. i
          BY <4>1 DEF MetTo
        <4>3. met[j].pos \in 1 .. i + 1
          BY <4>2
        <4> QED
          BY <4>1, <4>3 DEF MetTo
      <3> QED
        BY <3>1, <3>2
    <2>4. ASSUME NEW x \in 1 .. i + 1, Cut(k, x) \in DOMAIN m
          PROVE  \E j \in DOMAIN more : more[j].pos = x
      <3>1. CASE x = i + 1
        <4>1. Len(met) + 1 \in DOMAIN more
          BY <1>1, <2>2
        <4> QED
          BY <4>1, <3>1, <2>2
      <3>2. CASE x \in 1 .. i
        <4>1. PICK j \in DOMAIN met : met[j].pos = x
          BY <3>2, <2>4 DEF MetTo
        <4>2. j \in DOMAIN more /\ more[j] = met[j]
          BY <1>1, <2>2
        <4> QED
          BY <4>1, <4>2
      <3> QED
        BY <3>1, <3>2, <1>2
    <2>5. ASSUME NEW a \in DOMAIN more, NEW b \in DOMAIN more, a < b
          PROVE  more[a].pos < more[b].pos
      <3>1. a \in DOMAIN met /\ more[a] = met[a]
        BY <2>2, <2>5, <1>1
      <3>2. met[a].pos \in 1 .. i
        BY <3>1 DEF MetTo
      <3>3. CASE b = Len(met) + 1
        BY <3>1, <3>2, <3>3, <2>2
      <3>4. CASE b # Len(met) + 1
        <4>1. b \in DOMAIN met /\ more[b] = met[b]
          BY <3>4, <2>2, <1>1
        <4> QED
          BY <4>1, <3>1, <2>5 DEF MetTo
      <3> QED
        BY <3>3, <3>4
    <2> QED
      BY <2>2, <2>3, <2>4, <2>5 DEF MetTo, RR
  <1> QED
    BY <1>3, <1>4

\* A round of the loop.
SearchRound(t, k, s, i) ==
    LET r == _find(t, SubSeq(k, 1, i), s.last.at, s.last.pos)
    IN  IF i > 1 /\ ~ GoesOn(s.last) THEN s
        ELSE [last |-> r, met |-> IF r.value \in {NoPath, NoValue} THEN s.met ELSE Append(s.met, r)]

\* The loop.
LEMMA SearchLoop ==
    ASSUME NEW t, NEW k, Len(k) \in Nat
    PROVE  \E g : /\ g[0] = [last |-> [at |-> 0, pos |-> 0, value |-> NoValue], met |-> <<>>]
                  /\ \A i \in 1 .. Len(k) : g[i] = SearchRound(t, k, g[i - 1], i)
                  /\ commonPrefixSearch(t, k) = g[Len(k)].met
  <1> DEFINE N == Len(k)
             s0 == [last |-> [at |-> 0, pos |-> 0, value |-> NoValue], met |-> <<>>]
             Next1(s, i) == SearchRound(t, k, s, i)
             Step(g, i) == IF i = 0 THEN s0 ELSE Next1(g[i - 1], i)
             Good(g, m) == g = [i \in 0 .. m |-> Step(g, i)]
             Bad == {m \in Nat : ~ \E g : Good(g, m)}
  <1>1. Bad = {}
    <2> SUFFICES ASSUME Bad # {} PROVE FALSE
      OBVIOUS
    <2> HIDE DEF Next1, s0
    <2>1. Bad \in SUBSET Nat
      OBVIOUS
    <2> HIDE DEF Bad
    <2>2. PICK m \in Bad : \A x \in Bad : m <= x
      BY <2>1, Least
    <2>3. m \in Nat /\ ~ \E g : Good(g, m)
      BY DEF Bad
    <2>4. CASE m = 0
      <3> DEFINE g == [i \in 0 .. 0 |-> s0]
      <3>1. Good(g, 0)
        BY DEF g
      <3> QED
        BY <3>1, <2>3, <2>4
    <2>5. CASE m # 0
      <3>1. m - 1 \in Nat /\ m - 1 \notin Bad
        BY <2>2, <2>3, <2>5
      <3>2. PICK h : Good(h, m - 1)
        BY <3>1 DEF Bad
      <3> DEFINE g == [i \in 0 .. m |-> Step(h, i)]
      <3>3. ASSUME NEW i \in 0 .. m PROVE Step(g, i) = Step(h, i)
        <4>1. CASE i = 0
          BY <4>1
        <4>2. CASE i # 0
          <5>1. i - 1 \in 0 .. m /\ i - 1 \in 0 .. m - 1
            BY <4>2, <2>3
          <5>2. g[i - 1] = Step(h, i - 1)
            BY <5>1
          <5>3. h[i - 1] = Step(h, i - 1)
            <6> HIDE DEF Step
            <6> QED
              BY <5>1, <3>2
          <5> HIDE DEF g
          <5> QED
            BY <4>2, <5>2, <5>3
        <4> QED
          BY <4>1, <4>2
      <3>4. Good(g, m)
        <4> HIDE DEF Step
        <4> QED
          BY <3>3
      <3> QED
        BY <3>4, <2>3
    <2> QED
      BY <2>4, <2>5
  <1>2. \E g : Good(g, N)
    BY <1>1
  <1>3. PICK g : Good(g, N) /\ commonPrefixSearch(t, k) = g[N].met
    BY <1>2 DEF commonPrefixSearch, SearchRound
  <1> HIDE DEF Next1, s0
  <1>4. g[0] = s0 /\ \A i \in 1 .. N : g[i] = Next1(g[i - 1], i)
    <2>1. g = [i \in 0 .. N |-> Step(g, i)]
      BY <1>3
    <2>2. \A i \in 0 .. N : g[i] = Step(g, i)
      <3> HIDE DEF Step
      <3> QED
        BY <2>1
    <2> QED
      BY <2>2
  <1> QED
    BY <1>3, <1>4 DEF Next1, s0

\* After i labels: the search stands at the node they name, or there is none.
Searched(t, m, V, P, k, s, i) ==
    /\ MetTo(m, k, s.met, i)
    /\ \/ i # 0 /\ ~ GoesOn(s.last) /\ ~ Has(KeyTree(m), Cut(k, i))
       \/ GoesOn(s.last) /\ s.last.at \in V \cup {0} /\ s.last.pos = i /\ P[s.last.at] = Cut(k, i)

\* One label more.
LEMMA SearchStep ==
    ASSUME NEW t, NEW m, IsMap(m), NEW V, NEW P, NEW L, NEW O, SpellsAs(t, m, V, P, L, O),
           NEW k, IsKey(k), NEW i \in Nat, i + 1 \in 1 .. Len(k), NEW s, Searched(t, m, V, P, k, s, i),
           NEW u, u = SearchRound(t, k, s, i + 1)
    PROVE  Searched(t, m, V, P, k, u, i + 1)
  <1> DEFINE q == Cut(k, i + 1)
             r == _find(t, q, s.last.at, s.last.pos)
  <1>1. IsKey(q)
    <2>1. q \in Prefixes(k)
      BY PrefixForm
    <2> QED
      BY <2>1, PrefixForm
  <1>2. Has(KeyTree(m), q) => Has(KeyTree(m), Cut(k, i)) \/ i = 0
    <2>1. Grown(KeyTree(m), Ended(k))
      BY TreeGrown
    <2>2. /\ Len(Ended(k)) = Len(k) + 1 /\ Len(k) \in Nat
          /\ \A j \in 0 .. Len(k) : Cut(Ended(k), j) = Cut(k, j)
      BY EndedFacts
    <2>3. i # 0 => i \in 1 .. Len(Ended(k)) - 1
      BY <2>2
    <2>4. Cut(Ended(k), i) = Cut(k, i) /\ Cut(Ended(k), i + 1) = q
      BY <2>2
    <2> HIDE DEF q
    <2> QED
      BY <2>1, <2>3, <2>4 DEF Grown, Has
  <1>3. q \in DOMAIN m => Has(KeyTree(m), q)
    <2>1. q \in Prefixes(q)
      <3>1. Len(q) \in 1 .. Len(q) /\ Len(q) \in 0 .. Len(q) /\ q \in Seq(Labels)
        BY <1>1, EndedFacts
      <3>2. Cut(q, Len(q)) = q
        BY <3>1, CutFacts
      <3> QED
        BY <1>1, <3>1, <3>2, PrefixForm
    <2> HIDE DEF q
    <2> QED
      BY <1>1, <2>1, HasKey
  <1>4. CASE i > 0 /\ ~ GoesOn(s.last)
    <2>1. u = s
      BY <1>4 DEF SearchRound
    <2>2. ~ Has(KeyTree(m), q) /\ q \notin DOMAIN m
      BY <1>2, <1>3, <1>4 DEF Searched
    <2>3. MetTo(m, k, s.met, i + 1)
      <3>1. \A x \in 1 .. i + 1 : x \in 1 .. i \/ x = i + 1
        OBVIOUS
      <3>2. \A x \in 1 .. i : x \in 1 .. i + 1
        OBVIOUS
      <3> QED
        BY <2>2, <3>1, <3>2 DEF Searched, MetTo
    <2>4. i + 1 # 0
      OBVIOUS
    <2> QED
      BY <2>1, <2>2, <2>3, <2>4, <1>4 DEF Searched
  <1>5. CASE ~ (i > 0 /\ ~ GoesOn(s.last))
    <2>1. u = [last |-> r, met |-> IF r.value \in {NoPath, NoValue} THEN s.met ELSE Append(s.met, r)]
      <3>1. ~ (i + 1 > 1 /\ ~ GoesOn(s.last))
        BY <1>5
      <3> QED
        BY <3>1 DEF SearchRound, Cut
    <2>2. GoesOn(s.last) /\ s.last.at \in V \cup {0} /\ s.last.pos = i /\ P[s.last.at] = Cut(k, i)
      BY <1>5 DEF Searched
    <2> DEFINE n == s.last.at
    <2> DEFINE more == IF r.value \in {NoPath, NoValue} THEN s.met ELSE Append(s.met, r)
    <2>b. u = [last |-> r, met |-> more]
      BY <2>1
    <2> HIDE DEF r, more
    <2>c. u.last = r /\ u.met = more
      BY <2>b
    <2> USE DEF r
    <2>6. u.last = r /\ u.met = IF r.value \in {NoPath, NoValue} THEN s.met ELSE Append(s.met, r)
      BY <2>c DEF more
    <2>3. r = _find(t, q, n, (i + 1) - 1) /\ n \in V \cup {0} /\ P[n] = Cut(k, (i + 1) - 1)
      BY <2>2
    <2>4. q = Cut(k, i + 1)
      OBVIOUS
    <2> HIDE DEF q, r, n
    <2>a. FoundAt(m, V, P, q, r, i + 1)
      BY ONLY IsMap(m), SpellsAs(t, m, V, P, L, O), IsKey(k), i + 1 \in 1 .. Len(k), <2>3, <2>4, FindOn
    <2>5. /\ Right(m, q, r.value) /\ r \in [at : Slots, pos : Nat, value : Int]
          /\ r.value = NoPath <=> ~ Has(KeyTree(m), q)
          /\ r.value # NoPath => r.at \in V \cup {0} /\ P[r.at] = q /\ r.pos = i + 1
      BY <2>a DEF FoundAt
    <2>7. q \in DOMAIN m => r.value = m[q] /\ m[q] \in Nat
      BY <2>5 DEF Right, IsMap
    <2>8. r.value \in {NoPath, NoValue} <=> q \notin DOMAIN m
      BY <2>5, <2>7 DEF Right, NoPath, NoValue
    <2>9. MetTo(m, k, u.met, i + 1)
      <3>1. MetTo(m, k, s.met, i)
        BY DEF Searched
      <3>2. CASE q \in DOMAIN m
        <4>1. r.pos = i + 1 /\ u.met = Append(s.met, r)
          BY <3>2, <1>3, <2>5, <2>6, <2>8
        <4> QED
          BY <4>1, <3>1, <3>2, <2>4, <2>5, <2>7, MetOn
      <3>3. CASE q \notin DOMAIN m
        <4>1. u.met = s.met
          BY <3>3, <2>6, <2>8
        <4>2. \A x \in 1 .. i + 1 : x \in 1 .. i \/ x = i + 1
          OBVIOUS
        <4>3. \A x \in 1 .. i : x \in 1 .. i + 1
          OBVIOUS
        <4> QED
          BY <3>1, <3>3, <4>1, <4>2, <4>3, <2>4 DEF MetTo
      <3> QED
        BY <3>2, <3>3
    <2>10. i + 1 # 0
      OBVIOUS
    <2> QED
      BY <2>4, <2>5, <2>6, <2>9, <2>10 DEF Searched, GoesOn
  <1> QED
    BY <1>4, <1>5

\* What is found along the whole key.
LEMMA SearchMeets ==
    ASSUME NEW t, NEW m, IsMap(m), NEW V, NEW P, NEW L, NEW O, SpellsAs(t, m, V, P, L, O),
           NEW k, IsKey(k), NEW r, r = commonPrefixSearch(t, k)
    PROVE  MetTo(m, k, r, Len(k))
  <1> DEFINE N == Len(k)
             Sr(s, i) == Searched(t, m, V, P, k, s, i)
  <1>1. N \in Nat /\ k \in Seq(Labels)
    BY EndedFacts
  <1>2. PICK g : /\ g[0] = [last |-> [at |-> 0, pos |-> 0, value |-> NoValue], met |-> <<>>]
                 /\ \A i \in 1 .. N : g[i] = SearchRound(t, k, g[i - 1], i)
                 /\ r = g[N].met
    BY <1>1, SearchLoop
  <1>3. Sr(g[0], 0)
    <2>1. MetTo(m, k, <<>>, 0)
      BY DEF MetTo
    <2>2. P[0] = Cut(k, 0)
      <3>1. P[0] = <<>>
        BY DEF SpellsAs, Shape, GhostTyped
      <3>2. 0 \in 0 .. Len(k)
        BY <1>1
      <3> QED
        BY <3>1, <3>2, <1>1, CutFacts
    <2> DEFINE s == g[0]
    <2>3. s.met = <<>> /\ s.last.at = 0 /\ s.last.pos = 0 /\ s.last.value = NoValue
      BY <1>2
    <2> HIDE DEF s
    <2>4. GoesOn(s.last)
      BY <2>3 DEF GoesOn, NoPath, NoValue
    <2>5. Searched(t, m, V, P, k, s, 0)
      BY <2>1, <2>2, <2>3, <2>4 DEF Searched
    <2> QED
      BY <2>5 DEF s
  <1>4. ASSUME NEW i \in Nat, i + 1 \in 1 .. N, Sr(g[i], i) PROVE Sr(g[i + 1], i + 1)
    <2>1. g[i + 1] = SearchRound(t, k, g[i], i + 1)
      BY <1>2, <1>4
    <2> QED
      BY <2>1, <1>4, SearchStep
  <1> DEFINE Bad == {x \in Nat : x <= N /\ ~ Sr(g[x], x)}
  <1> HIDE DEF Sr
  <1>5. Bad = {}
    <2> SUFFICES ASSUME Bad # {} PROVE FALSE
      OBVIOUS
    <2>1. Bad \in SUBSET Nat
      OBVIOUS
    <2> HIDE DEF Bad
    <2>2. PICK x \in Bad : \A y \in Bad : x <= y
      BY <2>1, Least
    <2>3. x \in Nat /\ x <= N /\ ~ Sr(g[x], x)
      BY DEF Bad
    <2>4. x # 0
      BY <2>3, <1>3
    <2>5. x - 1 \in Nat /\ x - 1 \notin Bad /\ (x - 1) + 1 = x /\ x \in 1 .. N
      BY <2>2, <2>3, <2>4, <1>1
    <2>6. Sr(g[x - 1], x - 1)
      BY <2>3, <2>5 DEF Bad
    <2> QED
      BY <2>3, <2>5, <2>6, <1>4
  <1>6. Sr(g[N], N)
    BY <1>5, <1>1
  <1> QED
    BY <1>2, <1>6 DEF Sr, Searched

\* The answers r are those for the beginnings of k of the lengths S.
Answers(m, k, r, S) ==
    /\ Len(r) = Cardinality(S)
    /\ {<<r[i].pos, r[i].value>> : i \in DOMAIN r} = {<<n, m[Cut(k, n)]>> : n \in S}

\* Every beginning that is a key is among them.
LEMMA MetAll ==
    ASSUME NEW m, NEW k, NEW N \in Nat, NEW r, MetTo(m, k, r, N),
           NEW S, S = {n \in 1 .. N : Cut(k, n) \in DOMAIN m}
    PROVE  Answers(m, k, r, S)
  <1> DEFINE T == 1 .. Len(r)
             p == [j \in T |-> r[j].pos]
             h == [n \in S |-> n]
  <1>1. Len(r) \in Nat /\ DOMAIN r = T
    BY DEF MetTo
  <1>2. \A j \in T : p[j] \in S /\ r[j].pos = p[j] /\ r[j].value = m[Cut(k, p[j])]
    BY <1>1 DEF MetTo
  <1>3. \A n \in S : \E j \in T : p[j] = n
    BY <1>1 DEF MetTo
  <1>4. \A a, b \in T : p[a] = p[b] => a = b
    <2> SUFFICES ASSUME NEW a \in T, NEW b \in T, p[a] = p[b], a # b PROVE FALSE
      OBVIOUS
    <2>1. a < b \/ b < a
      OBVIOUS
    <2>2. p[a] \in Nat /\ r[a].pos = p[a] /\ r[b].pos = p[a]
      BY <1>2
    <2>3. \A i, j \in DOMAIN r : i < j => r[i].pos < r[j].pos
      BY DEF MetTo
    <2>4. a \in DOMAIN r /\ b \in DOMAIN r
      BY <1>1
    <2> HIDE DEF p, T
    <2>5. ~ r[a].pos < r[b].pos /\ ~ r[b].pos < r[a].pos
      BY <2>2
    <2> QED
      BY <2>1, <2>3, <2>4, <2>5
  <1> HIDE DEF p
  <1>5. Len(r) = Cardinality(S)
    <2>1. IsFiniteSet(T) /\ Cardinality(T) = Len(r)
      <3>1. 1 \in Int /\ Len(r) \in Int
        BY <1>1
      <3>2. IsFiniteSet(T) /\ Cardinality(T) = IF 1 > Len(r) THEN 0 ELSE Len(r) - 1 + 1
        BY <3>1, FS_Interval
      <3> QED
        BY <3>2, <1>1
    <2>2. \A a, b \in S : h[a] = h[b] => a = b
      OBVIOUS
    <2>3. \A a \in S : \E e \in T : p[e] = h[a]
      BY <1>3
    <2>4. \A e \in T : \E a \in S : p[e] = h[a]
      BY <1>2
    <2> HIDE DEF T, h
    <2>5. Cardinality(S) = Cardinality(T)
      BY ONLY <2>1, <1>4, <2>2, <2>3, <2>4, NamesCount
    <2> QED
      BY <2>1, <2>5
  <1>6. {<<r[i].pos, r[i].value>> : i \in DOMAIN r} = {<<n, m[Cut(k, n)]>> : n \in S}
    <2> DEFINE f(i) == <<r[i].pos, r[i].value>>
               v(n) == <<n, m[Cut(k, n)]>>
    <2>1. \A j \in T : p[j] \in S /\ f(j) = v(p[j])
      BY <1>2
    <2>2. \A n \in S : \E j \in T : p[j] = n
      BY <1>3
    <2> HIDE DEF f, v
    <2>3. {f(i) : i \in T} = {v(n) : n \in S}
      BY <2>1, <2>2
    <2> QED
      BY <2>3, <1>1 DEF f, v
  <1> QED
    BY <1>5, <1>6 DEF Answers

\* commonPrefixSearch finds the beginnings of a key that are keys themselves,
\* the shortest first, past those that are none, whatever was moved, erased or
\* rebuilt before.
THEOREM PrefixesCorrect ==
    ASSUME RootSpare
    PROVE  Spec => []PrefixesRight
  <1>1. IInv => PrefixesRight
    <2> SUFFICES ASSUME IInv, NEW k \in Keys, NEW r, r = commonPrefixSearch(trie, k),
                        NEW lens, lens = {i \in 1 .. Len(k) : SubSeq(k, 1, i) \in DOMAIN map}
                 PROVE  /\ Len(r) = Cardinality(lens)
                        /\ {<<r[i].pos, r[i].value>> : i \in DOMAIN r}
                             = {<<n, map[SubSeq(k, 1, n)]>> : n \in lens}
                        /\ \A i, j \in DOMAIN r : i < j => r[i].pos < r[j].pos
      BY DEF PrefixesRight
    <2>1. IsKey(k) /\ Len(k) \in Nat
      <3>1. IsKey(k)
        BY KeysFacts
      <3> QED
        BY <3>1, EndedFacts
    <2>2. PICK V, P, L, O : SpellsAs(trie, map, V, P, L, O)
      BY DEF IInv, Keeps, KeptAs
    <2>3. IsMap(map)
      BY DEF IInv
    <2>4. MetTo(map, k, r, Len(k))
      BY <2>1, <2>2, <2>3, SearchMeets
    <2>5. lens = {i \in 1 .. Len(k) : Cut(k, i) \in DOMAIN map}
      BY DEF Cut
    <2>6. Answers(map, k, r, lens)
      BY ONLY <2>1, <2>4, <2>5, MetAll
    <2>7. \A i, j \in DOMAIN r : i < j => r[i].pos < r[j].pos
      BY <2>4 DEF MetTo
    <2> QED
      BY <2>6, <2>7 DEF Cut, Answers
  <1> QED
    BY <1>1, IInvHolds, PTL
=============================================================================
