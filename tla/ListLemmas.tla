----------------------------- MODULE ListLemmas -----------------------------
(***************************************************************************)
(* Lemmas about rings and about the operators of ListOps.  Those about     *)
(* rings speak of the new links through their values on the ring only, so  *)
(* that they serve both block.prev/block.next and the negated              *)
(* node.base/node.check; the others say that every operation of cedarpp.h  *)
(* on the block lists leaves each block on the list it belongs on.         *)
(***************************************************************************)
EXTENDS ListOps, TLAPS


\* Links that agree on the members of a ring keep it a ring.
LEMMA RingFrame ==
    ASSUME NEW R, NEW p, NEW n, NEW p2, NEW n2,
           IsRing(R, p, n),
           \A x \in R : p2[x] = p[x] /\ n2[x] = n[x]
    PROVE  IsRing(R, p2, n2)
  <1>1. \A x \in R : /\ n2[x] \in R /\ p2[n2[x]] = x
                     /\ p2[x] \in R /\ n2[p2[x]] = x
    BY DEF IsRing
  <1>2. ASSUME NEW S \in SUBSET R, S # {}, \A x \in S : n2[x] \in S
        PROVE  S = R
    BY <1>2 DEF IsRing
  <1> QED
    BY <1>1, <1>2 DEF IsRing

\* A member linked to itself is a ring of one.
LEMMA RingSingleton ==
    ASSUME NEW x, NEW p, NEW n, p[x] = x, n[x] = x
    PROVE  IsRing({x}, p, n)
  BY DEF IsRing

\* A ring member that is its own successor is alone.
LEMMA RingAlone ==
    ASSUME NEW R, NEW p, NEW n, IsRing(R, p, n), NEW x \in R, n[x] = x
    PROVE  R = {x}
  <1>1. {x} \in SUBSET R /\ {x} # {} /\ \A y \in {x} : n[y] \in {x}
    OBVIOUS
  <1> QED
    BY <1>1 DEF IsRing

\* Unlinking a member leaves a ring of the others.
LEMMA RingUnlink ==
    ASSUME NEW R, NEW p, NEW n, NEW p2, NEW n2,
           IsRing(R, p, n), NEW a \in R,
           \A x \in R \ {a} : /\ p2[x] = IF x = n[a] THEN p[a] ELSE p[x]
                              /\ n2[x] = IF x = p[a] THEN n[a] ELSE n[x]
    PROVE  IsRing(R \ {a}, p2, n2)
  <1> DEFINE Q == R \ {a}
  <1>1. ASSUME NEW x \in Q
        PROVE  n2[x] \in Q /\ p2[n2[x]] = x
    <2>1. CASE x = p[a]
      BY <2>1, <1>1 DEF IsRing
    <2>2. CASE x # p[a]
      <3>1. n2[x] = n[x] /\ n[x] \in R /\ n[x] # a /\ n[x] # n[a]
        BY <2>2, <1>1 DEF IsRing
      <3> QED
        BY <3>1, <1>1 DEF IsRing
    <2> QED
      BY <2>1, <2>2
  <1>2. ASSUME NEW x \in Q
        PROVE  p2[x] \in Q /\ n2[p2[x]] = x
    <2>1. CASE x = n[a]
      BY <2>1, <1>2 DEF IsRing
    <2>2. CASE x # n[a]
      <3>1. p2[x] = p[x] /\ p[x] \in R /\ p[x] # a /\ p[x] # p[a]
        BY <2>2, <1>2 DEF IsRing
      <3> QED
        BY <3>1, <1>2 DEF IsRing
    <2> QED
      BY <2>1, <2>2
  <1>3. ASSUME NEW S \in SUBSET Q, S # {}, \A x \in S : n2[x] \in S
        PROVE  S = Q
    <2>1. CASE p[a] \in S
      <3>1. \A x \in S \cup {a} : n[x] \in S \cup {a}
        BY <2>1, <1>3 DEF IsRing
      <3>2. S \cup {a} \in SUBSET R /\ S \cup {a} # {}
        BY <1>3
      <3>3. S \cup {a} = R
        BY <3>1, <3>2 DEF IsRing
      <3> QED
        BY <3>3, <1>3
    <2>2. CASE p[a] \notin S
      <3>1. \A x \in S : n[x] \in S
        BY <2>2, <1>3
      <3>2. S = R
        BY <3>1, <1>3 DEF IsRing
      <3> QED
        BY <3>2, <1>3
    <2> QED
      BY <2>1, <2>2
  <1> QED
    BY <1>1, <1>2, <1>3 DEF IsRing

\* Linking a newcomer before a member makes a ring of one more.
LEMMA RingLink ==
    ASSUME NEW R, NEW p, NEW n, NEW p2, NEW n2,
           IsRing(R, p, n), NEW h \in R, NEW a, a \notin R,
           \A x \in R \cup {a} :
              /\ p2[x] = IF x = h THEN a ELSE IF x = a THEN p[h] ELSE p[x]
              /\ n2[x] = IF x = p[h] THEN a ELSE IF x = a THEN h ELSE n[x]
    PROVE  IsRing(R \cup {a}, p2, n2)
  <1> DEFINE Q == R \cup {a}
  <1>0. p[h] \in R /\ p[h] # a /\ h # a
    BY DEF IsRing
  <1>1. ASSUME NEW x \in Q
        PROVE  n2[x] \in Q /\ p2[n2[x]] = x
    <2>1. CASE x = p[h]
      BY <2>1, <1>0, <1>1
    <2>2. CASE x = a
      BY <2>2, <1>0, <1>1
    <2>3. CASE x # p[h] /\ x # a
      <3>1. n2[x] = n[x] /\ n[x] \in R /\ n[x] # h /\ n[x] # a /\ p[n[x]] = x
        BY <2>3, <1>1 DEF IsRing
      <3> QED
        BY <3>1
    <2> QED
      BY <2>1, <2>2, <2>3
  <1>2. ASSUME NEW x \in Q
        PROVE  p2[x] \in Q /\ n2[p2[x]] = x
    <2>1. CASE x = h
      BY <2>1, <1>0, <1>2
    <2>2. CASE x = a
      BY <2>2, <1>0, <1>2
    <2>3. CASE x # h /\ x # a
      <3>1. p2[x] = p[x] /\ p[x] \in R /\ p[x] # p[h] /\ p[x] # a /\ n[p[x]] = x
        BY <2>3, <1>2 DEF IsRing
      <3> QED
        BY <3>1
    <2> QED
      BY <2>1, <2>2, <2>3
  <1>3. ASSUME NEW S \in SUBSET Q, S # {}, \A x \in S : n2[x] \in S
        PROVE  S = Q
    <2> DEFINE T == S \ {a}
    <2>1. \A x \in T : n[x] \in T
      <3> SUFFICES ASSUME NEW x \in T
                   PROVE  n[x] \in T
        OBVIOUS
      <3>1. x \in R /\ n[x] \in R /\ n[x] # a /\ n2[x] \in S
        BY <1>3 DEF IsRing
      <3>2. CASE x = p[h]
        <4>1. a \in S /\ n2[a] = h
          BY <3>1, <3>2, <1>0
        <4>2. h \in S
          BY <4>1, <1>3
        <4> QED
          BY <3>2, <4>2, <1>0 DEF IsRing
      <3>3. CASE x # p[h]
        BY <3>1, <3>3
      <3> QED
        BY <3>2, <3>3
    <2>2. T # {}
      BY <1>0, <1>3
    <2>3. T = R
      BY <2>1, <2>2, <1>3 DEF IsRing
    <2>4. a \in S
      BY <2>3, <1>0, <1>3
    <2> QED
      BY <2>3, <2>4
  <1> QED
    BY <1>1, <1>2, <1>3 DEF IsRing

-----------------------------------------------------------------------------
(* Blocks on lists.                                                        *)

ListRec == [prev : [Blocks -> Blocks], next : [Blocks -> Blocks],
            head : [Kinds -> Blocks]]

\* Listed blocks by kind: block 0 is on no list and no block is on two.
Listing == {M \in [Kinds -> SUBSET (Blocks \ {0})] :
              \A j, k \in Kinds : j # k => M[j] \cap M[k] = {}}

\* M without and with the block b on list k.
Drop(M, k, b) == [M EXCEPT ![k] = @ \ {b}]
Add(M, k, b)  == [M EXCEPT ![k] = @ \cup {b}]

\* What _pop_block leaves: b is off its list, the other lists are untouched.
LEMMA PopHolds ==
    ASSUME NEW L \in ListRec, NEW M \in Listing, ListsHold(L, M),
           NEW k \in Kinds, NEW b \in M[k],
           NEW P, P = PopBlock(L, b, k),
           NEW N, N = Drop(M, k, b)
    PROVE  P \in ListRec /\ N \in Listing /\ ListsHold(P, N)
  <1> DEFINE ring(j) == IF j = "Full" THEN M[j] \cup {0} ELSE M[j]
  <1>0. /\ b \in Blocks /\ b # 0 /\ 0 \in Blocks /\ b \in ring(k)
        /\ \A j \in Kinds : M[j] \subseteq Blocks /\ 0 \notin M[j]
        /\ \A j \in Kinds \ {k} : b \notin ring(j) /\ ring(j) \cap ring(k) = {}
    BY BlockAssumption DEF Listing, Kinds, Blocks
  <1>1. N \in Listing /\ N[k] = M[k] \ {b} /\ \A j \in Kinds \ {k} : N[j] = M[j]
    BY DEF Listing, Drop
  <1>2. IsRing(ring(k), L.prev, L.next)
    BY DEF ListsHold, Kinds
  <1>3. /\ L.next[b] \in ring(k) /\ L.prev[b] \in ring(k)
        /\ L.next[b] \in Blocks /\ L.prev[b] \in Blocks
    BY <1>0, <1>2 DEF IsRing, ListRec
  <1>4. CASE b = L.next[b]
    <2>1. ring(k) = {b}
      BY <1>0, <1>2, <1>4, RingAlone
    <2>2. k # "Full" /\ M[k] = {b}
      BY <2>1, <1>0
    <2>3. P = [L EXCEPT !.head[k] = 0]
      BY <1>4 DEF PopBlock
    <2>4. /\ P \in ListRec /\ P.prev = L.prev /\ P.next = L.next
          /\ P.head[k] = 0 /\ \A j \in Kinds \ {k} : P.head[j] = L.head[j]
      BY <2>3, <1>0 DEF ListRec
    <2>5. N["Full"] = M["Full"] /\ P.head["Full"] = L.head["Full"]
      BY <2>2, <2>4, <1>1 DEF Kinds
    <2>6. IsRing(N["Full"] \cup {0}, P.prev, P.next) /\ P.next[0] = P.head["Full"]
      BY <2>4, <2>5 DEF ListsHold
    <2>7. ASSUME NEW j \in {"Closed", "Open"}
          PROVE  IF N[j] = {} THEN P.head[j] = 0
                 ELSE P.head[j] \in N[j] /\ IsRing(N[j], P.prev, P.next)
      <3>1. CASE j = k
        BY <3>1, <2>2, <2>4, <1>1
      <3>2. CASE j # k
        BY <3>2, <2>4, <1>1 DEF ListsHold, Kinds
      <3> QED
        BY <3>1, <3>2
    <2> QED
      BY <2>4, <2>6, <2>7, <1>1 DEF ListsHold
  <1>5. CASE b # L.next[b]
    <2>1. P = [prev |-> UnlinkPrv(L.prev, L.next, b),
               next |-> UnlinkNxt(L.prev, L.next, b),
               head |-> IF b = L.head[k] THEN [L.head EXCEPT ![k] = L.next[b]]
                                         ELSE L.head]
      BY <1>5 DEF PopBlock
    <2>2. /\ P.prev = [L.prev EXCEPT ![L.next[b]] = L.prev[b]]
          /\ P.next = [L.next EXCEPT ![L.prev[b]] = L.next[b]]
          /\ P.head[k] = IF b = L.head[k] THEN L.next[b] ELSE L.head[k]
          /\ \A j \in Kinds \ {k} : P.head[j] = L.head[j]
      BY <2>1 DEF UnlinkPrv, UnlinkNxt, ListRec
    <2>3. P \in ListRec
      BY <2>1, <1>3 DEF UnlinkPrv, UnlinkNxt, ListRec
    <2>4. \A x \in Blocks :
             /\ P.prev[x] = IF x = L.next[b] THEN L.prev[b] ELSE L.prev[x]
             /\ P.next[x] = IF x = L.prev[b] THEN L.next[b] ELSE L.next[x]
      BY <2>2, <1>3 DEF ListRec
    <2>5. IsRing(ring(k) \ {b}, P.prev, P.next)
      <3>1. ring(k) \subseteq Blocks
        BY <1>0
      <3> HIDE DEF ring
      <3> QED
        BY <3>1, <2>4, <1>0, <1>2, RingUnlink
    <2>6. ASSUME NEW j \in Kinds \ {k}, IsRing(ring(j), L.prev, L.next)
          PROVE  IsRing(ring(j), P.prev, P.next)
      <3>1. ring(j) \subseteq Blocks /\ L.next[b] \notin ring(j) /\ L.prev[b] \notin ring(j)
        BY <1>0, <1>3
      <3>2. \A x \in ring(j) : P.prev[x] = L.prev[x] /\ P.next[x] = L.next[x]
        BY <3>1, <2>4
      <3> HIDE DEF ring
      <3> QED
        BY <3>2, <2>6, RingFrame
    <2>7. L.next[b] \in ring(k) \ {b}
      BY <1>3, <1>5
    <2>8. IsRing(N["Full"] \cup {0}, P.prev, P.next) /\ P.next[0] = P.head["Full"]
      <3>1. CASE k = "Full"
        <4>1. N["Full"] \cup {0} = ring(k) \ {b}
          BY <3>1, <1>0, <1>1
        <4>2. 0 = L.prev[b] <=> L.next[0] = b
          BY <3>1, <1>0, <1>2 DEF IsRing
        <4>3. L.next[0] = L.head["Full"]
          BY DEF ListsHold
        <4>4. P.next[0] = P.head["Full"]
          BY <3>1, <4>2, <4>3, <2>2, <2>4, <1>0
        <4> QED
          BY <4>1, <4>4, <2>5
      <3>2. CASE k # "Full"
        <4>1. N["Full"] \cup {0} = ring("Full") /\ IsRing(ring("Full"), L.prev, L.next)
          BY <3>2, <1>1 DEF Kinds, ListsHold
        <4>2. L.prev[b] # 0
          BY <3>2, <1>0, <1>3 DEF Kinds
        <4>3. P.next[0] = L.next[0]
          BY <4>2, <2>4, <1>0
        <4>4. P.head["Full"] = L.head["Full"]
          BY <3>2, <2>2 DEF Kinds
        <4> QED
          BY <4>1, <4>3, <4>4, <3>2, <2>6 DEF ListsHold, Kinds
      <3> QED
        BY <3>1, <3>2
    <2>9. ASSUME NEW j \in {"Closed", "Open"}
          PROVE  IF N[j] = {} THEN P.head[j] = 0
                 ELSE P.head[j] \in N[j] /\ IsRing(N[j], P.prev, P.next)
      <3>1. CASE j = k
        <4>1. N[j] = ring(k) \ {b} /\ L.head[k] \in M[k]
          BY <3>1, <1>1 DEF ListsHold
        <4> QED
          BY <4>1, <3>1, <2>2, <2>5, <2>7
      <3>2. CASE j # k
        <4>1. N[j] = ring(j) /\ P.head[j] = L.head[j]
          BY <3>2, <1>1, <2>2 DEF Kinds
        <4> QED
          BY <4>1, <3>2, <2>6 DEF ListsHold, Kinds
      <3> QED
        BY <3>1, <3>2
    <2> QED
      BY <2>3, <2>8, <2>9, <1>1 DEF ListsHold
  <1> QED
    BY <1>4, <1>5

\* What _push_block leaves: b heads its new list, the others are untouched.
LEMMA PushHolds ==
    ASSUME NEW L \in ListRec, NEW M \in Listing, ListsHold(L, M),
           NEW k \in Kinds, NEW b \in Blocks \ {0},
           \A j \in Kinds : b \notin M[j],
           NEW n \in Nat, n = 0 <=> k = "Full",
           NEW P, P = PushBlock(L, b, k, n),
           NEW N, N = Add(M, k, b)
    PROVE  P \in ListRec /\ N \in Listing /\ ListsHold(P, N)
  <1> DEFINE ring(j) == IF j = "Full" THEN M[j] \cup {0} ELSE M[j]
  <1>0. /\ b \in Blocks /\ b # 0 /\ 0 \in Blocks
        /\ \A j \in Kinds : ring(j) \subseteq Blocks /\ 0 \notin M[j] /\ b \notin ring(j)
        /\ \A j \in Kinds \ {k} : ring(j) \cap ring(k) = {}
    BY BlockAssumption DEF Listing, Kinds, Blocks
  <1>1. N \in Listing /\ N[k] = M[k] \cup {b} /\ \A j \in Kinds \ {k} : N[j] = M[j]
    BY DEF Listing, Add
  <1>2. ASSUME NEW j \in Kinds, ring(j) # {}
        PROVE  IsRing(ring(j), L.prev, L.next)
    BY <1>2 DEF ListsHold, Kinds
  <1> DEFINE empty == L.head[k] = 0 /\ n # 0
  <1>9. empty <=> (k # "Full" /\ M[k] = {})
    BY <1>0 DEF ListsHold, Kinds
  <1>3. CASE empty
    <2>0. k # "Full" /\ M[k] = {}
      BY <1>3, <1>9
    <2>1. P = [prev |-> [L.prev EXCEPT ![b] = b], next |-> [L.next EXCEPT ![b] = b],
               head |-> [L.head EXCEPT ![k] = b]]
      BY <1>3 DEF PushBlock
    <2>2. /\ P \in ListRec
          /\ \A x \in Blocks : /\ P.prev[x] = IF x = b THEN b ELSE L.prev[x]
                              /\ P.next[x] = IF x = b THEN b ELSE L.next[x]
          /\ P.head[k] = b /\ \A j \in Kinds \ {k} : P.head[j] = L.head[j]
      BY <2>1, <1>0 DEF ListRec
    <2>3. IsRing({b}, P.prev, P.next)
      BY <2>2, RingSingleton
    <2>4. ASSUME NEW j \in Kinds \ {k}, ring(j) # {}
          PROVE  IsRing(ring(j), P.prev, P.next)
      <3>1. \A x \in ring(j) : P.prev[x] = L.prev[x] /\ P.next[x] = L.next[x]
        BY <1>0, <2>2
      <3>2. IsRing(ring(j), L.prev, L.next)
        BY <1>2, <2>4
      <3> HIDE DEF ring
      <3> QED
        BY <3>1, <3>2, RingFrame
    <2>5. IsRing(N["Full"] \cup {0}, P.prev, P.next) /\ P.next[0] = P.head["Full"]
      <3>1. N["Full"] \cup {0} = ring("Full") /\ P.head["Full"] = L.head["Full"]
        BY <1>1, <2>0, <2>2 DEF Kinds
      <3>2. P.next[0] = L.next[0]
        BY <1>0, <2>2
      <3> QED
        BY <3>1, <3>2, <2>4, <2>0 DEF ListsHold, Kinds
    <2>6. ASSUME NEW j \in {"Closed", "Open"}
          PROVE  IF N[j] = {} THEN P.head[j] = 0
                 ELSE P.head[j] \in N[j] /\ IsRing(N[j], P.prev, P.next)
      <3>1. CASE j = k
        BY <3>1, <1>1, <2>0, <2>2, <2>3
      <3>2. CASE j # k
        <4>1. N[j] = ring(j) /\ P.head[j] = L.head[j]
          BY <3>2, <1>1, <2>2 DEF Kinds
        <4> QED
          BY <4>1, <3>2, <2>4 DEF ListsHold, Kinds
      <3> QED
        BY <3>1, <3>2
    <2> QED
      BY <2>2, <2>5, <2>6, <1>1 DEF ListsHold
  <1>4. CASE ~ empty
    <2> DEFINE h == L.head[k]
    <2>1. h \in ring(k) /\ IsRing(ring(k), L.prev, L.next)
      <3>1. CASE k = "Full"
        <4>1. IsRing(ring(k), L.prev, L.next) /\ 0 \in ring(k) /\ h = L.next[0]
          BY <3>1 DEF ListsHold
        <4> QED
          BY <4>1 DEF IsRing
      <3>2. CASE k # "Full"
        BY <3>2, <1>4, <1>9 DEF ListsHold, Kinds
      <3> QED
        BY <3>1, <3>2
    <2>2. /\ L.prev[h] \in ring(k) /\ h \in Blocks /\ L.prev[h] \in Blocks
          /\ h # b /\ L.prev[h] # b
      <3>1. L.prev[h] \in ring(k)
        <4> HIDE DEF ring, h
        <4> QED
          BY <2>1 DEF IsRing
      <3>2. ring(k) \subseteq Blocks /\ b \notin ring(k)
        BY <1>0
      <3> HIDE DEF ring, h
      <3> QED
        BY <3>1, <3>2, <2>1
    <2>3. P = [prev |-> [L.prev EXCEPT ![b] = L.prev[h], ![h] = b],
               next |-> [L.next EXCEPT ![b] = h, ![L.prev[h]] = b],
               head |-> [L.head EXCEPT ![k] = b]]
      BY <1>4 DEF PushBlock, LinkPrv, LinkNxt
    <2>4. /\ P \in ListRec
          /\ P.head[k] = b /\ \A j \in Kinds \ {k} : P.head[j] = L.head[j]
      BY <2>2, <2>3, <1>0 DEF ListRec
    <2>5. \A x \in Blocks :
             /\ P.prev[x] = IF x = h THEN b ELSE IF x = b THEN L.prev[h] ELSE L.prev[x]
             /\ P.next[x] = IF x = L.prev[h] THEN b ELSE IF x = b THEN h ELSE L.next[x]
      BY <2>2, <2>3, <1>0 DEF ListRec
    <2>6. IsRing(ring(k) \cup {b}, P.prev, P.next)
      <3>1. ring(k) \cup {b} \subseteq Blocks /\ b \notin ring(k)
        BY <1>0
      <3> HIDE DEF ring, h
      <3> QED
        BY <3>1, <2>1, <2>5, RingLink
    <2>7. ASSUME NEW j \in Kinds \ {k}, ring(j) # {}
          PROVE  IsRing(ring(j), P.prev, P.next)
      <3>1. \A x \in ring(j) : P.prev[x] = L.prev[x] /\ P.next[x] = L.next[x]
        BY <1>0, <2>1, <2>2, <2>5
      <3>2. IsRing(ring(j), L.prev, L.next)
        BY <1>2, <2>7
      <3> HIDE DEF ring
      <3> QED
        BY <3>1, <3>2, RingFrame
    <2>8. IsRing(N["Full"] \cup {0}, P.prev, P.next) /\ P.next[0] = P.head["Full"]
      <3>1. CASE k = "Full"
        <4>1. N["Full"] \cup {0} = ring(k) \cup {b}
          BY <3>1, <1>1
        <4>2. L.next[0] = h
          BY <3>1 DEF ListsHold
        <4>3. L.prev[h] = 0
          BY <3>1, <4>2, <2>1 DEF IsRing
        <4> QED
          BY <3>1, <4>1, <4>3, <2>4, <2>5, <2>6, <1>0
      <3>2. CASE k # "Full"
        <4>1. N["Full"] \cup {0} = ring("Full") /\ P.head["Full"] = L.head["Full"]
          BY <3>2, <1>1, <2>4 DEF Kinds
        <4>2. L.prev[h] # 0
          BY <3>2, <2>2, <1>0
        <4>3. P.next[0] = L.next[0]
          BY <4>2, <2>5, <1>0
        <4> QED
          BY <4>1, <4>3, <3>2, <2>7 DEF ListsHold, Kinds
      <3> QED
        BY <3>1, <3>2
    <2>9. ASSUME NEW j \in {"Closed", "Open"}
          PROVE  IF N[j] = {} THEN P.head[j] = 0
                 ELSE P.head[j] \in N[j] /\ IsRing(N[j], P.prev, P.next)
      <3>1. CASE j = k
        BY <3>1, <1>1, <2>4, <2>6
      <3>2. CASE j # k
        <4>1. N[j] = ring(j) /\ P.head[j] = L.head[j]
          BY <3>2, <1>1, <2>4 DEF Kinds
        <4> QED
          BY <4>1, <3>2, <2>7 DEF ListsHold, Kinds
      <3> QED
        BY <3>1, <3>2
    <2> QED
      BY <2>4, <2>8, <2>9, <1>1 DEF ListsHold
  <1> QED
    BY <1>3, <1>4

\* Moving b to another list moves it there and nowhere else.
LEMMA TransferHolds ==
    ASSUME NEW L \in ListRec, NEW M \in Listing, ListsHold(L, M),
           NEW from \in Kinds, NEW to \in Kinds, from # to, NEW b \in M[from],
           NEW n \in Nat, n = 0 <=> to = "Full",
           NEW P, P = TransferBlock(L, b, from, to, n),
           NEW N, N = Add(Drop(M, from, b), to, b)
    PROVE  P \in ListRec /\ N \in Listing /\ ListsHold(P, N)
  <1> DEFINE Q == PopBlock(L, b, from)
             R == Drop(M, from, b)
  <1>1. Q \in ListRec /\ R \in Listing /\ ListsHold(Q, R)
    BY PopHolds
  <1>2. b \in Blocks \ {0} /\ \A j \in Kinds : b \notin R[j]
    <2>1. \A j \in Kinds : R[j] = IF j = from THEN M[j] \ {b} ELSE M[j]
      BY DEF Listing, Drop
    <2>2. b \in Blocks \ {0} /\ \A j \in Kinds : j # from => b \notin M[j]
      BY DEF Listing
    <2> HIDE DEF R
    <2> QED
      BY <2>1, <2>2
  <1>3. P = PushBlock(Q, b, to, n)
    BY DEF TransferBlock
  <1>4. N = Add(R, to, b)
    OBVIOUS
  <1> HIDE DEF Q, R
  <1> QED
    BY <1>1, <1>2, <1>3, <1>4, PushHolds

\* Closing the Open block b leaves the links of the Open blocks that do not
\* come just before it.
LEMMA TransferNext ==
    ASSUME NEW L \in ListRec, NEW M \in Listing, ListsHold(L, M),
           NEW b \in M["Open"], NEW x \in M["Open"], x # b, L.next[x] # b,
           NEW n \in Nat, NEW T, T = TransferBlock(L, b, "Open", "Closed", n)
    PROVE  T.next[x] = L.next[x]
  <1> DEFINE P == PopBlock(L, b, "Open")
             N == Drop(M, "Open", b)
             h == P.head["Closed"]
  <1>1. P \in ListRec /\ N \in Listing /\ ListsHold(P, N)
    BY PopHolds DEF Kinds
  <1>2. /\ b \in Blocks /\ x \in Blocks /\ IsRing(M["Open"], L.prev, L.next)
        /\ N["Closed"] = M["Closed"] /\ x \notin M["Closed"]
    BY DEF Listing, Kinds, Drop, ListsHold
  <1>3. P.next[x] = L.next[x]
    <2>1. L.next[L.prev[b]] = b
      BY <1>2 DEF IsRing
    <2> QED
      BY <2>1, <1>2 DEF PopBlock, UnlinkNxt, ListRec
  <1>4. h # 0 => P.prev[h] \in M["Closed"] /\ h \in Blocks
    BY <1>1, <1>2 DEF ListsHold, IsRing, ListRec, Kinds
  <1> HIDE DEF P
  <1>5. T = PushBlock(P, b, "Closed", n)
    BY DEF TransferBlock, P
  <1>6. CASE h = 0 /\ n # 0
    BY <1>1, <1>2, <1>3, <1>5, <1>6 DEF PushBlock, ListRec
  <1>7. CASE h # 0
    BY <1>1, <1>2, <1>3, <1>4, <1>5, <1>7 DEF PushBlock, LinkNxt, ListRec
  <1>8. CASE h = 0 /\ n = 0
    <2>1. P.prev[0] \in N["Full"] \cup {0}
      BY <1>1 DEF ListsHold, IsRing
    <2>2. x \notin N["Full"] /\ x # 0
      BY <1>1 DEF Listing, Drop, Kinds
    <2> QED
      BY <1>1, <1>2, <1>3, <1>5, <1>8, <2>1, <2>2 DEF PushBlock, LinkNxt, ListRec
  <1> QED
    BY <1>6, <1>7, <1>8

\* The kinds partition the listed blocks.
LEMMA MembersListing ==
    ASSUME NEW n \in [Blocks -> 0 .. B], NEW t, NEW r \in 0 .. MaxBlocks
    PROVE  MembersOf(n, t, r) \in Listing
  <1>1. 1 .. r - 1 \subseteq Blocks \ {0}
    BY BlockAssumption DEF Blocks
  <1>2. ASSUME NEW b \in Blocks, NEW j \in Kinds, NEW k \in Kinds, j # k,
               Belongs(j, n[b], t[b])
        PROVE  ~ Belongs(k, n[b], t[b])
    <2>1. n[b] \in Nat
      BY BlockAssumption
    <2> QED
      BY <2>1, <1>2 DEF Belongs, Kinds
  <1> QED
    BY <1>1, <1>2 DEF MembersOf, Listing

\* Adding and dropping, kind by kind.
LEMMA MoveMembers ==
    ASSUME NEW M \in Listing, NEW from \in Kinds, NEW to \in Kinds, from # to,
           NEW b \in Blocks \ {0},
           NEW N \in [Kinds -> SUBSET Blocks],
           N[from] = M[from] \ {b}, N[to] = M[to] \cup {b},
           \A k \in Kinds \ {from, to} : N[k] = M[k]
    PROVE  N = Add(Drop(M, from, b), to, b)
  <1>1. Drop(M, from, b) \in [Kinds -> SUBSET Blocks]
        /\ \A k \in Kinds : Drop(M, from, b)[k] = IF k = from THEN M[k] \ {b} ELSE M[k]
    BY DEF Drop, Listing
  <1> DEFINE D == Drop(M, from, b)
             A == Add(D, to, b)
  <1>2. A \in [Kinds -> SUBSET Blocks]
        /\ \A k \in Kinds : A[k] = IF k = to THEN D[k] \cup {b} ELSE D[k]
    BY <1>1 DEF Add
  <1> HIDE DEF D, A
  <1>3. \A k \in Kinds : N[k] = A[k]
    BY <1>1, <1>2 DEF D
  <1>4. N = A
    BY <1>2, <1>3
  <1> QED
    BY <1>4 DEF D, A

\* Adding a block to one kind leaves the others.
LEMMA AddMember ==
    ASSUME NEW M \in Listing, NEW to \in Kinds, NEW b \in Blocks \ {0},
           NEW N \in [Kinds -> SUBSET Blocks],
           N[to] = M[to] \cup {b}, \A k \in Kinds \ {to} : N[k] = M[k]
    PROVE  N = Add(M, to, b)
  BY DEF Add, Listing

\* A block belongs on one list only.
LEMMA BelongsOnce ==
    ASSUME NEW n \in Nat, NEW t, NEW j \in Kinds, NEW k \in Kinds,
           Belongs(j, n, t), Belongs(k, n, t)
    PROVE  j = k
  BY DEF Belongs, Kinds

-----------------------------------------------------------------------------
(* The lists of a trie, with the entries n, t of its blocks, of which      *)
(* there are m; the first r are listed.                                    *)

EntriesOK(n, t, m, r) ==
    /\ n \in [Blocks -> 0 .. B] /\ t \in [Blocks -> 0 .. MaxTrial]
    /\ m \in 1 .. MaxBlocks /\ r \in 0 .. m

\* The lists match the blocks, the root stays counted, and the blocks beyond
\* the end of the array are as fresh as _add_block needs.
ListsOK(L, n, t, m, r) ==
    /\ EntriesOK(n, t, m, r) /\ L \in ListRec
    /\ ListsHold(L, MembersOf(n, t, r))
    /\ n[0] >= 1
    /\ \A b \in Blocks : b >= m => n[b] = B /\ t[b] = 0
    /\ r # m => \A b \in Blocks : t[b] = 0

\* The lists keep matching when the entries of block b become x and y, and b
\* is moved from the list it belonged on to the one it belongs on now.
LEMMA MoveLists ==
    ASSUME NEW L \in ListRec, NEW n \in [Blocks -> 0 .. B],
           NEW t \in [Blocks -> 0 .. MaxTrial], NEW r \in 0 .. MaxBlocks,
           ListsHold(L, MembersOf(n, t, r)),
           NEW b \in 1 .. r - 1, NEW x \in 0 .. B, NEW y \in 0 .. MaxTrial,
           NEW from \in Kinds, NEW to \in Kinds,
           Belongs(from, n[b], t[b]), Belongs(to, x, y),
           NEW L2, from = to => L2 = L, from # to => L2 = TransferBlock(L, b, from, to, x),
           NEW n2 \in [Blocks -> 0 .. B], NEW t2, n2[b] = x, t2[b] = y,
           \A c \in Blocks \ {b} : n2[c] = n[c] /\ t2[c] = t[c]
    PROVE  L2 \in ListRec /\ ListsHold(L2, MembersOf(n2, t2, r))
  <1> DEFINE M == MembersOf(n, t, r)
             N == MembersOf(n2, t2, r)
  <1>1. 1 .. r - 1 \subseteq Blocks /\ b \in Blocks /\ b # 0 /\ n[b] \in Nat /\ x \in Nat
    <2>1. 1 .. r - 1 \subseteq Blocks /\ b \in Blocks /\ b # 0
      BY BlockAssumption DEF Blocks
    <2>2. n[b] \in Nat /\ x \in Nat
      BY <2>1, BlockAssumption
    <2> QED
      BY <2>1, <2>2
  <1>2. M \in Listing /\ N \in Listing
    BY <1>1, MembersListing
  <1>3. \A k \in Kinds : N[k] = IF k = to THEN M[k] \cup {b} ELSE M[k] \ {b}
    <2> SUFFICES ASSUME NEW k \in Kinds
                 PROVE  N[k] = IF k = to THEN M[k] \cup {b} ELSE M[k] \ {b}
      OBVIOUS
    <2>1. N[k] = IF Belongs(k, x, y) THEN M[k] \cup {b} ELSE M[k] \ {b}
      <3>1. \A c \in 1 .. r - 1 :
               c # b => (Belongs(k, n2[c], t2[c]) <=> Belongs(k, n[c], t[c]))
        BY <1>1
      <3>2. Belongs(k, n2[b], t2[b]) <=> Belongs(k, x, y)
        BY <1>1
      <3> QED
        BY <3>1, <3>2 DEF MembersOf
    <2>2. Belongs(k, x, y) <=> k = to
      BY <1>1, BelongsOnce
    <2> QED
      BY <2>1, <2>2
  <1>4. \A k \in Kinds : b \in M[k] <=> k = from
    <2> SUFFICES ASSUME NEW k \in Kinds PROVE b \in M[k] <=> k = from
      OBVIOUS
    <2>1. b \in M[k] <=> Belongs(k, n[b], t[b])
      BY DEF MembersOf
    <2> QED
      BY <2>1, <1>1, BelongsOnce
  <1> HIDE DEF M, N
  <1>5. \A k \in Kinds : k # from => M[k] \ {b} = M[k]
    BY <1>4
  <1>6. CASE from = to
    <2>1. M[from] \cup {b} = M[from]
      BY <1>4
    <2>2. \A k \in Kinds : N[k] = M[k]
      BY <1>3, <1>5, <1>6, <2>1
    <2>3. N = M
      BY <2>2, <1>2 DEF Listing
    <2> QED
      BY <2>3, <1>1, <1>6 DEF M, N
  <1>7. CASE from # to
    <2>1. N \in [Kinds -> SUBSET Blocks]
      BY <1>2 DEF Listing
    <2>2. N[from] = M[from] \ {b} /\ N[to] = M[to] \cup {b}
      BY <1>3, <1>7
    <2>3. \A k \in Kinds \ {from, to} : N[k] = M[k]
      BY <1>3, <1>5
    <2>4. N = Add(Drop(M, from, b), to, b)
      BY <2>1, <2>2, <2>3, <1>1, <1>2, <1>7, MoveMembers
    <2>5. x = 0 <=> to = "Full"
      BY <1>1 DEF Belongs, Kinds
    <2>6. /\ L2 = TransferBlock(L, b, from, to, x)
          /\ b \in M[from] /\ ListsHold(L, M)
      BY <1>4, <1>7 DEF M
    <2>7. L2 \in ListRec /\ ListsHold(L2, N)
      BY <2>4, <2>5, <2>6, <1>1, <1>2, <1>7, TransferHolds
    <2> QED
      BY <2>7 DEF N
  <1> QED
    BY <1>6, <1>7

\* The entries of block 0 matter to no list.
LEMMA RootEntries ==
    ASSUME NEW n, NEW t, NEW r \in 0 .. MaxBlocks, NEW n2, NEW t2,
           \A c \in Blocks \ {0} : n2[c] = n[c] /\ t2[c] = t[c]
    PROVE  MembersOf(n2, t2, r) = MembersOf(n, t, r)
  <1>1. \A c \in 1 .. r - 1 : c \in Blocks \ {0}
    BY BlockAssumption DEF Blocks
  <1> QED
    BY <1>1 DEF MembersOf

\* The rest of ListsOK after the entries of one block changed.
LEMMA EntriesAt ==
    ASSUME NEW L, NEW n, NEW t, NEW m, NEW b \in Blocks, ListsOK(L, n, t, m, m), b < m,
           NEW L2 \in ListRec, NEW x \in 0 .. B, NEW y \in 0 .. MaxTrial, b = 0 => x >= 1,
           NEW n2 \in [Blocks -> 0 .. B], NEW t2 \in [Blocks -> 0 .. MaxTrial],
           n2[b] = x, t2[b] = y, \A c \in Blocks \ {b} : n2[c] = n[c] /\ t2[c] = t[c],
           ListsHold(L2, MembersOf(n2, t2, m))
    PROVE  ListsOK(L2, n2, t2, m, m)
  <1>1. EntriesOK(n2, t2, m, m)
    BY DEF ListsOK, EntriesOK
  <1>2. n2[0] >= 1
    BY BlockAssumption DEF ListsOK, EntriesOK, Blocks
  <1>3. \A c \in Blocks : c >= m => n2[c] = B /\ t2[c] = 0
    <2> SUFFICES ASSUME NEW c \in Blocks, c >= m
                 PROVE  n2[c] = B /\ t2[c] = 0
      OBVIOUS
    <2>1. c # b
      BY DEF Blocks, ListsOK, EntriesOK
    <2> QED
      BY <2>1 DEF ListsOK, EntriesOK
  <1> QED
    BY <1>1, <1>2, <1>3 DEF ListsOK

\* A slot taken (_pop_enode) moves its block as its counter calls for.
LEMMA TakeLists ==
    ASSUME NEW L, NEW n, NEW t, NEW m, ListsOK(L, n, t, m, m),
           NEW b \in Blocks, b < m, n[b] > IF b = 0 THEN 1 ELSE 0,
           NEW k, k = n[b] - 1
    PROVE  ListsOK(ListsAfterTake(L, b, k, t[b]), [n EXCEPT ![b] = k], t, m, m)
  <1> DEFINE y == t[b]
             L2 == ListsAfterTake(L, b, k, y)
             n2 == [n EXCEPT ![b] = k]
  <1>1. /\ n \in [Blocks -> 0 .. B] /\ t \in [Blocks -> 0 .. MaxTrial] /\ m \in 0 .. MaxBlocks
        /\ L \in ListRec /\ ListsHold(L, MembersOf(n, t, m))
    BY BlockAssumption DEF ListsOK, EntriesOK
  <1>2. n[b] \in 1 .. B /\ k \in 0 .. B /\ (b = 0 => k >= 1)
    <2>1. n[b] \in 0 .. B /\ n[b] > (IF b = 0 THEN 1 ELSE 0)
      BY <1>1
    <2> QED
      BY <2>1, BlockAssumption
  <1>3. /\ y \in 0 .. MaxTrial /\ n2 \in [Blocks -> 0 .. B] /\ n2[b] = k /\ t[b] = y
        /\ \A c \in Blocks \ {b} : n2[c] = n[c] /\ t[c] = t[c]
    BY <1>1, <1>2
  <1>4. L2 \in ListRec /\ ListsHold(L2, MembersOf(n2, t, m))
    <2>1. CASE b = 0
      <3>1. L2 = L
        BY <2>1 DEF ListsAfterTake
      <3>2. \A c \in Blocks \ {0} : n2[c] = n[c] /\ t[c] = t[c]
        BY <1>1, <2>1
      <3> HIDE DEF L2, n2
      <3>3. MembersOf(n2, t, m) = MembersOf(n, t, m)
        BY <1>1, <3>2, RootEntries
      <3> QED
        BY <1>1, <3>1, <3>3
    <2>2. CASE b # 0
      <3>1. b \in 1 .. m - 1
        BY <1>1, <2>2 DEF Blocks
      <3> DEFINE from == IF n[b] = 1 \/ y = MaxTrial THEN "Closed" ELSE "Open"
                 to   == IF k = 0 THEN "Full"
                         ELSE IF k = 1 \/ y = MaxTrial THEN "Closed" ELSE "Open"
      <3>2. from \in Kinds /\ to \in Kinds
        BY DEF Kinds
      <3>3. Belongs(from, n[b], t[b]) /\ Belongs(to, k, y)
        BY <1>2 DEF Belongs
      <3>4. /\ from = to => L2 = L
            /\ from # to => L2 = TransferBlock(L, b, from, to, k)
        <4>1. CASE k = 0
          BY <4>1, <1>2, <2>2 DEF ListsAfterTake
        <4>2. CASE k = 1 /\ y # MaxTrial
          BY <4>2, <1>2, <2>2 DEF ListsAfterTake
        <4>3. CASE k # 0 /\ (k = 1 => y = MaxTrial)
          BY <4>3, <1>2, <2>2 DEF ListsAfterTake
        <4> QED
          BY <4>1, <4>2, <4>3
      <3> HIDE DEF from, to, y, L2, n2
      <3> QED
        BY <1>1, <1>2, <1>3, <3>1, <3>2, <3>3, <3>4, MoveLists, SMTT(60)
    <2> QED
      BY <2>1, <2>2
  <1> HIDE DEF L2, y, n2
  <1>5. ListsOK(L2, n2, t, m, m)
    BY <1>1, <1>2, <1>3, <1>4, EntriesAt
  <1> QED
    BY <1>5 DEF L2, n2, y

\* A slot given back (_push_enode) moves its block as its counter calls for.
LEMMA ReturnLists ==
    ASSUME NEW L, NEW n, NEW t, NEW m, ListsOK(L, n, t, m, m),
           NEW b \in Blocks, b < m, n[b] < B, NEW k, k = n[b] + 1,
           NEW t2, k = 1 => t2 = t, k # 1 => t2 = [t EXCEPT ![b] = 0]
    PROVE  ListsOK(ListsAfterReturn(L, b, k, t[b]), [n EXCEPT ![b] = k], t2, m, m)
  <1> DEFINE y == IF k = 1 THEN t[b] ELSE 0
             L2 == ListsAfterReturn(L, b, k, t[b])
             n2 == [n EXCEPT ![b] = k]
  <1>1. /\ n \in [Blocks -> 0 .. B] /\ t \in [Blocks -> 0 .. MaxTrial] /\ m \in 0 .. MaxBlocks
        /\ L \in ListRec /\ ListsHold(L, MembersOf(n, t, m))
    BY BlockAssumption DEF ListsOK, EntriesOK
  <1>2. n[b] \in 0 .. B - 1 /\ k \in 1 .. B /\ k \in 0 .. B
    <2>1. n[b] \in 0 .. B /\ n[b] < B
      BY <1>1
    <2> QED
      BY <2>1, BlockAssumption
  <1>3. /\ y \in 0 .. MaxTrial /\ n2 \in [Blocks -> 0 .. B] /\ n2[b] = k
        /\ t2 \in [Blocks -> 0 .. MaxTrial] /\ t2[b] = y
        /\ \A c \in Blocks \ {b} : n2[c] = n[c] /\ t2[c] = t[c]
    <2>1. t[b] \in 0 .. MaxTrial /\ n2 \in [Blocks -> 0 .. B] /\ n2[b] = k
      BY <1>1, <1>2
    <2>2. CASE k = 1
      BY <1>1, <2>1, <2>2
    <2>3. CASE k # 1
      BY <1>1, <2>1, <2>3, BlockAssumption
    <2> QED
      BY <2>2, <2>3
  <1>4. L2 \in ListRec /\ ListsHold(L2, MembersOf(n2, t2, m))
    <2>1. CASE b = 0
      <3>1. L2 = L
        BY <2>1 DEF ListsAfterReturn
      <3>2. \A c \in Blocks \ {0} : n2[c] = n[c] /\ t2[c] = t[c]
        BY <1>1, <1>3, <2>1
      <3> HIDE DEF L2, n2
      <3>3. MembersOf(n2, t2, m) = MembersOf(n, t, m)
        BY <1>1, <3>2, RootEntries
      <3> QED
        BY <1>1, <3>1, <3>3
    <2>2. CASE b # 0
      <3>1. b \in 1 .. m - 1
        BY <1>1, <2>2 DEF Blocks
      <3> DEFINE from == IF k = 1 THEN "Full"
                         ELSE IF k = 2 \/ t[b] = MaxTrial THEN "Closed" ELSE "Open"
                 to   == IF k = 1 THEN "Closed" ELSE "Open"
      <3>2. from \in Kinds /\ to \in Kinds
        BY DEF Kinds
      <3>3. Belongs(from, n[b], t[b]) /\ Belongs(to, k, y)
        BY <1>2, BlockAssumption DEF Belongs
      <3>4. /\ from = to => L2 = L
            /\ from # to => L2 = TransferBlock(L, b, from, to, k)
        <4>1. CASE k = 1
          BY <4>1, <1>2, <2>2 DEF ListsAfterReturn
        <4>2. CASE k # 1 /\ (k = 2 \/ t[b] = MaxTrial)
          BY <4>2, <1>2, <2>2 DEF ListsAfterReturn
        <4>3. CASE k # 1 /\ ~ (k = 2 \/ t[b] = MaxTrial)
          BY <4>3, <1>2, <2>2 DEF ListsAfterReturn
        <4> QED
          BY <4>1, <4>2, <4>3
      <3> HIDE DEF from, to, y, L2, n2
      <3> QED
        BY <1>1, <1>2, <1>3, <3>1, <3>2, <3>3, <3>4, MoveLists, SMTT(60)
    <2> QED
      BY <2>1, <2>2
  <1> HIDE DEF L2, y, n2
  <1>5. b = 0 => k >= 1
    BY <1>2
  <1>6. ListsOK(L2, n2, t2, m, m)
    BY <1>1, <1>2, <1>3, <1>4, <1>5, EntriesAt, SMTT(60)
  <1> QED
    BY <1>6 DEF L2, n2

\* A rejection (_find_place) closes a block at MAX_TRIAL.
LEMMA RejectLists ==
    ASSUME NEW L, NEW n, NEW t, NEW m, ListsOK(L, n, t, m, m),
           NEW b \in 1 .. m - 1, n[b] >= 2, t[b] < MaxTrial, NEW y, y = t[b] + 1,
           NEW L2, L2 = IF y = MaxTrial THEN TransferBlock(L, b, "Open", "Closed", n[b]) ELSE L
    PROVE  ListsOK(L2, n, [t EXCEPT ![b] = y], m, m)
  <1> DEFINE t2 == [t EXCEPT ![b] = y]
             x  == n[b]
             to == IF y = MaxTrial THEN "Closed" ELSE "Open"
  <1>1. /\ n \in [Blocks -> 0 .. B] /\ t \in [Blocks -> 0 .. MaxTrial] /\ m \in 0 .. MaxBlocks
        /\ L \in ListRec /\ ListsHold(L, MembersOf(n, t, m))
    BY BlockAssumption DEF ListsOK, EntriesOK
  <1>2. b \in Blocks /\ b # 0 /\ b < m
    BY <1>1, BlockAssumption DEF Blocks
  <1>3. x \in 0 .. B /\ x >= 2 /\ t[b] # MaxTrial /\ y \in 0 .. MaxTrial
    BY <1>1, <1>2, BlockAssumption
  <1>4. /\ n[b] = x /\ t2 \in [Blocks -> 0 .. MaxTrial] /\ t2[b] = y
        /\ \A c \in Blocks \ {b} : n[c] = n[c] /\ t2[c] = t[c]
    BY <1>1, <1>2, <1>3
  <1>5. "Open" \in Kinds /\ to \in Kinds
    BY DEF Kinds
  <1>6. Belongs("Open", n[b], t[b]) /\ Belongs(to, x, y)
    BY <1>3 DEF Belongs
  <1>7. /\ "Open" = to => L2 = L
        /\ "Open" # to => L2 = TransferBlock(L, b, "Open", to, x)
    OBVIOUS
  <1> HIDE DEF to, x, t2
  <1>8. L2 \in ListRec /\ ListsHold(L2, MembersOf(n, t2, m))
    BY <1>1, <1>3, <1>4, <1>5, <1>6, <1>7, MoveLists, SMTT(60)
  <1>9. ListsOK(L2, n, t2, m, m)
    BY <1>1, <1>2, <1>3, <1>4, <1>8, EntriesAt
  <1> QED
    BY <1>9 DEF t2

\* Listing a block where it belongs.
LEMMA ListLists ==
    ASSUME NEW L \in ListRec, NEW n \in [Blocks -> 0 .. B], NEW t,
           NEW r \in 1 .. MaxBlocks - 1, ListsHold(L, MembersOf(n, t, r)),
           NEW k \in Kinds, Belongs(k, n[r], t[r]),
           NEW L2, L2 = PushBlock(L, r, k, n[r])
    PROVE  L2 \in ListRec /\ ListsHold(L2, MembersOf(n, t, r + 1))
  <1> DEFINE M == MembersOf(n, t, r)
             N == MembersOf(n, t, r + 1)
  <1>1. r \in Blocks \ {0} /\ n[r] \in Nat /\ r \in 0 .. MaxBlocks /\ r + 1 \in 0 .. MaxBlocks
    <2>1. r \in Blocks \ {0} /\ r \in 0 .. MaxBlocks /\ r + 1 \in 0 .. MaxBlocks
      BY BlockAssumption DEF Blocks
    <2> QED
      BY <2>1, BlockAssumption
  <1>2. M \in Listing /\ N \in Listing
    BY <1>1, MembersListing
  <1>3. \A j \in Kinds : N[j] = IF j = k THEN M[j] \cup {r} ELSE M[j]
    <2> SUFFICES ASSUME NEW j \in Kinds
                 PROVE  N[j] = IF j = k THEN M[j] \cup {r} ELSE M[j]
      OBVIOUS
    <2>1. 1 .. (r + 1) - 1 = (1 .. r - 1) \cup {r}
      BY <1>1
    <2>2. Belongs(j, n[r], t[r]) <=> j = k
      BY <1>1, BelongsOnce
    <2> QED
      BY <2>1, <2>2 DEF MembersOf
  <1>4. \A j \in Kinds : r \notin M[j]
    BY <1>1 DEF MembersOf
  <1> HIDE DEF M, N
  <1>5. N = Add(M, k, r)
    <2>1. N \in [Kinds -> SUBSET Blocks] /\ N[k] = M[k] \cup {r}
          /\ \A j \in Kinds \ {k} : N[j] = M[j]
      BY <1>2, <1>3 DEF Listing
    <2> QED
      BY <2>1, <1>1, <1>2, AddMember
  <1>6. n[r] = 0 <=> k = "Full"
    BY <1>1 DEF Belongs, Kinds
  <1>7. ListsHold(L, M)
    BY DEF M
  <1>8. L2 \in ListRec /\ ListsHold(L2, N)
    BY <1>1, <1>2, <1>4, <1>5, <1>6, <1>7, PushHolds
  <1> QED
    BY <1>8 DEF N

\* A new block (_add_block) is Open.
LEMMA AddLists ==
    ASSUME NEW L, NEW n, NEW t, NEW m, ListsOK(L, n, t, m, m), m < MaxBlocks
    PROVE  ListsOK(PushBlock(L, m, "Open", B), n, t, m + 1, m + 1)
  <1> DEFINE L2 == PushBlock(L, m, "Open", n[m])
  <1>1. /\ m \in 1 .. MaxBlocks - 1 /\ m \in Blocks /\ n[m] = B /\ t[m] = 0
        /\ L \in ListRec /\ n \in [Blocks -> 0 .. B] /\ ListsHold(L, MembersOf(n, t, m))
    BY BlockAssumption DEF ListsOK, EntriesOK, Blocks
  <1>2. "Open" \in Kinds /\ Belongs("Open", n[m], t[m])
    BY <1>1, BlockAssumption DEF Kinds, Belongs
  <1> HIDE DEF L2
  <1>3. L2 \in ListRec /\ ListsHold(L2, MembersOf(n, t, m + 1))
    BY <1>1, <1>2, ListLists DEF L2
  <1>4. ListsOK(L2, n, t, m + 1, m + 1)
    BY <1>1, <1>3, BlockAssumption DEF ListsOK, EntriesOK, Blocks
  <1> QED
    BY <1>1, <1>4 DEF L2

\* _restore_block begins with nothing listed.
LEMMA NothingListed ==
    ASSUME NEW n \in [Blocks -> 0 .. B], NEW m \in 1 .. MaxBlocks, n[0] >= 1,
           \A b \in Blocks : b >= m => n[b] = B, NEW r \in {0, 1}
    PROVE  ListsOK(NoLists, n, [b \in Blocks |-> 0], m, r)
  <1> DEFINE t == [b \in Blocks |-> 0]
             L == NoLists
  <1>1. /\ L \in ListRec /\ L.prev[0] = 0 /\ L.next[0] = 0
        /\ \A k \in Kinds : L.head[k] = 0
    BY BlockAssumption DEF NoLists, ListRec, Blocks
  <1>2. \A k \in Kinds : MembersOf(n, t, r)[k] = {}
    BY DEF MembersOf
  <1>3. MembersOf(n, t, r)["Full"] \cup {0} = {0}
    BY <1>2 DEF Kinds
  <1>4. IsRing({0}, L.prev, L.next)
    BY <1>1, RingSingleton
  <1>5. ListsHold(L, MembersOf(n, t, r))
    BY <1>1, <1>2, <1>3, <1>4 DEF ListsHold, Kinds
  <1>6. t \in [Blocks -> 0 .. MaxTrial] /\ \A b \in Blocks : t[b] = 0
    BY BlockAssumption
  <1> HIDE DEF t, L
  <1>7. ListsOK(L, n, t, m, r)
    BY <1>1, <1>5, <1>6, BlockAssumption DEF ListsOK, EntriesOK
  <1> QED
    BY <1>7 DEF L, t

\* _restore_block lists a block by its counter alone.
LEMMA RegisterLists ==
    ASSUME NEW L, NEW n0, NEW t, NEW m, NEW r, ListsOK(L, n0, t, m, r), r # m,
           NEW x \in 0 .. B, r = 0 => x >= 1
    PROVE  ListsOK(ListsAfterRegister(L, r, x), [n0 EXCEPT ![r] = x], t, m, r + 1)
  <1> DEFINE n  == [n0 EXCEPT ![r] = x]
             k  == RestoredKind(n[r])
             L2 == PushBlock(L, r, k, n[r])
  <1>0. n[r] = x /\ ListsOK(L, n, t, m, r)
    <2>1. /\ r \in 0 .. m - 1 /\ m \in 1 .. MaxBlocks /\ r \in Blocks
          /\ n0 \in [Blocks -> 0 .. B] /\ 0 \in Blocks
      BY BlockAssumption DEF ListsOK, EntriesOK, Blocks
    <2>2. n \in [Blocks -> 0 .. B] /\ n[r] = x /\ \A c \in Blocks \ {r} : n[c] = n0[c]
      BY <2>1
    <2> HIDE DEF n
    <2>3. MembersOf(n, t, r) = MembersOf(n0, t, r)
      <3>1. \A c \in 1 .. r - 1 : c \in Blocks \ {r}
        BY <2>1, BlockAssumption DEF Blocks
      <3> QED
        BY <3>1, <2>2 DEF MembersOf
    <2>4. n[0] >= 1
      BY <2>1, <2>2 DEF ListsOK
    <2>5. \A b \in Blocks : b >= m => n[b] = B /\ t[b] = 0
      BY <2>1, <2>2 DEF ListsOK, Blocks
    <2> QED
      BY <2>2, <2>3, <2>4, <2>5 DEF ListsOK, EntriesOK
  <1> HIDE DEF n
  <1>1. /\ r \in 0 .. m - 1 /\ m \in 1 .. MaxBlocks /\ r \in Blocks
        /\ n[r] \in 0 .. B /\ t[r] = 0 /\ L \in ListRec /\ n \in [Blocks -> 0 .. B]
        /\ ListsHold(L, MembersOf(n, t, r))
    <2>1. r \in 0 .. m - 1 /\ m \in 1 .. MaxBlocks
      BY DEF ListsOK, EntriesOK
    <2>2. r \in Blocks
      BY <2>1, BlockAssumption DEF Blocks
    <2> QED
      BY <1>0, <2>1, <2>2 DEF ListsOK, EntriesOK
  <1>2. k \in Kinds /\ Belongs(k, n[r], t[r])
    BY <1>1, BlockAssumption DEF Kinds, Belongs, RestoredKind
  <1>3. L2 \in ListRec /\ ListsHold(L2, MembersOf(n, t, r + 1))
    <2>1. CASE r = 0
      <3> DEFINE M == MembersOf(n, t, r)
                 N == MembersOf(n, t, r + 1)
      <3>1. \A j \in Kinds : M[j] = {} /\ N[j] = {}
        BY <2>1 DEF MembersOf
      <3>2. M["Full"] \cup {0} = {0} /\ N["Full"] \cup {0} = {0}
        BY <3>1 DEF Kinds
      <3>3. ListsHold(L, M)
        BY <1>1
      <3> HIDE DEF M, N
      <3>4. /\ \A j \in Kinds : L.head[j] = 0
            /\ IsRing({0}, L.prev, L.next)
            /\ L.next[0] = 0 /\ L.prev[0] = 0
        <4>1. IsRing({0}, L.prev, L.next) /\ L.next[0] = L.head["Full"]
          BY <3>2, <3>3 DEF ListsHold
        <4>2. L.next[0] = 0 /\ L.prev[0] = 0
          BY <4>1 DEF IsRing
        <4> QED
          BY <4>1, <4>2, <3>1, <3>3 DEF ListsHold, Kinds
      <3>5. k # "Full" /\ n[r] # 0
        BY <1>0, <1>1, <2>1 DEF ListsOK, RestoredKind
      <3>6. L2 = [prev |-> [L.prev EXCEPT ![0] = 0], next |-> [L.next EXCEPT ![0] = 0],
                  head |-> [L.head EXCEPT ![k] = 0]]
        BY <1>2, <2>1, <3>4, <3>5 DEF PushBlock
      <3>7. L2 = L
        BY <3>6, <3>4, <1>1, <1>2 DEF ListRec
      <3>8. ListsHold(L, N)
        BY <3>1, <3>2, <3>4 DEF ListsHold, Kinds
      <3> QED
        BY <3>7, <3>8, <1>1 DEF N
    <2>2. CASE r # 0
      <3>1. r \in 1 .. MaxBlocks - 1
        BY <1>1, <2>2, BlockAssumption
      <3> HIDE DEF k, L2
      <3> QED
        BY <1>1, <1>2, <3>1, ListLists DEF L2
    <2> QED
      BY <2>1, <2>2
  <1> HIDE DEF L2
  <1>4. ListsOK(L2, n, t, m, r + 1)
    BY <1>0, <1>1, <1>3, BlockAssumption DEF ListsOK, EntriesOK
  <1> QED
    BY <1>0, <1>4 DEF L2, n, ListsAfterRegister

=============================================================================
