----------------------------- MODULE CedarDict -----------------------------
(***************************************************************************)
(* The dictionary and the trie classes of pycedar.pyx over cedar::da: the  *)
(* calls that store, count, pop and enumerate keys, with the two values    *)
(* the trie reserves for its answers.  map is what a Python dict of the    *)
(* same keys would hold; the queries are compared with it.                 *)
(***************************************************************************)
EXTENDS DoubleArray, CursorOps

LOCAL INSTANCE SequencesExt

CONSTANTS Stores,            \* values given to set, reserved ones among them
          Deltas,            \* amounts given to update
          MinValue,          \* bound: a value adding may reach
          InitialCapacity,   \* _PREDICT_INITIAL_CAPACITY (64)
          Queries            \* keys and prefixes asked for

ASSUME DictAssumption ==
    /\ Stores \subseteq Int /\ Deltas \subseteq Int /\ MinValue \in Int
    /\ InitialCapacity \in Nat \ {0}
    /\ Queries \subseteq Seq(Labels \ {0})

Reserved == {NoValue, NoPath}

\* Mutant: a reserved sum stays.
UpdatedKept(t, k, d) == Update(t, k, d).t

\* set refuses the two values.
Storable(v) == v \notin Reserved

Result(u) == IF u.in = "node" THEN u.t.array[u.at].base ELSE u.t.tail[u.at]

\* update of the Python layer: a reserved sum is rolled back.
Undone(u, k, d) == IF Result(u) \in Reserved THEN Update(u.t, k, -d).t ELSE u.t
Updated(t, k, d) == Undone(Update(t, k, d), k, d)

-----------------------------------------------------------------------------
\* Bound: the keys the tail has room for.
Room == {k \in Keys : Fitting(k)}

Store == \E k \in Room, v \in Stores : Storable(v) /\ SetKey(k, v)

\* A refused sum leaves the key with the value it had, 0 if it was new.
UpdateKey ==
    \E k \in Room, d \in Deltas :
      LET sum == Map!ValueAt(k) + d
      IN  /\ sum \in MinValue .. MaxValue
          /\ trie' = Updated(trie, k, d)
          /\ Map!Put(k, IF sum \in Reserved THEN Map!ValueAt(k) ELSE sum)

\* setdefault
SetDefault ==
    \E k \in Room, v \in Stores :
      /\ Storable(v)
      /\ trie' = IF Find(trie, k).value \in Reserved THEN Set(trie, k, v) ELSE trie
      /\ Map!Put(k, IF k \in DOMAIN map THEN map[k] ELSE v)

\* pop and __delitem__; a missing key raises and changes nothing.
Pop ==
    \E k \in Keys :
      /\ trie' = IF Find(trie, k).value \in Reserved THEN trie ELSE Erase(trie, k)
      /\ Map!Erase(k)

Before(k, l) ==
    \E n \in 0 .. Len(l) - 1 :
       /\ n <= Len(k) /\ SubSeq(k, 1, n) = SubSeq(l, 1, n)
       /\ n < Len(k) => k[n + 1] < l[n + 1]

Sorted(S) == SetToSortSeq(S, Before)

\* popitem: the first key of the enumeration, which is the smallest.
PopItem ==
    LET first == Begin(trie, RootId, 0)
    IN  /\ first.value # NoPath
        /\ trie' = Erase(trie, Suffix(trie, first.id, first.pos))
        /\ Map!Erase(Sorted(DOMAIN map)[1])

DictNext ==
    Store \/ UpdateKey \/ SetDefault \/ Pop \/ PopItem \/ ShrinkTail \/ Reload

DictSpec == Init /\ [][DictNext]_vars

-----------------------------------------------------------------------------
(* Queries of the Python layer: (key, value, node_id) triples.             *)

Triple(t, r)       == [key |-> Suffix(t, r.id, r.pos), value |-> r.value, id |-> r.id]
Triples(t, answers) == [i \in DOMAIN answers |-> Triple(t, answers[i])]

\* Mutant: the buffer is not made larger.
Retried(t, key, id, first, capacity) == first.answers

\* The answers, asked for once more when there was no room for them all.
Answers(t, key, id, first, capacity) ==
    IF first.num > capacity THEN commonPrefixPredict(t, key, id, first.num).answers
                            ELSE first.answers

\* max is the number of answers wanted; -1 wants them all.
common_prefix_predict(t, key, id, max) ==
    LET capacity == IF max > 0 THEN max ELSE InitialCapacity
        first    == commonPrefixPredict(t, key, id, capacity)
    IN  IF max = 0 THEN <<>>
        ELSE Triples(t, IF max > 0 THEN first.answers
                                   ELSE Answers(t, key, id, first, capacity))

common_prefix_search(t, key, id, max) ==
    LET capacity == IF max > 0 /\ max < Len(key) THEN max ELSE Len(key)
    IN  IF max = 0 \/ key = <<>> THEN <<>>
        ELSE Triples(t, commonPrefixSearch(t, key, id, capacity).answers)

\* The lazy variants; what is left of an answer after max yields is not asked.
\* Mutant: each search starts at the root again, with its position.
ResumedAtRoot(t, key, i, y) == FindFrom(t, SubSeq(key, 1, i), RootId, y.pos)

Resumed(t, key, i, y) == FindFrom(t, SubSeq(key, 1, i), y.id, y.pos)

_iter_common_prefix_search(t, key, id, max) ==
    LET step[i \in 0 .. Len(key)] ==
          IF i = 0 THEN [out |-> <<>>, id |-> id, pos |-> 0, stop |-> max = 0]
          ELSE LET y == step[i - 1]
                   r == Resumed(t, key, i, y)
                   out == IF r.value \in Reserved THEN y.out
                          ELSE Append(y.out, [key |-> Suffix(t, r.id, i), value |-> r.value,
                                              id |-> r.id])
               IN  IF y.stop THEN y
                   ELSE [out |-> out, id |-> r.id, pos |-> r.pos,
                         stop |-> r.value = NoPath \/ (max > 0 /\ Len(out) >= max)]
    IN  step[Len(key)].out

_iter_common_prefix_predict(t, key, id, max) ==
    LET all == Triples(t, Below(t, FindFrom(t, key, id, 0)))
    IN  IF max < 0 THEN all ELSE UpTo(all, max)

\* node.traverse from the root, and dict.find on it: whole keys, with values.
Items(t, key) ==
    LET sub == FindFrom(t, key, RootId, 0)
    IN  IF sub.value = NoPath THEN <<>>
        ELSE Triples(t, EnumerateFrom(t, Begin(t, sub.id, sub.pos), sub.id))

-----------------------------------------------------------------------------
(* Properties.                                                             *)

StartsWith(k, q) == Len(q) <= Len(k) /\ SubSeq(k, 1, Len(q)) = q
Without(s)       == [i \in DOMAIN s |-> [key |-> s[i].key, value |-> s[i].value]]
Wanted(S, cut)   == [i \in DOMAIN Sorted(S) |->
                       [key |-> Rest(Sorted(S)[i], cut), value |-> map[Sorted(S)[i]]]]

FirstOf(s, max)  == IF max < 0 THEN s ELSE UpTo(s, max)

\* items(), find() and dump: every key that starts with the query, whole, once,
\* with its value and in the order of the keys, whether it ends in a terminal,
\* in a suffix or inside of one.
EnumerationRight ==
    /\ Without(Triples(trie, Dump(trie))) = Wanted(DOMAIN map, 0)
    /\ \A q \in Queries :
         Without(Items(trie, q)) = Wanted({k \in DOMAIN map : StartsWith(k, q)}, 0)

\* From any cursor a query has reached, common_prefix_predict gives what is left
\* of every key below the query, also with a buffer that is too small at first,
\* and common_prefix_search every key that ends between the cursor and the end
\* of the query, without the part the cursor stands for; a maximum keeps the
\* first of the answers.
PrefixQueriesRight ==
    \A q \in Queries : \A n \in 0 .. Len(q) :
      LET part   == FindFrom(trie, SubSeq(q, 1, n), RootId, 0)
          below  == Wanted({k \in DOMAIN map : StartsWith(k, q)}, Len(q))
          passed == Wanted({k \in DOMAIN map : StartsWith(q, k) /\ Len(k) > n}, n)
      IN  part.value # NoPath =>
            \A max \in {-1, 0, 1} :
              /\ Without(common_prefix_predict(trie, Rest(q, n), part.id, max))
                   = FirstOf(below, max)
              /\ Without(common_prefix_search(trie, Rest(q, n), part.id, max))
                   = FirstOf(passed, max)

\* The lazy variants yield the triples of the list versions, in that order.
LazySame ==
    \A q \in Queries, max \in {-1, 0, 1} :
      /\ _iter_common_prefix_search(trie, q, RootId, max)
           = common_prefix_search(trie, q, RootId, max)
      /\ _iter_common_prefix_predict(trie, q, RootId, max)
           = common_prefix_predict(trie, q, RootId, max)

\* A search may be left anywhere, in the middle of a suffix too, and taken up
\* from its cursor: the answer is that of one search for the whole key.
ScopedRight ==
    \A q \in Queries : \A n \in 0 .. Len(q) :
      LET part == FindFrom(trie, SubSeq(q, 1, n), RootId, 0)
          rest == exactMatchSearch(trie, Rest(q, n), part.id)
      IN  part.value # NoPath =>
            rest.value = IF q \in DOMAIN map THEN map[q] ELSE NoValue

\* Cursors stay good while keys are erased and values stored: only a new key
\* moves a node, and only shrink_tail and loads a suffix.
CursorsStand ==
    [][ (DOMAIN map' \subseteq DOMAIN map /\ ~ ShrinkTail /\ ~ Reload) =>
          \A k \in DOMAIN map' :
             exactMatchSearch(trie', k, RootId).id = exactMatchSearch(trie, k, RootId).id ]_vars

\* What node_id stands for, suffix gives back (README.md:334): the labels that
\* were followed from the root to it.
SuffixOfTraversed ==
    \A q \in Queries :
      LET r == FindFrom(trie, q, RootId, 0)
      IN  r.value # NoPath => Suffix(trie, r.id, r.pos) = q
=============================================================================
