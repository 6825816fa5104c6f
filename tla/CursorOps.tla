----------------------------- MODULE CursorOps -----------------------------
(***************************************************************************)
(* Cursors of cedar::da (cedarpp.h): the searches that start anywhere, the *)
(* enumeration of a subtree and the way back from a cursor to its key.     *)
(* A cursor is a node and, when the way to it ended inside a suffix, the   *)
(* cell of the tail it got to: the low and the high word of npos_t.  An    *)
(* answer is what a call returns in its value and its parameters.          *)
(***************************************************************************)
EXTENDS CedarOps

Id(at, off)             == [at |-> at, off |-> off]
RootId                  == Id(0, 0)
Answer(value, id, pos)  == [value |-> value, id |-> id, pos |-> pos]

-----------------------------------------------------------------------------
(* _find from a cursor, behind which are the first pos labels of the key.  *)

\* Mutant: the cell is not kept.
StandAtNode(id, offset, m) == id

\* The cursor after m labels met the suffix from offset on.
StandAt(id, offset, m) == IF m = 0 THEN id ELSE Id(id.at, offset + m)

InTail(t, key, id, pos, offset) ==
    LET m == Matched(t, offset, Rest(key, pos))
    IN  Answer(FindInTail(t, offset, Rest(key, pos)), StandAt(id, offset, m), pos + m)

OnTrie(t, key, d) ==
    IF d.miss \/ t.array[d.at].base >= 0
    THEN Answer(FoundAt(t, key, d).value, Id(d.at, 0), d.pos)
    ELSE InTail(t, key, Id(d.at, 0), d.pos, - t.array[d.at].base)

\* _find, and traverse.
FindFrom(t, key, id, pos) ==
    IF id.off # 0 THEN InTail(t, key, id, pos, id.off)
                  ELSE OnTrie(t, key, DescendFrom(t, key, id.at, pos))

\* exactMatchSearch: the length is that of the key.
exactMatchSearch(t, key, id) ==
    LET r == FindFrom(t, key, id, 0)
    IN  Answer(IF r.value = NoPath THEN NoValue ELSE r.value, r.id, Len(key))

-----------------------------------------------------------------------------
(* Enumeration: begin and next.                                            *)

\* The end of the suffix from offset on.
TailEnd(t, at, pos, offset) ==
    LET n == SuffixLen(t, offset)
    IN  Answer(t.tail[offset + n + 1], Id(at, offset + n), pos + n)

AtLeaf(t, at, pos) ==
    IF t.array[at].base >= 0
    THEN Answer(t.array[Xor(t.array[at].base, 0)].base, Id(at, 0), pos)
    ELSE TailEnd(t, at, pos, - t.array[at].base)

\* Down along the first children, to a terminal or a suffix.
FirstLeaf(t, node, len) ==
    LET leaf[n \in Slots] ==
          IF t.array[n].base < 0 \/ t.child[n] = 0 THEN [at |-> n, depth |-> 0]
          ELSE LET below == leaf[Xor(t.array[n].base, t.child[n])]
               IN  [below EXCEPT !.depth = @ + 1]
    IN  AtLeaf(t, leaf[node].at, len + leaf[node].depth)

\* begin: the first key below the cursor; the root's terminal is no key.
Begin(t, id, len) ==
    LET first == t.sibling[Xor(t.array[0].base, t.child[0])]
    IN  IF id.off # 0 THEN TailEnd(t, id.at, len, id.off)
        ELSE IF id.at # 0 THEN FirstLeaf(t, id.at, len)
        ELSE IF first = 0 THEN Answer(NoPath, id, len)
        ELSE FirstLeaf(t, Xor(t.array[0].base, first), len + 1)

\* Mutant: a node without a younger sibling ends the enumeration.
ClimbOnce(t, node, root) ==
    [at |-> t.array[node].check, up |-> 1, label |-> IF node = root THEN 0 ELSE t.sibling[node]]

\* Up from a node to where it, or a node above it, has a younger sibling.
Climb(t, node, root) ==
    LET up[n \in Slots] ==
          IF n = root THEN [at |-> n, up |-> 0, label |-> 0]
          ELSE IF t.sibling[n] # 0 THEN [at |-> t.array[n].check, up |-> 1, label |-> t.sibling[n]]
          ELSE LET above == up[t.array[n].check] IN [above EXCEPT !.up = @ + 1]
    IN  up[node]

NextAt(t, c, len) ==
    IF c.label = 0 THEN Answer(NoPath, Id(c.at, 0), len - c.up)
    ELSE FirstLeaf(t, Xor(t.array[c.at].base, c.label), len - c.up + 1)

\* next: the key after the one of the cursor, below root.
NextKey(t, id, len, root) ==
    LET node == t.array[id.at]
        beside == t.sibling[Xor(node.base, 0)]      \* the terminal's sibling
    IN  IF id.off # 0
        THEN IF root.off # 0 THEN Answer(NoPath, id, len)
             ELSE NextAt(t, Climb(t, id.at, root.at), len - (id.off + node.base))
        ELSE IF beside # 0 THEN NextAt(t, [at |-> id.at, up |-> 0, label |-> beside], len)
        ELSE NextAt(t, Climb(t, id.at, root.at), len)

\* The answers of begin and of next until it returns NoPath.
EnumerateFrom(t, first, root) ==
    LET walk[i \in Nat] ==
          IF i = 0 THEN [met |-> <<>>, ans |-> first]
          ELSE LET w == walk[i - 1]
               IN  IF w.ans.value = NoPath THEN w
                   ELSE [met |-> Append(w.met, w.ans),
                         ans |-> NextKey(t, w.ans.id, w.ans.pos, root)]
    IN  walk[t.nblk * B].met

\* dump: every key, from the root.
Dump(t) == EnumerateFrom(t, Begin(t, RootId, 0), RootId)

-----------------------------------------------------------------------------
\* How many of the last len labels of a cursor's key come from the tail.
TailPart(t, id, len) ==
    IF id.off = 0 THEN 0
    ELSE LET n == SuffixLen(t, - t.array[id.at].base) IN IF len > n THEN n ELSE len

\* suffix: the last len labels on the way to a cursor, from the tail's whole
\* suffix and then from the nodes upward.
Suffix(t, id, len) ==
    LET n == TailPart(t, id, len)
        above[i \in 0 .. len - n] == IF i = 0 THEN id.at ELSE t.array[above[i - 1]].check
        label(i) == Xor(t.array[above[i]].base, above[i - 1])
    IN  [i \in 1 .. len |-> IF i > len - n THEN t.tail[id.off - len + i - 1]
                                           ELSE label(len - n - i + 1)]

-----------------------------------------------------------------------------
(* Queries.  Their answers are what a buffer of capacity entries holds and *)
(* how many there are in all.                                              *)

UpTo(s, n) == SubSeq(s, 1, IF Len(s) < n THEN Len(s) ELSE n)

Buffered(answers, capacity) == [num |-> Len(answers), answers |-> UpTo(answers, capacity)]

commonPrefixSearch(t, key, id, capacity) ==
    LET step[i \in 0 .. Len(key)] ==
          IF i = 0 THEN Answer(NoValue, id, 0)
          ELSE LET r == step[i - 1]
               IN  IF r.value = NoPath THEN r ELSE FindFrom(t, SubSeq(key, 1, i), r.id, r.pos)
        is_key(r) == r.value \notin {NoValue, NoPath}
    IN  Buffered(SelectSeq([i \in 1 .. Len(key) |-> step[i]], is_key), capacity)

Below(t, r) ==
    IF r.value = NoPath THEN <<>> ELSE EnumerateFrom(t, Begin(t, r.id, 0), r.id)

commonPrefixPredict(t, key, id, capacity) ==
    Buffered(Below(t, FindFrom(t, key, id, 0)), capacity)
=============================================================================
