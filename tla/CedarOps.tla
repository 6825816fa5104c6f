----------------------------- MODULE CedarOps -----------------------------
(***************************************************************************)
(* The calls of cedar::da (cedarpp.h) the Python layer makes, from the     *)
(* root: exactMatchSearch, update, erase, num_keys, shrink_tail and        *)
(* restore, as functions of the trie (TrieOps).  A key is a sequence of    *)
(* labels other than 0.                                                    *)
(***************************************************************************)
EXTENDS TrieOps

\* The cells where the suffix in the tail at offset meets rest: the longest
\* m such that the first m characters agree.
Matched(t, offset, rest) ==
    LET agree(m) == \A i \in 1 .. m : t.tail[offset + i - 1] = rest[i]
    IN  CHOOSE m \in 0 .. Len(rest) :
           agree(m) /\ (m < Len(rest) => ~ agree(m + 1))

Rest(key, pos) == SubSeq(key, pos + 1, Len(key))

\* _find on the trie, from the node at, with the first pos labels of the key
\* behind: the node where the key, or the trie, ends; or a miss.
DescendFrom(t, key, at, pos) ==
    LET down[i \in pos .. Len(key)] ==
          IF i = pos THEN [at |-> at, pos |-> pos, miss |-> FALSE]
          ELSE LET d  == down[i - 1]
                   to == Xor(t.array[d.at].base, key[d.pos + 1])
               IN  IF d.miss \/ t.array[d.at].base < 0 THEN d
                   ELSE IF t.array[to].check # d.at THEN [d EXCEPT !.miss = TRUE]
                   ELSE [at |-> to, pos |-> d.pos + 1, miss |-> FALSE]
    IN  down[Len(key)]

Descend(t, key) == DescendFrom(t, key, 0, 0)

\* ... and in the tail.
FindInTail(t, offset, rest) ==
    LET m == Matched(t, offset, rest)
    IN  IF m < Len(rest) THEN NoPath
        ELSE IF t.tail[offset + m] # 0 THEN NoValue
        ELSE t.tail[offset + m + 1]

\* _find from the root: the value, NoValue or NoPath, and the node reached.
FoundAt(t, key, end) ==
    LET base == t.array[end.at].base
    IN  [at |-> end.at,
         value |-> IF end.miss THEN NoPath
                   ELSE IF base < 0 THEN FindInTail(t, -base, Rest(key, end.pos))
                   ELSE IF t.array[base].check # end.at THEN NoValue
                   ELSE t.array[base].base]

Find(t, key) == FoundAt(t, key, Descend(t, key))

\* Mutant: keys that end in a terminal are not counted.
num_keysNoTerminals(t) ==
    Cardinality({e \in 0 .. t.nblk * B - 1 : t.array[e].check >= 0 /\ t.array[e].base < 0})

num_keys(t) ==
    Cardinality({e \in 0 .. t.nblk * B - 1 :
        /\ t.array[e].check >= 0
        /\ t.array[t.array[e].check].base = e \/ t.array[e].base < 0})

-----------------------------------------------------------------------------
(* update: the trie, and where the value of the key is.                    *)

\* The value of the terminal e, or of the cell i of the tail, plus val.
AtNode(t, e, val) == [t |-> [t EXCEPT !.array[e].base = @ + val], in |-> "node", at |-> e]
AtCell(t, i, val) == [t |-> [t EXCEPT !.tail[i] = @ + val],       in |-> "tail", at |-> i]

\* Where Follow got to: the child, and the node, which it may have moved.
AtChild(f)      == [t |-> f.t, at |-> f.to]
AtDepth(f, pos) == [t |-> f.t, at |-> f.to, pos |-> pos]

\* Follow the labels of s from node, one after the other.
FollowAll(t, node, s) ==
    LET step[i \in 0 .. Len(s)] ==
          IF i = 0 THEN [t |-> t, at |-> node]
          ELSE AtChild(Follow(step[i - 1].t, step[i - 1].at, s[i]))
    IN  step[Len(s)]

\* Mutant: the place stays on offer.
UsePlaceAgain(t, node, old) ==
    [t EXCEPT !.array[node].base = -old, !.tail = [@ EXCEPT ![old] = 0]]

\* The last place offered becomes the empty suffix of node ...
UsePlace(t, node, old) ==
    [t EXCEPT !.array[node].base = -old, !.tail = [@ EXCEPT ![old] = 0],
              !.tail0 = SubSeq(@, 1, Len(@) - 1)]

\* ... or the tail grows by its suffix s.
GrowTail(t, node, s) ==
    [t EXCEPT !.array[node].base = - t.length,
              !.length = @ + Len(s) + 1 + ValueCells,
              !.tail = [i \in Cells |-> IF i \in t.length .. t.length + Len(s) - 1
                                        THEN s[i - t.length + 1] ELSE @[i]]]

\* The rest of a key whose node has no suffix yet: an empty one goes where a
\* suffix was left, if there is such a place, and its value is stored there.
AddSuffix(t, node, rest, val) ==
    LET last == Len(t.tail0)
        old  == t.tail0[last]
    IN  IF rest = <<>> /\ last > 0
        THEN AtCell([UsePlace(t, node, old) EXCEPT !.tail[old + 1] = 0], old + 1, val)
        ELSE AtCell(GrowTail(t, node, rest), t.length + Len(rest) + 1, val)

\* Mutant: the record of what is left is not kept.
FreedWithRecord(m, c) == IF c # 0 THEN m + 1 ELSE m

\* How far past offset a place may start, in the m cells before character c
\* of a suffix; nothing is left of the suffix when c is 0.
Freed(m, c) == IF c # 0 THEN m + 1 - (1 + ValueCells) ELSE m

\* Mutant: a cell early.
PlacesInEarly(offset, freed) ==
    [i \in 1 .. freed \div (1 + ValueCells) + 1 |-> offset + (i - 1) * (1 + ValueCells) - 1]

\* The places for empty suffixes from offset on.
PlacesIn(offset, freed) ==
    IF freed < 0 THEN <<>>
    ELSE [i \in 1 .. freed \div (1 + ValueCells) + 1 |-> offset + (i - 1) * (1 + ValueCells)]

\* The child f has the suffix at offset; the terminal f has the value v.
GiveSuffix(f, offset) == [t |-> [f.t EXCEPT !.array[f.to].base = -offset], at |-> f.from]
GiveValue(f, v)       == [t |-> [f.t EXCEPT !.array[f.to].base = @ + v], at |-> f.from]

\* What is left of the suffix at offset after m characters stays where it is,
\* under a child of its own; the cells before it become places for empty
\* suffixes.
KeepSuffix(p, offset, m) ==
    LET c == p.t.tail[offset + m]
    IN  IF c = 0 THEN p ELSE GiveSuffix(Follow(p.t, p.at, c), offset + m + 1)

FreeCells(p, offset, m) ==
    [p EXCEPT !.t.tail0 = @ \o PlacesIn(offset, Freed(m, p.t.tail[offset + m]))]

\* The value of the suffix at offset, if m characters are all of it, moves to
\* a terminal.
KeepValue(p, offset, m) ==
    IF p.t.tail[offset + m] # 0 THEN p
    ELSE GiveValue(Follow(p.t, p.at, 0), p.t.tail[offset + m + 1])

AddTerminal(f, val)       == AtNode(f.t, f.to, val)
AddChild(f, rest, val)    == AddSuffix(f.t, f.to, rest, val)
AddBranch(p, rest, val)   == AddChild(Follow(p.t, p.at, rest[1]), Rest(rest, 1), val)

\* The key ends, or goes on, where it parted from the suffix.
EndBranch(p, offset, m, rest, val) ==
    IF rest = <<>> THEN AddTerminal(Follow(p.t, p.at, 0), val)
    ELSE AddBranch(KeepValue(p, offset, m), rest, val)

\* rest and the suffix of node at offset part after m characters: nodes are
\* made for those.
SplitSuffix(t, node, offset, m, rest, val) ==
    EndBranch(
      FreeCells(KeepSuffix(FollowAll(t, node, SubSeq(rest, 1, m)), offset, m), offset, m),
      offset, m, Rest(rest, m), val)

\* Mutant: a key found whole in a suffix is split off all the same.
UpdateInTailSplits(t, node, offset, rest, val) ==
    SplitSuffix(t, node, offset, Matched(t, offset, rest), rest, val)

UpdateInTail(t, node, offset, rest, val) ==
    LET m == Matched(t, offset, rest)
    IN  IF m = Len(rest) /\ t.tail[offset + m] = 0 THEN AtCell(t, offset + m + 1, val)
        ELSE SplitSuffix(t, node, offset, m, rest, val)

\* The labels of the key are followed to a node without children.
Walk(t, key) ==
    LET down[i \in 0 .. Len(key)] ==
          IF i = 0 THEN [t |-> t, at |-> 0, pos |-> 0]
          ELSE LET d == down[i - 1]
               IN  IF d.t.array[d.at].base < 0 THEN d
                   ELSE AtDepth(Follow(d.t, d.at, key[i]), i)
    IN  down[Len(key)]

UpdateFrom(d, rest, val) ==
    LET base == d.t.array[d.at].base
    IN  IF base >= 0 THEN AddTerminal(Follow(d.t, d.at, 0), val)
        ELSE IF -base >= HeaderCells THEN UpdateInTail(d.t, d.at, -base, rest, val)
        ELSE AddSuffix(d.t, d.at, rest, val)

UpdateAfter(d, key, val) == UpdateFrom(d, Rest(key, d.pos), val)

Update(t, key, val) == UpdateAfter(Walk(t, key), key, val)

\* set of the Python layer: the value is written through update's reference.
Write(u, val) == IF u.in = "node" THEN [u.t EXCEPT !.array[u.at].base = val]
                                  ELSE [u.t EXCEPT !.tail[u.at] = val]

Set(t, key, val) == Write(Update(t, key, val), val)

-----------------------------------------------------------------------------
(* erase.                                                                  *)

\* The terminal of the key found, or the node its suffix hangs on.
LastNode(t, found) ==
    IF t.array[found.at].base < 0 THEN found.at ELSE t.array[found.at].base

\* Mutant: only the last node goes.
EraseFoundOnce(t, key, found) ==
    LET last == LastNode(t, found)
        from == t.array[last].check
        base == t.array[from].base
    IN  IF found.value \in {NoPath, NoValue} THEN t
        ELSE Release(PopSibling(t, from, base, Xor(base, last)), last)

\* erase: that node goes, and those above it that are left without children.
\* The suffix stays in the tail.
EraseFound(t, key, found) ==
    LET last == LastNode(t, found)
    IN  IF found.value \in {NoPath, NoValue} THEN t
        ELSE EraseUp(t, last, t.array[last].check, Len(key) + 1)

Erase(t, key) == EraseFound(t, key, Find(t, key))

-----------------------------------------------------------------------------
(* shrink_tail.                                                            *)

HasSuffix(t, e) ==
    /\ t.array[e].check >= 0
    /\ t.array[t.array[e].check].base # e
    /\ t.array[e].base < 0

SuffixLen(t, offset) ==
    CHOOSE n \in 0 .. MaxTail - offset :
       /\ t.tail[offset + n] = 0
       /\ \A i \in 0 .. n - 1 : t.tail[offset + i] # 0

\* Mutant: the cells after the suffixes are not cleared.
EmptiedKeepsCells(t) == [t EXCEPT !.length = HeaderCells, !.tail0 = <<>>]

\* The new tail, in which no cell is used yet.
Emptied(t) ==
    [t EXCEPT !.tail = [i \in Cells |-> 0], !.length = HeaderCells, !.tail0 = <<>>]

\* The suffixes, copied one after the other in the order of their nodes, and
\* the capacity malloc was asked for.
Compact(t) ==
    LET copy[e \in -1 .. t.nblk * B - 1] ==
          IF e = -1 THEN Emptied(t)
          ELSE LET c    == copy[e - 1]
                   old  == - t.array[e].base
                   size == SuffixLen(t, old) + 1 + ValueCells
               IN  IF ~ HasSuffix(t, e) THEN c
                   ELSE [c EXCEPT !.array[e].base = - c.length,
                                  !.length = @ + size,
                                  !.tail = [i \in Cells |->
                                     IF i \in c.length .. c.length + size - 1
                                     THEN t.tail[old + i - c.length] ELSE @[i]]]
    IN  copy[t.nblk * B - 1]

Asked(t) == t.length - Len(t.tail0) * (1 + ValueCells)

-----------------------------------------------------------------------------
(* restore, after open read the array and the tail of an image.            *)

\* dumps and loads: the cells in use and the array are kept, all the rest is
\* rebuilt from them.
Restored(t) ==
    _restore_ninfo(_restore_block(
      [t EXCEPT !.tail0 = <<>>,
                !.tail = [i \in Cells |-> IF i < t.length THEN @[i] ELSE 0]]))
=============================================================================
