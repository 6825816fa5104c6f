----------------------------- MODULE PrefixTrie -----------------------------
(***************************************************************************)
(* The trie of cedar.h, the variant of cedar::da without a tail: every     *)
(* label of a key has a node, and the value is in a terminal below the     *)
(* last.  Slots, blocks and sibling chains work as in cedarpp.h and are    *)
(* those of TrieOps, whose tail stays empty.  One step is one call, between *)
(* which the trie may be saved and opened again: open reads the array      *)
(* alone, and the next call that needs a table of the others rebuilds it.  *)
(***************************************************************************)
EXTENDS TrieOps

CONSTANTS Preload,      \* the lines mkcedar builds the trie from
          Keys,         \* the keys then added to and erased
          Values,       \* the values added
          MaxValue      \* bound: a value adding may reach

ASSUME KeyAssumption ==
    /\ Keys \subseteq Seq(Labels \ {0}) \ {<<>>}
    /\ Preload \in Seq(Keys)
    /\ \E m \in 1 .. MaxBlocks : /\ \A i \in DOMAIN Preload : Len(Preload[i]) < m
                                 /\ Len(Preload) * m < MaxBlocks
    /\ Values \subseteq 0 .. MaxValue
    /\ MaxValue \in Nat /\ MaxTail \in Nat

VARIABLES
    trie,     \* the trie
    tables,   \* which of _ninfo and _block are there
    map       \* the map its caller has in mind: CedarMap runs beside the trie

vars == <<trie, tables, map>>

Map == INSTANCE CedarMap

-----------------------------------------------------------------------------
(* Lookup.                                                                 *)

\* _find, from a node behind which are the first pos labels of the key.
_find(t, key, from, pos) ==
    LET down[i \in pos .. Len(key)] ==
          IF i = pos THEN [at |-> from, pos |-> pos, miss |-> FALSE]
          ELSE LET d  == down[i - 1]
                   to == Xor(t.array[d.at].base, key[i])
               IN  IF d.miss \/ t.array[to].check # d.at THEN [d EXCEPT !.miss = TRUE]
                   ELSE [at |-> to, pos |-> i, miss |-> FALSE]
        end  == down[Len(key)]
        last == t.array[t.array[end.at].base]
    IN  [at |-> end.at, pos |-> end.pos,
         value |-> IF end.miss THEN NoPath
                   ELSE IF last.check # end.at THEN NoValue ELSE last.base]

\* Mutant: a prefix that is no key ends the search.
GoesOnTillKey(r) == r.value \notin {NoPath, NoValue}

\* Does the search go on after r?
GoesOn(r) == r.value # NoPath

\* The prefixes of key that are keys: their values and lengths.
commonPrefixSearch(t, key) ==
    LET step[i \in 0 .. Len(key)] ==
          IF i = 0 THEN [last |-> [at |-> 0, pos |-> 0, value |-> NoValue], met |-> <<>>]
          ELSE LET s == step[i - 1]
                   r == _find(t, SubSeq(key, 1, i), s.last.at, s.last.pos)
               IN  IF i > 1 /\ ~ GoesOn(s.last) THEN s
                   ELSE [last |-> r, met |-> IF r.value \in {NoPath, NoValue} THEN s.met
                                             ELSE Append(s.met, r)]
    IN  step[Len(key)].met

num_keys(t) ==
    Cardinality({e \in 0 .. t.nblk * B - 1 :
        t.array[e].check >= 0 /\ t.array[t.array[e].check].base = e})

nonzero_size(t) == Cardinality({e \in 0 .. t.nblk * B - 1 : t.array[e].check >= 0})

-----------------------------------------------------------------------------
(* update and erase.                                                       *)

_resolve(t, from, label) == Resolve(t, from, label)

_pop_enode(t, base, label, from) == PopEnode(t, base, label, from)

\* The node reached from node by label, made if it does not exist.
_follow(t, node, label) ==
    LET base == t.array[node].base
        to   == Xor(base, label)
    IN  IF base < 0 \/ t.array[to].check < 0
        THEN NewChild(_pop_enode(t, base, label, node), node, label, base >= 0)
        ELSE IF t.array[to].check = node THEN [t |-> t, from |-> node, to |-> to]
        ELSE _resolve(t, node, label)

Added(t, e, val) == [t EXCEPT !.array[e].base = @ + val]

\* update: the labels of the key and then the terminal are followed.
update(t, key, val) ==
    LET on(f) == [t |-> f.t, at |-> f.to]
        path  == Append(key, 0)
        walk[i \in 0 .. Len(path)] ==
          IF i = 0 THEN [t |-> t, at |-> 0]
          ELSE on(_follow(walk[i - 1].t, walk[i - 1].at, path[i]))
    IN  Added(walk[Len(path)].t, walk[Len(path)].at, val)

\* Bound: a block for every label of the key, and one for its terminal.
Room(t, k) == t.nblk + Len(k) + 1 <= MaxBlocks

\* build, and the loop of mkcedar: each line adds its number, from 0 on.
build(t, lines) ==
    LET built[i \in 0 .. Len(lines)] ==
          IF i = 0 THEN t ELSE update(built[i - 1], lines[i], i - 1)
    IN  built[Len(lines)]

\* erase: the terminal of the node from goes, and the nodes above it that
\* are left without children.
erase(t, key, from) == EraseUp(t, t.array[from].base, from, Len(key) + 1)

-----------------------------------------------------------------------------
(* Enumeration.                                                            *)

\* begin: the first key below a node; the root's own slot is no child.
begin(t, from, len) ==
    LET first == IF from = 0 THEN t.sibling[Xor(t.array[0].base, t.child[0])] ELSE t.child[from]
        leaf[n \in Slots] ==
          IF t.child[n] = 0 THEN [at |-> n, pos |-> 0]
          ELSE LET below == leaf[Xor(t.array[n].base, t.child[n])]
               IN  [below EXCEPT !.pos = @ + 1]
        under == IF from = 0 THEN leaf[Xor(t.array[0].base, first)] ELSE leaf[from]
        depth == IF from = 0 THEN under.pos + 1 ELSE under.pos
    IN  IF from = 0 /\ first = 0 THEN [at |-> from, pos |-> len, value |-> NoPath]
        ELSE [at |-> under.at, pos |-> len + depth,
              value |-> t.array[t.array[under.at].base].base]

\* Mutant: the way up ends at the parent.
ClimbOnce(t, node, root) ==
    IF node = root THEN [at |-> node, up |-> 0, label |-> 0]
    ELSE [at |-> t.array[node].check, up |-> 1, label |-> t.sibling[node]]

\* The way up from node to a younger sibling, of it or of a node above.
Climb(t, node, root) ==
    LET up[n \in Slots] ==
          IF n = root THEN [at |-> n, up |-> 0, label |-> 0]
          ELSE IF t.sibling[n] # 0
          THEN [at |-> t.array[n].check, up |-> 1, label |-> t.sibling[n]]
          ELSE LET above == up[t.array[n].check] IN [above EXCEPT !.up = @ + 1]
    IN  up[node]

next(t, from, len, root) ==
    LET beside == t.sibling[Xor(t.array[from].base, 0)]
        c == IF beside # 0 THEN [at |-> from, up |-> 0, label |-> beside]
             ELSE Climb(t, from, root)
    IN  IF c.label = 0 THEN [at |-> c.at, pos |-> len - c.up, value |-> NoPath]
        ELSE begin(t, Xor(t.array[c.at].base, c.label), len - c.up + 1)

\* The keys below root, in the order begin and next give them.
Enumerated(t, root) ==
    LET walk[i \in Nat] ==
          IF i = 0 THEN [met |-> <<>>, at |-> begin(t, root, 0)]
          ELSE LET w == walk[i - 1]
               IN  IF w.at.value = NoPath THEN w
                   ELSE [met |-> Append(w.met, w.at), at |-> next(t, w.at.at, w.at.pos, root)]
    IN  walk[t.nblk * B].met

dump(t) == Enumerated(t, 0)

commonPrefixPredict(t, key) ==
    LET r == _find(t, key, 0, 0) IN IF r.value = NoPath THEN <<>> ELSE Enumerated(t, r.at)

\* suffix: the last len labels on the way to a node.
suffix(t, len, to) ==
    LET above[i \in 0 .. len] == IF i = 0 THEN to ELSE t.array[above[i - 1]].check
    IN  [i \in 1 .. len |-> Xor(t.array[above[len - i + 1]].base, above[len - i])]

-----------------------------------------------------------------------------
(* The tables beside the array.                                            *)

Tables == {"_ninfo", "_block"}

\* restore: what is missing is rebuilt.
restore(t, has) ==
    LET r == IF "_block" \notin has THEN _restore_block(t) ELSE t
    IN  IF "_ninfo" \notin has THEN _restore_ninfo(r) ELSE r

\* open: the array, read into a trie that has been cleared.
open(t) ==
    [ForgetBlocks(t) EXCEPT !.num = [b \in Blocks |-> B],
                            !.sibling = [e \in Slots |-> 0], !.child = [e \in Slots |-> 0]]

-----------------------------------------------------------------------------
(* The calls.                                                              *)

\* The map that build makes of the lines.
Numbered(lines) ==
    LET upto[i \in 0 .. Len(lines)] ==
          IF i = 0 THEN [k \in {} |-> 0]
          ELSE Map!With(upto[i - 1], lines[i], Map!ValueIn(upto[i - 1], lines[i]) + i - 1)
    IN  upto[Len(lines)]

Init ==
    /\ trie = build(InitialTrie, Preload)
    /\ tables = Tables
    /\ map = Numbered(Preload)

UpdateKey(k, d) ==
    /\ Map!ValueAt(k) + d <= MaxValue
    /\ Room(trie, k)
    /\ trie' = update(restore(trie, tables), k, d)
    /\ tables' = Tables
    /\ Map!Add(k, d)

\* Without the tables, between open and update, erase has no defined outcome.
EraseKey(k) ==
    LET r == _find(trie, k, 0, 0)
    IN  /\ r.value \notin {NoPath, NoValue}
        /\ tables = Tables
        /\ trie' = erase(trie, k, r.at)
        /\ UNCHANGED tables
        /\ Map!Erase(k)

SaveAndOpen == trie' = open(trie) /\ tables' = {} /\ UNCHANGED map

\* Any enumeration starts with begin, which rebuilds _ninfo.
Enumerate ==
    /\ "_ninfo" \notin tables
    /\ trie' = _restore_ninfo(trie)
    /\ tables' = tables \cup {"_ninfo"}
    /\ UNCHANGED map

Next ==
    \/ \E k \in Keys : EraseKey(k) \/ \E d \in Values : UpdateKey(k, d)
    \/ SaveAndOpen
    \/ Enumerate

Spec == Init /\ [][Next]_vars

-----------------------------------------------------------------------------
(* Properties.                                                             *)

Prefixes(k) == {SubSeq(k, 1, i) : i \in 1 .. Len(k)}

\* After every call _find answers what the map does, for every key and every
\* prefix of one, whatever nodes were moved and tables rebuilt.
LookupsRight ==
    \A k \in UNION {Prefixes(x) : x \in Keys} :
       LET v == _find(trie, k, 0, 0).value
       IN  IF k \in DOMAIN map THEN v = map[k]
           ELSE v = IF \E x \in DOMAIN map : k \in Prefixes(x) THEN NoValue ELSE NoPath

\* Every slot in use is a node on the way to a key, or a key's terminal: erase
\* leaves none behind and update makes none twice.
SlotsEarned ==
    /\ num_keys(trie) = Cardinality(DOMAIN map)
    /\ nonzero_size(trie) = Cardinality(DOMAIN map)
                              + Cardinality(UNION {Prefixes(k) : k \in DOMAIN map})

\* What test() asserts, and more: while _ninfo is there, the chain of a node
\* lists the slots whose check names it, each once and in order.
ChainsAgree ==
    "_ninfo" \in tables =>
      \A n \in {0} \cup {e \in 0 .. trie.nblk * B - 1 :
                           /\ trie.array[e].check >= 0
                           /\ trie.array[trie.array[e].check].base # e} :
        LET c == Children(trie, n)
            base == trie.array[n].base
        IN  /\ \A i, j \in DOMAIN c : i < j => c[i] < c[j]
            /\ {e \in 0 .. trie.nblk * B - 1 : trie.array[e].check = n}
                 = {Xor(base, c[i]) : i \in {j \in DOMAIN c : n # 0 \/ c[j] # 0}}

Lower(k, l) ==      \* in the order of keys
    \E i \in 0 .. Len(k) : /\ SubSeq(k, 1, i) = SubSeq(l, 1, i)
                           /\ i < Len(l)
                           /\ i = Len(k) \/ k[i + 1] < l[i + 1]

\* Once _ninfo is there, dump lists every key with its value, each once and in
\* order, and suffix gives the key back; the answers of commonPrefixPredict
\* are those that begin with what it was asked.
EnumerationRight ==
    "_ninfo" \in tables =>
      LET all == dump(trie)
          key(r) == suffix(trie, r.pos, r.at)
      IN  /\ {<<key(all[i]), all[i].value>> : i \in DOMAIN all} = {<<k, map[k]>> : k \in DOMAIN map}
          /\ \A i, j \in DOMAIN all : i < j => Lower(key(all[i]), key(all[j]))
          /\ \A k \in UNION {Prefixes(x) : x \in Keys} :
               commonPrefixPredict(trie, k)
                 = LET below(r) == k \in Prefixes(key(r))
                       found == SelectSeq(all, below)
                   IN  [i \in DOMAIN found |-> [found[i] EXCEPT !.pos = @ - Len(k)]]

\* commonPrefixSearch finds the prefixes that are keys, the shortest first,
\* past those that are none.
PrefixesRight ==
    \A k \in Keys :
       LET r == commonPrefixSearch(trie, k)
           lens == {i \in 1 .. Len(k) : SubSeq(k, 1, i) \in DOMAIN map}
       IN  /\ Len(r) = Cardinality(lens)
           /\ {<<r[i].pos, r[i].value>> : i \in DOMAIN r} = {<<n, map[SubSeq(k, 1, n)]>> : n \in lens}
           /\ \A i, j \in DOMAIN r : i < j => r[i].pos < r[j].pos
=============================================================================
