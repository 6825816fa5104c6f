---------------------------- MODULE DoubleArray ----------------------------
(***************************************************************************)
(* A trie of cedar::da (cedarpp.h) under every order of the calls the      *)
(* Python layer makes on it.  One step is one call.                        *)
(***************************************************************************)
EXTENDS CedarOps

CONSTANTS Preload,      \* keys stored at the start, one after the other
          Keys,         \* the keys then stored, added to and erased
          Values,       \* the values stored and added
          MaxValue,     \* bound: a value adding may reach
          WithReload    \* whether the trie goes through dumps and loads

ASSUME KeyAssumption ==
    /\ Keys \subseteq Seq(Labels \ {0}) \ {<<>>}
    /\ Preload \in Seq(Seq(Labels \ {0}) \ {<<>>})
    /\ Values \subseteq 0 .. MaxValue
    /\ MaxValue \in Nat /\ WithReload \in BOOLEAN

VARIABLES
    trie,     \* the trie, see TrieOps
    map       \* the map its caller has in mind: CedarMap runs beside the trie

vars == <<trie, map>>

Map == INSTANCE CedarMap

\* Bound: the tail has room for the key, and there is a block for every label
\* of it and two more.
HasRoom(t, k) == /\ t.length + Len(k) + 1 + ValueCells <= MaxTail
                 /\ t.nblk + Len(k) + 2 <= MaxBlocks

Fitting(k) == HasRoom(trie, k)

\* The trie once the first i keys of Preload are stored, each with the value 1.
Filled[i \in 0 .. Len(Preload)] ==
    IF i = 0 THEN InitialTrie ELSE Set(Filled[i - 1], Preload[i], 1)

ASSUME PreloadAssumption ==
    /\ \A i \in 1 .. Len(Preload) : HasRoom(Filled[i - 1], Preload[i])
    /\ Preload # <<>> => MaxValue >= 1

Init ==
    /\ trie = Filled[Len(Preload)]
    /\ map = [k \in {Preload[i] : i \in DOMAIN Preload} |-> 1]

\* d[k] = v
SetKey(k, v) == Fitting(k) /\ trie' = Set(trie, k, v) /\ Map!Set(k, v)

\* update(k, d); the Python layer undoes a sum outside the values.
AddKey(k, d) ==
    /\ Fitting(k)
    /\ Map!ValueAt(k) + d <= MaxValue
    /\ trie' = Update(trie, k, d).t
    /\ Map!Add(k, d)

\* erase(k), del d[k]
EraseKey(k) == k \in DOMAIN map /\ trie' = Erase(trie, k) /\ Map!Erase(k)

\* save(..., shrink=True) and dumps(shrink=True)
ShrinkTail == trie' = Compact(trie) /\ UNCHANGED map

\* loads(dumps())
Reload == WithReload /\ trie' = Restored(trie) /\ UNCHANGED map

Next ==
    \/ \E k \in Keys : EraseKey(k) \/ \E v \in Values : SetKey(k, v) \/ AddKey(k, v)
    \/ ShrinkTail
    \/ Reload

Spec == Init /\ [][Next]_vars

-----------------------------------------------------------------------------
(* Properties.                                                             *)

InUse == 0 .. trie.nblk * B - 1
Held  == {e \in InUse : trie.array[e].check >= 0}

TypeOK ==
    /\ trie.nblk \in 1 .. MaxBlocks
    /\ DOMAIN trie.array = Slots
    /\ \A e \in InUse :
         trie.array[e] \in [base : -(MaxBlocks * B + MaxTail) .. MaxBlocks * B + MaxValue,
                            check : -(MaxBlocks * B) .. MaxBlocks * B]
    /\ trie.sibling \in [Slots -> Labels] /\ trie.child \in [Slots -> Labels]
    /\ trie.length \in HeaderCells .. MaxTail
    /\ \A i \in DOMAIN trie.tail0 : trie.tail0[i] \in HeaderCells .. trie.length - 1 - ValueCells

\* After every call the lookups answer what the map does, for every key,
\* whatever nodes were moved, suffixes split, slots and cells used again.
LookupsRight ==
    \A k \in Keys \cup {Preload[i] : i \in DOMAIN Preload} :
       LET v == Find(trie, k).value
       IN  IF k \in DOMAIN map THEN v = map[k] ELSE v \in {NoPath, NoValue}

\* The count the length of a dict comes from is the number of keys.
NumKeysRight == num_keys(trie) = Cardinality(DOMAIN map)

IsTerminal(e) == trie.array[trie.array[e].check].base = e
IsInner(e) == trie.array[e].base >= 0 /\ (e = 0 \/ (e \in Held /\ ~ IsTerminal(e)))

\* The sibling chains, which next() and erase follow, list exactly the slots
\* whose check names the node, in the order of their labels.
ChainsMatchChecks ==
    \A n \in {0} \cup Held : IsInner(n) =>
      LET c == Children(trie, n)
          base == trie.array[n].base
      IN  /\ \A i, j \in DOMAIN c : i < j => c[i] < c[j]
          /\ {e \in Held : trie.array[e].check = n}
               = {Xor(base, c[i]) : i \in {j \in DOMAIN c : n # 0 \/ c[j] # 0}}

\* No slot outlives its key: every branch ends in a terminal or a suffix.
NoLeak ==
    \A n \in Held : /\ trie.array[n].check # 0 => IsInner(trie.array[n].check)
                    /\ ~ IsTerminal(n) =>
                          \/ trie.array[n].base <= -HeaderCells
                          \/ \E e \in Held : trie.array[e].check = n

CellsOf(e) == LET o == - trie.array[e].base IN o .. o + SuffixLen(trie, o) + ValueCells

\* Suffixes of different keys share no cell, and the places offered for empty
\* suffixes overlap none of them.
TailDisjoint ==
    LET used  == {e \in Held : HasSuffix(trie, e)}
        place(i) == trie.tail0[i] .. trie.tail0[i] + ValueCells
    IN  /\ \A e \in used : CellsOf(e) \subseteq HeaderCells .. trie.length - 1
        /\ \A e, f \in used : e # f => CellsOf(e) \cap CellsOf(f) = {}
        /\ \A i \in DOMAIN trie.tail0 :
             /\ \A e \in used : place(i) \cap CellsOf(e) = {}
             /\ \A j \in DOMAIN trie.tail0 : i # j => place(i) \cap place(j) = {}

\* A new suffix relies on zeros after the cells in use.
ZeroSlack == \A i \in Cells : i >= trie.length => trie.tail[i] = 0

\* What shrink_tail copies fits what it allocated.
ShrinkFits == Compact(trie).length <= Asked(trie)

\* The chains rebuilt from the array are the ones maintained all along.
RestoreSame ==
    LET r == _restore_ninfo(trie)
    IN  r.sibling = trie.sibling /\ r.child = trie.child

\* The empty slots of a block other than 0 form one ring, counted by num.
RingsWhole ==
    \A b \in 1 .. trie.nblk - 1 :
      LET empties == SlotsOf(b) \ Held
      IN  /\ trie.num[b] = Cardinality(empties)
          /\ empties # {} =>
               /\ trie.ehead[b] \in empties
               /\ IsRing(empties, [e \in empties |-> - trie.array[e].base],
                                  [e \in empties |-> - trie.array[e].check])
=============================================================================
