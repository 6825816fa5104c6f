# A verification project for pycedar

pycedar is a Python `dict` of C `int`s on top of cedar, an updatable
double-array trie. This directory holds TLA+ models of the trie, the TLC runs
that check them, and TLAPS proofs about them. All paths below are relative to
the repository.

## 1. Inventory

Only one C++ file is compiled into the extension: `cedarpp.h`
(`pycedar/core/cedar/src/cedarpp.h`, class `cedar::da<int>` with the default
template arguments: `ORDERED` is true, `MAX_TRIAL` is 1, `NUM_TRACKING_NODES`
is 0). `pycedar/pycedar.pyx` wraps it. `cedar.h`, `cedar.cc`, `mkcedar.cc` and
the two `bench*.cc` are vendored and not compiled; `cedar.h` is an independent
trie without a tail, and `mkcedar.cc` builds one from lines.

| Component | State | Operations |
| --- | --- | --- |
| Block lists | `block.prev/next/num/trial`, `_bheadF/C/O` | `_push_block`, `_pop_block`, `_transfer_block` |
| Slot allocator | `_array` of empty slots, `block.ehead/reject`, `_reject` | `_pop_enode`, `_push_enode`, `_find_place` (two), `_add_block` |
| Trie | `_array` of slots in use, `_ninfo` (sibling chains) | `_follow`, `_resolve`, `_push_sibling`, `_pop_sibling` |
| Tail | `_tail` (suffixes and values), `_tail0` (places to use again) | `update`, `shrink_tail` |
| Calls | all of these | `update`, `erase`, `_find`, `num_keys` |
| Restoration | all of these | `restore`, `_restore_ninfo`, `_restore_block` |
| Images and life cycle | the arrays, `_capacity`, `_size`, `_quota`, `_quota0`, and the files | `save`, `open` (file and memory), `clear`, `shrink_tail`, every allocation |
| Enumeration and cursors | node ids kept by the caller | `begin`, `next`, `traverse`, `suffix`, the prefix queries, class `node` |
| Python dict | nothing of its own | `set`, `update`, `setdefault`, `pop`, `popitem`, `del`, the queries and their lazy variants |
| Trie without a tail (`cedar.h`) | `_array`, `_ninfo`, `_block` | the same calls |
| Key types, statistics, programs, build and tests | none that matters | hardly modelled |

How they interact: a call of the dict becomes one or two calls of `da`. `update`
walks the trie with `_follow`, which takes slots from the allocator; when a slot
is occupied by a child of another node, `_resolve` moves the children of one of
the two to slots that `_find_place` chooses. The allocator moves blocks between
three lists, and `_find_place` looks only at the heads of two of them and along
one. `erase` gives slots back. `restore` rebuilds chains, rings and lists from
the array alone. There are no threads, callbacks or messages: pycedar asks the
caller to lock a trie shared by threads (`README.md:388-397`), so one call is
one atomic step.

What is hard in this code is the *sequence*: each structure is a linked list
laid into an array that other lists use too (a slot's `base` and `check` are
ring links, a parent and a child base, or a value), and a slot, a block or a
tail cell that is on one list too many shows up many calls later, as another
key's value. What makes each component correct:

* **Block lists**: a block is on exactly the list its counters call for; the
  lists are whole rings; a head is 0 only when its list is empty.
* **Slot allocator**: the empty slots of a block are one ring, entered at
  `ehead` and counted by `num`; no slot in use is ever written or offered.
* **Trie and tail**: after every call, lookups answer as a map would; chains
  list the children the array holds; no slot or cell is shared or leaked.
* **Restoration**: what is rebuilt equals what was maintained.
* **Images and life cycle**: the arrays and their recorded sizes keep step
  whatever allocation is refused; a call on a usable trie touches no memory that
  is not there.
* **Cursors**: an enumeration lists each key once, in order; a search can be left
  and taken up anywhere; a cursor outlives what does not concern it.
* **Python dict**: reserved values never enter the trie, and every query agrees
  with the map of what was stored.

`PROJECT.json` lists the hazards line by line.

## 2. Modules

| Module | Models | Uses |
| --- | --- | --- |
| `Rings` | circular doubly linked lists | |
| `ListOps` | `_pop_block`, `_push_block`, `_transfer_block`, and which transfer each caller makes | `Rings` |
| `BlockLists` | every order of events that moves a block: a slot taken or given back, a rejection, a new block, a rebuilt table | `ListOps` |
| `SlotOps` | `_pop_enode`, `_push_enode`, `_find_place`, `_add_block`, `_initialize`, `_restore_block` on one record, the *pool* | `ListOps` |
| `NodePool` | the allocator under every order of requests a trie can make | `SlotOps`; refines `BlockLists` |
| `TrieOps` | what `cedarpp.h` and `cedar.h` have in common: `_follow`, `_resolve`, sibling chains, the way of `erase` upwards, `_restore_ninfo`, `_restore_block` | `SlotOps` |
| `CedarOps` | `_find`, `update`, `erase`, `num_keys`, `shrink_tail`, `restore` | `TrieOps` |
| `CedarMap` | what a trie promises: a map from keys to values | |
| `DoubleArray` | every order of the calls the Python layer makes | `CedarOps`, `CedarMap` |
| `BlockSearch` | the loop of `_find_place(first, last)` round by round, on lists it changes itself | `BlockLists` |
| `CursorOps` | `begin`, `next`, `dump`, `suffix`, `traverse`, `_find` from a cursor, the two prefix queries | `CedarOps` |
| `CedarDict` | the calls and queries of `pycedar.pyx`, with the reserved values and the rollback of `update` | `DoubleArray`, `CursorOps` |
| `LifeCycle` | what a caller may rely on from construction to `clear` | |
| `TrieImage` | the five arrays, their recorded sizes, and every allocation | refines `LifeCycle` |
| `PrefixTrie` | `cedar.h` and `mkcedar.cc`: the trie without a tail | `TrieOps`, `CedarMap` |
| `ListLemmas`, `TrieLemmas` | lemmas about rings and lists, and about the operators of `SlotOps` and `TrieOps` | |
| `TreeLemmas` | what `_follow`, `erase` and the restorations do to the tree in the array | `TrieLemmas` |
| `BlockLists_proofs` | theorems about `BlockLists` and `BlockSearch` | |
| `NodePool_proofs`, `TrieImage_proofs` | theorems about the module of that name | |
| `PrefixTrie_proofs`, `DoubleArray_proofs` | theorems about the module of that name | `TreeLemmas` |
| `XorTable`, `MC*` | values of the constants for TLC | |

`SlotOps` is written once and used twice: by `NodePool`, which drives it with a
client as free as the code allows, and by `TrieOps`, which is the real client.

How the state corresponds to the code:

* `lists` is `[prev, next, head]`, the block links and the three heads. Block 0
  is never listed; it is the sentinel of the Full ring, whose head may be 0.
* `array`, `num`, `trial`, `ehead`, `reject`, `limit` (the table `_reject`),
  `nblk` (`_size >> 8`), `sibling`, `child`, `tail`, `length`, `tail0` are the
  fields of `da` one for one. A slot's `[base, check]` keeps the code's sign
  conventions, including the negative ring links and a terminal's value in
  `base`.
* `B` is the number of slots in a block and of labels (256). `Xor` is `^`; its
  assumption states what the code relies on: a label moves a slot within its
  block, and twice is back again. TLC evaluates a table for slots below 32.
* A tail cell holds one character or one value (`ValueCells` = 1 where a value
  takes four bytes), and the tail starts after `HeaderCells` = 2 (the four bytes
  of `*_length`). What the code needs of the header is that an offset is never
  1, since base -1 means *no suffix yet*.
* In `NodePool`, `wanted` holds the slots `_find_place` chose which `_resolve`
  has not taken yet, `scan` the loop of `_find_place(first, last)` at work, and
  `reg` how far `_restore_block` has come.
* `Reload` stands for `loads(dumps())` on one object, which keeps the table
  `_reject`; the other tables are rebuilt, as for a fresh object.
* A cursor, a node id of 64 bits in the code, is `[at, off]`: the node and the
  cell of the tail it got to, 0 for none.
* `TrieImage` keeps of each array only how large it is (0 is a null pointer), the
  recorded sizes, whether a key is stored (`keys`), and what a refused allocation can
  leave behind. `lost` are places that are counted in `*_length0` and name no free
  cells: either `_tail0` could not grow and the entry was never written, or
  `shrink_tail` replaced `_tail` and was then refused the trimmed one or the new
  `_tail0`, so that the entry is an offset into the freed tail. Taking such a place is
  a fault, since a suffix and its value would be written there (`cedarpp.h:276-280`).
  `torn` says that an update was cut off after it made a node and before that node
  led anywhere; its base is -1, which the next `shrink_tail` takes for a suffix. A
  call is a function of the image and of the number of allocations granted before
  one is refused (`left`); it ends in status `ok`, `MemoryError`, `refused` (-1) or
  `fault` (memory touched that is not there, or cells that are not free). An update
  is several steps, because it asks for blocks and places as often as the key makes
  it. `Copied` says how many cells `shrink_tail` may copy. On a trie that keeps its
  promises they fit what it asks for (`DoubleArray!ShrinkFits`); after a refused
  trim or with a torn node they may not, and the second shrink then faults.
* `LifeCycle` has the variables `phase`, `result` and `call`, the kind of the last
  call. The phases are *ready*, *loaded* (a file was opened and the tables are
  missing), *bare* (`clear(False)`) and *unsound* (an allocation was refused half
  way, or a read fell short). From *ready* no call faults, and from *loaded* only the
  erase of a key that is there. What a refused allocation leaves may be unsound, and
  then nothing is promised until the next `clear` or `open`.
* In `BlockSearch`, `bi` and `bz` are the variables of the loop, and `todo` is a
  ghost: the blocks that were Open at the start and were not yet looked at.
* In `PrefixTrie`, `tables` says which of `_ninfo` and `_block` are there. The
  code of slots, blocks and chains in `cedar.h` is the same as in `cedarpp.h`
  (`_consult` counts the same way in other words), so `TrieOps` serves for both.
* In `DoubleArray` a step is a whole call, and `CedarMap` runs beside the trie:
  `map` is what the caller may expect.

In every module a definition headed *Mutant* is a wrong version of the one below
it. No model uses it: it is there to show that a property notices.

## 3. Runs

| Run | Bounds | Shows |
| --- | --- | --- |
| `blocks` | 4 blocks of 3 slots | `ListsMatchBlocks`, `HeadsHaveRoom`: every block on the right list, whatever happens, also while the table is rebuilt. `EachOpenTried`, `SearchEnds`: a search tries each Open block once and ends. |
| `pool` | 2 blocks of 4 slots, a third refused | `RingsWhole`, `CountsRight`, `HeldUntouched`, `WantedFree`, and that the allocator refines `BlockLists` (`ListsSpec`). |
| `pool_restore` | 2 blocks of 4 slots, slot 1 spare | `RingsWhole`, `HeldUntouched` and `ListsSpec` with the table rebuilt at any idle moment, also after a block was closed by rejections, which the rebuilt table forgets. |
| `trie_reload` | keys 2, 213, 31; 8 blocks of 4; 9 tail cells; values 1, -1 stored, 1, -3 added; queries between and beyond the keys | The dictionary with `loads(dumps())` between any two calls: lookups, `num_keys`, enumeration and prefix queries (from every cursor on the way to a query, with a buffer that is too small, cut off by a maximum, lazy, scoped and resumed) agree with the map; nothing leaks and suffixes are disjoint; the rebuilt chains equal the maintained ones; cursors stand while no key is new. |
| `crowd` | keys 211, 212, 31, 32 to start with; 2, 21, 22, 213, 32, 33 to store and erase; 8 blocks of 4, 13 tail cells | Both directions of `_resolve`, the parent itself moved, blocks closed: lookups equal the map, chains match checks, rings stay whole, suffixes are disjoint; `shrink_tail` fits what it asks for, and the zeros a new suffix relies on are there. |
| `image` | 3 blocks, 6 cells, 2 places, suffixes to 1; an empty image and one with a key; every allocation refused (219,000 states) | The image refines `LifeCycle` (`KeepsStep`): no fault from *ready*, and from *loaded* only in an erase. |
| `prefix` | keys 21, 23, 212; 8 blocks of 4 | `cedar.h` answers as a map, keeps no slot without a key (`SlotsEarned`), enumerates in order, finds prefixes past those that are no keys; its tables are rebuilt at every possible moment. |
| `loaded_block0` | keys 11 and 2 | A violation, see below. |
| `root_full` | keys 1, 2, 3 with 4 labels | A violation, see below. |
| `loaded_erase`, `failed_load` | as `image` | Violations, see below. |
| `midtail_suffix` | as `trie_reload` | A violation, see below. |

Why the bounds are enough for the interesting cases. Blocks of 3 or 4 slots pass
through all of empty, two left, one left and full, which is what the code's
conditions distinguish; four blocks give each list two members and another
beside it. `B` = 4 leaves three byte values: a node then has a terminal and up
to three children, and two nodes already conflict in one block. The keys of
`crowd` and `trie_reload` make a suffix be split at its first character and further on,
run out exactly at the end of another, and leave places for empty suffixes that are
used again. The bound
of an update (`HasRoom`) asks for room in the tail and for a block for every label of
the key and two more, so that no call is cut off in the middle; the tail stops a trie
that has only ever grown, and `ShrinkTail` makes room again. No run comes near 8
blocks. `Preload` has to fit too (`PreloadAssumption`). `TypeOK` gives types to the
slots of the blocks that exist; the others hold what the lengthened array starts
with. `Values` is {1}, and sums are bounded by `MaxValue`: the code never
looks at a value, apart from -1 and -2, which the Python layer keeps out: in
`trie_reload` one is refused by `set` and the other is a sum that `update` takes
back. `InitialCapacity` is 1 there (64 in the code), so that three keys already
overflow the first buffer. In `image` each array is doubled, every allocation is
refused in turn, places are taken again or left stale and the tail is shrunk a second
time, in any order; sizes are in blocks and cells.
In `prefix` the first label is 2 only and the others stay free, for the two
reasons below; `MaxBlocks` is 8, and `Room` keeps an update from beginning unless
a block for each of its labels could still be added, so that no state is cut off
in the middle of a call.

Two states of the root are kept out of the passing runs, because the code goes
wrong in them and a run of its own shows it:

* `loaded_block0`. `_restore_block` takes the first slot with a negative check
  for the head of a block's ring (`cedarpp.h:695`). In block 0 that is the root,
  which is not in the ring. The next key erased in block 0 is linked between the
  root and slot 1, writing over slot 1. Keys with first label 1 are therefore
  left out where a run reloads.
* `root_full`. `block.num` counts the root as empty, so block 0 never reaches
  0, and its `ehead` stays on the last slot taken. Giving one back then follows
  the links of a slot in use and overwrites the root's base (`cedarpp.h:783`).
  The other runs leave one root label unused.

Three more runs show what the documents say otherwise:

* `loaded_erase`. `open()` of a file leaves `_ninfo` and `_block` null until an
  update restores them; `erase` does not, and reads `_ninfo`. `LifeCycle` has a
  phase *loaded* for it, in which only the erase of a key that is there may fault
  (`KeepsStep`). The run opens an image that holds a key and erases it; in a trie
  without keys `erase` returns before it reads `_ninfo`.
* `failed_load`. When a table is refused in the `restore()` that ends `loads`, the
  arrays of the image, with its keys, stay in place (`cedarpp.h:511`); the three
  allocations before it are followed by `clear(true)`. `README.md:470` and the
  docstring of `loads` say that a load that runs out of memory leaves the trie empty.
  `LifeCycle!Loads` allows what the code does.
* `midtail_suffix`. `suffix()` takes the offset of a cursor for the end of the
  suffix. `traverse()` may leave it in the middle, and then the characters are
  other ones. The queries of the Python layer call `suffix()` only where a key
  ends, which `EnumerationRight` and the others check.

The first two were seen in the compiled class too. `pool` and `pool_restore` cover
block 0 under the same two conditions: `RootLabels` leaves one slot, and it is
slot 1 where the table is rebuilt.

`CHECK_DEADLOCK` is off in the three runs of `TrieImage` only, where a fault ends
the process. The one liveness property is `SearchEnds`, under weak fairness of
the rounds of `_find_place` (`Settle \/ Reject \/ Grow`): a call that has begun
runs to its end, since nothing else runs in the meantime; nobody is assumed to
begin a search. All other properties are safety properties.

## 4. Proofs

`BlockLists_proofs` proves, for every number of blocks, every block size of at
least 2 and every `MAX_TRIAL` of at least 1,

* `TypeCorrect`: the lists, counters and trials keep their types;
* `ListsCorrect`: `ListsMatchBlocks` always holds;
* `HeadsCorrect`: a list head other than 0 names a block with an empty slot.

The assumptions are `BlockAssumption` of `ListOps`. The inductive invariant `IInv` is
`TypeOK /\ ListsMatchBlocks` strengthened by three facts neither says: the root stays
counted in block 0, a block beyond the end of the array has all its slots empty and no
trial (or `_add_block` would put it on the wrong list), and no block has a trial while
the table is being rebuilt (or the list `_restore_block` chooses from `num` alone would
be the wrong one). The argument follows the code: `PopHolds` and `PushHolds` state what
taking a block off and putting it on a list does to the *sets* of blocks listed (from
`ListLemmas`, which proves that unlinking and linking keep a ring whole);
`TransferHolds` combines them; each action is then one of *no transfer*, *one transfer*
or *one push*, and what is left is to see that the counters changed exactly as the
membership did. `IsRing` says that no proper part of a ring is closed under `next`,
which needs no recursion, and so suits the provers as well as TLC.

Its second part proves, under the same assumptions, `EveryOpenBlockTried`
(`EachOpenTried`) and `SearchListsCorrect`. The invariant adds to `IInv` that
`todo` is the part of the Open ring from `bi` to `bz`: it is closed under `next`
up to `bz`, so the next block, read before the transfer, is in it; the lemmas
on rings give that unlinking `bi` leaves the rest of that part linked as it was.

`NodePool_proofs` proves, for every number and size of blocks, every `MAX_TRIAL`
and every set of first labels that `RootSpare` admits, all six properties of the
runs `pool` and `pool_restore`:

* `PoolTyped` (`TypeOK`), `SlotsOnRings` (`RingsWhole`), `CountersCorrect`
  (`CountsRight`) and `WantedStaysFree` (`WantedFree`);
* `HeldKept` (`HeldUntouched`): no step writes a slot in use;
* `ListsRefined` (`ListsSpec`): the allocator implements `BlockLists`, whose
  theorems are therefore theorems about the allocator, with counters that count
  slots.

The assumptions are `BlockAssumption`, `XorAssumption`, `ClientAssumption`, and as
a hypothesis of each theorem `RootSpare`: some slot of block 0 is never used, and
where the table is rebuilt it is slot 1. Without it the theorems are false, and
`root_full` and `loaded_block0` show how; with keys in UTF-8 it holds, since some
bytes occur in none and byte 1 is a control character. The inductive invariant has
one part for each thing a step relies on:

* the invariant of `BlockLists`, from which a block on the Open or Closed list
  has room, so that `_find_place` reads the head of a ring;
* `Whole`: in each block the counter counts the empty slots, they are one ring,
  and a registered block is entered at one of them. A step changes the ring, the
  head and the counter of one block only (`TakeWhole`, `PushWhole`, `AddWhole`,
  `RegisterWhole`), and `ChainUnlink` and `ChainLink` say that the links it
  writes leave a ring;
* `RootChain` for a block 0 that was rebuilt: its head may be the root, which is
  not in the ring but is followed by slot 1, so that who precedes slot 1 is not
  known. While slot 1 is empty and never taken this is enough: links are read
  backwards only from slots that are taken;
* what `_find_place` chose can be taken, and a search has its way before it
  (`Walk`, as for `BlockSearch`).

`Shown` says of a step that it keeps the invariant, is a step of `BlockLists` and
writes no slot in use; there is one lemma for each action. `Empties`, the one
recursive function here, is reasoned about by the least position that would go
wrong (`EmptiesIn`).

`TrieImage_proofs` proves, for every block and cell bound and every set of images,
`ImageTypes` (`TypeOK`) and `ImageKeepsStep`: the refinement `Spec => Cycle!Spec`, its
initial state and each step. The assumption is `ImageAssumption`. `Safe(c)` says of a
call in progress that it has not faulted and that its image is ready unless memory was
refused. `Serves(c, kind)` says what a call of a kind may make of the image it began on:
from a ready one it is `Safe`, and only an update or a save runs out of memory; from a
loaded one it ends as `Answers` has it; `ServesStep` shows that this is a step of
`LifeCycle`. For each operation, from `_realloc_array` upward, one lemma says that it
keeps the types and, where it may start on a ready image, another that it keeps `Safe`;
for each action there is one that it `Serves`. What the places take from the tail is the
one piece of arithmetic: `AskedBounds` and `AskedMoves` say that `Asked`, the size
`shrink_tail` asks for, stays at least the header while each place is made of cells the
tail has, and `CopiedFits` that a ready or loaded trie copies no more than that. A
refused trim leaves `lost` filled and hence no ready trie, which is why nothing has to
be shown of the second shrink after it.

`TrieLemmas` proves what the loops over a chain of siblings compute, for every
block size: a chain that is in order (`ChainOf`: the child is the least label,
and each label is followed by the next one above) is listed whole by the walk
from `child` through `sibling` (`ChainLists`); `_push_sibling` and
`_pop_sibling` keep a chain in order, with one label more or less, and write no
sibling outside it (`PushSiblingOrder`, `PopSiblingOrder`); and `_set_child` puts a
newcomer in its place (`WithLabelOrder`). A loop is a function over an interval,
and `RecursionIsFunction` shows that there is one: of the intervals from the
lower end, the shortest without such a function would be one step longer than
one with it. What a walk has met so far is a `PartOf` the chain, cut at a label.

The second part of `TrieLemmas` says what it is for an array to hold a tree, and
which steps keep it (`IsTree`): every slot in use is where its label puts it from
the base its parent has, or had when the slot was taken; the labels on the way
from the root to it are a function `P` of the slots, which rules out cycles and
says what a lookup finds; and the chain of every node lists its children in order,
except for one node whose children are being moved. `Attached`, `Moved` and
`Detached` prove that a slot taken for a new child, a child that is moved with
everything below it, and a slot given back each lead from such a tree to such a
tree, with the paths of all other nodes unchanged.

Its third part joins the tree to the allocator. A trie is `Sound` when the pool
left after forgetting what the used slots contain (`PoolOf`) has whole rings,
right counters and right lists in the sense of `NodePool_proofs`. `TakeSound`,
`ReleaseSound`, `FindSlotSound` and `FindSlotsSound` carry the lemmas about pools
over to tries; the last goes through the rounds of `_find_place(first, last)` by
the first round that would go wrong.

`TreeLemmas` goes through the functions of `TrieOps` on a sound trie with a tree.
`Content` is what the nodes hold, by their paths, so that *nothing was lost or
made* is an equation, and `TrieOf(R, t, C)` says that `t` is a sound trie of the
content `C`. The loop of `_resolve` has the invariant `Moving`: the children moved
so far are at the new base and the others at the old one, the newcomer has its slot
or not yet, and the node asked about is known by its path wherever it is. `MoveStep`
is one round: the cases are the newcomer (`PlaceNewcomer`), a child that leaves its
slot to the pool (`MovedAway`), and the child whose slot the newcomer wanted
(`TakeOverChild`), which may be the parent of the newcomer. `ResolveTree` and
`FollowTree` are the two functions as a whole. The others are

* `EraseTree`: `erase` takes the nodes of a path away from below until one has a
  second child, so what is left is the content without the end of that path
  (`PrunedTo`), and nothing else passed through it (`AloneFrom`);
* `RestoreNinfoTree`: the chains rebuilt in the order of addresses list the children
  met so far, and a terminal, which `_push_sibling` puts first whatever the flag
  says, comes first in any case (`base ^ 0`);
* `RestoreBlockSound`: the blocks registered so far are on the list their counters
  call for, and the empty slots of each are a ring again.

`PrefixTrie_proofs` puts this together for the trie of `cedar.h`. It proves, for every
set of keys, every list of lines to build from, every number and size of blocks and
every `MAX_TRIAL`,

* `LookupsCorrect` (`LookupsRight`): `_find` answers what the map does, for every
  key and every beginning of one;
* `SlotsCorrect` (`SlotsEarned`): the slots in use are as many as the beginnings
  of the keys and their terminals, and `num_keys` is the number of keys;
* `ChainsCorrect` (`ChainsAgree`): while `_ninfo` is there, chains and checks agree;
* `PrefixesCorrect` (`PrefixesRight`): `commonPrefixSearch` finds all the
  beginnings of a key that are keys, in order.

The assumptions are `BlockAssumption`, `XorAssumption` and `KeyAssumption`, and as a
hypothesis `RootSpare`: no key starts with the byte 1 (so that block 0 keeps a slot
that is never used, and its rebuilt table does no harm; see `loaded_block0`). The
invariant `IInv` says that the trie holds the map, as far as its tables are there
(`KeptAs`): there are names for the nodes such that the array is a tree whose
content is `KeyTree(map)`, a node for every beginning of a key and a terminal with
the value for every key (`SpellsAs`); with `_ninfo`, its chains are in order
(`IsTree`); with `_block`, the allocator is sound (`Sound`), and without, no block
is registered. None of the four properties is inductive: what `_find` answers
says nothing of where the next slot is taken from, and a trie just opened has no
chains to be right. The argument has four parts.

* `UpdateHolds`: a round of the loop of `update` is `FollowTree`, so that after `i`
  rounds the content is the tree of the map with the first `i` labels of the key
  added; with the terminal it is the tree of the new map.
* `EraseHolds`, from `EraseTree`: a node is given back when it has no second child,
  which is when no other key goes through it, so what is left is the tree of the
  new map.
* The tables, from `RestoreNinfoTree` and `RestoreBlockSound`: `open` keeps the array,
  and `SpellsAs` speaks of nothing else.
* The queries. `FindSpells`: `_find` ends at the node named after the key, or
  leaves the tree where no key goes on. `SearchStep` is one round of
  `commonPrefixSearch`, which goes on from the node the round before came to.

`DoubleArray_proofs` does the same for `cedarpp.h`, the trie that pycedar compiles,
where most keys end in the tail. It proves, for every set of keys and values, every
list of keys to start from, every number and size of blocks, every `MAX_TRIAL` and
every length of the tail, as theorems of `DoubleArray`'s `Spec`, all properties of the
run `crowd` and, of those `trie_reload` checks on `DictSpec`, the ones `DoubleArray`
defines except `RestoreSame`:

* `LookupsCorrect` (`LookupsRight`): after any calls in any order, `_find` answers what
  the map does; `NumKeysCorrect` (`NumKeysRight`): `num_keys` counts the map;
* `ChainsCorrect` (`ChainsMatchChecks`) and `NoLeakHolds` (`NoLeak`): chains list the
  children in order, and every branch ends in a terminal or a suffix;
* `TailDisjointHolds` (`TailDisjoint`): no cell of the tail belongs to two suffixes, or to
  a suffix and a place offered again; `ZeroSlackHolds` (`ZeroSlack`): the cells after
  the last are 0;
* `ShrinkFitsHolds` (`ShrinkFits`): what `shrink_tail` copies fits what it asked for;
* `RingsHold` (`RingsWhole`) and `TypesHold` (`TypeOK`).

The assumptions are `BlockAssumption`, `XorAssumption`, `TailAssumption` (the tail has a
header), `KeyAssumption` (a key is not empty and has no byte 0, as the Python layer
sees to) and `PreloadAssumption` (the keys to start from fit the bounds), and as a
hypothesis `RootSpare` for the first bytes of the keys, as above: `loaded_block0` and
`root_full` are the runs in which it fails. The invariant `IInv` is that the trie
`Holds` the map. This has to say where each key is: `D` gives the number of labels of
a key that are nodes and `A` the cell its rest starts at, if it has one. `Holds` then
is the conjunction of

* `TrieOf(R, t, C)` for a content `C`;
* `Ends`: the nodes of `C` without children are exactly the ends of the keys, each
  with its value or its place in the tail; `NoBare`: every other node has a child. The
  two give what inner nodes there are, without saying how far a key was split, which
  depends on the order of the calls;
* `TailHolds`: at `A[k]` the rest of `k`, a zero and the value are in the tail
  (`Spelled`), the cells after `t.length` are 0, and the places in `tail0` are within
  it. `W` gives each cell an owner, a key or an index of `tail0`, and the cells of a
  key are its own (`KeyAt`, `PlaceAt`): that no two share one follows, and a write to
  the cells of one owner keeps those of all others, without comparing pairs.

None of the properties of the runs is inductive by itself: what a lookup answers
does not say that the next suffix is written on cells of nobody, or that the slot
taken for a child was empty. The argument follows `update`:

* The way down is `FollowTree`, as for `cedar.h`, until the key ends, a node is missing,
  or a suffix is met. Where a node is missing, the new one gets the rest of the key
  as its suffix. It is written at the end of the tail, over cells that `ZeroSlack` says
  are 0, or, when the rest is empty, at a place of `tail0` if there is one.
* Where the way ends in a suffix, the characters that key and suffix share become
  nodes (`Thread`), the last one branches, and the old suffix goes on from the cell after
  the branch: the same cells, less the first. A suffix used up leaves a place, and a
  place of `tail0` is taken before the tail grows. In between the trie holds no map,
  since one node is bare: the lemmas speak of the node that still lacks its child.
* `EraseHolds` is `EraseTree`; the cells of the key stay in the tail and belong to nobody.
* `CompactHolds` and `CompactFits`: `shrink_tail` copies the suffixes in the order of the
  slots. After some rounds those copied lie one after the other in the new tail, with
  what `Asked` counts for the others still to come.
* `RestoredHolds`: the array and the tail are kept, `RestoreNinfoTree` and
  `RestoreBlockSound` do the rest, and no place is offered any more.
* `FindRight`: `_find` follows the nodes of the key to where `D` says it ends, and the
  comparison with the tail is with the cells of `Spelled`, which a different key
  differs from before its end.

Only model-checked:

* `RestoreSame`, that the rebuilt chains *equal* the maintained ones. They list the
  same children (`RestoredHolds`); equality also needs that the sibling field of every
  slot that is not in use is 0, which no lookup depends on and the invariant does not
  say.
* The properties of `CedarDict` (enumeration, prefix queries, lazy and scoped searches,
  `CursorsStand`, `RestoreSame` through it) and `EnumerationRight` of `PrefixTrie`: the
  ways of `begin` and `next` through the tree in the order of the keys. That each
  query starts from a right trie is what `DoubleArray_proofs` says, since
  `CedarDict` makes its updates by the same operators.
* `SearchEnds`, a liveness property, which rests on fairness.

## 5. Not modelled

* C `int` overflow of values and lengths: the source leaves it undefined.
* Lookups with a byte 0 in the key, which the Python layer refuses only for
  keys to be stored: `_find` then takes a terminal for a node.
* The checks `open` makes on an image, other than that it may refuse; malformed
  images it accepts (pycedar documents that there is no integrity check).
* Updates and erases that start at a node id, `set_array`, `build` of
  `cedarpp.h` and the trackers: not reachable from Python.
* Key types and conversions (stateless), statistics that return a field.
* Threads on one trie: the caller locks.
* `USE_FAST_LOAD`, `USE_EXACT_FIT`, `USE_REDUCED_TRIE`: not compiled in.
* `cedar.cc`, the benchmarks, stubs, build and tests: no state of their own.

## 6. State of the plan

Every module planned at the start is written: the block lists and their search,
the allocator, the trie beside its map, cursors and the dictionary, the image
and its life cycle, and the trie of `cedar.h`. What would come next, in this
order: the order of enumeration and with it the theorems of `CedarDict`; `RestoreSame`;
the reduced trie.
