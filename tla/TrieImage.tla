----------------------------- MODULE TrieImage -----------------------------
(***************************************************************************)
(* The five arrays of cedar::da (cedarpp.h), what it records of their      *)
(* sizes, and how both change from construction through growth, saving,    *)
(* loading and clearing, when any allocation may be refused.  What the     *)
(* arrays hold is the matter of DoubleArray: here an update is the number  *)
(* of blocks, places and cells it asks for.                                *)
(***************************************************************************)
EXTENDS Integers

CONSTANTS
    Header,       \* cells of the tail that hold its length
    ValueCells,   \* cells of a value
    MaxBlocks,    \* bounds: blocks in use,
    MaxCells,     \*   cells of the tail in use,
    MaxPlaces,    \*   places for empty suffixes,
    MaxRest,      \*   length of a suffix
    Images        \* the images read: [size, length, keys]

ASSUME ImageAssumption ==
    /\ Header \in Nat \ {0} /\ ValueCells \in Nat \ {0}
    /\ MaxBlocks \in Nat /\ MaxCells \in Nat /\ MaxPlaces \in Nat
    /\ MaxRest \in Nat
    /\ Images \subseteq [size : 1 .. MaxBlocks, length : Header .. MaxCells, keys : BOOLEAN]
    /\ \A i \in Images : i.keys => i.size > 1 \/ i.length > Header

VARIABLES im,     \* the arrays and their recorded sizes
          busy,   \* an update is in progress
          call    \* the kind of the last call, see LifeCycle
(***************************************************************************)
(* im.array, ninfo, block    blocks the arrays have room for; 0 for null   *)
(* im.tail, tail0            cells and entries _tail and _tail0 have       *)
(* im.capacity, size         _capacity and _size in blocks                 *)
(* im.quota, quota0          _quota and _quota0                            *)
(* im.length, places         *_length, and *_length0, the places offered   *)
(* im.lost                   places counted whose entry of _tail0 names no *)
(*                           free cells: it was never written, or it is    *)
(*                           an offset into a tail that was freed          *)
(* im.root                   whether slot 0 of the array was written       *)
(* im.keys                   whether a key is stored                       *)
(* im.torn                   whether an update was cut off that had made a *)
(*                           node and not yet what it leads to: its base   *)
(*                           is -1, which shrink_tail takes for a suffix   *)
(* im.status                 how the last call ended                       *)
(***************************************************************************)

Null(status) ==
    [array |-> 0, ninfo |-> 0, block |-> 0, tail |-> 0, tail0 |-> 0,
     capacity |-> 0, size |-> 0, quota |-> 0, quota0 |-> 0,
     length |-> 0, places |-> 0, lost |-> {}, root |-> FALSE,
     keys |-> FALSE, torn |-> FALSE, status |-> status]

\* A call in progress: the image s, left allocations before one is refused.
Going(s, left)  == [s |-> s, left |-> left]
Ok(c)           == c.s.status = "ok"
Ended(c, how)   == Going([c.s EXCEPT !.status = how], c.left)

\* A call goes on when the memory it now touches is there, and its own to write.
Needs(c, there) == IF Ok(c) /\ ~ there THEN Ended(c, "fault") ELSE c

\* _realloc_array: the image with the larger array, or bad_alloc.
Realloc(c, larger) ==
    IF ~ Ok(c) THEN c
    ELSE IF c.left = 0 THEN Ended(c, "MemoryError")
    ELSE Going(larger, c.left - 1)

\* What follows when nothing went wrong.
Then(c, s) == IF Ok(c) THEN Going(s, c.left) ELSE c

-----------------------------------------------------------------------------
\* _initialize, with no array there.
_initialize(c) ==
    LET c1 == Realloc(c, [c.s EXCEPT !.array = 1])
        c2 == Realloc(c1, [c1.s EXCEPT !.tail = Header])
        c3 == Realloc(c2, [c2.s EXCEPT !.tail0 = 1])
        c4 == Realloc(c3, [c3.s EXCEPT !.ninfo = 1])
        c5 == Realloc(c4, [c4.s EXCEPT !.block = 1])
    IN  Then(c5, [c5.s EXCEPT !.capacity = 1, !.size = 1, !.quota = Header,
                              !.length = Header, !.quota0 = 1, !.root = TRUE])

clear(c, reuse) ==
    IF reuse THEN _initialize(Going(Null("ok"), c.left)) ELSE Going(Null("ok"), c.left)

\* restore: the tables that are missing, then the sizes.
Relist(c)  == IF c.s.block # 0 THEN c ELSE Realloc(c, [c.s EXCEPT !.block = c.s.size])
Rechain(c) == IF c.s.ninfo # 0 THEN c ELSE Realloc(c, [c.s EXCEPT !.ninfo = c.s.size])

Resized(c) ==
    Then(c, [c.s EXCEPT !.capacity = c.s.size, !.quota = c.s.length, !.quota0 = 1])

restore(c) == Resized(Rechain(Relist(c)))

-----------------------------------------------------------------------------
(* Growth.                                                                 *)

\* Mutant: the table of blocks is not made larger.
DoubledBut(c) ==
    LET n  == 2 * c.s.capacity
        c1 == Realloc(Going([c.s EXCEPT !.capacity = n], c.left),
                      [c.s EXCEPT !.capacity = n, !.array = n])
    IN  Realloc(c1, [c1.s EXCEPT !.ninfo = n])

\* The capacity is raised before the arrays are.
Doubled(c) ==
    LET n  == 2 * c.s.capacity
        c1 == Realloc(Going([c.s EXCEPT !.capacity = n], c.left),
                      [c.s EXCEPT !.capacity = n, !.array = n])
        c2 == Realloc(c1, [c1.s EXCEPT !.ninfo = n])
    IN  Realloc(c2, [c2.s EXCEPT !.block = n])

\* A block within what the arrays have is written.
Appended(c) ==
    LET d == Needs(c, c.s.size < c.s.array /\ c.s.size < c.s.ninfo /\ c.s.size < c.s.block)
    IN  Then(d, [d.s EXCEPT !.size = @ + 1])

_add_block(c) ==
    IF ~ Ok(c) THEN c
    ELSE Appended(IF c.s.size = c.s.capacity THEN Doubled(c) ELSE c)

\* One more place for an empty suffix; it is counted first.
Counted(c) == Going([c.s EXCEPT !.places = @ + 1, !.lost = @ \cup {c.s.places + 1}], c.left)

Widened(c) ==
    IF c.s.quota0 # c.s.places THEN c
    ELSE Realloc(Going([c.s EXCEPT !.quota0 = 2 * @], c.left),
                 [c.s EXCEPT !.quota0 = 2 * @, !.tail0 = 2 * c.s.quota0])

Written(c) ==
    LET d == Needs(c, c.s.places < c.s.tail0)
    IN  Then(d, [d.s EXCEPT !.lost = @ \ {d.s.places}])

PushPlace(c) == IF Ok(c) THEN Written(Widened(Counted(c))) ELSE c

\* The last place is taken: an empty suffix and its value are written over the
\* cells its entry names.
ReusePlace(c) ==
    LET d == Needs(c, c.s.places < c.s.tail0 /\ c.s.places \notin c.s.lost)
    IN  Then(d, [d.s EXCEPT !.places = @ - 1])

\* The quota of a tail that has no room for needed cells more.
Quota(s, needed) == s.quota + IF s.quota >= needed THEN s.quota ELSE needed

Lengthened(c, needed) ==
    IF c.s.quota >= c.s.length + needed THEN c
    ELSE Realloc(Going([c.s EXCEPT !.quota = Quota(c.s, needed)], c.left),
                 [c.s EXCEPT !.quota = Quota(c.s, needed), !.tail = Quota(c.s, needed)])

Stored(c, needed) ==
    LET d == Needs(c, c.s.length + needed <= c.s.tail)
    IN  Then(d, [d.s EXCEPT !.length = @ + needed])

GrowTail(c, needed) == IF Ok(c) THEN Stored(Lengthened(c, needed), needed) ELSE c

\* Mutant: a place is taken though none is free.
AddSuffixUnasked(c, rest) ==
    IF ~ Ok(c) \/ rest = -1 THEN c
    ELSE IF rest = 0 THEN ReusePlace(c)
    ELSE GrowTail(c, rest + 1 + ValueCells)

\* A suffix of rest characters, or -1 when the key ends in a terminal.
AddSuffix(c, rest) ==
    IF ~ Ok(c) \/ rest = -1 THEN c
    ELSE IF rest = 0 /\ c.s.places # 0 THEN ReusePlace(c)
    ELSE GrowTail(c, rest + 1 + ValueCells)

-----------------------------------------------------------------------------
(* The calls.                                                              *)

Readable(s)  == s.root /\ s.tail >= s.length /\ s.tail >= Header
Chained(s)   == s.ninfo >= s.size
Listed(s)    == s.block >= s.size

\* update begins with the tables open may have left out.
Prepared(c) ==
    IF c.s.ninfo = 0 \/ c.s.block = 0 THEN restore(Needs(c, c.s.tail # 0)) ELSE c

update(c) ==
    LET d == Prepared(c)
    IN  Needs(d, Readable(d.s) /\ Chained(d.s) /\ Listed(d.s) /\ d.s.size # 0 /\ d.s.tail0 # 0)

\* erase of a key that is there; keys tells whether others are left.
erase(c, keys) ==
    LET d == Needs(c, Readable(c.s) /\ Chained(c.s) /\ Listed(c.s) /\ c.s.size # 0)
    IN  Then(d, [d.s EXCEPT !.keys = keys])

Lookup(c) == Needs(c, Readable(c.s))

\* begin, which restores the chains and nothing else.
begin(c) ==
    LET d == Rechain(Needs(c, Readable(c.s)))
    IN  Needs(d, Chained(d.s))

\* What shrink_tail asks malloc for: the tail without the places.
Asked(s) == s.length - s.places * (1 + ValueCells)

\* A size below 0 wraps around and is refused.  Once the nodes are moved to the
\* new tail, the places listed are of the one that is freed.
MovedTail(c, length) ==
    IF Ok(c) /\ Asked(c.s) < 0 THEN Ended(c, "MemoryError")
    ELSE Realloc(c, [c.s EXCEPT !.tail = Asked(c.s), !.length = length,
                                !.lost = 1 .. c.s.places])

Trimmed(c) == Realloc(c, [c.s EXCEPT !.tail = c.s.length])

\* The suffixes and the header take length cells; then _tail and _tail0 are cut
\* to size, one after the other.
shrink_tail(c, length) ==
    LET c1 == Needs(c, Readable(c.s) /\ c.s.tail0 # 0)
        c2 == Needs(MovedTail(c1, length), Header <= Asked(c.s) /\ length <= Asked(c.s))
        c3 == Trimmed(c2)
        c4 == Then(c3, [c3.s EXCEPT !.quota = length])
        c5 == Realloc(c4, [c4.s EXCEPT !.tail0 = 1, !.places = 0, !.lost = {}])
    IN  Then(c5, [c5.s EXCEPT !.quota0 = 1])

\* save to a file allocates nothing; save to memory mallocs the image at the end.
Save(c, shrink, length) ==
    LET d == IF shrink THEN shrink_tail(c, length) ELSE c
    IN  Needs(d, Readable(d.s) /\ d.s.array >= d.s.size)

Dumps(c) == Realloc(c, c.s)

\* open(file) and loads once the image is found well formed: three mallocs,
\* and an empty trie, if that is granted, when one of them is refused.
Taken(c, image) ==
    Going([Null("ok") EXCEPT !.array = image.size, !.tail = image.length, !.tail0 = 1], c.left)

Untaken(c) == Ended(clear(c, TRUE), "MemoryError")

\* The image is read whole, or short: at the root or after it.
Read(c, image) ==
    Going([c.s EXCEPT !.size = image.size, !.length = image.length, !.root = TRUE,
                      !.keys = image.keys], c.left)

ReadShort(c, image, root) ==
    Going([c.s EXCEPT !.length = image.length, !.root = root, !.keys = image.keys,
                      !.status = "refused"], c.left)

open_file(c, image)        == Read(Taken(c, image), image)
open_short(c, image, root) == ReadShort(Taken(c, image), image, root)
open_mem(c, image)         == restore(open_file(c, image))

-----------------------------------------------------------------------------
(* Which phase of LifeCycle an image is in.                                *)

Ready(s) ==
    /\ s.root /\ ~ s.torn /\ s.lost = {}
    /\ 1 <= s.size /\ s.size <= s.capacity
    /\ s.capacity <= s.array /\ s.capacity <= s.ninfo /\ s.capacity <= s.block
    /\ Header <= Asked(s) /\ s.length <= s.quota /\ s.quota <= s.tail
    /\ s.places < s.quota0 /\ s.quota0 <= s.tail0

\* Only begin may have restored a table, and nothing was added yet.
Loaded(s) ==
    /\ s.root /\ ~ s.torn /\ s.lost = {} /\ s.places = 0 /\ s.tail0 >= 1
    /\ 1 <= s.size /\ s.size <= s.array
    /\ s.block = 0 /\ (s.ninfo = 0 \/ s.ninfo >= s.size)
    /\ Header <= s.length /\ s.length <= s.tail

Phase(s) ==
    IF s.status = "fault" THEN "fault"
    ELSE IF Ready(s) THEN "ready"
    ELSE IF Loaded(s) THEN "loaded"
    ELSE IF s.array = 0 /\ s.tail = 0 THEN "bare"
    ELSE "unsound"

-----------------------------------------------------------------------------
Fits(s)     == s.size <= MaxBlocks /\ s.length <= MaxCells /\ s.places <= MaxPlaces
Live        == im.status # "fault"
Begun(left) == Going([im EXCEPT !.status = "ok"], left)

\* The construction itself may fail; then there is no object.
Init == im = _initialize(Going(Null("ok"), 5)).s /\ busy = FALSE /\ call = "clear"

\* A call that is over, and an update that goes on unless it failed.
Ends(kind, c) == Fits(c.s) /\ im' = c.s /\ busy' = FALSE /\ call' = kind
GoesOn(c)     == Fits(c.s) /\ im' = c.s /\ busy' = Ok(c) /\ call' = "update"

\* An update cut off by a refused allocation; torn if it stood on a new node.
CutOff(c, torn) ==
    IF c.s.status = "MemoryError" THEN Going([c.s EXCEPT !.torn = @ \/ torn], c.left) ELSE c

\* The key is stored, or the node that was made for it has no suffix.
Stores(c) == CutOff(Then(c, [c.s EXCEPT !.keys = TRUE]), TRUE)

\* An update asks for blocks and places while it follows the key and splits a
\* suffix, and stores the rest of the key, if any, at its end.
UpdateBegin == ~ busy /\ \E left \in 0 .. 2 : GoesOn(update(Begun(left)))

UpdateBlock ==
    busy /\ \E left \in 0 .. 3, torn \in BOOLEAN : GoesOn(CutOff(_add_block(Begun(left)), torn))

\* A place is made of cells of the tail that a suffix no longer needs: there are
\* that many (DoubleArray!TailDisjoint) unless places of a freed tail are counted.
UpdatePlace ==
    /\ busy
    /\ im.lost # {} \/ Header + 1 + ValueCells <= Asked(im)
    /\ \E left \in 0 .. 1, torn \in BOOLEAN : GoesOn(CutOff(PushPlace(Begun(left)), torn))

UpdateEnd ==
    busy /\ \E left \in 0 .. 1, rest \in -1 .. MaxRest :
              Ends("update", Stores(AddSuffix(Begun(left), rest)))

\* The erase of a key that is not there is a lookup, as Find.
Erase == (im.keys \/ im.torn) /\ \E keys \in BOOLEAN : Ends("erase", erase(Begun(0), keys))
Find  == Ends("find", Lookup(Begun(0)))
Begin == \E left \in {0, 1} : Ends("begin", begin(Begun(left)))

\* The cells shrink_tail copies.  No suffix is left without keys, and perhaps
\* none with keys that all end in terminals, for which there is a second block;
\* otherwise as many as fit what it asks for (DoubleArray!ShrinkFits).  When
\* nodes lead nowhere or places of a freed tail are counted they may be more.
Copied(s) ==
    IF Phase(s) \notin {"ready", "loaded"} THEN {Header, s.length, s.length + 1}
    ELSE IF ~ s.keys THEN {Header}
    ELSE IF s.size = 1 THEN {Asked(s)}
    ELSE {Header, Asked(s)}

SaveOrDump ==
    \E left \in 0 .. 3, shrink \in BOOLEAN :
    \E length \in IF shrink THEN Copied(im) ELSE {im.length} :
    LET d == Save(Begun(left), shrink, length)
    IN  Ends("save", d) \/ Ends("save", Dumps(Going(d.s, 0)))

\* No file, or not an image, or out of memory for the three mallocs and perhaps
\* for the empty trie, or an image; loads allocates two tables more.
Open ==
    \/ Ends("open", Ended(Begun(0), "refused"))
    \/ \E left \in 0 .. 5 : Ends("open", Untaken(Begun(left)))
    \/ \E image \in Images :
         \/ Ends("open", open_file(Begun(0), image))
         \/ \E left \in 0 .. 2 : Ends("open", open_mem(Begun(left), image))
         \/ \E root \in BOOLEAN : Ends("open", open_short(Begun(0), image, root))

Clear ==
    \/ Ends("clear", clear(Begun(0), FALSE))
    \/ \E left \in 0 .. 5 : Ends("clear", clear(Begun(left), TRUE))

Next ==
    /\ Live
    /\ \/ UpdateBegin \/ UpdateBlock \/ UpdatePlace \/ UpdateEnd
       \/ ~ busy /\ (Erase \/ Find \/ Begin \/ SaveOrDump \/ Open \/ Clear)

vars == <<im, busy, call>>
Spec == Init /\ [][Next]_vars

-----------------------------------------------------------------------------
(* Properties.                                                             *)

\* The sizes are numbers (places, from which one is taken for every empty
\* suffix, and length too), and an update that goes on has a table of blocks.
TypeOK ==
    /\ im \in [array : Nat, ninfo : Nat, block : Nat, tail : Nat, tail0 : Nat,
               capacity : Nat, size : Nat, quota : Nat, quota0 : Nat,
               length : Nat, places : Nat, lost : SUBSET Nat, root : BOOLEAN,
               keys : BOOLEAN, torn : BOOLEAN,
               status : {"ok", "MemoryError", "refused", "fault"}]
    /\ busy \in BOOLEAN
    /\ call \in {"update", "erase", "find", "begin", "save", "open", "clear"}
    /\ busy => im.block # 0

Cycle == INSTANCE LifeCycle WITH phase <- Phase(im), result <- im.status

\* The arrays and their recorded sizes keep step as LifeCycle says: a call on
\* a ready trie never touches memory it does not have, whatever was refused
\* in it, and an update, erase, query or save that succeeds leaves it ready; on
\* a trie read from a file only the erase of a key faults.
KeepsStep == Cycle!Spec

\* A trie that load() read from a file survives the erase of a key it holds
\* (pycedar.pyx:1019: "the erase cannot fail").
LoadedErases ==
    [][ call' = "erase" /\ Phase(im) = "loaded" => im'.status # "fault" ]_vars

\* A load that runs out of memory leaves the trie empty (README.md:470).
FailedLoadEmpties == [][ call' = "open" /\ im'.status = "MemoryError" => ~ im'.keys ]_vars
=============================================================================
