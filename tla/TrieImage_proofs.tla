-------------------------- MODULE TrieImage_proofs --------------------------
(***************************************************************************)
(* Proof that the arrays of cedar::da keep step with their recorded sizes  *)
(* as LifeCycle says, whatever allocation is refused, for every size of    *)
(* image and every bound.                                                  *)
(*                                                                         *)
(* Each operation of TrieImage takes a call in progress to one.  A call    *)
(* that began on a ready image is Safe: it still has its arrays, it never  *)
(* met memory that is not there, and as long as nothing was refused in it  *)
(* the image is ready.  Every operation keeps that.                        *)
(***************************************************************************)
EXTENDS TrieImage, TLAPS

Statuses == {"ok", "MemoryError", "refused", "fault"}

Image == [array : Nat, ninfo : Nat, block : Nat, tail : Nat, tail0 : Nat,
          capacity : Nat, size : Nat, quota : Nat, quota0 : Nat,
          length : Nat, places : Nat, lost : SUBSET Nat, root : BOOLEAN,
          keys : BOOLEAN, torn : BOOLEAN, status : Statuses]

Calls == [s : Image, left : Nat]

Safe(c) ==
    /\ c \in Calls
    /\ c.s.status \in {"ok", "MemoryError"}
    /\ c.s.array # 0 /\ c.s.block # 0
    /\ Ok(c) => Ready(c.s)

\* Of a call that began on any image: it is not refused as a bad image is.
Typed(c) == c \in Calls /\ c.s.status \in {"ok", "MemoryError", "fault"}

\* Of a call that began on a loaded image and is no erase.
Held(c) == Typed(c) /\ c.s.array # 0 /\ c.s.status # "fault"

LEMMA NullIsImage == ASSUME NEW st \in Statuses PROVE Null(st) \in Image
BY DEF Null, Image

LEMMA ProductIsNat == ASSUME NEW n \in Nat, NEW k \in Nat PROVE n * k \in Nat
OBVIOUS

LEMMA AskedBounds ==
    ASSUME NEW s \in Image
    PROVE  /\ Asked(s) \in Int /\ Asked(s) <= s.length
           /\ s.places = 0 => Asked(s) = s.length
<1>1. s.places \in Nat /\ s.length \in Nat /\ 1 + ValueCells \in Nat
    BY ImageAssumption DEF Image
<1>2. s.places * (1 + ValueCells) \in Nat
    BY <1>1, ProductIsNat
<1>3. Asked(s) = s.length - s.places * (1 + ValueCells)
    BY DEF Asked
<1>4. s.places = 0 => s.places * (1 + ValueCells) = 0
    BY <1>1
<1> QED BY <1>1, <1>2, <1>3, <1>4

\* One image with as many places as another, or one place more.
LEMMA AskedMoves ==
    ASSUME NEW s \in Image, NEW t \in Image
    PROVE  /\ t.places = s.places => Asked(t) - Asked(s) = t.length - s.length
           /\ t.places = s.places + 1 /\ t.length = s.length =>
                Asked(t) = Asked(s) - (1 + ValueCells)
<1>1. /\ s.places \in Nat /\ t.places \in Nat /\ s.length \in Nat /\ t.length \in Nat
      /\ 1 + ValueCells \in Nat
    BY ImageAssumption DEF Image
<1> DEFINE k == 1 + ValueCells
<1>2. Asked(s) = s.length - s.places * k /\ Asked(t) = t.length - t.places * k
    BY DEF Asked
<1> HIDE DEF k
<1>3. k \in Nat /\ s.places * k \in Nat /\ t.places * k \in Nat
    BY <1>1, ProductIsNat DEF k
<1>4. t.places = s.places => t.places * k = s.places * k
    OBVIOUS
<1>5. t.places = s.places + 1 => t.places * k = s.places * k + k
    BY <1>1, <1>3
<1> QED BY <1>1, <1>2, <1>3, <1>4, <1>5 DEF k

\* What is ready or loaded can be read.
LEMMA ReadyReads ==
    ASSUME NEW s \in Image, Ready(s) \/ Loaded(s)
    PROVE  Readable(s) /\ Header <= s.length /\ Header <= Asked(s) /\ s.tail0 # 0 /\ s.tail # 0
<1>1. /\ s.length \in Nat /\ s.tail \in Nat /\ s.quota \in Nat /\ s.places \in Nat
      /\ s.quota0 \in Nat /\ s.tail0 \in Nat /\ Header \in Nat \ {0}
    BY ImageAssumption DEF Image
<1>2. Asked(s) \in Int /\ Asked(s) <= s.length /\ (s.places = 0 => Asked(s) = s.length)
    BY AskedBounds
<1>3. CASE Ready(s)
    <2>1. /\ s.root /\ Header <= Asked(s) /\ s.length <= s.quota /\ s.quota <= s.tail
          /\ s.places < s.quota0 /\ s.quota0 <= s.tail0
        BY <1>3 DEF Ready
    <2> QED BY <1>1, <1>2, <2>1 DEF Readable
<1>4. CASE Loaded(s)
    <2>1. s.root /\ s.places = 0 /\ s.tail0 >= 1 /\ Header <= s.length /\ s.length <= s.tail
        BY <1>4 DEF Loaded
    <2> QED BY <1>1, <1>2, <2>1 DEF Readable
<1> QED BY <1>3, <1>4

LEMMA GoingIsCall ==
    ASSUME NEW s \in Image, NEW n \in Nat
    PROVE  Going(s, n) \in Calls /\ Going(s, n).s = s /\ Going(s, n).left = n
BY DEF Going, Calls

LEMMA NeedsTyped ==
    ASSUME NEW c \in Calls, NEW there \in BOOLEAN
    PROVE  /\ Needs(c, there) \in Calls
           /\ there => Needs(c, there) = c
           /\ ~ Ok(c) => Needs(c, there) = c
           /\ Ok(Needs(c, there)) => Needs(c, there) = c /\ there
           /\ c.s.status \in {"ok", "MemoryError", "fault"} =>
                Needs(c, there).s.status \in {"ok", "MemoryError", "fault"}
           /\ Needs(c, there).s.array = c.s.array /\ Needs(c, there).s.block = c.s.block
BY DEF Needs, Calls, Image, Statuses, Going, Ended, Ok

LEMMA ReallocTyped ==
    ASSUME NEW c \in Calls, NEW t \in Image, t.status = c.s.status
    PROVE  /\ Realloc(c, t) \in Calls
           /\ ~ Ok(c) => Realloc(c, t) = c
           /\ Ok(Realloc(c, t)) => Ok(c) /\ Realloc(c, t).s = t
           /\ Ok(c) /\ ~ Ok(Realloc(c, t)) =>
                Realloc(c, t).s = [c.s EXCEPT !.status = "MemoryError"]
BY DEF Realloc, Calls, Image, Statuses, Going, Ended, Ok

LEMMA ThenTyped ==
    ASSUME NEW c \in Calls, NEW t \in Image, t.status = c.s.status
    PROVE  /\ Then(c, t) \in Calls
           /\ ~ Ok(c) => Then(c, t) = c
           /\ Ok(c) => Then(c, t).s = t
BY DEF Then, Calls, Image, Statuses, Going, Ok
-----------------------------------------------------------------------------
(* Growth.                                                                 *)

LEMMA DoubledTyped ==
    ASSUME NEW c \in Calls, Ok(c)
    PROVE  /\ Doubled(c) \in Calls
           /\ Doubled(c).s.status \in {"ok", "MemoryError"}
           /\ Doubled(c).s.array \in {c.s.array, 2 * c.s.capacity}
           /\ Doubled(c).s.block \in {c.s.block, 2 * c.s.capacity}
           /\ Ok(Doubled(c)) =>
                Doubled(c).s = [c.s EXCEPT !.capacity = 2 * c.s.capacity,
                                           !.array = 2 * c.s.capacity,
                                           !.ninfo = 2 * c.s.capacity,
                                           !.block = 2 * c.s.capacity]
<1> DEFINE n  == 2 * c.s.capacity
           s0 == [c.s EXCEPT !.capacity = n]
           s1 == [c.s EXCEPT !.capacity = n, !.array = n]
           c0 == Going(s0, c.left)
           c1 == Realloc(c0, s1)
           c2 == Realloc(c1, [c1.s EXCEPT !.ninfo = n])
           c3 == Realloc(c2, [c2.s EXCEPT !.block = n])
<1> HIDE DEF n, s0, s1, c0, c1, c2, c3
<1>1. n \in Nat /\ c.s \in Image /\ c.left \in Nat /\ c.s.status = "ok"
    BY DEF Calls, Image, Ok, n
<1>2. s0 \in Image /\ s1 \in Image /\ s0.status = "ok" /\ s1.status = "ok"
    BY <1>1 DEF Image, s0, s1
<1>3. c0 \in Calls /\ c0.s = s0
    BY <1>1, <1>2, GoingIsCall DEF c0
<1>4. /\ c1 \in Calls /\ c1.s.status \in {"ok", "MemoryError"}
      /\ Ok(c1) => c1.s = s1
      /\ ~ Ok(c1) => c1.s = [s0 EXCEPT !.status = "MemoryError"]
    BY <1>2, <1>3, ReallocTyped DEF Ok, Image, c1
<1>5. c1.s \in Image
    BY <1>4 DEF Calls
<1>6. [c1.s EXCEPT !.ninfo = n] \in Image /\ [c1.s EXCEPT !.ninfo = n].status = c1.s.status
    BY <1>1, <1>5 DEF Image
<1>7. /\ c2 \in Calls /\ c2.s.status \in {"ok", "MemoryError"}
      /\ ~ Ok(c1) => c2 = c1
      /\ Ok(c2) => Ok(c1) /\ c2.s = [c1.s EXCEPT !.ninfo = n]
      /\ Ok(c1) /\ ~ Ok(c2) => c2.s = [c1.s EXCEPT !.status = "MemoryError"]
    BY <1>4, <1>5, <1>6, ReallocTyped DEF Ok, Image, c2
<1>8. c2.s \in Image
    BY <1>7 DEF Calls
<1>9. [c2.s EXCEPT !.block = n] \in Image /\ [c2.s EXCEPT !.block = n].status = c2.s.status
    BY <1>1, <1>8 DEF Image
<1>10. /\ c3 \in Calls /\ c3.s.status \in {"ok", "MemoryError"}
       /\ ~ Ok(c2) => c3 = c2
       /\ Ok(c3) => Ok(c2) /\ c3.s = [c2.s EXCEPT !.block = n]
       /\ Ok(c2) /\ ~ Ok(c3) => c3.s = [c2.s EXCEPT !.status = "MemoryError"]
    BY <1>7, <1>8, <1>9, ReallocTyped DEF Ok, Image, c3
<1>11. c3 = Doubled(c)
    BY DEF Doubled, n, s0, s1, c0, c1, c2, c3
<1>12. c1.s.array \in {c.s.array, n} /\ c1.s.block = c.s.block
    BY <1>1, <1>2, <1>4 DEF Image, s0, s1
<1>13. c2.s.array \in {c.s.array, n} /\ c2.s.block = c.s.block
    BY <1>5, <1>7, <1>12 DEF Image
<1>14. c3.s.array \in {c.s.array, n} /\ c3.s.block \in {c.s.block, n}
    BY <1>1, <1>8, <1>10, <1>13 DEF Image
<1>15. Ok(c3) => c3.s = [c.s EXCEPT !.capacity = n, !.array = n, !.ninfo = n, !.block = n]
    BY <1>1, <1>4, <1>7, <1>10 DEF Image, s1
<1> QED BY <1>10, <1>11, <1>14, <1>15 DEF n

LEMMA AppendedTyped ==
    ASSUME NEW c \in Calls
    PROVE  /\ Typed(c) => Typed(Appended(c))
           /\ ~ Ok(c) => Appended(c) = c
           /\ Ok(c) /\ c.s.size < c.s.array /\ c.s.size < c.s.ninfo /\ c.s.size < c.s.block
                => Appended(c).s = [c.s EXCEPT !.size = @ + 1] /\ Appended(c) \in Calls
           /\ Ok(Appended(c)) => Appended(c).s.block # 0
BY SMTT(60) DEF Appended, Needs, Then, Typed, Going, Ended, Ok, Calls, Image, Statuses

LEMMA AddBlockTyped ==
    ASSUME NEW c, Typed(c)
    PROVE  Typed(_add_block(c)) /\ (Ok(c) /\ Ok(_add_block(c)) => _add_block(c).s.block # 0)
<1>1. CASE ~ Ok(c)
    BY <1>1 DEF _add_block
<1>2. CASE Ok(c)
    <2>1. PICK d : _add_block(c) = Appended(d) /\ d \in {c, Doubled(c)}
        BY <1>2 DEF _add_block
    <2>2. Typed(d)
        BY <1>2, <2>1, DoubledTyped DEF Typed
    <2> QED BY <2>1, <2>2, AppendedTyped DEF Typed
<1> QED BY <1>1, <1>2

LEMMA AddBlockSafe == ASSUME NEW c, Safe(c) PROVE Safe(_add_block(c))
<1>1. CASE ~ Ok(c)
    BY <1>1 DEF _add_block
<1>2. CASE Ok(c) /\ c.s.size = c.s.capacity
    <2> DEFINE d == Doubled(c)
    <2>1. c \in Calls /\ Ready(c.s) /\ c.s.array # 0 /\ c.s.block # 0
        BY <1>2 DEF Safe
    <2>2. _add_block(c) = Appended(d)
        BY <1>2 DEF _add_block
    <2>3. d \in Calls /\ d.s.status \in {"ok", "MemoryError"} /\ d.s.array # 0 /\ d.s.block # 0
        <3>1. 2 * c.s.capacity # 0
            BY <2>1 DEF Ready, Calls, Image
        <3> QED BY <1>2, <2>1, <3>1, DoubledTyped
    <2>4. CASE ~ Ok(d)
        BY <2>2, <2>3, <2>4, AppendedTyped DEF Safe
    <2>5. CASE Ok(d)
        <3>1. d.s = [c.s EXCEPT !.capacity = 2 * c.s.capacity, !.array = 2 * c.s.capacity,
                                !.ninfo = 2 * c.s.capacity, !.block = 2 * c.s.capacity]
            BY <1>2, <2>1, <2>5, DoubledTyped
        <3>2. d.s.size < d.s.array /\ d.s.size < d.s.ninfo /\ d.s.size < d.s.block
            BY <1>2, <2>1, <3>1 DEF Ready, Calls, Image
        <3>3. Appended(d).s = [d.s EXCEPT !.size = @ + 1] /\ Appended(d) \in Calls
            BY <2>3, <2>5, <3>2, AppendedTyped
        <3>4. Ready(Appended(d).s)
            <4>1. c.s \in Image /\ Appended(d).s \in Image
                BY <2>1, <3>3 DEF Calls
            <4>2. Asked(Appended(d).s) = Asked(c.s)
                <5>1. /\ Appended(d).s.places = c.s.places /\ Appended(d).s.length = c.s.length
                      /\ c.s.length \in Nat
                    BY <3>1, <3>3, <4>1 DEF Image
                <5> QED BY <4>1, <5>1, AskedMoves, AskedBounds
            <4> QED BY <1>2, <2>1, <3>1, <3>3, <4>2 DEF Ready, Calls, Image
        <3>5. Appended(d).s.array # 0 /\ Appended(d).s.block # 0 /\ Appended(d).s.status = "ok"
            BY <2>3, <2>5, <3>3 DEF Ok, Calls, Image
        <3> QED BY <2>2, <3>3, <3>4, <3>5 DEF Safe
    <2> QED BY <2>4, <2>5
<1>3. CASE Ok(c) /\ c.s.size # c.s.capacity
    <2>1. c \in Calls /\ Ready(c.s) /\ c.s.array # 0 /\ c.s.block # 0 /\ _add_block(c) = Appended(c)
        BY <1>3 DEF Safe, _add_block
    <2>2. Appended(c).s = [c.s EXCEPT !.size = @ + 1] /\ Appended(c) \in Calls
        BY <1>3, <2>1, AppendedTyped DEF Ready, Calls, Image
    <2>3. Ready(Appended(c).s)
        <3>1. c.s \in Image /\ Appended(c).s \in Image
            BY <2>1, <2>2 DEF Calls
        <3>2. Asked(Appended(c).s) = Asked(c.s)
            <4>1. /\ Appended(c).s.places = c.s.places /\ Appended(c).s.length = c.s.length
                  /\ c.s.length \in Nat
                BY <2>2, <3>1 DEF Image
            <4> QED BY <3>1, <4>1, AskedMoves, AskedBounds
        <3> QED BY <1>3, <2>1, <2>2, <3>2 DEF Ready, Calls, Image
    <2>4. Appended(c).s.array # 0 /\ Appended(c).s.block # 0 /\ Appended(c).s.status = "ok"
        BY <1>3, <2>1, <2>2 DEF Ok, Calls, Image
    <2> QED BY <2>1, <2>2, <2>3, <2>4 DEF Safe
<1> QED BY <1>1, <1>2, <1>3
-----------------------------------------------------------------------------
(* Places for empty suffixes.                                              *)

LEMMA CountedTyped ==
    ASSUME NEW c \in Calls
    PROVE  /\ Counted(c) \in Calls
           /\ Counted(c).s = [c.s EXCEPT !.places = @ + 1, !.lost = @ \cup {c.s.places + 1}]
<1> DEFINE s == [c.s EXCEPT !.places = @ + 1, !.lost = @ \cup {c.s.places + 1}]
<1>1. c.s \in Image /\ c.left \in Nat
    BY DEF Calls
<1>2. c.s.places + 1 \in Nat /\ c.s.lost \cup {c.s.places + 1} \in SUBSET Nat
    BY <1>1 DEF Image
<1>3. s \in Image
    BY <1>1, <1>2 DEF Image
<1> QED BY <1>1, <1>3, GoingIsCall DEF Counted

LEMMA WidenedTyped ==
    ASSUME NEW c \in Calls, Ok(c)
    PROVE  /\ Widened(c) \in Calls
           /\ Widened(c).s.status \in {"ok", "MemoryError"}
           /\ Widened(c).s.array = c.s.array /\ Widened(c).s.block = c.s.block
           /\ Ok(Widened(c)) =>
                \/ c.s.quota0 # c.s.places /\ Widened(c).s = c.s
                \/ c.s.quota0 = c.s.places
                   /\ Widened(c).s = [c.s EXCEPT !.quota0 = 2 * c.s.quota0,
                                                 !.tail0 = 2 * c.s.quota0]
<1> DEFINE n  == 2 * c.s.quota0
           s0 == [c.s EXCEPT !.quota0 = n]
           s1 == [c.s EXCEPT !.quota0 = n, !.tail0 = n]
           c0 == Going(s0, c.left)
           c1 == Realloc(c0, s1)
<1> HIDE DEF n, s0, s1, c0, c1
<1>1. n \in Nat /\ c.s \in Image /\ c.left \in Nat /\ c.s.status = "ok"
    BY DEF Calls, Image, Ok, n
<1>2. s0 \in Image /\ s1 \in Image /\ s0.status = "ok" /\ s1.status = "ok"
    BY <1>1 DEF Image, s0, s1
<1>3. c0 \in Calls /\ c0.s = s0
    BY <1>1, <1>2, GoingIsCall DEF c0
<1>4. /\ c1 \in Calls /\ c1.s.status \in {"ok", "MemoryError"}
      /\ Ok(c1) => c1.s = s1
      /\ ~ Ok(c1) => c1.s = [s0 EXCEPT !.status = "MemoryError"]
    BY <1>2, <1>3, ReallocTyped DEF Ok, Image, c1
<1>5. c1.s.array = c.s.array /\ c1.s.block = c.s.block
    BY <1>1, <1>2, <1>4 DEF Image, s0, s1
<1>6. Widened(c) = IF c.s.quota0 # c.s.places THEN c ELSE c1
    BY DEF Widened, c1, c0, s0, s1, n
<1>7. CASE c.s.quota0 # c.s.places
    BY <1>1, <1>6, <1>7
<1>8. CASE c.s.quota0 = c.s.places
    BY <1>4, <1>5, <1>6, <1>8 DEF s1, n
<1> QED BY <1>7, <1>8

LEMMA WrittenTyped ==
    ASSUME NEW c \in Calls
    PROVE  /\ Typed(c) => Typed(Written(c))
           /\ ~ Ok(c) => Written(c) = c
           /\ Written(c).s.block = c.s.block
           /\ Ok(c) /\ c.s.places < c.s.tail0 =>
                Written(c) \in Calls /\ Written(c).s = [c.s EXCEPT !.lost = @ \ {c.s.places}]
<1> DEFINE d == Needs(c, c.s.places < c.s.tail0)
           t == [d.s EXCEPT !.lost = @ \ {d.s.places}]
<1> HIDE DEF d, t
<1>1. (c.s.places < c.s.tail0) \in BOOLEAN
    OBVIOUS
<1>2. /\ d \in Calls /\ (Typed(c) => Typed(d)) /\ (~ Ok(c) => d = c) /\ d.s.block = c.s.block
      /\ (Ok(c) /\ c.s.places < c.s.tail0 => d = c)
    BY <1>1, NeedsTyped DEF d, Typed
<1>3. t \in Image /\ t.status = d.s.status /\ t.block = d.s.block
    BY <1>2 DEF Calls, Image, t
<1>4. Written(c) = Then(d, t)
    BY DEF Written, d, t
<1>5. Then(d, t) \in Calls /\ (~ Ok(d) => Then(d, t) = d) /\ (Ok(d) => Then(d, t).s = t)
    BY <1>2, <1>3, ThenTyped
<1>6. CASE Ok(d)
    BY <1>2, <1>3, <1>4, <1>5, <1>6 DEF Typed, t, Ok
<1>7. CASE ~ Ok(d)
    BY <1>2, <1>4, <1>5, <1>7 DEF Typed
<1> QED BY <1>6, <1>7

LEMMA PushPlaceTyped ==
    ASSUME NEW c, Typed(c)
    PROVE  Typed(PushPlace(c)) /\ PushPlace(c).s.block = c.s.block
<1>1. CASE ~ Ok(c)
    BY <1>1 DEF PushPlace
<1>2. CASE Ok(c)
    <2>0. c \in Calls /\ c.s \in Image /\ c.s.status = "ok"
        BY <1>2 DEF Typed, Calls, Ok
    <2>1. Counted(c) \in Calls /\ Ok(Counted(c)) /\ Counted(c).s.block = c.s.block
        BY <2>0, CountedTyped DEF Ok, Image
    <2>2. Typed(Widened(Counted(c))) /\ Widened(Counted(c)).s.block = c.s.block
        BY <2>1, WidenedTyped DEF Typed
    <2> QED BY <1>2, <2>2, WrittenTyped DEF PushPlace, Typed
<1> QED BY <1>1, <1>2

LEMMA PushPlaceSafe ==
    ASSUME NEW c, Safe(c), Ok(c) => Header + 1 + ValueCells <= Asked(c.s)
    PROVE  Safe(PushPlace(c))
<1>1. CASE ~ Ok(c)
    BY <1>1 DEF PushPlace
<1>2. CASE Ok(c)
    <2> DEFINE d == Counted(c)
               e == Widened(d)
    <2> HIDE DEF d, e
    <2>1. c \in Calls /\ Ready(c.s) /\ c.s.array # 0 /\ c.s.block # 0 /\ c.s.status = "ok"
        BY <1>2 DEF Safe, Ok
    <2>2. d \in Calls /\ d.s = [c.s EXCEPT !.places = @ + 1, !.lost = @ \cup {c.s.places + 1}]
        BY <2>1, CountedTyped DEF d
    <2>3. /\ Ok(d) /\ d.s.array # 0 /\ d.s.block # 0
          /\ d.s.places <= d.s.quota0 /\ d.s.quota0 <= d.s.tail0 /\ d.s.places \in Nat \ {0}
          /\ d.s.lost = {d.s.places}
        BY <2>1, <2>2 DEF Ok, Calls, Image, Ready
    <2>4. /\ e \in Calls /\ e.s.status \in {"ok", "MemoryError"} /\ e.s.array # 0 /\ e.s.block # 0
          /\ Ok(e) => \/ d.s.quota0 # d.s.places /\ e.s = d.s
                      \/ d.s.quota0 = d.s.places
                         /\ e.s = [d.s EXCEPT !.quota0 = 2 * d.s.quota0, !.tail0 = 2 * d.s.quota0]
        BY <2>2, <2>3, WidenedTyped DEF e
    <2>5. PushPlace(c) = Written(e)
        BY <1>2 DEF PushPlace, d, e
    <2>6. CASE ~ Ok(e)
        BY <2>4, <2>5, <2>6, WrittenTyped DEF Safe
    <2>7. CASE Ok(e)
        <3>0. c.s \in Image /\ d.s \in Image /\ e.s \in Image
            BY <2>1, <2>2, <2>4 DEF Calls
        <3>1. e.s.places < e.s.tail0 /\ e.s.places < e.s.quota0 /\ e.s.quota0 <= e.s.tail0
            <4>1. CASE d.s.quota0 # d.s.places
                BY <2>3, <2>4, <2>7, <3>0, <4>1 DEF Image
            <4>2. CASE d.s.quota0 = d.s.places
                <5>1. e.s = [d.s EXCEPT !.quota0 = 2 * d.s.quota0, !.tail0 = 2 * d.s.quota0]
                    BY <2>4, <2>7, <4>2
                <5>2. e.s.places = d.s.places /\ e.s.quota0 = 2 * d.s.quota0 /\ e.s.tail0 = 2 * d.s.quota0
                    BY <3>0, <5>1 DEF Image
                <5> QED BY <2>3, <3>0, <4>2, <5>2 DEF Image
            <4> QED BY <4>1, <4>2
        <3>2. Written(e) \in Calls /\ Written(e).s = [e.s EXCEPT !.lost = @ \ {e.s.places}]
            BY <2>4, <2>7, <3>1, WrittenTyped
        <3>3. e.s.lost = {e.s.places}
            BY <2>3, <2>4, <2>7, <3>0 DEF Image
        <3>4. /\ e.s.root = c.s.root /\ e.s.size = c.s.size /\ e.s.capacity = c.s.capacity
              /\ e.s.array = c.s.array /\ e.s.ninfo = c.s.ninfo /\ e.s.block = c.s.block
              /\ e.s.length = c.s.length /\ e.s.quota = c.s.quota /\ e.s.tail = c.s.tail
              /\ e.s.torn = c.s.torn /\ e.s.places = c.s.places + 1
            <4>1. /\ d.s.root = c.s.root /\ d.s.size = c.s.size /\ d.s.capacity = c.s.capacity
                  /\ d.s.array = c.s.array /\ d.s.ninfo = c.s.ninfo /\ d.s.block = c.s.block
                  /\ d.s.length = c.s.length /\ d.s.quota = c.s.quota /\ d.s.tail = c.s.tail
                  /\ d.s.torn = c.s.torn /\ d.s.places = c.s.places + 1
                BY <2>2, <3>0 DEF Image
            <4>2. CASE d.s.quota0 # d.s.places
                BY <2>4, <2>7, <4>1, <4>2
            <4>3. CASE d.s.quota0 = d.s.places
                <5>1. e.s = [d.s EXCEPT !.quota0 = 2 * d.s.quota0, !.tail0 = 2 * d.s.quota0]
                    BY <2>4, <2>7, <4>3
                <5>2. /\ e.s.root = d.s.root /\ e.s.size = d.s.size /\ e.s.capacity = d.s.capacity
                      /\ e.s.array = d.s.array /\ e.s.ninfo = d.s.ninfo /\ e.s.block = d.s.block
                      /\ e.s.length = d.s.length /\ e.s.quota = d.s.quota /\ e.s.tail = d.s.tail
                      /\ e.s.torn = d.s.torn /\ e.s.places = d.s.places
                    BY <3>0, <5>1 DEF Image
                <5> QED BY <4>1, <5>2
            <4> QED BY <4>2, <4>3
        <3>5. Ready(Written(e).s)
            <4> DEFINE w == Written(e).s
            <4> HIDE DEF w
            <4>1. /\ w \in Image /\ w.lost = {} /\ w.root = c.s.root /\ w.torn = c.s.torn
                  /\ w.size = c.s.size /\ w.capacity = c.s.capacity /\ w.array = c.s.array
                  /\ w.ninfo = c.s.ninfo /\ w.block = c.s.block /\ w.length = c.s.length
                  /\ w.quota = c.s.quota /\ w.tail = c.s.tail /\ w.places = c.s.places + 1
                  /\ w.places = e.s.places /\ w.quota0 = e.s.quota0 /\ w.tail0 = e.s.tail0
                BY <3>0, <3>2, <3>3, <3>4 DEF Calls, Image, w
            <4>2. Header <= Asked(w)
                <5>1. Asked(w) = Asked(c.s) - (1 + ValueCells) /\ Asked(c.s) \in Int
                    BY <3>0, <4>1, AskedMoves, AskedBounds
                <5>2. Header + 1 + ValueCells <= Asked(c.s) /\ Header \in Nat /\ ValueCells \in Nat
                    BY <1>2, ImageAssumption
                <5> QED BY <5>1, <5>2
            <4> QED BY <2>1, <3>1, <4>1, <4>2 DEF Ready, w
        <3> QED BY <2>4, <2>5, <2>7, <3>2, <3>5 DEF Safe, Ok, Calls, Image
    <2> QED BY <2>6, <2>7
<1> QED BY <1>1, <1>2
-----------------------------------------------------------------------------
(* The tail.                                                               *)

LEMMA ReusePlaceTyped ==
    ASSUME NEW c, c \in Calls, Typed(c), Ok(c), c.s.places # 0
    PROVE  /\ Typed(ReusePlace(c))
           /\ c.s.places < c.s.tail0 /\ c.s.lost = {} =>
                ReusePlace(c).s = [c.s EXCEPT !.places = @ - 1]
<1> DEFINE there == c.s.places < c.s.tail0 /\ c.s.places \notin c.s.lost
           d == Needs(c, there)
           t == [d.s EXCEPT !.places = @ - 1]
<1> HIDE DEF there, d, t
<1>1. there \in BOOLEAN
    BY DEF there
<1>2. /\ d \in Calls /\ Typed(d)
      /\ (Ok(d) => d = c)
      /\ (c.s.places < c.s.tail0 /\ c.s.lost = {} => d = c)
    BY <1>1, NeedsTyped DEF d, Typed, there
<1>3. ReusePlace(c) = Then(d, t)
    BY DEF ReusePlace, d, t, there
<1>4. CASE Ok(d)
    <2>1. d.s \in Image /\ d.s.places - 1 \in Nat
        BY <1>2, <1>4 DEF Calls, Image
    <2>2. t \in Image /\ t.status = d.s.status
        BY <2>1 DEF Image, t
    <2>3. Then(d, t) \in Calls /\ Then(d, t).s = t
        BY <1>2, <1>4, <2>2, ThenTyped
    <2> QED BY <1>2, <1>3, <1>4, <2>2, <2>3 DEF Typed, t
<1>5. CASE ~ Ok(d)
    BY <1>2, <1>3, <1>5 DEF Then
<1> QED BY <1>4, <1>5

LEMMA QuotaGrows ==
    ASSUME NEW s \in Image, NEW needed \in Nat
    PROVE  Quota(s, needed) \in Nat /\ s.quota <= Quota(s, needed)
           /\ s.quota + needed <= Quota(s, needed)
BY DEF Quota, Image

LEMMA LengthenedTyped ==
    ASSUME NEW c \in Calls, Ok(c), NEW needed \in Nat
    PROVE  /\ Lengthened(c, needed) \in Calls
           /\ Lengthened(c, needed).s.status \in {"ok", "MemoryError"}
           /\ Lengthened(c, needed).s.array = c.s.array
           /\ Lengthened(c, needed).s.block = c.s.block
           /\ Ok(Lengthened(c, needed)) =>
                \/ c.s.length + needed <= c.s.quota /\ Lengthened(c, needed).s = c.s
                \/ Lengthened(c, needed).s =
                     [c.s EXCEPT !.quota = Quota(c.s, needed), !.tail = Quota(c.s, needed)]
<1> DEFINE n  == Quota(c.s, needed)
           s0 == [c.s EXCEPT !.quota = n]
           s1 == [c.s EXCEPT !.quota = n, !.tail = n]
           c0 == Going(s0, c.left)
           c1 == Realloc(c0, s1)
<1> HIDE DEF n, s0, s1, c0, c1
<1>0. c.s \in Image /\ c.left \in Nat /\ c.s.status = "ok"
    BY DEF Calls, Ok
<1>1. n \in Nat
    BY <1>0, QuotaGrows DEF n
<1>2. s0 \in Image /\ s1 \in Image /\ s0.status = "ok" /\ s1.status = "ok"
    BY <1>0, <1>1 DEF Image, s0, s1
<1>3. c0 \in Calls /\ c0.s = s0
    BY <1>0, <1>2, GoingIsCall DEF c0
<1>4. /\ c1 \in Calls /\ c1.s.status \in {"ok", "MemoryError"}
      /\ Ok(c1) => c1.s = s1
      /\ ~ Ok(c1) => c1.s = [s0 EXCEPT !.status = "MemoryError"]
    BY <1>2, <1>3, ReallocTyped DEF Ok, Image, c1
<1>5. c1.s.array = c.s.array /\ c1.s.block = c.s.block
    BY <1>0, <1>2, <1>4 DEF Image, s0, s1
<1>6. Lengthened(c, needed) = IF c.s.quota >= c.s.length + needed THEN c ELSE c1
    BY DEF Lengthened, c1, c0, s0, s1, n
<1>7. CASE c.s.quota >= c.s.length + needed
    BY <1>0, <1>6, <1>7 DEF Image
<1>8. CASE ~ (c.s.quota >= c.s.length + needed)
    BY <1>4, <1>5, <1>6, <1>8 DEF s1, n
<1> QED BY <1>7, <1>8

LEMMA StoredTyped ==
    ASSUME NEW c \in Calls, Typed(c), NEW needed \in Nat
    PROVE  /\ Typed(Stored(c, needed))
           /\ ~ Ok(c) => Stored(c, needed) = c
           /\ Ok(c) /\ c.s.length + needed <= c.s.tail =>
                Stored(c, needed).s = [c.s EXCEPT !.length = @ + needed]
<1> DEFINE d == Needs(c, c.s.length + needed <= c.s.tail)
           t == [d.s EXCEPT !.length = @ + needed]
<1> HIDE DEF d, t
<1>1. (c.s.length + needed <= c.s.tail) \in BOOLEAN
    OBVIOUS
<1>2. /\ d \in Calls /\ Typed(d) /\ (~ Ok(c) => d = c)
      /\ (Ok(c) /\ c.s.length + needed <= c.s.tail => d = c)
    BY <1>1, NeedsTyped DEF d, Typed
<1>3. d.s \in Image /\ d.s.length + needed \in Nat
    BY <1>2 DEF Calls, Image
<1>4. t \in Image /\ t.status = d.s.status
    BY <1>3 DEF Image, t
<1>5. Stored(c, needed) = Then(d, t)
    BY DEF Stored, d, t
<1>6. Then(d, t) \in Calls /\ (~ Ok(d) => Then(d, t) = d) /\ (Ok(d) => Then(d, t).s = t)
    BY <1>2, <1>4, ThenTyped
<1>7. CASE Ok(d)
    BY <1>2, <1>4, <1>5, <1>6, <1>7 DEF Typed, t, Ok
<1>8. CASE ~ Ok(d)
    BY <1>2, <1>5, <1>6, <1>8 DEF Typed
<1> QED BY <1>7, <1>8

LEMMA GrowTailTyped ==
    ASSUME NEW c, Typed(c), NEW needed \in Nat
    PROVE  Typed(GrowTail(c, needed))
<1>1. CASE ~ Ok(c)
    BY <1>1 DEF GrowTail
<1>2. CASE Ok(c)
    <2>1. Typed(Lengthened(c, needed))
        BY <1>2, LengthenedTyped DEF Typed
    <2> QED BY <1>2, <2>1, StoredTyped DEF GrowTail, Typed
<1> QED BY <1>1, <1>2

LEMMA GrowTailSafe ==
    ASSUME NEW c, Safe(c), NEW needed \in Nat
    PROVE  Safe(GrowTail(c, needed))
<1>1. CASE ~ Ok(c)
    BY <1>1 DEF GrowTail
<1>2. CASE Ok(c)
    <2> DEFINE d == Lengthened(c, needed)
    <2> HIDE DEF d
    <2>1. c \in Calls /\ c.s \in Image /\ Ready(c.s) /\ c.s.array # 0 /\ c.s.block # 0
        BY <1>2 DEF Safe, Calls
    <2>2. /\ d \in Calls /\ d.s.status \in {"ok", "MemoryError"}
          /\ d.s.array = c.s.array /\ d.s.block = c.s.block
          /\ Ok(d) => \/ c.s.length + needed <= c.s.quota /\ d.s = c.s
                      \/ d.s = [c.s EXCEPT !.quota = Quota(c.s, needed), !.tail = Quota(c.s, needed)]
        BY <1>2, <2>1, LengthenedTyped DEF d
    <2>3. GrowTail(c, needed) = Stored(d, needed)
        BY <1>2 DEF GrowTail, d
    <2>4. Typed(d) /\ Typed(Stored(d, needed))
        BY <2>2, StoredTyped DEF Typed
    <2>5. CASE ~ Ok(d)
        BY <2>1, <2>2, <2>3, <2>4, <2>5, StoredTyped DEF Safe
    <2>6. CASE Ok(d)
        <3>1. d.s \in Image /\ d.s.status = "ok"
            BY <2>2, <2>6 DEF Calls, Ok
        <3>2. /\ d.s.length + needed <= d.s.quota /\ d.s.quota <= d.s.tail /\ Ready(d.s)
            <4>1. CASE c.s.length + needed <= c.s.quota /\ d.s = c.s
                BY <2>1, <4>1 DEF Ready
            <4>2. CASE d.s = [c.s EXCEPT !.quota = Quota(c.s, needed), !.tail = Quota(c.s, needed)]
                <5>1. /\ d.s.quota = Quota(c.s, needed) /\ d.s.tail = Quota(c.s, needed)
                      /\ d.s.root = c.s.root /\ d.s.torn = c.s.torn
                      /\ d.s.lost = c.s.lost /\ d.s.size = c.s.size
                      /\ d.s.capacity = c.s.capacity /\ d.s.array = c.s.array
                      /\ d.s.ninfo = c.s.ninfo /\ d.s.block = c.s.block /\ d.s.length = c.s.length
                      /\ d.s.places = c.s.places /\ d.s.quota0 = c.s.quota0 /\ d.s.tail0 = c.s.tail0
                    BY <2>1, <4>2 DEF Image
                <5>2. d.s.length + needed <= d.s.quota /\ d.s.length <= d.s.quota
                    <6>1. c.s.length <= c.s.quota /\ c.s.length \in Nat /\ c.s.quota \in Nat
                        BY <2>1 DEF Ready, Image
                    <6> QED BY <2>1, <5>1, <6>1, QuotaGrows
                <5>3. d.s.quota <= d.s.tail
                    BY <2>1, <5>1, QuotaGrows
                <5>4. Asked(d.s) = Asked(c.s)
                    BY <2>1, <5>1 DEF Asked
                <5> QED BY <2>1, <5>1, <5>2, <5>3, <5>4 DEF Ready
            <4> QED BY <2>2, <2>6, <4>1, <4>2
        <3>3. d.s.length + needed <= d.s.tail
            BY <3>1, <3>2 DEF Image
        <3>4. Stored(d, needed).s = [d.s EXCEPT !.length = @ + needed]
            BY <2>2, <2>4, <2>6, <3>3, StoredTyped
        <3>5. Ready(Stored(d, needed).s)
            <4> DEFINE e == Stored(d, needed).s
            <4> HIDE DEF e
            <4>1. /\ e.length = d.s.length + needed /\ e.quota = d.s.quota /\ e.tail = d.s.tail
                  /\ e.root = d.s.root /\ e.torn = d.s.torn
                  /\ e.lost = d.s.lost /\ e.size = d.s.size
                  /\ e.capacity = d.s.capacity /\ e.array = d.s.array
                  /\ e.ninfo = d.s.ninfo /\ e.block = d.s.block
                  /\ e.places = d.s.places /\ e.quota0 = d.s.quota0 /\ e.tail0 = d.s.tail0
                BY <3>1, <3>4 DEF Image, e
            <4>2. Header <= Asked(e)
                <5>1. Header <= Asked(d.s) /\ Header \in Nat /\ d.s.length \in Nat
                    BY <3>1, <3>2, ImageAssumption DEF Ready, Image
                <5>2. e \in Image
                    BY <2>4 DEF Typed, Calls, e
                <5>3. Asked(e) - Asked(d.s) = e.length - d.s.length
                    BY <3>1, <4>1, <5>2, AskedMoves
                <5>4. Asked(e) \in Int /\ Asked(d.s) \in Int
                    BY <3>1, <5>2, AskedBounds
                <5> QED BY <4>1, <5>1, <5>3, <5>4
            <4> QED BY <3>2, <4>1, <4>2 DEF Ready, e
        <3>6. /\ Stored(d, needed).s.status = "ok"
              /\ Stored(d, needed).s.array = d.s.array /\ Stored(d, needed).s.block = d.s.block
            BY <3>1, <3>4 DEF Image
        <3> QED BY <2>1, <2>2, <2>3, <2>4, <3>5, <3>6 DEF Safe, Typed
    <2> QED BY <2>5, <2>6
<1> QED BY <1>1, <1>2

LEMMA AddSuffixKept ==
    ASSUME NEW c, NEW rest \in -1 .. MaxRest
    PROVE  /\ Typed(c) => Typed(AddSuffix(c, rest))
           /\ Safe(c) => Safe(AddSuffix(c, rest))
<1>1. CASE ~ Ok(c) \/ rest = -1
    BY <1>1 DEF AddSuffix
<1>2. CASE Ok(c) /\ rest = 0 /\ c.s.places # 0
    <2>1. AddSuffix(c, rest) = ReusePlace(c)
        BY <1>2 DEF AddSuffix
    <2>2. Typed(c) => Typed(ReusePlace(c))
        BY <1>2, ReusePlaceTyped DEF Typed
    <2>3. ASSUME Safe(c) PROVE Safe(ReusePlace(c))
        <3>1. c \in Calls /\ c.s \in Image /\ Ready(c.s) /\ Typed(c) /\ c.s.array # 0 /\ c.s.block # 0
            BY <1>2, <2>3 DEF Safe, Typed, Calls
        <3>2. c.s.places < c.s.tail0 /\ c.s.lost = {}
            BY <3>1 DEF Ready, Image
        <3>3. ReusePlace(c).s = [c.s EXCEPT !.places = @ - 1] /\ Typed(ReusePlace(c))
            BY <1>2, <3>1, <3>2, ReusePlaceTyped
        <3>4. Ready(ReusePlace(c).s)
            <4> DEFINE w == ReusePlace(c).s
            <4> HIDE DEF w
            <4>1. /\ w \in Image /\ w.lost = c.s.lost /\ w.root = c.s.root /\ w.torn = c.s.torn
                  /\ w.size = c.s.size /\ w.capacity = c.s.capacity /\ w.array = c.s.array
                  /\ w.ninfo = c.s.ninfo /\ w.block = c.s.block /\ w.length = c.s.length
                  /\ w.quota = c.s.quota /\ w.tail = c.s.tail
                  /\ w.places = c.s.places - 1 /\ w.quota0 = c.s.quota0 /\ w.tail0 = c.s.tail0
                  /\ c.s.places \in Nat \ {0} /\ c.s.quota0 \in Nat
                BY <1>2, <3>1, <3>3 DEF Typed, Calls, Image, w
            <4>2. Header <= Asked(w)
                <5>1. Asked(c.s) = Asked(w) - (1 + ValueCells)
                    BY <3>1, <4>1, AskedMoves
                <5>2. Asked(w) \in Int /\ Asked(c.s) \in Int
                    BY <3>1, <4>1, AskedBounds
                <5>3. Header <= Asked(c.s) /\ Header \in Nat /\ ValueCells \in Nat
                    BY <3>1, ImageAssumption DEF Ready
                <5> QED BY <5>1, <5>2, <5>3
            <4> QED BY <3>1, <4>1, <4>2 DEF Ready, w
        <3>5. /\ ReusePlace(c).s.array = c.s.array /\ ReusePlace(c).s.block = c.s.block
              /\ ReusePlace(c).s.status = c.s.status
            BY <3>1, <3>3 DEF Image
        <3> QED BY <1>2, <3>1, <3>3, <3>4, <3>5 DEF Safe, Typed, Ok
    <2> QED BY <2>1, <2>2, <2>3
<1>3. CASE Ok(c) /\ rest # -1 /\ ~ (rest = 0 /\ c.s.places # 0)
    <2>1. rest + 1 + ValueCells \in Nat
        BY <1>3, ImageAssumption
    <2>2. AddSuffix(c, rest) = GrowTail(c, rest + 1 + ValueCells)
        BY <1>3 DEF AddSuffix
    <2> QED BY <2>1, <2>2, GrowTailTyped, GrowTailSafe
<1> QED BY <1>1, <1>2, <1>3

-----------------------------------------------------------------------------
(* Construction, restoration and opening.                                  *)

\* What an allocation leaves, granted or not.
LEMMA ReallocKeeps ==
    ASSUME NEW c \in Calls, NEW t \in Image, t.status = c.s.status,
           c.s.status \in {"ok", "MemoryError"},
           t.size = c.s.size, t.lost = c.s.lost, t.places = c.s.places, t.torn = c.s.torn
    PROVE  /\ Realloc(c, t) \in Calls /\ Realloc(c, t).s \in Image
           /\ Realloc(c, t).s.status \in {"ok", "MemoryError"}
           /\ Realloc(c, t).s.size = c.s.size /\ Realloc(c, t).s.lost = c.s.lost
           /\ Realloc(c, t).s.places = c.s.places /\ Realloc(c, t).s.torn = c.s.torn
           /\ Ok(Realloc(c, t)) => Ok(c) /\ Realloc(c, t).s = t
           /\ Ok(c) /\ c.left # 0 => Ok(Realloc(c, t)) /\ Realloc(c, t).left = c.left - 1
<1> DEFINE d == Realloc(c, t)
<1> HIDE DEF d
<1>1. /\ d \in Calls
      /\ ~ Ok(c) => d = c
      /\ Ok(d) => Ok(c) /\ d.s = t
      /\ Ok(c) /\ ~ Ok(d) => d.s = [c.s EXCEPT !.status = "MemoryError"]
    BY ReallocTyped DEF d
<1>2. c.s \in Image /\ d.s \in Image
    BY <1>1 DEF Calls
<1>3. CASE Ok(c) /\ ~ Ok(d)
    <2>1. /\ d.s.status = "MemoryError"
          /\ d.s.size = c.s.size /\ d.s.lost = c.s.lost /\ d.s.places = c.s.places
          /\ d.s.torn = c.s.torn
        BY <1>1, <1>2, <1>3 DEF Image
    <2>2. c.left = 0
        BY <1>3 DEF d, Realloc, Going, Ok
    <2> QED BY <1>1, <1>2, <1>3, <2>1, <2>2 DEF d
<1>4. CASE Ok(c) /\ Ok(d)
    <2>1. c.left # 0 => d.left = c.left - 1
        BY <1>4 DEF d, Realloc, Going, Ok
    <2> QED BY <1>1, <1>2, <1>4, <2>1 DEF d
<1>5. CASE ~ Ok(c)
    BY <1>1, <1>2, <1>5 DEF d
<1> QED BY <1>3, <1>4, <1>5

LEMMA InitializeTyped ==
    ASSUME NEW n \in Nat
    PROVE  LET e == _initialize(Going(Null("ok"), n))
           IN  /\ e \in Calls /\ e.s.status \in {"ok", "MemoryError"}
               /\ Ok(e) => Ready(e.s) /\ e.s.array # 0 /\ e.s.block # 0
               /\ ~ Ok(e) => e.s.size = 0
               /\ n = 5 => Ok(e)
<1> DEFINE c  == Going(Null("ok"), n)
           c1 == Realloc(c, [c.s EXCEPT !.array = 1])
           c2 == Realloc(c1, [c1.s EXCEPT !.tail = Header])
           c3 == Realloc(c2, [c2.s EXCEPT !.tail0 = 1])
           c4 == Realloc(c3, [c3.s EXCEPT !.ninfo = 1])
           c5 == Realloc(c4, [c4.s EXCEPT !.block = 1])
           t  == [c5.s EXCEPT !.capacity = 1, !.size = 1, !.quota = Header,
                              !.length = Header, !.quota0 = 1, !.root = TRUE]
           e  == Then(c5, t)
           Kept(d) == /\ d \in Calls /\ d.s \in Image /\ d.s.status \in {"ok", "MemoryError"}
                      /\ d.s.size = 0 /\ d.s.lost = {} /\ d.s.places = 0 /\ d.s.torn = FALSE
<1> HIDE DEF c, c1, c2, c3, c4, c5, t, e
<1>1. Kept(c) /\ Ok(c) /\ c.left = n
    <2>1. Null("ok") \in Image
        BY NullIsImage DEF Statuses
    <2>2. c \in Calls /\ c.s = Null("ok") /\ c.left = n
        BY <2>1, GoingIsCall DEF c
    <2> QED BY <2>1, <2>2 DEF Null, Ok
<1>2. /\ Kept(c1)
      /\ Ok(c1) => /\ c1.s.array = 1
      /\ n = 5 => Ok(c1) /\ c1.left = 4
    <2> DEFINE u == [c.s EXCEPT !.array = 1]
    <2>1. /\ u \in Image /\ u.status = c.s.status /\ u.array = 1
          /\ u.size = c.s.size /\ u.lost = c.s.lost /\ u.places = c.s.places /\ u.torn = c.s.torn
        BY <1>1, ImageAssumption DEF Image
    <2> HIDE DEF u
    <2>2. c1 = Realloc(c, u)
        BY DEF c1, u
    <2>3. /\ Kept(c1)
          /\ Ok(c1) => Ok(c) /\ c1.s = u
          /\ Ok(c) /\ c.left # 0 => Ok(c1) /\ c1.left = c.left - 1
        BY <1>1, <2>1, <2>2, ReallocKeeps
    <2> QED BY <1>1, <2>1, <2>3
<1>3. /\ Kept(c2)
      /\ Ok(c2) => /\ c2.s.array = 1 /\ c2.s.tail = Header
      /\ n = 5 => Ok(c2) /\ c2.left = 3
    <2> DEFINE u == [c1.s EXCEPT !.tail = Header]
    <2>1. /\ u \in Image /\ u.status = c1.s.status /\ u.tail = Header
          /\ u.size = c1.s.size /\ u.lost = c1.s.lost /\ u.places = c1.s.places /\ u.torn = c1.s.torn
          /\ u.array = c1.s.array
        BY <1>2, ImageAssumption DEF Image
    <2> HIDE DEF u
    <2>2. c2 = Realloc(c1, u)
        BY DEF c2, u
    <2>3. /\ Kept(c2)
          /\ Ok(c2) => Ok(c1) /\ c2.s = u
          /\ Ok(c1) /\ c1.left # 0 => Ok(c2) /\ c2.left = c1.left - 1
        BY <1>2, <2>1, <2>2, ReallocKeeps
    <2> QED BY <1>2, <2>1, <2>3
<1>4. /\ Kept(c3)
      /\ Ok(c3) => /\ c3.s.array = 1 /\ c3.s.tail = Header /\ c3.s.tail0 = 1
      /\ n = 5 => Ok(c3) /\ c3.left = 2
    <2> DEFINE u == [c2.s EXCEPT !.tail0 = 1]
    <2>1. /\ u \in Image /\ u.status = c2.s.status /\ u.tail0 = 1
          /\ u.size = c2.s.size /\ u.lost = c2.s.lost /\ u.places = c2.s.places /\ u.torn = c2.s.torn
          /\ u.array = c2.s.array /\ u.tail = c2.s.tail
        BY <1>3, ImageAssumption DEF Image
    <2> HIDE DEF u
    <2>2. c3 = Realloc(c2, u)
        BY DEF c3, u
    <2>3. /\ Kept(c3)
          /\ Ok(c3) => Ok(c2) /\ c3.s = u
          /\ Ok(c2) /\ c2.left # 0 => Ok(c3) /\ c3.left = c2.left - 1
        BY <1>3, <2>1, <2>2, ReallocKeeps
    <2> QED BY <1>3, <2>1, <2>3
<1>5. /\ Kept(c4)
      /\ Ok(c4) => /\ c4.s.array = 1 /\ c4.s.tail = Header /\ c4.s.tail0 = 1 /\ c4.s.ninfo = 1
      /\ n = 5 => Ok(c4) /\ c4.left = 1
    <2> DEFINE u == [c3.s EXCEPT !.ninfo = 1]
    <2>1. /\ u \in Image /\ u.status = c3.s.status /\ u.ninfo = 1
          /\ u.size = c3.s.size /\ u.lost = c3.s.lost /\ u.places = c3.s.places /\ u.torn = c3.s.torn
          /\ u.array = c3.s.array /\ u.tail = c3.s.tail /\ u.tail0 = c3.s.tail0
        BY <1>4, ImageAssumption DEF Image
    <2> HIDE DEF u
    <2>2. c4 = Realloc(c3, u)
        BY DEF c4, u
    <2>3. /\ Kept(c4)
          /\ Ok(c4) => Ok(c3) /\ c4.s = u
          /\ Ok(c3) /\ c3.left # 0 => Ok(c4) /\ c4.left = c3.left - 1
        BY <1>4, <2>1, <2>2, ReallocKeeps
    <2> QED BY <1>4, <2>1, <2>3
<1>6. /\ Kept(c5)
      /\ Ok(c5) => /\ c5.s.array = 1 /\ c5.s.tail = Header /\ c5.s.tail0 = 1 /\ c5.s.ninfo = 1 /\ c5.s.block = 1
      /\ n = 5 => Ok(c5) /\ c5.left = 0
    <2> DEFINE u == [c4.s EXCEPT !.block = 1]
    <2>1. /\ u \in Image /\ u.status = c4.s.status /\ u.block = 1
          /\ u.size = c4.s.size /\ u.lost = c4.s.lost /\ u.places = c4.s.places /\ u.torn = c4.s.torn
          /\ u.array = c4.s.array /\ u.tail = c4.s.tail /\ u.tail0 = c4.s.tail0 /\ u.ninfo = c4.s.ninfo
        BY <1>5, ImageAssumption DEF Image
    <2> HIDE DEF u
    <2>2. c5 = Realloc(c4, u)
        BY DEF c5, u
    <2>3. /\ Kept(c5)
          /\ Ok(c5) => Ok(c4) /\ c5.s = u
          /\ Ok(c4) /\ c4.left # 0 => Ok(c5) /\ c5.left = c4.left - 1
        BY <1>5, <2>1, <2>2, ReallocKeeps
    <2> QED BY <1>5, <2>1, <2>3
<1>7. e = _initialize(Going(Null("ok"), n))
    BY DEF _initialize, e, t, c5, c4, c3, c2, c1, c
<1>8. /\ t \in Image /\ t.status = c5.s.status /\ t.capacity = 1 /\ t.size = 1
      /\ t.quota = Header /\ t.length = Header /\ t.quota0 = 1 /\ t.root = TRUE
      /\ t.array = c5.s.array /\ t.tail = c5.s.tail /\ t.tail0 = c5.s.tail0
      /\ t.ninfo = c5.s.ninfo /\ t.block = c5.s.block /\ t.lost = {} /\ t.places = 0
      /\ t.torn = FALSE
    BY <1>6, ImageAssumption DEF Image, t
<1>9. /\ e \in Calls
      /\ ~ Ok(c5) => e = c5
      /\ Ok(c5) => e.s = t
    BY <1>6, <1>8, ThenTyped DEF e
<1>10. CASE Ok(c5)
    <2>1. e.s.status = "ok"
        BY <1>8, <1>9, <1>10 DEF Ok
    <2>2. Ready(e.s) /\ e.s.array # 0 /\ e.s.block # 0
        <3>1. Asked(t) = Header
            BY <1>8, AskedBounds
        <3> QED BY <1>6, <1>8, <1>9, <1>10, <3>1, ImageAssumption DEF Ready
    <2> QED BY <1>7, <1>9, <2>1, <2>2 DEF Ok
<1>11. CASE ~ Ok(c5)
    BY <1>6, <1>7, <1>9, <1>11
<1> QED BY <1>10, <1>11
\* restore on any image, and on one that is loaded: it becomes ready.
LEMMA RelistTyped ==
    ASSUME NEW c, Typed(c)
    PROVE  /\ Typed(Relist(c)) /\ Relist(c).s.array = c.s.array
           /\ Ok(Relist(c)) => Ok(c)
           /\ Relist(c).s.status = "fault" => c.s.status = "fault"
           /\ Ok(Relist(c)) => Relist(c).s = IF c.s.block # 0 THEN c.s ELSE [c.s EXCEPT !.block = c.s.size]
<1> DEFINE t == [c.s EXCEPT !.block = c.s.size]
<1> HIDE DEF t
<1>1. c \in Calls /\ c.s \in Image
    BY DEF Typed, Calls
<1>2. t \in Image /\ t.status = c.s.status /\ t.array = c.s.array
    BY <1>1 DEF Image, t
<1>3. /\ Realloc(c, t) \in Calls
      /\ ~ Ok(c) => Realloc(c, t) = c
      /\ Ok(Realloc(c, t)) => Ok(c) /\ Realloc(c, t).s = t
      /\ Ok(c) /\ ~ Ok(Realloc(c, t)) => Realloc(c, t).s = [c.s EXCEPT !.status = "MemoryError"]
    BY <1>1, <1>2, ReallocTyped
<1>4. CASE c.s.block # 0
    BY <1>4 DEF Relist
<1>5. CASE c.s.block = 0
    <2>1. Relist(c) = Realloc(c, t)
        BY <1>5 DEF Relist, t
    <2>2. CASE ~ Ok(c)
        BY <1>3, <1>5, <2>1, <2>2
    <2>3. CASE Ok(Realloc(c, t))
        BY <1>2, <1>3, <1>5, <2>1, <2>3 DEF Typed, Ok, t
    <2>4. CASE Ok(c) /\ ~ Ok(Realloc(c, t))
        BY <1>1, <1>3, <2>1, <2>4 DEF Typed, Image
    <2> QED BY <2>2, <2>3, <2>4
<1> QED BY <1>4, <1>5

LEMMA RechainTyped ==
    ASSUME NEW c, Typed(c)
    PROVE  /\ Typed(Rechain(c)) /\ Rechain(c).s.array = c.s.array /\ Rechain(c).s.block = c.s.block
           /\ Ok(Rechain(c)) => Ok(c)
           /\ Rechain(c).s.status = "fault" => c.s.status = "fault"
           /\ Ok(Rechain(c)) => Rechain(c).s = IF c.s.ninfo # 0 THEN c.s ELSE [c.s EXCEPT !.ninfo = c.s.size]
<1> DEFINE t == [c.s EXCEPT !.ninfo = c.s.size]
<1> HIDE DEF t
<1>1. c \in Calls /\ c.s \in Image
    BY DEF Typed, Calls
<1>2. t \in Image /\ t.status = c.s.status /\ t.array = c.s.array /\ t.block = c.s.block
    BY <1>1 DEF Image, t
<1>3. /\ Realloc(c, t) \in Calls
      /\ ~ Ok(c) => Realloc(c, t) = c
      /\ Ok(Realloc(c, t)) => Ok(c) /\ Realloc(c, t).s = t
      /\ Ok(c) /\ ~ Ok(Realloc(c, t)) => Realloc(c, t).s = [c.s EXCEPT !.status = "MemoryError"]
    BY <1>1, <1>2, ReallocTyped
<1>4. CASE c.s.ninfo # 0
    BY <1>4 DEF Rechain
<1>5. CASE c.s.ninfo = 0
    <2>1. Rechain(c) = Realloc(c, t)
        BY <1>5 DEF Rechain, t
    <2>2. CASE ~ Ok(c)
        BY <1>3, <1>5, <2>1, <2>2
    <2>3. CASE Ok(Realloc(c, t))
        BY <1>2, <1>3, <1>5, <2>1, <2>3 DEF Typed, Ok, t
    <2>4. CASE Ok(c) /\ ~ Ok(Realloc(c, t))
        BY <1>1, <1>3, <2>1, <2>4 DEF Typed, Image
    <2> QED BY <2>2, <2>3, <2>4
<1> QED BY <1>4, <1>5

LEMMA RestoreTyped ==
    ASSUME NEW c, Typed(c)
    PROVE  /\ Typed(restore(c)) /\ restore(c).s.array = c.s.array
           /\ Ok(restore(c)) => Ok(c)
           /\ restore(c).s.status = "fault" => c.s.status = "fault"
           /\ Ok(restore(c)) /\ Loaded(c.s) => Ready(restore(c).s) /\ restore(c).s.block # 0
<1> DEFINE d == Relist(c)
           e == Rechain(d)
           t == [e.s EXCEPT !.capacity = e.s.size, !.quota = e.s.length, !.quota0 = 1]
<1> HIDE DEF d, e, t
<1>1. /\ Typed(d) /\ d.s.array = c.s.array /\ (Ok(d) => Ok(c))
      /\ d.s.status = "fault" => c.s.status = "fault"
      /\ Ok(d) => d.s = IF c.s.block # 0 THEN c.s ELSE [c.s EXCEPT !.block = c.s.size]
    BY RelistTyped DEF d
<1>2. /\ Typed(e) /\ e.s.array = d.s.array /\ (Ok(e) => Ok(d))
      /\ e.s.status = "fault" => d.s.status = "fault"
      /\ Ok(e) => e.s = IF d.s.ninfo # 0 THEN d.s ELSE [d.s EXCEPT !.ninfo = d.s.size]
    BY <1>1, RechainTyped DEF e
<1>3. c.s \in Image /\ d.s \in Image /\ e.s \in Image /\ e \in Calls
    BY <1>1, <1>2 DEF Typed, Calls
<1>4. t \in Image /\ t.status = e.s.status /\ t.array = e.s.array
    BY <1>3 DEF Image, t
<1>5. restore(c) = Then(e, t)
    BY DEF restore, Resized, d, e, t
<1>6. /\ restore(c) \in Calls /\ (~ Ok(e) => restore(c) = e) /\ (Ok(e) => restore(c).s = t)
    BY <1>3, <1>4, <1>5, ThenTyped
<1>7. CASE ~ Ok(e)
    BY <1>1, <1>2, <1>6, <1>7
<1>8. CASE Ok(e)
    <2>1. /\ Typed(restore(c)) /\ restore(c).s.array = c.s.array /\ Ok(c)
          /\ restore(c).s.status # "fault"
        BY <1>1, <1>2, <1>4, <1>6, <1>8 DEF Typed, Ok
    <2>2. ASSUME Loaded(c.s) PROVE Ready(t) /\ t.block # 0
        <3>1. /\ d.s.block = c.s.size /\ d.s.ninfo = c.s.ninfo /\ d.s.size = c.s.size
              /\ d.s.root = c.s.root /\ d.s.lost = c.s.lost /\ d.s.places = c.s.places
              /\ d.s.tail0 = c.s.tail0 /\ d.s.length = c.s.length /\ d.s.tail = c.s.tail
              /\ d.s.torn = c.s.torn
            <4>1. d.s = [c.s EXCEPT !.block = c.s.size]
                BY <1>1, <1>2, <1>8, <2>2 DEF Loaded
            <4> QED BY <1>3, <4>1 DEF Image
        <3>2. /\ e.s.block = c.s.size /\ e.s.ninfo >= c.s.size /\ e.s.size = c.s.size
              /\ e.s.root = c.s.root /\ e.s.lost = c.s.lost /\ e.s.places = c.s.places
              /\ e.s.tail0 = c.s.tail0 /\ e.s.length = c.s.length /\ e.s.tail = c.s.tail
              /\ e.s.torn = c.s.torn
            <4>1. CASE d.s.ninfo # 0
                BY <1>2, <1>8, <2>2, <3>1, <4>1 DEF Loaded
            <4>2. CASE d.s.ninfo = 0
                <5>1. e.s = [d.s EXCEPT !.ninfo = d.s.size]
                    BY <1>2, <1>8, <4>2
                <5>2. /\ e.s.ninfo = d.s.size /\ e.s.block = d.s.block /\ e.s.size = d.s.size
                      /\ e.s.root = d.s.root /\ e.s.lost = d.s.lost /\ e.s.places = d.s.places
                      /\ e.s.tail0 = d.s.tail0 /\ e.s.length = d.s.length /\ e.s.tail = d.s.tail
                      /\ e.s.torn = d.s.torn
                    BY <1>3, <5>1 DEF Image
                <5>3. c.s.size \in Nat
                    BY <1>3 DEF Image
                <5> QED BY <3>1, <5>2, <5>3
            <4> QED BY <4>1, <4>2
        <3>3. /\ t.capacity = e.s.size /\ t.quota = e.s.length /\ t.quota0 = 1
              /\ t.block = e.s.block /\ t.ninfo = e.s.ninfo /\ t.size = e.s.size
              /\ t.root = e.s.root /\ t.lost = e.s.lost /\ t.places = e.s.places
              /\ t.tail0 = e.s.tail0 /\ t.length = e.s.length /\ t.tail = e.s.tail
              /\ t.torn = e.s.torn
            BY <1>3 DEF Image, t
        <3>4. t.array = c.s.array
            BY <1>1, <1>2, <1>4
        <3>5. c.s.size \in Nat /\ c.s.length \in Nat /\ c.s.array \in Nat /\ c.s.tail \in Nat
            BY <1>3 DEF Image
        <3>6. Asked(t) = t.length
            BY <1>4, <2>2, <3>2, <3>3, AskedBounds DEF Loaded
        <3> QED BY <2>2, <3>2, <3>3, <3>4, <3>5, <3>6 DEF Loaded, Ready
    <2> QED BY <1>6, <1>8, <2>1, <2>2
<1> QED BY <1>7, <1>8

LEMMA TakenTyped ==
    ASSUME NEW c \in Calls, NEW image \in Images
    PROVE  LET d == Taken(c, image)
           IN  /\ d \in Calls /\ Ok(d) /\ d.left = c.left
               /\ d.s = [Null("ok") EXCEPT !.array = image.size, !.tail = image.length,
                                           !.tail0 = 1]
<1> DEFINE t == [Null("ok") EXCEPT !.array = image.size, !.tail = image.length, !.tail0 = 1]
           d == Taken(c, image)
<1> HIDE DEF t, d
<1>1. image.size \in Nat /\ image.length \in Nat
    BY ImageAssumption
<1>2. t \in Image /\ t.status = "ok"
    BY <1>1, NullIsImage DEF Image, Null, Statuses, t
<1>3. d = Going(t, c.left) /\ c.left \in Nat
    BY DEF Taken, d, t, Calls
<1>4. d \in Calls /\ d.s = t /\ d.left = c.left
    BY <1>2, <1>3, GoingIsCall
<1>5. Ok(d)
    BY <1>2, <1>4 DEF Ok
<1> QED BY <1>4, <1>5 DEF d, t

LEMMA UntakenTyped ==
    ASSUME NEW c \in Calls
    PROVE  Untaken(c) \in Calls /\ Untaken(c).s.status = "MemoryError"
<1> DEFINE e == clear(c, TRUE)
           t == [e.s EXCEPT !.status = "MemoryError"]
<1> HIDE DEF e, t
<1>1. e \in Calls
    <2>1. c.left \in Nat
        BY DEF Calls
    <2> QED BY <2>1, InitializeTyped DEF e, clear
<1>2. e.s \in Image /\ e.left \in Nat
    BY <1>1 DEF Calls
<1>3. t \in Image /\ t.status = "MemoryError"
    BY <1>2 DEF Image, Statuses, t
<1>4. Untaken(c) = Going(t, e.left)
    BY DEF Untaken, Ended, e, t
<1> QED BY <1>2, <1>3, <1>4, GoingIsCall

LEMMA OpenFileTyped ==
    ASSUME NEW c \in Calls, NEW image \in Images
    PROVE  LET e == open_file(c, image)
           IN  e \in Calls /\ Ok(e) /\ Loaded(e.s)
<1> DEFINE d == Taken(c, image)
           t == [d.s EXCEPT !.size = image.size, !.length = image.length, !.root = TRUE,
                            !.keys = image.keys]
           e == Going(t, d.left)
<1> HIDE DEF d, t, e
<1>1. /\ image.size \in Nat /\ image.length \in Nat /\ 1 <= image.size /\ Header <= image.length
      /\ image.keys \in BOOLEAN
    BY ImageAssumption
<1>2. /\ d \in Calls /\ d.s \in Image /\ d.left \in Nat /\ d.s.status = "ok"
      /\ d.s = [Null("ok") EXCEPT !.array = image.size, !.tail = image.length, !.tail0 = 1]
    BY TakenTyped DEF d, Calls, Ok
<1>3. /\ t \in Image /\ t.status = d.s.status /\ t.size = image.size /\ t.length = image.length
      /\ t.root = TRUE /\ t.array = d.s.array /\ t.tail = d.s.tail /\ t.tail0 = d.s.tail0
      /\ t.block = d.s.block /\ t.ninfo = d.s.ninfo /\ t.lost = d.s.lost /\ t.places = d.s.places
      /\ t.torn = d.s.torn
    BY <1>1, <1>2 DEF Image, t
<1>4. open_file(c, image) = e
    BY DEF open_file, Read, d, t, e
<1>5. e \in Calls /\ e.s = t
    BY <1>2, <1>3, GoingIsCall DEF e
<1>6. /\ d.s.array = image.size /\ d.s.tail = image.length /\ d.s.tail0 = 1 /\ d.s.block = 0
      /\ d.s.ninfo = 0 /\ d.s.lost = {} /\ d.s.places = 0 /\ d.s.torn = FALSE
    BY <1>2 DEF Null
<1>7. Loaded(t)
    BY <1>1, <1>3, <1>6 DEF Loaded
<1> QED BY <1>2, <1>3, <1>4, <1>5, <1>7 DEF Ok

LEMMA OpenMemTyped ==
    ASSUME NEW c \in Calls, NEW image \in Images
    PROVE  LET e == open_mem(c, image)
           IN  /\ e \in Calls /\ e.s.status \in {"ok", "MemoryError"}
               /\ Ok(e) => Ready(e.s)
<1> DEFINE d == open_file(c, image)
<1> HIDE DEF d
<1>1. Typed(d) /\ Ok(d) /\ Loaded(d.s)
    BY OpenFileTyped DEF d, Typed, Ok
<1>2. open_mem(c, image) = restore(d)
    BY DEF open_mem, d
<1>3. Typed(restore(d)) /\ (Ok(restore(d)) => Ready(restore(d).s)) /\ restore(d).s.status # "fault"
    BY <1>1, RestoreTyped DEF Ok
<1> QED BY <1>2, <1>3 DEF Typed

LEMMA OpenShortTyped ==
    ASSUME NEW c \in Calls, NEW image \in Images, NEW root \in BOOLEAN
    PROVE  LET e == open_short(c, image, root)
           IN  /\ e \in Calls /\ e.s.status = "refused"
               /\ e.s.array # 0 /\ e.s.size = 0
<1> DEFINE d == Taken(c, image)
           t == [d.s EXCEPT !.length = image.length, !.root = root, !.keys = image.keys,
                            !.status = "refused"]
<1> HIDE DEF d, t
<1>1. image.size \in Nat /\ image.length \in Nat /\ 1 <= image.size /\ image.keys \in BOOLEAN
    BY ImageAssumption
<1>2. /\ d \in Calls /\ d.s \in Image /\ d.left \in Nat
      /\ d.s = [Null("ok") EXCEPT !.array = image.size, !.tail = image.length, !.tail0 = 1]
    BY TakenTyped DEF d, Calls
<1>3. t \in Image /\ t.status = "refused" /\ t.array = d.s.array /\ t.size = d.s.size
    BY <1>1, <1>2 DEF Image, Statuses, t
<1>4. open_short(c, image, root) = Going(t, d.left)
    BY DEF open_short, ReadShort, d, t
<1>5. d.s.array = image.size /\ d.s.size = 0
    BY <1>2 DEF Null
<1> QED BY <1>1, <1>2, <1>3, <1>4, <1>5, GoingIsCall
-----------------------------------------------------------------------------
(* Calls on the whole image.                                               *)

\* A test that holds on an image that is ready, or on one that is loaded.
LEMMA NeedsKept ==
    ASSUME NEW c, Typed(c), NEW there \in BOOLEAN, Ok(c) => there
    PROVE  Needs(c, there) = c
BY NeedsTyped DEF Typed

LEMMA UpdateTyped ==
    ASSUME NEW c, Typed(c), Ok(c)
    PROVE  /\ Typed(update(c))
           /\ Ok(update(c)) => update(c).s.block # 0
           /\ Ready(c.s) => update(c) = c
           /\ Loaded(c.s) => Held(update(c)) /\ (Ok(update(c)) => Ready(update(c).s))
<1> DEFINE b == Needs(c, c.s.tail # 0)
           d == Prepared(c)
           there == /\ Readable(d.s) /\ Chained(d.s) /\ Listed(d.s)
                    /\ d.s.size # 0 /\ d.s.tail0 # 0
<1> HIDE DEF b, d, there
<1>1. c \in Calls /\ c.s \in Image /\ (c.s.tail # 0) \in BOOLEAN
    BY DEF Typed, Calls
<1>2. Typed(b) /\ (c.s.tail # 0 => b = c)
    BY <1>1, NeedsTyped DEF Typed, b
<1>3. d = IF c.s.ninfo = 0 \/ c.s.block = 0 THEN restore(b) ELSE c
    BY DEF Prepared, d, b
<1>4. Typed(d)
    BY <1>2, <1>3, RestoreTyped
<1>5. update(c) = Needs(d, there) /\ there \in BOOLEAN
    BY DEF update, d, there
<1>6. Typed(update(c)) /\ (Ok(update(c)) => update(c) = d /\ there)
    BY <1>4, <1>5, NeedsTyped DEF Typed
<1>7. d \in Calls /\ d.s \in Image
    BY <1>4 DEF Typed, Calls
<1>8. Ok(update(c)) => update(c).s.block # 0
    BY <1>6, <1>7 DEF there, Listed, Image
<1>9. Ok(d) /\ Ready(d.s) => there
    <2> SUFFICES ASSUME Ready(d.s) PROVE there
        OBVIOUS
    <2>1. Readable(d.s) /\ d.s.tail0 # 0
        BY <1>7, ReadyReads
    <2>2. Chained(d.s) /\ Listed(d.s) /\ d.s.size # 0
        BY <1>7 DEF Chained, Listed, Ready, Image
    <2> QED BY <2>1, <2>2 DEF there
<1>10. ASSUME Ready(c.s) PROVE update(c) = c
    <2>1. d = c
        BY <1>1, <1>3, <1>10 DEF Ready, Image
    <2> QED BY <1>4, <1>5, <1>9, <1>10, <2>1, NeedsKept
<1>11. ASSUME Loaded(c.s)
       PROVE  Held(update(c)) /\ (Ok(update(c)) => Ready(update(c).s))
    <2>1. c.s.tail # 0 /\ c.s.block = 0 /\ c.s.array # 0
        BY <1>1, <1>11, ReadyReads DEF Loaded, Image
    <2>2. d = restore(c)
        BY <1>2, <1>3, <2>1
    <2>3. d.s.array # 0 /\ (Ok(d) => Ready(d.s)) /\ d.s.status # "fault"
        BY <1>11, <2>1, <2>2, RestoreTyped DEF Ok
    <2>4. update(c) = d
        BY <1>4, <1>5, <1>9, <2>3, NeedsKept
    <2> QED BY <1>4, <2>3, <2>4 DEF Held
<1> QED BY <1>6, <1>8, <1>10, <1>11

LEMMA EraseTyped ==
    ASSUME NEW c, Typed(c), Ok(c), NEW keys \in BOOLEAN
    PROVE  LET e == erase(c, keys)
           IN  /\ Typed(e) /\ (e.s.block # 0 <=> c.s.block # 0)
               /\ Ready(c.s) => Ok(e) /\ Ready(e.s)
               /\ Loaded(c.s) => e.s.status = "fault"
<1> DEFINE there == Readable(c.s) /\ Chained(c.s) /\ Listed(c.s) /\ c.s.size # 0
           d == Needs(c, there)
           t == [d.s EXCEPT !.keys = keys]
           e == Then(d, t)
<1> HIDE DEF there, d, t, e
<1>1. c \in Calls /\ c.s \in Image /\ there \in BOOLEAN /\ erase(c, keys) = e
    BY DEF Typed, Calls, erase, there, d, t, e
<1>2. /\ d \in Calls /\ Typed(d) /\ (there => d = c) /\ (Ok(d) => d = c /\ there)
      /\ d.s.block = c.s.block
    BY <1>1, NeedsTyped DEF d, Typed
<1>3. d.s \in Image
    BY <1>2 DEF Calls
<1>4. /\ t \in Image /\ t.status = d.s.status /\ t.block = d.s.block /\ t.root = d.s.root
      /\ t.torn = d.s.torn /\ t.lost = d.s.lost /\ t.size = d.s.size /\ t.capacity = d.s.capacity
      /\ t.array = d.s.array /\ t.ninfo = d.s.ninfo /\ t.length = d.s.length
      /\ t.quota = d.s.quota /\ t.tail = d.s.tail /\ t.places = d.s.places
      /\ t.quota0 = d.s.quota0 /\ t.tail0 = d.s.tail0
    BY <1>3 DEF Image, t
<1>5. e \in Calls /\ (~ Ok(d) => e = d) /\ (Ok(d) => e.s = t)
    BY <1>2, <1>4, ThenTyped DEF e
<1>6. Typed(e) /\ (e.s.block # 0 <=> c.s.block # 0)
    BY <1>2, <1>4, <1>5 DEF Typed
<1>7. ASSUME Ready(c.s) PROVE Ok(e) /\ Ready(e.s)
    <2>1. Readable(c.s)
        BY <1>1, <1>7, ReadyReads
    <2>2. Chained(c.s) /\ Listed(c.s) /\ c.s.size # 0
        BY <1>1, <1>7 DEF Chained, Listed, Ready, Image
    <2>3. d = c /\ e.s = t
        BY <1>2, <1>5, <2>1, <2>2 DEF there
    <2>4. Asked(t) = Asked(c.s)
        BY <1>4, <2>3 DEF Asked
    <2>5. Ready(t)
        BY <1>4, <1>7, <2>3, <2>4 DEF Ready
    <2> QED BY <1>4, <2>3, <2>5 DEF Ok
<1>8. ASSUME Loaded(c.s) PROVE e.s.status = "fault"
    <2>1. ~ there
        BY <1>1, <1>8 DEF there, Listed, Loaded, Image
    <2>2. ~ Ok(d) /\ d.s.status # "MemoryError"
        <3>1. d = Ended(c, "fault")
            BY <2>1 DEF d, Needs
        <3>2. d.s = [c.s EXCEPT !.status = "fault"]
            BY <3>1 DEF Ended, Going
        <3> QED BY <1>1, <3>2 DEF Image, Ok
    <2> QED BY <1>2, <1>5, <2>2 DEF Typed, Ok
<1> QED BY <1>1, <1>6, <1>7, <1>8

LEMMA LookupTyped ==
    ASSUME NEW c, Typed(c), Ok(c)
    PROVE  /\ Typed(Lookup(c))
           /\ Ready(c.s) \/ Loaded(c.s) => Lookup(c) = c
<1>1. c \in Calls /\ c.s \in Image /\ Readable(c.s) \in BOOLEAN
    BY DEF Typed, Calls, Readable
<1>2. Ready(c.s) \/ Loaded(c.s) => Readable(c.s)
    BY <1>1, ReadyReads
<1> QED BY <1>1, <1>2, NeedsTyped DEF Typed, Lookup

LEMMA BeginTyped ==
    ASSUME NEW c, Typed(c), Ok(c)
    PROVE  /\ Typed(begin(c))
           /\ Ready(c.s) => begin(c) = c
           /\ Loaded(c.s) => Held(begin(c)) /\ (Ok(begin(c)) => Loaded(begin(c).s))
<1> DEFINE b == Needs(c, Readable(c.s))
           d == Rechain(b)
<1> HIDE DEF b, d
<1>1. c \in Calls /\ c.s \in Image /\ Readable(c.s) \in BOOLEAN
    BY DEF Typed, Calls, Readable
<1>2. Typed(b) /\ (Ready(c.s) \/ Loaded(c.s) => b = c)
    <2>1. b = Lookup(c)
        BY DEF b, Lookup
    <2> QED BY <2>1, LookupTyped
<1>3. /\ Typed(d) /\ d.s.array = b.s.array /\ (Ok(d) => Ok(b))
      /\ Ok(d) => d.s = IF b.s.ninfo # 0 THEN b.s ELSE [b.s EXCEPT !.ninfo = b.s.size]
    BY <1>2, RechainTyped DEF d
<1>4. begin(c) = Needs(d, Chained(d.s)) /\ Chained(d.s) \in BOOLEAN
    BY DEF begin, b, d, Chained
<1>5. Typed(begin(c))
    BY <1>3, <1>4, NeedsTyped DEF Typed
<1>6. ASSUME Ready(c.s) PROVE begin(c) = c
    <2>1. d = c
        BY <1>1, <1>2, <1>6 DEF d, Rechain, Ready, Image
    <2>2. Chained(c.s)
        BY <1>1, <1>6 DEF Chained, Ready, Image
    <2> QED BY <1>4, <2>1, <2>2, NeedsKept
<1>7. ASSUME Loaded(c.s)
      PROVE  Held(begin(c)) /\ (Ok(begin(c)) => Loaded(begin(c).s))
    <2>1. c.s.array # 0 /\ b = c
        BY <1>1, <1>2, <1>7 DEF Loaded, Image
    <2>2. ASSUME Ok(d) PROVE Chained(d.s) /\ Loaded(d.s)
        <3>1. CASE c.s.ninfo # 0
            BY <1>3, <1>7, <2>1, <2>2, <3>1 DEF Loaded, Chained
        <3>2. CASE c.s.ninfo = 0
            <4>1. d.s = [c.s EXCEPT !.ninfo = c.s.size]
                BY <1>3, <2>1, <2>2, <3>2
            <4>2. c.s.size \in Nat
                BY <1>1 DEF Image
            <4>3. /\ d.s.ninfo = c.s.size /\ d.s.size = c.s.size /\ d.s.array = c.s.array
                  /\ d.s.block = c.s.block /\ d.s.root = c.s.root /\ d.s.lost = c.s.lost
                  /\ d.s.places = c.s.places /\ d.s.tail0 = c.s.tail0
                  /\ d.s.length = c.s.length /\ d.s.tail = c.s.tail /\ d.s.torn = c.s.torn
                BY <1>1, <4>1 DEF Image
            <4> QED BY <1>7, <4>2, <4>3 DEF Loaded, Chained
        <3> QED BY <3>1, <3>2
    <2>3. begin(c) = d
        BY <1>3, <1>4, <2>2, NeedsKept
    <2>4. d.s.status # "fault"
        BY <2>1, RechainTyped DEF d, Ok
    <2> QED BY <1>3, <2>1, <2>2, <2>3, <2>4 DEF Held
<1> QED BY <1>5, <1>6, <1>7

\* One step of shrink_tail: the blocks stay as they are.
Beside(c, d) ==
    /\ Typed(d) /\ d.s.array = c.s.array /\ d.s.block = c.s.block
    /\ d.s.status = "fault" => c.s.status = "fault"

LEMMA ReallocBeside ==
    ASSUME NEW c, Typed(c), NEW t \in Image, t.status = c.s.status,
           t.array = c.s.array, t.block = c.s.block
    PROVE  Beside(c, Realloc(c, t)) /\ (Ok(Realloc(c, t)) => Ok(c) /\ Realloc(c, t).s = t)
<1> DEFINE d == Realloc(c, t)
<1> HIDE DEF d
<1>1. c \in Calls /\ c.s \in Image
    BY DEF Typed, Calls
<1>2. /\ d \in Calls
      /\ ~ Ok(c) => d = c
      /\ Ok(d) => Ok(c) /\ d.s = t
      /\ Ok(c) /\ ~ Ok(d) => d.s = [c.s EXCEPT !.status = "MemoryError"]
    BY <1>1, ReallocTyped DEF d
<1>3. CASE ~ Ok(c)
    BY <1>2, <1>3 DEF Beside, d
<1>4. CASE Ok(d)
    BY <1>2, <1>4 DEF Beside, Typed, Ok, d
<1>5. CASE Ok(c) /\ ~ Ok(d)
    <2>1. d.s.status = "MemoryError" /\ d.s.array = c.s.array /\ d.s.block = c.s.block
        BY <1>1, <1>2, <1>5 DEF Image
    <2> QED BY <1>2, <1>5, <2>1 DEF Beside, Typed, d
<1> QED BY <1>3, <1>4, <1>5

LEMMA ThenBeside ==
    ASSUME NEW c, Typed(c), NEW t \in Image, t.status = c.s.status,
           t.array = c.s.array, t.block = c.s.block
    PROVE  Beside(c, Then(c, t)) /\ (Ok(Then(c, t)) => Ok(c) /\ Then(c, t).s = t)
<1>1. c \in Calls
    BY DEF Typed
<1>2. Then(c, t) \in Calls /\ (~ Ok(c) => Then(c, t) = c) /\ (Ok(c) => Then(c, t).s = t)
    BY <1>1, ThenTyped
<1>3. CASE ~ Ok(c)
    BY <1>2, <1>3 DEF Beside
<1>4. CASE Ok(c)
    BY <1>2, <1>4 DEF Beside, Typed, Ok
<1> QED BY <1>3, <1>4

LEMMA MovedTailTyped ==
    ASSUME NEW c, Typed(c), NEW length \in Nat
    PROVE  LET d == MovedTail(c, length)
           IN  /\ Beside(c, d)
               /\ Ok(d) => /\ Ok(c)
                           /\ d.s = [c.s EXCEPT !.tail = Asked(c.s), !.length = length,
                                                !.lost = 1 .. c.s.places]
<1> DEFINE t == [c.s EXCEPT !.tail = Asked(c.s), !.length = length, !.lost = 1 .. c.s.places]
           u == [c.s EXCEPT !.status = "MemoryError"]
<1> HIDE DEF t, u
<1>1. c \in Calls /\ c.s \in Image /\ c.left \in Nat
    BY DEF Typed, Calls
<1>2. CASE ~ Ok(c)
    <2>1. MovedTail(c, length) = c
        BY <1>2 DEF MovedTail, Realloc
    <2> QED BY <1>2, <2>1 DEF Beside
<1>3. CASE Ok(c) /\ Asked(c.s) < 0
    <2>1. MovedTail(c, length) = Going(u, c.left)
        BY <1>3 DEF MovedTail, Ended, u
    <2>2. /\ u \in Image /\ u.status = "MemoryError"
          /\ u.array = c.s.array /\ u.block = c.s.block
        BY <1>1 DEF Image, Statuses, u
    <2> QED BY <1>1, <2>1, <2>2, GoingIsCall DEF Beside, Typed, Ok
<1>4. CASE Ok(c) /\ ~ (Asked(c.s) < 0)
    <2>1. MovedTail(c, length) = Realloc(c, t)
        BY <1>4 DEF MovedTail, t
    <2>2. Asked(c.s) \in Nat
        BY <1>1, <1>4, AskedBounds
    <2>3. 1 .. c.s.places \in SUBSET Nat
        BY <1>1 DEF Image
    <2>4. t \in Image /\ t.status = c.s.status /\ t.array = c.s.array /\ t.block = c.s.block
        BY <1>1, <2>2, <2>3 DEF Image, t
    <2> DEFINE d == Realloc(c, t)
    <2> HIDE DEF d
    <2>5. Beside(c, d) /\ (Ok(d) => Ok(c) /\ d.s = t)
        BY <2>4, ReallocBeside DEF d
    <2> QED BY <2>1, <2>5 DEF d, t
<1> QED BY <1>2, <1>3, <1>4

LEMMA ShrinkTyped ==
    ASSUME NEW c, Typed(c), Ok(c), NEW length \in Nat,
           Ready(c.s) \/ Loaded(c.s) => Header <= length /\ length <= Asked(c.s)
    PROVE  LET e == shrink_tail(c, length)
           IN  /\ Typed(e)
               /\ Ready(c.s) \/ Loaded(c.s) =>
                    e.s.status # "fault" /\ e.s.array = c.s.array /\ e.s.block = c.s.block
               /\ Ready(c.s) /\ Ok(e)  => Ready(e.s)
               /\ Loaded(c.s) /\ Ok(e) => Loaded(e.s)
<1> DEFINE there == Readable(c.s) /\ c.s.tail0 # 0
           fits  == Header <= Asked(c.s) /\ length <= Asked(c.s)
           c0 == Needs(c, there)
           c1 == MovedTail(c0, length)
           t1 == [c0.s EXCEPT !.tail = Asked(c0.s), !.length = length, !.lost = 1 .. c0.s.places]
           c2 == Needs(c1, fits)
           t3 == [c2.s EXCEPT !.tail = c2.s.length]
           c3 == Realloc(c2, t3)
           t4 == [c3.s EXCEPT !.quota = length]
           c4 == Then(c3, t4)
           t5 == [c4.s EXCEPT !.tail0 = 1, !.places = 0, !.lost = {}]
           c5 == Realloc(c4, t5)
           t6 == [c5.s EXCEPT !.quota0 = 1]
           e  == Then(c5, t6)
<1> HIDE DEF there, fits, c0, c1, c2, c3, c4, c5, e, t1, t3, t4, t5, t6
<1>1. c \in Calls /\ c.s \in Image /\ there \in BOOLEAN /\ fits \in BOOLEAN
    BY DEF Typed, Calls, there, fits
<1>2. e = shrink_tail(c, length)
    BY DEF shrink_tail, Trimmed, there, fits, c0, c1, c2, c3, c4, c5, e, t3, t4, t5, t6
<1>3. Typed(c0) /\ c0.s \in Image /\ (Ok(c0) => c0 = c) /\ (there => c0 = c)
    BY <1>1, NeedsTyped DEF Typed, Calls, c0
<1>4. Beside(c0, c1) /\ (Ok(c1) => Ok(c0) /\ c1.s = t1)
    BY <1>3, MovedTailTyped DEF c1, t1
<1>5. Ok(c0) => /\ t1.status = c0.s.status /\ t1.array = c0.s.array /\ t1.block = c0.s.block
                /\ t1.length = length /\ t1.root = c0.s.root /\ t1.size = c0.s.size
                /\ t1.capacity = c0.s.capacity /\ t1.ninfo = c0.s.ninfo /\ t1.torn = c0.s.torn
    BY <1>3 DEF Image, t1
<1>6. /\ Typed(c2) /\ c2.s \in Image /\ (Ok(c2) => c2 = c1) /\ (fits => c2 = c1)
    BY <1>1, <1>4, NeedsTyped DEF Beside, Typed, Calls, c2
<1>7. /\ t3 \in Image /\ t3.status = c2.s.status /\ t3.array = c2.s.array /\ t3.block = c2.s.block
      /\ t3.tail = c2.s.length /\ t3.length = c2.s.length /\ t3.root = c2.s.root
      /\ t3.size = c2.s.size /\ t3.capacity = c2.s.capacity /\ t3.ninfo = c2.s.ninfo
      /\ t3.torn = c2.s.torn
    BY <1>6 DEF Image, t3
<1>8. Beside(c2, c3) /\ (Ok(c3) => Ok(c2) /\ c3.s = t3)
    BY <1>6, <1>7, ReallocBeside DEF c3
<1>9. c3.s \in Image /\ Typed(c3)
    BY <1>8 DEF Beside, Typed, Calls
<1>10. /\ t4 \in Image /\ t4.status = c3.s.status /\ t4.array = c3.s.array /\ t4.block = c3.s.block
       /\ t4.quota = length /\ t4.tail = c3.s.tail /\ t4.length = c3.s.length /\ t4.root = c3.s.root
       /\ t4.size = c3.s.size /\ t4.capacity = c3.s.capacity /\ t4.ninfo = c3.s.ninfo
       /\ t4.torn = c3.s.torn
    BY <1>9 DEF Image, t4
<1>11. Beside(c3, c4) /\ (Ok(c4) => Ok(c3) /\ c4.s = t4)
    BY <1>9, <1>10, ThenBeside DEF c4
<1>12. c4.s \in Image /\ Typed(c4)
    BY <1>11 DEF Beside, Typed, Calls
<1>13. /\ t5 \in Image /\ t5.status = c4.s.status /\ t5.array = c4.s.array /\ t5.block = c4.s.block
       /\ t5.tail0 = 1 /\ t5.places = 0 /\ t5.lost = {}
       /\ t5.quota = c4.s.quota /\ t5.tail = c4.s.tail /\ t5.length = c4.s.length
       /\ t5.root = c4.s.root /\ t5.size = c4.s.size /\ t5.capacity = c4.s.capacity
       /\ t5.ninfo = c4.s.ninfo /\ t5.torn = c4.s.torn
    BY <1>12 DEF Image, t5
<1>14. Beside(c4, c5) /\ (Ok(c5) => Ok(c4) /\ c5.s = t5)
    BY <1>12, <1>13, ReallocBeside DEF c5
<1>15. c5.s \in Image /\ Typed(c5)
    BY <1>14 DEF Beside, Typed, Calls
<1>16. /\ t6 \in Image /\ t6.status = c5.s.status /\ t6.array = c5.s.array /\ t6.block = c5.s.block
       /\ t6.quota0 = 1 /\ t6.tail0 = c5.s.tail0 /\ t6.places = c5.s.places /\ t6.lost = c5.s.lost
       /\ t6.quota = c5.s.quota /\ t6.tail = c5.s.tail /\ t6.length = c5.s.length
       /\ t6.root = c5.s.root /\ t6.size = c5.s.size /\ t6.capacity = c5.s.capacity
       /\ t6.ninfo = c5.s.ninfo /\ t6.torn = c5.s.torn
    BY <1>15 DEF Image, t6
<1>17. Beside(c5, e) /\ (Ok(e) => Ok(c5) /\ e.s = t6)
    BY <1>15, <1>16, ThenBeside DEF e
<1>18. Typed(e) /\ e.s \in Image
    BY <1>17 DEF Beside, Typed, Calls
<1>19. ASSUME Ready(c.s) \/ Loaded(c.s)
       PROVE  e.s.status # "fault" /\ e.s.array = c.s.array /\ e.s.block = c.s.block
    <2>1. there
        BY <1>1, <1>19, ReadyReads DEF there
    <2>2. fits
        BY <1>1, <1>19, ReadyReads DEF fits
    <2>3. c0 = c /\ c2 = c1
        BY <1>3, <1>6, <2>1, <2>2
    <2> QED BY <1>4, <1>8, <1>11, <1>14, <1>17, <2>3 DEF Beside, Ok
<1>20. ASSUME Ok(e)
       PROVE  /\ e.s.array = c.s.array /\ e.s.block = c.s.block /\ e.s.ninfo = c.s.ninfo
              /\ e.s.root = c.s.root /\ e.s.size = c.s.size /\ e.s.capacity = c.s.capacity
              /\ e.s.length = length /\ e.s.tail = length /\ e.s.quota = length
              /\ e.s.tail0 = 1 /\ e.s.places = 0 /\ e.s.lost = {} /\ e.s.quota0 = 1
              /\ e.s.torn = c.s.torn
    <2>1. Ok(c5) /\ Ok(c4) /\ Ok(c3) /\ Ok(c2) /\ Ok(c1) /\ Ok(c0) /\ c0 = c
        BY <1>3, <1>4, <1>6, <1>8, <1>11, <1>14, <1>17, <1>20
    <2>2. c2.s = t1 /\ c3.s = t3 /\ c4.s = t4 /\ c5.s = t5 /\ e.s = t6
        BY <1>4, <1>6, <1>8, <1>11, <1>14, <1>17, <1>20, <2>1
    <2> QED BY <1>5, <1>7, <1>10, <1>13, <1>16, <2>1, <2>2
<1>21. ASSUME Ready(c.s), Ok(e) PROVE Ready(e.s)
    <2>1. length <= length
        OBVIOUS
    <2>2. /\ e.s.root /\ ~ e.s.torn /\ e.s.lost = {} /\ 1 <= e.s.size /\ e.s.size <= e.s.capacity
          /\ e.s.capacity <= e.s.array /\ e.s.capacity <= e.s.ninfo /\ e.s.capacity <= e.s.block
        BY <1>20, <1>21 DEF Ready
    <2>3. /\ Header <= e.s.length /\ e.s.length <= e.s.quota /\ e.s.quota <= e.s.tail
          /\ e.s.places < e.s.quota0 /\ e.s.quota0 <= e.s.tail0
        BY <1>20, <1>21, <2>1
    <2>4. Asked(e.s) = e.s.length
        BY <1>18, <1>20, <1>21, AskedBounds
    <2> QED BY <2>2, <2>3, <2>4 DEF Ready
<1>22. ASSUME Loaded(c.s), Ok(e) PROVE Loaded(e.s)
    <2>1. length <= length
        OBVIOUS
    <2>2. /\ e.s.root /\ ~ e.s.torn /\ 1 <= e.s.size /\ e.s.size <= e.s.array
          /\ e.s.block = 0 /\ (e.s.ninfo = 0 \/ e.s.ninfo >= e.s.size)
        BY <1>20, <1>22 DEF Loaded
    <2>3. /\ Header <= e.s.length /\ e.s.length <= e.s.tail
          /\ e.s.places = 0 /\ e.s.tail0 >= 1 /\ e.s.lost = {}
        BY <1>20, <1>22, <2>1
    <2> QED BY <2>2, <2>3 DEF Loaded
<1> QED BY <1>2, <1>18, <1>19, <1>21, <1>22

LEMMA SaveTyped ==
    ASSUME NEW c, Typed(c), Ok(c), NEW shrink \in BOOLEAN, NEW length \in Nat,
           shrink /\ (Ready(c.s) \/ Loaded(c.s)) => Header <= length /\ length <= Asked(c.s)
    PROVE  LET e == Save(c, shrink, length)
           IN  /\ Typed(e)
               /\ Ready(c.s) => Safe(e)
               /\ Loaded(c.s) => Held(e) /\ (Ok(e) => Loaded(e.s))
<1> DEFINE d == IF shrink THEN shrink_tail(c, length) ELSE c
           there == Readable(d.s) /\ d.s.array >= d.s.size
<1> HIDE DEF d, there
<1>1. /\ Typed(d)
      /\ Ready(c.s) \/ Loaded(c.s) =>
           d.s.status # "fault" /\ d.s.array = c.s.array /\ d.s.block = c.s.block
      /\ Ready(c.s) /\ Ok(d) => Ready(d.s)
      /\ Loaded(c.s) /\ Ok(d) => Loaded(d.s)
    BY ShrinkTyped DEF d, Ok
<1>2. there \in BOOLEAN /\ Save(c, shrink, length) = Needs(d, there)
    BY DEF Save, d, there
<1>3. Typed(Needs(d, there))
    BY <1>1, <1>2, NeedsTyped DEF Typed
<1>4. c.s \in Image /\ d.s \in Image /\ d \in Calls
    BY <1>1 DEF Typed, Calls
<1>5. Ready(d.s) \/ Loaded(d.s) => there
    <2>1. Ready(d.s) \/ Loaded(d.s) => Readable(d.s)
        BY <1>4, ReadyReads
    <2>2. Ready(d.s) \/ Loaded(d.s) => d.s.array >= d.s.size
        BY <1>4 DEF Ready, Loaded, Image
    <2> QED BY <2>1, <2>2 DEF there
<1>6. ASSUME Ready(c.s) PROVE Safe(Needs(d, there))
    <2>1. Needs(d, there) = d
        BY <1>1, <1>2, <1>5, <1>6, NeedsKept
    <2>2. c.s.array # 0 /\ c.s.block # 0
        BY <1>4, <1>6 DEF Ready, Image
    <2> QED BY <1>1, <1>4, <1>6, <2>1, <2>2 DEF Safe, Typed
<1>7. ASSUME Loaded(c.s)
      PROVE  /\ Held(Needs(d, there))
             /\ Ok(Needs(d, there)) => Loaded(Needs(d, there).s)
    <2>1. Needs(d, there) = d
        BY <1>1, <1>2, <1>5, <1>7, NeedsKept
    <2>2. c.s.array # 0
        BY <1>4, <1>7 DEF Loaded, Image
    <2> QED BY <1>1, <1>7, <2>1, <2>2 DEF Held
<1> QED BY <1>2, <1>3, <1>6, <1>7

LEMMA DumpsTyped ==
    ASSUME NEW c, Typed(c)
    PROVE  LET e == Dumps(c)
           IN  /\ Typed(e)
               /\ Safe(c) => Safe(e)
               /\ Held(c) => Held(e)
               /\ Ok(e) => Ok(c) /\ e.s = c.s
<1> DEFINE e == Realloc(c, c.s)
<1> HIDE DEF e
<1>1. c.s \in Image /\ c \in Calls
    BY DEF Typed, Calls
<1>2. Beside(c, e) /\ (Ok(e) => Ok(c) /\ e.s = c.s)
    BY <1>1, ReallocBeside DEF e
<1>3. e = Dumps(c)
    BY DEF Dumps, e
<1> QED BY <1>2, <1>3 DEF Beside, Safe, Held, Typed
-----------------------------------------------------------------------------
(* Steps.                                                                  *)

LEMMA BegunTyped ==
    ASSUME TypeOK, NEW left \in Nat
    PROVE  /\ Typed(Begun(left)) /\ Ok(Begun(left)) /\ Begun(left).left = left
           /\ Begun(left).s.block = im.block /\ Asked(Begun(left).s) = Asked(im)
           /\ Ready(im) <=> Ready(Begun(left).s)
           /\ Loaded(im) <=> Loaded(Begun(left).s)
<1> DEFINE t == [im EXCEPT !.status = "ok"]
<1> HIDE DEF t
<1>1. im \in Image
    BY DEF TypeOK, Image, Statuses
<1>2. /\ t \in Image /\ t.status = "ok" /\ t.root = im.root /\ t.lost = im.lost /\ t.size = im.size
      /\ t.capacity = im.capacity /\ t.array = im.array /\ t.ninfo = im.ninfo /\ t.block = im.block
      /\ t.length = im.length /\ t.quota = im.quota /\ t.tail = im.tail /\ t.places = im.places
      /\ t.quota0 = im.quota0 /\ t.tail0 = im.tail0 /\ t.torn = im.torn
    BY <1>1 DEF Image, Statuses, t
<1>3. Begun(left) \in Calls /\ Begun(left).s = t /\ Begun(left).left = left
    BY <1>2, GoingIsCall DEF Begun, t
<1>4. Asked(t) = Asked(im)
    BY <1>2 DEF Asked
<1>5. (Ready(im) <=> Ready(t)) /\ (Loaded(im) <=> Loaded(t))
    BY <1>2, <1>4 DEF Ready, Loaded
<1> QED BY <1>2, <1>3, <1>4, <1>5 DEF Typed, Ok

\* What a call of that kind makes of an image that was loaded.
Answers(c, kind) ==
    IF kind = "erase" THEN c.s.status = "fault"
    ELSE /\ Held(c)
         /\ Ok(c) => IF kind = "update" THEN Ready(c.s) ELSE Loaded(c.s)
         /\ kind = "find" => Ok(c)

\* What a call makes of the image it began on.
Serves(c, kind) ==
    /\ kind \in Cycle!Ordinary
    /\ Typed(c)
    /\ Ready(im)  => Safe(c) /\ (Ok(c) \/ kind \in {"update", "save"})
    /\ Loaded(im) => Answers(c, kind)

\* A ready trie keeps its table of blocks, so it is not a loaded one.
LEMMA ReadyNotLoaded ==
    ASSUME NEW s \in Image, Ready(s)
    PROVE  ~ Loaded(s) /\ s.array # 0 /\ s.block # 0
BY DEF Ready, Loaded, Image

LEMMA SafeFromReady ==
    ASSUME NEW c, Typed(c), Ok(c), Ready(c.s)
    PROVE  Safe(c)
BY ReadyNotLoaded DEF Safe, Typed, Calls, Ok

LEMMA HeldFromLoaded ==
    ASSUME NEW c, Typed(c), Ok(c), Loaded(c.s)
    PROVE  Held(c)
BY DEF Held, Loaded, Typed, Calls, Image, Ok

LEMMA ServesStep ==
    ASSUME TypeOK, Live, NEW c, NEW kind, Serves(c, kind), im' = c.s, call' = kind
    PROVE  Cycle!Next
<1>1. Phase(im)' = Phase(c.s)
    BY DEF Phase, Ready, Loaded, Asked
<1>2. im \in Image /\ c.s \in Image /\ c.s.status \in {"ok", "MemoryError", "fault"}
    BY DEF TypeOK, Image, Statuses, Serves, Typed, Calls
<1>3. im.status # "fault" /\ im.status' = c.s.status /\ kind \in Cycle!Ordinary
    BY DEF Live, Serves
<1>4. CASE Ready(im)
    <2>1. Phase(im) = "ready"
        BY <1>3, <1>4 DEF Phase
    <2>2. Safe(c) /\ (Ok(c) \/ kind \in {"update", "save"})
        BY <1>4 DEF Serves
    <2>3. CASE c.s.status = "ok"
        <3>1. Phase(c.s) = "ready"
            BY <2>2, <2>3 DEF Safe, Phase, Ok
        <3> QED BY <1>1, <1>3, <2>1, <2>3, <3>1 DEF Cycle!Next, Cycle!Works, Cycle!Ends
    <2>4. CASE c.s.status = "MemoryError"
        <3>1. Phase(c.s) \in {"ready", "unsound"}
            BY <1>2, <2>2, <2>4 DEF Safe, Phase, Loaded
        <3>2. kind \in {"update", "save"}
            BY <2>2, <2>4 DEF Ok
        <3> QED BY <1>1, <1>3, <2>1, <2>4, <3>1, <3>2 DEF Cycle!Next, Cycle!Works, Cycle!Ends
    <2> QED BY <2>2, <2>3, <2>4 DEF Safe
<1>5. CASE ~ Ready(im) /\ Loaded(im)
    <2>1. Phase(im) = "loaded"
        BY <1>3, <1>5 DEF Phase
    <2>2. Answers(c, kind)
        BY <1>5 DEF Serves
    <2>3. CASE kind = "erase"
        <3>1. c.s.status = "fault"
            BY <2>2, <2>3 DEF Answers
        <3>2. Phase(c.s) = "fault"
            BY <3>1 DEF Phase
        <3> QED BY <1>1, <1>3, <2>1, <2>3, <3>1, <3>2 DEF Cycle!Next, Cycle!Wakes, Cycle!Ends
    <2>4. CASE kind # "erase"
        <3>1. /\ Held(c) /\ (kind = "find" => Ok(c))
              /\ Ok(c) => IF kind = "update" THEN Ready(c.s) ELSE Loaded(c.s)
            BY <2>2, <2>4 DEF Answers
        <3>2. kind \in {"update", "find", "begin", "save"}
            BY <1>3, <2>4 DEF Cycle!Ordinary
        <3>3. CASE c.s.status = "ok" /\ kind = "update"
            <4>1. Phase(c.s) = "ready"
                BY <3>1, <3>3 DEF Phase, Ok
            <4> QED BY <1>1, <1>3, <2>1, <3>3, <4>1 DEF Cycle!Next, Cycle!Wakes, Cycle!Ends
        <3>4. CASE c.s.status = "ok" /\ kind # "update"
            <4>1. Loaded(c.s)
                BY <3>1, <3>4 DEF Ok
            <4>2. Phase(c.s) = "loaded"
                BY <1>2, <3>4, <4>1, ReadyNotLoaded DEF Phase
            <4> QED BY <1>1, <1>3, <2>1, <3>2, <3>4, <4>2 DEF Cycle!Next, Cycle!Wakes, Cycle!Ends
        <3>5. CASE c.s.status = "MemoryError"
            <4>1. Phase(c.s) \in {"ready", "loaded", "unsound"}
                BY <1>2, <3>1, <3>5 DEF Held, Phase
            <4>2. kind \in {"update", "begin", "save"}
                BY <3>1, <3>2, <3>5 DEF Ok
            <4> QED BY <1>1, <1>3, <2>1, <3>5, <4>1, <4>2 DEF Cycle!Next, Cycle!Wakes, Cycle!Ends
        <3>6. c.s.status # "fault"
            BY <3>1 DEF Held
        <3> QED BY <1>2, <3>3, <3>4, <3>5, <3>6
    <2> QED BY <2>3, <2>4
<1>6. CASE ~ Ready(im) /\ ~ Loaded(im)
    <2>1. Phase(im) \in {"bare", "unsound"}
        BY <1>3, <1>6 DEF Phase
    <2>2. CASE c.s.status = "fault"
        <3>1. Phase(c.s) = "fault"
            BY <2>2 DEF Phase
        <3> QED BY <1>1, <1>3, <2>1, <2>2, <3>1 DEF Cycle!Next, Cycle!Gropes, Cycle!Ends
    <2>3. CASE c.s.status # "fault"
        <3>1. Phase(c.s) \in {"bare", "unsound", "ready", "loaded"}
            BY <2>3 DEF Phase
        <3> QED BY <1>1, <1>2, <1>3, <2>1, <2>3, <3>1 DEF Cycle!Next, Cycle!Gropes, Cycle!Ends
    <2> QED BY <2>2, <2>3
<1> QED BY <1>4, <1>5, <1>6

\* What follows an update that was cut off, or that stores its key.
LEMMA CutOffKept ==
    ASSUME NEW c, Typed(c), NEW torn \in BOOLEAN
    PROVE  LET d == CutOff(c, torn)
           IN  /\ Typed(d) /\ (Safe(c) => Safe(d)) /\ (Ok(d) => d = c)
<1> DEFINE t == [c.s EXCEPT !.torn = @ \/ torn]
<1> HIDE DEF t
<1>1. c \in Calls /\ c.s \in Image /\ c.left \in Nat
    BY DEF Typed, Calls
<1>2. CASE c.s.status = "MemoryError"
    <2>1. CutOff(c, torn) = Going(t, c.left)
        BY <1>2 DEF CutOff, t
    <2>2. /\ t \in Image /\ t.status = "MemoryError"
          /\ t.array = c.s.array /\ t.block = c.s.block
        <3>1. (c.s.torn \/ torn) \in BOOLEAN
            BY <1>1 DEF Image
        <3> QED BY <1>1, <1>2, <3>1 DEF Image, t
    <2>3. CutOff(c, torn) \in Calls /\ CutOff(c, torn).s = t
        BY <1>1, <2>1, <2>2, GoingIsCall
    <2> QED BY <2>2, <2>3 DEF Typed, Safe, Ok
<1>3. CASE c.s.status # "MemoryError"
    BY <1>3 DEF CutOff
<1> QED BY <1>2, <1>3

LEMMA StoresKept ==
    ASSUME NEW c, Typed(c)
    PROVE  Typed(Stores(c)) /\ (Safe(c) => Safe(Stores(c)))
<1> DEFINE t == [c.s EXCEPT !.keys = TRUE]
           d == Then(c, t)
<1> HIDE DEF t, d
<1>1. c \in Calls /\ c.s \in Image
    BY DEF Typed, Calls
<1>2. /\ t \in Image /\ t.status = c.s.status /\ t.block = c.s.block /\ t.root = c.s.root
      /\ t.torn = c.s.torn /\ t.lost = c.s.lost /\ t.size = c.s.size /\ t.capacity = c.s.capacity
      /\ t.array = c.s.array /\ t.ninfo = c.s.ninfo /\ t.length = c.s.length
      /\ t.quota = c.s.quota /\ t.tail = c.s.tail /\ t.places = c.s.places
      /\ t.quota0 = c.s.quota0 /\ t.tail0 = c.s.tail0
    BY <1>1 DEF Image, t
<1>3. d \in Calls /\ (~ Ok(c) => d = c) /\ (Ok(c) => d.s = t)
    BY <1>1, <1>2, ThenTyped DEF d
<1>4. Typed(d)
    BY <1>2, <1>3 DEF Typed
<1>5. ASSUME Safe(c) PROVE Safe(d)
    <2>1. CASE ~ Ok(c)
        BY <1>3, <1>5, <2>1
    <2>2. CASE Ok(c)
        <3>1. Asked(t) = Asked(c.s)
            BY <1>2 DEF Asked
        <3>2. Ready(c.s) /\ c.s.array # 0 /\ c.s.block # 0 /\ c.s.status = "ok"
            BY <1>5, <2>2 DEF Safe, Ok
        <3>3. Ready(t)
            BY <1>2, <3>1, <3>2 DEF Ready
        <3> QED BY <1>2, <1>3, <2>2, <3>2, <3>3 DEF Safe
    <2> QED BY <2>1, <2>2
<1>6. Stores(c) = CutOff(d, TRUE)
    BY DEF Stores, d, t
<1> QED BY <1>4, <1>5, <1>6, CutOffKept

LEMMA UpdateBeginServes ==
    ASSUME TypeOK, UpdateBegin
    PROVE  \E c : /\ Serves(c, "update") /\ im' = c.s /\ call' = "update"
                  /\ (Ok(c) => c.s.block # 0) /\ busy' = Ok(c)
<1>1. PICK left \in 0 .. 2 : GoesOn(update(Begun(left)))
    BY DEF UpdateBegin
<1> DEFINE c == Begun(left)
           d == update(c)
<1> HIDE DEF c, d
<1>2. Typed(c) /\ Ok(c) /\ (Ready(im) => Ready(c.s)) /\ (Loaded(im) => Loaded(c.s))
    BY BegunTyped DEF c
<1>3. /\ Typed(d) /\ (Ok(d) => d.s.block # 0)
      /\ Ready(c.s) => d = c
      /\ Loaded(c.s) => Held(d) /\ (Ok(d) => Ready(d.s))
    BY <1>2, UpdateTyped DEF d
<1>4. Serves(d, "update")
    BY <1>2, <1>3, SafeFromReady DEF Serves, Answers, Cycle!Ordinary
<1>5. im' = d.s /\ busy' = Ok(d) /\ call' = "update"
    BY <1>1 DEF GoesOn, c, d
<1> QED BY <1>3, <1>4, <1>5

LEMMA UpdateBlockServes ==
    ASSUME TypeOK, UpdateBlock
    PROVE  \E c : /\ Serves(c, "update") /\ im' = c.s /\ call' = "update"
                  /\ (Ok(c) => c.s.block # 0) /\ busy' = Ok(c)
<1>1. PICK left \in 0 .. 3, torn \in BOOLEAN : GoesOn(CutOff(_add_block(Begun(left)), torn))
    BY DEF UpdateBlock
<1> DEFINE c == Begun(left)
           b == _add_block(c)
           d == CutOff(b, torn)
<1> HIDE DEF c, b, d
<1>2. Typed(c) /\ Ok(c) /\ (Ready(im) => Ready(c.s))
    BY BegunTyped DEF c
<1>3. Typed(b) /\ (Ok(b) => b.s.block # 0) /\ (Ready(im) => Safe(b))
    BY <1>2, AddBlockTyped, AddBlockSafe, SafeFromReady DEF b
<1>4. Typed(d) /\ (Ok(d) => d.s.block # 0) /\ (Ready(im) => Safe(d))
    BY <1>3, CutOffKept DEF d
<1>5. ~ Loaded(im)
    BY DEF TypeOK, UpdateBlock, Loaded
<1>6. im' = d.s /\ busy' = Ok(d) /\ call' = "update"
    BY <1>1 DEF GoesOn, b, c, d
<1>7. Serves(d, "update")
    BY <1>4, <1>5 DEF Serves, Cycle!Ordinary
<1> QED BY <1>4, <1>6, <1>7

LEMMA UpdatePlaceServes ==
    ASSUME TypeOK, UpdatePlace
    PROVE  \E c : /\ Serves(c, "update") /\ im' = c.s /\ call' = "update"
                  /\ (Ok(c) => c.s.block # 0) /\ busy' = Ok(c)
<1>1. /\ im.lost # {} \/ Header + 1 + ValueCells <= Asked(im)
      /\ \E left \in 0 .. 1, torn \in BOOLEAN : GoesOn(CutOff(PushPlace(Begun(left)), torn))
    BY DEF UpdatePlace
<1>2. PICK left \in 0 .. 1, torn \in BOOLEAN : GoesOn(CutOff(PushPlace(Begun(left)), torn))
    BY <1>1
<1> DEFINE c == Begun(left)
           b == PushPlace(c)
           d == CutOff(b, torn)
<1> HIDE DEF c, b, d
<1>3. /\ Typed(c) /\ Ok(c) /\ (Ready(im) => Ready(c.s)) /\ c.s.block = im.block
      /\ Asked(c.s) = Asked(im)
    BY BegunTyped DEF c
<1>4. Typed(b) /\ b.s.block = im.block
    BY <1>3, PushPlaceTyped DEF b
<1>5. ASSUME Ready(im) PROVE Safe(b)
    <2>1. Header + 1 + ValueCells <= Asked(c.s)
        BY <1>1, <1>3, <1>5 DEF Ready
    <2> QED BY <1>3, <1>5, <2>1, PushPlaceSafe, SafeFromReady DEF b
<1>6. Typed(d) /\ (Ok(d) => d.s.block = im.block) /\ (Ready(im) => Safe(d))
    BY <1>4, <1>5, CutOffKept DEF d
<1>7. ~ Loaded(im) /\ im.block # 0
    BY DEF TypeOK, UpdatePlace, Loaded
<1>8. im' = d.s /\ busy' = Ok(d) /\ call' = "update"
    BY <1>2 DEF GoesOn, b, c, d
<1>9. Serves(d, "update")
    BY <1>6, <1>7 DEF Serves, Cycle!Ordinary
<1> QED BY <1>6, <1>7, <1>8, <1>9

LEMMA UpdateEndServes ==
    ASSUME TypeOK, UpdateEnd
    PROVE  \E c : Serves(c, "update") /\ im' = c.s /\ call' = "update" /\ busy' = FALSE
<1>1. PICK left \in 0 .. 1, rest \in -1 .. MaxRest :
        Ends("update", Stores(AddSuffix(Begun(left), rest)))
    BY DEF UpdateEnd
<1> DEFINE c == Begun(left)
           b == AddSuffix(c, rest)
           d == Stores(b)
<1> HIDE DEF c, b, d
<1>2. Typed(c) /\ Ok(c) /\ (Ready(im) => Ready(c.s))
    BY BegunTyped DEF c
<1>3. Typed(b) /\ (Ready(im) => Safe(b))
    BY <1>2, AddSuffixKept, SafeFromReady DEF b
<1>4. Typed(d) /\ (Ready(im) => Safe(d))
    BY <1>3, StoresKept DEF d
<1>5. ~ Loaded(im)
    BY DEF TypeOK, UpdateEnd, Loaded
<1>6. im' = d.s /\ busy' = FALSE /\ call' = "update"
    BY <1>1 DEF Ends, b, c, d
<1>7. Serves(d, "update")
    BY <1>4, <1>5 DEF Serves, Cycle!Ordinary
<1> QED BY <1>6, <1>7

LEMMA ReadersServe ==
    ASSUME TypeOK, Erase \/ Find \/ Begin
    PROVE  \E c, kind : Serves(c, kind) /\ im' = c.s /\ call' = kind /\ busy' = FALSE
<1>1. PICK left \in {0, 1}, keys \in BOOLEAN : \/ Ends("erase", erase(Begun(left), keys))
                                               \/ Ends("find", Lookup(Begun(left)))
                                               \/ Ends("begin", begin(Begun(left)))
    BY DEF Erase, Find, Begin
<1> DEFINE c == Begun(left)
           d == erase(c, keys)
<1> HIDE DEF c, d
<1>2. Typed(c) /\ Ok(c) /\ (Ready(im) => Ready(c.s)) /\ (Loaded(im) => Loaded(c.s))
    BY BegunTyped DEF c
<1>3. Serves(d, "erase")
    <2>1. /\ Typed(d)
          /\ Ready(c.s) => Ok(d) /\ Ready(d.s)
          /\ Loaded(c.s) => d.s.status = "fault"
        BY <1>2, EraseTyped DEF d
    <2> QED BY <1>2, <2>1, SafeFromReady DEF Serves, Answers, Cycle!Ordinary
<1>4. Serves(Lookup(c), "find")
    <2>1. Typed(Lookup(c)) /\ (Ready(c.s) \/ Loaded(c.s) => Lookup(c) = c)
        BY <1>2, LookupTyped
    <2> QED BY <1>2, <2>1, SafeFromReady, HeldFromLoaded DEF Serves, Answers, Cycle!Ordinary
<1>5. Serves(begin(c), "begin")
    <2>1. /\ Typed(begin(c))
          /\ Ready(c.s) => begin(c) = c
          /\ Loaded(c.s) => Held(begin(c)) /\ (Ok(begin(c)) => Loaded(begin(c).s))
        BY <1>2, BeginTyped
    <2> QED BY <1>2, <2>1, SafeFromReady DEF Serves, Answers, Cycle!Ordinary
<1>6. CASE Ends("erase", d)
    BY <1>3, <1>6 DEF Ends
<1>7. CASE Ends("find", Lookup(c))
    BY <1>4, <1>7 DEF Ends
<1>8. CASE Ends("begin", begin(c))
    BY <1>5, <1>8 DEF Ends
<1> QED BY <1>1, <1>6, <1>7, <1>8 DEF c, d

\* The cells shrink_tail copies fit what it asks for.
LEMMA CopiedFits ==
    ASSUME TypeOK, Live, NEW length \in Copied(im)
    PROVE  /\ length \in Nat
           /\ Ready(im) \/ Loaded(im) => Header <= length /\ length <= Asked(im)
<1>1. im \in Image /\ im.length \in Nat /\ Header \in Nat /\ Asked(im) \in Int
    <2>1. im \in Image
        BY DEF TypeOK, Image, Statuses
    <2> QED BY <2>1, AskedBounds, ImageAssumption DEF Image
<1>2. CASE Ready(im) \/ Loaded(im)
    <2>1. Phase(im) \in {"ready", "loaded"}
        BY <1>2 DEF Live, Phase
    <2>2. length \in {Header, Asked(im)}
        BY <2>1 DEF Copied
    <2>3. Header <= Asked(im)
        BY <1>1, <1>2, ReadyReads
    <2> QED BY <1>1, <2>2, <2>3
<1>3. CASE ~ (Ready(im) \/ Loaded(im))
    <2>1. Phase(im) \notin {"ready", "loaded"}
        BY <1>3 DEF Live, Phase
    <2>2. length \in {Header, im.length, im.length + 1}
        BY <2>1 DEF Copied
    <2> QED BY <1>1, <1>3, <2>2
<1> QED BY <1>2, <1>3

LEMMA SaveOrDumpServes ==
    ASSUME TypeOK, Live, SaveOrDump
    PROVE  \E c : Serves(c, "save") /\ im' = c.s /\ call' = "save" /\ busy' = FALSE
<1>1. PICK left \in 0 .. 3, shrink \in BOOLEAN :
        \E length \in IF shrink THEN Copied(im) ELSE {im.length} :
        LET d == Save(Begun(left), shrink, length)
        IN  Ends("save", d) \/ Ends("save", Dumps(Going(d.s, 0)))
    BY DEF SaveOrDump
<1>2. PICK length \in IF shrink THEN Copied(im) ELSE {im.length} :
        \/ Ends("save", Save(Begun(left), shrink, length))
        \/ Ends("save", Dumps(Going(Save(Begun(left), shrink, length).s, 0)))
    BY <1>1
<1> DEFINE c == Begun(left)
           d == Save(c, shrink, length)
           b == Going(d.s, 0)
           e == Dumps(b)
<1> HIDE DEF c, d, b, e
<1>3. /\ Typed(c) /\ Ok(c) /\ (Ready(im) <=> Ready(c.s)) /\ (Loaded(im) <=> Loaded(c.s))
      /\ Asked(c.s) = Asked(im) /\ c.s.block = im.block
    BY BegunTyped DEF c
<1>4. /\ length \in Nat
      /\ shrink /\ (Ready(c.s) \/ Loaded(c.s)) => Header <= length /\ length <= Asked(c.s)
    <2>1. im.length \in Nat
        BY DEF TypeOK
    <2>2. CASE shrink
        BY <1>2, <1>3, <2>2, CopiedFits
    <2>3. CASE ~ shrink
        BY <1>2, <2>1, <2>3
    <2> QED BY <2>2, <2>3
<1>5. /\ Typed(d)
      /\ Ready(c.s) => Safe(d)
      /\ Loaded(c.s) => Held(d) /\ (Ok(d) => Loaded(d.s))
    BY <1>3, <1>4, SaveTyped DEF d
<1>6. Serves(d, "save")
    BY <1>3, <1>5 DEF Serves, Answers, Cycle!Ordinary
<1>7. b \in Calls /\ b.s = d.s
    <2>1. d.s \in Image
        BY <1>5 DEF Typed, Calls
    <2> QED BY <2>1, GoingIsCall DEF b
<1>8. Typed(b) /\ (Safe(d) => Safe(b)) /\ (Held(d) => Held(b)) /\ (Ok(b) => Ok(d))
    BY <1>5, <1>7 DEF Typed, Safe, Held, Ok
<1>9. /\ Typed(e) /\ (Safe(b) => Safe(e)) /\ (Held(b) => Held(e))
      /\ Ok(e) => Ok(b) /\ e.s = b.s
    BY <1>8, DumpsTyped DEF e
<1>10. Serves(e, "save")
    BY <1>3, <1>5, <1>7, <1>8, <1>9 DEF Serves, Answers, Cycle!Ordinary
<1>11. CASE Ends("save", d)
    BY <1>6, <1>11 DEF Ends
<1>12. CASE Ends("save", e)
    BY <1>10, <1>12 DEF Ends
<1> QED BY <1>2, <1>11, <1>12 DEF b, c, d, e

LEMMA OpenEnds ==
    ASSUME TypeOK, Live, NEW e \in Calls, Ends("open", e),
           e.s.status \in {"ok", "MemoryError"}, Ok(e) => Ready(e.s) \/ Loaded(e.s)
    PROVE  im' \in Image /\ busy' = FALSE /\ call' = "open" /\ Cycle!Next
<1>1. Phase(im)' = Phase(im') /\ Phase(im) # "fault"
    BY DEF Phase, Ready, Loaded, Asked, Live
<1>2. im' = e.s /\ busy' = FALSE /\ call' = "open" /\ e.s \in Image
    BY DEF Ends, Calls
<1>3. CASE e.s.status = "ok"
    <2>1. Phase(e.s) \in {"ready", "loaded"}
        BY <1>3 DEF Phase, Ok
    <2> QED BY <1>1, <1>2, <1>3, <2>1 DEF Cycle!Next, Cycle!Loads, Cycle!Ends
<1>4. CASE e.s.status = "MemoryError"
    <2>1. Phase(e.s) \in {"ready", "loaded", "bare", "unsound"}
        BY <1>4 DEF Phase
    <2> QED BY <1>1, <1>2, <1>4, <2>1 DEF Cycle!Next, Cycle!Loads, Cycle!Ends
<1> QED BY <1>3, <1>4

LEMMA OpenStep ==
    ASSUME TypeOK, Live, Open
    PROVE  im' \in Image /\ busy' = FALSE /\ call' = "open" /\ Cycle!Next
<1>1. Phase(im)' = Phase(im')
    BY DEF Phase, Ready, Loaded, Asked
<1>2. im \in Image /\ Phase(im) # "fault"
    BY DEF TypeOK, Image, Statuses, Live, Phase
<1>3. CASE Ends("open", Ended(Begun(0), "refused"))
    <2> DEFINE t == [im EXCEPT !.status = "refused"]
    <2>1. im' = t /\ busy' = FALSE /\ call' = "open"
        BY <1>2, <1>3 DEF Ends, Ended, Begun, Going, Image
    <2>2. /\ t \in Image /\ t.status = "refused" /\ t.root = im.root /\ t.lost = im.lost
          /\ t.size = im.size /\ t.capacity = im.capacity /\ t.array = im.array
          /\ t.ninfo = im.ninfo /\ t.block = im.block /\ t.length = im.length
          /\ t.quota = im.quota /\ t.tail = im.tail /\ t.places = im.places
          /\ t.quota0 = im.quota0 /\ t.tail0 = im.tail0 /\ t.torn = im.torn
        BY <1>2 DEF Image, Statuses
    <2> HIDE DEF t
    <2>3. Asked(t) = Asked(im)
        BY <2>2 DEF Asked
    <2>4. Phase(t) = Phase(im)
        BY <1>2, <2>2, <2>3 DEF Phase, Ready, Loaded
    <2> QED BY <1>1, <1>2, <2>1, <2>2, <2>4 DEF Cycle!Next, Cycle!Loads, Cycle!Ends
<1>4. CASE \E left \in 0 .. 5 : Ends("open", Untaken(Begun(left)))
    <2>1. PICK left \in 0 .. 5 : Ends("open", Untaken(Begun(left)))
        BY <1>4
    <2>2. Begun(left) \in Calls
        BY BegunTyped DEF Typed
    <2>3. Untaken(Begun(left)) \in Calls /\ Untaken(Begun(left)).s.status = "MemoryError"
        BY <2>2, UntakenTyped
    <2> QED BY <2>1, <2>3, OpenEnds DEF Ok
<1>5. CASE \E image \in Images :
             \/ Ends("open", open_file(Begun(0), image))
             \/ \E left \in 0 .. 2 : Ends("open", open_mem(Begun(left), image))
             \/ \E root \in BOOLEAN : Ends("open", open_short(Begun(0), image, root))
    <2>1. PICK image \in Images :
             \/ Ends("open", open_file(Begun(0), image))
             \/ \E left \in 0 .. 2 : Ends("open", open_mem(Begun(left), image))
             \/ \E root \in BOOLEAN : Ends("open", open_short(Begun(0), image, root))
        BY <1>5
    <2>2. Begun(0) \in Calls /\ \A left \in 0 .. 2 : Begun(left) \in Calls
        BY BegunTyped DEF Typed
    <2>3. CASE Ends("open", open_file(Begun(0), image))
        <3> DEFINE e == open_file(Begun(0), image)
        <3> HIDE DEF e
        <3>1. e \in Calls /\ e.s.status = "ok" /\ Loaded(e.s)
            BY <2>2, OpenFileTyped DEF e, Ok
        <3>2. Ends("open", e)
            BY <2>3 DEF e
        <3> QED BY <3>1, <3>2, OpenEnds
    <2>4. CASE \E left \in 0 .. 2 : Ends("open", open_mem(Begun(left), image))
        <3>1. PICK left \in 0 .. 2 : Ends("open", open_mem(Begun(left), image))
            BY <2>4
        <3> DEFINE e == open_mem(Begun(left), image)
        <3> HIDE DEF e
        <3>2. e \in Calls /\ e.s.status \in {"ok", "MemoryError"} /\ (Ok(e) => Ready(e.s))
            BY <2>2, OpenMemTyped DEF e
        <3>3. Ends("open", e)
            BY <3>1 DEF e
        <3> QED BY <3>2, <3>3, OpenEnds
    <2>5. CASE \E root \in BOOLEAN : Ends("open", open_short(Begun(0), image, root))
        <3>1. PICK root \in BOOLEAN : Ends("open", open_short(Begun(0), image, root))
            BY <2>5
        <3> DEFINE e == open_short(Begun(0), image, root)
        <3> HIDE DEF e
        <3>2. e \in Calls /\ e.s.status = "refused" /\ e.s.array # 0 /\ e.s.size = 0
            BY <2>2, OpenShortTyped DEF e
        <3>3. im' = e.s /\ busy' = FALSE /\ call' = "open" /\ e.s \in Image
            BY <3>1, <3>2 DEF Ends, Calls, e
        <3>4. Phase(e.s) = "unsound"
            BY <3>2 DEF Phase, Ready, Loaded
        <3> QED BY <1>1, <1>2, <3>2, <3>3, <3>4 DEF Cycle!Next, Cycle!Loads, Cycle!Ends
    <2> QED BY <2>1, <2>3, <2>4, <2>5
<1> QED BY <1>3, <1>4, <1>5 DEF Open

LEMMA ClearStep ==
    ASSUME TypeOK, Live, Clear
    PROVE  im' \in Image /\ busy' = FALSE /\ call' = "clear" /\ Cycle!Next
<1>1. Phase(im)' = Phase(im')
    BY DEF Phase, Ready, Loaded, Asked
<1>2. Phase(im) # "fault"
    BY DEF Live, Phase
<1>3. CASE \E left \in 0 .. 5 : Ends("clear", clear(Begun(left), TRUE))
    <2>0. PICK left \in 0 .. 5 : Ends("clear", clear(Begun(left), TRUE))
        BY <1>3
    <2> DEFINE e == _initialize(Going(Null("ok"), left))
    <2> HIDE DEF e
    <2>1. im' = e.s /\ busy' = FALSE /\ call' = "clear"
        BY <2>0, BegunTyped DEF Ends, clear, e
    <2>2. /\ e \in Calls /\ e.s.status \in {"ok", "MemoryError"}
          /\ Ok(e) => Ready(e.s)
          /\ ~ Ok(e) => e.s.size = 0
        BY InitializeTyped DEF e
    <2>3. e.s \in Image
        BY <2>2 DEF Calls
    <2>4. CASE Ok(e)
        <3>1. Phase(e.s) = "ready" /\ e.s.status = "ok"
            BY <2>2, <2>4 DEF Phase, Ok
        <3> QED BY <1>1, <1>2, <2>1, <2>3, <3>1 DEF Cycle!Next, Cycle!Clears, Cycle!Ends
    <2>5. CASE ~ Ok(e)
        <3>1. Phase(e.s) \in {"bare", "unsound"} /\ e.s.status = "MemoryError"
            BY <2>2, <2>5 DEF Phase, Ready, Loaded, Ok
        <3> QED BY <1>1, <1>2, <2>1, <2>3, <3>1 DEF Cycle!Next, Cycle!Clears, Cycle!Ends
    <2> QED BY <2>4, <2>5
<1>4. CASE Ends("clear", clear(Begun(0), FALSE))
    <2>1. im' = Null("ok") /\ busy' = FALSE /\ call' = "clear"
        BY <1>4 DEF Ends, clear, Going
    <2>2. Phase(Null("ok")) = "bare" /\ Null("ok").status = "ok"
        BY DEF Phase, Ready, Loaded, Null
    <2>3. Null("ok") \in Image
        BY NullIsImage DEF Statuses
    <2> QED BY <1>1, <1>2, <2>1, <2>2, <2>3 DEF Cycle!Next, Cycle!Clears, Cycle!Ends
<1> QED BY <1>3, <1>4 DEF Clear

-----------------------------------------------------------------------------
(* Theorems.                                                               *)

Kinds == {"update", "erase", "find", "begin", "save", "open", "clear"}

LEMMA ServesTypes ==
    ASSUME NEW c, NEW kind, Serves(c, kind), im' = c.s, call' = kind,
           busy' \in BOOLEAN, busy' => c.s.block # 0
    PROVE  TypeOK'
<1>1. c.s \in Image /\ kind \in Kinds
    BY DEF Serves, Typed, Calls, Kinds, Cycle!Ordinary
<1> QED BY <1>1 DEF TypeOK, Image, Statuses, Kinds

\* Every step that is one of TrieImage is one of LifeCycle and keeps the types.
LEMMA NextKept ==
    ASSUME TypeOK, Next
    PROVE  TypeOK' /\ Cycle!Next
<1>1. Live
    BY DEF Next
<1>2. CASE UpdateBegin \/ UpdateBlock \/ UpdatePlace
    <2>1. PICK c : /\ Serves(c, "update") /\ im' = c.s /\ call' = "update"
                   /\ (Ok(c) => c.s.block # 0) /\ busy' = Ok(c)
        BY <1>2, UpdateBeginServes, UpdateBlockServes, UpdatePlaceServes
    <2>2. Ok(c) \in BOOLEAN
        BY DEF Ok
    <2> QED BY <1>1, <2>1, <2>2, ServesTypes, ServesStep
<1>3. CASE UpdateEnd \/ Erase \/ Find \/ Begin \/ SaveOrDump
    <2>1. PICK c, kind : Serves(c, kind) /\ im' = c.s /\ call' = kind /\ busy' = FALSE
        BY <1>1, <1>3, UpdateEndServes, ReadersServe, SaveOrDumpServes
    <2> QED BY <1>1, <2>1, ServesTypes, ServesStep
<1>4. CASE Open \/ Clear
    <2>1. im' \in Image /\ busy' = FALSE /\ call' \in Kinds /\ Cycle!Next
        BY <1>1, <1>4, OpenStep, ClearStep DEF Kinds
    <2> QED BY <2>1 DEF TypeOK, Image, Statuses, Kinds
<1> QED BY <1>2, <1>3, <1>4 DEF Next

LEMMA InitKept == Init => TypeOK /\ Cycle!Init
<1> SUFFICES ASSUME Init PROVE TypeOK /\ Cycle!Init
    OBVIOUS
<1> DEFINE e == _initialize(Going(Null("ok"), 5))
<1> HIDE DEF e
<1>1. e \in Calls /\ Ok(e) /\ Ready(e.s)
    BY InitializeTyped DEF e
<1>2. im = e.s /\ busy = FALSE /\ call = "clear"
    BY DEF Init, e
<1>3. im \in Image /\ im.status = "ok" /\ Phase(im) = "ready"
    BY <1>1, <1>2 DEF Calls, Ok, Phase
<1> QED BY <1>2, <1>3 DEF TypeOK, Image, Statuses, Cycle!Init

\* The sizes stay what they must be, in every state.
THEOREM ImageTypes == Spec => []TypeOK
<1>1. Init => TypeOK
    BY InitKept
<1>2. TypeOK /\ [Next]_vars => TypeOK'
    <2>1. ASSUME TypeOK, UNCHANGED vars PROVE TypeOK'
        BY <2>1 DEF TypeOK, vars
    <2> QED BY <2>1, NextKept
<1> QED BY <1>1, <1>2, PTL DEF Spec

\* TrieImage implements LifeCycle: no call on a ready trie touches memory that
\* is not there, only a refused allocation makes it less than ready, and on a
\* loaded trie only an erase faults.
THEOREM ImageKeepsStep == Spec => KeepsStep
<1>1. Init => Cycle!Init
    BY InitKept
<1>2. TypeOK /\ [Next]_vars => [Cycle!Next]_<<Phase(im), im.status, call>>
    <2>1. ASSUME UNCHANGED vars PROVE UNCHANGED <<Phase(im), im.status, call>>
        BY <2>1 DEF vars, Phase, Ready, Loaded, Asked
    <2> QED BY <2>1, NextKept
<1> QED BY <1>1, <1>2, ImageTypes, PTL DEF Spec, KeepsStep, Cycle!Spec
=============================================================================
