-------------------------- MODULE BlockLists_proofs --------------------------
(***************************************************************************)
(* Proofs about BlockLists and BlockSearch: whatever the number of blocks, *)
(* their size and MAX_TRIAL, every block is always on the list it belongs  *)
(* on, and the walk along the Open list tries every block once, while its  *)
(* rejections take blocks off that list.                                   *)
(***************************************************************************)
EXTENDS BlockSearch, ListLemmas

\* The inductive invariant: the lists match the blocks, the root stays counted,
\* and the blocks beyond the end of the array are as fresh as _add_block needs.
IInv ==
    /\ TypeOK
    /\ ListsMatchBlocks
    /\ num[0] >= 1
    /\ \A b \in Blocks : b >= nblk => num[b] = B /\ trial[b] = 0
    /\ ~ Ready => \A b \in Blocks : trial[b] = 0

\* It is what the lemmas about the list operations speak of.
LEMMA InvLists == IInv <=> ListsOK(lists, num, trial, nblk, reg)
  BY DEF IInv, TypeOK, ListsMatchBlocks, Members, Ready, ListsOK, EntriesOK, ListRec

LEMMA InvListsNext == ListsOK(lists', num', trial', nblk', reg') => IInv'
  BY DEF IInv, TypeOK, ListsMatchBlocks, Members, Ready, ListsOK, EntriesOK, ListRec

\* The sets of blocks the lists should hold are sets of blocks other than 0.
LEMMA MembersTyped ==
    ASSUME TypeOK
    PROVE  Members \in Listing
  BY BlockAssumption, MembersListing DEF TypeOK, Members

\* The lists are lists.
LEMMA ListsTyped ==
    ASSUME TypeOK
    PROVE  lists \in ListRec
  BY DEF TypeOK, ListRec

-----------------------------------------------------------------------------
\* The invariant holds of a new object (_initialize).
LEMMA InitIInv == Init => IInv
  <1> SUFFICES ASSUME Init PROVE IInv
    OBVIOUS
  <1>1. /\ num \in [Blocks -> 0 .. B] /\ num[0] >= 1 /\ nblk \in 1 .. MaxBlocks
        /\ \A b \in Blocks : b >= nblk => num[b] = B
    BY BlockAssumption DEF Init, Blocks
  <1>2. ListsOK(NoLists, num, [b \in Blocks |-> 0], nblk, 1)
    BY <1>1, NothingListed
  <1> QED
    BY <1>2, InvLists DEF Init

\* A step of _pop_enode.
LEMMA TakeSlotStep ==
    ASSUME IInv, NEW b \in Blocks, TakeSlot(b)
    PROVE  IInv'
  <1> DEFINE k == num[b] - 1
  <1>1. num \in [Blocks -> 0 .. B]
    BY DEF IInv, TypeOK
  <1>2. /\ num' = [num EXCEPT ![b] = k] /\ lists' = ListsAfterTake(lists, b, k, trial[b])
        /\ trial' = trial /\ nblk' = nblk /\ reg' = reg /\ reg = nblk
        /\ b < nblk /\ num[b] > IF b = 0 THEN 1 ELSE 0
    BY <1>1 DEF TakeSlot, Ready
  <1>3. ListsOK(lists, num, trial, nblk, nblk)
    BY <1>2, InvLists
  <1> HIDE DEF k
  <1>4. k = num[b] - 1
    BY DEF k
  <1>5. ListsOK(ListsAfterTake(lists, b, k, trial[b]), [num EXCEPT ![b] = k], trial, nblk, nblk)
    BY <1>2, <1>3, <1>4, TakeLists
  <1>6. ListsOK(lists', num', trial', nblk', reg')
    BY <1>2, <1>5
  <1> QED
    BY <1>6, InvListsNext

\* A step of _push_enode.
LEMMA ReturnSlotStep ==
    ASSUME IInv, NEW b \in Blocks, ReturnSlot(b)
    PROVE  IInv'
  <1> DEFINE k == num[b] + 1
  <1>1. num \in [Blocks -> 0 .. B]
    BY DEF IInv, TypeOK
  <1>2. /\ num' = [num EXCEPT ![b] = k] /\ lists' = ListsAfterReturn(lists, b, k, trial[b])
        /\ k = 1 => trial' = trial
        /\ k # 1 => trial' = [trial EXCEPT ![b] = 0]
        /\ nblk' = nblk /\ reg' = reg /\ reg = nblk /\ b < nblk /\ num[b] < B
    BY <1>1 DEF ReturnSlot, Ready
  <1>3. ListsOK(lists, num, trial, nblk, nblk)
    BY <1>2, InvLists
  <1> HIDE DEF k
  <1>4. k = num[b] + 1
    BY DEF k
  <1>5. ListsOK(ListsAfterReturn(lists, b, k, trial[b]), [num EXCEPT ![b] = k],
                trial', nblk, nblk)
    BY <1>2, <1>3, <1>4, ReturnLists
  <1>6. ListsOK(lists', num', trial', nblk', reg')
    BY <1>2, <1>5
  <1> QED
    BY <1>6, InvListsNext

\* A rejection of _find_place.
LEMMA RejectBlockStep ==
    ASSUME IInv, NEW b \in Blocks, RejectBlock(b)
    PROVE  IInv'
  <1> DEFINE y == trial[b] + 1
  <1>1. trial \in [Blocks -> 0 .. MaxTrial]
    BY DEF IInv, TypeOK
  <1>2. /\ trial' = [trial EXCEPT ![b] = y]
        /\ lists' = IF y = MaxTrial THEN TransferBlock(lists, b, "Open", "Closed", num[b])
                                    ELSE lists
        /\ num' = num /\ nblk' = nblk /\ reg' = reg /\ reg = nblk
        /\ b \in 1 .. nblk - 1 /\ num[b] >= 2 /\ trial[b] < MaxTrial
    BY <1>1 DEF RejectBlock, Ready
  <1>3. ListsOK(lists, num, trial, nblk, nblk)
    BY <1>2, InvLists
  <1> HIDE DEF y
  <1>4. y = trial[b] + 1
    BY DEF y
  <1>5. ListsOK(lists', num, [trial EXCEPT ![b] = y], nblk, nblk)
    BY <1>2, <1>3, <1>4, RejectLists
  <1>6. ListsOK(lists', num', trial', nblk', reg')
    BY <1>2, <1>5
  <1> QED
    BY <1>6, InvListsNext

\* A step of _add_block.
LEMMA AddBlockStep ==
    ASSUME IInv, AddBlock
    PROVE  IInv'
  <1>1. nblk < MaxBlocks /\ reg = nblk /\ ListsOK(lists, num, trial, nblk, nblk)
    BY InvLists DEF AddBlock, Ready
  <1>2. ListsOK(PushBlock(lists, nblk, "Open", B), num, trial, nblk + 1, nblk + 1)
    BY <1>1, AddLists
  <1>3. ListsOK(lists', num', trial', nblk', reg')
    BY <1>1, <1>2 DEF AddBlock
  <1> QED
    BY <1>3, InvListsNext

\* The first step of _restore_block ...
LEMMA RestoreBeginStep ==
    ASSUME IInv, RestoreBegin
    PROVE  IInv'
  <1>1. /\ num \in [Blocks -> 0 .. B] /\ nblk \in 1 .. MaxBlocks /\ num[0] >= 1
        /\ \A b \in Blocks : b >= nblk => num[b] = B
    BY DEF IInv, TypeOK
  <1>2. ListsOK(NoLists, num, [b \in Blocks |-> 0], nblk, 0)
    BY <1>1, NothingListed
  <1>3. ListsOK(lists', num', trial', nblk', reg')
    BY <1>2 DEF RestoreBegin
  <1> QED
    BY <1>3, InvListsNext

\* ... and those that follow.
LEMMA RegisterBlockStep ==
    ASSUME IInv, RegisterBlock
    PROVE  IInv'
  <1>1. /\ num \in [Blocks -> 0 .. B] /\ reg \in 0 .. nblk - 1 /\ nblk \in 1 .. MaxBlocks
        /\ num[0] >= 1 /\ ListsOK(lists, num, trial, nblk, reg) /\ reg # nblk
    BY InvLists DEF IInv, TypeOK, RegisterBlock, Ready
  <1>2. reg \in Blocks /\ num[reg] \in 0 .. B /\ num = [num EXCEPT ![reg] = num[reg]]
    BY <1>1, BlockAssumption DEF Blocks
  <1>3. ListsOK(ListsAfterRegister(lists, reg, num[reg]), [num EXCEPT ![reg] = num[reg]],
                trial, nblk, reg + 1)
    BY <1>1, <1>2, RegisterLists
  <1>4. ListsOK(lists', num', trial', nblk', reg')
    BY <1>2, <1>3 DEF RegisterBlock
  <1> QED
    BY <1>4, InvListsNext

\* Every step keeps the invariant.
LEMMA NextIInv == IInv /\ [Next]_vars => IInv'
  <1> SUFFICES ASSUME IInv, [Next]_vars PROVE IInv'
    OBVIOUS
  <1>1. ASSUME NEW b \in Blocks, TakeSlot(b) PROVE IInv'
    BY <1>1, TakeSlotStep
  <1>2. ASSUME NEW b \in Blocks, ReturnSlot(b) PROVE IInv'
    BY <1>2, ReturnSlotStep
  <1>3. ASSUME NEW b \in Blocks, RejectBlock(b) PROVE IInv'
    BY <1>3, RejectBlockStep
  <1>4. CASE AddBlock
    BY <1>4, AddBlockStep
  <1>5. CASE RestoreBegin
    BY <1>5, RestoreBeginStep
  <1>6. CASE RegisterBlock
    BY <1>6, RegisterBlockStep
  <1>7. CASE UNCHANGED vars
    BY <1>7 DEF vars, IInv, TypeOK, ListsMatchBlocks, Members, Ready
  <1> QED
    BY <1>1, <1>2, <1>3, <1>4, <1>5, <1>6, <1>7 DEF Next

\* The variables keep their types: in particular no list operation ever
\* leads outside the block table.
THEOREM TypeCorrect == Spec => []TypeOK
  <1>1. IInv => TypeOK
    BY DEF IInv
  <1> QED
    BY <1>1, InitIInv, NextIInv, PTL DEF Spec

\* The lists of cedarpp.h always hold exactly the blocks that belong on them,
\* through every take, return, rejection, growth and rebuild.
THEOREM ListsCorrect == Spec => []ListsMatchBlocks
  <1>1. IInv => ListsMatchBlocks
    BY DEF IInv
  <1> QED
    BY <1>1, InitIInv, NextIInv, PTL DEF Spec

\* What _find_place takes from a list head has an empty slot.
THEOREM HeadsCorrect == Spec => []HeadsHaveRoom
  <1>1. IInv => HeadsHaveRoom
    <2> SUFFICES ASSUME IInv, NEW k \in {"Closed", "Open"}, lists.head[k] # 0
                 PROVE  num[lists.head[k]] > 0
      BY DEF HeadsHaveRoom
    <2>1. lists.head[k] \in Members[k]
      BY DEF IInv, ListsMatchBlocks, ListsHold
    <2>2. Belongs(k, num[lists.head[k]], trial[lists.head[k]]) /\ k \in Kinds
      BY <2>1 DEF Members, MembersOf, Kinds
    <2>3. num[lists.head[k]] \in Nat
      BY DEF IInv, TypeOK, Kinds
    <2> QED
      BY <2>2, <2>3 DEF Belongs
  <1> QED
    BY <1>1, InitIInv, NextIInv, PTL DEF Spec

-----------------------------------------------------------------------------
(* The search.                                                             *)

\* Between the block of this round and the end of the list lies exactly what
\* is left to look at: its blocks follow each other up to bz, and none of
\* them is followed by the block of this round.
Walk ==
    /\ ~ grow /\ Ready
    /\ bi \in todo /\ bz \in todo
    /\ todo \subseteq Members["Open"]
    /\ \A x \in todo \ {bz} : lists.next[x] \in todo \ {bi}

SearchInv ==
    /\ IInv
    /\ grow => bi = 0 /\ todo = {}
    /\ bi # 0 => Walk

\* When the round is at the end of the list nothing else is left.
LEMMA WalkEnds ==
    ASSUME IInv, Walk, bi = bz
    PROVE  todo = {bi}
  <1>1. IsRing(Members["Open"], lists.prev, lists.next)
    BY DEF IInv, Walk, ListsMatchBlocks, ListsHold
  <1>2. \A x \in todo \ {bi} : lists.next[x] \in todo \ {bi}
    BY DEF Walk
  <1>3. todo \ {bi} \subseteq Members["Open"] /\ todo \ {bi} # Members["Open"]
    BY DEF Walk
  <1>4. todo \ {bi} = {}
    BY <1>1, <1>2, <1>3 DEF IsRing
  <1> QED
    BY <1>4 DEF Walk

LEMMA LookStep ==
    ASSUME SearchInv, Look
    PROVE  SearchInv'
  <1>1. IInv' /\ Members' = Members /\ lists' = lists /\ Ready'
    BY NextIInv DEF SearchInv, Look, Members, Ready, vars
  <1> DEFINE h == lists.head["Open"]
  <1>2. CASE h = 0
    <2>1. Members["Open"] = {}
      BY <1>2, MembersTyped DEF SearchInv, IInv, ListsMatchBlocks, ListsHold, Listing, Kinds
    <2> QED
      BY <1>1, <1>2, <2>1 DEF SearchInv, Look
  <1>3. CASE h # 0
    <2>1. IsRing(Members["Open"], lists.prev, lists.next) /\ h \in Members["Open"]
      BY <1>3 DEF SearchInv, IInv, ListsMatchBlocks, ListsHold
    <2>2. bi' = h /\ bz' = lists.prev[h] /\ grow' = FALSE /\ todo' = Members["Open"]
      BY <1>3 DEF Look
    <2>3. \A x \in todo' \ {bz'} : lists.next[x] \in todo' \ {bi'}
      BY <2>1, <2>2 DEF IsRing
    <2>4. bz' \in todo'
      BY <2>1, <2>2 DEF IsRing
    <2> QED
      BY <1>1, <2>1, <2>2, <2>3, <2>4 DEF SearchInv, Walk
  <1> QED
    BY <1>2, <1>3

LEMMA RejectStep ==
    ASSUME SearchInv, Reject
    PROVE  SearchInv'
  <1>1. IInv /\ Walk /\ bi \in todo /\ bz \in todo
    BY DEF SearchInv, Reject, Walk
  <1>2. /\ bi \in 1 .. reg - 1 /\ bi \in Blocks /\ bi # 0
        /\ Belongs("Open", num[bi], trial[bi])
    BY <1>1, MembersTyped DEF Walk, Members, MembersOf, Kinds, IInv, Listing
  <1>3. trial[bi] < MaxTrial /\ num[bi] \in 0 .. B
    BY <1>1, <1>2, BlockAssumption DEF IInv, TypeOK, Belongs
  <1>4. RejectBlock(bi)
    BY <1>3 DEF Reject
  <1>5. IInv' /\ Ready'
    BY <1>1, <1>2, <1>4, RejectBlockStep DEF IInv, RejectBlock, Ready
  <1>6. CASE bi = bz
    BY <1>1, <1>5, <1>6, WalkEnds DEF SearchInv, Reject
  <1>7. CASE bi # bz
    <2>1. bi' = lists.next[bi] /\ bz' = bz /\ todo' = todo \ {bi} /\ grow' = FALSE
      BY <1>7 DEF Reject, Following
    <2>2. bi' \in todo' /\ bz' \in todo'
      BY <2>1, <1>1, <1>7 DEF Walk
    <2>3. todo' \subseteq Members'["Open"]
      <3> SUFFICES ASSUME NEW x \in todo, x # bi PROVE x \in Members'["Open"]
        BY <2>1
      <3>1. x \in 1 .. reg - 1 /\ Belongs("Open", num[x], trial[x])
        BY <1>1 DEF Walk, Members, MembersOf, Kinds
      <3>2. num' = num /\ reg' = reg /\ trial' = [trial EXCEPT ![bi] = @ + 1]
        BY <1>4 DEF RejectBlock
      <3>3. trial'[x] = trial[x]
        BY <3>2, <1>1 DEF IInv, TypeOK
      <3> QED
        BY <3>1, <3>2, <3>3 DEF Members, MembersOf, Kinds
    <2>4. ASSUME NEW x \in todo' \ {bz'}
          PROVE  lists'.next[x] \in todo' \ {bi'}
      <3>1. x \in todo /\ x # bz /\ x # bi /\ lists.next[x] \in todo \ {bi}
        BY <2>1, <2>4, <1>1 DEF Walk
      <3>2. /\ Members \in Listing /\ lists \in ListRec /\ ListsHold(lists, Members)
            /\ x \in Members["Open"] /\ bi \in Members["Open"] /\ lists.next[x] # bi
        BY <3>1, <1>1, MembersTyped, ListsTyped DEF IInv, ListsMatchBlocks, Walk
      <3>3. lists.next[x] # lists.next[bi]
        <4>1. IsRing(Members["Open"], lists.prev, lists.next)
          BY <3>2 DEF ListsHold
        <4>2. lists.prev[lists.next[x]] = x /\ lists.prev[lists.next[bi]] = bi
          BY <3>2, <4>1 DEF IsRing
        <4> QED
          BY <4>2, <3>1
      <3>4. \/ lists' = lists
            \/ lists' = TransferBlock(lists, bi, "Open", "Closed", num[bi])
        BY <1>4 DEF RejectBlock
      <3>5. lists'.next[x] = lists.next[x]
        BY <3>1, <3>2, <3>4, <1>3, TransferNext
      <3> QED
        BY <3>1, <3>3, <3>5, <2>1
    <2>5. ~ grow'
      BY <2>1
    <2> QED
      BY <1>5, <2>2, <2>3, <2>4, <2>5 DEF SearchInv, Walk
  <1> QED
    BY <1>6, <1>7

LEMMA SearchInvHolds == SearchInit /\ [][SearchNext]_searchVars => []SearchInv
  <1>1. SearchInit => SearchInv
    BY InitIInv DEF SearchInit, SearchInv
  <1>2. SearchInv /\ [SearchNext]_searchVars => SearchInv'
    <2> SUFFICES ASSUME SearchInv, [SearchNext]_searchVars PROVE SearchInv'
      OBVIOUS
    <2>1. CASE Other
      <3>1. Next
        BY <2>1 DEF Other, Next
      <3>2. IInv'
        BY <3>1, NextIInv DEF SearchInv
      <3> QED
        BY <2>1, <3>2 DEF Other, Idle, search, SearchInv
    <2>2. CASE Look
      BY <2>2, LookStep
    <2>3. CASE Settle
      BY <2>3, NextIInv DEF Settle, NoSearch, SearchInv
    <2>4. CASE Reject
      BY <2>4, RejectStep
    <2>5. CASE Grow
      <3>1. [Next]_vars
        BY <2>5 DEF Grow, Next
      <3> QED
        BY <2>5, <3>1, NextIInv DEF Grow, NoSearch, SearchInv
    <2>6. CASE UNCHANGED searchVars
      <3>1. IInv' /\ (Walk => Walk')
        BY <2>6, NextIInv DEF searchVars, search, vars, SearchInv, Walk, Ready, Members
      <3> QED
        BY <2>6, <3>1 DEF searchVars, search, SearchInv
    <2> QED
      BY <2>1, <2>2, <2>3, <2>4, <2>5, <2>6 DEF SearchNext
  <1> QED
    BY <1>1, <1>2, PTL

\* The search of _find_place(first, last) tries every Open block once and
\* asks for a new block only when none is left, for any number of blocks.
THEOREM EveryOpenBlockTried == SearchSpec => []EachOpenTried
  <1>1. SearchInv => EachOpenTried
    BY DEF SearchInv, Walk, EachOpenTried
  <1> QED
    BY <1>1, SearchInvHolds, PTL DEF SearchSpec

\* The lists stay right under the search too: a walk in progress never finds
\* a block on a list it does not belong on.
THEOREM SearchListsCorrect == SearchSpec => []ListsMatchBlocks
  <1>1. SearchInv => ListsMatchBlocks
    BY DEF SearchInv, IInv
  <1> QED
    BY <1>1, SearchInvHolds, PTL DEF SearchSpec
=============================================================================
