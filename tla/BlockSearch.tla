---------------------------- MODULE BlockSearch ----------------------------
(***************************************************************************)
(* The loop of _find_place(first, last) of cedar::da (cedarpp.h) over the  *)
(* Open list, round by round.  A round looks at one block: the labels fit  *)
(* and the call returns, or the block is rejected, which may move it off   *)
(* the very list the loop walks along.  The loop ends at the block that    *)
(* was the last of the list when the call began; a search that found no    *)
(* room asks for a new block.  Whether labels fit is NodePool's matter.    *)
(***************************************************************************)
EXTENDS BlockLists

VARIABLES
    bi,      \* bi, the block of this round; 0 between searches
    bz,      \* bz, where the loop ends
    grow,    \* the loop ended and _add_block is called
    todo     \* ghost: the blocks that were Open and are not yet looked at

search == <<bi, bz, grow, todo>>
searchVars == <<vars, search>>

Idle == bi = 0 /\ ~ grow

NoSearch == bi' = 0 /\ bz' = 0 /\ grow' = FALSE /\ todo' = {}

SearchInit == Init /\ bi = 0 /\ bz = 0 /\ grow = FALSE /\ todo = {}

-----------------------------------------------------------------------------
\* The other operations: no call runs inside a search.
Other ==
    /\ Idle
    /\ \/ \E b \in Blocks : TakeSlot(b) \/ ReturnSlot(b)
       \/ AddBlock
       \/ RestoreBegin
       \/ RegisterBlock
    /\ UNCHANGED search

\* The call of _find_place(first, last).
Look ==
    /\ Idle /\ Ready
    /\ LET h == lists.head["Open"]
       IN  /\ bi' = h
           /\ bz' = IF h = 0 THEN 0 ELSE lists.prev[h]
           /\ grow' = (h = 0)
    /\ todo' = Members["Open"]
    /\ UNCHANGED vars

\* "no conflict": the labels fit in the block of this round.
Settle == bi # 0 /\ NoSearch /\ UNCHANGED vars

\* Mutant: the next block is read after the transfer.
FollowingMoved(b) == lists'.next[b]

\* bi_, read before the block may change its list.
Following(b) == lists.next[b]

\* The labels do not fit.  Only an Open block is rejected, EachOpenTried says;
\* the trials of another one would be counted past MAX_TRIAL, the cap here.
Reject ==
    /\ bi # 0
    /\ IF trial[bi] < MaxTrial THEN RejectBlock(bi) ELSE UNCHANGED vars
    /\ bi' = IF bi = bz THEN 0 ELSE Following(bi)
    /\ grow' = (bi = bz)
    /\ todo' = todo \ {bi}
    /\ UNCHANGED bz

\* The loop found no room: a new block, or the allocation is refused.
Grow ==
    /\ grow
    /\ AddBlock \/ UNCHANGED vars
    /\ NoSearch

SearchNext == Other \/ Look \/ Settle \/ Reject \/ Grow

\* A call that has begun runs to its end; nobody has to begin one.
SearchSpec ==
    /\ SearchInit /\ [][SearchNext]_searchVars
    /\ WF_searchVars(Settle \/ Reject \/ Grow)

-----------------------------------------------------------------------------
(* Properties.                                                             *)

\* A round looks at a block that was Open when the search began and was not
\* looked at before, and the loop ends (cedarpp.h:848) only when every one of
\* them was, although rejections take blocks off the list under its feet.
EachOpenTried ==
    /\ bi # 0 => bi \in todo /\ todo \subseteq Members["Open"]
    /\ grow => todo = {}

\* The loop "while (1)" of _find_place (cedarpp.h:835) always ends.
SearchEnds == ~ Idle ~> Idle
=============================================================================
