--------------------------- MODULE NodePool_proofs ---------------------------
(***************************************************************************)
(* Proofs about NodePool: whatever the number of blocks, their size and    *)
(* MAX_TRIAL, every empty slot stays on the ring of its block, the         *)
(* counters count them, what _find_place chose is still empty when it is   *)
(* taken, no slot in use is written, and the block lists are those of      *)
(* BlockLists.                                                             *)
(***************************************************************************)
EXTENDS NodePool, TrieLemmas

\* The block lists; no search of BlockSearch is on.
BL == INSTANCE BlockLists_proofs WITH lists <- pool.lists, num <- pool.num,
                                      trial <- pool.trial, nblk <- pool.nblk,
                                      bi <- 0, bz <- 0, grow <- FALSE, todo <- {}

\* One slot of block 0 is never used: no key starts with its byte.  After a
\* rebuild of the block table it has to be slot 1.
Form      == IF WithRestore THEN "chain" ELSE "ring"
RootSpare == Spare(Form, RootLabels)

\* The slots of the pool p, of which r blocks are registered, are whole.
PoolWhole(p, r) == Whole(Form, RootLabels, p, p.nblk, r)

-----------------------------------------------------------------------------
(* The block lists.                                                        *)

\* The operators of ListOps are the same in every instance.
LEMMA BlocksSame ==
    /\ Lists!Blocks = Blocks /\ Lists!Kinds = Kinds /\ Lists!NoLists = NoLists
    /\ BL!Blocks = Blocks /\ BL!Kinds = Kinds /\ BL!NoLists = NoLists
  BY DEF Lists!Blocks, Lists!Kinds, Lists!NoLists, BL!Blocks, BL!Kinds, BL!NoLists,
         Blocks, Kinds, NoLists

\* ... the one that puts a block on a list,
LEMMA PushSame ==
    \A L, b, k, n : /\ Lists!PushBlock(L, b, k, n) = PushBlock(L, b, k, n)
                    /\ BL!PushBlock(L, b, k, n) = PushBlock(L, b, k, n)
  BY DEF Lists!PushBlock, BL!PushBlock, PushBlock, Lists!LinkPrv, BL!LinkPrv, LinkPrv,
         Lists!LinkNxt, BL!LinkNxt, LinkNxt

\* ... the one that takes it to another,
LEMMA TransferSame ==
    \A L, b, j, k, n : /\ Lists!TransferBlock(L, b, j, k, n) = TransferBlock(L, b, j, k, n)
                       /\ BL!TransferBlock(L, b, j, k, n) = TransferBlock(L, b, j, k, n)
  BY PushSame DEF Lists!TransferBlock, BL!TransferBlock, TransferBlock,
                  Lists!PopBlock, BL!PopBlock, PopBlock,
                  Lists!UnlinkPrv, BL!UnlinkPrv, UnlinkPrv,
                  Lists!UnlinkNxt, BL!UnlinkNxt, UnlinkNxt

\* ... and those that choose the list (_pop_enode, _push_enode,
\* _restore_block).
LEMMA ChoiceSame ==
    \A L, b, n, t :
       /\ Lists!ListsAfterTake(L, b, n, t) = ListsAfterTake(L, b, n, t)
       /\ BL!ListsAfterTake(L, b, n, t) = ListsAfterTake(L, b, n, t)
       /\ Lists!ListsAfterReturn(L, b, n, t) = ListsAfterReturn(L, b, n, t)
       /\ BL!ListsAfterReturn(L, b, n, t) = ListsAfterReturn(L, b, n, t)
       /\ Lists!ListsAfterRegister(L, b, n) = ListsAfterRegister(L, b, n)
       /\ BL!ListsAfterRegister(L, b, n) = ListsAfterRegister(L, b, n)
  BY TransferSame, PushSame
     DEF Lists!ListsAfterTake, BL!ListsAfterTake, ListsAfterTake,
         Lists!ListsAfterReturn, BL!ListsAfterReturn, ListsAfterReturn,
         Lists!ListsAfterRegister, BL!ListsAfterRegister, ListsAfterRegister,
         Lists!RestoredKind, BL!RestoredKind, RestoredKind

\* A step of BlockLists is one of the module its proofs are about.
LEMMA StepsSame == [Lists!Next]_Lists!vars => [BL!Next]_BL!vars
  <1>1. ASSUME NEW b \in Blocks, Lists!TakeSlot(b) PROVE BL!TakeSlot(b)
    BY <1>1, ChoiceSame DEF Lists!TakeSlot, BL!TakeSlot, Lists!Ready, BL!Ready
  <1>2. ASSUME NEW b \in Blocks, Lists!ReturnSlot(b) PROVE BL!ReturnSlot(b)
    BY <1>2, ChoiceSame DEF Lists!ReturnSlot, BL!ReturnSlot, Lists!Ready, BL!Ready
  <1>3. ASSUME NEW b \in Blocks, Lists!RejectBlock(b) PROVE BL!RejectBlock(b)
    BY <1>3, TransferSame DEF Lists!RejectBlock, BL!RejectBlock, Lists!Ready, BL!Ready
  <1>4. Lists!AddBlock => BL!AddBlock
    BY PushSame DEF Lists!AddBlock, BL!AddBlock, Lists!Ready, BL!Ready
  <1>5. Lists!RestoreBegin => BL!RestoreBegin
    BY BlocksSame DEF Lists!RestoreBegin, BL!RestoreBegin, Lists!Ready, BL!Ready
  <1>6. Lists!RegisterBlock => BL!RegisterBlock
    BY ChoiceSame DEF Lists!RegisterBlock, BL!RegisterBlock, Lists!Ready, BL!Ready
  <1>7. (UNCHANGED Lists!vars) => UNCHANGED BL!vars
    BY DEF Lists!vars, BL!vars
  <1> QED
    BY <1>1, <1>2, <1>3, <1>4, <1>5, <1>6, <1>7, BlocksSame DEF Lists!Next, BL!Next

\* So steps of BlockLists keep the invariant its proofs give.
LEMMA ListsStep ==
    ASSUME BL!IInv, [Lists!Next]_Lists!vars
    PROVE  BL!IInv'
  BY StepsSame, BL!NextIInv, BlockAssumption

\* Taking a slot (_pop_enode) is a step of BlockLists,
LEMMA ListsTake ==
    ASSUME pool \in PoolRec, Ready, NEW e, RootSpare,
           PoolWhole(pool, pool.nblk), Takeable(RootLabels, pool, e),
           pool' = TakeEnode(pool, e, 1, 0), UNCHANGED reg
    PROVE  Block(e) \in Blocks /\ Lists!TakeSlot(Block(e))
  <1> DEFINE b == Block(e)
  <1>1. b \in Blocks /\ Between(pool.array, e) /\ e \in Slots /\ b < pool.nblk
    <2>1. e \in Slots /\ b < pool.nblk
      BY DEF Takeable
    <2>2. b \in Blocks /\ Between(pool.array, e)
      BY TakeableFacts DEF PoolWhole, RootSpare, Form
    <2> QED
      BY <2>1, <2>2
  <1>2. pool.num[b] > IF b = 0 THEN 1 ELSE 0
    BY TakeableFacts DEF PoolWhole, RootSpare, Form
  <1>3. /\ pool'.num = TakenNum(pool, e) /\ pool'.lists = TakenLists(pool, e)
        /\ pool'.trial = pool.trial /\ pool'.nblk = pool.nblk
    BY <1>1, BetweenSlots, TakeForm
  <1>4. pool'.num = [pool.num EXCEPT ![b] = pool.num[b] - 1] /\ pool'.num[b] = pool.num[b] - 1
    BY <1>1, <1>3 DEF TakenNum, PoolRec
  <1>5. pool'.lists = ListsAfterTake(pool.lists, b, pool'.num[b], pool.trial[b])
    BY <1>3, <1>4 DEF TakenLists
  <1> HIDE DEF b
  <1>6. Lists!TakeSlot(b)
    BY <1>1, <1>2, <1>3, <1>4, <1>5, ChoiceSame DEF Lists!TakeSlot, Lists!Ready, Ready
  <1> QED
    BY <1>1, <1>6 DEF b

\* giving one back (_push_enode) is one,
LEMMA ListsGive ==
    ASSUME pool \in PoolRec, Ready, NEW e \in Slots, RootSpare,
           PoolWhole(pool, pool.nblk),
           Block(e) < pool.nblk, pool.array[e].check >= 0,
           pool' = PushEnode(pool, e), UNCHANGED reg
    PROVE  Block(e) \in Blocks /\ Lists!ReturnSlot(Block(e))
  <1> DEFINE b == Block(e)
  <1>1. b \in Blocks /\ Entered(pool, b) /\ b < pool.nblk
    BY GivenFacts DEF PoolWhole, RootSpare, Form
  <1>2. pool.num[b] < B /\ pool.num[b] \in Nat
    <2>1. pool.num[b] < B
      BY PushWhole DEF PoolWhole, RootSpare, Form
    <2> QED
      BY <2>1, <1>1, WholeAt DEF PoolWhole, RootSpare, Form
  <1>3. /\ pool'.num = PushedNum(pool, e) /\ pool'.lists = PushedLists(pool, e)
        /\ pool'.trial = PushedTrial(pool, e) /\ pool'.nblk = pool.nblk
    BY <1>1, PushForm
  <1>4. pool'.num = [pool.num EXCEPT ![b] = pool.num[b] + 1] /\ pool'.num[b] = pool.num[b] + 1
    BY <1>1, <1>3 DEF PushedNum, PoolRec
  <1>5. pool'.lists = ListsAfterReturn(pool.lists, b, pool'.num[b], pool.trial[b])
    BY <1>3, <1>4 DEF PushedLists
  <1>6. pool'.trial = IF pool'.num[b] = 1 THEN pool.trial ELSE [pool.trial EXCEPT ![b] = 0]
    <2>1. pool'.trial = IF pool.num[b] = 0 THEN pool.trial ELSE [pool.trial EXCEPT ![b] = 0]
      BY <1>3 DEF PushedTrial
    <2>2. pool'.num[b] = 1 <=> pool.num[b] = 0
      BY <1>2, <1>4
    <2> QED
      BY <2>1, <2>2
  <1> HIDE DEF b
  <1>7. Lists!ReturnSlot(b)
    BY <1>1, <1>2, <1>3, <1>4, <1>5, <1>6, ChoiceSame DEF Lists!ReturnSlot, Lists!Ready, Ready
  <1> QED
    BY <1>1, <1>7 DEF b

\* and adding a block (_add_block) is one.
LEMMA ListsAdd ==
    ASSUME pool \in PoolRec, Ready, pool.nblk < MaxBlocks,
           pool' = AddBlock(pool), reg' = reg + 1
    PROVE  Lists!AddBlock
  <1>1. /\ pool'.lists = PushBlock(pool.lists, pool.nblk, "Open", B)
        /\ pool'.nblk = pool.nblk + 1 /\ pool'.num = pool.num /\ pool'.trial = pool.trial
    BY AddForm
  <1> QED
    BY <1>1, PushSame DEF Lists!AddBlock, Lists!Ready, Ready

-----------------------------------------------------------------------------
(* The inductive invariant.                                                *)

\* A step from p to q writes no slot in use.
Untouched(p, q) ==
    /\ \A x \in Slots : p.array[x].check >= 0 /\ q.array[x].check >= 0 => q.array[x] = p.array[x]
    /\ q.array[0].base = p.array[0].base

\* From the block of this round on, the Open blocks of T follow each other up
\* to the last one to look at.
Walk ==
    \E T \in SUBSET BL!Members["Open"] :
       /\ scan.at \in T /\ scan.stop \in T
       /\ \A x \in T \ {scan.stop} : pool.lists.next[x] \in T \ {scan.at}

Searching ==
    /\ scan \in [labels : SiblingLists, at : Blocks, stop : Blocks]
    /\ Ready /\ wanted = {}
    /\ scan.at # 0 => Walk

IInv ==
    /\ BL!IInv
    /\ pool \in PoolRec
    /\ PoolWhole(pool, reg)
    /\ WithRestore \/ Ready
    /\ \A e \in wanted : Takeable(RootLabels, pool, e)
    /\ wanted # {} => Ready
    /\ scan = NoScan \/ Searching

\* What a step shows: the invariant after it, the step of BlockLists it is,
\* and that it writes no slot in use.
Shown == IInv' /\ [Lists!Next]_Lists!vars /\ Untouched(pool, pool')

\* _pop_enode takes a slot that is empty and not a spare one.
LEMMA TakeStep ==
    ASSUME IInv, RootSpare, Ready, scan = NoScan, NEW e, Takeable(RootLabels, pool, e),
           pool' = TakeEnode(pool, e, 1, 0), UNCHANGED <<scan, reg>>,
           wanted' \subseteq wanted \ {e}
    PROVE  Shown
  <1>1. pool \in PoolRec /\ PoolWhole(pool, pool.nblk) /\ reg = pool.nblk
    BY DEF IInv, Ready
  <1>2. Block(e) \in Blocks /\ Lists!TakeSlot(Block(e))
    BY <1>1, ListsTake
  <1>3. [Lists!Next]_Lists!vars
    BY <1>2, BlocksSame DEF Lists!Next
  <1>4. BL!IInv /\ BL!IInv'
    BY <1>3, ListsStep DEF IInv
  <1>5. Between(pool.array, e) /\ e \in Slots /\ e # 0 /\ Block(e) \in Blocks
    <2>1. e \in Slots /\ e # 0
      BY DEF Takeable
    <2>2. Between(pool.array, e)
      BY <1>1, TakeableFacts DEF PoolWhole, RootSpare, Form
    <2> QED
      BY <1>2, <2>1, <2>2
  <1>6. /\ pool'.array \in [Slots -> PoolNodes] /\ pool'.array[0].base = pool.array[0].base
        /\ \A x \in Slots \ {e} : pool'.array[x].check < 0 <=> pool.array[x].check < 0
        /\ \A x \in Slots : pool.array[x].check >= 0 => pool'.array[x] = pool.array[x]
    BY <1>1, <1>5, TakeFrame
  <1>7. /\ pool'.ehead = TakenHeads(pool, e) /\ pool'.reject = pool.reject
        /\ pool'.limit = pool.limit /\ pool'.nblk = pool.nblk
    BY <1>1, <1>5, BetweenSlots, TakeForm
  <1>8. pool'.ehead \in [Blocks -> Slots]
    <2>1. NextHead(pool, e) \in Slots /\ pool.ehead \in [Blocks -> Slots]
      BY <1>1, <1>5, BetweenSlots DEF NextHead, PoolRec
    <2> QED
      BY <1>7, <2>1 DEF TakenHeads
  <1>9. pool' \in PoolRec
    <2>1. /\ pool'.lists \in ListRec /\ pool'.num \in [Blocks -> 0 .. B]
          /\ pool'.trial \in [Blocks -> 0 .. MaxTrial] /\ pool'.nblk \in 1 .. MaxBlocks
      BY <1>4, BlocksSame DEF BL!IInv, BL!TypeOK, ListRec
    <2>2. pool.reject \in [Blocks -> 0 .. B + 1] /\ pool.limit \in [0 .. B -> 0 .. B + 1]
      BY <1>1 DEF PoolRec
    <2>3. Fields(pool')
      BY <1>6, <1>7, <1>8, <2>1, <2>2 DEF Fields
    <2> QED
      BY <1>1, <2>3, TakeTyped
  <1>10. PoolWhole(pool', reg') /\ Ready'
    <2>1. PoolWhole(pool', pool'.nblk)
      BY <1>1, TakeWhole DEF PoolWhole, RootSpare, Form
    <2> QED
      BY <2>1, <1>1, <1>7 DEF Ready
  <1>11. \A x \in wanted' : Takeable(RootLabels, pool', x)
    <2> SUFFICES ASSUME NEW x \in wanted, x # e PROVE Takeable(RootLabels, pool', x)
      OBVIOUS
    <2>1. Takeable(RootLabels, pool, x)
      BY DEF IInv
    <2> QED
      BY <2>1, <1>6, <1>7 DEF Takeable
  <1>12. IInv'
    BY <1>4, <1>9, <1>10, <1>11 DEF IInv, NoScan
  <1> QED
    BY <1>3, <1>6, <1>12 DEF Shown, Untouched

\* _push_enode takes back a slot that is in use; what _find_place chose is
\* still empty afterwards, since it was before.
LEMMA GiveStep ==
    ASSUME IInv, RootSpare, NEW e \in Slots, Give(e)
    PROVE  Shown
  <1>1. /\ pool \in PoolRec /\ PoolWhole(pool, pool.nblk) /\ reg = pool.nblk /\ scan = NoScan
        /\ pool' = PushEnode(pool, e) /\ UNCHANGED <<wanted, scan, reg>>
    BY DEF IInv, Ready, Give
  <1>2. e # 0 /\ Block(e) < pool.nblk /\ pool.array[e].check >= 0
    <2>1. e \in 0 .. pool.nblk * B - 1 /\ e # 0 /\ pool.array[e].check >= 0
      BY DEF Give, Held
    <2>2. pool.nblk \in 1 .. MaxBlocks
      BY <1>1 DEF PoolRec
    <2> QED
      BY <2>1, <2>2, SlotFacts
  <1>3. Block(e) \in Blocks /\ Lists!ReturnSlot(Block(e))
    BY <1>1, <1>2, ListsGive DEF Ready
  <1>4. [Lists!Next]_Lists!vars
    BY <1>3, BlocksSame DEF Lists!Next
  <1>5. BL!IInv /\ BL!IInv'
    BY <1>4, ListsStep DEF IInv
  <1>6. Entered(pool, Block(e))
    BY <1>1, <1>2, GivenFacts DEF PoolWhole, RootSpare, Form
  <1>7. /\ pool'.array \in [Slots -> PoolNodes] /\ pool'.array[0].base = pool.array[0].base
        /\ pool'.array[e].check < 0
        /\ \A x \in Slots \ {e} : pool'.array[x].check < 0 <=> pool.array[x].check < 0
        /\ \A x \in Slots \ {e} : pool.array[x].check >= 0 => pool'.array[x] = pool.array[x]
    BY <1>1, <1>2, <1>6, PushFrame
  <1>8. /\ pool'.ehead = PushedHeads(pool, e) /\ pool'.limit = pool.limit
        /\ pool'.nblk = pool.nblk
    BY <1>1, <1>2, <1>6, PushForm
  <1>9. \E r \in 0 .. B + 1 : pool'.reject = PushedReject(pool, e, r)
    <2>1. PICK r \in {pool.reject[Block(e)], pool.limit[pool.num[Block(e)] + 1]} :
                 pool'.reject = PushedReject(pool, e, r)
      BY <1>1, <1>2, <1>6, PushForm
    <2>2. pool.num[Block(e)] < B
      BY <1>1, <1>2, PushWhole DEF PoolWhole, RootSpare, Form
    <2>3. pool.num[Block(e)] \in Nat
      BY <1>1, <1>2, <1>3, WholeAt DEF PoolWhole, RootSpare, Form
    <2>4. pool.num[Block(e)] + 1 \in 0 .. B
      BY <2>2, <2>3, BlockAssumption
    <2>5. pool.reject[Block(e)] \in 0 .. B + 1 /\ pool.limit[pool.num[Block(e)] + 1] \in 0 .. B + 1
      BY <1>1, <1>3, <2>4 DEF PoolRec
    <2> QED
      BY <2>1, <2>5
  <1>10. pool' \in PoolRec
    <2>1. /\ pool'.lists \in ListRec /\ pool'.num \in [Blocks -> 0 .. B]
          /\ pool'.trial \in [Blocks -> 0 .. MaxTrial] /\ pool'.nblk \in 1 .. MaxBlocks
      BY <1>5, BlocksSame DEF BL!IInv, BL!TypeOK, ListRec
    <2>2. /\ pool.reject \in [Blocks -> 0 .. B + 1] /\ pool.limit \in [0 .. B -> 0 .. B + 1]
          /\ pool.ehead \in [Blocks -> Slots]
      BY <1>1 DEF PoolRec
    <2>3. pool'.ehead \in [Blocks -> Slots]
      BY <1>8, <2>2 DEF PushedHeads
    <2>4. pool'.reject \in [Blocks -> 0 .. B + 1]
      BY <1>9, <2>2 DEF PushedReject
    <2>5. Fields(pool')
      BY <1>7, <1>8, <2>1, <2>2, <2>3, <2>4 DEF Fields
    <2> QED
      BY <1>1, <2>5, PushTyped
  <1>11. PoolWhole(pool', reg') /\ Ready'
    <2>1. PoolWhole(pool', pool'.nblk)
      BY <1>1, <1>2, PushWhole DEF PoolWhole, RootSpare, Form
    <2> QED
      BY <2>1, <1>1, <1>8 DEF Ready
  <1>12. \A x \in wanted' : Takeable(RootLabels, pool', x)
    <2> SUFFICES ASSUME NEW x \in wanted PROVE Takeable(RootLabels, pool', x)
      BY <1>1
    <2>1. Takeable(RootLabels, pool, x)
      BY DEF IInv
    <2> QED
      BY <2>1, <1>7, <1>8 DEF Takeable
  <1>13. IInv'
    BY <1>1, <1>5, <1>10, <1>11, <1>12 DEF IInv, NoScan
  <1>14. Untouched(pool, pool')
    <2>1. pool'.array[e].check \in Int
      <3>1. pool'.array[e] \in PoolNodes
        BY <1>7
      <3> QED
        BY <3>1 DEF PoolNodes, Links
    <2>2. ~ pool'.array[e].check >= 0
      BY <1>7, <2>1
    <2> QED
      BY <1>7, <2>2 DEF Untouched
  <1> QED
    BY <1>4, <1>13, <1>14 DEF Shown

\* A block is added; what is wanted next are slots of it.
LEMMA AddStep ==
    ASSUME IInv, RootSpare, Ready, pool.nblk < MaxBlocks, wanted = {},
           pool' = AddBlock(pool), reg' = reg + 1, scan' = NoScan,
           \A x \in wanted' : x \in Slots /\ Block(x) = pool.nblk
    PROVE  Shown
  <1>1. pool \in PoolRec /\ PoolWhole(pool, pool.nblk) /\ reg = pool.nblk
    BY DEF IInv, Ready
  <1>2. [Lists!Next]_Lists!vars
    BY <1>1, ListsAdd DEF Lists!Next
  <1>3. BL!IInv /\ BL!IInv'
    BY <1>2, ListsStep DEF IInv
  <1>4. pool.nblk \in Blocks /\ pool.nblk # 0 /\ pool.num[pool.nblk] = B
    <2>1. pool.nblk \in 1 .. MaxBlocks
      BY <1>1 DEF PoolRec
    <2>2. pool.nblk \in Blocks /\ pool.nblk # 0 /\ pool.nblk >= pool.nblk
      BY <2>1, BlockAssumption DEF Blocks
    <2>3. \A b \in Blocks : b >= pool.nblk => pool.num[b] = B
      BY <1>3, BlocksSame DEF BL!IInv
    <2> QED
      BY <2>2, <2>3
  <1>5. /\ PoolWhole(pool', pool'.nblk) /\ pool'.array \in [Slots -> PoolNodes]
        /\ \A x \in Slots : Block(x) = pool.nblk => pool'.array[x].check < 0
        /\ \A x \in Slots : Block(x) # pool.nblk => pool'.array[x] = pool.array[x]
    BY <1>1, <1>4, AddWhole DEF PoolWhole, RootSpare, Form
  <1>6. /\ \A c \in Blocks : pool'.ehead[c] = IF c = pool.nblk THEN pool.nblk * B
                                              ELSE pool.ehead[c]
        /\ pool'.nblk = pool.nblk + 1
        /\ pool'.reject = pool.reject /\ pool'.limit = pool.limit
    BY <1>1, AddForm
  <1>7. pool'.ehead \in [Blocks -> Slots]
    <2>1. pool.nblk * B \in Slots
      BY <1>4, SlotFacts
    <2>2. pool.ehead \in [Blocks -> Slots]
      BY <1>1 DEF PoolRec
    <2>3. pool'.ehead = [pool.ehead EXCEPT ![pool.nblk] = pool.nblk * B]
      BY <1>1 DEF AddBlock, PoolRec
    <2> QED
      BY <2>1, <2>2, <2>3
  <1>8. pool' \in PoolRec
    <2>1. /\ pool'.lists \in ListRec /\ pool'.num \in [Blocks -> 0 .. B]
          /\ pool'.trial \in [Blocks -> 0 .. MaxTrial] /\ pool'.nblk \in 1 .. MaxBlocks
      BY <1>3, BlocksSame DEF BL!IInv, BL!TypeOK, ListRec
    <2>2. pool.reject \in [Blocks -> 0 .. B + 1] /\ pool.limit \in [0 .. B -> 0 .. B + 1]
      BY <1>1 DEF PoolRec
    <2>3. Fields(pool')
      BY <1>5, <1>6, <1>7, <2>1, <2>2 DEF Fields
    <2> QED
      BY <1>1, <2>3, AddTyped
  <1>9. \A x \in wanted' : Takeable(RootLabels, pool', x)
    <2> SUFFICES ASSUME NEW x \in wanted' PROVE Takeable(RootLabels, pool', x)
      OBVIOUS
    <2>1. x \in Slots /\ Block(x) = pool.nblk /\ pool'.array[x].check < 0
      BY <1>5
    <2>2. x # 0
      BY <1>4, <2>1, SlotFacts
    <2>3. Block(x) < pool'.nblk
      <3>1. pool.nblk \in Nat
        BY <1>4, SlotFacts
      <3> QED
        BY <1>6, <2>1, <3>1
    <2> QED
      BY <1>4, <2>1, <2>2, <2>3 DEF Takeable
  <1>10. PoolWhole(pool', reg') /\ Ready'
    BY <1>1, <1>5, <1>6 DEF Ready
  <1>11. IInv'
    BY <1>3, <1>8, <1>9, <1>10 DEF IInv, NoScan
  <1>12. Untouched(pool, pool')
    <2>1. pool'.array[0].base = pool.array[0].base
      BY <1>4, <1>5, SlotFacts
    <2>2. ASSUME NEW x \in Slots, pool'.array[x].check >= 0
          PROVE  pool'.array[x] = pool.array[x]
      <3>1. pool'.array[x] \in PoolNodes
        BY <1>5
      <3>2. pool'.array[x].check \in Int
        BY <3>1 DEF PoolNodes, Links
      <3>3. ~ pool'.array[x].check < 0
        BY <2>2, <3>2
      <3> QED
        BY <3>3, <1>5
    <2> QED
      BY <2>1, <2>2 DEF Untouched
  <1> QED
    BY <1>2, <1>11, <1>12 DEF Shown

\* _restore_block begins: the block table is forgotten, the slots stay.
LEMMA RestoreStep ==
    ASSUME IInv, RestoreBegin
    PROVE  Shown
  <1>1. /\ pool \in PoolRec /\ PoolWhole(pool, reg) /\ WithRestore = TRUE /\ Idle /\ reg = pool.nblk
        /\ pool' = ForgetBlocks(pool) /\ reg' = 0 /\ UNCHANGED <<wanted, scan>>
    BY DEF IInv, RestoreBegin, Idle, Ready
  <1> DEFINE L == NoLists
             T == [b \in Blocks |-> 0]
             R == [b \in Blocks |-> B + 1]
  <1>2. pool' = [pool EXCEPT !.lists = L, !.trial = T, !.ehead = T, !.reject = R]
    BY <1>1 DEF ForgetBlocks
  <1>3. T \in [Blocks -> Slots] /\ R \in [Blocks -> 0 .. B + 1]
    BY SlotRange, BlockAssumption
  <1>4. L = NoLists /\ T = [b \in Blocks |-> 0]
    OBVIOUS
  <1> HIDE DEF L, T, R
  <1>5. /\ pool'.array = pool.array /\ pool'.num = pool.num /\ pool'.nblk = pool.nblk
        /\ pool'.lists = L /\ pool'.trial = T /\ pool'.ehead = T /\ pool'.reject = R
    BY <1>1, <1>2 DEF PoolRec
  <1>6. Lists!RestoreBegin
    BY <1>1, <1>4, <1>5, BlocksSame DEF Lists!RestoreBegin, Lists!Ready
  <1>7. [Lists!Next]_Lists!vars
    BY <1>6 DEF Lists!Next
  <1>8. BL!IInv'
    BY <1>7, ListsStep DEF IInv
  <1>9. pool' \in PoolRec
    <2>1. pool'.lists \in ListRec /\ pool'.trial \in [Blocks -> 0 .. MaxTrial]
      BY <1>8, BlocksSame DEF BL!IInv, BL!TypeOK, ListRec
    <2> QED
      BY <1>1, <1>2, <1>3, <1>5, <2>1 DEF PoolRec
  <1>10. PoolWhole(pool', 0)
    BY <1>1, <1>5, ForgetWhole DEF PoolWhole, RootSpare, Form
  <1>11. IInv'
    BY <1>1, <1>8, <1>9, <1>10 DEF IInv, Idle, NoScan
  <1>12. Untouched(pool, pool')
    BY <1>5 DEF Untouched
  <1> QED
    BY <1>7, <1>11, <1>12 DEF Shown

\* _restore_block registers a block: the counter it computes and the head it
\* finds are right for the ring that is still linked through its slots.
LEMMA RegisterStep ==
    ASSUME IInv, RegisterBlock
    PROVE  Shown
  <1> DEFINE n == Cardinality({e \in SlotsOf(reg) : pool.array[e].check < 0})
             L == ListsAfterRegister(pool.lists, reg, n)
  <1>1. /\ pool \in PoolRec /\ PoolWhole(pool, reg) /\ WithRestore = TRUE /\ ~ Ready /\ BL!IInv
        /\ pool' = RegisterBlockOf(pool, reg, n) /\ reg' = reg + 1
        /\ UNCHANGED <<wanted, scan>>
    BY ClientAssumption DEF IInv, RegisterBlock
  <1>2. reg \in 0 .. pool.nblk - 1
    BY <1>1 DEF BL!IInv, BL!TypeOK, Ready
  <1>3. wanted = {} /\ scan = NoScan
    BY <1>1 DEF IInv, Searching
  <1> HIDE DEF n
  <1>4. /\ n = pool.num[reg] /\ pool'.num = pool.num /\ pool'.array = pool.array
        /\ pool'.nblk = pool.nblk /\ pool'.ehead \in [Blocks -> Slots]
        /\ PoolWhole(pool', reg + 1)
    <2> DEFINE c == pool.nblk
               q == pool'
    <2>1. /\ n = Cardinality(Counted(pool.array, reg))
          /\ q = RegisterBlockOf(pool, reg, n) /\ pool \in PoolRec
          /\ Whole("chain", RootLabels, pool, c, reg) /\ c \in {reg, pool.nblk}
      BY <1>1 DEF n, Counted, PoolWhole, Form
    <2> HIDE DEF c, q
    <2>8. Whole("chain", RootLabels, q, IF c = reg THEN reg + 1 ELSE c, reg + 1)
      BY ONLY <1>2, <2>1, RegisterWhole
    <2>9. RegisteredAs(pool, q, reg, n, c)
      BY ONLY <1>2, <2>1, RegisterFrame
    <2>2. /\ c = pool.nblk => n = pool.num[reg]
          /\ q.num \in [Blocks -> 0 .. B] /\ q.num[reg] = n
          /\ \A b \in Blocks \ {reg} : q.num[b] = pool.num[b]
          /\ q.array = pool.array /\ q.nblk = pool.nblk
          /\ q.ehead \in [Blocks -> Slots]
          /\ Whole("chain", RootLabels, q, IF c = reg THEN reg + 1 ELSE c, reg + 1)
      BY <2>8, <2>9 DEF RegisteredAs
    <2>3. c # reg /\ Form = "chain"
      BY <1>1, <1>2 DEF Ready, c, Form
    <2>4. n = pool.num[reg] /\ q.num = pool.num
      <3>1. pool.num \in [Blocks -> 0 .. B]
        BY <2>1 DEF PoolRec
      <3>2. n = pool.num[reg]
        BY <2>2 DEF c
      <3> QED
        BY <2>2, <3>1, <3>2
    <2> QED
      BY <2>2, <2>3, <2>4 DEF PoolWhole, c, q
  <1> DEFINE N == [pool.num EXCEPT ![reg] = n]
             h == CHOOSE e \in SlotsOf(reg) :
                    /\ pool.array[e].check < 0
                    /\ \A f \in SlotsOf(reg) : f < e => pool.array[f].check >= 0
             H == [pool.ehead EXCEPT ![reg] = IF n = 0 THEN pool.ehead[reg] ELSE h]
  <1>5. pool' = [pool EXCEPT !.num = N, !.ehead = H, !.lists = L]
    BY <1>1 DEF RegisterBlockOf
  <1> HIDE DEF N, H, h
  <1>6. L = ListsAfterRegister(pool.lists, reg, pool.num[reg])
    BY <1>4
  <1> HIDE DEF L
  <1>7. /\ pool'.num = N /\ pool'.ehead = H /\ pool'.lists = L /\ pool'.trial = pool.trial
        /\ pool'.reject = pool.reject /\ pool'.limit = pool.limit
    BY <1>1, <1>5 DEF PoolRec
  <1>8. Lists!RegisterBlock
    BY <1>1, <1>4, <1>6, <1>7, ChoiceSame DEF Lists!RegisterBlock, Lists!Ready, Ready
  <1>9. [Lists!Next]_Lists!vars
    BY <1>8 DEF Lists!Next
  <1>10. BL!IInv'
    BY <1>1, <1>9, ListsStep
  <1>11. pool' \in PoolRec
    <2>1. pool'.lists \in ListRec /\ pool'.num \in [Blocks -> 0 .. B]
      BY <1>10, BlocksSame DEF BL!IInv, BL!TypeOK, ListRec
    <2> QED
      BY <1>1, <1>4, <1>5, <1>7, <2>1 DEF PoolRec
  <1>12. IInv'
    BY <1>1, <1>3, <1>4, <1>10, <1>11 DEF IInv, NoScan
  <1>13. Untouched(pool, pool')
    BY <1>4 DEF Untouched
  <1> QED
    BY <1>9, <1>12, <1>13 DEF Shown

-----------------------------------------------------------------------------
(* _find_place.                                                            *)

\* The blocks of the lists _find_place reads have room.
LEMMA ListedFacts ==
    ASSUME IInv, Ready, NEW k \in {"Closed", "Open"}, NEW b \in BL!Members[k]
    PROVE  /\ b \in Blocks /\ b # 0 /\ b < pool.nblk /\ b \in 1 .. pool.nblk - 1
           /\ pool.num[b] \in 1 .. B
           /\ k = "Open" => pool.num[b] >= 2 /\ pool.trial[b] < MaxTrial
           /\ Emp(pool.array, b) = Counted(pool.array, b) /\ Emp(pool.array, b) # {}
           /\ RingAt(pool, b) /\ HeadAt(pool, b)
  <1>1. /\ b \in 1 .. reg - 1 /\ BL!Belongs(k, pool.num[b], pool.trial[b])
        /\ reg = pool.nblk /\ pool \in PoolRec /\ PoolWhole(pool, pool.nblk)
    BY DEF BL!Members, BL!MembersOf, BL!Kinds, IInv, Ready
  <1>2. pool.nblk \in 1 .. MaxBlocks
    BY <1>1 DEF PoolRec
  <1>3. b \in Blocks /\ b # 0 /\ b < pool.nblk /\ b \in 1 .. pool.nblk - 1
    BY <1>1, <1>2, BlockAssumption DEF Blocks
  <1>4. pool.num[b] \in 0 .. B /\ pool.trial[b] \in 0 .. MaxTrial
    BY <1>1, <1>3 DEF PoolRec
  <1>5. pool.num[b] # 0 /\ (k = "Open" => pool.num[b] >= 2 /\ pool.trial[b] # MaxTrial)
    BY <1>1, <1>4, BlockAssumption DEF BL!Belongs
  <1>6. pool.num[b] \in 1 .. B /\ (k = "Open" => pool.trial[b] < MaxTrial)
    BY <1>4, <1>5, BlockAssumption
  <1>7. CountAt(pool, b) /\ RingAt(pool, b) /\ HeadAt(pool, b)
    BY <1>1, <1>3, WholeAt DEF PoolWhole, RootSpare, Form
  <1>8. Emp(pool.array, b) = Counted(pool.array, b)
    <2>1. 0 \notin SlotsOf(b)
      BY <1>3, SlotFacts
    <2> QED
      BY <2>1 DEF Emp, Counted
  <1>9. Counted(pool.array, b) # {}
    BY <1>3, <1>5, <1>7, CountZero
  <1> QED
    BY <1>3, <1>5, <1>6, <1>7, <1>8, <1>9

\* The head of a list, if there is one, is on it, and the list is a ring.
LEMMA HeadListed ==
    ASSUME IInv, NEW k \in {"Closed", "Open"}, pool.lists.head[k] # 0
    PROVE  /\ pool.lists.head[k] \in BL!Members[k]
           /\ IsRing(BL!Members[k], pool.lists.prev, pool.lists.next)
  <1>1. \A S, p, n : BL!IsRing(S, p, n) <=> IsRing(S, p, n)
    BY DEF BL!IsRing, IsRing
  <1> QED
    BY <1>1 DEF IInv, BL!IInv, BL!ListsMatchBlocks, BL!ListsHold

\* The slot _find_place() offers can be taken.
LEMMA SinglePlaceFree ==
    ASSUME IInv, Ready, SinglePlace(pool) # 0
    PROVE  Takeable(RootLabels, pool, SinglePlace(pool))
  <1>1. PICK k \in {"Closed", "Open"} :
          pool.lists.head[k] # 0 /\ SinglePlace(pool) = pool.ehead[pool.lists.head[k]]
    BY DEF SinglePlace
  <1> DEFINE b == pool.lists.head[k]
             e == SinglePlace(pool)
  <1>2. b \in BL!Members[k]
    BY <1>1, HeadListed
  <1> HIDE DEF b
  <1>3. b \in Blocks /\ b # 0 /\ b < pool.nblk /\ Emp(pool.array, b) # {} /\ HeadAt(pool, b)
    BY <1>2, ListedFacts
  <1>4. e \in Emp(pool.array, b)
    BY <1>1, <1>3 DEF HeadAt, b
  <1> HIDE DEF e
  <1>5. e \in SlotsOf(b) /\ pool.array[e].check < 0 /\ e # 0
    BY <1>4 DEF Emp
  <1>6. e \in Slots /\ Block(e) = b
    BY <1>3, <1>5, SlotFacts
  <1>7. Takeable(RootLabels, pool, e)
    BY <1>3, <1>5, <1>6 DEF Takeable
  <1> QED
    BY <1>7 DEF e

\* _find_place(first, last) starts with the whole Open list before it.
LEMMA LookStep ==
    ASSUME IInv, NEW labels \in SiblingLists, Look(labels)
    PROVE  Shown
  <1> DEFINE o == pool.lists.head["Open"]
             T == BL!Members["Open"]
  <1>1. /\ Ready /\ wanted = {} /\ o # 0 /\ UNCHANGED <<pool, wanted, reg>>
        /\ scan' = [labels |-> labels, at |-> o, stop |-> pool.lists.prev[o]]
    BY DEF Look, Idle
  <1>2. o \in T /\ IsRing(T, pool.lists.prev, pool.lists.next)
    BY <1>1, HeadListed
  <1>3. pool.lists.prev[o] \in T /\ \A x \in T \ {pool.lists.prev[o]} : pool.lists.next[x] \in T \ {o}
    BY <1>2 DEF IsRing
  <1>4. BL!Members' = BL!Members
    BY <1>1 DEF BL!Members
  <1>5. scan'.at = o /\ scan'.stop = pool.lists.prev[o] /\ scan'.labels = labels
    BY <1>1
  <1>6. Walk'
    BY <1>1, <1>2, <1>3, <1>4, <1>5 DEF Walk
  <1>7. o \in Blocks /\ pool.lists.prev[o] \in Blocks
    <2>1. \A b \in T : b \in Blocks
      BY <1>1, ListedFacts
    <2> QED
      BY <1>2, <1>3, <2>1
  <1>8. Searching'
    BY <1>1, <1>6, <1>7 DEF Searching, Ready
  <1>9. UNCHANGED Lists!vars
    BY <1>1 DEF Lists!vars
  <1>10. BL!IInv'
    BY <1>9, ListsStep DEF IInv
  <1>11. IInv'
    BY <1>1, <1>8, <1>10 DEF IInv, Ready
  <1> QED
    BY <1>1, <1>9, <1>11 DEF Shown, Untouched

\* A refused block leaves the pool alone.
LEMMA AllocFailsStep ==
    ASSUME IInv, AllocFails
    PROVE  Shown
  <1>1. scan' = NoScan /\ UNCHANGED <<pool, wanted, reg>>
    BY DEF AllocFails
  <1>2. UNCHANGED Lists!vars
    BY <1>1 DEF Lists!vars
  <1>3. BL!IInv'
    BY <1>2, ListsStep DEF IInv
  <1>4. IInv'
    BY <1>1, <1>3 DEF IInv, NoScan, Ready
  <1> QED
    BY <1>1, <1>2, <1>4 DEF Shown, Untouched

\* Sibling labels are at least two.
LEMMA SiblingFacts ==
    ASSUME NEW labels \in SiblingLists
    PROVE  /\ Len(labels) \in 2 .. B /\ DOMAIN labels = 1 .. Len(labels)
           /\ \A j \in 1 .. Len(labels) : labels[j] \in Labels
  <1>1. PICK n \in 2 .. B : labels \in [1 .. n -> Labels]
    BY DEF SiblingLists
  <1>2. n \in Nat /\ labels \in Seq(Labels)
    BY <1>1, BlockAssumption
  <1>3. Len(labels) = n
    BY <1>1, <1>2
  <1> QED
    BY <1>1, <1>3

\* Sibling labels settled at the slot e stay in its block.
LEMMA Placed ==
    ASSUME NEW e \in Slots, NEW labels \in SiblingLists, NEW j \in DOMAIN labels
    PROVE  /\ Xor(Xor(e, labels[1]), labels[j]) \in Slots
           /\ Block(Xor(Xor(e, labels[1]), labels[j])) = Block(e)
           /\ j = 1 => Xor(Xor(e, labels[1]), labels[j]) = e
  <1>1. labels[1] \in Labels /\ labels[j] \in Labels
    BY SiblingFacts
  <1>2. /\ Xor(e, labels[1]) \in Slots /\ Block(Xor(e, labels[1])) = Block(e)
        /\ Xor(Xor(e, labels[1]), labels[1]) = e
    BY <1>1, XorAssumption
  <1>3. /\ Xor(Xor(e, labels[1]), labels[j]) \in Slots
        /\ Block(Xor(Xor(e, labels[1]), labels[j])) = Block(Xor(e, labels[1]))
    BY <1>1, <1>2, XorAssumption
  <1> QED
    BY <1>2, <1>3

\* _find_place(first, last) settles: the slots it chose are empty ones of the
\* block it looked at, and can all be taken.
LEMMA LookFitsStep ==
    ASSUME IInv, RootSpare, LookFits
    PROVE  Shown
  <1> DEFINE b == scan.at
             labels == scan.labels
             places == Places(pool, b, labels)
             i == CHOOSE x \in places : \A y \in places : x <= y
             e == Empties(pool, b)[i]
  <1>1. /\ Searching /\ b # 0 /\ places # {} /\ Ready /\ wanted = {} /\ Walk
        /\ labels \in SiblingLists /\ pool \in PoolRec /\ PoolWhole(pool, pool.nblk)
        /\ reg = pool.nblk
    BY DEF LookFits, IInv, Searching, Ready
  <1>2. /\ pool' = SettleIn(pool, b, i) /\ scan' = NoScan /\ reg' = reg
        /\ wanted' = {Xor(Xor(e, labels[1]), labels[j]) : j \in DOMAIN labels}
    BY DEF LookFits
  <1>3. b \in BL!Members["Open"]
    BY <1>1 DEF Walk
  <1>4. /\ b \in Blocks /\ b < pool.nblk /\ b \in 1 .. pool.nblk - 1
        /\ pool.num[b] \in 1 .. B /\ Emp(pool.array, b) # {}
        /\ RingAt(pool, b) /\ HeadAt(pool, b)
    BY <1>1, <1>3, ListedFacts
  <1>5. i \in 1 .. pool.num[b] /\ Fits(pool, e, labels)
    <2>1. places = {x \in 1 .. pool.num[b] : Fits(pool, Empties(pool, b)[x], labels)}
      BY <1>1 DEF Places
    <2>2. places \in SUBSET Nat
      BY <2>1
    <2> HIDE DEF places
    <2>3. PICK m \in places : \A y \in places : m <= y
      BY <1>1, <2>2, Least
    <2>4. i \in places
      BY <2>3
    <2> HIDE DEF i
    <2> QED
      BY <2>1, <2>4
  <1> HIDE DEF i
  <1>6. e \in Emp(pool.array, b)
    <2>1. pool.num[b] \in Nat /\ pool.array \in [Slots -> PoolNodes]
      BY <1>1, <1>4 DEF PoolRec
    <2> QED
      BY <1>4, <1>5, <2>1, EmptiesIn
  <1> HIDE DEF e
  <1>7. e \in SlotsOf(b) /\ pool.array[e].check < 0 /\ e \in Slots /\ Block(e) = b /\ b # 0
    BY <1>1, <1>4, <1>6, SlotFacts DEF Emp
  <1> DEFINE H == [pool.ehead EXCEPT ![b] = e]
  <1>8. pool' = [pool EXCEPT !.ehead = H]
    BY <1>2 DEF SettleIn, e
  <1>9. H \in [Blocks -> Slots] /\ H[b] = e /\ \A c \in Blocks : c # b => H[c] = pool.ehead[c]
    BY <1>1, <1>4, <1>7 DEF PoolRec
  <1> HIDE DEF H
  <1>10. /\ pool'.array = pool.array /\ pool'.num = pool.num /\ pool'.nblk = pool.nblk
         /\ pool'.lists = pool.lists /\ pool'.trial = pool.trial /\ pool'.ehead = H
         /\ pool' \in PoolRec
    BY <1>1, <1>8, <1>9 DEF PoolRec
  <1>11. PoolWhole(pool', reg')
    <2>1. pool'.ehead[0] = pool.ehead[0]
      BY <1>7, <1>9, <1>10, SlotFacts
    <2>2. \A c \in 1 .. reg' - 1 : HeadAt(pool', c)
      <3> SUFFICES ASSUME NEW c \in 1 .. pool.nblk - 1 PROVE HeadAt(pool', c)
        BY <1>1, <1>2
      <3>1. CASE c = b
        BY <3>1, <1>6, <1>9, <1>10 DEF HeadAt
      <3>2. CASE c # b
        <4>1. pool.nblk \in 1 .. MaxBlocks
          BY <1>1 DEF PoolRec
        <4>2. c \in Blocks
          BY <4>1, BlockAssumption DEF Blocks
        <4>3. HeadAt(pool, c)
          BY <1>1 DEF PoolWhole, Whole, Form
        <4> QED
          BY <3>2, <4>2, <4>3, <1>9, <1>10 DEF HeadAt
      <3> QED
        BY <3>1, <3>2
    <2> QED
      BY <1>1, <1>10, <2>1, <2>2, HeadsWhole DEF PoolWhole, RootSpare, Form
  <1>12. \A x \in wanted' : Takeable(RootLabels, pool', x)
    <2> SUFFICES ASSUME NEW j \in DOMAIN labels
                 PROVE  Takeable(RootLabels, pool', Xor(Xor(e, labels[1]), labels[j]))
      BY <1>2
    <2> DEFINE x == Xor(Xor(e, labels[1]), labels[j])
    <2>1. x \in Slots /\ Block(x) = b /\ (j = 1 => x = e)
      BY <1>1, <1>7, Placed
    <2>2. pool.array[x].check < 0
      <3>1. CASE j = 1
        BY <3>1, <2>1, <1>7
      <3>2. CASE j # 1
        <4>1. j \in 2 .. Len(labels)
          BY <3>2, <1>1, SiblingFacts
        <4> QED
          BY <4>1, <1>5 DEF Fits
      <3> QED
        BY <3>1, <3>2
    <2>3. x # 0
      BY <2>1, <1>7, SlotFacts
    <2> HIDE DEF x
    <2>4. Takeable(RootLabels, pool', x)
      BY <2>1, <2>2, <2>3, <1>1, <1>4, <1>10 DEF Takeable
    <2> QED
      BY <2>4 DEF x
  <1>13. UNCHANGED Lists!vars
    BY <1>2, <1>10 DEF Lists!vars
  <1>14. BL!IInv'
    BY <1>13, ListsStep DEF IInv
  <1>15. IInv'
    BY <1>1, <1>2, <1>10, <1>11, <1>12, <1>14 DEF IInv, Ready, NoScan
  <1> QED
    BY <1>10, <1>13, <1>15 DEF Shown, Untouched

\* Rejecting the block of this round, what is left to look at follows on.
LEMMA WalkOn ==
    ASSUME BL!IInv, Ready, NEW T \in SUBSET BL!Members["Open"], NEW b \in T, NEW z \in T, b # z,
           \A x \in T \ {z} : pool.lists.next[x] \in T \ {b},
           Lists!RejectBlock(b)
    PROVE  /\ pool.lists.next[b] \in T \ {b} /\ T \ {b} \subseteq BL!Members'["Open"]
           /\ \A x \in (T \ {b}) \ {z} : /\ pool'.lists.next[x] = pool.lists.next[x]
                                         /\ pool.lists.next[x] \in (T \ {b}) \ {pool.lists.next[b]}
  <1> DEFINE M == BL!Members
             L == pool.lists
  <1>1. /\ L \in BL!ListRec /\ M \in BL!Listing /\ BL!ListsHold(L, M)
        /\ pool.num \in [Blocks -> 0 .. B] /\ pool.trial \in [Blocks -> 0 .. MaxTrial]
    BY BL!MembersTyped, BL!ListsTyped, BlockAssumption, BlocksSame
       DEF BL!IInv, BL!ListsMatchBlocks, BL!TypeOK
  <1>2. BL!IsRing(M["Open"], L.prev, L.next)
    BY <1>1 DEF BL!ListsHold
  <1>3. /\ pool'.num = pool.num /\ reg' = reg /\ b \in Blocks
        /\ pool'.trial = [pool.trial EXCEPT ![b] = pool.trial[b] + 1]
        /\ \/ pool'.lists = L
           \/ pool'.lists = BL!TransferBlock(L, b, "Open", "Closed", pool.num[b])
    <2>1. b \in Blocks
      BY <1>1, BlocksSame DEF BL!Listing, BL!Kinds
    <2> QED
      BY <2>1, TransferSame DEF Lists!RejectBlock
  <1>4. L.next[b] \in T \ {b}
    OBVIOUS
  <1>5. T \ {b} \subseteq BL!Members'["Open"]
    <2> SUFFICES ASSUME NEW x \in T, x # b PROVE x \in BL!Members'["Open"]
      OBVIOUS
    <2>1. x \in 1 .. reg - 1 /\ BL!Belongs("Open", pool.num[x], pool.trial[x])
      BY DEF BL!Members, BL!MembersOf, BL!Kinds
    <2>2. pool'.trial[x] = pool.trial[x]
      BY <1>1, <1>3
    <2> QED
      BY <2>1, <2>2, <1>3 DEF BL!Members, BL!MembersOf, BL!Kinds
  <1>6. ASSUME NEW x \in (T \ {b}) \ {z}
        PROVE  /\ pool'.lists.next[x] = L.next[x]
               /\ L.next[x] \in (T \ {b}) \ {L.next[b]}
    <2>1. x \in M["Open"] /\ b \in M["Open"] /\ x # b /\ L.next[x] # b /\ L.next[x] \in T
      OBVIOUS
    <2>2. L.next[x] # L.next[b]
      <3>1. L.prev[L.next[x]] = x /\ L.prev[L.next[b]] = b
        BY <1>2, <2>1 DEF BL!IsRing
      <3> QED
        BY <3>1, <2>1
    <2>3. pool.num[b] \in Nat
      BY <1>1, <1>3, BlockAssumption
    <2> HIDE DEF L, M
    <2>4. pool'.lists.next[x] = L.next[x]
      <3>1. CASE pool'.lists = L
        BY <3>1
      <3>2. CASE pool'.lists = BL!TransferBlock(L, b, "Open", "Closed", pool.num[b])
        BY <3>2, <2>1, <2>3, <1>1, BL!TransferNext, BlockAssumption
      <3> QED
        BY <3>1, <3>2, <1>3
    <2> QED
      BY <2>1, <2>2, <2>4
  <1> QED
    BY <1>4, <1>5, <1>6

\* _find_place(first, last) rejects a block, which may close it, and goes on:
\* the block it read as the next one before the transfer is still Open.
LEMMA LookOnStep ==
    ASSUME IInv, LookOn
    PROVE  Shown
  <1> DEFINE b == scan.at
             z == scan.stop
             nc == Len(scan.labels)
             t == pool.trial[b] + 1
             n == pool.num[b]
             R == [pool.reject EXCEPT ![b] = nc]
             M == [pool.limit EXCEPT ![n] = IF nc < pool.limit[n] THEN nc ELSE pool.limit[n]]
             T == [pool.trial EXCEPT ![b] = t]
             L == IF t = MaxTrial THEN TransferBlock(pool.lists, b, "Open", "Closed", n)
                  ELSE pool.lists
  <1>1. /\ Searching /\ b # 0 /\ Ready /\ wanted = {} /\ Walk /\ scan.labels \in SiblingLists
        /\ pool \in PoolRec /\ PoolWhole(pool, reg) /\ reg = pool.nblk /\ BL!IInv
        /\ scan \in [labels : SiblingLists, at : Blocks, stop : Blocks]
    BY DEF LookOn, IInv, Searching, Ready
  <1>2. /\ pool' = RejectIn(pool, b, nc) /\ UNCHANGED <<wanted, reg>>
        /\ scan' = [scan EXCEPT !.at = IF b = z THEN 0 ELSE pool.lists.next[b]]
    BY DEF LookOn
  <1>3. b \in BL!Members["Open"]
    BY <1>1 DEF Walk
  <1>4. /\ b \in Blocks /\ b \in 1 .. pool.nblk - 1 /\ n \in 1 .. B /\ n >= 2
        /\ pool.trial[b] < MaxTrial
    BY <1>1, <1>3, ListedFacts
  <1>5. nc \in 2 .. B /\ nc \in 0 .. B + 1
    <2>1. nc \in 2 .. B
      BY <1>1, SiblingFacts
    <2> QED
      BY <2>1, BlockAssumption
  <1>6. pool' = [pool EXCEPT !.reject = R, !.limit = M, !.trial = T, !.lists = L]
    BY <1>2 DEF RejectIn
  <1>7. R \in [Blocks -> 0 .. B + 1] /\ M \in [0 .. B -> 0 .. B + 1]
    <2>1. /\ pool.reject \in [Blocks -> 0 .. B + 1] /\ pool.limit \in [0 .. B -> 0 .. B + 1]
          /\ n \in 0 .. B
      BY <1>1, <1>4 DEF PoolRec
    <2> HIDE DEF n, nc
    <2>2. (IF nc < pool.limit[n] THEN nc ELSE pool.limit[n]) \in 0 .. B + 1
      BY <2>1, <1>5
    <2> QED
      BY <2>1, <2>2, <1>5
  <1> HIDE DEF R, M, T, L, nc
  <1>8. /\ pool'.array = pool.array /\ pool'.num = pool.num /\ pool'.nblk = pool.nblk
        /\ pool'.ehead = pool.ehead /\ pool'.reject = R /\ pool'.limit = M
        /\ pool'.trial = T /\ pool'.lists = L
    BY <1>1, <1>6 DEF PoolRec
  <1>9. Lists!RejectBlock(b)
    <2>1. T = [pool.trial EXCEPT ![b] = pool.trial[b] + 1] /\ T[b] = t
      BY <1>1, <1>4 DEF T, PoolRec
    <2>2. L = IF T[b] = MaxTrial THEN TransferBlock(pool.lists, b, "Open", "Closed", n)
              ELSE pool.lists
      BY <2>1 DEF L
    <2> QED
      BY <1>1, <1>2, <1>4, <1>8, <2>1, <2>2, TransferSame DEF Lists!RejectBlock, Lists!Ready
  <1>10. [Lists!Next]_Lists!vars
    BY <1>4, <1>9, BlocksSame DEF Lists!Next
  <1>11. BL!IInv'
    BY <1>1, <1>10, ListsStep
  <1>12. pool' \in PoolRec
    <2>1. pool'.lists \in ListRec /\ pool'.trial \in [Blocks -> 0 .. MaxTrial]
      BY <1>11, BlocksSame DEF BL!IInv, BL!TypeOK, ListRec
    <2> QED
      BY <1>1, <1>6, <1>7, <1>8, <2>1 DEF PoolRec
  <1>13. PoolWhole(pool', reg')
    <2>1. \A c \in 1 .. reg - 1 : HeadAt(pool', c)
      BY <1>1, <1>8 DEF PoolWhole, Whole, Form, HeadAt
    <2> QED
      BY <1>1, <1>2, <1>8, <2>1, HeadsWhole DEF PoolWhole, RootSpare, Form
  <1>14. scan' \in [labels : SiblingLists, at : Blocks, stop : Blocks]
         /\ scan'.at = (IF b = z THEN 0 ELSE pool.lists.next[b]) /\ scan'.stop = z
    <2>1. pool.lists.next[b] \in Blocks /\ 0 \in Blocks
      BY <1>1, <1>4, SlotFacts DEF PoolRec, ListRec
    <2>2. (IF b = z THEN 0 ELSE pool.lists.next[b]) \in Blocks
      BY <2>1
    <2> QED
      BY <1>1, <1>2, <2>2
  <1>15. ASSUME scan'.at # 0
         PROVE  Walk'
    <2>1. b # z /\ scan'.at = pool.lists.next[b]
      BY <1>14, <1>15
    <2>2. PICK S \in SUBSET BL!Members["Open"] :
             b \in S /\ z \in S /\ \A x \in S \ {z} : pool.lists.next[x] \in S \ {b}
      BY <1>1 DEF Walk
    <2>3. /\ pool.lists.next[b] \in S \ {b} /\ S \ {b} \subseteq BL!Members'["Open"]
          /\ \A x \in (S \ {b}) \ {z} : /\ pool'.lists.next[x] = pool.lists.next[x]
                                        /\ pool.lists.next[x] \in (S \ {b}) \ {pool.lists.next[b]}
      <3> HIDE DEF b, z
      <3> QED
        BY <1>1, <1>9, <2>1, <2>2, WalkOn
    <2> DEFINE U == S \ {b}
    <2>4. /\ U \in SUBSET BL!Members'["Open"] /\ scan'.at \in U /\ scan'.stop \in U
          /\ \A x \in U \ {scan'.stop} : pool'.lists.next[x] \in U \ {scan'.at}
      BY <2>1, <2>2, <2>3, <1>14
    <2> HIDE DEF U
    <2> QED
      BY <2>4 DEF Walk
  <1>16. Ready'
    BY <1>1, <1>2, <1>8 DEF Ready
  <1>17. IInv'
    BY <1>1, <1>2, <1>11, <1>12, <1>13, <1>14, <1>15, <1>16 DEF IInv, Searching
  <1> QED
    BY <1>8, <1>10, <1>17 DEF Shown, Untouched

\* A block added for a set of labels takes them at its first slot.
LEMMA SettleInNewStep ==
    ASSUME IInv, RootSpare, NEW labels \in SiblingLists, SettleInNew(labels)
    PROVE  Shown
  <1> DEFINE e == pool.nblk * B
  <1>1. Ready /\ wanted = {}
    <2>1. CASE Idle
      BY <2>1 DEF Idle
    <2>2. CASE scan.labels = labels
      <3>1. scan # NoScan
        <4>1. Len(scan.labels) \in 2 .. B
          BY <2>2, SiblingFacts
        <4>2. Len(NoScan.labels) = 0
          BY DEF NoScan
        <4> QED
          BY <4>1, <4>2
      <3> QED
        BY <3>1 DEF IInv, Searching
    <2> QED
      BY <2>1, <2>2 DEF SettleInNew
  <1>2. /\ pool.nblk < MaxBlocks /\ pool' = AddBlock(pool) /\ scan' = NoScan /\ reg' = reg + 1
        /\ wanted' = {Xor(Xor(e, labels[1]), labels[j]) : j \in DOMAIN labels}
    BY DEF SettleInNew
  <1>3. e \in Slots /\ Block(e) = pool.nblk
    <2>1. pool.nblk \in 1 .. MaxBlocks
      BY DEF IInv, PoolRec
    <2>2. pool.nblk \in Blocks
      BY <1>2, <2>1, BlockAssumption DEF Blocks
    <2> QED
      BY <2>2, SlotFacts
  <1> HIDE DEF e
  <1>4. \A x \in wanted' : x \in Slots /\ Block(x) = pool.nblk
    BY <1>2, <1>3, Placed
  <1> QED
    BY <1>1, <1>2, <1>4, AddStep

\* A block is added for one child (_find_place()).
LEMMA GrowStep ==
    ASSUME IInv, RootSpare, Grow
    PROVE  Shown
  <1>1. /\ Ready /\ wanted = {} /\ pool.nblk < MaxBlocks /\ pool' = AddBlock(pool)
        /\ wanted' = {pool.nblk * B} /\ reg' = reg + 1 /\ scan' = NoScan
    BY DEF Grow, Idle
  <1>2. pool.nblk \in Blocks
    <2>1. pool.nblk \in 1 .. MaxBlocks
      BY DEF IInv, PoolRec
    <2> QED
      BY <1>1, <2>1, BlockAssumption DEF Blocks
  <1>3. \A x \in wanted' : x \in Slots /\ Block(x) = pool.nblk
    <2> DEFINE e == pool.nblk * B
    <2>1. e \in SlotsOf(pool.nblk)
      BY <1>2, SlotFacts
    <2>2. e \in Slots /\ Block(e) = pool.nblk
      BY <1>2, <2>1, SlotFacts
    <2> HIDE DEF e
    <2>3. wanted' = {e}
      BY <1>1 DEF e
    <2> QED
      BY <2>2, <2>3
  <1> QED
    BY <1>1, <1>3, AddStep

\* A free slot is empty and not the root.
LEMMA FreeSlots ==
    ASSUME NEW p \in PoolRec, NEW e, e \in Free(p)
    PROVE  e \in Slots /\ e # 0 /\ Block(e) < p.nblk /\ p.array[e].check < 0
  <1>1. p.nblk \in 1 .. MaxBlocks /\ p.array \in [Slots -> PoolNodes]
    BY DEF PoolRec
  <1>2. e \in 0 .. p.nblk * B - 1 /\ e # 0 /\ ~ p.array[e].check >= 0
    BY DEF Free, Held
  <1>3. e \in Slots /\ Block(e) < p.nblk
    BY <1>1, <1>2, SlotFacts
  <1>4. p.array[e].check \in Int
    <2>1. p.array[e] \in PoolNodes
      BY <1>1, <1>3
    <2> QED
      BY <2>1 DEF PoolNodes, Links
  <1> QED
    BY <1>2, <1>3, <1>4

\* _pop_enode takes a slot the trie names, or one _find_place chose.
LEMMA TakesStep ==
    ASSUME IInv, RootSpare, NEW e \in Slots, TakeAt(e) \/ TakeWanted(e)
    PROVE  Shown
  <1>1. CASE TakeAt(e)
    <2>1. Takeable(RootLabels, pool, e)
      BY <1>1, FreeSlots DEF TakeAt, Takeable, IInv
    <2>2. wanted' \subseteq wanted \ {e} /\ Ready /\ scan = NoScan /\ UNCHANGED <<scan, reg>>
      BY <1>1 DEF TakeAt, Idle
    <2>3. pool' = TakeEnode(pool, e, 1, 0)
      BY <1>1 DEF TakeAt
    <2> QED
      BY <2>1, <2>2, <2>3, TakeStep
  <1>2. CASE TakeWanted(e)
    <2>1. Takeable(RootLabels, pool, e)
      BY <1>2 DEF TakeWanted, IInv
    <2>2. wanted' \subseteq wanted \ {e} /\ Ready /\ scan = NoScan /\ UNCHANGED <<scan, reg>>
      BY <1>2 DEF TakeWanted, IInv, Searching
    <2>3. pool' = TakeEnode(pool, e, 1, 0)
      BY <1>2 DEF TakeWanted
    <2> QED
      BY <2>1, <2>2, <2>3, TakeStep
  <1> QED
    BY <1>1, <1>2

\* _pop_enode takes the slot _find_place() offers.
LEMMA TakeAnywhereStep ==
    ASSUME IInv, RootSpare, TakeAnywhere
    PROVE  Shown
  <1> DEFINE e == SinglePlace(pool)
  <1>1. /\ wanted' \subseteq wanted \ {e} /\ Ready /\ scan = NoScan /\ UNCHANGED <<scan, reg>>
        /\ pool' = TakeEnode(pool, e, 1, 0) /\ e # 0
    BY DEF TakeAnywhere, Idle
  <1>2. Takeable(RootLabels, pool, e)
    BY <1>1, SinglePlaceFree
  <1> HIDE DEF e
  <1> QED
    BY <1>1, <1>2, TakeStep

\* The invariant holds of a new object.
LEMMA InitIInv == Init => IInv
  <1> SUFFICES ASSUME Init PROVE IInv
    OBVIOUS
  <1>1. pool = InitialPool /\ wanted = {} /\ scan = NoScan /\ reg = 1
    BY DEF Init
  <1>2. /\ pool \in PoolRec /\ pool.lists = NoLists /\ pool.nblk = 1
        /\ pool.num = [b \in Blocks |-> B] /\ pool.trial = [b \in Blocks |-> 0]
        /\ CountAt(pool, 0) /\ RingAt(pool, 0) /\ HeadAt(pool, 0) /\ RootChain(pool)
        /\ \A l \in Labels : pool.array[l].check < 0
    BY <1>1, InitialFacts
  <1>3. BL!Init
    BY <1>1, <1>2, BlocksSame DEF BL!Init
  <1>4. BL!IInv
    BY <1>3, BL!InitIInv, BlockAssumption
  <1>5. PoolWhole(pool, reg)
    <2>1. 0 .. pool.nblk - 1 = {0} /\ 1 .. pool.nblk - 1 = {} /\ 1 .. reg - 1 = {}
      BY <1>1, <1>2
    <2> QED
      BY <1>2, <2>1, SlotFacts DEF PoolWhole, Whole, Form, RootWhole
  <1> QED
    BY <1>1, <1>2, <1>4, <1>5 DEF IInv, Ready

\* Every step keeps the invariant, is a step of BlockLists, and writes no slot
\* in use.
LEMMA NextShown ==
    ASSUME RootSpare, IInv, [Next]_vars
    PROVE  Shown
  <1>1. ASSUME NEW e \in Slots, TakeAt(e) \/ TakeWanted(e) \/ Give(e) PROVE Shown
    BY <1>1, TakesStep, GiveStep
  <1>2. CASE TakeAnywhere
    BY <1>2, TakeAnywhereStep
  <1>3. CASE Grow
    BY <1>3, GrowStep
  <1>4. ASSUME NEW labels \in SiblingLists, Look(labels) \/ SettleInNew(labels) PROVE Shown
    BY <1>4, LookStep, SettleInNewStep
  <1>5. CASE LookFits
    BY <1>5, LookFitsStep
  <1>6. CASE LookOn
    BY <1>6, LookOnStep
  <1>7. CASE AllocFails
    BY <1>7, AllocFailsStep
  <1>8. CASE RestoreBegin
    BY <1>8, RestoreStep
  <1>9. CASE RegisterBlock
    BY <1>9, RegisterStep
  <1>10. CASE UNCHANGED vars
    <2>1. UNCHANGED <<pool, wanted, scan, reg>>
      BY <1>10 DEF vars
    <2>2. UNCHANGED Lists!vars
      BY <2>1 DEF Lists!vars
    <2>3. BL!IInv'
      BY <2>2, ListsStep DEF IInv
    <2>4. Walk' <=> Walk
      BY <2>1 DEF Walk, BL!Members
    <2>5. IInv'
      BY <2>1, <2>3, <2>4 DEF IInv, Searching, Ready
    <2> QED
      BY <2>1, <2>2, <2>5 DEF Shown, Untouched
  <1> QED
    BY <1>1, <1>2, <1>3, <1>4, <1>5, <1>6, <1>7, <1>8, <1>9, <1>10 DEF Next

\* The invariant always holds.
LEMMA IInvHolds ==
    ASSUME RootSpare
    PROVE  Spec => []IInv
  <1>1. IInv /\ [Next]_vars => IInv'
    BY NextShown DEF Shown
  <1> QED
    BY <1>1, InitIInv, PTL DEF Spec

-----------------------------------------------------------------------------
\* Type correctness: links, counters, heads and rejections of the pool keep
\* their ranges, and _find_place chooses slots of the array (cedarpp.h,
\* _pop_enode, _push_enode, _find_place, _add_block, _restore_block).
THEOREM PoolTyped ==
    ASSUME RootSpare
    PROVE  Spec => []TypeOK
  <1>1. IInv => TypeOK
    BY DEF IInv, PoolRec, PoolNodes, Links, Takeable, TypeOK
  <1> QED
    BY <1>1, IInvHolds, PTL

\* The free slots of a block are those its ring holds.
LEMMA EmptySlots ==
    ASSUME NEW p \in PoolRec, NEW b \in Blocks, b < p.nblk
    PROVE  SlotsOf(b) \cap Free(p) = Emp(p.array, b)
  <1>1. p.nblk \in 1 .. MaxBlocks /\ p.array \in [Slots -> PoolNodes]
    BY DEF PoolRec
  <1>2. ASSUME NEW e \in SlotsOf(b)
        PROVE  e \in Free(p) <=> p.array[e].check < 0 /\ e # 0
    <2>1. e \in Slots /\ Block(e) = b
      BY SlotFacts
    <2>2. e \in 0 .. p.nblk * B - 1
      BY <1>1, <2>1, SlotFacts
    <2>3. p.array[e].check \in Int
      <3>1. p.array[e] \in PoolNodes
        BY <1>1, <2>1
      <3> QED
        BY <3>1 DEF PoolNodes, Links
    <2> QED
      BY <2>2, <2>3 DEF Free, Held
  <1> QED
    BY <1>2 DEF Emp

\* The empty slots of a block are always one ring, entered at ehead: no
\* _pop_enode, _push_enode, _add_block or _restore_block loses one or links
\* one twice.
THEOREM SlotsOnRings ==
    ASSUME RootSpare
    PROVE  Spec => []RingsWhole
  <1>1. IInv => RingsWhole
    <2> DEFINE E(b) == SlotsOf(b) \cap Free(pool)
               v(b) == [e \in E(b) |-> - pool.array[e].base]
               n(b) == [e \in E(b) |-> - pool.array[e].check]
    <2> SUFFICES ASSUME IInv, Ready,
                        NEW b \in (IF WithRestore THEN 1 ELSE 0) .. pool.nblk - 1, E(b) # {}
                 PROVE  pool.ehead[b] \in E(b) /\ IsRing(E(b), v(b), n(b))
      BY DEF RingsWhole
    <2>1. /\ pool \in PoolRec /\ PoolWhole(pool, pool.nblk)
          /\ pool.nblk \in 1 .. MaxBlocks
      BY DEF IInv, Ready, PoolRec
    <2>2. b \in Blocks /\ b < pool.nblk /\ (WithRestore => b # 0)
      BY <2>1, ClientAssumption, BlockAssumption DEF Blocks
    <2>3. RingAt(pool, b) /\ HeadAt(pool, b)
      <3>1. CASE b = 0
        BY <2>1, <2>2, <3>1 DEF PoolWhole, Whole, Form, RootWhole
      <3>2. CASE b # 0
        BY <2>1, <2>2, <3>2, WholeAt DEF PoolWhole, RootSpare, Form
      <3> QED
        BY <3>1, <3>2
    <2>4. E(b) = Emp(pool.array, b)
      BY <2>1, <2>2, EmptySlots
    <2>5. pool.ehead[b] \in E(b) /\ IsRing(E(b), Prv(pool.array), Nxt(pool.array))
      BY <2>3, <2>4 DEF RingAt, HeadAt
    <2>6. E(b) \subseteq Slots
      BY <2>2, SlotFacts
    <2>7. \A e \in E(b) : /\ v(b)[e] = Prv(pool.array)[e]
                          /\ n(b)[e] = Nxt(pool.array)[e]
      BY <2>6 DEF Prv, Nxt
    <2> DEFINE S == E(b)
               v1 == v(b)
               n1 == n(b)
               v2 == Prv(pool.array)
               n2 == Nxt(pool.array)
    <2>8. IsRing(S, v2, n2) /\ \A e \in S : v1[e] = v2[e] /\ n1[e] = n2[e]
      BY <2>5, <2>7
    <2> HIDE DEF S, v1, n1, v2, n2
    <2>9. IsRing(S, v1, n1)
      BY <2>8, RingFrame
    <2> QED
      BY <2>5, <2>9 DEF S, v1, n1
  <1> QED
    BY <1>1, IInvHolds, PTL

\* block.num is always the number of the empty slots of the block, which is
\* what _pop_enode, _push_enode and _find_place decide by.
THEOREM CountersCorrect ==
    ASSUME RootSpare
    PROVE  Spec => []CountsRight
  <1>1. IInv => CountsRight
    BY DEF IInv, PoolWhole, Whole, Form, CountAt, Counted, CountsRight
  <1> QED
    BY <1>1, IInvHolds, PTL

\* What _find_place(first, last) chose is still empty when _pop_enode takes
\* it, although _resolve gives slots back in between.
THEOREM WantedStaysFree ==
    ASSUME RootSpare
    PROVE  Spec => []WantedFree
  <1>1. IInv => WantedFree
    <2> SUFFICES ASSUME IInv, NEW e \in wanted PROVE e \in Free(pool)
      BY DEF WantedFree
    <2>1. Takeable(RootLabels, pool, e) /\ pool \in PoolRec
      BY DEF IInv
    <2>2. Block(e) \in Blocks /\ e \in SlotsOf(Block(e)) /\ Block(e) < pool.nblk
      BY <2>1, SlotFacts DEF Takeable
    <2>3. e \in Emp(pool.array, Block(e))
      BY <2>1, <2>2 DEF Emp, Takeable
    <2> QED
      BY <2>1, <2>2, <2>3, EmptySlots
  <1> QED
    BY <1>1, IInvHolds, PTL

\* No step writes a slot in use, neither when _pop_enode unlinks a slot from
\* its neighbours nor when _push_enode links one between two others.
THEOREM HeldKept ==
    ASSUME RootSpare
    PROVE  Spec => HeldUntouched
  <1> DEFINE Unwritten == \A e \in Held(pool) \cap Held(pool') :
                        /\ pool'.array[e].base = pool.array[e].base
                        /\ e # 0 => pool'.array[e].check = pool.array[e].check
  <1>1. IInv /\ [Next]_vars => Unwritten
    <2> SUFFICES ASSUME IInv, [Next]_vars, NEW e \in Held(pool), e \in Held(pool')
                 PROVE  /\ pool'.array[e].base = pool.array[e].base
                        /\ e # 0 => pool'.array[e].check = pool.array[e].check
      OBVIOUS
    <2>1. Untouched(pool, pool')
      BY NextShown DEF Shown
    <2>2. CASE e = 0
      BY <2>1, <2>2 DEF Untouched
    <2>3. CASE e # 0
      <3>1. pool.nblk \in 1 .. MaxBlocks
        BY DEF IInv, PoolRec
      <3>2. e \in 0 .. pool.nblk * B - 1 /\ pool.array[e].check >= 0 /\ pool'.array[e].check >= 0
        BY <2>3 DEF Held
      <3>3. e \in Slots
        BY <3>1, <3>2, SlotFacts
      <3> QED
        BY <2>1, <3>2, <3>3 DEF Untouched
    <2> QED
      BY <2>2, <2>3
  <1>2. IInv /\ [Next]_vars => [Unwritten]_vars
    BY <1>1
  <1>3. Spec => [][Unwritten]_vars
    BY <1>2, IInvHolds, PTL DEF Spec
  <1> QED
    BY <1>3 DEF HeldUntouched

\* The allocator implements BlockLists: _pop_enode, _push_enode,
\* _find_place, _add_block and _restore_block move blocks between the lists
\* as BlockLists says, and every other step moves none.
THEOREM ListsRefined ==
    ASSUME RootSpare
    PROVE  Spec => ListsSpec
  <1>1. Init => Lists!Init
    <2> SUFFICES ASSUME Init PROVE Lists!Init
      OBVIOUS
    <2>1. /\ pool.lists = NoLists /\ pool.nblk = 1
          /\ pool.num = [b \in Blocks |-> B] /\ pool.trial = [b \in Blocks |-> 0] /\ reg = 1
      BY InitialFacts DEF Init
    <2> QED
      BY <2>1, BlocksSame DEF Lists!Init
  <1>2. IInv /\ [Next]_vars => [Lists!Next]_Lists!vars
    BY NextShown DEF Shown
  <1> QED
    BY <1>1, <1>2, IInvHolds, PTL DEF Spec, ListsSpec, Lists!Spec

=============================================================================
