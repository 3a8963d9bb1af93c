------------------------- MODULE QueueOrder_proofs -------------------------
(***************************************************************************)
(* The lock-free queue implements the Fifo, and its size_approx() is off   *)
(* by no more than what the other thread did meanwhile: for every set of   *)
(* elements, every size the queue is constructed for, every block size and *)
(* every amount of memory.                                                 *)
(*                                                                         *)
(* The elements are numbered in the order of their publication, and each   *)
(* block in use has the number of its foremost cell.  What relates these   *)
(* numbers is then said of one block and its successor, so nothing has to  *)
(* walk the ring.  That the queue's own walks find what the numbers say    *)
(* is the last two parts.                                                  *)
(***************************************************************************)
EXTENDS QueueSize, ReaderWriterQueue_proofs

(***************************************************************************)
(* The blocks that hold what has been published: those on the ring that    *)
(* are not free, without the one that tailBlock has yet to move to.        *)
(***************************************************************************)
Live(b) == b \in Ring /\ ~Free(b) /\ (producer = "advance" => b # Following)

\* The cells in use from front to tail, the one just emptied included.
CellsOf(b) == Dist(block[b].front, block[b].tail, block[b].size)

\* The place of cell i behind the foremost cell of its block.
Place(b, i) == Dist(block[b].front, i, block[b].size)

(***************************************************************************)
(* log holds all elements ever published, by their numbers; the numbers    *)
(* from taken to sent are those that are held.                             *)
(***************************************************************************)
HeldIs(log, sent, taken) ==
  /\ held \in Seq(Elements)
  /\ taken + Len(held) = sent
  /\ \A i \in 1 .. Len(held) : held[i] = log[taken + i - 1]

(***************************************************************************)
(* first[b] is the number that belongs to the cell at the front of b.      *)
(***************************************************************************)
ChainIs(first, sent, taken) ==
  /\ taken = (IF consumer = "release" THEN first[frontBlock] + 1 ELSE first[frontBlock])
  /\ sent = first[tailBlock] + CellsOf(tailBlock)
  /\ \A b \in Ring : Live(b) /\ b # tailBlock =>
       first[block[b].next] = first[b] + CellsOf(b)

CellIs(log, first, sent, b, i) ==
  Occupied(block[b], i) =>
    /\ first[b] + Place(b, i) < sent
    /\ ~Emptied(b, i) => block[b].data[i] = log[first[b] + Place(b, i)]

Numbered(log, first, sent, taken) ==
  /\ HeldIs(log, sent, taken)
  /\ ChainIs(first, sent, taken)
  /\ \A b \in Ring : Live(b) =>
       \A i \in 0 .. block[b].size - 1 : CellIs(log, first, sent, b, i)

InOrder ==
  \E log \in [Nat -> Cell], first \in [Nat -> Nat], sent \in Nat, taken \in Nat :
    Numbered(log, first, sent, taken)

(***************************************************************************)
(* What the producer has prepared and not yet made visible.                *)
(***************************************************************************)
OnlyHolds(b) ==
  /\ block[b].tail = Succ(block[b].front, block[b].size)
  /\ block[b].data[block[b].front] = element

PendingInv ==
  /\ producer = "idle" => element = None
  /\ producer = "publish" => block[tailBlock].data[block[tailBlock].tail] = element
  /\ producer = "publishAhead" => block[Following].data[block[Following].tail] = element
  /\ producer = "link" => OnlyHolds(Len(block))
  /\ producer = "advance" => OnlyHolds(Following)

(***************************************************************************)
(* Why a call may come back empty-handed: when the consumer finds its      *)
(* block empty there was nothing at all when it called, or there is a      *)
(* block after it, and will be.                                            *)
(***************************************************************************)
CallInv ==
  /\ emptyAtCall \in BOOLEAN
  /\ consumer = "reload" => emptyAtCall \/ held # <<>>
  /\ consumer = "checkTail" => emptyAtCall \/ frontBlock # tailBlock

OrderInv == QueueInv /\ PendingInv /\ CallInv /\ InOrder

-----------------------------------------------------------------------------
(***************************************************************************)
(* The block that is dequeued from and the one that is enqueued to are in  *)
(* use; the next block after one in use is neither free nor the front.     *)
(***************************************************************************)
LEMMA LivePlaces ==
  ASSUME QueueInv
  PROVE  /\ frontBlock \in Ring /\ Live(frontBlock)
         /\ tailBlock \in Ring /\ Live(tailBlock)
         /\ \A b \in Ring : Live(b) /\ b # tailBlock =>
              block[b].next \in Ring /\ block[b].next # frontBlock
<1> USE DEF QueueInv
<1>1. frontBlock \in Ring /\ tailBlock \in Ring /\ Following \in Ring
  BY DEF RingInv, Following
<1>2. Live(frontBlock)
  BY <1>1 DEF Live, Free, ProducerInv
<1>3. Live(tailBlock)
  <2>1. CASE producer = "advance"
    <3>1. LastFilled = Following /\ Following # frontBlock
      BY <2>1 DEF LastFilled, ProducerInv
    <3>2. ~Free(Following)
      BY <3>1 DEF Free
    <3>3. ~Free(tailBlock) /\ tailBlock # LastFilled
      BY <1>1, <3>1, <3>2 DEF RingInv, Following
    <3> QED
      BY <1>1, <3>1, <3>3 DEF Live
  <2>2. CASE producer # "advance"
    BY <1>1, <2>2 DEF Live, Free, LastFilled
  <2> QED
    BY <2>1, <2>2
<1>4. ASSUME NEW b \in Ring, Live(b), b # tailBlock
      PROVE  block[b].next \in Ring /\ block[b].next # frontBlock
  <2>1. b # LastFilled
    BY <1>4 DEF Live, LastFilled
  <2> QED
    BY <1>4, <2>1 DEF Live, RingInv
<1> QED
  BY <1>1, <1>2, <1>3, <1>4

(***************************************************************************)
(* A step that changes no element, no order and no block's part in it.     *)
(***************************************************************************)
Quiet ==
  /\ held' = held /\ frontBlock' = frontBlock /\ tailBlock' = tailBlock
  /\ consumer' = "release" <=> consumer = "release"
  /\ \A b \in Ring' : Live(b)' => b \in Ring /\ Live(b)
  /\ \A b \in Ring : Live(b) =>
       /\ block'[b].front = block[b].front /\ block'[b].tail = block[b].tail
       /\ block'[b].size = block[b].size
       /\ b # tailBlock => block'[b].next = block[b].next
       /\ \A i \in 0 .. block[b].size - 1 :
            Occupied(block[b], i) => block'[b].data[i] = block[b].data[i]

LEMMA QuietStep ==
  ASSUME QueueInv, InOrder, Quiet
  PROVE  InOrder'
<1>1. PICK log \in [Nat -> Cell], first \in [Nat -> Nat], sent \in Nat, taken \in Nat :
        Numbered(log, first, sent, taken)
  BY DEF InOrder
<1>2. HeldIs(log, sent, taken)'
  BY <1>1 DEF Numbered, HeldIs, Quiet
<1>3. \A b \in Ring : Live(b) => /\ CellsOf(b)' = CellsOf(b)
                                 /\ \A i : Place(b, i)' = Place(b, i)
                                 /\ \A i : Occupied(block[b], i)' <=> Occupied(block[b], i)
  BY DEF Quiet, CellsOf, Place, Occupied
<1>4. ChainIs(first, sent, taken)'
  <2>1. taken = (IF consumer' = "release" THEN first[frontBlock'] + 1 ELSE first[frontBlock'])
    BY <1>1 DEF Numbered, ChainIs, Quiet
  <2>2. sent = first[tailBlock'] + CellsOf(tailBlock)'
    BY <1>1, <1>3, LivePlaces DEF Numbered, ChainIs, Quiet
  <2>3. ASSUME NEW b \in Ring', Live(b)', b # tailBlock'
        PROVE  first[block'[b].next] = first[b] + CellsOf(b)'
    BY <1>1, <1>3, <2>3 DEF Numbered, ChainIs, Quiet
  <2> QED
    BY <2>1, <2>2, <2>3 DEF ChainIs
<1>5. ASSUME NEW b \in Ring', Live(b)', NEW i \in 0 .. block'[b].size - 1
      PROVE  CellIs(log, first, sent, b, i)'
  <2>1. b \in Ring /\ Live(b) /\ i \in 0 .. block[b].size - 1
    BY <1>5 DEF Quiet
  <2>2. CellIs(log, first, sent, b, i)
    BY <1>1, <2>1 DEF Numbered
  <2>3. Emptied(b, i)' <=> Emptied(b, i)
    BY <2>1 DEF Quiet, Emptied
  <2>4. Occupied(block[b], i) => block'[b].data[i] = block[b].data[i]
    BY <2>1 DEF Quiet
  <2> QED
    BY <1>3, <2>1, <2>2, <2>3, <2>4 DEF CellIs
<1>6. Numbered(log, first, sent, taken)'
  BY <1>2, <1>4, <1>5 DEF Numbered
<1> QED
  BY <1>6 DEF InOrder

LEMMA QuietFrame ==
  ASSUME QueueInv, InOrder, held' = held, frontBlock' = frontBlock, tailBlock' = tailBlock,
         consumer' = "release" <=> consumer = "release",
         Ring' = Ring, producer' = "advance" <=> producer = "advance",
         \A b \in Ring :
           /\ block'[b].front = block[b].front /\ block'[b].tail = block[b].tail
           /\ block'[b].size = block[b].size /\ block'[b].next = block[b].next
           /\ \A i \in 0 .. block[b].size - 1 :
                Occupied(block[b], i) => block'[b].data[i] = block[b].data[i]
  PROVE  InOrder'
<1>1. tailBlock \in Ring
  BY LivePlaces
<1>2. Following' = Following /\ LastFilled' = LastFilled
  BY <1>1 DEF Following, LastFilled
<1>3. \A b \in Ring : Live(b)' <=> Live(b)
  BY <1>2 DEF Live, Free, EmptyBlock
<1>4. Quiet
  BY <1>3 DEF Quiet
<1> QED
  BY <1>4, QuietStep

-----------------------------------------------------------------------------
(***************************************************************************)
(* What a step of the producer leaves alone.                               *)
(***************************************************************************)
LEMMA ProducerFrame ==
  ASSUME OrderInv, Remember, UNCHANGED consumerVars
  PROVE  /\ consumer' = consumer /\ frontBlock' = frontBlock
         /\ emptyAtCall' = emptyAtCall /\ UNCHANGED <<call, Doing, result>>
         /\ ~Published => held' = held
         /\ Published => held' = Append(held, element)
<1>1. consumer' = consumer /\ frontBlock' = frontBlock /\ call' = call /\ result' = result
  BY DEF consumerVars
<1>2. emptyAtCall' = emptyAtCall
  BY <1>1 DEF Remember, Called
<1>3. Doing' = Doing
  BY <1>1, <1>2 DEF Doing
<1> QED
  BY <1>1, <1>2, <1>3 DEF Remember, MovedOut

\* A step of the producer that shows nothing to the consumer.
LEMMA ProducerQuiet ==
  ASSUME OrderInv, Remember, UNCHANGED <<consumerVars, tailBlock, element>>,
         producer # "idle", producer' # "idle", QueueInv', InOrder', PendingInv'
  PROVE  OrderInv' /\ UNCHANGED H!fifoVars
<1>1. held' = held /\ emptyAtCall' = emptyAtCall /\ UNCHANGED <<call, Doing, result>>
      /\ consumer' = consumer /\ frontBlock' = frontBlock
  BY ProducerFrame DEF Published
<1>2. CallInv'
  BY <1>1 DEF OrderInv, CallInv
<1> QED
  BY <1>1, <1>2 DEF OrderInv, H!fifoVars

LEMMA EnqueueOrder ==
  ASSUME OrderInv, NEW e \in Elements, Enqueue(e), Remember
  PROVE  OrderInv' /\ H!CallEnqueue(e)
<1>1. /\ block' = block /\ tailBlock' = tailBlock /\ UNCHANGED consumerVars
      /\ producer = "idle" /\ producer' \in {"write", "reload"} /\ element' = e
      /\ element = None
  BY DEF Enqueue, Produces, OrderInv, PendingInv
<1>2. held' = held /\ emptyAtCall' = emptyAtCall /\ UNCHANGED <<call, Doing, result>>
      /\ consumer' = consumer /\ frontBlock' = frontBlock
  BY <1>1, ProducerFrame DEF Published
<1>3. QueueInv'
  BY EnqueueStep DEF OrderInv
<1>4. InOrder'
  <2>1. Ring' = Ring
    BY <1>1 DEF Ring, Blocks
  <2> QED
    BY <1>1, <1>2, <2>1, QuietFrame DEF OrderInv
<1>5. PendingInv'
  BY <1>1 DEF PendingInv
<1>6. CallInv'
  BY <1>1, <1>2 DEF OrderInv, CallInv
<1>7. H!CallEnqueue(e)
  BY <1>1, <1>2 DEF H!CallEnqueue
<1> QED
  BY <1>3, <1>4, <1>5, <1>6, <1>7 DEF OrderInv

LEMMA ReloadFrontOrder ==
  ASSUME OrderInv, ReloadFront, Remember
  PROVE  OrderInv' /\ UNCHANGED H!fifoVars
<1>1. /\ UNCHANGED <<consumerVars, tailBlock, element>>
      /\ producer = "reload" /\ producer' \in {"write", "full"}
      /\ tailBlock \in Blocks /\ Ring \subseteq Blocks /\ QueueInv
  BY PlaceFacts DEF ReloadFront, Produces, enqueueVars, OrderInv, QueueInv
<1>2. /\ Blocks' = Blocks /\ Len(block') = Len(block)
      /\ \A c \in Blocks :
           /\ block'[c].front = block[c].front /\ block'[c].tail = block[c].tail
           /\ block'[c].next = block[c].next
           /\ block'[c].size = block[c].size /\ block'[c].data = block[c].data
  BY <1>1, CopyOfFront DEF ReloadFront, QueueInv
<1>3. InOrder'
  <2>1. Ring' = Ring
    BY <1>1, <1>2 DEF Ring
  <2>2. held' = held /\ frontBlock' = frontBlock /\ consumer' = consumer
    BY <1>1, ProducerFrame DEF Published
  <2> QED
    BY <1>1, <1>2, <2>1, <2>2, QuietFrame DEF OrderInv
<1>4. PendingInv'
  BY <1>1 DEF PendingInv
<1>5. QueueInv'
  BY <1>1, ReloadFrontStep
<1> QED
  BY <1>1, <1>3, <1>4, <1>5, ProducerQuiet

LEMMA CheckFollowingOrder ==
  ASSUME OrderInv, CheckFollowing, Remember
  PROVE  OrderInv' /\ UNCHANGED H!fifoVars
<1>1. /\ UNCHANGED <<consumerVars, tailBlock, element, block>>
      /\ producer = "full" /\ producer' \in {"ahead", "alloc"} /\ QueueInv
  BY DEF CheckFollowing, Produces, enqueueVars, OrderInv
<1>2. InOrder'
  <2>1. Ring' = Ring
    BY <1>1 DEF Ring, Blocks
  <2>2. held' = held /\ frontBlock' = frontBlock /\ consumer' = consumer
    BY <1>1, ProducerFrame DEF Published
  <2> QED
    BY <1>1, <2>1, <2>2, QuietFrame DEF OrderInv
<1>3. PendingInv'
  BY <1>1 DEF PendingInv
<1>4. QueueInv'
  BY <1>1, CheckFollowingStep
<1> QED
  BY <1>1, <1>2, <1>3, <1>4, ProducerQuiet

LEMMA UseFollowingOrder ==
  ASSUME OrderInv, UseFollowing, Remember
  PROVE  OrderInv' /\ UNCHANGED H!fifoVars
<1> DEFINE n == Following
<1>1. /\ UNCHANGED <<consumerVars, tailBlock, element>>
      /\ producer = "ahead" /\ producer' \in {"writeAhead", "assert"}
      /\ n \in Blocks /\ Ring \subseteq Blocks /\ QueueInv
      /\ block' = [block EXCEPT ![n].localFront = block[n].front]
  BY PlaceFacts DEF UseFollowing, Produces, enqueueVars, OrderInv, QueueInv
<1> HIDE DEF n
<1>2. /\ Blocks' = Blocks /\ Len(block') = Len(block)
      /\ \A c \in Blocks :
           /\ block'[c].front = block[c].front /\ block'[c].tail = block[c].tail
           /\ block'[c].next = block[c].next
           /\ block'[c].size = block[c].size /\ block'[c].data = block[c].data
  BY <1>1, CopyOfFront DEF QueueInv
<1>3. InOrder'
  <2>1. Ring' = Ring
    BY <1>1, <1>2 DEF Ring
  <2>2. held' = held /\ frontBlock' = frontBlock /\ consumer' = consumer
    BY <1>1, ProducerFrame DEF Published
  <2> QED
    BY <1>1, <1>2, <2>1, <2>2, QuietFrame DEF OrderInv
<1>4. PendingInv'
  BY <1>1 DEF PendingInv
<1>5. QueueInv'
  BY <1>1, UseFollowingStep
<1> QED
  BY <1>1, <1>3, <1>4, <1>5, ProducerQuiet

(***************************************************************************)
(* Writing to the cell at tail: it is not in use yet.                      *)
(***************************************************************************)
LEMMA TailIsUnused ==
  ASSUME BlocksInv, NEW b \in Blocks
  PROVE  /\ block[b].tail \in 0 .. block[b].size - 1 /\ block[b].size \in Nat
         /\ ~Occupied(block[b], block[b].tail)
<1>1. /\ block[b].tail \in 0 .. block[b].size - 1 /\ block[b].size \in Nat
      /\ block[b].front \in 0 .. block[b].size - 1
  BY BlockFacts DEF IndexOK
<1> QED
  BY <1>1 DEF Occupied, Dist

LEMMA CellWritten ==
  ASSUME BlocksInv, NEW b \in Blocks, element \in Cell, WriteCell(b)
  PROVE  /\ Blocks' = Blocks /\ Len(block') = Len(block)
         /\ block'[b].data[block[b].tail] = element
         /\ \A c \in Blocks :
              /\ block'[c].front = block[c].front /\ block'[c].tail = block[c].tail
              /\ block'[c].next = block[c].next /\ block'[c].size = block[c].size
              /\ \A i \in 0 .. block[c].size - 1 :
                   Occupied(block[c], i) => block'[c].data[i] = block[c].data[i]
<1> DEFINE t == block[b].tail
<1>1. /\ t \in 0 .. block[b].size - 1 /\ ~Occupied(block[b], t)
      /\ block[b].data \in [0 .. block[b].size - 1 -> Cell]
      /\ block' = [block EXCEPT ![b].data[t] = element]
  BY TailIsUnused, BlockFacts DEF WriteCell, IndexOK
<1>2. t = block[b].tail
  OBVIOUS
<1> HIDE DEF t
<1>3. /\ Blocks' = Blocks /\ Len(block') = Len(block)
      /\ block'[b].data = [block[b].data EXCEPT ![t] = element]
      /\ \A c \in Blocks :
           /\ c # b => block'[c].data = block[c].data
           /\ block'[c].front = block[c].front /\ block'[c].tail = block[c].tail
           /\ block'[c].next = block[c].next /\ block'[c].size = block[c].size
  BY <1>1, CellSet, ZenonT(30)
<1>4. block'[b].data[t] = element
  <2>1. \A d \in [0 .. block[b].size - 1 -> Cell] : [d EXCEPT ![t] = element][t] = element
    BY <1>1
  <2>2. block[b].data \in [0 .. block[b].size - 1 -> Cell]
    BY <1>1
  <2> QED
    BY <1>3, <2>1, <2>2, Zenon
<1>5. ASSUME NEW c \in Blocks, NEW i \in 0 .. block[c].size - 1, Occupied(block[c], i)
      PROVE  block'[c].data[i] = block[c].data[i]
  <2>1. CASE c # b
    BY <1>3, <2>1
  <2>2. CASE c = b
    <3>1. i # t
      BY <1>1, <1>5, <2>2
    <3> QED
      BY <1>1, <1>3, <2>2, <3>1
  <2> QED
    BY <2>1, <2>2
<1> QED
  BY <1>2, <1>3, <1>4, <1>5

LEMMA WriteOrder ==
  ASSUME OrderInv, Write \/ WriteAhead, Remember
  PROVE  OrderInv' /\ UNCHANGED H!fifoVars
<1>1. /\ UNCHANGED <<consumerVars, tailBlock, element>>
      /\ tailBlock \in Blocks /\ Following \in Blocks /\ Ring \subseteq Blocks
      /\ QueueInv /\ element \in Cell
  BY PlaceFacts DEF Write, WriteAhead, enqueueVars, OrderInv, QueueInv, ValuesInv
<1>2. PICK b \in Blocks :
        /\ WriteCell(b)
        /\ \/ producer = "write" /\ producer' = "publish" /\ b = tailBlock
           \/ producer = "writeAhead" /\ producer' = "publishAhead" /\ b = Following
  BY <1>1 DEF Write, WriteAhead, Produces
<1>3. /\ Blocks' = Blocks /\ Len(block') = Len(block)
      /\ block'[b].data[block[b].tail] = element
      /\ \A c \in Blocks :
           /\ block'[c].front = block[c].front /\ block'[c].tail = block[c].tail
           /\ block'[c].next = block[c].next /\ block'[c].size = block[c].size
           /\ \A i \in 0 .. block[c].size - 1 :
                Occupied(block[c], i) => block'[c].data[i] = block[c].data[i]
  BY <1>1, <1>2, CellWritten DEF QueueInv
<1>4. InOrder'
  <2>1. Ring' = Ring
    BY <1>2, <1>3 DEF Ring
  <2>2. held' = held /\ frontBlock' = frontBlock /\ consumer' = consumer
    BY <1>1, <1>2, ProducerFrame DEF Published
  <2> QED
    BY <1>1, <1>2, <1>3, <2>1, <2>2, QuietFrame DEF OrderInv
<1>5. PendingInv'
  <2>1. Following' = Following
    BY <1>1, <1>3 DEF Following
  <2> QED
    BY <1>1, <1>2, <1>3, <2>1 DEF PendingInv
<1>6. QueueInv'
  BY <1>1, WriteStep
<1> QED
  BY <1>1, <1>2, <1>4, <1>5, <1>6, ProducerQuiet

LEMMA AllocateOrder ==
  ASSUME OrderInv, Allocate, Remember
  PROVE  OrderInv' /\ UNCHANGED H!fifoVars
<1> DEFINE n == Len(block) + 1
<1>1. /\ UNCHANGED <<consumerVars, tailBlock, element>>
      /\ producer = "alloc" /\ producer' = "link" /\ QueueInv
      /\ block' = Append(block, BlockWith)
      /\ Following \in Blocks /\ Len(block) \in Nat /\ block \in Seq(BlockSet)
      /\ largestBlockSize \in PowersOfTwo /\ element \in Elements
  BY PlaceFacts DEF Allocate, Produces, enqueueVars, OrderInv, QueueInv, BlocksInv, ValuesInv
<1>2. /\ BlockWith \in BlockSet /\ NextSize \in PowersOfTwo
      /\ BlockWith.front = 0 /\ BlockWith.tail = 1 /\ BlockWith.size = NextSize
      /\ \A i \in 0 .. NextSize - 1 :
           BlockWith.data[i] = (IF i = 0 THEN element ELSE None)
  BY <1>1, BlockFacts, MadeBlock DEF QueueInv
<1>3. /\ Len(block') = n /\ block'[n] = BlockWith
      /\ \A c \in Blocks : block'[c] = block[c]
      /\ Blocks' = Blocks \cup {n}
  BY <1>1, <1>2 DEF Blocks
<1>4. Ring = Blocks /\ Ring' = Blocks
  BY <1>1, <1>3 DEF Ring, Blocks
<1>5. InOrder'
  <2>1. held' = held /\ frontBlock' = frontBlock /\ consumer' = consumer
    BY <1>1, ProducerFrame DEF Published
  <2> QED
    BY <1>1, <1>3, <1>4, <2>1, QuietFrame DEF OrderInv
<1>6. PendingInv'
  <2>1. NextSize \in Nat /\ NextSize >= 2
    BY <1>2, Powers
  <2>2. BlockWith.tail = Succ(0, NextSize) /\ BlockWith.data[0] = element
    BY <1>2, <2>1 DEF Succ
  <2>3. OnlyHolds(Len(block))'
    BY <1>1, <1>2, <1>3, <2>2 DEF OnlyHolds
  <2> QED
    BY <1>1, <2>3 DEF PendingInv
<1>7. QueueInv'
  BY <1>1, AllocateStep
<1> QED
  BY <1>1, <1>5, <1>6, <1>7, ProducerQuiet

LEMMA FailToAllocateOrder ==
  ASSUME OrderInv, FailToAllocate, Remember
  PROVE  OrderInv' /\ H!FailToSend
<1>1. /\ UNCHANGED <<consumerVars, tailBlock, block>>
      /\ producer = "alloc" /\ producer' = "idle" /\ QueueInv
      /\ element' = None /\ element \in Elements
  BY DEF FailToAllocate, Produces, OrderInv, QueueInv, ValuesInv
<1>2. held' = held /\ emptyAtCall' = emptyAtCall /\ UNCHANGED <<call, Doing, result>>
      /\ consumer' = consumer /\ frontBlock' = frontBlock
  BY <1>1, ProducerFrame DEF Published
<1>3. InOrder'
  <2>1. Ring' = Ring
    BY <1>1 DEF Ring, Blocks
  <2> QED
    BY <1>1, <1>2, <2>1, QuietFrame DEF OrderInv
<1>4. PendingInv'
  BY <1>1 DEF PendingInv
<1>5. CallInv'
  BY <1>1, <1>2 DEF OrderInv, CallInv
<1>6. QueueInv'
  BY <1>1, FailToAllocateStep
<1>7. H!FailToSend
  BY <1>1, <1>2, QueueAssumption DEF H!FailToSend
<1> QED
  BY <1>3, <1>4, <1>5, <1>6, <1>7 DEF OrderInv

(***************************************************************************)
(* The first element of a free block: the block becomes the last filled    *)
(* one, but nobody sees the element before tailBlock has moved.            *)
(***************************************************************************)
LEMMA AheadIsFree ==
  ASSUME QueueInv, producer = "publishAhead"
  PROVE  /\ Following \in Ring /\ Following \in Blocks /\ Free(Following)
         /\ Following # tailBlock /\ LastFilled = tailBlock
         /\ Succ(block[Following].tail, block[Following].size) # block[Following].localFront
<1>1. /\ Following \in Ring /\ Following \in Blocks /\ Following # frontBlock
      /\ block[Following].localFront = block[Following].tail
      /\ LastFilled = tailBlock /\ tailBlock \in Ring
  BY PlaceFacts DEF QueueInv, ProducerInv, LastFilled, RingInv
<1>2. Free(Following)
  BY <1>1 DEF QueueInv, RingInv, Following
<1>3. /\ block[Following].tail \in 0 .. block[Following].size - 1
      /\ block[Following].size \in Nat /\ block[Following].size >= 2
  BY <1>1, BlockFacts DEF QueueInv, IndexOK
<1>4. Succ(block[Following].tail, block[Following].size) # block[Following].tail
  BY <1>3 DEF Succ
<1> QED
  BY <1>1, <1>2, <1>4 DEF Free

LEMMA PublishAheadOrder ==
  ASSUME OrderInv, PublishAhead, Remember
  PROVE  OrderInv' /\ UNCHANGED H!fifoVars
<1> DEFINE n == Following
<1>1. /\ UNCHANGED <<consumerVars, tailBlock, element>>
      /\ producer = "publishAhead" /\ producer' = "advance" /\ PublishCell(n)
      /\ QueueInv /\ Ring \subseteq Blocks /\ tailBlock \in Blocks
      /\ block[n].data[block[n].tail] = element
  BY PlaceFacts DEF PublishAhead, Produces, enqueueVars, OrderInv, QueueInv, PendingInv
<1>2. /\ n \in Ring /\ n \in Blocks /\ Free(n) /\ n # tailBlock /\ n = block[tailBlock].next
      /\ LastFilled = tailBlock
      /\ Succ(block[n].tail, block[n].size) # block[n].localFront
  BY <1>1, AheadIsFree DEF Following
<1>3. n = Following
  OBVIOUS
<1> HIDE DEF n
<1>4. /\ Blocks' = Blocks /\ Len(block') = Len(block)
      /\ block'[n].tail = Succ(block[n].tail, block[n].size)
      /\ \A c \in Blocks :
           /\ c # n => block'[c].tail = block[c].tail
           /\ block'[c].front = block[c].front /\ block'[c].next = block[c].next
           /\ block'[c].size = block[c].size /\ block'[c].data = block[c].data
  BY <1>1, <1>2, TailMoved DEF QueueInv
<1>5. Following' = n /\ LastFilled' = n /\ Ring' = Ring
  BY <1>1, <1>2, <1>4 DEF Following, LastFilled, Ring
<1>6. held' = held /\ frontBlock' = frontBlock /\ consumer' = consumer
  BY <1>1, ProducerFrame DEF Published
<1>7. ~Live(n)
  BY <1>2 DEF Live
<1>8. ASSUME NEW b \in Ring, Live(b)'
      PROVE  Live(b)
  <2>1. b # n /\ ~Free(b)'
    BY <1>1, <1>5, <1>8 DEF Live
  <2>2. EmptyBlock(b)' <=> EmptyBlock(b)
    BY <1>1, <1>4, <2>1 DEF EmptyBlock
  <2>3. ~Free(b)
    BY <1>5, <1>6, <2>1, <2>2 DEF Free
  <2> QED
    BY <1>1, <2>3 DEF Live
<1>9. InOrder'
  <2>1. Quiet
    BY <1>1, <1>4, <1>5, <1>6, <1>7, <1>8 DEF Quiet
  <2> QED
    BY <2>1, QuietStep DEF OrderInv
<1>10. PendingInv'
  <2>1. block[n].front = block[n].tail
    BY <1>2 DEF Free, EmptyBlock
  <2>2. OnlyHolds(Following)'
    BY <1>1, <1>2, <1>4, <1>5, <2>1 DEF OnlyHolds
  <2> QED
    BY <1>1, <2>2 DEF PendingInv
<1>11. QueueInv'
  BY <1>1, PublishAheadStep
<1> QED
  BY <1>1, <1>9, <1>10, <1>11, ProducerQuiet

LEMMA LinkOrder ==
  ASSUME OrderInv, Link, Remember
  PROVE  OrderInv' /\ UNCHANGED H!fifoVars
<1> DEFINE n == Len(block)
           t == tailBlock
           r == [block[t] EXCEPT !.next = n]
<1>1. /\ UNCHANGED <<consumerVars, tailBlock, element>>
      /\ producer = "link" /\ producer' = "advance" /\ QueueInv
      /\ n \in Nat /\ n > 1 /\ n \in Blocks /\ Ring = 1 .. n - 1 /\ Ring \subseteq Blocks
      /\ t \in Ring /\ LastFilled = t /\ OnlyHolds(n)
      /\ block \in Seq(BlockSet)
      /\ block' = [block EXCEPT ![t] = r]
  BY PlaceFacts DEF Link, Produces, enqueueVars, OrderInv, QueueInv, ProducerInv, BlocksInv,
     Blocks, RingInv, Ring, LastFilled, PendingInv
<1>2. /\ r \in BlockSet /\ r.next = n /\ r.front = block[t].front /\ r.tail = block[t].tail
      /\ r.size = block[t].size /\ r.data = block[t].data
  <2>1. block[t] \in BlockSet
    BY <1>1
  <2> QED
    BY <1>1, <2>1 DEF BlockSet
<1> HIDE DEF r
<1>3. t \in Blocks
  BY <1>1
<1>4. /\ Len(block') = n /\ Blocks' = Blocks /\ block'[t] = r
      /\ \A c \in Blocks : c # t => block'[c] = block[c]
  BY <1>1, <1>2, <1>3, BlockReplaced
<1>5. /\ block'[t].next = n
      /\ \A c \in Blocks :
           /\ c # t => block'[c].next = block[c].next
           /\ block'[c].front = block[c].front /\ block'[c].tail = block[c].tail
           /\ block'[c].size = block[c].size /\ block'[c].data = block[c].data
  BY <1>2, <1>4
<1>6. t = tailBlock /\ t' = t /\ n = Len(block) /\ n' = n
  BY <1>1, <1>4
<1> HIDE DEF n, t
<1>7. Following' = n /\ LastFilled' = n /\ Ring' = Ring \cup {n} /\ n \notin Ring
  BY <1>1, <1>4, <1>5, <1>6 DEF Following, LastFilled, Ring, Blocks
<1>8. held' = held /\ frontBlock' = frontBlock /\ consumer' = consumer
  BY <1>1, ProducerFrame DEF Published
<1>9. ASSUME NEW b \in Ring', Live(b)'
      PROVE  b \in Ring /\ Live(b)
  <2>1. b # n /\ ~Free(b)'
    BY <1>1, <1>7, <1>9 DEF Live
  <2>2. b \in Ring /\ b \in Blocks
    BY <1>1, <1>7, <2>1
  <2>3. EmptyBlock(b)' <=> EmptyBlock(b)
    BY <1>5, <2>2 DEF EmptyBlock
  <2>4. ~Free(b)
    BY <1>7, <1>8, <2>1, <2>3 DEF Free
  <2> QED
    BY <1>1, <2>2, <2>4 DEF Live
<1>10. InOrder'
  <2>1. Quiet
    BY <1>1, <1>5, <1>6, <1>8, <1>9 DEF Quiet
  <2> QED
    BY <1>1, <2>1, QuietStep DEF OrderInv
<1>11. PendingInv'
  <2>1. OnlyHolds(n)'
    BY <1>1, <1>4, <1>5, <1>6 DEF OnlyHolds
  <2>2. OnlyHolds(Following)'
    BY <1>4, <1>6, <1>7, <2>1 DEF OnlyHolds
  <2> QED
    BY <1>1, <2>2 DEF PendingInv
<1>12. QueueInv'
  BY <1>1, LinkStep
<1> QED
  BY <1>1, <1>10, <1>11, <1>12, ProducerQuiet

-----------------------------------------------------------------------------
(***************************************************************************)
(* The two stores that publish an element: it gets the number sent.        *)
(***************************************************************************)
LEMMA OneFurther ==
  ASSUME NEW n \in Nat, NEW f \in 0 .. n - 1, NEW t \in 0 .. n - 1, Succ(t, n) # f
  PROVE  /\ Dist(f, t, n) \in Nat
         /\ Dist(f, Succ(t, n), n) = Dist(f, t, n) + 1
BY DEF Dist, Succ

LEMMA FirstCell ==
  ASSUME NEW n \in Nat, n >= 2, NEW f \in 0 .. n - 1
  PROVE  /\ Dist(f, f, n) = 0 /\ Dist(f, Succ(f, n), n) = 1
         /\ \A i \in 0 .. n - 1 : Dist(f, i, n) < 1 => i = f
BY DEF Dist, Succ

LEMMA SumIsNat == \A m, n \in Nat : m + n \in Nat
OBVIOUS

LEMMA PlaceIsNat ==
  ASSUME BlocksInv, NEW b \in Blocks, NEW i \in 0 .. block[b].size - 1
  PROVE  Place(b, i) \in Nat
<1>1. block[b].size \in Nat /\ block[b].front \in 0 .. block[b].size - 1
  BY BlockFacts DEF IndexOK
<1> QED
  BY <1>1 DEF Place, Dist

LEMMA HeldGrows ==
  ASSUME NEW log \in [Nat -> Cell], NEW sent \in Nat, NEW taken \in Nat,
         NEW CONSTANT new \in [Nat -> Cell], new = [log EXCEPT ![sent] = element],
         HeldIs(log, sent, taken), element \in Elements, held' = Append(held, element)
  PROVE  HeldIs(new, sent + 1, taken)' /\ held' # <<>>
<1>1. held \in Seq(Elements) /\ Len(held) \in Nat /\ taken + Len(held) = sent
  BY DEF HeldIs
<1>2. /\ held' \in Seq(Elements) /\ Len(held') = Len(held) + 1
      /\ \A i \in 1 .. Len(held) : held'[i] = held[i]
      /\ held'[Len(held) + 1] = element
  BY <1>1
<1>3. ASSUME NEW i \in 1 .. Len(held')
      PROVE  held'[i] = new[taken + i - 1]
  <2>1. CASE i \in 1 .. Len(held)
    <3>1. held[i] = log[taken + i - 1]
      BY <2>1 DEF HeldIs
    <3>2. taken + i - 1 \in Nat /\ taken + i - 1 # sent
      BY <1>1, <2>1
    <3> QED
      BY <1>2, <2>1, <3>1, <3>2
  <2>2. CASE i = Len(held) + 1
    <3>1. taken + i - 1 = sent
      BY <1>1, <2>2
    <3> QED
      BY <1>2, <2>2, <3>1
  <2> QED
    BY <1>1, <1>2, <2>1, <2>2
<1>4. taken + Len(held') = sent + 1
  BY <1>1, <1>2
<1>5. held' # <<>>
  BY <1>1, <1>2
<1>6. HeldIs(new, sent + 1, taken)'
  BY <1>2, <1>3, <1>4 DEF HeldIs
<1> QED
  BY <1>5, <1>6

LEMMA PublishInOrder ==
  ASSUME OrderInv, Publish, UNCHANGED consumerVars, held' = Append(held, element)
  PROVE  InOrder'
<1> DEFINE t == tailBlock
           e == block[t].tail
<1>1. /\ tailBlock' = t /\ frontBlock' = frontBlock /\ consumer' = consumer
      /\ producer = "publish" /\ producer' = "idle" /\ PublishCell(t)
      /\ QueueInv /\ t \in Blocks /\ Ring \subseteq Blocks /\ t \in Ring
      /\ Succ(e, block[t].size) # block[t].localFront
      /\ block[t].data[e] = element /\ element \in Elements /\ element \in Cell
      /\ BlocksInv
  BY PlaceFacts
     DEF Publish, Produces, OrderInv, QueueInv, ProducerInv, PendingInv, RingInv, ValuesInv,
         consumerVars
<1>2. /\ Blocks' = Blocks /\ Len(block') = Len(block)
      /\ block'[t].tail = Succ(e, block[t].size)
      /\ Succ(e, block[t].size) # block[t].front
      /\ \A c \in Blocks :
           /\ c # t => block'[c].tail = block[c].tail
           /\ block'[c].front = block[c].front /\ block'[c].next = block[c].next
           /\ block'[c].size = block[c].size /\ block'[c].data = block[c].data
  BY <1>1, TailMoved
<1>3. /\ block[t].size \in Nat /\ block[t].front \in 0 .. block[t].size - 1
      /\ e \in 0 .. block[t].size - 1
  BY <1>1, BlockFacts DEF IndexOK
<1>4. t = tailBlock /\ t' = t /\ e = block[t].tail
  BY <1>1
<1> HIDE DEF t, e
<1>5. Ring' = Ring /\ LastFilled' = t /\ LastFilled = t
  BY <1>1, <1>2, <1>4 DEF Ring, LastFilled
<1>6. ASSUME NEW b \in Ring, Live(b)'
      PROVE  Live(b)
  <2>1. b = t => Live(b)
    BY <1>1, <1>4, LivePlaces
  <2>2. b # t => (EmptyBlock(b)' <=> EmptyBlock(b))
    BY <1>1, <1>2 DEF EmptyBlock
  <2> QED
    BY <1>1, <1>5, <1>6, <2>1, <2>2 DEF Live, Free
<1>7. PICK log \in [Nat -> Cell], first \in [Nat -> Nat], sent \in Nat, taken \in Nat :
        Numbered(log, first, sent, taken)
  BY DEF OrderInv, InOrder
<1>8. PICK new \in [Nat -> Cell] : new = [log EXCEPT ![sent] = element]
  BY <1>1
<1>9. new[sent] = element /\ \A k \in Nat : k < sent => new[k] = log[k]
  BY <1>8
<1>10. HeldIs(new, sent + 1, taken)'
  BY <1>1, <1>7, <1>8, HeldGrows DEF Numbered
<1>11. /\ CellsOf(t) \in Nat /\ CellsOf(t)' = CellsOf(t) + 1
       /\ \A b \in Blocks : b # t => CellsOf(b)' = CellsOf(b)
       /\ \A b \in Blocks : \A i : Place(b, i)' = Place(b, i)
  <2>1. CellsOf(t)' = Dist(block[t].front, Succ(e, block[t].size), block[t].size)
    BY <1>1, <1>2, <1>4 DEF CellsOf
  <2>2. CellsOf(t) = Dist(block[t].front, e, block[t].size)
    BY <1>4 DEF CellsOf
  <2>3. CellsOf(t) \in Nat /\ CellsOf(t)' = CellsOf(t) + 1
    BY <1>2, <1>3, <2>1, <2>2, OneFurther, ZenonT(30)
  <2> QED
    BY <1>2, <2>3 DEF CellsOf, Place
<1>12. sent = first[t] + CellsOf(t) /\ t \in Nat /\ first[t] \in Nat
  BY <1>1, <1>4, <1>7, BlockFacts DEF Numbered, ChainIs
<1>13. ChainIs(first, sent + 1, taken)'
  <2>1. taken = (IF consumer' = "release" THEN first[frontBlock'] + 1 ELSE first[frontBlock'])
    BY <1>1, <1>7 DEF Numbered, ChainIs
  <2>2. sent + 1 = first[tailBlock'] + CellsOf(tailBlock)'
    <3>1. CellsOf(tailBlock)' = CellsOf(t) + 1
      BY <1>1, <1>4, <1>11 DEF CellsOf
    <3>2. first[tailBlock'] = first[t]
      BY <1>1
    <3> QED
      BY <1>11, <1>12, <3>1, <3>2
  <2>3. ASSUME NEW b \in Ring', Live(b)', b # tailBlock'
        PROVE  first[block'[b].next] = first[b] + CellsOf(b)'
    <3>1. b \in Ring /\ Live(b) /\ b # tailBlock /\ b # t /\ b \in Blocks
      BY <1>1, <1>4, <1>5, <1>6, <2>3
    <3> QED
      BY <1>2, <1>7, <1>11, <3>1 DEF Numbered, ChainIs
  <2> QED
    BY <2>1, <2>2, <2>3 DEF ChainIs
<1>14. ASSUME NEW b \in Ring', Live(b)', NEW i \in 0 .. block'[b].size - 1,
              Occupied(block[b], i)'
       PROVE  /\ first[b] + Place(b, i)' < sent + 1
              /\ ~Emptied(b, i)' => block'[b].data[i] = new[first[b] + Place(b, i)']
  <2>1. b \in Ring /\ b \in Blocks /\ Live(b) /\ i \in 0 .. block[b].size - 1
    BY <1>1, <1>2, <1>5, <1>6, <1>14
  <2>2. /\ Place(b, i)' = Place(b, i) /\ block'[b].data[i] = block[b].data[i]
        /\ b \in Nat /\ first[b] \in Nat /\ Place(b, i) \in Nat
    BY <1>1, <1>2, <1>11, <2>1, BlockFacts, PlaceIsNat
  <2>3. Emptied(b, i)' <=> Emptied(b, i)
    BY <1>1, <1>2, <2>1 DEF Emptied
  <2>4. CellIs(log, first, sent, b, i)
    BY <1>7, <2>1 DEF Numbered
  <2>5. PICK k \in Nat : k = first[b] + Place(b, i)
    <3>1. first[b] + Place(b, i) \in Nat
      BY <2>2, SumIsNat
    <3> QED
      BY <3>1
  <2>6. k = first[b] + Place(b, i)'
    BY <2>2, <2>5
  <2>7. CASE Occupied(block[b], i)
    <3>1. k < sent /\ (~Emptied(b, i) => block[b].data[i] = log[k])
      BY <2>4, <2>5, <2>7 DEF CellIs
    <3>2. k < sent + 1 /\ new[k] = log[k]
      BY <1>9, <3>1
    <3> QED
      BY <2>2, <2>3, <2>6, <3>1, <3>2
  <2>8. CASE ~Occupied(block[b], i)
    <3>1. b = t
      BY <1>2, <1>14, <2>1, <2>8 DEF Occupied
    <3>2. i = e
      <4>1. Dist(block[t].front, i, block[t].size)
              < Dist(block[t].front, Succ(e, block[t].size), block[t].size)
        BY <1>1, <1>2, <1>14, <3>1 DEF Occupied
      <4>2. ~(Dist(block[t].front, i, block[t].size) < Dist(block[t].front, e, block[t].size))
        BY <1>4, <2>8, <3>1 DEF Occupied
      <4>3. i \in 0 .. block[t].size - 1
        BY <2>1, <3>1
      <4> QED
        BY <1>2, <1>3, <4>1, <4>2, <4>3, OneMore
    <3>3. Place(b, i) = CellsOf(t)
      BY <1>4, <3>1, <3>2 DEF Place, CellsOf
    <3>4. k = sent
      BY <1>12, <2>5, <3>1, <3>3
    <3>5. block'[b].data[i] = new[k] /\ k < sent + 1
      BY <1>1, <1>9, <2>2, <3>1, <3>2, <3>4
    <3> QED
      BY <2>6, <3>5
  <2> QED
    BY <2>7, <2>8
<1>15. Numbered(new, first, sent + 1, taken)'
  <2>1. ASSUME NEW b \in Ring', Live(b)', NEW i \in 0 .. block'[b].size - 1
        PROVE  CellIs(new, first, sent + 1, b, i)'
    BY <1>14, <2>1 DEF CellIs
  <2> QED
    BY <1>10, <1>13, <2>1 DEF Numbered
<1>16. sent + 1 \in Nat
  OBVIOUS
<1> QED
  BY <1>15, <1>16, Zenon DEF InOrder

LEMMA AdvanceInOrder ==
  ASSUME OrderInv, AdvanceTail, UNCHANGED consumerVars, held' = Append(held, element)
  PROVE  InOrder' /\ Following # frontBlock
<1>1. PICK n : n = Following
  OBVIOUS
<1>2. /\ tailBlock' = n /\ frontBlock' = frontBlock /\ consumer' = consumer /\ block' = block
      /\ producer = "advance" /\ producer' = "idle"
      /\ QueueInv /\ BlocksInv /\ Ring \subseteq Blocks /\ n \in Blocks /\ n \in Ring
      /\ n # frontBlock /\ LastFilled = n /\ block[tailBlock].next = n
      /\ OnlyHolds(n) /\ element \in Elements /\ element \in Cell
  BY <1>1, PlaceFacts
     DEF AdvanceTail, Produces, OrderInv, QueueInv, ProducerInv, PendingInv, ValuesInv, Cell,
         consumerVars, LastFilled, Following
<1>3. /\ n \in Nat /\ block[n].size \in Nat /\ block[n].size >= 2
      /\ block[n].front \in 0 .. block[n].size - 1
  BY <1>2, BlockFacts DEF IndexOK
<1>4. tailBlock \in Ring /\ tailBlock # n /\ frontBlock \in Ring /\ Live(tailBlock)
  BY <1>1, <1>2, LivePlaces DEF Live
<1>5. Ring' = Ring /\ LastFilled' = n
  BY <1>2 DEF Ring, Blocks, LastFilled
<1>6. ASSUME NEW b \in Ring, Live(b)', b # n
      PROVE  Live(b)
  BY <1>1, <1>2, <1>5, <1>6 DEF Live, Free, EmptyBlock
<1>7. PICK log \in [Nat -> Cell], first \in [Nat -> Nat], sent \in Nat, taken \in Nat :
        Numbered(log, first, sent, taken)
  BY DEF OrderInv, InOrder
<1>8. PICK new \in [Nat -> Cell] : new = [log EXCEPT ![sent] = element]
  BY <1>2
<1>9. new[sent] = element /\ \A k \in Nat : k < sent => new[k] = log[k]
  BY <1>8
<1>10. PICK start \in [Nat -> Nat] : start = [first EXCEPT ![n] = sent]
  BY <1>3
<1>11. start[n] = sent /\ \A b \in Nat : b # n => start[b] = first[b]
  BY <1>3, <1>10
<1>12. HeldIs(new, sent + 1, taken)'
  BY <1>2, <1>7, <1>8, HeldGrows DEF Numbered
<1>13. \A b : CellsOf(b)' = CellsOf(b) /\ (EmptyBlock(b)' <=> EmptyBlock(b))
  BY <1>2 DEF CellsOf, EmptyBlock
<1>14. CellsOf(n) = 1
  BY <1>2, <1>3, FirstCell DEF CellsOf, OnlyHolds
<1>15. \A b \in Ring : b \in Nat /\ block[b].next \in Nat
  BY <1>2, BlockFacts DEF QueueInv, RingInv
<1>16. ChainIs(start, sent + 1, taken)'
  <2>1. taken = (IF consumer' = "release" THEN start[frontBlock'] + 1 ELSE start[frontBlock'])
    BY <1>2, <1>4, <1>7, <1>11, <1>15 DEF Numbered, ChainIs
  <2>2. sent + 1 = start[tailBlock'] + CellsOf(tailBlock)'
    <3>1. CellsOf(tailBlock)' = 1
      BY <1>2, <1>14 DEF CellsOf
    <3> QED
      BY <1>2, <1>11, <3>1
  <2>3. ASSUME NEW b \in Ring', Live(b)', b # tailBlock'
        PROVE  start[block'[b].next] = start[b] + CellsOf(b)'
    <3>1. b \in Ring /\ b # n /\ Live(b) /\ start[b] = first[b]
      BY <1>2, <1>5, <1>6, <1>11, <1>15, <2>3
    <3>2. CASE b = tailBlock
      BY <1>2, <1>7, <1>11, <1>13, <3>1, <3>2 DEF Numbered, ChainIs
    <3>3. CASE b # tailBlock
      <4>1. block[b].next # n
        BY <1>2, <1>4, <3>1, <3>3 DEF QueueInv, RingInv
      <4>2. start[block[b].next] = first[block[b].next]
        BY <1>11, <1>15, <3>1, <4>1
      <4> QED
        BY <1>2, <1>7, <1>13, <3>1, <3>3, <4>2 DEF Numbered, ChainIs
    <3> QED
      BY <3>2, <3>3
  <2> QED
    BY <2>1, <2>2, <2>3 DEF ChainIs
<1>17. ASSUME NEW b \in Ring', Live(b)', NEW i \in 0 .. block'[b].size - 1,
              Occupied(block[b], i)'
       PROVE  /\ start[b] + Place(b, i)' < sent + 1
              /\ ~Emptied(b, i)' => block'[b].data[i] = new[start[b] + Place(b, i)']
  <2>1. b \in Ring /\ b \in Blocks /\ i \in 0 .. block[b].size - 1 /\ Occupied(block[b], i)
    BY <1>2, <1>5, <1>17
  <2>2. /\ Place(b, i)' = Place(b, i) /\ b \in Nat /\ start[b] \in Nat /\ Place(b, i) \in Nat
        /\ Emptied(b, i)' <=> Emptied(b, i)
    BY <1>2, <1>15, <2>1, PlaceIsNat DEF Place, Emptied
  <2>3. PICK k \in Nat : k = start[b] + Place(b, i)
    <3>1. start[b] + Place(b, i) \in Nat
      BY <2>2, SumIsNat
    <3> QED
      BY <3>1
  <2>4. k = start[b] + Place(b, i)'
    BY <2>2, <2>3
  <2>5. CASE b # n
    <3>1. Live(b) /\ start[b] = first[b]
      BY <1>6, <1>11, <1>17, <2>1, <2>2, <2>5
    <3>2. k < sent /\ (~Emptied(b, i) => block[b].data[i] = log[k])
      BY <1>7, <2>1, <2>3, <3>1 DEF Numbered, CellIs
    <3>3. k < sent + 1 /\ new[k] = log[k]
      <4>1. k < sent
        BY <3>2
      <4> QED
        BY <1>9, <4>1
    <3> QED
      BY <1>2, <2>2, <2>4, <3>2, <3>3
  <2>6. CASE b = n
    <3>1. i = block[n].front
      <4>1. Dist(block[n].front, i, block[n].size) < 1
        BY <1>14, <2>1, <2>6 DEF Occupied, CellsOf
      <4>2. i \in 0 .. block[n].size - 1
        BY <2>1, <2>6
      <4> QED
        BY <1>3, <4>1, <4>2, FirstCell
    <3>2. Place(b, i) = 0
      BY <1>3, <2>6, <3>1, FirstCell DEF Place
    <3>3. k = sent
      BY <1>11, <2>2, <2>3, <2>6, <3>2
    <3>4. block[b].data[i] = new[k] /\ k < sent + 1
      BY <1>2, <1>9, <2>6, <3>1, <3>3 DEF OnlyHolds
    <3> QED
      BY <1>2, <2>4, <3>4
  <2> QED
    BY <2>5, <2>6
<1>18. Numbered(new, start, sent + 1, taken)'
  <2>1. ASSUME NEW b \in Ring', Live(b)', NEW i \in 0 .. block'[b].size - 1
        PROVE  CellIs(new, start, sent + 1, b, i)'
    BY <1>17, <2>1 DEF CellIs
  <2> QED
    BY <1>12, <1>16, <2>1 DEF Numbered
<1>19. sent + 1 \in Nat
  OBVIOUS
<1>20. InOrder'
  BY <1>18, <1>19, Zenon DEF InOrder
<1> QED
  BY <1>1, <1>2, <1>20

LEMMA PublishedHeld ==
  ASSUME OrderInv, Published
  PROVE  held \in Seq(Elements) /\ Append(held, element) # <<>> /\ element \in Elements
<1>1. held \in Seq(Elements)
  BY DEF OrderInv, InOrder, Numbered, HeldIs
<1>2. element \in Elements
  BY DEF Published, OrderInv, QueueInv, ValuesInv
<1>3. Len(held) \in Nat /\ Len(Append(held, element)) = Len(held) + 1
  BY <1>1, <1>2
<1>4. Append(held, element) # <<>>
  BY <1>3
<1> QED
  BY <1>1, <1>2, <1>4

LEMMA PublishOrder ==
  ASSUME OrderInv, Publish \/ AdvanceTail, Remember
  PROVE  OrderInv' /\ H!Send
<1>1. /\ UNCHANGED consumerVars /\ Published /\ producer' = "idle" /\ element' = None
      /\ QueueInv
  BY DEF Publish, AdvanceTail, Produces, Published, OrderInv
<1>2. /\ held' = Append(held, element) /\ held' # <<>> /\ element # None
      /\ emptyAtCall' = emptyAtCall /\ UNCHANGED <<call, Doing, result>>
      /\ consumer' = consumer /\ frontBlock' = frontBlock
  BY <1>1, ProducerFrame, PublishedHeld, QueueAssumption
<1>3. InOrder'
  BY <1>1, <1>2, PublishInOrder, AdvanceInOrder
<1>4. QueueInv'
  BY <1>1, PublishStep, AdvanceTailStep
<1>5. PendingInv'
  BY <1>1 DEF PendingInv
<1>6. CallInv'
  <2>1. CASE Publish
    BY <1>2, <2>1 DEF Publish, OrderInv, CallInv
  <2>2. CASE AdvanceTail
    <3>1. tailBlock' # frontBlock'
      BY <1>1, <1>2, <2>2, AdvanceInOrder DEF AdvanceTail
    <3> QED
      BY <1>2, <3>1 DEF OrderInv, CallInv
  <2> QED
    BY <2>1, <2>2
<1>7. H!Send
  BY <1>1, <1>2 DEF H!Send
<1> QED
  BY <1>3, <1>4, <1>5, <1>6, <1>7 DEF OrderInv

-----------------------------------------------------------------------------
(***************************************************************************)
(* What a step of the consumer leaves alone.                               *)
(***************************************************************************)
LEMMA ConsumerFrame ==
  ASSUME Remember, UNCHANGED producerVars
  PROVE  /\ producer' = producer /\ tailBlock' = tailBlock /\ element' = element
         /\ ~MovedOut => held' = held
         /\ MovedOut => held' = Tail(held)
         /\ ~Called => emptyAtCall' = emptyAtCall
         /\ Called => emptyAtCall' = (held = <<>>)
<1>1. producer' = producer /\ tailBlock' = tailBlock /\ element' = element
  BY DEF producerVars, enqueueVars
<1>2. ~Published
  BY <1>1 DEF Published
<1> QED
  BY <1>1, <1>2 DEF Remember

\* Only the block in front is changed, and not its end.
FrontOnly ==
  /\ Len(block') = Len(block)
  /\ \A c \in Blocks :
       /\ block'[c].tail = block[c].tail /\ block'[c].next = block[c].next
       /\ block'[c].size = block[c].size
       /\ block'[c].data[block[c].tail] = block[c].data[block[c].tail]
       /\ c # frontBlock => /\ block'[c].front = block[c].front
                            /\ block'[c].data = block[c].data

LEMMA PendingKept ==
  ASSUME OrderInv, UNCHANGED producerVars, FrontOnly
  PROVE  PendingInv'
<1>1. /\ producer' = producer /\ tailBlock' = tailBlock /\ element' = element
      /\ tailBlock \in Blocks /\ Following \in Blocks
      /\ QueueInv /\ PendingInv
  BY PlaceFacts DEF producerVars, enqueueVars, OrderInv, QueueInv
<1>2. Following' = Following
  BY <1>1 DEF Following, FrontOnly
<1>3. ASSUME producer = "link"
      PROVE  OnlyHolds(Len(block))'
  <2>1. Len(block) \in Blocks /\ Len(block) # frontBlock
    BY <1>1, <1>3 DEF QueueInv, BlocksInv, RingInv, Ring, ProducerInv, Blocks
  <2>2. OnlyHolds(Len(block))
    BY <1>1, <1>3 DEF PendingInv
  <2> QED
    BY <1>1, <2>1, <2>2 DEF OnlyHolds, FrontOnly
<1>4. ASSUME producer = "advance"
      PROVE  OnlyHolds(Following)'
  <2>1. Following # frontBlock
    BY <1>1, <1>4 DEF QueueInv, ProducerInv
  <2>2. OnlyHolds(Following)
    BY <1>1, <1>4 DEF PendingInv
  <2> QED
    BY <1>1, <1>2, <2>1, <2>2 DEF OnlyHolds, FrontOnly
<1>5. /\ producer = "publish" => block'[tailBlock'].data[block'[tailBlock'].tail] = element
      /\ producer = "publishAhead" => block'[Following'].data[block'[Following'].tail] = element
  BY <1>1, <1>2 DEF FrontOnly, PendingInv
<1> QED
  BY <1>1, <1>3, <1>4, <1>5 DEF PendingInv

\* What is in the blocks stays there.
SameBlocks ==
  /\ Len(block') = Len(block)
  /\ \A c \in Blocks :
       /\ block'[c].front = block[c].front /\ block'[c].tail = block[c].tail
       /\ block'[c].next = block[c].next /\ block'[c].size = block[c].size
       /\ block'[c].data = block[c].data

LEMMA SameBlocksOrder ==
  ASSUME OrderInv, UNCHANGED producerVars, SameBlocks, frontBlock' = frontBlock, held' = held,
         consumer # "release", consumer' # "release"
  PROVE  InOrder' /\ PendingInv'
<1>1. producer' = producer /\ tailBlock' = tailBlock /\ QueueInv /\ InOrder /\ Ring \subseteq Blocks
  BY PlaceFacts DEF producerVars, OrderInv, QueueInv
<1>2. Ring' = Ring
  BY <1>1 DEF Ring, Blocks, SameBlocks
<1>3. InOrder'
  BY <1>1, <1>2, QuietFrame DEF SameBlocks
<1>4. PendingInv'
  BY PendingKept DEF SameBlocks, FrontOnly
<1> QED
  BY <1>3, <1>4

\* Between the call and its effect: nothing happens that the caller could see.
LEMMA ConsumerQuiet ==
  ASSUME OrderInv, Remember, UNCHANGED <<frontBlock, call, result, producerVars>>, SameBlocks,
         consumer \notin {"idle", "release"}, consumer' \notin {"idle", "release", "reload"},
         consumer' = "checkTail" => emptyAtCall \/ frontBlock # tailBlock,
         QueueInv'
  PROVE  OrderInv' /\ UNCHANGED H!fifoVars
<1>1. /\ held' = held /\ emptyAtCall' = emptyAtCall /\ element' = element
      /\ tailBlock' = tailBlock
  BY ConsumerFrame DEF MovedOut, Called
<1>2. Doing' = Doing
  BY <1>1 DEF Doing
<1>3. InOrder' /\ PendingInv'
  BY <1>1, SameBlocksOrder
<1>4. CallInv'
  BY <1>1 DEF OrderInv, CallInv
<1> QED
  BY <1>1, <1>2, <1>3, <1>4 DEF OrderInv, H!fifoVars

-----------------------------------------------------------------------------
(***************************************************************************)
(* Where the oldest element is.                                            *)
(***************************************************************************)
LEMMA FrontIsEmpty ==
  ASSUME BlocksInv, NEW b \in Blocks
  PROVE  EmptyBlock(b) => CellsOf(b) = 0
<1>1. block[b].front \in 0 .. block[b].size - 1 /\ block[b].size \in Nat
  BY BlockFacts DEF IndexOK
<1> QED
  BY <1>1 DEF EmptyBlock, CellsOf, Dist

LEMMA EmptyWhenAlone ==
  ASSUME OrderInv, consumer # "release", frontBlock = tailBlock, EmptyBlock(frontBlock)
  PROVE  held = <<>>
<1>1. PICK log \in [Nat -> Cell], first \in [Nat -> Nat], sent \in Nat, taken \in Nat :
        Numbered(log, first, sent, taken)
  BY DEF OrderInv, InOrder
<1>2. frontBlock \in Blocks /\ BlocksInv /\ frontBlock \in Nat
  BY PlaceFacts, BlockFacts DEF OrderInv, QueueInv
<1>3. CellsOf(tailBlock) = 0
  BY <1>2, FrontIsEmpty
<1>4. taken = first[frontBlock] /\ sent = first[frontBlock] + 0 /\ first[frontBlock] \in Nat
  BY <1>1, <1>2, <1>3 DEF Numbered, ChainIs
<1>5. held \in Seq(Elements) /\ taken + Len(held) = sent
  BY <1>1 DEF Numbered, HeldIs
<1>6. Len(held) = 0
  <2>1. Len(held) \in Nat
    BY <1>5
  <2>2. taken \in Nat /\ taken + Len(held) = taken
    BY <1>4, <1>5
  <2> QED
    BY <2>1, <2>2
<1> QED
  BY <1>5, <1>6

LEMMA OldestIsHead ==
  ASSUME QueueInv, NEW log \in [Nat -> Cell], NEW first \in [Nat -> Nat],
         NEW sent \in Nat, NEW taken \in Nat, Numbered(log, first, sent, taken),
         consumer # "release",
         NEW b \in Ring, Live(b), ~EmptyBlock(b), first[b] = taken
  PROVE  held # <<>> /\ Head(held) = block[b].data[block[b].front]
<1> DEFINE f == block[b].front
<1>1. /\ b \in Blocks /\ f \in 0 .. block[b].size - 1 /\ block[b].size \in Nat
      /\ block[b].tail \in 0 .. block[b].size - 1 /\ f # block[b].tail
      /\ block[b].size >= 2
  BY PlaceFacts, BlockFacts DEF QueueInv, IndexOK, EmptyBlock
<1>2. f = block[b].front
  OBVIOUS
<1> HIDE DEF f
<1>3. Place(b, f) = 0
  BY <1>1, <1>2, FirstCell DEF Place
<1>4. Occupied(block[b], f)
  BY <1>1, <1>2 DEF Occupied, Dist
<1>5. CellIs(log, first, sent, b, f) /\ ~Emptied(b, f)
  BY <1>1 DEF Numbered, Emptied
<1>6. first[b] + Place(b, f) = taken
  BY <1>3
<1>7. taken < sent /\ block[b].data[f] = log[taken]
  BY <1>4, <1>5, <1>6 DEF CellIs
<1>8. held \in Seq(Elements) /\ taken + Len(held) = sent
  BY DEF Numbered, HeldIs
<1>9. Len(held) \in Nat /\ Len(held) >= 1 /\ 1 \in 1 .. Len(held)
  <2>1. Len(held) \in Nat
    BY <1>8
  <2> QED
    BY <1>7, <1>8, <2>1
<1>10. held # <<>> /\ Head(held) = held[1]
  BY <1>8, <1>9
<1>11. held[1] = log[taken + 1 - 1]
  <2>1. \A i \in 1 .. Len(held) : held[i] = log[taken + i - 1]
    BY DEF Numbered, HeldIs
  <2> QED
    BY <1>9, <2>1
<1>12. taken + 1 - 1 = taken
  OBVIOUS
<1> QED
  BY <1>2, <1>7, <1>10, <1>11, <1>12

LEMMA FrontIsOldest ==
  ASSUME OrderInv, consumer = "take"
  PROVE  held # <<>> /\ Head(held) = block[frontBlock].data[block[frontBlock].front]
<1>1. PICK log \in [Nat -> Cell], first \in [Nat -> Nat], sent \in Nat, taken \in Nat :
        Numbered(log, first, sent, taken)
  BY DEF OrderInv, InOrder
<1>2. QueueInv /\ frontBlock \in Ring /\ Live(frontBlock) /\ ~EmptyBlock(frontBlock)
  BY LivePlaces, FrontHolds DEF OrderInv
<1>3. first[frontBlock] = taken
  BY <1>1 DEF Numbered, ChainIs
<1> QED
  BY <1>1, <1>2, <1>3, OldestIsHead

\* The front block is left empty, for the block after it.
LEMMA NextIsOldest ==
  ASSUME QueueInv, consumer \in {"peek", "advance"}, NEW log, NEW first \in [Nat -> Nat],
         NEW sent, NEW taken \in Nat, Numbered(log, first, sent, taken)
  PROVE  /\ nextBlock \in Ring /\ Live(nextBlock) /\ ~EmptyBlock(nextBlock)
         /\ first[nextBlock] = taken
<1>1. /\ nextBlock = block[frontBlock].next /\ frontBlock # tailBlock /\ EmptyBlock(frontBlock)
      /\ frontBlock \in Blocks /\ frontBlock \in Nat /\ BlocksInv
  BY PlaceFacts, BlockFacts DEF QueueInv, ConsumerInv
<1>2. nextBlock \in Ring /\ ~EmptyBlock(nextBlock) /\ nextBlock # Following
  BY <1>1, NextHolds
<1>3. frontBlock \in Ring /\ Live(frontBlock)
  BY LivePlaces
<1>4. taken = first[frontBlock] /\ first[frontBlock] \in Nat
  BY <1>1 DEF Numbered, ChainIs
<1>5. first[nextBlock] = first[frontBlock] + CellsOf(frontBlock)
  BY <1>1, <1>3 DEF Numbered, ChainIs
<1>6. CellsOf(frontBlock) = 0
  BY <1>1, FrontIsEmpty
<1> QED
  BY <1>2, <1>4, <1>5, <1>6 DEF Live, Free

LEMMA NextIsHead ==
  ASSUME OrderInv, consumer = "peek"
  PROVE  held # <<>> /\ Head(held) = block[nextBlock].data[block[nextBlock].front]
<1>1. PICK log \in [Nat -> Cell], first \in [Nat -> Nat], sent \in Nat, taken \in Nat :
        Numbered(log, first, sent, taken)
  BY DEF OrderInv, InOrder
<1>2. QueueInv
  BY DEF OrderInv
<1>3. /\ nextBlock \in Ring /\ Live(nextBlock) /\ ~EmptyBlock(nextBlock)
      /\ first[nextBlock] = taken
  BY <1>1, <1>2, NextIsOldest
<1> QED
  BY <1>1, <1>2, <1>3, OldestIsHead

-----------------------------------------------------------------------------
LEMMA DequeueOrder ==
  ASSUME OrderInv, NEW c \in ConsumerCalls, Dequeue(c), Remember
  PROVE  OrderInv' /\ H!CallConsumer(c) /\ c \in H!Calls
<1>1. /\ UNCHANGED <<block, frontBlock, result, producerVars>>
      /\ consumer = "idle" /\ consumer' \in {"take", "reload"} /\ call' = c
      /\ QueueInv /\ Called /\ ~MovedOut
  BY DEF Dequeue, Consumes, OrderInv, Called, MovedOut
<1>2. /\ held' = held /\ element' = element /\ emptyAtCall' = (held = <<>>)
      /\ tailBlock' = tailBlock
  BY <1>1, ConsumerFrame
<1>3. SameBlocks
  BY <1>1 DEF SameBlocks
<1>4. InOrder' /\ PendingInv'
  BY <1>1, <1>2, <1>3, SameBlocksOrder
<1>5. CallInv'
  BY <1>1, <1>2 DEF CallInv
<1>6. QueueInv'
  BY <1>1, DequeueStep
<1>7. Doing = "no" /\ Doing' = (IF held = <<>> THEN "any" ELSE "some")
  BY <1>1, <1>2 DEF Doing
<1> QED
  BY <1>1, <1>2, <1>4, <1>5, <1>6, <1>7, QueueAssumption
     DEF OrderInv, H!CallConsumer, H!Calls

LEMMA LoadTailOrder ==
  ASSUME OrderInv, ReloadTail \/ CheckAgain, Remember
  PROVE  OrderInv' /\ UNCHANGED H!fifoVars
<1>1. /\ UNCHANGED <<frontBlock, call, result, producerVars>>
      /\ block' = [block EXCEPT ![frontBlock].localTail = block[frontBlock].tail]
      /\ frontBlock \in Blocks /\ BlocksInv /\ QueueInv
  BY PlaceFacts DEF ReloadTail, CheckAgain, LoadTail, OrderInv, QueueInv
<1>2. SameBlocks
  BY <1>1, CopyOfTail DEF SameBlocks
<1>3. /\ consumer \in {"reload", "again"} /\ consumer' \in {"take", "checkTail", "next"}
      /\ consumer' = "checkTail" => consumer = "reload" /\ EmptyBlock(frontBlock)
  BY DEF ReloadTail, CheckAgain, LoadTail, EmptyBlock, FrontIndex
<1>4. consumer' = "checkTail" => emptyAtCall \/ frontBlock # tailBlock
  BY <1>3, EmptyWhenAlone DEF OrderInv, CallInv
<1>5. QueueInv'
  BY <1>1, LoadTailStep
<1> QED
  BY <1>1, <1>2, <1>3, <1>4, <1>5, ConsumerQuiet

LEMMA CheckTailOrder ==
  ASSUME OrderInv, CheckTail, Remember
  PROVE  OrderInv' /\ (H!ReturnEmpty \/ UNCHANGED H!fifoVars)
<1>1. /\ UNCHANGED <<block, frontBlock, call, result, producerVars>>
      /\ consumer = "checkTail" /\ consumer' \in {"again", "idle"}
      /\ consumer' = "idle" => frontBlock = tailBlock
      /\ QueueInv
  BY DEF CheckTail, Consumes, OrderInv
<1>2. SameBlocks
  BY <1>1 DEF SameBlocks
<1>3. QueueInv'
  BY <1>1, CheckTailStep
<1>4. CASE consumer' = "again"
  BY <1>1, <1>2, <1>3, <1>4, ConsumerQuiet
<1>5. CASE consumer' = "idle"
  <2>1. held' = held /\ emptyAtCall' = emptyAtCall /\ element' = element
    BY <1>1, <1>5, ConsumerFrame DEF MovedOut, Called
  <2>2. InOrder' /\ PendingInv'
    BY <1>1, <1>2, <1>5, <2>1, SameBlocksOrder
  <2>3. CallInv'
    BY <1>5, <2>1 DEF OrderInv, CallInv
  <2>4. emptyAtCall
    BY <1>1, <1>5 DEF OrderInv, CallInv
  <2>5. Doing = "any" /\ Doing' = "no"
    BY <1>1, <1>5, <2>4 DEF Doing
  <2> QED
    BY <1>1, <1>3, <2>1, <2>2, <2>3, <2>5 DEF OrderInv, H!ReturnEmpty
<1> QED
  BY <1>1, <1>4, <1>5

LEMMA ReadNextOrder ==
  ASSUME OrderInv, ReadNext, Remember
  PROVE  OrderInv' /\ UNCHANGED H!fifoVars
<1>1. /\ UNCHANGED <<block, frontBlock, call, result, producerVars>>
      /\ consumer = "next" /\ consumer' = "peek" /\ QueueInv
  BY DEF ReadNext, Consumes, OrderInv
<1>2. SameBlocks
  BY <1>1 DEF SameBlocks
<1>3. QueueInv'
  BY <1>1, ReadNextStep
<1> QED
  BY <1>1, <1>2, <1>3, ConsumerQuiet

LEMMA PeekNextOrder ==
  ASSUME OrderInv, PeekNext, Remember
  PROVE  OrderInv' /\ UNCHANGED H!fifoVars
<1>1. /\ UNCHANGED <<frontBlock, call, result, producerVars>>
      /\ consumer = "peek" /\ consumer' \in {"advance", "assert"} /\ QueueInv /\ BlocksInv
      /\ block' = [block EXCEPT ![nextBlock].localTail = block[nextBlock].tail]
      /\ nextBlock = block[frontBlock].next
  BY DEF PeekNext, Consumes, OrderInv, QueueInv, ConsumerInv
<1>2. nextBlock \in Blocks
  BY <1>1, NextHolds
<1>3. SameBlocks
  BY <1>1, <1>2, CopyOfTail, ZenonT(30) DEF SameBlocks
<1>4. QueueInv'
  BY <1>1, PeekNextStep
<1> QED
  BY <1>1, <1>3, <1>4, ConsumerQuiet

\* What looks at the oldest element and leaves it where it is.
LEMMA LookOrder ==
  ASSUME OrderInv, Remember, UNCHANGED <<block, frontBlock, call, producerVars>>,
         consumer \in {"peek", "take"}, consumer' = "idle", call = "peek",
         held # <<>>, result' = Head(held), QueueInv'
  PROVE  OrderInv' /\ H!Look
<1>1. /\ held' = held /\ emptyAtCall' = emptyAtCall /\ element' = element
      /\ tailBlock' = tailBlock
  BY ConsumerFrame DEF MovedOut, Called
<1>2. SameBlocks
  BY DEF SameBlocks
<1>3. InOrder' /\ PendingInv'
  BY <1>1, <1>2, SameBlocksOrder
<1>4. CallInv'
  BY <1>1 DEF OrderInv, CallInv
<1>5. Doing \in {"any", "some"} /\ Doing' = "no"
  BY DEF Doing
<1> QED
  BY <1>1, <1>3, <1>4, <1>5 DEF OrderInv, H!Look, H!MayAct

LEMMA LookAheadOrder ==
  ASSUME OrderInv, LookAhead, Remember
  PROVE  OrderInv' /\ H!Look
<1>1. /\ UNCHANGED <<block, frontBlock, call, producerVars>>
      /\ consumer = "peek" /\ consumer' \in {"idle", "assert"} /\ call = "peek" /\ QueueInv
      /\ result' = block[nextBlock].data[block[nextBlock].front]
  BY DEF LookAhead, Consumes, OrderInv
<1>2. held # <<>> /\ Head(held) = result'
  BY <1>1, NextIsHead
<1>3. QueueInv'
  BY <1>1, LookAheadStep
<1>4. consumer' = "idle"
  BY <1>1, <1>3 DEF QueueInv, ValuesInv, ConsumerPcs
<1> QED
  BY <1>1, <1>2, <1>3, <1>4, LookOrder

LEMMA PeekOrder ==
  ASSUME OrderInv, Peek, Remember
  PROVE  OrderInv' /\ H!Look
<1>1. /\ UNCHANGED <<block, frontBlock, call, producerVars>>
      /\ consumer = "take" /\ consumer' = "idle" /\ call = "peek" /\ QueueInv
      /\ result' = block[frontBlock].data[block[frontBlock].front]
  BY DEF Peek, Consumes, OrderInv, FrontIndex
<1>2. held # <<>> /\ Head(held) = result'
  BY <1>1, FrontIsOldest
<1>3. QueueInv'
  BY <1>1, PeekStep
<1> QED
  BY <1>1, <1>2, <1>3, LookOrder

(***************************************************************************)
(* The consumer leaves the front block for the next one.                   *)
(***************************************************************************)
LEMMA AdvanceFrontOrder ==
  ASSUME OrderInv, AdvanceFront, Remember
  PROVE  OrderInv' /\ UNCHANGED H!fifoVars
<1>1. /\ UNCHANGED <<block, call, result, producerVars>>
      /\ consumer = "advance" /\ consumer' = "take" /\ frontBlock' = nextBlock
      /\ QueueInv /\ InOrder
  BY DEF AdvanceFront, Consumes, OrderInv
<1>2. /\ held' = held /\ emptyAtCall' = emptyAtCall /\ element' = element
      /\ producer' = producer /\ tailBlock' = tailBlock
  BY <1>1, ConsumerFrame DEF MovedOut, Called
<1>3. Doing' = Doing
  BY <1>1, <1>2 DEF Doing
<1>4. PendingInv' /\ CallInv'
  BY <1>1, <1>2 DEF OrderInv, PendingInv, CallInv, OnlyHolds, Following
<1>5. Ring' = Ring /\ LastFilled' = LastFilled /\ Following' = Following
  BY <1>1, <1>2 DEF Ring, Blocks, LastFilled, Following
<1>6. PICK log \in [Nat -> Cell], first \in [Nat -> Nat], sent \in Nat, taken \in Nat :
        Numbered(log, first, sent, taken)
  BY <1>1 DEF InOrder
<1>7. nextBlock \in Ring /\ Live(nextBlock) /\ first[nextBlock] = taken
  BY <1>1, <1>6, NextIsOldest
<1>8. ASSUME NEW b \in Ring, Live(b)'
      PROVE  Live(b)
  <2>1. CASE b = nextBlock
    BY <1>7, <2>1
  <2>2. CASE b # nextBlock
    <3>1. ~Free(b)' /\ (EmptyBlock(b)' <=> EmptyBlock(b))
      BY <1>1, <1>8 DEF Live, EmptyBlock
    <3>2. ~Free(b)
      BY <1>1, <1>5, <2>2, <3>1 DEF Free
    <3> QED
      BY <1>2, <1>5, <1>8, <3>2 DEF Live
  <2> QED
    BY <2>1, <2>2
<1>9. HeldIs(log, sent, taken)'
  BY <1>2, <1>6 DEF Numbered, HeldIs
<1>10. ChainIs(first, sent, taken)'
  <2>1. taken = (IF consumer' = "release" THEN first[frontBlock'] + 1 ELSE first[frontBlock'])
    BY <1>1, <1>7
  <2>2. \A b : CellsOf(b)' = CellsOf(b)
    BY <1>1 DEF CellsOf
  <2>3. CellsOf(tailBlock)' = CellsOf(tailBlock)
    BY <1>1, <1>2 DEF CellsOf
  <2> QED
    BY <1>1, <1>2, <1>5, <1>6, <1>8, <2>1, <2>2, <2>3 DEF Numbered, ChainIs
<1>11. ASSUME NEW b \in Ring', Live(b)', NEW i \in 0 .. block'[b].size - 1
       PROVE  CellIs(log, first, sent, b, i)'
  <2>1. b \in Ring /\ Live(b) /\ i \in 0 .. block[b].size - 1
    BY <1>1, <1>5, <1>8, <1>11
  <2>2. CellIs(log, first, sent, b, i)
    BY <1>6, <2>1 DEF Numbered
  <2> QED
    BY <1>1, <2>2 DEF CellIs, Occupied, Place, Emptied
<1>12. InOrder'
  BY <1>9, <1>10, <1>11 DEF InOrder, Numbered
<1>13. QueueInv'
  BY <1>1, AdvanceFrontStep
<1> QED
  BY <1>1, <1>2, <1>3, <1>4, <1>12, <1>13 DEF OrderInv, H!fifoVars

(***************************************************************************)
(* The oldest element is moved out: the number taken grows, although front *)
(* still points at the cell.                                               *)
(***************************************************************************)
LEMMA HeldShrinks ==
  ASSUME NEW log \in [Nat -> Cell], NEW sent \in Nat, NEW taken \in Nat,
         HeldIs(log, sent, taken), held # <<>>, held' = Tail(held)
  PROVE  HeldIs(log, sent, taken + 1)'
<1>1. held \in Seq(Elements) /\ Len(held) \in Nat /\ taken + Len(held) = sent
  BY DEF HeldIs
<1>2. /\ held' \in Seq(Elements) /\ Len(held') = Len(held) - 1
      /\ Len(held') \in Nat
      /\ \A i \in 1 .. Len(held') : held'[i] = held[i + 1]
  BY <1>1
<1>3. taken + 1 + Len(held') = sent
  BY <1>1, <1>2
<1>4. ASSUME NEW i \in 1 .. Len(held')
      PROVE  held'[i] = log[taken + 1 + i - 1]
  <2>1. i + 1 \in 1 .. Len(held)
    BY <1>1, <1>2
  <2>2. held[i + 1] = log[taken + (i + 1) - 1]
    BY <2>1 DEF HeldIs
  <2>3. taken + (i + 1) - 1 = taken + 1 + i - 1
    BY <1>2
  <2> QED
    BY <1>2, <2>2, <2>3
<1> QED
  BY <1>2, <1>3, <1>4 DEF HeldIs

LEMMA TakeInOrder ==
  ASSUME OrderInv, Take \/ Pop, UNCHANGED producerVars, held' = Tail(held)
  PROVE  InOrder' /\ PendingInv'
<1>1. PICK b : b = frontBlock
  OBVIOUS
<1>2. PICK f : f = block[b].front
  OBVIOUS
<1>3. /\ frontBlock' = b /\ tailBlock' = tailBlock /\ producer' = producer
      /\ consumer = "take" /\ consumer' = "release"
      /\ block' = [block EXCEPT ![b].data[f] = None]
      /\ QueueInv /\ BlocksInv /\ b \in Blocks /\ None \in Cell /\ Ring \subseteq Blocks
      /\ tailBlock \in Blocks
  BY <1>1, <1>2, PlaceFacts
     DEF Take, Pop, Consumes, producerVars, OrderInv, QueueInv, FrontIndex, Cell
<1>4. /\ f \in 0 .. block[b].size - 1 /\ f # block[b].tail
      /\ block[b].data \in [0 .. block[b].size - 1 -> Cell]
  BY <1>1, <1>2, <1>3, BlockFacts, FrontHolds DEF IndexOK, EmptyBlock
<1>5. /\ Len(block') = Len(block) /\ Blocks' = Blocks
      /\ block'[b].data = [block[b].data EXCEPT ![f] = None]
      /\ \A c \in Blocks :
           /\ c # b => block'[c].data = block[c].data
           /\ block'[c].front = block[c].front /\ block'[c].tail = block[c].tail
           /\ block'[c].next = block[c].next /\ block'[c].size = block[c].size
  BY <1>3, <1>4, CellSet, ZenonT(30)
<1>6. \A i \in 0 .. block[b].size - 1 : i # f => block'[b].data[i] = block[b].data[i]
  BY <1>4, <1>5
<1>7. PendingInv'
  <2>1. block'[b].data[block[b].tail] = block[b].data[block[b].tail]
    BY <1>3, <1>4, <1>6, BlockFacts DEF IndexOK
  <2>2. FrontOnly
    BY <1>1, <1>5, <2>1 DEF FrontOnly
  <2> QED
    BY <2>2, PendingKept
<1>8. Ring' = Ring /\ LastFilled' = LastFilled /\ Following' = Following
  BY <1>3, <1>5 DEF Ring, LastFilled, Following
<1>9. \A c \in Ring : Live(c)' => Live(c)
  <2>1. \A c \in Ring : EmptyBlock(c)' <=> EmptyBlock(c)
    BY <1>3, <1>5 DEF EmptyBlock
  <2> QED
    BY <1>1, <1>3, <1>8, <2>1 DEF Live, Free
<1>10. PICK log \in [Nat -> Cell], first \in [Nat -> Nat], sent \in Nat, taken \in Nat :
         Numbered(log, first, sent, taken)
  BY DEF OrderInv, InOrder
<1>11. HeldIs(log, sent, taken + 1)'
  BY <1>3, <1>10, FrontIsOldest, HeldShrinks DEF Numbered
<1>12. \A c \in Blocks : /\ CellsOf(c)' = CellsOf(c)
                         /\ \A i : Place(c, i)' = Place(c, i)
                         /\ \A i : Occupied(block[c], i)' <=> Occupied(block[c], i)
  BY <1>5 DEF CellsOf, Place, Occupied
<1>13. ChainIs(first, sent, taken + 1)'
  <2>1. taken = first[b]
    BY <1>1, <1>3, <1>10 DEF Numbered, ChainIs
  <2>2. taken + 1 = (IF consumer' = "release" THEN first[frontBlock'] + 1 ELSE first[frontBlock'])
    BY <1>3, <2>1
  <2>3. sent = first[tailBlock'] + CellsOf(tailBlock)'
    <3>1. CellsOf(tailBlock)' = CellsOf(tailBlock)
      BY <1>3, <1>5 DEF CellsOf
    <3> QED
      BY <1>3, <1>10, <3>1 DEF Numbered, ChainIs
  <2>4. ASSUME NEW c \in Ring', Live(c)', c # tailBlock'
        PROVE  first[block'[c].next] = first[c] + CellsOf(c)'
    BY <1>3, <1>5, <1>8, <1>9, <1>10, <1>12, <2>4 DEF Numbered, ChainIs
  <2> QED
    BY <2>2, <2>3, <2>4 DEF ChainIs
<1>14. ASSUME NEW c \in Ring', Live(c)', NEW i \in 0 .. block'[c].size - 1
       PROVE  CellIs(log, first, sent, c, i)'
  <2>1. c \in Ring /\ c \in Blocks /\ Live(c) /\ i \in 0 .. block[c].size - 1
    BY <1>3, <1>5, <1>8, <1>9, <1>14
  <2>2. CellIs(log, first, sent, c, i) /\ ~Emptied(c, i)
    BY <1>3, <1>10, <2>1 DEF Numbered, Emptied
  <2>3. ~Emptied(c, i)' => block'[c].data[i] = block[c].data[i]
    BY <1>2, <1>3, <1>5, <1>6, <2>1, ZenonT(30) DEF Emptied
  <2> QED
    BY <1>12, <2>1, <2>2, <2>3 DEF CellIs
<1>15. Numbered(log, first, sent, taken + 1)'
  BY <1>11, <1>13, <1>14 DEF Numbered
<1>16. taken + 1 \in Nat
  OBVIOUS
<1> QED
  BY <1>7, <1>15, <1>16, Zenon DEF InOrder

LEMMA TakeOrder ==
  ASSUME OrderInv, Take \/ Pop, Remember
  PROVE  OrderInv' /\ (H!Take \/ H!Drop)
<1>1. /\ UNCHANGED <<frontBlock, call, producerVars>>
      /\ consumer = "take" /\ consumer' = "release" /\ QueueInv
      /\ \/ call = "try_dequeue" /\ result' = block[frontBlock].data[block[frontBlock].front]
         \/ call = "pop" /\ result' = result
      /\ MovedOut /\ ~Called
  BY DEF Take, Pop, Consumes, OrderInv, FrontIndex, MovedOut, Called
<1>2. held' = Tail(held) /\ emptyAtCall' = emptyAtCall /\ element' = element
  BY <1>1, ConsumerFrame
<1>3. held # <<>> /\ Head(held) = block[frontBlock].data[block[frontBlock].front]
  BY <1>1, FrontIsOldest
<1>4. InOrder' /\ PendingInv'
  BY <1>1, <1>2, TakeInOrder
<1>5. CallInv'
  BY <1>1, <1>2 DEF OrderInv, CallInv
<1>6. Doing \in {"any", "some"} /\ Doing' = "took"
  BY <1>1 DEF Doing
<1>7. QueueInv'
  BY <1>1, TakeStep
<1> QED
  BY <1>1, <1>2, <1>3, <1>4, <1>5, <1>6, <1>7 DEF OrderInv, H!Take, H!Drop, H!MayAct

(***************************************************************************)
(* front moves past the cell that was emptied: the foremost cell of the    *)
(* block has the next number.                                              *)
(***************************************************************************)
LEMMA OneNearer ==
  ASSUME NEW n \in Nat, NEW f \in 0 .. n - 1, NEW x \in 0 .. n - 1, x # f
  PROVE  /\ Dist(f, x, n) \in Nat /\ Dist(f, x, n) >= 1
         /\ Dist(Succ(f, n), x, n) = Dist(f, x, n) - 1
BY DEF Dist, Succ

LEMMA ReleaseInOrder ==
  ASSUME OrderInv, Release, UNCHANGED producerVars, held' = held
  PROVE  InOrder' /\ PendingInv'
<1>1. PICK b : b = frontBlock
  OBVIOUS
<1>2. PICK f : f = block[b].front
  OBVIOUS
<1>3. /\ frontBlock' = b /\ tailBlock' = tailBlock /\ producer' = producer
      /\ consumer = "release" /\ consumer' = "idle"
      /\ block' = [block EXCEPT ![b].front = After(b, @)]
      /\ QueueInv /\ BlocksInv /\ b \in Blocks /\ Ring \subseteq Blocks
      /\ f # block[b].localTail /\ tailBlock \in Blocks
  BY <1>1, <1>2, PlaceFacts
     DEF Release, Consumes, producerVars, OrderInv, QueueInv, ConsumerInv, FrontIndex
<1>4. /\ Len(block') = Len(block) /\ Blocks' = Blocks
      /\ block'[b].front = Succ(f, block[b].size)
      /\ \A c \in Blocks :
           /\ c # b => block'[c].front = block[c].front
           /\ block'[c].tail = block[c].tail /\ block'[c].next = block[c].next
           /\ block'[c].size = block[c].size /\ block'[c].data = block[c].data
      /\ f # block[b].tail
  BY <1>2, <1>3, FrontMoved, ZenonT(30)
<1>5. /\ block[b].size \in Nat /\ f \in 0 .. block[b].size - 1
      /\ block[b].tail \in 0 .. block[b].size - 1 /\ b \in Nat
  BY <1>2, <1>3, BlockFacts DEF IndexOK
<1>6. PendingInv'
  BY <1>1, <1>4, PendingKept DEF FrontOnly
<1>7. Ring' = Ring /\ LastFilled' = LastFilled /\ Following' = Following
  BY <1>3, <1>4 DEF Ring, LastFilled, Following
<1>8. b \in Ring /\ Live(b) /\ tailBlock \in Ring
  BY <1>1, <1>3, LivePlaces
<1>9. \A c \in Ring : Live(c)' => Live(c)
  <2>1. \A c \in Ring : c # b => (EmptyBlock(c)' <=> EmptyBlock(c))
    BY <1>3, <1>4 DEF EmptyBlock
  <2> QED
    BY <1>1, <1>3, <1>7, <1>8, <2>1 DEF Live, Free
<1>10. PICK log \in [Nat -> Cell], first \in [Nat -> Nat], sent \in Nat, taken \in Nat :
         Numbered(log, first, sent, taken)
  BY DEF OrderInv, InOrder
<1>11. taken = first[b] + 1 /\ first[b] \in Nat
  BY <1>1, <1>3, <1>5, <1>10 DEF Numbered, ChainIs
<1>12. PICK start \in [Nat -> Nat] : start = [first EXCEPT ![b] = taken]
  BY <1>5
<1>13. start[b] = first[b] + 1 /\ \A c \in Nat : c # b => start[c] = first[c]
  BY <1>5, <1>11, <1>12
<1>14. HeldIs(log, sent, taken)'
  BY <1>10 DEF Numbered, HeldIs
<1>15. PICK d \in Nat : d = CellsOf(b) /\ d >= 1 /\ CellsOf(b)' = d - 1
  <2>1. CellsOf(b) = Dist(f, block[b].tail, block[b].size)
    BY <1>2 DEF CellsOf
  <2>2. CellsOf(b)' = Dist(Succ(f, block[b].size), block[b].tail, block[b].size)
    BY <1>3, <1>4 DEF CellsOf
  <2> QED
    BY <1>4, <1>5, <2>1, <2>2, OneNearer
<1>16. \A c \in Blocks : c # b => /\ CellsOf(c)' = CellsOf(c)
                                  /\ \A i : Place(c, i)' = Place(c, i)
                                  /\ \A i : Occupied(block[c], i)' <=> Occupied(block[c], i)
  BY <1>4 DEF CellsOf, Place, Occupied
<1>17. \A c \in Ring : c \in Nat /\ block[c].next \in Nat
  BY <1>3, BlockFacts DEF QueueInv, RingInv
<1>18. start[b] + (d - 1) = first[b] + d
  BY <1>11, <1>13
<1>19. ChainIs(start, sent, taken)'
  <2>1. taken = (IF consumer' = "release" THEN start[frontBlock'] + 1 ELSE start[frontBlock'])
    BY <1>3, <1>11, <1>13
  <2>2. sent = start[tailBlock'] + CellsOf(tailBlock)'
    <3>1. sent = first[tailBlock] + CellsOf(tailBlock)
      BY <1>10 DEF Numbered, ChainIs
    <3>2. CASE tailBlock = b
      <4>1. CellsOf(tailBlock)' = CellsOf(b)'
        BY <1>3, <3>2 DEF CellsOf
      <4> QED
        BY <1>3, <1>15, <1>18, <3>1, <3>2, <4>1
    <3>3. CASE tailBlock # b
      <4>1. CellsOf(tailBlock)' = CellsOf(tailBlock)
        BY <1>3, <1>4, <3>3 DEF CellsOf
      <4> QED
        BY <1>3, <1>8, <1>13, <1>17, <3>1, <3>3, <4>1
    <3> QED
      BY <3>2, <3>3
  <2>3. ASSUME NEW c \in Ring', Live(c)', c # tailBlock'
        PROVE  start[block'[c].next] = start[c] + CellsOf(c)'
    <3>1. /\ c \in Ring /\ c \in Blocks /\ Live(c) /\ c # tailBlock
          /\ block'[c].next = block[c].next
      BY <1>3, <1>4, <1>7, <1>9, <2>3
    <3>2. first[block[c].next] = first[c] + CellsOf(c)
      BY <1>10, <3>1 DEF Numbered, ChainIs
    <3>3. start[block[c].next] = first[block[c].next]
      BY <1>1, <1>3, <1>13, <1>17, <3>1, LivePlaces
    <3>4. CASE c = b
      BY <1>15, <1>18, <3>1, <3>2, <3>3, <3>4
    <3>5. CASE c # b
      BY <1>13, <1>16, <1>17, <3>1, <3>2, <3>3, <3>5
    <3> QED
      BY <3>4, <3>5
  <2> QED
    BY <2>1, <2>2, <2>3 DEF ChainIs
<1>20. ASSUME NEW c \in Ring', Live(c)', NEW i \in 0 .. block'[c].size - 1
       PROVE  CellIs(log, start, sent, c, i)'
  <2>1. /\ c \in Ring /\ c \in Blocks /\ Live(c) /\ i \in 0 .. block[c].size - 1
        /\ block'[c].data = block[c].data
    BY <1>3, <1>4, <1>7, <1>9, <1>20
  <2>2. CellIs(log, first, sent, c, i) /\ ~Emptied(c, i)'
    BY <1>3, <1>10, <2>1 DEF Numbered, Emptied
  <2>3. CASE c # b
    <3>1. start[c] = first[c] /\ ~Emptied(c, i)
      BY <1>1, <1>13, <1>17, <2>1, <2>3 DEF Emptied
    <3> QED
      BY <1>16, <2>1, <2>2, <2>3, <3>1 DEF CellIs
  <2>4. CASE c = b
    <3>1. i \in 0 .. block[b].size - 1
      BY <2>1, <2>4
    <3>2. Occupied(block[b], i)' => Occupied(block[b], i) /\ i # f
      <4>1. Occupied(block[b], i)' <=>
              Dist(Succ(f, block[b].size), i, block[b].size)
                < Dist(Succ(f, block[b].size), block[b].tail, block[b].size)
        BY <1>3, <1>4 DEF Occupied
      <4>2. Occupied(block[b], i) <=>
              Dist(f, i, block[b].size) < Dist(f, block[b].tail, block[b].size)
        BY <1>2 DEF Occupied
      <4> QED
        BY <1>4, <1>5, <3>1, <4>1, <4>2, OneLess
    <3>3. i # f => ~Emptied(b, i)
      BY <1>2 DEF Emptied
    <3>4. i # f => start[b] + Place(b, i)' = first[b] + Place(b, i)
      <4>1. Place(b, i) = Dist(f, i, block[b].size)
        BY <1>2 DEF Place
      <4>2. Place(b, i)' = Dist(Succ(f, block[b].size), i, block[b].size)
        BY <1>3, <1>4 DEF Place
      <4>3. i # f => Place(b, i) \in Nat /\ Place(b, i)' = Place(b, i) - 1
        BY <1>5, <3>1, <4>1, <4>2, OneNearer, ZenonT(30)
      <4> QED
        BY <1>11, <1>13, <4>3
    <3>5. Occupied(block[b], i)' => CellIs(log, start, sent, b, i)'
      BY <2>1, <2>2, <2>4, <3>2, <3>3, <3>4 DEF CellIs
    <3> QED
      BY <2>4, <3>5 DEF CellIs
  <2> QED
    BY <2>3, <2>4
<1>21. Numbered(log, start, sent, taken)'
  BY <1>14, <1>19, <1>20 DEF Numbered
<1> QED
  BY <1>6, <1>21, Zenon DEF InOrder

LEMMA ReleaseOrder ==
  ASSUME OrderInv, Release, Remember
  PROVE  OrderInv' /\ H!ReturnTaken
<1>1. /\ UNCHANGED <<frontBlock, call, result, producerVars>>
      /\ consumer = "release" /\ consumer' = "idle" /\ QueueInv /\ ~MovedOut /\ ~Called
  BY DEF Release, Consumes, OrderInv, MovedOut, Called
<1>2. held' = held /\ emptyAtCall' = emptyAtCall /\ element' = element
  BY <1>1, ConsumerFrame
<1>3. InOrder' /\ PendingInv'
  BY <1>1, <1>2, ReleaseInOrder
<1>4. CallInv'
  BY <1>1, <1>2 DEF OrderInv, CallInv
<1>5. Doing = "took" /\ Doing' = "no"
  BY <1>1 DEF Doing
<1>6. QueueInv'
  BY <1>1, ReleaseStep
<1> QED
  BY <1>1, <1>2, <1>3, <1>4, <1>5, <1>6 DEF OrderInv, H!ReturnTaken

-----------------------------------------------------------------------------
LEMMA InitOrder == OrderInit => OrderInv /\ H!FifoInit
<1> SUFFICES ASSUME OrderInit
             PROVE  OrderInv /\ H!FifoInit
  OBVIOUS
<1>1. Init /\ held = <<>> /\ emptyAtCall = FALSE
  BY DEF OrderInit
<1>2. QueueInv /\ BlocksInv
  BY <1>1, InitQueue DEF QueueInv
<1>3. /\ frontBlock = 1 /\ tailBlock = 1 /\ producer = "idle" /\ element = None
      /\ consumer = "idle" /\ call = "try_dequeue" /\ result = None
      /\ \A b \in Blocks : block[b].front = 0 /\ block[b].tail = 0
      /\ Ring \subseteq Blocks
  <2>1. /\ block = [b \in 1 .. InitialBlockCount |->
                      NewBlock(InitialBlockSize, (b % InitialBlockCount) + 1)]
        /\ InitialBlockCount \in Nat
    BY <1>1, InitialSizes DEF Init
  <2>2. Blocks = 1 .. InitialBlockCount
    BY <2>1 DEF Blocks
  <2>3. \A b \in Blocks : block[b].front = 0 /\ block[b].tail = 0
    BY <2>1, <2>2 DEF NewBlock
  <2> QED
    BY <1>1, <1>2, <2>3, PlaceFacts DEF Init, QueueInv
<1>4. \A b \in Ring : EmptyBlock(b) /\ (Live(b) => b = tailBlock)
  BY <1>3 DEF EmptyBlock, Live, Free, LastFilled
<1>5. tailBlock \in Ring /\ tailBlock \in Blocks
  BY <1>2, <1>3, PlaceFacts DEF QueueInv, RingInv
<1>6. CellsOf(tailBlock) = 0
  BY <1>2, <1>4, <1>5, FrontIsEmpty
<1>7. PICK log \in [Nat -> Cell], first \in [Nat -> Nat] : first[1] = 0
  <2>1. [k \in Nat |-> None] \in [Nat -> Cell]
    BY DEF Cell
  <2>2. [k \in Nat |-> 0] \in [Nat -> Nat] /\ [k \in Nat |-> 0][1] = 0
    OBVIOUS
  <2> QED
    BY <2>1, <2>2
<1>8. HeldIs(log, 0, 0)
  <2>1. held \in Seq(Elements) /\ Len(held) = 0
    BY <1>1
  <2> QED
    BY <2>1 DEF HeldIs
<1>9. ChainIs(first, 0, 0)
  BY <1>3, <1>4, <1>6, <1>7 DEF ChainIs
<1>10. ASSUME NEW b \in Ring, NEW i \in 0 .. block[b].size - 1
       PROVE  ~Occupied(block[b], i)
  <2>1. block[b].front = 0 /\ block[b].tail = 0
    BY <1>3
  <2> QED
    BY <1>10, <2>1 DEF Occupied, Dist
<1>11. InOrder
  BY <1>8, <1>9, <1>10 DEF InOrder, Numbered, CellIs
<1>12. PendingInv /\ CallInv
  BY <1>1, <1>3 DEF PendingInv, CallInv
<1>13. Doing = "no"
  BY <1>3 DEF Doing
<1> QED
  BY <1>1, <1>2, <1>3, <1>11, <1>12, <1>13 DEF OrderInv, H!FifoInit

LEMMA StepOrder == OrderInv /\ [OrderNext]_orderVars => OrderInv' /\ [H!FifoNext]_(H!fifoVars)
<1> SUFFICES ASSUME OrderInv, [OrderNext]_orderVars
             PROVE  OrderInv' /\ [H!FifoNext]_(H!fifoVars)
  OBVIOUS
<1>1. CASE Producer /\ Remember
  BY <1>1, EnqueueOrder, ReloadFrontOrder, WriteOrder, PublishOrder, CheckFollowingOrder,
     UseFollowingOrder, PublishAheadOrder, AllocateOrder, FailToAllocateOrder, LinkOrder
     DEF Producer, H!FifoNext
<1>2. CASE Consumer /\ Remember
  BY <1>2, DequeueOrder, LoadTailOrder, CheckTailOrder, ReadNextOrder, PeekNextOrder,
     LookAheadOrder, AdvanceFrontOrder, TakeOrder, PeekOrder, ReleaseOrder
     DEF Consumer, H!FifoNext
<1>3. CASE UNCHANGED orderVars
  <2>1. /\ UNCHANGED <<vars, block, producerVars, consumerVars, held, emptyAtCall, call, result>>
        /\ consumer' = consumer /\ producer' = producer /\ element' = element
        /\ tailBlock' = tailBlock /\ frontBlock' = frontBlock
    BY <1>3 DEF orderVars, vars, producerVars, consumerVars, enqueueVars
  <2>2. QueueInv'
    BY <2>1, StepQueue DEF OrderInv
  <2>3. Ring' = Ring /\ Following' = Following
    BY <2>1 DEF Ring, Blocks, Following
  <2>4. InOrder'
    BY <2>1, <2>3, QuietFrame DEF OrderInv
  <2>5. PendingInv'
    BY <2>1, <2>3 DEF OrderInv, PendingInv, OnlyHolds
  <2>6. CallInv'
    BY <2>1 DEF OrderInv, CallInv
  <2>7. Doing' = Doing
    BY <2>1 DEF Doing
  <2> QED
    BY <2>1, <2>2, <2>4, <2>5, <2>6, <2>7 DEF OrderInv, H!fifoVars
<1> QED
  BY <1>1, <1>2, <1>3 DEF OrderNext, Next

(***************************************************************************)
(* The elements leave the queue in the order of their enqueue, each once,  *)
(* and a call comes back empty-handed only if there was nothing when it    *)
(* was made: every step of the lock-free queue is a step of the Fifo or    *)
(* changes nothing that its callers can see.                               *)
(***************************************************************************)
THEOREM QueueIsFifo == OrderSpec => OrderIsFifo
<1>1. OrderInit => OrderInv /\ H!FifoInit
  BY InitOrder
<1>2. OrderInv /\ [OrderNext]_orderVars => OrderInv' /\ [H!FifoNext]_(H!fifoVars)
  BY StepOrder
<1> QED
  BY <1>1, <1>2, PTL DEF OrderSpec, OrderIsFifo, H!FifoSpec

-----------------------------------------------------------------------------
(***************************************************************************)
(* Contents is what is held.  A piece of the log, from one number up to    *)
(* another; adjoining pieces, put together, are a piece.                   *)
(***************************************************************************)
Piece(log, from, to) == [j \in 1 .. to - from |-> log[from + j - 1]]

LEMMA PieceIsSeq ==
  ASSUME NEW V, NEW log \in [Nat -> V], NEW a \in Nat, NEW b \in Nat, a <= b
  PROVE  Piece(log, a, b) \in Seq(V) /\ Len(Piece(log, a, b)) = b - a
<1>1. PICK n \in Nat : n = b - a
  OBVIOUS
<1>2. \A j \in 1 .. n : a + j - 1 \in Nat
  OBVIOUS
<1>3. Piece(log, a, b) = [j \in 1 .. n |-> log[a + j - 1]]
  BY <1>1 DEF Piece
<1>4. Piece(log, a, b) \in [1 .. n -> V]
  BY <1>2, <1>3
<1> QED
  BY <1>1, <1>4, SeqDef, LenProperties

LEMMA PiecesJoin ==
  ASSUME NEW V, NEW log \in [Nat -> V], NEW a \in Nat, NEW b \in Nat, NEW c \in Nat,
         a <= b, b <= c
  PROVE  Piece(log, a, b) \o Piece(log, b, c) = Piece(log, a, c)
<1> DEFINE s == Piece(log, a, b)
           t == Piece(log, b, c)
           u == Piece(log, a, c)
<1>1. /\ s \in Seq(V) /\ t \in Seq(V) /\ u \in Seq(V)
      /\ Len(s) = b - a /\ Len(t) = c - b /\ Len(u) = c - a
  <2>1. s \in Seq(V) /\ Len(s) = b - a
    BY PieceIsSeq
  <2>2. t \in Seq(V) /\ Len(t) = c - b
    BY PieceIsSeq
  <2>3. a <= c
    OBVIOUS
  <2>4. u \in Seq(V) /\ Len(u) = c - a
    BY <2>3, PieceIsSeq
  <2> QED
    BY <2>1, <2>2, <2>4
<1>2. ASSUME NEW i \in 1 .. c - a
      PROVE  u[i] = (IF i <= b - a THEN s[i] ELSE t[i - (b - a)])
  <2>1. CASE i <= b - a
    BY <2>1 DEF Piece
  <2>2. CASE ~(i <= b - a)
    <3>1. i - (b - a) \in 1 .. c - b /\ b + (i - (b - a)) - 1 = a + i - 1
      BY <2>2
    <3>2. t[i - (b - a)] = log[b + (i - (b - a)) - 1]
      BY <3>1 DEF Piece
    <3> QED
      BY <2>2, <3>1, <3>2 DEF Piece
  <2> QED
    BY <2>1, <2>2
<1> HIDE DEF s, t, u
<1>3. s \o t \in Seq(V) /\ Len(s \o t) = c - a
      /\ \A i \in 1 .. c - a : (s \o t)[i] = (IF i <= b - a THEN s[i] ELSE t[i - (b - a)])
  <2>1. /\ s \o t \in Seq(V) /\ Len(s \o t) = Len(s) + Len(t)
        /\ \A i \in 1 .. Len(s) + Len(t) :
             (s \o t)[i] = (IF i <= Len(s) THEN s[i] ELSE t[i - Len(s)])
    BY <1>1, ConcatProperties
  <2>2. Len(s) = b - a /\ Len(s) + Len(t) = c - a
    BY <1>1
  <2> QED
    BY <2>1, <2>2
<1>4. \A i \in 1 .. c - a : (s \o t)[i] = u[i]
  BY <1>2, <1>3
<1>5. s \o t = u
  BY <1>1, <1>3, <1>4, SeqEqual
<1> QED
  BY <1>5 DEF s, t, u

\* The function that FlattenSeq defines by recursion.
IsJoin(g, seqs, m) == g = [i \in 1 .. m |-> IF i = 1 THEN seqs[i] ELSE g[i - 1] \o seqs[i]]

LEMMA FlattenDef ==
  ASSUME NEW seqs, NEW k \in Nat \ {0}, Len(seqs) = k
  PROVE  \E g : IsJoin(g, seqs, k) /\ FlattenSeq(seqs) = g[k]
<1> DEFINE Is(g, m) == g = [i \in 1 .. m |-> IF i = 1 THEN seqs[i] ELSE g[i - 1] \o seqs[i]]
<1>1. \E g : Is(g, k)
  <2> DEFINE S == {m \in Nat : \E g : Is(g, m + 1)}
  <2>1. 0 \in S
    <3>1. Is([i \in 1 .. 0 + 1 |-> seqs[1]], 0 + 1)
      OBVIOUS
    <3> QED
      BY <3>1
  <2>2. ASSUME NEW m \in Nat, m \in S
        PROVE  m + 1 \in S
    <3>1. PICK g : Is(g, m + 1)
      BY <2>2
    <3>0. PICK d \in Nat : d = m + 1 + 1
      OBVIOUS
    <3> DEFINE c == [i \in 1 .. d |-> IF i = d THEN g[m + 1] \o seqs[d] ELSE g[i]]
    <3>2. ASSUME NEW i \in 1 .. d
          PROVE  c[i] = (IF i = 1 THEN seqs[i] ELSE c[i - 1] \o seqs[i])
      <4>1. CASE i = 1
        BY <3>0, <3>1, <4>1
      <4>2. CASE i # 1
        <5>1. i - 1 \in 1 .. m + 1 /\ i - 1 # d /\ i - 1 \in 1 .. d
          BY <3>0, <4>2
        <5>0. \A x \in 1 .. d : c[x] = (IF x = d THEN g[m + 1] \o seqs[d] ELSE g[x])
          OBVIOUS
        <5> HIDE DEF c
        <5>2. c[i - 1] = g[i - 1]
          BY <5>0, <5>1
        <5>3. i # d => g[i] = g[i - 1] \o seqs[i]
          <6>1. \A x \in 1 .. m + 1 : x # 1 => g[x] = g[x - 1] \o seqs[x]
            BY <3>1
          <6>2. i # d => i \in 1 .. m + 1
            BY <3>0
          <6> QED
            BY <4>2, <6>1, <6>2
        <5>4. i = d => i - 1 = m + 1
          BY <3>0
        <5> QED
          BY <4>2, <5>0, <5>2, <5>3, <5>4
      <4> QED
        BY <4>1, <4>2
    <3>3. Is(c, d)
      BY <3>2
    <3>4. \E h : Is(h, (m + 1) + 1)
      <4>1. Is(c, (m + 1) + 1)
        BY <3>0, <3>3
      <4> HIDE DEF Is, c
      <4> QED
        BY <4>1
    <3> HIDE DEF Is
    <3> QED
      BY <3>4
  <2>3. k - 1 \in Nat /\ (k - 1) + 1 = k
    OBVIOUS
  <2>4. k - 1 \in S
    <3> HIDE DEF S
    <3> QED
      BY <2>1, <2>2, <2>3, SetInduction
  <2> HIDE DEF Is
  <2> QED
    BY <2>3, <2>4
<1> DEFINE f == CHOOSE g : Is(g, k)
<1>2. Is(f, k)
  <2> HIDE DEF Is
  <2> QED
    BY <1>1
<1>3. FlattenSeq(seqs) = f[k]
  BY DEF FlattenSeq
<1>4. IsJoin(f, seqs, k)
  <2> HIDE DEF f
  <2> QED
    BY <1>2 DEF IsJoin
<1> QED
  <2> HIDE DEF f
  <2> QED
    BY <1>3, <1>4

LEMMA PiecesFlatten ==
  ASSUME NEW V, NEW log \in [Nat -> V], NEW k \in Nat \ {0}, NEW e \in [0 .. k -> Nat],
         \A i \in 1 .. k : e[i - 1] <= e[i],
         NEW seqs, seqs = [i \in 1 .. k |-> Piece(log, e[i - 1], e[i])]
  PROVE  FlattenSeq(seqs) = Piece(log, e[0], e[k])
<1>1. Len(seqs) = k
  <2>1. seqs \in Seq(Seq(V))
    <3>1. \A i \in 1 .. k : Piece(log, e[i - 1], e[i]) \in Seq(V)
      <4> SUFFICES ASSUME NEW i \in 1 .. k
                   PROVE  Piece(log, e[i - 1], e[i]) \in Seq(V)
        OBVIOUS
      <4>1. e[i - 1] \in Nat /\ e[i] \in Nat /\ e[i - 1] <= e[i]
        OBVIOUS
      <4> QED
        BY <4>1, PieceIsSeq
    <3>2. seqs \in [1 .. k -> Seq(V)]
      BY <3>1
    <3> QED
      BY <3>2, SeqDef
  <2>2. DOMAIN seqs = 1 .. k
    OBVIOUS
  <2> QED
    BY <2>1, <2>2, LenProperties
<1>0. PICK g : IsJoin(g, seqs, k) /\ FlattenSeq(seqs) = g[k]
  BY <1>1, FlattenDef, Zenon
<1>2. /\ g = [i \in 1 .. k |-> IF i = 1 THEN seqs[i] ELSE g[i - 1] \o seqs[i]]
      /\ FlattenSeq(seqs) = g[k]
  BY <1>0 DEF IsJoin
<1> DEFINE S == {n \in Nat : n + 1 <= k => /\ e[0] <= e[n + 1]
                                           /\ g[n + 1] = Piece(log, e[0], e[n + 1])}
<1>3. 0 \in S
  <2>1. 1 \in 1 .. k /\ 1 - 1 = 0 /\ 0 + 1 = 1
    OBVIOUS
  <2>2. g[1] = seqs[1] /\ seqs[1] = Piece(log, e[0], e[1]) /\ e[0] <= e[1]
    BY <1>2, <2>1
  <2> QED
    BY <2>1, <2>2
<1>4. ASSUME NEW n \in Nat, n \in S
      PROVE  n + 1 \in S
  <2> SUFFICES ASSUME (n + 1) + 1 <= k
               PROVE  /\ e[0] <= e[(n + 1) + 1]
                      /\ g[(n + 1) + 1] = Piece(log, e[0], e[(n + 1) + 1])
    OBVIOUS
  <2>0. PICK i \in 1 .. k, j \in 1 .. k : i = (n + 1) + 1 /\ j = n + 1 /\ i - 1 = j /\ i # 1
    OBVIOUS
  <2>1. e[0] <= e[j] /\ g[j] = Piece(log, e[0], e[j])
    BY <1>4, <2>0
  <2>2. g[i] = g[j] \o seqs[i] /\ seqs[i] = Piece(log, e[j], e[i]) /\ e[j] <= e[i]
    BY <1>2, <2>0
  <2>3. e[0] \in Nat /\ e[j] \in Nat /\ e[i] \in Nat
    OBVIOUS
  <2>4. g[i] = Piece(log, e[0], e[i])
    <3>1. PICK x \in Nat, y \in Nat, z \in Nat : x = e[0] /\ y = e[j] /\ z = e[i]
      BY <2>3
    <3>0. x <= y /\ y <= z
      BY <2>1, <2>2, <3>1
    <3>2. Piece(log, x, y) \o Piece(log, y, z) = Piece(log, x, z)
      BY <3>0, PiecesJoin
    <3> QED
      BY <2>1, <2>2, <3>1, <3>2
  <2>5. e[0] <= e[i]
    BY <2>1, <2>2, <2>3
  <2> QED
    BY <2>0, <2>4, <2>5
<1>5. k - 1 \in Nat /\ (k - 1) + 1 = k
  OBVIOUS
<1>6. k - 1 \in S
  <2> HIDE DEF S
  <2> QED
    BY <1>3, <1>4, <1>5, SetInduction
<1>7. g[(k - 1) + 1] = Piece(log, e[0], e[(k - 1) + 1])
  <2>1. (k - 1) + 1 <= k
    BY <1>5
  <2> QED
    BY <1>6, <2>1
<1> HIDE DEF S
<1> QED
  BY <1>2, <1>5, <1>7

-----------------------------------------------------------------------------
(***************************************************************************)
(* The number of the oldest cell of a block that counts, and what Cells    *)
(* reads there.                                                            *)
(***************************************************************************)
Base(first, b) == IF consumer = "release" /\ b = frontBlock THEN first[b] + 1 ELSE first[b]

LEMMA OldestFacts ==
  ASSUME QueueInv, NEW b \in Blocks
  PROVE  /\ OldestCell(b) \in 0 .. block[b].size - 1
         /\ Count(b) \in Nat /\ Count(b) = Dist(OldestCell(b), block[b].tail, block[b].size)
         /\ CellsOf(b) \in Nat
         /\ ~(consumer = "release" /\ b = frontBlock)
              => OldestCell(b) = block[b].front /\ Count(b) = CellsOf(b)
         /\ consumer = "release" /\ b = frontBlock
              => /\ OldestCell(b) = Succ(block[b].front, block[b].size)
                 /\ block[b].front # block[b].tail /\ CellsOf(b) = Count(b) + 1
<1> USE DEF QueueInv
<1>0. PICK n \in Nat : n = block[b].size
  BY BlockFacts
<1>1. PICK f \in 0 .. n - 1, t \in 0 .. n - 1 :
        n = block[b].size /\ f = block[b].front /\ t = block[b].tail
  <2>1. /\ block[b].size \in Nat /\ block[b].front \in 0 .. block[b].size - 1
        /\ block[b].tail \in 0 .. block[b].size - 1
    BY BlockFacts DEF IndexOK
  <2> QED
    BY <1>0, <2>1
<1>2. CellsOf(b) = Dist(f, t, n) /\ Dist(f, t, n) \in Nat
  BY <1>1 DEF CellsOf, Dist
<1>3. CASE ~(consumer = "release" /\ b = frontBlock)
  <2>1. OldestCell(b) = f
    BY <1>1, <1>3 DEF OldestCell
  <2>2. Count(b) = Dist(f, t, n)
    BY <1>1, <2>1, DistIsModulo DEF Count
  <2> QED
    BY <1>1, <1>2, <1>3, <2>1, <2>2
<1>4. CASE consumer = "release" /\ b = frontBlock
  <2>1. f # t
    BY <1>1, <1>4, FrontHolds DEF EmptyBlock
  <2>2. OldestCell(b) = Succ(f, n) /\ Succ(f, n) \in 0 .. n - 1
    BY <1>1, <1>4, AfterIsSucc DEF OldestCell
  <2>3. Count(b) = Dist(Succ(f, n), t, n)
    <3>1. PICK o \in 0 .. n - 1 : o = OldestCell(b) /\ o = Succ(f, n)
      BY <2>2
    <3>2. Count(b) = (t + n - o) % n
      BY <1>1, <3>1 DEF Count
    <3>3. (t + n - o) % n = Dist(o, t, n)
      BY DistIsModulo
    <3> QED
      BY <3>1, <3>2, <3>3
  <2>4. Dist(f, t, n) >= 1 /\ Dist(Succ(f, n), t, n) = Dist(f, t, n) - 1
    BY <2>1, OneNearer
  <2>5. Dist(f, t, n) = Dist(Succ(f, n), t, n) + 1 /\ Dist(Succ(f, n), t, n) \in Nat
    BY <1>2, <2>4
  <2> QED
    BY <1>1, <1>2, <1>4, <2>1, <2>2, <2>3, <2>5
<1> QED
  BY <1>3, <1>4

\* c is the cell j steps behind cell f.
Behind(f, j, n, c) == c = (f + j) % n /\ Dist(f, c, n) = j

LEMMA CellBehind ==
  ASSUME NEW n \in Nat, NEW f \in 0 .. n - 1, NEW t \in 0 .. n - 1, NEW j \in Nat,
         j < Dist(f, t, n)
  PROVE  \E c \in 0 .. n - 1 : Behind(f, j, n, c)
<1> SUFFICES (f + j) % n \in 0 .. n - 1 /\ Dist(f, (f + j) % n, n) = j
  BY DEF Behind
<1>1. j < n /\ f + j < n + n
  BY DEF Dist
<1>2. CASE f + j < n
  <2>1. (f + j) % n = f + j
    BY <1>2
  <2> QED
    BY <1>2, <2>1 DEF Dist
<1>3. CASE ~(f + j < n)
  <2>1. PICK d \in Nat : d = (f + j) - n /\ d < n /\ d < f
    BY <1>1, <1>3
  <2>2. (d + n) % n = d
    BY <2>1
  <2>3. f + j = d + n
    BY <2>1
  <2>4. Dist(f, d, n) = j
    BY <2>1 DEF Dist
  <2> QED
    BY <2>1, <2>2, <2>3, <2>4
<1> QED
  BY <1>2, <1>3

LEMMA CellsArePiece ==
  ASSUME QueueInv, NEW log \in [Nat -> Cell], NEW first \in [Nat -> Nat], NEW sent \in Nat,
         NEW taken \in Nat, Numbered(log, first, sent, taken), NEW b \in Ring, Live(b)
  PROVE  /\ Cells(b) = Piece(log, Base(first, b), first[b] + CellsOf(b))
         /\ Base(first, b) \in Nat /\ CellsOf(b) \in Nat /\ first[b] \in Nat
         /\ Base(first, b) <= first[b] + CellsOf(b)
<1> USE DEF QueueInv
<1>0. b \in Blocks /\ b \in Nat /\ BlocksInv
  BY PlaceFacts, BlockFacts
<1>1. first[b] \in Nat
  BY <1>0
<1> PICK n \in Nat : n = block[b].size
  BY <1>0, BlockFacts
<1>2. PICK f \in 0 .. n - 1, t \in 0 .. n - 1, o \in 0 .. n - 1 :
        /\ n = block[b].size /\ f = block[b].front /\ t = block[b].tail /\ o = OldestCell(b)
  <2>1. /\ block[b].size \in Nat /\ block[b].front \in 0 .. block[b].size - 1
        /\ block[b].tail \in 0 .. block[b].size - 1 /\ OldestCell(b) \in 0 .. block[b].size - 1
    BY <1>0, OldestFacts, BlockFacts DEF IndexOK
  <2> QED
    BY <2>1
<1>3. /\ CellsOf(b) \in Nat /\ CellsOf(b) = Dist(f, t, n)
      /\ Count(b) \in Nat /\ Count(b) = Dist(o, t, n)
      /\ Base(first, b) \in Nat
      /\ first[b] + CellsOf(b) = Base(first, b) + Count(b)
  <2>1. CASE ~(consumer = "release" /\ b = frontBlock)
    <3>1. Count(b) = CellsOf(b) /\ Base(first, b) = first[b] /\ CellsOf(b) \in Nat
      BY <1>0, <2>1, OldestFacts DEF Base
    <3> QED
      BY <1>0, <1>1, <1>2, <3>1, OldestFacts DEF CellsOf
  <2>2. CASE consumer = "release" /\ b = frontBlock
    <3>1. /\ CellsOf(b) = Count(b) + 1 /\ Count(b) \in Nat /\ CellsOf(b) \in Nat
          /\ Base(first, b) = first[b] + 1 /\ Count(b) = Dist(o, t, n)
      BY <1>0, <1>2, <2>2, OldestFacts DEF Base
    <3>2. first[b] + (Count(b) + 1) = (first[b] + 1) + Count(b) /\ first[b] + 1 \in Nat
      BY <1>1, <3>1
    <3> QED
      BY <1>2, <3>1, <3>2 DEF CellsOf
  <2> QED
    BY <2>1, <2>2
<1>4. ASSUME NEW j \in Nat, j < Count(b)
      PROVE  block[b].data[(o + j) % n] = log[Base(first, b) + j]
  <2>0. j < Dist(o, t, n)
    BY <1>3, <1>4
  <2>1. PICK c \in 0 .. n - 1 : Behind(o, j, n, c)
    BY <2>0, CellBehind
  <2>2. c = (o + j) % n /\ Dist(o, c, n) = j
    BY <2>1 DEF Behind
  <2>3. /\ Place(b, c) < CellsOf(b) /\ first[b] + Place(b, c) = Base(first, b) + j
        /\ ~Emptied(b, c)
    <3>1. CASE ~(consumer = "release" /\ b = frontBlock)
      <4>1. o = f /\ Count(b) = CellsOf(b) /\ Base(first, b) = first[b]
        BY <1>0, <1>2, <3>1, OldestFacts DEF Base
      <4> QED
        BY <1>2, <1>4, <2>1, <2>2, <3>1, <4>1 DEF Place, Emptied
    <3>2. CASE consumer = "release" /\ b = frontBlock
      <4>1. /\ o = Succ(f, n) /\ f # t /\ CellsOf(b) = Count(b) + 1
            /\ Base(first, b) = first[b] + 1
        BY <1>0, <1>2, <3>2, OldestFacts DEF Base
      <4>2. Dist(o, c, n) = j
        BY <2>2
      <4>3. c # f
        <5>1. c = f => Dist(o, c, n) = n - 1
          BY <4>1 DEF Dist, Succ
        <5>2. Dist(o, t, n) <= n - 1
          BY DEF Dist
        <5> QED
          BY <1>3, <1>4, <4>2, <5>1, <5>2
      <4>4. Dist(f, c, n) \in Nat /\ Dist(f, c, n) >= 1 /\ j = Dist(f, c, n) - 1
        BY <4>1, <4>2, <4>3, OneNearer
      <4>5. Place(b, c) = j + 1
        BY <1>2, <4>4 DEF Place
      <4> QED
        BY <1>1, <1>2, <1>3, <1>4, <4>1, <4>3, <4>5 DEF Emptied
    <3> QED
      BY <3>1, <3>2
  <2>4. Occupied(block[b], c)
    BY <2>3 DEF Place, CellsOf, Occupied
  <2>5. CellIs(log, first, sent, b, c)
    BY <1>2 DEF Numbered
  <2> QED
    BY <2>2, <2>3, <2>4, <2>5 DEF CellIs
<1>5. ASSUME NEW i \in 1 .. Count(b)
      PROVE  Cells(b)[i] = log[Base(first, b) + i - 1]
  <2>1. PICK j \in Nat : j = i - 1 /\ j < Count(b)
    BY <1>3
  <2>2. o + i - 1 = o + j /\ Base(first, b) + i - 1 = Base(first, b) + j
    BY <1>3, <2>1
  <2>3. Cells(b)[i] = block[b].data[(o + i - 1) % n]
    BY <1>2 DEF Cells
  <2> QED
    BY <1>4, <2>1, <2>2, <2>3
<1>6. (first[b] + CellsOf(b)) - Base(first, b) = Count(b)
      /\ Base(first, b) <= first[b] + CellsOf(b)
  BY <1>3
<1>7. Cells(b) = [i \in 1 .. Count(b) |-> log[Base(first, b) + i - 1]]
  BY <1>5 DEF Cells
<1> QED
  BY <1>1, <1>3, <1>6, <1>7 DEF Piece

-----------------------------------------------------------------------------
(***************************************************************************)
(* The walk of Contents: from frontBlock to tailBlock, over live blocks.   *)
(***************************************************************************)
LEMMA WalkEnds ==
  ASSUME QueueInv, OneCycle
  PROVE  \E n \in 0 .. Len(block) :
           /\ n = (CHOOSE i \in 0 .. Len(block) :
                     Ahead[i] = tailBlock /\ \A m \in 0 .. i - 1 : Ahead[m] # tailBlock)
           /\ Ahead[n] = tailBlock /\ \A m \in 0 .. n - 1 : Ahead[m] # tailBlock
<1> USE DEF QueueInv
<1>1. Len(block) \in Nat /\ tailBlock \in Ring
  BY DEF BlocksInv, RingInv
<1> DEFINE T == {n \in 0 .. Len(block) : Ahead[n] = tailBlock}
           Is(i) == Ahead[i] = tailBlock /\ \A m \in 0 .. i - 1 : Ahead[m] # tailBlock
<1>2. PICK k \in 0 .. Len(block) : Ahead[k] = tailBlock
  BY <1>1, AheadReachesRing
<1>3. T \in SUBSET Nat /\ k \in T
  BY <1>1, <1>2
<1>4. PICK n \in T : \A m \in T : n <= m
  <2> HIDE DEF T
  <2> QED
    BY <1>3, LeastElement
<1>5. n \in 0 .. Len(block) /\ Is(n)
  <2> SUFFICES ASSUME NEW m \in 0 .. n - 1, Ahead[m] = tailBlock
               PROVE  FALSE
    BY <1>4
  <2>1. m \in T
    BY <1>1, <1>4
  <2>2. n <= m
    BY <1>4, <2>1
  <2> QED
    BY <1>1, <2>2
<1> DEFINE c == CHOOSE i \in 0 .. Len(block) : Is(i)
<1>6. c \in 0 .. Len(block) /\ Is(c)
  <2> HIDE DEF Is
  <2> QED
    BY <1>5
<1>7. WITNESS c \in 0 .. Len(block)
<1> QED
  BY <1>6

LEMMA WalkIsLive ==
  ASSUME QueueInv, NEW last \in 0 .. Len(block), \A m \in 0 .. last - 1 : Ahead[m] # tailBlock
  PROVE  /\ \A n \in 0 .. last : Ahead[n] \in Ring /\ Live(Ahead[n])
         /\ \A n \in 1 .. last : Ahead[n] # frontBlock /\ Ahead[n] = block[Ahead[n - 1]].next
<1> USE DEF QueueInv
<1>1. Len(block) \in Nat
  BY DEF BlocksInv
<1>2. ASSUME NEW b \in Ring, Live(b), b # tailBlock
      PROVE  block[b].next \in Ring /\ Live(block[b].next) /\ block[b].next # frontBlock
  <2>1. tailBlock \in Ring /\ block[b].next \in Ring /\ block[b].next # frontBlock
    BY <1>2, LivePlaces
  <2>2. ~Free(b) /\ b # LastFilled
    BY <1>2 DEF Live, LastFilled
  <2>3. ~Free(block[b].next)
    BY <2>2 DEF RingInv
  <2>4. producer = "advance" => block[b].next # Following
    BY <1>2, <2>1 DEF RingInv, Following
  <2> QED
    BY <2>1, <2>3, <2>4 DEF Live
<1>3. \A n \in 0 .. last - 1 : Ahead[n + 1] = block[Ahead[n]].next
  BY <1>1, AheadOnRing
<1> DEFINE S == {n \in Nat : n <= last => Ahead[n] \in Ring /\ Live(Ahead[n])}
<1>4. 0 \in S
  BY AheadOnRing, LivePlaces
<1>5. ASSUME NEW n \in Nat, n \in S
      PROVE  n + 1 \in S
  <2> SUFFICES ASSUME n + 1 <= last
               PROVE  Ahead[n + 1] \in Ring /\ Live(Ahead[n + 1])
    OBVIOUS
  <2>1. n \in 0 .. last - 1
    BY <1>1
  <2>2. Ahead[n] \in Ring /\ Live(Ahead[n]) /\ Ahead[n] # tailBlock
    BY <1>1, <1>5, <2>1
  <2> QED
    BY <1>2, <1>3, <2>1, <2>2
<1>6. Nat \subseteq S
  <2> HIDE DEF S
  <2> QED
    BY <1>4, <1>5, SetInduction
<1>7. \A n \in 0 .. last : Ahead[n] \in Ring /\ Live(Ahead[n])
  BY <1>1, <1>6
<1>8. ASSUME NEW n \in 1 .. last
      PROVE  Ahead[n] # frontBlock /\ Ahead[n] = block[Ahead[n - 1]].next
  <2>1. PICK m \in 0 .. last - 1 : m = n - 1 /\ n = m + 1
    BY <1>1
  <2>2. m \in 0 .. last
    BY <1>1
  <2>3. Ahead[m] \in Ring /\ Live(Ahead[m]) /\ Ahead[m] # tailBlock
    BY <1>7, <2>2
  <2>4. Ahead[n] = block[Ahead[m]].next
    BY <1>3, <2>1
  <2> QED
    BY <1>2, <2>1, <2>3, <2>4
<1> QED
  BY <1>7, <1>8

LEMMA HeldIsPiece ==
  ASSUME NEW log \in [Nat -> Cell], NEW sent \in Nat, NEW taken \in Nat,
         HeldIs(log, sent, taken)
  PROVE  held = Piece(log, taken, sent) /\ taken <= sent
<1>1. held \in Seq(Elements) /\ Len(held) \in Nat /\ taken + Len(held) = sent
  BY DEF HeldIs
<1>2. sent - taken = Len(held) /\ taken <= sent
  BY <1>1
<1>3. \A i \in 1 .. Len(held) : held[i] = log[taken + i - 1]
  BY DEF HeldIs
<1>4. held = [i \in 1 .. Len(held) |-> log[taken + i - 1]]
  BY <1>1, <1>3
<1> QED
  BY <1>2, <1>4 DEF Piece

(***************************************************************************)
(* What the walk around the ring finds is what the history tells.          *)
(***************************************************************************)
LEMMA ContentsAreHeld ==
  ASSUME OrderInv, OneCycle
  PROVE  Contents = held
<1>0. QueueInv /\ InOrder
  BY DEF OrderInv
<1>1. PICK log \in [Nat -> Cell], first \in [Nat -> Nat], sent \in Nat, taken \in Nat :
        Numbered(log, first, sent, taken)
  BY <1>0 DEF InOrder
<1>2. HeldIs(log, sent, taken) /\ ChainIs(first, sent, taken)
  BY <1>1 DEF Numbered
<1>3. held = Piece(log, taken, sent) /\ taken <= sent
  BY <1>2, HeldIsPiece
<1>4. PICK last \in 0 .. Len(block) :
           /\ last = (CHOOSE i \in 0 .. Len(block) :
                        Ahead[i] = tailBlock /\ \A m \in 0 .. i - 1 : Ahead[m] # tailBlock)
           /\ Ahead[last] = tailBlock /\ \A m \in 0 .. last - 1 : Ahead[m] # tailBlock
  BY <1>0, WalkEnds
<1> DEFINE k == last + 1
           end(b) == first[b] + CellsOf(b)
           e == [i \in 0 .. k |-> IF i = 0 THEN taken ELSE end(Ahead[i - 1])]
           seqs == [i \in 1 .. k |-> Cells(Ahead[i - 1])]
<1>5. Contents = FlattenSeq(seqs)
  BY <1>4 DEF Contents
<1>6. last \in Nat /\ k \in Nat \ {0}
  BY <1>0 DEF QueueInv, BlocksInv
<1>7. /\ \A n \in 0 .. last : Ahead[n] \in Ring /\ Live(Ahead[n])
      /\ \A n \in 1 .. last : Ahead[n] # frontBlock /\ Ahead[n] = block[Ahead[n - 1]].next
  BY <1>0, <1>4, WalkIsLive
<1>8. ASSUME NEW n \in 0 .. last
      PROVE  /\ Cells(Ahead[n]) = Piece(log, Base(first, Ahead[n]), end(Ahead[n]))
             /\ end(Ahead[n]) \in Nat /\ Base(first, Ahead[n]) <= end(Ahead[n])
             /\ Base(first, Ahead[n]) = e[n]
  <2>1. Ahead[n] \in Ring /\ Live(Ahead[n])
    BY <1>7
  <2>2. /\ Cells(Ahead[n]) = Piece(log, Base(first, Ahead[n]), end(Ahead[n]))
        /\ CellsOf(Ahead[n]) \in Nat /\ first[Ahead[n]] \in Nat
        /\ Base(first, Ahead[n]) <= end(Ahead[n])
    BY <1>0, <1>1, <2>1, CellsArePiece
  <2>3. end(Ahead[n]) \in Nat
    BY <2>2, SumIsNat
  <2>4. CASE n = 0
    <3>1. Ahead[0] = frontBlock
      BY <1>0, AheadOnRing DEF QueueInv
    <3>2. Base(first, frontBlock) = taken
      BY <1>2 DEF ChainIs, Base
    <3>3. e[0] = taken
      BY <1>6
    <3> HIDE DEF e, end
    <3> QED
      BY <2>2, <2>3, <2>4, <3>1, <3>2, <3>3
  <2>5. CASE n # 0
    <3>1. n \in 1 .. last /\ n - 1 \in 0 .. last - 1 /\ n - 1 \in 0 .. last /\ n \in 0 .. k
      BY <1>6, <2>5
    <3>2. Ahead[n - 1] \in Ring /\ Live(Ahead[n - 1]) /\ Ahead[n - 1] # tailBlock
      BY <1>4, <1>7, <3>1
    <3>3. first[Ahead[n]] = end(Ahead[n - 1])
      BY <1>2, <1>7, <3>1, <3>2 DEF ChainIs
    <3>4. Base(first, Ahead[n]) = first[Ahead[n]]
      BY <1>7, <3>1 DEF Base
    <3>5. e[n] = end(Ahead[n - 1])
      BY <2>5, <3>1
    <3> HIDE DEF e, end
    <3> QED
      BY <2>2, <2>3, <3>3, <3>4, <3>5
  <2> QED
    BY <2>4, <2>5
<1>9. e[0] = taken /\ e[k] = sent
  <2>1. e[0] = taken
    BY <1>6
  <2>2. e[k] = end(tailBlock)
    <3>1. k \in 0 .. k /\ k # 0 /\ k - 1 = last
      BY <1>6
    <3>2. e[k] = end(Ahead[k - 1])
      <4> HIDE DEF k, end
      <4> QED
        BY <3>1
    <3> QED
      BY <1>4, <3>1, <3>2
  <2>3. end(tailBlock) = sent
    BY <1>2 DEF ChainIs
  <2> QED
    BY <2>1, <2>2, <2>3
<1>10. ASSUME NEW i \in 1 .. k
       PROVE  e[i - 1] \in Nat /\ e[i] \in Nat /\ e[i - 1] <= e[i]
              /\ seqs[i] = Piece(log, e[i - 1], e[i])
  <2>1. PICK n \in 0 .. last : n = i - 1
    BY <1>6
  <2>2. e[i] = end(Ahead[n]) /\ seqs[i] = Cells(Ahead[n])
    BY <1>6, <2>1
  <2>3. Base(first, Ahead[n]) = e[n] /\ e[n] \in Nat
    <3>1. Base(first, Ahead[n]) = e[n]
      BY <1>8
    <3>2. Base(first, Ahead[n]) \in Nat
      <4>1. Ahead[n] \in Ring /\ Live(Ahead[n])
        BY <1>7
      <4> QED
        BY <1>0, <1>1, <4>1, CellsArePiece
    <3> HIDE DEF e
    <3> QED
      BY <3>1, <3>2
  <2> HIDE DEF e, end, seqs
  <2> QED
    BY <1>8, <2>1, <2>2, <2>3
<1>11. e \in [0 .. k -> Nat]
  <2>1. \A i \in 0 .. k : e[i] \in Nat
    <3> SUFFICES ASSUME NEW i \in 0 .. k
                 PROVE  e[i] \in Nat
      OBVIOUS
    <3>1. i = 0 \/ i \in 1 .. k
      BY <1>6
    <3> HIDE DEF e, seqs, k
    <3> QED
      BY <1>9, <1>10, <3>1
  <2> QED
    BY <2>1
<1>12. seqs = [i \in 1 .. k |-> Piece(log, e[i - 1], e[i])]
  <2>1. \A i \in 1 .. k : seqs[i] = Piece(log, e[i - 1], e[i])
    BY <1>10
  <2>2. seqs = [i \in 1 .. k |-> seqs[i]]
    OBVIOUS
  <2> HIDE DEF e, seqs, k
  <2> QED
    BY <2>1, <2>2
<1>13. FlattenSeq(seqs) = Piece(log, e[0], e[k])
  <2>1. \A i \in 1 .. k : e[i - 1] <= e[i]
    BY <1>10
  <2> HIDE DEF e, seqs, k
  <2> QED
    BY <1>6, <1>11, <1>12, <2>1, PiecesFlatten
<1> HIDE DEF e, seqs, k
<1> QED
  BY <1>3, <1>5, <1>9, <1>13

-----------------------------------------------------------------------------
(***************************************************************************)
(* The queue without a history implements the Fifo too: at every step what *)
(* the walk finds is what the history tells, and the empty queue that the  *)
(* consumer saw when it called is the one that the history remembers.      *)
(***************************************************************************)
SawInv == consumer # "idle" => emptyAtCall = sawEmpty

LEMMA PoppingIsDoing == SawInv => Popping = Doing
BY DEF SawInv, Popping, Doing

LEMMA SawStep ==
  ASSUME OrderInv, OneCycle, SawInv, [OrderNext]_orderVars
  PROVE  SawInv'
<1>1. CASE OrderNext
  <2>1. CASE Producer
    <3>1. consumer' = consumer /\ sawEmpty' = sawEmpty
      BY <2>1, ProducerMoves DEF OrderInv
    <3>2. emptyAtCall' = emptyAtCall
      BY <1>1, <3>1 DEF OrderNext, Remember, Called
    <3> QED
      BY <3>1, <3>2 DEF SawInv
  <2>2. CASE \E c \in ConsumerCalls : Dequeue(c)
    <3>1. consumer = "idle" /\ consumer' # "idle" /\ sawEmpty' = (Contents = <<>>)
      BY <2>2 DEF Dequeue, Consumes
    <3>2. emptyAtCall' = (held = <<>>)
      BY <1>1, <3>1 DEF OrderNext, Remember, Called
    <3> QED
      BY <3>1, <3>2, ContentsAreHeld DEF SawInv
  <2>3. CASE Consumer /\ ~(\E c \in ConsumerCalls : Dequeue(c))
    <3>1. sawEmpty' = sawEmpty /\ consumer # "idle"
      BY <2>3 DEF Consumer, ReloadTail, LoadTail, CheckTail, CheckAgain, ReadNext, PeekNext,
         LookAhead, AdvanceFront, Take, Pop, Peek, Release, Consumes
    <3>2. emptyAtCall' = emptyAtCall
      BY <1>1, <3>1 DEF OrderNext, Remember, Called
    <3> QED
      BY <3>1, <3>2 DEF SawInv
  <2> QED
    BY <1>1, <2>1, <2>2, <2>3 DEF OrderNext, Next
<1>2. CASE UNCHANGED orderVars
  BY <1>2 DEF SawInv, orderVars, vars, consumerVars
<1> QED
  BY <1>1, <1>2

\* A step of the Fifo that the history makes is one that the walk makes.
LEMMA StepsAgree ==
  ASSUME held = Contents, held' = Contents', Doing = Popping, Doing' = Popping',
         [H!FifoNext]_(H!fifoVars)
  PROVE  [F!FifoNext]_(F!fifoVars)
<1>1. CASE \E e \in Elements : H!CallEnqueue(e)
  BY <1>1 DEF H!CallEnqueue, F!CallEnqueue, F!FifoNext
<1>2. CASE H!Send
  BY <1>2 DEF H!Send, F!Send, F!FifoNext
<1>3. CASE H!FailToSend
  BY <1>3 DEF H!FailToSend, F!FailToSend, F!FifoNext
<1>4. CASE \E c \in H!Calls : H!CallConsumer(c)
  BY <1>4 DEF H!CallConsumer, F!CallConsumer, H!Calls, F!Calls, F!FifoNext
<1>5. CASE H!Take
  BY <1>5 DEF H!Take, F!Take, H!MayAct, F!MayAct, F!FifoNext
<1>6. CASE H!Drop
  BY <1>6 DEF H!Drop, F!Drop, H!MayAct, F!MayAct, F!FifoNext
<1>7. CASE H!Look
  BY <1>7 DEF H!Look, F!Look, H!MayAct, F!MayAct, F!FifoNext
<1>8. CASE H!ReturnTaken \/ H!ReturnEmpty
  BY <1>8 DEF H!ReturnTaken, F!ReturnTaken, H!ReturnEmpty, F!ReturnEmpty, F!FifoNext
<1>9. CASE UNCHANGED H!fifoVars
  BY <1>9 DEF H!fifoVars, F!fifoVars
<1> QED
  BY <1>1, <1>2, <1>3, <1>4, <1>5, <1>6, <1>7, <1>8, <1>9 DEF H!FifoNext

(***************************************************************************)
(* What a walk from frontBlock to tailBlock finds behaves like the one     *)
(* sequence of the Fifo: nothing is lost, duplicated or overtaken, and     *)
(* try_dequeue() returns false only if the queue was empty when it was     *)
(* called, for every number and size of blocks and every interleaving.     *)
(***************************************************************************)
THEOREM QueueImplementsFifo == OrderSpec => ImplementsFifo
<1> DEFINE I == OrderInv /\ OneCycle /\ SawInv
<1>1. OrderInit => I /\ F!FifoInit
  <2> SUFFICES ASSUME OrderInit
               PROVE  I /\ F!FifoInit
    OBVIOUS
  <2>1. OrderInv /\ H!FifoInit /\ OneCycle
    BY InitOrder, InitOneCycle DEF OrderInit
  <2>2. SawInv
    BY DEF OrderInit, Init, SawInv
  <2>3. Contents = held /\ Popping = Doing
    BY <2>1, <2>2, ContentsAreHeld, PoppingIsDoing
  <2> QED
    BY <2>1, <2>2, <2>3 DEF H!FifoInit, F!FifoInit
<1>2. I /\ [OrderNext]_orderVars => I' /\ [H!FifoNext]_(H!fifoVars)
  <2> SUFFICES ASSUME OrderInv, OneCycle, SawInv, [OrderNext]_orderVars
               PROVE  I' /\ [H!FifoNext]_(H!fifoVars)
    OBVIOUS
  <2>1. OrderInv' /\ [H!FifoNext]_(H!fifoVars)
    BY StepOrder
  <2>2. [Next]_vars
    BY DEF OrderNext, orderVars
  <2>3. OneCycle'
    BY <2>2, StepOneCycle DEF OrderInv
  <2>4. SawInv'
    BY SawStep
  <2> QED
    BY <2>1, <2>3, <2>4
<1> DEFINE Agree == held = Contents /\ Doing = Popping
<1>3. I => Agree
  BY ContentsAreHeld, PoppingIsDoing
<1>4. Agree /\ Agree' /\ [H!FifoNext]_(H!fifoVars) => [F!FifoNext]_(F!fifoVars)
  BY StepsAgree
<1> HIDE DEF I, Agree
<1> QED
  BY <1>1, <1>2, <1>3, <1>4, PTL DEF OrderSpec, ImplementsFifo, F!FifoSpec

-----------------------------------------------------------------------------
(***************************************************************************)
(* size_approx().  The cells of a block between two of its indices, and    *)
(* how many there are.                                                     *)
(***************************************************************************)
Span(f, t, n) == {i \in 0 .. n - 1 : Dist(f, i, n) < Dist(f, t, n)}

LEMMA SpanIsCounted ==
  ASSUME NEW n \in Nat, NEW f \in 0 .. n - 1, NEW t \in 0 .. n - 1
  PROVE  IsFiniteSet(Span(f, t, n)) /\ Cardinality(Span(f, t, n)) = Dist(f, t, n)
<1> DEFINE Near(d) == {i \in 0 .. n - 1 : Dist(f, i, n) < d}
           S == {d \in Nat : d < n => IsFiniteSet(Near(d)) /\ Cardinality(Near(d)) = d}
<1>1. 0 \in S
  <2>1. Near(0) = {}
    BY DEF Dist
  <2> HIDE DEF Near
  <2> QED
    BY <2>1, FS_EmptySet
<1>2. ASSUME NEW d \in Nat, d \in S
      PROVE  d + 1 \in S
  <2> SUFFICES ASSUME d + 1 < n
               PROVE  IsFiniteSet(Near(d + 1)) /\ Cardinality(Near(d + 1)) = d + 1
    OBVIOUS
  <2>1. PICK x \in 0 .. n - 1 : x = (IF f + d < n THEN f + d ELSE (f + d) - n)
    <3>1. f + d < n => f + d \in 0 .. n - 1
      OBVIOUS
    <3>2. ~(f + d < n) => (f + d) - n \in 0 .. n - 1
      OBVIOUS
    <3> QED
      BY <3>1, <3>2
  <2>2. \A i \in 0 .. n - 1 : /\ Dist(f, i, n) < d + 1 <=> Dist(f, i, n) < d \/ i = x
                              /\ i = x => ~(Dist(f, i, n) < d)
    BY <2>1 DEF Dist
  <2>3. Near(d + 1) = Near(d) \cup {x} /\ x \notin Near(d)
    BY <2>2
  <2>4. IsFiniteSet(Near(d)) /\ Cardinality(Near(d)) = d
    BY <1>2
  <2> HIDE DEF Near
  <2> QED
    BY <2>3, <2>4, FS_AddElement
<1>3. Dist(f, t, n) \in Nat /\ Dist(f, t, n) < n
  BY DEF Dist
<1>4. Dist(f, t, n) \in S
  <2> HIDE DEF S
  <2> QED
    BY <1>1, <1>2, <1>3, SetInduction
<1>5. Span(f, t, n) = Near(Dist(f, t, n))
  BY DEF Span
<1> HIDE DEF Near
<1> QED
  BY <1>3, <1>4, <1>5

(***************************************************************************)
(* The cells in use on the ring.  The producer adds one when it publishes  *)
(* it or links the block that holds it; the consumer frees one when it     *)
(* releases it.  Nothing else changes them.                                *)
(***************************************************************************)
RingCells ==
  {c \in Ring \X Nat : c[2] \in 0 .. block[c[1]].size - 1 /\ Occupied(block[c[1]], c[2])}

LEMMA RingCellIs ==
  ASSUME BlocksInv, NEW b, NEW i
  PROVE  <<b, i>> \in RingCells
           <=> b \in Ring /\ i \in 0 .. block[b].size - 1 /\ Occupied(block[b], i)
<1>1. \A c \in Ring : block[c].size \in Nat
  <2>1. Ring \subseteq Blocks
    BY DEF Ring, Blocks, BlocksInv
  <2> QED
    BY <2>1, BlockFacts
<1>2. b \in Ring /\ i \in 0 .. block[b].size - 1 => i \in Nat
  BY <1>1
<1> QED
  BY <1>2 DEF RingCells

LEMMA RingCellsAreUsed ==
  ASSUME BlocksInv, RingInv
  PROVE  /\ RingCells \subseteq UsedCells /\ IsFiniteSet(RingCells)
         /\ producer # "link" => RingCells = UsedCells
<1>1. Ring \subseteq Blocks /\ (producer # "link" => Ring = Blocks)
  BY PlaceFacts DEF Ring
<1>2. RingCells \subseteq UsedCells
  <2> SUFFICES ASSUME NEW c \in RingCells
               PROVE  c \in UsedCells
    OBVIOUS
  <2>1. c = <<c[1], c[2]>> /\ c[1] \in Ring /\ c[2] \in 0 .. block[c[1]].size - 1
        /\ Occupied(block[c[1]], c[2])
    BY DEF RingCells
  <2> QED
    BY <1>1, <2>1, CellIsUsed
<1>3. ASSUME producer # "link"
      PROVE  UsedCells \subseteq RingCells
  <2> SUFFICES ASSUME NEW c \in UsedCells
               PROVE  c \in RingCells
    OBVIOUS
  <2>1. PICK b \in Blocks : \E i \in 0 .. block[b].size - 1 : c = <<b, i>>
    BY UsedArePairs
  <2>2. PICK i \in 0 .. block[b].size - 1 : c = <<b, i>>
    BY <2>1
  <2> QED
    BY <1>1, <1>3, <2>1, <2>2, CellIsUsed, RingCellIs
<1> QED
  BY <1>2, <1>3, UsedIsFinite, FS_Subset

\* The cells of blocks whose indices have not changed.
LEMMA SameRingCells ==
  ASSUME Ring' = Ring,
         \A b \in Ring : /\ block'[b].front = block[b].front
                         /\ block'[b].tail = block[b].tail
                         /\ block'[b].size = block[b].size
  PROVE  RingCells' = RingCells
BY Zenon DEF RingCells, Occupied

LEMMA ConsumerRingCells ==
  ASSUME QueueInv, Consumer
  PROVE  /\ Ring' = Ring
         /\ consumer # "release" => RingCells' = RingCells
         /\ consumer = "release" =>
              /\ consumer' = "idle"
              /\ <<frontBlock, FrontIndex>> \in RingCells
              /\ RingCells' = RingCells \ {<<frontBlock, FrontIndex>>}
<1> USE DEF QueueInv
<1>1. /\ Ring' = Ring /\ Ring \subseteq Blocks /\ frontBlock \in Ring
      /\ \A b \in Ring : block'[b].tail = block[b].tail /\ block'[b].size = block[b].size
  BY ConsumerMoves, PlaceFacts DEF Ring, Blocks, producerVars, RingInv
<1>2. CASE consumer # "release"
  <2>1. \A b \in Ring : block'[b].front = block[b].front
    BY <1>1, <1>2, ConsumerMoves
  <2> QED
    BY <1>1, <1>2, <2>1, SameRingCells
<1>3. CASE consumer = "release"
  <2>1. Release
    BY <1>3 DEF Consumer, Dequeue, ReloadTail, LoadTail, CheckTail, CheckAgain, ReadNext, PeekNext,
       LookAhead, AdvanceFront, Take, Pop, Peek, Consumes
  <2>2. PICK f, t, n : /\ f = block[frontBlock].front /\ t = block[frontBlock].tail
                       /\ n = block[frontBlock].size
    OBVIOUS
  <2>3. /\ block' = [block EXCEPT ![frontBlock].front = After(frontBlock, @)]
        /\ f # block[frontBlock].localTail /\ consumer' = "idle"
    BY <1>3, <2>1, <2>2 DEF Release, Consumes, ConsumerInv, FrontIndex
  <2>4. /\ block'[frontBlock].front = Succ(f, n) /\ f # t
        /\ \A b \in Ring : b # frontBlock => block'[b].front = block[b].front
    BY <1>1, <2>2, <2>3, FrontMoved
  <2>5. n \in Nat /\ f \in 0 .. n - 1 /\ t \in 0 .. n - 1
    BY <1>1, <2>2, BlockFacts DEF IndexOK
  <2>6. <<frontBlock, f>> \in RingCells
    <3>1. Occupied(block[frontBlock], f)
      BY <2>2, <2>4, <2>5 DEF Occupied, Dist
    <3> QED
      BY <1>1, <2>2, <2>5, <3>1, RingCellIs
  <2>7. ASSUME NEW b \in Ring, NEW i \in 0 .. block[b].size - 1
        PROVE  Occupied(block'[b], i)
                 <=> Occupied(block[b], i) /\ ~(b = frontBlock /\ i = f)
    <3>1. CASE b # frontBlock
      BY <1>1, <2>4, <3>1 DEF Occupied
    <3>2. CASE b = frontBlock
      BY <1>1, <2>2, <2>4, <2>5, <3>2, OneLess DEF Occupied
    <3> QED
      BY <3>1, <3>2
  <2>8. RingCells' = RingCells \ {<<frontBlock, f>>}
    BY <1>1, <2>7 DEF RingCells
  <2> QED
    BY <1>1, <1>3, <2>2, <2>3, <2>6, <2>8 DEF FrontIndex
<1> QED
  BY <1>2, <1>3

LEMMA CellAdded ==
  ASSUME QueueInv, NEW b \in Ring, Ring' = Ring,
         Succ(block[b].tail, block[b].size) # block[b].front,
         block'[b].tail = Succ(block[b].tail, block[b].size),
         \A c \in Ring : /\ block'[c].front = block[c].front /\ block'[c].size = block[c].size
                         /\ c # b => block'[c].tail = block[c].tail
  PROVE  \E x : x \notin RingCells /\ RingCells' = RingCells \cup {x}
<1> USE DEF QueueInv
<1>1. PICK f, t, n : f = block[b].front /\ t = block[b].tail /\ n = block[b].size
  OBVIOUS
<1>2. n \in Nat /\ f \in 0 .. n - 1 /\ t \in 0 .. n - 1
  BY <1>1, PlaceFacts, BlockFacts DEF IndexOK
<1>3. <<b, t>> \notin RingCells
  <2>1. ~Occupied(block[b], t)
    BY <1>1, <1>2 DEF Occupied, Dist
  <2> QED
    BY <2>1, RingCellIs
<1>4. ASSUME NEW c \in Ring, NEW i \in 0 .. block[c].size - 1
      PROVE  Occupied(block'[c], i) <=> Occupied(block[c], i) \/ (c = b /\ i = t)
  <2>1. CASE c # b
    BY <2>1 DEF Occupied
  <2>2. CASE c = b
    BY <1>1, <1>2, <2>2, OneMore DEF Occupied
  <2> QED
    BY <2>1, <2>2
<1>5. RingCells' = RingCells \cup {<<b, t>>}
  <2>1. t \in Nat
    BY <1>2
  <2> QED
    BY <1>1, <1>2, <1>4, <2>1 DEF RingCells
<1> QED
  BY <1>3, <1>5

LEMMA LinkAdds ==
  ASSUME QueueInv, PendingInv, Link
  PROVE  /\ producer' = "advance" /\ Ring' = Ring \cup {Len(block)} /\ Len(block) \notin Ring
         /\ Len(block) \in Nat /\ tailBlock \in Ring /\ Following \in Ring
         /\ block'[tailBlock].next = Len(block) /\ block'[Len(block)].next = Following
         /\ \A b \in Ring : b # tailBlock => block'[b].next = block[b].next
         /\ \E x : x \notin RingCells /\ RingCells' = RingCells \cup {x}
<1> USE DEF QueueInv
<1> DEFINE n == Len(block)
           r == [block[tailBlock] EXCEPT !.next = n]
<1>1. /\ producer = "link" /\ producer' = "advance" /\ n \in Nat /\ n > 1
      /\ block[n].next = Following /\ tailBlock \in Ring /\ Following \in Ring
      /\ Ring = 1 .. n - 1 /\ OnlyHolds(n) /\ block' = [block EXCEPT ![tailBlock] = r]
  BY PlaceFacts DEF Link, Produces, ProducerInv, RingInv, BlocksInv, Ring, PendingInv
<1>2. tailBlock \in Blocks /\ block[tailBlock] \in BlockSet /\ block \in Seq(BlockSet)
      /\ Blocks = 1 .. n
  BY PlaceFacts, BlockFacts DEF BlocksInv, Blocks
<1>3. /\ r \in BlockSet /\ r.next = n /\ r.front = block[tailBlock].front
      /\ r.tail = block[tailBlock].tail /\ r.size = block[tailBlock].size
  BY <1>1, <1>2 DEF BlockSet
<1> HIDE DEF r
<1>4. /\ Len(block') = n /\ block'[tailBlock] = r
      /\ \A b \in Blocks : b # tailBlock => block'[b] = block[b]
  BY <1>1, <1>2, <1>3, BlockReplaced
<1> HIDE DEF n
<1>5. Ring' = Ring \cup {n} /\ n \notin Ring /\ n \in Blocks /\ n # tailBlock
      /\ Ring \subseteq Blocks
  <2>1. Ring' = 1 .. n
    BY <1>1, <1>4 DEF Ring, Blocks
  <2> QED
    BY <1>1, <1>2, <2>1
<1>6. /\ block'[tailBlock].next = n /\ block'[n].next = Following
      /\ \A b \in Ring : b # tailBlock => block'[b].next = block[b].next
      /\ \A b \in Ring' : /\ block'[b].front = block[b].front /\ block'[b].tail = block[b].tail
                          /\ block'[b].size = block[b].size
  BY <1>1, <1>3, <1>4, <1>5
<1>7. \E x : x \notin RingCells /\ RingCells' = RingCells \cup {x}
  <2>1. PICK f, s : f = block[n].front /\ s = block[n].size
    OBVIOUS
  <2>2. s \in Nat /\ s >= 2 /\ f \in 0 .. s - 1 /\ block[n].tail = Succ(f, s)
    BY <1>1, <1>5, <2>1, BlockFacts DEF IndexOK, OnlyHolds
  <2>3. \A i \in 0 .. s - 1 : Occupied(block[n], i) <=> i = f
    BY <2>1, <2>2 DEF Occupied, Dist, Succ
  <2>4. <<n, f>> \notin RingCells
    BY <1>5, RingCellIs
  <2>5. \A b \in Ring' : \A i : Occupied(block'[b], i) <=> Occupied(block[b], i)
    BY <1>6 DEF Occupied
  <2>6. f \in Nat
    BY <2>2
  <2>7. RingCells' = RingCells \cup {<<n, f>>}
    BY <1>5, <1>6, <2>1, <2>2, <2>3, <2>5, <2>6 DEF RingCells
  <2> QED
    BY <2>4, <2>7
<1> QED
  BY <1>1, <1>5, <1>6, <1>7 DEF n

LEMMA ProducerRingCells ==
  ASSUME QueueInv, PendingInv, Producer
  PROVE  /\ producer = "publish" \/ producer' = "advance" =>
              \E x : x \notin RingCells /\ RingCells' = RingCells \cup {x}
         /\ ~(producer = "publish" \/ producer' = "advance") => RingCells' = RingCells
<1> USE DEF QueueInv
<1>1. CASE producer = "link"
  <2>1. Link
    BY <1>1 DEF Producer, Produces, Enqueue, ReloadFront, Write, Publish, CheckFollowing,
       UseFollowing, WriteAhead, PublishAhead, Allocate, FailToAllocate, AdvanceTail
  <2> QED
    BY <2>1, LinkAdds
<1>2. CASE producer # "link"
  <2>1. Ring' = Ring /\ Ring \subseteq Blocks /\ tailBlock \in Ring /\ Following \in Ring
    BY <1>2, RingSame, PlaceFacts DEF Next, RingInv
  <2>2. \A b \in Ring : block'[b].front = block[b].front /\ block'[b].size = block[b].size
    BY <2>1, ProducerMoves
  <2>3. CASE producer = "publish"
    <3>1. /\ PublishCell(tailBlock)
          /\ Succ(block[tailBlock].tail, block[tailBlock].size) # block[tailBlock].localFront
      BY <2>3 DEF ProducerInv, Producer, Produces, Enqueue, ReloadFront, Write, Publish,
         CheckFollowing, UseFollowing, WriteAhead, PublishAhead, Allocate, FailToAllocate, Link,
         AdvanceTail
    <3>2. /\ block'[tailBlock].tail = Succ(block[tailBlock].tail, block[tailBlock].size)
          /\ Succ(block[tailBlock].tail, block[tailBlock].size) # block[tailBlock].front
          /\ \A b \in Ring : b # tailBlock => block'[b].tail = block[b].tail
      BY <2>1, <3>1, TailMoved
    <3> QED
      BY <2>1, <2>2, <2>3, <3>2, CellAdded
  <2>4. CASE producer' = "advance"
    <3>1. /\ PublishCell(Following) /\ producer = "publishAhead"
      BY <1>2, <2>4 DEF Producer, Produces, Enqueue, ReloadFront, Write, Publish,
         CheckFollowing, UseFollowing, WriteAhead, PublishAhead, Allocate, FailToAllocate, Link,
         AdvanceTail
    <3>2. Succ(block[Following].tail, block[Following].size) # block[Following].localFront
      BY <2>1, <3>1, BlockFacts DEF IndexOK, Succ, ProducerInv
    <3>3. /\ block'[Following].tail = Succ(block[Following].tail, block[Following].size)
          /\ Succ(block[Following].tail, block[Following].size) # block[Following].front
          /\ \A b \in Ring : b # Following => block'[b].tail = block[b].tail
      BY <2>1, <3>1, <3>2, TailMoved
    <3> QED
      BY <2>1, <2>2, <2>4, <3>3, CellAdded
  <2>5. CASE ~(producer = "publish" \/ producer' = "advance")
    <3>1. \A b \in Ring : block'[b].tail = block[b].tail
      BY <2>1, <2>5, ProducerMoves
    <3> QED
      BY <2>1, <2>2, <2>5, <3>1, SameRingCells
  <2> QED
    BY <2>3, <2>4, <2>5
<1> QED
  BY <1>1, <1>2

(***************************************************************************)
(* As many cells are in use on the ring as elements are held, one more     *)
(* while the consumer has emptied a cell and not released it, and one more *)
(* while the producer has filled a block that tailBlock has yet to move to.*)
(***************************************************************************)
CountInv ==
  Cardinality(RingCells) = Len(held) + (IF consumer = "release" THEN 1 ELSE 0)
                                     + (IF producer = "advance" THEN 1 ELSE 0)

LEMMA HeldIsSeq ==
  ASSUME OrderInv
  PROVE  held \in Seq(Elements) /\ Len(held) \in Nat
<1>1. held \in Seq(Elements)
  BY DEF OrderInv, InOrder, Numbered, HeldIs
<1> QED
  BY <1>1

LEMMA ProducerCounts ==
  ASSUME OrderInv, CountInv, Producer, Remember
  PROVE  CountInv'
<1>1. /\ QueueInv /\ PendingInv /\ consumer' = consumer /\ ~MovedOut
      /\ Len(held) \in Nat /\ held \in Seq(Elements)
  BY ProducerMoves, HeldIsSeq DEF OrderInv, MovedOut
<1>2. IsFiniteSet(RingCells)
  BY <1>1, RingCellsAreUsed DEF QueueInv
<1>3. /\ producer = "publish" => producer' = "idle"
      /\ producer = "advance" => producer' = "idle"
      /\ producer' = "advance" => producer \notin {"publish", "advance"}
  BY DEF Producer, Produces, Enqueue, ReloadFront, Write, Publish, CheckFollowing,
     UseFollowing, WriteAhead, PublishAhead, Allocate, FailToAllocate, Link, AdvanceTail
<1>4. /\ Published => Len(held') = Len(held) + 1
      /\ ~Published => held' = held
  <2>1. Published => Len(Append(held, element)) = Len(held) + 1
    BY <1>1, PublishedHeld
  <2> QED
    BY <1>1, <2>1 DEF Remember
<1>5. CASE producer = "publish" \/ producer' = "advance"
  <2>1. PICK x : x \notin RingCells /\ RingCells' = RingCells \cup {x}
    BY <1>1, <1>5, ProducerRingCells
  <2>2. Cardinality(RingCells') = Cardinality(RingCells) + 1
    BY <1>2, <2>1, FS_AddElement
  <2>3. CASE producer = "publish"
    <3>1. Published /\ producer' = "idle"
      BY <1>3, <2>3 DEF Published
    <3> QED
      BY <1>1, <1>4, <2>2, <2>3, <3>1 DEF CountInv
  <2>4. CASE producer' = "advance"
    <3>1. ~Published /\ producer # "advance"
      BY <1>3, <2>4 DEF Published
    <3> QED
      BY <1>1, <1>4, <2>2, <2>4, <3>1 DEF CountInv
  <2> QED
    BY <1>5, <2>3, <2>4
<1>6. CASE ~(producer = "publish" \/ producer' = "advance")
  <2>1. RingCells' = RingCells
    BY <1>1, <1>6, ProducerRingCells
  <2>2. CASE producer = "advance"
    <3>1. Published
      BY <1>3, <2>2 DEF Published
    <3> QED
      BY <1>1, <1>4, <1>6, <2>1, <2>2, <3>1 DEF CountInv
  <2>3. CASE producer # "advance"
    <3>1. ~Published
      BY <1>6, <2>3 DEF Published
    <3> QED
      BY <1>1, <1>4, <1>6, <2>1, <2>3, <3>1 DEF CountInv
  <2> QED
    BY <2>2, <2>3
<1> QED
  BY <1>5, <1>6

LEMMA ConsumerCounts ==
  ASSUME OrderInv, CountInv, Consumer, Remember
  PROVE  CountInv'
<1>1. /\ QueueInv /\ UNCHANGED producerVars /\ producer' = producer
      /\ Len(held) \in Nat /\ held \in Seq(Elements)
  BY ConsumerMoves, HeldIsSeq DEF OrderInv, producerVars
<1>2. IsFiniteSet(RingCells)
  BY <1>1, RingCellsAreUsed DEF QueueInv
<1>3. (~MovedOut => held' = held) /\ (MovedOut => held' = Tail(held))
  BY <1>1, ConsumerFrame
<1>4. consumer' = "release" => consumer = "take"
  BY DEF Consumer, Dequeue, ReloadTail, LoadTail, CheckTail, CheckAgain, ReadNext, PeekNext,
     LookAhead, AdvanceFront, Take, Pop, Peek, Release, Consumes
<1>5. CASE consumer = "release"
  <2>1. PICK x : x \in RingCells /\ RingCells' = RingCells \ {x} /\ consumer' = "idle"
    BY <1>1, <1>5, ConsumerRingCells
  <2>2. Cardinality(RingCells') = Cardinality(RingCells) - 1
    BY <1>2, <2>1, FS_RemoveElement
  <2>3. held' = held
    BY <1>3, <1>5 DEF MovedOut
  <2> QED
    BY <1>1, <1>5, <2>1, <2>2, <2>3 DEF CountInv
<1>6. CASE consumer # "release"
  <2>1. RingCells' = RingCells
    BY <1>1, <1>6, ConsumerRingCells
  <2>2. CASE MovedOut
    <3>1. consumer = "take" /\ consumer' = "release" /\ held # <<>>
      BY <2>2, FrontIsOldest DEF MovedOut
    <3>2. Len(held') = Len(held) - 1
      BY <1>1, <1>3, <2>2, <3>1
    <3> QED
      BY <1>1, <2>1, <3>1, <3>2 DEF CountInv
  <2>3. CASE ~MovedOut
    <3>1. held' = held /\ consumer' # "release"
      BY <1>3, <1>4, <2>3 DEF MovedOut
    <3> QED
      BY <1>1, <1>6, <2>1, <3>1 DEF CountInv
  <2> QED
    BY <2>2, <2>3
<1> QED
  BY <1>5, <1>6

LEMMA StepCount ==
  ASSUME OrderInv, CountInv, [OrderNext]_orderVars
  PROVE  CountInv'
<1>1. CASE OrderNext
  BY <1>1, ProducerCounts, ConsumerCounts DEF OrderNext, Next
<1>2. CASE UNCHANGED orderVars
  BY <1>2 DEF orderVars, vars, producerVars, consumerVars, CountInv, RingCells, Ring, Blocks,
     Occupied
<1> QED
  BY <1>1, <1>2

LEMMA InitCount == OrderInit => CountInv
<1> SUFFICES ASSUME OrderInit
             PROVE  CountInv
  OBVIOUS
<1>1. Init /\ held = <<>>
  BY DEF OrderInit
<1>2. QueueInv /\ producer = "idle" /\ consumer = "idle"
  BY <1>1, InitQueue DEF Init
<1>3. \A b \in Blocks : block[b].front = 0 /\ block[b].tail = 0
  <2>1. /\ block = [b \in 1 .. InitialBlockCount |->
                      NewBlock(InitialBlockSize, (b % InitialBlockCount) + 1)]
        /\ InitialBlockCount \in Nat
    BY <1>1, InitialSizes DEF Init
  <2>2. Blocks = 1 .. InitialBlockCount
    BY <2>1 DEF Blocks
  <2> QED
    BY <2>1, <2>2 DEF NewBlock
<1>4. \A b \in Ring : \A i \in 0 .. block[b].size - 1 : ~Occupied(block[b], i)
  <2> SUFFICES ASSUME NEW b \in Ring, NEW i \in 0 .. block[b].size - 1
               PROVE  ~Occupied(block[b], i)
    OBVIOUS
  <2>1. block[b].front = 0 /\ block[b].tail = 0 /\ block[b].size \in Nat
    BY <1>2, <1>3, PlaceFacts, BlockFacts DEF QueueInv
  <2> QED
    BY <2>1 DEF Occupied, Dist
<1>5. RingCells = {}
  BY <1>4 DEF RingCells
<1>6. Cardinality(RingCells) = 0 /\ Len(held) = 0
  BY <1>1, <1>5, FS_EmptySet
<1> QED
  BY <1>2, <1>6 DEF CountInv

-----------------------------------------------------------------------------
(***************************************************************************)
(* The walk of size_approx().  The blocks it has passed lead to the one it *)
(* is at, or back among themselves; a block that is linked in behind the   *)
(* walk counts as passed.                                                  *)
(***************************************************************************)
WalkIs(passed) ==
  /\ sizeBlock \in Ring /\ sizeStart \in Ring /\ passed \subseteq Ring
  /\ sizeStep = "return" => sizeBlock = sizeStart /\ sizeStart \in passed
  /\ sizeStep # "return" => sizeBlock \notin passed
  /\ sizeBlock = sizeStart \/ sizeStart \in passed
  /\ \A b \in passed : block[b].next \in passed \cup {sizeBlock}
  /\ \A b \in passed \cup {sizeBlock} : b = sizeStart \/ \E a \in passed : block[a].next = b

\* The blocks whose cells have been added up.
Looked(passed) == IF sizeStep = "next" THEN passed \cup {sizeBlock} ELSE passed

\* The cells between the front that was read and tail.
Seen == {sizeBlock} \X Span(blockFront, block[sizeBlock].tail, block[sizeBlock].size)

(***************************************************************************)
(* cells are the cells in use at the call, of which the other thread only  *)
(* frees some if the producer walks, and to which it only adds if the      *)
(* consumer does.  Those counted are never too many, and of the blocks     *)
(* looked at never too few.                                                *)
(***************************************************************************)
AtLeast(cells) == IF sizing = "producer" THEN RingCells ELSE cells
AtMost(cells) == IF sizing = "producer" THEN cells ELSE RingCells

CountIs(passed, cells, counted) ==
  /\ IsFiniteSet(cells) /\ Cardinality(cells) = sizeAtCall
  /\ IsFiniteSet(counted) /\ Cardinality(counted) = size
  /\ AtLeast(cells) \subseteq AtMost(cells) /\ counted \subseteq AtMost(cells)
  /\ \A c \in counted : c[1] \in Looked(passed)
  /\ \A c \in AtLeast(cells) : c[1] \in Looked(passed) => c \in counted

\* What is known of the block at hand while only its front has been read.
FrontIs(cells) ==
  /\ sizing = "consumer" => blockFront = block[sizeBlock].front
  /\ sizing = "producer" =>
       /\ blockFront \in 0 .. block[sizeBlock].size - 1
       /\ Seen \subseteq cells
       /\ \A c \in RingCells : c[1] = sizeBlock => c \in Seen

CallerInv ==
  /\ sizing \in {"nobody", "producer", "consumer"}
  /\ sizeStep \in {"front", "tail", "next", "return"}
  /\ sizing = "nobody" => sizeStep = "front" /\ size = 0
  /\ sizing = "producer" => producer = "idle"
  /\ sizing = "consumer" => consumer = "idle"

WalkingInv(passed, cells, counted) ==
  /\ WalkIs(passed)
  /\ CountIs(passed, cells, counted)
  /\ sizeStep = "tail" => FrontIs(cells)

SizeInv ==
  /\ CallerInv
  /\ sizing # "nobody" => \E passed, cells, counted : WalkingInv(passed, cells, counted)

-----------------------------------------------------------------------------
(***************************************************************************)
(* The call: if the consumer makes it, there are as many cells in use as   *)
(* elements, or more.                                                      *)
(***************************************************************************)
LEMMA CellsAtCall ==
  ASSUME OrderInv, OneCycle, CountInv, NEW thread \in {"producer", "consumer"}, CallSize(thread)
  PROVE  \E cells : /\ IsFiniteSet(cells) /\ Cardinality(cells) = sizeAtCall'
                    /\ cells \subseteq RingCells
                    /\ thread = "producer" => cells = RingCells
<1>1. QueueInv /\ RingInv /\ BlocksInv /\ Len(held) \in Nat
  BY HeldIsSeq DEF OrderInv, QueueInv
<1>2. IsFiniteSet(RingCells) /\ (producer # "link" => RingCells = UsedCells)
  BY <1>1, RingCellsAreUsed
<1>3. CASE thread = "producer"
  <2>1. sizeAtCall' = Cardinality(RingCells)
    BY <1>2, <1>3 DEF CallSize, CellsInUse
  <2> QED
    BY <1>2, <2>1
<1>4. CASE thread = "consumer"
  <2>1. sizeAtCall' = Len(held) /\ consumer = "idle"
    BY <1>4, ContentsAreHeld DEF CallSize
  <2>2. Cardinality(RingCells) = Len(held) + (IF producer = "advance" THEN 1 ELSE 0)
    BY <1>1, <2>1 DEF CountInv
  <2>3. CASE producer # "advance"
    BY <1>1, <1>2, <1>4, <2>1, <2>2, <2>3
  <2>4. CASE producer = "advance"
    <3>1. Cardinality(RingCells) = Len(held) + 1
      BY <2>2, <2>4
    <3>2. RingCells # {}
      BY <1>1, <3>1, FS_EmptySet
    <3>3. PICK x : x \in RingCells
      BY <3>2
    <3>4. IsFiniteSet(RingCells \ {x}) /\ Cardinality(RingCells \ {x}) = Cardinality(RingCells) - 1
      BY <1>2, <3>3, FS_RemoveElement
    <3>5. Cardinality(RingCells \ {x}) = sizeAtCall'
      BY <1>1, <2>1, <3>1, <3>4
    <3> QED
      BY <1>4, <3>4, <3>5
  <2> QED
    BY <2>3, <2>4
<1> QED
  BY <1>3, <1>4

LEMMA CallSizeStep ==
  ASSUME OrderInv, OneCycle, CountInv, SizeInv, NEW thread \in {"producer", "consumer"},
         CallSize(thread)
  PROVE  SizeInv'
<1>1. /\ sizing = "nobody" /\ sizing' = thread /\ sizeStep' = "front"
      /\ sizeStart' = frontBlock /\ sizeBlock' = frontBlock
      /\ size' = 0 /\ UNCHANGED <<block, producer, consumer>>
      /\ thread = "producer" => producer = "idle"
      /\ thread = "consumer" => consumer = "idle"
  BY DEF CallSize, SizeInv, CallerInv, orderVars, vars, producerVars, consumerVars
<1>2. PICK cells : /\ IsFiniteSet(cells) /\ Cardinality(cells) = sizeAtCall'
                   /\ cells \subseteq RingCells
                   /\ thread = "producer" => cells = RingCells
  BY CellsAtCall
<1>3. frontBlock \in Ring /\ Ring' = Ring /\ RingCells' = RingCells
  BY <1>1 DEF OrderInv, QueueInv, RingInv, Ring, Blocks, RingCells, Occupied
<1>4. WalkIs({})'
  BY <1>1, <1>3 DEF WalkIs
<1>5. CountIs({}, cells, {})'
  <2>1. IsFiniteSet({}) /\ Cardinality({}) = 0
    BY FS_EmptySet
  <2>2. Looked({})' = {}
    BY <1>1 DEF Looked
  <2>3. AtLeast(cells)' \subseteq AtMost(cells)'
    BY <1>1, <1>2, <1>3 DEF AtLeast, AtMost
  <2> QED
    BY <1>1, <1>2, <2>1, <2>2, <2>3 DEF CountIs
<1>6. WalkingInv({}, cells, {})'
  BY <1>1, <1>4, <1>5 DEF WalkingInv
<1>7. CallerInv'
  BY <1>1 DEF CallerInv
<1> QED
  BY <1>6, <1>7 DEF SizeInv

-----------------------------------------------------------------------------
(***************************************************************************)
(* The steps of the walk.                                                  *)
(***************************************************************************)
LEMMA WalkFrame ==
  ASSUME UNCHANGED orderVars
  PROVE  /\ Ring' = Ring /\ RingCells' = RingCells /\ UNCHANGED <<block, producer, consumer>>
BY DEF orderVars, vars, producerVars, consumerVars, Ring, Blocks, RingCells, Occupied

\* The indices of the block at hand.
LEMMA AtHand ==
  ASSUME QueueInv, sizeBlock \in Ring
  PROVE  /\ sizeBlock \in Blocks /\ block[sizeBlock].size \in Nat
         /\ block[sizeBlock].front \in 0 .. block[sizeBlock].size - 1
         /\ block[sizeBlock].tail \in 0 .. block[sizeBlock].size - 1
<1>1. sizeBlock \in Blocks
  BY PlaceFacts DEF QueueInv
<1> QED
  BY <1>1, BlockFacts DEF QueueInv, IndexOK

\* The cells in use of the block at hand are those between its front and tail.
LEMMA SeenIsInUse ==
  ASSUME QueueInv, sizeBlock \in Ring, blockFront = block[sizeBlock].front
  PROVE  /\ Seen \subseteq RingCells
         /\ \A c \in RingCells : c[1] = sizeBlock => c \in Seen
<1>1. /\ block[sizeBlock].size \in Nat
      /\ \A i \in 0 .. block[sizeBlock].size - 1 :
           i \in Span(blockFront, block[sizeBlock].tail, block[sizeBlock].size)
             <=> Occupied(block[sizeBlock], i)
  BY AtHand DEF Span, Occupied
<1>2. Span(blockFront, block[sizeBlock].tail, block[sizeBlock].size)
        \subseteq 0 .. block[sizeBlock].size - 1
  BY DEF Span
<1>3. Seen \subseteq RingCells
  BY <1>1, <1>2 DEF Seen, RingCells
<1>4. ASSUME NEW c \in RingCells, c[1] = sizeBlock
      PROVE  c \in Seen
  <2>1. c = <<c[1], c[2]>> /\ c[2] \in 0 .. block[sizeBlock].size - 1
        /\ Occupied(block[sizeBlock], c[2])
    BY <1>4 DEF RingCells
  <2>2. c[2] \in Span(blockFront, block[sizeBlock].tail, block[sizeBlock].size)
    BY <1>1, <2>1
  <2> QED
    BY <1>4, <2>1, <2>2 DEF Seen
<1> QED
  BY <1>3, <1>4

LEMMA LoadBlockFrontStep ==
  ASSUME OrderInv, SizeInv, LoadBlockFront
  PROVE  SizeInv'
<1>1. /\ sizing # "nobody" /\ sizeStep = "front" /\ sizeStep' = "tail"
      /\ blockFront' = block[sizeBlock].front
      /\ UNCHANGED <<sizing, sizeStart, sizeBlock, size, sizeAtCall>>
      /\ Ring' = Ring /\ RingCells' = RingCells /\ UNCHANGED <<block, producer, consumer>>
  BY WalkFrame DEF LoadBlockFront
<1>2. PICK passed, cells, counted : WalkingInv(passed, cells, counted)
  BY <1>1 DEF SizeInv
<1>3. sizeBlock \in Ring /\ QueueInv
  BY <1>2 DEF WalkingInv, WalkIs, OrderInv
<1>4. WalkIs(passed)'
  BY <1>1, <1>2 DEF WalkingInv, WalkIs
<1>5. CountIs(passed, cells, counted)'
  <2>1. Looked(passed)' = Looked(passed)
    BY <1>1 DEF Looked
  <2> QED
    BY <1>1, <1>2, <2>1 DEF WalkingInv, CountIs, AtLeast, AtMost
<1>6. FrontIs(cells)'
  <2>1. blockFront' = block[sizeBlock].front /\ block' = block /\ sizeBlock' = sizeBlock
    BY <1>1
  <2>2. block[sizeBlock].front \in 0 .. block[sizeBlock].size - 1
    BY <1>3, AtHand
  <2>3. \A i \in 0 .. block[sizeBlock].size - 1 :
          i \in Span(block[sizeBlock].front, block[sizeBlock].tail, block[sizeBlock].size)
            <=> Occupied(block[sizeBlock], i)
    BY DEF Span, Occupied
  <2>4. Seen' = {sizeBlock} \X Span(block[sizeBlock].front, block[sizeBlock].tail,
                                    block[sizeBlock].size)
    BY <2>1 DEF Seen
  <2>5. Seen' \subseteq RingCells
    <3>1. Span(block[sizeBlock].front, block[sizeBlock].tail, block[sizeBlock].size)
            \subseteq 0 .. block[sizeBlock].size - 1
      BY DEF Span
    <3>2. block[sizeBlock].size \in Nat
      BY <1>3, AtHand
    <3> QED
      BY <1>3, <2>3, <2>4, <3>1, <3>2 DEF RingCells
  <2>6. ASSUME NEW c \in RingCells, c[1] = sizeBlock
        PROVE  c \in Seen'
    <3>1. c = <<c[1], c[2]>> /\ c[2] \in 0 .. block[sizeBlock].size - 1
          /\ Occupied(block[sizeBlock], c[2])
      BY <2>6 DEF RingCells
    <3> QED
      BY <2>3, <2>4, <2>6, <3>1
  <2>7. sizing = "producer" => RingCells \subseteq cells
    BY <1>2 DEF WalkingInv, CountIs, AtLeast, AtMost
  <2> QED
    BY <1>1, <2>2, <2>5, <2>6, <2>7 DEF FrontIs
<1>7. CallerInv'
  BY <1>1 DEF SizeInv, CallerInv
<1>8. WalkingInv(passed, cells, counted)'
  BY <1>4, <1>5, <1>6 DEF WalkingInv
<1> QED
  BY <1>7, <1>8 DEF SizeInv

\* The block at hand is counted: by its number of cells, which it has not been before.
LEMMA LoadBlockTailStep ==
  ASSUME OrderInv, SizeInv, LoadBlockTail
  PROVE  SizeInv'
<1>1. /\ sizing # "nobody" /\ sizeStep = "tail" /\ sizeStep' = "next"
      /\ size' = size + InBlock(block[sizeBlock].tail)
      /\ UNCHANGED <<sizing, sizeStart, sizeBlock, sizeAtCall>>
      /\ Ring' = Ring /\ RingCells' = RingCells /\ UNCHANGED <<block, producer, consumer>>
  BY WalkFrame DEF LoadBlockTail, SizeInv, CallerInv
<1>2. PICK passed, cells, counted : WalkingInv(passed, cells, counted)
  BY <1>1 DEF SizeInv
<1>3. /\ sizeBlock \in Ring /\ QueueInv /\ FrontIs(cells) /\ sizeBlock \notin passed
      /\ CountIs(passed, cells, counted) /\ sizing \in {"producer", "consumer"}
  BY <1>1, <1>2 DEF WalkingInv, WalkIs, OrderInv, SizeInv, CallerInv
<1>4. /\ block[sizeBlock].size \in Nat /\ blockFront \in 0 .. block[sizeBlock].size - 1
      /\ block[sizeBlock].tail \in 0 .. block[sizeBlock].size - 1
  BY <1>3, AtHand DEF FrontIs
<1>5. /\ Seen \subseteq AtMost(cells)
      /\ \A c \in AtLeast(cells) : c[1] = sizeBlock => c \in Seen
  <2>1. CASE sizing = "producer"
    BY <1>3, <2>1 DEF FrontIs, AtLeast, AtMost
  <2>2. CASE sizing = "consumer"
    <3>1. blockFront = block[sizeBlock].front
      BY <1>3, <2>2 DEF FrontIs
    <3>2. AtLeast(cells) = cells /\ AtMost(cells) = RingCells /\ cells \subseteq RingCells
      BY <1>3, <2>2 DEF CountIs, AtLeast, AtMost
    <3> QED
      BY <1>3, <3>1, <3>2, SeenIsInUse
  <2> QED
    BY <1>3, <2>1, <2>2
<1>6. IsFiniteSet(Seen) /\ Cardinality(Seen) = InBlock(block[sizeBlock].tail)
  <2>1. PICK n, f, t : /\ n = block[sizeBlock].size /\ f = blockFront
                       /\ t = block[sizeBlock].tail
    OBVIOUS
  <2>2. n \in Nat /\ f \in 0 .. n - 1 /\ t \in 0 .. n - 1
    BY <1>4, <2>1
  <2>3. IsFiniteSet(Span(f, t, n)) /\ Cardinality(Span(f, t, n)) = Dist(f, t, n)
        /\ Dist(f, t, n) \in Nat
    BY <2>2, SpanIsCounted DEF Dist
  <2>4. IsFiniteSet({sizeBlock}) /\ Cardinality({sizeBlock}) = 1
    BY FS_Singleton
  <2>5. /\ IsFiniteSet({sizeBlock} \X Span(f, t, n))
        /\ Cardinality({sizeBlock} \X Span(f, t, n)) = 1 * Dist(f, t, n)
    BY <2>3, <2>4, FS_Product
  <2>6. InBlock(t) = Dist(f, t, n)
    BY <2>1, <2>2, DistIsModulo DEF InBlock
  <2>7. 1 * Dist(f, t, n) = Dist(f, t, n)
    BY <2>3
  <2> QED
    BY <2>1, <2>5, <2>6, <2>7 DEF Seen
<1>7. counted \cap Seen = {}
  <2>1. \A c \in counted : c[1] # sizeBlock
    BY <1>1, <1>3 DEF CountIs, Looked
  <2>2. \A c \in Seen : c[1] = sizeBlock
    BY DEF Seen
  <2> QED
    BY <2>1, <2>2
<1>8. IsFiniteSet(counted \cup Seen) /\ Cardinality(counted \cup Seen) = size'
  <2>1. IsFiniteSet(counted) /\ Cardinality(counted) = size
    BY <1>3 DEF CountIs
  <2>2. /\ IsFiniteSet(counted \cup Seen)
        /\ Cardinality(counted \cup Seen)
             = Cardinality(counted) + Cardinality(Seen) - Cardinality(counted \cap Seen)
    BY <1>6, <2>1, FS_Union
  <2>3. Cardinality(counted \cap Seen) = 0
    BY <1>7, FS_EmptySet
  <2>4. Cardinality(counted) \in Nat /\ Cardinality(Seen) \in Nat
    BY <1>6, <2>1, FS_CardinalityType
  <2> QED
    BY <1>1, <1>6, <2>1, <2>2, <2>3, <2>4
<1>9. WalkIs(passed)'
  BY <1>1, <1>2 DEF WalkingInv, WalkIs
<1>0. PICK all : all = counted \cup Seen
  OBVIOUS
<1>10. CountIs(passed, cells, all)'
  <2>1. Looked(passed)' = Looked(passed) \cup {sizeBlock} /\ Looked(passed) = passed
    BY <1>1 DEF Looked
  <2>2. AtLeast(cells)' = AtLeast(cells) /\ AtMost(cells)' = AtMost(cells)
    BY <1>1 DEF AtLeast, AtMost
  <2>3. /\ IsFiniteSet(cells) /\ Cardinality(cells) = sizeAtCall
        /\ AtLeast(cells) \subseteq AtMost(cells) /\ counted \subseteq AtMost(cells)
    BY <1>3 DEF CountIs
  <2>4. \A c \in counted \cup Seen : c[1] \in Looked(passed)'
    BY <1>3, <2>1 DEF CountIs, Seen
  <2>5. \A c \in AtLeast(cells) : c[1] \in Looked(passed)' => c \in counted \cup Seen
    BY <1>3, <1>5, <2>1 DEF CountIs
  <2> QED
    BY <1>0, <1>1, <1>5, <1>8, <2>2, <2>3, <2>4, <2>5 DEF CountIs
<1>11. CallerInv'
  BY <1>1, <1>3 DEF SizeInv, CallerInv
<1>12. WalkingInv(passed, cells, all)'
  BY <1>1, <1>9, <1>10 DEF WalkingInv
<1> QED
  BY <1>11, <1>12 DEF SizeInv

\* The walk goes on to a block that it has not passed, because no two blocks have one successor.
LEMMA LoadBlockNextStep ==
  ASSUME OrderInv, SizeInv, LoadBlockNext
  PROVE  SizeInv'
<1> DEFINE z == block[sizeBlock].next
<1>1. /\ sizing # "nobody" /\ sizeStep = "next"
      /\ sizeBlock' = z /\ sizeStep' = (IF z = sizeStart THEN "return" ELSE "front")
      /\ UNCHANGED <<sizing, sizeStart, size, sizeAtCall>>
      /\ Ring' = Ring /\ RingCells' = RingCells /\ UNCHANGED <<block, producer, consumer>>
  BY WalkFrame DEF LoadBlockNext, WalkedAround, SizeInv, CallerInv
<1>2. PICK passed, cells, counted : WalkingInv(passed, cells, counted)
  BY <1>1 DEF SizeInv
<1>0. PICK more : more = passed \cup {sizeBlock}
  OBVIOUS
<1>3. /\ sizeBlock \in Ring /\ sizeStart \in Ring /\ passed \subseteq Ring
      /\ sizeBlock \notin passed
      /\ sizeBlock = sizeStart \/ sizeStart \in passed
      /\ \A b \in passed : block[b].next \in passed \cup {sizeBlock}
      /\ \A b \in passed \cup {sizeBlock} : b = sizeStart \/ \E a \in passed : block[a].next = b
  BY <1>1, <1>2 DEF WalkingInv, WalkIs
<1>4. /\ z \in Ring
      /\ \A a \in passed : block[a].next = z => a = sizeBlock
  BY <1>3 DEF OrderInv, QueueInv, RingInv
<1>5. z # sizeStart => z \notin more
  BY <1>0, <1>3, <1>4
<1>6. WalkIs(more)'
  <2>1. more \subseteq Ring /\ sizeStart \in more
    BY <1>0, <1>3
  <2>2. \A b \in more : block[b].next \in more \cup {z}
    BY <1>0, <1>3
  <2>3. \A b \in more \cup {z} : b = sizeStart \/ \E a \in more : block[a].next = b
    BY <1>0, <1>3
  <2> HIDE DEF z
  <2> QED
    BY <1>1, <1>3, <1>4, <1>5, <2>1, <2>2, <2>3 DEF WalkIs
<1>7. CountIs(more, cells, counted)'
  <2>1. Looked(more)' = more /\ Looked(passed) = more
    BY <1>0, <1>1 DEF Looked
  <2> QED
    BY <1>1, <1>2, <2>1 DEF WalkingInv, CountIs, AtLeast, AtMost
<1>8. WalkingInv(more, cells, counted)'
  BY <1>1, <1>6, <1>7 DEF WalkingInv
<1>9. CallerInv'
  BY <1>1 DEF SizeInv, CallerInv
<1> QED
  BY <1>8, <1>9 DEF SizeInv

LEMMA ReturnSizeStep ==
  ASSUME OrderInv, SizeInv, ReturnSize
  PROVE  SizeInv'
<1>1. sizing' = "nobody" /\ sizeStep' = "front" /\ size' = 0
  BY DEF ReturnSize
<1> QED
  BY <1>1 DEF SizeInv, CallerInv

(***************************************************************************)
(* The producer goes on while the consumer walks: cells are added, and a   *)
(* block that is linked in behind the walk counts as passed.               *)
(***************************************************************************)
LEMMA WalkLinked ==
  ASSUME OrderInv, Link, UNCHANGED walkVars, NEW passed, WalkIs(passed)
  PROVE  \E more : /\ WalkIs(more)' /\ passed \subseteq more
                   /\ \A b \in more : b \in passed \/ b \notin Ring
<1>1. QueueInv /\ PendingInv /\ UNCHANGED <<sizing, sizeStep, sizeStart, sizeBlock>>
  BY DEF OrderInv, walkVars
<1>2. PICK n : n = Len(block)
  OBVIOUS
<1>3. /\ Ring' = Ring \cup {n} /\ n \notin Ring /\ tailBlock \in Ring /\ Following \in Ring
      /\ block'[tailBlock].next = n /\ block'[n].next = Following
      /\ \A b \in Ring : b # tailBlock => block'[b].next = block[b].next
  BY <1>1, <1>2, LinkAdds
<1>4. /\ sizeBlock \in Ring /\ sizeStart \in Ring /\ passed \subseteq Ring
      /\ sizeStep = "return" => sizeBlock = sizeStart /\ sizeStart \in passed
      /\ sizeStep # "return" => sizeBlock \notin passed
      /\ sizeBlock = sizeStart \/ sizeStart \in passed
      /\ \A b \in passed : block[b].next \in passed \cup {sizeBlock}
      /\ \A b \in passed \cup {sizeBlock} : b = sizeStart \/ \E a \in passed : block[a].next = b
  BY DEF WalkIs
<1>5. \A a \in Ring : block[a].next = Following => a = tailBlock
  BY <1>1, <1>3 DEF QueueInv, RingInv, Following
<1>6. CASE tailBlock \in passed
  <2>1. PICK more : more = passed \cup {n}
    OBVIOUS
  <2>2. \A b \in more : block'[b].next \in more \cup {sizeBlock}
    <3> SUFFICES ASSUME NEW b \in more
                 PROVE  block'[b].next \in more \cup {sizeBlock}
      OBVIOUS
    <3>1. CASE b = n
      BY <1>3, <1>4, <1>6, <2>1, <3>1 DEF Following
    <3>2. CASE b = tailBlock
      BY <1>3, <2>1, <3>2
    <3>3. CASE b # n /\ b # tailBlock
      BY <1>3, <1>4, <2>1, <3>3
    <3> QED
      BY <3>1, <3>2, <3>3
  <2>3. \A b \in more \cup {sizeBlock} : b = sizeStart \/ \E a \in more : block'[a].next = b
    <3> SUFFICES ASSUME NEW b \in more \cup {sizeBlock}, b # sizeStart
                 PROVE  \E a \in more : block'[a].next = b
      OBVIOUS
    <3>1. CASE b = n
      BY <1>3, <1>6, <2>1, <3>1
    <3>2. CASE b # n
      <4>1. PICK a \in passed : block[a].next = b
        BY <1>4, <2>1, <3>2
      <4>2. CASE a = tailBlock
        BY <1>3, <2>1, <4>1, <4>2 DEF Following
      <4>3. CASE a # tailBlock
        BY <1>3, <1>4, <2>1, <4>1, <4>3
      <4> QED
        BY <4>2, <4>3
    <3> QED
      BY <3>1, <3>2
  <2>4. WalkIs(more)'
    BY <1>1, <1>3, <1>4, <2>1, <2>2, <2>3 DEF WalkIs
  <2> QED
    BY <1>3, <2>1, <2>4
<1>7. CASE tailBlock \notin passed
  <2>1. \A b \in passed : block'[b].next = block[b].next
    BY <1>3, <1>4, <1>7
  <2>2. WalkIs(passed)'
    BY <1>1, <1>3, <1>4, <2>1 DEF WalkIs
  <2> QED
    BY <2>2
<1> QED
  BY <1>6, <1>7

LEMMA ProducerUnderWalk ==
  ASSUME OrderInv, SizeInv, sizing = "consumer", Producer, UNCHANGED walkVars
  PROVE  SizeInv'
<1>1. /\ QueueInv /\ PendingInv /\ consumer' = consumer /\ RingCells \subseteq RingCells'
      /\ UNCHANGED <<sizing, sizeStep, sizeStart, sizeBlock, blockFront, size, sizeAtCall>>
  BY ProducerMoves, ProducerRingCells DEF OrderInv, walkVars
<1>2. PICK passed, cells, counted : WalkingInv(passed, cells, counted)
  BY DEF SizeInv
<1>3. PICK more : /\ WalkIs(more)' /\ passed \subseteq more
                  /\ \A b \in more : b \in passed \/ b \notin Ring
  <2>1. CASE producer = "link"
    <3>1. Link
      BY <2>1 DEF Producer, Produces, Enqueue, ReloadFront, Write, Publish, CheckFollowing,
         UseFollowing, WriteAhead, PublishAhead, Allocate, FailToAllocate, AdvanceTail
    <3> QED
      BY <1>2, <3>1, WalkLinked DEF WalkingInv
  <2>2. CASE producer # "link"
    <3>1. Ring' = Ring /\ \A b \in Ring : block'[b].next = block[b].next
      BY <1>1, <2>2, RingSame DEF Next
    <3>2. WalkIs(passed)'
      <4>1. passed \subseteq Ring /\ \A b \in passed : block'[b].next = block[b].next
        BY <1>2, <3>1 DEF WalkingInv, WalkIs
      <4> QED
        BY <1>1, <1>2, <3>1, <4>1 DEF WalkingInv, WalkIs
    <3> QED
      BY <3>2
  <2> QED
    BY <2>1, <2>2
<1>4. CountIs(more, cells, counted)'
  <2>1. /\ cells \subseteq RingCells /\ counted \subseteq RingCells
        /\ IsFiniteSet(cells) /\ Cardinality(cells) = sizeAtCall
        /\ IsFiniteSet(counted) /\ Cardinality(counted) = size
        /\ \A c \in counted : c[1] \in Looked(passed)
        /\ \A c \in cells : c[1] \in Looked(passed) => c \in counted
    BY <1>2 DEF WalkingInv, CountIs, AtLeast, AtMost
  <2>2. \A b \in Looked(passed) : b \in Looked(more)'
    BY <1>1, <1>3 DEF Looked
  <2>3. \A b \in Ring : b \in Looked(more)' => b \in Looked(passed)
    BY <1>1, <1>3 DEF Looked
  <2>4. \A c \in RingCells : c[1] \in Ring
    BY DEF RingCells
  <2>5. AtLeast(cells)' = cells /\ AtMost(cells)' = RingCells'
    BY <1>1 DEF AtLeast, AtMost
  <2> QED
    BY <1>1, <2>1, <2>2, <2>3, <2>4, <2>5 DEF CountIs
<1>5. sizeStep = "tail" => FrontIs(cells)'
  <2>1. sizeBlock \in Blocks
    BY <1>1, <1>2, PlaceFacts DEF QueueInv, WalkingInv, WalkIs
  <2>2. block'[sizeBlock].front = block[sizeBlock].front
    BY <1>1, <2>1, ProducerMoves
  <2> QED
    BY <1>1, <1>2, <2>2 DEF WalkingInv, FrontIs
<1>6. WalkingInv(more, cells, counted)'
  BY <1>1, <1>3, <1>4, <1>5 DEF WalkingInv
<1>7. CallerInv'
  BY <1>1 DEF SizeInv, CallerInv
<1> QED
  BY <1>6, <1>7 DEF SizeInv

(***************************************************************************)
(* The consumer goes on while the producer walks: cells are freed.         *)
(***************************************************************************)
LEMMA ConsumerUnderWalk ==
  ASSUME OrderInv, SizeInv, sizing = "producer", Consumer, UNCHANGED walkVars
  PROVE  SizeInv'
<1>1. /\ QueueInv /\ producer' = producer /\ RingCells' \subseteq RingCells /\ Ring' = Ring
      /\ UNCHANGED <<sizing, sizeStep, sizeStart, sizeBlock, blockFront, size, sizeAtCall>>
  BY ConsumerMoves, ConsumerRingCells DEF OrderInv, walkVars, producerVars
<1>2. PICK passed, cells, counted : WalkingInv(passed, cells, counted)
  BY DEF SizeInv
<1>3. \A b \in Ring : /\ block'[b].next = block[b].next /\ block'[b].tail = block[b].tail
                      /\ block'[b].size = block[b].size
  BY <1>1, ConsumerMoves, PlaceFacts DEF QueueInv
<1>4. WalkIs(passed)'
  <2>1. passed \subseteq Ring /\ \A b \in passed : block'[b].next = block[b].next
    BY <1>2, <1>3 DEF WalkingInv, WalkIs
  <2> QED
    BY <1>1, <1>2, <2>1 DEF WalkingInv, WalkIs
<1>5. CountIs(passed, cells, counted)'
  <2>1. Looked(passed)' = Looked(passed)
    BY <1>1 DEF Looked
  <2> QED
    BY <1>1, <1>2, <2>1 DEF WalkingInv, CountIs, AtLeast, AtMost
<1>6. sizeStep = "tail" => FrontIs(cells)'
  <2>1. Seen' = Seen /\ block'[sizeBlock].size = block[sizeBlock].size
    BY <1>1, <1>2, <1>3 DEF WalkingInv, WalkIs, Seen
  <2> QED
    BY <1>1, <1>2, <2>1 DEF WalkingInv, FrontIs
<1>7. WalkingInv(passed, cells, counted)'
  BY <1>1, <1>4, <1>5, <1>6 DEF WalkingInv
<1>8. CallerInv'
  BY <1>1 DEF SizeInv, CallerInv
<1> QED
  BY <1>7, <1>8 DEF SizeInv

\* Nobody walks: the steps of the queue leave the walk where it is not.
LEMMA StepSize ==
  ASSUME OrderInv, OneCycle, CountInv, SizeInv, [SizedNext]_sizeVars
  PROVE  SizeInv'
<1>1. CASE sizing # "producer" /\ Producer /\ Remember /\ UNCHANGED walkVars
  <2>1. CASE sizing = "consumer"
    BY <1>1, <2>1, ProducerUnderWalk
  <2>2. CASE sizing # "consumer"
    BY <1>1, <2>2 DEF SizeInv, CallerInv, walkVars
  <2> QED
    BY <2>1, <2>2
<1>2. CASE sizing # "consumer" /\ Consumer /\ Remember /\ UNCHANGED walkVars
  <2>1. CASE sizing = "producer"
    BY <1>2, <2>1, ConsumerUnderWalk
  <2>2. CASE sizing # "producer"
    BY <1>2, <2>2 DEF SizeInv, CallerInv, walkVars
  <2> QED
    BY <2>1, <2>2
<1>3. CASE \E thread \in {"producer", "consumer"} : CallSize(thread)
  BY <1>3, CallSizeStep
<1>4. CASE Walk
  BY <1>4, LoadBlockFrontStep, LoadBlockTailStep, LoadBlockNextStep, ReturnSizeStep DEF Walk
<1>5. CASE UNCHANGED sizeVars
  <2>1. /\ UNCHANGED <<sizing, sizeStep, sizeStart, sizeBlock, blockFront, size, sizeAtCall>>
        /\ Ring' = Ring /\ RingCells' = RingCells /\ UNCHANGED <<block, producer, consumer>>
    BY <1>5, WalkFrame DEF sizeVars, walkVars
  <2>2. CallerInv'
    BY <2>1 DEF SizeInv, CallerInv
  <2>3. ASSUME NEW passed, NEW cells, NEW counted, WalkingInv(passed, cells, counted)
        PROVE  WalkingInv(passed, cells, counted)'
    <3>1. WalkIs(passed)' /\ Looked(passed)' = Looked(passed)
      BY <2>1, <2>3 DEF WalkingInv, WalkIs, Looked
    <3>2. CountIs(passed, cells, counted)'
      BY <2>1, <2>3, <3>1 DEF WalkingInv, CountIs, AtLeast, AtMost
    <3>3. sizeStep = "tail" => FrontIs(cells)'
      BY <2>1, <2>3 DEF WalkingInv, FrontIs, Seen
    <3> QED
      BY <2>1, <3>1, <3>2, <3>3 DEF WalkingInv
  <2> QED
    BY <2>1, <2>2, <2>3 DEF SizeInv
<1> QED
  BY <1>1, <1>2, <1>3, <1>4, <1>5 DEF SizedNext

(***************************************************************************)
(* Back at its start the walk has passed the whole ring, whatever has been *)
(* linked in meanwhile: the blocks passed lead only to each other.         *)
(***************************************************************************)
LEMMA WalkedAll ==
  ASSUME OneCycle, sizeStep = "return", NEW passed, WalkIs(passed)
  PROVE  passed = Ring /\ Looked(passed) = Ring
<1>1. passed \subseteq Ring /\ passed # {} /\ Closed(passed)
  BY DEF WalkIs, Closed
<1> QED
  BY <1>1 DEF OneCycle, Looked

LEMMA WalkBrackets ==
  ASSUME OrderInv, OneCycle, CountInv, SizeInv
  PROVE  SizeIsBracketed
<1> SUFFICES ASSUME sizing \in {"producer", "consumer"}
             PROVE  SizeIsBracketed
  BY DEF SizeIsBracketed
<1>1. PICK passed, cells, counted : WalkingInv(passed, cells, counted)
  BY DEF SizeInv
<1>2. /\ IsFiniteSet(cells) /\ Cardinality(cells) = sizeAtCall
      /\ IsFiniteSet(counted) /\ Cardinality(counted) = size
      /\ AtLeast(cells) \subseteq AtMost(cells) /\ counted \subseteq AtMost(cells)
  BY <1>1 DEF WalkingInv, CountIs
<1>3. /\ IsFiniteSet(RingCells) /\ RingCells \subseteq UsedCells
      /\ \A c \in RingCells : c[1] \in Ring
  BY RingCellsAreUsed DEF OrderInv, QueueInv, RingCells
<1>4. sizeStep = "return" => \A c \in AtLeast(cells) : c[1] \in Ring => c \in counted
  BY <1>1, WalkedAll DEF WalkingInv, CountIs
<1>5. CASE sizing = "producer"
  <2>1. AtLeast(cells) = RingCells /\ AtMost(cells) = cells
    BY <1>5 DEF AtLeast, AtMost
  <2>2. size <= sizeAtCall
    BY <1>2, <2>1, FS_Subset
  <2>3. ASSUME sizeStep = "return"
        PROVE  Len(Contents) <= size
    <3>1. RingCells \subseteq counted
      BY <1>3, <1>4, <2>1, <2>3
    <3>2. Cardinality(RingCells) <= size
      BY <1>2, <3>1, FS_Subset
    <3>3. Cardinality(RingCells) \in Nat /\ size \in Nat
      BY <1>2, <1>3, FS_CardinalityType
    <3>4. Contents = held /\ Len(held) \in Nat
      BY HeldIsSeq, ContentsAreHeld
    <3>5. \E i, j \in Nat : Cardinality(RingCells) = Len(held) + i + j
      <4>1. /\ (IF consumer = "release" THEN 1 ELSE 0) \in Nat
            /\ (IF producer = "advance" THEN 1 ELSE 0) \in Nat
        OBVIOUS
      <4> QED
        BY <4>1, Zenon DEF CountInv
    <3>6. Len(held) <= Cardinality(RingCells)
      BY <3>4, <3>5
    <3> QED
      BY <3>2, <3>3, <3>4, <3>6
  <2> QED
    BY <1>5, <2>2, <2>3 DEF SizeIsBracketed
<1>6. CASE sizing = "consumer"
  <2>1. AtLeast(cells) = cells /\ AtMost(cells) = RingCells
    BY <1>6 DEF AtLeast, AtMost
  <2>2. IsFiniteSet(UsedCells) /\ counted \subseteq UsedCells
    BY <1>2, <1>3, <2>1, UsedIsFinite DEF OrderInv, QueueInv
  <2>3. size <= CellsInUse
    BY <1>2, <2>2, FS_Subset DEF CellsInUse
  <2>4. ASSUME sizeStep = "return"
        PROVE  sizeAtCall <= size
    <3>1. cells \subseteq counted
      BY <1>2, <1>3, <1>4, <2>1, <2>4
    <3> QED
      BY <1>2, <3>1, FS_Subset
  <2> QED
    BY <1>6, <2>3, <2>4 DEF SizeIsBracketed
<1> QED
  BY <1>5, <1>6

(***************************************************************************)
(* Whoever walks changes nothing of the queue, and whoever goes on makes   *)
(* the steps of the queue.                                                 *)
(***************************************************************************)
LEMMA SizedSteps == [SizedNext]_sizeVars => [OrderNext]_orderVars
BY DEF SizedNext, OrderNext, Next, CallSize, Walk, LoadBlockFront, LoadBlockTail,
   LoadBlockNext, ReturnSize, sizeVars

(***************************************************************************)
(* With calls of size_approx() in between the queue is still a FIFO.       *)
(***************************************************************************)
THEOREM SizedQueueIsFifo == SizedSpec => OrderIsFifo
<1>1. SizeInit => OrderInit
  BY DEF SizeInit
<1>2. SizedSpec => OrderSpec
  BY <1>1, SizedSteps, PTL DEF SizedSpec, OrderSpec
<1> QED
  BY <1>2, QueueIsFifo, PTL

(***************************************************************************)
(* What size_approx() returns is off by at most what the other thread has  *)
(* done during the call, for every number and size of blocks and every     *)
(* interleaving: "Safe to call from both the producer and consumer         *)
(* threads."                                                               *)
(***************************************************************************)
THEOREM SizeIsApproximate == SizedSpec => []SizeIsBracketed
<1> DEFINE I == OrderInv /\ OneCycle /\ CountInv /\ SizeInv
<1>1. SizeInit => I
  <2> SUFFICES ASSUME SizeInit
               PROVE  I
    OBVIOUS
  <2>1. OrderInv /\ CountInv /\ OneCycle
    BY InitOrder, InitCount, InitOneCycle DEF SizeInit, OrderInit
  <2>2. SizeInv
    BY DEF SizeInit, SizeInv, CallerInv
  <2> QED
    BY <2>1, <2>2
<1>2. I /\ [SizedNext]_sizeVars => I'
  <2> SUFFICES ASSUME OrderInv, OneCycle, CountInv, SizeInv, [SizedNext]_sizeVars
               PROVE  I'
    OBVIOUS
  <2>1. [OrderNext]_orderVars
    BY SizedSteps
  <2>2. OrderInv'
    BY <2>1, StepOrder
  <2>3. [Next]_vars
    BY <2>1 DEF OrderNext, orderVars
  <2>4. OneCycle'
    BY <2>3, StepOneCycle DEF OrderInv
  <2>5. CountInv'
    BY <2>1, StepCount
  <2>6. SizeInv'
    BY StepSize
  <2> QED
    BY <2>2, <2>4, <2>5, <2>6
<1>3. I => SizeIsBracketed
  BY WalkBrackets
<1> HIDE DEF I
<1> QED
  BY <1>1, <1>2, <1>3, PTL DEF SizedSpec
=============================================================================
