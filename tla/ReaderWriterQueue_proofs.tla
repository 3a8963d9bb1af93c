---------------------- MODULE ReaderWriterQueue_proofs ----------------------
(***************************************************************************)
(* Proofs about the lock-free queue, for every set of elements, every size *)
(* it is constructed for, every block size and every amount of memory.     *)
(***************************************************************************)
EXTENDS ReaderWriterQueue, SequenceTheorems, FiniteSetTheorems, FunctionTheorems, TLAPS

(***************************************************************************)
(* Positions in a ring of n cells: the one after i, and how many steps it  *)
(* takes from f to x.                                                      *)
(***************************************************************************)
Succ(i, n) == IF i + 1 = n THEN 0 ELSE i + 1
Dist(f, x, n) == IF f <= x THEN x - f ELSE (x - f) + n

LEMMA SuccIsModulo ==
  ASSUME NEW n \in Nat, NEW i \in 0 .. n - 1
  PROVE  (i + 1) % n = Succ(i, n) /\ Succ(i, n) \in 0 .. n - 1
<1>1. (i + 1) % n = Succ(i, n)
  BY DEF Succ
<1>2. Succ(i, n) \in 0 .. n - 1
  BY DEF Succ
<1> QED
  BY <1>1, <1>2

LEMMA DistIsModulo ==
  ASSUME NEW n \in Nat, NEW f \in 0 .. n - 1, NEW x \in 0 .. n - 1
  PROVE  (x + n - f) % n = Dist(f, x, n)
<1>1. CASE f <= x
  <2>1. PICK d \in Nat : d = x - f /\ d < n
    BY <1>1
  <2>2. (d + n) % n = d
    BY <2>1
  <2>3. x + n - f = d + n
    BY <2>1
  <2> QED
    BY <1>1, <2>1, <2>2, <2>3 DEF Dist
<1>2. CASE ~(f <= x)
  <2>1. PICK d \in Nat : d = x + n - f /\ d < n
    BY <1>2
  <2>2. d % n = d
    BY <2>1
  <2> QED
    BY <1>2, <2>1, <2>2 DEF Dist
<1> QED
  BY <1>1, <1>2

(***************************************************************************)
(* What moving the end or the beginning of the occupied part of a ring by  *)
(* one changes: one cell more, one cell less.                              *)
(***************************************************************************)
LEMMA OneMore ==
  ASSUME NEW n \in Nat, NEW f \in 0 .. n - 1, NEW t \in 0 .. n - 1, NEW x \in 0 .. n - 1,
         Succ(t, n) # f
  PROVE  Dist(f, x, n) < Dist(f, Succ(t, n), n) <=> Dist(f, x, n) < Dist(f, t, n) \/ x = t
BY DEF Dist, Succ

LEMMA OneLess ==
  ASSUME NEW n \in Nat, NEW f \in 0 .. n - 1, NEW t \in 0 .. n - 1, NEW x \in 0 .. n - 1,
         f # t
  PROVE  Dist(Succ(f, n), x, n) < Dist(Succ(f, n), t, n)
           <=> Dist(f, x, n) < Dist(f, t, n) /\ x # f
BY DEF Dist, Succ

(***************************************************************************)
(* x is on the way from f to t.                                            *)
(***************************************************************************)
Between(f, x, t, n) == Dist(f, x, n) <= Dist(f, t, n)

LEMMA BetweenEnds ==
  ASSUME NEW n \in Nat, NEW f \in 0 .. n - 1, NEW t \in 0 .. n - 1
  PROVE  Between(f, f, t, n) /\ Between(f, t, t, n)
BY DEF Between, Dist

LEMMA BetweenLonger ==
  ASSUME NEW n \in Nat, NEW f \in 0 .. n - 1, NEW t \in 0 .. n - 1, NEW x \in 0 .. n - 1,
         Succ(t, n) # f, Between(f, x, t, n)
  PROVE  Between(f, x, Succ(t, n), n)
BY DEF Between, Dist, Succ

LEMMA BetweenShorter ==
  ASSUME NEW n \in Nat, NEW f \in 0 .. n - 1, NEW t \in 0 .. n - 1, NEW x \in 0 .. n - 1,
         f # x, Between(f, x, t, n)
  PROVE  Between(Succ(f, n), x, t, n) /\ f # t
BY DEF Between, Dist, Succ

(***************************************************************************)
(* The producer's copy of front may lag behind front; the cell in front of *)
(* it is then also free.                                                   *)
(***************************************************************************)
LEMMA LaggingFront ==
  ASSUME NEW n \in Nat, NEW f \in 0 .. n - 1, NEW t \in 0 .. n - 1, NEW x \in 0 .. n - 1,
         Between(x, f, t, n)
  PROVE  /\ Succ(t, n) # x => Succ(t, n) # f
         /\ f # t => Between(x, Succ(f, n), t, n)
         /\ Succ(t, n) # x => Between(x, f, Succ(t, n), n)
BY DEF Between, Dist, Succ

-----------------------------------------------------------------------------
(***************************************************************************)
(* The inductive invariant.  The queue is on the ring of blocks; a block   *)
(* that has been allocated and not yet linked is not.                      *)
(***************************************************************************)
Cell == Elements \cup {None}

BlockSet ==
  [front : Nat, tail : Nat, localFront : Nat, localTail : Nat, next : Nat, size : Nat,
   data : UNION {[0 .. n - 1 -> Cell] : n \in Nat}]

ProducerPcs == {"idle", "reload", "write", "publish", "full", "ahead", "writeAhead",
                "publishAhead", "alloc", "link", "advance"}
ConsumerPcs == {"idle", "reload", "checkTail", "again", "next", "peek", "advance",
                "take", "release"}

ValuesInv ==
  /\ largestBlockSize \in PowersOfTwo
  /\ producer \in ProducerPcs /\ consumer \in ConsumerPcs
  /\ element \in Cell /\ result \in Cell
  /\ producer # "idle" => element \in Elements
  /\ call \in {"try_dequeue", "pop", "peek"}
  /\ canAlloc \in BOOLEAN /\ roomAtCall \in BOOLEAN /\ sawEmpty \in BOOLEAN

\* The indices of a block, and how far the shadow copies may lag behind.
IndexOK(r) ==
  /\ r.size \in PowersOfTwo
  /\ r.front \in 0 .. r.size - 1 /\ r.tail \in 0 .. r.size - 1
  /\ r.localFront \in 0 .. r.size - 1 /\ r.localTail \in 0 .. r.size - 1
  /\ r.data \in [0 .. r.size - 1 -> Cell]
  /\ Between(r.front, r.localTail, r.tail, r.size)
  /\ Between(r.localFront, r.front, r.tail, r.size)

BlocksInv ==
  /\ block \in Seq(BlockSet)
  /\ \A b \in Blocks : IndexOK(block[b])

Ring == IF producer = "link" THEN 1 .. Len(block) - 1 ELSE Blocks

\* The last block that holds something: tailBlock, or the one it is about to become.
LastFilled == IF producer = "advance" THEN Following ELSE tailBlock

EmptyBlock(b) == block[b].front = block[b].tail

Free(b) == EmptyBlock(b) /\ b # frontBlock /\ b # LastFilled

(***************************************************************************)
(* The blocks from the last filled one to frontBlock are free, the others  *)
(* are not.                                                                *)
(***************************************************************************)
RingInv ==
  /\ frontBlock \in Ring /\ tailBlock \in Ring
  /\ \A b \in Ring : block[b].next \in Ring
  /\ \A b, c \in Ring : block[b].next = block[c].next => b = c
  /\ LastFilled # frontBlock => ~EmptyBlock(LastFilled)
  /\ \A b \in Ring : Free(b) \/ b = LastFilled
                      => Free(block[b].next) \/ block[b].next = frontBlock
  /\ \A b \in Ring : ~(Free(b) \/ b = LastFilled)
                      => ~(Free(block[b].next) \/ block[b].next = frontBlock)

(***************************************************************************)
(* What each thread knows at each place.                                   *)
(***************************************************************************)
ProducerInv ==
  /\ producer \in {"write", "publish"} =>
       Succ(block[tailBlock].tail, block[tailBlock].size) # block[tailBlock].localFront
  /\ producer \in {"ahead", "writeAhead", "publishAhead", "advance"} => Following # frontBlock
  /\ producer \in {"writeAhead", "publishAhead"} =>
       block[Following].localFront = block[Following].tail
  /\ producer = "link" =>
       /\ Len(block) > 1
       /\ block[Len(block)].next = Following
       /\ ~EmptyBlock(Len(block))

ConsumerInv ==
  /\ consumer \in {"again", "next", "peek", "advance"} => frontBlock # tailBlock
  /\ consumer \in {"next", "peek", "advance"} => EmptyBlock(frontBlock)
  /\ consumer \in {"peek", "advance"} => nextBlock = block[frontBlock].next
  /\ consumer \notin {"peek", "advance"} => nextBlock = 0
  /\ consumer = "advance" => block[nextBlock].front # block[nextBlock].localTail
  /\ consumer \in {"take", "release"} => FrontIndex # block[frontBlock].localTail

(***************************************************************************)
(* The cells that hold an element: those in use, without the one that the  *)
(* consumer has emptied, with the one that the producer has filled.        *)
(***************************************************************************)
Occupied(r, i) == Dist(r.front, i, r.size) < Dist(r.front, r.tail, r.size)

Emptied(b, i) == consumer = "release" /\ b = frontBlock /\ i = block[b].front

Filled(b, i) ==
  /\ i = block[b].tail
  /\ \/ producer = "publish" /\ b = tailBlock
     \/ producer = "publishAhead" /\ b = Following

Holds(b, i) ==
  \/ Occupied(block[b], i) /\ ~Emptied(b, i)
  \/ Filled(b, i)

CellsInv ==
  \A b \in Blocks : \A i \in 0 .. block[b].size - 1 :
    block[b].data[i] # None <=> Holds(b, i)

QueueInv == ValuesInv /\ BlocksInv /\ RingInv /\ ProducerInv /\ ConsumerInv /\ CellsInv

-----------------------------------------------------------------------------
LEMMA PowerValues ==
  /\ 2 ^ 1 = 2 /\ 2 ^ 2 = 4 /\ 2 ^ 3 = 8 /\ 2 ^ 4 = 16 /\ 2 ^ 5 = 32
  /\ 2 ^ 6 = 64 /\ 2 ^ 7 = 128 /\ 2 ^ 8 = 256 /\ 2 ^ 9 = 512 /\ 2 ^ 10 = 1024
  /\ 2 ^ 11 = 2048 /\ 2 ^ 12 = 4096 /\ 2 ^ 13 = 8192 /\ 2 ^ 14 = 16384 /\ 2 ^ 15 = 32768
  /\ 2 ^ 16 = 65536 /\ 2 ^ 17 = 131072 /\ 2 ^ 18 = 262144 /\ 2 ^ 19 = 524288 /\ 2 ^ 20 = 1048576
OBVIOUS

LEMMA PowerLiterals ==
  PowersOfTwo =
    {2, 4, 8, 16, 32, 64, 128, 256,
     512, 1024, 2048, 4096, 8192, 16384,
     32768, 65536, 131072, 262144, 524288, 1048576}
<1>1. 1 .. 20 = {1, 2, 3, 4, 5, 6, 7, 8, 9, 10, 11, 12, 13, 14, 15, 16, 17, 18, 19, 20}
  OBVIOUS
<1>2. PowersOfTwo =
        {2 ^ k : k \in {1, 2, 3, 4, 5, 6, 7, 8, 9, 10, 11, 12, 13, 14, 15, 16, 17, 18, 19, 20}}
  BY <1>1, Zenon DEF PowersOfTwo
<1>3. PowersOfTwo =
        {2 ^ 1, 2 ^ 2, 2 ^ 3, 2 ^ 4, 2 ^ 5, 2 ^ 6, 2 ^ 7, 2 ^ 8, 2 ^ 9, 2 ^ 10,
         2 ^ 11, 2 ^ 12, 2 ^ 13, 2 ^ 14, 2 ^ 15, 2 ^ 16, 2 ^ 17, 2 ^ 18, 2 ^ 19, 2 ^ 20}
  BY <1>2
<1> QED
  BY <1>3, PowerValues, SMT

LEMMA Powers == \A p \in PowersOfTwo : p \in Nat /\ p >= 2
BY PowerLiterals

(***************************************************************************)
(* What the invariant says of one block.                                   *)
(***************************************************************************)
LEMMA BlockFacts ==
  ASSUME BlocksInv, NEW b \in Blocks
  PROVE  /\ block[b] \in BlockSet /\ IndexOK(block[b])
         /\ block[b].size \in Nat /\ block[b].size >= 2
         /\ Len(block) \in Nat /\ b \in Nat
BY Powers DEF BlocksInv, Blocks, IndexOK

LEMMA PlaceFacts ==
  ASSUME BlocksInv, RingInv
  PROVE  /\ frontBlock \in Blocks /\ tailBlock \in Blocks /\ Following \in Blocks
         /\ Following \in Ring /\ LastFilled \in Ring
         /\ Ring \subseteq Blocks
         /\ block[frontBlock].next \in Blocks
<1>1. Len(block) \in Nat
  BY DEF BlocksInv
<1>2. Ring \subseteq Blocks
  BY <1>1 DEF Ring, Blocks
<1> QED
  BY <1>2 DEF RingInv, Following, LastFilled

(***************************************************************************)
(* A step that replaces one block.                                         *)
(***************************************************************************)
LEMMA BlockReplaced ==
  ASSUME block \in Seq(BlockSet), NEW b \in Blocks, NEW r \in BlockSet,
         block' = [block EXCEPT ![b] = r]
  PROVE  /\ block' \in Seq(BlockSet)
         /\ Len(block') = Len(block) /\ Blocks' = Blocks
         /\ block'[b] = r
         /\ \A c \in Blocks : c # b => block'[c] = block[c]
BY DEF Blocks

LEMMA ReplacedInv ==
  ASSUME BlocksInv, NEW b \in Blocks, NEW r \in BlockSet, IndexOK(r),
         block' = [block EXCEPT ![b] = r]
  PROVE  BlocksInv'
<1>1. block \in Seq(BlockSet)
  BY DEF BlocksInv
<1>2. \A c \in Blocks' : IndexOK(block'[c])
  BY <1>1, BlockReplaced DEF BlocksInv
<1> QED
  BY <1>1, <1>2, BlockReplaced DEF BlocksInv, IndexOK

-----------------------------------------------------------------------------
(***************************************************************************)
(* The constructor.                                                        *)
(***************************************************************************)
LEMMA NewBlocks ==
  ASSUME NEW c \in PowersOfTwo, NEW s \in Nat
  PROVE  NewBlock(c, s) \in BlockSet /\ IndexOK(NewBlock(c, s))
<1>1. c \in Nat /\ c >= 2
  BY Powers
<1>2. [i \in 0 .. c - 1 |-> None] \in [0 .. c - 1 -> Cell]
  BY DEF Cell
<1>3. NewBlock(c, s) \in BlockSet
  BY <1>1, <1>2 DEF NewBlock, BlockSet
<1>4. IndexOK(NewBlock(c, s))
  BY <1>1, <1>2 DEF NewBlock, IndexOK, Between, Dist
<1> QED
  BY <1>3, <1>4

LEMMA InitialSizes ==
  /\ InitialBlockSize \in PowersOfTwo
  /\ InitialBlockCount \in Nat \ {0}
<1>1. PICK n \in Nat : n = maxSize + 1 /\ n <= 1048576
  BY QueueAssumption, PowerValues
<1>2. \E p \in PowersOfTwo : n <= p /\ \A m \in PowersOfTwo : n <= m => p <= m
  BY <1>1, PowerLiterals
<1>3. CeilToPow2(n) \in PowersOfTwo
  BY <1>2 DEF CeilToPow2
<1>4. InitialBlockSize \in PowersOfTwo
  BY <1>1, <1>3, QueueAssumption DEF InitialBlockSize
<1>5. (maxSize + MaxBlockSize * 2 - 3) \div (MaxBlockSize - 1) \in Nat \ {0}
  BY QueueAssumption, PowerLiterals, PowerValues
<1> QED
  BY <1>4, <1>5 DEF InitialBlockCount

LEMMA InitQueue == Init => QueueInv
<1> SUFFICES ASSUME Init
             PROVE  QueueInv
  OBVIOUS
<1> DEFINE n == InitialBlockCount
           c == InitialBlockSize
<1>1. n \in Nat /\ n >= 1 /\ c \in PowersOfTwo /\ c \in Nat /\ c >= 2
  BY InitialSizes, Powers
<1>2. \A b \in 1 .. n : (b % n) + 1 = (IF b = n THEN 1 ELSE b + 1) /\ (b % n) + 1 \in 1 .. n
  <2> SUFFICES ASSUME NEW b \in 1 .. n
               PROVE  (b % n) + 1 = (IF b = n THEN 1 ELSE b + 1) /\ (b % n) + 1 \in 1 .. n
    OBVIOUS
  <2> HIDE DEF n
  <2>1. PICK i \in 0 .. n - 1 : b = i + 1
    BY <1>1
  <2> QED
    BY <1>1, <2>1, SuccIsModulo DEF Succ
<1>3. block = [b \in 1 .. n |-> NewBlock(c, (b % n) + 1)]
  BY DEF Init
<1> HIDE DEF n, c
<1>4. \A b \in 1 .. n : block[b] \in BlockSet /\ IndexOK(block[b])
  <2> SUFFICES ASSUME NEW b \in 1 .. n
               PROVE  block[b] \in BlockSet /\ IndexOK(block[b])
    OBVIOUS
  <2>1. (b % n) + 1 \in Nat
    BY <1>1, <1>2
  <2>2. block[b] = NewBlock(c, (b % n) + 1)
    BY <1>3
  <2> QED
    BY <1>1, <2>1, <2>2, NewBlocks
<1>5. block \in Seq(BlockSet) /\ Len(block) = n /\ Blocks = 1 .. n
  <2>1. block \in [1 .. n -> BlockSet]
    BY <1>3, <1>4
  <2> QED
    BY <1>1, <2>1 DEF Blocks
<1>6. BlocksInv
  BY <1>4, <1>5 DEF BlocksInv
<1>7. ValuesInv
  BY <1>1 DEF Init, ValuesInv, Cell, ProducerPcs, ConsumerPcs, c
<1>8. Ring = 1 .. n /\ LastFilled = 1 /\ frontBlock = 1 /\ tailBlock = 1
  BY <1>5 DEF Init, Ring, LastFilled
<1>9. \A b \in 1 .. n : /\ block[b].next = (IF b = n THEN 1 ELSE b + 1)
                       /\ block[b].next \in 1 .. n
                       /\ EmptyBlock(b)
                       /\ block[b].front = 0 /\ block[b].tail = 0 /\ block[b].size = c
  BY <1>2, <1>3 DEF EmptyBlock, NewBlock
<1>10. RingInv
  <2>1. \A b, d \in Ring : block[b].next = block[d].next => b = d
    BY <1>1, <1>8, <1>9
  <2>2. \A b \in Ring : Free(b) \/ b = LastFilled
    BY <1>8, <1>9 DEF Free
  <2>3. \A b \in Ring : Free(b) \/ b = frontBlock
    BY <1>8, <1>9 DEF Free
  <2>4. \A b \in Ring : block[b].next \in Ring
    BY <1>8, <1>9
  <2> QED
    BY <1>1, <1>8, <2>1, <2>2, <2>3, <2>4 DEF RingInv
<1>11. ProducerInv /\ ConsumerInv
  BY DEF Init, ProducerInv, ConsumerInv
<1>12. CellsInv
  <2> SUFFICES ASSUME NEW b \in Blocks, NEW i \in 0 .. block[b].size - 1
               PROVE  block[b].data[i] # None <=> Holds(b, i)
    BY DEF CellsInv
  <2>1. block[b].data = [j \in 0 .. c - 1 |-> None] /\ i \in 0 .. c - 1
    BY <1>3, <1>5, <1>9 DEF NewBlock
  <2>2. ~Occupied(block[b], i)
    BY <1>1, <1>5, <1>9, <2>1 DEF Occupied, Dist
  <2>3. ~Filled(b, i)
    BY DEF Init, Filled
  <2> QED
    BY <2>1, <2>2, <2>3 DEF Holds
<1> QED
  BY <1>6, <1>7, <1>10, <1>11, <1>12 DEF QueueInv

-----------------------------------------------------------------------------
(***************************************************************************)
(* A step that changes neither the ring nor which blocks are free.         *)
(***************************************************************************)
SameRing ==
  /\ Ring' = Ring
  /\ \A b \in Ring : block'[b].next = block[b].next
  /\ frontBlock' = frontBlock /\ LastFilled' = LastFilled /\ tailBlock' \in Ring
  /\ \A b \in Ring : b # frontBlock /\ b # LastFilled => (EmptyBlock(b)' <=> EmptyBlock(b))
  /\ LastFilled # frontBlock => ~EmptyBlock(LastFilled)'

LEMMA RingKept ==
  ASSUME BlocksInv, RingInv, SameRing
  PROVE  RingInv'
<1>1. \A b \in Ring : Free(b)' <=> Free(b)
  BY DEF Free, SameRing
<1>2. \A b \in Ring : block[b].next \in Ring
  BY DEF RingInv
<1> QED
  BY <1>1, <1>2 DEF RingInv, SameRing

(***************************************************************************)
(* A step of one thread that leaves alone what the other one relies on.    *)
(***************************************************************************)
LEMMA ConsumerKept ==
  ASSUME BlocksInv, RingInv, ConsumerInv, UNCHANGED consumerVars,
         \A b \in Blocks : /\ block'[b].front = block[b].front
                           /\ block'[b].localTail = block[b].localTail,
         frontBlock # tailBlock => /\ frontBlock # tailBlock'
                                   /\ block'[frontBlock].next = block[frontBlock].next
                                   /\ block'[frontBlock].tail = block[frontBlock].tail
  PROVE  ConsumerInv'
<1>1. frontBlock \in Blocks /\ block[frontBlock].next \in Blocks
  BY PlaceFacts
<1> QED
  BY <1>1 DEF ConsumerInv, consumerVars, EmptyBlock, FrontIndex

LEMMA ProducerKept ==
  ASSUME BlocksInv, RingInv, ProducerInv, UNCHANGED producerVars, Len(block') = Len(block),
         \A b \in Blocks : /\ block'[b].tail = block[b].tail
                           /\ block'[b].size = block[b].size
                           /\ block'[b].next = block[b].next
                           /\ block'[b].localFront = block[b].localFront,
         producer = "link" => block'[Len(block)].front = block[Len(block)].front,
         producer \in {"ahead", "writeAhead", "publishAhead", "advance"}
           => Following # frontBlock'
  PROVE  ProducerInv'
<1>1. tailBlock \in Blocks /\ Following \in Blocks
  BY PlaceFacts
<1>2. Following' = Following
  BY <1>1 DEF Following, producerVars
<1>3. Len(block) > 1 => Len(block) \in Blocks
  BY DEF BlocksInv, Blocks
<1> QED
  BY <1>1, <1>2, <1>3 DEF ProducerInv, producerVars, EmptyBlock

LEMMA CellsKept ==
  ASSUME CellsInv, Blocks' = Blocks,
         \A b \in Blocks : /\ block'[b].front = block[b].front
                           /\ block'[b].tail = block[b].tail
                           /\ block'[b].size = block[b].size
                           /\ block'[b].data = block[b].data,
         \A b, i : (Emptied(b, i)' <=> Emptied(b, i)) /\ (Filled(b, i)' <=> Filled(b, i))
  PROVE  CellsInv'
BY DEF CellsInv, Holds, Occupied

LEMMA AfterIsSucc ==
  ASSUME BlocksInv, NEW b \in Blocks, NEW i \in 0 .. block[b].size - 1
  PROVE  After(b, i) = Succ(i, block[b].size) /\ After(b, i) \in 0 .. block[b].size - 1
BY BlockFacts, SuccIsModulo DEF After

-----------------------------------------------------------------------------
(***************************************************************************)
(* The steps of the producer that change no block.                         *)
(***************************************************************************)
LEMMA EnqueueStep ==
  ASSUME QueueInv, NEW e \in Elements, Enqueue(e)
  PROVE  QueueInv'
<1> USE DEF QueueInv
<1>1. block' = block /\ tailBlock' = tailBlock /\ producer = "idle"
  BY DEF Enqueue, Produces
<1>2. producer' \in {"write", "reload"}
  BY DEF Enqueue, Produces
<1>3. ValuesInv'
  BY <1>2 DEF Enqueue, ValuesInv, ProducerPcs, Cell, consumerVars
<1>4. BlocksInv'
  BY <1>1 DEF BlocksInv, Blocks
<1>5. RingInv'
  <2>1. SameRing
    BY <1>1, <1>2 DEF SameRing, Enqueue, consumerVars, Ring, LastFilled, EmptyBlock, RingInv, Blocks
  <2> QED
    BY <2>1, RingKept
<1>6. ProducerInv'
  <2>1. tailBlock \in Blocks
    BY PlaceFacts
  <2>2. After(tailBlock, block[tailBlock].tail) = Succ(block[tailBlock].tail, block[tailBlock].size)
    BY <2>1, BlockFacts, AfterIsSucc DEF IndexOK
  <2> QED
    BY <1>1, <1>2, <2>2 DEF Enqueue, Produces, HasRoom, ProducerInv
<1>7. ConsumerInv'
  BY <1>1, ConsumerKept DEF Enqueue
<1>8. CellsInv'
  <2>1. \A b, i : (Emptied(b, i)' <=> Emptied(b, i)) /\ (Filled(b, i)' <=> Filled(b, i))
    BY <1>1, <1>2 DEF Emptied, Filled, Enqueue, consumerVars
  <2> QED
    BY <1>1, <2>1, CellsKept DEF Blocks
<1> QED
  BY <1>3, <1>4, <1>5, <1>6, <1>7, <1>8

LEMMA CheckFollowingStep ==
  ASSUME QueueInv, CheckFollowing
  PROVE  QueueInv'
<1> USE DEF QueueInv
<1>1. block' = block /\ tailBlock' = tailBlock /\ producer = "full" /\ frontBlock' = frontBlock
  BY DEF CheckFollowing, Produces, consumerVars
<1>2. /\ producer' \in {"ahead", "alloc"}
      /\ producer' = "ahead" => Following # frontBlock
  BY DEF CheckFollowing, Produces
<1>3. ValuesInv'
  BY <1>1, <1>2 DEF CheckFollowing, ValuesInv, ProducerPcs, consumerVars, enqueueVars
<1>4. BlocksInv'
  BY <1>1 DEF BlocksInv, Blocks
<1>5. RingInv'
  <2>1. SameRing
    BY <1>1, <1>2 DEF SameRing, Ring, LastFilled, EmptyBlock, RingInv, Blocks
  <2> QED
    BY <2>1, RingKept
<1>6. ProducerInv'
  BY <1>1, <1>2 DEF ProducerInv, Following
<1>7. ConsumerInv'
  BY <1>1, ConsumerKept DEF CheckFollowing
<1>8. CellsInv'
  <2>1. \A b, i : (Emptied(b, i)' <=> Emptied(b, i)) /\ (Filled(b, i)' <=> Filled(b, i))
    BY <1>1, <1>2 DEF Emptied, Filled, CheckFollowing, consumerVars
  <2> QED
    BY <1>1, <2>1, CellsKept DEF Blocks
<1> QED
  BY <1>3, <1>4, <1>5, <1>6, <1>7, <1>8

LEMMA FailToAllocateStep ==
  ASSUME QueueInv, FailToAllocate
  PROVE  QueueInv'
<1> USE DEF QueueInv
<1>1. /\ block' = block /\ tailBlock' = tailBlock /\ frontBlock' = frontBlock
      /\ producer = "alloc" /\ producer' = "idle"
  BY DEF FailToAllocate, Produces, consumerVars
<1>2. ValuesInv'
  BY <1>1 DEF FailToAllocate, ValuesInv, ProducerPcs, consumerVars, Cell
<1>3. BlocksInv'
  BY <1>1 DEF BlocksInv, Blocks
<1>4. RingInv'
  <2>1. SameRing
    BY <1>1 DEF SameRing, Ring, LastFilled, EmptyBlock, RingInv, Blocks
  <2> QED
    BY <2>1, RingKept
<1>5. ProducerInv'
  BY <1>1 DEF ProducerInv
<1>6. ConsumerInv'
  BY <1>1, ConsumerKept DEF FailToAllocate
<1>7. CellsInv'
  <2>1. \A b, i : (Emptied(b, i)' <=> Emptied(b, i)) /\ (Filled(b, i)' <=> Filled(b, i))
    BY <1>1 DEF Emptied, Filled, FailToAllocate, consumerVars
  <2> QED
    BY <1>1, <2>1, CellsKept DEF Blocks
<1> QED
  BY <1>2, <1>3, <1>4, <1>5, <1>6, <1>7

LEMMA AdvanceTailStep ==
  ASSUME QueueInv, AdvanceTail
  PROVE  QueueInv'
<1> USE DEF QueueInv
<1>1. /\ block' = block /\ tailBlock' = Following /\ frontBlock' = frontBlock
      /\ producer = "advance" /\ producer' = "idle"
  BY DEF AdvanceTail, Produces, consumerVars
<1>2. ValuesInv'
  BY <1>1 DEF AdvanceTail, ValuesInv, ProducerPcs, consumerVars, Cell
<1>3. BlocksInv'
  BY <1>1 DEF BlocksInv, Blocks
<1>4. RingInv'
  <2>1. SameRing
    BY <1>1, PlaceFacts DEF SameRing, Ring, LastFilled, EmptyBlock, RingInv, Blocks
  <2> QED
    BY <2>1, RingKept
<1>5. ProducerInv'
  BY <1>1 DEF ProducerInv
<1>6. ConsumerInv'
  BY <1>1, ConsumerKept DEF AdvanceTail, ProducerInv
<1>7. CellsInv'
  <2>1. \A b, i : (Emptied(b, i)' <=> Emptied(b, i)) /\ (Filled(b, i)' <=> Filled(b, i))
    BY <1>1 DEF Emptied, Filled, AdvanceTail, consumerVars
  <2> QED
    BY <1>1, <2>1, CellsKept DEF Blocks
<1> QED
  BY <1>2, <1>3, <1>4, <1>5, <1>6, <1>7

-----------------------------------------------------------------------------
(***************************************************************************)
(* The five ways in which a step changes one block.                        *)
(***************************************************************************)
LEMMA CopyOfFront ==
  ASSUME BlocksInv, NEW b \in Blocks,
         block' = [block EXCEPT ![b].localFront = block[b].front]
  PROVE  /\ BlocksInv' /\ Blocks' = Blocks /\ Len(block') = Len(block)
         /\ block'[b].localFront = block[b].front
         /\ \A c \in Blocks :
              /\ c # b => block'[c].localFront = block[c].localFront
              /\ block'[c].front = block[c].front /\ block'[c].tail = block[c].tail
              /\ block'[c].localTail = block[c].localTail /\ block'[c].next = block[c].next
              /\ block'[c].size = block[c].size /\ block'[c].data = block[c].data
<1> DEFINE r == [block[b] EXCEPT !.localFront = block[b].front]
<1>1. block \in Seq(BlockSet) /\ block[b] \in BlockSet /\ IndexOK(block[b])
  BY BlockFacts DEF BlocksInv
<1>2. r \in BlockSet
  BY <1>1 DEF BlockSet
<1>3. IndexOK(r)
  BY <1>1, BlockFacts, BetweenEnds DEF IndexOK, BlockSet
<1>4. block' = [block EXCEPT ![b] = r]
  OBVIOUS
<1>5. /\ BlocksInv' /\ Blocks' = Blocks /\ Len(block') = Len(block) /\ block'[b] = r
      /\ \A c \in Blocks : c # b => block'[c] = block[c]
  BY <1>1, <1>2, <1>3, <1>4, BlockReplaced, ReplacedInv
<1>6. /\ r.localFront = block[b].front
      /\ r.front = block[b].front /\ r.tail = block[b].tail /\ r.localTail = block[b].localTail
      /\ r.next = block[b].next /\ r.size = block[b].size /\ r.data = block[b].data
  BY <1>1 DEF BlockSet
<1> HIDE DEF r
<1> QED
  BY <1>5, <1>6

LEMMA CopyOfTail ==
  ASSUME BlocksInv, NEW b \in Blocks,
         block' = [block EXCEPT ![b].localTail = block[b].tail]
  PROVE  /\ BlocksInv' /\ Blocks' = Blocks /\ Len(block') = Len(block)
         /\ block'[b].localTail = block[b].tail
         /\ \A c \in Blocks :
              /\ c # b => block'[c].localTail = block[c].localTail
              /\ block'[c].front = block[c].front /\ block'[c].tail = block[c].tail
              /\ block'[c].localFront = block[c].localFront /\ block'[c].next = block[c].next
              /\ block'[c].size = block[c].size /\ block'[c].data = block[c].data
<1> DEFINE r == [block[b] EXCEPT !.localTail = block[b].tail]
<1>1. block \in Seq(BlockSet) /\ block[b] \in BlockSet /\ IndexOK(block[b])
  BY BlockFacts DEF BlocksInv
<1>2. r \in BlockSet
  BY <1>1 DEF BlockSet
<1>3. IndexOK(r)
  BY <1>1, BlockFacts, BetweenEnds DEF IndexOK, BlockSet
<1>4. block' = [block EXCEPT ![b] = r]
  OBVIOUS
<1>5. /\ BlocksInv' /\ Blocks' = Blocks /\ Len(block') = Len(block) /\ block'[b] = r
      /\ \A c \in Blocks : c # b => block'[c] = block[c]
  BY <1>1, <1>2, <1>3, <1>4, BlockReplaced, ReplacedInv
<1>6. /\ r.localTail = block[b].tail
      /\ r.front = block[b].front /\ r.tail = block[b].tail /\ r.localFront = block[b].localFront
      /\ r.next = block[b].next /\ r.size = block[b].size /\ r.data = block[b].data
  BY <1>1 DEF BlockSet
<1> HIDE DEF r
<1> QED
  BY <1>5, <1>6

LEMMA CellSet ==
  ASSUME BlocksInv, NEW b \in Blocks, NEW i \in 0 .. block[b].size - 1, NEW v \in Cell,
         block' = [block EXCEPT ![b].data[i] = v]
  PROVE  /\ BlocksInv' /\ Blocks' = Blocks /\ Len(block') = Len(block)
         /\ block'[b].data = [block[b].data EXCEPT ![i] = v]
         /\ \A c \in Blocks :
              /\ c # b => block'[c].data = block[c].data
              /\ block'[c].front = block[c].front /\ block'[c].tail = block[c].tail
              /\ block'[c].localFront = block[c].localFront
              /\ block'[c].localTail = block[c].localTail
              /\ block'[c].next = block[c].next /\ block'[c].size = block[c].size
<1> DEFINE d == [block[b].data EXCEPT ![i] = v]
           r == [block[b] EXCEPT !.data = d]
<1>1. /\ block \in Seq(BlockSet) /\ block[b] \in BlockSet /\ IndexOK(block[b])
      /\ block[b].size \in Nat
  BY BlockFacts DEF BlocksInv
<1>2. d \in [0 .. block[b].size - 1 -> Cell]
  BY <1>1 DEF IndexOK
<1>3. r \in BlockSet
  BY <1>1, <1>2 DEF BlockSet
<1>4. IndexOK(r)
  BY <1>1, <1>2 DEF IndexOK, BlockSet
<1>5. block' = [block EXCEPT ![b] = r]
  OBVIOUS
<1>6. /\ BlocksInv' /\ Blocks' = Blocks /\ Len(block') = Len(block) /\ block'[b] = r
      /\ \A c \in Blocks : c # b => block'[c] = block[c]
  BY <1>1, <1>3, <1>4, <1>5, BlockReplaced, ReplacedInv
<1>7. /\ r.data = d
      /\ r.front = block[b].front /\ r.tail = block[b].tail /\ r.localFront = block[b].localFront
      /\ r.localTail = block[b].localTail /\ r.next = block[b].next /\ r.size = block[b].size
  BY <1>1 DEF BlockSet
<1> HIDE DEF r
<1> QED
  BY <1>6, <1>7

LEMMA TailMoved ==
  ASSUME BlocksInv, NEW b \in Blocks, PublishCell(b),
         Succ(block[b].tail, block[b].size) # block[b].localFront
  PROVE  /\ BlocksInv' /\ Blocks' = Blocks /\ Len(block') = Len(block)
         /\ block'[b].tail = Succ(block[b].tail, block[b].size)
         /\ \A c \in Blocks :
              /\ c # b => block'[c].tail = block[c].tail
              /\ block'[c].front = block[c].front /\ block'[c].localFront = block[c].localFront
              /\ block'[c].localTail = block[c].localTail /\ block'[c].next = block[c].next
              /\ block'[c].size = block[c].size /\ block'[c].data = block[c].data
         /\ Succ(block[b].tail, block[b].size) # block[b].front
<1> DEFINE t == Succ(block[b].tail, block[b].size)
           r == [block[b] EXCEPT !.tail = t]
<1>1. /\ block \in Seq(BlockSet) /\ block[b] \in BlockSet /\ IndexOK(block[b])
      /\ block[b].size \in Nat
  BY BlockFacts DEF BlocksInv
<1>2. After(b, block[b].tail) = t /\ t \in 0 .. block[b].size - 1
  BY <1>1, AfterIsSucc DEF IndexOK
<1>3. t # block[b].front
  BY <1>1, LaggingFront DEF IndexOK
<1>4. Between(block[b].front, block[b].localTail, t, block[b].size)
  BY <1>1, <1>3, BetweenLonger DEF IndexOK
<1>5. Between(block[b].localFront, block[b].front, t, block[b].size)
  BY <1>1, LaggingFront DEF IndexOK
<1>6. block' = [block EXCEPT ![b] = r]
  BY <1>2 DEF PublishCell
<1>7. r \in BlockSet
  <2>1. t \in Nat
    BY <1>1, <1>2
  <2> QED
    BY <1>1, <2>1 DEF BlockSet
<1>8. IndexOK(r)
  BY <1>1, <1>2, <1>4, <1>5 DEF IndexOK, BlockSet
<1>9. /\ BlocksInv' /\ Blocks' = Blocks /\ Len(block') = Len(block) /\ block'[b] = r
      /\ \A c \in Blocks : c # b => block'[c] = block[c]
  BY <1>1, <1>6, <1>7, <1>8, BlockReplaced, ReplacedInv
<1>10. /\ r.tail = t
      /\ r.front = block[b].front /\ r.localFront = block[b].localFront
      /\ r.localTail = block[b].localTail
      /\ r.next = block[b].next /\ r.size = block[b].size /\ r.data = block[b].data
  BY <1>1 DEF BlockSet
<1> HIDE DEF r
<1> QED
  BY <1>3, <1>9, <1>10

LEMMA FrontMoved ==
  ASSUME BlocksInv, NEW b \in Blocks, block' = [block EXCEPT ![b].front = After(b, @)],
         block[b].front # block[b].localTail
  PROVE  /\ BlocksInv' /\ Blocks' = Blocks /\ Len(block') = Len(block)
         /\ block'[b].front = Succ(block[b].front, block[b].size)
         /\ \A c \in Blocks :
              /\ c # b => block'[c].front = block[c].front
              /\ block'[c].tail = block[c].tail /\ block'[c].localFront = block[c].localFront
              /\ block'[c].localTail = block[c].localTail /\ block'[c].next = block[c].next
              /\ block'[c].size = block[c].size /\ block'[c].data = block[c].data
         /\ block[b].front # block[b].tail
<1> DEFINE f == Succ(block[b].front, block[b].size)
           r == [block[b] EXCEPT !.front = f]
<1>1. /\ block \in Seq(BlockSet) /\ block[b] \in BlockSet /\ IndexOK(block[b])
      /\ block[b].size \in Nat
  BY BlockFacts DEF BlocksInv
<1>2. After(b, block[b].front) = f /\ f \in 0 .. block[b].size - 1
  BY <1>1, AfterIsSucc DEF IndexOK
<1>3. /\ Between(f, block[b].localTail, block[b].tail, block[b].size)
      /\ block[b].front # block[b].tail
  BY <1>1, BetweenShorter DEF IndexOK
<1>4. Between(block[b].localFront, f, block[b].tail, block[b].size)
  BY <1>1, <1>3, LaggingFront DEF IndexOK
<1>5. block' = [block EXCEPT ![b] = r]
  BY <1>2
<1>6. r \in BlockSet
  <2>1. f \in Nat
    BY <1>1, <1>2
  <2> QED
    BY <1>1, <2>1 DEF BlockSet
<1>7. IndexOK(r)
  BY <1>1, <1>2, <1>3, <1>4 DEF IndexOK, BlockSet
<1>8. /\ BlocksInv' /\ Blocks' = Blocks /\ Len(block') = Len(block) /\ block'[b] = r
      /\ \A c \in Blocks : c # b => block'[c] = block[c]
  BY <1>1, <1>5, <1>6, <1>7, BlockReplaced, ReplacedInv
<1>9. /\ r.front = f
      /\ r.tail = block[b].tail /\ r.localFront = block[b].localFront
      /\ r.localTail = block[b].localTail
      /\ r.next = block[b].next /\ r.size = block[b].size /\ r.data = block[b].data
  BY <1>1 DEF BlockSet
<1> HIDE DEF r
<1> QED
  BY <1>3, <1>8, <1>9

-----------------------------------------------------------------------------
(***************************************************************************)
(* The steps of the producer that refresh its copy of front.               *)
(***************************************************************************)
LEMMA ReloadFrontStep ==
  ASSUME QueueInv, ReloadFront
  PROVE  QueueInv'
<1> USE DEF QueueInv
<1>1. /\ UNCHANGED consumerVars /\ tailBlock' = tailBlock /\ frontBlock' = frontBlock
      /\ producer = "reload" /\ producer' \in {"write", "full"}
      /\ tailBlock \in Blocks
  BY PlaceFacts DEF ReloadFront, Produces, consumerVars
<1>2. /\ BlocksInv' /\ Blocks' = Blocks /\ Len(block') = Len(block)
      /\ block'[tailBlock].localFront = block[tailBlock].front
      /\ \A c \in Blocks :
           /\ block'[c].front = block[c].front /\ block'[c].tail = block[c].tail
           /\ block'[c].localTail = block[c].localTail /\ block'[c].next = block[c].next
           /\ block'[c].size = block[c].size /\ block'[c].data = block[c].data
  BY <1>1, CopyOfFront DEF ReloadFront
<1>3. ValuesInv'
  BY <1>1 DEF ReloadFront, ValuesInv, ProducerPcs, consumerVars, enqueueVars
<1>4. RingInv'
  <2>1. SameRing
    BY <1>1, <1>2, PlaceFacts DEF SameRing, Ring, LastFilled, EmptyBlock, RingInv
  <2> QED
    BY <2>1, RingKept
<1>5. ProducerInv'
  <2>1. After(tailBlock, block[tailBlock].tail) = Succ(block[tailBlock].tail, block[tailBlock].size)
    BY <1>1, BlockFacts, AfterIsSucc DEF IndexOK
  <2> QED
    BY <1>1, <1>2, <2>1 DEF ReloadFront, Produces, HasRoom, ProducerInv
<1>6. ConsumerInv'
  BY <1>1, <1>2, PlaceFacts, ConsumerKept
<1>7. CellsInv'
  <2>1. \A b, i : (Emptied(b, i)' <=> Emptied(b, i)) /\ (Filled(b, i)' <=> Filled(b, i))
    BY <1>1, <1>2, PlaceFacts DEF Emptied, Filled, consumerVars
  <2> QED
    BY <1>2, <2>1, CellsKept
<1> QED
  BY <1>2, <1>3, <1>4, <1>5, <1>6, <1>7

(***************************************************************************)
(* The block that the producer goes on to is free, so its assertion holds. *)
(***************************************************************************)
LEMMA UseFollowingStep ==
  ASSUME QueueInv, UseFollowing
  PROVE  QueueInv'
<1> USE DEF QueueInv
<1>1. /\ UNCHANGED consumerVars /\ tailBlock' = tailBlock /\ frontBlock' = frontBlock
      /\ producer = "ahead"
      /\ tailBlock \in Blocks /\ Following \in Blocks /\ Following # frontBlock
  BY PlaceFacts DEF UseFollowing, Produces, consumerVars, ProducerInv
<1>2. EmptyBlock(Following) /\ producer' = "writeAhead"
  <2>1. LastFilled = tailBlock
    BY <1>1 DEF LastFilled
  <2>2. Free(Following)
    BY <1>1, <2>1 DEF RingInv, Following
  <2> QED
    BY <2>2 DEF Free, EmptyBlock, UseFollowing, Produces
<1>3. /\ BlocksInv' /\ Blocks' = Blocks /\ Len(block') = Len(block)
      /\ block'[Following].localFront = block[Following].front
      /\ \A c \in Blocks :
           /\ block'[c].front = block[c].front /\ block'[c].tail = block[c].tail
           /\ block'[c].localTail = block[c].localTail /\ block'[c].next = block[c].next
           /\ block'[c].size = block[c].size /\ block'[c].data = block[c].data
  <2> DEFINE n == Following
  <2> HIDE DEF n
  <2>1. block' = [block EXCEPT ![n].localFront = block[n].front] /\ n \in Blocks
    BY <1>1 DEF UseFollowing, n
  <2>2. n = Following
    BY DEF n
  <2> QED
    BY <2>1, <2>2, CopyOfFront
<1>4. ValuesInv'
  BY <1>1, <1>2 DEF UseFollowing, ValuesInv, ProducerPcs, consumerVars, enqueueVars
<1>5. RingInv'
  <2>1. SameRing
    BY <1>1, <1>2, <1>3, PlaceFacts DEF SameRing, Ring, LastFilled, EmptyBlock, RingInv
  <2> QED
    BY <2>1, RingKept
<1>6. Following' = Following
  BY <1>1, <1>3 DEF Following
<1>7. ProducerInv'
  BY <1>1, <1>2, <1>3, <1>6 DEF ProducerInv, EmptyBlock
<1>8. ConsumerInv'
  BY <1>1, <1>3, PlaceFacts, ConsumerKept
<1>9. CellsInv'
  <2>1. \A b, i : (Emptied(b, i)' <=> Emptied(b, i)) /\ (Filled(b, i)' <=> Filled(b, i))
    BY <1>1, <1>2, <1>3, PlaceFacts DEF Emptied, Filled, consumerVars
  <2> QED
    BY <1>3, <2>1, CellsKept
<1> QED
  BY <1>3, <1>4, <1>5, <1>7, <1>8, <1>9

-----------------------------------------------------------------------------
(***************************************************************************)
(* The steps of the consumer that refresh its copy of tail.                *)
(***************************************************************************)
LEMMA LoadTailStep ==
  ASSUME QueueInv,
         ReloadTail \/ CheckAgain
  PROVE  QueueInv'
<1> USE DEF QueueInv
<1>1. /\ UNCHANGED producerVars /\ frontBlock' = frontBlock /\ nextBlock' = nextBlock
      /\ block' = [block EXCEPT ![frontBlock].localTail = block[frontBlock].tail]
      /\ UNCHANGED <<call, result, sawEmpty>>
      /\ consumer \in {"reload", "again"}
      /\ frontBlock \in Blocks /\ tailBlock' = tailBlock /\ producer' = producer
  BY PlaceFacts DEF ReloadTail, CheckAgain, LoadTail, producerVars
<1>2. /\ BlocksInv' /\ Blocks' = Blocks /\ Len(block') = Len(block)
      /\ block'[frontBlock].localTail = block[frontBlock].tail
      /\ \A c \in Blocks :
           /\ c # frontBlock => block'[c].localTail = block[c].localTail
           /\ block'[c].front = block[c].front /\ block'[c].tail = block[c].tail
           /\ block'[c].localFront = block[c].localFront /\ block'[c].next = block[c].next
           /\ block'[c].size = block[c].size /\ block'[c].data = block[c].data
  BY <1>1, CopyOfTail
<1>3. /\ consumer' \in {"take", "checkTail", "next"}
      /\ consumer' = "take" => block[frontBlock].front # block[frontBlock].tail
      /\ consumer' = "next" => block[frontBlock].front = block[frontBlock].tail
      /\ consumer' = "next" => consumer = "again"
  BY DEF ReloadTail, CheckAgain, LoadTail, FrontIndex
<1>4. ValuesInv'
  BY <1>1, <1>3 DEF ValuesInv, ConsumerPcs, producerVars, enqueueVars
<1>5. RingInv'
  <2>1. SameRing
    BY <1>1, <1>2, PlaceFacts DEF SameRing, Ring, LastFilled, Following, EmptyBlock, RingInv
  <2> QED
    BY <2>1, RingKept
<1>6. ProducerInv'
  <2>1. producer = "link" => Len(block) \in Blocks
    BY BlockFacts, <1>1 DEF ProducerInv, Blocks
  <2> QED
    BY <1>1, <1>2, <2>1, ProducerKept DEF ProducerInv
<1>7. ConsumerInv'
  BY <1>1, <1>2, <1>3 DEF ConsumerInv, EmptyBlock, FrontIndex
<1>8. CellsInv'
  <2>1. \A b, i : (Emptied(b, i)' <=> Emptied(b, i)) /\ (Filled(b, i)' <=> Filled(b, i))
    BY <1>1, <1>2, <1>3, PlaceFacts DEF Emptied, Filled, Following
  <2> QED
    BY <1>2, <2>1, CellsKept
<1> QED
  BY <1>2, <1>4, <1>5, <1>6, <1>7, <1>8

-----------------------------------------------------------------------------
(***************************************************************************)
(* The steps of the consumer that change no block.                         *)
(***************************************************************************)
LEMMA ConsumerLooks ==
  ASSUME QueueInv, UNCHANGED <<block, frontBlock, producerVars>>,
         consumer # "release", consumer' # "release"
  PROVE  BlocksInv' /\ RingInv' /\ ProducerInv' /\ CellsInv'
<1> USE DEF QueueInv
<1>1. tailBlock' = tailBlock /\ producer' = producer /\ Blocks' = Blocks
  BY DEF producerVars, Blocks
<1>2. BlocksInv'
  BY <1>1 DEF BlocksInv
<1>3. RingInv'
  <2>1. SameRing
    BY <1>1 DEF SameRing, Ring, LastFilled, Following, EmptyBlock, RingInv
  <2> QED
    BY <2>1, RingKept
<1>4. ProducerInv'
  BY ProducerKept DEF ProducerInv
<1>5. CellsInv'
  <2>1. \A b, i : (Emptied(b, i)' <=> Emptied(b, i)) /\ (Filled(b, i)' <=> Filled(b, i))
    BY <1>1 DEF Emptied, Filled, Following
  <2> QED
    BY <1>1, <2>1, CellsKept
<1> QED
  BY <1>2, <1>3, <1>4, <1>5

LEMMA DequeueStep ==
  ASSUME QueueInv, NEW c \in ConsumerCalls, Dequeue(c)
  PROVE  QueueInv'
<1>1. /\ UNCHANGED <<block, frontBlock, producerVars>> /\ consumer = "idle"
      /\ consumer' \in {"take", "reload"}
  BY DEF Dequeue, Consumes
<1>2. ValuesInv'
  <2>1. sawEmpty' \in BOOLEAN /\ call' = c /\ result' = result
    BY DEF Dequeue
  <2> QED
    BY <1>1, <2>1, QueueAssumption
       DEF QueueInv, ValuesInv, ConsumerPcs, producerVars, enqueueVars
<1>3. ConsumerInv'
  BY <1>1 DEF QueueInv, Dequeue, Consumes, ConsumerInv, FrontIndex
<1> QED
  BY <1>1, <1>2, <1>3, ConsumerLooks DEF QueueInv

LEMMA CheckTailStep ==
  ASSUME QueueInv, CheckTail
  PROVE  QueueInv'
<1>1. /\ UNCHANGED <<block, frontBlock, producerVars>> /\ consumer = "checkTail"
      /\ UNCHANGED <<call, nextBlock, result, sawEmpty>>
      /\ consumer' \in {"again", "idle"}
      /\ consumer' = "again" => frontBlock # tailBlock
  BY DEF CheckTail, Consumes
<1>2. ValuesInv'
  BY <1>1 DEF QueueInv, ValuesInv, ConsumerPcs, producerVars, enqueueVars
<1>3. ConsumerInv'
  BY <1>1 DEF QueueInv, ConsumerInv, producerVars
<1> QED
  BY <1>1, <1>2, <1>3, ConsumerLooks DEF QueueInv

LEMMA ReadNextStep ==
  ASSUME QueueInv, ReadNext
  PROVE  QueueInv'
<1>1. /\ UNCHANGED <<block, frontBlock, producerVars>> /\ consumer = "next"
      /\ UNCHANGED <<call, result, sawEmpty>>
      /\ consumer' = "peek" /\ nextBlock' = block[frontBlock].next
  BY DEF ReadNext, Consumes
<1>2. ValuesInv'
  BY <1>1 DEF QueueInv, ValuesInv, ConsumerPcs, producerVars, enqueueVars
<1>3. ConsumerInv'
  BY <1>1 DEF QueueInv, ConsumerInv, producerVars, EmptyBlock
<1> QED
  BY <1>1, <1>2, <1>3, ConsumerLooks DEF QueueInv

(***************************************************************************)
(* When the front block has run out and is not the last one, the next one  *)
(* holds something, and it is not one that the producer may use.           *)
(***************************************************************************)
LEMMA NextHolds ==
  ASSUME QueueInv, consumer \in {"next", "peek", "advance"}, NEW n, n = block[frontBlock].next
  PROVE  /\ n \in Ring /\ n \in Blocks /\ n # frontBlock
         /\ frontBlock # LastFilled /\ ~EmptyBlock(n)
         /\ n # Following
<1> USE DEF QueueInv
<1>1. frontBlock # tailBlock /\ frontBlock \in Ring /\ tailBlock \in Ring /\ n \in Ring
  BY DEF ConsumerInv, RingInv
<1>2. frontBlock # LastFilled
  BY <1>1 DEF LastFilled, ProducerInv
<1>3. ~Free(n) /\ n # frontBlock
  BY <1>1, <1>2 DEF RingInv, Free
<1>4. ~EmptyBlock(n)
  BY <1>2, <1>3 DEF RingInv, Free
<1>5. n # Following
  BY <1>1 DEF RingInv, Following
<1> QED
  BY <1>1, <1>2, <1>3, <1>4, <1>5, PlaceFacts

LEMMA LookAheadStep ==
  ASSUME QueueInv, LookAhead
  PROVE  QueueInv'
<1>1. /\ UNCHANGED <<block, frontBlock, producerVars>> /\ consumer = "peek"
      /\ UNCHANGED <<call, sawEmpty>> /\ nextBlock' = 0
      /\ result' = block[nextBlock].data[block[nextBlock].front]
      /\ nextBlock = block[frontBlock].next
  BY DEF LookAhead, Consumes, QueueInv, ConsumerInv
<1>2. nextBlock \in Blocks /\ ~EmptyBlock(nextBlock)
  BY <1>1, NextHolds
<1>3. consumer' = "idle"
  BY <1>2 DEF LookAhead, Consumes, EmptyBlock
<1>4. result' \in Cell
  BY <1>1, <1>2, BlockFacts DEF QueueInv, IndexOK
<1>5. ValuesInv'
  BY <1>1, <1>3, <1>4 DEF QueueInv, ValuesInv, ConsumerPcs, producerVars, enqueueVars
<1>6. ConsumerInv'
  BY <1>1, <1>3 DEF ConsumerInv
<1> QED
  BY <1>1, <1>3, <1>5, <1>6, ConsumerLooks DEF QueueInv

LEMMA PeekStep ==
  ASSUME QueueInv, Peek
  PROVE  QueueInv'
<1>1. /\ UNCHANGED <<block, frontBlock, producerVars>> /\ consumer = "take"
      /\ UNCHANGED <<call, sawEmpty, nextBlock>> /\ consumer' = "idle"
      /\ result' = block[frontBlock].data[block[frontBlock].front]
  BY DEF Peek, Consumes, FrontIndex
<1>2. result' \in Cell
  BY <1>1, BlockFacts, PlaceFacts DEF QueueInv, IndexOK
<1>3. ValuesInv'
  BY <1>1, <1>2 DEF QueueInv, ValuesInv, ConsumerPcs, producerVars, enqueueVars
<1>4. ConsumerInv'
  BY <1>1 DEF QueueInv, ConsumerInv
<1> QED
  BY <1>1, <1>3, <1>4, ConsumerLooks DEF QueueInv

(***************************************************************************)
(* The consumer's assertion holds: the next block has an element.          *)
(***************************************************************************)
LEMMA PeekNextStep ==
  ASSUME QueueInv, PeekNext
  PROVE  QueueInv'
<1> USE DEF QueueInv
<1>1. /\ UNCHANGED producerVars /\ frontBlock' = frontBlock /\ nextBlock' = nextBlock
      /\ block' = [block EXCEPT ![nextBlock].localTail = block[nextBlock].tail]
      /\ UNCHANGED <<call, result, sawEmpty>>
      /\ consumer = "peek" /\ nextBlock = block[frontBlock].next
      /\ frontBlock \in Blocks /\ tailBlock' = tailBlock /\ producer' = producer
  BY PlaceFacts DEF PeekNext, Consumes, producerVars, ConsumerInv
<1>2. nextBlock \in Blocks /\ ~EmptyBlock(nextBlock)
  BY <1>1, NextHolds
<1>3. /\ BlocksInv' /\ Blocks' = Blocks /\ Len(block') = Len(block)
      /\ block'[nextBlock].localTail = block[nextBlock].tail
      /\ \A c \in Blocks :
           /\ c # nextBlock => block'[c].localTail = block[c].localTail
           /\ block'[c].front = block[c].front /\ block'[c].tail = block[c].tail
           /\ block'[c].localFront = block[c].localFront /\ block'[c].next = block[c].next
           /\ block'[c].size = block[c].size /\ block'[c].data = block[c].data
  BY <1>1, <1>2, CopyOfTail
<1>4. consumer' = "advance"
  BY <1>2 DEF PeekNext, Consumes, EmptyBlock
<1>5. ValuesInv'
  BY <1>1, <1>4 DEF ValuesInv, ConsumerPcs, producerVars, enqueueVars
<1>6. RingInv'
  <2>1. SameRing
    BY <1>1, <1>3, PlaceFacts DEF SameRing, Ring, LastFilled, Following, EmptyBlock, RingInv
  <2> QED
    BY <2>1, RingKept
<1>7. ProducerInv'
  <2>1. producer = "link" => Len(block) \in Blocks
    BY BlockFacts, <1>1 DEF ProducerInv, Blocks
  <2> QED
    BY <1>1, <1>3, <2>1, ProducerKept DEF ProducerInv
<1>8. ConsumerInv'
  BY <1>1, <1>2, <1>3, <1>4 DEF ConsumerInv, EmptyBlock
<1>9. CellsInv'
  <2>1. \A b, i : (Emptied(b, i)' <=> Emptied(b, i)) /\ (Filled(b, i)' <=> Filled(b, i))
    BY <1>1, <1>3, <1>4, PlaceFacts DEF Emptied, Filled, Following
  <2> QED
    BY <1>3, <2>1, CellsKept
<1> QED
  BY <1>3, <1>5, <1>6, <1>7, <1>8, <1>9

(***************************************************************************)
(* The consumer leaves a block that has run out; it becomes free.          *)
(***************************************************************************)
LEMMA AdvanceFrontStep ==
  ASSUME QueueInv, AdvanceFront
  PROVE  QueueInv'
<1> USE DEF QueueInv
<1>1. /\ block' = block /\ UNCHANGED producerVars /\ UNCHANGED <<call, result, sawEmpty>>
      /\ consumer = "advance" /\ consumer' = "take"
      /\ frontBlock' = nextBlock /\ nextBlock' = 0
      /\ nextBlock = block[frontBlock].next
      /\ tailBlock' = tailBlock /\ producer' = producer /\ Blocks' = Blocks
  BY DEF AdvanceFront, Consumes, producerVars, ConsumerInv, Blocks
<1>2. /\ nextBlock \in Ring /\ nextBlock # frontBlock /\ frontBlock # LastFilled
      /\ ~EmptyBlock(nextBlock) /\ nextBlock # Following /\ EmptyBlock(frontBlock)
      /\ frontBlock \in Ring
  BY <1>1, NextHolds DEF ConsumerInv, RingInv
<1>3. ValuesInv'
  BY <1>1 DEF ValuesInv, ConsumerPcs, producerVars, enqueueVars
<1>4. BlocksInv'
  BY <1>1 DEF BlocksInv
<1>5. RingInv'
  <2>1. Ring' = Ring /\ LastFilled' = LastFilled /\ \A b : EmptyBlock(b)' <=> EmptyBlock(b)
    BY <1>1 DEF Ring, LastFilled, Following, EmptyBlock
  <2>2. \A b \in Ring : Free(b)' <=> Free(b) \/ b = frontBlock
    BY <1>1, <1>2, <2>1 DEF Free
  <2>3. LastFilled # nextBlock => ~EmptyBlock(LastFilled)
    BY <1>2 DEF RingInv
  <2>4. \A b \in Ring : block[b].next = nextBlock => b = frontBlock
    BY <1>1, <1>2 DEF RingInv
  <2>5. \A b \in Ring : Free(b) \/ b = frontBlock \/ b = LastFilled
          => Free(block[b].next) \/ block[b].next = frontBlock \/ block[b].next = nextBlock
    BY <1>1 DEF RingInv
  <2>6. \A b \in Ring : ~(Free(b) \/ b = frontBlock \/ b = LastFilled)
          => ~(Free(block[b].next) \/ block[b].next = frontBlock \/ block[b].next = nextBlock)
    BY <2>4 DEF RingInv
  <2>7. \A b \in Ring : block[b].next \in Ring
    BY DEF RingInv
  <2> QED
    BY <1>1, <1>2, <2>1, <2>2, <2>3, <2>5, <2>6, <2>7 DEF RingInv
<1>6. ProducerInv'
  <2>1. Following # frontBlock'
    BY <1>1, <1>2
  <2> QED
    BY <1>1, <2>1, ProducerKept
<1>7. ConsumerInv'
  BY <1>1 DEF ConsumerInv, FrontIndex
<1>8. CellsInv'
  <2>1. \A b, i : (Emptied(b, i)' <=> Emptied(b, i)) /\ (Filled(b, i)' <=> Filled(b, i))
    BY <1>1 DEF Emptied, Filled, Following
  <2> QED
    BY <1>1, <2>1, CellsKept
<1> QED
  BY <1>3, <1>4, <1>5, <1>6, <1>7, <1>8

-----------------------------------------------------------------------------
(***************************************************************************)
(* The steps that write to a cell.                                         *)
(***************************************************************************)
LEMMA WriteCells ==
  ASSUME QueueInv, NEW b \in Blocks,
         UNCHANGED <<consumerVars, tailBlock, largestBlockSize, enqueueVars>>,
         WriteCell(b),
         \/ producer = "write" /\ producer' = "publish" /\ b = tailBlock
         \/ producer = "writeAhead" /\ producer' = "publishAhead" /\ b = Following
  PROVE  QueueInv'
<1> USE DEF QueueInv
<1> DEFINE t == block[b].tail
<1>1. /\ tailBlock \in Blocks /\ frontBlock \in Blocks /\ Following \in Blocks
      /\ frontBlock' = frontBlock
      /\ element \in Elements /\ element # None /\ element \in Cell
      /\ t \in 0 .. block[b].size - 1
      /\ block[b].data \in [0 .. block[b].size - 1 -> Cell]
      /\ block' = [block EXCEPT ![b].data[t] = element]
  BY PlaceFacts, BlockFacts, QueueAssumption DEF consumerVars, ValuesInv, Cell, IndexOK,
     WriteCell
<1> HIDE DEF t
<1>2. /\ BlocksInv' /\ Blocks' = Blocks /\ Len(block') = Len(block)
      /\ block'[b].data = [block[b].data EXCEPT ![t] = element]
      /\ \A c \in Blocks :
           /\ c # b => block'[c].data = block[c].data
           /\ block'[c].front = block[c].front /\ block'[c].tail = block[c].tail
           /\ block'[c].localFront = block[c].localFront
           /\ block'[c].localTail = block[c].localTail
           /\ block'[c].next = block[c].next /\ block'[c].size = block[c].size
  <2>1. t \in 0 .. block[b].size - 1 /\ element \in Cell
    BY <1>1
  <2>2. block' = [block EXCEPT ![b].data[t] = element]
    BY <1>1
  <2> QED
    BY <2>1, <2>2, CellSet
<1>3. Following' = Following
  BY <1>1, <1>2 DEF Following
<1>4. ValuesInv'
  BY DEF ValuesInv, ProducerPcs, consumerVars, enqueueVars
<1>5. RingInv'
  <2>1. SameRing
    BY <1>1, <1>2, PlaceFacts DEF SameRing, Ring, LastFilled, EmptyBlock, RingInv
  <2> QED
    BY <2>1, RingKept
<1>6. ProducerInv'
  BY <1>1, <1>2, <1>3 DEF ProducerInv
<1>7. ConsumerInv'
  BY <1>1, <1>2, ConsumerKept
<1>8. CellsInv'
  <2> SUFFICES ASSUME NEW c \in Blocks, NEW i \in 0 .. block[c].size - 1
               PROVE  block'[c].data[i] # None <=> Holds(c, i)'
    BY <1>2 DEF CellsInv
  <2>1. block[c].data[i] # None <=> Holds(c, i)
    BY DEF CellsInv
  <2>2. (Occupied(block[c], i)' <=> Occupied(block[c], i)) /\ (Emptied(c, i)' <=> Emptied(c, i))
    BY <1>1, <1>2 DEF Occupied, Emptied, consumerVars
  <2>3. ~Filled(c, i) /\ (Filled(c, i)' <=> c = b /\ i = t)
    BY <1>2, <1>3 DEF Filled, t
  <2>4. CASE c = b /\ i = t
    <3>1. block'[b].data[t] = element
      <4>1. block'[b].data = [block[b].data EXCEPT ![t] = element]
        BY <1>2
      <4>2. t \in DOMAIN block[b].data
        BY <1>1
      <4> QED
        BY <4>1, <4>2
    <3> QED
      BY <1>1, <2>3, <2>4, <3>1 DEF Holds
  <2>5. CASE ~(c = b /\ i = t)
    <3>1. block'[c].data[i] = block[c].data[i]
      <4>1. CASE c # b
        BY <1>2, <4>1
      <4>2. CASE c = b
        BY <1>1, <1>2, <2>5, <4>2
      <4> QED
        BY <4>1, <4>2
    <3> QED
      BY <2>1, <2>2, <2>3, <2>5, <3>1 DEF Holds
  <2> QED
    BY <2>4, <2>5
<1> QED
  BY <1>2, <1>4, <1>5, <1>6, <1>7, <1>8

LEMMA WriteStep ==
  ASSUME QueueInv, Write \/ WriteAhead
  PROVE  QueueInv'
<1>1. tailBlock \in Blocks /\ Following \in Blocks
  BY PlaceFacts DEF QueueInv
<1>2. CASE Write
  BY <1>1, <1>2, WriteCells DEF Write, Produces
<1>3. CASE WriteAhead
  <2> DEFINE n == Following
  <2> HIDE DEF n
  <2>1. /\ WriteCell(n) /\ n \in Blocks /\ n = Following
        /\ producer = "writeAhead" /\ producer' = "publishAhead"
        /\ UNCHANGED <<consumerVars, tailBlock, largestBlockSize, enqueueVars>>
    BY <1>1, <1>3 DEF WriteAhead, Produces, n
  <2> QED
    BY <2>1, WriteCells
<1> QED
  BY <1>2, <1>3

(***************************************************************************)
(* Where the consumer takes something there is something.                  *)
(***************************************************************************)
LEMMA FrontHolds ==
  ASSUME QueueInv, consumer \in {"take", "release"}
  PROVE  ~EmptyBlock(frontBlock)
<1>1. frontBlock \in Blocks /\ IndexOK(block[frontBlock]) /\ block[frontBlock].size \in Nat
  BY PlaceFacts, BlockFacts DEF QueueInv
<1>2. block[frontBlock].front # block[frontBlock].localTail
  BY DEF QueueInv, ConsumerInv, FrontIndex
<1> QED
  BY <1>1, <1>2, BetweenShorter DEF IndexOK, EmptyBlock

LEMMA TakeStep ==
  ASSUME QueueInv, Take \/ Pop
  PROVE  QueueInv'
<1> USE DEF QueueInv
<1> DEFINE b == frontBlock
           f == block[b].front
<1>1. /\ UNCHANGED <<producerVars, frontBlock, call, nextBlock, sawEmpty>>
      /\ consumer = "take" /\ consumer' = "release"
      /\ tailBlock' = tailBlock /\ producer' = producer
      /\ block' = [block EXCEPT ![b].data[f] = None]
  BY DEF Take, Pop, Consumes, producerVars, FrontIndex
<1>2. /\ b \in Blocks /\ f \in 0 .. block[b].size - 1 /\ None \in Cell
      /\ block[b].data \in [0 .. block[b].size - 1 -> Cell]
      /\ tailBlock \in Blocks /\ Following \in Blocks
  BY PlaceFacts, BlockFacts DEF Cell, IndexOK
<1>3. result' \in Cell
  BY <1>2 DEF Take, Pop, FrontIndex, ValuesInv
<1> HIDE DEF b, f
<1>4. /\ BlocksInv' /\ Blocks' = Blocks /\ Len(block') = Len(block)
      /\ block'[b].data = [block[b].data EXCEPT ![f] = None]
      /\ \A c \in Blocks :
           /\ c # b => block'[c].data = block[c].data
           /\ block'[c].front = block[c].front /\ block'[c].tail = block[c].tail
           /\ block'[c].localFront = block[c].localFront
           /\ block'[c].localTail = block[c].localTail
           /\ block'[c].next = block[c].next /\ block'[c].size = block[c].size
  <2>1. block' = [block EXCEPT ![b].data[f] = None]
    BY <1>1
  <2> QED
    BY <1>2, <2>1, CellSet
<1>5. ValuesInv'
  BY <1>1, <1>3 DEF ValuesInv, ConsumerPcs, producerVars, enqueueVars
<1>6. RingInv'
  <2>1. SameRing
    BY <1>1, <1>2, <1>4, PlaceFacts
       DEF SameRing, Ring, LastFilled, Following, EmptyBlock, RingInv
  <2> QED
    BY <2>1, RingKept
<1>7. ProducerInv'
  <2>1. producer = "link" => Len(block) \in Blocks
    BY BlockFacts, <1>2 DEF ProducerInv, Blocks
  <2> QED
    BY <1>1, <1>4, <2>1, ProducerKept DEF ProducerInv
<1>8. ConsumerInv'
  BY <1>1, <1>2, <1>4 DEF ConsumerInv, FrontIndex, b
<1>9. CellsInv'
  <2> SUFFICES ASSUME NEW c \in Blocks, NEW i \in 0 .. block[c].size - 1
               PROVE  block'[c].data[i] # None <=> Holds(c, i)'
    BY <1>4 DEF CellsInv
  <2>1. block[c].data[i] # None <=> Holds(c, i)
    BY DEF CellsInv
  <2>2. (Occupied(block[c], i)' <=> Occupied(block[c], i)) /\ (Filled(c, i)' <=> Filled(c, i))
    BY <1>1, <1>2, <1>4 DEF Occupied, Filled, Following
  <2>3. ~Emptied(c, i) /\ (Emptied(c, i)' <=> c = b /\ i = f)
    BY <1>1, <1>4 DEF Emptied, b, f
  <2>4. CASE c = b /\ i = f
    <3>1. block'[c].data[i] = None
      BY <1>2, <1>4, <2>4
    <3>2. ~Filled(c, i)
      BY <1>1, <2>4, FrontHolds DEF Filled, EmptyBlock, b, f
    <3> QED
      BY <2>2, <2>3, <2>4, <3>1, <3>2 DEF Holds
  <2>5. CASE ~(c = b /\ i = f)
    <3>1. block'[c].data[i] = block[c].data[i]
      <4>1. CASE c # b
        BY <1>4, <4>1
      <4>2. CASE c = b
        BY <1>2, <1>4, <2>5, <4>2
      <4> QED
        BY <4>1, <4>2
    <3> QED
      BY <2>1, <2>2, <2>3, <2>5, <3>1 DEF Holds
  <2> QED
    BY <2>4, <2>5
<1> QED
  BY <1>4, <1>5, <1>6, <1>7, <1>8, <1>9

-----------------------------------------------------------------------------
(***************************************************************************)
(* The stores to tail.  What a store does to the cells of its block.       *)
(***************************************************************************)
LEMMA CellPublished ==
  ASSUME QueueInv, NEW b \in Blocks, UNCHANGED consumerVars,
         Succ(block[b].tail, block[b].size) # block[b].localFront,
         \A i : Filled(b, i) <=> i = block[b].tail,
         \A c, i : c # b => ~Filled(c, i),
         \A c, i : ~Filled(c, i)',
         PublishCell(b)
  PROVE  CellsInv'
<1> USE DEF QueueInv
<1> DEFINE t == block[b].tail
           s == Succ(t, block[b].size)
<1>1. /\ Blocks' = Blocks /\ block'[b].tail = s /\ s # block[b].front
      /\ \A c \in Blocks :
           /\ c # b => block'[c].tail = block[c].tail
           /\ block'[c].front = block[c].front /\ block'[c].data = block[c].data
           /\ block'[c].size = block[c].size
  BY TailMoved
<1> SUFFICES ASSUME NEW c \in Blocks, NEW i \in 0 .. block[c].size - 1
             PROVE  block[c].data[i] # None <=> Holds(c, i)'
  BY <1>1 DEF CellsInv
<1>2. block[c].data[i] # None <=> Holds(c, i)
  BY DEF CellsInv
<1>3. Emptied(c, i)' <=> Emptied(c, i)
  BY <1>1 DEF Emptied, consumerVars
<1>4. CASE c # b
  <2>1. Occupied(block[c], i)' <=> Occupied(block[c], i)
    BY <1>1, <1>4 DEF Occupied
  <2> QED
    BY <1>2, <1>3, <1>4, <2>1 DEF Holds
<1>5. CASE c = b
  <2>1. /\ block[b].size \in Nat /\ block[b].front \in 0 .. block[b].size - 1
        /\ t \in 0 .. block[b].size - 1
    BY BlockFacts DEF IndexOK
  <2>2. Occupied(block[b], i)' <=> Occupied(block[b], i) \/ i = t
    <3> HIDE DEF t
    <3>1. Dist(block[b].front, i, block[b].size) < Dist(block[b].front, s, block[b].size)
            <=> Dist(block[b].front, i, block[b].size) < Dist(block[b].front, t, block[b].size)
                  \/ i = t
      BY <1>1, <1>5, <2>1, OneMore
    <3> QED
      BY <1>1, <3>1 DEF Occupied, t
  <2>3. i = t => ~Emptied(b, i)
    BY FrontHolds DEF Emptied, EmptyBlock
  <2> QED
    BY <1>2, <1>3, <1>5, <2>2, <2>3 DEF Holds
<1> QED
  BY <1>4, <1>5

LEMMA PublishStep ==
  ASSUME QueueInv, Publish
  PROVE  QueueInv'
<1> USE DEF QueueInv
<1>1. /\ UNCHANGED consumerVars /\ tailBlock' = tailBlock /\ frontBlock' = frontBlock
      /\ producer = "publish" /\ producer' = "idle" /\ PublishCell(tailBlock)
      /\ tailBlock \in Blocks /\ frontBlock \in Blocks
      /\ Succ(block[tailBlock].tail, block[tailBlock].size) # block[tailBlock].localFront
  BY PlaceFacts DEF Publish, Produces, consumerVars, ProducerInv
<1>2. /\ BlocksInv' /\ Blocks' = Blocks /\ Len(block') = Len(block)
      /\ block'[tailBlock].tail = Succ(block[tailBlock].tail, block[tailBlock].size)
      /\ Succ(block[tailBlock].tail, block[tailBlock].size) # block[tailBlock].front
      /\ \A c \in Blocks :
           /\ c # tailBlock => block'[c].tail = block[c].tail
           /\ block'[c].front = block[c].front /\ block'[c].localTail = block[c].localTail
           /\ block'[c].next = block[c].next
  BY <1>1, TailMoved
<1>3. ValuesInv'
  BY <1>1 DEF Publish, ValuesInv, ProducerPcs, Cell, consumerVars
<1>4. RingInv'
  <2>1. LastFilled = tailBlock /\ LastFilled' = tailBlock /\ Ring' = Ring
    BY <1>1, <1>2 DEF LastFilled, Ring
  <2>2. ~EmptyBlock(tailBlock)'
    BY <1>1, <1>2 DEF EmptyBlock
  <2>3. SameRing
    BY <1>1, <1>2, <2>1, <2>2, PlaceFacts DEF SameRing, EmptyBlock, RingInv
  <2> QED
    BY <2>3, RingKept
<1>5. ProducerInv'
  BY <1>1 DEF ProducerInv
<1>6. ConsumerInv'
  BY <1>1, <1>2, ConsumerKept
<1>7. CellsInv'
  <2>1. /\ \A i : Filled(tailBlock, i) <=> i = block[tailBlock].tail
        /\ \A c, i : c # tailBlock => ~Filled(c, i)
        /\ \A c, i : ~Filled(c, i)'
    BY <1>1 DEF Filled
  <2> QED
    BY <1>1, <2>1, CellPublished
<1> QED
  BY <1>2, <1>3, <1>4, <1>5, <1>6, <1>7

(***************************************************************************)
(* With its first element a free block becomes the last filled one.        *)
(***************************************************************************)
LEMMA PublishAheadStep ==
  ASSUME QueueInv, PublishAhead
  PROVE  QueueInv'
<1> USE DEF QueueInv
<1> DEFINE n == Following
<1>1. /\ UNCHANGED consumerVars /\ tailBlock' = tailBlock /\ frontBlock' = frontBlock
      /\ UNCHANGED <<largestBlockSize, enqueueVars>>
      /\ producer = "publishAhead" /\ producer' = "advance" /\ PublishCell(n)
      /\ tailBlock \in Blocks /\ frontBlock \in Blocks /\ n \in Blocks /\ n \in Ring
      /\ n # frontBlock /\ block[n].localFront = block[n].tail
      /\ LastFilled = tailBlock
  BY PlaceFacts DEF PublishAhead, Produces, consumerVars, ProducerInv, LastFilled
<1>2. Free(n) /\ n # tailBlock /\ n = block[tailBlock].next
  BY <1>1 DEF RingInv, Free, Following
<1> HIDE DEF n
<1>3. Succ(block[n].tail, block[n].size) # block[n].localFront
  <2>1. /\ block[n].tail \in 0 .. block[n].size - 1
        /\ block[n].size \in Nat /\ block[n].size >= 2
    BY <1>1, BlockFacts DEF IndexOK
  <2>2. Succ(block[n].tail, block[n].size) # block[n].tail
    BY <2>1 DEF Succ
  <2> QED
    BY <1>1, <2>2
<1>4. /\ BlocksInv' /\ Blocks' = Blocks /\ Len(block') = Len(block)
      /\ block'[n].tail = Succ(block[n].tail, block[n].size)
      /\ Succ(block[n].tail, block[n].size) # block[n].front
      /\ \A c \in Blocks :
           /\ c # n => block'[c].tail = block[c].tail
           /\ block'[c].front = block[c].front /\ block'[c].localTail = block[c].localTail
           /\ block'[c].next = block[c].next
  BY <1>1, <1>3, TailMoved
<1>5. Following' = n /\ n' = n
  BY <1>1, <1>2, <1>4 DEF Following, n
<1>6. ValuesInv'
  BY <1>1 DEF ValuesInv, ProducerPcs, consumerVars, enqueueVars
<1>7. RingInv'
  <2>1. LastFilled' = n /\ Ring' = Ring /\ Ring \subseteq Blocks
    BY <1>1, <1>4, <1>5, PlaceFacts DEF LastFilled, Ring
  <2>2. ~EmptyBlock(n)' /\ \A b \in Ring : b # n => (EmptyBlock(b)' <=> EmptyBlock(b))
    BY <1>1, <1>4, <1>5, <2>1 DEF EmptyBlock
  <2>3. tailBlock # frontBlock => ~EmptyBlock(tailBlock)
    BY <1>1 DEF RingInv
  <2>4. \A b \in Ring : Free(b)' <=> Free(b) /\ b # n
    BY <1>1, <2>1, <2>2, <2>3 DEF Free
  <2>5. \A b \in Ring : /\ block'[b].next = block[b].next /\ block[b].next \in Ring
                        /\ block[b].next = n => b = tailBlock
    BY <1>1, <1>2, <1>4, <2>1 DEF RingInv
  <2>6. ~Free(tailBlock)
    BY <1>1 DEF Free
  <2>7. \A b \in Ring : Free(b)' \/ b = n
          => Free(block[b].next)' \/ block[b].next = frontBlock
    <3> SUFFICES ASSUME NEW b \in Ring, Free(b)' \/ b = n
                 PROVE  Free(block[b].next)' \/ block[b].next = frontBlock
      OBVIOUS
    <3>1. Free(b) /\ b # tailBlock
      BY <1>2, <2>4, <2>6
    <3>2. block[b].next # n
      BY <2>5, <3>1
    <3> QED
      BY <2>4, <2>5, <3>1, <3>2 DEF RingInv
  <2>8. \A b \in Ring : ~(Free(b)' \/ b = n)
          => ~(Free(block[b].next)' \/ block[b].next = frontBlock)
    <3> SUFFICES ASSUME NEW b \in Ring, ~(Free(b)' \/ b = n)
                 PROVE  ~(Free(block[b].next)' \/ block[b].next = frontBlock)
      OBVIOUS
    <3>1. ~Free(b)
      BY <2>4
    <3>2. CASE b = tailBlock
      BY <1>1, <1>2, <2>1, <2>4, <2>5, <3>2
    <3>3. CASE b # tailBlock
      BY <1>1, <2>4, <2>5, <3>1, <3>3 DEF RingInv
    <3> QED
      BY <3>2, <3>3
  <2>9. \A b, c \in Ring : block[b].next = block[c].next => b = c
    BY DEF RingInv
  <2>10. tailBlock \in Ring /\ frontBlock \in Ring
    BY DEF RingInv
  <2>11. /\ frontBlock' \in Ring' /\ tailBlock' \in Ring'
         /\ \A b \in Ring' : block'[b].next \in Ring'
         /\ \A b, c \in Ring' : block'[b].next = block'[c].next => b = c
         /\ LastFilled' # frontBlock' => ~EmptyBlock(LastFilled)'
    BY <1>1, <1>5, <2>1, <2>2, <2>5, <2>9, <2>10
  <2>12. \A b \in Ring' : Free(b)' \/ b = LastFilled'
           => Free(block[b].next)' \/ block'[b].next = frontBlock'
    BY <1>1, <2>1, <2>5, <2>7
  <2>13. \A b \in Ring' : ~(Free(b)' \/ b = LastFilled')
           => ~(Free(block[b].next)' \/ block'[b].next = frontBlock')
    BY <1>1, <2>1, <2>5, <2>8
  <2> QED
    BY <2>11, <2>12, <2>13 DEF RingInv
<1>8. ProducerInv'
  BY <1>1, <1>5 DEF ProducerInv
<1>9. ConsumerInv'
  BY <1>1, <1>4, ConsumerKept
<1>10. CellsInv'
  <2>1. /\ \A i : Filled(n, i) <=> i = block[n].tail
        /\ \A c, i : c # n => ~Filled(c, i)
        /\ \A c, i : ~Filled(c, i)'
    BY <1>1 DEF Filled, n
  <2> QED
    BY <1>1, <1>3, <2>1, CellPublished
<1> QED
  BY <1>4, <1>6, <1>7, <1>8, <1>9, <1>10

-----------------------------------------------------------------------------
(***************************************************************************)
(* The store to front.                                                     *)
(***************************************************************************)
LEMMA ReleaseStep ==
  ASSUME QueueInv, Release
  PROVE  QueueInv'
<1> USE DEF QueueInv
<1> DEFINE b == frontBlock
           f == block[b].front
           s == Succ(f, block[b].size)
<1>1. /\ UNCHANGED <<producerVars, frontBlock, call, nextBlock, result, sawEmpty>>
      /\ consumer = "release" /\ consumer' = "idle"
      /\ tailBlock' = tailBlock /\ producer' = producer
      /\ block' = [block EXCEPT ![b].front = After(b, @)]
      /\ f # block[b].localTail
      /\ b \in Blocks /\ tailBlock \in Blocks /\ Following \in Blocks
  BY PlaceFacts DEF Release, Consumes, producerVars, ConsumerInv, FrontIndex
<1>2. b = frontBlock /\ b' = frontBlock
  BY <1>1
<1> HIDE DEF b
<1>3. /\ BlocksInv' /\ Blocks' = Blocks /\ Len(block') = Len(block)
      /\ block'[b].front = s /\ f # block[b].tail
      /\ \A c \in Blocks :
           /\ c # b => block'[c].front = block[c].front
           /\ block'[c].tail = block[c].tail /\ block'[c].localFront = block[c].localFront
           /\ block'[c].localTail = block[c].localTail
           /\ block'[c].next = block[c].next /\ block'[c].size = block[c].size
           /\ block'[c].data = block[c].data
  BY <1>1, FrontMoved
<1> HIDE DEF f, s
<1>4. ValuesInv'
  BY <1>1 DEF ValuesInv, ConsumerPcs, producerVars, enqueueVars
<1>5. RingInv'
  <2>1. SameRing
    BY <1>1, <1>2, <1>3, PlaceFacts
       DEF SameRing, Ring, LastFilled, Following, EmptyBlock, RingInv
  <2> QED
    BY <2>1, RingKept
<1>6. ProducerInv'
  <2>1. producer = "link" => Len(block) \in Blocks /\ b # Len(block)
    BY BlockFacts, <1>1, <1>2 DEF ProducerInv, Blocks, RingInv, Ring
  <2> QED
    BY <1>1, <1>3, <2>1, ProducerKept DEF ProducerInv
<1>7. ConsumerInv'
  BY <1>1 DEF ConsumerInv
<1>8. CellsInv'
  <2> SUFFICES ASSUME NEW c \in Blocks, NEW i \in 0 .. block[c].size - 1
               PROVE  block[c].data[i] # None <=> Holds(c, i)'
    BY <1>3 DEF CellsInv
  <2>1. block[c].data[i] # None <=> Holds(c, i)
    BY DEF CellsInv
  <2>2. ~Emptied(c, i)' /\ (Emptied(c, i) <=> c = b /\ i = f)
    BY <1>1, <1>2 DEF Emptied, f
  <2>3. Filled(c, i)' <=> Filled(c, i)
    BY <1>1, <1>3 DEF Filled, Following
  <2>4. CASE c # b
    <3>1. Occupied(block[c], i)' <=> Occupied(block[c], i)
      BY <1>3, <2>4 DEF Occupied
    <3> QED
      BY <2>1, <2>2, <2>3, <2>4, <3>1 DEF Holds
  <2>5. CASE c = b
    <3>1. /\ block[b].size \in Nat /\ f \in 0 .. block[b].size - 1
          /\ block[b].tail \in 0 .. block[b].size - 1
      BY <1>1, BlockFacts DEF IndexOK, f
    <3>2. Occupied(block[b], i)' <=> Occupied(block[b], i) /\ i # f
      <4>1. Dist(s, i, block[b].size) < Dist(s, block[b].tail, block[b].size)
              <=> Dist(f, i, block[b].size) < Dist(f, block[b].tail, block[b].size) /\ i # f
        BY <1>3, <2>5, <3>1, OneLess DEF s
      <4>2. Occupied(block[b], i)'
              <=> Dist(s, i, block[b].size) < Dist(s, block[b].tail, block[b].size)
        BY <1>1, <1>2, <1>3 DEF Occupied
      <4> QED
        BY <4>1, <4>2 DEF Occupied, f
    <3> QED
      BY <1>1, <1>2, <2>1, <2>2, <2>3, <2>5, <3>2 DEF Holds
  <2> QED
    BY <2>4, <2>5
<1> QED
  BY <1>3, <1>4, <1>5, <1>6, <1>7, <1>8

-----------------------------------------------------------------------------
(***************************************************************************)
(* A new block: it is made with the element in it, and it is not on the    *)
(* ring until it is linked.                                                *)
(***************************************************************************)
LEMMA MadeBlock ==
  ASSUME QueueInv, element \in Elements, Following \in Nat
  PROVE  /\ BlockWith \in BlockSet /\ IndexOK(BlockWith) /\ NextSize \in PowersOfTwo
         /\ BlockWith.front = 0 /\ BlockWith.tail = 1 /\ BlockWith.size = NextSize
         /\ BlockWith.next = Following
         /\ \A i \in 0 .. NextSize - 1 :
              BlockWith.data[i] = (IF i = 0 THEN element ELSE None)
<1>1. NextSize \in PowersOfTwo
  BY QueueAssumption, PowerLiterals DEF QueueInv, ValuesInv, NextSize
<1>2. NextSize \in Nat /\ NextSize >= 2
  BY <1>1, Powers
<1> DEFINE d == [i \in 0 .. NextSize - 1 |-> IF i = 0 THEN element ELSE None]
<1>3. d \in [0 .. NextSize - 1 -> Cell]
  BY DEF Cell
<1>4. BlockWith = [front |-> 0, tail |-> 1, localFront |-> 0, localTail |-> 1,
                   next |-> Following, size |-> NextSize, data |-> d]
  <2> DEFINE e == [i \in 0 .. NextSize - 1 |-> None]
             r == NewBlock(NextSize, Following)
  <2>1. d = [e EXCEPT ![0] = element]
    BY <1>2
  <2>2. r = [front |-> 0, tail |-> 0, localFront |-> 0, localTail |-> 0,
             next |-> Following, size |-> NextSize, data |-> e]
    BY DEF NewBlock
  <2>3. BlockWith = [r EXCEPT !.data = [r.data EXCEPT ![0] = element],
                              !.tail = 1, !.localTail = 1]
    BY DEF BlockWith
  <2>4. r.data = e
    BY <2>2
  <2> HIDE DEF d, e, r
  <2> QED
    BY <2>1, <2>2, <2>3, <2>4
<1> HIDE DEF d
<1>5. BlockWith \in BlockSet
  BY <1>2, <1>3, <1>4 DEF BlockSet
<1>6. IndexOK(BlockWith)
  BY <1>1, <1>2, <1>3, <1>4 DEF IndexOK, Between, Dist
<1>7. \A i \in 0 .. NextSize - 1 : d[i] = (IF i = 0 THEN element ELSE None)
  BY DEF d
<1> QED
  BY <1>1, <1>4, <1>5, <1>6, <1>7

LEMMA AllocateStep ==
  ASSUME QueueInv, Allocate
  PROVE  QueueInv'
<1> USE DEF QueueInv
<1> DEFINE n == Len(block) + 1
<1>1. /\ UNCHANGED consumerVars /\ tailBlock' = tailBlock /\ frontBlock' = frontBlock
      /\ UNCHANGED enqueueVars /\ largestBlockSize' = NextSize
      /\ producer = "alloc" /\ producer' = "link" /\ block' = Append(block, BlockWith)
      /\ tailBlock \in Blocks /\ frontBlock \in Blocks /\ Following \in Blocks
      /\ Len(block) \in Nat /\ block \in Seq(BlockSet) /\ element \in Elements
  BY PlaceFacts DEF Allocate, Produces, consumerVars, BlocksInv, ValuesInv
<1>2. /\ BlockWith \in BlockSet /\ IndexOK(BlockWith) /\ NextSize \in PowersOfTwo
      /\ BlockWith.front = 0 /\ BlockWith.tail = 1 /\ BlockWith.size = NextSize
      /\ BlockWith.next = Following
      /\ \A i \in 0 .. NextSize - 1 :
           BlockWith.data[i] = (IF i = 0 THEN element ELSE None)
  BY <1>1, BlockFacts, MadeBlock
<1>3. /\ block' \in Seq(BlockSet) /\ Len(block') = n /\ block'[n] = BlockWith
      /\ \A c \in Blocks : block'[c] = block[c]
      /\ Blocks' = Blocks \cup {n} /\ n \notin Blocks
  BY <1>1, <1>2 DEF Blocks
<1>4. BlocksInv'
  BY <1>2, <1>3 DEF BlocksInv, IndexOK
<1>5. ValuesInv'
  BY <1>1, <1>2 DEF ValuesInv, ProducerPcs, consumerVars, enqueueVars
<1>6. RingInv'
  <2>1. Ring = Blocks /\ Ring' = Blocks
    BY <1>1, <1>3 DEF Ring, Blocks
  <2>2. SameRing
    BY <1>1, <1>3, <2>1 DEF SameRing, LastFilled, EmptyBlock, RingInv
  <2> QED
    BY <2>2, RingKept
<1>7. Following' = Following
  BY <1>1, <1>3 DEF Following
<1>8. ProducerInv'
  <2>1. n > 1
    BY <1>1 DEF Blocks
  <2>2. block'[n].front # block'[n].tail
    BY <1>2, <1>3
  <2> QED
    BY <1>1, <1>2, <1>3, <1>7, <2>1, <2>2 DEF ProducerInv, EmptyBlock
<1>9. ConsumerInv'
  BY <1>1, <1>3, ConsumerKept
<1>10. CellsInv'
  <2> SUFFICES ASSUME NEW c \in Blocks \cup {n}, NEW i \in 0 .. block'[c].size - 1
               PROVE  block'[c].data[i] # None <=> Holds(c, i)'
    BY <1>3 DEF CellsInv
  <2>1. ~Filled(c, i) /\ ~Filled(c, i)'
    BY <1>1 DEF Filled
  <2>2. CASE c \in Blocks
    <3>1. Emptied(c, i)' <=> Emptied(c, i)
      BY <1>1, <1>3, <2>2 DEF Emptied, consumerVars
    <3>2. Occupied(block[c], i)' <=> Occupied(block[c], i)
      BY <1>3, <2>2 DEF Occupied
    <3>3. block[c].data[i] # None <=> Holds(c, i)
      BY <1>3, <2>2 DEF CellsInv
    <3> QED
      BY <1>3, <2>1, <2>2, <3>1, <3>2, <3>3 DEF Holds
  <2>3. CASE c = n
    <3>1. NextSize \in Nat /\ NextSize >= 2 /\ i \in 0 .. NextSize - 1
      BY <1>2, <1>3, <2>3, Powers
    <3>2. ~Emptied(c, i)'
      BY <1>1, <1>3, <2>3 DEF Emptied, consumerVars
    <3>3. Occupied(block[c], i)' <=> i = 0
      BY <1>2, <1>3, <2>3, <3>1 DEF Occupied, Dist
    <3>4. block'[c].data[i] = (IF i = 0 THEN element ELSE None)
      BY <1>2, <1>3, <2>3, <3>1
    <3>5. element # None
      BY <1>1, QueueAssumption
    <3> QED
      BY <2>1, <3>2, <3>3, <3>4, <3>5 DEF Holds
  <2> QED
    BY <2>2, <2>3
<1> QED
  BY <1>4, <1>5, <1>6, <1>8, <1>9, <1>10

(***************************************************************************)
(* The new block is inserted behind the one that was the last filled one.  *)
(***************************************************************************)
LEMMA LinkStep ==
  ASSUME QueueInv, Link
  PROVE  QueueInv'
<1> USE DEF QueueInv
<1> DEFINE n == Len(block)
           t == tailBlock
           r == [block[t] EXCEPT !.next = n]
<1>1. /\ UNCHANGED consumerVars /\ tailBlock' = t /\ frontBlock' = frontBlock
      /\ UNCHANGED <<largestBlockSize, enqueueVars>>
      /\ producer = "link" /\ producer' = "advance"
      /\ block' = [block EXCEPT ![t] = r]
      /\ n \in Nat /\ n > 1 /\ n \in Blocks
      /\ Ring = 1 .. n - 1 /\ frontBlock \in Ring /\ t \in Ring
      /\ LastFilled = t
      /\ block[n].next = block[t].next /\ ~EmptyBlock(n)
  BY DEF Link, Produces, consumerVars, ProducerInv, Blocks, BlocksInv, RingInv,
                   Ring, LastFilled, Following
<1>2. /\ frontBlock \in Blocks /\ t \in Blocks /\ block[t] \in BlockSet /\ IndexOK(block[t])
  BY PlaceFacts, BlockFacts
<1>3. /\ r \in BlockSet /\ IndexOK(r) /\ r.next = n
      /\ r.front = block[t].front /\ r.tail = block[t].tail /\ r.localFront = block[t].localFront
      /\ r.localTail = block[t].localTail /\ r.size = block[t].size /\ r.data = block[t].data
  BY <1>1, <1>2 DEF BlockSet, IndexOK
<1> HIDE DEF r
<1>4. /\ BlocksInv' /\ Blocks' = Blocks /\ Len(block') = n
      /\ block'[t] = r /\ \A c \in Blocks : c # t => block'[c] = block[c]
  <2>1. block \in Seq(BlockSet)
    BY DEF BlocksInv
  <2> QED
    BY <1>1, <1>2, <1>3, <2>1, BlockReplaced, ReplacedInv
<1> HIDE DEF n, t
<1>5. /\ block'[t].next = n
      /\ \A c \in Blocks :
           /\ c # t => block'[c].next = block[c].next
           /\ block'[c].front = block[c].front /\ block'[c].tail = block[c].tail
           /\ block'[c].localFront = block[c].localFront
           /\ block'[c].localTail = block[c].localTail
           /\ block'[c].size = block[c].size /\ block'[c].data = block[c].data
  BY <1>3, <1>4
<1>6. /\ Following' = n /\ LastFilled' = n /\ Ring' = Ring \cup {n} /\ n \notin Ring
      /\ Ring \subseteq Blocks
  BY <1>1, <1>4, <1>5 DEF Following, LastFilled, Ring, Blocks
<1>7. ValuesInv'
  BY <1>1 DEF ValuesInv, ProducerPcs, consumerVars, enqueueVars
<1>8. RingInv'
  <2>1. \A b \in Blocks : EmptyBlock(b)' <=> EmptyBlock(b)
    BY <1>5 DEF EmptyBlock
  <2>2. t # frontBlock => ~EmptyBlock(t)
    BY <1>1 DEF RingInv
  <2>3. \A b \in Blocks : Free(b)' <=> Free(b) /\ b # n
    BY <1>1, <1>2, <1>6, <2>1, <2>2 DEF Free
  <2>4. \A b \in Ring : block[b].next \in Ring
    BY DEF RingInv
  <2>5. \A b \in Ring : b # t => block'[b].next = block[b].next /\ block[b].next \in Ring
    BY <1>5, <1>6, <2>4
  <2>6. block'[n].next = block[t].next /\ block[t].next \in Ring
    BY <1>1, <1>4, <1>6, <2>4
  <2>7. \A b, c \in Ring \cup {n} : block'[b].next = block'[c].next => b = c
    <3>1. \A b, c \in Ring : block[b].next = block[c].next => b = c
      BY DEF RingInv
    <3> QED
      BY <1>1, <1>5, <1>6, <2>5, <2>6, <3>1
  <2>8. ASSUME NEW b \in Ring \cup {n}, Free(b)' \/ b = n
        PROVE  Free(block[b].next)' \/ block'[b].next = frontBlock
    <3>1. block[t].next \in Ring => Free(block[t].next) \/ block[t].next = frontBlock
      BY <1>1 DEF RingInv
    <3>2. CASE b = n
      BY <1>6, <2>3, <2>6, <3>1, <3>2
    <3>3. CASE b # n
      <4>1. b \in Ring /\ Free(b) /\ b # t
        BY <1>1, <1>6, <2>3, <2>8, <3>3 DEF Free
      <4>2. Free(block[b].next) \/ block[b].next = frontBlock
        BY <4>1 DEF RingInv
      <4> QED
        BY <1>6, <2>3, <2>5, <4>1, <4>2
    <3> QED
      BY <3>2, <3>3
  <2>9. ASSUME NEW b \in Ring \cup {n}, ~(Free(b)' \/ b = n)
        PROVE  ~(Free(block[b].next)' \/ block'[b].next = frontBlock)
    <3>1. b \in Ring /\ ~Free(b)
      BY <1>6, <2>3, <2>9
    <3>2. CASE b = t
      BY <1>1, <1>5, <1>6, <2>3, <3>2
    <3>3. CASE b # t
      <4>1. ~(Free(block[b].next) \/ block[b].next = frontBlock)
        BY <1>1, <3>1, <3>3 DEF RingInv
      <4> QED
        BY <1>6, <2>3, <2>5, <3>1, <3>3, <4>1
    <3> QED
      BY <3>2, <3>3
  <2>10. /\ frontBlock' \in Ring' /\ tailBlock' \in Ring'
         /\ \A b \in Ring' : block'[b].next \in Ring'
         /\ \A b, c \in Ring' : block'[b].next = block'[c].next => b = c
    BY <1>1, <1>5, <1>6, <2>5, <2>6, <2>7
  <2>11. LastFilled' # frontBlock' => ~EmptyBlock(LastFilled)'
    BY <1>1, <1>5, <1>6 DEF EmptyBlock
  <2> QED
    BY <1>1, <1>6, <2>8, <2>9, <2>10, <2>11 DEF RingInv
<1>9. ProducerInv'
  BY <1>1, <1>6 DEF ProducerInv
<1>10. ConsumerInv'
  BY <1>1, <1>5, ConsumerKept DEF t
<1>11. CellsInv'
  <2>1. \A b, i : (Emptied(b, i)' <=> Emptied(b, i)) /\ (Filled(b, i)' <=> Filled(b, i))
    BY <1>1, <1>2, <1>5 DEF Emptied, Filled, consumerVars
  <2> QED
    BY <1>4, <1>5, <2>1, CellsKept
<1> QED
  BY <1>4, <1>7, <1>8, <1>9, <1>10, <1>11

-----------------------------------------------------------------------------
LEMMA StepQueue == QueueInv /\ [Next]_vars => QueueInv'
<1> SUFFICES ASSUME QueueInv, [Next]_vars
             PROVE  QueueInv'
  OBVIOUS
<1>1. CASE Producer
  BY <1>1, EnqueueStep, ReloadFrontStep, WriteStep, PublishStep, CheckFollowingStep,
     UseFollowingStep, PublishAheadStep, AllocateStep, FailToAllocateStep, LinkStep,
     AdvanceTailStep DEF Producer
<1>2. CASE Consumer
  BY <1>2, DequeueStep, LoadTailStep, CheckTailStep, ReadNextStep, PeekNextStep,
     LookAheadStep, AdvanceFrontStep, TakeStep, PeekStep, ReleaseStep DEF Consumer
<1>3. CASE UNCHANGED vars
  <2>1. /\ UNCHANGED <<block, frontBlock, producerVars, consumerVars>>
        /\ consumer' = consumer /\ tailBlock' = tailBlock /\ producer' = producer
    BY <1>3 DEF vars, consumerVars, producerVars
  <2>2. ValuesInv' /\ BlocksInv'
    BY <2>1 DEF QueueInv, ValuesInv, BlocksInv, Blocks, consumerVars, producerVars, enqueueVars
  <2>3. RingInv'
    BY <2>1 DEF QueueInv, RingInv, Ring, Blocks, LastFilled, Following, Free, EmptyBlock
  <2>4. ProducerInv' /\ ConsumerInv'
    BY <2>1 DEF QueueInv, ProducerInv, ConsumerInv, Following, EmptyBlock, FrontIndex,
                consumerVars
  <2>5. CellsInv'
    BY <2>1 DEF QueueInv, CellsInv, Blocks, Holds, Occupied, Emptied, Filled, Following
  <2> QED
    BY <2>2, <2>3, <2>4, <2>5 DEF QueueInv
<1> QED
  BY <1>1, <1>2, <1>3 DEF Next

LEMMA AlwaysQueueInv == Spec => []QueueInv
BY InitQueue, StepQueue, PTL DEF Spec

(***************************************************************************)
(* The variables of the queue keep their types: in particular every index  *)
(* stays within its block and every link leads to a block.                 *)
(***************************************************************************)
THEOREM QueueTypeCorrect == Spec => []QueueTypeOK
<1>1. QueueInv => QueueTypeOK
  <2> SUFFICES ASSUME QueueInv
               PROVE  QueueTypeOK
    OBVIOUS
  <2>1. \A b \in Blocks : block[b].next \in Blocks
    <3> SUFFICES ASSUME NEW b \in Blocks
                 PROVE  block[b].next \in Blocks
      OBVIOUS
    <3>1. CASE b \in Ring
      BY <3>1, PlaceFacts DEF QueueInv, RingInv
    <3>2. CASE b \notin Ring
      <4>1. producer = "link" /\ b = Len(block)
        BY <3>2 DEF Ring, Blocks, QueueInv, BlocksInv
      <4> QED
        BY <4>1, PlaceFacts DEF QueueInv, ProducerInv
    <3> QED
      BY <3>1, <3>2
  <2>2. \A b \in Blocks : BlockTypeOK(b)
    BY <2>1 DEF QueueInv, BlocksInv, IndexOK, BlockTypeOK, Cell
  <2>3. /\ frontBlock \in Blocks /\ tailBlock \in Blocks
        /\ nextBlock \in Blocks \cup {0}
    BY PlaceFacts DEF QueueInv, ConsumerInv
  <2> QED
    BY <2>2, <2>3 DEF QueueInv, ValuesInv, ProducerPcs, ConsumerPcs, Cell, QueueTypeOK
<1> QED
  BY <1>1, AlwaysQueueInv, PTL

(***************************************************************************)
(* Neither thread ever finds the block it advances to in a state that its  *)
(* assertion forbids (lines 272 and 479), however their steps interleave.  *)
(***************************************************************************)
THEOREM AssertionsNeverFail == Spec => []AssertionsHold
<1>1. QueueInv => AssertionsHold
  BY DEF QueueInv, ValuesInv, ProducerPcs, ConsumerPcs, AssertionsHold
<1> QED
  BY <1>1, AlwaysQueueInv, PTL

(***************************************************************************)
(* The two threads never touch the same cell: the producer constructs only *)
(* where nothing is, the consumer takes only what has been published.      *)
(***************************************************************************)
THEOREM CellsHaveOneOwner == Spec => []CellsAreOwned
<1>1. QueueInv => CellsAreOwned
  <2> SUFFICES ASSUME QueueInv
               PROVE  CellsAreOwned
    OBVIOUS
  <2>1. ASSUME NEW b \in Blocks, producer \in {"write", "writeAhead"}
        PROVE  block[b].data[block[b].tail] = None
    <3>1. block[b].tail \in 0 .. block[b].size - 1
      BY BlockFacts DEF QueueInv, IndexOK
    <3>2. ~Occupied(block[b], block[b].tail) /\ ~Filled(b, block[b].tail)
      BY <2>1, <3>1, BlockFacts DEF QueueInv, IndexOK, Occupied, Filled, Dist
    <3> QED
      BY <3>1, <3>2 DEF QueueInv, CellsInv, Holds
  <2>2. ASSUME consumer = "take"
        PROVE  block[frontBlock].data[FrontIndex] # None
    <3> DEFINE f == block[frontBlock].front
    <3>1. /\ frontBlock \in Blocks /\ f \in 0 .. block[frontBlock].size - 1
          /\ block[frontBlock].tail \in 0 .. block[frontBlock].size - 1
          /\ block[frontBlock].size \in Nat /\ f # block[frontBlock].tail
      BY <2>2, PlaceFacts, BlockFacts, FrontHolds DEF QueueInv, IndexOK, EmptyBlock
    <3>2. Occupied(block[frontBlock], f) /\ ~Emptied(frontBlock, f)
      BY <2>2, <3>1 DEF Occupied, Dist, Emptied
    <3> QED
      BY <3>1, <3>2 DEF QueueInv, CellsInv, Holds, FrontIndex
  <2>3. tailBlock \in Blocks /\ Following \in Blocks
    BY PlaceFacts DEF QueueInv
  <2> QED
    BY <2>1, <2>2, <2>3 DEF CellsAreOwned
<1> QED
  BY <1>1, AlwaysQueueInv, PTL

(***************************************************************************)
(* Between the calls the cells from front to tail of each block hold the   *)
(* elements, all of them, and the other cells hold none.                   *)
(***************************************************************************)
THEOREM NothingIsLeaked == Spec => []NothingLeaks
<1>1. QueueInv => NothingLeaks
  <2> SUFFICES ASSUME QueueInv, producer = "idle", consumer = "idle",
                      NEW b \in Blocks, NEW i \in 0 .. block[b].size - 1
               PROVE  block[b].data[i] # None <=> InUse(b, i)
    BY DEF NothingLeaks
  <2>1. block[b].data[i] # None <=> Holds(b, i)
    BY DEF QueueInv, CellsInv
  <2>2. Holds(b, i) <=> Occupied(block[b], i)
    BY DEF Holds, Emptied, Filled
  <2>3. /\ block[b].size \in Nat /\ block[b].front \in 0 .. block[b].size - 1
        /\ block[b].tail \in 0 .. block[b].size - 1
    BY BlockFacts DEF QueueInv, IndexOK
  <2>4. Occupied(block[b], i) <=> InUse(b, i)
    BY <2>3, DistIsModulo DEF Occupied, InUse
  <2> QED
    BY <2>1, <2>2, <2>4
<1> QED
  BY <1>1, AlwaysQueueInv, PTL

-----------------------------------------------------------------------------
(***************************************************************************)
(* Induction.  The provers cannot be given an operator, so it is made with *)
(* sets: a set of numbers that is not empty has a least element, because   *)
(* strict inclusion among the subsets of an interval is well-founded.      *)
(***************************************************************************)
LEMMA LeastElement ==
  ASSUME NEW T \in SUBSET Nat, NEW k \in T
  PROVE  \E n \in T : \A m \in T : n <= m
<1> DEFINE S == {0 .. n : n \in {m \in T : m <= k}}
           R == StrictSubsetOrdering(0 .. k)
<1>1. IsFiniteSet(0 .. k)
  BY FS_Interval
<1>2. FiniteSubsetsOf(0 .. k) = SUBSET (0 .. k)
  BY <1>1, FS_FiniteSubsetsOfFinite
<1>3. IsWellFoundedOn(R, SUBSET (0 .. k))
  BY <1>2, FS_StrictSubsetOrderingWellFounded
<1>4. S \subseteq SUBSET (0 .. k) /\ S # {}
  OBVIOUS
<1>5. \E x \in S : \A y \in S : ~(<<y, x>> \in R)
  <2> HIDE DEF S, R
  <2> QED
    BY <1>3, <1>4, WFMin
<1>6. PICK n \in T : n <= k /\ \A y \in S : ~(<<y, 0 .. n>> \in R)
  BY <1>5
<1>7. ASSUME NEW m \in T, m < n
      PROVE  FALSE
  <2>1. /\ 0 .. m \in S /\ 0 .. m # 0 .. n /\ 0 .. m \subseteq 0 .. n
        /\ 0 .. m \subseteq 0 .. k /\ 0 .. n \subseteq 0 .. k
    BY <1>6, <1>7
  <2>2. <<0 .. m, 0 .. n>> \in R
    BY <2>1 DEF StrictSubsetOrdering
  <2> QED
    BY <1>6, <2>1, <2>2
<1> QED
  BY <1>6, <1>7

LEMMA SetInduction ==
  ASSUME NEW S, 0 \in S, \A n \in Nat : n \in S => n + 1 \in S
  PROVE  Nat \subseteq S
<1> SUFFICES ASSUME NEW k \in Nat, k \notin S
             PROVE  FALSE
  OBVIOUS
<1> DEFINE T == Nat \ S
<1>1. T \in SUBSET Nat /\ k \in T
  OBVIOUS
<1>2. PICK n \in T : \A m \in T : n <= m
  <2> HIDE DEF T
  <2> QED
    BY <1>1, LeastElement
<1>3. n \in Nat /\ n # 0 /\ n - 1 \in Nat /\ n - 1 \notin T
  BY <1>2
<1>4. (n - 1) + 1 \in S
  BY <1>3
<1> QED
  BY <1>2, <1>3, <1>4

-----------------------------------------------------------------------------
(***************************************************************************)
(* The blocks of the ring are one cycle, said without a walk: a set of     *)
(* blocks that no link leads out of is all of them.                        *)
(***************************************************************************)
Closed(S) == \A b \in S : block[b].next \in S

OneCycle == \A S \in SUBSET Ring : S # {} /\ Closed(S) => S = Ring

LEMMA InitOneCycle == Init => OneCycle
<1> SUFFICES ASSUME Init, NEW S \in SUBSET Ring, NEW k \in S, Closed(S)
             PROVE  S = Ring
  BY DEF OneCycle
<1> DEFINE n == InitialBlockCount
<1>1. n \in Nat /\ n >= 1
  BY InitialSizes
<1>2. Ring = 1 .. n
  <2>1. DOMAIN block = 1 .. n /\ producer = "idle"
    BY DEF Init
  <2>2. block \in Seq(BlockSet)
    BY InitQueue DEF QueueInv, BlocksInv
  <2>3. Len(block) = n
    <3> HIDE DEF n
    <3> QED
      BY <1>1, <2>1, <2>2
  <2> QED
    BY <2>1, <2>3 DEF Ring, Blocks
<1>3. \A b \in 1 .. n : block[b].next = (IF b = n THEN 1 ELSE b + 1)
  <2> SUFFICES ASSUME NEW b \in 1 .. n
               PROVE  block[b].next = (IF b = n THEN 1 ELSE b + 1)
    OBVIOUS
  <2>1. block[b].next = (b % n) + 1
    BY DEF Init, NewBlock
  <2> HIDE DEF n
  <2>2. PICK i \in 0 .. n - 1 : b = i + 1
    BY <1>1
  <2>3. (i + 1) % n = Succ(i, n)
    BY <1>1, SuccIsModulo
  <2> QED
    BY <1>1, <2>1, <2>2, <2>3 DEF Succ
<1> HIDE DEF n
<1>4. \A b \in S : b \in 1 .. n /\ (IF b = n THEN 1 ELSE b + 1) \in S
  BY <1>2, <1>3 DEF Closed
<1>5. n \in S
  <2> DEFINE T == {n - b : b \in S}
  <2>1. T \in SUBSET Nat /\ n - k \in T
    BY <1>1, <1>4
  <2>2. PICK m \in T : \A x \in T : m <= x
    <3> HIDE DEF T
    <3> QED
      BY <2>1, LeastElement
  <2>3. PICK b \in S : m = n - b
    BY <2>2
  <2>4. ASSUME b # n
        PROVE  FALSE
    <3>1. b + 1 \in S /\ b \in Nat
      BY <1>4, <2>4
    <3>2. n - (b + 1) \in T
      BY <3>1
    <3>3. n - b <= n - (b + 1)
      <4> HIDE DEF T
      <4> QED
        BY <2>2, <2>3, <3>2
    <3> QED
      BY <1>1, <3>1, <3>3
  <2> QED
    BY <2>3, <2>4
<1>6. 1 \in S
  BY <1>4, <1>5
<1>7. 1 .. n \subseteq S
  <2> DEFINE T == {i \in Nat : i + 1 \in S \/ i >= n}
  <2>1. 0 \in T
    BY <1>6
  <2>2. ASSUME NEW i \in Nat, i \in T
        PROVE  i + 1 \in T
    <3>1. CASE i >= n
      BY <1>1, <3>1
    <3>2. CASE ~(i >= n) /\ i + 1 = n
      BY <3>2
    <3>3. CASE ~(i >= n) /\ i + 1 # n
      <4>1. i + 1 \in S
        BY <2>2, <3>3
      <4>2. (i + 1) + 1 \in S
        BY <1>4, <3>3, <4>1
      <4> QED
        BY <4>2
    <3> QED
      BY <3>1, <3>2, <3>3
  <2>3. Nat \subseteq T
    <3> HIDE DEF T
    <3> QED
      BY <2>1, <2>2, SetInduction
  <2>4. ASSUME NEW b \in 1 .. n
        PROVE  b \in S
    <3>1. b - 1 \in Nat /\ b - 1 < n
      BY <1>1
    <3>2. b - 1 \in T
      BY <2>3, <3>1
    <3> QED
      BY <1>1, <3>1, <3>2
  <2> QED
    BY <2>4
<1> QED
  BY <1>2, <1>7

-----------------------------------------------------------------------------
(***************************************************************************)
(* What a step may change of the ring.                                     *)
(***************************************************************************)
LEMMA ConsumerMoves ==
  ASSUME QueueInv, Consumer
  PROVE  /\ UNCHANGED producerVars /\ Len(block') = Len(block)
         /\ \A b \in Blocks : /\ block'[b].next = block[b].next
                              /\ block'[b].tail = block[b].tail
                              /\ block'[b].size = block[b].size
         /\ \A b \in Blocks :
              \/ block'[b].front = block[b].front
              \/ /\ consumer = "release" /\ consumer' = "idle" /\ b = frontBlock
                 /\ block'[b].front = Succ(block[b].front, block[b].size)
                 /\ block[b].front # block[b].tail
         /\ \/ frontBlock' = frontBlock
            \/ /\ consumer = "advance" /\ frontBlock # tailBlock /\ EmptyBlock(frontBlock)
               /\ frontBlock' = block[frontBlock].next /\ block' = block
<1> USE DEF QueueInv
<1>0. frontBlock \in Blocks /\ nextBlock \in Blocks \cup {0}
      /\ block[frontBlock].next \in Blocks
  BY PlaceFacts DEF ConsumerInv
<1>1. CASE \E c \in ConsumerCalls : Dequeue(c)
  BY <1>1 DEF Dequeue
<1>2. CASE ReloadTail \/ CheckAgain
  <2>1. /\ block' = [block EXCEPT ![frontBlock].localTail = block[frontBlock].tail]
        /\ frontBlock' = frontBlock /\ UNCHANGED producerVars
    BY <1>2 DEF ReloadTail, CheckAgain, LoadTail
  <2> QED
    BY <1>0, <2>1, CopyOfTail
<1>3. CASE CheckTail \/ ReadNext \/ LookAhead \/ Peek
  BY <1>3 DEF CheckTail, ReadNext, LookAhead, Peek
<1>4. CASE PeekNext
  <2>1. /\ block' = [block EXCEPT ![nextBlock].localTail = block[nextBlock].tail]
        /\ frontBlock' = frontBlock /\ UNCHANGED producerVars /\ consumer = "peek"
    BY <1>4 DEF PeekNext, Consumes
  <2>2. nextBlock \in Blocks
    BY <1>0, <2>1 DEF ConsumerInv
  <2> QED
    BY <2>1, <2>2, CopyOfTail
<1>5. CASE AdvanceFront
  BY <1>5 DEF AdvanceFront, Consumes, ConsumerInv
<1>6. CASE Take \/ Pop
  <2>1. /\ block' = [block EXCEPT ![frontBlock].data[FrontIndex] = None]
        /\ frontBlock' = frontBlock /\ UNCHANGED producerVars
    BY <1>6 DEF Take, Pop
  <2>2. FrontIndex \in 0 .. block[frontBlock].size - 1 /\ None \in Cell
    BY <1>0, BlockFacts DEF Cell, IndexOK, FrontIndex
  <2> QED
    BY <1>0, <2>1, <2>2, CellSet
<1>7. CASE Release
  <2>1. /\ block' = [block EXCEPT ![frontBlock].front = After(frontBlock, @)]
        /\ frontBlock' = frontBlock /\ UNCHANGED producerVars
        /\ consumer = "release" /\ consumer' = "idle"
    BY <1>7 DEF Release, Consumes
  <2>2. block[frontBlock].front # block[frontBlock].localTail
    BY <2>1 DEF ConsumerInv, FrontIndex
  <2> QED
    BY <1>0, <2>1, <2>2, FrontMoved
<1> QED
  BY <1>1, <1>2, <1>3, <1>4, <1>5, <1>6, <1>7 DEF Consumer

LEMMA ProducerMoves ==
  ASSUME QueueInv, Producer
  PROVE  /\ UNCHANGED <<frontBlock, consumer, call, nextBlock, result, sawEmpty>>
         /\ producer' # "link" => Len(block') = Len(block)
         /\ producer' = "link" => Len(block') = Len(block) + 1
         /\ \A b \in Blocks : /\ block'[b].front = block[b].front
                              /\ block'[b].size = block[b].size
         /\ \A b \in Blocks :
              \/ block'[b].tail = block[b].tail
              \/ /\ block'[b].tail = Succ(block[b].tail, block[b].size)
                 /\ Succ(block[b].tail, block[b].size) # block[b].front
                 /\ \/ producer = "publish" /\ producer' = "idle" /\ b = tailBlock
                    \/ producer = "publishAhead" /\ producer' = "advance" /\ b = Following
         /\ producer # "link" => \A b \in Blocks : block'[b].next = block[b].next
<1> USE DEF QueueInv
<1>0. tailBlock \in Blocks /\ Following \in Blocks /\ block \in Seq(BlockSet)
  BY PlaceFacts DEF BlocksInv
<1>1. CASE (\E e \in Elements : Enqueue(e)) \/ CheckFollowing \/ FailToAllocate \/ AdvanceTail
  BY <1>1 DEF Enqueue, CheckFollowing, FailToAllocate, AdvanceTail, consumerVars, Produces
<1>2. CASE ReloadFront
  BY <1>0, <1>2, CopyOfFront DEF ReloadFront, consumerVars, Produces
<1>3. CASE UseFollowing
  BY <1>0, <1>3, CopyOfFront DEF UseFollowing, consumerVars, Produces
<1>4. CASE Write \/ WriteAhead
  <2>1. PICK b \in Blocks : /\ block' = [block EXCEPT ![b].data[block[b].tail] = element]
    BY <1>0, <1>4 DEF Write, WriteAhead, WriteCell
  <2>3. producer' # "link"
    BY <1>4 DEF Write, WriteAhead, Produces
  <2>2. block[b].tail \in 0 .. block[b].size - 1 /\ element \in Cell /\ UNCHANGED <<frontBlock, consumer, call, nextBlock, result, sawEmpty>>
    BY <1>4, BlockFacts DEF Write, WriteAhead, IndexOK, ValuesInv, consumerVars
  <2> QED
    BY <2>1, <2>2, <2>3, CellSet DEF consumerVars
<1>5. CASE Publish
  <2>1. /\ PublishCell(tailBlock) /\ UNCHANGED <<frontBlock, consumer, call, nextBlock, result, sawEmpty>>
        /\ Succ(block[tailBlock].tail, block[tailBlock].size) # block[tailBlock].localFront
        /\ producer = "publish" /\ producer' = "idle"
    BY <1>5 DEF Publish, Produces, ProducerInv, consumerVars
  <2> QED
    BY <1>0, <1>5, <2>1, TailMoved
<1>6. CASE PublishAhead
  <2>1. /\ PublishCell(Following) /\ UNCHANGED <<frontBlock, consumer, call, nextBlock, result, sawEmpty>>
        /\ block[Following].localFront = block[Following].tail
        /\ producer = "publishAhead" /\ producer' = "advance"
    BY <1>6 DEF PublishAhead, Produces, ProducerInv, consumerVars
  <2>2. Succ(block[Following].tail, block[Following].size) # block[Following].localFront
    BY <1>0, <2>1, BlockFacts DEF IndexOK, Succ
  <2> QED
    BY <1>0, <1>6, <2>1, <2>2, TailMoved
<1>7. CASE Allocate
  <2>1. /\ block' = Append(block, BlockWith) /\ UNCHANGED <<frontBlock, consumer, call, nextBlock, result, sawEmpty>>
        /\ producer = "alloc" /\ producer' = "link"
    BY <1>7 DEF Allocate, Produces, consumerVars
  <2>2. element \in Elements /\ Following \in Nat
    BY <1>0, <2>1, BlockFacts DEF ValuesInv
  <2>3. BlockWith \in BlockSet
    BY <2>2, MadeBlock
  <2>4. Len(block') = Len(block) + 1 /\ \A c \in Blocks : block'[c] = block[c]
    BY <1>0, <2>1, <2>3 DEF Blocks
  <2> QED
    BY <1>7, <2>1, <2>4
<1>8. CASE Link
  <2> DEFINE r == [block[tailBlock] EXCEPT !.next = Len(block)]
  <2>1. /\ block' = [block EXCEPT ![tailBlock] = r] /\ UNCHANGED <<frontBlock, consumer, call, nextBlock, result, sawEmpty>>
        /\ block[tailBlock] \in BlockSet /\ Len(block) \in Nat
        /\ producer = "link" /\ producer' = "advance"
    BY <1>0, <1>8, BlockFacts DEF Link, Produces, consumerVars
  <2>2. /\ r \in BlockSet /\ r.front = block[tailBlock].front
        /\ r.tail = block[tailBlock].tail /\ r.size = block[tailBlock].size
    BY <2>1 DEF BlockSet
  <2> HIDE DEF r
  <2>3. /\ Len(block') = Len(block) /\ block'[tailBlock] = r
        /\ \A c \in Blocks : c # tailBlock => block'[c] = block[c]
    BY <1>0, <2>1, <2>2, BlockReplaced
  <2> QED
    BY <1>8, <2>1, <2>2, <2>3
<1> QED
  BY <1>1, <1>2, <1>3, <1>4, <1>5, <1>6, <1>7, <1>8 DEF Producer

LEMMA RingSame ==
  ASSUME QueueInv, [Next]_vars, producer # "link"
  PROVE  Ring' = Ring /\ \A b \in Ring : block'[b].next = block[b].next
<1>1. Ring = Blocks /\ Len(block) \in Nat
  BY DEF Ring, QueueInv, BlocksInv
<1>2. CASE Consumer
  <2>1. /\ producer' = producer /\ Len(block') = Len(block)
        /\ \A b \in Blocks : block'[b].next = block[b].next
    BY <1>2, ConsumerMoves DEF producerVars
  <2> QED
    BY <1>1, <2>1 DEF Ring, Blocks
<1>3. CASE Producer
  <2>1. \A b \in Blocks : block'[b].next = block[b].next
    BY <1>3, ProducerMoves
  <2>2. CASE producer' = "link"
    <3>1. Len(block') = Len(block) + 1
      BY <1>3, <2>2, ProducerMoves
    <3> QED
      BY <1>1, <2>1, <2>2, <3>1 DEF Ring, Blocks
  <2>3. CASE producer' # "link"
    <3>1. Len(block') = Len(block)
      BY <1>3, <2>3, ProducerMoves
    <3> QED
      BY <1>1, <2>1, <2>3, <3>1 DEF Ring, Blocks
  <2> QED
    BY <2>2, <2>3
<1>4. CASE UNCHANGED vars
  BY <1>1, <1>4 DEF Ring, Blocks, vars, producerVars
<1> QED
  BY <1>2, <1>3, <1>4 DEF Next

LEMMA StepOneCycle ==
  ASSUME QueueInv, OneCycle, [Next]_vars
  PROVE  OneCycle'
<1>1. CASE producer # "link"
  <2>1. Ring' = Ring /\ \A b \in Ring : block'[b].next = block[b].next
    BY <1>1, RingSame
  <2> SUFFICES ASSUME NEW S \in SUBSET Ring, S # {}, Closed(S)'
               PROVE  S = Ring
    BY <2>1 DEF OneCycle
  <2>2. Closed(S)
    BY <2>1 DEF Closed
  <2> QED
    BY <2>2 DEF OneCycle
<1>2. CASE producer = "link"
  <2>1. CASE Producer
    <3>1. Link
      BY <1>2, <2>1 DEF Producer, Produces, Enqueue, ReloadFront, Write, Publish,
         CheckFollowing, UseFollowing, WriteAhead, PublishAhead, Allocate, FailToAllocate, AdvanceTail
    <3> DEFINE n == Len(block)
    <3>2. /\ producer' = "advance" /\ n \in Nat /\ n > 1 /\ Len(block') = n
          /\ Ring = 1 .. n - 1 /\ Ring' = 1 .. n /\ tailBlock \in Ring /\ Following \in Ring
          /\ block'[tailBlock].next = n /\ block'[n].next = Following
          /\ \A b \in Ring : b # tailBlock => block'[b].next = block[b].next
      <4>1. producer' = "advance" /\ n \in Nat /\ n > 1 /\ block[n].next = Following
            /\ tailBlock \in Ring /\ Following \in Ring /\ Ring = 1 .. n - 1
        BY <1>2, <3>1, PlaceFacts DEF Link, Produces, QueueInv, ProducerInv, RingInv, BlocksInv, Ring
      <4>2. /\ Len(block') = n /\ block'[tailBlock].next = n
            /\ \A b \in Blocks : b # tailBlock => block'[b] = block[b]
        <5> DEFINE r == [block[tailBlock] EXCEPT !.next = n]
        <5>1. block' = [block EXCEPT ![tailBlock] = r] /\ tailBlock \in Blocks
              /\ block[tailBlock] \in BlockSet /\ block \in Seq(BlockSet)
          BY <3>1, <4>1, PlaceFacts, BlockFacts DEF Link, QueueInv, BlocksInv
        <5>2. r \in BlockSet /\ r.next = n
          BY <4>1, <5>1 DEF BlockSet
        <5> HIDE DEF r
        <5> QED
          BY <5>1, <5>2, BlockReplaced
      <4>3. Blocks = 1 .. n
        BY DEF Blocks
      <4> HIDE DEF n
      <4> QED
        BY <4>1, <4>2, <4>3 DEF Ring, Blocks
    <3>3. \A b \in Ring : block[b].next \in Ring
      BY DEF QueueInv, RingInv
    <3> HIDE DEF n
    <3> SUFFICES ASSUME NEW S \in SUBSET Ring', S # {}, Closed(S)'
                 PROVE  S = Ring'
      BY DEF OneCycle
    <3>4. \A b \in S : block'[b].next \in S
      BY DEF Closed
    <3>5. n \in S => Following \in S /\ Following # n
      BY <3>2, <3>4
    <3> DEFINE T == S \ {n}
    <3>6. T # {} /\ T \subseteq Ring
      BY <3>2, <3>5
    <3>7. ASSUME NEW b \in T
          PROVE  block[b].next \in T
      <4>1. b \in Ring /\ block[b].next \in Ring /\ block[b].next # n
        BY <3>2, <3>3, <3>6
      <4>2. CASE b = tailBlock
        BY <3>2, <3>4, <3>5, <4>1, <4>2 DEF Following
      <4>3. CASE b # tailBlock
        BY <3>2, <3>4, <4>1, <4>3
      <4> QED
        BY <4>2, <4>3
    <3>8. T = Ring
      <4> HIDE DEF T
      <4> QED
        BY <3>6, <3>7 DEF OneCycle, Closed
    <3>9. n \in S
      BY <3>2, <3>4, <3>8
    <3>10. Ring' = Ring \cup {n}
      BY <3>2
    <3> QED
      BY <3>8, <3>9, <3>10
  <2>2. CASE Consumer
    <3>1. /\ producer' = producer /\ Len(block') = Len(block)
          /\ \A b \in Blocks : block'[b].next = block[b].next
      BY <2>2, ConsumerMoves DEF producerVars
    <3>2. Ring' = Ring /\ \A b \in Ring : block'[b].next = block[b].next
      BY <3>1, PlaceFacts DEF Ring, Blocks, QueueInv
    <3> SUFFICES ASSUME NEW S \in SUBSET Ring, S # {}, Closed(S)'
                 PROVE  S = Ring
      BY <3>2 DEF OneCycle
    <3>3. Closed(S)
      BY <3>2 DEF Closed
    <3> QED
      BY <3>3 DEF OneCycle
  <2>3. CASE UNCHANGED vars
    BY <2>3 DEF vars, producerVars, OneCycle, Ring, Blocks, Closed
  <2> QED
    BY <2>1, <2>2, <2>3 DEF Next
<1> QED
  BY <1>1, <1>2

LEMMA AlwaysOneCycle == Spec => [](QueueInv /\ OneCycle)
<1>1. Init => QueueInv /\ OneCycle
  BY InitQueue, InitOneCycle
<1>2. (QueueInv /\ OneCycle) /\ [Next]_vars => (QueueInv /\ OneCycle)'
  BY StepQueue, StepOneCycle
<1> QED
  BY <1>1, <1>2, PTL DEF Spec

-----------------------------------------------------------------------------
(***************************************************************************)
(* The walk along the links, which Ahead defines by recursion, is defined  *)
(* everywhere, stays on the ring and comes to every block of it.           *)
(***************************************************************************)
LEMMA AheadDef ==
  ASSUME Len(block) \in Nat
  PROVE  Ahead =
           [n \in 0 .. Len(block) |-> IF n = 0 THEN frontBlock ELSE block[Ahead[n - 1]].next]
<1> DEFINE Is(a, k) == a = [n \in 0 .. k |-> IF n = 0 THEN frontBlock ELSE block[a[n - 1]].next]
<1>1. ASSUME NEW k \in Nat
      PROVE  \E a : Is(a, k)
  <2> DEFINE S == {j \in Nat : \E a : Is(a, j)}
  <2>1. 0 \in S
    <3>1. Is([n \in 0 .. 0 |-> frontBlock], 0)
      OBVIOUS
    <3> QED
      BY <3>1
  <2>2. ASSUME NEW j \in Nat, j \in S
        PROVE  j + 1 \in S
    <3>1. PICK a : Is(a, j)
      BY <2>2
    <3> DEFINE c == [n \in 0 .. j + 1 |-> IF n = j + 1 THEN block[a[j]].next ELSE a[n]]
    <3>2. ASSUME NEW n \in 0 .. j + 1
          PROVE  c[n] = (IF n = 0 THEN frontBlock ELSE block[c[n - 1]].next)
      <4>1. CASE n = 0
        BY <3>1, <4>1
      <4>2. CASE n # 0
        <5>1. n - 1 \in 0 .. j /\ n - 1 # j + 1
          BY <4>2
        <5>2. c[n - 1] = a[n - 1]
          BY <5>1
        <5>3. n # j + 1 => a[n] = block[a[n - 1]].next
          <6>1. \A x \in 0 .. j : x # 0 => a[x] = block[a[x - 1]].next
            BY <3>1
          <6>2. n # j + 1 => n \in 0 .. j
            OBVIOUS
          <6> QED
            BY <4>2, <6>1, <6>2
        <5> QED
          BY <4>2, <5>2, <5>3
      <4> QED
        BY <4>1, <4>2
    <3>3. Is(c, j + 1)
      BY <3>2
    <3>4. \E b : Is(b, j + 1)
      <4> HIDE DEF Is, c
      <4> QED
        BY <3>3
    <3> QED
      BY <3>4
  <2>3. k \in S
    <3> HIDE DEF S
    <3> QED
      BY <2>1, <2>2, SetInduction
  <2> QED
    BY <2>3
<1> QED
  BY <1>1 DEF Ahead

LEMMA AheadOnRing ==
  ASSUME BlocksInv, RingInv
  PROVE  /\ Ahead[0] = frontBlock
         /\ \A n \in 0 .. Len(block) - 1 : Ahead[n + 1] = block[Ahead[n]].next
         /\ \A n \in 0 .. Len(block) : Ahead[n] \in Ring
<1>1. Len(block) \in Nat
  BY DEF BlocksInv
<1>2. Ahead[0] = frontBlock
  BY <1>1, AheadDef
<1>3. \A n \in 0 .. Len(block) - 1 : Ahead[n + 1] = block[Ahead[n]].next
  <2> SUFFICES ASSUME NEW n \in 0 .. Len(block) - 1
               PROVE  Ahead[n + 1] = block[Ahead[n]].next
    OBVIOUS
  <2>1. n + 1 \in 0 .. Len(block) /\ n + 1 # 0 /\ (n + 1) - 1 = n
    BY <1>1
  <2> QED
    BY <2>1, AheadDef
<1>4. \A n \in 0 .. Len(block) : Ahead[n] \in Ring
  <2> DEFINE S == {n \in Nat : n <= Len(block) => Ahead[n] \in Ring}
  <2>1. 0 \in S
    BY <1>2 DEF RingInv
  <2>2. ASSUME NEW n \in Nat, n \in S
        PROVE  n + 1 \in S
    <3>1. CASE n + 1 <= Len(block)
      <4>1. n \in 0 .. Len(block) - 1
        BY <1>1, <3>1
      <4>2. Ahead[n] \in Ring /\ Ahead[n + 1] = block[Ahead[n]].next
        BY <1>1, <1>3, <2>2, <4>1
      <4> QED
        BY <4>2 DEF RingInv
    <3> QED
      BY <1>1, <3>1
  <2>3. Nat \subseteq S
    <3> HIDE DEF S
    <3> QED
      BY <2>1, <2>2, SetInduction
  <2> QED
    BY <1>1, <2>3
<1> QED
  BY <1>2, <1>3, <1>4

LEMMA AheadReachesRing ==
  ASSUME BlocksInv, RingInv, OneCycle
  PROVE  {Ahead[n] : n \in 0 .. Len(block)} = Ring
<1> DEFINE D == 0 .. Len(block)
<1>1. Len(block) \in Nat /\ Ring \subseteq Blocks
  BY PlaceFacts DEF BlocksInv
<1>2. \A n \in D : Ahead[n] \in Ring
  BY AheadOnRing
<1>3. PICK i \in D, j \in D : i < j /\ Ahead[i] = Ahead[j]
  <2>1. IsFiniteSet(D) /\ Cardinality(D) = Len(block) + 1
    BY <1>1, FS_Interval
  <2>2. IsFiniteSet(Blocks) /\ Cardinality(Blocks) = Len(block)
    BY <1>1, FS_Interval DEF Blocks
  <2> DEFINE f == [n \in D |-> Ahead[n]]
  <2>3. f \in [D -> Blocks]
    BY <1>1, <1>2
  <2>4. Cardinality(Blocks) < Cardinality(D)
    BY <1>1, <2>1, <2>2
  <2>5. PICK x \in D, y \in D : x # y /\ f[x] = f[y]
    <3> HIDE DEF D, f
    <3> QED
      BY <2>1, <2>2, <2>3, <2>4, FS_PigeonHole
  <2>6. Ahead[x] = Ahead[y] /\ (x < y \/ y < x)
    BY <1>1, <2>5
  <2> QED
    BY <2>6
<1> DEFINE S == {Ahead[n] : n \in 0 .. j - 1}
<1>4. ASSUME NEW b \in S
      PROVE  block[b].next \in S
  <2>1. PICK n \in 0 .. j - 1 : b = Ahead[n]
    OBVIOUS
  <2>2. n \in 0 .. Len(block) - 1
    BY <1>1
  <2>3. block[b].next = Ahead[n + 1]
    BY <2>1, <2>2, AheadOnRing
  <2>4. CASE n + 1 = j
    BY <1>1, <1>3, <2>3, <2>4
  <2>5. CASE n + 1 # j
    BY <1>1, <2>3, <2>5
  <2> QED
    BY <2>4, <2>5
<1>5. S # {} /\ S \subseteq Ring
  BY <1>1, <1>2, <1>3
<1>6. S = Ring
  <2> HIDE DEF S
  <2> QED
    BY <1>4, <1>5 DEF OneCycle, Closed
<1> QED
  BY <1>1, <1>2, <1>6

(***************************************************************************)
(* Blocks are never removed: between the calls of enqueue() a walk that    *)
(* starts at frontBlock comes to every block that was ever made, however   *)
(* often the producer has linked new blocks in and wherever the consumer   *)
(* has moved frontBlock to.                                                *)
(***************************************************************************)
THEOREM EveryBlockStaysOnRing == Spec => []AllOnRing
<1>1. QueueInv /\ OneCycle => AllOnRing
  <2> SUFFICES ASSUME QueueInv, OneCycle, producer = "idle"
               PROVE  Blocks = {Ahead[n] : n \in 0 .. Len(block)}
    BY DEF AllOnRing
  <2>1. Ring = Blocks
    BY DEF Ring
  <2> QED
    BY <2>1, AheadReachesRing DEF QueueInv
<1> QED
  BY <1>1, AlwaysOneCycle, PTL

-----------------------------------------------------------------------------
(***************************************************************************)
(* The reserve.  No block is smaller than the first, none is removed, the  *)
(* blocks between frontBlock and the last filled one are full, and so is   *)
(* tailBlock while the producer looks for another block.                   *)
(***************************************************************************)
FullBlock(b) == Succ(block[b].tail, block[b].size) = block[b].front

SizesInv ==
  /\ Len(block) >= InitialBlockCount
  /\ largestBlockSize >= InitialBlockSize
  /\ \A b \in Blocks : block[b].size >= InitialBlockSize

SearchPcs == {"full", "ahead", "writeAhead", "publishAhead", "alloc", "link", "advance"}

TailIsFull == producer \in SearchPcs => tailBlock = frontBlock \/ FullBlock(tailBlock)

MiddleIsFull ==
  \A b \in Ring : Free(b) \/ b = frontBlock \/ b = LastFilled \/ FullBlock(b)

\* The producer looks for memory only if it found maxSize cells in use in this call.
RoomInv ==
  /\ producer \in {"reload", "full"} /\ roomAtCall => CellsInUse < maxSize
  /\ producer = "full" /\ Len(block) = 1 => ~roomAtCall
  /\ producer = "alloc" => ~roomAtCall

ReserveInv == SizesInv /\ TailIsFull /\ MiddleIsFull /\ RoomInv

-----------------------------------------------------------------------------
(***************************************************************************)
(* The cells in use, as pairs of a block and an index.                     *)
(***************************************************************************)
LEMMA InUseIsOccupied ==
  ASSUME NEW r, IndexOK(r), NEW i \in 0 .. r.size - 1
  PROVE  (i + r.size - r.front) % r.size < (r.tail + r.size - r.front) % r.size
           <=> Occupied(r, i)
<1>1. /\ r.size \in Nat /\ r.front \in 0 .. r.size - 1 /\ r.tail \in 0 .. r.size - 1
  BY Powers DEF IndexOK
<1>2. /\ (i + r.size - r.front) % r.size = Dist(r.front, i, r.size)
      /\ (r.tail + r.size - r.front) % r.size = Dist(r.front, r.tail, r.size)
  BY <1>1, DistIsModulo
<1> QED
  BY <1>2 DEF Occupied

LEMMA CellIsUsed ==
  ASSUME BlocksInv, NEW b \in Blocks, NEW i
  PROVE  <<b, i>> \in UsedCells <=> i \in 0 .. block[b].size - 1 /\ Occupied(block[b], i)
<1>1. <<b, i>> \in UsedCells <=> i \in 0 .. block[b].size - 1 /\ InUse(b, i)
  BY DEF UsedCells
<1> QED
  BY <1>1, BlockFacts, InUseIsOccupied DEF InUse

LEMMA UsedArePairs ==
  ASSUME BlocksInv, NEW c \in UsedCells
  PROVE  \E b \in Blocks : \E i \in 0 .. block[b].size - 1 : c = <<b, i>>
BY DEF UsedCells

LEMMA PowersAreBounded == \E m \in Nat : \A p \in PowersOfTwo : p <= m
<1>1. \A p \in PowersOfTwo : p <= 1048576
  BY PowerLiterals, SMT
<1> QED
  BY <1>1, SMT

LEMMA UsedIsFinite ==
  ASSUME BlocksInv
  PROVE  IsFiniteSet(UsedCells) /\ CellsInUse \in Nat
<1>0. PICK m \in Nat : \A p \in PowersOfTwo : p <= m
  BY PowersAreBounded
<1> DEFINE T == Blocks \X (0 .. m)
<1>1. IsFiniteSet(Blocks) /\ IsFiniteSet(0 .. m)
  <2>1. Len(block) \in Nat
    BY DEF BlocksInv
  <2> QED
    BY <2>1, FS_Interval DEF Blocks
<1>2. IsFiniteSet(T)
  BY <1>1, FS_Product
<1>3. UsedCells \subseteq T
  <2>1. \A b \in Blocks : block[b].size \in Nat /\ block[b].size <= m
    BY <1>0, Powers DEF BlocksInv, IndexOK
  <2>2. \A b \in Blocks : 0 .. block[b].size - 1 \subseteq 0 .. m
    BY <2>1
  <2> QED
    BY <2>2, UsedArePairs
<1>4. IsFiniteSet(UsedCells)
  <2> HIDE DEF T
  <2> QED
    BY <1>2, <1>3, FS_Subset
<1> QED
  BY <1>4, FS_CardinalityType DEF CellsInUse

LEMMA ConsumerFreesCells ==
  ASSUME QueueInv, QueueInv', Consumer
  PROVE  CellsInUse' \in Nat /\ CellsInUse' <= CellsInUse
<1> USE DEF QueueInv
<1>1. Blocks' = Blocks
  BY ConsumerMoves DEF Blocks
<1>2. ASSUME NEW b \in Blocks, NEW i \in 0 .. block[b].size - 1, Occupied(block'[b], i)
      PROVE  Occupied(block[b], i)
  <2>1. /\ block'[b].tail = block[b].tail /\ block'[b].size = block[b].size
        /\ \/ block'[b].front = block[b].front
           \/ /\ block'[b].front = Succ(block[b].front, block[b].size)
              /\ block[b].front # block[b].tail
    BY ConsumerMoves
  <2>2. /\ block[b].size \in Nat /\ block[b].front \in 0 .. block[b].size - 1
        /\ block[b].tail \in 0 .. block[b].size - 1
    BY BlockFacts DEF IndexOK
  <2> QED
    BY <1>2, <2>1, <2>2, OneLess DEF Occupied
<1>3. UsedCells' \subseteq UsedCells
  <2> SUFFICES ASSUME NEW c \in UsedCells'
               PROVE  c \in UsedCells
    OBVIOUS
  <2>1. PICK b \in Blocks : \E i \in 0 .. block'[b].size - 1 : c = <<b, i>> /\ InUse(b, i)'
    BY <1>1 DEF UsedCells
  <2>2. PICK i \in 0 .. block'[b].size - 1 : c = <<b, i>> /\ InUse(b, i)'
    BY <2>1
  <2>3. block'[b].size = block[b].size /\ IndexOK(block'[b])
    BY <1>1, ConsumerMoves DEF BlocksInv
  <2>4. Occupied(block'[b], i)
    BY <2>2, <2>3, InUseIsOccupied DEF InUse
  <2> QED
    BY <1>2, <2>2, <2>3, <2>4, CellIsUsed
<1>4. IsFiniteSet(UsedCells)
  BY UsedIsFinite
<1>5. IsFiniteSet(UsedCells') /\ Cardinality(UsedCells') <= Cardinality(UsedCells)
  BY <1>3, <1>4, FS_Subset
<1> QED
  BY <1>5, FS_CardinalityType DEF CellsInUse

-----------------------------------------------------------------------------
(***************************************************************************)
(* The constructor reserves enough: one block of more than maxSize cells,  *)
(* or so many that all but one of them hold maxSize elements.              *)
(***************************************************************************)
LEMMA Division ==
  ASSUME NEW m \in Nat, NEW d \in Nat \ {0}
  PROVE  m = d * (m \div d) + (m % d) /\ m % d \in 0 .. d - 1 /\ m \div d \in Nat
OBVIOUS

LEMMA CeilIsAbove ==
  /\ CeilToPow2(maxSize + 1) \in Nat
  /\ CeilToPow2(maxSize + 1) >= maxSize + 1
<1>1. PICK n \in Nat : n = maxSize + 1 /\ n <= 1048576
  BY QueueAssumption, PowerValues
<1>2. \E p \in PowersOfTwo : n <= p /\ \A m \in PowersOfTwo : n <= m => p <= m
  BY <1>1, PowerLiterals
<1>3. CeilToPow2(n) \in PowersOfTwo /\ n <= CeilToPow2(n)
  BY <1>2 DEF CeilToPow2
<1> QED
  BY <1>1, <1>3, Powers

LEMMA Reserved ==
  ASSUME NEW n \in Nat, n >= InitialBlockCount
  PROVE  /\ n = 1 => InitialBlockSize - 1 >= maxSize
         /\ n >= 2 => (n - 1) * (InitialBlockSize - 1) >= maxSize
<1>1. maxSize \in Nat /\ maxSize >= 1
  BY QueueAssumption
<1>2. CASE OneBlock
  <2>1. PICK d \in Nat : d = InitialBlockSize - 1 /\ d >= maxSize /\ d >= 1
    BY <1>1, <1>2, CeilIsAbove DEF InitialBlockSize
  <2>2. n >= 2 => (n - 1) * d >= d
    <3>1. ASSUME NEW k \in Nat, k >= 1
          PROVE  k * d >= d
      BY <3>1
    <3> QED
      BY <3>1
  <2> QED
    BY <1>1, <2>1, <2>2
<1>3. CASE ~OneBlock
  <2>1. PICK d \in Nat \ {0} : d = MaxBlockSize - 1 /\ InitialBlockSize - 1 = d
    BY <1>3, Powers, QueueAssumption DEF InitialBlockSize
  <2>2. PICK m \in Nat : m = maxSize + d + d - 1 /\ m = maxSize + MaxBlockSize * 2 - 3
    BY <1>1, <2>1, Powers, QueueAssumption
  <2>3. PICK q \in Nat : q = m \div d /\ q = InitialBlockCount
    <3>1. InitialBlockCount = (maxSize + MaxBlockSize * 2 - 3) \div (MaxBlockSize - 1)
      BY <1>3 DEF InitialBlockCount
    <3>2. InitialBlockCount = m \div d
      BY <2>1, <2>2, <3>1
    <3>3. m \div d \in Nat
      OBVIOUS
    <3> QED
      BY <3>2, <3>3
  <2>4. PICK r \in 0 .. d - 1 : m = d * q + r
    <3>1. m = d * (m \div d) + (m % d) /\ m % d \in 0 .. d - 1
      BY Division
    <3>2. m = d * q + (m % d)
      BY <2>3, <3>1
    <3> QED
      BY <3>1, <3>2
  <2>5. d * q >= maxSize + d
    BY <1>1, <2>1, <2>2, <2>4
  <2>6. q >= 2
    <3>1. CASE q = 0
      BY <1>1, <2>1, <2>5, <3>1
    <3>2. CASE q = 1
      BY <1>1, <2>1, <2>5, <3>2
    <3> QED
      BY <3>1, <3>2
  <2>7. (q - 1) * d >= maxSize
    BY <1>1, <2>1, <2>5, <2>6
  <2>8. (n - 1) * d >= (q - 1) * d
    <3>0. n - 1 \in Nat /\ q - 1 \in Nat /\ n - 1 >= q - 1
      BY <2>3, <2>6
    <3>1. PICK k \in Nat, l \in Nat : k = n - 1 /\ l = q - 1 /\ k >= l
      BY <3>0
    <3>2. k * d >= l * d
      BY <3>1
    <3> QED
      BY <3>1, <3>2
  <2> QED
    BY <1>1, <2>1, <2>3, <2>6, <2>7, <2>8
<1> QED
  BY <1>2, <1>3

(***************************************************************************)
(* Full blocks have all their cells but one in use.                        *)
(***************************************************************************)
CellAt(r, j) == IF r.front + j < r.size THEN r.front + j ELSE (r.front + j) - r.size

LEMMA CellOfFull ==
  ASSUME NEW r, IndexOK(r), Succ(r.tail, r.size) = r.front, NEW j \in Nat, j < r.size - 1
  PROVE  /\ CellAt(r, j) \in 0 .. r.size - 1
         /\ Dist(r.front, CellAt(r, j), r.size) = j
         /\ Occupied(r, CellAt(r, j))
<1>1. /\ r.size \in Nat /\ r.front \in 0 .. r.size - 1 /\ r.tail \in 0 .. r.size - 1
  BY Powers DEF IndexOK
<1>2. CellAt(r, j) \in 0 .. r.size - 1 /\ Dist(r.front, CellAt(r, j), r.size) = j
  BY <1>1 DEF CellAt, Dist
<1>3. Dist(r.front, r.tail, r.size) = r.size - 1
  BY <1>1 DEF Dist, Succ
<1> QED
  BY <1>2, <1>3 DEF Occupied

LEMMA FullCells ==
  ASSUME BlocksInv, SizesInv, NEW B \in SUBSET Blocks, \A b \in B : FullBlock(b)
  PROVE  Cardinality(B) * (InitialBlockSize - 1) <= CellsInUse /\ Cardinality(B) \in Nat
<1>1. PICK s \in Nat : s = InitialBlockSize - 1 /\ InitialBlockSize = s + 1
  BY InitialSizes, Powers
<1> DEFINE J == 0 .. s - 1
           S == B \X J
           f == [c \in S |-> <<c[1], CellAt(block[c[1]], c[2])>>]
<1>2. /\ IsFiniteSet(B) /\ IsFiniteSet(J) /\ Cardinality(J) = s
  <2>1. Len(block) \in Nat
    BY DEF BlocksInv
  <2>2. IsFiniteSet(Blocks)
    BY <2>1, FS_Interval DEF Blocks
  <2>3. IsFiniteSet(B)
    BY <2>2, FS_Subset
  <2>4. 0 \in Int /\ s - 1 \in Int
    OBVIOUS
  <2>5. IsFiniteSet(J) /\ Cardinality(J) = (IF 0 > s - 1 THEN 0 ELSE (s - 1) - 0 + 1)
    BY <2>4, FS_Interval
  <2>6. (IF 0 > s - 1 THEN 0 ELSE (s - 1) - 0 + 1) = s
    OBVIOUS
  <2> QED
    BY <2>3, <2>5, <2>6
<1>3. ASSUME NEW b \in B, NEW j \in J
      PROVE  /\ CellAt(block[b], j) \in 0 .. block[b].size - 1
             /\ Dist(block[b].front, CellAt(block[b], j), block[b].size) = j
             /\ <<b, CellAt(block[b], j)>> \in UsedCells
  <2>1. IndexOK(block[b]) /\ block[b].size \in Nat /\ block[b].size >= InitialBlockSize
    BY BlockFacts DEF SizesInv
  <2>2. j \in Nat /\ j < block[b].size - 1
    <3>1. PICK z \in Nat : z = block[b].size /\ z >= s + 1
      BY <1>1, <2>1
    <3>2. j \in Nat /\ j < z - 1
      BY <3>1
    <3> QED
      BY <3>1, <3>2
  <2>3. Succ(block[b].tail, block[b].size) = block[b].front
    BY DEF FullBlock
  <2>4. /\ CellAt(block[b], j) \in 0 .. block[b].size - 1
        /\ Dist(block[b].front, CellAt(block[b], j), block[b].size) = j
        /\ Occupied(block[b], CellAt(block[b], j))
    BY <2>1, <2>2, <2>3, CellOfFull
  <2> QED
    BY <2>4, CellIsUsed
<1>4. f \in [S -> UsedCells]
  <2> HIDE DEF J
  <2> QED
    BY <1>3
<1>5. ASSUME NEW c \in S, NEW d \in S, f[c] = f[d]
      PROVE  c = d
  <2> HIDE DEF J
  <2>1. PICK b \in B, i \in J : c = <<b, i>>
    OBVIOUS
  <2>2. PICK e \in B, j \in J : d = <<e, j>>
    OBVIOUS
  <2>3. b = e /\ CellAt(block[b], i) = CellAt(block[e], j)
    BY <1>5, <2>1, <2>2
  <2>4. i = j
    <3>1. Dist(block[b].front, CellAt(block[b], i), block[b].size) = i
      BY <1>3
    <3>2. Dist(block[e].front, CellAt(block[e], j), block[e].size) = j
      BY <1>3
    <3> QED
      BY <2>3, <3>1, <3>2
  <2> QED
    BY <2>1, <2>2, <2>3, <2>4
<1>6. f \in Injection(S, UsedCells)
  <2> HIDE DEF S, f
  <2> QED
    BY <1>4, <1>5, Fun_IsInj
<1>7. Cardinality(S) <= CellsInUse
  <2> HIDE DEF S, f
  <2> QED
    BY <1>6, UsedIsFinite, FS_Injection DEF CellsInUse
<1>8. Cardinality(S) = Cardinality(B) * Cardinality(J)
  <2> HIDE DEF J
  <2> QED
    BY <1>2, FS_Product
<1> QED
  BY <1>1, <1>2, <1>7, <1>8, FS_CardinalityType

-----------------------------------------------------------------------------
(***************************************************************************)
(* If the block after the last one is the first one, no block is free: all *)
(* blocks but the first are full, which is the reserve.                    *)
(***************************************************************************)
LEMMA AllButFrontFull ==
  ASSUME QueueInv, OneCycle, TailIsFull, MiddleIsFull,
         producer = "full", Following = frontBlock, tailBlock # frontBlock
  PROVE  \A b \in Blocks \ {frontBlock} : FullBlock(b)
<1> USE DEF QueueInv
<1>1. Ring = Blocks /\ LastFilled = tailBlock /\ frontBlock \in Ring
  BY DEF Ring, LastFilled, RingInv
<1> DEFINE S == {b \in Ring : ~Free(b)}
<1>2. S # {} /\ S \subseteq Ring
  BY <1>1 DEF Free
<1>3. ASSUME NEW b \in S
      PROVE  block[b].next \in S
  <2>1. CASE b = tailBlock
    BY <1>1, <2>1 DEF Following, Free
  <2>2. CASE b # tailBlock
    BY <1>1, <2>2 DEF RingInv
  <2> QED
    BY <2>1, <2>2
<1>4. S = Ring
  <2> HIDE DEF S
  <2> QED
    BY <1>2, <1>3 DEF OneCycle, Closed
<1>5. \A b \in Ring : ~Free(b)
  BY <1>4
<1>6. FullBlock(tailBlock)
  BY DEF TailIsFull, SearchPcs
<1> QED
  BY <1>1, <1>5, <1>6 DEF MiddleIsFull

LEMMA BlockCount ==
  ASSUME BlocksInv
  PROVE  /\ Len(block) \in Nat /\ IsFiniteSet(Blocks) /\ Cardinality(Blocks) = Len(block)
         /\ \A b \in Blocks : Len(block) = 1 \/ (1 \in Blocks /\ 2 \in Blocks)
<1>1. PICK n \in Nat : n = Len(block)
  BY DEF BlocksInv
<1>2. Blocks = 1 .. n
  BY <1>1 DEF Blocks
<1>3. 1 \in Int /\ n \in Int
  OBVIOUS
<1>4. IsFiniteSet(1 .. n) /\ Cardinality(1 .. n) = (IF 1 > n THEN 0 ELSE n - 1 + 1)
  BY <1>3, FS_Interval
<1>5. (IF 1 > n THEN 0 ELSE n - 1 + 1) = n
  OBVIOUS
<1>6. ASSUME NEW b \in 1 .. n
      PROVE  n = 1 \/ (1 \in 1 .. n /\ 2 \in 1 .. n)
  <2>1. n = 1 \/ n >= 2
    BY SMT
  <2>2. n >= 2 => 1 \in 1 .. n /\ 2 \in 1 .. n
    BY SMT
  <2> QED
    BY <2>1, <2>2, Zenon
<1> QED
  BY <1>1, <1>2, <1>4, <1>5, <1>6

LEMMA NoRoomLeft ==
  ASSUME QueueInv, OneCycle, ReserveInv, producer = "full", Following = frontBlock
  PROVE  ~roomAtCall
<1> USE DEF QueueInv, ReserveInv
<1>1. Len(block) \in Nat /\ Ring = 1 .. Len(block) /\ Blocks = 1 .. Len(block)
      /\ frontBlock \in Blocks
  BY PlaceFacts DEF BlocksInv, Ring, Blocks
<1>2. CASE tailBlock = frontBlock
  <2> DEFINE S == {frontBlock}
  <2>1. S \subseteq Ring /\ S # {} /\ \A b \in S : block[b].next \in S
    BY <1>1, <1>2 DEF Following
  <2>2. S = Ring
    <3> HIDE DEF S
    <3> QED
      BY <2>1 DEF OneCycle, Closed
  <2>3. Len(block) = 1
    <3>1. ~(1 \in Ring /\ 2 \in Ring)
      BY <2>2
    <3> HIDE DEF S
    <3> QED
      BY <1>1, <3>1, BlockCount
  <2> QED
    BY <2>3 DEF RoomInv
<1>3. CASE tailBlock # frontBlock
  <2> DEFINE B == Blocks \ {frontBlock}
  <2>1. \A b \in B : FullBlock(b)
    BY <1>3, AllButFrontFull
  <2>2. B \in SUBSET Blocks
    OBVIOUS
  <2>3. IsFiniteSet(Blocks) /\ Cardinality(Blocks) = Len(block)
    BY BlockCount
  <2>4. Cardinality(B) = Len(block) - 1
    BY <1>1, <2>3, FS_RemoveElement
  <2>5. Cardinality(B) * (InitialBlockSize - 1) <= CellsInUse
    <3> HIDE DEF B
    <3> QED
      BY <2>1, <2>2, FullCells
  <2>6. Len(block) >= 2
    <3>1. tailBlock \in Blocks
      BY PlaceFacts
    <3> QED
      BY <1>1, <1>3, <3>1
  <2>7. Len(block) >= InitialBlockCount
    BY DEF SizesInv
  <2>8. (Len(block) - 1) * (InitialBlockSize - 1) >= maxSize
    BY <1>1, <2>6, <2>7, Reserved
  <2>9. PICK k : k = (Len(block) - 1) * (InitialBlockSize - 1)
    OBVIOUS
  <2>10. k <= CellsInUse /\ k >= maxSize
    <3> HIDE DEF B
    <3> QED
      BY <2>4, <2>5, <2>8, <2>9
  <2>11. k \in Int
    <3>1. InitialBlockSize - 1 \in Int
      BY InitialSizes, Powers
    <3> QED
      BY <1>1, <2>9, <3>1
  <2>12. ~(CellsInUse < maxSize)
    BY <2>10, <2>11, UsedIsFinite, QueueAssumption
  <2> QED
    BY <2>12 DEF RoomInv
<1> QED
  BY <1>2, <1>3

LEMMA OnlyBlockFull ==
  ASSUME QueueInv, SizesInv, RoomInv, producer = "reload", FullBlock(tailBlock), Len(block) = 1
  PROVE  ~roomAtCall
<1> USE DEF QueueInv
<1>1. Blocks = {1} /\ tailBlock = 1
  BY PlaceFacts DEF Blocks
<1>2. Cardinality(Blocks) = 1
  BY <1>1, FS_Singleton
<1>3. Blocks \in SUBSET Blocks /\ \A b \in Blocks : FullBlock(b)
  BY <1>1
<1>4. 1 * (InitialBlockSize - 1) <= CellsInUse
  BY <1>2, <1>3, FullCells
<1>5. InitialBlockSize - 1 >= maxSize
  <2>1. 1 >= InitialBlockCount
    BY DEF SizesInv
  <2> QED
    BY <2>1, Reserved
<1>6. InitialBlockSize \in Nat
  BY InitialSizes, Powers
<1>7. ~(CellsInUse < maxSize)
  BY <1>4, <1>5, <1>6, UsedIsFinite, QueueAssumption
<1> QED
  BY <1>7 DEF RoomInv

-----------------------------------------------------------------------------
(***************************************************************************)
(* Every step keeps the reserve.                                           *)
(***************************************************************************)
LEMMA ProducerGoes ==
  ASSUME Producer
  PROVE  /\ producer \in {"publishAhead", "link"} => producer' = "advance"
         /\ producer \notin {"publishAhead", "link"} => producer' # "advance"
         /\ producer = "advance" => tailBlock' = Following /\ producer' = "idle"
         /\ producer # "advance" => tailBlock' = tailBlock
         /\ producer' \in SearchPcs => producer \in SearchPcs \/ producer = "reload"
         /\ producer' = "reload" => \E e \in Elements : Enqueue(e)
         /\ producer = "reload" => ReloadFront
         /\ producer' = "full" => ReloadFront
         /\ producer' = "alloc" => CheckFollowing
         /\ producer = "link" => Link
         /\ producer' = "link" => Allocate
         /\ producer = "publishAhead" => PublishAhead
<1> QED
  BY DEF Producer, Produces, SearchPcs, Enqueue, ReloadFront, Write, Publish, CheckFollowing,
     UseFollowing, WriteAhead, PublishAhead, Allocate, FailToAllocate, Link, AdvanceTail

LEMMA SizesStep ==
  ASSUME QueueInv, SizesInv, [Next]_vars
  PROVE  SizesInv'
<1> USE DEF QueueInv
<1>0. /\ Len(block) \in Nat /\ Blocks = 1 .. Len(block) /\ Blocks' = 1 .. Len(block')
      /\ InitialBlockCount \in Nat /\ InitialBlockSize \in Nat
  BY InitialSizes, Powers DEF BlocksInv, Blocks
<1>1. CASE Consumer
  BY <1>0, <1>1, ConsumerMoves DEF SizesInv, producerVars
<1>2. CASE Producer /\ producer' # "link"
  <2>1. Len(block') = Len(block) /\ \A b \in Blocks : block'[b].size = block[b].size
    BY <1>2, ProducerMoves
  <2>2. largestBlockSize' = largestBlockSize
    BY <1>2 DEF Producer, Produces, Enqueue, ReloadFront, Write, Publish, CheckFollowing,
       UseFollowing, WriteAhead, PublishAhead, Allocate, FailToAllocate, Link, AdvanceTail
  <2> QED
    BY <1>0, <2>1, <2>2 DEF SizesInv
<1>3. CASE Producer /\ producer' = "link"
  <2>1. Allocate
    BY <1>3, ProducerGoes
  <2>2. /\ block' = Append(block, BlockWith) /\ largestBlockSize' = NextSize
        /\ element \in Elements /\ Following \in Nat /\ block \in Seq(BlockSet)
    BY <2>1, PlaceFacts, BlockFacts DEF Allocate, Produces, ValuesInv, BlocksInv
  <2>3. BlockWith \in BlockSet /\ BlockWith.size = NextSize
    BY <2>2, MadeBlock
  <2>4. Len(block') = Len(block) + 1 /\ block'[Len(block) + 1] = BlockWith
        /\ \A b \in Blocks : block'[b] = block[b]
    BY <2>2, <2>3 DEF Blocks
  <2>5. NextSize >= InitialBlockSize
    <3>1. largestBlockSize \in Nat /\ largestBlockSize >= InitialBlockSize
      BY Powers DEF ValuesInv, SizesInv
    <3> QED
      BY <1>0, <3>1 DEF NextSize
  <2>6. ASSUME NEW b \in Blocks'
        PROVE  block'[b].size >= InitialBlockSize
    <3>1. CASE b \in Blocks
      BY <2>4, <3>1 DEF SizesInv
    <3>2. CASE b \notin Blocks
      <4>1. b = Len(block) + 1
        BY <1>0, <2>4, <3>2
      <4> QED
        BY <2>3, <2>4, <2>5, <4>1
    <3> QED
      BY <3>1, <3>2
  <2> QED
    BY <1>0, <2>2, <2>4, <2>5, <2>6 DEF SizesInv
<1>4. CASE UNCHANGED vars
  BY <1>4 DEF SizesInv, vars, producerVars, Blocks
<1> QED
  BY <1>1, <1>2, <1>3, <1>4 DEF Next

LEMMA MiddleStep ==
  ASSUME QueueInv, TailIsFull, MiddleIsFull, [Next]_vars
  PROVE  MiddleIsFull'
<1> USE DEF QueueInv
<1>0. Ring \subseteq Blocks /\ frontBlock \in Ring /\ tailBlock \in Ring
  BY PlaceFacts DEF RingInv
<1>1. CASE Consumer
  <2>1. /\ producer' = producer /\ tailBlock' = tailBlock /\ Len(block') = Len(block)
        /\ Ring' = Ring /\ LastFilled' = LastFilled
    BY <1>0, <1>1, ConsumerMoves DEF producerVars, Ring, Blocks, LastFilled, Following
  <2>2. ASSUME NEW b \in Ring
        PROVE  Free(b)' \/ b = frontBlock' \/ b = LastFilled' \/ FullBlock(b)'
    <3>1. /\ block'[b].tail = block[b].tail /\ block'[b].size = block[b].size
          /\ b # frontBlock => block'[b].front = block[b].front
      BY <1>0, <1>1, ConsumerMoves
    <3>2. CASE b # frontBlock
      BY <2>1, <3>1, <3>2 DEF MiddleIsFull, Free, FullBlock, EmptyBlock
    <3>3. CASE b = frontBlock /\ frontBlock' # frontBlock
      <4>1. EmptyBlock(frontBlock) /\ block' = block /\ consumer = "advance"
        BY <1>1, <3>3, ConsumerMoves
      <4>2. frontBlock # LastFilled
        BY <4>1, NextHolds
      <4> QED
        BY <2>1, <3>3, <4>1, <4>2 DEF Free, EmptyBlock
    <3> QED
      BY <3>2, <3>3
  <2> QED
    BY <2>1, <2>2 DEF MiddleIsFull
<1>2. CASE Producer /\ producer \notin {"link", "publishAhead"}
  <2>1. Ring' = Ring /\ frontBlock' = frontBlock
    BY <1>2, RingSame, ProducerMoves DEF Next
  <2>2. LastFilled' = LastFilled
    BY <1>2, ProducerGoes DEF LastFilled
  <2>3. ASSUME NEW b \in Ring, b # LastFilled
        PROVE  /\ block'[b].front = block[b].front /\ block'[b].tail = block[b].tail
               /\ block'[b].size = block[b].size
    <3>1. producer = "publish" => b # tailBlock
      BY <2>3 DEF LastFilled
    <3> QED
      BY <1>0, <1>2, <3>1, ProducerMoves
  <2> QED
    BY <2>1, <2>2, <2>3 DEF MiddleIsFull, Free, FullBlock, EmptyBlock
<1>3. CASE Producer /\ producer = "publishAhead"
  <2>1. Ring' = Ring /\ frontBlock' = frontBlock /\ block'[tailBlock].next = block[tailBlock].next
    BY <1>0, <1>3, RingSame, ProducerMoves DEF Next
  <2>2. LastFilled = tailBlock /\ LastFilled' = Following
    BY <1>3, <2>1, ProducerGoes DEF LastFilled, Following
  <2>3. tailBlock = frontBlock \/ FullBlock(tailBlock)
    BY <1>3 DEF TailIsFull, SearchPcs
  <2>4. ASSUME NEW b \in Ring, b # Following
        PROVE  /\ block'[b].front = block[b].front /\ block'[b].tail = block[b].tail
               /\ block'[b].size = block[b].size
    BY <1>0, <1>3, <2>4, ProducerMoves
  <2> QED
    BY <2>1, <2>2, <2>3, <2>4 DEF MiddleIsFull, Free, FullBlock, EmptyBlock
<1>4. CASE Producer /\ producer = "link"
  <2> DEFINE n == Len(block)
  <2>1. /\ n \in Nat /\ n > 1 /\ Ring = 1 .. n - 1 /\ Ring' = 1 .. n /\ LastFilled = tailBlock
        /\ LastFilled' = n /\ frontBlock' = frontBlock
    <3>1. Link /\ producer' = "advance" /\ Len(block') = n /\ frontBlock' = frontBlock
          /\ tailBlock' = tailBlock
      BY <1>4, ProducerGoes, ProducerMoves
    <3>2. n \in Nat /\ n > 1
      BY <1>4 DEF ProducerInv, BlocksInv
    <3>3. block'[tailBlock].next = n
      <4> DEFINE r == [block[tailBlock] EXCEPT !.next = n]
      <4>1. block' = [block EXCEPT ![tailBlock] = r] /\ tailBlock \in Blocks
            /\ block[tailBlock] \in BlockSet /\ block \in Seq(BlockSet)
        BY <3>1, PlaceFacts, BlockFacts DEF Link, BlocksInv
      <4>2. r \in BlockSet /\ r.next = n
        BY <3>2, <4>1 DEF BlockSet
      <4> HIDE DEF r, n
      <4> QED
        BY <4>1, <4>2, BlockReplaced
    <3> QED
      BY <1>4, <3>1, <3>2, <3>3 DEF Ring, Blocks, LastFilled, Following
  <2>2. tailBlock = frontBlock \/ FullBlock(tailBlock)
    BY <1>4 DEF TailIsFull, SearchPcs
  <2>3. ASSUME NEW b \in Ring
        PROVE  /\ block'[b].front = block[b].front /\ block'[b].tail = block[b].tail
               /\ block'[b].size = block[b].size
    BY <1>0, <1>4, <2>3, ProducerMoves
  <2>4. ASSUME NEW b \in Ring
        PROVE  Free(b)' \/ b = frontBlock' \/ b = LastFilled' \/ FullBlock(b)'
    <3>1. b # n
      BY <2>1
    <3> QED
      BY <2>1, <2>2, <2>3, <3>1 DEF MiddleIsFull, Free, FullBlock, EmptyBlock
  <2>5. Ring' = Ring \cup {n}
    BY <2>1
  <2> HIDE DEF n
  <2> QED
    BY <2>1, <2>4, <2>5 DEF MiddleIsFull
<1>5. CASE UNCHANGED vars
  BY <1>5 DEF MiddleIsFull, Free, FullBlock, EmptyBlock, Ring, Blocks, LastFilled, Following,
     vars, producerVars, consumerVars
<1> QED
  BY <1>1, <1>2, <1>3, <1>4, <1>5 DEF Next

LEMMA TailFullStep ==
  ASSUME QueueInv, TailIsFull, [Next]_vars
  PROVE  TailIsFull'
<1> USE DEF QueueInv
<1>0. frontBlock \in Blocks /\ tailBlock \in Blocks
  BY PlaceFacts
<1>1. CASE Consumer
  <2>1. producer' = producer /\ tailBlock' = tailBlock
    BY <1>1, ConsumerMoves DEF producerVars
  <2>2. SUFFICES ASSUME producer \in SearchPcs, tailBlock # frontBlock'
                 PROVE  FullBlock(tailBlock)'
    BY <2>1 DEF TailIsFull
  <2>3. tailBlock # frontBlock
    BY <1>1, <2>2, ConsumerMoves
  <2>4. /\ block'[tailBlock].front = block[tailBlock].front
        /\ block'[tailBlock].tail = block[tailBlock].tail
        /\ block'[tailBlock].size = block[tailBlock].size
    BY <1>0, <1>1, <2>3, ConsumerMoves
  <2> QED
    BY <2>1, <2>2, <2>3, <2>4 DEF TailIsFull, FullBlock
<1>2. CASE Producer
  <2>1. frontBlock' = frontBlock
    BY <1>2, ProducerMoves
  <2>2. SUFFICES ASSUME producer' \in SearchPcs, tailBlock' # frontBlock
                 PROVE  FullBlock(tailBlock)'
    BY <2>1 DEF TailIsFull
  <2>3. tailBlock' = tailBlock /\ producer # "publish"
    <3>1. producer # "advance"
      BY <1>2, <2>2, ProducerGoes DEF SearchPcs
    <3>2. producer # "publish"
      BY <1>2, <2>2, ProducerGoes DEF SearchPcs
    <3> QED
      BY <1>2, <3>1, <3>2, ProducerGoes
  <2>4. producer = "publishAhead" => Following # tailBlock
    <3>1. SUFFICES ASSUME producer = "publishAhead"
                   PROVE  Following # tailBlock
      OBVIOUS
    <3>2. LastFilled = tailBlock /\ tailBlock \in Ring /\ Following # frontBlock
      BY <3>1 DEF LastFilled, RingInv, ProducerInv
    <3> QED
      BY <3>2 DEF RingInv, Free, Following
  <2>5. /\ block'[tailBlock].front = block[tailBlock].front
        /\ block'[tailBlock].tail = block[tailBlock].tail
        /\ block'[tailBlock].size = block[tailBlock].size
    BY <1>0, <1>2, <2>3, <2>4, ProducerMoves
  <2>6. CASE producer \in SearchPcs
    BY <2>2, <2>3, <2>5, <2>6 DEF TailIsFull, FullBlock
  <2>7. CASE producer = "reload"
    <3>1. ReloadFront /\ producer' = "full"
      BY <1>2, <2>2, <2>7, ProducerGoes DEF ReloadFront, Produces, SearchPcs
    <3>2. After(tailBlock, block[tailBlock].tail) = block[tailBlock].front
      BY <3>1 DEF ReloadFront, Produces, HasRoom
    <3>3. Succ(block[tailBlock].tail, block[tailBlock].size) = block[tailBlock].front
      BY <1>0, <3>2, AfterIsSucc, BlockFacts DEF IndexOK
    <3> QED
      BY <2>3, <2>5, <3>3 DEF FullBlock
  <2> QED
    BY <1>2, <2>2, <2>6, <2>7, ProducerGoes
<1>3. CASE UNCHANGED vars
  BY <1>3 DEF TailIsFull, FullBlock, vars, producerVars, consumerVars
<1> QED
  BY <1>1, <1>2, <1>3 DEF Next

LEMMA RoomStep ==
  ASSUME QueueInv, QueueInv', OneCycle, ReserveInv, [Next]_vars
  PROVE  RoomInv'
<1> USE DEF QueueInv, ReserveInv
<1>1. CASE Consumer
  <2>1. /\ producer' = producer /\ roomAtCall' = roomAtCall /\ Len(block') = Len(block)
    BY <1>1, ConsumerMoves DEF producerVars, enqueueVars
  <2>2. CellsInUse < maxSize => CellsInUse' < maxSize
    <3>1. CellsInUse' \in Nat /\ CellsInUse' <= CellsInUse /\ CellsInUse \in Nat
      BY <1>1, ConsumerFreesCells, UsedIsFinite
    <3> QED
      BY <3>1, QueueAssumption
  <2> QED
    BY <2>1, <2>2 DEF RoomInv
<1>2. CASE Producer
  <2>1. CASE producer' = "reload"
    <3>1. PICK e \in Elements : Enqueue(e)
      BY <1>2, <2>1, ProducerGoes
    <3>2. roomAtCall' = (CellsInUse < maxSize) /\ CellsInUse' = CellsInUse
      BY <3>1 DEF Enqueue, CellsInUse, UsedCells, Blocks, InUse
    <3> QED
      BY <2>1, <3>2 DEF RoomInv
  <2>2. CASE producer' = "full"
    <3>1. ReloadFront /\ producer = "reload" /\ roomAtCall' = roomAtCall /\ tailBlock \in Blocks
      BY <1>2, <2>2, ProducerGoes, PlaceFacts DEF ReloadFront, Produces, enqueueVars
    <3>2. /\ Blocks' = Blocks /\ Len(block') = Len(block)
          /\ \A b \in Blocks : /\ block'[b].front = block[b].front
                               /\ block'[b].tail = block[b].tail
                               /\ block'[b].size = block[b].size
      BY <3>1, CopyOfFront DEF ReloadFront
    <3>3. CellsInUse' = CellsInUse
      <4>1. ASSUME NEW b \in Blocks
            PROVE  {i \in 0 .. block'[b].size - 1 : InUse(b, i)'}
                     = {i \in 0 .. block[b].size - 1 : InUse(b, i)}
        BY <3>2 DEF InUse
      <4>2. UsedCells' = UsedCells
        BY <3>2, <4>1 DEF UsedCells
      <4> QED
        BY <4>2 DEF CellsInUse
    <3>4. After(tailBlock, block[tailBlock].tail) = block[tailBlock].front
      BY <2>2, <3>1 DEF ReloadFront, Produces, HasRoom
    <3>5. FullBlock(tailBlock)
      BY <3>1, <3>4, AfterIsSucc, BlockFacts DEF IndexOK, FullBlock
    <3>6. Len(block) = 1 => ~roomAtCall
      BY <3>1, <3>5, OnlyBlockFull
    <3> QED
      BY <2>2, <3>1, <3>2, <3>3, <3>6 DEF RoomInv
  <2>3. CASE producer' = "alloc"
    <3>1. producer = "full" /\ Following = frontBlock /\ roomAtCall' = roomAtCall
      BY <1>2, <2>3, ProducerGoes DEF CheckFollowing, Produces, enqueueVars
    <3> QED
      BY <2>3, <3>1, NoRoomLeft DEF RoomInv
  <2> QED
    BY <2>1, <2>2, <2>3 DEF RoomInv
<1>3. CASE UNCHANGED vars
  <2>1. /\ producer' = producer /\ roomAtCall' = roomAtCall /\ block' = block
    BY <1>3 DEF vars, producerVars, enqueueVars
  <2>2. CellsInUse' = CellsInUse
    BY <2>1 DEF CellsInUse, UsedCells, Blocks, InUse
  <2> QED
    BY <2>1, <2>2 DEF RoomInv
<1> QED
  BY <1>1, <1>2, <1>3 DEF Next

LEMMA InitReserve == Init => ReserveInv
<1> SUFFICES ASSUME Init
             PROVE  ReserveInv
  OBVIOUS
<1> DEFINE n == InitialBlockCount
<1>1. n \in Nat /\ n >= 1 /\ InitialBlockSize \in Nat
  BY InitialSizes, Powers
<1>2. QueueInv /\ producer = "idle" /\ tailBlock = 1
  BY InitQueue DEF Init
<1>3. Blocks = 1 .. n /\ Len(block) = n
  <2>1. DOMAIN block = 1 .. n
    BY DEF Init
  <2>2. block \in Seq(BlockSet)
    BY <1>2 DEF QueueInv, BlocksInv
  <2> HIDE DEF n
  <2> QED
    BY <1>1, <2>1, <2>2 DEF Blocks
<1>4. \A b \in Blocks : block[b].front = 0 /\ block[b].tail = 0 /\ block[b].size = InitialBlockSize
  BY <1>3 DEF Init, NewBlock
<1>5. SizesInv
  <2>1. largestBlockSize = InitialBlockSize
    BY DEF Init
  <2> QED
    BY <1>1, <1>3, <1>4, <2>1 DEF SizesInv
<1>6. TailIsFull /\ RoomInv
  BY <1>2 DEF TailIsFull, SearchPcs, RoomInv
<1>7. MiddleIsFull
  BY <1>2, <1>4 DEF MiddleIsFull, Free, EmptyBlock, Ring
<1> QED
  BY <1>5, <1>6, <1>7 DEF ReserveInv

(***************************************************************************)
(* "Constructs a queue that can hold maxSize elements without further      *)
(* allocations" (readerwriterqueue.h, line 76), for every maxSize and      *)
(* every block size: whatever the consumer does meanwhile, an enqueue()    *)
(* asks for memory, and a try_enqueue() refuses, only if at least maxSize  *)
(* cells were in use when it was called.  When the producer finds its      *)
(* block full and the next one to be the consumer's, all blocks but one    *)
(* are full, and the constructor has made one block more than needed.      *)
(***************************************************************************)
THEOREM MaxSizeIsReserved == Spec => []HoldsMaxSize
<1> DEFINE I == QueueInv /\ OneCycle /\ ReserveInv
<1>1. Init => I
  BY InitQueue, InitOneCycle, InitReserve
<1>2. I /\ [Next]_vars => I'
  <2> SUFFICES ASSUME QueueInv, OneCycle, ReserveInv, [Next]_vars
               PROVE  QueueInv' /\ OneCycle' /\ ReserveInv'
    OBVIOUS
  <2>1. QueueInv' /\ OneCycle'
    BY StepQueue, StepOneCycle
  <2>2. SizesInv' /\ TailIsFull' /\ MiddleIsFull'
    BY SizesStep, TailFullStep, MiddleStep DEF ReserveInv
  <2>3. RoomInv'
    BY <2>1, RoomStep
  <2> QED
    BY <2>1, <2>2, <2>3 DEF ReserveInv
<1>3. I => HoldsMaxSize
  BY DEF ReserveInv, RoomInv, HoldsMaxSize
<1> QED
  BY <1>1, <1>2, <1>3, PTL DEF Spec
=============================================================================
