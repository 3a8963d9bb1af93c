-------------------------- MODULE ReaderWriterQueue --------------------------
(***************************************************************************)
(* The lock-free queue under every channel direction                       *)
(* (readerwriterqueue.h): one producer in inner_enqueue(), one consumer in *)
(* try_dequeue(), pop() or peek(), a ring of blocks, each block a ring of  *)
(* cells.                                                                  *)
(*                                                                         *)
(* One action is one access to what the two threads share, with the        *)
(* accesses to the thread's own variables around it.  The model is         *)
(* sequentially consistent: what the fences achieve is taken as given.     *)
(***************************************************************************)
EXTENDS Naturals, SequencesExt

CONSTANTS
  Elements,       \* what is sent through the queue
  None,           \* no element; also what a cell holds after its destruction
  maxSize,        \* the argument of the constructor (15 in the program)
  MaxBlockSize,   \* MAX_BLOCK_SIZE (512 in the program)
  MaxBlocks,      \* bound: from this many blocks on, memory is exhausted
  ProducerCalls,  \* what the producer calls (only enqueue in the program)
  ConsumerCalls   \* what the consumer calls (only try_dequeue in the program)

\* The block sizes that are looked at: 2^20 is the bound, far above those in use.
PowersOfTwo == {2 ^ k : k \in 1 .. 20}

ASSUME QueueAssumption ==
  /\ None \notin Elements
  /\ maxSize \in 1 .. 2 ^ 20 - 1
  /\ MaxBlockSize \in PowersOfTwo
  /\ MaxBlocks \in Nat \ {0}
  /\ ProducerCalls \subseteq {"enqueue", "try_enqueue"}
  /\ ConsumerCalls \subseteq {"try_dequeue", "pop", "peek"}

VARIABLES
  block,             \* the blocks, in the order of their creation
  frontBlock,        \* the block that is dequeued from; owned by the consumer
  tailBlock,         \* the block that is enqueued to; owned by the producer
  largestBlockSize,  \* owned by the producer
  producer,          \* where the producer is in inner_enqueue()
  element,           \* the argument of the enqueue under way, or None
  canAlloc,          \* the enqueue under way is enqueue() and not try_enqueue()
  roomAtCall,        \* history: when it was called, less than maxSize cells were in use
  consumer,          \* where the consumer is in its call
  call,              \* the latest call of the consumer
  nextBlock,         \* the consumer's local variable of that name, or 0
  result,            \* the element that a call moved out or pointed at last
  sawEmpty           \* history: the queue was empty when that call was made

enqueueVars  == <<element, canAlloc, roomAtCall>>
producerVars == <<tailBlock, largestBlockSize, producer, enqueueVars>>
consumerVars == <<frontBlock, consumer, call, nextBlock, result, sawEmpty>>
vars == <<block, producerVars, consumerVars>>

NewBlock(capacity, successor) ==
  [front |-> 0, tail |-> 0, localFront |-> 0, localTail |-> 0,
   next |-> successor, size |-> capacity,
   data |-> [i \in 0 .. capacity - 1 |-> None]]

(***************************************************************************)
(* The constructor: one block with a spare cell, or, from twice the        *)
(* maximum on, a ring of blocks of the maximal size with a spare block.    *)
(***************************************************************************)
CeilToPow2(n) ==
  CHOOSE p \in PowersOfTwo : n <= p /\ \A m \in PowersOfTwo : n <= m => p <= m

OneBlock == CeilToPow2(maxSize + 1) <= MaxBlockSize * 2

\* Mutant: there is no spare block.
BlocksWithoutSpare ==
  IF OneBlock THEN 1 ELSE (maxSize + MaxBlockSize - 2) \div (MaxBlockSize - 1)
InitialBlockCount ==
  IF OneBlock THEN 1 ELSE (maxSize + MaxBlockSize * 2 - 3) \div (MaxBlockSize - 1)

InitialBlockSize == IF OneBlock THEN CeilToPow2(maxSize + 1) ELSE MaxBlockSize

Init ==
  /\ block = [b \in 1 .. InitialBlockCount |->
                NewBlock(InitialBlockSize, (b % InitialBlockCount) + 1)]
  /\ frontBlock = 1 /\ tailBlock = 1
  /\ largestBlockSize = InitialBlockSize
  /\ producer = "idle" /\ element = None /\ canAlloc = TRUE /\ roomAtCall = FALSE
  /\ consumer = "idle" /\ call = "try_dequeue" /\ nextBlock = 0 /\ result = None
  /\ sawEmpty = FALSE

\* Mutant: the index is not wrapped around.
AfterUnmasked(b, i) == i + 1
\* (i + 1) & sizeMask
After(b, i) == (i + 1) % block[b].size

-----------------------------------------------------------------------------
(***************************************************************************)
(* What the queue holds: the cells between front and tail of the blocks    *)
(* from frontBlock to tailBlock, in that order.  A cell whose element has  *)
(* just been moved out is no longer counted, although front still points   *)
(* at it.                                                                  *)
(***************************************************************************)
OldestCell(b) ==
  IF consumer = "release" /\ b = frontBlock THEN After(b, block[b].front) ELSE block[b].front

Count(b) == (block[b].tail + block[b].size - OldestCell(b)) % block[b].size

Cells(b) ==
  [i \in 1 .. Count(b) |-> block[b].data[(OldestCell(b) + i - 1) % block[b].size]]

\* The block n steps ahead of frontBlock.
Ahead[n \in 0 .. Len(block)] == IF n = 0 THEN frontBlock ELSE block[Ahead[n - 1]].next

Contents ==
  LET last == CHOOSE n \in 0 .. Len(block) :
                Ahead[n] = tailBlock /\ \A m \in 0 .. n - 1 : Ahead[m] # tailBlock
  IN FlattenSeq([i \in 1 .. last + 1 |-> Cells(Ahead[i - 1])])

Blocks == 1 .. Len(block)

\* Cell i is between front and tail.
InUse(b, i) ==
  (i + block[b].size - block[b].front) % block[b].size
    < (block[b].tail + block[b].size - block[b].front) % block[b].size

\* The cells that the producer cannot use: front is not yet past them.
UsedCells == UNION {{b} \X {i \in 0 .. block[b].size - 1 : InUse(b, i)} : b \in Blocks}

CellsInUse == Cardinality(UsedCells)

-----------------------------------------------------------------------------
(***************************************************************************)
(* The producer: enqueue(e) and try_enqueue(e), that is                    *)
(* inner_enqueue<CanAlloc>(e) and inner_enqueue<CannotAlloc>(e).           *)
(***************************************************************************)
Produces(from, to) == producer = from /\ producer' = to

\* Mutant: no cell is kept free to tell a full block from an empty one.
HasRoomWithoutSpare(front) ==
  After(tailBlock, After(tailBlock, block[tailBlock].tail)) # front
HasRoom(front) == After(tailBlock, block[tailBlock].tail) # front

Enqueue(e) ==
  /\ Produces("idle", IF HasRoom(block[tailBlock].localFront) THEN "write" ELSE "reload")
  /\ \E c \in ProducerCalls : canAlloc' = (c = "enqueue")
  /\ element' = e
  /\ roomAtCall' = (CellsInUse < maxSize)
  /\ UNCHANGED <<block, tailBlock, largestBlockSize, consumerVars>>

ReloadFront ==
  /\ Produces("reload", IF HasRoom(block[tailBlock].front) THEN "write" ELSE "full")
  /\ block' = [block EXCEPT ![tailBlock].localFront = block[tailBlock].front]
  /\ UNCHANGED <<tailBlock, largestBlockSize, enqueueVars, consumerVars>>

WriteCell(b) == block' = [block EXCEPT ![b].data[block[b].tail] = element]

PublishCell(b) == block' = [block EXCEPT ![b].tail = After(b, @)]

Write ==
  /\ Produces("write", "publish")
  /\ WriteCell(tailBlock)
  /\ UNCHANGED <<tailBlock, largestBlockSize, enqueueVars, consumerVars>>

Publish ==
  /\ Produces("publish", "idle")
  /\ PublishCell(tailBlock)
  /\ element' = None /\ UNCHANGED <<canAlloc, roomAtCall>>
  /\ UNCHANGED <<tailBlock, largestBlockSize, consumerVars>>

Following == block[tailBlock].next

\* Mutant: the producer may use any block that is not the one it fills.
CheckFollowingAnyOther ==
  /\ Produces("full", IF Following # tailBlock THEN "ahead" ELSE "alloc")
  /\ UNCHANGED <<block, tailBlock, largestBlockSize, enqueueVars, consumerVars>>
CheckFollowing ==
  /\ Produces("full", IF Following # frontBlock THEN "ahead" ELSE "alloc")
  /\ UNCHANGED <<block, tailBlock, largestBlockSize, enqueueVars, consumerVars>>

\* The following block is free: use it.  The code asserts that it is empty.
UseFollowing ==
  /\ Produces("ahead", IF block[Following].front = block[Following].tail
                         THEN "writeAhead" ELSE "assert")
  /\ block' = [block EXCEPT ![Following].localFront = block[Following].front]
  /\ UNCHANGED <<tailBlock, largestBlockSize, enqueueVars, consumerVars>>

WriteAhead ==
  /\ Produces("writeAhead", "publishAhead")
  /\ WriteCell(Following)
  /\ UNCHANGED <<tailBlock, largestBlockSize, enqueueVars, consumerVars>>

PublishAhead ==
  /\ Produces("publishAhead", "advance")
  /\ PublishCell(Following)
  /\ UNCHANGED <<tailBlock, largestBlockSize, enqueueVars, consumerVars>>

NextSize == IF largestBlockSize >= MaxBlockSize THEN largestBlockSize ELSE 2 * largestBlockSize

\* Mutant: the new block is linked to itself and not to the ring.
BlockWithSelfLoop ==
  [NewBlock(NextSize, Len(block) + 1) EXCEPT !.data[0] = element, !.tail = 1, !.localTail = 1]
\* Mutant: the tail of the new block is not set.
BlockWithoutTail == [NewBlock(NextSize, Following) EXCEPT !.data[0] = element]
BlockWith ==
  [NewBlock(NextSize, Following) EXCEPT !.data[0] = element, !.tail = 1, !.localTail = 1]

Allocate ==
  /\ Produces("alloc", "link")
  /\ canAlloc
  /\ Len(block) < MaxBlocks
  /\ block' = Append(block, BlockWith)
  /\ largestBlockSize' = NextSize
  /\ UNCHANGED <<tailBlock, enqueueVars, consumerVars>>

\* make_block() returned nullptr, or try_enqueue() may not call it: return false.
FailToAllocate ==
  /\ Produces("alloc", "idle")
  /\ element' = None /\ UNCHANGED <<canAlloc, roomAtCall>>
  /\ UNCHANGED <<block, tailBlock, largestBlockSize, consumerVars>>

Link ==
  /\ Produces("link", "advance")
  /\ block' = [block EXCEPT ![tailBlock].next = Len(block)]
  /\ UNCHANGED <<tailBlock, largestBlockSize, enqueueVars, consumerVars>>

AdvanceTail ==
  /\ Produces("advance", "idle")
  /\ tailBlock' = Following
  /\ element' = None /\ UNCHANGED <<canAlloc, roomAtCall>>
  /\ UNCHANGED <<block, largestBlockSize, consumerVars>>

Producer ==
  \/ \E e \in Elements : Enqueue(e)
  \/ ReloadFront \/ Write \/ Publish \/ CheckFollowing
  \/ UseFollowing \/ WriteAhead \/ PublishAhead
  \/ Allocate \/ FailToAllocate \/ Link \/ AdvanceTail

-----------------------------------------------------------------------------
(***************************************************************************)
(* The consumer: try_dequeue(result), pop() and peek().                    *)
(***************************************************************************)
Consumes(from, to) == consumer = from /\ consumer' = to

FrontIndex == block[frontBlock].front

Dequeue(c) ==
  /\ Consumes("idle", IF FrontIndex # block[frontBlock].localTail THEN "take" ELSE "reload")
  /\ call' = c
  /\ sawEmpty' = (Contents = <<>>)
  /\ UNCHANGED <<block, frontBlock, nextBlock, result, producerVars>>

\* localTail = tail: take if there is something, otherwise go on with `otherwise`.
LoadTail(otherwise) ==
  /\ block' = [block EXCEPT ![frontBlock].localTail = block[frontBlock].tail]
  /\ consumer' = IF FrontIndex # block[frontBlock].tail THEN "take" ELSE otherwise
  /\ UNCHANGED <<frontBlock, call, nextBlock, result, sawEmpty, producerVars>>

\* Mutant: the shadow copy of tail is compared again without being refreshed.
ReloadTailStale ==
  /\ Consumes("reload", "checkTail")
  /\ UNCHANGED <<block, frontBlock, call, nextBlock, result, sawEmpty, producerVars>>
ReloadTail == consumer = "reload" /\ LoadTail("checkTail")

CheckTail ==
  /\ Consumes("checkTail", IF frontBlock # tailBlock THEN "again" ELSE "idle")
  /\ UNCHANGED <<block, frontBlock, call, nextBlock, result, sawEmpty, producerVars>>

\* Mutant: the front block is not looked at again before it is left.
CheckAgainNot ==
  /\ Consumes("again", "next")
  /\ UNCHANGED <<block, frontBlock, call, nextBlock, result, sawEmpty, producerVars>>
CheckAgain == consumer = "again" /\ LoadTail("next")

ReadNext ==
  /\ Consumes("next", "peek")
  /\ nextBlock' = block[frontBlock].next
  /\ UNCHANGED <<block, frontBlock, call, result, sawEmpty, producerVars>>

\* The code asserts that there is an element in the next block.
PeekNext ==
  /\ call # "peek"
  /\ Consumes("peek", IF block[nextBlock].front # block[nextBlock].tail
                        THEN "advance" ELSE "assert")
  /\ block' = [block EXCEPT ![nextBlock].localTail = block[nextBlock].tail]
  /\ UNCHANGED <<frontBlock, call, nextBlock, result, sawEmpty, producerVars>>

\* peek() points at the element in the next block and does not advance.
LookAhead ==
  /\ call = "peek"
  /\ Consumes("peek", IF block[nextBlock].front # block[nextBlock].tail
                        THEN "idle" ELSE "assert")
  /\ result' = block[nextBlock].data[block[nextBlock].front] /\ nextBlock' = 0
  /\ UNCHANGED <<block, frontBlock, call, sawEmpty, producerVars>>

AdvanceFront ==
  /\ Consumes("advance", "take")
  /\ frontBlock' = nextBlock /\ nextBlock' = 0
  /\ UNCHANGED <<block, call, result, sawEmpty, producerVars>>

\* Mutant: the element is moved out and not destroyed.
TakeWithoutDestroying ==
  /\ call = "try_dequeue"
  /\ Consumes("take", "release")
  /\ result' = block[frontBlock].data[FrontIndex]
  /\ UNCHANGED <<block, frontBlock, call, nextBlock, sawEmpty, producerVars>>
Take ==
  /\ call = "try_dequeue"
  /\ Consumes("take", "release")
  /\ result' = block[frontBlock].data[FrontIndex]
  /\ block' = [block EXCEPT ![frontBlock].data[FrontIndex] = None]
  /\ UNCHANGED <<frontBlock, call, nextBlock, sawEmpty, producerVars>>

Pop ==
  /\ call = "pop"
  /\ Consumes("take", "release")
  /\ block' = [block EXCEPT ![frontBlock].data[FrontIndex] = None]
  /\ UNCHANGED <<frontBlock, call, nextBlock, result, sawEmpty, producerVars>>

Peek ==
  /\ call = "peek"
  /\ Consumes("take", "idle")
  /\ result' = block[frontBlock].data[FrontIndex]
  /\ UNCHANGED <<block, frontBlock, call, nextBlock, sawEmpty, producerVars>>

Release ==
  /\ Consumes("release", "idle")
  /\ block' = [block EXCEPT ![frontBlock].front = After(frontBlock, @)]
  /\ UNCHANGED <<frontBlock, call, nextBlock, result, sawEmpty, producerVars>>

Consumer ==
  \/ \E c \in ConsumerCalls : Dequeue(c)
  \/ ReloadTail \/ CheckTail \/ CheckAgain \/ ReadNext \/ PeekNext \/ LookAhead
  \/ AdvanceFront \/ Take \/ Pop \/ Peek \/ Release

-----------------------------------------------------------------------------
Next == Producer \/ Consumer

Spec == Init /\ [][Next]_vars

\* The consumer keeps calling, as every loop of main.cpp does.
FairSpec == Spec /\ WF_vars(Consumer)

-----------------------------------------------------------------------------
BlockTypeOK(b) ==
  /\ block[b].size \in PowersOfTwo
  /\ block[b].next \in Blocks
  /\ {block[b].front, block[b].tail, block[b].localFront, block[b].localTail}
       \subseteq 0 .. block[b].size - 1
  /\ block[b].data \in [0 .. block[b].size - 1 -> Elements \cup {None}]

QueueTypeOK ==
  /\ \A b \in Blocks : BlockTypeOK(b)
  /\ frontBlock \in Blocks /\ tailBlock \in Blocks /\ nextBlock \in Blocks \cup {0}
  /\ largestBlockSize \in PowersOfTwo
  /\ producer \in {"idle", "reload", "write", "publish", "full", "ahead", "writeAhead",
                   "publishAhead", "alloc", "link", "advance", "assert"}
  /\ consumer \in {"idle", "reload", "checkTail", "again", "next", "peek", "advance",
                   "take", "release", "assert"}
  /\ element \in Elements \cup {None} /\ result \in Elements \cup {None}
  /\ call \in {"try_dequeue", "pop", "peek"}
  /\ {canAlloc, roomAtCall, sawEmpty} \subseteq BOOLEAN

\* What the call of the consumer may still do.
Popping ==
  CASE consumer = "idle"                   -> "no"
    [] consumer = "release"                -> "took"
    [] consumer \notin {"idle", "release"} -> IF sawEmpty THEN "any" ELSE "some"

(***************************************************************************)
(* The queue is a FIFO: nothing is lost, duplicated or overtaken, and      *)
(* try_dequeue() returns false only if the queue was empty when it was     *)
(* called ("which would make us skip a filled block", line 222).           *)
(***************************************************************************)
F == INSTANCE Fifo WITH contents <- Contents, sending <- element, popping <- Popping

ImplementsFifo == F!FifoSpec

(***************************************************************************)
(* The assertions of lines 272 and 479: the block that the consumer        *)
(* advances to holds an element, the block that the producer advances to   *)
(* holds none.                                                             *)
(***************************************************************************)
AssertionsHold == producer # "assert" /\ consumer # "assert"

(***************************************************************************)
(* The two threads never touch the same cell: the producer constructs      *)
(* elements in empty cells only, the consumer takes published ones only.   *)
(***************************************************************************)
CellsAreOwned ==
  /\ producer = "write"      => block[tailBlock].data[block[tailBlock].tail] = None
  /\ producer = "writeAhead" => block[Following].data[block[Following].tail] = None
  /\ consumer = "take"       => block[frontBlock].data[FrontIndex] # None

(***************************************************************************)
(* Outside of a call every element that was constructed and not destroyed  *)
(* is between front and tail of its block, where the destructor of the     *)
(* queue (line 154) finds it, and nothing else is there.                   *)
(***************************************************************************)
NothingLeaks ==
  producer = "idle" /\ consumer = "idle" =>
    \A b \in Blocks : \A i \in 0 .. block[b].size - 1 :
      block[b].data[i] # None <=> InUse(b, i)

(***************************************************************************)
(* "Blocks are never removed" (line 73): outside of enqueue() every block  *)
(* is on the ring that starts at frontBlock.                               *)
(***************************************************************************)
AllOnRing == producer = "idle" => Blocks = {Ahead[n] : n \in 0 .. Len(block)}

(***************************************************************************)
(* "Constructs a queue that can hold maxSize elements without further      *)
(* allocations" (line 76): an enqueue() asks for memory, and try_enqueue() *)
(* refuses, only if at least maxSize cells were in use when it was called, *)
(* wherever in the ring the consumer stands.                               *)
(***************************************************************************)
HoldsMaxSize == producer = "alloc" => ~roomAtCall

(***************************************************************************)
(* As long as the consumer keeps calling, what has been enqueued is found: *)
(* no element gets stuck behind a stale copy of an index.                  *)
(***************************************************************************)
SomethingIsFound == Contents # <<>> ~> consumer \in {"take", "peek"}
=============================================================================
