------------------------------ MODULE QueueSize ------------------------------
(***************************************************************************)
(* size_approx() (readerwriterqueue.h:414): the thread that calls it walks *)
(* around the ring from frontBlock, adding up the cells between front and  *)
(* tail of each block, while the other thread goes on with its own calls.  *)
(* "Safe to call from both the producer and consumer threads."             *)
(***************************************************************************)
EXTENDS QueueOrder

VARIABLES
  sizing,       \* the thread that is in size_approx(), or "nobody"
  sizeStep,     \* its next step: "front", "tail", "next" or "return"
  sizeStart,    \* its local variable frontBlock_
  sizeBlock,    \* its local variable block
  blockFront,   \* its local variable of that name
  size,         \* its local variable result
  sizeAtCall    \* history: when it was called, the cells in use (the elements, if by the consumer)

walkVars == <<sizing, sizeStep, sizeStart, sizeBlock, blockFront, size, sizeAtCall>>
sizeVars == <<orderVars, walkVars>>

SizeInit ==
  /\ OrderInit
  /\ sizing = "nobody" /\ sizeStep = "front"
  /\ sizeStart = 0 /\ sizeBlock = 0 /\ blockFront = 0 /\ size = 0
  /\ sizeAtCall = 0

-----------------------------------------------------------------------------
CallSize(thread) ==
  /\ sizing = "nobody" /\ sizing' = thread
  /\ thread = "producer" => producer = "idle"
  /\ thread = "consumer" => consumer = "idle"
  /\ sizeStep' = "front"
  /\ sizeStart' = frontBlock /\ sizeBlock' = frontBlock
  /\ sizeAtCall' = IF thread = "producer" THEN CellsInUse ELSE Len(Contents)
  /\ UNCHANGED <<orderVars, blockFront, size>>

LoadBlockFront ==
  /\ sizing # "nobody" /\ sizeStep = "front" /\ sizeStep' = "tail"
  /\ blockFront' = block[sizeBlock].front
  /\ UNCHANGED <<orderVars, sizing, sizeStart, sizeBlock, size, sizeAtCall>>

\* (blockTail - blockFront) & sizeMask
InBlock(tail) == (tail + block[sizeBlock].size - blockFront) % block[sizeBlock].size

LoadBlockTail ==
  /\ sizeStep = "tail" /\ sizeStep' = "next"
  /\ size' = size + InBlock(block[sizeBlock].tail) /\ blockFront' = 0
  /\ UNCHANGED <<orderVars, sizing, sizeStart, sizeBlock, sizeAtCall>>

\* Mutant: the walk ends at the block that is dequeued from now.
WalkedAroundNow(next) == next = frontBlock
WalkedAround(next) == next = sizeStart

LoadBlockNext ==
  /\ sizeStep = "next"
  /\ sizeBlock' = block[sizeBlock].next
  /\ sizeStep' = IF WalkedAround(block[sizeBlock].next) THEN "return" ELSE "front"
  /\ UNCHANGED <<orderVars, sizing, sizeStart, blockFront, size, sizeAtCall>>

\* The local variables are gone.
ReturnSize ==
  /\ sizeStep = "return" /\ sizeStep' = "front"
  /\ sizing' = "nobody"
  /\ sizeStart' = 0 /\ sizeBlock' = 0 /\ size' = 0 /\ sizeAtCall' = 0
  /\ UNCHANGED <<orderVars, blockFront>>

Walk == LoadBlockFront \/ LoadBlockTail \/ LoadBlockNext \/ ReturnSize

-----------------------------------------------------------------------------
SizedNext ==
  \/ sizing # "producer" /\ Producer /\ Remember /\ UNCHANGED walkVars
  \/ sizing # "consumer" /\ Consumer /\ Remember /\ UNCHANGED walkVars
  \/ \E thread \in {"producer", "consumer"} : CallSize(thread)
  \/ Walk

SizedSpec == SizeInit /\ [][SizedNext]_sizeVars

(***************************************************************************)
(* What size_approx() returns is off by at most what the other thread has  *)
(* done meanwhile, wherever that has moved frontBlock and whatever it has  *)
(* linked into the ring under the walk.  The producer counts every element *)
(* that is still there and no cell that was free when it called; the       *)
(* consumer counts every element that was there and no cell that is free   *)
(* when the call returns.  It is never more at any step of the walk, so no *)
(* block with elements is passed twice.                                    *)
(***************************************************************************)
SizeIsBracketed ==
  /\ sizing = "producer" =>
       size <= sizeAtCall /\ (sizeStep = "return" => Len(Contents) <= size)
  /\ sizing = "consumer" =>
       size <= CellsInUse /\ (sizeStep = "return" => sizeAtCall <= size)
=============================================================================
