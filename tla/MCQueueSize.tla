---------------------------- MODULE MCQueueSize ----------------------------
(***************************************************************************)
(* Model values for checking all that the queue offers its two threads,    *)
(* size_approx() too.  Two elements, to tell one that was overtaken from   *)
(* one that was not; the queue treats them alike.  The second block is     *)
(* twice as large as the first.  try_enqueue() is enqueue() when there is  *)
(* no memory for a block, as here from the second block on.                *)
(***************************************************************************)
EXTENDS QueueSize, TLC

CONSTANTS e1, e2

MCElements == {e1, e2}

ElementSymmetry == Permutations(MCElements)

MCProducerCalls == {"enqueue"}
MCConsumerCalls == {"try_dequeue", "pop", "peek"}
=============================================================================
