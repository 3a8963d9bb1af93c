----------------------------- MODULE QueueOrder -----------------------------
(***************************************************************************)
(* The lock-free queue with a history: the elements between their          *)
(* publication and their removal, in the order of publication.  With it    *)
(* the queue implements the Fifo without a walk around its ring, so that   *)
(* the implementation can be proved for every number and size of blocks.   *)
(* The history is told by the steps and never asked by them.               *)
(***************************************************************************)
EXTENDS ReaderWriterQueue

VARIABLES
  held,        \* history: the elements published and not yet moved out
  emptyAtCall  \* history: there were none when the consumer called

orderVars == <<vars, held, emptyAtCall>>

OrderInit == Init /\ held = <<>> /\ emptyAtCall = FALSE

\* The stores that make an element visible to the consumer.
Published == producer \in {"publish", "advance"} /\ producer' = "idle"

MovedOut == consumer = "take" /\ consumer' = "release"

Called == consumer = "idle" /\ consumer' # "idle"

Remember ==
  /\ held' = IF Published THEN Append(held, element)
             ELSE IF MovedOut THEN Tail(held) ELSE held
  /\ emptyAtCall' = IF Called THEN held = <<>> ELSE emptyAtCall

OrderNext == Next /\ Remember

OrderSpec == OrderInit /\ [][OrderNext]_orderVars

-----------------------------------------------------------------------------
\* What the call of the consumer may still do.
Doing ==
  CASE consumer = "idle"                  -> "no"
    [] consumer = "release"               -> "took"
    [] consumer \notin {"idle", "release"} -> IF emptyAtCall THEN "any" ELSE "some"

H == INSTANCE Fifo WITH contents <- held, sending <- element, popping <- Doing

(***************************************************************************)
(* The elements leave the queue in the order in which they were published, *)
(* each once, and a call comes back empty-handed only if there was nothing *)
(* when it was made, however the steps of the two threads interleave.      *)
(***************************************************************************)
OrderIsFifo == H!FifoSpec
=============================================================================
