------------------------ MODULE MCReaderWriterQueue ------------------------
(***************************************************************************)
(* Model values for checking the queue: two elements that can be told      *)
(* apart, blocks small enough to be filled, reused and outgrown, and the   *)
(* calls of the program or all calls.                                      *)
(***************************************************************************)
EXTENDS ReaderWriterQueue

CONSTANTS e1, e2

MCElements == {e1, e2}
MCOneElement == {e1}

MCEnqueue == {"enqueue"}
MCTryDequeue == {"try_dequeue"}
MCConsumerCalls == {"try_dequeue", "pop", "peek"}
MCProducerCalls == {"enqueue", "try_enqueue"}
=============================================================================
