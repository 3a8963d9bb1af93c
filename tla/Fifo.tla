-------------------------------- MODULE Fifo --------------------------------
(***************************************************************************)
(* What the queue of one direction of a channel promises its producer and  *)
(* its consumer, whose calls overlap.                                      *)
(*                                                                         *)
(* An enqueue takes effect at one instant of the call, or not at all when  *)
(* memory is exhausted.  A call of the consumer takes the oldest element   *)
(* (try_dequeue), drops it (pop) or looks at it (peek) at one instant of   *)
(* the call; it may come back empty-handed only if there was no element    *)
(* when it was called.                                                     *)
(***************************************************************************)
EXTENDS Sequences

CONSTANTS
  Elements,  \* what may be sent
  None       \* no element: never a member of Elements

VARIABLES
  contents,  \* the elements that have been enqueued and not yet been taken
  sending,   \* the element of the enqueue that is under way, or None
  call,      \* the latest call of the consumer
  popping,   \* "no", or what that call may still do: "any", "some", "took"
  result     \* the element that was taken or looked at last, or None

fifoVars == <<contents, sending, call, popping, result>>

Calls == {"try_dequeue", "pop", "peek"}

FifoInit ==
  contents = <<>> /\ sending = None /\ call = "try_dequeue" /\ popping = "no" /\ result = None

CallEnqueue(e) ==
  /\ sending = None /\ sending' = e
  /\ UNCHANGED <<contents, call, popping, result>>

Send ==
  /\ sending # None
  /\ contents' = Append(contents, sending) /\ sending' = None
  /\ UNCHANGED <<call, popping, result>>

FailToSend ==
  /\ sending # None /\ sending' = None
  /\ UNCHANGED <<contents, call, popping, result>>

CallConsumer(c) ==
  /\ popping = "no" /\ call' = c
  /\ popping' = IF contents = <<>> THEN "any" ELSE "some"
  /\ UNCHANGED <<contents, sending, result>>

\* A call is under way, has had no effect yet, and there is an element.
MayAct(c) == call = c /\ popping \in {"any", "some"} /\ contents # <<>>

Take ==
  /\ MayAct("try_dequeue") /\ popping' = "took"
  /\ result' = Head(contents) /\ contents' = Tail(contents)
  /\ UNCHANGED <<sending, call>>

Drop ==
  /\ MayAct("pop") /\ popping' = "took"
  /\ contents' = Tail(contents)
  /\ UNCHANGED <<sending, call, result>>

Look ==
  /\ MayAct("peek") /\ popping' = "no"
  /\ result' = Head(contents)
  /\ UNCHANGED <<contents, sending, call>>

ReturnTaken ==
  /\ popping = "took" /\ popping' = "no"
  /\ UNCHANGED <<contents, sending, call, result>>

ReturnEmpty ==
  /\ popping = "any" /\ popping' = "no"
  /\ UNCHANGED <<contents, sending, call, result>>

FifoNext ==
  \/ \E e \in Elements : CallEnqueue(e)
  \/ Send \/ FailToSend
  \/ \E c \in Calls : CallConsumer(c)
  \/ Take \/ Drop \/ Look \/ ReturnTaken \/ ReturnEmpty

FifoSpec == FifoInit /\ [][FifoNext]_fifoVars
=============================================================================
