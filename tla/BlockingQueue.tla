---------------------------- MODULE BlockingQueue ----------------------------
(***************************************************************************)
(* BlockingReaderWriterQueue (readerwriterqueue.h): a queue whose consumer *)
(* can wait for an element, made of the lock-free queue, here by what      *)
(* module Fifo says it promises, and the semaphore of LightweightSemaphore.*)
(* The producer signals after each enqueue, the consumer asks the semaphore*)
(* first and then takes what it has been promised.                         *)
(***************************************************************************)
EXTENDS Fifo, LightweightSemaphore

CONSTANT MaxLength  \* bound: there is memory for so many elements

ASSUME BlockingAssumption ==
  /\ None \notin Elements
  /\ MaxLength \in Nat \ {0}

vars == <<fifoVars, semaVars>>

Init == FifoInit /\ SemaInit

-----------------------------------------------------------------------------
(***************************************************************************)
(* The producer.  enqueue() and try_enqueue() differ in when the inner     *)
(* queue fails, and not in what is done about it.                          *)
(***************************************************************************)
Enqueue(e) ==
  /\ signalling = "no" /\ CallEnqueue(e)
  /\ UNCHANGED semaVars

InnerEnqueues ==
  /\ Len(contents) < MaxLength
  /\ Send
  /\ signalling' = "add"
  /\ UNCHANGED <<m_count, m_sema, waiting, waitFor, tv_nsec>>

InnerEnqueueFails == FailToSend /\ UNCHANGED semaVars

Signals == Signaller /\ UNCHANGED fifoVars

Producer == InnerEnqueues \/ InnerEnqueueFails \/ Signals

-----------------------------------------------------------------------------
(***************************************************************************)
(* The consumer: try_dequeue() and pop() do not wait, wait_dequeue_timed() *)
(* does, for ever if the timeout is negative, as wait_dequeue().  Whether  *)
(* it is try_dequeue() or pop() shows when the inner queue is called.      *)
(***************************************************************************)
Call(w) == popping = "no" /\ CallWait(w) /\ UNCHANGED fifoVars

Wait == Waiter /\ UNCHANGED fifoVars

InnerCall ==
  /\ waiting = "yes"
  /\ \E c \in IF waitFor = "try" THEN {"try_dequeue", "pop"} ELSE {"try_dequeue"} :
       CallConsumer(c)
  /\ UNCHANGED semaVars

InnerTakes == (Take \/ Drop) /\ UNCHANGED semaVars

InnerReturns ==
  /\ ReturnTaken /\ waiting' = "no"
  /\ UNCHANGED <<m_count, m_sema, signalling, waitFor, tv_nsec>>

\* peek() goes past the semaphore.
Peek == waiting = "no" /\ CallConsumer("peek") /\ UNCHANGED semaVars

PeekReturns ==
  /\ call = "peek" /\ (Look \/ ReturnEmpty)
  /\ UNCHANGED semaVars

Consumer == Wait \/ InnerCall \/ InnerTakes \/ InnerReturns \/ PeekReturns

-----------------------------------------------------------------------------
Next ==
  \/ \E e \in Elements : Enqueue(e)
  \/ \E w \in Waits : Call(w)
  \/ Peek
  \/ Producer \/ Consumer

Spec == Init /\ [][Next]_vars

\* A call that has begun goes on; nobody has to call anything.
FairSpec == Spec /\ WF_vars(Producer) /\ WF_vars(Consumer)

-----------------------------------------------------------------------------
One(b) == IF b THEN 1 ELSE 0

TypeOK ==
  /\ SemaTypeOK
  /\ contents \in Seq(Elements)
  /\ sending \in Elements \cup {None}
  /\ call \in Calls
  /\ popping \in {"no", "any", "some", "took"}
  /\ result \in Elements \cup {None}

(***************************************************************************)
(* Whoever got past the semaphore finds an element in the inner queue      *)
(* (assert(success), readerwriterqueue.h:713, 729, 748, 786).              *)
(***************************************************************************)
SuccessAsserted == waiting = "yes" => popping # "any"

(***************************************************************************)
(* size_approx() never counts an element that cannot be taken, and between *)
(* calls it is exact, with no token left over in the system's semaphore.   *)
(***************************************************************************)
SizeAgrees ==
  /\ AvailableApprox <= Len(contents)
  /\ waiting = "no" /\ signalling = "no" => AvailableApprox = Len(contents) /\ m_sema = 0

(***************************************************************************)
(* A call of the consumer comes back empty-handed, at once or when its     *)
(* time is up, only at a moment when there is no element but one that the  *)
(* producer has not signalled yet.                                         *)
(***************************************************************************)
GivesUp == waiting # "no" /\ waiting' = "no" /\ popping # "took"
GivesUpOnlyWhenEmpty == [][GivesUp => Len(contents) = One(signalling = "add")]_vars

(***************************************************************************)
(* wait_dequeue() takes an element when there is one: no signal is lost    *)
(* between the consumer's last look at the counter and its sleep.          *)
(***************************************************************************)
WaitIsServed ==
  (waiting # "no" /\ waitFor = "ever" /\ contents # <<>>) ~> popping = "took"

(***************************************************************************)
(* wait_dequeue_timed() returns: the loop that undoes the subtraction does *)
(* not chase the producer for ever.                                        *)
(***************************************************************************)
TimedWaitEnds == (waiting # "no" /\ waitFor = "timed") ~> waiting = "no"
=============================================================================
