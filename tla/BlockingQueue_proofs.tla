------------------------ MODULE BlockingQueue_proofs ------------------------
(***************************************************************************)
(* What the semaphore's counter means, for every queue length, and what    *)
(* follows from it for the consumer of the blocking queue.                 *)
(*                                                                         *)
(* The counter, the element that the consumer has been promised and the    *)
(* element whose signal is still to come add up to the elements in the     *)
(* queue.  A token is in the system's semaphore, or about to be put there, *)
(* exactly when a consumer that has subtracted one has been answered.      *)
(***************************************************************************)
EXTENDS BlockingQueue, SequenceTheorems, TLAPS

\* No clock value and timeout add up to exactly one second: the case in which
\* the system refuses the deadline.
NeverAWholeSecond ==
  \A c \in ClockNsecs, f \in Fractions : c + f # NsecsInSec

\* The consumer has subtracted one from the counter and taken nothing yet.
Holds == \/ waiting \in {"asleep", "restore", "tryTake"}
         \/ waiting = "yes" /\ popping # "took"

\* A token is due to the consumer.
Owed == \/ waiting \in {"asleep", "restore", "tryTake"} /\ m_count >= 0
        \/ waiting = "recheck"

Balance == m_count + One(Holds) + One(signalling = "add") = Len(contents)

Tokens == m_sema + One(signalling = "post") = One(Owed)

CountBounds ==
  /\ m_count >= -1
  /\ m_count = -1 => waiting \in {"asleep", "restore"}
  /\ waiting \in {"grab", "recheck"} => m_count > 0

DeadlineAccepted == ~Refused(tv_nsec)

Phases ==
  /\ waiting = "yes" => popping \in {"no", "some", "took"}
  /\ waiting = "no" => popping \in {"no", "any", "some"}
  /\ waiting \in WaitSteps => popping = "no"
  /\ waiting = "yes" /\ popping # "no" => call # "peek"
  /\ waiting = "no" /\ popping # "no" => call = "peek"
  /\ sending # None => signalling = "no"

Inv == TypeOK /\ Balance /\ Tokens /\ CountBounds /\ DeadlineAccepted /\ Phases

-----------------------------------------------------------------------------
(***************************************************************************)
(* Every deadline that timed_wait() computes is accepted.                  *)
(***************************************************************************)
LEMMA DeadlineInRange ==
  ASSUME NeverAWholeSecond, NEW c \in ClockNsecs, NEW f \in Fractions
  PROVE  Deadline(c, f) \in Nat /\ ~Refused(Deadline(c, f))
  BY SemaphoreAssumption DEF NeverAWholeSecond, Deadline, Refused

\* Appending and taking the first element, as far as lengths are concerned.
LEMMA Lengths ==
  ASSUME contents \in Seq(Elements)
  PROVE  /\ Len(contents) \in Nat
         /\ contents = <<>> <=> Len(contents) = 0
         /\ \A e \in Elements : /\ Append(contents, e) \in Seq(Elements)
                                /\ Len(Append(contents, e)) = Len(contents) + 1
         /\ contents # <<>> => /\ Head(contents) \in Elements
                              /\ Tail(contents) \in Seq(Elements)
                              /\ Len(Tail(contents)) = Len(contents) - 1
  BY EmptySeq, HeadTailProperties, AppendProperties, LenProperties

LEMMA Initially == ASSUME NeverAWholeSecond PROVE Init => Inv
  <1> SUFFICES ASSUME Init PROVE Inv
    OBVIOUS
  <1> USE DEF Init, FifoInit, SemaInit
  <1>1. TypeOK /\ contents = <<>> /\ Len(contents) = 0
    BY EmptySeq DEF TypeOK, SemaTypeOK, Calls, Waits
  <1>2. Balance /\ Tokens /\ CountBounds
    BY <1>1 DEF Balance, Tokens, CountBounds, Holds, Owed, One
  <1>3. DeadlineAccepted /\ Phases
    BY SemaphoreAssumption DEF DeadlineAccepted, Refused, Phases, WaitSteps
  <1> QED
    BY <1>1, <1>2, <1>3 DEF Inv

LEMMA EnqueueKeepsInv ==
  ASSUME Inv, NEW e \in Elements, Enqueue(e) PROVE Inv'
  <1> USE DEF Inv, Enqueue, CallEnqueue, semaVars
  <1>1. TypeOK'
    BY BlockingAssumption DEF TypeOK, SemaTypeOK, Calls, Waits, WaitSteps
  <1>2. Balance'
    BY DEF TypeOK, SemaTypeOK, WaitSteps, Phases, Balance, Tokens, CountBounds, Holds, Owed, One
  <1>3. Tokens' /\ CountBounds'
    BY DEF TypeOK, SemaTypeOK, WaitSteps, Phases, Balance, Tokens, CountBounds, Holds, Owed, One
  <1>4. DeadlineAccepted' /\ Phases'
    BY BlockingAssumption DEF DeadlineAccepted, Refused, Phases, TypeOK, SemaTypeOK, WaitSteps
  <1> QED
    BY <1>1, <1>2, <1>3, <1>4

LEMMA InnerEnqueuesKeepsInv ==
  ASSUME Inv, InnerEnqueues PROVE Inv'
  <1> USE DEF Inv, InnerEnqueues, Send
  <1>0. /\ contents' \in Seq(Elements) /\ Len(contents') = Len(contents) + 1
        /\ Len(contents) \in Nat /\ signalling = "no"
    BY Lengths DEF TypeOK, Phases
  <1>1. TypeOK'
    BY <1>0 DEF TypeOK, SemaTypeOK, Calls, Waits, WaitSteps
  <1>2. Balance'
    BY <1>0 DEF TypeOK, SemaTypeOK, WaitSteps, Phases, Balance, Tokens, CountBounds, Holds, Owed, One
  <1>3. Tokens' /\ CountBounds'
    BY <1>0 DEF TypeOK, SemaTypeOK, WaitSteps, Phases, Balance, Tokens, CountBounds, Holds, Owed, One
  <1>4. DeadlineAccepted' /\ Phases'
    BY <1>0 DEF DeadlineAccepted, Refused, Phases, TypeOK, SemaTypeOK, WaitSteps
  <1> QED
    BY <1>1, <1>2, <1>3, <1>4

LEMMA InnerEnqueueFailsKeepsInv ==
  ASSUME Inv, InnerEnqueueFails PROVE Inv'
  <1> USE DEF Inv, InnerEnqueueFails, FailToSend, semaVars
  <1>1. TypeOK'
    BY DEF TypeOK, SemaTypeOK, Calls, Waits, WaitSteps
  <1>2. Balance'
    BY DEF TypeOK, SemaTypeOK, WaitSteps, Phases, Balance, Tokens, CountBounds, Holds, Owed, One
  <1>3. Tokens' /\ CountBounds'
    BY DEF TypeOK, SemaTypeOK, WaitSteps, Phases, Balance, Tokens, CountBounds, Holds, Owed, One
  <1>4. DeadlineAccepted' /\ Phases'
    BY DEF DeadlineAccepted, Refused, Phases, TypeOK, SemaTypeOK, WaitSteps
  <1> QED
    BY <1>1, <1>2, <1>3, <1>4

LEMMA AddCountKeepsInv ==
  ASSUME Inv, AddCount, UNCHANGED fifoVars PROVE Inv'
  <1> USE DEF Inv, AddCount, SomebodySleeps, fifoVars
  <1>0. Len(contents) \in Nat
    BY Lengths DEF TypeOK
  <1>1. TypeOK'
    BY DEF TypeOK, SemaTypeOK, Calls, Waits, WaitSteps
  <1>2. Balance'
    BY <1>0 DEF TypeOK, SemaTypeOK, WaitSteps, Phases, Balance, Tokens, CountBounds, Holds, Owed, One
  <1>3. Tokens' /\ CountBounds'
    BY <1>0 DEF TypeOK, SemaTypeOK, WaitSteps, Phases, Balance, Tokens, CountBounds, Holds, Owed, One
  <1>4. DeadlineAccepted' /\ Phases'
    BY DEF DeadlineAccepted, Refused, Phases, TypeOK, SemaTypeOK, WaitSteps
  <1> QED
    BY <1>1, <1>2, <1>3, <1>4

LEMMA PostKeepsInv ==
  ASSUME Inv, Post, UNCHANGED fifoVars PROVE Inv'
  <1> USE DEF Inv, Post, fifoVars
  <1>0. Len(contents) \in Nat
    BY Lengths DEF TypeOK
  <1>1. TypeOK'
    BY DEF TypeOK, SemaTypeOK, Calls, Waits, WaitSteps
  <1>2. Balance'
    BY <1>0 DEF TypeOK, SemaTypeOK, WaitSteps, Phases, Balance, Tokens, CountBounds, Holds, Owed, One
  <1>3. Tokens' /\ CountBounds'
    BY <1>0 DEF TypeOK, SemaTypeOK, WaitSteps, Phases, Balance, Tokens, CountBounds, Holds, Owed, One
  <1>4. DeadlineAccepted' /\ Phases'
    BY DEF DeadlineAccepted, Refused, Phases, TypeOK, SemaTypeOK, WaitSteps
  <1> QED
    BY <1>1, <1>2, <1>3, <1>4

LEMMA TryWaitKeepsInv ==
  ASSUME Inv, TryWait, UNCHANGED fifoVars PROVE Inv'
  <1> USE DEF Inv, TryWait, WaitGoes, fifoVars
  <1>0. Len(contents) \in Nat
    BY Lengths DEF TypeOK
  <1>1. TypeOK'
    BY DEF TypeOK, SemaTypeOK, Calls, Waits, WaitSteps
  <1>2. Balance'
    BY <1>0 DEF TypeOK, SemaTypeOK, WaitSteps, Phases, Balance, Tokens, CountBounds, Holds, Owed, One
  <1>3. Tokens' /\ CountBounds'
    BY <1>0 DEF TypeOK, SemaTypeOK, WaitSteps, Phases, Balance, Tokens, CountBounds, Holds, Owed, One
  <1>4. DeadlineAccepted' /\ Phases'
    BY DEF DeadlineAccepted, Refused, Phases, TypeOK, SemaTypeOK, WaitSteps
  <1> QED
    BY <1>1, <1>2, <1>3, <1>4

LEMMA SpinKeepsInv ==
  ASSUME Inv, Spin, UNCHANGED fifoVars PROVE Inv'
  <1> USE DEF Inv, Spin, WaitGoes, fifoVars
  <1>0. Len(contents) \in Nat
    BY Lengths DEF TypeOK
  <1>1. TypeOK'
    BY DEF TypeOK, SemaTypeOK, Calls, Waits, WaitSteps
  <1>2. Balance'
    BY <1>0 DEF TypeOK, SemaTypeOK, WaitSteps, Phases, Balance, Tokens, CountBounds, Holds, Owed, One
  <1>3. Tokens' /\ CountBounds'
    BY <1>0 DEF TypeOK, SemaTypeOK, WaitSteps, Phases, Balance, Tokens, CountBounds, Holds, Owed, One
  <1>4. DeadlineAccepted' /\ Phases'
    BY DEF DeadlineAccepted, Refused, Phases, TypeOK, SemaTypeOK, WaitSteps
  <1> QED
    BY <1>1, <1>2, <1>3, <1>4

LEMMA GrabKeepsInv ==
  ASSUME Inv, Grab, UNCHANGED fifoVars PROVE Inv'
  <1> USE DEF Inv, Grab, WaitGoes, fifoVars
  <1>0. Len(contents) \in Nat
    BY Lengths DEF TypeOK
  <1>1. TypeOK'
    BY DEF TypeOK, SemaTypeOK, Calls, Waits, WaitSteps
  <1>2. Balance'
    BY <1>0 DEF TypeOK, SemaTypeOK, WaitSteps, Phases, Balance, Tokens, CountBounds, Holds, Owed, One
  <1>3. Tokens' /\ CountBounds'
    BY <1>0 DEF TypeOK, SemaTypeOK, WaitSteps, Phases, Balance, Tokens, CountBounds, Holds, Owed, One
  <1>4. DeadlineAccepted' /\ Phases'
    BY DEF DeadlineAccepted, Refused, Phases, TypeOK, SemaTypeOK, WaitSteps
  <1> QED
    BY <1>1, <1>2, <1>3, <1>4

LEMMA TimeOutKeepsInv ==
  ASSUME Inv, TimeOut, UNCHANGED fifoVars PROVE Inv'
  <1> USE DEF Inv, TimeOut, WaitGoes, fifoVars
  <1>0. Len(contents) \in Nat
    BY Lengths DEF TypeOK
  <1>1. TypeOK'
    BY DEF TypeOK, SemaTypeOK, Calls, Waits, WaitSteps
  <1>2. Balance'
    BY <1>0 DEF TypeOK, SemaTypeOK, WaitSteps, Phases, Balance, Tokens, CountBounds, Holds, Owed, One
  <1>3. Tokens' /\ CountBounds'
    BY <1>0 DEF TypeOK, SemaTypeOK, WaitSteps, Phases, Balance, Tokens, CountBounds, Holds, Owed, One
  <1>4. DeadlineAccepted' /\ Phases'
    BY DEF DeadlineAccepted, Refused, Phases, TypeOK, SemaTypeOK, WaitSteps
  <1> QED
    BY <1>1, <1>2, <1>3, <1>4

LEMMA RestoreKeepsInv ==
  ASSUME Inv, Restore, UNCHANGED fifoVars PROVE Inv'
  <1> USE DEF Inv, Restore, WaitGoes, AfterRestore, fifoVars
  <1>0. Len(contents) \in Nat
    BY Lengths DEF TypeOK
  <1>1. TypeOK'
    BY DEF TypeOK, SemaTypeOK, Calls, Waits, WaitSteps
  <1>2. Balance'
    BY <1>0 DEF TypeOK, SemaTypeOK, WaitSteps, Phases, Balance, Tokens, CountBounds, Holds, Owed, One
  <1>3. Tokens' /\ CountBounds'
    BY <1>0 DEF TypeOK, SemaTypeOK, WaitSteps, Phases, Balance, Tokens, CountBounds, Holds, Owed, One
  <1>4. DeadlineAccepted' /\ Phases'
    BY DEF DeadlineAccepted, Refused, Phases, TypeOK, SemaTypeOK, WaitSteps
  <1> QED
    BY <1>1, <1>2, <1>3, <1>4

LEMMA RecheckKeepsInv ==
  ASSUME Inv, Recheck, UNCHANGED fifoVars PROVE Inv'
  <1> USE DEF Inv, Recheck, WaitGoes, AfterRecheck, fifoVars
  <1>0. Len(contents) \in Nat
    BY Lengths DEF TypeOK
  <1>1. TypeOK'
    BY DEF TypeOK, SemaTypeOK, Calls, Waits, WaitSteps
  <1>2. Balance'
    BY <1>0 DEF TypeOK, SemaTypeOK, WaitSteps, Phases, Balance, Tokens, CountBounds, Holds, Owed, One
  <1>3. Tokens' /\ CountBounds'
    BY <1>0 DEF TypeOK, SemaTypeOK, WaitSteps, Phases, Balance, Tokens, CountBounds, Holds, Owed, One
  <1>4. DeadlineAccepted' /\ Phases'
    BY DEF DeadlineAccepted, Refused, Phases, TypeOK, SemaTypeOK, WaitSteps
  <1> QED
    BY <1>1, <1>2, <1>3, <1>4

LEMMA TryTakeKeepsInv ==
  ASSUME Inv, TryTake, UNCHANGED fifoVars PROVE Inv'
  <1> USE DEF Inv, TryTake, WaitGoes, fifoVars
  <1>0. Len(contents) \in Nat
    BY Lengths DEF TypeOK
  <1>1. TypeOK'
    BY DEF TypeOK, SemaTypeOK, Calls, Waits, WaitSteps
  <1>2. Balance'
    BY <1>0 DEF TypeOK, SemaTypeOK, WaitSteps, Phases, Balance, Tokens, CountBounds, Holds, Owed, One
  <1>3. Tokens' /\ CountBounds'
    BY <1>0 DEF TypeOK, SemaTypeOK, WaitSteps, Phases, Balance, Tokens, CountBounds, Holds, Owed, One
  <1>4. DeadlineAccepted' /\ Phases'
    BY DEF DeadlineAccepted, Refused, Phases, TypeOK, SemaTypeOK, WaitSteps
  <1> QED
    BY <1>1, <1>2, <1>3, <1>4

LEMMA SubtractKeepsInv ==
  ASSUME Inv, NeverAWholeSecond, Subtract, UNCHANGED fifoVars PROVE Inv'
  <1> USE DEF Inv, Subtract, fifoVars
  <1>0. Len(contents) \in Nat
    BY Lengths DEF TypeOK
  <1>5. tv_nsec' \in Nat /\ tv_nsec' < NsecsInSec
    BY DeadlineInRange, SemaphoreAssumption DEF Refused
  <1>1. TypeOK'
    BY <1>5, SemaphoreAssumption DEF TypeOK, SemaTypeOK, Calls, Waits, WaitSteps
  <1>2. Balance'
    BY <1>0 DEF TypeOK, SemaTypeOK, WaitSteps, Phases, Balance, Tokens, CountBounds, Holds, Owed, One
  <1>3. Tokens' /\ CountBounds'
    BY <1>0 DEF TypeOK, SemaTypeOK, WaitSteps, Phases, Balance, Tokens, CountBounds, Holds, Owed, One
  <1>4. DeadlineAccepted' /\ Phases'
    BY <1>5, SemaphoreAssumption DEF DeadlineAccepted, Refused, Phases, TypeOK, SemaTypeOK, WaitSteps
  <1> QED
    BY <1>1, <1>2, <1>3, <1>4

LEMMA WakeUpKeepsInv ==
  ASSUME Inv, WakeUp, UNCHANGED fifoVars PROVE Inv'
  <1> USE DEF Inv, WakeUp, WaitGoes, fifoVars
  <1>0. Len(contents) \in Nat
    BY Lengths DEF TypeOK
  <1>5. m_sema' = m_sema - 1 /\ m_sema' \in Nat
    BY DEF DeadlineAccepted, TypeOK, SemaTypeOK
  <1>1. TypeOK'
    BY <1>5 DEF TypeOK, SemaTypeOK, Calls, Waits, WaitSteps
  <1>2. Balance'
    BY <1>0, <1>5 DEF TypeOK, SemaTypeOK, WaitSteps, Phases, Balance, Tokens, CountBounds, Holds, Owed, One
  <1>3. Tokens' /\ CountBounds'
    BY <1>0, <1>5 DEF TypeOK, SemaTypeOK, WaitSteps, Phases, Balance, Tokens, CountBounds, Holds, Owed, One
  <1>4. DeadlineAccepted' /\ Phases'
    BY <1>5 DEF DeadlineAccepted, Refused, Phases, TypeOK, SemaTypeOK, WaitSteps
  <1> QED
    BY <1>1, <1>2, <1>3, <1>4

LEMMA CallKeepsInv ==
  ASSUME Inv, NEW w \in Waits, Call(w) PROVE Inv'
  <1> USE DEF Inv, Call, CallWait, fifoVars
  <1>0. Len(contents) \in Nat
    BY Lengths DEF TypeOK
  <1>1. TypeOK'
    BY DEF TypeOK, SemaTypeOK, Calls, Waits, WaitSteps
  <1>2. Balance'
    BY <1>0 DEF TypeOK, SemaTypeOK, WaitSteps, Phases, Balance, Tokens, CountBounds, Holds, Owed, One
  <1>3. Tokens' /\ CountBounds'
    BY <1>0 DEF TypeOK, SemaTypeOK, WaitSteps, Phases, Balance, Tokens, CountBounds, Holds, Owed, One
  <1>4. DeadlineAccepted' /\ Phases'
    BY DEF DeadlineAccepted, Refused, Phases, TypeOK, SemaTypeOK, WaitSteps
  <1> QED
    BY <1>1, <1>2, <1>3, <1>4

LEMMA InnerCallKeepsInv ==
  ASSUME Inv, InnerCall PROVE Inv'
  <1> USE DEF Inv, InnerCall, CallConsumer, semaVars
  <1>0. Len(contents) \in Nat
    BY Lengths DEF TypeOK
  <1>5. popping' = "some"
    BY <1>0, Lengths DEF Phases, Balance, CountBounds, Holds, One, TypeOK, SemaTypeOK
  <1>1. TypeOK'
    BY <1>5 DEF TypeOK, SemaTypeOK, Calls, Waits, WaitSteps
  <1>2. Balance'
    BY <1>0, <1>5 DEF TypeOK, SemaTypeOK, WaitSteps, Phases, Balance, Tokens, CountBounds, Holds, Owed, One
  <1>3. Tokens' /\ CountBounds'
    BY <1>0, <1>5 DEF TypeOK, SemaTypeOK, WaitSteps, Phases, Balance, Tokens, CountBounds, Holds, Owed, One
  <1>4. DeadlineAccepted' /\ Phases'
    BY <1>5 DEF DeadlineAccepted, Refused, Phases, TypeOK, SemaTypeOK, WaitSteps
  <1> QED
    BY <1>1, <1>2, <1>3, <1>4

LEMMA InnerTakesKeepsInv ==
  ASSUME Inv, InnerTakes PROVE Inv'
  <1> USE DEF Inv, InnerTakes, Take, Drop, MayAct, semaVars
  <1>0. /\ contents' \in Seq(Elements) /\ Len(contents') = Len(contents) - 1
        /\ Len(contents) \in Nat /\ Head(contents) \in Elements
    BY Lengths DEF TypeOK
  <1>5. waiting = "yes"
    BY DEF Phases, TypeOK, SemaTypeOK
  <1>1. TypeOK'
    BY <1>0, <1>5 DEF TypeOK, SemaTypeOK, Calls, Waits, WaitSteps
  <1>2. Balance'
    BY <1>0, <1>5 DEF TypeOK, SemaTypeOK, WaitSteps, Phases, Balance, Tokens, CountBounds, Holds, Owed, One
  <1>3. Tokens' /\ CountBounds'
    BY <1>0, <1>5 DEF TypeOK, SemaTypeOK, WaitSteps, Phases, Balance, Tokens, CountBounds, Holds, Owed, One
  <1>4. DeadlineAccepted' /\ Phases'
    BY <1>0, <1>5 DEF DeadlineAccepted, Refused, Phases, TypeOK, SemaTypeOK, WaitSteps
  <1> QED
    BY <1>1, <1>2, <1>3, <1>4

LEMMA InnerReturnsKeepsInv ==
  ASSUME Inv, InnerReturns PROVE Inv'
  <1> USE DEF Inv, InnerReturns, ReturnTaken
  <1>0. Len(contents) \in Nat
    BY Lengths DEF TypeOK
  <1>5. waiting = "yes"
    BY DEF Phases, TypeOK, SemaTypeOK
  <1>1. TypeOK'
    BY <1>5 DEF TypeOK, SemaTypeOK, Calls, Waits, WaitSteps
  <1>2. Balance'
    BY <1>0, <1>5 DEF TypeOK, SemaTypeOK, WaitSteps, Phases, Balance, Tokens, CountBounds, Holds, Owed, One
  <1>3. Tokens' /\ CountBounds'
    BY <1>0, <1>5 DEF TypeOK, SemaTypeOK, WaitSteps, Phases, Balance, Tokens, CountBounds, Holds, Owed, One
  <1>4. DeadlineAccepted' /\ Phases'
    BY <1>5 DEF DeadlineAccepted, Refused, Phases, TypeOK, SemaTypeOK, WaitSteps
  <1> QED
    BY <1>1, <1>2, <1>3, <1>4

LEMMA PeekKeepsInv ==
  ASSUME Inv, Peek PROVE Inv'
  <1> USE DEF Inv, Peek, CallConsumer, semaVars
  <1>0. Len(contents) \in Nat
    BY Lengths DEF TypeOK
  <1>1. TypeOK'
    BY DEF TypeOK, SemaTypeOK, Calls, Waits, WaitSteps
  <1>2. Balance'
    BY <1>0 DEF TypeOK, SemaTypeOK, WaitSteps, Phases, Balance, Tokens, CountBounds, Holds, Owed, One
  <1>3. Tokens' /\ CountBounds'
    BY <1>0 DEF TypeOK, SemaTypeOK, WaitSteps, Phases, Balance, Tokens, CountBounds, Holds, Owed, One
  <1>4. DeadlineAccepted' /\ Phases'
    BY DEF DeadlineAccepted, Refused, Phases, TypeOK, SemaTypeOK, WaitSteps
  <1> QED
    BY <1>1, <1>2, <1>3, <1>4

LEMMA PeekReturnsKeepsInv ==
  ASSUME Inv, PeekReturns PROVE Inv'
  <1> USE DEF Inv, PeekReturns, Look, ReturnEmpty, MayAct, semaVars
  <1>0. Len(contents) \in Nat /\ (contents # <<>> => Head(contents) \in Elements)
    BY Lengths DEF TypeOK
  <1>5. waiting = "no"
    BY DEF Phases, TypeOK, SemaTypeOK
  <1>1. TypeOK'
    BY <1>0, <1>5 DEF TypeOK, SemaTypeOK, Calls, Waits, WaitSteps
  <1>2. Balance'
    BY <1>0, <1>5 DEF TypeOK, SemaTypeOK, WaitSteps, Phases, Balance, Tokens, CountBounds, Holds, Owed, One
  <1>3. Tokens' /\ CountBounds'
    BY <1>0, <1>5 DEF TypeOK, SemaTypeOK, WaitSteps, Phases, Balance, Tokens, CountBounds, Holds, Owed, One
  <1>4. DeadlineAccepted' /\ Phases'
    BY <1>0, <1>5 DEF DeadlineAccepted, Refused, Phases, TypeOK, SemaTypeOK, WaitSteps
  <1> QED
    BY <1>1, <1>2, <1>3, <1>4

LEMMA StutteringKeepsInv ==
  ASSUME Inv, UNCHANGED vars PROVE Inv'
  BY DEF Inv, vars, fifoVars, semaVars, TypeOK, SemaTypeOK, Balance, Tokens, CountBounds,
         Holds, Owed, DeadlineAccepted, Refused, Phases

(***************************************************************************)
(* The invariant is inductive.                                             *)
(***************************************************************************)
THEOREM CounterMeaning == ASSUME NeverAWholeSecond PROVE Spec => []Inv
  <1>1. Init => Inv
    BY Initially
  <1>2. Inv /\ [Next]_vars => Inv'
    <2> SUFFICES ASSUME Inv, [Next]_vars PROVE Inv'
      OBVIOUS
    <2>1. CASE \E e \in Elements : Enqueue(e)
      BY <2>1, EnqueueKeepsInv
    <2>2. CASE \E w \in Waits : Call(w)
      BY <2>2, CallKeepsInv
    <2>3. CASE Peek
      BY <2>3, PeekKeepsInv
    <2>4. CASE Producer
      <3>1. CASE InnerEnqueues
        BY <3>1, InnerEnqueuesKeepsInv
      <3>2. CASE InnerEnqueueFails
        BY <3>2, InnerEnqueueFailsKeepsInv
      <3>3. CASE Signals
        BY <3>3, AddCountKeepsInv, PostKeepsInv DEF Signals, Signaller
      <3> QED
        BY <2>4, <3>1, <3>2, <3>3 DEF Producer
    <2>5. CASE Consumer
      <3>1. CASE Wait
        BY <3>1, TryWaitKeepsInv, SpinKeepsInv, GrabKeepsInv, SubtractKeepsInv, WakeUpKeepsInv,
           TimeOutKeepsInv, RestoreKeepsInv, RecheckKeepsInv, TryTakeKeepsInv DEF Wait, Waiter
      <3>2. CASE InnerCall
        BY <3>2, InnerCallKeepsInv
      <3>3. CASE InnerTakes
        BY <3>3, InnerTakesKeepsInv
      <3>4. CASE InnerReturns
        BY <3>4, InnerReturnsKeepsInv
      <3>5. CASE PeekReturns
        BY <3>5, PeekReturnsKeepsInv
      <3> QED
        BY <2>5, <3>1, <3>2, <3>3, <3>4, <3>5 DEF Consumer
    <2>6. CASE UNCHANGED vars
      BY <2>6, StutteringKeepsInv
    <2> QED
      BY <2>1, <2>2, <2>3, <2>4, <2>5, <2>6 DEF Next
  <1> QED
    BY <1>1, <1>2, PTL DEF Spec

-----------------------------------------------------------------------------
LEMMA DeadlineIsNat ==
  ASSUME NEW c \in ClockNsecs, NEW f \in Fractions
  PROVE  Deadline(c, f) \in Nat
  BY SemaphoreAssumption DEF Deadline

(***************************************************************************)
(* TypeOK: the value of the system's semaphore is a number, the queue      *)
(* holds elements, the calls are where they can be, also when a deadline   *)
(* is refused.                                                             *)
(***************************************************************************)
THEOREM TypeCorrect == Spec => []TypeOK
  <1>1. Init => TypeOK
    BY DEF Init, FifoInit, SemaInit, TypeOK, SemaTypeOK, Waits, Calls
  <1>2. TypeOK /\ [Next]_vars => TypeOK'
    <2> SUFFICES ASSUME TypeOK, [Next]_vars PROVE TypeOK'
      OBVIOUS
    <2>1. CASE Wait
      <3>1. UNCHANGED fifoVars /\ m_count' \in Int /\ m_sema' \in Nat
        BY <2>1 DEF Wait, Waiter, TryWait, Spin, Grab, Subtract, WakeUp, TimeOut, Restore, Recheck,
           TryTake, TypeOK, SemaTypeOK
      <3>2. /\ signalling' = signalling /\ waitFor' = waitFor
            /\ waiting' \in {"no", "yes"} \cup WaitSteps
        BY <2>1 DEF Wait, Waiter, TryWait, Spin, Grab, Subtract, WakeUp, TimeOut, Restore, Recheck,
           TryTake, WaitGoes, AfterRestore, AfterRecheck, WaitSteps
      <3>3. tv_nsec' \in Nat
        <4>1. CASE Subtract
          BY <4>1, DeadlineIsNat DEF Subtract
        <4>2. CASE ~Subtract
          BY <2>1, <4>2 DEF Wait, Waiter, TryWait, Spin, Grab, WakeUp, TimeOut, Restore, Recheck,
             TryTake, WaitGoes, TypeOK, SemaTypeOK
        <4> QED
          BY <4>1, <4>2
      <3> QED
        BY <3>1, <3>2, <3>3 DEF TypeOK, SemaTypeOK, fifoVars
    <2>2. CASE Signals
      BY <2>2 DEF Signals, Signaller, AddCount, Post, TypeOK, SemaTypeOK, fifoVars
    <2>3. CASE \E w \in Waits : Call(w)
      BY <2>3 DEF Call, CallWait, TypeOK, SemaTypeOK, WaitSteps, fifoVars
    <2>4. CASE (\E e \in Elements : Enqueue(e)) \/ InnerEnqueueFails
      BY <2>4 DEF Enqueue, CallEnqueue, InnerEnqueueFails, FailToSend, TypeOK, SemaTypeOK, semaVars
    <2>5. CASE InnerEnqueues
      BY <2>5, BlockingAssumption DEF InnerEnqueues, Send, TypeOK, SemaTypeOK
    <2>6. CASE Peek \/ InnerCall
      BY <2>6 DEF Peek, InnerCall, CallConsumer, TypeOK, SemaTypeOK, semaVars, Calls
    <2>7. CASE InnerTakes
      BY <2>7 DEF InnerTakes, Take, Drop, MayAct, TypeOK, SemaTypeOK, semaVars
    <2>8. CASE InnerReturns
      BY <2>8 DEF InnerReturns, ReturnTaken, TypeOK, SemaTypeOK
    <2>9. CASE PeekReturns
      BY <2>9 DEF PeekReturns, Look, ReturnEmpty, MayAct, TypeOK, SemaTypeOK, semaVars
    <2>10. CASE UNCHANGED vars
      BY <2>10 DEF vars, fifoVars, semaVars, TypeOK, SemaTypeOK
    <2> QED
      BY <2>1, <2>2, <2>3, <2>4, <2>5, <2>6, <2>7, <2>8, <2>9, <2>10 DEF Next, Producer, Consumer
  <1> QED
    BY <1>1, <1>2, PTL DEF Spec

(***************************************************************************)
(* No signal is lost between the consumer's last look at the counter and   *)
(* its sleep: while it sleeps and there is an element, a token is in the   *)
(* system's semaphore, or signal() has yet to take its last step.  It is   *)
(* what WaitIsServed needs of every state.                                 *)
(***************************************************************************)
SleeperIsWoken ==
  waiting = "asleep" /\ contents # <<>> => m_sema > 0 \/ signalling # "no"

THEOREM NoSignalIsLost == ASSUME NeverAWholeSecond PROVE Spec => []SleeperIsWoken
  <1>1. Inv => SleeperIsWoken
    <2> SUFFICES ASSUME Inv, waiting = "asleep", contents # <<>>, signalling = "no"
                 PROVE  m_sema > 0
      BY DEF Inv, TypeOK, SemaTypeOK, SleeperIsWoken
    <2>1. Len(contents) \in Nat /\ Len(contents) # 0 /\ m_count \in Int /\ m_sema \in Nat
      BY Lengths DEF Inv, TypeOK, SemaTypeOK
    <2>2. m_count >= 0
      BY <2>1 DEF Inv, Balance, Holds, One
    <2>3. Owed
      BY <2>2 DEF Owed
    <2> QED
      BY <2>1, <2>3 DEF Inv, Tokens, One
  <1> QED
    BY <1>1, CounterMeaning, PTL

(***************************************************************************)
(* SuccessAsserted: whoever got past the semaphore finds an element.       *)
(***************************************************************************)
THEOREM PromisesAreKept == ASSUME NeverAWholeSecond PROVE Spec => []SuccessAsserted
  <1>1. Inv => SuccessAsserted
    BY DEF Inv, Phases, SuccessAsserted
  <1> QED
    BY <1>1, CounterMeaning, PTL

(***************************************************************************)
(* SignalAssertion: signal() finds at most one waiter.                     *)
(***************************************************************************)
THEOREM OneWaiter == ASSUME NeverAWholeSecond PROVE Spec => []SignalAssertion
  <1>1. Inv => SignalAssertion
    BY DEF Inv, CountBounds, SignalAssertion
  <1> QED
    BY <1>1, CounterMeaning, PTL

(***************************************************************************)
(* SizeAgrees: the counter never promises too much, and nothing is         *)
(* forgotten between calls.                                                *)
(***************************************************************************)
THEOREM CountIsExactAtRest == ASSUME NeverAWholeSecond PROVE Spec => []SizeAgrees
  <1>1. Inv => SizeAgrees
    <2> SUFFICES ASSUME Inv PROVE SizeAgrees
      OBVIOUS
    <2>1. Len(contents) \in Nat /\ m_count \in Int /\ m_sema \in Nat
      BY Lengths DEF Inv, TypeOK, SemaTypeOK
    <2>2. AvailableApprox <= Len(contents)
      BY <2>1 DEF Inv, Balance, AvailableApprox, One
    <2>3. waiting = "no" /\ signalling = "no" => AvailableApprox = Len(contents)
      BY <2>1 DEF Inv, Balance, CountBounds, AvailableApprox, One, Holds
    <2>4. waiting = "no" /\ signalling = "no" => m_sema = 0
      BY <2>1 DEF Inv, Tokens, One, Owed
    <2> QED
      BY <2>2, <2>3, <2>4 DEF SizeAgrees
  <1> QED
    BY <1>1, CounterMeaning, PTL

(***************************************************************************)
(* GivesUpOnlyWhenEmpty: a call that comes back empty-handed leaves no     *)
(* signalled element behind.                                               *)
(***************************************************************************)
THEOREM NoElementIsOverlooked ==
  ASSUME NeverAWholeSecond PROVE Spec => GivesUpOnlyWhenEmpty
  <1>1. Inv /\ [Next]_vars => [GivesUp => Len(contents) = One(signalling = "add")]_vars
    <2> SUFFICES ASSUME Inv, Next, GivesUp PROVE Len(contents) = One(signalling = "add")
      OBVIOUS
    <2>1. waiting # "no" /\ waiting' = "no" /\ popping # "took"
      BY DEF GivesUp
    <2>2. Len(contents) \in Nat /\ m_count \in Int
      BY Lengths DEF Inv, TypeOK, SemaTypeOK
    <2>3. CASE TryWait
      BY <2>1, <2>2, <2>3 DEF TryWait, WaitGoes, Inv, Balance, CountBounds, Holds, One
    <2>4. CASE Restore
      BY <2>1, <2>2, <2>4
         DEF Restore, WaitGoes, AfterRestore, Inv, Balance, CountBounds, Holds, One
    <2>5. TryWait \/ Restore
      <3>1. ~\E e \in Elements : Enqueue(e)
        BY <2>1 DEF Enqueue, semaVars
      <3>2. ~\E w \in Waits : Call(w)
        BY <2>1 DEF Call, CallWait
      <3>3. ~Producer /\ ~Peek
        BY <2>1 DEF Producer, InnerEnqueues, InnerEnqueueFails, Signals, Signaller, AddCount,
                    Post, Peek, semaVars
      <3>4. ~InnerCall /\ ~InnerTakes /\ ~InnerReturns /\ ~PeekReturns
        BY <2>1 DEF InnerCall, InnerTakes, InnerReturns, ReturnTaken, PeekReturns, semaVars
      <3>5. ~Spin /\ ~Grab /\ ~Subtract /\ ~WakeUp /\ ~TimeOut /\ ~Recheck /\ ~TryTake
        BY <2>1 DEF Spin, Grab, Subtract, WakeUp, TimeOut, Recheck, AfterRecheck, TryTake, WaitGoes
      <3> QED
        BY <3>1, <3>2, <3>3, <3>4, <3>5 DEF Next, Consumer, Wait, Waiter
    <2> QED
      BY <2>3, <2>4, <2>5
  <1> QED
    BY <1>1, CounterMeaning, PTL DEF Spec, GivesUpOnlyWhenEmpty
=============================================================================
