------------------------------ MODULE ThreadBus ------------------------------
(***************************************************************************)
(* thread_bus.h and thread_bus.cpp: the stop flag, and channels that join  *)
(* two message ports.  A channel holds one queue per direction; queue      *)
(* <<c, i>> is queues[i] of channel c.  The port with id i posts to        *)
(* queues[i] and pops from queues[!i], so each queue has one producer and  *)
(* one consumer.  A queue is a FIFO sequence here, which is what module    *)
(* ReaderWriterQueue shows of the lock-free queue the code uses.           *)
(*                                                                         *)
(* A channel lives as long as one of its two ports does (shared_ptr); the  *)
(* messages left in it are destroyed with it.                              *)
(***************************************************************************)
EXTENDS Naturals, Sequences

CONSTANT Channels

VARIABLES
  queues,    \* the messages in transit in each queue
  refs,      \* how many ports of each channel exist
  stop_flag

busVars == <<queues, refs, stop_flag>>

Port(c, i)  == [chan |-> c, id |-> i]
Ports       == {Port(c, i) : c \in Channels, i \in BOOLEAN}
Queues      == Channels \X BOOLEAN

\* Mutant: both ends post to the queue they should pop from.
OutQueueSwapped(p) == <<p.chan, ~p.id>>
OutQueue(p) == <<p.chan, p.id>>

\* Mutant: both ends of a channel use the same queue for the same direction.
InQueueSameEnd(p) == <<p.chan, p.id>>
InQueue(p)  == <<p.chan, ~p.id>>

\* main() has created every channel, and with it both its ports.
BusInit ==
  /\ queues = [q \in Queues |-> <<>>]
  /\ refs = [c \in Channels |-> 2]
  /\ stop_flag = FALSE

Posted(p, msg) == queues' = [queues EXCEPT ![OutQueue(p)] = Append(@, msg)]

Waiting(p)     == queues[InQueue(p)] # <<>>
First(p)       == Head(queues[InQueue(p)])
Popped(p)      == queues' = [queues EXCEPT ![InQueue(p)] = Tail(@)]

\* Mutant: the first port of a channel that is released destroys it.
RefsWithoutSharing(cs) == [c \in Channels |-> IF c \in cs THEN 0 ELSE refs[c]]
RefsAfter(cs) == [c \in Channels |-> IF c \in cs THEN refs[c] - 1 ELSE refs[c]]

\* The calling function ends and with it one of its ports on each channel of cs.
Release(cs) ==
  /\ refs' = RefsAfter(cs)
  /\ queues' = [q \in Queues |-> IF refs'[q[1]] = 0 THEN <<>> ELSE queues[q]]

Stop == stop_flag' = TRUE
=============================================================================
