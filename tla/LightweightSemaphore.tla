------------------------ MODULE LightweightSemaphore ------------------------
(***************************************************************************)
(* spsc_sema::LightweightSemaphore (atomicops.h): a counter that threads   *)
(* change by atomic additions, and a semaphore of the operating system     *)
(* that is touched only when the counter says that somebody sleeps.  One   *)
(* thread signals and one thread waits, as the blocking queue needs it.    *)
(* Every access to the counter or to the system's semaphore is a step.     *)
(*                                                                         *)
(* The negation of a negative m_count is the number of waiters that have   *)
(* subtracted one and have not been promised anything yet.                 *)
(***************************************************************************)
EXTENDS Integers

CONSTANTS
  NsecsInSec,  \* nsecs_in_1_sec
  ClockNsecs,  \* values that the clock may have in its field tv_nsec
  Fractions    \* nanoseconds that a timeout may have beyond whole seconds

ASSUME SemaphoreAssumption ==
  /\ NsecsInSec \in Nat \ {0}
  /\ ClockNsecs \subseteq 0 .. NsecsInSec - 1
  /\ Fractions \subseteq 0 .. NsecsInSec - 1

VARIABLES
  m_count,     \* the counter
  m_sema,      \* the value of the system's semaphore
  signalling,  \* "no", or the next step of signal(): "add", "post"
  waiting,     \* "no", the next step of the wait, or "yes" when it has succeeded
  waitFor,     \* "try", "timed" or "ever": what the latest wait was called with
  tv_nsec      \* the nanoseconds of the deadline of timed_wait(), 0 without one

semaVars == <<m_count, m_sema, signalling, waiting, waitFor, tv_nsec>>

Waits == {"try", "timed", "ever"}
WaitSteps == {"tryWait", "spin", "grab", "subtract", "asleep", "restore",
              "recheck", "tryTake"}

SemaInit ==
  /\ m_count = 0 /\ m_sema = 0
  /\ signalling = "no"
  /\ waiting = "no" /\ waitFor = "try" /\ tv_nsec = 0

-----------------------------------------------------------------------------
(***************************************************************************)
(* signal(): count one up; a count that was negative had somebody asleep.  *)
(***************************************************************************)
\* Mutant: a single sleeper is overlooked.
SomebodySleepsTwice(old) == old < -1
\* Mutant: a waiter that has not yet been counted is woken too.
SomebodySleepsOrNot(old) == old <= 0
SomebodySleeps(old) == old < 0

AddCount ==
  /\ signalling = "add"
  /\ m_count' = m_count + 1
  /\ signalling' = IF SomebodySleeps(m_count) THEN "post" ELSE "no"
  /\ UNCHANGED <<m_sema, waiting, waitFor, tv_nsec>>

Post ==
  /\ signalling = "post" /\ signalling' = "no"
  /\ m_sema' = m_sema + 1
  /\ UNCHANGED <<m_count, waiting, waitFor, tv_nsec>>

Signaller == AddCount \/ Post

-----------------------------------------------------------------------------
WaitGoes(pc) == waiting' = pc /\ UNCHANGED <<signalling, waitFor, tv_nsec>>

CallWait(w) ==
  /\ waiting = "no" /\ waiting' = "tryWait"
  /\ waitFor' = w
  /\ UNCHANGED <<m_count, m_sema, signalling, tv_nsec>>

\* tryWait() looks at the counter; wait() goes on to spin if that is no use.
TryWait ==
  /\ waiting = "tryWait"
  /\ WaitGoes(IF m_count > 0 THEN "grab" ELSE IF waitFor = "try" THEN "no" ELSE "spin")
  /\ UNCHANGED <<m_count, m_sema>>

\* The loop has seen a count, or has looked in vain for the last time.
Spin ==
  /\ waiting = "spin"
  /\ WaitGoes(IF m_count > 0 THEN "grab" ELSE "subtract")
  /\ UNCHANGED <<m_count, m_sema>>

Grab ==
  /\ waiting = "grab" /\ WaitGoes("yes")
  /\ m_count' = m_count - 1
  /\ UNCHANGED m_sema

\* The deadline that timed_wait() computes from the clock and its argument,
\* with a carry into the seconds that comes one nanosecond late.
Deadline(clock, fraction) ==
  LET sum == clock + fraction
  IN IF sum > NsecsInSec THEN sum - NsecsInSec ELSE sum

\* sem_timedwait() refuses a deadline with this many nanoseconds (EINVAL).
Refused(nsec) == nsec >= NsecsInSec

\* Commit to sleeping, unless a signal came in since the last look.
Subtract ==
  /\ waiting = "subtract"
  /\ m_count' = m_count - 1
  /\ waiting' = IF m_count > 0 THEN "yes" ELSE "asleep"
  /\ tv_nsec' \in IF waitFor = "timed" /\ m_count <= 0
                  THEN {Deadline(c, f) : c \in ClockNsecs, f \in Fractions}
                  ELSE {0}
  /\ UNCHANGED <<m_sema, signalling, waitFor>>

(***************************************************************************)
(* The system's wait returns with anything but a timeout, which the code   *)
(* takes for success: because it took a token, or because it refused the   *)
(* deadline without even trying.                                           *)
(***************************************************************************)
WakeUp ==
  /\ waiting = "asleep" /\ WaitGoes("yes")
  /\ m_sema' \in {n \in {m_sema - 1} : n >= 0} \cup {n \in {m_sema} : Refused(tv_nsec)}
  /\ UNCHANGED m_count

\* Mutant: a wait that timed out never undoes its subtraction.
TimeOutForGood ==
  /\ waiting = "asleep" /\ waitFor = "timed" /\ m_sema = 0 /\ ~Refused(tv_nsec)
  /\ WaitGoes("no")
  /\ UNCHANGED <<m_count, m_sema>>
TimeOut ==
  /\ waiting = "asleep" /\ waitFor = "timed" /\ m_sema = 0 /\ ~Refused(tv_nsec)
  /\ WaitGoes("restore")
  /\ UNCHANGED <<m_count, m_sema>>

\* Mutant: a signal that came in at the last moment is ignored.
AfterRestoreAtOnce(old) == "no"
\* Mutant: a count of zero is taken for one that nobody has signalled.
AfterRestoreAtZero(old) == IF old <= 0 THEN "no" ELSE "recheck"
AfterRestore(old) == IF old < 0 THEN "no" ELSE "recheck"

\* Undo the subtraction; it cannot be undone if it has been answered.
Restore ==
  /\ waiting = "restore" /\ WaitGoes(AfterRestore(m_count))
  /\ m_count' = m_count + 1
  /\ UNCHANGED m_sema

\* Mutant: the count is expected to exceed one.
AfterRecheckOverOne(old) == IF old > 1 THEN "tryTake" ELSE "restore"
AfterRecheck(old) == IF old > 0 THEN "tryTake" ELSE "restore"

Recheck ==
  /\ waiting = "recheck" /\ WaitGoes(AfterRecheck(m_count))
  /\ m_count' = m_count - 1
  /\ UNCHANGED m_sema

\* Mutant: the token is taken for granted.
TryTakeBlindly ==
  /\ waiting = "tryTake" /\ WaitGoes("yes")
  /\ m_sema' = m_sema - 1
  /\ UNCHANGED m_count
TryTake ==
  /\ waiting = "tryTake"
  /\ IF m_sema > 0
       THEN WaitGoes("yes") /\ m_sema' = m_sema - 1
       ELSE WaitGoes("restore") /\ UNCHANGED m_sema
  /\ UNCHANGED m_count

Waiter ==
  \/ TryWait \/ Spin \/ Grab \/ Subtract \/ WakeUp \/ TimeOut \/ Restore
  \/ Recheck \/ TryTake

AvailableApprox == IF m_count > 0 THEN m_count ELSE 0

-----------------------------------------------------------------------------
SemaTypeOK ==
  /\ m_count \in Int /\ m_sema \in Nat
  /\ signalling \in {"no", "add", "post"}
  /\ waiting \in {"no", "yes"} \cup WaitSteps
  /\ waitFor \in Waits
  /\ tv_nsec \in Nat

(***************************************************************************)
(* signal() never finds more than the one waiter (assert(oldCount >= -1),  *)
(* atomicops.h:644): no wait that has ended, by a timeout least of all,    *)
(* leaves its subtraction behind.                                          *)
(***************************************************************************)
SignalAssertion == signalling = "add" => m_count >= -1
=============================================================================
