-------------------------- MODULE MCBlockingQueue --------------------------
(***************************************************************************)
(* Model values for checking the blocking queue.  A second has four        *)
(* nanoseconds; some clock values and fractions carry into the next second *)
(* and some do not, and MCClock and MCFractions never add up to exactly    *)
(* one second, which MCAnyClock does.                                      *)
(***************************************************************************)
EXTENDS BlockingQueue

CONSTANTS e1, e2

MCElements == {e1, e2}
MCClock == {1, 3}
MCAnyClock == 0 .. NsecsInSec - 1
MCFractions == {0, 2}
=============================================================================
