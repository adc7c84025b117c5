------------------------------- MODULE Clock --------------------------------
(***************************************************************************)
(* The tick counter (clock.c), which the timers and the work queue share.  *)
(* It wraps: it counts modulo TickMax + 1, and the code compares ticks by  *)
(* their difference, against half the range.                               *)
(***************************************************************************)
EXTENDS Integers

CONSTANTS
  TickMax,   \* RT_TICK_MAX
  MaxLate    \* the thread that looks for what is due is never kept from the
             \* CPU for longer

Half == TickMax \div 2
Ticks == 0 .. TickMax

ASSUME ClockAssumption ==
  /\ TickMax \in Nat
  \* "the new tick shall less than the half duration of tick max" (timer.c)
  /\ MaxLate \in 1 .. Half - 1

VARIABLE tick   \* rt_tick

\* Unsigned subtraction of ticks.
Minus(a, b) == (a - b) % (TickMax + 1)

\* The times to wait that stay below half the range, and that can be compared
\* with what is as late as it may be.
Comparable(times) ==
  /\ times \subseteq 0 .. Half - 1
  /\ \A n \in times : n + MaxLate <= TickMax + 1 - Half
=============================================================================
