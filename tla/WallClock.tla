----------------------------- MODULE WallClock -----------------------------
(***************************************************************************)
(* The clock the components read: Date.now() and new Date(), in ticks.     *)
(* A component's module extends this one and lets TimePasses interleave    *)
(* with its own steps.                                                     *)
(***************************************************************************)
EXTENDS Naturals

CONSTANT MaxClock   \* bound of the clock

ASSUME ClockAssumption == MaxClock \in Nat

VARIABLE clock

ClockInit == clock = 0

TimePasses == clock < MaxClock /\ clock' = clock + 1
=============================================================================
