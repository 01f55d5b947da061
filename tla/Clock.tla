------------------------------- MODULE Clock -------------------------------
(***************************************************************************)
(* core/clock.py: the injected clock, the only door to real time.  A       *)
(* FixedClock does not tick, an OffsetClock ticks when its caller says.    *)
(***************************************************************************)
EXTENDS Leveling

CONSTANT Steps   \* how far the clock moves at a time

ASSUME StepAssumption == Steps \subseteq Nat \ {0}

VARIABLE now     \* clock.now()

(* The clock stops at the horizon, the bound of the model. *)
Advanced(step) == now' = Min({now + step, Horizon})
=============================================================================
