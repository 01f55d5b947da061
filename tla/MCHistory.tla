------------------------------ MODULE MCHistory ------------------------------
(* A scaled-down engine: its window fills, evicts and decays within a few   *)
(* steps.                                                                   *)
EXTENDS ObjectiveHistory

(* The scaled-down engine: Scale 1000, a window of 3, two ticks to a day.   *)
SmallSchedule == <<1, 2, 4>>
SmallRetention(gap) == IF gap <= 5 THEN 1000 - 30 * gap ELSE Max({400, 850 - 75 * (gap - 5)})
=============================================================================
