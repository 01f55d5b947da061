--------------------------- MODULE MCLocalPrograms ---------------------------
(* Commands of every kind in two terminals, and a session, which together   *)
(* begin four things.  A command records at the present; a session also in  *)
(* the future, which the queries leave out.                                 *)
EXTENDS LocalPrograms, TLC

Commands ==
  {ProfileCreate, Objectives, Check}
    \cup {ObjectiveAdd(o) : o \in Objective}
    \cup {Record(o, Now) : o \in Objective}

(* No profile, one to study, and one whose objectives were lost to a save   *)
(* by a late profile create.                                                *)
OldStores ==
  {[catalog |-> None, attempts |-> {}], [catalog |-> Objective, attempts |-> {}]}
    \cup {[catalog |-> {}, attempts |-> {a}] :
             a \in [attempt_id : {<<None, 0>>}, objective_id : Objective, at : {Now}]}

Symmetry == Permutations(Process) \cup Permutations(Objective)
=============================================================================
