---------------------------- MODULE MCJsonStore ----------------------------
(* Small attempts files: processes that append attempts, of one profile or  *)
(* of two, with ids they share, and that may die at any step.               *)
EXTENDS JsonStoreProperties

CONSTANTS a1, p1

(* Any id in the profile p1, the id a1 in any profile. *)
Appends == {w \in AttemptWrite : w.row.profile_id = p1 \/ w.row.attempt_id = a1}

EmptyFile == <<>>
=============================================================================
