----------------------------- MODULE MCPostgres -----------------------------
(* One profile, two callers that write it in every way there is and read    *)
(* it, and two runs that upgrade an empty database or that of an old        *)
(* release.                                                                 *)
EXTENDS PostgresProfilesProperties

CONSTANTS p1, d1, d2

Only(o, d) == [x \in Objective |-> IF x = o THEN d ELSE None]

Both(d) == [o \in Objective |-> d]

(* A save of each objective, archiving, and an upsert of both. *)
Edits ==
  {SaveProfile(p1, [objectives |-> Only(1, d1), archived |-> FALSE]),
   SaveProfile(p1, [objectives |-> Both(d1), archived |-> FALSE]),
   SetArchived(p1, TRUE),
   UpsertObjectives(p1, Both(d2))}

NoProfiles == [p \in ProfileId |-> None]

OldRelease ==
  {NoProfiles, [p \in ProfileId |-> [objectives |-> Only(1, d1), archived |-> FALSE]]}
=============================================================================
