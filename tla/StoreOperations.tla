--------------------------- MODULE StoreOperations ---------------------------
(***************************************************************************)
(* What each write of core/storage.py does to the collection it writes,    *)
(* with the rules of store/_common.py that every backend shares.  A write  *)
(* is a record; Accepts says whether the store takes it, Apply what the    *)
(* collection becomes.                                                     *)
(*                                                                         *)
(* The attempts are a sequence of rows in order of arrival.  The profiles  *)
(* are a function from profile ids to profiles, None where there is none;  *)
(* the catalog of a profile maps each objective to its definition (title,  *)
(* domain, tags, weight: one value of Definition), None where absent.      *)
(***************************************************************************)
EXTENDS Naturals, Sequences

CONSTANTS
  AttemptId,    \* attempt ids
  ProfileId,    \* profile ids
  Objective,    \* objective ids
  Definition,   \* what can be said of an objective
  None,         \* nothing there
  Proc,         \* the processes that write
  Write,        \* the writes they may ask for, all to one collection
  Nothing       \* that collection in an empty store

Row == [attempt_id : AttemptId, profile_id : ProfileId]

Catalog == [Objective -> Definition \cup {None}]

StoredProfile == [objectives : Catalog, archived : BOOLEAN]

Attempts == Seq(Row)

Profiles == [ProfileId -> StoredProfile \cup {None}]

-----------------------------------------------------------------------------
(* The writes. *)

AppendAttempt(row) == [kind |-> "append", row |-> row]

SaveProfile(p, profile) == [kind |-> "save", profile_id |-> p, profile |-> profile]

SetArchived(p, archived) == [kind |-> "archive", profile_id |-> p, archived |-> archived]

UpsertObjectives(p, incoming) == [kind |-> "upsert", profile_id |-> p, incoming |-> incoming]

AttemptWrite == {AppendAttempt(row) : row \in Row}

ProfileWrite ==
  {SaveProfile(p, profile) : p \in ProfileId, profile \in StoredProfile}
    \cup {SetArchived(p, archived) : p \in ProfileId, archived \in BOOLEAN}
    \cup {UpsertObjectives(p, incoming) : p \in ProfileId, incoming \in Catalog}

(* The collection that is written is either the attempts or the profiles. *)
Collection == IF Write \subseteq AttemptWrite THEN Attempts ELSE Profiles

ASSUME CollectionAssumption ==
  IF Write \subseteq AttemptWrite
    THEN Nothing = <<>>
    ELSE Write \subseteq ProfileWrite /\ Nothing = [p \in ProfileId |-> None]

ASSUME NoneAssumption ==
  None \notin Definition \cup StoredProfile \cup Proc \cup Write

-----------------------------------------------------------------------------
Ids(rows) == {rows[i].attempt_id : i \in 1..Len(rows)}

(* DuplicateAttemptError for an id the store has, in any profile;           *)
(* UnknownProfileError for a profile it does not have.                      *)
Accepts(write, stored) ==
  CASE write.kind = "append" -> write.row.attempt_id \notin Ids(stored)
    [] write.kind = "save"   -> TRUE
    [] write.kind \in {"archive", "upsert"} -> stored[write.profile_id] # None

(* merge_objectives: what is named is replaced whole, the rest stays.       *)
Merged(catalog, incoming) ==
  [o \in Objective |-> IF incoming[o] # None THEN incoming[o] ELSE catalog[o]]

Apply(write, stored) ==
  CASE write.kind = "append"  -> Append(stored, write.row)
    [] write.kind = "save"    -> [stored EXCEPT ![write.profile_id] = write.profile]
    [] write.kind = "archive" -> [stored EXCEPT ![write.profile_id].archived = write.archived]
    [] write.kind = "upsert"  -> [stored EXCEPT ![write.profile_id].objectives =
                                                   Merged(@, write.incoming)]
=============================================================================
