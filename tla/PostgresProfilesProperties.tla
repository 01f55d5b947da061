--------------------- MODULE PostgresProfilesProperties ---------------------
(* What the PostgreSQL profile store promises (core/storage.py) while the   *)
(* database is upgraded, and what the runner promises of the schema.        *)
EXTENDS PostgresProfiles

PC == {"idle", "done", "written"} \cup Opening \cup Open

TypeOK ==
  /\ MigrationTypeOK
  /\ profiles \in [ProfileId -> Column \cup {None}]
  /\ \A p \in ProfileId : profiles[p] = "no_column" <=> profiles[p] # None /\ AddsArchived \notin there
  /\ catalogs \in [ProfileId -> Catalog]
  /\ pc \in [Proc -> PC]
  /\ call \in [Proc -> Calls \cup {None}]
  /\ targets \in [Proc -> SUBSET Objective]
  /\ deleted \in [Proc -> SUBSET Objective]
  /\ left \in [Proc -> SUBSET Objective]
  /\ result \in [Proc -> StoredProfile \cup {None}]
  /\ outcome \in [Proc -> {"none", "ok", "StorageError", "UnknownProfile"}]
  /\ held \in [Proc -> SUBSET (StoredProfile \cup {None})]

(* A save whose DELETE started before an upsert of another call committed:  *)
(* it replaces the profile, but for objectives that were not there when it  *)
(* began and that it does not name.                                         *)
SavesAround(t) ==
  LET p == call[t].profile_id
      came == {o \in Objective \ Named(call[t]) :
                 \E h \in held[t] : h = None \/ h.objectives[o] = None}
      saved == [call[t].profile EXCEPT !.objectives =
                  [o \in Objective |-> IF o \in came THEN Stored(p)'.objectives[o] ELSE @[o]]]
  IN  /\ pc[t] = "insert" /\ pc'[t] = "written" /\ call[t].kind = "save"
      /\ \A o \in came : Stored(p)'.objectives[o] \in {None, catalogs[p][o]}
      /\ \A q \in ProfileId : Stored(q)' = IF q = p THEN saved ELSE Stored(q)
      /\ \A u \in Proc \ {t} : pc'[u] = pc[u]

(* The calls, their returns and the upgrade are, seen from outside, those   *)
(* of the abstract store: a write happens at once or not at all, an         *)
(* acknowledged one has happened, a profile of an older release is there    *)
(* after the upgrade as before it and reads as not archived.  The one       *)
(* exception is what SavesAround says.                                      *)
ImplementsAtomicStore ==
  [][Abstract!Next \/ (\E t \in Proc : SavesAround(t))]_(Abstract!vars)

(* get_profile, and the answer of set_archived: a profile is unknown only   *)
(* if it was absent during the call, and each half of what is returned was  *)
(* stored during it; nobody sees a catalog that a save has half written.    *)
(* The flag and the catalog may be those of two moments.                    *)
ReadsWhatWasThere ==
  /\ TypeOK
  /\ \A t \in Proc :
       pc[t] = "done" =>
         /\ outcome[t] = "UnknownProfile" => None \in held[t]
         /\ outcome[t] = "ok" /\ result[t] # None =>
              \E g, h \in held[t] \ {None} :
                result[t].archived = g.archived /\ result[t].objectives = h.objectives

(* No call and no run waits for ever, whatever locks the others hold and    *)
(* however they fail: when no more of them begin, all of them end.          *)
AtRest ==
  /\ \A t \in Proc : pc[t] \in {"idle", "done"}
  /\ \A r \in Runner : step[r] \in Ended

EveryoneEnds == ~AtRest ~> AtRest
=============================================================================
