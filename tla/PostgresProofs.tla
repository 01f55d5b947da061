--------------------------- MODULE PostgresProofs ---------------------------
(***************************************************************************)
(* Proofs about the database: migrations/runner.py, for any number of      *)
(* runners, files and runs, while the profile store works; and that store, *)
(* store/postgres.py, for any number of callers, profiles and objectives,  *)
(* while the runners upgrade it.                                           *)
(*                                                                         *)
(* The argument for the schema: what a runner has done is an initial piece *)
(* of what is there, so a file that is executed and not there can only be  *)
(* the next one of the database; two runners that have executed it would   *)
(* hold the same lock, so one of them at most records it, and what was     *)
(* there stays an initial piece of the files.  The argument for the store: *)
(* what is committed is among what a call remembers for as long as it      *)
(* runs, a row of profiles stays once it is there, and what a save has not *)
(* deleted was missing at some moment of it.                               *)
(***************************************************************************)
EXTENDS PostgresProfilesProperties, TLAPS

USE MigrationAssumption

-----------------------------------------------------------------------------
(* The lemma of the loop: a runner that has done the first k files is at    *)
(* file k + 1.                                                              *)
LEMMA CurrentIsNext ==
  ASSUME NEW r \in Runner, NEW k \in 0..Latest, done[r] = 1..k, Pending(r) # {}
  PROVE  /\ k < Latest
         /\ Current(r) = k + 1
         /\ Current(r) \in Version
<1>1. Pending(r) = (k + 1)..Latest
  BY DEF Pending, Version
<1>2. k < Latest
  BY <1>1
<1>3. k + 1 \in Pending(r) /\ \A w \in Pending(r) : k + 1 <= w
  BY <1>1, <1>2
<1>4. Current(r) \in Pending(r) /\ \A w \in Pending(r) : Current(r) <= w
  BY <1>3 DEF Current
<1>5. Current(r) <= k + 1 /\ k + 1 <= Current(r) /\ Current(r) \in Nat
  BY <1>1, <1>3, <1>4
<1> QED BY <1>2, <1>5 DEF Version

(* Each runner has done an initial piece of what is there, ...              *)
DoneIsBehind ==
  \A r \in Runner :
    /\ done[r] \subseteq there
    /\ \E k \in 0..Latest : done[r] = 1..k

(* ... has executed a file only if it is not there, ...                     *)
RecordIsNew ==
  \A r \in Runner : step[r] = "record" => Pending(r) # {} /\ Current(r) \notin there

(* ... and alone; and says ok with nothing left to do.                      *)
OneRecords ==
  \A q, r \in Runner : step[q] = "record" /\ step[r] = "record" => q = r

OkIsDone == \A r \in Runner : step[r] = "ok" => Pending(r) = {}

SchemaInv ==
  /\ MigrationTypeOK
  /\ SchemaIsARelease
  /\ DoneIsBehind
  /\ RecordIsNew
  /\ OneRecords
  /\ OkIsDone

(* A file that a runner is at and that is not there is the next one. *)
LEMMA NewIsNext ==
  ASSUME SchemaInv, NEW r \in Runner, NEW n \in 0..Latest, there = 1..n,
         Pending(r) # {}, Current(r) \notin there
  PROVE  /\ n < Latest
         /\ Current(r) = n + 1
         /\ done[r] = there
<1>1. PICK k \in 0..Latest : done[r] = 1..k /\ 1..k \subseteq 1..n
  BY DEF SchemaInv, DoneIsBehind
<1>2. k < Latest /\ Current(r) = k + 1
  BY <1>1, CurrentIsNext
<1>3. k = 0 \/ k \in 1..n
  BY <1>1
<1>4. k + 1 \notin 1..n
  BY <1>2
<1> QED BY <1>1, <1>2, <1>3, <1>4

-----------------------------------------------------------------------------
LEMMA SchemaInvInitially == MigrationInit => SchemaInv
<1> SUFFICES ASSUME MigrationInit PROVE SchemaInv
  OBVIOUS
<1>1. PICK n \in 0..Latest : recorded = 1..n /\ there = 1..n
  BY DEF MigrationInit
<1>2. \A r \in Runner : done[r] = 1..0 /\ step[r] = "idle"
  BY DEF MigrationInit
<1>3. MigrationTypeOK
  BY <1>1 DEF MigrationInit, MigrationTypeOK, Version, Running, Ended
<1>4. DoneIsBehind
  <2>1. 0 \in 0..Latest /\ 1..0 = {}
    OBVIOUS
  <2> QED BY <1>2, <2>1 DEF DoneIsBehind
<1> QED
  BY <1>1, <1>2, <1>3, <1>4
  DEF SchemaInv, SchemaIsARelease, RecordIsNew, OneRecords, OkIsDone

(* A step that changes nothing of the schema, nothing of the other runners  *)
(* and does not bring r to a record.                                        *)
LEMMA QuietStep ==
  ASSUME SchemaInv, NEW r \in Runner, MigrationTypeOK',
         UNCHANGED <<recorded, there>>,
         \A q \in Runner \ {r} : step'[q] = step[q] /\ done'[q] = done[q],
         step'[r] # "record",
         done'[r] \in {{}, done[r], recorded},
         step'[r] = "ok" => Pending(r) = {} /\ done'[r] = done[r]
  PROVE  SchemaInv'
<1>1. SchemaIsARelease'
  BY DEF SchemaInv, SchemaIsARelease
<1>2. DoneIsBehind'
  <2> SUFFICES ASSUME NEW q \in Runner
               PROVE  done'[q] \subseteq there /\ \E k \in 0..Latest : done'[q] = 1..k
    BY DEF DoneIsBehind
  <2>1. {} = 1..0 /\ 0 \in 0..Latest
    OBVIOUS
  <2> QED BY <2>1 DEF SchemaInv, DoneIsBehind, SchemaIsARelease
<1>3. RecordIsNew'
  BY DEF SchemaInv, RecordIsNew, Pending, Current
<1>4. OneRecords'
  BY DEF SchemaInv, OneRecords
<1>5. OkIsDone'
  BY DEF SchemaInv, OkIsDone, Pending
<1> QED BY <1>1, <1>2, <1>3, <1>4, <1>5 DEF SchemaInv

LEMMA ExecuteKeeps == ASSUME SchemaInv, NEW r \in Runner, Execute(r) PROVE SchemaInv'
<1>1. MigrationTypeOK' /\ UNCHANGED <<recorded, there, done>>
  BY DEF SchemaInv, MigrationTypeOK, Execute, Running
<1>2. SchemaIsARelease' /\ DoneIsBehind'
  BY <1>1 DEF SchemaInv, SchemaIsARelease, DoneIsBehind
<1>3. \A q \in Runner : step'[q] = IF q = r THEN "record" ELSE step[q]
  BY DEF SchemaInv, MigrationTypeOK, Execute
<1>4. \A q \in Runner : Pending(q)' = Pending(q) /\ Current(q)' = Current(q)
  BY <1>1 DEF Pending, Current
<1>5. RecordIsNew'
  BY <1>1, <1>3, <1>4 DEF SchemaInv, RecordIsNew, Execute
<1>6. \A q \in Runner : step[q] # "record"
  <2> SUFFICES ASSUME NEW q \in Runner, step[q] = "record" PROVE FALSE
    OBVIOUS
  <2>1. PICK n \in 0..Latest : there = 1..n
    BY DEF SchemaInv, SchemaIsARelease
  <2>2. Pending(q) # {} /\ Current(q) \notin there
    BY DEF SchemaInv, RecordIsNew
  <2>3. Current(q) = n + 1
    BY <2>1, <2>2, NewIsNext
  <2>4. Current(r) = n + 1
    BY <2>1, NewIsNext DEF Execute
  <2> QED BY <2>2, <2>3, <2>4 DEF Execute, Holds
<1>7. OneRecords' /\ OkIsDone'
  BY <1>3, <1>4, <1>6 DEF SchemaInv, OneRecords, OkIsDone
<1> QED BY <1>1, <1>2, <1>5, <1>7 DEF SchemaInv

LEMMA RecordKeeps == ASSUME SchemaInv, NEW r \in Runner, Record(r) PROVE SchemaInv'
<1>1. PICK n \in 0..Latest : there = 1..n /\ recorded = there
  BY DEF SchemaInv, SchemaIsARelease
<1>2. Pending(r) # {} /\ Current(r) \notin there
  BY DEF SchemaInv, RecordIsNew, Record
<1>3. n < Latest /\ Current(r) = n + 1 /\ done[r] = 1..n
  BY <1>1, <1>2, NewIsNext
<1>4. there' = 1..(n + 1) /\ recorded' = 1..(n + 1) /\ n + 1 \in 0..Latest
  BY <1>1, <1>3 DEF Record
<1>5. \A q \in Runner : done'[q] = IF q = r THEN 1..(n + 1) ELSE done[q]
  <2>1. done[r] \cup {Current(r)} = 1..(n + 1)
    BY <1>3
  <2> QED BY <2>1 DEF SchemaInv, MigrationTypeOK, Record
<1>6. \A q \in Runner : step'[q] = IF q = r THEN "next" ELSE step[q]
  BY DEF SchemaInv, MigrationTypeOK, Record
<1>7. MigrationTypeOK'
  BY <1>3, <1>4 DEF SchemaInv, MigrationTypeOK, Record, Running, Version
<1>8. SchemaIsARelease'
  BY <1>4 DEF SchemaIsARelease
<1>9. DoneIsBehind'
  BY <1>1, <1>4, <1>5 DEF SchemaInv, DoneIsBehind
<1>10. \A q \in Runner : step'[q] # "record"
  BY <1>6 DEF SchemaInv, OneRecords, Record
<1>11. RecordIsNew' /\ OneRecords'
  BY <1>10 DEF RecordIsNew, OneRecords
<1>12. OkIsDone'
  BY <1>5, <1>6 DEF SchemaInv, OkIsDone, Pending
<1> QED BY <1>7, <1>8, <1>9, <1>11, <1>12 DEF SchemaInv

LEMMA SchemaInvStep == SchemaInv /\ [MigrationNext]_migrationVars => SchemaInv'
<1> SUFFICES ASSUME SchemaInv, [MigrationNext]_migrationVars PROVE SchemaInv'
  OBVIOUS
<1>1. ASSUME NEW r \in Runner, Start(r) PROVE SchemaInv'
  <2>1. MigrationTypeOK'
    BY <1>1 DEF SchemaInv, MigrationTypeOK, Start, Running
  <2> QED BY <1>1, <2>1, QuietStep DEF SchemaInv, MigrationTypeOK, Start
<1>2. ASSUME NEW r \in Runner, ReadDone(r) PROVE SchemaInv'
  <2>1. MigrationTypeOK'
    BY <1>2 DEF SchemaInv, MigrationTypeOK, ReadDone, Running
  <2> QED BY <1>2, <2>1, QuietStep DEF SchemaInv, MigrationTypeOK, ReadDone
<1>3. ASSUME NEW r \in Runner, Finish(r) PROVE SchemaInv'
  <2>1. MigrationTypeOK'
    BY <1>3 DEF SchemaInv, MigrationTypeOK, Finish, Ended
  <2> QED BY <1>3, <2>1, QuietStep DEF SchemaInv, MigrationTypeOK, Finish
<1>4. ASSUME NEW r \in Runner, Stops(r) PROVE SchemaInv'
  <2>1. MigrationTypeOK'
    BY <1>4 DEF SchemaInv, MigrationTypeOK, Stops, Ended
  <2> QED BY <1>4, <2>1, QuietStep DEF SchemaInv, MigrationTypeOK, Stops
<1>5. CASE UNCHANGED migrationVars
  BY <1>5
  DEF migrationVars, SchemaInv, MigrationTypeOK, SchemaIsARelease, DoneIsBehind, RecordIsNew,
      OneRecords, OkIsDone, Pending, Current
<1> QED
  BY <1>1, <1>2, <1>3, <1>4, <1>5, ExecuteKeeps, RecordKeeps
  DEF MigrationNext, Migrate, Collides

(* What is recorded in schema_migrations is what the database has, and it   *)
(* is one of the releases, however many runners overlap, fail and are       *)
(* started again.                                                           *)
THEOREM MigratedToARelease == MigrationSpec => []SchemaIsARelease
<1>1. MigrationSpec => []SchemaInv
  BY SchemaInvInitially, SchemaInvStep, PTL DEF MigrationSpec
<1>2. SchemaInv => SchemaIsARelease
  BY DEF SchemaInv
<1> QED BY <1>1, <1>2, PTL

(* A run that reports success leaves the latest schema. *)
THEOREM SuccessMeansLatest == MigrationSpec => []SuccessIsLatest
<1>1. MigrationSpec => []SchemaInv
  BY SchemaInvInitially, SchemaInvStep, PTL DEF MigrationSpec
<1>2. SchemaInv => SuccessIsLatest
  <2> SUFFICES ASSUME SchemaInv, NEW r \in Runner, step[r] = "ok" PROVE there = Version
    BY DEF SuccessIsLatest
  <2>1. Version \subseteq done[r]
    BY DEF SchemaInv, OkIsDone, Pending
  <2> QED BY <2>1 DEF SchemaInv, DoneIsBehind, MigrationTypeOK
<1> QED BY <1>1, <1>2, PTL

-----------------------------------------------------------------------------
(* The database that the store works on is upgraded by the runner of        *)
(* Migrations: the locks of the store's transactions only delay its steps.  *)
THEOREM UpgradesAreMigrations == Spec => MigrationSpec
<1>1. Init => MigrationInit
  BY DEF Init
<1>2. [Next]_vars => [MigrationNext]_migrationVars
  BY DEF Next, Upgrade, vars, MigrationNext
<1> QED BY <1>1, <1>2, PTL DEF Spec, MigrationSpec

(* Hence both hold of the database that the PostgreSQL store is used on. *)
THEOREM StoreIsOnARelease == Spec => [](SchemaIsARelease /\ SuccessIsLatest)
BY UpgradesAreMigrations, MigratedToARelease, SuccessMeansLatest, PTL

-----------------------------------------------------------------------------
(* The profile store. *)

(* The statements of each kind of call. *)
KindAt(k) ==
  CASE k \in {"row", "delete", "take"} -> {"save"}
    [] k = "find" -> {"upsert"}
    [] k \in {"insert", "written"} -> {"save", "upsert"}
    [] k \in {"update", "commit"} -> {"archive"}
    [] k \in {"get_row", "get_objectives"} -> {"get", "archive"}
    [] OTHER -> {"save", "upsert", "archive", "get"}

Calling ==
  \A t \in Proc :
    /\ pc[t] # "idle" => call[t] \in Calls /\ call[t].kind \in KindAt(pc[t])
    /\ pc[t] # "done" => outcome[t] = "none"

(* A statement that writes the column found it, one that needs a row of     *)
(* profiles found that, and a row that is there stays there.                *)
Found ==
  \A t \in Proc :
    /\ Writing(t) /\ call[t].kind \in {"save", "archive"} => AddsArchived \in there
    /\ \/ pc[t] = "insert" /\ call[t].kind = "upsert"
       \/ pc[t] \in {"commit", "get_objectives"}
       => profiles[call[t].profile_id] # None

(* The past of a call includes the present as long as it runs. *)
Remembers ==
  \A t \in Proc : pc[t] \notin {"idle", "done"} => Stored(call[t].profile_id) \in held[t]

(* What get_profile has in hand. *)
HalfRead ==
  \A t \in Proc :
    /\ pc[t] \notin {"get_objectives", "done"} => result[t] = None
    /\ pc[t] = "get_objectives" =>
         /\ result[t] # None
         /\ \E g \in held[t] \ {None} : result[t].archived = g.archived

(* What a save does not delete was not there at some moment of it. *)
Deleting ==
  \A t \in Proc :
    /\ pc[t] # "take" => targets[t] = {}
    /\ pc[t] \in {"idle", "done"} \/ call[t].kind # "save" => deleted[t] = {}
    /\ pc[t] \in {"take", "insert"} /\ call[t].kind = "save" =>
         \A o \in Objective \ (deleted[t] \cup targets[t]) :
           \E h \in held[t] : h = None \/ h.objectives[o] = None

IInv ==
  /\ SchemaInv
  /\ ReadsWhatWasThere
  /\ Calling
  /\ Found
  /\ Remembers
  /\ HalfRead
  /\ Deleting

(* The shapes of a call. *)
LEMMA CallsTyped ==
  ASSUME NEW c \in Calls
  PROVE  /\ c.kind \in {"save", "upsert", "archive", "get"}
         /\ c.profile_id \in ProfileId
         /\ c.kind = "save" => c.profile \in StoredProfile
         /\ c.kind = "upsert" => c.incoming \in Catalog
         /\ c.kind = "archive" => c.archived \in BOOLEAN
         /\ c.kind # "get" => c \in Write
         /\ Incoming(c) \in Catalog
<1>1. c \in ProfileWrite \/ \E p \in ProfileId : c = GetProfile(p)
  BY ProfilesAssumption DEF Calls
<1>2. \/ \E p \in ProfileId, s \in StoredProfile : c = SaveProfile(p, s)
      \/ \E p \in ProfileId, b \in BOOLEAN : c = SetArchived(p, b)
      \/ \E p \in ProfileId, i \in Catalog : c = UpsertObjectives(p, i)
      \/ \E p \in ProfileId : c = GetProfile(p)
  BY <1>1 DEF ProfileWrite
<1>3. /\ c.kind \in {"save", "upsert", "archive", "get"}
      /\ c.profile_id \in ProfileId
      /\ c.kind = "save" => c.profile \in StoredProfile
      /\ c.kind = "upsert" => c.incoming \in Catalog
      /\ c.kind = "archive" => c.archived \in BOOLEAN
  BY <1>2 DEF SaveProfile, SetArchived, UpsertObjectives, GetProfile
<1>4. c.kind # "get" => c \in Write
  BY DEF Calls, GetProfile
<1>5. NoObjectives \in Catalog
  BY DEF NoObjectives, Catalog
<1>6. Incoming(c) \in Catalog
  BY <1>3, <1>5 DEF Incoming, StoredProfile
<1> QED BY <1>3, <1>4, <1>6

(* What is stored of a profile is a profile, or nothing. *)
LEMMA StoredTyped ==
  ASSUME TypeOK, NEW p \in ProfileId
  PROVE  /\ Stored(p) \in StoredProfile \cup {None}
         /\ Stored(p) = None <=> profiles[p] = None
         /\ profiles[p] # None => /\ Stored(p) \in StoredProfile
                                  /\ Stored(p).objectives = catalogs[p]
                                  /\ Stored(p).archived = (profiles[p] = "archived")
<1>1. catalogs[p] \in Catalog
  BY DEF TypeOK
<1>2. [objectives |-> catalogs[p], archived |-> profiles[p] = "archived"] \in StoredProfile
  BY <1>1 DEF StoredProfile
<1> QED BY <1>2, NoneAssumption DEF Stored

LEMMA IInvInitially == Init => IInv
<1> SUFFICES ASSUME Init PROVE IInv
  OBVIOUS
<1>1. PICK old \in Inherited :
        /\ CreatesTables \notin there => old = Nothing
        /\ profiles = [p \in ProfileId |->
             IF old[p] = None THEN None
             ELSE IF AddsArchived \in there THEN Flag(old[p].archived) ELSE "no_column"]
        /\ catalogs = [p \in ProfileId |-> IF old[p] = None THEN NoObjectives ELSE old[p].objectives]
  BY DEF Init
<1>2. SchemaInv
  BY SchemaInvInitially DEF Init
<1>3. \A p \in ProfileId : old[p] \in StoredProfile \cup {None}
  BY <1>1, InheritedAssumption DEF Profiles
<1>4. profiles \in [ProfileId -> Column \cup {None}]
  BY <1>1 DEF Column, Flag
<1>5. \A p \in ProfileId : profiles[p] = "no_column" <=> profiles[p] # None /\ AddsArchived \notin there
  <2> SUFFICES ASSUME NEW p \in ProfileId
               PROVE  profiles[p] = "no_column" <=> profiles[p] # None /\ AddsArchived \notin there
    OBVIOUS
  <2>1. None # "no_column" /\ None # "studied" /\ None # "archived"
    BY ColumnAssumption DEF Column
  <2> QED BY <1>1, <2>1 DEF Flag
<1>6. catalogs \in [ProfileId -> Catalog]
  <2>1. NoObjectives \in Catalog
    BY DEF NoObjectives, Catalog
  <2> QED BY <1>1, <1>3, <2>1 DEF StoredProfile
<1>7. TypeOK
  BY <1>2, <1>4, <1>5, <1>6 DEF TypeOK, SchemaInv, Init, PC
<1>8. \A t \in Proc : /\ pc[t] = "idle" /\ outcome[t] = "none" /\ result[t] = None
                      /\ targets[t] = {} /\ deleted[t] = {}
  BY DEF Init
<1>9. ReadsWhatWasThere
  BY <1>7, <1>8 DEF ReadsWhatWasThere
<1>10. Calling /\ Found /\ Remembers
  BY <1>8 DEF Calling, Found, Remembers, Writing
<1>11. HalfRead /\ Deleting
  BY <1>8 DEF HalfRead, Deleting
<1> QED BY <1>2, <1>9, <1>10, <1>11 DEF IInv

(* The schema, while the callers work. *)
LEMMA SchemaStays == ASSUME IInv, UNCHANGED migrationVars PROVE SchemaInv'
BY SchemaInvStep DEF IInv

(* What a statement of t that goes on to k owes, when it writes nothing that *)
(* others see.                                                               *)
LEMMA GotoKeeps ==
  ASSUME IInv, UNCHANGED migrationVars,
         UNCHANGED <<profiles, catalogs, call, result, outcome, held>>,
         NEW t \in Proc, pc[t] \notin {"idle", "done", "get_objectives"},
         NEW k \in {"delete", "take", "insert", "commit"},
         pc' = [pc EXCEPT ![t] = k],
         targets' \in [Proc -> SUBSET Objective],
         deleted' \in [Proc -> SUBSET Objective],
         left' \in [Proc -> SUBSET Objective],
         \A u \in Proc \ {t} : targets'[u] = targets[u] /\ deleted'[u] = deleted[u],
         call[t].kind \in KindAt(k),
         call[t].kind \in {"save", "archive"} => AddsArchived \in there,
         call[t].kind # "save" => profiles[call[t].profile_id] # None /\ deleted'[t] = {},
         k # "take" => targets'[t] = {},
         k \in {"take", "insert"} /\ call[t].kind = "save" =>
           \A o \in Objective \ (deleted'[t] \cup targets'[t]) :
             \E h \in held[t] : h = None \/ h.objectives[o] = None
  PROVE  IInv'
<1>1. TypeOK /\ SchemaInv'
  BY SchemaStays DEF IInv, ReadsWhatWasThere
<1>2. /\ pc'[t] = k
      /\ \A u \in Proc \ {t} : pc'[u] = pc[u]
  BY <1>1 DEF TypeOK
<1>3. TypeOK'
  <2>1. pc' \in [Proc -> PC]
    BY <1>1 DEF TypeOK, PC, Open
  <2> QED BY <1>1, <2>1 DEF TypeOK, SchemaInv, migrationVars
<1>4. ReadsWhatWasThere'
  BY <1>2, <1>3 DEF IInv, ReadsWhatWasThere
<1>5. Calling'
  BY <1>2 DEF IInv, Calling
<1>6. Found'
  <2> SUFFICES ASSUME NEW u \in Proc
               PROVE  /\ Writing(u)' /\ call[u].kind \in {"save", "archive"} => AddsArchived \in there
                      /\ \/ pc'[u] = "insert" /\ call[u].kind = "upsert"
                         \/ pc'[u] \in {"commit", "get_objectives"}
                         => profiles[call[u].profile_id] # None
    BY DEF Found, migrationVars
  <2>1. CASE u # t
    BY <1>2, <2>1 DEF IInv, Found, Writing
  <2>2. CASE u = t
    BY <1>2, <2>2 DEF KindAt
  <2> QED BY <2>1, <2>2
<1>7. Remembers'
  <2>1. \A u \in Proc : pc'[u] \notin {"idle", "done"} => pc[u] \notin {"idle", "done"}
    BY <1>2
  <2> QED BY <2>1 DEF IInv, Remembers, Stored
<1>8. HalfRead'
  BY <1>2 DEF IInv, HalfRead
<1>9. Deleting'
  <2> SUFFICES ASSUME NEW u \in Proc
               PROVE  /\ pc'[u] # "take" => targets'[u] = {}
                      /\ pc'[u] \in {"idle", "done"} \/ call[u].kind # "save" => deleted'[u] = {}
                      /\ pc'[u] \in {"take", "insert"} /\ call[u].kind = "save" =>
                           \A o \in Objective \ (deleted'[u] \cup targets'[u]) :
                             \E h \in held[u] : h = None \/ h.objectives[o] = None
    BY DEF Deleting
  <2>1. CASE u # t
    BY <1>2, <2>1 DEF IInv, Deleting
  <2>2. CASE u = t
    BY <1>2, <2>2
  <2> QED BY <2>1, <2>2
<1> QED BY <1>1, <1>4, <1>5, <1>6, <1>7, <1>8, <1>9 DEF IInv

(* A call that ends, and what it owes the caller. *)
LEMMA EndsKeeps ==
  ASSUME IInv, UNCHANGED migrationVars, NEW t \in Proc, pc[t] \notin {"idle", "done"},
         NEW why \in {"ok", "StorageError", "UnknownProfile"}, Ends(t, why),
         result' \in [Proc -> StoredProfile \cup {None}],
         \A u \in Proc \ {t} : result'[u] = result[u],
         why = "UnknownProfile" => None \in held[t],
         why = "ok" /\ result'[t] # None =>
           \E g, h \in held[t] \ {None} :
             result'[t].archived = g.archived /\ result'[t].objectives = h.objectives
  PROVE  IInv'
<1>1. TypeOK /\ SchemaInv'
  BY SchemaStays DEF IInv, ReadsWhatWasThere
<1>2. /\ pc' = [pc EXCEPT ![t] = "done"] /\ outcome' = [outcome EXCEPT ![t] = why]
      /\ targets' = [targets EXCEPT ![t] = {}] /\ deleted' = [deleted EXCEPT ![t] = {}]
      /\ left' = [left EXCEPT ![t] = {}]
      /\ UNCHANGED <<profiles, catalogs, call, held>>
  BY DEF Ends
<1>3. /\ pc'[t] = "done" /\ outcome'[t] = why /\ targets'[t] = {} /\ deleted'[t] = {}
      /\ \A u \in Proc \ {t} : /\ pc'[u] = pc[u] /\ outcome'[u] = outcome[u]
                               /\ targets'[u] = targets[u] /\ deleted'[u] = deleted[u]
  BY <1>1, <1>2 DEF TypeOK
<1>4. TypeOK'
  <2>1. pc' \in [Proc -> PC]
    BY <1>1, <1>2 DEF TypeOK, PC
  <2>2. outcome' \in [Proc -> {"none", "ok", "StorageError", "UnknownProfile"}]
    BY <1>1, <1>2 DEF TypeOK
  <2>3. targets' \in [Proc -> SUBSET Objective] /\ deleted' \in [Proc -> SUBSET Objective]
        /\ left' \in [Proc -> SUBSET Objective]
    BY <1>1, <1>2 DEF TypeOK
  <2> QED BY <1>1, <1>2, <2>1, <2>2, <2>3 DEF TypeOK, SchemaInv, migrationVars
<1>5. ReadsWhatWasThere'
  BY <1>2, <1>3, <1>4 DEF IInv, ReadsWhatWasThere
<1>6. Calling'
  <2>1. \A u \in Proc \ {t} : /\ pc'[u] # "idle" => call'[u] \in Calls /\ call'[u].kind \in KindAt(pc'[u])
                              /\ pc'[u] # "done" => outcome'[u] = "none"
    BY <1>2, <1>3 DEF IInv, Calling
  <2>2. call[t] \in Calls
    BY DEF IInv, Calling
  <2>3. call[t].kind \in KindAt("done")
    BY <2>2, CallsTyped DEF KindAt
  <2> QED BY <1>2, <1>3, <2>1, <2>2, <2>3 DEF Calling
<1>7. Found'
  BY <1>2, <1>3 DEF IInv, Found, Writing, migrationVars
<1>8. Remembers'
  BY <1>2, <1>3 DEF IInv, Remembers, Stored
<1>9. HalfRead'
  BY <1>2, <1>3 DEF IInv, HalfRead
<1>10. Deleting'
  BY <1>2, <1>3 DEF IInv, Deleting
<1> QED BY <1>1, <1>5, <1>6, <1>7, <1>8, <1>9, <1>10 DEF IInv

LEMMA RaisesKeeps ==
  ASSUME IInv, UNCHANGED migrationVars, NEW t \in Proc, pc[t] \notin {"idle", "done"},
         NEW why \in {"StorageError", "UnknownProfile"}, Raises(t, why),
         why = "UnknownProfile" => profiles[call[t].profile_id] = None
  PROVE  IInv'
<1>1. TypeOK
  BY DEF IInv, ReadsWhatWasThere
<1>2. Ends(t, why) /\ result' = [result EXCEPT ![t] = None]
  BY DEF Raises
<1>3. result' \in [Proc -> StoredProfile \cup {None}] /\ \A u \in Proc \ {t} : result'[u] = result[u]
  BY <1>1, <1>2 DEF TypeOK
<1>4. ASSUME why = "UnknownProfile" PROVE None \in held[t]
  <2>1. Stored(call[t].profile_id) = None
    BY <1>4 DEF Stored
  <2> QED BY <2>1 DEF IInv, Remembers
<1>5. why \in {"ok", "StorageError", "UnknownProfile"} /\ why # "ok"
  OBVIOUS
<1> HIDE DEF Raises, Ends
<1> QED BY <1>2, <1>3, <1>4, <1>5, EndsKeeps

LEMMA BeginKeeps ==
  ASSUME IInv, UNCHANGED migrationVars, NEW t \in Proc, NEW c \in Calls, Begin(t, c)
  PROVE  IInv'
<1>1. TypeOK /\ SchemaInv'
  BY SchemaStays DEF IInv, ReadsWhatWasThere
<1>2. /\ pc[t] = "idle" /\ pc' = [pc EXCEPT ![t] = First(c)]
      /\ call' = [call EXCEPT ![t] = c] /\ left' = [left EXCEPT ![t] = Named(c)]
      /\ held' = [held EXCEPT ![t] = {Stored(c.profile_id)}]
      /\ UNCHANGED <<profiles, catalogs, targets, deleted, result, outcome>>
  BY DEF Begin, Goto
<1>3. First(c) \in Opening /\ c.kind \in KindAt(First(c))
  BY CallsTyped DEF First, Opening, KindAt
<1>4. /\ pc'[t] = First(c) /\ call'[t] = c /\ held'[t] = {Stored(c.profile_id)}
      /\ \A u \in Proc \ {t} : pc'[u] = pc[u] /\ call'[u] = call[u] /\ held'[u] = held[u]
  BY <1>1, <1>2 DEF TypeOK
<1>5. TypeOK'
  <2>1. pc' \in [Proc -> PC] /\ call' \in [Proc -> Calls \cup {None}]
    BY <1>1, <1>2, <1>3 DEF TypeOK, PC
  <2>2. left' \in [Proc -> SUBSET Objective]
    BY <1>1, <1>2 DEF TypeOK, Named
  <2>3. held' \in [Proc -> SUBSET (StoredProfile \cup {None})]
    BY <1>1, <1>2, CallsTyped, StoredTyped DEF TypeOK
  <2> QED BY <1>1, <1>2, <2>1, <2>2, <2>3 DEF TypeOK, SchemaInv, migrationVars
<1>6. ReadsWhatWasThere'
  BY <1>2, <1>3, <1>4, <1>5 DEF IInv, ReadsWhatWasThere, Opening
<1>7. Calling'
  <2>1. First(c) # "done" /\ outcome[t] = "none"
    BY <1>2, <1>3 DEF IInv, Calling, Opening
  <2> QED BY <1>2, <1>3, <1>4, <2>1 DEF IInv, Calling
<1>8. Found'
  BY <1>2, <1>3, <1>4 DEF IInv, Found, Writing, Opening, migrationVars
<1>9. Remembers'
  BY <1>2, <1>3, <1>4 DEF IInv, Remembers, Stored
<1>10. HalfRead'
  BY <1>2, <1>3, <1>4 DEF IInv, HalfRead, Opening
<1>11. Deleting'
  <2>1. pc[t] = "idle" => targets[t] = {} /\ deleted[t] = {}
    BY DEF IInv, Deleting
  <2> QED BY <1>2, <1>3, <1>4, <2>1 DEF IInv, Deleting, Opening
<1> QED BY <1>1, <1>6, <1>7, <1>8, <1>9, <1>10, <1>11 DEF IInv

LEMMA SaveRowKeeps ==
  ASSUME IInv, UNCHANGED migrationVars, NEW t \in Proc, SaveRow(t) PROVE IInv'
<1>1. /\ TypeOK /\ pc[t] = "row" /\ AddsArchived \in there /\ call[t].kind = "save"
  BY DEF IInv, ReadsWhatWasThere, SaveRow, Goto, CanOpen, Calling, KindAt
<1>2. targets[t] = {}
  BY <1>1 DEF IInv, Deleting
<1> QED BY <1>1, <1>2, GotoKeeps DEF SaveRow, Goto, KindAt, TypeOK

LEMMA StartDeleteKeeps ==
  ASSUME IInv, UNCHANGED migrationVars, NEW t \in Proc, StartDelete(t) PROVE IInv'
<1> DEFINE p == call[t].profile_id
           seen == {o \in Objective : catalogs[p][o] # None}
           k == IF seen = {} THEN "insert" ELSE "take"
<1>1. /\ TypeOK /\ pc[t] = "delete" /\ call[t].kind = "save" /\ call[t] \in Calls
      /\ p \in ProfileId /\ AddsArchived \in there
  BY CallsTyped DEF IInv, ReadsWhatWasThere, StartDelete, Goto, Calling, KindAt, Found, Writing
<1>2. /\ pc' = [pc EXCEPT ![t] = k]
      /\ targets' = [targets EXCEPT ![t] = seen]
      /\ UNCHANGED <<profiles, catalogs, call, deleted, left, result, outcome, held>>
  BY DEF StartDelete, Goto
<1>3. /\ targets'[t] = seen /\ \A u \in Proc \ {t} : targets'[u] = targets[u]
      /\ targets' \in [Proc -> SUBSET Objective]
  BY <1>1, <1>2 DEF TypeOK
<1>4. ASSUME NEW o \in Objective, o \notin seen
      PROVE  \E h \in held[t] : h = None \/ h.objectives[o] = None
  <2>1. Stored(p) \in held[t]
    BY <1>1 DEF IInv, Remembers
  <2>2. Stored(p) = None \/ Stored(p).objectives[o] = None
    BY <1>1, <1>4, StoredTyped
  <2> QED BY <2>1, <2>2
<1>5. k \in {"take", "insert"} /\ (k # "take" => seen = {}) /\ call[t].kind \in KindAt(k)
  BY <1>1 DEF KindAt
<1>6. deleted' = deleted /\ left' = left
  BY <1>2
<1> HIDE DEF p, seen, k
<1> QED BY <1>1, <1>2, <1>3, <1>4, <1>5, <1>6, GotoKeeps DEF TypeOK

LEMMA TakeKeeps ==
  ASSUME IInv, UNCHANGED migrationVars, NEW t \in Proc, Take(t) PROVE IInv'
<1>1. PICK o \in targets[t] :
        /\ Goto(t, "take", IF targets[t] = {o} THEN "insert" ELSE "take")
        /\ targets' = [targets EXCEPT ![t] = @ \ {o}]
        /\ deleted' = [deleted EXCEPT ![t] = @ \cup {o}]
        /\ UNCHANGED <<profiles, catalogs, call, left, result, outcome, held>>
  BY DEF Take
<1> DEFINE k == IF targets[t] = {o} THEN "insert" ELSE "take"
<1>2. /\ TypeOK /\ pc[t] = "take" /\ call[t].kind = "save" /\ AddsArchived \in there
  BY <1>1 DEF IInv, ReadsWhatWasThere, Goto, Calling, KindAt, Found, Writing
<1>3. /\ targets'[t] = targets[t] \ {o} /\ deleted'[t] = deleted[t] \cup {o}
      /\ \A u \in Proc \ {t} : targets'[u] = targets[u] /\ deleted'[u] = deleted[u]
      /\ targets' \in [Proc -> SUBSET Objective] /\ deleted' \in [Proc -> SUBSET Objective]
  BY <1>1, <1>2 DEF TypeOK
<1>4. \A x \in Objective \ (deleted[t] \cup targets[t]) :
        \E h \in held[t] : h = None \/ h.objectives[x] = None
  BY <1>2 DEF IInv, Deleting
<1>5. Objective \ (deleted'[t] \cup targets'[t]) \subseteq Objective \ (deleted[t] \cup targets[t])
  BY <1>3
<1>6. k \in {"take", "insert"} /\ (k # "take" => targets'[t] = {}) /\ call[t].kind \in KindAt(k)
  BY <1>2, <1>3 DEF KindAt
<1>7. pc' = [pc EXCEPT ![t] = k]
  BY <1>1 DEF Goto
<1> HIDE DEF k
<1> QED BY <1>1, <1>2, <1>3, <1>4, <1>5, <1>6, <1>7, GotoKeeps DEF TypeOK

LEMMA InsertKeeps ==
  ASSUME IInv, UNCHANGED migrationVars, NEW t \in Proc, Insert(t) PROVE IInv'
<1>1. TypeOK /\ pc[t] = "insert"
  BY DEF IInv, ReadsWhatWasThere, Insert
<1>2. CASE Raises(t, "StorageError")
  BY <1>1, <1>2, RaisesKeeps
<1>3. CASE \E o \in left[t] :
             /\ left' = [left EXCEPT ![t] = @ \ {o}]
             /\ UNCHANGED <<profiles, catalogs, pc, call, targets, deleted, result, outcome, held>>
  <2>1. left' \in [Proc -> SUBSET Objective]
    BY <1>1, <1>3 DEF TypeOK
  <2>2. pc' = [pc EXCEPT ![t] = "insert"]
    BY <1>1, <1>3 DEF TypeOK
  <2>3. /\ call[t].kind \in KindAt("insert") /\ call[t].kind \in {"save", "upsert"}
        /\ call[t].kind = "save" => AddsArchived \in there
        /\ call[t].kind = "upsert" => profiles[call[t].profile_id] # None
    BY <1>1 DEF IInv, Calling, KindAt, Found, Writing
  <2>4. /\ targets[t] = {}
        /\ call[t].kind # "save" => deleted[t] = {}
        /\ call[t].kind = "save" =>
             \A o \in Objective \ (deleted[t] \cup targets[t]) :
               \E h \in held[t] : h = None \/ h.objectives[o] = None
    BY <1>1 DEF IInv, Deleting
  <2>5. UNCHANGED <<profiles, catalogs, call, result, outcome, held, targets, deleted>>
    BY <1>3
  <2>6. targets' \in [Proc -> SUBSET Objective] /\ deleted' \in [Proc -> SUBSET Objective]
    BY <1>1, <2>5 DEF TypeOK
  <2> QED BY <1>1, <2>1, <2>2, <2>3, <2>4, <2>5, <2>6, GotoKeeps
<1> QED BY <1>2, <1>3 DEF Insert

LEMMA FindKeeps ==
  ASSUME IInv, UNCHANGED migrationVars, NEW t \in Proc, Find(t) PROVE IInv'
<1>1. /\ TypeOK /\ pc[t] = "find" /\ call[t].kind = "upsert" /\ targets[t] = {} /\ deleted[t] = {}
  BY DEF IInv, ReadsWhatWasThere, Find, Calling, KindAt, Deleting
<1>2. CASE profiles[call[t].profile_id] = None /\ Raises(t, "UnknownProfile")
  BY <1>1, <1>2, RaisesKeeps
<1>3. CASE /\ profiles[call[t].profile_id] # None
           /\ Goto(t, "find", "insert")
           /\ UNCHANGED <<profiles, catalogs, call, targets, deleted, left, result, outcome, held>>
  BY <1>1, <1>3, GotoKeeps DEF Goto, KindAt, TypeOK
<1> QED BY <1>2, <1>3 DEF Find

LEMMA UpdateArchivedKeeps ==
  ASSUME IInv, UNCHANGED migrationVars, NEW t \in Proc, UpdateArchived(t) PROVE IInv'
<1>1. /\ TypeOK /\ pc[t] = "update" /\ call[t].kind = "archive" /\ targets[t] = {} /\ deleted[t] = {}
      /\ AddsArchived \in there
  BY DEF IInv, ReadsWhatWasThere, UpdateArchived, CanOpen, Calling, KindAt, Deleting
<1>2. CASE profiles[call[t].profile_id] = None /\ Raises(t, "UnknownProfile")
  BY <1>1, <1>2, RaisesKeeps
<1>3. CASE /\ profiles[call[t].profile_id] # None
           /\ Goto(t, "update", "commit")
           /\ UNCHANGED <<profiles, catalogs, call, targets, deleted, left, result, outcome, held>>
  BY <1>1, <1>3, GotoKeeps DEF Goto, KindAt, TypeOK
<1> QED BY <1>2, <1>3 DEF UpdateArchived

(* What a commit makes of the profile. *)
LEMMA CommitTyped ==
  ASSUME IInv, NEW t \in Proc, pc[t] \in {"insert", "commit"},
         NEW flagged,
         flagged = CASE call[t].kind = "save"    -> Flag(call[t].profile.archived)
                     [] call[t].kind = "archive" -> Flag(call[t].archived)
                     [] OTHER                    -> profiles[call[t].profile_id]
  PROVE  /\ flagged \in Column
         /\ flagged = "no_column" <=> AddsArchived \notin there
         /\ [objectives |-> CatalogOf(t), archived |-> flagged = "archived"] \in StoredProfile
<1> DEFINE p == call[t].profile_id
<1>1. TypeOK /\ call[t] \in Calls /\ call[t].kind \in {"save", "upsert", "archive"}
  BY DEF IInv, ReadsWhatWasThere, Calling, KindAt
<1>2. p \in ProfileId /\ Incoming(call[t]) \in Catalog /\ catalogs[p] \in Catalog
  BY <1>1, CallsTyped DEF TypeOK
<1>3. CatalogOf(t) \in Catalog
  BY <1>2 DEF CatalogOf, Catalog
<1>4. CASE call[t].kind = "upsert"
  <2>1. flagged = profiles[p] /\ profiles[p] # None
    BY <1>4 DEF IInv, Found, Calling, KindAt
  <2> QED BY <1>1, <1>2, <1>3, <2>1 DEF TypeOK, StoredProfile
<1>5. CASE call[t].kind \in {"save", "archive"}
  <2>1. AddsArchived \in there
    BY <1>5 DEF IInv, Found, Writing
  <2>2. flagged \in {"studied", "archived"}
    BY <1>5 DEF Flag
  <2> QED BY <1>3, <2>1, <2>2 DEF Column, StoredProfile
<1> QED BY <1>1, <1>4, <1>5

LEMMA CommitKeeps ==
  ASSUME IInv, UNCHANGED migrationVars, NEW t \in Proc, Commit(t) PROVE IInv'
<1> DEFINE p == call[t].profile_id
           flagged == CASE call[t].kind = "save"    -> Flag(call[t].profile.archived)
                        [] call[t].kind = "archive" -> Flag(call[t].archived)
                        [] OTHER                    -> profiles[p]
           row == [objectives |-> CatalogOf(t), archived |-> flagged = "archived"]
           with(u) == pc[u] \notin {"idle", "done"} /\ call[u].profile_id = p
<1>1. TypeOK /\ SchemaInv'
  BY SchemaStays DEF IInv, ReadsWhatWasThere
<1>2. PICK k : \/ pc[t] = "insert" /\ k = "written" /\ pc' = [pc EXCEPT ![t] = k]
               \/ pc[t] = "commit" /\ k = "get_row" /\ pc' = [pc EXCEPT ![t] = k]
  BY DEF Commit, Goto
<1>3. /\ profiles' = [profiles EXCEPT ![p] = flagged]
      /\ catalogs' = [catalogs EXCEPT ![p] = CatalogOf(t)]
      /\ deleted' = [deleted EXCEPT ![t] = {}]
      /\ held' = [u \in Proc |-> IF with(u) THEN held[u] \cup {row} ELSE held[u]]
      /\ UNCHANGED <<call, targets, left, result, outcome>>
  BY DEF Commit
<1>4. /\ flagged \in Column /\ (flagged = "no_column" <=> AddsArchived \notin there)
      /\ row \in StoredProfile
  BY <1>2, CommitTyped
<1>5. p \in ProfileId /\ call[t] \in Calls
  BY <1>2, CallsTyped DEF IInv, Calling
<1>6. /\ pc'[t] = k /\ \A u \in Proc \ {t} : pc'[u] = pc[u] /\ deleted'[u] = deleted[u]
      /\ deleted'[t] = {}
      /\ \A q \in ProfileId \ {p} : profiles'[q] = profiles[q] /\ catalogs'[q] = catalogs[q]
      /\ profiles'[p] = flagged /\ catalogs'[p] = CatalogOf(t)
  BY <1>1, <1>2, <1>3, <1>5 DEF TypeOK
<1>7. flagged # None
  BY <1>4, ColumnAssumption
<1>8. \A u \in Proc : held[u] \subseteq held'[u] /\ (with(u) => row \in held'[u])
                      /\ (pc[u] = "done" => held'[u] = held[u])
  BY <1>3
<1>9. \A u \in Proc \ {t} : pc[u] # "idle" => call[u].profile_id \in ProfileId
  BY CallsTyped DEF IInv, Calling
<1> HIDE DEF p, flagged, row
<1>10. TypeOK'
  <2>1. pc' \in [Proc -> PC]
    BY <1>1, <1>2 DEF TypeOK, PC, Opening
  <2>2. profiles' \in [ProfileId -> Column \cup {None}]
    BY <1>1, <1>3, <1>4 DEF TypeOK
  <2>3. ASSUME NEW q \in ProfileId
        PROVE  profiles'[q] = "no_column" <=> profiles'[q] # None /\ AddsArchived \notin there
    BY <1>1, <1>4, <1>6, <1>7 DEF TypeOK
  <2>4. catalogs' \in [ProfileId -> Catalog]
    <3>1. CatalogOf(t) \in Catalog
      BY <1>4 DEF row, StoredProfile
    <3> QED BY <1>1, <1>3, <3>1 DEF TypeOK
  <2>5. held' \in [Proc -> SUBSET (StoredProfile \cup {None})]
    BY <1>1, <1>3, <1>4 DEF TypeOK
  <2>6. deleted' \in [Proc -> SUBSET Objective]
    BY <1>1, <1>3 DEF TypeOK
  <2> QED BY <1>1, <1>3, <2>1, <2>2, <2>3, <2>4, <2>5, <2>6 DEF TypeOK, SchemaInv, migrationVars
<1>11. ReadsWhatWasThere'
  <2>1. \A u \in Proc : pc'[u] = "done" => pc[u] = "done"
    BY <1>2, <1>6
  <2> QED BY <1>3, <1>8, <1>10, <2>1 DEF IInv, ReadsWhatWasThere
<1>12. Calling'
  <2>1. call[t].kind \in KindAt(k)
    BY <1>2 DEF IInv, Calling, KindAt
  <2> QED BY <1>2, <1>3, <1>6, <2>1 DEF IInv, Calling
<1>13. Found'
  <2> SUFFICES ASSUME NEW u \in Proc
               PROVE  /\ Writing(u)' /\ call[u].kind \in {"save", "archive"} => AddsArchived \in there
                      /\ \/ pc'[u] = "insert" /\ call[u].kind = "upsert"
                         \/ pc'[u] \in {"commit", "get_objectives"}
                         => profiles'[call[u].profile_id] # None
    BY <1>3 DEF Found, migrationVars
  <2>1. CASE u # t
    BY <1>6, <1>7, <1>9, <2>1 DEF IInv, Found, Writing
  <2>2. CASE u = t
    BY <1>2, <1>6, <2>2 DEF Writing
  <2> QED BY <2>1, <2>2
<1>14. Remembers'
  <2> SUFFICES ASSUME NEW u \in Proc, pc'[u] \notin {"idle", "done"}
               PROVE  Stored(call[u].profile_id)' \in held'[u]
    BY <1>3 DEF Remembers
  <2>1. pc[u] \notin {"idle", "done"}
    BY <1>2, <1>6
  <2>2. CASE call[u].profile_id = p
    <3>1. Stored(p)' = row
      BY <1>3, <1>6, <1>7 DEF Stored, row, p
    <3> QED BY <1>3, <1>8, <2>1, <2>2, <3>1 DEF p
  <2>3. CASE call[u].profile_id # p
    <3>1. u # t /\ call[u].profile_id \in ProfileId \ {p}
      BY <1>9, <2>1, <2>3 DEF p
    <3>2. Stored(call[u].profile_id)' = Stored(call[u].profile_id)
      BY <1>3, <1>6, <3>1 DEF Stored
    <3> QED BY <1>8, <2>1, <3>2 DEF IInv, Remembers
  <2> QED BY <2>2, <2>3
<1>15. HalfRead'
  <2>1. ASSUME NEW u \in Proc, pc'[u] \notin {"get_objectives", "done"} PROVE result[u] = None
    BY <1>2, <1>6, <2>1 DEF IInv, HalfRead
  <2>2. ASSUME NEW u \in Proc, pc'[u] = "get_objectives"
        PROVE  result[u] # None /\ \E g \in held'[u] \ {None} : result[u].archived = g.archived
    <3>1. pc[u] = "get_objectives"
      BY <1>2, <1>6, <2>2
    <3> QED BY <1>8, <3>1 DEF IInv, HalfRead
  <2> QED BY <1>3, <2>1, <2>2 DEF HalfRead
<1>16. Deleting'
  <2> SUFFICES ASSUME NEW u \in Proc
               PROVE  /\ pc'[u] # "take" => targets[u] = {}
                      /\ pc'[u] \in {"idle", "done"} \/ call[u].kind # "save" => deleted'[u] = {}
                      /\ pc'[u] \in {"take", "insert"} /\ call[u].kind = "save" =>
                           \A o \in Objective \ (deleted'[u] \cup targets[u]) :
                             \E h \in held'[u] : h = None \/ h.objectives[o] = None
    BY <1>3 DEF Deleting
  <2>1. CASE u # t
    BY <1>6, <1>8, <2>1 DEF IInv, Deleting
  <2>2. CASE u = t
    BY <1>2, <1>6, <2>2 DEF IInv, Deleting
  <2> QED BY <2>1, <2>2
<1> QED BY <1>1, <1>11, <1>12, <1>13, <1>14, <1>15, <1>16 DEF IInv

LEMMA ReturnKeeps ==
  ASSUME IInv, UNCHANGED migrationVars, NEW t \in Proc, Return(t) PROVE IInv'
<1>1. TypeOK /\ pc[t] = "written" /\ result' = result /\ result[t] = None
  BY DEF IInv, ReadsWhatWasThere, HalfRead, Return
<1> QED BY <1>1, EndsKeeps DEF Return, TypeOK

LEMMA GetRowKeeps ==
  ASSUME IInv, UNCHANGED migrationVars, NEW t \in Proc, GetRow(t) PROVE IInv'
<1> DEFINE p == call[t].profile_id
           half == [archived |-> profiles[p] = "archived", objectives |-> NoObjectives]
<1>1. /\ TypeOK /\ SchemaInv' /\ pc[t] = "get_row" /\ call[t] \in Calls /\ p \in ProfileId
      /\ call[t].kind \in {"get", "archive"}
  BY SchemaStays, CallsTyped DEF IInv, ReadsWhatWasThere, GetRow, Calling, KindAt
<1>2. CASE profiles[p] = None /\ Raises(t, "UnknownProfile")
  BY <1>1, <1>2, RaisesKeeps
<1>3. CASE /\ profiles[p] # None
           /\ Goto(t, "get_row", "get_objectives")
           /\ result' = [result EXCEPT ![t] = half]
           /\ UNCHANGED <<profiles, catalogs, call, targets, deleted, left, outcome, held>>
  <2>1. half \in StoredProfile /\ half # None
    <3>1. NoObjectives \in Catalog
      BY DEF NoObjectives, Catalog
    <3>2. \A b \in BOOLEAN : [archived |-> b, objectives |-> NoObjectives] \in StoredProfile
      BY <3>1 DEF StoredProfile
    <3>3. half \in StoredProfile
      BY <3>2
    <3> QED BY <3>3, NoneAssumption
  <2>2. /\ pc'[t] = "get_objectives" /\ result'[t] = half
        /\ \A u \in Proc \ {t} : pc'[u] = pc[u] /\ result'[u] = result[u]
    BY <1>1, <1>3 DEF Goto, TypeOK
  <2>3. TypeOK'
    <3>1. pc' \in [Proc -> PC]
      BY <1>1, <1>3 DEF TypeOK, PC, Open, Goto
    <3>2. result' \in [Proc -> StoredProfile \cup {None}]
      BY <1>1, <1>3, <2>1 DEF TypeOK
    <3> QED BY <1>1, <1>3, <3>1, <3>2 DEF TypeOK, SchemaInv, migrationVars
  <2>4. ReadsWhatWasThere'
    BY <1>3, <2>2, <2>3 DEF IInv, ReadsWhatWasThere
  <2>5. Calling'
    BY <1>1, <1>3, <2>2 DEF IInv, Calling, KindAt
  <2>6. Found'
    BY <1>1, <1>3, <2>2 DEF IInv, Found, Writing, migrationVars
  <2>7. Remembers'
    BY <1>1, <1>3, <2>2 DEF IInv, Remembers, Stored
  <2>8. HalfRead'
    <3>1. Stored(p) \in held[t] \ {None} /\ Stored(p).archived = half.archived
      BY <1>1, <1>3, StoredTyped, NoneAssumption DEF IInv, Remembers
    <3> QED BY <1>3, <2>1, <2>2, <3>1 DEF IInv, HalfRead
  <2>9. Deleting'
    BY <1>1, <1>3, <2>2 DEF IInv, Deleting
  <2> QED BY <1>1, <2>4, <2>5, <2>6, <2>7, <2>8, <2>9 DEF IInv
<1> QED BY <1>2, <1>3 DEF GetRow

LEMMA GetObjectivesKeeps ==
  ASSUME IInv, UNCHANGED migrationVars, NEW t \in Proc, GetObjectives(t) PROVE IInv'
<1> DEFINE p == call[t].profile_id
<1>1. /\ TypeOK /\ pc[t] = "get_objectives" /\ call[t] \in Calls /\ p \in ProfileId
      /\ profiles[p] # None
  BY CallsTyped DEF IInv, ReadsWhatWasThere, GetObjectives, Calling, Found
<1>2. /\ result' = [result EXCEPT ![t].objectives = catalogs[p]]
      /\ Ends(t, "ok")
  BY DEF GetObjectives
<1>3. PICK g \in held[t] \ {None} : result[t].archived = g.archived /\ result[t] # None
  BY <1>1 DEF IInv, HalfRead
<1>4. Stored(p) \in held[t] \ {None} /\ Stored(p).objectives = catalogs[p]
  BY <1>1, StoredTyped, NoneAssumption DEF IInv, Remembers
<1>5. result[t] \in StoredProfile /\ catalogs[p] \in Catalog
  BY <1>1, <1>3 DEF TypeOK
<1>6. result'[t] = [result[t] EXCEPT !.objectives = catalogs[p]]
      /\ \A u \in Proc \ {t} : result'[u] = result[u]
  BY <1>1, <1>2 DEF TypeOK
<1>7. /\ result'[t] \in StoredProfile
      /\ result'[t].archived = g.archived /\ result'[t].objectives = Stored(p).objectives
  BY <1>3, <1>4, <1>5, <1>6 DEF StoredProfile
<1>8. result' \in [Proc -> StoredProfile \cup {None}]
  BY <1>1, <1>2, <1>7 DEF TypeOK
<1> HIDE DEF p, Ends
<1> QED BY <1>1, <1>2, <1>3, <1>4, <1>6, <1>7, <1>8, EndsKeeps

(* A step of a runner, which gives the rows of an older release the column: *)
(* what is stored reads as it did.                                          *)
LEMMA UpgradeChangesNothing ==
  ASSUME IInv, NEW r \in Runner, Upgrade(r)
  PROVE  /\ there \subseteq there'
         /\ \A p \in ProfileId : Stored(p)' = Stored(p) /\ (profiles'[p] = None <=> profiles[p] = None)
         /\ profiles' \in [ProfileId -> Column \cup {None}]
         /\ \A p \in ProfileId :
              profiles'[p] = "no_column" <=> profiles'[p] # None /\ AddsArchived \notin there'
<1>1. TypeOK /\ catalogs' = catalogs
      /\ profiles' = IF AddsArchived \in there' \ there THEN Altered ELSE profiles
  BY DEF IInv, ReadsWhatWasThere, Upgrade
<1>2. there \subseteq there'
  BY DEF Upgrade, Migrate, ReadDone, Execute, Record, Finish, Collides, Stops
<1>3. None # "no_column" /\ None # "studied"
  BY ColumnAssumption DEF Column
<1>4. CASE AddsArchived \in there' \ there
  <2>1. profiles' \in [ProfileId -> Column \cup {None}]
    BY <1>1, <1>4 DEF Altered, TypeOK, Column
  <2> SUFFICES ASSUME NEW p \in ProfileId
               PROVE  /\ Stored(p)' = Stored(p) /\ (profiles'[p] = None <=> profiles[p] = None)
                      /\ profiles'[p] = "no_column" <=> profiles'[p] # None /\ AddsArchived \notin there'
    BY <1>2, <2>1
  <2>2. profiles'[p] = IF profiles[p] = "no_column" THEN "studied" ELSE profiles[p]
    BY <1>1, <1>4 DEF Altered
  <2>3. profiles[p] \in {"no_column", None}
    BY <1>1, <1>4 DEF TypeOK
  <2> QED BY <1>1, <1>3, <1>4, <2>2, <2>3 DEF Stored
<1>5. CASE AddsArchived \notin there' \ there
  <2>1. profiles' = profiles /\ (AddsArchived \in there' <=> AddsArchived \in there)
    BY <1>1, <1>2, <1>5
  <2> QED BY <1>1, <1>2, <2>1 DEF Stored, TypeOK
<1> QED BY <1>4, <1>5

LEMMA UpgradeKeeps == ASSUME IInv, NEW r \in Runner, Upgrade(r) PROVE IInv'
<1>1. SchemaInv'
  BY SchemaInvStep DEF IInv, Upgrade, MigrationNext
<1>2. UNCHANGED <<catalogs, pc, call, targets, deleted, left, result, outcome, held>>
  BY DEF Upgrade
<1>3. TypeOK'
  BY <1>1, <1>2, UpgradeChangesNothing DEF IInv, ReadsWhatWasThere, TypeOK, SchemaInv
<1>4. ReadsWhatWasThere' /\ Calling' /\ HalfRead' /\ Deleting'
  BY <1>2, <1>3 DEF IInv, ReadsWhatWasThere, Calling, HalfRead, Deleting
<1>5. \A t \in Proc : pc[t] # "idle" => call[t].profile_id \in ProfileId
  BY CallsTyped DEF IInv, Calling
<1>6. Found'
  <2> SUFFICES ASSUME NEW t \in Proc
               PROVE  /\ Writing(t) /\ call[t].kind \in {"save", "archive"} => AddsArchived \in there'
                      /\ \/ pc[t] = "insert" /\ call[t].kind = "upsert"
                         \/ pc[t] \in {"commit", "get_objectives"}
                         => profiles'[call[t].profile_id] # None
    BY <1>2 DEF Found, Writing
  <2> QED BY <1>5, UpgradeChangesNothing DEF IInv, Found
<1>7. Remembers'
  <2> SUFFICES ASSUME NEW t \in Proc, pc[t] \notin {"idle", "done"}
               PROVE  Stored(call[t].profile_id)' \in held[t]
    BY <1>2 DEF Remembers
  <2>1. Stored(call[t].profile_id)' = Stored(call[t].profile_id)
    BY <1>2, <1>5, UpgradeChangesNothing DEF Stored
  <2> QED BY <2>1 DEF IInv, Remembers
<1> QED BY <1>1, <1>4, <1>6, <1>7 DEF IInv

(* A run that begins or stops. *)
LEMMA RunnerKeeps ==
  ASSUME IInv, [MigrationNext]_migrationVars, UNCHANGED storeVars, there' = there
  PROVE  IInv'
<1>1. SchemaInv'
  BY SchemaInvStep DEF IInv
<1>2. TypeOK'
  BY <1>1 DEF IInv, ReadsWhatWasThere, TypeOK, SchemaInv, storeVars
<1>3. ReadsWhatWasThere' /\ Calling' /\ HalfRead' /\ Deleting'
  BY <1>2 DEF storeVars, IInv, ReadsWhatWasThere, Calling, HalfRead, Deleting
<1>4. Found' /\ Remembers'
  BY DEF storeVars, IInv, Found, Writing, Remembers, Stored
<1> QED BY <1>1, <1>3, <1>4 DEF IInv

LEMMA IInvStep == IInv /\ [Next]_vars => IInv'
<1> SUFFICES ASSUME IInv, [Next]_vars PROVE IInv'
  OBVIOUS
<1>1. ASSUME NEW t \in Proc, UNCHANGED migrationVars, NotMigrated(t) \/ DeadlockDetected(t) \/ Fails(t)
      PROVE  IInv'
  <2>1. Raises(t, "StorageError")
    BY <1>1 DEF NotMigrated, DeadlockDetected, Fails
  <2>2. pc[t] \notin {"idle", "done"}
    BY <1>1 DEF NotMigrated, Opening, DeadlockDetected, WaitsFor, Fails
  <2> QED BY <1>1, <2>1, <2>2, RaisesKeeps
<1>2. ASSUME NEW r \in Runner, Start(r) \/ Stops(r), UNCHANGED storeVars PROVE IInv'
  <2>1. there' = there /\ MigrationNext
    BY <1>2 DEF Start, Stops, MigrationNext
  <2> QED BY <1>2, <2>1, RunnerKeeps
<1>3. CASE UNCHANGED vars
  BY <1>3, RunnerKeeps DEF vars, migrationVars
<1>4. ASSUME NEW t \in Proc, UNCHANGED migrationVars, Step(t) \/ Fails(t) \/ \E c \in Calls : Begin(t, c)
      PROVE  IInv'
  BY <1>1, <1>4, BeginKeeps, SaveRowKeeps, StartDeleteKeeps, TakeKeeps, InsertKeeps, FindKeeps,
     UpdateArchivedKeeps, CommitKeeps, ReturnKeeps, GetRowKeeps, GetObjectivesKeeps
  DEF Step
<1> QED BY <1>2, <1>3, <1>4, UpgradeKeeps DEF Next

LEMMA IInvAlways == Spec => []IInv
BY IInvInitially, IInvStep, PTL DEF Spec

(* While writers commit between its statements, while it waits, and while   *)
(* the table it reads is altered, a read returns a flag that was stored at  *)
(* one moment of it and a catalog that was stored at one moment of it,      *)
(* which may be another; and it finds a profile unknown only if it was      *)
(* absent at some moment of it.                                             *)
THEOREM ReadsAreOfTheTime == Spec => []ReadsWhatWasThere
<1>1. IInv => ReadsWhatWasThere
  BY DEF IInv
<1> QED BY <1>1, IInvAlways, PTL

-----------------------------------------------------------------------------
(* The refinement: Begin asks, Commit is the write, a call that ends has    *)
(* returned or given up, and every other step stutters, as reads do.        *)

stored == [p \in ProfileId |-> Stored(p)]

request == [t \in Proc |-> Request(t)]

Done(t) == outcome[t] = "ok" /\ call[t].kind # "get"

acked == {call[t] : t \in {u \in Proc : Done(u)}}

(* A step of t that leaves the others alone changes the request of t only. *)
LEMMA RequestOfOne ==
  ASSUME NEW t \in Proc, \A u \in Proc \ {t} : pc'[u] = pc[u] /\ call'[u] = call[u],
         NEW r, r = Request(t)'
  PROVE  request' = [request EXCEPT ![t] = r]
BY DEF Request, request

(* A step in which no write returns. *)
LEMMA AckedStays ==
  ASSUME IInv, NEW t \in Proc,
         \A u \in Proc \ {t} : outcome'[u] = outcome[u] /\ call'[u] = call[u],
         ~Done(t), ~Done(t)'
  PROVE  acked' = acked
<1>1. \A u \in Proc : (Done(u)' <=> Done(u)) /\ (Done(u) => call'[u] = call[u])
  BY DEF Done
<1> QED BY <1>1 DEF acked

LEMMA StoredStays ==
  ASSUME profiles' = profiles, catalogs' = catalogs
  PROVE  stored' = stored
BY DEF stored, Stored

LEMMA StutterRefined ==
  ASSUME IInv, NEW t \in Proc, UNCHANGED <<profiles, catalogs, call, outcome>>,
         Request(t)' = Request(t), \A u \in Proc \ {t} : pc'[u] = pc[u]
  PROVE  UNCHANGED <<stored, request, acked>>
<1>1. \A u \in Proc : Request(u)' = Request(u)
  BY DEF Request
<1> QED BY <1>1, StoredStays DEF request, acked, Done

LEMMA BeginRefined ==
  ASSUME IInv, NEW t \in Proc, NEW c \in Calls, Begin(t, c)
  PROVE  \/ c \in Write /\ Abstract!Ask(t, c)
         \/ UNCHANGED <<stored, request, acked>>
<1>1. TypeOK /\ pc[t] = "idle" /\ outcome[t] = "none"
  BY DEF IInv, ReadsWhatWasThere, Begin, Goto, Calling
<1>2. /\ \A u \in Proc \ {t} : pc'[u] = pc[u] /\ call'[u] = call[u] /\ outcome'[u] = outcome[u]
      /\ pc'[t] = First(c) /\ call'[t] = c /\ outcome'[t] = "none"
      /\ UNCHANGED <<profiles, catalogs>>
  BY <1>1 DEF Begin, Goto, TypeOK
<1>3. stored' = stored /\ acked' = acked
  BY <1>1, <1>2, StoredStays, AckedStays DEF Done
<1>4. Request(t) = [state |-> "idle"]
  BY <1>1 DEF Request
<1>5. CASE c.kind = "get"
  <2>1. Request(t)' = [state |-> "idle"]
    BY <1>2, <1>5 DEF Request
  <2>2. \A u \in Proc : Request(u)' = Request(u)
    BY <1>2, <1>4, <2>1 DEF Request
  <2> QED BY <1>3, <2>2 DEF request
<1>6. CASE c.kind # "get"
  <2>1. c \in Write /\ c.kind \in {"save", "upsert", "archive"}
    BY <1>6, CallsTyped
  <2>2. Request(t)' = [state |-> "asked", write |-> c]
    BY <1>2, <2>1 DEF Request, First
  <2>3. request' = [request EXCEPT ![t] = [state |-> "asked", write |-> c]]
    BY <1>2, <2>2, RequestOfOne
  <2>4. request[t] = [state |-> "idle"]
    BY <1>4 DEF request
  <2> QED
    BY <1>3, <2>1, <2>3, <2>4
    DEF Abstract!Ask, Abstract!Idle, Abstract!Asked, stored, request, acked, Done
<1> QED BY <1>5, <1>6

(* A call that ends with an error, or returns after a read. *)
LEMMA RaisesRefined ==
  ASSUME IInv, NEW t \in Proc, pc[t] \notin {"idle", "done"}, NEW why, Ends(t, why),
         why # "ok" \/ call[t].kind = "get"
  PROVE  Abstract!GiveUp(t) \/ UNCHANGED <<stored, request, acked>>
<1>1. TypeOK /\ outcome[t] = "none"
  BY DEF IInv, ReadsWhatWasThere, Calling
<1>2. /\ \A u \in Proc \ {t} : pc'[u] = pc[u] /\ call'[u] = call[u] /\ outcome'[u] = outcome[u]
      /\ pc'[t] = "done" /\ call'[t] = call[t] /\ outcome'[t] = why
      /\ UNCHANGED <<profiles, catalogs>>
  BY <1>1 DEF Ends, TypeOK
<1>3. stored' = stored /\ acked' = acked
  BY <1>1, <1>2, StoredStays, AckedStays DEF Done
<1>4. Request(t)' = [state |-> "idle"]
  BY <1>2 DEF Request
<1>5. request' = [request EXCEPT ![t] = [state |-> "idle"]]
  BY <1>2, <1>4, RequestOfOne
<1>6. CASE call[t].kind = "get"
  <2>1. \A u \in Proc : Request(u)' = Request(u)
    BY <1>2, <1>4, <1>6 DEF Request
  <2> QED BY <1>3, <2>1 DEF request
<1>7. CASE call[t].kind # "get"
  <2>1. Request(t).state # "idle"
    BY <1>7 DEF Request
  <2>2. request[t] # [state |-> "idle"]
    BY <2>1 DEF request
  <2> QED
    BY <1>3, <1>5, <2>2 DEF Abstract!GiveUp, Abstract!Idle, stored, request, acked, Done
<1> QED BY <1>6, <1>7

(* A write that returns had been made. *)
LEMMA ReturnRefined ==
  ASSUME IInv, NEW t \in Proc, pc[t] \in {"written", "get_objectives"}, call[t].kind # "get",
         Ends(t, "ok")
  PROVE  \E write \in Write : Abstract!Return(t, write)
<1>1. TypeOK /\ outcome[t] = "none" /\ call[t] \in Calls /\ call[t] \in Write
  BY CallsTyped DEF IInv, ReadsWhatWasThere, Calling
<1>2. /\ \A u \in Proc \ {t} : pc'[u] = pc[u] /\ call'[u] = call[u] /\ outcome'[u] = outcome[u]
      /\ pc'[t] = "done" /\ call'[t] = call[t] /\ outcome'[t] = "ok"
      /\ UNCHANGED <<profiles, catalogs>>
  BY <1>1 DEF Ends, TypeOK
<1>3. stored' = stored
  BY <1>2, StoredStays
<1>4. acked' = acked \cup {call[t]}
  <2>1. Done(t)' /\ \A u \in Proc \ {t} : Done(u)' <=> Done(u)
    BY <1>2 DEF Done
  <2> QED BY <1>1, <1>2, <2>1 DEF acked, Done
<1>5. Request(t) = [state |-> "written", write |-> call[t]] /\ Request(t)' = [state |-> "idle"]
  BY <1>2 DEF Request
<1>6. request' = [request EXCEPT ![t] = [state |-> "idle"]]
  BY <1>2, <1>5, RequestOfOne
<1>7. request[t] = [state |-> "written", write |-> call[t]]
  BY <1>5 DEF request
<1>8. PICK write \in Write : write = call[t]
  BY <1>1
<1>9. Abstract!Return(t, write)
  BY <1>3, <1>4, <1>6, <1>7, <1>8
  DEF Abstract!Return, Abstract!Idle, Abstract!Written, stored, request, acked, Done
<1> QED BY <1>9

(* Both specifications take StoreOperations with the same constants. *)
LEMMA SameOperations ==
  ASSUME NEW write, NEW profilesNow
  PROVE  /\ Abstract!Accepts(write, profilesNow) = Accepts(write, profilesNow)
         /\ Abstract!Apply(write, profilesNow) = Apply(write, profilesNow)
BY DEF Abstract!Accepts, Accepts, Abstract!Ids, Ids, Abstract!Apply, Apply, Abstract!Merged, Merged

(* What a commit writes, and that it is the write's own doing but for what  *)
(* SavesAround says.                                                        *)
LEMMA CommitRefined ==
  ASSUME IInv, NEW t \in Proc, Commit(t)
  PROVE  (\E write \in Write : Abstract!Commit(t, write)) \/ SavesAround(t)
<1> DEFINE c == call[t]
           p == c.profile_id
           flagged == CASE c.kind = "save"    -> Flag(c.profile.archived)
                        [] c.kind = "archive" -> Flag(c.archived)
                        [] OTHER              -> profiles[p]
           row == [objectives |-> CatalogOf(t), archived |-> flagged = "archived"]
<1>1. TypeOK /\ outcome[t] = "none"
  BY DEF IInv, ReadsWhatWasThere, Calling, Commit, Goto
<1>2. PICK k : \/ pc[t] = "insert" /\ k = "written" /\ pc' = [pc EXCEPT ![t] = k]
               \/ pc[t] = "commit" /\ k = "get_row" /\ pc' = [pc EXCEPT ![t] = k]
  BY DEF Commit, Goto
<1>3. /\ profiles' = [profiles EXCEPT ![p] = flagged]
      /\ catalogs' = [catalogs EXCEPT ![p] = CatalogOf(t)]
      /\ UNCHANGED <<call, outcome>>
  BY DEF Commit
<1>4. c \in Calls /\ p \in ProfileId /\ c \in Write /\ catalogs[p] \in Catalog
      /\ c.kind \in {"save", "upsert", "archive"}
      /\ (c.kind = "save" <=> c.kind \notin {"upsert", "archive"})
  BY <1>1, <1>2, CallsTyped DEF IInv, Calling, KindAt, TypeOK
<1>5. flagged \in Column /\ row \in StoredProfile
  BY <1>2, CommitTyped
<1>6. flagged # None
  BY <1>5, ColumnAssumption
<1>7. /\ pc'[t] = k /\ \A u \in Proc \ {t} : pc'[u] = pc[u]
      /\ \A q \in ProfileId \ {p} : profiles'[q] = profiles[q] /\ catalogs'[q] = catalogs[q]
      /\ profiles'[p] = flagged /\ catalogs'[p] = CatalogOf(t)
  BY <1>1, <1>2, <1>3, <1>4 DEF TypeOK
<1>8. Stored(p)' = row /\ \A q \in ProfileId : Stored(q)' = IF q = p THEN row ELSE Stored(q)
  BY <1>3, <1>4, <1>6, <1>7 DEF Stored
<1>9. CASE c.kind = "save"
  <2> DEFINE came == {o \in Objective \ Named(c) : \E h \in held[t] : h = None \/ h.objectives[o] = None}
             saved == [c.profile EXCEPT !.objectives =
                         [o \in Objective |-> IF o \in came THEN row.objectives[o] ELSE @[o]]]
  <2>1. pc[t] = "insert" /\ k = "written" /\ c.profile \in StoredProfile
    BY <1>2, <1>4, <1>9, CallsTyped DEF IInv, Calling, KindAt
  <2>2. \A o \in Objective : c.profile.objectives[o] = Incoming(c)[o]
    BY <1>9 DEF Incoming
  <2>3. ASSUME NEW o \in Objective, o \notin came
        PROVE  CatalogOf(t)[o] = c.profile.objectives[o]
    <3>1. CASE o \in Named(c)
      BY <2>2, <3>1 DEF CatalogOf
    <3>2. CASE o \notin Named(c)
      <4>1. targets[t] = {} /\ \A x \in Objective \ (deleted[t] \cup targets[t]) :
              \E h \in held[t] : h = None \/ h.objectives[x] = None
        BY <1>9, <2>1 DEF IInv, Deleting
      <4>2. o \in deleted[t]
        BY <2>3, <3>2, <4>1
      <4> QED BY <2>2, <3>2, <4>2 DEF CatalogOf, Named
    <3> QED BY <3>1, <3>2
  <2>4. \A o \in came : CatalogOf(t)[o] \in {None, catalogs[p][o]}
    BY DEF CatalogOf
  <2>5. row = saved
    <3>1. CatalogOf(t) = [o \in Objective |-> IF o \in came THEN row.objectives[o] ELSE c.profile.objectives[o]]
      <4>1. CatalogOf(t) = [o \in Objective |-> CatalogOf(t)[o]]
        BY DEF CatalogOf
      <4> HIDE DEF came
      <4> QED BY <2>3, <4>1
    <3>2. flagged = Flag(c.profile.archived) /\ c.profile.archived \in BOOLEAN
      BY <1>9, <2>1 DEF StoredProfile
    <3>3. (flagged = "archived") = c.profile.archived
      BY <3>2 DEF Flag
    <3> HIDE DEF came, flagged
    <3>4. c.profile = [objectives |-> c.profile.objectives, archived |-> c.profile.archived]
      BY <2>1 DEF StoredProfile
    <3> QED BY <3>1, <3>3, <3>4
  <2>6. \A q \in ProfileId : Stored(q)' = IF q = p THEN saved ELSE Stored(q)
    <3> HIDE DEF row, saved
    <3> QED BY <1>8, <2>5
  <2>7. pc'[t] = "written" /\ Stored(p)'.objectives = CatalogOf(t)
    BY <1>7, <1>8, <2>1
  <2>8. saved = [c.profile EXCEPT !.objectives =
                   [o \in Objective |-> IF o \in came THEN Stored(p)'.objectives[o] ELSE @[o]]]
    BY <1>8
  <2> HIDE DEF came, saved
  <2> QED BY <1>7, <1>9, <2>1, <2>4, <2>6, <2>7, <2>8 DEF SavesAround, came
<1>10. CASE c.kind \in {"upsert", "archive"}
  <2>1. profiles[p] # None /\ deleted[t] = {}
    BY <1>2, <1>10 DEF IInv, Found, Deleting, Calling, KindAt
  <2>2. Stored(p) \in StoredProfile /\ Stored(p).objectives = catalogs[p]
        /\ Stored(p).archived = (profiles[p] = "archived")
    BY <1>1, <1>4, <2>1, StoredTyped
  <2>3. stored[p] = Stored(p) /\ Stored(p) # None
    BY <1>4, <2>2, NoneAssumption DEF stored
  <2>4. Accepts(c, stored)
    BY <1>10, <2>3 DEF Accepts
  <2>5. stored' = [stored EXCEPT ![p] = row]
    <3> HIDE DEF row
    <3> QED BY <1>8 DEF stored
  <2>6. ASSUME c.kind = "upsert" PROVE stored' = Apply(c, stored)
    <3>1. CatalogOf(t) = Merged(catalogs[p], c.incoming)
      BY <2>1, <2>6 DEF CatalogOf, Merged, Incoming, Named
    <3>2. flagged = profiles[p]
      BY <2>6
    <3>3. row = [Stored(p) EXCEPT !.objectives = Merged(@, c.incoming)]
      BY <2>2, <3>1, <3>2 DEF StoredProfile
    <3> QED BY <2>3, <2>5, <2>6, <3>3 DEF Apply
  <2>7. ASSUME c.kind = "archive" PROVE stored' = Apply(c, stored)
    <3>1. CatalogOf(t) = catalogs[p]
      <4>1. Named(c) = {}
        BY <2>7 DEF Named, Incoming, NoObjectives
      <4> QED BY <1>4, <2>1, <4>1 DEF CatalogOf, Catalog
    <3>2. flagged = Flag(c.archived) /\ c.archived \in BOOLEAN
      BY <1>4, <2>7, CallsTyped
    <3>3. (flagged = "archived") = c.archived
      BY <3>2 DEF Flag
    <3> HIDE DEF flagged
    <3>4. row = [Stored(p) EXCEPT !.archived = c.archived]
      BY <2>2, <3>1, <3>3 DEF StoredProfile
    <3> QED BY <2>3, <2>5, <2>7, <3>4 DEF Apply
  <2>8. stored' = Apply(c, stored)
    BY <1>10, <2>6, <2>7
  <2>9. Request(t) = [state |-> "asked", write |-> c]
        /\ Request(t)' = [state |-> "written", write |-> c]
    BY <1>2, <1>3, <1>7, <1>10 DEF Request
  <2>10. request' = [request EXCEPT ![t] = [state |-> "written", write |-> c]]
    BY <1>3, <1>7, <2>9, RequestOfOne
  <2>11. request[t] = [state |-> "asked", write |-> c]
    BY <2>9 DEF request
  <2>12. acked' = acked
    BY <1>1, <1>3, AckedStays DEF Done
  <2>13. Abstract!Accepts(c, stored) /\ stored' = Abstract!Apply(c, stored)
    BY <2>4, <2>8, SameOperations
  <2>14. PICK write \in Write : write = c
    BY <1>4
  <2>15. Abstract!Commit(t, write)
    BY <2>10, <2>11, <2>12, <2>13, <2>14
    DEF Abstract!Commit, Abstract!Asked, Abstract!Written, stored, request, acked, Done
  <2> QED BY <2>15
<1> QED BY <1>4, <1>9, <1>10

LEMMA StepRefined ==
  ASSUME IInv, [Next]_vars
  PROVE  [Abstract!Next \/ (\E t \in Proc : SavesAround(t))]_(Abstract!vars)
<1> DEFINE Goal == \/ Abstract!Next \/ \E t \in Proc : SavesAround(t)
                   \/ UNCHANGED <<stored, request, acked>>
<1>1. TypeOK
  BY DEF IInv, ReadsWhatWasThere
<1>2. ASSUME NEW t \in Proc, \E c \in Calls : Begin(t, c) PROVE Goal
  BY <1>2, BeginRefined DEF Abstract!Next
<1>3. ASSUME NEW t \in Proc, pc[t] \notin {"idle", "done"}, NEW why \in {"StorageError", "UnknownProfile"},
             Raises(t, why)
      PROVE  Goal
  <2>1. Abstract!GiveUp(t) \/ UNCHANGED <<stored, request, acked>>
    BY <1>3, RaisesRefined DEF Raises
  <2> QED BY <2>1 DEF Abstract!Next
<1>4. ASSUME NEW t \in Proc, NotMigrated(t) \/ DeadlockDetected(t) \/ Fails(t) PROVE Goal
  <2>1. Raises(t, "StorageError")
    BY <1>4 DEF NotMigrated, DeadlockDetected, Fails
  <2>2. pc[t] \notin {"idle", "done"}
    BY <1>4 DEF NotMigrated, Opening, DeadlockDetected, WaitsFor, Fails
  <2> HIDE DEF Goal
  <2> QED BY <1>3, <2>1, <2>2
<1>5. ASSUME NEW t \in Proc, NEW from, NEW to, Goto(t, from, to),
             UNCHANGED <<profiles, catalogs, call, outcome>>,
             \/ from \in {"row", "find", "update", "delete", "take", "insert"} /\ to \in {"delete", "take", "insert", "commit"}
             \/ from = "get_row" /\ to = "get_objectives"
      PROVE  Goal
  <2>1. pc[t] = from /\ pc'[t] = to /\ \A u \in Proc \ {t} : pc'[u] = pc[u]
    BY <1>1, <1>5 DEF Goto, TypeOK
  <2>2. Request(t)' = Request(t)
    BY <1>5, <2>1 DEF Request
  <2> QED BY <1>5, <2>1, <2>2, StutterRefined
<1>6. ASSUME NEW t \in Proc, SaveRow(t) \/ StartDelete(t) \/ Take(t) PROVE Goal
  <2>1. PICK from \in {"row", "delete", "take"}, to \in {"delete", "take", "insert"} : Goto(t, from, to)
    BY <1>6 DEF SaveRow, StartDelete, Take
  <2>2. UNCHANGED <<profiles, catalogs, call, outcome>>
    BY <1>6 DEF SaveRow, StartDelete, Take
  <2> HIDE DEF Goal
  <2> QED BY <1>5, <2>1, <2>2
<1>7. ASSUME NEW t \in Proc, Insert(t) PROVE Goal
  <2>1. CASE Raises(t, "StorageError")
    <3> HIDE DEF Goal
    <3> QED BY <1>3, <1>7, <2>1 DEF Insert
  <2>2. CASE UNCHANGED <<profiles, catalogs, pc, call, outcome>>
    <3>1. Request(t)' = Request(t)
      BY <2>2 DEF Request
    <3> QED BY <2>2, <3>1, StutterRefined
  <2> HIDE DEF Goal
  <2> QED BY <1>7, <2>1, <2>2 DEF Insert
<1>8. ASSUME NEW t \in Proc, Find(t) \/ UpdateArchived(t) \/ GetRow(t) PROVE Goal
  <2>1. CASE Raises(t, "UnknownProfile")
    <3> HIDE DEF Goal
    <3> QED BY <1>3, <1>8, <2>1 DEF Find, UpdateArchived, GetRow
  <2>2. CASE /\ Goto(t, "find", "insert") \/ Goto(t, "update", "commit") \/ Goto(t, "get_row", "get_objectives")
             /\ UNCHANGED <<profiles, catalogs, call, outcome>>
    <3> HIDE DEF Goal
    <3> QED BY <1>5, <2>2
  <2> HIDE DEF Goal
  <2> QED BY <1>8, <2>1, <2>2 DEF Find, UpdateArchived, GetRow
<1>9. ASSUME NEW t \in Proc, Commit(t) PROVE Goal
  BY <1>9, CommitRefined DEF Abstract!Next
<1>10. ASSUME NEW t \in Proc, Return(t) PROVE Goal
  <2>1. pc[t] = "written" /\ call[t].kind # "get" /\ Ends(t, "ok")
    BY <1>10 DEF Return, IInv, Calling, KindAt
  <2> QED BY <2>1, ReturnRefined DEF Abstract!Next
<1>11. ASSUME NEW t \in Proc, GetObjectives(t) PROVE Goal
  <2>1. pc[t] = "get_objectives" /\ Ends(t, "ok")
    BY <1>11 DEF GetObjectives
  <2>2. CASE call[t].kind = "get"
    <3>1. Abstract!GiveUp(t) \/ UNCHANGED <<stored, request, acked>>
      BY <2>1, <2>2, RaisesRefined
    <3> QED BY <3>1 DEF Abstract!Next
  <2>3. CASE call[t].kind # "get"
    <3> QED BY <2>1, <2>3, ReturnRefined DEF Abstract!Next
  <2> QED BY <2>2, <2>3
<1>12. ASSUME NEW r \in Runner, Upgrade(r) PROVE UNCHANGED <<stored, request, acked>>
  <2>1. stored' = stored
    BY <1>12, UpgradeChangesNothing DEF stored
  <2>2. UNCHANGED <<pc, call, outcome>>
    BY <1>12 DEF Upgrade
  <2> QED BY <2>1, <2>2 DEF request, Request, acked, Done
<1>13. ASSUME UNCHANGED storeVars PROVE UNCHANGED <<stored, request, acked>>
  BY <1>13, StoredStays DEF storeVars, request, Request, acked, Done
<1>14. Goal
  <2> HIDE DEF Goal
  <2>1. UNCHANGED <<stored, request, acked>> => Goal
    BY DEF Goal
  <2> QED
    BY <1>2, <1>4, <1>6, <1>7, <1>8, <1>9, <1>10, <1>11, <1>12, <1>13, <2>1
    DEF Next, Step, vars
<1> QED BY <1>14 DEF Abstract!vars, stored, request, acked, Done

(* Every step of the store is one of the contract's, or the commit of a     *)
(* save around which an upsert committed: writes happen at once or not at   *)
(* all, and the upgrades change nothing that a caller sees.                 *)
THEOREM StoreIsAtomicButForOverlaps == Spec => ImplementsAtomicStore
BY StepRefined, IInvAlways, PTL DEF Spec, ImplementsAtomicStore
=============================================================================
