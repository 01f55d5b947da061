-------------------------- MODULE PostgresProfiles --------------------------
(***************************************************************************)
(* The profile store of store/postgres.py: each call is a transaction of   *)
(* PostgreSQL at READ COMMITTED, statement by statement with its locks,    *)
(* while runs of migrations/runner.py upgrade the database under it.       *)
(*                                                                         *)
(* A statement sees what was committed when it starts.  A row that was     *)
(* written is locked until its transaction ends.  A DELETE takes the rows  *)
(* it saw one after the other, waiting for the locked ones; rows that are  *)
(* inserted after it started are not for it.  The foreign key of           *)
(* objectives never blocks: it asks for a weaker lock of the profile row.  *)
(***************************************************************************)
EXTENDS StoreOperations, Migrations

CONSTANTS
  Inherited    \* what may have been stored before the runs begin

CreatesTables == 1     \* 0001_init.sql
AddsArchived == 3      \* 0003_archive.sql

ASSUME InheritedAssumption == Inherited \subseteq Profiles /\ Nothing \in Inherited

ASSUME FilesAssumption == Latest >= AddsArchived

(* The collection that is written is the profiles. *)
ASSUME ProfilesAssumption == Write \subseteq ProfileWrite /\ Nothing = [p \in ProfileId |-> None]

VARIABLES
  profiles,    \* committed rows of profiles: the archived column, or None
  catalogs,    \* committed rows of objectives, by profile
  pc,          \* the next statement of each caller
  call,        \* the call of each caller, or None
  targets,     \* rows the running DELETE of each transaction has still to take
  deleted,     \* objectives each transaction has deleted
  left,        \* objectives each transaction has still to insert
  result,      \* what each call has read for its answer
  outcome,     \* what each call returned or raised
  held         \* history: what the profile has been since each call began

storeVars == <<profiles, catalogs, pc, call, targets, deleted, left, result, outcome, held>>

vars == <<storeVars, migrationVars>>

GetProfile(p) == [kind |-> "get", profile_id |-> p]

Calls == Write \cup {GetProfile(p) : p \in ProfileId}

(* The archived column; a row of an older schema has none. *)
Column == {"studied", "archived", "no_column"}

ASSUME ColumnAssumption == None \notin Column

Flag(archived) == IF archived THEN "archived" ELSE "studied"

Stored(p) ==
  IF profiles[p] = None THEN None
  ELSE [objectives |-> catalogs[p], archived |-> profiles[p] = "archived"]

NoObjectives == [o \in Objective |-> None]

Init ==
  /\ MigrationInit
  /\ \E old \in Inherited :
       /\ CreatesTables \notin there => old = Nothing
       /\ profiles = [p \in ProfileId |->
            IF old[p] = None THEN None
            ELSE IF AddsArchived \in there THEN Flag(old[p].archived) ELSE "no_column"]
       /\ catalogs = [p \in ProfileId |-> IF old[p] = None THEN NoObjectives ELSE old[p].objectives]
  /\ pc = [t \in Proc |-> "idle"]
  /\ call = [t \in Proc |-> None]
  /\ targets = [t \in Proc |-> {}]
  /\ deleted = [t \in Proc |-> {}]
  /\ left = [t \in Proc |-> {}]
  /\ result = [t \in Proc |-> None]
  /\ outcome = [t \in Proc |-> "none"]
  /\ held = [t \in Proc |-> {}]

-----------------------------------------------------------------------------
(* The objectives a call inserts, and what it says of them. *)
Incoming(c) ==
  CASE c.kind = "save"   -> c.profile.objectives
    [] c.kind = "upsert" -> c.incoming
    [] OTHER             -> NoObjectives

Named(c) == {o \in Objective : Incoming(c)[o] # None}

First(c) ==
  CASE c.kind = "save" -> "row"
    [] c.kind = "upsert" -> "find"
    [] c.kind = "archive" -> "update"
    [] c.kind = "get" -> "get_row"

(* Nothing of t has been sent, or something has and t is in a transaction *)
(* that has used the table profiles.                                      *)
Opening == {"row", "find", "update", "get_row"}

Open == {"delete", "take", "insert", "commit", "get_objectives"}

Writing(t) == pc[t] \in {"delete", "take", "insert", "commit"}

(* ALTER TABLE profiles: its ACCESS EXCLUSIVE lock shuts everybody out. *)
Altering == \E r \in Runner : Holds(r, AddsArchived)

HoldersOfRow(t) ==
  {u \in Proc \ {t} : /\ Writing(u) /\ call[u].kind \in {"save", "archive"}
                      /\ call[u].profile_id = call[t].profile_id}

HoldersOf(t, o) ==
  {u \in Proc \ {t} : /\ Writing(u) /\ call[u].profile_id = call[t].profile_id
                      /\ \/ o \in deleted[u]
                         \/ pc[u] = "insert" /\ o \in Named(call[u]) \ left[u]}

(* The transactions t waits for, when it cannot go on. *)
WaitsFor(t) ==
  LET rows == IF pc[t] = "take" THEN targets[t] ELSE left[t]
  IN  CASE pc[t] = "row" -> HoldersOfRow(t)
        [] pc[t] = "update" /\ profiles[call[t].profile_id] # None -> HoldersOfRow(t)
        [] pc[t] \in {"take", "insert"} /\ \A o \in rows : HoldersOf(t, o) # {}
             -> UNION {HoldersOf(t, o) : o \in rows}
        [] OTHER -> {}

Goto(t, from, to) == pc[t] = from /\ pc' = [pc EXCEPT ![t] = to]

(* Mutant: the connection goes back to the pool in its transaction. *)
EndsOpen(t, why) ==
  /\ outcome' = [outcome EXCEPT ![t] = why]
  /\ UNCHANGED <<profiles, catalogs, pc, call, targets, deleted, left, held>>

(* The connection's context manager exits: a rollback, unless the commit    *)
(* has been made.                                                           *)
Ends(t, why) ==
  /\ pc' = [pc EXCEPT ![t] = "done"]
  /\ outcome' = [outcome EXCEPT ![t] = why]
  /\ targets' = [targets EXCEPT ![t] = {}]
  /\ deleted' = [deleted EXCEPT ![t] = {}]
  /\ left' = [left EXCEPT ![t] = {}]
  /\ UNCHANGED <<profiles, catalogs, call, held>>

Raises(t, why) == Ends(t, why) /\ result' = [result EXCEPT ![t] = None]

-----------------------------------------------------------------------------
Begin(t, c) ==
  /\ Goto(t, "idle", First(c))
  /\ call' = [call EXCEPT ![t] = c]
  /\ left' = [left EXCEPT ![t] = Named(c)]
  /\ held' = [held EXCEPT ![t] = {Stored(c.profile_id)}]
  /\ UNCHANGED <<profiles, catalogs, targets, deleted, result, outcome>>

(* A table or a column is not there yet.  SELECT 1 asks for no column. *)
NotMigrated(t) ==
  /\ pc[t] \in Opening
  /\ (IF pc[t] = "find" THEN CreatesTables ELSE AddsArchived) \notin there
  /\ Raises(t, "StorageError")

(* The first statement of a transaction can use the table. *)
CanOpen(t) ==
  /\ ~Altering
  /\ (IF pc[t] = "find" THEN CreatesTables ELSE AddsArchived) \in there

(* save_profile: INSERT INTO profiles ... ON CONFLICT DO UPDATE *)
SaveRow(t) ==
  /\ Goto(t, "row", "delete")
  /\ CanOpen(t)
  /\ HoldersOfRow(t) = {}
  /\ UNCHANGED <<profiles, catalogs, call, targets, deleted, left, result, outcome, held>>

(* Mutant: each statement is a transaction (autocommit). *)
StartDeleteCommitting(t) ==
  /\ Goto(t, "delete", "insert")
  /\ catalogs' = [catalogs EXCEPT ![call[t].profile_id] = NoObjectives]
  /\ UNCHANGED <<profiles, call, targets, deleted, left, result, outcome, held>>

(* DELETE FROM objectives WHERE profile_id = ...: its snapshot *)
StartDelete(t) ==
  LET seen == {o \in Objective : catalogs[call[t].profile_id][o] # None}
  IN  /\ Goto(t, "delete", IF seen = {} THEN "insert" ELSE "take")
      /\ targets' = [targets EXCEPT ![t] = seen]
      /\ UNCHANGED <<profiles, catalogs, call, deleted, left, result, outcome, held>>

(* One row of it, as its last writer committed it.  Nobody else can have    *)
(* deleted it: that takes the lock of the profile row.                      *)
Take(t) ==
  \E o \in targets[t] :
    /\ Goto(t, "take", IF targets[t] = {o} THEN "insert" ELSE "take")
    /\ HoldersOf(t, o) = {}
    /\ targets' = [targets EXCEPT ![t] = @ \ {o}]
    /\ deleted' = [deleted EXCEPT ![t] = @ \cup {o}]
    /\ UNCHANGED <<profiles, catalogs, call, left, result, outcome, held>>

(* INSERT INTO objectives.  A save has no ON CONFLICT: a row that came      *)
(* after its DELETE is a UniqueViolation.                                   *)
Insert(t) ==
  \E o \in left[t] :
    LET collides == /\ call[t].kind = "save" /\ o \notin deleted[t]
                    /\ catalogs[call[t].profile_id][o] # None
    IN  /\ pc[t] = "insert"
        /\ HoldersOf(t, o) = {}
        /\ \/ collides /\ Raises(t, "StorageError")
           \/ /\ ~collides
              /\ left' = [left EXCEPT ![t] = @ \ {o}]
              /\ UNCHANGED <<profiles, catalogs, pc, call, targets, deleted, result, outcome, held>>

(* upsert_objectives: SELECT 1 FROM profiles *)
Find(t) ==
  /\ pc[t] = "find"
  /\ CanOpen(t)
  /\ \/ profiles[call[t].profile_id] = None /\ Raises(t, "UnknownProfile")
     \/ /\ profiles[call[t].profile_id] # None
        /\ Goto(t, "find", "insert")
        /\ UNCHANGED <<profiles, catalogs, call, targets, deleted, left, result, outcome, held>>

(* set_archived: UPDATE profiles ... RETURNING.  A row that nobody has      *)
(* committed yet is not seen, and not waited for.                           *)
UpdateArchived(t) ==
  /\ pc[t] = "update"
  /\ CanOpen(t)
  /\ \/ profiles[call[t].profile_id] = None /\ Raises(t, "UnknownProfile")
     \/ /\ profiles[call[t].profile_id] # None
        /\ HoldersOfRow(t) = {}
        /\ Goto(t, "update", "commit")
        /\ UNCHANGED <<profiles, catalogs, call, targets, deleted, left, result, outcome, held>>

(* Mutant: an objective that is deleted and inserted again keeps its title. *)
CatalogOfFirst(t) ==
  [o \in Objective |-> IF o \in Named(call[t]) /\ catalogs[call[t].profile_id][o] = None
                         THEN Incoming(call[t])[o]
                         ELSE catalogs[call[t].profile_id][o]]

(* The objectives of the profile when t has committed *)
CatalogOf(t) ==
  [o \in Objective |-> IF o \in Named(call[t]) THEN Incoming(call[t])[o]
                       ELSE IF o \in deleted[t] THEN None
                       ELSE catalogs[call[t].profile_id][o]]

(* The with block ends: what was written is committed and unlocked.  What   *)
(* set_archived returns is read afterwards, in another transaction.         *)
Commit(t) ==
  LET p == call[t].profile_id
      flagged == CASE call[t].kind = "save"    -> Flag(call[t].profile.archived)
                   [] call[t].kind = "archive" -> Flag(call[t].archived)
                   [] OTHER                    -> profiles[p]
      stored == [objectives |-> CatalogOf(t), archived |-> flagged = "archived"]
  IN  /\ \/ left[t] = {} /\ Goto(t, "insert", "written")
         \/ Goto(t, "commit", "get_row")
      /\ profiles' = [profiles EXCEPT ![p] = flagged]
      /\ catalogs' = [catalogs EXCEPT ![p] = stored.objectives]
      /\ deleted' = [deleted EXCEPT ![t] = {}]
      /\ held' = [u \in Proc |-> IF pc[u] \notin {"idle", "done"} /\ call[u].profile_id = p
                                   THEN held[u] \cup {stored}
                                   ELSE held[u]]
      /\ UNCHANGED <<call, targets, left, result, outcome>>

Return(t) ==
  /\ pc[t] = "written"
  /\ Ends(t, "ok")
  /\ UNCHANGED result

(* get_profile: the row, and the objectives in a second statement *)
GetRow(t) ==
  LET p == call[t].profile_id
  IN  /\ pc[t] = "get_row"
      /\ CanOpen(t)
      /\ \/ profiles[p] = None /\ Raises(t, "UnknownProfile")
         \/ /\ profiles[p] # None
            /\ Goto(t, "get_row", "get_objectives")
            /\ result' = [result EXCEPT ![t] = [archived   |-> profiles[p] = "archived",
                                                objectives |-> NoObjectives]]
            /\ UNCHANGED <<profiles, catalogs, call, targets, deleted, left, outcome, held>>

GetObjectives(t) ==
  /\ pc[t] = "get_objectives"
  /\ result' = [result EXCEPT ![t].objectives = catalogs[call[t].profile_id]]
  /\ Ends(t, "ok")

(* No connection, psycopg.Error at any statement, or a connection that      *)
(* breaks after the commit and before it says so.                           *)
Fails(t) == pc[t] \notin {"idle", "done"} /\ Raises(t, "StorageError")

(* The server breaks a cycle of waiting transactions: one of them fails. *)
DeadlockDetected(t) ==
  /\ \E S \in SUBSET Proc :
       /\ t \in S
       /\ \A u \in S : (\E v \in S : v \in WaitsFor(u)) /\ (\E v \in S : u \in WaitsFor(v))
  /\ Raises(t, "StorageError")

Step(t) ==
  \/ NotMigrated(t)
  \/ SaveRow(t)
  \/ StartDelete(t)
  \/ Take(t)
  \/ Insert(t)
  \/ Find(t)
  \/ UpdateArchived(t)
  \/ Commit(t)
  \/ Return(t)
  \/ GetRow(t)
  \/ GetObjectives(t)
  \/ DeadlockDetected(t)

-----------------------------------------------------------------------------
(* 0003_archive.sql: a row that has no value in the new column gets the     *)
(* default.                                                                 *)
Altered == [p \in ProfileId |-> IF profiles[p] = "no_column" THEN "studied" ELSE profiles[p]]

(* A step of a runner.  ALTER TABLE waits for the open transactions.        *)
Upgrade(r) ==
  /\ Migrate(r)
  /\ (step'[r] = "record" /\ Current(r) = AddsArchived) => \A t \in Proc : pc[t] \notin Open
  /\ profiles' = IF AddsArchived \in there' \ there THEN Altered ELSE profiles
  /\ UNCHANGED <<catalogs, pc, call, targets, deleted, left, result, outcome, held>>

Next ==
  \/ \E t \in Proc :
       /\ Step(t) \/ Fails(t) \/ \E c \in Calls : Begin(t, c)
       /\ UNCHANGED migrationVars
  \/ \E r \in Runner : Upgrade(r)
  \/ \E r \in Runner : (Start(r) \/ Stops(r)) /\ UNCHANGED storeVars

Spec == Init /\ [][Next]_vars

(* While some transaction or run can go on, one does; the server detects    *)
(* deadlocks (deadlock_timeout).                                            *)
FairSpec ==
  Spec /\ WF_vars(\/ \E t \in Proc : Step(t) /\ UNCHANGED migrationVars
                  \/ \E r \in Runner : Upgrade(r))

-----------------------------------------------------------------------------
(* The store its callers see: the commit is the write. *)
Request(t) ==
  IF pc[t] \in {"idle", "done"} \/ call[t].kind = "get" THEN [state |-> "idle"]
  ELSE IF pc[t] \in {"written", "get_row", "get_objectives"}
         THEN [state |-> "written", write |-> call[t]]
         ELSE [state |-> "asked", write |-> call[t]]

Abstract ==
  INSTANCE AtomicStore
    WITH stored <- [p \in ProfileId |-> Stored(p)],
         request <- [t \in Proc |-> Request(t)],
         acked <- {call[t] : t \in {u \in Proc : outcome[u] = "ok" /\ call[u].kind # "get"}}
=============================================================================
