----------------------------- MODULE Migrations -----------------------------
(***************************************************************************)
(* migrations/runner.py: every run applies the numbered files that are not *)
(* recorded in schema_migrations, in order, each in a transaction with its *)
(* record.  Several runs may be under way (a deployment and its retry) and *)
(* each may fail at any statement.  The files are not idempotent: to       *)
(* create a table or a column that is there is an error.                   *)
(***************************************************************************)
EXTENDS Naturals

CONSTANTS
  Runner,      \* the processes that migrate
  Latest,      \* the number of the last file
  Release,     \* the versions the database may have when the runs begin
  MaxRuns      \* bound on the runs started

ASSUME MigrationAssumption ==
  Latest \in Nat /\ Release \subseteq 0..Latest /\ MaxRuns \in Nat

Version == 1..Latest

VARIABLES
  recorded,    \* the rows of schema_migrations
  there,       \* the files whose tables and columns exist
  step,        \* where each runner is
  done,        \* the versions a runner read as applied, or applied itself
  runs         \* how many runs have started

migrationVars == <<recorded, there, step, done, runs>>

Running == {"read", "next", "record"}

Ended == {"idle", "ok", "failed"}

(* A database that some earlier release left. *)
MigrationInit ==
  /\ \E n \in Release : recorded = 1..n
  /\ there = recorded
  /\ step = [r \in Runner |-> "idle"]
  /\ done = [r \in Runner |-> {}]
  /\ runs = 0

-----------------------------------------------------------------------------
Pending(r) == Version \ done[r]

(* The file the loop is at *)
Current(r) == CHOOSE v \in Pending(r) : \A w \in Pending(r) : v <= w

(* r has executed file v and not committed: its locks are held. *)
Holds(r, v) == step[r] = "record" /\ Pending(r) # {} /\ Current(r) = v

(* CREATE SCHEMA and CREATE TABLE IF NOT EXISTS, and a commit.  Two runs    *)
(* that create at the same instant are one of the reasons of Stops.         *)
Start(r) ==
  /\ step[r] \in Ended
  /\ runs < MaxRuns
  /\ runs' = runs + 1
  /\ step' = [step EXCEPT ![r] = "read"]
  /\ done' = [done EXCEPT ![r] = {}]
  /\ UNCHANGED <<recorded, there>>

(* SELECT version FROM schema_migrations *)
ReadDone(r) ==
  /\ step[r] = "read"
  /\ step' = [step EXCEPT ![r] = "next"]
  /\ done' = [done EXCEPT ![r] = recorded]
  /\ UNCHANGED <<recorded, there, runs>>

(* Mutant: a connection in autocommit. *)
ExecuteCommitting(r) ==
  /\ step[r] = "next"
  /\ Pending(r) # {}
  /\ \A q \in Runner : ~Holds(q, Current(r))
  /\ Current(r) \notin there
  /\ there' = there \cup {Current(r)}
  /\ step' = [step EXCEPT ![r] = "record"]
  /\ UNCHANGED <<recorded, done, runs>>

(* The statements of the file, which wait for another runner that has       *)
(* executed the same file; Stops when they find that it committed.          *)
Execute(r) ==
  /\ step[r] = "next"
  /\ Pending(r) # {}
  /\ \A q \in Runner : ~Holds(q, Current(r))
  /\ Current(r) \notin there
  /\ step' = [step EXCEPT ![r] = "record"]
  /\ UNCHANGED <<recorded, there, done, runs>>

(* INSERT INTO schema_migrations, and the commit of both *)
Record(r) ==
  /\ step[r] = "record"
  /\ Current(r) \notin recorded
  /\ recorded' = recorded \cup {Current(r)}
  /\ there' = there \cup {Current(r)}
  /\ done' = [done EXCEPT ![r] = @ \cup {Current(r)}]
  /\ step' = [step EXCEPT ![r] = "next"]
  /\ UNCHANGED runs

Finish(r) ==
  /\ step[r] = "next"
  /\ Pending(r) = {}
  /\ step' = [step EXCEPT ![r] = "ok"]
  /\ UNCHANGED <<recorded, there, done, runs>>

(* Mutant: the error is passed over and the loop goes on. *)
StopsNot(r) ==
  /\ step[r] \in {"next", "record"}
  /\ Pending(r) # {}
  /\ done' = [done EXCEPT ![r] = @ \cup {Current(r)}]
  /\ step' = [step EXCEPT ![r] = "next"]
  /\ UNCHANGED <<recorded, there, runs>>

(* psycopg.Error anywhere, or the end of the process: the transaction is    *)
(* rolled back, and the versions that were committed stay.                  *)
Stops(r) ==
  /\ step[r] \in Running
  /\ step' = [step EXCEPT ![r] = "failed"]
  /\ UNCHANGED <<recorded, there, done, runs>>

(* The errors a runner cannot avoid: the file, or its record, is there. *)
Collides(r) ==
  /\ Pending(r) # {}
  /\ \/ step[r] = "next" /\ Current(r) \in there
     \/ step[r] = "record" /\ Current(r) \in recorded
  /\ Stops(r)

Migrate(r) ==
  \/ ReadDone(r)
  \/ Execute(r)
  \/ Record(r)
  \/ Finish(r)
  \/ Collides(r)

MigrationNext == \E r \in Runner : Start(r) \/ Migrate(r) \/ Stops(r)

MigrationSpec == MigrationInit /\ [][MigrationNext]_migrationVars

-----------------------------------------------------------------------------
MigrationTypeOK ==
  /\ recorded \subseteq Version
  /\ there \subseteq Version
  /\ step \in [Runner -> Running \cup Ended]
  /\ done \in [Runner -> SUBSET Version]
  /\ runs \in 0..MaxRuns

(* What is recorded is what the database has, and it is a release: the      *)
(* first files, none skipped, however runs overlap, fail and are repeated.  *)
SchemaIsARelease ==
  recorded = there /\ \E n \in 0..Latest : there = 1..n

(* A run that reports success leaves the latest schema. *)
SuccessIsLatest ==
  \A r \in Runner : step[r] = "ok" => there = Version
=============================================================================
