----------------------------- MODULE CommandLine -----------------------------
(***************************************************************************)
(* ui/cli.py: commands over the stores, call by call, each a process that  *)
(* ends with an exit code; a terminal runs one after the other.  The       *)
(* commands are those that write and those that read the same thing twice: *)
(* objectives, and check, which is check_consistency of core/tracker.py.   *)
(* The other queries read once and print (Tracker has them).               *)
(*                                                                         *)
(* check compares counts and sums of hits.  Attempts are only added, so    *)
(* the sums agree where the counts do, and only the counts are kept here.  *)
(***************************************************************************)
EXTENDS LocalStores

VARIABLES
  step,      \* the next store call of each process, or idle
  command,   \* the command of each process, or None
  seen,      \* the catalog as it was first read
  left,      \* check: objectives whose attempts are still to be read
  listed,    \* check: the attempts as they were first read
  counted,   \* check: how many attempts have been counted since
  passed,    \* check: every comparison so far has passed
  exit       \* what the last run to end returned (EXIT_OK, ...), or "traceback"

commandVars == <<step, command, seen, left, listed, counted, passed, exit>>

ProfileCreate == [name |-> "profile create"]
ObjectiveAdd(o) == [name |-> "objective add", objective |-> o]
Record(o, at) == [name |-> "record", objective |-> o, at |-> at]
Objectives == [name |-> "objectives"]
Check == [name |-> "check"]

ASSUME CommandAssumption ==
  Command \subseteq {ProfileCreate, Objectives, Check}
                      \cup {ObjectiveAdd(o) : o \in Objective}
                      \cup {Record(o, at) : o \in Objective, at \in Date}

CommandInit ==
  /\ step = [p \in Process |-> "idle"]
  /\ command = [p \in Process |-> None]
  /\ seen = [p \in Process |-> {}]
  /\ left = [p \in Process |-> {}]
  /\ listed = [p \in Process |-> {}]
  /\ counted = [p \in Process |-> 0]
  /\ passed = [p \in Process |-> TRUE]
  /\ exit = "none"

-----------------------------------------------------------------------------
First(c) ==
  CASE c.name = "profile create" -> "look"
    [] c.name = "objective add"  -> "upsert"
    [] c.name = "record"         -> "find"
    [] c.name = "objectives"     -> "list"
    [] c.name = "check"          -> "profile"

Goto(p, from, to) == step[p] = from /\ step' = [step EXCEPT ![p] = to]

(* run returns: EXIT_OK, EXIT_CHECK_FAILED, or EXIT_ERROR for a             *)
(* TrackerError or a UsageError.                                            *)
Exits(p, from, code) ==
  /\ Goto(p, from, "idle")
  /\ exit' = code
  /\ command' = [command EXCEPT ![p] = None]
  /\ seen' = [seen EXCEPT ![p] = {}]
  /\ left' = [left EXCEPT ![p] = {}]
  /\ listed' = [listed EXCEPT ![p] = {}]
  /\ counted' = [counted EXCEPT ![p] = 0]
  /\ passed' = [passed EXCEPT ![p] = TRUE]

Start(p, c) ==
  /\ Goto(p, "idle", First(c))
  /\ Begin
  /\ command' = [command EXCEPT ![p] = c]
  /\ UNCHANGED <<catalog, attempts, seen, left, listed, counted, passed, exit>>

(* _cmd_profile: get_profile, and a save if it raised *)
LookProfile(p) ==
  \/ /\ catalog # None
     /\ Exits(p, "look", "error")
     /\ UNCHANGED storeVars
  \/ /\ catalog = None
     /\ Goto(p, "look", "save")
     /\ UNCHANGED <<storeVars, command, seen, left, listed, counted, passed, exit>>

SaveProfile(p) == Exits(p, "save", "ok") /\ SaveEmpty

(* _cmd_objective *)
AddObjective(p) ==
  \/ catalog # None /\ Exits(p, "upsert", "ok") /\ UpsertObjective(command[p].objective)
  \/ catalog = None /\ Exits(p, "upsert", "error") /\ UNCHANGED storeVars

(* _cmd_record: record_attempt *)
FindObjective(p) ==
  /\ step[p] = "find"
  /\ UNCHANGED storeVars
  /\ \/ ~Knows(command[p].objective) /\ Exits(p, "find", "error")
     \/ /\ Knows(command[p].objective)
        /\ Goto(p, "find", "append")
        /\ UNCHANGED <<command, seen, left, listed, counted, passed, exit>>

AppendAttempt(p) ==
  /\ Exits(p, "append", "ok")
  /\ Append([attempt_id   |-> <<None, Cardinality(attempts)>>,
             objective_id |-> command[p].objective,
             at           |-> command[p].at])

(* _cmd_objectives: the catalog, then the states of a catalog that is read  *)
(* again, looked up by the ids of the first.                                *)
ListObjectives(p) ==
  /\ UNCHANGED storeVars
  /\ \/ catalog = None /\ Exits(p, "list", "error")
     \/ /\ catalog # None
        /\ Goto(p, "list", "states")
        /\ seen' = [seen EXCEPT ![p] = catalog]
        /\ UNCHANGED <<command, left, listed, counted, passed, exit>>

GetAllStates(p) ==
  /\ step[p] = "states"
  /\ UNCHANGED storeVars
  /\ \/ seen[p] \subseteq catalog /\ Exits(p, "states", "ok")
     \/ ~(seen[p] \subseteq catalog) /\ Exits(p, "states", "traceback")

-----------------------------------------------------------------------------
(* check_consistency, read by read *)

ReadProfile(p) ==
  /\ UNCHANGED storeVars
  /\ \/ catalog = None /\ Exits(p, "profile", "error")
     \/ /\ catalog # None
        /\ Goto(p, "profile", "objectives")
        /\ seen' = [seen EXCEPT ![p] = catalog]
        /\ UNCHANGED <<command, left, listed, counted, passed, exit>>

(* Mutant: to have looked at nothing is fine. *)
NeverVacuous(p) == TRUE

(* "having found no errors because nothing was looked at is not being fine" *)
LooksAtSomething(p) == catalog # {}

ReadObjectives(p) ==
  /\ Goto(p, "objectives", "listed")
  /\ left' = [left EXCEPT ![p] = catalog]
  /\ passed' = [passed EXCEPT ![p] = LooksAtSomething(p)]
  /\ UNCHANGED <<storeVars, command, seen, listed, counted, exit>>

ReadListed(p) ==
  /\ Goto(p, "listed", "each")
  /\ listed' = [listed EXCEPT ![p] = Until(attempts)]
  /\ UNCHANGED <<storeVars, command, seen, left, counted, passed, exit>>

(* _state of one objective against what the first read has of it *)
ReadEach(p) ==
  \E o \in left[p] :
    LET mine == Of(o, Until(attempts))
    IN  /\ Goto(p, "each", "each")
        /\ left' = [left EXCEPT ![p] = @ \ {o}]
        /\ counted' = [counted EXCEPT ![p] = @ + Cardinality(mine)]
        /\ passed' = [passed EXCEPT ![p] = @ /\ Cardinality(mine) = Cardinality(Of(o, listed[p]))]
        /\ UNCHANGED <<storeVars, command, seen, listed, exit>>

(* The totals; then everything, without a cut, for the orphans. *)
ReadEverything(p) ==
  /\ left[p] = {}
  /\ Goto(p, "each", "count")
  /\ counted' = [counted EXCEPT ![p] = Cardinality(attempts)]
  /\ passed' = [passed EXCEPT ![p] = /\ @
                                     /\ counted[p] = Cardinality(listed[p])
                                     /\ \A a \in attempts : a.objective_id \in seen[p]]
  /\ UNCHANGED <<storeVars, command, seen, left, listed, exit>>

(* count(), and the report *)
Count(p) ==
  LET ok == passed[p] /\ Cardinality(attempts) = counted[p]
  IN  Exits(p, "count", IF ok THEN "ok" ELSE "check_failed") /\ UNCHANGED storeVars

(* StorageError from any call; a write that fails has not happened. *)
CommandFails(p) ==
  /\ step[p] # "idle"
  /\ Exits(p, step[p], "error")
  /\ UNCHANGED storeVars

CommandNext ==
  \E p \in Process :
    \/ \E c \in Command : Start(p, c)
    \/ LookProfile(p)
    \/ SaveProfile(p)
    \/ AddObjective(p)
    \/ FindObjective(p)
    \/ AppendAttempt(p)
    \/ ListObjectives(p)
    \/ GetAllStates(p)
    \/ ReadProfile(p)
    \/ ReadObjectives(p)
    \/ ReadListed(p)
    \/ ReadEach(p)
    \/ ReadEverything(p)
    \/ Count(p)
    \/ CommandFails(p)
=============================================================================
