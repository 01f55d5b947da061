----------------------------- MODULE LocalStores -----------------------------
(***************************************************************************)
(* What the programs on one machine share: the catalog of a profile and    *)
(* the attempts recorded in it.  A store call is one step, which JsonStore *)
(* and PostgresProfiles establish; programs run between each other's calls.*)
(***************************************************************************)
EXTENDS Naturals, FiniteSets

CONSTANTS
  Objective,    \* objective ids
  Date,         \* dates an attempt may have
  Now,          \* the date the queries are asked for (--as-of, or the clock)
  Command,      \* the commands that are run
  Process,      \* terminals, each of which runs one command after another
  Session,      \* the programs that record a session
  Inherited,    \* catalogs and attempts that earlier programs may have left
  MaxBegun,     \* bound on the commands that are run and the calls of record
  None

ASSUME DateAssumption ==
  Date \subseteq Nat /\ Now \in Nat /\ MaxBegun \in Nat

VARIABLES
  catalog,      \* the objectives of the profile, or None while there is none
  attempts,     \* its attempts
  begun         \* how many commands and calls of record there have been

storeVars == <<catalog, attempts, begun>>

Begin == begun < MaxBegun /\ begun' = begun + 1

(* A generated id (uuid4): of which session, or None, and a number. *)
AttemptId == (Session \cup {None}) \X Nat

Attempt == [attempt_id : AttemptId, objective_id : Objective, at : Date]

(* Ids are generated: no attempt of an earlier program has the id of one of *)
(* these sessions.                                                          *)
ASSUME InheritedAssumption ==
  /\ Inherited \subseteq [catalog : (SUBSET Objective) \cup {None}, attempts : SUBSET Attempt]
  /\ \A old \in Inherited :
       IsFiniteSet(old.attempts) /\ \A a \in old.attempts : a.attempt_id[1] = None

ASSUME NoneAssumption ==
  None \notin Session /\ \A objectives \in SUBSET Objective : objectives # None

StoreInit ==
  /\ \E old \in Inherited : catalog = old.catalog /\ attempts = old.attempts
  /\ begun = 0

(* Mutant: an upsert takes the profile for a new one. *)
UpsertAlone(o) ==
  /\ catalog' = {o}
  /\ UNCHANGED <<attempts, begun>>

UpsertObjective(o) ==
  /\ catalog' = catalog \cup {o}
  /\ UNCHANGED <<attempts, begun>>

(* save_profile of a profile without objectives *)
SaveEmpty ==
  /\ catalog' = {}
  /\ UNCHANGED <<attempts, begun>>

Append(attempt) ==
  /\ attempts' = attempts \cup {attempt}
  /\ UNCHANGED <<catalog, begun>>

(* get_objective raises for an objective or a profile that is not there. *)
Knows(o) == catalog # None /\ o \in catalog

(* list_all and list_for_objective(until = Now) *)
Until(rows) == {a \in rows : a.at <= Now}

Of(o, rows) == {a \in rows : a.objective_id = o}
=============================================================================
