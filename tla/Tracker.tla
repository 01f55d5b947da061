------------------------------- MODULE Tracker -------------------------------
(***************************************************************************)
(* core/tracker.py over the stores of core/storage.py.  Several callers    *)
(* (CLI processes, web threads) hold a LearningTracker on the same stores; *)
(* record_attempt makes three store calls (get_objective, exists, append)  *)
(* and other callers' calls fall between them.  Each store call is atomic: *)
(* that is what JsonStore establishes for the JSON backend.                *)
(*                                                                         *)
(* TrackerQueries adds the queries, which read the stores several times.   *)
(***************************************************************************)
EXTENDS Clock

CONSTANTS
  Caller,        \* the threads and processes that use the stores
  Profile,       \* profile ids
  Objective,     \* objective ids, integers so that they are ordered
  AttemptId,     \* attempt ids, integers for the same reason
  ExplicitId,    \* the ids that callers choose themselves
  SavedSet,      \* the sets of objectives that save_profile may write
  Answers,       \* the dates and results that record_attempt is called with
  Series,        \* the lists of results that record_series is called with
  MaxAttempts    \* bound on the attempts recorded

ASSUME IdAssumption ==
  Objective \subseteq Nat /\ AttemptId \subseteq Nat /\ ExplicitId \subseteq AttemptId

ASSUME ClockAssumption ==
  /\ SavedSet \subseteq SUBSET Objective /\ \A S \in SavedSet : IsFiniteSet(S)
  /\ Answers \subseteq [at : Time, correct : BOOLEAN]
  /\ Series \subseteq Seq(BOOLEAN) \ {<<>>} /\ MaxAttempts \in Nat

VARIABLES
  objectives,    \* the profile store: objectives of each profile, or None
  log,           \* the attempt store: every attempt appended, any profile
  call,          \* where each caller is inside record_attempt
  returned,      \* the attempts each caller got back from record_attempt
  registered     \* history: every objective a profile ever had

vars == <<objectives, log, now, call, returned, registered>>

Attempt == [attempt_id : AttemptId, profile_id : Profile, objective_id : Objective,
            at : Time, correct : BOOLEAN]

Item == [at : Time, correct : BOOLEAN]

Idle == [stage |-> "idle"]

Call == [stage : {"check"}, profile_id : Profile, objective_id : Objective,
         attempt_id : AttemptId \cup {None}, items : Seq(Item) \ {<<>>}]
        \cup [stage : {"append"}, attempt : Attempt, items : Seq(Item)]
        \cup [stage : {"next"}, profile_id : Profile, objective_id : Objective,
              items : Seq(Item) \ {<<>>}]
        \cup {Idle}

Init ==
  /\ objectives = [p \in Profile |-> None]
  /\ log = {}
  /\ now = 0
  /\ call = [c \in Caller |-> Idle]
  /\ returned = [c \in Caller |-> {}]
  /\ registered = [p \in Profile |-> {}]

-----------------------------------------------------------------------------
(* The profile store. *)

Knows(p, o) == objectives[p] # None /\ o \in objectives[p]

(* save_profile: the profile is replaced as a whole. *)
SaveProfile(p, saved) ==
  /\ objectives' = [objectives EXCEPT ![p] = saved]
  /\ registered' = [registered EXCEPT ![p] = @ \cup saved]
  /\ UNCHANGED <<log, now, call, returned>>

(* upsert_objectives: the ones not named stay.  The profile must exist. *)
UpsertObjectives(p, named) ==
  /\ objectives[p] # None
  /\ objectives' = [objectives EXCEPT ![p] = @ \cup named]
  /\ registered' = [registered EXCEPT ![p] = @ \cup named]
  /\ UNCHANGED <<log, now, call, returned>>

-----------------------------------------------------------------------------
(* record_attempt, and record_series, which calls it once per item. *)

UsedIds == {a.attempt_id : a \in log}
           \cup {call[c].attempt.attempt_id : c \in {d \in Caller : call[d].stage = "append"}}

(* Mutant: the objective is not looked up. *)
LookUpUnchecked(c, p, o, id, items) ==
  call' = [call EXCEPT ![c] = [stage |-> "check", profile_id |-> p, objective_id |-> o,
                               attempt_id |-> id, items |-> items]]

(* get_objective raises for an objective the profile does not have (C8). *)
LookUp(c, p, o, id, items) ==
  /\ Knows(p, o)
  /\ call' = [call EXCEPT ![c] = [stage |-> "check", profile_id |-> p, objective_id |-> o,
                                  attempt_id |-> id, items |-> items]]

RecordAttempt(c, p, o, id, item) ==
  /\ call[c] = Idle
  /\ Cardinality(log) < MaxAttempts
  /\ LookUp(c, p, o, id, <<item>>)
  /\ UNCHANGED <<objectives, log, now, returned, registered>>

RecordSeries(c, p, o, results, start, step) ==
  /\ call[c] = Idle
  /\ Cardinality(log) + Len(results) <= MaxAttempts
  /\ start + step * (Len(results) - 1) \in Time
  /\ LookUp(c, p, o, None, [i \in 1..Len(results) |->
                             [at |-> start + step * (i - 1), correct |-> results[i]]])
  /\ UNCHANGED <<objectives, log, now, returned, registered>>

(* The attempt that is built; no query reads its recorded_at. *)
Built(c, id) ==
  [attempt_id   |-> id,
   profile_id   |-> call[c].profile_id,
   objective_id |-> call[c].objective_id,
   at           |-> Head(call[c].items).at,
   correct      |-> Head(call[c].items).correct]

(* An explicit id that exists is refused (C9); uuid4 gives a fresh one. *)
CheckId(c) ==
  /\ call[c].stage = "check"
  /\ \/ /\ call[c].attempt_id \in {a.attempt_id : a \in log}
        /\ call' = [call EXCEPT ![c] = Idle]
     \/ /\ call[c].attempt_id \notin {a.attempt_id : a \in log}
        /\ \E id \in IF call[c].attempt_id = None THEN AttemptId \ UsedIds
                                                  ELSE {call[c].attempt_id} :
             call' = [call EXCEPT ![c] = [stage   |-> "append",
                                          attempt |-> Built(c, id),
                                          items   |-> Tail(call[c].items)]]
  /\ UNCHANGED <<objectives, log, now, returned, registered>>

(* Mutant: ids are unique in their profile only. *)
AcceptsPerProfile(attempt) ==
  \A a \in log : a.profile_id = attempt.profile_id => a.attempt_id # attempt.attempt_id

(* The store refuses an id it has, whatever the profile. *)
Accepts(attempt) == \A a \in log : a.attempt_id # attempt.attempt_id

(* append succeeds: the attempt is returned as persisted; a series has its *)
(* next item before it.                                                    *)
Append_(c) ==
  /\ call[c].stage = "append"
  /\ Accepts(call[c].attempt)
  /\ log' = log \cup {call[c].attempt}
  /\ returned' = [returned EXCEPT ![c] = @ \cup {call[c].attempt}]
  /\ call' = [call EXCEPT ![c] =
                 IF @.items = <<>> THEN Idle
                 ELSE [stage        |-> "next",
                       profile_id   |-> @.attempt.profile_id,
                       objective_id |-> @.attempt.objective_id,
                       items        |-> @.items]]
  /\ UNCHANGED <<objectives, now, registered>>

(* The next item of a series starts over with get_objective, which raises *)
(* if the objective is gone by then.                                       *)
NextItem(c) ==
  /\ call[c].stage = "next"
  /\ \/ LookUp(c, call[c].profile_id, call[c].objective_id, None, call[c].items)
     \/ /\ ~Knows(call[c].profile_id, call[c].objective_id)
        /\ call' = [call EXCEPT ![c] = Idle]
  /\ UNCHANGED <<objectives, log, now, returned, registered>>

(* append raises: DuplicateAttemptError, or a StorageError at any time.  A  *)
(* connection that breaks after the commit leaves the row behind.          *)
AppendRaises(c) ==
  /\ call[c].stage = "append"
  /\ \/ UNCHANGED log
     \/ Accepts(call[c].attempt) /\ log' = log \cup {call[c].attempt}
  /\ call' = [call EXCEPT ![c] = Idle]
  /\ UNCHANGED <<objectives, now, returned, registered>>

Tick(step) ==
  /\ Advanced(step)
  /\ UNCHANGED <<objectives, log, call, returned, registered>>

-----------------------------------------------------------------------------
Next ==
  \/ \E p \in Profile, os \in SavedSet : SaveProfile(p, os) \/ UpsertObjectives(p, os)
  \/ \E c \in Caller, p \in Profile, o \in Objective :
       \/ \E id \in ExplicitId \cup {None}, item \in Answers : RecordAttempt(c, p, o, id, item)
       \/ \E results \in Series, step \in Steps :
            RecordSeries(c, p, o, results, now, step)
  \/ \E c \in Caller : CheckId(c) \/ Append_(c) \/ AppendRaises(c) \/ NextItem(c)
  \/ \E step \in Steps : Tick(step)

Spec == Init /\ [][Next]_vars

-----------------------------------------------------------------------------
(* Mutant: the profile is left out of the query. *)
HistoryOfAnyProfile(p, o) == {a \in log : a.objective_id = o}

(* list_for_objective, without the cut that compute_state makes again. *)
History(p, o) == {a \in log : a.profile_id = p /\ a.objective_id = o}

(* get_state at any date, past or future. *)
GetState(p, o, as_of) == ComputeState(History(p, o), as_of)

Listed(p) == IF objectives[p] = None THEN {} ELSE objectives[p]

-----------------------------------------------------------------------------
(* What the engine promises of what is stored (SPEC.md sections 2 to 6). *)

TypeOK ==
  /\ objectives \in [Profile -> (SUBSET Objective) \cup {None}]
  /\ log \subseteq Attempt
  /\ now \in Time
  /\ call \in [Caller -> Call]
  /\ returned \in [Caller -> SUBSET Attempt]
  /\ registered \in [Profile -> SUBSET Objective]

(* C9 under races: callers that record the same attempt_id at once, in any  *)
(* profiles, store it once and one of them gets it back; and whatever       *)
(* record_attempt returned is in the store for good (I1, I8).               *)
EachIdOnce ==
  /\ \A a, b \in log : a.attempt_id = b.attempt_id => a = b
  /\ \A c \in Caller : returned[c] \subseteq log
  /\ \A c, d \in Caller : c # d => returned[c] \cap returned[d] = {}

(* C8: no attempt is stored for an objective its profile never had, though  *)
(* save_profile may drop the objective while record_attempt is under way.   *)
OrphansOnlyByRemoval ==
  \A a \in log : a.objective_id \in registered[a.profile_id]

(* SPEC 5.1 and I7: for every date, past or future, the state of an         *)
(* objective as of that date changes only when an attempt of that very      *)
(* profile and objective, dated on or before it, is recorded.               *)
PastIsNotRewritten ==
  [][log' # log => \A p \in Profile, o \in Objective, t \in Time :
       (\A a \in log' \ log : a.profile_id = p /\ a.objective_id = o => a.at > t)
         => GetState(p, o, t)' = GetState(p, o, t)]_vars
=============================================================================
