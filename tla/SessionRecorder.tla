--------------------------- MODULE SessionRecorder ---------------------------
(***************************************************************************)
(* core/session.py: a program records attempts through a SessionRecorder,  *)
(* in a with block or by calling close itself, and gets a report.  Any     *)
(* call may raise; the program catches the exception and goes on, or       *)
(* leaves the block by it.  While it runs others use the stores.           *)
(***************************************************************************)
EXTENDS LocalStores

VARIABLES
  stage,      \* where each program is: "in" the block, inside record ("append"),
              \* "out" of the block, or "gone" when its process was killed
  kept,       \* _attempts: the attempts the recorder has counted
  appending,  \* the attempt that record is storing, or None
  calls,      \* how often record has been called
  report,     \* the report, or None while the session is open
  raised      \* history: the ids of the attempts whose record raised

sessionVars == <<stage, kept, appending, calls, report, raised>>

Report == [attempts_recorded : 0..MaxBegun, objectives_touched : SUBSET Objective,
           status : {"RECORDED", "EMPTY"}]

SessionInit ==
  /\ stage = [s \in Session |-> "in"]
  /\ kept = [s \in Session |-> {}]
  /\ appending = [s \in Session |-> None]
  /\ calls = [s \in Session |-> 0]
  /\ report = [s \in Session |-> None]
  /\ raised = [s \in Session |-> {}]

-----------------------------------------------------------------------------
(* record refuses when the session is closed, get_objective an objective    *)
(* that the profile does not have.                                          *)
Admits(s, o) == report[s] = None /\ Knows(o)

CallRecord(s, o, at) ==
  /\ stage[s] \in {"in", "out"}
  /\ Begin
  /\ calls' = [calls EXCEPT ![s] = @ + 1]
  /\ \/ /\ Admits(s, o)
        /\ stage' = [stage EXCEPT ![s] = "append"]
        /\ appending' = [appending EXCEPT ![s] =
             [attempt_id |-> <<s, calls'[s]>>, objective_id |-> o, at |-> at]]
     \/ ~Admits(s, o) /\ UNCHANGED <<stage, appending>>
  /\ UNCHANGED <<catalog, attempts, kept, report, raised>>

(* Mutant: the attempt is counted although its append raised. *)
AppendRaisesCounted(s) ==
  /\ stage[s] = "append"
  /\ stage' = [stage EXCEPT ![s] = "in"]
  /\ appending' = [appending EXCEPT ![s] = None]
  /\ raised' = [raised EXCEPT ![s] = @ \cup {appending[s].attempt_id}]
  /\ kept' = [kept EXCEPT ![s] = @ \cup {appending[s]}]
  /\ UNCHANGED <<storeVars, calls, report>>

(* StorageError: the store has not got the attempt, or has it all the same  *)
(* (PostgreSQL, when the connection breaks after the commit).               *)
AppendRaises(s) ==
  /\ stage[s] = "append"
  /\ UNCHANGED storeVars \/ Append(appending[s])
  /\ stage' = [stage EXCEPT ![s] = "in"]
  /\ appending' = [appending EXCEPT ![s] = None]
  /\ raised' = [raised EXCEPT ![s] = @ \cup {appending[s].attempt_id}]
  /\ UNCHANGED <<kept, calls, report>>

AppendReturns(s) ==
  /\ stage[s] = "append"
  /\ Append(appending[s])
  /\ stage' = [stage EXCEPT ![s] = "in"]
  /\ appending' = [appending EXCEPT ![s] = None]
  /\ kept' = [kept EXCEPT ![s] = @ \cup {appending[s]}]
  /\ UNCHANGED <<calls, report, raised>>

ReportOf(s) ==
  [attempts_recorded  |-> Cardinality(kept[s]),
   objectives_touched |-> {a.objective_id : a \in kept[s]},
   status             |-> IF kept[s] = {} THEN "EMPTY" ELSE "RECORDED"]

(* A report that was issued is issued again. *)
Closed(s) == IF report[s] = None THEN ReportOf(s) ELSE report[s]

Close(s) ==
  /\ stage[s] \in {"in", "out"}
  /\ report' = [report EXCEPT ![s] = Closed(s)]
  /\ UNCHANGED <<storeVars, stage, kept, appending, calls, raised>>

(* __exit__: the block ends, or an exception leaves it. *)
Exit(s) ==
  /\ stage[s] = "in"
  /\ stage' = [stage EXCEPT ![s] = "out"]
  /\ report' = [report EXCEPT ![s] = Closed(s)]
  /\ UNCHANGED <<storeVars, kept, appending, calls, raised>>

(* The process is killed: there is no report, and its attempts stay. *)
Killed(s) ==
  /\ stage[s] \in {"in", "append"}
  /\ stage' = [stage EXCEPT ![s] = "gone"]
  /\ appending' = [appending EXCEPT ![s] = None]
  /\ UNCHANGED <<storeVars, kept, calls, report, raised>>

SessionNext ==
  \E s \in Session :
    \/ \E o \in Objective, at \in Date : CallRecord(s, o, at)
    \/ AppendReturns(s)
    \/ AppendRaises(s)
    \/ Close(s)
    \/ Exit(s)
    \/ Killed(s)
=============================================================================
