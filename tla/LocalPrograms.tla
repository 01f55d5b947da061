---------------------------- MODULE LocalPrograms ----------------------------
(* Commands and sessions of several programs over the same stores, and what *)
(* they promise.                                                            *)
EXTENDS CommandLine, SessionRecorder

VARIABLES
  disturbed,    \* history: processes during whose command something was written
  overwritten   \* history: processes during whose command all objectives were lost

vars == <<storeVars, commandVars, sessionVars, disturbed, overwritten>>

Busy == {p \in Process : step[p] # "idle"}

Init ==
  /\ StoreInit
  /\ CommandInit
  /\ SessionInit
  /\ disturbed = {}
  /\ overwritten = {}

Written == catalog' # catalog \/ attempts' # attempts

Overwritten == catalog \notin {None, {}} /\ catalog' = {}

(* The history of the commands that run *)
Remember ==
  /\ disturbed' = Busy' \cap (IF Written THEN Busy ELSE disturbed)
  /\ overwritten' = Busy' \cap (IF Overwritten THEN Busy ELSE overwritten)

Next ==
  \/ CommandNext /\ UNCHANGED sessionVars /\ Remember
  \/ SessionNext /\ UNCHANGED commandVars /\ Remember

Spec == Init /\ [][Next]_vars

-----------------------------------------------------------------------------
Steps == {"idle", "look", "save", "upsert", "find", "append", "list", "states",
          "profile", "objectives", "listed", "each", "count"}

TypeOK ==
  /\ catalog \in (SUBSET Objective) \cup {None}
  /\ attempts \subseteq Attempt
  /\ overwritten \subseteq disturbed /\ disturbed \subseteq Busy
  /\ step \in [Process -> Steps]
  /\ command \in [Process -> Command \cup {None}]
  /\ begun \in 0..MaxBegun
  /\ seen \in [Process -> SUBSET Objective]
  /\ left \in [Process -> SUBSET Objective]
  /\ listed \in [Process -> SUBSET Attempt]
  /\ counted \in [Process -> Nat]
  /\ passed \in [Process -> BOOLEAN]
  /\ exit \in {"none", "ok", "check_failed", "error", "traceback"}
  /\ stage \in [Session -> {"in", "append", "out", "gone"}]
  /\ kept \in [Session -> SUBSET attempts]
  /\ appending \in [Session -> Attempt \cup {None}]
  /\ calls \in [Session -> 0..MaxBegun]
  /\ report \in [Session -> Report \cup {None}]
  /\ raised \in [Session -> SUBSET AttemptId]

(* There is something to study and no attempt has lost its objective. *)
Sound == catalog # {} /\ \A a \in attempts : a.objective_id \in catalog

(* SPEC 8 (failure 2) and I9: a check that says OK is right, although it    *)
(* makes its reads one after the other while others record and extend the   *)
(* catalog; only a save of the profile may make an OK out of date.  A check *)
(* that fails has found something, unless somebody wrote meanwhile.         *)
CheckIsRight ==
  [][\A p \in Process :
       step[p] = "count" /\ step'[p] = "idle" =>
         /\ (exit' = "ok" /\ p \notin overwritten) => Sound
         /\ (exit' = "check_failed" /\ p \notin disturbed) => ~Sound]_vars

(* run "never lets a traceback escape" (ui/cli.py:600), but for one way: a  *)
(* profile create that passed its look before the profile was there saves   *)
(* an empty one over it between the two reads of objectives.                *)
OnlyOverwritingEscapes ==
  [][\A p \in Process :
       step[p] # "idle" /\ step'[p] = "idle" /\ exit' = "traceback" =>
         p \in overwritten /\ command[p] = Objectives]_vars

(* SPEC 9.6: a report counts what the session stored, and only that, also   *)
(* after the block was left by an exception and after others have written;  *)
(* EMPTY means that nothing was.  What it leaves out is an attempt whose    *)
(* record raised after the store had it.                                    *)
ReportIsTrue ==
  /\ TypeOK
  /\ \A s \in Session :
       report[s] # None =>
         LET mine == {a \in attempts : a.attempt_id[1] = s /\ a.attempt_id \notin raised[s]}
         IN  /\ report[s].attempts_recorded = Cardinality(mine)
             /\ report[s].objectives_touched = {a.objective_id : a \in mine}
             /\ report[s].status = "EMPTY" <=> mine = {}
=============================================================================
