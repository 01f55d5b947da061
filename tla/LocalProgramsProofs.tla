------------------------- MODULE LocalProgramsProofs -------------------------
(***************************************************************************)
(* Proofs about LocalPrograms, for any catalog and any number of commands, *)
(* sessions and dates.  The argument for the sessions: the attempts with a *)
(* session's ids that it has not been told it lost are those it has kept,  *)
(* as nobody else makes its ids.  For the commands: what a process has     *)
(* read is still so while nobody writes, and what others write only adds,  *)
(* but for the save of an empty profile, which the history remembers.      *)
(***************************************************************************)
EXTENDS LocalPrograms, FiniteSetTheorems, TLAPS

-----------------------------------------------------------------------------
(* The attempts that bear an id of s. *)
IdsOf(s) == {a \in attempts : a.attempt_id[1] = s}

Mine(s) == {a \in attempts : a.attempt_id[1] = s /\ a.attempt_id \notin raised[s]}

(* The number of the last attempt that s has settled. *)
Settled(s) == IF stage[s] = "append" THEN calls[s] - 1 ELSE calls[s]

(* The ids of a session are numbered by its calls; the one it is storing is *)
(* new; it keeps what it stored and was not told it lost, and what it has   *)
(* reported is that.                                                        *)
SessionKeeps(s) ==
  /\ stage[s] = "append" =>
       /\ calls[s] >= 1
       /\ appending[s] \in Attempt /\ appending[s].attempt_id = <<s, calls[s]>>
  /\ \A a \in IdsOf(s) : a.attempt_id[2] <= Settled(s)
  /\ \A id \in raised[s] : id[1] = s /\ id[2] <= Settled(s)
  /\ kept[s] = Mine(s)
  /\ Cardinality(kept[s]) <= Settled(s)
  /\ calls[s] <= begun
  /\ report[s] # None => stage[s] # "append" /\ report[s] = ReportOf(s)

(* The command of each step, and what its steps rest on. *)
CommandKeeps(p) ==
  /\ step[p] # "idle" => command[p] \in Command
  /\ step[p] = "upsert" => \E o \in Objective : command[p] = ObjectiveAdd(o)
  /\ step[p] \in {"find", "append"} =>
       \E o \in Objective, at \in Date : command[p] = Record(o, at)
  /\ step[p] \in {"list", "states"} => command[p] = Objectives
  /\ step[p] \in {"states", "objectives", "listed", "each", "count"} => catalog # None
  /\ step[p] \notin {"each", "count"} => counted[p] = 0

(* What a process has read, unless the objectives were lost meanwhile: they *)
(* are still there; what has passed had something to look at, and counted   *)
(* attempts of objectives it had seen.                                      *)
ReadsStand(p) ==
  /\ step[p] \in {"states", "objectives", "listed", "each", "count"} =>
       p \in overwritten \/ seen[p] \subseteq catalog
  /\ step[p] \in {"listed", "each", "count"} /\ passed[p] =>
       p \in overwritten \/ catalog # {}
  /\ step[p] = "count" /\ passed[p] =>
       \E rows \in SUBSET attempts :
         counted[p] = Cardinality(rows) /\ \A a \in rows : a.objective_id \in seen[p]

(* The attempts of some objectives. *)
Among(rows, objectives) == {a \in rows : a.objective_id \in objectives}

(* What a check has found of stores that nobody writes meanwhile. *)
ReadsAgree(p) ==
  p \notin disturbed =>
    /\ step[p] \in {"objectives", "listed", "each", "count"} => seen[p] = catalog
    /\ step[p] \in {"listed", "each", "count"} /\ Sound => passed[p]
    /\ step[p] = "listed" => left[p] = catalog
    /\ step[p] = "each" =>
         /\ left[p] \subseteq catalog
         /\ listed[p] = Until(attempts)
         /\ counted[p] = Cardinality(Among(Until(attempts), catalog \ left[p]))
    /\ step[p] = "count" => counted[p] = Cardinality(attempts)

IInv ==
  /\ TypeOK
  /\ IsFiniteSet(attempts)
  /\ \A s \in Session : SessionKeeps(s)
  /\ \A p \in Process : CommandKeeps(p) /\ ReadsStand(p) /\ ReadsAgree(p)

-----------------------------------------------------------------------------
(* What a step does to the stores. *)
StoreMoves ==
  /\ catalog' \in (SUBSET Objective) \cup {None}
  /\ catalog # None => catalog' # None /\ (catalog' = {} \/ catalog \subseteq catalog')
  /\ attempts \subseteq attempts' /\ attempts' \subseteq Attempt /\ IsFiniteSet(attempts')
  /\ begun' \in Nat /\ begun <= begun' /\ begun' <= MaxBegun

SameProcess(p) ==
  /\ step'[p] = step[p] /\ command'[p] = command[p]
  /\ seen'[p] = seen[p] /\ left'[p] = left[p] /\ listed'[p] = listed[p]
  /\ counted'[p] = counted[p] /\ passed'[p] = passed[p]

SameSession(s) ==
  /\ stage'[s] = stage[s] /\ kept'[s] = kept[s] /\ appending'[s] = appending[s]
  /\ calls'[s] = calls[s] /\ report'[s] = report[s] /\ raised'[s] = raised[s]

(* A command that is running when the step is taken, and after it, is one   *)
(* of those the history is about.                                           *)
LEMMA HistoryOfBusy ==
  ASSUME Remember, NEW p \in Process, step[p] # "idle", step'[p] # "idle"
  PROVE  /\ p \in overwritten \/ Overwritten => p \in overwritten'
         /\ p \in disturbed \/ Written => p \in disturbed'
BY DEF Remember, Busy

CommandTypeOK ==
  /\ step \in [Process -> Steps]
  /\ command \in [Process -> Command \cup {None}]
  /\ seen \in [Process -> SUBSET Objective]
  /\ left \in [Process -> SUBSET Objective]
  /\ listed \in [Process -> SUBSET Attempt]
  /\ counted \in [Process -> Nat]
  /\ passed \in [Process -> BOOLEAN]
  /\ exit \in {"none", "ok", "check_failed", "error", "traceback"}

LEMMA ProcessStays ==
  ASSUME IInv, Remember, StoreMoves, NEW p \in Process, SameProcess(p)
  PROVE  CommandKeeps(p)' /\ ReadsStand(p)' /\ ReadsAgree(p)'
<1>1. /\ step'[p] = step[p] /\ command'[p] = command[p]
      /\ seen'[p] = seen[p] /\ left'[p] = left[p] /\ listed'[p] = listed[p]
      /\ counted'[p] = counted[p] /\ passed'[p] = passed[p]
  BY DEF SameProcess
<1>2. CommandKeeps(p) /\ ReadsStand(p) /\ ReadsAgree(p) /\ TypeOK
  BY DEF IInv
<1>3. catalog # None => catalog' # None /\ (catalog' = {} \/ catalog \subseteq catalog')
  BY DEF StoreMoves
<1>4. CommandKeeps(p)'
  BY <1>1, <1>2, <1>3 DEF CommandKeeps
<1>5. step[p] # "idle" => /\ p \in overwritten \/ Overwritten => p \in overwritten'
                          /\ p \in disturbed \/ Written => p \in disturbed'
  BY <1>1, HistoryOfBusy
<1>6. ASSUME step[p] \in {"states", "objectives", "listed", "each", "count"}
      PROVE  catalog # None /\ (p \in overwritten' \/ catalog = {} \/ (catalog \subseteq catalog' /\ catalog' # {}))
  <2>1. catalog # None
    BY <1>2, <1>6 DEF CommandKeeps
  <2> QED BY <1>3, <1>5, <1>6, <2>1 DEF Overwritten
<1>7. ReadsStand(p)'
  <2>1. ASSUME step[p] \in {"states", "objectives", "listed", "each", "count"}
        PROVE  p \in overwritten' \/ seen[p] \subseteq catalog'
    BY <1>2, <1>5, <1>6, <2>1 DEF ReadsStand
  <2>2. ASSUME step[p] \in {"listed", "each", "count"}, passed[p]
        PROVE  p \in overwritten' \/ catalog' # {}
    BY <1>2, <1>5, <1>6, <2>2 DEF ReadsStand
  <2>3. ASSUME step[p] = "count", passed[p]
        PROVE  \E rows \in SUBSET attempts' :
                 counted[p] = Cardinality(rows) /\ \A a \in rows : a.objective_id \in seen[p]
    BY <1>2, <2>3 DEF ReadsStand, StoreMoves
  <2> QED BY <1>1, <2>1, <2>2, <2>3 DEF ReadsStand
<1>8. ReadsAgree(p)'
  <2>1. CASE step[p] = "idle"
    BY <1>1, <2>1 DEF ReadsAgree
  <2>2. CASE step[p] # "idle" /\ p \notin disturbed'
    <3>1. p \notin disturbed /\ catalog' = catalog /\ attempts' = attempts
      BY <1>5, <2>2 DEF Written
    <3> QED BY <1>1, <1>2, <3>1 DEF ReadsAgree, Sound, Until
  <2>3. CASE p \in disturbed'
    BY <2>3 DEF ReadsAgree
  <2> QED BY <2>1, <2>2, <2>3
<1> QED BY <1>4, <1>7, <1>8

LEMMA SessionStays ==
  ASSUME IInv, StoreMoves, NEW s \in Session, SameSession(s),
         \A a \in attempts' \ attempts : a.attempt_id[1] # s
  PROVE  SessionKeeps(s)'
<1>1. /\ stage'[s] = stage[s] /\ kept'[s] = kept[s] /\ appending'[s] = appending[s]
      /\ calls'[s] = calls[s] /\ report'[s] = report[s] /\ raised'[s] = raised[s]
  BY DEF SameSession
<1>2. SessionKeeps(s) /\ TypeOK
  BY DEF IInv
<1>3. IdsOf(s)' = IdsOf(s) /\ Mine(s)' = Mine(s)
  BY <1>1 DEF IdsOf, Mine, StoreMoves
<1>4. Settled(s)' = Settled(s) /\ ReportOf(s)' = ReportOf(s)
  BY <1>1 DEF Settled, ReportOf
<1>5. calls[s] <= begun'
  BY <1>2 DEF SessionKeeps, StoreMoves, TypeOK
<1> QED BY <1>1, <1>2, <1>3, <1>4, <1>5 DEF SessionKeeps

-----------------------------------------------------------------------------
(* What a step of a command owes. *)
LEMMA CommandStepKeeps ==
  ASSUME IInv, Remember, StoreMoves, UNCHANGED sessionVars, CommandTypeOK',
         NEW p \in Process, \A q \in Process \ {p} : SameProcess(q),
         \A a \in attempts' \ attempts : a.attempt_id[1] = None,
         CommandKeeps(p)', ReadsStand(p)', ReadsAgree(p)'
  PROVE  IInv'
<1>1. TypeOK /\ UNCHANGED <<stage, kept, appending, calls, report, raised>>
  BY DEF IInv, sessionVars
<1>2. \A s \in Session : SameSession(s)
  BY <1>1 DEF SameSession
<1>3. ASSUME NEW s \in Session PROVE SessionKeeps(s)'
  <2>1. \A a \in attempts' \ attempts : a.attempt_id[1] # s
    BY NoneAssumption
  <2> QED BY <1>2, <2>1, SessionStays
<1>4. ASSUME NEW q \in Process PROVE CommandKeeps(q)' /\ ReadsStand(q)' /\ ReadsAgree(q)'
  <2>1. CASE q = p
    BY <2>1
  <2>2. CASE q # p
    BY <2>2, ProcessStays
  <2> QED BY <2>1, <2>2
<1>5. TypeOK'
  <2>1. overwritten' \subseteq disturbed' /\ disturbed' \subseteq Busy'
    BY <1>1 DEF Remember, Written, Overwritten, TypeOK
  <2>2. kept' \in [Session -> SUBSET attempts']
    BY <1>1 DEF TypeOK, StoreMoves
  <2>3. begun' \in 0..MaxBegun
    BY DateAssumption DEF StoreMoves
  <2>4. catalog' \in (SUBSET Objective) \cup {None} /\ attempts' \subseteq Attempt
    BY DEF StoreMoves
  <2> QED BY <1>1, <2>1, <2>2, <2>3, <2>4 DEF TypeOK, CommandTypeOK
<1>6. IsFiniteSet(attempts')
  BY DEF StoreMoves
<1> QED BY <1>3, <1>4, <1>5, <1>6 DEF IInv

LEMMA StoresStay == ASSUME IInv, UNCHANGED storeVars PROVE StoreMoves
BY DateAssumption DEF IInv, TypeOK, StoreMoves, storeVars

(* A process that ends starts afresh. *)
LEMMA ExitsKeeps ==
  ASSUME IInv, Remember, StoreMoves, UNCHANGED sessionVars,
         \A a \in attempts' \ attempts : a.attempt_id[1] = None,
         NEW p \in Process, NEW from, NEW code \in {"ok", "check_failed", "error", "traceback"},
         Exits(p, from, code)
  PROVE  IInv'
<1>1. TypeOK
  BY DEF IInv
<1>2. /\ step' = [step EXCEPT ![p] = "idle"] /\ exit' = code
      /\ command' = [command EXCEPT ![p] = None] /\ seen' = [seen EXCEPT ![p] = {}]
      /\ left' = [left EXCEPT ![p] = {}] /\ listed' = [listed EXCEPT ![p] = {}]
      /\ counted' = [counted EXCEPT ![p] = 0] /\ passed' = [passed EXCEPT ![p] = TRUE]
  BY DEF Exits, Goto
<1>3. CommandTypeOK'
  BY <1>1, <1>2 DEF TypeOK, CommandTypeOK, Steps
<1>4. \A q \in Process \ {p} : SameProcess(q)
  BY <1>1, <1>2 DEF TypeOK, SameProcess
<1>5. step'[p] = "idle" /\ counted'[p] = 0
  BY <1>1, <1>2 DEF TypeOK
<1>6. CommandKeeps(p)' /\ ReadsStand(p)' /\ ReadsAgree(p)'
  BY <1>5 DEF CommandKeeps, ReadsStand, ReadsAgree
<1> QED BY <1>3, <1>4, <1>6, CommandStepKeeps

LEMMA StartKeeps ==
  ASSUME IInv, Remember, UNCHANGED sessionVars, NEW p \in Process, NEW c \in Command, Start(p, c)
  PROVE  IInv'
<1>1. TypeOK /\ CommandKeeps(p)
  BY DEF IInv
<1>2. /\ step[p] = "idle" /\ step' = [step EXCEPT ![p] = First(c)]
      /\ command' = [command EXCEPT ![p] = c]
      /\ begun < MaxBegun /\ begun' = begun + 1
      /\ UNCHANGED <<catalog, attempts, seen, left, listed, counted, passed, exit>>
  BY DEF Start, Goto, Begin
<1>3. \/ c = ProfileCreate /\ First(c) = "look"
      \/ c = Objectives /\ First(c) = "list"
      \/ c = Check /\ First(c) = "profile"
      \/ (\E o \in Objective : c = ObjectiveAdd(o)) /\ First(c) = "upsert"
      \/ (\E o \in Objective, at \in Date : c = Record(o, at)) /\ First(c) = "find"
  <2>1. \/ c = ProfileCreate \/ c = Objectives \/ c = Check
        \/ \E o \in Objective : c = ObjectiveAdd(o)
        \/ \E o \in Objective, at \in Date : c = Record(o, at)
    BY CommandAssumption
  <2>2. /\ First(ProfileCreate) = "look" /\ First(Objectives) = "list" /\ First(Check) = "profile"
        /\ \A o \in Objective : First(ObjectiveAdd(o)) = "upsert"
        /\ \A o \in Objective, at \in Date : First(Record(o, at)) = "find"
    BY DEF First, ProfileCreate, Objectives, Check, ObjectiveAdd, Record
  <2> QED BY <2>1, <2>2
<1>4. First(c) \in {"look", "list", "profile", "upsert", "find"}
  BY <1>3
<1>5. StoreMoves
  BY <1>1, <1>2, DateAssumption DEF IInv, TypeOK, StoreMoves
<1>6. CommandTypeOK'
  BY <1>1, <1>2, <1>4 DEF TypeOK, CommandTypeOK, Steps
<1>7. \A q \in Process \ {p} : SameProcess(q)
  BY <1>1, <1>2 DEF TypeOK, SameProcess
<1>8. step'[p] = First(c) /\ command'[p] = c /\ counted'[p] = 0
  BY <1>1, <1>2 DEF TypeOK, CommandKeeps
<1>9. CommandKeeps(p)'
  BY <1>3, <1>8 DEF CommandKeeps
<1>10. ReadsStand(p)' /\ ReadsAgree(p)'
  BY <1>4, <1>8 DEF ReadsStand, ReadsAgree
<1> QED BY <1>2, <1>5, <1>6, <1>7, <1>9, <1>10, CommandStepKeeps

LEMMA LookProfileKeeps ==
  ASSUME IInv, Remember, UNCHANGED sessionVars, NEW p \in Process, LookProfile(p)
  PROVE  IInv'
<1>1. TypeOK /\ CommandKeeps(p)
  BY DEF IInv
<1>2. UNCHANGED storeVars
  BY DEF LookProfile
<1>3. StoreMoves /\ attempts' = attempts
  BY <1>2, StoresStay DEF storeVars
<1>4. CASE Exits(p, "look", "error")
  BY <1>3, <1>4, ExitsKeeps
<1>5. CASE /\ Goto(p, "look", "save")
           /\ UNCHANGED <<storeVars, command, seen, left, listed, counted, passed, exit>>
  <2>1. CommandTypeOK'
    BY <1>1, <1>5 DEF Goto, TypeOK, CommandTypeOK, Steps
  <2>2. /\ \A q \in Process \ {p} : SameProcess(q)
        /\ step[p] = "look" /\ step'[p] = "save" /\ command'[p] = command[p] /\ counted'[p] = counted[p]
    BY <1>1, <1>5 DEF Goto, TypeOK, SameProcess
  <2>3. CommandKeeps(p)' /\ ReadsStand(p)' /\ ReadsAgree(p)'
    BY <1>1, <2>2 DEF CommandKeeps, ReadsStand, ReadsAgree
  <2> QED BY <1>3, <2>1, <2>2, <2>3, CommandStepKeeps
<1> QED BY <1>4, <1>5 DEF LookProfile

LEMMA SaveProfileKeeps ==
  ASSUME IInv, Remember, UNCHANGED sessionVars, NEW p \in Process, SaveProfile(p)
  PROVE  IInv'
<1>1. /\ Exits(p, "save", "ok") /\ catalog' = {} /\ UNCHANGED <<attempts, begun>>
  BY DEF SaveProfile, SaveEmpty
<1>2. catalog' # None
  BY <1>1, NoneAssumption
<1>3. StoreMoves
  BY <1>1, <1>2, DateAssumption DEF IInv, TypeOK, StoreMoves
<1> QED BY <1>1, <1>3, ExitsKeeps

LEMMA AddObjectiveKeeps ==
  ASSUME IInv, Remember, UNCHANGED sessionVars, NEW p \in Process, AddObjective(p)
  PROVE  IInv'
<1>1. TypeOK /\ CommandKeeps(p)
  BY DEF IInv
<1>2. CASE /\ catalog # None /\ Exits(p, "upsert", "ok")
           /\ UpsertObjective(command[p].objective)
  <2>1. step[p] = "upsert" /\ catalog' = catalog \cup {command[p].objective} /\ UNCHANGED <<attempts, begun>>
    BY <1>2 DEF Exits, Goto, UpsertObjective
  <2>2. command[p].objective \in Objective
    <3>1. PICK o \in Objective : command[p] = ObjectiveAdd(o)
      BY <1>1, <2>1 DEF CommandKeeps
    <3>2. ObjectiveAdd(o).objective = o
      BY DEF ObjectiveAdd
    <3> QED BY <3>1, <3>2
  <2>3. catalog' \in SUBSET Objective /\ catalog' # None
    <3>1. catalog \in SUBSET Objective
      BY <1>1, <1>2 DEF TypeOK
    <3>2. catalog' \in SUBSET Objective
      BY <2>1, <2>2, <3>1
    <3> QED BY <3>2, NoneAssumption
  <2>4. StoreMoves
    BY <1>1, <2>1, <2>3, DateAssumption DEF IInv, TypeOK, StoreMoves
  <2> QED BY <1>2, <2>1, <2>4, ExitsKeeps
<1>3. CASE Exits(p, "upsert", "error") /\ UNCHANGED storeVars
  <2>1. StoreMoves /\ attempts' = attempts
    BY <1>3, StoresStay DEF storeVars
  <2> QED BY <1>3, <2>1, ExitsKeeps
<1> QED BY <1>2, <1>3 DEF AddObjective

LEMMA FindObjectiveKeeps ==
  ASSUME IInv, Remember, UNCHANGED sessionVars, NEW p \in Process, FindObjective(p)
  PROVE  IInv'
<1>1. TypeOK /\ CommandKeeps(p)
  BY DEF IInv
<1>2. UNCHANGED storeVars
  BY DEF FindObjective
<1>3. StoreMoves /\ attempts' = attempts
  BY <1>2, StoresStay DEF storeVars
<1>4. CASE Exits(p, "find", "error")
  BY <1>3, <1>4, ExitsKeeps
<1>5. CASE /\ Goto(p, "find", "append")
           /\ UNCHANGED <<command, seen, left, listed, counted, passed, exit>>
  <2>1. CommandTypeOK'
    BY <1>1, <1>5 DEF Goto, TypeOK, CommandTypeOK, Steps
  <2>2. /\ \A q \in Process \ {p} : SameProcess(q)
        /\ step[p] = "find" /\ step'[p] = "append" /\ command'[p] = command[p] /\ counted'[p] = counted[p]
    BY <1>1, <1>5 DEF Goto, TypeOK, SameProcess
  <2>3. CommandKeeps(p)' /\ ReadsStand(p)' /\ ReadsAgree(p)'
    BY <1>1, <2>2 DEF CommandKeeps, ReadsStand, ReadsAgree
  <2> QED BY <1>3, <2>1, <2>2, <2>3, CommandStepKeeps
<1> QED BY <1>4, <1>5 DEF FindObjective

LEMMA AppendAttemptKeeps ==
  ASSUME IInv, Remember, UNCHANGED sessionVars, NEW p \in Process, AppendAttempt(p)
  PROVE  IInv'
<1> DEFINE a == [attempt_id   |-> <<None, Cardinality(attempts)>>,
                 objective_id |-> command[p].objective,
                 at           |-> command[p].at]
<1>1. TypeOK /\ CommandKeeps(p) /\ IsFiniteSet(attempts)
  BY DEF IInv
<1>2. step[p] = "append" /\ attempts' = attempts \cup {a} /\ UNCHANGED <<catalog, begun>>
      /\ Exits(p, "append", "ok")
  BY DEF AppendAttempt, Append, Exits, Goto
<1>3. command[p].objective \in Objective /\ command[p].at \in Date
  <2>1. PICK o \in Objective, at \in Date : command[p] = Record(o, at)
    BY <1>1, <1>2 DEF CommandKeeps
  <2> QED BY <2>1 DEF Record
<1>4. Cardinality(attempts) \in Nat
  BY <1>1, FS_CardinalityType
<1>5. a \in Attempt /\ a.attempt_id[1] = None
  BY <1>3, <1>4 DEF Attempt, AttemptId
<1> HIDE DEF a
<1>6. IsFiniteSet(attempts')
  BY <1>1, <1>2, FS_AddElement
<1>7. StoreMoves
  BY <1>1, <1>2, <1>5, <1>6, DateAssumption DEF TypeOK, StoreMoves
<1> QED BY <1>2, <1>5, <1>7, ExitsKeeps

(* A read that goes on. *)
LEMMA ReadKeeps ==
  ASSUME IInv, Remember, UNCHANGED sessionVars, UNCHANGED storeVars, CommandTypeOK',
         NEW p \in Process, \A q \in Process \ {p} : SameProcess(q),
         CommandKeeps(p)', ReadsStand(p)', ReadsAgree(p)'
  PROVE  IInv'
<1>1. StoreMoves /\ attempts' = attempts
  BY StoresStay DEF storeVars
<1> QED BY <1>1, CommandStepKeeps

LEMMA ListObjectivesKeeps ==
  ASSUME IInv, Remember, UNCHANGED sessionVars, NEW p \in Process, ListObjectives(p)
  PROVE  IInv'
<1>1. TypeOK /\ CommandKeeps(p)
  BY DEF IInv
<1>2. UNCHANGED storeVars
  BY DEF ListObjectives
<1>3. CASE Exits(p, "list", "error")
  <2>1. StoreMoves /\ attempts' = attempts
    BY <1>2, StoresStay DEF storeVars
  <2> QED BY <1>3, <2>1, ExitsKeeps
<1>4. CASE /\ catalog # None
           /\ Goto(p, "list", "states")
           /\ seen' = [seen EXCEPT ![p] = catalog]
           /\ UNCHANGED <<command, left, listed, counted, passed, exit>>
  <2>1. CommandTypeOK'
    BY <1>1, <1>4 DEF Goto, TypeOK, CommandTypeOK, Steps
  <2>2. /\ \A q \in Process \ {p} : SameProcess(q)
        /\ step[p] = "list" /\ step'[p] = "states" /\ command'[p] = command[p] /\ counted'[p] = counted[p]
        /\ seen'[p] = catalog
    BY <1>1, <1>4 DEF Goto, TypeOK, SameProcess
  <2>3. catalog' = catalog
    BY <1>2 DEF storeVars
  <2>4. CommandKeeps(p)' /\ ReadsStand(p)' /\ ReadsAgree(p)'
    BY <1>1, <1>4, <2>2, <2>3 DEF CommandKeeps, ReadsStand, ReadsAgree
  <2> QED BY <1>2, <2>1, <2>2, <2>4, ReadKeeps
<1> QED BY <1>3, <1>4 DEF ListObjectives

LEMMA GetAllStatesKeeps ==
  ASSUME IInv, Remember, UNCHANGED sessionVars, NEW p \in Process, GetAllStates(p)
  PROVE  IInv'
<1>1. StoreMoves /\ attempts' = attempts
  BY StoresStay DEF GetAllStates, storeVars
<1> QED BY <1>1, ExitsKeeps DEF GetAllStates

LEMMA ReadProfileKeeps ==
  ASSUME IInv, Remember, UNCHANGED sessionVars, NEW p \in Process, ReadProfile(p)
  PROVE  IInv'
<1>1. TypeOK /\ CommandKeeps(p)
  BY DEF IInv
<1>2. UNCHANGED storeVars
  BY DEF ReadProfile
<1>3. CASE Exits(p, "profile", "error")
  <2>1. StoreMoves /\ attempts' = attempts
    BY <1>2, StoresStay DEF storeVars
  <2> QED BY <1>3, <2>1, ExitsKeeps
<1>4. CASE /\ catalog # None
           /\ Goto(p, "profile", "objectives")
           /\ seen' = [seen EXCEPT ![p] = catalog]
           /\ UNCHANGED <<command, left, listed, counted, passed, exit>>
  <2>1. CommandTypeOK'
    BY <1>1, <1>4 DEF Goto, TypeOK, CommandTypeOK, Steps
  <2>2. /\ \A q \in Process \ {p} : SameProcess(q)
        /\ step[p] = "profile" /\ step'[p] = "objectives" /\ command'[p] = command[p]
        /\ counted'[p] = counted[p] /\ seen'[p] = catalog
    BY <1>1, <1>4 DEF Goto, TypeOK, SameProcess
  <2>3. catalog' = catalog
    BY <1>2 DEF storeVars
  <2>4. CommandKeeps(p)' /\ ReadsStand(p)' /\ ReadsAgree(p)'
    BY <1>1, <1>4, <2>2, <2>3 DEF CommandKeeps, ReadsStand, ReadsAgree
  <2> QED BY <1>2, <2>1, <2>2, <2>4, ReadKeeps
<1> QED BY <1>3, <1>4 DEF ReadProfile

(* Where the processes that are in a command stay: the history only grows.  *)
LEMMA HistoryStays ==
  ASSUME IInv, Remember, UNCHANGED storeVars, NEW p \in Process, step[p] # "idle", step'[p] # "idle"
  PROVE  /\ p \in overwritten => p \in overwritten'
         /\ p \notin disturbed' => p \notin disturbed
         /\ catalog' = catalog /\ attempts' = attempts
         /\ Sound' = Sound /\ Until(attempts)' = Until(attempts)
BY HistoryOfBusy DEF storeVars, Sound, Until

LEMMA ReadObjectivesKeeps ==
  ASSUME IInv, Remember, UNCHANGED sessionVars, NEW p \in Process, ReadObjectives(p)
  PROVE  IInv'
<1>1. TypeOK /\ CommandKeeps(p) /\ ReadsStand(p) /\ ReadsAgree(p)
  BY DEF IInv
<1>2. /\ step[p] = "objectives" /\ step' = [step EXCEPT ![p] = "listed"]
      /\ left' = [left EXCEPT ![p] = catalog]
      /\ passed' = [passed EXCEPT ![p] = LooksAtSomething(p)]
      /\ UNCHANGED <<storeVars, command, seen, listed, counted, exit>>
  BY DEF ReadObjectives, Goto
<1>3. catalog # None /\ catalog \in SUBSET Objective /\ counted[p] = 0
  BY <1>1, <1>2 DEF CommandKeeps, TypeOK
<1>4. CommandTypeOK'
  BY <1>1, <1>2, <1>3 DEF TypeOK, CommandTypeOK, Steps, LooksAtSomething
<1>5. /\ \A q \in Process \ {p} : SameProcess(q)
      /\ step'[p] = "listed" /\ left'[p] = catalog /\ command'[p] = command[p]
      /\ counted'[p] = 0 /\ seen'[p] = seen[p] /\ passed'[p] = LooksAtSomething(p)
  BY <1>1, <1>2, <1>3 DEF TypeOK, SameProcess
<1>6. passed'[p] <=> catalog # {}
  BY <1>5 DEF LooksAtSomething
<1>7. /\ p \in overwritten => p \in overwritten'
      /\ p \notin disturbed' => p \notin disturbed
      /\ catalog' = catalog /\ Sound' = Sound
  BY <1>2, <1>5, HistoryStays
<1>8. CommandKeeps(p)'
  BY <1>1, <1>2, <1>3, <1>5, <1>7 DEF CommandKeeps
<1>9. ReadsStand(p)'
  BY <1>1, <1>2, <1>5, <1>6, <1>7 DEF ReadsStand
<1>10. ReadsAgree(p)'
  <2>1. Sound => catalog # {}
    BY DEF Sound
  <2> QED BY <1>1, <1>2, <1>5, <1>6, <1>7, <2>1 DEF ReadsAgree
<1> QED BY <1>2, <1>4, <1>5, <1>8, <1>9, <1>10, ReadKeeps

LEMMA ReadListedKeeps ==
  ASSUME IInv, Remember, UNCHANGED sessionVars, NEW p \in Process, ReadListed(p)
  PROVE  IInv'
<1>1. TypeOK /\ CommandKeeps(p) /\ ReadsStand(p) /\ ReadsAgree(p)
  BY DEF IInv
<1>2. /\ step[p] = "listed" /\ step' = [step EXCEPT ![p] = "each"]
      /\ listed' = [listed EXCEPT ![p] = Until(attempts)]
      /\ UNCHANGED <<storeVars, command, seen, left, counted, passed, exit>>
  BY DEF ReadListed, Goto
<1>3. Until(attempts) \subseteq Attempt /\ counted[p] = 0
  BY <1>1, <1>2 DEF TypeOK, Until, CommandKeeps
<1>4. CommandTypeOK'
  BY <1>1, <1>2, <1>3 DEF TypeOK, CommandTypeOK, Steps
<1>5. /\ \A q \in Process \ {p} : SameProcess(q)
      /\ step'[p] = "each" /\ left'[p] = left[p] /\ command'[p] = command[p]
      /\ counted'[p] = 0 /\ seen'[p] = seen[p] /\ passed'[p] = passed[p]
      /\ listed'[p] = Until(attempts)
  BY <1>1, <1>2, <1>3 DEF TypeOK, SameProcess
<1>6. /\ p \in overwritten => p \in overwritten'
      /\ p \notin disturbed' => p \notin disturbed
      /\ catalog' = catalog /\ Sound' = Sound /\ Until(attempts)' = Until(attempts)
  BY <1>2, <1>5, HistoryStays
<1>7. CommandKeeps(p)'
  BY <1>1, <1>2, <1>5, <1>6 DEF CommandKeeps
<1>8. ReadsStand(p)'
  BY <1>1, <1>2, <1>5, <1>6 DEF ReadsStand
<1>9. ReadsAgree(p)'
  <2> SUFFICES ASSUME p \notin disturbed'
               PROVE  /\ seen[p] = catalog /\ (Sound => passed[p]) /\ left[p] = catalog
                      /\ 0 = Cardinality(Among(Until(attempts), catalog \ left[p]))
    BY <1>5, <1>6 DEF ReadsAgree
  <2>1. seen[p] = catalog /\ (Sound => passed[p]) /\ left[p] = catalog
    BY <1>1, <1>2, <1>6 DEF ReadsAgree
  <2>2. Among(Until(attempts), catalog \ left[p]) = {}
    BY <2>1 DEF Among
  <2> QED BY <2>1, <2>2, FS_EmptySet
<1> QED BY <1>2, <1>4, <1>5, <1>7, <1>8, <1>9, ReadKeeps

(* Objective by objective, the attempts of different objectives are         *)
(* different attempts.                                                      *)
LEMMA OneMoreObjective ==
  ASSUME NEW rows, IsFiniteSet(rows), NEW all, NEW rest \in SUBSET all, NEW o \in rest
  PROVE  Cardinality(Among(rows, all \ (rest \ {o}))) =
           Cardinality(Among(rows, all \ rest)) + Cardinality(Of(o, rows))
<1> DEFINE before == Among(rows, all \ rest)
           after == Among(rows, all \ (rest \ {o}))
<1>1. after = before \cup Of(o, rows) /\ before \cap Of(o, rows) = {}
  BY DEF Of, Among
<1>2. IsFiniteSet(before) /\ IsFiniteSet(Of(o, rows))
  BY FS_Subset DEF Of, Among
<1> HIDE DEF before, after
<1>3. Cardinality(before) \in Nat /\ Cardinality(Of(o, rows)) \in Nat
  BY <1>2, FS_CardinalityType
<1>4. Cardinality(after) = Cardinality(before) + Cardinality(Of(o, rows)) - Cardinality({})
  BY <1>1, <1>2, FS_Union
<1>5. Cardinality(after) = Cardinality(before) + Cardinality(Of(o, rows))
  BY <1>3, <1>4, FS_EmptySet
<1> QED BY <1>5 DEF before, after

LEMMA ReadEachKeeps ==
  ASSUME IInv, Remember, UNCHANGED sessionVars, NEW p \in Process, ReadEach(p)
  PROVE  IInv'
<1>1. TypeOK /\ CommandKeeps(p) /\ ReadsStand(p) /\ ReadsAgree(p) /\ IsFiniteSet(attempts)
  BY DEF IInv
<1>2. PICK o \in left[p] :
        /\ step[p] = "each" /\ step' = [step EXCEPT ![p] = "each"]
        /\ left' = [left EXCEPT ![p] = @ \ {o}]
        /\ counted' = [counted EXCEPT ![p] = @ + Cardinality(Of(o, Until(attempts)))]
        /\ passed' = [passed EXCEPT ![p] =
             @ /\ Cardinality(Of(o, Until(attempts))) = Cardinality(Of(o, listed[p]))]
        /\ UNCHANGED <<storeVars, command, seen, listed, exit>>
  BY DEF ReadEach, Goto
<1> DEFINE n == Cardinality(Of(o, Until(attempts)))
<1>3. IsFiniteSet(Until(attempts)) /\ n \in Nat
  <2>1. IsFiniteSet(Until(attempts))
    BY <1>1, FS_Subset DEF Until
  <2>2. IsFiniteSet(Of(o, Until(attempts)))
    BY <2>1, FS_Subset DEF Of
  <2> QED BY <2>1, <2>2, FS_CardinalityType
<1> HIDE DEF n
<1>4. CommandTypeOK'
  <2>1. counted' \in [Process -> Nat]
    BY <1>1, <1>2, <1>3 DEF TypeOK, n
  <2>2. passed' \in [Process -> BOOLEAN]
    BY <1>1, <1>2 DEF TypeOK
  <2> QED BY <1>1, <1>2, <2>1, <2>2 DEF TypeOK, CommandTypeOK, Steps
<1>5. /\ \A q \in Process \ {p} : SameProcess(q)
      /\ step'[p] = "each" /\ left'[p] = left[p] \ {o} /\ command'[p] = command[p]
      /\ counted'[p] = counted[p] + n /\ seen'[p] = seen[p] /\ listed'[p] = listed[p]
      /\ passed'[p] = (passed[p] /\ n = Cardinality(Of(o, listed[p])))
  BY <1>1, <1>2 DEF TypeOK, SameProcess, n
<1>6. /\ p \in overwritten => p \in overwritten'
      /\ p \notin disturbed' => p \notin disturbed
      /\ catalog' = catalog /\ Sound' = Sound /\ Until(attempts)' = Until(attempts)
  BY <1>2, <1>5, HistoryStays
<1>7. CommandKeeps(p)'
  BY <1>1, <1>2, <1>5, <1>6 DEF CommandKeeps
<1>8. ReadsStand(p)'
  BY <1>1, <1>2, <1>5, <1>6 DEF ReadsStand
<1>9. ReadsAgree(p)'
  <2> SUFFICES ASSUME p \notin disturbed'
               PROVE  /\ seen[p] = catalog /\ (Sound => passed'[p]) /\ left'[p] \subseteq catalog
                      /\ listed[p] = Until(attempts)
                      /\ counted'[p] =
                           Cardinality(Among(Until(attempts), catalog \ left'[p]))
    BY <1>5, <1>6 DEF ReadsAgree
  <2>1. /\ seen[p] = catalog /\ (Sound => passed[p]) /\ left[p] \subseteq catalog
        /\ listed[p] = Until(attempts)
        /\ counted[p] = Cardinality(Among(Until(attempts), catalog \ left[p]))
    BY <1>1, <1>2, <1>6 DEF ReadsAgree
  <2>2. Sound => passed'[p]
    BY <1>5, <2>1 DEF n
  <2>3. Cardinality(Among(Until(attempts), catalog \ (left[p] \ {o}))) =
          Cardinality(Among(Until(attempts), catalog \ left[p])) + n
    <3>1. \A rows, all : IsFiniteSet(rows) => \A rest \in SUBSET all : \A x \in rest :
            Cardinality(Among(rows, all \ (rest \ {x}))) =
              Cardinality(Among(rows, all \ rest)) + Cardinality(Of(x, rows))
      BY OneMoreObjective
    <3>2. \A rest \in SUBSET catalog : \A x \in rest :
            Cardinality(Among(Until(attempts), catalog \ (rest \ {x}))) =
              Cardinality(Among(Until(attempts), catalog \ rest)) + Cardinality(Of(x, Until(attempts)))
      BY <1>3, <3>1
    <3>3. left[p] \in SUBSET catalog /\ o \in left[p]
      BY <2>1
    <3> QED BY <3>2, <3>3 DEF n
  <2> QED BY <1>5, <2>1, <2>2, <2>3
<1> QED BY <1>2, <1>4, <1>5, <1>7, <1>8, <1>9, ReadKeeps

LEMMA ReadEverythingKeeps ==
  ASSUME IInv, Remember, UNCHANGED sessionVars, NEW p \in Process, ReadEverything(p)
  PROVE  IInv'
<1>1. TypeOK /\ CommandKeeps(p) /\ ReadsStand(p) /\ ReadsAgree(p) /\ IsFiniteSet(attempts)
  BY DEF IInv
<1> DEFINE agree == counted[p] = Cardinality(listed[p])
           known == \A a \in attempts : a.objective_id \in seen[p]
<1>2. /\ step[p] = "each" /\ left[p] = {} /\ step' = [step EXCEPT ![p] = "count"]
      /\ counted' = [counted EXCEPT ![p] = Cardinality(attempts)]
      /\ passed' = [passed EXCEPT ![p] = @ /\ agree /\ known]
      /\ UNCHANGED <<storeVars, command, seen, left, listed, exit>>
  BY DEF ReadEverything, Goto
<1>3. Cardinality(attempts) \in Nat /\ agree \in BOOLEAN /\ known \in BOOLEAN
  BY <1>1, FS_CardinalityType
<1> HIDE DEF agree, known
<1>4. CommandTypeOK'
  <2>1. counted' \in [Process -> Nat]
    BY <1>1, <1>2, <1>3 DEF TypeOK
  <2>2. passed' \in [Process -> BOOLEAN]
    BY <1>1, <1>2 DEF TypeOK
  <2> QED BY <1>1, <1>2, <2>1, <2>2 DEF TypeOK, CommandTypeOK, Steps
<1>5. /\ \A q \in Process \ {p} : SameProcess(q)
      /\ step'[p] = "count" /\ left'[p] = left[p] /\ command'[p] = command[p]
      /\ counted'[p] = Cardinality(attempts) /\ seen'[p] = seen[p] /\ listed'[p] = listed[p]
      /\ passed'[p] = (passed[p] /\ agree /\ known)
  BY <1>1, <1>2 DEF TypeOK, SameProcess
<1>6. /\ p \in overwritten => p \in overwritten'
      /\ p \notin disturbed' => p \notin disturbed
      /\ catalog' = catalog /\ attempts' = attempts /\ Sound' = Sound
  BY <1>2, <1>5, HistoryStays
<1>7. CommandKeeps(p)'
  BY <1>1, <1>2, <1>5, <1>6 DEF CommandKeeps
<1>8. ReadsStand(p)'
  <2>1. passed'[p] => passed[p] /\ known
    BY <1>5
  <2>2. p \in overwritten' \/ seen[p] \subseteq catalog
    BY <1>1, <1>2, <1>6 DEF ReadsStand
  <2>3. passed[p] => p \in overwritten' \/ catalog # {}
    BY <1>1, <1>2, <1>6 DEF ReadsStand
  <2>4. known => \A a \in attempts : a.objective_id \in seen[p]
    BY DEF known
  <2> QED BY <1>5, <1>6, <2>1, <2>2, <2>3, <2>4 DEF ReadsStand
<1>9. ReadsAgree(p)'
  <2> SUFFICES ASSUME p \notin disturbed'
               PROVE  seen[p] = catalog /\ (Sound => passed'[p])
    BY <1>5, <1>6 DEF ReadsAgree
  <2>1. /\ seen[p] = catalog /\ (Sound => passed[p])
        /\ listed[p] = Until(attempts)
        /\ counted[p] = Cardinality(Among(Until(attempts), catalog \ left[p]))
    BY <1>1, <1>2, <1>6 DEF ReadsAgree
  <2>2. ASSUME Sound PROVE agree /\ known
    <3>1. \A a \in attempts : a.objective_id \in catalog
      BY <2>2 DEF Sound
    <3>2. Among(Until(attempts), catalog \ left[p]) = Until(attempts)
      BY <1>2, <3>1 DEF Until, Among
    <3> QED BY <2>1, <3>1, <3>2 DEF agree, known
  <2> QED BY <1>5, <2>1, <2>2
<1> QED BY <1>2, <1>4, <1>5, <1>7, <1>8, <1>9, ReadKeeps

LEMMA CountKeeps ==
  ASSUME IInv, Remember, UNCHANGED sessionVars, NEW p \in Process, Count(p)
  PROVE  IInv'
<1>1. StoreMoves /\ attempts' = attempts
  BY StoresStay DEF Count, storeVars
<1>2. PICK code \in {"ok", "check_failed"} : Exits(p, "count", code)
  BY DEF Count
<1> QED BY <1>1, <1>2, ExitsKeeps

LEMMA CommandFailsKeeps ==
  ASSUME IInv, Remember, UNCHANGED sessionVars, NEW p \in Process, CommandFails(p)
  PROVE  IInv'
<1>1. StoreMoves /\ attempts' = attempts
  BY StoresStay DEF CommandFails, storeVars
<1>2. PICK from : Exits(p, from, "error")
  BY DEF CommandFails
<1> QED BY <1>1, <1>2, ExitsKeeps

LEMMA CommandNextKeeps ==
  ASSUME IInv, Remember, UNCHANGED sessionVars, CommandNext
  PROVE  IInv'
BY StartKeeps, LookProfileKeeps, SaveProfileKeeps, AddObjectiveKeeps, FindObjectiveKeeps,
   AppendAttemptKeeps, ListObjectivesKeeps, GetAllStatesKeeps, ReadProfileKeeps,
   ReadObjectivesKeeps, ReadListedKeeps, ReadEachKeeps, ReadEverythingKeeps, CountKeeps,
   CommandFailsKeeps
DEF CommandNext

-----------------------------------------------------------------------------
(* Reports are of the right type, as there are no more attempts than calls. *)
LEMMA ReportOfIsAReport ==
  ASSUME IInv, NEW s \in Session
  PROVE  ReportOf(s) \in Report
<1>1. TypeOK /\ SessionKeeps(s) /\ IsFiniteSet(attempts)
  BY DEF IInv
<1>2. kept[s] \subseteq attempts /\ attempts \subseteq Attempt
  BY <1>1 DEF TypeOK
<1>3. Cardinality(kept[s]) \in Nat
  BY <1>1, <1>2, FS_Subset, FS_CardinalityType
<1>4. Settled(s) <= calls[s] /\ calls[s] <= MaxBegun /\ calls[s] \in Nat
  BY <1>1, DateAssumption DEF Settled, TypeOK
<1>5. Settled(s) \in Int /\ Cardinality(kept[s]) <= Settled(s)
  BY <1>1, <1>4 DEF Settled, SessionKeeps
<1>6. Cardinality(kept[s]) \in 0..MaxBegun
  BY <1>3, <1>4, <1>5, DateAssumption
<1>7. \A a \in kept[s] : a.objective_id \in Objective
  BY <1>2 DEF Attempt
<1>8. {a.objective_id : a \in kept[s]} \in SUBSET Objective
  BY <1>7
<1> QED BY <1>6, <1>8 DEF ReportOf, Report

(* What a step of a session owes. *)
LEMMA SessionStepKeeps ==
  ASSUME IInv, Remember, StoreMoves, UNCHANGED commandVars, NEW s \in Session,
         \A t \in Session \ {s} : SameSession(t),
         \A a \in attempts' \ attempts : a.attempt_id[1] = s,
         stage' \in [Session -> {"in", "append", "out", "gone"}],
         kept' \in [Session -> SUBSET attempts'],
         appending' \in [Session -> Attempt \cup {None}],
         calls' \in [Session -> 0..MaxBegun],
         report' \in [Session -> Report \cup {None}],
         raised' \in [Session -> SUBSET AttemptId],
         SessionKeeps(s)'
  PROVE  IInv'
<1>1. /\ TypeOK
      /\ UNCHANGED <<step, command, seen, left, listed, counted, passed, exit>>
  BY DEF IInv, commandVars
<1>2. \A p \in Process : SameProcess(p)
  BY <1>1 DEF SameProcess
<1>3. ASSUME NEW p \in Process PROVE CommandKeeps(p)' /\ ReadsStand(p)' /\ ReadsAgree(p)'
  BY <1>2, ProcessStays
<1>4. ASSUME NEW t \in Session PROVE SessionKeeps(t)'
  <2>1. CASE t = s
    BY <2>1
  <2>2. CASE t # s
    <3>1. \A a \in attempts' \ attempts : a.attempt_id[1] # t
      BY <2>2
    <3> QED BY <2>2, <3>1, SessionStays
  <2> QED BY <2>1, <2>2
<1>5. TypeOK'
  <2>1. overwritten' \subseteq disturbed' /\ disturbed' \subseteq Busy'
    BY <1>1 DEF Remember, Written, Overwritten, TypeOK
  <2>2. begun' \in 0..MaxBegun
    BY DateAssumption DEF StoreMoves
  <2>3. catalog' \in (SUBSET Objective) \cup {None} /\ attempts' \subseteq Attempt
    BY DEF StoreMoves
  <2> QED BY <1>1, <2>1, <2>2, <2>3 DEF TypeOK
<1>6. IsFiniteSet(attempts')
  BY DEF StoreMoves
<1> QED BY <1>3, <1>4, <1>5, <1>6 DEF IInv

LEMMA CallRecordKeeps ==
  ASSUME IInv, Remember, UNCHANGED commandVars, NEW s \in Session,
         NEW o \in Objective, NEW at \in Date, CallRecord(s, o, at)
  PROVE  IInv'
<1>1. TypeOK /\ SessionKeeps(s) /\ IsFiniteSet(attempts)
  BY DEF IInv
<1>2. /\ stage[s] \in {"in", "out"}
      /\ begun < MaxBegun /\ begun' = begun + 1
      /\ calls' = [calls EXCEPT ![s] = @ + 1]
      /\ UNCHANGED <<catalog, attempts, kept, report, raised>>
  BY DEF CallRecord, Begin
<1>3. /\ begun \in Nat /\ calls[s] \in Nat /\ calls[s] <= begun /\ MaxBegun \in Nat
      /\ calls'[s] = calls[s] + 1
  BY <1>1, <1>2, DateAssumption DEF TypeOK, SessionKeeps
<1>4. StoreMoves
  BY <1>1, <1>2, <1>3 DEF TypeOK, StoreMoves
<1>5. calls' \in [Session -> 0..MaxBegun]
  BY <1>1, <1>2, <1>3 DEF TypeOK
<1>6. kept' \in [Session -> SUBSET attempts'] /\ report' \in [Session -> Report \cup {None}]
      /\ raised' \in [Session -> SUBSET AttemptId]
  BY <1>1, <1>2 DEF TypeOK
<1>7. Settled(s) = calls[s] /\ calls[s] <= Settled(s)' /\ Settled(s)' \in Nat
      /\ (stage'[s] = "append" => Settled(s)' = calls[s])
  BY <1>2, <1>3 DEF Settled
<1>8. Mine(s)' = Mine(s) /\ IdsOf(s)' = IdsOf(s) /\ ReportOf(s)' = ReportOf(s)
  BY <1>2 DEF Mine, IdsOf, ReportOf
<1>9. \A n \in Int : n <= calls[s] => n <= Settled(s)'
  BY <1>3, <1>7
<1>10. /\ \A a \in IdsOf(s)' : a.attempt_id[2] <= Settled(s)'
       /\ \A id \in raised'[s] : id[1] = s /\ id[2] <= Settled(s)'
       /\ kept'[s] = Mine(s)'
       /\ Cardinality(kept'[s]) <= Settled(s)'
       /\ calls'[s] <= begun'
  <2>1. \A a \in IdsOf(s) : a.attempt_id[2] \in Nat
    BY <1>1 DEF IdsOf, TypeOK, Attempt, AttemptId
  <2>2. \A id \in raised[s] : id[2] \in Nat
    BY <1>1 DEF TypeOK, AttemptId
  <2>3. Cardinality(kept[s]) \in Nat
    BY <1>1, FS_Subset, FS_CardinalityType DEF TypeOK
  <2> QED BY <1>1, <1>2, <1>3, <1>7, <1>8, <1>9, <2>1, <2>2, <2>3 DEF SessionKeeps
<1>11. CASE /\ Admits(s, o)
            /\ stage' = [stage EXCEPT ![s] = "append"]
            /\ appending' = [appending EXCEPT ![s] =
                 [attempt_id |-> <<s, calls'[s]>>, objective_id |-> o, at |-> at]]
  <2> DEFINE a == [attempt_id |-> <<s, calls'[s]>>, objective_id |-> o, at |-> at]
  <2>1. a \in Attempt /\ a.attempt_id = <<s, calls'[s]>>
    BY <1>3 DEF Attempt, AttemptId
  <2> HIDE DEF a
  <2>2. /\ stage' \in [Session -> {"in", "append", "out", "gone"}]
        /\ appending' \in [Session -> Attempt \cup {None}]
        /\ stage'[s] = "append" /\ appending'[s] = a
    BY <1>1, <1>11, <2>1 DEF TypeOK, a
  <2>3. \A t \in Session \ {s} : SameSession(t)
    BY <1>1, <1>2, <1>11 DEF TypeOK, SameSession
  <2>4. report'[s] = None
    BY <1>2, <1>11 DEF Admits
  <2>5. SessionKeeps(s)'
    BY <1>3, <1>10, <2>1, <2>2, <2>4 DEF SessionKeeps
  <2> QED BY <1>2, <1>4, <1>5, <1>6, <2>2, <2>3, <2>5, SessionStepKeeps
<1>12. CASE UNCHANGED <<stage, appending>>
  <2>1. /\ stage' \in [Session -> {"in", "append", "out", "gone"}]
        /\ appending' \in [Session -> Attempt \cup {None}]
        /\ stage'[s] # "append"
    BY <1>1, <1>2, <1>12 DEF TypeOK
  <2>2. \A t \in Session \ {s} : SameSession(t)
    BY <1>1, <1>2, <1>12 DEF TypeOK, SameSession
  <2>3. report'[s] # None => report'[s] = ReportOf(s)'
    BY <1>1, <1>2, <1>8 DEF SessionKeeps
  <2>4. SessionKeeps(s)'
    BY <1>10, <2>1, <2>3 DEF SessionKeeps
  <2> QED BY <1>2, <1>4, <1>5, <1>6, <2>1, <2>2, <2>4, SessionStepKeeps
<1> QED BY <1>11, <1>12 DEF CallRecord

(* The attempt that is being stored is not there yet, and was not lost. *)
LEMMA AppendingIsNew ==
  ASSUME IInv, NEW s \in Session, stage[s] = "append"
  PROVE  /\ appending[s] \in Attempt /\ appending[s].attempt_id = <<s, calls[s]>>
         /\ calls[s] \in Nat /\ Settled(s) = calls[s] - 1
         /\ report[s] = None
         /\ \A a \in IdsOf(s) : a.attempt_id[2] < calls[s] /\ a.attempt_id # <<s, calls[s]>>
         /\ \A id \in raised[s] : id[1] = s /\ id[2] < calls[s] /\ id # <<s, calls[s]>>
<1>1. TypeOK /\ SessionKeeps(s)
  BY DEF IInv
<1>2. calls[s] \in Nat /\ Settled(s) = calls[s] - 1
  BY <1>1, DateAssumption DEF TypeOK, Settled
<1>3. \A a \in IdsOf(s) : a.attempt_id[2] \in Nat
  BY <1>1 DEF IdsOf, TypeOK, Attempt, AttemptId
<1>4. \A id \in raised[s] : id[2] \in Nat
  BY <1>1 DEF TypeOK, AttemptId
<1>5. \A a \in IdsOf(s) : a.attempt_id[2] < calls[s]
  BY <1>1, <1>2, <1>3 DEF SessionKeeps
<1>6. \A id \in raised[s] : id[1] = s /\ id[2] < calls[s]
  BY <1>1, <1>2, <1>4 DEF SessionKeeps
<1>7. \A pair : pair[2] < calls[s] => pair # <<s, calls[s]>>
  BY <1>2
<1> QED BY <1>1, <1>2, <1>5, <1>6, <1>7 DEF SessionKeeps

LEMMA AppendReturnsKeeps ==
  ASSUME IInv, Remember, UNCHANGED commandVars, NEW s \in Session, AppendReturns(s)
  PROVE  IInv'
<1> DEFINE a == appending[s]
           n == calls[s]
<1>1. TypeOK /\ SessionKeeps(s) /\ IsFiniteSet(attempts)
  BY DEF IInv
<1>2. /\ stage[s] = "append"
      /\ attempts' = attempts \cup {a}
      /\ stage' = [stage EXCEPT ![s] = "in"]
      /\ appending' = [appending EXCEPT ![s] = None]
      /\ kept' = [kept EXCEPT ![s] = @ \cup {a}]
      /\ UNCHANGED <<catalog, begun, calls, report, raised>>
  BY DEF AppendReturns, Append
<1>3. /\ a \in Attempt /\ a.attempt_id = <<s, n>>
      /\ n \in Nat /\ Settled(s) = n - 1
      /\ report[s] = None
      /\ \A b \in IdsOf(s) : b.attempt_id[2] < n /\ b.attempt_id # <<s, n>>
      /\ \A id \in raised[s] : id[1] = s /\ id[2] < n /\ id # <<s, n>>
  BY <1>2, AppendingIsNew
<1> HIDE DEF a, n
<1>4. IsFiniteSet(attempts')
  BY <1>1, <1>2, FS_AddElement
<1>5. StoreMoves
  BY <1>1, <1>2, <1>3, <1>4, DateAssumption DEF TypeOK, StoreMoves
<1>6. /\ stage' \in [Session -> {"in", "append", "out", "gone"}]
      /\ kept' \in [Session -> SUBSET attempts']
      /\ appending' \in [Session -> Attempt \cup {None}]
      /\ calls' \in [Session -> 0..MaxBegun]
      /\ report' \in [Session -> Report \cup {None}]
      /\ raised' \in [Session -> SUBSET AttemptId]
  <2>1. kept' \in [Session -> SUBSET attempts']
    BY <1>1, <1>2 DEF TypeOK
  <2> QED BY <1>1, <1>2, <2>1 DEF TypeOK
<1>7. \A t \in Session \ {s} : SameSession(t)
  BY <1>1, <1>2 DEF TypeOK, SameSession
<1>8. stage'[s] = "in" /\ kept'[s] = kept[s] \cup {a} /\ calls'[s] = n /\ raised'[s] = raised[s]
      /\ report'[s] = None /\ Settled(s)' = n
  BY <1>1, <1>2, <1>3 DEF TypeOK, Settled, n
<1>9. \A b \in IdsOf(s)' : b.attempt_id[2] <= n
  <2>1. ASSUME NEW b \in IdsOf(s)' PROVE b.attempt_id[2] <= n
    <3>1. CASE b = a
      BY <1>3, <3>1
    <3>2. CASE b # a
      <4>1. b \in IdsOf(s)
        BY <1>2, <3>2 DEF IdsOf
      <4>2. b.attempt_id[2] < n /\ b.attempt_id[2] \in Nat
        BY <1>1, <1>3, <4>1 DEF IdsOf, TypeOK, Attempt, AttemptId
      <4> QED BY <1>3, <4>2
    <3> QED BY <3>1, <3>2
  <2> QED BY <2>1
<1>10. \A id \in raised[s] : id[1] = s /\ id[2] <= n
  <2>1. \A id \in raised[s] : id[2] \in Nat
    BY <1>1 DEF TypeOK, AttemptId
  <2> QED BY <1>3, <2>1
<1>11. kept'[s] = Mine(s)'
  <2>1. <<s, n>> \notin raised[s] /\ a.attempt_id[1] = s
    BY <1>3
  <2>2. kept[s] = {b \in attempts : b.attempt_id[1] = s /\ b.attempt_id \notin raised[s]}
    BY <1>1 DEF SessionKeeps, Mine
  <2> QED BY <1>2, <1>3, <1>8, <2>1, <2>2 DEF Mine
<1>12. Cardinality(kept'[s]) <= n
  <2>1. IsFiniteSet(kept[s])
    BY <1>1, FS_Subset DEF TypeOK
  <2>2. Cardinality(kept[s]) \in Nat /\ Cardinality(kept[s]) <= n - 1
    BY <1>1, <1>3, <2>1, FS_CardinalityType DEF SessionKeeps
  <2>3. Cardinality(kept[s] \cup {a}) \in {Cardinality(kept[s]), Cardinality(kept[s]) + 1}
    BY <2>1, FS_AddElement
  <2> QED BY <1>3, <1>8, <2>2, <2>3
<1>13. calls'[s] <= begun'
  BY <1>1, <1>2 DEF SessionKeeps
<1>14. SessionKeeps(s)'
  BY <1>8, <1>9, <1>10, <1>11, <1>12, <1>13 DEF SessionKeeps
<1>15. \A b \in attempts' \ attempts : b.attempt_id[1] = s
  BY <1>2, <1>3
<1> QED BY <1>5, <1>6, <1>7, <1>14, <1>15, SessionStepKeeps

LEMMA AppendRaisesKeeps ==
  ASSUME IInv, Remember, UNCHANGED commandVars, NEW s \in Session, AppendRaises(s)
  PROVE  IInv'
<1> DEFINE a == appending[s]
           n == calls[s]
<1>1. TypeOK /\ SessionKeeps(s) /\ IsFiniteSet(attempts)
  BY DEF IInv
<1>2. /\ stage[s] = "append"
      /\ attempts' = attempts \/ attempts' = attempts \cup {a}
      /\ stage' = [stage EXCEPT ![s] = "in"]
      /\ appending' = [appending EXCEPT ![s] = None]
      /\ raised' = [raised EXCEPT ![s] = @ \cup {a.attempt_id}]
      /\ UNCHANGED <<catalog, begun, kept, calls, report>>
  BY DEF AppendRaises, Append, storeVars
<1>3. /\ a \in Attempt /\ a.attempt_id = <<s, n>>
      /\ n \in Nat /\ Settled(s) = n - 1
      /\ report[s] = None
      /\ \A b \in IdsOf(s) : b.attempt_id[2] < n /\ b.attempt_id # <<s, n>>
      /\ \A id \in raised[s] : id[1] = s /\ id[2] < n /\ id # <<s, n>>
  BY <1>2, AppendingIsNew
<1> HIDE DEF a, n
<1>4. IsFiniteSet(attempts')
  BY <1>1, <1>2, FS_AddElement
<1>5. StoreMoves
  BY <1>1, <1>2, <1>3, <1>4, DateAssumption DEF TypeOK, StoreMoves
<1>6. /\ stage' \in [Session -> {"in", "append", "out", "gone"}]
      /\ kept' \in [Session -> SUBSET attempts']
      /\ appending' \in [Session -> Attempt \cup {None}]
      /\ calls' \in [Session -> 0..MaxBegun]
      /\ report' \in [Session -> Report \cup {None}]
      /\ raised' \in [Session -> SUBSET AttemptId]
  <2>1. a.attempt_id \in AttemptId
    BY <1>3 DEF Attempt
  <2>2. raised' \in [Session -> SUBSET AttemptId]
    BY <1>1, <1>2, <2>1 DEF TypeOK
  <2>3. kept' \in [Session -> SUBSET attempts']
    BY <1>1, <1>2 DEF TypeOK
  <2> QED BY <1>1, <1>2, <2>2, <2>3 DEF TypeOK
<1>7. \A t \in Session \ {s} : SameSession(t)
  BY <1>1, <1>2 DEF TypeOK, SameSession
<1>8. stage'[s] = "in" /\ kept'[s] = kept[s] /\ calls'[s] = n /\ raised'[s] = raised[s] \cup {<<s, n>>}
      /\ report'[s] = None /\ Settled(s)' = n
  BY <1>1, <1>2, <1>3 DEF TypeOK, Settled, n
<1>9. \A b \in IdsOf(s)' : b.attempt_id[2] <= n
  <2>1. ASSUME NEW b \in IdsOf(s)' PROVE b.attempt_id[2] <= n
    <3>1. CASE b = a
      BY <1>3, <3>1
    <3>2. CASE b # a
      <4>1. b \in IdsOf(s)
        BY <1>2, <3>2 DEF IdsOf
      <4>2. b.attempt_id[2] < n /\ b.attempt_id[2] \in Nat
        BY <1>1, <1>3, <4>1 DEF IdsOf, TypeOK, Attempt, AttemptId
      <4> QED BY <1>3, <4>2
    <3> QED BY <3>1, <3>2
  <2> QED BY <2>1
<1>10. \A id \in raised'[s] : id[1] = s /\ id[2] <= n
  <2>1. \A id \in raised[s] : id[2] \in Nat
    BY <1>1 DEF TypeOK, AttemptId
  <2> QED BY <1>3, <1>8, <2>1
<1>11. kept'[s] = Mine(s)'
  <2>1. \A b \in attempts : b.attempt_id[1] = s => b.attempt_id # <<s, n>>
    BY <1>3 DEF IdsOf
  <2>2. kept[s] = {b \in attempts : b.attempt_id[1] = s /\ b.attempt_id \notin raised[s]}
    BY <1>1 DEF SessionKeeps, Mine
  <2>3. {b \in attempts' : b.attempt_id[1] = s /\ b.attempt_id \notin raised[s] \cup {<<s, n>>}} =
          {b \in attempts : b.attempt_id[1] = s /\ b.attempt_id \notin raised[s]}
    BY <1>2, <1>3, <2>1
  <2> QED BY <1>8, <2>2, <2>3 DEF Mine
<1>12. Cardinality(kept'[s]) <= n
  <2>1. Cardinality(kept[s]) \in Nat /\ Cardinality(kept[s]) <= n - 1
    BY <1>1, <1>3, FS_Subset, FS_CardinalityType DEF SessionKeeps, TypeOK
  <2> QED BY <1>3, <1>8, <2>1
<1>13. calls'[s] <= begun'
  BY <1>1, <1>2 DEF SessionKeeps
<1>14. SessionKeeps(s)'
  BY <1>8, <1>9, <1>10, <1>11, <1>12, <1>13 DEF SessionKeeps
<1>15. \A b \in attempts' \ attempts : b.attempt_id[1] = s
  BY <1>2, <1>3
<1> QED BY <1>5, <1>6, <1>7, <1>14, <1>15, SessionStepKeeps

(* A report is issued once, of what was kept when it was. *)
LEMMA ClosesKeeps ==
  ASSUME IInv, Remember, UNCHANGED commandVars, NEW s \in Session,
         NEW to \in {"in", "out"}, stage[s] \in {"in", "out"},
         stage' = [stage EXCEPT ![s] = to], report' = [report EXCEPT ![s] = Closed(s)],
         UNCHANGED <<storeVars, kept, appending, calls, raised>>
  PROVE  IInv'
<1>1. TypeOK /\ SessionKeeps(s)
  BY DEF IInv
<1>2. StoreMoves /\ attempts' = attempts
  BY StoresStay DEF storeVars
<1>3. Closed(s) = ReportOf(s) /\ ReportOf(s) \in Report
  BY <1>1, ReportOfIsAReport DEF Closed, SessionKeeps
<1>4. /\ stage' \in [Session -> {"in", "append", "out", "gone"}]
      /\ kept' \in [Session -> SUBSET attempts']
      /\ appending' \in [Session -> Attempt \cup {None}]
      /\ calls' \in [Session -> 0..MaxBegun]
      /\ raised' \in [Session -> SUBSET AttemptId]
  BY <1>1, <1>2 DEF TypeOK
<1>5. report' \in [Session -> Report \cup {None}]
  BY <1>1, <1>3 DEF TypeOK
<1>6. \A t \in Session \ {s} : SameSession(t)
  BY <1>1 DEF TypeOK, SameSession
<1>7. /\ stage'[s] = to /\ report'[s] = ReportOf(s) /\ kept'[s] = kept[s]
      /\ calls'[s] = calls[s] /\ raised'[s] = raised[s] /\ begun' = begun
  BY <1>1, <1>3 DEF TypeOK, storeVars
<1>8. Mine(s)' = Mine(s) /\ IdsOf(s)' = IdsOf(s) /\ ReportOf(s)' = ReportOf(s)
      /\ Settled(s)' = Settled(s)
  BY <1>2, <1>7 DEF Mine, IdsOf, ReportOf, Settled
<1>9. SessionKeeps(s)'
  BY <1>1, <1>7, <1>8 DEF SessionKeeps
<1> QED BY <1>2, <1>4, <1>5, <1>6, <1>9, SessionStepKeeps

LEMMA KilledKeeps ==
  ASSUME IInv, Remember, UNCHANGED commandVars, NEW s \in Session, Killed(s)
  PROVE  IInv'
<1>1. TypeOK /\ SessionKeeps(s)
  BY DEF IInv
<1>2. /\ stage[s] \in {"in", "append"}
      /\ stage' = [stage EXCEPT ![s] = "gone"]
      /\ appending' = [appending EXCEPT ![s] = None]
      /\ UNCHANGED <<storeVars, kept, calls, report, raised>>
  BY DEF Killed
<1>3. StoreMoves /\ attempts' = attempts
  BY <1>2, StoresStay DEF storeVars
<1>4. /\ stage' \in [Session -> {"in", "append", "out", "gone"}]
      /\ kept' \in [Session -> SUBSET attempts']
      /\ appending' \in [Session -> Attempt \cup {None}]
      /\ calls' \in [Session -> 0..MaxBegun]
      /\ report' \in [Session -> Report \cup {None}]
      /\ raised' \in [Session -> SUBSET AttemptId]
  BY <1>1, <1>2, <1>3 DEF TypeOK
<1>5. \A t \in Session \ {s} : SameSession(t)
  BY <1>1, <1>2 DEF TypeOK, SameSession
<1>6. /\ stage'[s] = "gone" /\ report'[s] = report[s] /\ kept'[s] = kept[s]
      /\ calls'[s] = calls[s] /\ raised'[s] = raised[s] /\ begun' = begun
  BY <1>1, <1>2 DEF TypeOK, storeVars
<1>7. calls[s] \in Nat /\ Settled(s)' = calls[s] /\ Settled(s) \in Int /\ Settled(s) <= calls[s]
  BY <1>1, <1>6, DateAssumption DEF Settled, TypeOK
<1>8. Mine(s)' = Mine(s) /\ IdsOf(s)' = IdsOf(s) /\ ReportOf(s)' = ReportOf(s)
  BY <1>3, <1>6 DEF Mine, IdsOf, ReportOf
<1>9. \A k \in Int : k <= Settled(s) => k <= Settled(s)'
  BY <1>7
<1>10. /\ \A a \in IdsOf(s) : a.attempt_id[2] <= Settled(s)'
       /\ \A id \in raised[s] : id[2] <= Settled(s)'
       /\ Cardinality(kept[s]) <= Settled(s)'
  <2>1. \A a \in IdsOf(s) : a.attempt_id[2] \in Int
    BY <1>1 DEF IdsOf, TypeOK, Attempt, AttemptId
  <2>2. \A id \in raised[s] : id[2] \in Int
    BY <1>1 DEF TypeOK, AttemptId
  <2>3. Cardinality(kept[s]) \in Int
    BY FS_Subset, FS_CardinalityType DEF TypeOK, IInv
  <2> QED BY <1>1, <1>9, <2>1, <2>2, <2>3 DEF SessionKeeps
<1>11. SessionKeeps(s)'
  BY <1>1, <1>6, <1>8, <1>10 DEF SessionKeeps
<1> QED BY <1>3, <1>4, <1>5, <1>11, SessionStepKeeps

LEMMA SessionNextKeeps ==
  ASSUME IInv, Remember, UNCHANGED commandVars, SessionNext
  PROVE  IInv'
<1>1. ASSUME NEW s \in Session, Close(s) PROVE IInv'
  <2>1. stage' = [stage EXCEPT ![s] = stage[s]] /\ stage[s] \in {"in", "out"}
    BY <1>1 DEF Close, IInv, TypeOK
  <2> QED BY <1>1, <2>1, ClosesKeeps DEF Close
<1>2. ASSUME NEW s \in Session, Exit(s) PROVE IInv'
  BY <1>2, ClosesKeeps DEF Exit
<1> QED BY <1>1, <1>2, CallRecordKeeps, AppendReturnsKeeps, AppendRaisesKeeps, KilledKeeps
        DEF SessionNext

-----------------------------------------------------------------------------
LEMMA IInvInitially == ASSUME Init PROVE IInv
<1>1. PICK old \in Inherited : catalog = old.catalog /\ attempts = old.attempts
  BY DEF Init, StoreInit
<1>2. /\ catalog \in (SUBSET Objective) \cup {None} /\ attempts \subseteq Attempt
      /\ IsFiniteSet(attempts) /\ \A a \in attempts : a.attempt_id[1] = None
  BY <1>1, InheritedAssumption
<1>3. TypeOK
  BY <1>2, DateAssumption
  DEF Init, StoreInit, CommandInit, SessionInit, TypeOK, Steps, Busy
<1>4. ASSUME NEW s \in Session PROVE SessionKeeps(s)
  <2>1. \A a \in attempts : a.attempt_id[1] # s
    BY <1>2, NoneAssumption
  <2>2. Mine(s) = {} /\ IdsOf(s) = {}
    BY <2>1 DEF Mine, IdsOf
  <2>3. /\ stage[s] = "in" /\ kept[s] = {} /\ calls[s] = 0 /\ report[s] = None
        /\ raised[s] = {} /\ begun = 0
    BY DEF Init, StoreInit, SessionInit
  <2>4. Settled(s) = 0
    BY <2>3 DEF Settled
  <2> QED BY <2>2, <2>3, <2>4, FS_EmptySet DEF SessionKeeps
<1>5. ASSUME NEW p \in Process PROVE CommandKeeps(p) /\ ReadsStand(p) /\ ReadsAgree(p)
  <2>1. step[p] = "idle" /\ counted[p] = 0
    BY DEF Init, CommandInit
  <2> QED BY <2>1 DEF CommandKeeps, ReadsStand, ReadsAgree
<1> QED BY <1>2, <1>3, <1>4, <1>5 DEF IInv

LEMMA IInvStep == ASSUME IInv, [Next]_vars PROVE IInv'
<1>1. CASE CommandNext /\ UNCHANGED sessionVars /\ Remember
  BY <1>1, CommandNextKeeps
<1>2. CASE SessionNext /\ UNCHANGED commandVars /\ Remember
  BY <1>2, SessionNextKeeps
<1>3. CASE UNCHANGED vars
  <2>1. UNCHANGED <<catalog, attempts, begun, disturbed, overwritten>>
    BY <1>3 DEF vars, storeVars
  <2>2. UNCHANGED <<step, command, seen, left, listed, counted, passed, exit>>
    BY <1>3 DEF vars, commandVars
  <2>3. UNCHANGED <<stage, kept, appending, calls, report, raised>>
    BY <1>3 DEF vars, sessionVars
  <2>4. TypeOK' /\ IsFiniteSet(attempts')
    BY <2>1, <2>2, <2>3 DEF IInv, TypeOK, Busy
  <2>5. ASSUME NEW s \in Session PROVE SessionKeeps(s)'
    BY <2>1, <2>3 DEF IInv, SessionKeeps, IdsOf, Mine, Settled, ReportOf
  <2>6. ASSUME NEW p \in Process PROVE CommandKeeps(p)'
    BY <2>1, <2>2 DEF IInv, CommandKeeps
  <2>7. ASSUME NEW p \in Process PROVE ReadsStand(p)'
    BY <2>1, <2>2 DEF IInv, ReadsStand
  <2>8. ASSUME NEW p \in Process PROVE ReadsAgree(p)'
    BY <2>1, <2>2 DEF IInv, ReadsAgree, Until, Among, Sound
  <2> QED BY <2>4, <2>5, <2>6, <2>7, <2>8 DEF IInv
<1> QED BY <1>1, <1>2, <1>3 DEF Next

LEMMA IInvAlways == Spec => []IInv
<1>1. Init => IInv
  BY IInvInitially
<1>2. IInv /\ [Next]_vars => IInv'
  BY IInvStep
<1> QED BY <1>1, <1>2, PTL DEF Spec

(* How a command ends that is running. *)
LEMMA HowACommandEnds ==
  ASSUME IInv, Next, NEW p \in Process, step[p] # "idle", step'[p] = "idle"
  PROVE  \/ Count(p)
         \/ GetAllStates(p)
         \/ exit' = "error"
         \/ exit' = "ok" /\ step[p] # "count"
<1>1. step \in [Process -> Steps]
  BY DEF IInv, TypeOK
<1>2. CASE SessionNext /\ UNCHANGED commandVars /\ Remember
  BY <1>2 DEF commandVars
<1>3. CASE CommandNext
  <2>1. ASSUME NEW q \in Process, NEW to, step' = [step EXCEPT ![q] = to] PROVE q = p /\ to = "idle"
    BY <1>1, <2>1
  <2>2. ASSUME NEW q \in Process, NEW from, NEW code, Exits(q, from, code)
        PROVE  q = p /\ step[p] = from /\ exit' = code
    BY <2>1, <2>2 DEF Exits, Goto
  <2>3. ASSUME NEW q \in Process, NEW from, NEW to, Goto(q, from, to)
        PROVE  q = p /\ step[p] = from /\ to = "idle"
    BY <2>1, <2>3 DEF Goto
  <2>4. ASSUME NEW q \in Process, NEW c \in Command, Start(q, c) PROVE FALSE
    BY <2>3, <2>4 DEF Start
  <2>5. ASSUME NEW q \in Process, ReadObjectives(q) \/ ReadListed(q) \/ ReadEach(q) \/ ReadEverything(q)
        PROVE  FALSE
    <3>1. \/ Goto(q, "objectives", "listed") \/ Goto(q, "listed", "each")
          \/ Goto(q, "each", "each") \/ Goto(q, "each", "count")
      BY <2>5 DEF ReadObjectives, ReadListed, ReadEach, ReadEverything
    <3> QED BY <2>3, <3>1
  <2>6. ASSUME NEW q \in Process,
               \/ LookProfile(q) \/ SaveProfile(q) \/ AddObjective(q) \/ FindObjective(q)
               \/ AppendAttempt(q) \/ ListObjectives(q) \/ ReadProfile(q)
        PROVE  exit' \in {"ok", "error"} /\ step[p] # "count"
    <3>1. \/ Exits(q, "look", "error") \/ Exits(q, "save", "ok") \/ Exits(q, "upsert", "ok")
          \/ Exits(q, "upsert", "error") \/ Exits(q, "find", "error") \/ Exits(q, "append", "ok")
          \/ Exits(q, "list", "error") \/ Exits(q, "profile", "error")
          \/ Goto(q, "look", "save") \/ Goto(q, "find", "append")
          \/ Goto(q, "list", "states") \/ Goto(q, "profile", "objectives")
      BY <2>6 DEF LookProfile, SaveProfile, AddObjective, FindObjective, AppendAttempt,
         ListObjectives, ReadProfile
    <3> QED BY <2>2, <2>3, <3>1
  <2>7. ASSUME NEW q \in Process, Count(q) \/ GetAllStates(q) PROVE q = p
    <3>1. PICK from, code : Exits(q, from, code)
      BY <2>7 DEF Count, GetAllStates
    <3> QED BY <2>2, <3>1
  <2>8. ASSUME NEW q \in Process, CommandFails(q) PROVE exit' = "error"
    BY <2>2, <2>8 DEF CommandFails
  <2> QED BY <1>3, <2>4, <2>5, <2>6, <2>7, <2>8 DEF CommandNext
<1> QED BY <1>2, <1>3 DEF Next

(* A check ends right, as far as one that others write beside can. *)
LEMMA CountIsRight ==
  ASSUME IInv, NEW p \in Process, Count(p)
  PROVE  /\ (exit' = "ok" /\ p \notin overwritten) => Sound
         /\ (exit' = "check_failed" /\ p \notin disturbed) => ~Sound
<1>1. ReadsStand(p) /\ ReadsAgree(p) /\ IsFiniteSet(attempts)
  BY DEF IInv
<1> DEFINE ok == passed[p] /\ Cardinality(attempts) = counted[p]
<1>2. /\ step[p] = "count"
      /\ ok => exit' = "ok"
      /\ ~ok => exit' = "check_failed"
  BY DEF Count, Exits, Goto
<1>3. ASSUME exit' = "ok", p \notin overwritten PROVE Sound
  <2>1. passed[p] /\ Cardinality(attempts) = counted[p]
    BY <1>2, <1>3
  <2>2. seen[p] \subseteq catalog /\ catalog # {}
    BY <1>1, <1>2, <1>3, <2>1 DEF ReadsStand
  <2>3. PICK rows \in SUBSET attempts :
          counted[p] = Cardinality(rows) /\ \A a \in rows : a.objective_id \in seen[p]
    BY <1>1, <1>2, <2>1 DEF ReadsStand
  <2>4. rows = attempts
    BY <1>1, <2>1, <2>3, FS_Subset
  <2> QED BY <2>2, <2>3, <2>4 DEF Sound
<1>4. ASSUME exit' = "check_failed", p \notin disturbed PROVE ~Sound
  BY <1>1, <1>2, <1>4 DEF ReadsAgree
<1> QED BY <1>3, <1>4

-----------------------------------------------------------------------------
(* What a session reports is what it stored and was not told it lost, for  *)
(* any number of sessions, commands and calls: SessionRecorder.close and   *)
(* record (core/session.py).                                               *)
THEOREM ReportsAreTrue == Spec => []ReportIsTrue
<1>1. ASSUME IInv PROVE ReportIsTrue
  <2>1. TypeOK
    BY <1>1 DEF IInv
  <2>2. ASSUME NEW s \in Session, report[s] # None
        PROVE  /\ report[s].attempts_recorded = Cardinality(Mine(s))
               /\ report[s].objectives_touched = {a.objective_id : a \in Mine(s)}
               /\ report[s].status = "EMPTY" <=> Mine(s) = {}
    <3>1. report[s] = ReportOf(s) /\ kept[s] = Mine(s)
      BY <1>1, <2>2 DEF IInv, SessionKeeps
    <3> QED BY <3>1 DEF ReportOf
  <2> QED BY <2>1, <2>2 DEF ReportIsTrue, Mine
<1> QED BY <1>1, IInvAlways, PTL

(* check_consistency (core/tracker.py) beside any number of programs that   *)
(* record and extend the catalog: its OK is right unless a profile was      *)
(* saved over the objectives, its failure unless somebody wrote.            *)
THEOREM ChecksAreRight == Spec => CheckIsRight
<1>1. ASSUME IInv, [Next]_vars, NEW p \in Process, step[p] = "count", step'[p] = "idle"
      PROVE  /\ (exit' = "ok" /\ p \notin overwritten) => Sound
             /\ (exit' = "check_failed" /\ p \notin disturbed) => ~Sound
  <2>1. Next
    BY <1>1 DEF vars, commandVars
  <2>2. Count(p) \/ GetAllStates(p) \/ exit' = "error"
    BY <1>1, <2>1, HowACommandEnds
  <2>3. ~GetAllStates(p)
    BY <1>1 DEF GetAllStates
  <2>4. CASE Count(p)
    BY <1>1, <2>4, CountIsRight
  <2>5. CASE exit' = "error"
    BY <2>5
  <2> QED BY <2>2, <2>3, <2>4, <2>5
<1>2. IInv /\ [Next]_vars =>
        [\A p \in Process :
           step[p] = "count" /\ step'[p] = "idle" =>
             /\ (exit' = "ok" /\ p \notin overwritten) => Sound
             /\ (exit' = "check_failed" /\ p \notin disturbed) => ~Sound]_vars
  BY <1>1
<1> QED BY <1>2, IInvAlways, PTL DEF Spec, CheckIsRight

(* run (ui/cli.py) lets a traceback escape in one way only: objectives,     *)
(* after an empty profile was saved between its two reads.                  *)
THEOREM TracebacksAreOfOverwriting == Spec => OnlyOverwritingEscapes
<1>1. ASSUME IInv, [Next]_vars, NEW p \in Process, step[p] # "idle", step'[p] = "idle",
             exit' = "traceback"
      PROVE  p \in overwritten /\ command[p] = Objectives
  <2>1. Next
    BY <1>1 DEF vars, commandVars
  <2>2. Count(p) \/ GetAllStates(p)
    BY <1>1, <2>1, HowACommandEnds
  <2>3. ~Count(p)
    BY <1>1 DEF Count, Exits
  <2>4. step[p] = "states" /\ ~(seen[p] \subseteq catalog)
    BY <1>1, <2>2, <2>3 DEF GetAllStates, Exits
  <2> QED BY <1>1, <2>4 DEF IInv, CommandKeeps, ReadsStand
<1>2. IInv /\ [Next]_vars =>
        [\A p \in Process :
           step[p] # "idle" /\ step'[p] = "idle" /\ exit' = "traceback" =>
             p \in overwritten /\ command[p] = Objectives]_vars
  BY <1>1
<1> QED BY <1>2, IInvAlways, PTL DEF Spec, OnlyOverwritingEscapes
=============================================================================
