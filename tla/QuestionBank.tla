---------------------------- MODULE QuestionBank ----------------------------
(***************************************************************************)
(* content/postgres.py: add_many and replace_for_material as transactions  *)
(* of PostgreSQL at its default isolation level, READ COMMITTED.  Each     *)
(* statement sees what was committed when it starts.  A DELETE marks the   *)
(* rows it saw, one after the other; it waits for a row that another       *)
(* transaction marked, and skips it when that one commits.  An INSERT      *)
(* waits for a transaction that brings, or marks, a row with its id.       *)
(***************************************************************************)
EXTENDS BankOperations

VARIABLES
  materials,   \* the materials table: topic of each uploaded material
  table,       \* the committed rows of the questions table
  pc,          \* the next statement of each caller
  call,        \* the call of each caller, or None
  targets,     \* rows the running DELETE of each transaction has still to mark
  marked,      \* rows each transaction has marked as deleted
  written,     \* how many questions of its batch each transaction has inserted
  outcome,     \* what each call returned or raised
  before       \* history: the rows of its material when each call began

vars == <<materials, table, pc, call, targets, marked, written, outcome, before>>

Init ==
  /\ materials = <<>>
  /\ table = {}
  /\ pc = [t \in Caller |-> "idle"]
  /\ call = [t \in Caller |-> None]
  /\ targets = [t \in Caller |-> {}]
  /\ marked = [t \in Caller |-> {}]
  /\ written = [t \in Caller |-> 0]
  /\ outcome = [t \in Caller |-> "none"]
  /\ before = [t \in Caller |-> {}]

-----------------------------------------------------------------------------
Open == {"material", "ids", "delete", "mark", "insert"}

Goto(t, from, to) == pc[t] = from /\ pc' = [pc EXCEPT ![t] = to]

(* Rows inserted and not committed *)
Pending(t) == {Row(call[t].batch[i], t) : i \in 1..written[t]}

Following(t) == call[t].batch[written[t] + 1]

(* The transactions that hold a row the INSERT of t must know the fate of. *)
InsertBlockers(t) ==
  {u \in Caller \ {t} :
     \E r \in marked[u] \cup Pending(u) : r.question.question_id = Following(t).question_id}

DeleteBlockers(t, r) == {u \in Caller \ {t} : r \in marked[u]}

(* The transactions t waits for, when it cannot go on. *)
WaitsFor(t) ==
  IF pc[t] = "insert" /\ written[t] < Len(call[t].batch) THEN InsertBlockers(t)
  ELSE IF pc[t] = "mark" /\ \A r \in targets[t] : DeleteBlockers(t, r) # {}
       THEN UNION {DeleteBlockers(t, r) : r \in targets[t]}
       ELSE {}

(* Mutant: the connection goes back to the pool in its transaction. *)
EndsOpen(t, why) ==
  /\ pc' = [pc EXCEPT ![t] = "done"]
  /\ outcome' = [outcome EXCEPT ![t] = why]
  /\ UNCHANGED <<call, targets, marked, written, before>>

(* The connection's context manager exits: nothing of t is pending or       *)
(* locked any more.                                                         *)
Ends(t, why) ==
  /\ pc' = [pc EXCEPT ![t] = "done"]
  /\ outcome' = [outcome EXCEPT ![t] = why]
  /\ targets' = [targets EXCEPT ![t] = {}]
  /\ marked' = [marked EXCEPT ![t] = {}]
  /\ written' = [written EXCEPT ![t] = 0]
  /\ UNCHANGED <<call, before>>

(* Mutant: what was inserted before the error is committed. *)
RollbackKeeping(t, why) ==
  Ends(t, why) /\ table' = table \cup Pending(t) /\ UNCHANGED materials

Rollback(t, why) == Ends(t, why) /\ UNCHANGED <<materials, table>>

-----------------------------------------------------------------------------
(* MaterialStore.add, one INSERT *)
Upload(m, topic) ==
  /\ m \notin DOMAIN materials
  /\ materials' = [x \in DOMAIN materials \cup {m} |-> IF x = m THEN topic ELSE materials[x]]
  /\ UNCHANGED <<table, pc, call, targets, marked, written, outcome, before>>

(* The call; a replacement looks at its batch before it connects.           *)
Begin(t, c) ==
  /\ pc[t] = "idle"
  /\ call' = [call EXCEPT ![t] = c]
  /\ before' = [before EXCEPT ![t] = RowsOf(c.material, table)]
  /\ \/ /\ HasForeign(c)
        /\ pc' = [pc EXCEPT ![t] = "foreign"]
     \/ /\ ~HasForeign(c)
        /\ pc' = [pc EXCEPT ![t] = IF c.kind = "replace" THEN "material" ELSE "ids"]
  /\ UNCHANGED <<materials, table, targets, marked, written, outcome>>

RefuseForeign(t) == pc[t] = "foreign" /\ Rollback(t, "InvalidQuestion")

(* _check_material_exists *)
CheckMaterial(t) ==
  \/ /\ Goto(t, "material", "ids")
     /\ call[t].material \in DOMAIN materials
     /\ UNCHANGED <<materials, table, call, targets, marked, written, outcome, before>>
  \/ /\ pc[t] = "material"
     /\ call[t].material \notin DOMAIN materials
     /\ Rollback(t, "UnknownMaterial")

(* _check_no_duplicates *)
CheckIds(t) ==
  \/ /\ pc[t] = "ids"
     /\ ~HasDuplicate(call[t], table)
     /\ Goto(t, "ids", IF call[t].kind = "replace" THEN "delete" ELSE "insert")
     /\ UNCHANGED <<materials, table, call, targets, marked, written, outcome, before>>
  \/ /\ pc[t] = "ids"
     /\ HasDuplicate(call[t], table)
     /\ Rollback(t, "DuplicateQuestion")

(* DELETE FROM questions WHERE material_id = ...: its snapshot *)
StartDelete(t) ==
  /\ Goto(t, "delete", "mark")
  /\ targets' = [targets EXCEPT ![t] = RowsOf(call[t].material, table)]
  /\ UNCHANGED <<materials, table, call, marked, written, outcome, before>>

(* One row of the snapshot: marked, or skipped when it is no longer there. *)
Mark(t) ==
  /\ pc[t] = "mark"
  /\ \E r \in targets[t] :
       /\ DeleteBlockers(t, r) = {}
       /\ targets' = [targets EXCEPT ![t] = @ \ {r}]
       /\ marked' = [marked EXCEPT ![t] = @ \cup ({r} \cap table)]
  /\ UNCHANGED <<materials, table, pc, call, written, outcome, before>>

(* Mutant: rows that others hold are passed over. *)
EndDeleteSkippingLocked(t) ==
  /\ Goto(t, "mark", "insert")
  /\ \A r \in targets[t] : DeleteBlockers(t, r) # {}
  /\ targets' = [targets EXCEPT ![t] = {}]
  /\ UNCHANGED <<materials, table, call, marked, written, outcome, before>>

EndDelete(t) ==
  /\ Goto(t, "mark", "insert")
  /\ targets[t] = {}
  /\ UNCHANGED <<materials, table, call, targets, marked, written, outcome, before>>

(* Mutant: question_id is not the primary key. *)
CollidesNever(t) == FALSE

(* A committed row that t did not mark has the id: UniqueViolation. *)
Collides(t) ==
  \E r \in table \ marked[t] : r.question.question_id = Following(t).question_id

(* _insert, when no other transaction is in the way: the primary key, then  *)
(* the two foreign keys.                                                    *)
Insert(t) ==
  /\ pc[t] = "insert"
  /\ written[t] < Len(call[t].batch)
  /\ InsertBlockers(t) = {}
  /\ \/ Collides(t) /\ Rollback(t, "DuplicateQuestion")
     \/ ~Collides(t) /\ Orphan(Following(t), materials) /\ Rollback(t, "UnknownMaterial")
     \/ ~Collides(t) /\ WrongTopic(Following(t), materials) /\ Rollback(t, "InvalidQuestion")
     \/ /\ ~Collides(t)
        /\ ~Orphan(Following(t), materials)
        /\ ~WrongTopic(Following(t), materials)
        /\ written' = [written EXCEPT ![t] = @ + 1]
        /\ UNCHANGED <<materials, table, pc, call, targets, marked, outcome, before>>

(* The with block ends and its connection commits.  The server may commit   *)
(* and the connection break before it says so: StorageError.                *)
Commit(t) ==
  /\ pc[t] = "insert"
  /\ written[t] = Len(call[t].batch)
  /\ table' = (table \ marked[t]) \cup Pending(t)
  /\ \E why \in {"ok", "StorageError"} : Ends(t, why)
  /\ UNCHANGED materials

(* psycopg.Error at any statement, or no connection at all. *)
Fails(t) == pc[t] \in Open /\ Rollback(t, "StorageError")

(* The server breaks a cycle of waiting transactions: one of them fails. *)
DeadlockDetected(t) ==
  /\ \E S \in SUBSET Caller :
       /\ t \in S
       /\ \A u \in S : (\E v \in S : v \in WaitsFor(u)) /\ (\E v \in S : u \in WaitsFor(v))
  /\ Rollback(t, "StorageError")

Step(t) ==
  \/ RefuseForeign(t)
  \/ CheckMaterial(t)
  \/ CheckIds(t)
  \/ StartDelete(t)
  \/ Mark(t)
  \/ EndDelete(t)
  \/ Insert(t)
  \/ Commit(t)
  \/ DeadlockDetected(t)

Next ==
  \/ \E m \in Material, topic \in Topic : Upload(m, topic)
  \/ \E t \in Caller :
       \/ \E c \in Calls : Begin(t, c)
       \/ Step(t)
       \/ Fails(t)

Spec == Init /\ [][Next]_vars

(* While some transaction can go on, one does; the server detects deadlocks *)
(* (deadlock_timeout).                                                      *)
FairSpec == Spec /\ WF_vars(\E t \in Caller : Step(t))

-----------------------------------------------------------------------------
(* The bank its readers see: the commit is the write. *)
Request(t) ==
  CASE pc[t] = "idle" -> [state |-> "idle"]
    [] pc[t] = "done" -> [state |-> "ended", call |-> call[t], outcome |-> outcome[t]]
    [] OTHER          -> [state |-> "asked", call |-> call[t]]

Abstract == INSTANCE AtomicBank WITH request <- [t \in Caller |-> Request(t)]
=============================================================================
