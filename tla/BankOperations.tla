--------------------------- MODULE BankOperations ---------------------------
(***************************************************************************)
(* The content bank of content/: uploaded materials and the questions      *)
(* generated from them.  Here are its calls, the rules of                  *)
(* content/_common.py and what a call does to the questions, in the words  *)
(* of content/memory.py, the reference backend.                            *)
(***************************************************************************)
EXTENDS Integers, Sequences, FiniteSets

CONSTANTS
  Caller,       \* threads and processes; each makes one call
  Material,     \* material ids
  Topic,        \* topic ids
  QuestionId,   \* question ids
  Calls,        \* the calls that are made
  None          \* nothing

Question == [question_id : QuestionId, material : Material, topic : Topic]

AddMany(batch) == [kind |-> "add_many", material |-> None, batch |-> batch]

ReplaceForMaterial(m, batch) == [kind |-> "replace", material |-> m, batch |-> batch]

ASSUME CallAssumption ==
  \A c \in Calls :
    /\ c.batch \in Seq(Question)
    /\ \/ c = AddMany(c.batch)
       \/ c.material \in Material /\ c = ReplaceForMaterial(c.material, c.batch)

Refusal == {"UnknownMaterial", "InvalidQuestion", "DuplicateQuestion"}

(* A stored question remembers who brought it. *)
Row(q, t) == [question |-> q, by |-> t]

BatchRows(c, t) == {Row(c.batch[i], t) : i \in 1..Len(c.batch)}

RowsOf(m, table) == {r \in table : r.question.material = m}

-----------------------------------------------------------------------------
(* A question of the batch that belongs to another material. *)
HasForeign(c) ==
  c.kind = "replace" /\ \E i \in 1..Len(c.batch) : c.batch[i].material # c.material

(* The ids the batch must avoid: all that are stored, except those that are *)
(* about to be replaced.                                                    *)
Reserved(c, table) ==
  {r.question.question_id :
     r \in IF c.kind = "replace" THEN table \ RowsOf(c.material, table) ELSE table}

(* reject_duplicate_ids *)
HasDuplicate(c, table) ==
  \E i \in 1..Len(c.batch) :
    \/ c.batch[i].question_id \in Reserved(c, table)
    \/ \E j \in 1..(i - 1) : c.batch[j].question_id = c.batch[i].question_id

(* validate_ownership_and_topic, or the two foreign keys of the table *)
Orphan(q, materials) == q.material \notin DOMAIN materials

WrongTopic(q, materials) == ~Orphan(q, materials) /\ materials[q.material] # q.topic

(* Why a call may be refused.  The backends check in different orders: for  *)
(* an unknown material and a foreign question memory.py raises              *)
(* UnknownMaterialError, postgres.py InvalidQuestionError.                  *)
Justified(c, materials, table) ==
  {why \in Refusal :
     \/ /\ why = "UnknownMaterial"
        /\ \/ c.kind = "replace" /\ c.material \notin DOMAIN materials
           \/ \E i \in 1..Len(c.batch) : Orphan(c.batch[i], materials)
     \/ /\ why = "InvalidQuestion"
        /\ HasForeign(c) \/ \E i \in 1..Len(c.batch) : WrongTopic(c.batch[i], materials)
     \/ why = "DuplicateQuestion" /\ HasDuplicate(c, table)}

(* What a call that is accepted leaves in the bank. *)
Perform(c, t, table) ==
  (IF c.kind = "replace" THEN table \ RowsOf(c.material, table) ELSE table) \cup BatchRows(c, t)
=============================================================================
