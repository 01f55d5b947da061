----------------------- MODULE QuestionBankProperties -----------------------
(* What the bank promises: the contract of content/storage.py, the rules of *)
(* content/_common.py and the words of web/routers/material.py.             *)
EXTENDS QuestionBank

PC == {"idle", "foreign", "done"} \cup Open

Rows == [question : Question, by : Caller]

TypeOK ==
  /\ DOMAIN materials \subseteq Material
  /\ \A m \in DOMAIN materials : materials[m] \in Topic
  /\ table \subseteq Rows
  /\ pc \in [Caller -> PC]
  /\ call \in [Caller -> Calls \cup {None}]
  /\ targets \in [Caller -> SUBSET Rows]
  /\ marked \in [Caller -> SUBSET Rows]
  /\ written \in [Caller -> Nat]
  /\ outcome \in [Caller -> Refusal \cup {"none", "ok", "StorageError"}]
  /\ before \in [Caller -> SUBSET Rows]
  /\ \A t \in Caller : call[t] # None => written[t] <= Len(call[t].batch)

(* Each stored question is of the batch of its own call, which was not      *)
(* refused: it has returned, or lost the connection as it committed.        *)
RowsAreOfBatches ==
  \A r \in table :
    r \in BatchRows(call[r.by], r.by) /\ outcome[r.by] \in {"ok", "StorageError"}

(* No id is stored twice, whatever was refused, failed or rolled back has   *)
(* brought nothing, and a material's questions are under its topic.         *)
Integrity ==
  /\ TypeOK
  /\ RowsAreOfBatches
  /\ \A r, s \in table : r.question.question_id = s.question.question_id => r = s
  /\ \A r \in table : ~Orphan(r.question, materials) /\ ~WrongTopic(r.question, materials)

(* replace_for_material: what the material had when the call began is gone  *)
(* when it has returned, also when others replaced it meanwhile.  What else *)
(* it leaves beside its own set was brought by calls that overlapped it.    *)
ReplacedAreGone ==
  \A t \in Caller :
    outcome[t] = "ok" /\ call[t].kind = "replace" => before[t] \cap table = {}

(* A replacement that was overlapped: questions of its material that came   *)
(* after it began may stay beside its own set, since its DELETE did not see *)
(* them, or have an id that it needs.                                       *)
ReplacesAround(t) ==
  LET c    == call[t]
      old  == RowsOf(c.material, table)
      came == old \ before[t]
      ids  == {c.batch[i].question_id : i \in 1..Len(c.batch)}
  IN  /\ pc[t] = "insert" /\ pc'[t] = "done" /\ c.kind = "replace"
      /\ \A u \in Caller \ {t} : pc'[u] = pc[u]
      /\ materials' = materials
      /\ \/ /\ outcome'[t] \in {"ok", "StorageError"}
            /\ \E kept \in SUBSET came : table' = (table \ (old \ kept)) \cup BatchRows(c, t)
         \/ /\ outcome'[t] = "DuplicateQuestion" /\ table' = table
            /\ \E r \in came : r.question.question_id \in ids

(* Callers and readers see the bank of the contract, with one exception,    *)
(* which web/routers/material.py:218-220 does not expect.                   *)
ImplementsAtomicBank ==
  [][Abstract!Next \/ (\E t \in Caller : ReplacesAround(t))]_(Abstract!vars)

(* Every call returns or raises: no transaction waits for ever, whatever    *)
(* the others hold and however they fail; when no more begin, all end.      *)
AtRest == \A t \in Caller : pc[t] \in {"idle", "done"}

EveryCallEnds == ~AtRest ~> AtRest
=============================================================================
