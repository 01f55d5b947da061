------------------------- MODULE QuestionBankProofs -------------------------
(***************************************************************************)
(* Proofs about QuestionBank, for any number of callers, materials and     *)
(* calls.  The argument: an id that a transaction has inserted is nobody   *)
(* else's, neither in the table nor pending nor marked, because an INSERT  *)
(* waits for whoever holds its id and a DELETE for whoever marked its row; *)
(* and a row of the past never comes back, because each row remembers a    *)
(* caller that has ended.                                                  *)
(***************************************************************************)
EXTENDS QuestionBankProperties, TLAPS

-----------------------------------------------------------------------------
(* The calls that the statements of each stage belong to. *)
Calling ==
  \A t \in Caller :
    /\ pc[t] # "idle" => call[t] \in Calls /\ written[t] <= Len(call[t].batch)
    /\ pc[t] = "foreign" => HasForeign(call[t])
    /\ pc[t] \in Open => ~HasForeign(call[t])
    /\ pc[t] \in {"material", "delete", "mark"} => call[t].kind = "replace"
    /\ pc[t] # "done" => outcome[t] = "none"

(* Only an INSERT under way has written, only a DELETE has marked, and only *)
(* rows of its material.                                                    *)
Holding ==
  \A t \in Caller :
    /\ pc[t] # "insert" => written[t] = 0
    /\ pc[t] \notin {"mark", "insert"} => marked[t] = {}
    /\ pc[t] # "mark" => targets[t] = {}
    /\ \A r \in targets[t] \cup marked[t] :
         call[t].kind = "replace" /\ r.question.material = call[t].material

(* A batch that was looked over does not repeat an id. *)
OwnIds ==
  \A t \in Caller : pc[t] \in {"delete", "mark", "insert"} =>
    \A i, j \in 1..Len(call[t].batch) :
      call[t].batch[i].question_id = call[t].batch[j].question_id => i = j

(* The id is in nobody's way but that of t: not in the table, unless t has  *)
(* marked the row, and neither marked nor pending elsewhere.                *)
IsFree(id, t) ==
  /\ \A r \in table \ marked[t] : r.question.question_id # id
  /\ \A u \in Caller \ {t} :
       /\ \A r \in marked[u] : r.question.question_id # id
       /\ \A j \in 1..written[u] : call[u].batch[j].question_id # id

(* What is inserted and not committed may be committed at any time. *)
PendingFits ==
  \A t \in Caller : \A i \in 1..written[t] :
    /\ IsFree(call[t].batch[i].question_id, t)
    /\ ~Orphan(call[t].batch[i], materials)
    /\ ~WrongTopic(call[t].batch[i], materials)

(* Rows are brought by calls that have ended: a row that is gone is gone    *)
(* for good, since nobody calls twice.                                      *)
Brought ==
  /\ \A r \in table : pc[r.by] = "done"
  /\ \A t \in Caller : \A r \in before[t] : pc[r.by] = "done"

(* How far each replacement has come with the rows it began with. *)
Replacing ==
  \A t \in Caller :
    /\ \A r \in before[t] : r.question.material = call[t].material
    /\ pc[t] = "mark" => before[t] \cap table \subseteq targets[t] \cup marked[t]
    /\ pc[t] = "insert" /\ call[t].kind = "replace" => before[t] \cap table \subseteq marked[t]

IInv ==
  /\ Integrity
  /\ Calling
  /\ Holding
  /\ OwnIds
  /\ PendingFits
  /\ Brought
  /\ Replacing
  /\ ReplacedAreGone

-----------------------------------------------------------------------------
(* The two shapes of a call. *)
LEMMA CallsTyped ==
  ASSUME NEW c \in Calls
  PROVE  /\ c.kind \in {"add_many", "replace"}
         /\ c.kind = "replace" => c.material \in Material
         /\ Len(c.batch) \in Nat
         /\ \A i \in 1..Len(c.batch) : c.batch[i] \in Question
<1>1. c.batch \in Seq(Question)
  BY CallAssumption
<1>2. c = AddMany(c.batch) \/ (c.material \in Material /\ c = ReplaceForMaterial(c.material, c.batch))
  BY CallAssumption
<1>3. c.kind \in {"add_many", "replace"} /\ (c.kind = "replace" => c.material \in Material)
  BY <1>2 DEF AddMany, ReplaceForMaterial
<1> QED BY <1>1, <1>3

(* What t has inserted is the beginning of its batch. *)
LEMMA PendingTyped ==
  ASSUME IInv, NEW t \in Caller, NEW i \in 1..written[t]
  PROVE  /\ pc[t] = "insert" /\ call[t] \in Calls
         /\ i \in 1..Len(call[t].batch)
         /\ call[t].batch[i] \in Question
<1>1. written[t] \in Nat /\ written[t] # 0
  BY DEF IInv, Integrity, TypeOK
<1>2. pc[t] = "insert"
  BY <1>1 DEF IInv, Holding
<1>3. call[t] \in Calls /\ written[t] <= Len(call[t].batch)
  BY <1>2 DEF IInv, Calling
<1>4. Len(call[t].batch) \in Nat
  BY <1>3, CallsTyped
<1>5. i \in 1..Len(call[t].batch)
  BY <1>1, <1>3, <1>4
<1> QED BY <1>2, <1>3, <1>5, CallsTyped

(* What has been brought stays of its batch: a call that has ended is over. *)
LEMMA RowsStayOfBatches ==
  ASSUME IInv, table' = table,
         \A u \in Caller : pc[u] = "done" => call'[u] = call[u] /\ outcome'[u] = outcome[u]
  PROVE  RowsAreOfBatches'
<1>1. ASSUME NEW r \in table
      PROVE  call'[r.by] = call[r.by] /\ outcome'[r.by] = outcome[r.by]
  BY DEF IInv, Integrity, TypeOK, Rows, Brought
<1>2. RowsAreOfBatches
  BY DEF IInv, Integrity
<1> QED BY <1>1, <1>2 DEF RowsAreOfBatches, BatchRows

LEMMA IInvInitially == Init => IInv
<1> SUFFICES ASSUME Init PROVE IInv
  OBVIOUS
<1> USE DEF Init
<1>1. TypeOK
  BY DEF TypeOK, PC, Rows
<1>2. Integrity
  BY <1>1 DEF Integrity, RowsAreOfBatches
<1>3. Calling /\ Holding /\ OwnIds
  BY DEF Calling, Holding, OwnIds, Open
<1>4. PendingFits /\ Brought /\ Replacing /\ ReplacedAreGone
  BY DEF PendingFits, Brought, Replacing, ReplacedAreGone
<1> QED BY <1>2, <1>3, <1>4 DEF IInv

(* A transaction that is rolled back leaves nothing behind. *)
LEMMA RollbackKeeps ==
  ASSUME IInv, NEW t \in Caller, pc[t] \in Open \cup {"foreign"},
         NEW why \in Refusal \cup {"StorageError"}, Rollback(t, why)
  PROVE  IInv'
<1>1. /\ pc' = [pc EXCEPT ![t] = "done"] /\ outcome' = [outcome EXCEPT ![t] = why]
      /\ targets' = [targets EXCEPT ![t] = {}] /\ marked' = [marked EXCEPT ![t] = {}]
      /\ written' = [written EXCEPT ![t] = 0]
      /\ UNCHANGED <<call, before, materials, table>>
  BY DEF Rollback, Ends
<1>2. why # "ok" /\ why # "none"
  BY DEF Refusal
<1>3. TypeOK /\ TypeOK'
  BY <1>1, CallsTyped DEF IInv, Integrity, TypeOK, PC
<1>4. Integrity'
  <2>1. pc[t] # "done"
    BY DEF Open
  <2>2. RowsAreOfBatches'
    BY <1>1, <1>3, <2>1, RowsStayOfBatches DEF TypeOK
  <2> QED BY <1>1, <1>3, <2>2 DEF IInv, Integrity, Orphan, WrongTopic
<1>5. Calling'
  BY <1>1, <1>3, CallsTyped DEF IInv, Calling, TypeOK, Open, HasForeign
<1>6. Holding' /\ OwnIds'
  BY <1>1, <1>3 DEF IInv, Holding, OwnIds, TypeOK
<1>7. PendingFits'
  <2> SUFFICES ASSUME NEW u \in Caller, NEW i \in 1..written'[u]
               PROVE  /\ IsFree(call[u].batch[i].question_id, u)'
                      /\ ~Orphan(call[u].batch[i], materials)'
                      /\ ~WrongTopic(call[u].batch[i], materials)'
    BY <1>1 DEF PendingFits
  <2>1. u # t /\ i \in 1..written[u] /\ marked'[u] = marked[u]
    BY <1>1, <1>3 DEF TypeOK
  <2>2. \A v \in Caller : /\ marked'[v] \subseteq marked[v]
                          /\ 1..written'[v] \subseteq 1..written[v]
    BY <1>1, <1>3 DEF TypeOK
  <2>3. /\ IsFree(call[u].batch[i].question_id, u)
        /\ ~Orphan(call[u].batch[i], materials)
        /\ ~WrongTopic(call[u].batch[i], materials)
    BY <2>1 DEF IInv, PendingFits
  <2>4. IsFree(call[u].batch[i].question_id, u)'
    BY <1>1, <2>1, <2>2, <2>3 DEF IsFree
  <2> QED BY <1>1, <2>3, <2>4 DEF Orphan, WrongTopic
<1>8. Brought' /\ Replacing'
  BY <1>1, <1>3 DEF IInv, Brought, Replacing, TypeOK, Rows
<1>9. ReplacedAreGone'
  BY <1>1, <1>2, <1>3 DEF IInv, ReplacedAreGone, TypeOK
<1> QED BY <1>4, <1>5, <1>6, <1>7, <1>8, <1>9 DEF IInv

(* A new material is not one that stored or pending questions are under. *)
LEMMA UploadKeeps ==
  ASSUME IInv, NEW m \in Material, NEW topic \in Topic, Upload(m, topic)
  PROVE  IInv'
<1>1. /\ DOMAIN materials' = DOMAIN materials \cup {m}
      /\ \A x \in DOMAIN materials : materials'[x] = materials[x]
      /\ materials'[m] = topic
      /\ UNCHANGED <<table, pc, call, targets, marked, written, outcome, before>>
  BY DEF Upload
<1>2. ASSUME NEW q, ~Orphan(q, materials), ~WrongTopic(q, materials)
      PROVE  ~Orphan(q, materials') /\ ~WrongTopic(q, materials')
  BY <1>1, <1>2 DEF Orphan, WrongTopic
<1>3. TypeOK'
  BY <1>1 DEF IInv, Integrity, TypeOK
<1>4. Integrity'
  BY <1>1, <1>2, <1>3, RowsStayOfBatches DEF IInv, Integrity
<1>5. PendingFits'
  BY <1>1, <1>2 DEF IInv, PendingFits, IsFree
<1> QED
  BY <1>1, <1>4, <1>5
  DEF IInv, Calling, Holding, OwnIds, Brought, Replacing, ReplacedAreGone, HasForeign

LEMMA BeginKeeps ==
  ASSUME IInv, NEW t \in Caller, NEW c \in Calls, Begin(t, c)
  PROVE  IInv'
<1>1. /\ pc[t] = "idle" /\ call' = [call EXCEPT ![t] = c]
      /\ before' = [before EXCEPT ![t] = RowsOf(c.material, table)]
      /\ UNCHANGED <<materials, table, targets, marked, written, outcome>>
  BY DEF Begin
<1>2. TypeOK
  BY DEF IInv, Integrity
<1>3. PICK stage \in {"foreign", "material", "ids"} :
        /\ pc' = [pc EXCEPT ![t] = stage]
        /\ stage = "foreign" <=> HasForeign(c)
        /\ stage = "material" => c.kind = "replace"
  BY DEF Begin
<1>4. written[t] = 0 /\ marked[t] = {} /\ targets[t] = {} /\ outcome[t] = "none"
  BY <1>1 DEF IInv, Holding, Calling
<1>5. TypeOK'
  BY <1>1, <1>2, <1>3, <1>4, CallsTyped DEF TypeOK, PC, Open, RowsOf
<1>6. Integrity'
  <2>1. RowsAreOfBatches'
    BY <1>1, <1>2, RowsStayOfBatches DEF TypeOK
  <2> QED BY <1>1, <1>5, <2>1 DEF IInv, Integrity, Orphan, WrongTopic
<1>7. Calling'
  BY <1>1, <1>2, <1>3, <1>4, CallsTyped DEF IInv, Calling, TypeOK, Open, HasForeign
<1>8. Holding' /\ OwnIds'
  BY <1>1, <1>2, <1>3, <1>4 DEF IInv, Holding, OwnIds, TypeOK
<1>9. PendingFits'
  <2> SUFFICES ASSUME NEW u \in Caller, NEW i \in 1..written[u]
               PROVE  /\ IsFree(call[u].batch[i].question_id, u)'
                      /\ ~Orphan(call[u].batch[i], materials)'
                      /\ ~WrongTopic(call[u].batch[i], materials)'
    BY <1>1 DEF PendingFits
  <2>1. u # t /\ call'[u] = call[u]
    BY <1>1, <1>2, <1>4 DEF TypeOK
  <2>2. /\ IsFree(call[u].batch[i].question_id, u)
        /\ ~Orphan(call[u].batch[i], materials)
        /\ ~WrongTopic(call[u].batch[i], materials)
    BY DEF IInv, PendingFits
  <2>3. \A v \in Caller : v # t => call'[v] = call[v]
    BY <1>1, <1>2 DEF TypeOK
  <2>4. IsFree(call[u].batch[i].question_id, u)'
    BY <1>1, <1>4, <2>1, <2>2, <2>3 DEF IsFree
  <2> QED BY <1>1, <2>1, <2>2, <2>4 DEF Orphan, WrongTopic
<1>10. Brought'
  BY <1>1, <1>2, <1>3 DEF IInv, Brought, TypeOK, RowsOf, Rows
<1>11. Replacing'
  BY <1>1, <1>2, <1>3 DEF IInv, Replacing, TypeOK, RowsOf
<1>12. ReplacedAreGone'
  BY <1>1, <1>2, <1>4 DEF IInv, ReplacedAreGone, TypeOK
<1> QED BY <1>6, <1>7, <1>8, <1>9, <1>10, <1>11, <1>12 DEF IInv

(* A statement that changes nothing but where t is. *)
LEMMA GotoKeeps ==
  ASSUME IInv, NEW t \in Caller, NEW from, NEW to, Goto(t, from, to),
         UNCHANGED <<materials, table, call, targets, marked, written, outcome, before>>,
         from \in {"material", "ids", "mark"}, to \in {"ids", "delete", "insert"},
         to = "delete" => call[t].kind = "replace",
         from = "mark" => to = "insert" /\ targets[t] = {},
         from = "ids" /\ to = "insert" => call[t].kind # "replace",
         from = "material" => to = "ids",
         to \in {"delete", "insert"} =>
           \A i, j \in 1..Len(call[t].batch) :
             call[t].batch[i].question_id = call[t].batch[j].question_id => i = j
  PROVE  IInv'
<1>1. pc[t] = from /\ pc' = [pc EXCEPT ![t] = to]
  BY DEF Goto
<1>2. TypeOK
  BY DEF IInv, Integrity
<1>3. TypeOK'
  BY <1>1, <1>2 DEF TypeOK, PC, Open
<1>4. Integrity'
  BY <1>3, RowsStayOfBatches DEF IInv, Integrity, Orphan, WrongTopic
<1>5. Calling' /\ Holding'
  BY <1>1, <1>2 DEF IInv, Calling, Holding, TypeOK, Open, HasForeign
<1>6. OwnIds'
  BY <1>1, <1>2 DEF IInv, OwnIds, TypeOK
<1>7. PendingFits'
  BY DEF IInv, PendingFits, IsFree, Orphan, WrongTopic
<1>8. Brought'
  BY <1>1, <1>2 DEF IInv, Brought, TypeOK, Rows
<1>9. Replacing' /\ ReplacedAreGone'
  BY <1>1, <1>2 DEF IInv, Replacing, ReplacedAreGone, TypeOK
<1> QED BY <1>4, <1>5, <1>6, <1>7, <1>8, <1>9 DEF IInv

LEMMA CheckMaterialKeeps ==
  ASSUME IInv, NEW t \in Caller, CheckMaterial(t)
  PROVE  IInv'
<1>1. CASE Goto(t, "material", "ids") /\ UNCHANGED <<materials, table, call, targets, marked, written, outcome, before>>
  BY <1>1, GotoKeeps
<1>2. CASE pc[t] = "material" /\ Rollback(t, "UnknownMaterial")
  BY <1>2, RollbackKeeps DEF Open, Refusal
<1> QED BY <1>1, <1>2 DEF CheckMaterial

LEMMA CheckIdsKeeps ==
  ASSUME IInv, NEW t \in Caller, CheckIds(t)
  PROVE  IInv'
<1>1. CASE pc[t] = "ids" /\ Rollback(t, "DuplicateQuestion")
  BY <1>1, RollbackKeeps DEF Open, Refusal
<1>2. CASE /\ pc[t] = "ids" /\ ~HasDuplicate(call[t], table)
           /\ Goto(t, "ids", IF call[t].kind = "replace" THEN "delete" ELSE "insert")
           /\ UNCHANGED <<materials, table, call, targets, marked, written, outcome, before>>
  <2>1. Len(call[t].batch) \in Nat
    BY <1>2, CallsTyped DEF IInv, Calling
  <2>2. \A i, j \in 1..Len(call[t].batch) :
          call[t].batch[i].question_id = call[t].batch[j].question_id => i = j
    BY <1>2, <2>1 DEF HasDuplicate
  <2> QED BY <1>2, <2>2, GotoKeeps
<1> QED BY <1>1, <1>2 DEF CheckIds

LEMMA StartDeleteKeeps ==
  ASSUME IInv, NEW t \in Caller, StartDelete(t)
  PROVE  IInv'
<1>1. /\ pc[t] = "delete" /\ pc' = [pc EXCEPT ![t] = "mark"]
      /\ targets' = [targets EXCEPT ![t] = RowsOf(call[t].material, table)]
      /\ UNCHANGED <<materials, table, call, marked, written, outcome, before>>
  BY DEF StartDelete, Goto
<1>2. TypeOK
  BY DEF IInv, Integrity
<1>3. TypeOK'
  BY <1>1, <1>2 DEF TypeOK, PC, Open, RowsOf
<1>4. Integrity'
  BY <1>1, <1>3, RowsStayOfBatches DEF IInv, Integrity, Orphan, WrongTopic
<1>5. Calling' /\ Holding'
  <2>1. Calling'
    BY <1>1, <1>2 DEF IInv, Calling, TypeOK, Open, HasForeign
  <2>2. call[t].kind = "replace"
    BY <1>1 DEF IInv, Calling
  <2>3. Holding'
    BY <1>1, <1>2, <2>2 DEF IInv, Holding, TypeOK, RowsOf
  <2> QED BY <2>1, <2>3
<1>6. OwnIds'
  BY <1>1, <1>2 DEF IInv, OwnIds, TypeOK
<1>7. PendingFits'
  BY <1>1 DEF IInv, PendingFits, IsFree, Orphan, WrongTopic
<1>8. Brought'
  BY <1>1, <1>2 DEF IInv, Brought, TypeOK, Rows
<1>9. Replacing' /\ ReplacedAreGone'
  BY <1>1, <1>2 DEF IInv, Replacing, ReplacedAreGone, TypeOK, RowsOf
<1> QED BY <1>4, <1>5, <1>6, <1>7, <1>8, <1>9 DEF IInv

(* A row whose id somebody has pending is marked by that transaction, so    *)
(* that the DELETE of t waits for it.                                       *)
LEMMA MarkKeeps ==
  ASSUME IInv, NEW t \in Caller, Mark(t)
  PROVE  IInv'
<1>1. PICK r \in targets[t] :
        /\ DeleteBlockers(t, r) = {}
        /\ targets' = [targets EXCEPT ![t] = @ \ {r}]
        /\ marked' = [marked EXCEPT ![t] = @ \cup ({r} \cap table)]
  BY DEF Mark
<1>2. /\ pc[t] = "mark"
      /\ UNCHANGED <<materials, table, pc, call, written, outcome, before>>
  BY DEF Mark
<1>3. TypeOK
  BY DEF IInv, Integrity
<1>4. TypeOK'
  BY <1>1, <1>2, <1>3 DEF TypeOK
<1>5. Integrity'
  BY <1>2, <1>4, RowsStayOfBatches DEF IInv, Integrity, Orphan, WrongTopic
<1>6. Calling' /\ OwnIds' /\ Brought' /\ ReplacedAreGone'
  BY <1>2 DEF IInv, Calling, OwnIds, Brought, ReplacedAreGone, HasForeign
<1>7. Holding'
  BY <1>1, <1>2, <1>3 DEF IInv, Holding, TypeOK
<1>8. PendingFits'
  <2> SUFFICES ASSUME NEW u \in Caller, NEW i \in 1..written[u]
               PROVE  IsFree(call[u].batch[i].question_id, u)'
    BY <1>2 DEF IInv, PendingFits, Orphan, WrongTopic
  <2> DEFINE id == call[u].batch[i].question_id
  <2>1. IsFree(id, u)
    BY DEF IInv, PendingFits
  <2>2. u # t
    BY <1>2, <1>3, PendingTyped
  <2>3. marked'[u] = marked[u] /\ r \notin marked[u]
    BY <1>1, <1>3, <2>2 DEF TypeOK, DeleteBlockers
  <2>4. r \in table => r.question.question_id # id
    BY <2>1, <2>3 DEF IsFree
  <2>5. \A v \in Caller : marked'[v] = marked[v] \/ (v = t /\ marked'[v] = marked[t] \cup ({r} \cap table))
    BY <1>1, <1>3 DEF TypeOK
  <2>6. \A v \in Caller \ {u} : \A s \in marked'[v] : s.question.question_id # id
    BY <2>1, <2>2, <2>4, <2>5 DEF IsFree
  <2> QED BY <1>2, <2>1, <2>3, <2>6 DEF IsFree
<1>9. Replacing'
  BY <1>1, <1>2, <1>3 DEF IInv, Replacing, TypeOK
<1> QED BY <1>5, <1>6, <1>7, <1>8, <1>9 DEF IInv

LEMMA EndDeleteKeeps ==
  ASSUME IInv, NEW t \in Caller, EndDelete(t)
  PROVE  IInv'
<1>1. Goto(t, "mark", "insert") /\ targets[t] = {}
  BY DEF EndDelete
<1>2. \A i, j \in 1..Len(call[t].batch) :
        call[t].batch[i].question_id = call[t].batch[j].question_id => i = j
  BY <1>1 DEF IInv, OwnIds, Goto
<1> QED BY <1>1, <1>2, GotoKeeps DEF EndDelete

(* The id of the question that is inserted is nobody else's: the INSERT has *)
(* waited for whoever held it.                                              *)
LEMMA InsertKeeps ==
  ASSUME IInv, NEW t \in Caller, Insert(t)
  PROVE  IInv'
<1>1. /\ pc[t] = "insert" /\ written[t] < Len(call[t].batch) /\ InsertBlockers(t) = {}
  BY DEF Insert
<1>2. CASE \E why \in Refusal : Rollback(t, why)
  BY <1>1, <1>2, RollbackKeeps DEF Open
<1>3. CASE /\ ~Collides(t)
           /\ ~Orphan(Following(t), materials)
           /\ ~WrongTopic(Following(t), materials)
           /\ written' = [written EXCEPT ![t] = @ + 1]
           /\ UNCHANGED <<materials, table, pc, call, targets, marked, outcome, before>>
  <2> DEFINE k == written[t] + 1
  <2>1. TypeOK
    BY DEF IInv, Integrity
  <2>2. call[t] \in Calls /\ Len(call[t].batch) \in Nat
    BY <1>1, CallsTyped DEF IInv, Calling
  <2>3. TypeOK'
    BY <1>1, <1>3, <2>1, <2>2 DEF TypeOK
  <2>4. Integrity'
    BY <1>3, <2>3, RowsStayOfBatches DEF IInv, Integrity, Orphan, WrongTopic
  <2>5. Calling' /\ Holding'
    BY <1>1, <1>3, <2>1, <2>2 DEF IInv, Calling, Holding, TypeOK, HasForeign
  <2>6. OwnIds' /\ Brought' /\ Replacing' /\ ReplacedAreGone'
    BY <1>3 DEF IInv, OwnIds, Brought, Replacing, ReplacedAreGone
  <2>7. PendingFits'
    <3>1. IsFree(Following(t).question_id, t)
      <4>1. \A r \in table \ marked[t] : r.question.question_id # Following(t).question_id
        BY <1>3 DEF Collides
      <4>2. ASSUME NEW u \in Caller \ {t}
            PROVE  \A r \in marked[u] \cup Pending(u) : r.question.question_id # Following(t).question_id
        BY <1>1 DEF InsertBlockers
      <4>3. ASSUME NEW u \in Caller \ {t}, NEW j \in 1..written[u]
            PROVE  call[u].batch[j].question_id # Following(t).question_id
        <5>1. Row(call[u].batch[j], u) \in Pending(u)
          BY DEF Pending
        <5> QED BY <4>2, <5>1 DEF Row
      <4> QED BY <4>1, <4>2, <4>3 DEF IsFree
    <3>2. ASSUME NEW id, IsFree(id, t) PROVE IsFree(id, t)'
      BY <1>3, <2>1, <3>2 DEF IsFree, TypeOK
    <3>3. ASSUME NEW i \in 1..written'[t] PROVE IsFree(call[t].batch[i].question_id, t)'
      <4>1. i \in 1..written[t] \/ i = k
        BY <1>3, <2>1 DEF TypeOK
      <4>2. IsFree(call[t].batch[i].question_id, t)
        BY <3>1, <4>1 DEF IInv, PendingFits, Following
      <4> QED BY <1>3, <3>2, <4>2 DEF IsFree
    <3>4. ASSUME NEW u \in Caller \ {t}, NEW i \in 1..written[u]
          PROVE  IsFree(call[u].batch[i].question_id, u)'
      <4> DEFINE id == call[u].batch[i].question_id
      <4>1. IsFree(id, u)
        BY DEF IInv, PendingFits
      <4>2. call[t].batch[k].question_id # id
        BY <3>1 DEF IsFree, Following
      <4>3. \A v \in Caller \ {u} : \A j \in 1..written'[v] : j \in 1..written[v] \/ (v = t /\ j = k)
        BY <1>3, <2>1 DEF TypeOK
      <4> QED BY <1>3, <4>1, <4>2, <4>3 DEF IsFree
    <3>5. ASSUME NEW u \in Caller, NEW i \in 1..written'[u]
          PROVE  ~Orphan(call[u].batch[i], materials) /\ ~WrongTopic(call[u].batch[i], materials)
      <4>1. i \in 1..written[u] \/ (u = t /\ i = k)
        BY <1>3, <2>1 DEF TypeOK
      <4> QED BY <1>3, <4>1 DEF IInv, PendingFits, Following
    <3>6. ASSUME NEW u \in Caller, NEW i \in 1..written'[u]
          PROVE  IsFree(call[u].batch[i].question_id, u)'
      BY <1>3, <2>1, <3>3, <3>4 DEF TypeOK
    <3> QED BY <1>3, <3>5, <3>6 DEF PendingFits, Orphan, WrongTopic
  <2> QED BY <2>4, <2>5, <2>6, <2>7 DEF IInv
<1> QED BY <1>2, <1>3 DEF Insert, Refusal

(* The rows that are committed have ids of their own, under materials that  *)
(* are there, and none of them was there before.                            *)
LEMMA CommitKeeps ==
  ASSUME IInv, NEW t \in Caller, Commit(t)
  PROVE  IInv'
<1>1. PICK why \in {"ok", "StorageError"} : Ends(t, why)
  BY DEF Commit
<1>2. /\ pc[t] = "insert" /\ written[t] = Len(call[t].batch)
      /\ table' = (table \ marked[t]) \cup Pending(t)
      /\ materials' = materials
  BY DEF Commit
<1>3. /\ pc' = [pc EXCEPT ![t] = "done"] /\ outcome' = [outcome EXCEPT ![t] = why]
      /\ targets' = [targets EXCEPT ![t] = {}] /\ marked' = [marked EXCEPT ![t] = {}]
      /\ written' = [written EXCEPT ![t] = 0]
      /\ UNCHANGED <<call, before>>
  BY <1>1 DEF Ends
<1>4. TypeOK
  BY DEF IInv, Integrity
<1>5. \A r \in Pending(t) : \E i \in 1..written[t] :
        r = Row(call[t].batch[i], t) /\ call[t].batch[i] \in Question
  BY PendingTyped DEF Pending
<1>6. Pending(t) \subseteq Rows /\ \A r \in Pending(t) : r.by = t
  BY <1>5 DEF Row, Rows
<1>7. TypeOK'
  BY <1>2, <1>3, <1>4, <1>6, CallsTyped DEF TypeOK, PC
<1>8. \A r \in Pending(t) :
        /\ IsFree(r.question.question_id, t)
        /\ ~Orphan(r.question, materials) /\ ~WrongTopic(r.question, materials)
  BY <1>5 DEF IInv, PendingFits, Row
<1>9. Integrity'
  <2>1. ASSUME NEW r \in Pending(t), NEW s \in Pending(t),
               r.question.question_id = s.question.question_id
        PROVE  r = s
    <3>1. PICK i \in 1..written[t] : r = Row(call[t].batch[i], t)
      BY <1>5
    <3>2. PICK j \in 1..written[t] : s = Row(call[t].batch[j], t)
      BY <1>5
    <3>3. i = j
      BY <1>2, <2>1, <3>1, <3>2 DEF IInv, OwnIds, Row
    <3> QED BY <3>1, <3>2, <3>3
  <2>2. \A r \in Pending(t), s \in table \ marked[t] :
          r.question.question_id # s.question.question_id
    BY <1>8 DEF IsFree
  <2>3. \A r, s \in table' : r.question.question_id = s.question.question_id => r = s
    BY <1>2, <2>1, <2>2 DEF IInv, Integrity
  <2>4. \A r \in table' : ~Orphan(r.question, materials) /\ ~WrongTopic(r.question, materials)
    BY <1>2, <1>8 DEF IInv, Integrity
  <2>5. RowsAreOfBatches'
    <3>1. ASSUME NEW r \in table
          PROVE  r.by # t /\ outcome'[r.by] = outcome[r.by]
      BY <1>2, <1>3, <1>4 DEF IInv, Brought, TypeOK, Rows
    <3>2. \A r \in table : r \in BatchRows(call[r.by], r.by)
                          /\ outcome'[r.by] \in {"ok", "StorageError"}
      BY <3>1 DEF IInv, Integrity, RowsAreOfBatches
    <3>3. \A r \in Pending(t) : r.by = t /\ r \in BatchRows(call[t], t)
      BY <1>2, <1>5, <1>6 DEF BatchRows
    <3>4. outcome'[t] \in {"ok", "StorageError"}
      BY <1>3, <1>4 DEF TypeOK
    <3>5. \A r \in table' : r \in BatchRows(call[r.by], r.by)
                           /\ outcome'[r.by] \in {"ok", "StorageError"}
      BY <1>2, <3>2, <3>3, <3>4
    <3> QED BY <1>3, <3>5 DEF RowsAreOfBatches, BatchRows
  <2> QED BY <1>2, <1>7, <2>3, <2>4, <2>5 DEF Integrity, Orphan, WrongTopic
<1>10. Calling'
  <2>1. call[t] \in Calls /\ 0 <= Len(call[t].batch)
    BY <1>2, CallsTyped DEF IInv, Calling
  <2>2. /\ pc'[t] = "done" /\ written'[t] = 0
        /\ \A u \in Caller \ {t} : pc'[u] = pc[u] /\ written'[u] = written[u] /\ outcome'[u] = outcome[u]
    BY <1>3, <1>4 DEF TypeOK
  <2> QED BY <1>3, <2>1, <2>2 DEF IInv, Calling, Open, HasForeign
<1>11. Holding' /\ OwnIds'
  BY <1>3, <1>4 DEF IInv, Holding, OwnIds, TypeOK
<1>12. PendingFits'
  <2> SUFFICES ASSUME NEW u \in Caller, NEW i \in 1..written'[u]
               PROVE  /\ IsFree(call[u].batch[i].question_id, u)'
                      /\ ~Orphan(call[u].batch[i], materials)'
                      /\ ~WrongTopic(call[u].batch[i], materials)'
    BY <1>3 DEF PendingFits
  <2> DEFINE id == call[u].batch[i].question_id
  <2>1. u # t /\ i \in 1..written[u] /\ marked'[u] = marked[u]
    BY <1>3, <1>4 DEF TypeOK
  <2>2. IsFree(id, u) /\ ~Orphan(call[u].batch[i], materials) /\ ~WrongTopic(call[u].batch[i], materials)
    BY <2>1 DEF IInv, PendingFits
  <2>3. \A v \in Caller : marked'[v] \subseteq marked[v] /\ 1..written'[v] \subseteq 1..written[v]
    BY <1>3, <1>4 DEF TypeOK
  <2>4. \A r \in Pending(t) : r.question.question_id # id
    BY <1>5, <2>1, <2>2 DEF IsFree, Row
  <2>5. \A r \in table' \ marked'[u] : r.question.question_id # id
    BY <1>2, <2>1, <2>2, <2>4 DEF IsFree
  <2>6. IsFree(id, u)'
    BY <1>3, <2>1, <2>2, <2>3, <2>5 DEF IsFree
  <2> QED BY <1>2, <1>3, <2>2, <2>6 DEF Orphan, WrongTopic
<1>13. Brought'
  BY <1>2, <1>3, <1>4, <1>6 DEF IInv, Brought, TypeOK, Rows
<1>14. \A u \in Caller : before[u] \cap table' \subseteq before[u] \cap (table \ marked[t])
  BY <1>2, <1>6 DEF IInv, Brought
<1>15. Replacing'
  BY <1>3, <1>4, <1>14 DEF IInv, Replacing, TypeOK
<1>16. ReplacedAreGone'
  <2>1. \A u \in Caller \ {t} : outcome'[u] = outcome[u]
    BY <1>3, <1>4 DEF TypeOK
  <2>2. call[t].kind = "replace" => before[t] \cap table \subseteq marked[t]
    BY <1>2 DEF IInv, Replacing
  <2> QED BY <1>3, <1>14, <2>1, <2>2 DEF IInv, ReplacedAreGone
<1> QED BY <1>9, <1>10, <1>11, <1>12, <1>13, <1>15, <1>16 DEF IInv

(* Only a transaction that waits for a row is chosen to break a deadlock. *)
LEMMA DeadlockIsOpen ==
  ASSUME NEW t \in Caller, DeadlockDetected(t)
  PROVE  pc[t] \in Open
BY DEF DeadlockDetected, WaitsFor, Open

LEMMA IInvStep == IInv /\ [Next]_vars => IInv'
<1> SUFFICES ASSUME IInv, [Next]_vars PROVE IInv'
  OBVIOUS
<1>1. ASSUME NEW t \in Caller, RefuseForeign(t) PROVE IInv'
  BY <1>1, RollbackKeeps DEF RefuseForeign, Refusal
<1>2. ASSUME NEW t \in Caller, Fails(t) PROVE IInv'
  BY <1>2, RollbackKeeps DEF Fails
<1>3. ASSUME NEW t \in Caller, DeadlockDetected(t) PROVE IInv'
  BY <1>3, RollbackKeeps, DeadlockIsOpen DEF DeadlockDetected
<1>4. CASE UNCHANGED vars
  <2>1. Integrity'
    BY <1>4, RowsStayOfBatches DEF vars, IInv, Integrity, TypeOK, Orphan, WrongTopic
  <2>2. PendingFits'
    BY <1>4 DEF vars, IInv, PendingFits, IsFree, Orphan, WrongTopic
  <2>3. Calling' /\ Holding' /\ OwnIds'
    BY <1>4 DEF vars, IInv, Calling, Holding, OwnIds, HasForeign
  <2>4. Brought' /\ Replacing' /\ ReplacedAreGone'
    BY <1>4 DEF vars, IInv, Brought, Replacing, ReplacedAreGone
  <2> QED BY <2>1, <2>2, <2>3, <2>4 DEF IInv
<1> QED
  BY <1>1, <1>2, <1>3, <1>4, UploadKeeps, BeginKeeps, CheckMaterialKeeps, CheckIdsKeeps,
     StartDeleteKeeps, MarkKeeps, EndDeleteKeeps, InsertKeeps, CommitKeeps
  DEF Next, Step

LEMMA IInvAlways == Spec => []IInv
BY IInvInitially, IInvStep, PTL DEF Spec

(* Whatever callers race, wait, fail or are chosen to break a deadlock, no  *)
(* id is stored twice, every stored question is one of the batch of a call  *)
(* that was not refused, and it is under its material's topic.              *)
THEOREM BankKeepsIntegrity == Spec => []Integrity
<1>1. IInv => Integrity
  BY DEF IInv
<1> QED BY <1>1, IInvAlways, PTL

(* When a replacement has returned, nothing is left of what its material    *)
(* had when it began, whoever replaced or added questions meanwhile.        *)
THEOREM ReplacementRemovesTheOld == Spec => []ReplacedAreGone
<1>1. IInv => ReplacedAreGone
  BY DEF IInv
<1> QED BY <1>1, IInvAlways, PTL

-----------------------------------------------------------------------------
(* The refinement: Begin asks, Commit is the write, a rollback refuses for  *)
(* a reason or fails, and every other step stutters.                        *)

(* Both specifications take BankOperations with the same constants. *)
LEMMA SameOperations ==
  ASSUME NEW c, NEW t, NEW ms, NEW rows
  PROVE  /\ Abstract!Justified(c, ms, rows) = Justified(c, ms, rows)
         /\ Abstract!Perform(c, t, rows) = Perform(c, t, rows)
BY DEF Abstract!Justified, Justified, Abstract!Refusal, Refusal, Abstract!Orphan, Orphan,
       Abstract!WrongTopic, WrongTopic, Abstract!HasForeign, HasForeign,
       Abstract!HasDuplicate, HasDuplicate, Abstract!Reserved, Reserved,
       Abstract!RowsOf, RowsOf, Abstract!Perform, Perform,
       Abstract!BatchRows, BatchRows, Abstract!Row, Row

(* A step of t that leaves the others alone changes the request of t only. *)
LEMMA RequestOfOne ==
  ASSUME NEW t \in Caller,
         \A u \in Caller \ {t} : pc'[u] = pc[u] /\ call'[u] = call[u] /\ outcome'[u] = outcome[u],
         NEW r, r = Request(t)'
  PROVE  [u \in Caller |-> Request(u)'] = [[u \in Caller |-> Request(u)] EXCEPT ![t] = r]
BY DEF Request

LEMMA EndsRefined ==
  ASSUME IInv, NEW t \in Caller, pc[t] \in Open \cup {"foreign"}, NEW why, Ends(t, why)
  PROVE  /\ Abstract!Pending(t)
         /\ [u \in Caller |-> Request(u)][t].call = call[t]
         /\ [u \in Caller |-> Request(u)'] =
              [[u \in Caller |-> Request(u)] EXCEPT ![t] = Abstract!Ended(call[t], why)]
<1>1. TypeOK
  BY DEF IInv, Integrity
<1>2. \A u \in Caller \ {t} : pc'[u] = pc[u] /\ call'[u] = call[u] /\ outcome'[u] = outcome[u]
  BY <1>1 DEF Ends, TypeOK
<1>3. Request(t)' = [state |-> "ended", call |-> call[t], outcome |-> why]
  BY <1>1 DEF Ends, TypeOK, Request
<1>4. Request(t) = [state |-> "asked", call |-> call[t]]
  BY DEF Request, Open
<1>5. [u \in Caller |-> Request(u)][t] = [state |-> "asked", call |-> call[t]]
  BY <1>4
<1> QED BY <1>2, <1>3, <1>5, RequestOfOne DEF Abstract!Pending, Abstract!Ended

LEMMA RefusalRefined ==
  ASSUME IInv, NEW t \in Caller, pc[t] \in Open \cup {"foreign"},
         NEW why, Rollback(t, why), why \in Justified(call[t], materials, table)
  PROVE  Abstract!Refuse(t)
<1>1. why \in Abstract!Justified(call[t], materials, table)
  BY SameOperations
<1>2. /\ Abstract!Pending(t) /\ [u \in Caller |-> Request(u)][t].call = call[t]
      /\ [u \in Caller |-> Request(u)'] =
           [[u \in Caller |-> Request(u)] EXCEPT ![t] = Abstract!Ended(call[t], why)]
      /\ UNCHANGED <<materials, table>>
  BY EndsRefined DEF Rollback
<1> QED BY <1>1, <1>2 DEF Abstract!Refuse

LEMMA FailureRefined ==
  ASSUME IInv, NEW t \in Caller, pc[t] \in Open, Rollback(t, "StorageError")
  PROVE  Abstract!Fail(t)
<1>1. /\ Abstract!Pending(t) /\ [u \in Caller |-> Request(u)][t].call = call[t]
      /\ [u \in Caller |-> Request(u)'] =
           [[u \in Caller |-> Request(u)] EXCEPT ![t] = Abstract!Ended(call[t], "StorageError")]
      /\ UNCHANGED <<materials, table>>
  BY EndsRefined DEF Rollback
<1> QED BY <1>1 DEF Abstract!Fail

LEMMA StutterRefined ==
  ASSUME IInv, NEW t \in Caller, pc[t] \in Open, pc'[t] \in Open,
         \A u \in Caller \ {t} : pc'[u] = pc[u],
         UNCHANGED <<materials, table, call, outcome>>
  PROVE  UNCHANGED Abstract!vars
<1>1. Request(t)' = Request(t)
  BY DEF Request, Open
<1>2. \A u \in Caller \ {t} : Request(u)' = Request(u)
  BY DEF Request
<1> QED BY <1>1, <1>2 DEF Abstract!vars

LEMMA BeginRefined ==
  ASSUME IInv, NEW t \in Caller, NEW c \in Calls, Begin(t, c)
  PROVE  Abstract!Ask(t, c)
<1>1. TypeOK
  BY DEF IInv, Integrity
<1>2. \A u \in Caller \ {t} : pc'[u] = pc[u] /\ call'[u] = call[u] /\ outcome'[u] = outcome[u]
  BY <1>1 DEF Begin, TypeOK
<1>3. Request(t) = [state |-> "idle"] /\ Request(t)' = [state |-> "asked", call |-> c]
  BY <1>1 DEF Begin, TypeOK, Request
<1> QED
  BY <1>2, <1>3, RequestOfOne DEF Begin, Abstract!Ask, Abstract!Idle, Abstract!Asked

LEMMA CheckMaterialRefined ==
  ASSUME IInv, NEW t \in Caller, CheckMaterial(t)
  PROVE  Abstract!Refuse(t) \/ UNCHANGED Abstract!vars
<1>1. TypeOK
  BY DEF IInv, Integrity
<1>2. CASE /\ pc[t] = "material" /\ call[t].material \notin DOMAIN materials
           /\ Rollback(t, "UnknownMaterial")
  <2>1. call[t].kind = "replace"
    BY <1>2 DEF IInv, Calling
  <2>2. "UnknownMaterial" \in Justified(call[t], materials, table)
    BY <1>2, <2>1 DEF Justified, Refusal
  <2> QED BY <1>2, <2>2, RefusalRefined DEF Open
<1>3. CASE Goto(t, "material", "ids") /\ UNCHANGED <<materials, table, call, outcome>>
  BY <1>1, <1>3, StutterRefined DEF Goto, TypeOK, Open
<1> QED BY <1>2, <1>3 DEF CheckMaterial

LEMMA CheckIdsRefined ==
  ASSUME IInv, NEW t \in Caller, CheckIds(t)
  PROVE  Abstract!Refuse(t) \/ UNCHANGED Abstract!vars
<1>1. TypeOK
  BY DEF IInv, Integrity
<1>2. CASE pc[t] = "ids" /\ HasDuplicate(call[t], table) /\ Rollback(t, "DuplicateQuestion")
  <2>1. "DuplicateQuestion" \in Justified(call[t], materials, table)
    BY <1>2 DEF Justified, Refusal
  <2> QED BY <1>2, <2>1, RefusalRefined DEF Open
<1>3. CASE /\ Goto(t, "ids", IF call[t].kind = "replace" THEN "delete" ELSE "insert")
           /\ UNCHANGED <<materials, table, call, outcome>>
  BY <1>1, <1>3, StutterRefined DEF Goto, TypeOK, Open
<1> QED BY <1>2, <1>3 DEF CheckIds

(* A row in the way of an INSERT is a reason to refuse the call, unless it  *)
(* is one that overlapping calls brought to the material being replaced.    *)
LEMMA InsertRefined ==
  ASSUME IInv, NEW t \in Caller, Insert(t)
  PROVE  Abstract!Refuse(t) \/ ReplacesAround(t) \/ UNCHANGED Abstract!vars
<1>1. TypeOK
  BY DEF IInv, Integrity
<1>2. pc[t] = "insert" /\ pc[t] \in Open /\ written[t] < Len(call[t].batch)
  BY DEF Insert, Open
<1>3. call[t] \in Calls /\ Len(call[t].batch) \in Nat
  BY <1>2, CallsTyped DEF IInv, Calling
<1>4. PICK k \in 1..Len(call[t].batch) : Following(t) = call[t].batch[k]
  <2>1. written[t] + 1 \in 1..Len(call[t].batch)
    BY <1>1, <1>2, <1>3 DEF TypeOK
  <2> QED BY <2>1 DEF Following
<1>5. CASE Collides(t) /\ Rollback(t, "DuplicateQuestion")
  <2>1. PICK r \in table \ marked[t] : r.question.question_id = call[t].batch[k].question_id
    BY <1>4, <1>5 DEF Collides
  <2>2. CASE call[t].kind # "replace" \/ r.question.material # call[t].material
    <3>1. r.question.question_id \in Reserved(call[t], table)
      BY <2>2 DEF Reserved, RowsOf
    <3>2. HasDuplicate(call[t], table)
      BY <2>1, <3>1 DEF HasDuplicate
    <3>3. "DuplicateQuestion" \in Justified(call[t], materials, table)
      BY <3>2 DEF Justified, Refusal
    <3> QED BY <1>2, <1>5, <3>3, RefusalRefined
  <2>3. CASE call[t].kind = "replace" /\ r.question.material = call[t].material
    <3>1. r \in RowsOf(call[t].material, table) \ before[t]
      BY <1>2, <2>3 DEF IInv, Replacing, RowsOf
    <3>2. pc'[t] = "done" /\ outcome'[t] = "DuplicateQuestion" /\ \A u \in Caller \ {t} : pc'[u] = pc[u]
      BY <1>1, <1>5 DEF Rollback, Ends, TypeOK
    <3> QED BY <1>2, <1>5, <2>1, <2>3, <3>1, <3>2 DEF ReplacesAround, Rollback
  <2> QED BY <2>2, <2>3
<1>6. CASE Orphan(Following(t), materials) /\ Rollback(t, "UnknownMaterial")
  <2>1. "UnknownMaterial" \in Justified(call[t], materials, table)
    BY <1>4, <1>6 DEF Justified, Refusal
  <2> QED BY <1>2, <1>6, <2>1, RefusalRefined
<1>7. CASE WrongTopic(Following(t), materials) /\ Rollback(t, "InvalidQuestion")
  <2>1. "InvalidQuestion" \in Justified(call[t], materials, table)
    BY <1>4, <1>7 DEF Justified, Refusal
  <2> QED BY <1>2, <1>7, <2>1, RefusalRefined
<1>8. CASE UNCHANGED <<materials, table, pc, call, outcome>>
  BY <1>2, <1>8, StutterRefined
<1> QED BY <1>5, <1>6, <1>7, <1>8 DEF Insert

(* A commit brings the whole batch, and removes what the DELETE has marked. *)
LEMMA CommitRefined ==
  ASSUME IInv, NEW t \in Caller, Commit(t)
  PROVE  Abstract!Commit(t) \/ ReplacesAround(t)
<1> DEFINE c == call[t]
<1>1. TypeOK
  BY DEF IInv, Integrity
<1>2. /\ pc[t] = "insert" /\ pc[t] \in Open /\ written[t] = Len(c.batch)
      /\ table' = (table \ marked[t]) \cup Pending(t)
      /\ materials' = materials
  BY DEF Commit, Open
<1>3. PICK why \in {"ok", "StorageError"} : Ends(t, why)
  BY DEF Commit
<1>4. c \in Calls /\ Len(c.batch) \in Nat
  BY <1>2, CallsTyped DEF IInv, Calling
<1>5. Pending(t) = BatchRows(c, t)
  BY <1>2 DEF Pending, BatchRows
<1>6. CASE c.kind = "replace"
  <2> DEFINE old == RowsOf(c.material, table)
             kept == old \ marked[t]
  <2>1. kept \subseteq old \ before[t]
    BY <1>2, <1>6 DEF IInv, Replacing, RowsOf
  <2>2. table \ (old \ kept) = table \ marked[t]
    BY DEF IInv, Holding, RowsOf
  <2>3. pc'[t] = "done" /\ outcome'[t] = why /\ \A u \in Caller \ {t} : pc'[u] = pc[u]
    BY <1>1, <1>3 DEF Ends, TypeOK
  <2> QED BY <1>2, <1>5, <1>6, <2>1, <2>2, <2>3 DEF ReplacesAround
<1>7. CASE c.kind # "replace"
  <2>1. marked[t] = {}
    BY <1>7 DEF IInv, Holding
  <2>2. table' = Perform(c, t, table)
    BY <1>2, <1>5, <1>7, <2>1 DEF Perform
  <2>3. \A i \in 1..Len(c.batch) :
          /\ IsFree(c.batch[i].question_id, t)
          /\ ~Orphan(c.batch[i], materials) /\ ~WrongTopic(c.batch[i], materials)
    BY <1>2 DEF IInv, PendingFits
  <2>4. ~HasDuplicate(c, table)
    <3>1. \A i \in 1..Len(c.batch) : c.batch[i].question_id \notin Reserved(c, table)
      BY <1>7, <2>1, <2>3 DEF Reserved, IsFree
    <3>2. ASSUME NEW i \in 1..Len(c.batch), NEW j \in 1..(i - 1)
          PROVE  c.batch[j].question_id # c.batch[i].question_id
      <4>1. j \in 1..Len(c.batch) /\ j # i
        BY <1>4
      <4> QED BY <1>2, <4>1 DEF IInv, OwnIds
    <3> QED BY <3>1, <3>2 DEF HasDuplicate
  <2>5. Justified(c, materials, table) = {}
    BY <1>2, <1>7, <2>3, <2>4 DEF Justified, HasForeign
  <2>6. /\ Abstract!Justified(c, materials, table) = {}
        /\ table' = Abstract!Perform(c, t, table)
    BY <2>2, <2>5, SameOperations
  <2>7. /\ Abstract!Pending(t) /\ [u \in Caller |-> Request(u)][t].call = c
        /\ [u \in Caller |-> Request(u)'] =
             [[u \in Caller |-> Request(u)] EXCEPT ![t] = Abstract!Ended(c, why)]
    BY <1>2, <1>3, EndsRefined
  <2> QED BY <1>2, <2>6, <2>7 DEF Abstract!Commit
<1> QED BY <1>6, <1>7

LEMMA StepRefined ==
  ASSUME IInv, [Next]_vars
  PROVE  [Abstract!Next \/ (\E t \in Caller : ReplacesAround(t))]_(Abstract!vars)
<1>1. TypeOK
  BY DEF IInv, Integrity
<1>2. ASSUME NEW m \in Material, NEW topic \in Topic, Upload(m, topic)
      PROVE  Abstract!Upload(m, topic)
  BY <1>2 DEF Upload, Abstract!Upload, Request
<1>3. ASSUME NEW t \in Caller, RefuseForeign(t) PROVE Abstract!Refuse(t)
  <2>1. HasForeign(call[t])
    BY <1>3 DEF RefuseForeign, IInv, Calling
  <2>2. "InvalidQuestion" \in Justified(call[t], materials, table)
    BY <2>1 DEF Justified, Refusal
  <2> QED BY <1>3, <2>2, RefusalRefined DEF RefuseForeign
<1>4. ASSUME NEW t \in Caller, StartDelete(t) \/ Mark(t) \/ EndDelete(t)
      PROVE  UNCHANGED Abstract!vars
  BY <1>1, <1>4, StutterRefined DEF StartDelete, Mark, EndDelete, Goto, TypeOK, Open
<1>5. ASSUME NEW t \in Caller, DeadlockDetected(t) \/ Fails(t) PROVE Abstract!Fail(t)
  BY <1>5, FailureRefined, DeadlockIsOpen DEF DeadlockDetected, Fails
<1>6. CASE UNCHANGED vars
  BY <1>6 DEF vars, Abstract!vars, Request
<1> QED
  BY <1>2, <1>3, <1>4, <1>5, <1>6, BeginRefined, CheckMaterialRefined, CheckIdsRefined,
     InsertRefined, CommitRefined
  DEF Next, Step, Abstract!Next

(* Every step of the bank is one of the contract's, or a replacement that   *)
(* leaves, or stumbles over, what overlapping calls brought: the batches of *)
(* add_many and all refusals and failures keep the contract.                *)
THEOREM BankIsAtomicButForOverlaps == Spec => Abstract!Init /\ ImplementsAtomicBank
<1>1. Init => Abstract!Init
  BY DEF Init, Abstract!Init, Abstract!Idle, Request
<1> QED BY <1>1, StepRefined, IInvAlways, PTL DEF Spec, ImplementsAtomicBank
=============================================================================
