--------------------------- MODULE StudyApiProofs ---------------------------
(***************************************************************************)
(* Proofs about StudyApi, for any number of requests, topics, materials    *)
(* and calls, as long as no two creates of one topic overlap.  The         *)
(* argument: then a topic that is there is never saved over, so that the   *)
(* catalog of a topic only grows; and what a handler found in the catalog  *)
(* some store calls before is still there when it writes.                  *)
(***************************************************************************)
EXTENDS StudyApi, FiniteSetTheorems, TLAPS

USE UnitAssumption, NoneAssumption

-----------------------------------------------------------------------------
StoresTyped ==
  /\ topics \in [Topic -> Profile \cup {None}]
  /\ uploads \in [Material -> Topic \cup {None}]
  /\ bank \subseteq Question
  /\ minted \in 0..MaxQuestions
  /\ log \subseteq Attempt

(* The kinds of call that reach each stage of a handler. *)
Handles(kind, at) ==
  \/ kind = "create" /\ at \in {"absent", "save", "done"}
  \/ kind = "archive" /\ at \in {"flag", "done"}
  \/ kind = "register" /\ at \in {"topic", "read", "upsert", "done"}
  \/ kind = "upload" /\ at \in {"topic", "add", "done"}
  \/ kind = "generate" /\ at \in {"topic", "material", "read", "model", "upsert", "replace",
                                     "insert", "done"}
  \/ kind = "record" /\ at \in {"objective", "append", "done"}
  \/ kind = "answer" /\ at \in {"question", "objective", "append", "state", "done"}

Calling(r) ==
  \/ stage[r] = "idle"
  \/ call[r] \in Calls /\ Handles(call[r].kind, stage[r])

(* What a handler holds was read in its topic. *)
Reading(r) ==
  /\ stage[r] = "upsert" /\ call[r].kind = "register" => local[r] \in Catalog
  /\ stage[r] = "model" => local[r] \in Catalog
  /\ stage[r] \in {"upsert", "replace"} /\ call[r].kind = "generate" => local[r] \in Proposals
  /\ stage[r] \in {"objective", "append", "state"} /\ call[r].kind = "answer" =>
       local[r] \in Question /\ local[r].topic = call[r].topic

(* A topic that was found is there; one that is about to be created is not. *)
Found(r) ==
  /\ stage[r] \in {"read", "upsert", "add", "material", "model", "replace", "insert"} =>
       topics[call[r].topic] # None
  /\ stage[r] = "save" => topics[call[r].topic] = None

(* The objectives a handler will refer to are in the catalog, or will be    *)
(* when it does.                                                            *)
Covering(r) ==
  /\ stage[r] = "model" => {o \in Objective : local[r][o] # None} \subseteq Known(call[r].topic)
  /\ stage[r] = "upsert" /\ call[r].kind = "generate" =>
       local[r].covered \subseteq Known(call[r].topic) \cup DOMAIN local[r].proposed
  /\ stage[r] \in {"replace", "insert"} => local[r].covered \subseteq Known(call[r].topic)
  /\ stage[r] = "append" => Target(r) \in Known(call[r].topic)

(* An answer is in the log when its handler reads the state. *)
Answered(r) == stage[r] = "state" => \E a \in log : Reports(a, call[r])

Saved(r) ==
  (stage[r] = "done" /\ call[r].kind \in {"answer", "record"}) =>
    /\ status[r] \in {200, 201} => \E a \in log : Reports(a, call[r])
    /\ status[r] = 409 => Taken(call[r].attempt_id)

RequestOK(r) ==
  Calling(r) /\ Reading(r) /\ Found(r) /\ Covering(r) /\ Answered(r) /\ Saved(r)

Creating(r) == stage[r] \in {"absent", "save"}

OneCreate ==
  \A r, u \in Request :
    Creating(r) /\ Creating(u) /\ call[r].topic = call[u].topic => r = u

IInv ==
  /\ TypeOK
  /\ DOMAIN stage = Request /\ DOMAIN local = Request
  /\ \A r \in Request : RequestOK(r)
  /\ OneCreate
  /\ QuestionsArePractisable
  /\ EveryAttemptHasItsObjective

-----------------------------------------------------------------------------
(* What others may do meanwhile: topics and their objectives stay, and so   *)
(* do attempts.                                                             *)
Growing ==
  /\ \A t \in Topic : topics[t] # None => topics'[t] # None
  /\ \A t \in Topic : Known(t) \subseteq Known(t)'
  /\ log \subseteq log'

OnlyMoves(r) ==
  \A u \in Request \ {r} :
    stage'[u] = stage[u] /\ call'[u] = call[u] /\ local'[u] = local[u] /\ status'[u] = status[u]

LEMMA CallsTyped ==
  ASSUME NEW c \in Calls
  PROVE  /\ c.topic \in Topic
         /\ c.kind = "register" => c.bodies \in Partial(Unit \cup {Omitted})
         /\ c.kind = "generate" => c.material \in Material
         /\ c.kind \in {"record", "answer"} => c.attempt_id \in AttemptId
         /\ c.kind = "record" => c.objective \in Objective /\ c.correct \in BOOLEAN
         /\ c.kind = "answer" => c.selected_key \in Key
BY CallAssumption

(* What holds of a request goes on holding while another one is served. *)
LEMMA OthersKept ==
  ASSUME IInv, NEW r \in Request, OnlyMoves(r), Growing,
         NEW u \in Request \ {r},
         stage[u] = "save" => topics'[call[u].topic] = None
  PROVE  RequestOK(u)'
<1>1. /\ stage'[u] = stage[u] /\ call'[u] = call[u]
      /\ local'[u] = local[u] /\ status'[u] = status[u]
  BY DEF OnlyMoves
<1>2. RequestOK(u)
  BY DEF IInv
<1>3. Calling(u)' /\ Reading(u)'
  BY <1>1, <1>2 DEF RequestOK, Calling, Reading
<1>4. stage[u] # "idle" => call[u].topic \in Topic
  BY <1>2, CallsTyped DEF RequestOK, Calling
<1>5. Found(u)'
  BY <1>1, <1>2, <1>4 DEF RequestOK, Found, Growing
<1>6. Target(u)' = Target(u)
  BY <1>1 DEF Target
<1>7. stage[u] # "idle" => Known(call[u].topic) \subseteq Known(call[u].topic)'
  BY <1>1, <1>4 DEF Growing, Known
<1>8. Covering(u)'
  BY <1>1, <1>2, <1>6, <1>7 DEF RequestOK, Covering
<1>9. Answered(u)'
  BY <1>1, <1>2 DEF RequestOK, Answered, Growing, Reports
<1>10. Saved(u)'
  BY <1>1, <1>2 DEF RequestOK, Saved, Growing, Reports, Taken
<1> QED BY <1>3, <1>5, <1>8, <1>9, <1>10 DEF RequestOK

(* The handler of r answers. *)
LEMMA RespondKeeps ==
  ASSUME IInv, NEW r \in Request, NEW from, NEW code \in Status, Respond(r, from, code),
         from \notin {"idle", "done"}, StoresTyped', Growing,
         \A u \in Request \ {r} : stage[u] = "save" => topics'[call[u].topic] = None,
         call[r].kind \in {"answer", "record"} =>
           /\ code \in {200, 201} => \E a \in log' : Reports(a, call[r])
           /\ code = 409 => Taken(call[r].attempt_id)',
         QuestionsArePractisable', \A a \in log' : a.objective \in Known(a.topic)'
  PROVE  IInv'
<1>1. /\ stage[r] = from /\ stage' = [stage EXCEPT ![r] = "done"]
      /\ status' = [status EXCEPT ![r] = code]
      /\ local' = [local EXCEPT ![r] = None] /\ call' = call
  BY DEF Respond
<1>2. OnlyMoves(r) /\ stage'[r] = "done"
  BY <1>1 DEF IInv, TypeOK, OnlyMoves
<1>3. code # None /\ status'[r] = code
  BY <1>1 DEF IInv, TypeOK, Status
<1>4. TypeOK'
  BY <1>1, <1>2, <1>3 DEF IInv, TypeOK, StoresTyped, OnlyMoves
<1>5. RequestOK(r)'
  <2>1. call[r] \in Calls /\ Handles(call[r].kind, "done")
    BY <1>1 DEF IInv, RequestOK, Calling, Handles
  <2>2. Calling(r)' /\ Reading(r)' /\ Found(r)' /\ Covering(r)' /\ Answered(r)'
    BY <1>1, <1>2, <2>1 DEF Calling, Reading, Found, Covering, Answered
  <2>3. Saved(r)'
    BY <1>1, <1>3 DEF Saved, Reports, Taken
  <2> QED BY <2>2, <2>3 DEF RequestOK
<1>6. OneCreate'
  BY <1>1, <1>2 DEF IInv, OneCreate, Creating, OnlyMoves
<1> QED
  BY <1>1, <1>2, <1>4, <1>5, <1>6, OthersKept DEF IInv, EveryAttemptHasItsObjective

(* It has written, and says so or raises after the commit. *)
LEMMA CommittedKeeps ==
  ASSUME IInv, NEW r \in Request, NEW from, NEW code \in Status, Committed(r, from, code),
         from \notin {"idle", "done"}, StoresTyped', Growing,
         \A u \in Request \ {r} : stage[u] = "save" => topics'[call[u].topic] = None,
         code # 409,
         call[r].kind \in {"answer", "record"} => \E a \in log' : Reports(a, call[r]),
         QuestionsArePractisable', \A a \in log' : a.objective \in Known(a.topic)'
  PROVE  IInv'
<1>1. CASE Respond(r, from, code)
  BY <1>1, RespondKeeps
<1>2. CASE Respond(r, from, 503)
  BY <1>2, RespondKeeps DEF Status
<1> QED BY <1>1, <1>2 DEF Committed

(* The handler of r goes on. *)
LEMMA GotoKeeps ==
  ASSUME IInv, NEW r \in Request, NEW from, NEW to, NEW read, Goto(r, from, to, read),
         from \notin {"idle", "done"}, to \notin {"idle", "done", "absent"},
         to = "save" => from = "absent",
         StoresTyped', Growing, RequestOK(r)',
         \A u \in Request \ {r} : stage[u] = "save" => topics'[call[u].topic] = None,
         QuestionsArePractisable', \A a \in log' : a.objective \in Known(a.topic)'
  PROVE  IInv'
<1>1. /\ stage[r] = from /\ stage' = [stage EXCEPT ![r] = to]
      /\ local' = [local EXCEPT ![r] = read] /\ call' = call /\ status' = status
  BY DEF Goto
<1>2. OnlyMoves(r) /\ stage'[r] = to
  BY <1>1 DEF IInv, TypeOK, OnlyMoves
<1>3. TypeOK'
  BY <1>1, <1>2 DEF IInv, TypeOK, StoresTyped, OnlyMoves
<1>4. OneCreate'
  BY <1>1, <1>2 DEF IInv, OneCreate, Creating, OnlyMoves
<1> QED
  BY <1>1, <1>2, <1>3, <1>4, OthersKept DEF IInv, EveryAttemptHasItsObjective

(* While only r moves, and no store changes, nothing goes wrong elsewhere. *)
LEMMA StoresKept ==
  ASSUME IInv, UNCHANGED stores
  PROVE  /\ StoresTyped' /\ Growing /\ QuestionsArePractisable'
         /\ \A a \in log' : a.objective \in Known(a.topic)'
         /\ \A u \in Request : stage[u] = "save" => topics'[call[u].topic] = None
<1>1. topics' = topics /\ uploads' = uploads /\ bank' = bank /\ minted' = minted /\ log' = log
  BY DEF stores
<1>2. \A t : Known(t)' = Known(t)
  BY <1>1 DEF Known
<1> QED
  BY <1>1, <1>2 DEF IInv, TypeOK, StoresTyped, Growing, QuestionsArePractisable,
     EveryAttemptHasItsObjective, RequestOK, Found, Known

LEMMA KindOf ==
  ASSUME IInv, NEW r \in Request, stage[r] # "idle"
  PROVE  call[r] \in Calls /\ Handles(call[r].kind, stage[r]) /\ call[r].topic \in Topic
BY CallsTyped DEF IInv, RequestOK, Calling

(* upsert_objectives adds to the catalog of one topic. *)
LEMMA UpsertGrows ==
  ASSUME IInv, NEW t \in Topic, topics[t] # None,
         NEW objectives \in Partial(Unit), Upsert(t, objectives)
  PROVE  /\ topics' \in [Topic -> Profile \cup {None}]
         /\ \A x \in Topic : topics[x] # None => topics'[x] # None
         /\ \A x \in Topic : Known(x) \subseteq Known(x)'
         /\ DOMAIN objectives \subseteq Known(t)'
         /\ \A x \in Topic : topics[x] = None => topics'[x] = None
<1>1. DOMAIN objectives \subseteq Objective /\ \A o \in DOMAIN objectives : objectives[o] \in Unit
  BY DEF Partial
<1>2. topics \in [Topic -> Profile \cup {None}] /\ topics[t] \in Profile
  BY DEF IInv, TypeOK
<1> DEFINE new == [o \in Objective |->
                    IF o \in DOMAIN objectives THEN objectives[o] ELSE topics[t].objectives[o]]
<1>3. topics' = [topics EXCEPT ![t].objectives = new]
  BY DEF Upsert
<1>4. new \in Catalog
  BY <1>1, <1>2 DEF Profile, Catalog
<1>5. /\ topics'[t] \in Profile /\ topics'[t].objectives = new
      /\ \A x \in Topic \ {t} : topics'[x] = topics[x]
      /\ topics' \in [Topic -> Profile \cup {None}]
  <2> HIDE DEF new
  <2> QED BY <1>2, <1>3, <1>4 DEF Profile
<1>6. topics'[t] # None
  BY <1>5
<1>7. Known(t) \subseteq Known(t)' /\ DOMAIN objectives \subseteq Known(t)'
  BY <1>1, <1>5, <1>6 DEF Known
<1>8. \A x \in Topic \ {t} : Known(x)' = Known(x)
  BY <1>5 DEF Known
<1> QED BY <1>5, <1>6, <1>7, <1>8

(* What is stored stays right while the catalogs grow. *)
LEMMA GrowthKeeps ==
  ASSUME IInv, bank' = bank, log' = log, \A t \in Topic : Known(t) \subseteq Known(t)'
  PROVE  QuestionsArePractisable' /\ \A a \in log' : a.objective \in Known(a.topic)'
<1>1. \A q \in bank : q.topic \in Topic
  BY DEF IInv, TypeOK, Question
<1>2. \A a \in log : a.topic \in Topic
  BY DEF IInv, TypeOK, Attempt
<1>3. QuestionsArePractisable'
  BY <1>1 DEF IInv, QuestionsArePractisable
<1> QED BY <1>2, <1>3 DEF IInv, EveryAttemptHasItsObjective

LEMMA ReceiveKeeps ==
  ASSUME ~CreateRace, IInv, NEW r \in Request, NEW c \in Calls, Receive(r, c)
  PROVE  IInv'
<1>1. /\ stage[r] \in {"idle", "done"} /\ Alone(c)
      /\ stage' = [stage EXCEPT ![r] = First[c.kind]]
      /\ call' = [call EXCEPT ![r] = c] /\ status' = [status EXCEPT ![r] = None]
      /\ local' = local /\ UNCHANGED stores
  BY DEF Receive
<1>2. OnlyMoves(r) /\ stage'[r] = First[c.kind] /\ call'[r] = c /\ status'[r] = None
  BY <1>1 DEF IInv, TypeOK, OnlyMoves
<1>3. /\ First[c.kind] \in {"absent", "flag", "topic", "objective", "question"}
      /\ Handles(c.kind, First[c.kind])
      /\ First[c.kind] = "absent" => c.kind = "create"
      /\ First[c.kind] = "objective" => c.kind = "record"
  BY CallAssumption DEF First, Handles
<1>4. /\ StoresTyped' /\ Growing /\ QuestionsArePractisable'
      /\ \A a \in log' : a.objective \in Known(a.topic)'
      /\ \A u \in Request : stage[u] = "save" => topics'[call[u].topic] = None
  BY <1>1, StoresKept
<1>5. TypeOK'
  BY <1>1, <1>2, <1>3, <1>4 DEF IInv, TypeOK, StoresTyped, OnlyMoves
<1>6. RequestOK(r)'
  <2>1. Calling(r)' /\ Reading(r)'
    BY <1>2, <1>3 DEF Calling, Reading
  <2>2. Found(r)' /\ Covering(r)' /\ Answered(r)' /\ Saved(r)'
    BY <1>2, <1>3 DEF Found, Covering, Answered, Saved
  <2> QED BY <2>1, <2>2 DEF RequestOK
<1>7. OneCreate'
  <2>1. ASSUME NEW u \in Request, u # r, Creating(u), c.kind = "create" PROVE call[u].topic # c.topic
    BY <1>1, <2>1 DEF Alone, Creating
  <2> QED BY <1>2, <1>3, <2>1 DEF IInv, OneCreate, Creating, OnlyMoves
<1> QED
  BY <1>1, <1>2, <1>4, <1>5, <1>6, <1>7, OthersKept DEF IInv, EveryAttemptHasItsObjective

(* A response that changes no store, to a call that is not about an attempt *)
(* or says nothing about it.                                                *)
LEMMA RefusalKeeps ==
  ASSUME IInv, NEW r \in Request, NEW from, NEW code \in Status, Respond(r, from, code),
         from \notin {"idle", "done"}, UNCHANGED stores,
         call[r].kind \notin {"answer", "record"} \/ code \notin {200, 201, 409}
  PROVE  IInv'
BY StoresKept, RespondKeeps

LEMMA FindsTopicKeeps ==
  ASSUME IInv, NEW r \in Request, FindsTopic(r)
  PROVE  IInv'
<1>1. stage[r] = "absent" /\ call[r].kind = "create" /\ call[r] \in Calls /\ UNCHANGED stores
  BY KindOf DEF FindsTopic, Handles
<1>2. CASE Respond(r, "absent", 409)
  BY <1>1, <1>2, RefusalKeeps DEF Status
<1>3. CASE topics[call[r].topic] = None /\ Goto(r, "absent", "save", None)
  <2>1. stage'[r] = "save" /\ call' = call /\ topics' = topics
    BY <1>1, <1>3 DEF Goto, IInv, stores
  <2>2. RequestOK(r)'
    BY <1>1, <1>3, <2>1 DEF RequestOK, Calling, Handles, Reading, Found, Covering, Answered, Saved
  <2> QED BY <1>1, <1>3, <2>2, StoresKept, GotoKeeps
<1> QED BY <1>2, <1>3 DEF FindsTopic

LEMMA SaveTopicKeeps ==
  ASSUME IInv, NEW r \in Request, SaveTopic(r)
  PROVE  IInv'
<1> DEFINE t == call[r].topic
<1>1. /\ stage[r] = "save" /\ Committed(r, "save", 201)
      /\ topics' = [topics EXCEPT ![t] = [objectives |-> Empty, archived |-> FALSE]]
      /\ uploads' = uploads /\ bank' = bank /\ minted' = minted /\ log' = log
  BY DEF SaveTopic, Committed, Respond
<1>2. t \in Topic /\ call[r].kind = "create"
  BY <1>1, KindOf DEF Handles
<1>3. topics[t] = None
  BY <1>1 DEF IInv, RequestOK, Found
<1>4. [objectives |-> Empty, archived |-> FALSE] \in Profile
  BY DEF Empty, Profile, Catalog
<1>5. topics'[t] # None /\ \A x \in Topic \ {t} : topics'[x] = topics[x]
  BY <1>1, <1>2, <1>4 DEF IInv, TypeOK
<1>6. StoresTyped'
  BY <1>1, <1>4 DEF IInv, TypeOK, StoresTyped
<1>7. \A x \in Topic : Known(x) \subseteq Known(x)'
  BY <1>3, <1>5 DEF Known
<1>8. Growing
  BY <1>1, <1>3, <1>5, <1>7 DEF Growing
<1>9. ASSUME NEW u \in Request \ {r}, stage[u] = "save" PROVE topics'[call[u].topic] = None
  <2>1. call[u].topic \in Topic /\ topics[call[u].topic] = None
    BY <1>9, KindOf DEF IInv, RequestOK, Found
  <2>2. call[u].topic # t
    BY <1>1, <1>9 DEF IInv, OneCreate, Creating
  <2> QED BY <1>5, <2>1, <2>2
<1> QED
  BY <1>1, <1>2, <1>6, <1>7, <1>8, <1>9, GrowthKeeps, CommittedKeeps DEF Status

LEMMA SetArchivedKeeps ==
  ASSUME IInv, NEW r \in Request, SetArchived(r)
  PROVE  IInv'
<1> DEFINE t == call[r].topic
<1>1. /\ stage[r] = "flag" /\ uploads' = uploads /\ bank' = bank /\ minted' = minted /\ log' = log
  BY DEF SetArchived
<1>2. t \in Topic /\ call[r].kind = "archive" /\ call[r] \in Calls
  BY <1>1, KindOf DEF Handles
<1>3. CASE Respond(r, "flag", 404) /\ topics' = topics
  BY <1>1, <1>2, <1>3, RefusalKeeps DEF Status, stores
<1>4. CASE /\ topics[t] # None /\ Committed(r, "flag", 200)
           /\ topics' = [topics EXCEPT ![t].archived = call[r].archived]
  <2>1. topics[t] \in Profile /\ call[r].archived \in BOOLEAN
    BY <1>2, <1>4, CallAssumption DEF IInv, TypeOK
  <2>2. /\ topics'[t] \in Profile /\ topics'[t].objectives = topics[t].objectives
        /\ \A x \in Topic \ {t} : topics'[x] = topics[x]
        /\ topics' \in [Topic -> Profile \cup {None}]
    BY <1>2, <1>4, <2>1 DEF IInv, TypeOK, Profile
  <2>3. topics'[t] # None
    BY <2>2
  <2>4. \A x \in Topic : Known(x)' = Known(x)
    BY <1>4, <2>2, <2>3 DEF Known
  <2>5. StoresTyped' /\ Growing
    BY <1>1, <2>2, <2>3, <2>4 DEF IInv, TypeOK, StoresTyped, Growing
  <2>6. ASSUME NEW u \in Request \ {r}, stage[u] = "save" PROVE topics'[call[u].topic] = None
    <3>1. call[u].topic \in Topic /\ topics[call[u].topic] = None
      BY <2>6, KindOf DEF IInv, RequestOK, Found
    <3> QED BY <1>4, <2>2, <3>1
  <2> QED BY <1>1, <1>2, <1>4, <2>4, <2>5, <2>6, GrowthKeeps, CommittedKeeps DEF Status
<1> QED BY <1>3, <1>4 DEF SetArchived

(* A handler that goes on without having changed a store. *)
LEMMA ReadKeeps ==
  ASSUME IInv, NEW r \in Request, NEW from, NEW to, NEW read, Goto(r, from, to, read),
         from \notin {"idle", "done", "absent"}, UNCHANGED stores,
         to \in {"read", "upsert", "add", "material", "model", "replace", "insert", "objective",
                 "append"},
         Handles(call[r].kind, to),
         (Reading(r) /\ Found(r) /\ Covering(r))'
  PROVE  IInv'
<1>1. stage[r] = from /\ stage'[r] = to /\ call' = call
  BY DEF Goto, IInv
<1>2. call[r] \in Calls
  BY <1>1, KindOf
<1>3. RequestOK(r)'
  BY <1>1, <1>2 DEF RequestOK, Calling, Answered, Saved
<1> QED BY <1>3, StoresKept, GotoKeeps

LEMMA RequireTopicKeeps ==
  ASSUME IInv, NEW r \in Request, RequireTopic(r)
  PROVE  IInv'
<1>1. stage[r] = "topic" /\ call[r].kind \in {"register", "upload", "generate"} /\ UNCHANGED stores
  BY KindOf DEF RequireTopic, Handles
<1>2. CASE Respond(r, "topic", 404)
  BY <1>1, <1>2, RefusalKeeps DEF Status
<1>3. CASE topics[call[r].topic] # None /\ Goto(r, "topic", Second[call[r].kind], None)
  <2>1. Handles(call[r].kind, Second[call[r].kind]) /\ Second[call[r].kind] \in {"read", "add", "material"}
    BY <1>1 DEF Handles, Second
  <2>2. stage'[r] = Second[call[r].kind] /\ call' = call /\ topics' = topics
    BY <1>1, <1>3 DEF Goto, IInv, stores
  <2>3. (Reading(r) /\ Found(r) /\ Covering(r))'
    BY <1>3, <2>1, <2>2 DEF Reading, Found, Covering
  <2> QED BY <1>1, <1>3, <2>1, <2>3, ReadKeeps
<1> QED BY <1>2, <1>3 DEF RequireTopic

LEMMA ListObjectivesKeeps ==
  ASSUME IInv, NEW r \in Request, ListObjectives(r)
  PROVE  IInv'
<1> DEFINE t == call[r].topic
           to == IF call[r].kind = "generate" THEN "model" ELSE "upsert"
<1>1. /\ stage[r] = "read" /\ UNCHANGED stores /\ Goto(r, "read", to, topics[t].objectives)
      /\ call[r].kind \in {"register", "generate"} /\ t \in Topic
  BY KindOf DEF ListObjectives, Handles
<1>2. topics[t] # None
  BY <1>1 DEF IInv, RequestOK, Found
<1>3. topics[t].objectives \in Catalog
  BY <1>1, <1>2 DEF IInv, TypeOK, Profile
<1>4. /\ stage'[r] = to /\ local'[r] = topics[t].objectives /\ call' = call /\ topics' = topics
  BY <1>1 DEF Goto, IInv, stores
<1>5. Handles(call[r].kind, to)
  BY <1>1 DEF Handles
<1>6. (Reading(r) /\ Found(r) /\ Covering(r))'
  BY <1>1, <1>2, <1>3, <1>4 DEF Reading, Found, Covering, Known
<1> QED BY <1>1, <1>5, <1>6, ReadKeeps

LEMMA OwnedMaterialKeeps ==
  ASSUME IInv, NEW r \in Request, OwnedMaterial(r)
  PROVE  IInv'
<1>1. stage[r] = "material" /\ call[r].kind = "generate" /\ UNCHANGED stores
  BY KindOf DEF OwnedMaterial, Handles
<1>2. CASE Respond(r, "material", 404)
  BY <1>1, <1>2, RefusalKeeps DEF Status
<1>3. CASE Goto(r, "material", "read", None)
  <2>1. stage'[r] = "read" /\ call' = call /\ topics' = topics
    BY <1>1, <1>3 DEF Goto, IInv, stores
  <2>2. (Reading(r) /\ Found(r) /\ Covering(r))'
    BY <1>1, <2>1 DEF IInv, RequestOK, Reading, Found, Covering
  <2> QED BY <1>1, <1>3, <2>2, ReadKeeps DEF Handles
<1> QED BY <1>2, <1>3 DEF OwnedMaterial

(* build_result lets a question through only for an objective that was in   *)
(* the catalog, and so still is, or that is about to be.                    *)
LEMMA GenerateKeeps ==
  ASSUME IInv, NEW r \in Request, Generate(r)
  PROVE  IInv'
<1>1. stage[r] = "model" /\ call[r].kind = "generate" /\ UNCHANGED stores
  BY KindOf DEF Generate, Handles
<1>2. CASE \E code \in {502, 503} : Respond(r, "model", code)
  BY <1>1, <1>2, RefusalKeeps DEF Status
<1>3. CASE \E said \in Proposals :
             /\ said.covered \subseteq {o \in Objective : local[r][o] # None} \cup DOMAIN said.proposed
             /\ Goto(r, "model", IF said.proposed = <<>> THEN "replace" ELSE "upsert", said)
  <2>1. PICK said \in Proposals :
             /\ said.covered \subseteq {o \in Objective : local[r][o] # None} \cup DOMAIN said.proposed
             /\ Goto(r, "model", IF said.proposed = <<>> THEN "replace" ELSE "upsert", said)
    BY <1>3
  <2> DEFINE to == IF said.proposed = <<>> THEN "replace" ELSE "upsert"
  <2>2. stage'[r] = to /\ local'[r] = said /\ call' = call /\ topics' = topics
    BY <1>1, <2>1 DEF Goto, IInv, stores
  <2>3. said.covered \subseteq Known(call[r].topic) \cup DOMAIN said.proposed
    BY <1>1, <2>1 DEF IInv, RequestOK, Covering
  <2>4. to = "replace" => said.covered \subseteq Known(call[r].topic)
    <3>1. DOMAIN <<>> = {}
      OBVIOUS
    <3> QED BY <2>3, <3>1
  <2>5. topics[call[r].topic] # None
    BY <1>1 DEF IInv, RequestOK, Found
  <2>6. Known(call[r].topic)' = Known(call[r].topic)
    BY <2>2 DEF Known
  <2>7. (Reading(r) /\ Found(r) /\ Covering(r))'
    BY <1>1, <2>2, <2>3, <2>4, <2>5, <2>6 DEF Reading, Found, Covering
  <2>8. Handles(call[r].kind, to) /\ to \in {"replace", "upsert"}
    BY <1>1 DEF Handles
  <2> QED BY <1>1, <2>1, <2>7, <2>8, ReadKeeps
<1> QED BY <1>2, <1>3 DEF Generate

LEMMA GetQuestionKeeps ==
  ASSUME IInv, NEW r \in Request, GetQuestion(r)
  PROVE  IInv'
<1>1. stage[r] = "question" /\ call[r].kind = "answer" /\ UNCHANGED stores
  BY KindOf DEF GetQuestion, Handles
<1>2. CASE Respond(r, "question", 404)
  BY <1>1, <1>2, RefusalKeeps DEF Status
<1>3. CASE \E q \in bank : q.topic = call[r].topic /\ Goto(r, "question", "objective", q)
  <2>1. PICK q \in bank : q.topic = call[r].topic /\ Goto(r, "question", "objective", q)
    BY <1>3
  <2>2. q \in Question /\ stage'[r] = "objective" /\ local'[r] = q /\ call' = call
    BY <2>1 DEF Goto, IInv, TypeOK
  <2>3. (Reading(r) /\ Found(r) /\ Covering(r))'
    BY <1>1, <2>1, <2>2 DEF Reading, Found, Covering
  <2> QED BY <1>1, <2>1, <2>3, ReadKeeps DEF Handles
<1> QED BY <1>2, <1>3 DEF GetQuestion

LEMMA KnowsObjectiveKeeps ==
  ASSUME IInv, NEW r \in Request, KnowsObjective(r)
  PROVE  IInv'
<1>1. stage[r] = "objective" /\ call[r].kind \in {"record", "answer"} /\ UNCHANGED stores
  BY KindOf DEF KnowsObjective, Handles
<1>2. CASE Respond(r, "objective", 404)
  BY <1>1, <1>2, RefusalKeeps DEF Status
<1>3. CASE Target(r) \in Known(call[r].topic) /\ Goto(r, "objective", "append", local[r])
  <2>1. stage'[r] = "append" /\ local'[r] = local[r] /\ call' = call /\ topics' = topics
    BY <1>1, <1>3 DEF Goto, IInv, stores
  <2>2. Target(r)' = Target(r) /\ Known(call[r].topic)' = Known(call[r].topic)
    BY <2>1 DEF Target, Known
  <2>3. (Reading(r) /\ Found(r) /\ Covering(r))'
    BY <1>1, <1>3, <2>1, <2>2 DEF IInv, RequestOK, Reading, Found, Covering
  <2> QED BY <1>1, <1>3, <2>3, ReadKeeps DEF Handles
<1> QED BY <1>2, <1>3 DEF KnowsObjective

LEMMA GetStateKeeps ==
  ASSUME IInv, NEW r \in Request, GetState(r)
  PROVE  IInv'
<1>1. stage[r] = "state" /\ UNCHANGED stores
  BY DEF GetState
<1>2. PICK code \in {200, 500} : Respond(r, "state", code)
  BY DEF GetState
<1>3. \E a \in log' : Reports(a, call[r])
  BY <1>1 DEF IInv, RequestOK, Answered, stores
<1> QED BY <1>1, <1>2, <1>3, StoresKept, RespondKeeps DEF Status

LEMMA UnavailableKeeps ==
  ASSUME IInv, NEW r \in Request, Unavailable(r)
  PROVE  IInv'
BY RefusalKeeps DEF Unavailable, Status

(* The bodies merged onto what was read have a unit for every objective. *)
LEMMA MergedTyped ==
  ASSUME NEW bodies \in Partial(Unit \cup {Omitted}), NEW existing \in Catalog
  PROVE  Merged(bodies, existing) \in Partial(Unit) /\ DOMAIN Merged(bodies, existing) = DOMAIN bodies
<1>1. DOMAIN bodies \subseteq Objective /\ \A o \in DOMAIN bodies : bodies[o] \in Unit \cup {Omitted}
  BY DEF Partial
<1>2. \A o \in DOMAIN bodies : MergeObjective(bodies[o], existing[o]) \in Unit
  BY <1>1 DEF MergeObjective, Catalog
<1>3. Merged(bodies, existing) \in [DOMAIN bodies -> Unit]
  BY <1>2 DEF Merged
<1> QED BY <1>1, <1>3 DEF Partial

LEMMA Registering ==
  ASSUME IInv, NEW r \in Request, Register(r)
  PROVE  /\ stage[r] = "upsert" /\ call[r].kind = "register" /\ call[r].topic \in Topic
         /\ topics[call[r].topic] # None
         /\ Merged(call[r].bodies, local[r]) \in Partial(Unit)
         /\ Upsert(call[r].topic, Merged(call[r].bodies, local[r]))
<1>1. stage[r] = "upsert" /\ call[r].kind = "register"
  BY DEF Register
<1>2. call[r].bodies \in Partial(Unit \cup {Omitted}) /\ local[r] \in Catalog
  BY <1>1, KindOf, CallsTyped DEF IInv, RequestOK, Reading
<1> QED BY <1>1, <1>2, KindOf, MergedTyped DEF Register, IInv, RequestOK, Found

LEMMA RegisterKeeps ==
  ASSUME IInv, NEW r \in Request, Register(r)
  PROVE  IInv'
<1>1. /\ stage[r] = "upsert" /\ call[r].kind = "register" /\ Committed(r, "upsert", 201)
      /\ uploads' = uploads /\ bank' = bank /\ minted' = minted /\ log' = log
  BY DEF Register
<1>2. /\ topics' \in [Topic -> Profile \cup {None}]
      /\ \A x \in Topic : topics[x] # None => topics'[x] # None
      /\ \A x \in Topic : Known(x) \subseteq Known(x)'
      /\ \A x \in Topic : topics[x] = None => topics'[x] = None
  BY Registering, UpsertGrows
<1>3. StoresTyped' /\ Growing
  BY <1>1, <1>2 DEF IInv, TypeOK, StoresTyped, Growing
<1>4. \A u \in Request \ {r} : stage[u] = "save" => topics'[call[u].topic] = None
  BY <1>2, KindOf DEF IInv, RequestOK, Found
<1> QED BY <1>1, <1>2, <1>3, <1>4, GrowthKeeps, CommittedKeeps DEF Status

LEMMA UpsertProposedKeeps ==
  ASSUME IInv, NEW r \in Request, UpsertProposed(r)
  PROVE  IInv'
<1>1. /\ stage[r] = "upsert" /\ call[r].kind = "generate"
      /\ Goto(r, "upsert", "replace", local[r]) \/ Respond(r, "upsert", 503)
      /\ Upsert(call[r].topic, local[r].proposed)
      /\ uploads' = uploads /\ bank' = bank /\ minted' = minted /\ log' = log
  BY DEF UpsertProposed
<1>2. PICK t \in Topic, said \in Proposals : t = call[r].topic /\ said = local[r]
  BY <1>1, KindOf DEF IInv, RequestOK, Reading
<1>3. /\ topics[t] # None /\ call[r] \in Calls /\ said.proposed \in Partial(Unit)
      /\ said.covered \subseteq Known(t) \cup DOMAIN said.proposed
  BY <1>1, <1>2, KindOf, ProposalAssumption DEF IInv, RequestOK, Found, Covering
<1>4. /\ topics' \in [Topic -> Profile \cup {None}]
      /\ \A x \in Topic : topics[x] # None => topics'[x] # None
      /\ \A x \in Topic : Known(x) \subseteq Known(x)'
      /\ DOMAIN said.proposed \subseteq Known(t)'
      /\ \A x \in Topic : topics[x] = None => topics'[x] = None
  BY <1>1, <1>2, <1>3, UpsertGrows
<1>5. StoresTyped' /\ Growing
  BY <1>1, <1>4 DEF IInv, TypeOK, StoresTyped, Growing
<1>6. \A u \in Request \ {r} : stage[u] = "save" => topics'[call[u].topic] = None
  BY <1>4, KindOf DEF IInv, RequestOK, Found
<1>7. CASE Respond(r, "upsert", 503)
  BY <1>1, <1>4, <1>5, <1>6, <1>7, GrowthKeeps, RespondKeeps DEF Status
<1>8. CASE Goto(r, "upsert", "replace", local[r])
  <2>1. stage'[r] = "replace" /\ local'[r] = said /\ call' = call
    BY <1>1, <1>2, <1>8 DEF Goto, IInv
  <2>2. said.covered \subseteq Known(t)'
    BY <1>3, <1>4
  <2>3. Calling(r)' /\ Reading(r)' /\ Found(r)'
    BY <1>1, <1>2, <1>3, <1>4, <2>1 DEF Calling, Handles, Reading, Found
  <2>4. Covering(r)' /\ Answered(r)' /\ Saved(r)'
    BY <1>2, <2>1, <2>2 DEF Covering, Answered, Saved, Known
  <2>5. RequestOK(r)'
    BY <2>3, <2>4 DEF RequestOK
  <2> QED BY <1>1, <1>4, <1>5, <1>6, <1>8, <2>5, GrowthKeeps, GotoKeeps
<1> QED BY <1>1, <1>7, <1>8

LEMMA AddMaterialKeeps ==
  ASSUME IInv, NEW r \in Request, AddMaterial(r)
  PROVE  IInv'
<1>1. stage[r] = "add" /\ Committed(r, "add", 201) /\ topics' = topics /\ bank' = bank /\ minted' = minted /\ log' = log
  BY DEF AddMaterial, Committed, Respond
<1>2. call[r].topic \in Topic /\ call[r].kind = "upload"
  BY <1>1, KindOf DEF Handles
<1>3. \A t : Known(t)' = Known(t)
  BY <1>1 DEF Known
<1>4. StoresTyped' /\ Growing
  BY <1>1, <1>2, <1>3 DEF AddMaterial, IInv, TypeOK, StoresTyped, Growing
<1>5. \A u \in Request \ {r} : stage[u] = "save" => topics'[call[u].topic] = None
  BY <1>1 DEF IInv, RequestOK, Found
<1> QED BY <1>1, <1>2, <1>3, <1>4, <1>5, GrowthKeeps, CommittedKeeps DEF Status

LEMMA DeleteSeesKeeps ==
  ASSUME IInv, NEW r \in Request, DeleteSees(r)
  PROVE  IInv'
<1> DEFINE seen == {q \in bank : q.material = call[r].material}
           read == [covered |-> local[r].covered, seen |-> seen]
<1>1. /\ stage[r] = "replace" /\ call[r].kind = "generate" /\ UNCHANGED stores
      /\ Goto(r, "replace", "insert", read)
  BY KindOf DEF DeleteSees, Goto, Handles
<1>2. stage'[r] = "insert" /\ local'[r].covered = local[r].covered /\ call' = call /\ topics' = topics
  BY <1>1 DEF Goto, IInv, stores
<1>3. (Reading(r) /\ Found(r) /\ Covering(r))'
  BY <1>1, <1>2 DEF IInv, RequestOK, Reading, Found, Covering, Known
<1> QED BY <1>1, <1>3, ReadKeeps DEF Handles

(* The new questions are for objectives of the catalog, whatever the other  *)
(* requests have done to it since the model was asked.                      *)
LEMMA ReplaceQuestionsKeeps ==
  ASSUME IInv, NEW r \in Request, ReplaceQuestions(r)
  PROVE  IInv'
<1> DEFINE t == call[r].topic
<1>1. /\ stage[r] = "insert" /\ Committed(r, "insert", 200)
      /\ topics' = topics /\ uploads' = uploads /\ log' = log
  BY DEF ReplaceQuestions
<1>2. PICK made \in SUBSET Question :
        /\ IsFiniteSet(made)
        /\ {q.objective : q \in made} = local[r].covered
        /\ {q.question_id : q \in made} = (minted + 1)..(minted + Cardinality(made))
        /\ \A q \in made : q.topic = t
        /\ bank' = (bank \ local[r].seen) \cup made
        /\ minted' = minted + Cardinality(made)
  BY DEF ReplaceQuestions
<1>3. t \in Topic /\ call[r].kind = "generate" /\ local[r].covered \subseteq Known(t)
  BY <1>1, KindOf DEF Handles, IInv, RequestOK, Covering
<1>4. \A x : Known(x)' = Known(x)
  BY <1>1 DEF Known
<1>5. minted' \in 0..MaxQuestions
  <2>1. Cardinality(made) \in Nat /\ minted \in 0..MaxQuestions /\ MaxQuestions \in Nat
    BY <1>2, FS_CardinalityType, RaceAssumption DEF IInv, TypeOK
  <2>2. CASE Cardinality(made) = 0
    BY <1>2, <2>1, <2>2
  <2>3. CASE Cardinality(made) # 0
    <3>1. minted + Cardinality(made) \in {q.question_id : q \in made}
      BY <1>2, <2>1, <2>3
    <3>2. minted + Cardinality(made) \in 1..MaxQuestions
      BY <3>1 DEF Question
    <3> QED BY <1>2, <3>2, <2>1
  <2> QED BY <2>2, <2>3
<1>6. StoresTyped' /\ Growing
  BY <1>1, <1>2, <1>4, <1>5 DEF IInv, TypeOK, StoresTyped, Growing
<1>7. QuestionsArePractisable'
  <2>1. \A q \in made : q.objective \in Known(q.topic)'
    BY <1>2, <1>3, <1>4
  <2>2. \A q \in bank : q.objective \in Known(q.topic)'
    BY <1>4 DEF IInv, QuestionsArePractisable
  <2> QED BY <1>2, <2>1, <2>2 DEF QuestionsArePractisable
<1>8. \A a \in log' : a.objective \in Known(a.topic)'
  BY <1>1, <1>4 DEF IInv, EveryAttemptHasItsObjective
<1>9. \A u \in Request \ {r} : stage[u] = "save" => topics'[call[u].topic] = None
  BY <1>1 DEF IInv, RequestOK, Found
<1> QED BY <1>1, <1>3, <1>6, <1>7, <1>8, <1>9, CommittedKeeps DEF Status

(* The attempt that is appended is the one that was sent, for an objective  *)
(* of the catalog.                                                          *)
LEMMA AppendAttemptKeeps ==
  ASSUME IInv, NEW r \in Request, AppendAttempt(r)
  PROVE  IInv'
<1> DEFINE t == call[r].topic
<1>1. /\ stage[r] = "append" /\ call[r].kind \in {"record", "answer"}
      /\ call[r] \in Calls /\ t \in Topic
  BY KindOf DEF AppendAttempt, Handles
<1>2. CASE Taken(call[r].attempt_id) /\ Respond(r, "append", 409) /\ UNCHANGED stores
  <2>1. Taken(call[r].attempt_id)'
    BY <1>2 DEF Taken, stores, Respond
  <2> QED BY <1>2, <2>1, StoresKept, RespondKeeps DEF Status
<1>3. CASE /\ log' = log \cup {Graded(r)}
           /\ IF call[r].kind = "answer"
                THEN Goto(r, "append", "state", local[r]) \/ Respond(r, "append", 503)
                ELSE Committed(r, "append", 201)
           /\ topics' = topics /\ uploads' = uploads /\ bank' = bank /\ minted' = minted
  <2>1. Target(r) \in Known(t)
    BY <1>1 DEF IInv, RequestOK, Covering
  <2>2. Graded(r) \in Attempt
    <3>1. call[r].attempt_id \in AttemptId /\ Target(r) \in Objective
      BY <1>1, <2>1, CallsTyped DEF Known
    <3>2. CASE call[r].kind = "answer"
      BY <1>1, <3>1, <3>2, CallsTyped DEF Graded, Attempt
    <3>3. CASE call[r].kind = "record"
      BY <1>1, <3>1, <3>3, CallsTyped DEF Graded, Attempt
    <3> QED BY <1>1, <3>2, <3>3
  <2>3. Reports(Graded(r), call[r])
    BY <1>1 DEF Graded, Reports, Target
  <2>4. \A x : Known(x)' = Known(x)
    BY <1>3 DEF Known
  <2>5. StoresTyped' /\ Growing
    BY <1>3, <2>2, <2>4 DEF IInv, TypeOK, StoresTyped, Growing
  <2>6. QuestionsArePractisable'
    BY <1>3, <2>4 DEF IInv, QuestionsArePractisable
  <2>7. \A a \in log' : a.objective \in Known(a.topic)'
    BY <1>3, <2>1, <2>4 DEF IInv, EveryAttemptHasItsObjective, Graded
  <2>8. \A u \in Request \ {r} : stage[u] = "save" => topics'[call[u].topic] = None
    BY <1>3 DEF IInv, RequestOK, Found
  <2>11. CASE call[r].kind = "answer" /\ Respond(r, "append", 503)
    BY <1>1, <2>5, <2>6, <2>7, <2>8, <2>11, RespondKeeps DEF Status
  <2>9. CASE call[r].kind = "answer" /\ Goto(r, "append", "state", local[r])
    <3>1. Goto(r, "append", "state", local[r])
      BY <2>9
    <3>2. stage'[r] = "state" /\ local'[r] = local[r] /\ call' = call
      BY <1>1, <3>1 DEF Goto, IInv
    <3>3. RequestOK(r)'
      <4>1. Calling(r)' /\ Reading(r)' /\ Found(r)' /\ Covering(r)' /\ Saved(r)'
        BY <1>1, <2>9, <3>2 DEF IInv, RequestOK, Calling, Handles, Reading, Found, Covering, Saved
      <4>2. Answered(r)'
        BY <1>3, <2>3, <3>2 DEF Answered, Reports
      <4> QED BY <4>1, <4>2 DEF RequestOK
    <3> QED BY <2>5, <2>6, <2>7, <2>8, <3>1, <3>3, GotoKeeps
  <2>10. CASE call[r].kind = "record"
    <3>1. Committed(r, "append", 201) /\ \E a \in log' : Reports(a, call[r])
      BY <1>3, <2>3, <2>10
    <3> QED BY <2>5, <2>6, <2>7, <2>8, <3>1, CommittedKeeps DEF Status
  <2> QED BY <1>1, <1>3, <2>9, <2>10, <2>11
<1> QED BY <1>2, <1>3 DEF AppendAttempt

-----------------------------------------------------------------------------
LEMMA IInvInitially == Init => IInv
<1> SUFFICES ASSUME Init PROVE IInv
  OBVIOUS
<1> USE DEF Init
<1>1. TypeOK
  BY RaceAssumption DEF TypeOK
<1>2. \A r \in Request : RequestOK(r)
  BY DEF RequestOK, Calling, Reading, Found, Covering, Answered, Saved
<1> QED
  BY <1>1, <1>2 DEF IInv, OneCreate, Creating, QuestionsArePractisable, EveryAttemptHasItsObjective

LEMMA HandleKeeps ==
  ASSUME IInv, NEW r \in Request, Handle(r)
  PROVE  IInv'
BY FindsTopicKeeps, SaveTopicKeeps, SetArchivedKeeps, RequireTopicKeeps, ListObjectivesKeeps,
   RegisterKeeps, AddMaterialKeeps, OwnedMaterialKeeps, GenerateKeeps, UpsertProposedKeeps,
   DeleteSeesKeeps, ReplaceQuestionsKeeps, GetQuestionKeeps, KnowsObjectiveKeeps, AppendAttemptKeeps, GetStateKeeps
DEF Handle

LEMMA StutterKeeps ==
  ASSUME IInv, UNCHANGED vars
  PROVE  IInv'
<1>1. UNCHANGED stores /\ stage' = stage /\ call' = call /\ local' = local /\ status' = status
  BY DEF vars, stores
<1>2. StoresTyped' /\ QuestionsArePractisable' /\ \A a \in log' : a.objective \in Known(a.topic)'
  BY <1>1, StoresKept
<1>3. TypeOK'
  BY <1>1, <1>2 DEF IInv, TypeOK, StoresTyped
<1>4. ASSUME NEW r \in Request PROVE RequestOK(r)'
  <2>1. RequestOK(r)
    BY DEF IInv
  <2>2. Calling(r)' /\ Reading(r)' /\ Found(r)'
    BY <1>1, <2>1 DEF RequestOK, Calling, Reading, Found, stores
  <2>3. Covering(r)'
    BY <1>1, <2>1 DEF RequestOK, Covering, Target, Known, stores
  <2>4. Answered(r)' /\ Saved(r)'
    BY <1>1, <2>1 DEF RequestOK, Answered, Saved, Reports, Taken, stores
  <2> QED BY <2>2, <2>3, <2>4 DEF RequestOK
<1>5. OneCreate'
  BY <1>1 DEF IInv, OneCreate, Creating
<1> QED BY <1>1, <1>2, <1>3, <1>4, <1>5 DEF IInv, EveryAttemptHasItsObjective

LEMMA IInvAlways ==
  ASSUME ~CreateRace
  PROVE  Spec => []IInv
<1>1. IInv /\ [Next]_vars => IInv'
  BY ReceiveKeeps, HandleKeeps, UnavailableKeeps, StutterKeeps DEF Next
<1> QED BY <1>1, IInvInitially, PTL DEF Spec

(* A question that is in the bank can be practised: its objective is in the *)
(* catalog, although a generation reads the catalog, asks the model and     *)
(* writes objectives and questions in store calls of their own.             *)
THEOREM BankIsPractisable ==
  ASSUME ~CreateRace
  PROVE  Spec => []QuestionsArePractisable
<1>1. IInv => QuestionsArePractisable
  BY DEF IInv
<1> QED BY <1>1, IInvAlways, PTL

(* Every attempt, graded or told, is for an objective of its topic.         *)
THEOREM AttemptsHaveObjectives ==
  ASSUME ~CreateRace
  PROVE  Spec => []EveryAttemptHasItsObjective
<1>1. IInv => EveryAttemptHasItsObjective
  BY DEF IInv
<1> QED BY <1>1, IInvAlways, PTL

(* An attempt is stored under an id that nothing is stored under. *)
EachIdOnce == \A a, b \in log : a.attempt_id = b.attempt_id => a = b

LEMMA EachIdIsOnce == Spec => []EachIdOnce
<1>1. EachIdOnce /\ [Next]_vars => EachIdOnce'
  <2> SUFFICES ASSUME EachIdOnce, [Next]_vars PROVE EachIdOnce'
    OBVIOUS
  <2>1. CASE log' = log
    BY <2>1 DEF EachIdOnce
  <2>2. ASSUME NEW r \in Request, AppendAttempt(r) PROVE EachIdOnce'
    <3>1. CASE log' = log
      BY <3>1 DEF EachIdOnce
    <3>2. CASE ~Taken(call[r].attempt_id) /\ log' = log \cup {Graded(r)}
      <4>1. Graded(r).attempt_id = call[r].attempt_id
        BY DEF Graded
      <4> QED BY <3>2, <4>1 DEF EachIdOnce, Taken
    <3> QED BY <2>2, <3>1, <3>2 DEF AppendAttempt, stores
  <2>3. CASE \E r \in Request : Handle(r)
    BY <2>1, <2>2, <2>3
    DEF Handle, FindsTopic, SaveTopic, SetArchived, RequireTopic, ListObjectives, Register,
        AddMaterial, OwnedMaterial, Generate, UpsertProposed, DeleteSees, ReplaceQuestions,
        GetQuestion, KnowsObjective, GetState, stores
  <2> QED BY <2>1, <2>3 DEF Next, Receive, Unavailable, vars, stores
<1>2. Init => EachIdOnce
  BY DEF Init, EachIdOnce
<1> QED BY <1>1, <1>2, PTL DEF Spec

(* A client that is told that its attempt was recorded finds it as it sent  *)
(* it, once, and one that is told that its id was taken is told the truth:  *)
(* now and ever after.                                                      *)
THEOREM WhatIsSaidIsSaved ==
  ASSUME ~CreateRace
  PROVE  Spec => []SavedMeansSaved
<1>1. IInv /\ EachIdOnce => SavedMeansSaved
  <2> SUFFICES ASSUME IInv, EachIdOnce, NEW r \in Request,
                      stage[r] = "done", call[r].kind \in {"answer", "record"}
               PROVE  /\ status[r] \in {200, 201} =>
                           \E a \in log : /\ Reports(a, call[r])
                                          /\ \A b \in log : b.attempt_id = a.attempt_id => b = a
                      /\ status[r] = 409 => Taken(call[r].attempt_id)
    BY DEF SavedMeansSaved
  <2>1. Saved(r)
    BY DEF IInv, RequestOK
  <2> QED BY <2>1 DEF Saved, EachIdOnce
<1> QED BY <1>1, IInvAlways, EachIdIsOnce, PTL

-----------------------------------------------------------------------------
(* Only three kinds of step write to a catalog. *)
LEMMA CatalogsGrow ==
  ASSUME IInv, [Next]_vars
  PROVE  \A t \in Topic : Known(t) \subseteq Known(t)'
<1>1. ASSUME NEW r \in Request, SaveTopic(r) PROVE \A t \in Topic : Known(t) \subseteq Known(t)'
  <2>1. topics[call[r].topic] = None
    BY <1>1 DEF SaveTopic, Committed, Respond, IInv, RequestOK, Found
  <2>2. \A x \in Topic : x # call[r].topic => topics'[x] = topics[x]
    BY <1>1 DEF SaveTopic, IInv, TypeOK
  <2> QED BY <2>1, <2>2 DEF Known
<1>2. ASSUME NEW r \in Request, SetArchived(r) PROVE \A t \in Topic : Known(t) \subseteq Known(t)'
  <2>1. CASE topics' = topics
    BY <2>1 DEF Known
  <2>2. CASE /\ topics[call[r].topic] # None
             /\ topics' = [topics EXCEPT ![call[r].topic].archived = call[r].archived]
    <3>1. call[r] \in Calls /\ call[r].topic \in Topic /\ call[r].archived \in BOOLEAN
      BY <1>2, KindOf, CallAssumption DEF SetArchived, Handles
    <3>2. \A x \in Topic : topics[x] # None => topics'[x] # None /\ topics'[x].objectives = topics[x].objectives
      <4>1. topics[call[r].topic] \in Profile /\ topics \in [Topic -> Profile \cup {None}]
        BY <2>2, <3>1 DEF IInv, TypeOK
      <4>2. topics'[call[r].topic] \in Profile
        BY <2>2, <3>1, <4>1 DEF Profile
      <4> QED BY <2>2, <3>1, <4>1, <4>2 DEF Profile
    <3> QED BY <3>2 DEF Known
  <2> QED BY <1>2, <2>1, <2>2 DEF SetArchived
<1>3. ASSUME NEW r \in Request, Register(r) PROVE \A t \in Topic : Known(t) \subseteq Known(t)'
  BY <1>3, Registering, UpsertGrows
<1>4. ASSUME NEW r \in Request, UpsertProposed(r) PROVE \A t \in Topic : Known(t) \subseteq Known(t)'
  <2>1. /\ stage[r] = "upsert" /\ call[r].kind = "generate" /\ Upsert(call[r].topic, local[r].proposed)
    BY <1>4 DEF UpsertProposed
  <2>2. call[r].topic \in Topic /\ topics[call[r].topic] # None /\ local[r].proposed \in Partial(Unit)
    BY <2>1, KindOf, ProposalAssumption DEF IInv, RequestOK, Reading, Found
  <2> QED BY <2>1, <2>2, UpsertGrows
<1>5. CASE UNCHANGED topics
  BY <1>5 DEF Known
<1>6. CASE \E r \in Request : (\E c \in Calls : Receive(r, c)) \/ Unavailable(r)
  BY <1>5, <1>6 DEF Receive, Unavailable, stores
<1>7. CASE \E r \in Request : Handle(r)
  BY <1>1, <1>2, <1>3, <1>4, <1>5, <1>7
  DEF Handle, FindsTopic, RequireTopic, ListObjectives, AddMaterial, OwnedMaterial, Generate,
      DeleteSees, ReplaceQuestions, GetQuestion, KnowsObjective, AppendAttempt, GetState, stores
<1>8. CASE UNCHANGED vars
  BY <1>5, <1>8 DEF vars
<1> QED BY <1>6, <1>7, <1>8 DEF Next

(* A field that a registration leaves out keeps the value that was read. *)
LEMMA OmittedIsKept ==
  ASSUME IInv, NEW r \in Request, RegistersUpToDate(r),
         NEW o \in Known(call[r].topic) \cap DOMAIN call[r].bodies, call[r].bodies[o] = Omitted
  PROVE  topics'[call[r].topic].objectives[o] = topics[call[r].topic].objectives[o]
<1> DEFINE t == call[r].topic
           objectives == Merged(call[r].bodies, local[r])
<1>1. /\ t \in Topic /\ topics[t] # None /\ Upsert(t, objectives)
      /\ local[r] = topics[t].objectives
  BY Registering DEF RegistersUpToDate
<1>2. o \in DOMAIN objectives /\ o \in Objective /\ topics[t].objectives[o] # None
  BY DEF Merged, Known
<1>3. objectives[o] = topics[t].objectives[o]
  BY <1>1, <1>2 DEF Merged, MergeObjective
<1>4. topics[t] \in Profile /\ topics \in [Topic -> Profile \cup {None}]
  BY <1>1 DEF IInv, TypeOK
<1> HIDE DEF objectives
<1>5. topics'[t].objectives = [x \in Objective |->
        IF x \in DOMAIN objectives THEN objectives[x] ELSE topics[t].objectives[x]]
  BY <1>1, <1>4 DEF Upsert, Profile
<1> QED BY <1>2, <1>3, <1>5

(* No step of the API takes an objective out of the catalog of a topic, and *)
(* a registration that finds the catalog as it read it keeps the fields     *)
(* that it does not send.                                                   *)
THEOREM CatalogForgetsNothing ==
  ASSUME ~CreateRace
  PROVE  Spec => NothingIsForgotten
<1>1. IInv /\ [Next]_vars =>
        [/\ \A t \in Topic : Known(t) \subseteq Known(t)'
         /\ \A r \in Request : RegistersUpToDate(r) =>
              LET t == call[r].topic IN
              \A o \in Known(t) \cap DOMAIN call[r].bodies : call[r].bodies[o] = Omitted =>
                topics'[t].objectives[o] = topics[t].objectives[o]]_vars
  BY CatalogsGrow, OmittedIsKept
<1> QED BY <1>1, IInvAlways, PTL DEF Spec, NothingIsForgotten

(* The race of two creates of one topic is the only way to overwrite one:   *)
(* between exists and save of a create nothing else can bring the topic.    *)
THEOREM CreateOverwritesOnlyInARace ==
  ASSUME ~CreateRace
  PROVE  Spec => CreateNeverOverwrites
<1>1. IInv => [\A r \in Request :
                 (stage[r] = "save" /\ status'[r] = 201) => topics[call[r].topic] = None]_vars
  BY DEF IInv, RequestOK, Found
<1> QED BY <1>1, IInvAlways, PTL DEF CreateNeverOverwrites
=============================================================================
