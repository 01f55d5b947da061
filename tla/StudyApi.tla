------------------------------ MODULE StudyApi ------------------------------
(***************************************************************************)
(* The handlers of web/routers/ as FastAPI runs them: a thread for each    *)
(* request, and a connection for each store call, so that other requests   *)
(* fall between any two calls of a handler.  Each store call is atomic,    *)
(* but for the replacement of questions, whose DELETE may miss those that  *)
(* another replacement is inserting: that is two steps.  record_attempt of *)
(* the tracker is two calls here: exists and append refuse an id alike,    *)
(* and Tracker has the race between them.                                  *)
(***************************************************************************)
EXTENDS Integers, Sequences, FiniteSets

CONSTANTS
  Request,        \* requests under way at a time
  Topic,          \* topic ids
  Objective,      \* objective ids
  Unit,           \* what Objective.domain may be
  Material,       \* material ids
  AttemptId,      \* attempt ids
  Key,            \* the keys of the options of a question
  Calls,          \* the calls that clients other than the browser make
  Proposals,      \* what the model may answer: [proposed, covered]
  CreateRace,     \* two creates of one topic may overlap
  MaxQuestions,   \* bound on the questions ever generated
  NoUnit,         \* domain = None, the default of a body
  None,           \* nothing
  Omitted         \* a field that a body does not send

ASSUME UnitAssumption == NoUnit \in Unit /\ None \notin Unit /\ Omitted \notin Unit /\ Omitted # None

ASSUME RaceAssumption == CreateRace \in BOOLEAN /\ MaxQuestions \in Nat

(* The objectives of a topic with their units; None where there is no       *)
(* objective.  The unit stands for weight and tags too.                     *)
Catalog == [Objective -> Unit \cup {None}]

Profile == [objectives : Catalog, archived : BOOLEAN]

ASSUME NoneAssumption == None \notin Profile /\ None \notin Nat

(* What is known of some objectives. *)
Partial(S) == UNION {[objectives -> S] : objectives \in SUBSET Objective}

Question ==
  [question_id : 1..MaxQuestions, material : Material, topic : Topic,
   objective : Objective, correct_key : Key]

Attempt ==
  [attempt_id : AttemptId, topic : Topic, objective : Objective, correct : BOOLEAN,
   note : Key \cup {None}]

(* The bodies of the requests *)
ASSUME CallAssumption ==
  \A c \in Calls :
    /\ c.topic \in Topic
    /\ \/ c.kind = "create"
       \/ c.kind = "archive" /\ c.archived \in BOOLEAN
       \/ c.kind = "register" /\ c.bodies \in Partial(Unit \cup {Omitted})
       \/ c.kind = "upload"
       \/ c.kind = "generate" /\ c.material \in Material
       \/ /\ c.kind = "record" /\ c.attempt_id \in AttemptId
          /\ c.objective \in Objective /\ c.correct \in BOOLEAN
       \/ c.kind = "answer" /\ c.attempt_id \in AttemptId /\ c.selected_key \in Key

(* GenerationResult *)
ASSUME ProposalAssumption ==
  \A said \in Proposals : said.proposed \in Partial(Unit) /\ said.covered \subseteq Objective

VARIABLES
  topics,      \* profiles: [objectives, archived], or None
  uploads,     \* the topic of each uploaded material, or None
  bank,        \* the questions
  minted,      \* how many questions were ever made; uuid4 never repeats
  log,         \* the attempts
  stage,       \* the next store call of each request
  call,        \* the call of each request
  local,       \* what its handler has read
  status       \* the response to it, or None

stores == <<topics, uploads, bank, minted, log>>

vars == <<topics, uploads, bank, minted, log, stage, call, local, status>>

Init ==
  /\ topics = [t \in Topic |-> None]
  /\ uploads = [m \in Material |-> None]
  /\ bank = {}
  /\ minted = 0
  /\ log = {}
  /\ stage = [r \in Request |-> "idle"]
  /\ call = [r \in Request |-> None]
  /\ local = [r \in Request |-> None]
  /\ status = [r \in Request |-> None]

-----------------------------------------------------------------------------
Known(t) == {o \in Objective : topics[t] # None /\ topics[t].objectives[o] # None}

Empty == [o \in Objective |-> None]

(* The handler goes on, with what it has read. *)
Goto(r, from, to, read) ==
  /\ stage[r] = from
  /\ stage' = [stage EXCEPT ![r] = to]
  /\ local' = [local EXCEPT ![r] = read]
  /\ UNCHANGED <<call, status>>

Respond(r, from, code) ==
  /\ stage[r] = from
  /\ stage' = [stage EXCEPT ![r] = "done"]
  /\ status' = [status EXCEPT ![r] = code]
  /\ local' = [local EXCEPT ![r] = None]
  /\ UNCHANGED call

(* What was written is committed; the connection may still break before it *)
(* says so, and the store call raises StorageError all the same.           *)
Committed(r, from, code) == Respond(r, from, code) \/ Respond(r, from, 503)

First == [create |-> "absent", archive |-> "flag", register |-> "topic", upload |-> "topic",
          generate |-> "topic", record |-> "objective", answer |-> "question"]

Second == [register |-> "read", upload |-> "add", generate |-> "material"]

(* No request like c, a create, is under way. *)
Alone(c) ==
  c.kind = "create" => \A r \in Request : stage[r] \in {"absent", "save"} => call[r].topic # c.topic

(* A thread takes a request; a client has its response by the next one. *)
Receive(r, c) ==
  /\ stage[r] \in {"idle", "done"}
  /\ CreateRace \/ Alone(c)
  /\ stage' = [stage EXCEPT ![r] = First[c.kind]]
  /\ call' = [call EXCEPT ![r] = c]
  /\ status' = [status EXCEPT ![r] = None]
  /\ UNCHANGED <<stores, local>>

(* A store call raises StorageError, and nothing of it is stored: the       *)
(* exception handler of web/app.py.                                         *)
Unavailable(r) ==
  /\ stage[r] \notin {"idle", "done", "model"}
  /\ Respond(r, stage[r], 503)
  /\ UNCHANGED stores

-----------------------------------------------------------------------------
(* create_topic *)
FindsTopic(r) ==
  LET t == call[r].topic IN
  /\ stage[r] = "absent"
  /\ \/ topics[t] # None /\ Respond(r, "absent", 409)
     \/ topics[t] = None /\ Goto(r, "absent", "save", None)
  /\ UNCHANGED stores

SaveTopic(r) ==
  /\ Committed(r, "save", 201)
  /\ topics' = [topics EXCEPT ![call[r].topic] = [objectives |-> Empty, archived |-> FALSE]]
  /\ UNCHANGED <<uploads, bank, minted, log>>

(* set_topic_archived *)
SetArchived(r) ==
  LET t == call[r].topic IN
  /\ stage[r] = "flag"
  /\ \/ topics[t] = None /\ Respond(r, "flag", 404) /\ UNCHANGED topics
     \/ /\ topics[t] # None
        /\ Committed(r, "flag", 200)
        /\ topics' = [topics EXCEPT ![t].archived = call[r].archived]
  /\ UNCHANGED <<uploads, bank, minted, log>>

(* get_profile, or _require_topic *)
RequireTopic(r) ==
  LET t == call[r].topic IN
  /\ stage[r] = "topic"
  /\ \/ topics[t] = None /\ Respond(r, "topic", 404)
     \/ topics[t] # None /\ Goto(r, "topic", Second[call[r].kind], None)
  /\ UNCHANGED stores

-----------------------------------------------------------------------------
(* register_objectives: list_objectives, then upsert_objectives of the      *)
(* bodies merged onto what was read.                                        *)
ListObjectives(r) ==
  /\ stage[r] = "read"
  /\ Goto(r, "read", IF call[r].kind = "generate" THEN "model" ELSE "upsert",
          topics[call[r].topic].objectives)
  /\ UNCHANGED stores

(* _merge_objective *)
MergeObjective(sent, existing) ==
  IF sent # Omitted THEN sent ELSE IF existing # None THEN existing ELSE NoUnit

Merged(bodies, existing) ==
  [o \in DOMAIN bodies |-> MergeObjective(bodies[o], existing[o])]

(* Mutant: the catalog becomes what was named. *)
UpsertReplacing(t, objectives) ==
  topics' = [topics EXCEPT ![t].objectives =
    [o \in Objective |-> IF o \in DOMAIN objectives THEN objectives[o] ELSE None]]

(* upsert_objectives: adds or overwrites, never removes. *)
Upsert(t, objectives) ==
  topics' = [topics EXCEPT ![t].objectives =
    [o \in Objective |-> IF o \in DOMAIN objectives THEN objectives[o] ELSE @[o]]]

Register(r) ==
  /\ stage[r] = "upsert" /\ call[r].kind = "register"
  /\ Committed(r, "upsert", 201)
  /\ Upsert(call[r].topic, Merged(call[r].bodies, local[r]))
  /\ UNCHANGED <<uploads, bank, minted, log>>

(* upload_material *)
AddMaterial(r) ==
  /\ Committed(r, "add", 201)
  /\ \E m \in Material :
       /\ uploads[m] = None
       /\ uploads' = [uploads EXCEPT ![m] = call[r].topic]
  /\ UNCHANGED <<topics, bank, minted, log>>

-----------------------------------------------------------------------------
(* generate_from_material *)
OwnedMaterial(r) ==
  /\ stage[r] = "material"
  /\ \/ uploads[call[r].material] # call[r].topic /\ Respond(r, "material", 404)
     \/ uploads[call[r].material] = call[r].topic /\ Goto(r, "material", "read", None)
  /\ UNCHANGED stores

(* Mutant: questions for any objective are taken. *)
GenerateUnchecked(r) ==
  /\ stage[r] = "model"
  /\ UNCHANGED stores
  /\ \E said \in Proposals :
       Goto(r, "model", IF said.proposed = <<>> THEN "replace" ELSE "upsert", said)

(* build_result: questions may be for the objectives the model was told of  *)
(* and for those it proposes; any other, or no question, is an error, 502.  *)
(* Without credentials for the model, 503.                                  *)
Generate(r) ==
  LET known == {o \in Objective : local[r][o] # None} IN
  /\ stage[r] = "model"
  /\ UNCHANGED stores
  /\ \/ \E code \in {502, 503} : Respond(r, "model", code)
     \/ \E said \in Proposals :
          /\ said.covered # {} /\ said.covered \subseteq known \cup DOMAIN said.proposed
          /\ Goto(r, "model", IF said.proposed = <<>> THEN "replace" ELSE "upsert", said)

UpsertProposed(r) ==
  /\ stage[r] = "upsert" /\ call[r].kind = "generate"
  /\ Goto(r, "upsert", "replace", local[r]) \/ Respond(r, "upsert", 503)
  /\ Upsert(call[r].topic, local[r].proposed)
  /\ UNCHANGED <<uploads, bank, minted, log>>

(* replace_for_material: the DELETE takes the questions it sees. *)
DeleteSees(r) ==
  /\ Goto(r, "replace", "insert",
          [covered |-> local[r].covered, seen |-> {q \in bank : q.material = call[r].material}])
  /\ UNCHANGED stores

(* The INSERTs, and the commit of both.  New questions have new ids, in     *)
(* order of creation.                                                       *)
ReplaceQuestions(r) ==
  /\ stage[r] = "insert"
  /\ Committed(r, "insert", 200)
  /\ \E made \in SUBSET Question :
       /\ IsFiniteSet(made)
       /\ {q.objective : q \in made} = local[r].covered
       /\ {q.question_id : q \in made} = (minted + 1)..(minted + Cardinality(made))
       /\ \A q \in made : q.material = call[r].material /\ q.topic = call[r].topic
       /\ bank' = (bank \ local[r].seen) \cup made
       /\ minted' = minted + Cardinality(made)
  /\ UNCHANGED <<topics, uploads, log>>

-----------------------------------------------------------------------------
(* answer_question *)
GetQuestion(r) ==
  LET found == {q \in bank : q.question_id = call[r].question_id /\ q.topic = call[r].topic} IN
  /\ stage[r] = "question"
  /\ \/ found = {} /\ Respond(r, "question", 404)
     \/ \E q \in found : Goto(r, "question", "objective", q)
  /\ UNCHANGED stores

(* record_attempt of web/routers/ingest.py and of the tracker *)
Target(r) == IF call[r].kind = "answer" THEN local[r].objective ELSE call[r].objective

(* Mutant: the topic is looked up, the objective is not. *)
KnowsTopic(r) ==
  LET t == call[r].topic IN
  /\ stage[r] = "objective"
  /\ \/ topics[t] = None /\ Respond(r, "objective", 404)
     \/ topics[t] # None /\ Goto(r, "objective", "append", local[r])
  /\ UNCHANGED stores

KnowsObjective(r) ==
  LET t == call[r].topic IN
  /\ stage[r] = "objective"
  /\ \/ Target(r) \notin Known(t) /\ Respond(r, "objective", 404)
     \/ Target(r) \in Known(t) /\ Goto(r, "objective", "append", local[r])
  /\ UNCHANGED stores

Graded(r) ==
  [attempt_id |-> call[r].attempt_id, topic |-> call[r].topic, objective |-> Target(r),
   correct |-> IF call[r].kind = "answer" THEN call[r].selected_key = local[r].correct_key
               ELSE call[r].correct,
   note |-> IF call[r].kind = "answer" THEN call[r].selected_key ELSE None]

Taken(id) == \E a \in log : a.attempt_id = id

(* Mutant: ON CONFLICT DO NOTHING, reported as recorded. *)
AppendUnlessTaken(r) ==
  /\ Respond(r, "append", 201)
  /\ log' = IF Taken(call[r].attempt_id) THEN log ELSE log \cup {Graded(r)}
  /\ UNCHANGED <<topics, uploads, bank, minted>>

AppendAttempt(r) ==
  /\ stage[r] = "append"
  /\ \/ /\ Taken(call[r].attempt_id)
        /\ Respond(r, "append", 409)
        /\ UNCHANGED stores
     \/ /\ ~Taken(call[r].attempt_id)
        /\ log' = log \cup {Graded(r)}
        /\ IF call[r].kind = "answer"
             THEN Goto(r, "append", "state", local[r]) \/ Respond(r, "append", 503)
             ELSE Committed(r, "append", 201)
        /\ UNCHANGED <<topics, uploads, bank, minted>>

(* get_state after the attempt: the response carries the new state.  An     *)
(* objective that has gone since is an error no handler expects.            *)
GetState(r) ==
  LET t == call[r].topic IN
  /\ stage[r] = "state"
  /\ Respond(r, "state", IF Target(r) \in Known(t) THEN 200 ELSE 500)
  /\ UNCHANGED stores

Handle(r) ==
  \/ FindsTopic(r) \/ SaveTopic(r) \/ SetArchived(r) \/ RequireTopic(r)
  \/ ListObjectives(r) \/ Register(r) \/ AddMaterial(r)
  \/ OwnedMaterial(r) \/ Generate(r) \/ UpsertProposed(r)
  \/ DeleteSees(r) \/ ReplaceQuestions(r)
  \/ GetQuestion(r) \/ KnowsObjective(r) \/ AppendAttempt(r) \/ GetState(r)

Next ==
  \E r \in Request :
    \/ \E c \in Calls : Receive(r, c)
    \/ Handle(r)
    \/ Unavailable(r)

Spec == Init /\ [][Next]_vars

-----------------------------------------------------------------------------
(* What the handlers promise a client while other requests run between     *)
(* their store calls.                                                      *)

Status == {200, 201, 404, 409, 500, 502, 503}

TypeOK ==
  /\ topics \in [Topic -> Profile \cup {None}]
  /\ uploads \in [Material -> Topic \cup {None}]
  /\ bank \subseteq Question
  /\ minted \in 0..MaxQuestions
  /\ log \subseteq Attempt
  /\ call \in [Request -> Calls \cup {None}]
  /\ status \in [Request -> Status \cup {None}]
  /\ \A r \in Request : (status[r] # None) = (stage[r] = "done")

(* Every question can be practised: its objective is in the catalog of its  *)
(* topic.  generate_from_material writes objectives and questions in two    *)
(* transactions, either of which can fail, and reads the catalog before the *)
(* model is asked.                                                          *)
QuestionsArePractisable ==
  \A q \in bank : q.objective \in Known(q.topic)

(* Every attempt belongs to an objective of its topic, through both doors,  *)
(* although the question or the catalog was read some store calls before.   *)
EveryAttemptHasItsObjective ==
  /\ TypeOK
  /\ \A a \in log : a.objective \in Known(a.topic)

(* a is the attempt the call asked for. *)
Reports(a, c) ==
  /\ a.attempt_id = c.attempt_id /\ a.topic = c.topic
  /\ IF c.kind = "answer" THEN a.note = c.selected_key
     ELSE a.note = None /\ a.objective = c.objective /\ a.correct = c.correct

(* Whoever is told that an answer or a verdict was recorded finds it there  *)
(* as he sent it and nothing else under its attempt_id, whatever else is    *)
(* sent with the same one, by a retry or by somebody else; and 409 is said  *)
(* only of an id that is taken.                                             *)
SavedMeansSaved ==
  \A r \in Request :
    (stage[r] = "done" /\ call[r].kind \in {"answer", "record"}) =>
      /\ status[r] \in {200, 201} =>
           \E a \in log : /\ Reports(a, call[r])
                          /\ \A b \in log : b.attempt_id = a.attempt_id => b = a
      /\ status[r] = 409 => Taken(call[r].attempt_id)

(* A registration of r that read the catalog as it still is. *)
RegistersUpToDate(r) == Register(r) /\ topics[call[r].topic].objectives = local[r]

(* The API has no way to lose an objective: not by a second page of notes,  *)
(* not by a repeated registration, not by a create that comes second.  And  *)
(* a registration that does not send a field leaves it as it is, unless     *)
(* somebody changed the catalog since the registration read it.             *)
NothingIsForgotten ==
  [][/\ \A t \in Topic : Known(t) \subseteq Known(t)'
     /\ \A r \in Request : RegistersUpToDate(r) =>
          LET t == call[r].topic IN
          \A o \in Known(t) \cap DOMAIN call[r].bodies : call[r].bodies[o] = Omitted =>
            topics'[t].objectives[o] = topics[t].objectives[o]]_vars

(* A create is answered 201 only for a topic that was absent when it was    *)
(* saved: "409 when a topic with that id already exists: save_profile would *)
(* silently overwrite it".                                                  *)
CreateNeverOverwrites ==
  [][\A r \in Request :
       (stage[r] = "save" /\ status'[r] = 201) => topics[call[r].topic] = None]_vars
=============================================================================
