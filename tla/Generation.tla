----------------------------- MODULE Generation -----------------------------
(***************************************************************************)
(* POST /topics/{topic_id}/material/{material_id}/generate for the pages   *)
(* of one topic: the store calls of the handler, what it asks the model    *)
(* (generate/openai_backend.py) and what it makes of the answer            *)
(* (generate/prompting.py).  Several generations run at a time, each on a  *)
(* thread of the server, whether or not anybody waits for them.            *)
(*                                                                         *)
(* A unit (Objective.domain) is a spelling, which nothing but this code    *)
(* strips; two spellings are of one unit when they are Folded into one.    *)
(* Titles, stems, options and the order of the options are left out.       *)
(***************************************************************************)
EXTENDS Naturals, Sequences, FiniteSets

CONSTANTS
  MaxObjectives,   \* objective ids are 1..MaxObjectives, in their order
  Material,        \* material ids
  Generations,     \* generations ever asked for
  Spelling,        \* the domains an objective may have
  Stripped,        \* strip() of each of them
  Folded,          \* strip().casefold()
  Answers,         \* what the model may answer: [objectives, questions]
  OldCatalogs,     \* what the topic may start with
  NoUnit,          \* domain = None
  None             \* nothing

Objective == 1..MaxObjectives

ASSUME GenerationAssumption ==
  /\ MaxObjectives \in Nat /\ Generations \in Nat
  /\ NoUnit \notin Spelling /\ None \notin Spelling \cup {NoUnit}
  /\ DOMAIN Folded = Spelling /\ Stripped \in [Spelling -> Spelling]
  /\ \A d \in Spelling : Stripped[Stripped[d]] = Stripped[d] /\ Folded[Stripped[d]] = Folded[d]

(* The objectives of the topic with their domains; None where there is none *)
Catalog == [Objective -> Spelling \cup {NoUnit, None}]

Proposed == [objective_id : Objective, domain : Spelling \cup {NoUnit}]

(* GeneratedObjective, GeneratedQuestion: what the schema of the answer says *)
ASSUME AnswerAssumption ==
  /\ OldCatalogs \subseteq Catalog
  /\ Answers \subseteq [objectives : Seq(Proposed), questions : Seq(Objective)]

Gen == 1..Generations

VARIABLES
  catalog,     \* list_objectives of the topic
  bank,        \* per material: the batches of questions that it has
  seen,        \* those that the DELETE of each generation has found
  step,        \* the next thing each generation does, or its response
  material,    \* of each generation
  existing,    \* the objectives that it read
  result       \* GenerationResult

genVars == <<catalog, bank, seen, step, material, existing, result>>

(* The questions of one call, which are committed together.  Their ids are  *)
(* made by the call, so that no two calls insert the same one.              *)
Batch(g, questions) == [by |-> g, questions |-> questions]

NoResult == [objectives |-> <<>>, questions |-> <<>>]

Unread == [o \in Objective |-> None]

GenInit ==
  /\ catalog \in OldCatalogs
  /\ bank = [m \in Material |-> {}]
  /\ seen = [g \in Gen |-> {}]
  /\ step = [g \in Gen |-> "unsent"]
  /\ material = [g \in Gen |-> None]
  /\ existing = [g \in Gen |-> Unread]
  /\ result = [g \in Gen |-> NoResult]

-----------------------------------------------------------------------------
Known(objectives) == {o \in DOMAIN objectives : objectives[o] # None}

(* domains_of: the units there are, by the objectives in their order.  The  *)
(* first of each counts, so that nothing depends on its being there twice.  *)
DomainsOf(objectives) ==
  [o \in {k \in DOMAIN objectives : objectives[k] \notin {None, NoUnit}} |->
    Stripped[objectives[o]]]

(* Mutant: what the model spells is stripped, and no more. *)
ReconciledAsSpelled(domain, domains) == IF domain = NoUnit THEN NoUnit ELSE Stripped[domain]

(* _reconciled_domain *)
Reconciled(domain, domains) ==
  LET same == {o \in DOMAIN domains : Folded[domains[o]] = Folded[domain]}
  IN  IF domain = NoUnit THEN NoUnit
      ELSE IF same = {} THEN Stripped[domain]
      ELSE domains[CHOOSE o \in same : \A p \in same : o <= p]

(* build_result.  An answer has the objectives proposed and what each of    *)
(* its questions is for; a result, the questions that are kept.  A run with *)
(* targets is aimed, which no handler asks for: it proposes nothing and     *)
(* keeps the questions for its targets.                                     *)
ProposedBy(answer, domains, targets) ==
  IF targets # {} THEN <<>>
  ELSE [i \in DOMAIN answer.objectives |->
          [answer.objectives[i] EXCEPT !.domain = Reconciled(@, domains)]]

KeptOf(answer, targets) ==
  LET kept == {i \in DOMAIN answer.questions : targets = {} \/ answer.questions[i] \in targets}
  IN  [i \in kept |-> answer.questions[i]]

IdsOf(objectives) == {objectives[i].objective_id : i \in DOMAIN objectives}

Covered(questions) == {questions[i] : i \in DOMAIN questions}

(* GenerationError: a question for an objective that is neither known nor   *)
(* proposed, or a plain run without a question.                             *)
IsValid(answer, objectives, targets) ==
  LET kept == KeptOf(answer, targets)
      proposed == IF targets = {} THEN IdsOf(answer.objectives) ELSE {}
  IN  /\ Covered(kept) \subseteq Known(objectives) \cup proposed
      /\ targets = {} => DOMAIN kept # {}

BuildResult(answer, objectives, domains, targets) ==
  [objectives |-> ProposedBy(answer, domains, targets),
   questions |-> KeptOf(answer, targets),
   uncovered |-> targets \ Covered(KeptOf(answer, targets))]

-----------------------------------------------------------------------------
Goto(g, from, to) == step[g] = from /\ step' = [step EXCEPT ![g] = to]

(* The locals of the handler, when it has returned: its response counts the *)
(* questions.                                                               *)
Forgets(g) == existing' = [existing EXCEPT ![g] = Unread]

Errs(g, from) ==
  /\ Goto(g, from, "error")
  /\ Forgets(g)
  /\ result' = [result EXCEPT ![g] = NoResult]

(* The request is taken; the topic and its pages are never removed. *)
Ask(g, m) ==
  /\ \A h \in 1..(g - 1) : step[h] # "unsent"
  /\ Goto(g, "unsent", "list")
  /\ material' = [material EXCEPT ![g] = m]
  /\ UNCHANGED <<catalog, bank, seen, existing, result>>

ListObjectives(g) ==
  /\ Goto(g, "list", "model")
  /\ existing' = [existing EXCEPT ![g] = catalog]
  /\ UNCHANGED <<catalog, bank, seen, material, result>>

(* OpenAIGenerator.generate raises: without credentials, or with rejected   *)
(* ones, 503; for a refusal, no structured output or any other error, 502.  *)
ModelFails(g) ==
  /\ Errs(g, "model")
  /\ UNCHANGED <<catalog, bank, seen, material>>

(* The model answers.  What it answers may be an error still, 502.          *)
ModelAnswers(g) ==
  /\ step[g] = "model"
  /\ \E answer \in Answers :
       IF IsValid(answer, existing[g], {})
       THEN LET built == BuildResult(answer, existing[g], DomainsOf(existing[g]), {}) IN
            /\ result' = [result EXCEPT ![g] =
                 [objectives |-> built.objectives, questions |-> built.questions]]
            /\ Goto(g, "model", IF built.objectives = <<>> THEN "replace" ELSE "upsert")
            /\ UNCHANGED existing
       ELSE Errs(g, "model")
  /\ UNCHANGED <<catalog, bank, seen, material>>

(* What the catalog is after the objectives are upserted, one by one. *)
Upserted(objectives) ==
  [o \in Objective |->
    LET named == {i \in DOMAIN objectives : objectives[i].objective_id = o} IN
    IF named = {} THEN catalog[o]
    ELSE objectives[CHOOSE i \in named : \A j \in named : j <= i].domain]

UpsertObjectives(g) ==
  /\ Goto(g, "upsert", "replace")
  /\ catalog' = Upserted(result[g].objectives)
  /\ Forgets(g)
  /\ UNCHANGED <<bank, seen, material, result>>

(* replace_for_material, one transaction under READ COMMITTED: the DELETE   *)
(* finds what is committed when it begins, and it waits for another one     *)
(* that has found the same, so that either of the two may commit first.     *)
DeleteSees(g) ==
  /\ Goto(g, "replace", "insert")
  /\ seen' = [seen EXCEPT ![g] = bank[material[g]]]
  /\ UNCHANGED <<catalog, bank, material, existing, result>>

(* Mutant: the questions are added to those of the material. *)
ReplaceByAdding(g) ==
  /\ \E response \in {"ok", "error"} : Goto(g, "insert", response)
  /\ bank' = [bank EXCEPT ![material[g]] = @ \cup {Batch(g, result[g].questions)}]
  /\ seen' = [seen EXCEPT ![g] = {}]
  /\ Forgets(g)
  /\ result' = [result EXCEPT ![g] = [objectives |-> <<>>, questions |-> @.questions]]
  /\ UNCHANGED <<catalog, material>>

(* ... and commits.  What was committed since it was found stays, beside    *)
(* the questions inserted.  The connection may fail when all is committed:  *)
(* then the handler responds 503.                                           *)
ReplaceQuestions(g) ==
  /\ \E response \in {"ok", "error"} : Goto(g, "insert", response)
  /\ bank' = [bank EXCEPT ![material[g]] =
       (@ \ seen[g]) \cup {Batch(g, result[g].questions)}]
  /\ seen' = [seen EXCEPT ![g] = {}]
  /\ Forgets(g)
  /\ result' = [result EXCEPT ![g] = [objectives |-> <<>>, questions |-> @.questions]]
  /\ UNCHANGED <<catalog, material>>

(* A store call raises StorageError: the exception handler of web/app.py.   *)
(* An upsert that raises when it has committed is UpsertObjectives and then *)
(* this.                                                                    *)
Unavailable(g) ==
  /\ \E at \in {"list", "upsert", "replace", "insert"} : Errs(g, at)
  /\ seen' = [seen EXCEPT ![g] = {}]
  /\ UNCHANGED <<catalog, bank, material>>

Serve(g) ==
  \/ ListObjectives(g) \/ ModelFails(g) \/ ModelAnswers(g)
  \/ UpsertObjectives(g) \/ DeleteSees(g) \/ ReplaceQuestions(g) \/ Unavailable(g)

=============================================================================
