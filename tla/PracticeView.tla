---------------------------- MODULE PracticeView ----------------------------
(***************************************************************************)
(* webui/js/views/practice.js: the practice sessions of one page, the      *)
(* requests they wait for and the server, which answers late, twice, or    *)
(* not at all.  A session is one call of renderPracticeSession; leaving it *)
(* does not stop its promises.  A key reaches every listener there is, a   *)
(* click only what is on screen.                                           *)
(***************************************************************************)
EXTENDS Naturals, FiniteSets

CONSTANTS
  Session,       \* calls of renderPracticeSession
  Question,      \* the questions, all in the bank at first
  Key,           \* the keys of their options
  MaxRequests,   \* bound on the requests sent
  None           \* nothing

ASSUME BoundAssumption == MaxRequests \in Nat

VARIABLES
  shown,      \* the session on screen; None for the tree or another view
  listening,  \* the sessions whose keydown listener is on the document
  phase,      \* of each session, and its other local variables:
  question, selectedKey, attemptId,
  area,       \* what it has painted last
  awaiting,   \* the requests whose promises it holds
  shows,      \* questions painted so far; makeAttemptId numbers them
  sent,       \* requests sent so far
  wire,       \* requests that the server has not handled
  replies,    \* responses on their way back
  bank, log   \* the questions and the attempts of the server

page == <<shown, listening>>

locals == <<phase, question, selectedKey, attemptId, area, awaiting, shows>>

net == <<sent, wire, replies>>

vars == <<page, locals, net, bank, log>>

Request ==
  [n : Nat, session : Session, kind : {"next", "answer"},
   question_id : Question \cup {None}, attempt_id : Nat, selected_key : Key \cup {None}]

Attempt == [attempt_id : Nat, question_id : Question, selected_key : Key]

Init ==
  /\ shown = None /\ listening = {}
  /\ phase = [s \in Session |-> "unopened"]
  /\ question = [s \in Session |-> None]
  /\ selectedKey = [s \in Session |-> None]
  /\ attemptId = [s \in Session |-> 0]
  /\ area = [s \in Session |-> "blank"]
  /\ awaiting = [s \in Session |-> {}]
  /\ shows = 0 /\ sent = 0
  /\ wire = {} /\ replies = {}
  /\ bank = Question /\ log = {}

-----------------------------------------------------------------------------
(* The requests of api.js.  n only tells two of them apart. *)
NextRequest(s, n) ==
  [n |-> n, session |-> s, kind |-> "next", question_id |-> None, attempt_id |-> 0,
   selected_key |-> None]

(* Mutant: an attempt_id for each request and not for each question. *)
AnswerRequestRenumbered(s, n) ==
  [n |-> n, session |-> s, kind |-> "answer", question_id |-> question[s],
   attempt_id |-> n, selected_key |-> selectedKey[s]]

AnswerRequest(s, n) ==
  [n |-> n, session |-> s, kind |-> "answer", question_id |-> question[s],
   attempt_id |-> attemptId[s], selected_key |-> selectedKey[s]]

(* The requests are sent, and their sessions wait for them. *)
Send(requests) ==
  /\ sent + Cardinality(requests) <= MaxRequests
  /\ sent' = sent + Cardinality(requests)
  /\ wire' = wire \cup requests
  /\ awaiting' = [s \in Session |-> awaiting[s] \cup {r \in requests : r.session = s}]
  /\ UNCHANGED replies

-----------------------------------------------------------------------------
(* Coming and going.  A session starts from the tree and loads a question. *)
Open(s) ==
  /\ shown = None /\ phase[s] = "unopened"
  /\ shown' = s
  /\ listening' = listening \cup {s}
  /\ phase' = [phase EXCEPT ![s] = "loading"]
  /\ Send({NextRequest(s, sent + 1)})
  /\ UNCHANGED <<question, selectedKey, attemptId, area, shows, bank, log>>

(* The button back to the tree: cleanup, then the tree is rendered. *)
ChangeScope(s) ==
  /\ shown = s
  /\ shown' = None
  /\ listening' = listening \ {s}
  /\ UNCHANGED <<locals, net, bank, log>>

(* Every session that listens has its cleanup on hashchange too. *)
HashChange ==
  /\ shown' = None
  /\ listening' = {}
  /\ UNCHANGED <<locals, net, bank, log>>

(* mountAuth calls back and app.js renders, without a hashchange. *)
AuthChange ==
  /\ shown' = None
  /\ UNCHANGED <<listening, locals, net, bank, log>>

-----------------------------------------------------------------------------
(* What the learner does reaches the sessions in S: all that listen, for a  *)
(* key, or the one on screen, for a click.                                  *)
Reached == {listening} \cup {{s} : s \in {shown} \cap Session}

(* select *)
Select(S, key) ==
  /\ selectedKey' = [s \in Session |->
       IF s \in S /\ phase[s] = "answering" THEN key ELSE selectedKey[s]]
  /\ UNCHANGED <<page, phase, question, attemptId, area, awaiting, shows, net, bank, log>>

(* The sessions that submit: without a choice there is only a message. *)
Submitting(S) == {s \in S : phase[s] = "answering" /\ selectedKey[s] # None}

(* Mutant: loadNext does not look at the phase. *)
GoingOnUnanswered(S) == {s \in S : phase[s] \in {"feedback", "answering"}}

GoingOn(S) == {s \in S : phase[s] = "feedback"}

(* submit and loadNext up to their await: Enter, or the button that is there. *)
Press(S) ==
  LET acting == Submitting(S) \cup GoingOn(S)
  IN  /\ acting # {}
      /\ \E n \in [acting -> (sent + 1)..(sent + Cardinality(acting))] :
           /\ \A s, t \in acting : n[s] = n[t] => s = t
           /\ Send({AnswerRequest(s, n[s]) : s \in Submitting(S)}
                     \cup {NextRequest(s, n[s]) : s \in GoingOn(S)})
      /\ phase' = [s \in Session |-> IF s \in Submitting(S) THEN "submitting"
                                     ELSE IF s \in GoingOn(S) THEN "loading" ELSE phase[s]]
      /\ area' = [s \in Session |-> IF s \in GoingOn(S) THEN "blank" ELSE area[s]]
      /\ UNCHANGED <<page, question, selectedKey, attemptId, shows, bank, log>>

-----------------------------------------------------------------------------
(* The server.  A response goes nowhere when nobody waits for it any more. *)
Reply(r, status, q) ==
  /\ r \in wire
  /\ wire' = wire \ {r}
  /\ replies' = IF r \in awaiting[r.session]
                  THEN replies \cup {[request |-> r, status |-> status, question |-> q]}
                  ELSE replies
  /\ UNCHANGED <<page, locals, sent, bank>>

(* next_question: a question of the bank, or there is none to study. *)
ServeNext(r) ==
  /\ r.kind = "next"
  /\ \/ \E q \in bank : Reply(r, 200, q)
     \/ Reply(r, 404, None)
  /\ UNCHANGED log

Taken(id) == \E a \in log : a.attempt_id = id

Recorded(r) ==
  [attempt_id |-> r.attempt_id, question_id |-> r.question_id, selected_key |-> r.selected_key]

(* answer_question as StudyApi has it: stored, and 503 when get_state fails *)
(* after that; taken; or the question has gone.                             *)
ServeAnswer(r) ==
  /\ r.kind = "answer"
  /\ \/ r.question_id \notin bank /\ Reply(r, 404, None) /\ UNCHANGED log
     \/ r.question_id \in bank /\ Taken(r.attempt_id) /\ Reply(r, 409, None) /\ UNCHANGED log
     \/ /\ r.question_id \in bank /\ ~Taken(r.attempt_id)
        /\ \E status \in {200, 503} : Reply(r, status, None)
        /\ log' = log \cup {Recorded(r)}

Refuse(r) == Reply(r, 503, None) /\ UNCHANGED log

(* A regeneration takes a question away. *)
Regenerate(q) ==
  /\ q \in bank
  /\ bank' = bank \ {q}
  /\ UNCHANGED <<page, locals, net, log>>

-----------------------------------------------------------------------------
(* The promise of r is settled, and the session goes on. *)
Settle(r) ==
  /\ r \in awaiting[r.session]
  /\ awaiting' = [awaiting EXCEPT ![r.session] = @ \ {r}]
  /\ replies' = {p \in replies : p.request # r}
  /\ UNCHANGED <<page, sent, wire, bank, log>>

Becomes(s, newPhase, painted) ==
  /\ phase' = [phase EXCEPT ![s] = newPhase]
  /\ area' = [area EXCEPT ![s] = painted]

(* loadNext after its await. *)
QuestionComes(r, q) ==
  /\ Settle(r)
  /\ question' = [question EXCEPT ![r.session] = q]
  /\ selectedKey' = [selectedKey EXCEPT ![r.session] = None]
  /\ shows' = shows + 1
  /\ attemptId' = [attemptId EXCEPT ![r.session] = shows + 1]
  /\ Becomes(r.session, "answering", "question")

NoQuestionComes(r) ==
  /\ Settle(r)
  /\ Becomes(r.session, "unavailable", "message")
  /\ UNCHANGED <<question, selectedKey, attemptId, shows>>

(* Mutant: every refusal is taken for "already recorded". *)
IsAlreadyRecordedAlways(status) == status \in {404, 409, 503}

IsAlreadyRecorded(status) == status = 409

(* submit after its await. *)
AnswerComes(r, status) ==
  /\ Settle(r)
  /\ UNCHANGED <<question, selectedKey, attemptId, shows>>
  /\ \/ status = 200 /\ Becomes(r.session, "feedback", "result")
     \/ IsAlreadyRecorded(status) /\ Becomes(r.session, "feedback", "recorded")
     \/ /\ status # 200 /\ ~IsAlreadyRecorded(status)
        /\ Becomes(r.session, "answering", "question")

(* A response arrives, or fetch throws: the server may handle r even so. *)
Arrive(p) ==
  LET r == p.request IN
  \/ r.kind = "next" /\ p.status = 200 /\ QuestionComes(r, p.question)
  \/ r.kind = "next" /\ p.status # 200 /\ NoQuestionComes(r)
  \/ r.kind = "answer" /\ AnswerComes(r, p.status)

ConnectionFails(r) ==
  \/ r.kind = "next" /\ NoQuestionComes(r)
  \/ r.kind = "answer" /\ AnswerComes(r, 0)

Next ==
  \/ \E s \in Session : Open(s) \/ ChangeScope(s)
  \/ HashChange \/ AuthChange
  \/ \E S \in Reached : Press(S) \/ \E key \in Key : Select(S, key)
  \/ \E r \in wire : ServeNext(r) \/ ServeAnswer(r) \/ Refuse(r)
  \/ \E q \in Question : Regenerate(q)
  \/ \E p \in replies : Arrive(p)
  \/ \E s \in Session : \E r \in awaiting[s] : ConnectionFails(r)

Spec == Init /\ [][Next]_vars

-----------------------------------------------------------------------------
(* What a practice session promises the learner (SPEC C9). *)
TypeOK ==
  /\ shown \in Session \cup {None} /\ listening \subseteq Session
  /\ phase \in [Session -> {"unopened", "loading", "answering", "submitting", "feedback",
                            "unavailable"}]
  /\ question \in [Session -> Question \cup {None}]
  /\ selectedKey \in [Session -> Key \cup {None}]
  /\ attemptId \in [Session -> Nat]
  /\ awaiting \in [Session -> SUBSET Request] /\ wire \subseteq Request
  /\ \A s \in Session : (phase[s] \in {"loading", "submitting"}) = (awaiting[s] # {})
  /\ bank \subseteq Question /\ log \subseteq Attempt

(* One question shown, at most one attempt: retries of an answer whose      *)
(* fate is unknown, late copies of it and changes of mind included.         *)
OneAttemptPerQuestionShown == Cardinality(log) <= shows

(* A result on screen is that of the attempt that is stored, for this       *)
(* question and the key that is selected; "already recorded" is said of an  *)
(* attempt at this question, whichever key it was sent with.                *)
FeedbackIsTrue ==
  /\ TypeOK
  /\ \A s \in Session : phase[s] = "feedback" =>
       \E a \in log :
         /\ a.attempt_id = attemptId[s] /\ a.question_id = question[s]
         /\ area[s] = "result" => a.selected_key = selectedKey[s]

(* A session goes on to another question only when its answer to the one    *)
(* before is in the history.                                                *)
NoQuestionIsSkipped ==
  [][\A s \in Session : (attemptId[s] # 0 /\ attemptId'[s] # attemptId[s]) =>
       \E a \in log : a.attempt_id = attemptId[s]]_vars
=============================================================================
