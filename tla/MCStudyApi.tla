----------------------------- MODULE MCStudyApi -----------------------------
(* One topic for two clients of the API. *)
EXTENDS StudyApi, TLC

CONSTANTS r1, r2, topic, limits, series, page, a1, a2, right, wrong, unit, other

Creates == {[kind |-> "create", topic |-> topic]}

Archives == {[kind |-> "archive", topic |-> topic, archived |-> TRUE]}

Registers ==
  [kind : {"register"}, topic : {topic}, bodies : {limits :> Omitted, limits :> other}]

Uploads == {[kind |-> "upload", topic |-> topic]}

Generates == {[kind |-> "generate", topic |-> topic, material |-> page]}

Verdicts ==
  [kind : {"record"}, topic : {topic}, objective : {limits}, correct : {TRUE},
   attempt_id : {a1}]

Answers ==
  [kind : {"answer"}, topic : {topic}, question_id : {1}, selected_key : {right},
   attempt_id : {a1}]

Drafts ==
  {[proposed |-> <<>>, covered |-> {limits}],
   [proposed |-> limits :> unit, covered |-> {limits}],
   [proposed |-> series :> unit, covered |-> {limits, series}]}

AllCalls == Creates \cup Archives \cup Registers \cup Uploads \cup Generates \cup Verdicts \cup Answers

CreateCalls == Creates \cup Archives \cup Registers
=============================================================================
