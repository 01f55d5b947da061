--------------------------- MODULE MCQuestionBank ---------------------------
(* Three calls that race on two materials: regenerations of one, and a      *)
(* batch for both that takes their ids in the opposite order (the stub      *)
(* repeats its ids); and a call for every reason to refuse one (a material  *)
(* may be uploaded under the Other topic, or not at all).                   *)
EXTENDS QuestionBankProperties

CONSTANTS m1, m2, T, Other, q1, q2, q3

Q(id, m) == [question_id |-> id, material |-> m, topic |-> T]

Generations ==
  {ReplaceForMaterial(m1, <<Q(q1, m1), Q(q2, m1)>>),
   ReplaceForMaterial(m1, <<Q(q3, m1)>>),
   ReplaceForMaterial(m1, <<Q(q3, m2)>>),
   AddMany(<<Q(q2, m2), Q(q1, m1)>>),
   AddMany(<<Q(q3, m2), Q(q3, m2)>>)}
=============================================================================
