SPECIFICATION Spec
CONSTANTS
  None = None
  Session = {s1, s2}
  Question = {q1, q2}
  Key = {k1, k2}
  MaxRequests = 5
SYMMETRY Alike
INVARIANTS OneAttemptPerQuestionShown FeedbackIsTrue
PROPERTIES NoQuestionIsSkipped
