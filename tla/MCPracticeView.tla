--------------------------- MODULE MCPracticeView ---------------------------
(* Two sessions, one after the other or left behind, on one page. *)
EXTENDS PracticeView, TLC

Alike == Permutations(Session) \cup Permutations(Question) \cup Permutations(Key)
=============================================================================
