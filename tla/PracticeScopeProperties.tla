----------------------- MODULE PracticeScopeProperties -----------------------
(* What ticking rows promises the learner (the header of practice-scope.js). *)
EXTENDS PracticeScope

ScopeTypeOK ==
  /\ catalogs \in [Topic -> Catalog]
  /\ trees \in [Topic -> Catalog]
  /\ selection \in Selection \cup {Null}

(* The objectives whose checkbox is drawn ticked. *)
Ticked(sel, t, tree) == {o \in tree.asked : RowState(sel, t, TopicRow(o), tree) = "on"}

(* The objectives under a row. *)
Below(row, tree) ==
  CASE row.kind = "goal" -> tree.asked
    [] row.kind = "unit" -> ObjectivesOf(tree, row.unit)
    [] row.kind = "topic" -> {row.objective}

(* What expanding the goal loses: the objectives without a unit. *)
Loose(sel, tree) ==
  IF sel # Null /\ IsWhole(sel) THEN {o \in tree.asked : tree.unit[o] = NoUnit} ELSE {}

(* A row that is off or partly on goes on with all that is under it, one    *)
(* that is on goes off with all that is under it, and no other objective of *)
(* its goal changes, whatever was expanded or collapsed to say so and       *)
(* however old the selection is; but for the "one lossy step" of the        *)
(* header.  A tick under another goal begins a selection of its own, as the *)
(* header says: of that goal nothing was ticked before.                     *)
ATickIsItsRow ==
  [][\A t \in Topic : \A row \in Rows(trees[t]) : Tick(t, row) =>
       LET tree   == trees[t]
           before == Ticked(selection, t, tree)
           after  == Ticked(selection', t, tree)
       IN  IF RowState(selection, t, row, tree) = "on"
             THEN /\ after \subseteq before \ Below(row, tree)
                  /\ before \ (Below(row, tree) \cup Loose(selection, tree)) \subseteq after
             ELSE after = before \cup Below(row, tree)]_scopeVars

(* A session is served what is ticked: next_question has an objective that  *)
(* the tree shows in its scope exactly when the tree shows it ticked, as    *)
(* long as the objective is still in the unit it is shown in.               *)
ServedAsTicked ==
  selection # Null =>
    LET t == selection.topic IN
    \A o \in trees[t].asked :
      catalogs[t].unit[o] = trees[t].unit[o] =>
        (o \in Ticked(selection, t, trees[t])
           <=> o \in ObjectivesInScope(catalogs[t], SelectionQuery(selection)))

(* The coarsest description of what is ticked: nothing that the tree does   *)
(* not show, nothing said twice, no unit and no goal spelled out.           *)
Coarse(sel, tree) ==
  sel = Null \/
  /\ sel.units \subseteq UnitsOf(tree) /\ sel.topics \subseteq tree.asked
  /\ \A o \in sel.topics : tree.unit[o] \notin sel.units
  /\ Complete(sel, tree) = {}
  /\ ~IsWhole(sel) => Ungrouped(tree) \/ sel.units # UnitsOf(tree)

(* "There is one canonical form per set": ticking keeps a selection coarse, *)
(* and two coarse selections that tick the same rows are the same           *)
(* (PracticeProofs).                                                   *)
OneSpelling ==
  [][\A t \in Topic : \A row \in Rows(trees[t]) :
       (Tick(t, row) /\ Coarse(selection, trees[t])) => Coarse(selection', trees[t])]_scopeVars

=============================================================================
