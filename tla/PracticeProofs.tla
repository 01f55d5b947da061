--------------------------- MODULE PracticeProofs ---------------------------
(***************************************************************************)
(* Proofs about practising in the browser: what is ticked and asked for    *)
(* (PracticeScope), and the sessions that practise it (PracticeView), for  *)
(* any trees and any number of sessions, questions, keys and requests.     *)
(*                                                                         *)
(* The selection: the lemmas say which objectives each step of toggleRow   *)
(* covers; the theorems follow from them and the types.                    *)
(*                                                                         *)
(* The sessions: an attempt_id names one question shown in one session, in *)
(* every request that is under way and in the log; a session that waits    *)
(* holds one promise, of a request for what it still has selected; so what *)
(* comes back is about what is on screen, however late, and the log has    *)
(* one attempt for each number at most.                                    *)
(***************************************************************************)
EXTENDS PracticeScopeProperties, PracticeView, FiniteSetTheorems, TLAPS

-----------------------------------------------------------------------------
(* The trees the code can build: what has a question is an objective. *)
Tree == {k \in Catalog : \A o \in k.asked : k.unit[o] # Null}

TypeInv ==
  /\ catalogs \in [Topic -> Tree]
  /\ trees \in [Topic -> Tree]
  /\ selection \in Selection \cup {Null}

(* The objectives with a checkbox that items name, by themselves or by unit. *)
Covered(items, tree) ==
  {o \in tree.asked : tree.unit[o] \in items.units \/ o \in items.topics}

-----------------------------------------------------------------------------
(* What is drawn ticked is what is covered. *)
LEMMA TickedIsCovered ==
  ASSUME NEW t \in Topic, NEW tree \in Tree, NEW sel \in Selection, sel.topic = t
  PROVE  Ticked(sel, t, tree) = IF IsWhole(sel) THEN tree.asked ELSE Covered(sel, tree)
<1>1. sel # Null
  BY NullAssumption
<1>2. ASSUME NEW o \in tree.asked
      PROVE  RowState(sel, t, TopicRow(o), tree) = "on"
               <=> IsWhole(sel) \/ tree.unit[o] \in sel.units \/ o \in sel.topics
  BY <1>1 DEF RowState, TopicRow
<1> QED BY <1>2 DEF Ticked, Covered

-----------------------------------------------------------------------------
(* The items in force cover what is ticked, less what expanding loses. *)
LEMMA ItemsOfCover ==
  ASSUME NEW t \in Topic, NEW tree \in Tree, NEW sel \in Selection \cup {Null}
  PROVE  /\ ItemsOf(sel, t, tree) \in Selection
         /\ ItemsOf(sel, t, tree).topic = t
         /\ Covered(ItemsOf(sel, t, tree), tree) \subseteq Ticked(sel, t, tree)
         /\ sel # Null /\ sel.topic = t /\ ~IsWhole(sel) => ItemsOf(sel, t, tree) = sel
         /\ Ticked(sel, t, tree) \ Loose(sel, tree) \subseteq Covered(ItemsOf(sel, t, tree), tree)
         /\ ~(sel # Null /\ sel.topic = t /\ IsWhole(sel)) =>
               Covered(ItemsOf(sel, t, tree), tree) = Ticked(sel, t, tree)
<1>1. UnitsOf(tree) \subseteq Unit
  BY DEF UnitsOf, Tree, Catalog
<1>2. CASE sel = Null \/ sel.topic # t
  <2>1. ItemsOf(sel, t, tree) = [topic |-> t, units |-> {}, topics |-> {}]
    BY <1>2 DEF ItemsOf
  <2>2. Ticked(sel, t, tree) = {}
    BY <1>2 DEF Ticked, RowState
  <2> QED BY <1>2, <2>1, <2>2 DEF Covered, Selection
<1>3. CASE sel # Null /\ sel.topic = t /\ IsWhole(sel)
  <2>1. ItemsOf(sel, t, tree) = [sel EXCEPT !.units = UnitsOf(tree)]
    BY <1>3 DEF ItemsOf
  <2>2. sel \in Selection /\ Ticked(sel, t, tree) = tree.asked
    BY <1>3, TickedIsCovered
  <2>3. ASSUME NEW o \in tree.asked, tree.unit[o] # NoUnit PROVE tree.unit[o] \in UnitsOf(tree)
    BY <2>3 DEF UnitsOf, Tree, Catalog
  <2>4. Loose(sel, tree) = {o \in tree.asked : tree.unit[o] = NoUnit}
    BY <1>3 DEF Loose
  <2> QED BY <1>1, <1>3, <2>1, <2>2, <2>3, <2>4 DEF Covered, Selection
<1>4. CASE sel # Null /\ sel.topic = t /\ ~IsWhole(sel)
  <2>1. ItemsOf(sel, t, tree) = sel
    BY <1>4 DEF ItemsOf
  <2> QED BY <1>4, <2>1, TickedIsCovered
<1> QED BY <1>2, <1>3, <1>4

(* Normalizing changes the spelling and not what is ticked. *)
LEMMA NormalizeKeepsTicked ==
  ASSUME NEW t \in Topic, NEW tree \in Tree, NEW items \in Selection, items.topic = t,
         ~IsWhole(items)
  PROVE  /\ Normalize(items, tree) \in Selection
         /\ Normalize(items, tree).topic = t
         /\ Ticked(Normalize(items, tree), t, tree) = Covered(items, tree)
<1> DEFINE complete == Complete(items, tree)
           next == [items EXCEPT
                      !.units = @ \cup complete,
                      !.topics = {o \in @ : \A u \in complete : o \notin ObjectivesOf(tree, u)}]
<1>1. complete \subseteq Unit /\ complete \subseteq UnitsOf(tree)
  BY DEF Complete, UnitsOf, Tree, Catalog
<1>2. /\ next \in Selection /\ next.topic = t
      /\ next.units = items.units \cup complete
      /\ next.topics = {o \in items.topics : \A u \in complete : o \notin ObjectivesOf(tree, u)}
  BY <1>1 DEF Selection
<1>3. ~IsWhole(next)
  BY <1>2 DEF IsWhole
<1>4. Covered(next, tree) = Covered(items, tree)
  <2>1. ASSUME NEW u \in complete, NEW o \in ObjectivesOf(tree, u)
        PROVE  o \in items.topics /\ tree.unit[o] = u
    BY DEF Complete, ObjectivesOf
  <2>2. ASSUME NEW o \in tree.asked, tree.unit[o] \in complete PROVE o \in items.topics
    BY <2>1, <2>2 DEF ObjectivesOf
  <2> QED BY <1>2, <2>1, <2>2 DEF Covered
<1>5. CASE UnitsOf(tree) # {} /\ ~Ungrouped(tree) /\ UnitsOf(tree) \subseteq next.units
  <2>1. Normalize(items, tree) = [next EXCEPT !.units = {}, !.topics = {}]
    BY <1>5 DEF Normalize
  <2>2. ASSUME NEW o \in tree.asked PROVE tree.unit[o] \in UnitsOf(tree)
    BY <1>5 DEF UnitsOf, Tree, Catalog, Ungrouped
  <2>3. Covered(items, tree) = tree.asked
    BY <1>4, <1>5, <2>2 DEF Covered
  <2>4. /\ Normalize(items, tree) \in Selection /\ Normalize(items, tree).topic = t
        /\ IsWhole(Normalize(items, tree))
    BY <1>2, <2>1 DEF Selection, IsWhole
  <2> QED BY <2>3, <2>4, TickedIsCovered
<1>6. CASE ~(UnitsOf(tree) # {} /\ ~Ungrouped(tree) /\ UnitsOf(tree) \subseteq next.units)
  <2>1. Normalize(items, tree) = next
    BY <1>6 DEF Normalize
  <2> QED
    <3> HIDE DEF next
    <3> QED BY <1>2, <1>3, <1>4, <2>1, TickedIsCovered
<1> QED BY <1>5, <1>6

(* Ticking a row adds it. *)
LEMMA WithAdds ==
  ASSUME NEW t \in Topic, NEW tree \in Tree, NEW items \in Selection, items.topic = t,
         NEW row \in Rows(tree), row # Goal
  PROVE  LET added == With(WithoutSubtree(items, row, tree), row, tree)
         IN  /\ added \in Selection /\ added.topic = t /\ ~IsWhole(added)
             /\ Covered(added, tree) = Covered(items, tree) \cup Below(row, tree)
<1> DEFINE added == With(WithoutSubtree(items, row, tree), row, tree)
<1>1. CASE \E u \in UnitsOf(tree) : row = UnitRow(u)
  <2>1. PICK u \in UnitsOf(tree) : row = UnitRow(u)
    BY <1>1
  <2>2. u \in Unit /\ row.kind = "unit" /\ row.unit = u
    BY <2>1 DEF UnitRow, UnitsOf, Tree, Catalog
  <2>3. /\ added.units = items.units \cup {u} /\ added.topics = items.topics \ ObjectivesOf(tree, u)
        /\ added \in Selection /\ added.topic = t
    BY <2>2 DEF With, WithoutSubtree, Selection
  <2>4. Below(row, tree) = ObjectivesOf(tree, u)
    BY <2>2 DEF Below
  <2> HIDE DEF added
  <2>5. Covered(added, tree) = Covered(items, tree) \cup Below(row, tree)
    BY <2>3, <2>4 DEF Covered, ObjectivesOf
  <2> QED BY <2>3, <2>5 DEF IsWhole, added
<1>2. CASE \E o \in tree.asked : row = TopicRow(o)
  <2>1. PICK o \in tree.asked : row = TopicRow(o)
    BY <1>2
  <2>2. o \in Objective /\ row.kind = "topic" /\ row.objective = o
    BY <2>1 DEF TopicRow, Tree, Catalog
  <2>3. /\ added.units = items.units /\ added.topics = items.topics \cup {o}
        /\ added \in Selection /\ added.topic = t
    BY <2>2 DEF With, WithoutSubtree, Selection
  <2>4. Below(row, tree) = {o}
    BY <2>2 DEF Below
  <2> HIDE DEF added
  <2>5. Covered(added, tree) = Covered(items, tree) \cup Below(row, tree)
    BY <2>3, <2>4 DEF Covered
  <2> QED BY <2>3, <2>5 DEF IsWhole, added
<1> QED BY <1>1, <1>2 DEF Rows

(* Unticking a row that is on takes it away. *)
LEMMA TurnOffRemoves ==
  ASSUME NEW t \in Topic, NEW tree \in Tree, NEW items \in Selection, items.topic = t,
         NEW row \in Rows(tree), row # Goal
  PROVE  LET rest == TurnOff(items, row, tree)
         IN  /\ rest \in Selection /\ rest.topic = t
             /\ Covered(rest, tree) = Covered(items, tree) \ Below(row, tree)
<1> DEFINE rest == TurnOff(items, row, tree)
<1>1. CASE \E u \in UnitsOf(tree) : row = UnitRow(u)
  <2>1. PICK u \in UnitsOf(tree) : row = UnitRow(u)
    BY <1>1
  <2>2. row.kind = "unit" /\ row.unit = u
    BY <2>1 DEF UnitRow
  <2>3. /\ rest.units = items.units \ {u} /\ rest.topics = items.topics \ ObjectivesOf(tree, u)
        /\ rest \in Selection /\ rest.topic = t
    BY <2>2 DEF TurnOff, WithoutSubtree, Selection
  <2>4. Below(row, tree) = ObjectivesOf(tree, u)
    BY <2>2 DEF Below
  <2> HIDE DEF rest
  <2>5. Covered(rest, tree) = Covered(items, tree) \ Below(row, tree)
    BY <2>3, <2>4 DEF Covered, ObjectivesOf
  <2> QED BY <2>3, <2>5 DEF rest
<1>2. CASE \E o \in tree.asked : row = TopicRow(o)
  <2>1. PICK o \in tree.asked : row = TopicRow(o)
    BY <1>2
  <2>2. o \in Objective /\ row.kind = "topic" /\ row.objective = o
    BY <2>1 DEF TopicRow, Tree, Catalog
  <2> DEFINE u == tree.unit[o]
  <2>3. ObjectivesOf(tree, u) \subseteq Objective
    BY DEF ObjectivesOf, Tree, Catalog
  <2>4. /\ rest \in Selection /\ rest.topic = t
        /\ \/ /\ u \in items.units /\ rest.units = items.units \ {u}
              /\ rest.topics = (items.topics \cup ObjectivesOf(tree, u)) \ {o}
           \/ /\ u \notin items.units /\ rest.units = items.units
              /\ rest.topics = items.topics \ {o}
    BY <2>2, <2>3 DEF TurnOff, Selection
  <2>5. Below(row, tree) = {o}
    BY <2>2 DEF Below
  <2> HIDE DEF rest
  <2>6. Covered(rest, tree) = Covered(items, tree) \ Below(row, tree)
    BY <2>4, <2>5 DEF Covered, ObjectivesOf
  <2> QED BY <2>4, <2>6 DEF rest
<1> QED BY <1>1, <1>2 DEF Rows

-----------------------------------------------------------------------------
(* toggleRow does to the ticks what the row says, and nothing else. *)
LEMMA ToggleTicks ==
  ASSUME NEW t \in Topic, NEW tree \in Tree, NEW sel \in Selection \cup {Null},
         NEW row \in Rows(tree)
  PROVE  LET toggled == ToggleRow(sel, t, row, tree)
             before  == Ticked(sel, t, tree)
             after   == Ticked(toggled, t, tree)
         IN  /\ toggled \in Selection \cup {Null}
             /\ IF RowState(sel, t, row, tree) = "on"
                  THEN /\ after \subseteq before \ Below(row, tree)
                       /\ before \ (Below(row, tree) \cup Loose(sel, tree)) \subseteq after
                  ELSE after = before \cup Below(row, tree)
<1> DEFINE toggled == ToggleRow(sel, t, row, tree)
           on      == RowState(sel, t, row, tree) = "on"
           items   == ItemsOf(sel, t, tree)
<1>1. Ticked(Null, t, tree) = {}
  BY DEF Ticked, RowState
<1>2. CASE row = Goal
  <2>1. Below(row, tree) = tree.asked
    BY <1>2 DEF Below, Goal
  <2>2. CASE on
    <3>1. toggled = Null
      BY <1>2, <2>2 DEF ToggleRow
    <3> QED BY <1>1, <2>1, <2>2, <3>1 DEF Ticked
  <2>3. CASE ~on
    <3>1. toggled = [topic |-> t, units |-> {}, topics |-> {}]
      BY <1>2, <2>3 DEF ToggleRow
    <3>2. toggled \in Selection /\ toggled.topic = t /\ IsWhole(toggled)
      BY <3>1 DEF Selection, IsWhole
    <3> HIDE DEF toggled
    <3>3. Ticked(toggled, t, tree) = tree.asked
      BY <3>2, TickedIsCovered
    <3> QED BY <2>1, <2>3, <3>2, <3>3 DEF Ticked, toggled
  <2> QED BY <2>2, <2>3
<1>3. CASE row # Goal /\ ~on
  <2> DEFINE added == With(WithoutSubtree(items, row, tree), row, tree)
  <2>1. toggled = Normalize(added, tree)
    BY <1>3 DEF ToggleRow
  <2>2. items \in Selection /\ items.topic = t
    BY ItemsOfCover
  <2>3. ~(sel # Null /\ sel.topic = t /\ IsWhole(sel))
    BY <1>3 DEF RowState
  <2>4. Covered(items, tree) = Ticked(sel, t, tree)
    BY <2>3, ItemsOfCover
  <2> HIDE DEF items
  <2>5. /\ added \in Selection /\ added.topic = t /\ ~IsWhole(added)
        /\ Covered(added, tree) = Covered(items, tree) \cup Below(row, tree)
    BY <1>3, <2>2, WithAdds
  <2> HIDE DEF added
  <2>6. toggled \in Selection /\ Ticked(toggled, t, tree) = Covered(added, tree)
    BY <2>1, <2>5, NormalizeKeepsTicked
  <2> QED BY <1>3, <2>4, <2>5, <2>6
<1>4. CASE row # Goal /\ on
  <2> DEFINE rest == TurnOff(items, row, tree)
  <2>1. toggled = IF IsWhole(rest) THEN Null ELSE rest
    BY <1>4 DEF ToggleRow
  <2>2. /\ items \in Selection /\ items.topic = t
        /\ Covered(items, tree) \subseteq Ticked(sel, t, tree)
        /\ Ticked(sel, t, tree) \ Loose(sel, tree) \subseteq Covered(items, tree)
    BY ItemsOfCover
  <2> HIDE DEF items
  <2>3. /\ rest \in Selection /\ rest.topic = t
        /\ Covered(rest, tree) = Covered(items, tree) \ Below(row, tree)
    BY <1>4, <2>2, TurnOffRemoves
  <2> HIDE DEF rest
  <2>4. Ticked(toggled, t, tree) = Covered(rest, tree) /\ toggled \in Selection \cup {Null}
    <3>1. CASE IsWhole(rest)
      BY <1>1, <2>1, <3>1 DEF IsWhole, Covered
    <3>2. CASE ~IsWhole(rest)
      BY <2>1, <2>3, <3>2, TickedIsCovered
    <3> QED BY <3>1, <3>2
  <2> QED BY <1>4, <2>2, <2>3, <2>4
<1> QED BY <1>2, <1>3, <1>4

-----------------------------------------------------------------------------
(* TypeInv says of each tree that what has a checkbox is an objective. *)
LEMMA TypeInvHolds == ScopeSpec => []TypeInv
<1>1. \A t \in Topic : CatalogsOf[t] \subseteq Tree
  BY CatalogAssumption DEF Tree
<1>2. Folded \in Tree
  BY DEF Folded, Tree, Catalog
<1>3. ScopeInit => TypeInv
  BY <1>1, <1>2 DEF ScopeInit, TypeInv
<1>4. TypeInv /\ [ScopeNext]_scopeVars => TypeInv'
  <2> SUFFICES ASSUME TypeInv, [ScopeNext]_scopeVars PROVE TypeInv'
    OBVIOUS
  <2> USE DEF TypeInv
  <2>1. ASSUME NEW t \in Topic, NEW row \in Row, Tick(t, row) PROVE TypeInv'
    BY <2>1, ToggleTicks DEF Tick
  <2>2. ASSUME NEW t \in Topic, Unfold(t) PROVE TypeInv'
    BY <2>2 DEF Unfold
  <2>3. ASSUME NEW t \in Topic, Write(t) PROVE TypeInv'
    BY <1>1, <2>3 DEF Write
  <2>4. CASE Render
    BY <1>2, <2>4 DEF Render
  <2>5. CASE UNCHANGED scopeVars
    BY <2>5 DEF scopeVars
  <2> QED BY <2>1, <2>2, <2>3, <2>4, <2>5 DEF ScopeNext
<1> QED BY <1>3, <1>4, PTL DEF ScopeSpec

(* The selection, the trees and the catalogs are well formed.  The code     *)
(* builds each of them from the one before (views/learning.js).             *)
THEOREM ScopeTypeCorrect == ScopeSpec => []ScopeTypeOK
<1>1. TypeInv => ScopeTypeOK
  BY DEF TypeInv, ScopeTypeOK, Tree
<1> QED BY <1>1, TypeInvHolds, PTL

(* For any catalog and any selection, however old: a tick of toggleRow      *)
(* changes the rows under it and no other, but for the one lossy step.      *)
THEOREM EveryTickIsItsRow == ScopeSpec => ATickIsItsRow
<1>1. TypeInv =>
        \A t \in Topic : \A row \in Rows(trees[t]) : Tick(t, row) =>
          LET tree   == trees[t]
              before == Ticked(selection, t, tree)
              after  == Ticked(selection', t, tree)
          IN  IF RowState(selection, t, row, tree) = "on"
                THEN /\ after \subseteq before \ Below(row, tree)
                     /\ before \ (Below(row, tree) \cup Loose(selection, tree)) \subseteq after
                ELSE after = before \cup Below(row, tree)
  <2> SUFFICES ASSUME TypeInv, NEW t \in Topic, NEW row \in Rows(trees[t]), Tick(t, row)
               PROVE  LET tree   == trees[t]
                          before == Ticked(selection, t, tree)
                          after  == Ticked(selection', t, tree)
                      IN  IF RowState(selection, t, row, tree) = "on"
                            THEN /\ after \subseteq before \ Below(row, tree)
                                 /\ before \ (Below(row, tree) \cup Loose(selection, tree))
                                      \subseteq after
                            ELSE after = before \cup Below(row, tree)
    OBVIOUS
  <2>1. trees[t] \in Tree /\ selection \in Selection \cup {Null}
    BY DEF TypeInv
  <2>2. selection' = ToggleRow(selection, t, row, trees[t])
    BY DEF Tick
  <2> QED BY <2>1, <2>2, ToggleTicks
<1> QED BY <1>1, TypeInvHolds, PTL DEF ATickIsItsRow

(* next_question has in its scope what the tree shows ticked, for any       *)
(* catalog, any tree and any selection (_objectives_in_scope, rowState).    *)
THEOREM TicksAreServed == ScopeSpec => []ServedAsTicked
<1>1. TypeInv => ServedAsTicked
  <2> SUFFICES ASSUME TypeInv, selection # Null,
                      NEW o \in trees[selection.topic].asked,
                      catalogs[selection.topic].unit[o] = trees[selection.topic].unit[o]
               PROVE  o \in Ticked(selection, selection.topic, trees[selection.topic])
                        <=> o \in ObjectivesInScope(catalogs[selection.topic],
                                                    SelectionQuery(selection))
    BY DEF ServedAsTicked
  <2> DEFINE t == selection.topic
  <2>1. selection \in Selection /\ t \in Topic /\ trees[t] \in Tree
    BY DEF TypeInv, Selection
  <2>2. o \in Objective /\ catalogs[t].unit[o] # Null
    BY <2>1 DEF Tree, Catalog
  <2>3. o \in Ticked(selection, t, trees[t])
          <=> IsWhole(selection) \/ trees[t].unit[o] \in selection.units \/ o \in selection.topics
    BY <2>1, TickedIsCovered DEF Covered
  <2> QED BY <2>2, <2>3 DEF ObjectivesInScope, SelectionQuery, IsWhole
<1> QED BY <1>1, TypeInvHolds, PTL

-----------------------------------------------------------------------------
(* Normalizing items of which nothing is said twice makes them coarse. *)
LEMMA NormalizeMakesCoarse ==
  ASSUME NEW tree \in Tree, NEW added \in Selection,
         added.units \subseteq UnitsOf(tree), added.topics \subseteq tree.asked,
         \A o \in added.topics : tree.unit[o] \notin added.units,
         UnitsOf(tree) # {} \/ Ungrouped(tree)
  PROVE  Coarse(Normalize(added, tree), tree)
<1> DEFINE complete == Complete(added, tree)
           next == [added EXCEPT
                      !.units = @ \cup complete,
                      !.topics = {o \in @ : \A u \in complete : o \notin ObjectivesOf(tree, u)}]
<1>1. complete \subseteq UnitsOf(tree)
  BY DEF Complete
<1>2. /\ next.units = added.units \cup complete
      /\ next.topics = {o \in added.topics : \A u \in complete : o \notin ObjectivesOf(tree, u)}
  BY DEF Selection
<1>3. CASE UnitsOf(tree) # {} /\ ~Ungrouped(tree) /\ UnitsOf(tree) \subseteq next.units
  <2>1. Normalize(added, tree) = [next EXCEPT !.units = {}, !.topics = {}]
    BY <1>3 DEF Normalize
  <2>2. Normalize(added, tree).units = {} /\ Normalize(added, tree).topics = {}
    BY <2>1 DEF Selection
  <2> QED BY <2>2 DEF Coarse, Complete, IsWhole
<1>4. CASE ~(UnitsOf(tree) # {} /\ ~Ungrouped(tree) /\ UnitsOf(tree) \subseteq next.units)
  <2>1. Normalize(added, tree) = next
    BY <1>4 DEF Normalize
  <2>2. ASSUME NEW o \in next.topics PROVE tree.unit[o] \notin next.units
    BY <1>2 DEF ObjectivesOf
  <2>3. Complete(next, tree) = {}
    <3> SUFFICES ASSUME NEW u \in UnitsOf(tree), ObjectivesOf(tree, u) # {},
                        ObjectivesOf(tree, u) \subseteq next.topics
                 PROVE  FALSE
      BY DEF Complete
    <3>1. u \in complete
      BY <1>2 DEF Complete
    <3> HIDE DEF complete, next
    <3> QED BY <1>2, <3>1
  <2> HIDE DEF next, complete
  <2> QED BY <1>1, <1>2, <1>4, <2>1, <2>2, <2>3 DEF Coarse
<1> QED BY <1>3, <1>4

(* Ticking a row of a coarse selection leaves a coarse selection. *)
LEMMA ToggleStaysCoarse ==
  ASSUME NEW t \in Topic, NEW tree \in Tree, NEW sel \in Selection \cup {Null},
         NEW row \in Rows(tree), Coarse(sel, tree)
  PROVE  Coarse(ToggleRow(sel, t, row, tree), tree)
<1> DEFINE toggled == ToggleRow(sel, t, row, tree)
           on      == RowState(sel, t, row, tree) = "on"
           items   == ItemsOf(sel, t, tree)
<1>1. CASE row = Goal
  <2>1. toggled = Null \/ toggled = [topic |-> t, units |-> {}, topics |-> {}]
    BY <1>1 DEF ToggleRow
  <2> QED BY <2>1 DEF Coarse, Complete, IsWhole
<1>2. CASE row # Goal /\ ~on
  <2> DEFINE added == With(WithoutSubtree(items, row, tree), row, tree)
  <2>1. toggled = Normalize(added, tree)
    BY <1>2 DEF ToggleRow
  <2>2. items \in Selection /\ items.topic = t
    BY ItemsOfCover
  <2>3. ~(sel # Null /\ sel.topic = t /\ IsWhole(sel))
    BY <1>2 DEF RowState
  <2>4. /\ items.units \subseteq UnitsOf(tree) /\ items.topics \subseteq tree.asked
        /\ \A o \in items.topics : tree.unit[o] \notin items.units
    BY <2>3 DEF ItemsOf, Coarse
  <2>5. sel # Null /\ sel.topic = t => items = sel
    BY <2>3 DEF ItemsOf
  <2>6. sel = Null \/ sel.topic # t => items.units = {}
    BY DEF ItemsOf
  <2>7. added \in Selection
    BY <1>2, <2>2, WithAdds
  <2>8. CASE \E u \in UnitsOf(tree) : row = UnitRow(u)
    <3>1. PICK u \in UnitsOf(tree) : row = UnitRow(u)
      BY <2>8
    <3>2. row.kind = "unit" /\ row.unit = u
      BY <3>1 DEF UnitRow
    <3> HIDE DEF items
    <3>3. added.units = items.units \cup {u} /\ added.topics = items.topics \ ObjectivesOf(tree, u)
      BY <2>2, <3>2 DEF With, WithoutSubtree, Selection
    <3> HIDE DEF added
    <3>4. \A o \in added.topics : tree.unit[o] \notin added.units
      BY <2>4, <3>3 DEF ObjectivesOf
    <3> QED BY <2>1, <2>4, <2>7, <3>1, <3>3, <3>4, NormalizeMakesCoarse
  <2>9. CASE \E o \in tree.asked : row = TopicRow(o)
    <3>1. PICK o \in tree.asked : row = TopicRow(o)
      BY <2>9
    <3>2. row.kind = "topic" /\ row.objective = o
      BY <3>1 DEF TopicRow
    <3>3. tree.unit[o] \notin items.units
      <4>1. CASE sel = Null \/ sel.topic # t
        BY <2>6, <4>1
      <4>2. CASE sel # Null /\ sel.topic = t
        BY <1>2, <2>3, <2>5, <3>2, <4>2 DEF RowState
      <4> QED BY <4>1, <4>2
    <3>4. UnitsOf(tree) # {} \/ Ungrouped(tree)
      BY DEF UnitsOf, Ungrouped, Tree, Catalog
    <3> HIDE DEF items
    <3>5. added.units = items.units /\ added.topics = items.topics \cup {o}
      BY <2>2, <3>2 DEF With, WithoutSubtree, Selection
    <3> HIDE DEF added
    <3> QED BY <2>1, <2>4, <2>7, <3>3, <3>4, <3>5, NormalizeMakesCoarse
  <2> QED BY <1>2, <2>8, <2>9 DEF Rows
<1>3. CASE row # Goal /\ on
  <2> DEFINE rest == TurnOff(items, row, tree)
  <2>1. toggled = IF IsWhole(rest) THEN Null ELSE rest
    BY <1>3 DEF ToggleRow
  <2>2. sel \in Selection /\ sel.topic = t
    BY <1>3 DEF RowState
  <2>3. /\ items \in Selection
        /\ items.units \subseteq UnitsOf(tree) /\ items.topics \subseteq tree.asked
        /\ \A o \in items.topics : tree.unit[o] \notin items.units
        /\ Complete(items, tree) = {}
        /\ \/ IsWhole(sel) /\ items.units = UnitsOf(tree) /\ items.topics = {}
           \/ ~IsWhole(sel) /\ items = sel /\ (Ungrouped(tree) \/ items.units # UnitsOf(tree))
    <3>1. items \in Selection
      BY ItemsOfCover
    <3>2. CASE IsWhole(sel)
      <4>1. items.units = UnitsOf(tree) /\ items.topics = {}
        BY <2>2, <3>2, NullAssumption DEF ItemsOf, Selection, IsWhole
      <4> QED BY <3>1, <3>2, <4>1 DEF Complete
    <3>3. CASE ~IsWhole(sel)
      <4>1. items = sel
        BY <2>2, <3>3, NullAssumption DEF ItemsOf
      <4> QED BY <2>2, <3>1, <3>3, <4>1, NullAssumption DEF Coarse
    <3> QED BY <3>2, <3>3
  <2>4. CASE \E u \in UnitsOf(tree) : row = UnitRow(u)
    <3>1. PICK u \in UnitsOf(tree) : row = UnitRow(u)
      BY <2>4
    <3>2. row.kind = "unit" /\ row.unit = u
      BY <3>1 DEF UnitRow
    <3> HIDE DEF items
    <3>3. rest.units = items.units \ {u} /\ rest.topics = items.topics \ ObjectivesOf(tree, u)
      BY <2>3, <3>2 DEF TurnOff, WithoutSubtree, Selection
    <3> HIDE DEF rest
    <3>4. Complete(rest, tree) = {}
      BY <2>3, <3>3 DEF Complete
    <3>5. Coarse(rest, tree)
      BY <2>3, <3>1, <3>3, <3>4 DEF Coarse
    <3> QED BY <2>1, <3>5 DEF Coarse
  <2>5. CASE \E o \in tree.asked : row = TopicRow(o)
    <3>1. PICK o \in tree.asked : row = TopicRow(o)
      BY <2>5
    <3>2. row.kind = "topic" /\ row.objective = o
      BY <3>1 DEF TopicRow
    <3> DEFINE u == tree.unit[o]
    <3>3. ObjectivesOf(tree, u) \subseteq tree.asked /\ o \in ObjectivesOf(tree, u)
      BY <3>1 DEF ObjectivesOf
    <3>4. IsWhole(sel) /\ u \notin items.units => Ungrouped(tree)
      BY <2>3, <3>1 DEF UnitsOf, Ungrouped, Tree, Catalog
    <3> HIDE DEF items
    <3>5. \/ /\ u \in items.units /\ rest.units = items.units \ {u}
             /\ rest.topics = (items.topics \cup ObjectivesOf(tree, u)) \ {o}
          \/ /\ u \notin items.units /\ rest.units = items.units
             /\ rest.topics = items.topics \ {o}
      BY <2>3, <3>2 DEF TurnOff, Selection
    <3> HIDE DEF rest
    <3>6. ASSUME NEW x \in rest.topics PROVE tree.unit[x] \notin rest.units
      BY <2>3, <3>5 DEF ObjectivesOf
    <3>7. Complete(rest, tree) = {}
      <4> SUFFICES ASSUME NEW v \in UnitsOf(tree), ObjectivesOf(tree, v) # {},
                          ObjectivesOf(tree, v) \subseteq rest.topics
                   PROVE  FALSE
        BY DEF Complete
      <4>1. v # u
        BY <3>3, <3>5
      <4>2. ObjectivesOf(tree, v) \subseteq items.topics
        BY <3>5, <4>1 DEF ObjectivesOf
      <4> QED BY <2>3, <4>2 DEF Complete
    <3>8. Ungrouped(tree) \/ rest.units # UnitsOf(tree)
      BY <2>3, <3>4, <3>5
    <3>9. rest.units \subseteq UnitsOf(tree) /\ rest.topics \subseteq tree.asked
      BY <2>3, <3>3, <3>5
    <3>10. Coarse(rest, tree)
      BY <3>6, <3>7, <3>8, <3>9 DEF Coarse
    <3> QED BY <2>1, <3>10 DEF Coarse
  <2> QED BY <1>3, <2>4, <2>5 DEF Rows
<1> QED BY <1>1, <1>2, <1>3

(* normalize and turnOff leave nothing said twice and nothing spelled out   *)
(* that has a shorter name, in any tree.                                    *)
THEOREM SpellingStaysCoarse == ScopeSpec => OneSpelling
<1>1. TypeInv =>
        \A t \in Topic : \A row \in Rows(trees[t]) :
          (Tick(t, row) /\ Coarse(selection, trees[t])) => Coarse(selection', trees[t])
  BY ToggleStaysCoarse DEF TypeInv, Tick
<1> QED BY <1>1, TypeInvHolds, PTL DEF OneSpelling

(* The canonical form of practice-scope.js: two coarse selections of a goal *)
(* that draw every checkbox alike are the same selection.                   *)
THEOREM SameTicksSameSpelling ==
  ASSUME NEW t \in Topic, NEW tree \in Tree, NEW r \in Selection, NEW s \in Selection,
         r.topic = t, s.topic = t, Coarse(r, tree), Coarse(s, tree),
         \A row \in Rows(tree) : RowState(r, t, row, tree) = RowState(s, t, row, tree)
  PROVE  r = s
<1>1. r # Null /\ s # Null
  BY NullAssumption
<1>2. IsWhole(r) <=> IsWhole(s)
  <2>1. RowState(r, t, Goal, tree) = RowState(s, t, Goal, tree)
    BY DEF Rows
  <2> QED BY <1>1, <2>1 DEF RowState, Goal
<1>3. CASE IsWhole(r)
  BY <1>2, <1>3 DEF IsWhole, Selection
<1>4. CASE ~IsWhole(r)
  <2>1. ASSUME NEW u \in UnitsOf(tree) PROVE u \in r.units <=> u \in s.units
    <3>1. RowState(r, t, UnitRow(u), tree) = RowState(s, t, UnitRow(u), tree)
      BY DEF Rows
    <3> QED BY <1>1, <1>2, <1>4, <3>1 DEF RowState, UnitRow
  <2>2. r.units = s.units
    BY <1>1, <2>1 DEF Coarse
  <2>3. ASSUME NEW o \in tree.asked
        PROVE  (tree.unit[o] \in r.units \/ o \in r.topics)
                 <=> (tree.unit[o] \in s.units \/ o \in s.topics)
    <3>1. RowState(r, t, TopicRow(o), tree) = RowState(s, t, TopicRow(o), tree)
      BY DEF Rows
    <3> QED BY <1>1, <1>2, <1>4, <3>1 DEF RowState, TopicRow
  <2>4. r.topics = s.topics
    BY <1>1, <2>2, <2>3 DEF Coarse
  <2> QED BY <2>2, <2>4 DEF Selection
<1> QED BY <1>3, <1>4

-----------------------------------------------------------------------------
Counted ==
  /\ shows \in Nat /\ sent \in Nat
  /\ IsFiniteSet(listening) /\ DOMAIN area = Session

(* The number of the question that a session shows is no other session's. *)
Numbered ==
  /\ \A s \in Session : attemptId[s] <= shows
  /\ \A s, t \in Session : attemptId[s] = attemptId[t] /\ attemptId[s] # 0 => s = t
  /\ \A s \in Session :
       /\ attemptId[s] # 0 => question[s] \in Question
       /\ phase[s] \in {"answering", "submitting", "feedback"} => attemptId[s] # 0
       /\ phase[s] = "unopened" => attemptId[s] = 0

(* The attempt id is of a question shown; where it still is, it is q. *)
Names(id, q) ==
  /\ id \in 1..shows
  /\ \A s \in Session : attemptId[s] = id => question[s] = q

Sound(r) ==
  r.kind = "answer" =>
    Names(r.attempt_id, r.question_id) /\ r.question_id \in Question /\ r.selected_key \in Key

AllSound == \A r \in wire \cup UNION {awaiting[s] : s \in Session} : Sound(r)

(* A session waits for one request, which is for what it shows. *)
Awaits(s, r) ==
  /\ r.session = s
  /\ phase[s] = "loading" => r.kind = "next"
  /\ phase[s] = "submitting" =>
       /\ r.kind = "answer" /\ r.attempt_id = attemptId[s]
       /\ r.question_id = question[s] /\ r.selected_key = selectedKey[s]

AllAwait ==
  \A s \in Session :
    /\ \A r \in awaiting[s] : Awaits(s, r)
    /\ \A r, q \in awaiting[s] : r = q

(* A response says what the server did, to somebody who waits for it. *)
Truthful(p) ==
  /\ p.request \in Request /\ p.request \in awaiting[p.request.session]
  /\ p.request.kind = "next" /\ p.status = 200 => p.question \in Question
  /\ p.request.kind = "answer" =>
       /\ p.status = 200 => Recorded(p.request) \in log
       /\ p.status = 409 => Taken(p.request.attempt_id)

Logged ==
  /\ \A a \in log : Names(a.attempt_id, a.question_id)
  /\ \A a, b \in log : a.attempt_id = b.attempt_id => a = b

(* A session that has its feedback, or goes on from it, has its attempt. *)
GoesOn == \A s \in Session : phase[s] = "loading" /\ attemptId[s] # 0 => Taken(attemptId[s])

IInv ==
  /\ FeedbackIsTrue
  /\ Counted
  /\ Numbered
  /\ AllSound
  /\ AllAwait
  /\ \A p \in replies : Truthful(p)
  /\ Logged
  /\ GoesOn

-----------------------------------------------------------------------------
LEMMA IInvInitially == Init => IInv
<1> SUFFICES ASSUME Init PROVE IInv
  OBVIOUS
<1> USE DEF Init
<1>1. FeedbackIsTrue
  BY DEF FeedbackIsTrue, TypeOK
<1>2. Counted
  BY FS_EmptySet DEF Counted
<1>3. Numbered /\ AllSound /\ AllAwait /\ Logged /\ GoesOn
  BY DEF Numbered, AllSound, AllAwait, Logged, GoesOn
<1> QED BY <1>1, <1>2, <1>3 DEF IInv

(* Who is on screen, and who listens, is nothing that a session depends on. *)
LEMMA StayKeeps ==
  ASSUME IInv, UNCHANGED <<locals, net, log>>, bank' \subseteq Question,
         shown' \in Session \cup {None}, listening' \subseteq listening
  PROVE  IInv'
<1>1. /\ UNCHANGED <<phase, question, selectedKey, attemptId, area, awaiting, shows>>
      /\ UNCHANGED <<sent, wire, replies, log>>
  BY DEF locals, net
<1>2. IsFiniteSet(listening')
  BY FS_Subset DEF IInv, Counted
<1>3. FeedbackIsTrue'
  BY <1>1 DEF IInv, FeedbackIsTrue, TypeOK
<1>4. Counted' /\ Numbered' /\ AllSound'
  BY <1>1, <1>2 DEF IInv, Counted, Numbered, AllSound, Sound, Names
<1>5. AllAwait' /\ (\A p \in replies : Truthful(p))'
  BY <1>1 DEF IInv, AllAwait, Awaits, Truthful, Recorded, Taken
<1>6. Logged' /\ GoesOn'
  BY <1>1 DEF IInv, Logged, GoesOn, Names, Taken
<1> QED BY <1>3, <1>4, <1>5, <1>6 DEF IInv

LEMMA SelectKeeps ==
  ASSUME IInv, NEW S \in SUBSET Session, NEW key \in Key, Select(S, key)
  PROVE  IInv'
<1>1. /\ selectedKey' = [s \in Session |->
            IF s \in S /\ phase[s] = "answering" THEN key ELSE selectedKey[s]]
      /\ UNCHANGED <<shown, listening, phase, question, attemptId, area, awaiting, shows>>
      /\ UNCHANGED <<sent, wire, replies, bank, log>>
  BY DEF Select, page, net
<1>2. \A s \in Session : phase[s] # "answering" => selectedKey'[s] = selectedKey[s]
  BY <1>1
<1>3. FeedbackIsTrue'
  BY <1>1, <1>2 DEF IInv, FeedbackIsTrue, TypeOK
<1>4. Counted' /\ Numbered' /\ AllSound'
  BY <1>1 DEF IInv, Counted, Numbered, AllSound, Sound, Names
<1>5. AllAwait' /\ (\A p \in replies : Truthful(p))'
  BY <1>1, <1>2 DEF IInv, AllAwait, Awaits, Truthful, Recorded, Taken
<1>6. Logged' /\ GoesOn'
  BY <1>1 DEF IInv, Logged, GoesOn, Names, Taken
<1> QED BY <1>3, <1>4, <1>5, <1>6 DEF IInv

(* Sessions that waited for nothing send a request each. *)
LEMMA SendKeeps ==
  ASSUME IInv, NEW requests \in SUBSET Request, IsFiniteSet(requests), Send(requests),
         \A r \in requests : Sound(r) /\ phase[r.session] \notin {"loading", "submitting"},
         \A r \in requests : Awaits(r.session, r)' /\ phase'[r.session] \in {"loading", "submitting"},
         \A r, q \in requests : r.session = q.session => r = q,
         phase' \in [Session -> {"unopened", "loading", "answering", "submitting", "feedback",
                                 "unavailable"}],
         \A s \in Session : phase'[s] = phase[s] \/ \E r \in requests : r.session = s,
         \A s \in Session : phase'[s] = "loading" => phase[s] \in {"loading", "unopened", "feedback"},
         \A s \in Session : phase'[s] = "submitting" => phase[s] \in {"submitting", "answering"},
         DOMAIN area' = Session, \A s \in Session : phase'[s] = "feedback" => area'[s] = area[s],
         shown' \in Session \cup {None}, listening' \subseteq Session, IsFiniteSet(listening'),
         UNCHANGED <<question, selectedKey, attemptId, shows, bank, log>>
  PROVE  IInv'
<1>1. /\ sent' = sent + Cardinality(requests) /\ wire' = wire \cup requests
      /\ awaiting' = [s \in Session |-> awaiting[s] \cup {r \in requests : r.session = s}]
      /\ replies' = replies
  BY DEF Send
<1>2. TypeOK /\ Cardinality(requests) \in Nat
  BY FS_CardinalityType DEF IInv, FeedbackIsTrue
<1>3. ASSUME NEW s \in Session
      PROVE  \/ \E r \in requests : /\ r.session = s /\ awaiting[s] = {} /\ awaiting'[s] = {r}
                                     /\ phase'[s] \in {"loading", "submitting"}
             \/ awaiting'[s] = awaiting[s] /\ phase'[s] = phase[s]
  <2>1. CASE \E r \in requests : r.session = s
    <3>1. PICK r \in requests : r.session = s
      BY <2>1
    <3>2. {q \in requests : q.session = s} = {r}
      BY <3>1
    <3>3. awaiting[s] = {}
      BY <1>2, <3>1 DEF TypeOK
    <3> QED BY <1>1, <3>1, <3>2, <3>3
  <2>2. CASE ~ \E r \in requests : r.session = s
    <3>1. {q \in requests : q.session = s} = {}
      BY <2>2
    <3> QED BY <1>1, <2>2, <3>1
  <2> QED BY <2>1, <2>2
<1>4. TypeOK'
  BY <1>1, <1>2, <1>3 DEF TypeOK
<1>5. FeedbackIsTrue'
  BY <1>3, <1>4 DEF IInv, FeedbackIsTrue
<1>6. Counted'
  BY <1>1, <1>2 DEF IInv, Counted
<1>7. Numbered'
  BY <1>2, <1>3 DEF IInv, Numbered, TypeOK
<1>8. AllSound'
  <2>1. \A r \in Request : Sound(r) => Sound(r)'
    BY DEF Sound, Names
  <2>2. \A r \in wire \cup UNION {awaiting[s] : s \in Session} : r \in Request /\ Sound(r)
    BY <1>2 DEF IInv, AllSound, TypeOK
  <2>3. \A r \in wire' : Sound(r)'
    BY <1>1, <2>1, <2>2
  <2>4. \A s \in Session : \A r \in awaiting'[s] : Sound(r)'
    BY <1>3, <2>1, <2>2
  <2> QED BY <2>3, <2>4 DEF AllSound
<1>9. AllAwait'
  <2>1. ASSUME NEW s \in Session, awaiting'[s] = awaiting[s], phase'[s] = phase[s]
        PROVE  (\A r \in awaiting[s] : Awaits(s, r))' /\ \A r, q \in awaiting'[s] : r = q
    BY <2>1 DEF IInv, AllAwait, Awaits
  <2>2. ASSUME NEW s \in Session, NEW r \in requests, r.session = s, awaiting'[s] = {r}
        PROVE  (\A q \in awaiting[s] : Awaits(s, q))' /\ \A p, q \in awaiting'[s] : p = q
    <3>1. Awaits(s, r)'
      BY <2>2 DEF Awaits
    <3> QED BY <2>2, <3>1
  <2> QED BY <1>3, <2>1, <2>2 DEF AllAwait
<1>10. (\A p \in replies : Truthful(p))'
  <2>1. ASSUME NEW p \in replies PROVE p.request \in awaiting'[p.request.session]
    BY <1>1 DEF IInv, Truthful, Request
  <2>2. ASSUME NEW p \in replies PROVE Truthful(p)'
    <3>1. Truthful(p)
      BY DEF IInv
    <3> QED BY <2>1, <3>1 DEF Truthful, Recorded, Taken
  <2> QED BY <1>1, <2>2
<1>11. Logged'
  BY DEF IInv, Logged, Names
<1>12. GoesOn'
  <2>1. \A s \in Session : phase[s] = "feedback" => Taken(attemptId[s])
    BY DEF IInv, FeedbackIsTrue, Taken
  <2> QED BY <2>1 DEF IInv, GoesOn, Numbered, Taken
<1> QED BY <1>5, <1>6, <1>7, <1>8, <1>9, <1>10, <1>11, <1>12 DEF IInv

LEMMA OpenKeeps ==
  ASSUME IInv, NEW s \in Session, Open(s)
  PROVE  IInv'
<1>1. /\ phase[s] = "unopened" /\ shown' = s /\ listening' = listening \cup {s}
      /\ phase' = [phase EXCEPT ![s] = "loading"] /\ Send({NextRequest(s, sent + 1)})
      /\ UNCHANGED <<question, selectedKey, attemptId, area, shows, bank, log>>
  BY DEF Open
<1>2. TypeOK /\ sent \in Nat /\ IsFiniteSet(listening) /\ DOMAIN area = Session
  BY DEF IInv, FeedbackIsTrue, Counted
<1>3. PICK r \in Request : r = NextRequest(s, sent + 1)
  <2>1. NextRequest(s, sent + 1) \in Request
    BY <1>2 DEF NextRequest, Request
  <2> QED BY <2>1
<1>4. r.session = s /\ r.kind = "next"
  BY <1>3 DEF NextRequest
<1>5. phase'[s] = "loading" /\ \A u \in Session \ {s} : phase'[u] = phase[u]
  BY <1>1, <1>2 DEF TypeOK
<1>6. IsFiniteSet({r}) /\ IsFiniteSet(listening')
  BY <1>1, <1>2, FS_Singleton, FS_AddElement
<1>7. Sound(r) /\ Awaits(s, r)'
  BY <1>4, <1>5 DEF Sound, Awaits
<1>8. /\ \A q \in {r} : Sound(q) /\ phase[q.session] \notin {"loading", "submitting"}
      /\ \A q \in {r} : Awaits(q.session, q)' /\ phase'[q.session] \in {"loading", "submitting"}
      /\ \A p, q \in {r} : p.session = q.session => p = q
  BY <1>1, <1>4, <1>5, <1>7 DEF Awaits
<1>9. /\ phase' \in [Session -> {"unopened", "loading", "answering", "submitting", "feedback",
                                 "unavailable"}]
      /\ \A u \in Session : phase'[u] = phase[u] \/ \E q \in {r} : q.session = u
      /\ \A u \in Session : phase'[u] = "loading" => phase[u] \in {"loading", "unopened", "feedback"}
      /\ \A u \in Session : phase'[u] = "submitting" => phase[u] \in {"submitting", "answering"}
  BY <1>1, <1>2, <1>4, <1>5 DEF TypeOK
<1>10. shown' \in Session \cup {None} /\ listening' \subseteq Session
  BY <1>1, <1>2 DEF TypeOK
<1>11. {r} \in SUBSET Request /\ Send({r})
  BY <1>1, <1>3
<1> QED BY <1>1, <1>2, <1>6, <1>8, <1>9, <1>10, <1>11, SendKeeps

(* The image of a finite set *)
LEMMA FiniteImage ==
  ASSUME NEW S, IsFiniteSet(S), NEW f, DOMAIN f = S
  PROVE  IsFiniteSet({f[x] : x \in S})
<1> DEFINE T == {f[x] : x \in S}
           g == [x \in S |-> f[x]]
<1>1. g \in Surjection(S, T)
  BY DEF Surjection
<1> HIDE DEF T, g
<1>2. IsFiniteSet(T)
  BY <1>1, FS_Surjection
<1> QED BY <1>2 DEF T

LEMMA PressKeeps ==
  ASSUME IInv, NEW S \in SUBSET Session, IsFiniteSet(S), Press(S)
  PROVE  IInv'
<1> DEFINE acting == Submitting(S) \cup GoingOn(S)
<1>1. PICK n \in [acting -> (sent + 1)..(sent + Cardinality(acting))] :
        Send({AnswerRequest(s, n[s]) : s \in Submitting(S)} \cup {NextRequest(s, n[s]) : s \in GoingOn(S)})
  BY DEF Press
<1>2. /\ phase' = [s \in Session |-> IF s \in Submitting(S) THEN "submitting"
                                     ELSE IF s \in GoingOn(S) THEN "loading" ELSE phase[s]]
      /\ area' = [s \in Session |-> IF s \in GoingOn(S) THEN "blank" ELSE area[s]]
      /\ UNCHANGED <<shown, listening, question, selectedKey, attemptId, shows, bank, log>>
  BY DEF Press, page
<1>3. /\ TypeOK /\ sent \in Nat /\ IsFiniteSet(listening)
  BY DEF IInv, FeedbackIsTrue, Counted
<1>4. /\ Submitting(S) \subseteq Session /\ GoingOn(S) \subseteq Session
      /\ Submitting(S) \cap GoingOn(S) = {}
      /\ \A s \in Submitting(S) : phase[s] = "answering" /\ selectedKey[s] \in Key
      /\ \A s \in GoingOn(S) : phase[s] = "feedback"
  BY <1>3 DEF Submitting, GoingOn, TypeOK
<1>5. \A s \in acting : n[s] \in Nat
  BY <1>1, <1>3
<1>6. PICK made : made = [s \in acting |-> IF s \in Submitting(S) THEN AnswerRequest(s, n[s])
                                           ELSE NextRequest(s, n[s])]
  OBVIOUS
<1> DEFINE requests == {made[s] : s \in acting}
<1>7. IsFiniteSet(requests) /\ Send(requests)
  <2>1. acting \in SUBSET S
    BY DEF Submitting, GoingOn
  <2>2. IsFiniteSet(acting)
    BY <2>1, FS_Subset
  <2>3. IsFiniteSet(requests)
    BY <1>6, <2>2, FiniteImage
  <2>4. requests = {AnswerRequest(s, n[s]) : s \in Submitting(S)} \cup {NextRequest(s, n[s]) : s \in GoingOn(S)}
    BY <1>4, <1>6
  <2> QED BY <1>1, <2>3, <2>4
<1>8. ASSUME NEW s \in Submitting(S)
      PROVE  /\ made[s] \in Request /\ made[s].session = s
             /\ phase'[s] = "submitting" /\ Sound(made[s]) /\ Awaits(s, made[s])'
  <2>1. s \in Session /\ n[s] \in Nat /\ phase[s] = "answering" /\ phase'[s] = "submitting"
    BY <1>2, <1>4, <1>5
  <2>2. attemptId[s] \in 1..shows /\ question[s] \in Question
    BY <1>3, <2>1 DEF IInv, Numbered, Counted, TypeOK
  <2>3. made[s] = [n |-> n[s], session |-> s, kind |-> "answer", question_id |-> question[s],
                   attempt_id |-> attemptId[s], selected_key |-> selectedKey[s]]
    BY <1>6 DEF AnswerRequest
  <2>4. made[s] \in Request /\ made[s].session = s
    BY <1>4, <2>1, <2>2, <2>3 DEF Request
  <2>5. Names(attemptId[s], question[s])
    BY <2>1, <2>2 DEF IInv, Numbered, Names
  <2>6. Sound(made[s])
    BY <1>4, <2>2, <2>3, <2>5 DEF Sound
  <2>7. Awaits(s, made[s])'
    BY <1>2, <2>1, <2>3 DEF Awaits
  <2> QED BY <2>1, <2>4, <2>6, <2>7
<1>9. ASSUME NEW s \in GoingOn(S)
      PROVE  /\ made[s] \in Request /\ made[s].session = s
             /\ phase'[s] = "loading" /\ Sound(made[s]) /\ Awaits(s, made[s])'
  <2>1. s \in Session /\ s \notin Submitting(S) /\ n[s] \in Nat /\ phase'[s] = "loading"
    BY <1>2, <1>4, <1>5
  <2>2. made[s] = NextRequest(s, n[s])
    BY <1>6, <2>1
  <2> QED BY <2>1, <2>2 DEF NextRequest, Request, Sound, Awaits
<1>10. /\ requests \in SUBSET Request
       /\ \A r \in requests : Sound(r) /\ phase[r.session] \notin {"loading", "submitting"}
       /\ \A r \in requests : Awaits(r.session, r)' /\ phase'[r.session] \in {"loading", "submitting"}
       /\ \A r, q \in requests : r.session = q.session => r = q
       /\ \A s \in acting : \E r \in requests : r.session = s
  BY <1>4, <1>8, <1>9 DEF Awaits
<1>11. /\ phase' \in [Session -> {"unopened", "loading", "answering", "submitting", "feedback",
                                  "unavailable"}]
       /\ \A u \in Session : phase'[u] = phase[u] \/ u \in acting
       /\ \A u \in Session : phase'[u] = "loading" => phase[u] \in {"loading", "unopened", "feedback"}
       /\ \A u \in Session : phase'[u] = "submitting" => phase[u] \in {"submitting", "answering"}
  BY <1>2, <1>3, <1>4 DEF TypeOK
<1>12. DOMAIN area' = Session /\ \A u \in Session : phase'[u] = "feedback" => area'[u] = area[u]
  BY <1>2, <1>4
<1>13. shown' \in Session \cup {None} /\ listening' \subseteq Session /\ IsFiniteSet(listening')
  BY <1>2, <1>3 DEF TypeOK
<1> HIDE DEF requests, acting
<1> QED BY <1>2, <1>7, <1>10, <1>11, <1>12, <1>13, SendKeeps

-----------------------------------------------------------------------------
(* A response that is true when it is sent stays so: nothing leaves the log. *)
LEMMA ReplyKeeps ==
  ASSUME IInv, NEW r \in wire, NEW status, NEW q, Reply(r, status, q),
         log' \subseteq Attempt, log \subseteq log', Logged',
         r.kind = "next" /\ status = 200 => q \in Question,
         r.kind = "answer" => /\ status = 200 => Recorded(r) \in log'
                              /\ status = 409 => Taken(r.attempt_id)'
  PROVE  IInv'
<1>1. /\ wire' = wire \ {r}
      /\ replies' = IF r \in awaiting[r.session]
                      THEN replies \cup {[request |-> r, status |-> status, question |-> q]}
                      ELSE replies
      /\ UNCHANGED <<shown, listening, phase, question, selectedKey, attemptId, area, awaiting, shows>>
      /\ UNCHANGED <<sent, bank>>
  BY DEF Reply, page, locals
<1>2. TypeOK /\ r \in Request
  BY DEF IInv, FeedbackIsTrue, TypeOK
<1>3. FeedbackIsTrue'
  BY <1>1, <1>2 DEF IInv, FeedbackIsTrue, TypeOK
<1>4. Counted' /\ Numbered' /\ AllSound'
  BY <1>1 DEF IInv, Counted, Numbered, AllSound, Sound, Names
<1>5. AllAwait' /\ GoesOn'
  BY <1>1 DEF IInv, AllAwait, Awaits, GoesOn, Taken
<1>6. ASSUME NEW p \in replies PROVE Truthful(p)'
  <2>1. Truthful(p)
    BY DEF IInv
  <2> QED BY <1>1, <2>1 DEF Truthful, Recorded, Taken
<1>7. ASSUME NEW p, p = [request |-> r, status |-> status, question |-> q], r \in awaiting[r.session]
      PROVE  Truthful(p)'
  BY <1>1, <1>2, <1>7 DEF Truthful, Recorded, Taken
<1>8. (\A p \in replies : Truthful(p))'
  BY <1>1, <1>6, <1>7
<1> QED BY <1>3, <1>4, <1>5, <1>8 DEF IInv

LEMMA ServerKeeps ==
  ASSUME IInv, NEW r \in wire, ServeNext(r) \/ ServeAnswer(r) \/ Refuse(r)
  PROVE  IInv'
<1>1. TypeOK /\ r \in Request /\ Sound(r)
  BY DEF IInv, FeedbackIsTrue, TypeOK, AllSound
<1>2. ASSUME NEW status, NEW q, Reply(r, status, q), log' = log,
             r.kind = "next" /\ status = 200 => q \in Question,
             r.kind = "answer" => status # 200 /\ (status = 409 => Taken(r.attempt_id))
      PROVE  IInv'
  <2>1. Logged'
    BY <1>2 DEF IInv, Logged, Names, Reply, locals
  <2>2. Taken(r.attempt_id) => Taken(r.attempt_id)'
    BY <1>2 DEF Taken
  <2> QED BY <1>1, <1>2, <2>1, <2>2, ReplyKeeps DEF TypeOK
<1>3. CASE ServeNext(r)
  BY <1>1, <1>2, <1>3 DEF ServeNext, TypeOK
<1>4. CASE Refuse(r)
  BY <1>2, <1>4 DEF Refuse
<1>5. CASE /\ r.kind = "answer" /\ ~Taken(r.attempt_id)
           /\ \E status \in {200, 503} : Reply(r, status, None)
           /\ log' = log \cup {Recorded(r)}
  <2>1. Recorded(r) \in Attempt /\ Names(r.attempt_id, r.question_id)
    BY <1>1, <1>5 DEF Sound, Recorded, Attempt, Request
  <2>2. PICK status \in {200, 503} : Reply(r, status, None)
    BY <1>5
  <2>3. \A id, q : Names(id, q) => Names(id, q)'
    BY <2>2 DEF Names, Reply, locals
  <2>4. \A a \in log' : Names(a.attempt_id, a.question_id)'
    BY <1>5, <2>1, <2>3 DEF IInv, Logged, Recorded
  <2>5. \A a \in log : a.attempt_id # Recorded(r).attempt_id
    BY <1>5 DEF Taken, Recorded
  <2>6. \A a, b \in log' : a.attempt_id = b.attempt_id => a = b
    BY <1>5, <2>5 DEF IInv, Logged
  <2>7. Logged'
    BY <2>4, <2>6 DEF Logged
  <2>8. log' \subseteq Attempt /\ log \subseteq log' /\ Recorded(r) \in log'
    BY <1>1, <1>5, <2>1 DEF TypeOK
  <2> QED BY <1>5, <2>2, <2>7, <2>8, ReplyKeeps
<1>6. CASE \/ r.kind = "answer" /\ Reply(r, 404, None) /\ UNCHANGED log
           \/ r.kind = "answer" /\ Taken(r.attempt_id) /\ Reply(r, 409, None) /\ UNCHANGED log
  BY <1>2, <1>6
<1> QED BY <1>3, <1>4, <1>5, <1>6 DEF ServeAnswer

-----------------------------------------------------------------------------
(* The one promise that session s holds is settled; s waits no more. *)
LEMMA SettleKeeps ==
  ASSUME IInv, NEW s \in Session, NEW r \in awaiting[s], Settle(r), r.session = s,
         NEW new \in {"answering", "unavailable", "feedback"}, NEW painted, Becomes(s, new, painted),
         question' \in [Session -> Question \cup {None}],
         selectedKey' \in [Session -> Key \cup {None}],
         attemptId' \in [Session -> Nat], shows' \in Nat, Numbered',
         \A u \in Session \ {s} : /\ question'[u] = question[u] /\ selectedKey'[u] = selectedKey[u]
                                  /\ attemptId'[u] = attemptId[u],
         \A id, q : Names(id, q) => Names(id, q)',
         new = "feedback" =>
           \E a \in log : /\ a.attempt_id = attemptId'[s] /\ a.question_id = question'[s]
                          /\ painted = "result" => a.selected_key = selectedKey'[s]
  PROVE  IInv'
<1>1. /\ awaiting' = [awaiting EXCEPT ![s] = @ \ {r}]
      /\ replies' = {p \in replies : p.request # r}
      /\ UNCHANGED <<shown, listening, sent, wire, bank, log>>
      /\ phase' = [phase EXCEPT ![s] = new] /\ area' = [area EXCEPT ![s] = painted]
  BY DEF Settle, Becomes, page
<1>2. TypeOK /\ DOMAIN area = Session
  BY DEF IInv, FeedbackIsTrue, Counted
<1>3. /\ awaiting[s] = {r} /\ awaiting'[s] = {} /\ phase'[s] = new /\ area'[s] = painted
      /\ \A u \in Session \ {s} : awaiting'[u] = awaiting[u] /\ phase'[u] = phase[u] /\ area'[u] = area[u]
  <2>1. awaiting[s] = {r}
    BY DEF IInv, AllAwait
  <2> QED BY <1>1, <1>2, <2>1 DEF TypeOK
<1>4. TypeOK'
  BY <1>1, <1>2, <1>3 DEF TypeOK
<1>5. FeedbackIsTrue'
  BY <1>1, <1>3, <1>4 DEF IInv, FeedbackIsTrue
<1>6. Counted'
  BY <1>1 DEF IInv, Counted
<1>7. AllSound'
  <2>1. \A q : Sound(q) => Sound(q)'
    BY DEF Sound
  <2>2. \A u \in Session : awaiting'[u] \subseteq awaiting[u]
    BY <1>3
  <2> QED BY <1>1, <2>1, <2>2 DEF IInv, AllSound
<1>8. AllAwait'
  BY <1>3 DEF IInv, AllAwait, Awaits
<1>9. (\A p \in replies : Truthful(p))'
  <2>1. ASSUME NEW p \in replies, p.request # r PROVE Truthful(p)'
    <3>1. Truthful(p)
      BY DEF IInv
    <3>2. p.request.session \in Session
      BY <3>1 DEF Truthful, Request
    <3>3. p.request \in awaiting'[p.request.session]
      BY <1>3, <2>1, <3>1, <3>2 DEF Truthful
    <3> QED BY <1>1, <3>1, <3>3 DEF Truthful, Recorded, Taken
  <2> QED BY <1>1, <2>1
<1>10. Logged'
  BY <1>1 DEF IInv, Logged
<1>11. GoesOn'
  BY <1>1, <1>3 DEF IInv, GoesOn, Taken
<1> QED BY <1>4, <1>5, <1>6, <1>7, <1>8, <1>9, <1>10, <1>11 DEF IInv

LEMMA QuestionComesKeeps ==
  ASSUME IInv, NEW s \in Session, NEW r \in awaiting[s], r.session = s, r.kind = "next",
         NEW q \in Question, QuestionComes(r, q)
  PROVE  IInv'
<1>1. /\ Settle(r) /\ Becomes(s, "answering", "question")
      /\ question' = [question EXCEPT ![s] = q] /\ selectedKey' = [selectedKey EXCEPT ![s] = None]
      /\ attemptId' = [attemptId EXCEPT ![s] = shows + 1] /\ shows' = shows + 1
      /\ phase' = [phase EXCEPT ![s] = "answering"]
  BY DEF QuestionComes, Becomes
<1>2. TypeOK /\ shows \in Nat /\ Numbered
  BY DEF IInv, FeedbackIsTrue, Counted
<1>3. /\ attemptId'[s] = shows + 1 /\ question'[s] = q /\ phase'[s] = "answering"
      /\ \A u \in Session \ {s} : /\ attemptId'[u] = attemptId[u] /\ question'[u] = question[u]
                                  /\ selectedKey'[u] = selectedKey[u] /\ phase'[u] = phase[u]
      /\ \A u \in Session : attemptId[u] \in Nat /\ attemptId[u] <= shows
  BY <1>1, <1>2 DEF TypeOK, Numbered
<1>4. Numbered'
  <2>1. \A u \in Session : attemptId'[u] <= shows'
    BY <1>1, <1>2, <1>3
  <2>2. \A u, v \in Session : attemptId'[u] = attemptId'[v] /\ attemptId'[u] # 0 => u = v
    BY <1>2, <1>3 DEF Numbered
  <2>3. \A u \in Session : /\ attemptId'[u] # 0 => question'[u] \in Question
                           /\ phase'[u] \in {"answering", "submitting", "feedback"} => attemptId'[u] # 0
                           /\ phase'[u] = "unopened" => attemptId'[u] = 0
    BY <1>2, <1>3 DEF Numbered
  <2> QED BY <2>1, <2>2, <2>3 DEF Numbered
<1>5. ASSUME NEW id, NEW x, Names(id, x) PROVE Names(id, x)'
  <2>1. id \in 1..shows /\ id \in 1..shows' /\ id # shows + 1
    BY <1>1, <1>2, <1>5 DEF Names
  <2>2. \A u \in Session : attemptId'[u] = id => question'[u] = x
    BY <1>3, <1>5, <2>1 DEF Names
  <2> QED BY <2>1, <2>2 DEF Names
<1>6. /\ question' \in [Session -> Question \cup {None}]
      /\ selectedKey' \in [Session -> Key \cup {None}]
      /\ attemptId' \in [Session -> Nat] /\ shows' \in Nat
  BY <1>1, <1>2 DEF TypeOK
<1> QED BY <1>1, <1>3, <1>4, <1>5, <1>6, SettleKeeps

(* Settled without another question: what s shows is what it showed. *)
LEMMA StaysKeeps ==
  ASSUME IInv, NEW s \in Session, NEW r \in awaiting[s], Settle(r), r.session = s,
         NEW new \in {"answering", "unavailable", "feedback"}, NEW painted, Becomes(s, new, painted),
         UNCHANGED <<question, selectedKey, attemptId, shows>>,
         new # "unavailable" => phase[s] = "submitting",
         new = "feedback" =>
           \E a \in log : /\ a.attempt_id = attemptId[s] /\ a.question_id = question[s]
                          /\ painted = "result" => a.selected_key = selectedKey[s]
  PROVE  IInv'
<1>1. TypeOK /\ shows \in Nat /\ Numbered
  BY DEF IInv, FeedbackIsTrue, Counted
<1>2. phase'[s] = new /\ \A u \in Session \ {s} : phase'[u] = phase[u]
  BY <1>1 DEF Becomes, TypeOK
<1>3. Numbered'
  BY <1>1, <1>2 DEF Numbered
<1>4. \A id, q : Names(id, q) => Names(id, q)'
  BY DEF Names
<1>5. /\ question' \in [Session -> Question \cup {None}]
      /\ selectedKey' \in [Session -> Key \cup {None}]
      /\ attemptId' \in [Session -> Nat] /\ shows' \in Nat
  BY <1>1 DEF TypeOK
<1> QED BY <1>3, <1>4, <1>5, SettleKeeps

LEMMA NoQuestionComesKeeps ==
  ASSUME IInv, NEW s \in Session, NEW r \in awaiting[s], r.session = s, NoQuestionComes(r)
  PROVE  IInv'
BY StaysKeeps DEF NoQuestionComes

LEMMA AnswerComesKeeps ==
  ASSUME IInv, NEW s \in Session, NEW r \in awaiting[s], r.session = s, r.kind = "answer",
         NEW status, AnswerComes(r, status),
         status = 200 => Recorded(r) \in log, status = 409 => Taken(r.attempt_id)
  PROVE  IInv'
<1>1. Settle(r) /\ UNCHANGED <<question, selectedKey, attemptId, shows>>
  BY DEF AnswerComes
<1>2. /\ phase[s] = "submitting" /\ r.attempt_id = attemptId[s]
      /\ r.question_id = question[s] /\ r.selected_key = selectedKey[s]
  BY DEF IInv, FeedbackIsTrue, TypeOK, AllAwait, Awaits
<1>3. CASE status = 200 /\ Becomes(s, "feedback", "result")
  <2>1. PICK a \in log : a = Recorded(r)
    BY <1>3
  <2>2. a.attempt_id = attemptId[s] /\ a.question_id = question[s] /\ a.selected_key = selectedKey[s]
    BY <1>2, <2>1 DEF Recorded
  <2> QED BY <1>1, <1>2, <1>3, <2>2, StaysKeeps
<1>4. CASE status = 409 /\ Becomes(s, "feedback", "recorded")
  <2>1. PICK a \in log : a.attempt_id = attemptId[s]
    BY <1>2, <1>4 DEF Taken
  <2>2. a.question_id = question[s]
    BY <2>1 DEF IInv, Logged, Names
  <2> QED BY <1>1, <1>2, <1>4, <2>1, <2>2, StaysKeeps
<1>5. CASE Becomes(s, "answering", "question")
  BY <1>1, <1>2, <1>5, StaysKeeps
<1> QED BY <1>3, <1>4, <1>5 DEF AnswerComes, IsAlreadyRecorded

LEMMA IInvStep == IInv /\ [Next]_vars => IInv'
<1> SUFFICES ASSUME IInv, [Next]_vars PROVE IInv'
  OBVIOUS
<1>1. /\ TypeOK /\ bank \subseteq Question /\ listening \subseteq Session /\ IsFiniteSet(listening)
      /\ shown \in Session \cup {None} /\ wire \subseteq Request
  BY DEF IInv, FeedbackIsTrue, TypeOK, Counted
<1>2. \A s \in Session : \A r \in awaiting[s] : r.session = s
  BY DEF IInv, AllAwait, Awaits
<1>3. ASSUME NEW s \in Session, Open(s) PROVE IInv'
  BY <1>3, OpenKeeps
<1>4. ASSUME NEW s \in Session, ChangeScope(s) PROVE IInv'
  BY <1>1, <1>4, StayKeeps DEF ChangeScope
<1>5. CASE HashChange
  BY <1>1, <1>5, StayKeeps DEF HashChange
<1>6. CASE AuthChange
  BY <1>1, <1>6, StayKeeps DEF AuthChange
<1>7. \A S \in Reached : S \in SUBSET Session /\ IsFiniteSet(S)
  <2>1. ASSUME NEW s \in Session PROVE {s} \in SUBSET Session /\ IsFiniteSet({s})
    BY FS_Singleton
  <2>2. \A S \in Reached : S = listening \/ \E s \in Session : S = {s}
    BY DEF Reached
  <2>3. listening \in SUBSET Session /\ IsFiniteSet(listening)
    BY <1>1
  <2>4. ASSUME NEW S \in Reached PROVE S \in SUBSET Session /\ IsFiniteSet(S)
    <3>1. CASE S = listening
      BY <2>3, <3>1
    <3>2. CASE \E s \in Session : S = {s}
      <4>1. PICK s \in Session : S = {s}
        BY <3>2
      <4> QED BY <2>1, <4>1
    <3> QED BY <2>2, <3>1, <3>2
  <2> QED BY <2>4
<1>8. ASSUME NEW S \in Reached, Press(S) PROVE IInv'
  BY <1>7, <1>8, PressKeeps
<1>9. ASSUME NEW S \in Reached, NEW key \in Key, Select(S, key) PROVE IInv'
  BY <1>7, <1>9, SelectKeeps
<1>10. ASSUME NEW r \in wire, ServeNext(r) \/ ServeAnswer(r) \/ Refuse(r) PROVE IInv'
  BY <1>10, ServerKeeps
<1>11. ASSUME NEW q \in Question, Regenerate(q) PROVE IInv'
  <2>1. bank' \subseteq Question /\ UNCHANGED <<shown, listening, locals, net, log>>
    BY <1>1, <1>11 DEF Regenerate, page
  <2> QED BY <1>1, <2>1, StayKeeps
<1>12. ASSUME NEW p \in replies, Arrive(p) PROVE IInv'
  <2>1. PICK r : r = p.request
    OBVIOUS
  <2>2. Truthful(p)
    BY DEF IInv
  <2>3. r \in Request /\ r.session \in Session /\ r \in awaiting[r.session]
    BY <2>1, <2>2 DEF Truthful, Request
  <2>4. CASE r.kind = "next" /\ p.status = 200 /\ QuestionComes(r, p.question)
    BY <2>1, <2>2, <2>3, <2>4, QuestionComesKeeps DEF Truthful
  <2>5. CASE r.kind = "next" /\ p.status # 200 /\ NoQuestionComes(r)
    BY <2>3, <2>5, NoQuestionComesKeeps
  <2>6. CASE r.kind = "answer" /\ AnswerComes(r, p.status)
    <3>1. /\ p.status = 200 => Recorded(r) \in log
          /\ p.status = 409 => Taken(r.attempt_id)
      BY <2>1, <2>2, <2>6 DEF Truthful
    <3> QED BY <2>3, <2>6, <3>1, AnswerComesKeeps
  <2> QED BY <1>12, <2>1, <2>4, <2>5, <2>6 DEF Arrive
<1>13. ASSUME NEW s \in Session, NEW r \in awaiting[s], ConnectionFails(r) PROVE IInv'
  <2>1. r.session = s
    BY <1>2
  <2>2. CASE r.kind = "next" /\ NoQuestionComes(r)
    BY <2>1, <2>2, NoQuestionComesKeeps
  <2>3. CASE r.kind = "answer" /\ AnswerComes(r, 0)
    BY <2>1, <2>3, AnswerComesKeeps
  <2> QED BY <1>13, <2>2, <2>3 DEF ConnectionFails
<1>14. CASE UNCHANGED vars
  BY <1>1, <1>14, StayKeeps DEF vars, page
<1> QED BY <1>3, <1>4, <1>5, <1>6, <1>8, <1>9, <1>10, <1>11, <1>12, <1>13, <1>14 DEF Next

LEMMA IInvAlways == Spec => []IInv
<1>1. Init => IInv
  BY IInvInitially
<1>2. IInv /\ [Next]_vars => IInv'
  BY IInvStep
<1> QED BY <1>1, <1>2, PTL DEF Spec

-----------------------------------------------------------------------------
(* A session with its feedback on screen has its attempt in the log: the    *)
(* one it shows the result of, or one of the same question.                 *)
THEOREM WhatIsShownIsStored == Spec => []FeedbackIsTrue
<1>1. IInv => FeedbackIsTrue
  BY DEF IInv
<1> QED BY <1>1, IInvAlways, PTL

(* The log is no larger than the numbers that makeAttemptId has given out:  *)
(* its attempts differ in their number.                                     *)
LEMMA LogIsNumbered ==
  ASSUME IInv
  PROVE  OneAttemptPerQuestionShown
<1>1. shows \in Nat /\ \A a \in log : a.attempt_id \in 1..shows
  BY DEF IInv, Counted, Logged, Names
<1>2. \A a, b \in log : a.attempt_id = b.attempt_id => a = b
  BY DEF IInv, Logged
<1> DEFINE f == [a \in log |-> a.attempt_id]
<1>3. f \in Injection(log, 1..shows)
  BY <1>1, <1>2 DEF Injection, IsInjective
<1>4. IsFiniteSet(1..shows) /\ Cardinality(1..shows) = shows
  <2>1. 1 \in Int /\ shows \in Int /\ shows - 1 + 1 = shows
    BY <1>1
  <2> QED BY <1>1, <2>1, FS_Interval
<1> HIDE DEF f
<1>5. Cardinality(log) <= Cardinality(1..shows)
  BY <1>3, <1>4, FS_Injection
<1> QED BY <1>4, <1>5 DEF OneAttemptPerQuestionShown

(* However often an answer is sent, refused, lost or answered late, one     *)
(* question that was shown becomes one attempt at most.                     *)
THEOREM RetriesAddNothing == Spec => []OneAttemptPerQuestionShown
<1>1. IInv => OneAttemptPerQuestionShown
  BY LogIsNumbered
<1> QED BY <1>1, IInvAlways, PTL

(* Only loadNext numbers a question, and it runs when the answer to the one *)
(* before is in the log.                                                    *)
LEMMA StepSkipsNothing ==
  ASSUME IInv, Next, NEW s \in Session, attemptId[s] # 0, attemptId'[s] # attemptId[s]
  PROVE  Taken(attemptId[s])
<1>1. TypeOK
  BY DEF IInv, FeedbackIsTrue
<1>2. PICK p \in replies : Arrive(p)
  BY DEF Next, Open, ChangeScope, HashChange, AuthChange, Press, Select, ServeNext, ServeAnswer,
     Refuse, Reply, Regenerate, ConnectionFails, NoQuestionComes, AnswerComes, locals
<1>3. PICK r : r = p.request
  OBVIOUS
<1>4. r.kind = "next" /\ QuestionComes(r, p.question)
  BY <1>2, <1>3 DEF Arrive, NoQuestionComes, AnswerComes
<1>5. r.session = s
  BY <1>1, <1>4 DEF QuestionComes, TypeOK
<1>6. r \in awaiting[s]
  BY <1>4, <1>5 DEF QuestionComes, Settle
<1>7. phase[s] = "loading"
  BY <1>1, <1>4, <1>6 DEF IInv, AllAwait, Awaits, TypeOK
<1> QED BY <1>7 DEF IInv, GoesOn

(* No key and no late response takes a session past a question that has no  *)
(* attempt in the history.                                                  *)
THEOREM SessionsSkipNothing == Spec => NoQuestionIsSkipped
<1>1. IInv /\ [Next]_vars =>
        [\A s \in Session : (attemptId[s] # 0 /\ attemptId'[s] # attemptId[s]) =>
           \E a \in log : a.attempt_id = attemptId[s]]_vars
  BY StepSkipsNothing DEF Taken
<1> QED BY <1>1, IInvAlways, PTL DEF Spec, NoQuestionIsSkipped
=============================================================================
