--------------------------- MODULE PracticeScope ---------------------------
(***************************************************************************)
(* What is ticked in the learning tree and what a practice session asks    *)
(* for: webui/js/practice-scope.js, the tree of views/learning.js that it  *)
(* reads, and the scope that web/routers/practice.py makes of the query.   *)
(*                                                                         *)
(* The tree on screen is a reading of the catalog that may be old, and the *)
(* selection outlives the tree it was made on.  An item of a selection is  *)
(* a unit or an objective; their order and labels are left out.  Units and *)
(* objectives are told apart by their values, as withoutSubtree does.      *)
(***************************************************************************)
CONSTANTS
  Topic,         \* goals
  Unit,          \* what Objective.domain may be
  Objective,     \* objective ids
  CatalogsOf,    \* the catalogs each topic may come to have
  NoUnit,        \* no domain: the bucket "Sin unidad"
  Null           \* nothing

(* unit: the unit of each objective, Null where there is no objective;      *)
(* asked: the objectives that have a question, and so a checkbox.           *)
Catalog == [unit : [Objective -> Unit \cup {NoUnit, Null}], asked : SUBSET Objective]

ASSUME CatalogAssumption ==
  /\ CatalogsOf \in [Topic -> SUBSET Catalog]
  /\ \A t \in Topic : \A c \in CatalogsOf[t] : \A o \in c.asked : c.unit[o] # Null

ASSUME ValueAssumption ==
  NoUnit \notin Unit /\ Null \notin Unit \cup {NoUnit}

(* items: [] is the whole goal; no selection is Null. *)
Selection == [topic : Topic, units : SUBSET Unit, topics : SUBSET Objective]

ASSUME NullAssumption == Null \notin Selection

Row == [kind : {"goal"}] \cup [kind : {"unit"}, unit : Unit]
         \cup [kind : {"topic"}, objective : Objective]

Goal == [kind |-> "goal"]
UnitRow(u) == [kind |-> "unit", unit |-> u]
TopicRow(o) == [kind |-> "topic", objective |-> o]

VARIABLES
  catalogs,    \* the catalog of each topic on the server
  trees,       \* what the tree shows of each goal; Folded before it is opened
  selection    \* what is ticked

scopeVars == <<catalogs, trees, selection>>

-----------------------------------------------------------------------------
(* shapeOf *)
Folded == [unit |-> [o \in Objective |-> Null], asked |-> {}]

UnitsOf(tree) == {tree.unit[o] : o \in Objective} \ {NoUnit, Null}

ObjectivesOf(tree, u) == {o \in tree.asked : tree.unit[o] = u}

Ungrouped(tree) == \E o \in Objective : tree.unit[o] = NoUnit

(* The rows of a goal that have a checkbox. *)
Rows(tree) ==
  {Goal} \cup {UnitRow(u) : u \in UnitsOf(tree)} \cup {TopicRow(o) : o \in tree.asked}

IsWhole(sel) == sel.units = {} /\ sel.topics = {}

(* rowState *)
RowState(sel, t, row, tree) ==
  CASE sel = Null -> "off"
    [] sel # Null /\ sel.topic # t -> "off"
    [] sel # Null /\ sel.topic = t ->
         IF IsWhole(sel) THEN "on"
         ELSE CASE row.kind = "goal" -> "partial"
                [] row.kind = "unit" ->
                     IF row.unit \in sel.units THEN "on"
                     ELSE IF ObjectivesOf(tree, row.unit) \cap sel.topics # {} THEN "partial"
                     ELSE "off"
                [] row.kind = "topic" ->
                     IF tree.unit[row.objective] \in sel.units \/ row.objective \in sel.topics
                       THEN "on" ELSE "off"

-----------------------------------------------------------------------------
(* toggleRow.  The items in force: "everything" becomes the units it stands *)
(* for.                                                                     *)
ItemsOf(sel, t, tree) ==
  IF sel = Null \/ sel.topic # t THEN [topic |-> t, units |-> {}, topics |-> {}]
  ELSE IF IsWhole(sel) THEN [sel EXCEPT !.units = UnitsOf(tree)]
  ELSE sel

WithoutSubtree(items, row, tree) ==
  IF row.kind = "unit"
    THEN [items EXCEPT !.units = @ \ {row.unit}, !.topics = @ \ ObjectivesOf(tree, row.unit)]
    ELSE [items EXCEPT !.topics = @ \ {row.objective}]

(* itemFromRow *)
With(items, row, tree) ==
  IF row.kind = "unit" THEN [items EXCEPT !.units = @ \cup {row.unit}]
                       ELSE [items EXCEPT !.topics = @ \cup {row.objective}]

(* The units all of whose objectives are items. *)
Complete(items, tree) ==
  {u \in UnitsOf(tree) : ObjectivesOf(tree, u) # {} /\ ObjectivesOf(tree, u) \subseteq items.topics}

(* Mutant: a unit is not collapsed. *)
NormalizeGoalOnly(items, tree) ==
  IF UnitsOf(tree) # {} /\ ~Ungrouped(tree) /\ UnitsOf(tree) \subseteq items.units
    THEN [items EXCEPT !.units = {}, !.topics = {}]
    ELSE items

(* normalize: every objective of a unit becomes the unit, every unit of the *)
(* goal becomes the goal, unless some objective has no unit.                *)
Normalize(items, tree) ==
  LET next == [items EXCEPT
                 !.units = @ \cup Complete(items, tree),
                 !.topics = {o \in @ : \A u \in Complete(items, tree) :
                                         o \notin ObjectivesOf(tree, u)}]
  IN  IF UnitsOf(tree) # {} /\ ~Ungrouped(tree) /\ UnitsOf(tree) \subseteq next.units
        THEN [next EXCEPT !.units = {}, !.topics = {}]
        ELSE next

(* Mutant: the unit goes and its other objectives with it. *)
TurnOffWithSiblings(items, row, tree) ==
  IF row.kind = "unit" THEN WithoutSubtree(items, row, tree)
  ELSE [items EXCEPT !.units = @ \ {tree.unit[row.objective]}, !.topics = @ \ {row.objective}]

(* turnOff: a unit that covers the objective expands into the others. *)
TurnOff(items, row, tree) ==
  IF row.kind = "unit" THEN WithoutSubtree(items, row, tree)
  ELSE LET u == tree.unit[row.objective]
       IN  IF u \in items.units
             THEN [items EXCEPT !.units = @ \ {u},
                                !.topics = (@ \cup ObjectivesOf(tree, u)) \ {row.objective}]
             ELSE [items EXCEPT !.topics = @ \ {row.objective}]

ToggleRow(sel, t, row, tree) ==
  LET on    == RowState(sel, t, row, tree) = "on"
      items == ItemsOf(sel, t, tree)
      rest  == TurnOff(items, row, tree)
  IN  CASE row = Goal ->
             IF on THEN Null ELSE [topic |-> t, units |-> {}, topics |-> {}]
        [] row # Goal /\ ~on -> Normalize(With(WithoutSubtree(items, row, tree), row, tree), tree)
        [] row # Goal /\ on -> IF IsWhole(rest) THEN Null ELSE rest

-----------------------------------------------------------------------------
(* selectionQuery: no parameters for the whole goal. *)
SelectionQuery(sel) == [domain |-> sel.units, objective_id |-> sel.topics]

(* Mutant: both parameters must match. *)
ObjectivesInScopeOfBoth(catalog, query) ==
  LET listed == {o \in Objective : catalog.unit[o] # Null}
  IN  IF query.domain = {} /\ query.objective_id = {} THEN listed
      ELSE {o \in listed : o \in query.objective_id /\ catalog.unit[o] \in query.domain}

(* _objectives_in_scope of web/routers/practice.py; without a scope, all. *)
ObjectivesInScope(catalog, query) ==
  LET listed == {o \in Objective : catalog.unit[o] # Null}
  IN  IF query.domain = {} /\ query.objective_id = {} THEN listed
      ELSE {o \in listed : o \in query.objective_id \/ catalog.unit[o] \in query.domain}

-----------------------------------------------------------------------------
ScopeInit ==
  /\ catalogs \in [Topic -> UNION {CatalogsOf[t] : t \in Topic}]
  /\ \A t \in Topic : catalogs[t] \in CatalogsOf[t]
  /\ trees = [t \in Topic |-> Folded]
  /\ selection = Null

(* A checkbox changes. *)
Tick(t, row) ==
  /\ row \in Rows(trees[t])
  /\ selection' = ToggleRow(selection, t, row, trees[t])
  /\ UNCHANGED <<catalogs, trees>>

(* fillGoal, the first time a goal is opened after a render. *)
Unfold(t) ==
  /\ trees[t] = Folded
  /\ trees' = [trees EXCEPT ![t] = catalogs[t]]
  /\ UNCHANGED <<catalogs, selection>>

(* renderLearning: back from a session, or another topic was created, with  *)
(* the selection there was; or by the router, without.                      *)
Render ==
  /\ trees' = [t \in Topic |-> Folded]
  /\ selection' \in {selection, Null}
  /\ UNCHANGED catalogs

(* Others register objectives, move them to another unit and regenerate     *)
(* questions.  No objective is ever taken away.                             *)
Write(t) ==
  /\ \E c \in CatalogsOf[t] :
       /\ \A o \in Objective : catalogs[t].unit[o] # Null => c.unit[o] # Null
       /\ catalogs' = [catalogs EXCEPT ![t] = c]
  /\ UNCHANGED <<trees, selection>>

ScopeNext ==
  \/ \E t \in Topic : Unfold(t) \/ Write(t) \/ \E row \in Row : Tick(t, row)
  \/ Render

ScopeSpec == ScopeInit /\ [][ScopeNext]_scopeVars
=============================================================================
