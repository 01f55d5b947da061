--------------------------- MODULE MCPracticeScope ---------------------------
(* Two goals.  In the first, b moves from unit to unit, the questions for b *)
(* and c come and go, and d may turn up, without a unit.                    *)
EXTENDS PracticeScopeProperties

CONSTANTS main, side, D1, D2, a, b, c, d

Units(ofB, ofD) == [o \in Objective |->
  CASE o = a -> D1 [] o = b -> ofB [] o = c -> D2 [] o = d -> ofD]

Changing ==
  {k \in [unit : {Units(ofB, ofD) : ofB \in {D1, D2}, ofD \in {Null, NoUnit}},
          asked : {{a} \cup more : more \in SUBSET {b, c, d}}] :
     k.unit[d] = Null => d \notin k.asked}

Fixed == {[unit |-> [o \in Objective |-> IF o = a THEN D1 ELSE Null], asked |-> {a}]}

Catalogs == [t \in Topic |-> IF t = main THEN Changing ELSE Fixed]
=============================================================================
