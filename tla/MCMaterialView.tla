--------------------------- MODULE MCMaterialView ---------------------------
(* Two pages of notes, two generations and two requests at a time, in a tab  *)
(* that comes, goes and is reloaded at will.                                *)
EXTENDS MaterialView, TLC

Spellings == {"D1", "d1", "D1 "}

StrippedOf == [d \in Spellings |-> IF d = "D1 " THEN "D1" ELSE d]

FoldedOf == [d \in Spellings |-> "d1"]

Answer(objectives, questions) ==
  [objectives |-> [i \in DOMAIN objectives |->
                     [objective_id |-> objectives[i][1], domain |-> objectives[i][2]]],
   questions |-> questions]

(* Two objectives of one unit, which the model spells in two ways, and a    *)
(* question for an objective that there may not be                          *)
SomeAnswers ==
  {Answer(<<<<1, "D1">>>>, <<1>>), Answer(<<<<2, "d1">>>>, <<2, 2>>), Answer(<<>>, <<2>>)}

(* An objective whose unit ends in a space *)
SomeCatalogs == {<<"D1 ", None>>}

(* All are still to be uploaded. *)
NoPages == {{}}

Symmetry == Permutations(Material)
=============================================================================
