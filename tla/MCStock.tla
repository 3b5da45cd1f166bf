------------------------------- MODULE MCStock -------------------------------
(* A small kitchen for Stock: gravy is made from tomatoes.                  *)
EXTENDS Stock, TLC

Of(gravy, tomato) == [m \in {"gravy", "tomato"} |-> IF m = "gravy" THEN gravy ELSE tomato]
Line(n) == [dish |-> "curry", qty |-> n]

SmallCarts == {<<Line(1)>>, <<Line(1), Line(2)>>}
WithGravy == ("curry" :> Of(1, 1)) @@ ("gravy" :> Of(0, 1))
SmallMenus == {WithGravy}
SmallRecipes == {Of(0, 1)}
Tomatoes(first, again) == [first |-> Of(0, first), again |-> Of(0, again)]
SmallSlips == {Tomatoes(2, 0), Tomatoes(1, 0), Tomatoes(1, 1)}
SmallOpenings == {Of(2, 1)}
Same == Permutations(Bills) \cup Permutations(Papers)
=============================================================================
