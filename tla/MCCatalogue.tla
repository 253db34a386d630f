---------------------------- MODULE MCCatalogue ----------------------------
(***************************************************************************)
(* What the CSV files may hold.  Second numbers the allergens anew, takes  *)
(* product 2 out and gives purchase 11 another product.  Empty has no      *)
(* members: the ids that its first sign-up takes are in use in the others. *)
(***************************************************************************)
EXTENDS Catalogue, TLC

MCNames == {"meat", "poultry", "chicken", "fish"}
MCIngredients == {"broth", "salmon", "rice"}
MCAnimals == {"dog", "cat"}

Tree(meat, poultry, chicken, fish) ==
  meat :> [name |-> "meat", parent |-> 0] @@ poultry :> [name |-> "poultry", parent |-> meat]
  @@ chicken :> [name |-> "chicken", parent |-> poultry] @@ fish :> [name |-> "fish", parent |-> 0]

Carries(chicken, fish) == [i \in MCIngredients |->
  CASE i = "broth" -> {chicken} [] i = "salmon" -> {fish} [] OTHER -> {}]

Food(verified, ingredients, animals) ==
  [active |-> 1, verified |-> verified, ingredients |-> ingredients, animals |-> animals,
   says |-> {}]

Row(p, q) == [product |-> p, pet |-> q, size |-> 2, rating |-> 4]
Pet(animal, allergies, active) ==
  [owner |-> "member", animal |-> animal, size |-> 2, allergies |-> allergies, active |-> active]

First ==
  [allergen |-> Tree(1, 2, 3, 4), carries |-> Carries(3, 4),
   product |-> 1 :> Food(1, {"broth", "rice"}, {"dog"}) @@ 2 :> Food(1, {"rice"}, MCAnimals)
               @@ 3 :> Food(0, {"salmon"}, {"dog"}),
   pet |-> 1 :> Pet("dog", {}, TRUE),
   purchase |-> 11 :> Row(1, 1) @@ 12 :> Row(1, 1) @@ 13 :> Row(2, 1)
                @@ 14 :> Row(3, 1)]

Second ==
  [allergen |-> Tree(2, 3, 5, 1), carries |-> Carries(5, 1),
   product |-> 1 :> Food(1, {"broth", "rice"}, {"dog"}) @@ 3 :> Food(0, {"salmon"}, {"dog"}),
   pet |-> 1 :> Pet("dog", {1, 5}, TRUE) @@ 2 :> Pet("cat", {}, FALSE),
   purchase |-> 11 :> Row(3, 1) @@ 12 :> [Row(1, 2) EXCEPT !.rating = 2]]

Empty == [First EXCEPT !.pet = <<>>, !.purchase = <<>>]

MCLoads == {First, Second, Empty}
MCPicks == {{"meat"}, {"chicken", "fish"}}
MCPatches == {<<1, 0>>}
MCQuestions == {[animal |-> "dog", size |-> 2, allergy |-> {"chicken"}]}
MCDemoRows == <<11, 12>>
MCSims == 0..2
=============================================================================
