----------------------------- MODULE MCSeedData -----------------------------
(* Four days: the shop opens on day 1, sign-ups end on day 2, today is     *)
(* day 3.  The calendar has two ends of a month, one of them in a leap     *)
(* year, so that a month passes early or late.                             *)
EXTENDS SeedData, TLC

MCCalendar ==
  0 :> [month |-> 1, day |-> 30] @@ 1 :> [month |-> 2, day |-> 29]
    @@ 2 :> [month |-> 3, day |-> 15] @@ 3 :> [month |-> 3, day |-> 31]

MCBreedAnimal == [b \in {"maltese"} |-> "dog"]
MCBodySize == [b \in {"maltese"} |-> 5]
MCDefaultSize == [a \in {"dog", "cat"} |-> 5]
MCBreedCounts == "dog" :> {1} @@ "cat" :> {0}
MCParent == "meat" :> "none" @@ "chicken" :> "meat" @@ "thigh" :> "chicken"
MCAllergenFiles ==
  {f \in [1..3 -> {"meat", "chicken", "thigh"}] : Distinct(f)}

Row(id, p, customer, product_id, day) ==
  [id |-> id, pet |-> p, customer |-> customer, size |-> 5, product |-> product_id,
   day |-> day]

Kind(category, animals, is_active) ==
  [category |-> category, animals |-> animals, is_active |-> is_active]

MCKinds ==
  {Kind(1, {"dog"}, 1), Kind(1, {"dog"}, 0), Kind(2, {"cat"}, 1), Kind(1, {}, 1)}

(* No file; a row of a pet of this shop; a row of a pet that is not, of a  *)
(* member who is or is not, with an id that a count would reach again.     *)
MCSourceFiles ==
  {<<>>, <<Row(2, 1, 1, 1, 1)>>, <<Row(2, 9, 1, 1, 2)>>, <<Row(2, 9, 7, 2, 3)>>}


NoSourceFile == {<<>>}

(* Nothing looks at the members' times once products are drawn, nor at the *)
(* link tables; what the properties say of them was checked before.        *)
Looked ==
  <<phase, product, purchase, review, source, database,
    IF phase \in {"users", "pets"} THEN people
    ELSE <<pet, Len(user), Cardinality(Uids)>>>>
=============================================================================
