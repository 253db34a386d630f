----------------------------- MODULE MCAccounts -----------------------------
(***************************************************************************)
(* Accounts with two members, u1 (a@) and u2 (b@), a free address c@, and  *)
(* the requests whose combinations matter.  There are ids for two sign-ups *)
(* at once, or for two one after the other.                                *)
(***************************************************************************)
EXTENDS Accounts, TLC

CONSTANTS a, b, c, old, new, x, y

MCUsers ==
  [u \in UserIds |->
     CASE u = 1 -> [auth_uid |-> a, email |-> a, name |-> old, withdrawn |-> FALSE]
       [] u = 2 -> [auth_uid |-> b, email |-> b, name |-> old, withdrawn |-> FALSE]
       [] OTHER -> NoRow]

MCPets ==
  [p \in PetIds |->
     IF p \in {1, 2}
     THEN [user |-> p, name |-> old, survey |-> old, allergies |-> {x}]
     ELSE NoRow]

SignUp(email, refused, long) ==
  [email |-> email, name |-> new, pet_name |-> new, survey |-> old, allergies |-> {y},
   refused |-> refused, long_password |-> long]

MCRegistrations ==
  {SignUp(c, "nothing", FALSE), SignUp(c, "user", FALSE),
   SignUp(c, "pet", FALSE), SignUp(c, "nothing", TRUE)}

NoChange(u) ==
  [user |-> u, email |-> Keep, name |-> Keep, pet |-> Keep, pet_name |-> Keep,
   survey |-> Keep, allergies |-> Keep, refused |-> "nothing"]

Everything(u, p, email, allergies) ==
  [user |-> u, email |-> email, name |-> new, pet |-> p, pet_name |-> new,
   survey |-> new, allergies |-> allergies, refused |-> "nothing"]

(* With each change, the one that PATCH /me/profile makes of it.           *)
WithOwn(changes) == changes \cup {[r EXCEPT !.email = Keep] : r \in changes}

MCChanges == WithOwn(
  {Everything(1, 1, c, {y}),
   [NoChange(1) EXCEPT !.email = b],              \* u1 wants the address of u2
   [NoChange(1) EXCEPT !.pet = 1, !.allergies = {x}],
   [NoChange(1) EXCEPT !.pet_name = new],         \* no pet_id
   [NoChange(2) EXCEPT !.name = new, !.refused = "user"],
   [NoChange(2) EXCEPT !.email = a, !.pet = 2, !.pet_name = new, !.refused = "pet"],
   [NoChange(3) EXCEPT !.name = old, !.pet = 2, !.survey = new]})  \* not u3's pet
=============================================================================
