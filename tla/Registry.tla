------------------------------ MODULE Registry ------------------------------
(***************************************************************************)
(* What the member registry promises: a registration enters an account and *)
(* its pet at once, a change enters every column it gives at once, and a   *)
(* withdrawal is final.  No two accounts share an e-mail address or an     *)
(* authentication id.  Accounts.tla is shown to implement this module.     *)
(***************************************************************************)
EXTENDS Naturals

CONSTANTS
  UserIds, PetIds,
  Registrations, Changes,  \* the requests that are made
  InitialUsers, InitialPets,
  Keep,                    \* a column that a change does not give
  NoRow,                   \* no account or pet has this id
  Nothing                  \* no request has been applied

VARIABLES
  users, pets,
  applied     \* the request that this step applied, if any

vars == <<users, pets, applied>>

Init ==
  /\ users = InitialUsers
  /\ pets = InitialPets
  /\ applied = Nothing

Free(email, self) ==
  \A u \in UserIds \ {self} : users[u] # NoRow => users[u].email # email

Register(r) ==
  \E u \in UserIds, p \in PetIds :
    /\ users[u] = NoRow /\ pets[p] = NoRow
    /\ Free(r.email, u)
    /\ \A w \in UserIds : users[w] # NoRow => users[w].auth_uid # r.email
    /\ users' = [users EXCEPT ![u] =
         [auth_uid |-> r.email, email |-> r.email, name |-> r.name, withdrawn |-> FALSE]]
    /\ pets' = [pets EXCEPT ![p] =
         [user |-> u, name |-> r.pet_name, survey |-> r.survey, allergies |-> r.allergies]]
    /\ applied' = r

(* A column is replaced when the change gives it, and kept otherwise.      *)
Given(new, old) == IF new = Keep THEN old ELSE new

Change(r) ==
  /\ users[r.user] # NoRow
  /\ r.email # Keep => Free(r.email, r.user)
  /\ users' = [users EXCEPT ![r.user].email = Given(r.email, @),
                            ![r.user].name = Given(r.name, @)]
  /\ IF r.pet_name = Keep /\ r.survey = Keep /\ r.allergies = Keep
     THEN UNCHANGED pets
     ELSE /\ r.pet # Keep
          /\ pets[r.pet] # NoRow
          /\ pets[r.pet].user = r.user
          /\ pets' = [pets EXCEPT ![r.pet].name = Given(r.pet_name, @),
                                  ![r.pet].survey = Given(r.survey, @),
                                  ![r.pet].allergies = Given(r.allergies, @)]
  /\ applied' = r

Withdraw(u) ==
  /\ users[u] # NoRow
  /\ ~users[u].withdrawn
  /\ users' = [users EXCEPT ![u].withdrawn = TRUE]
  /\ applied' = Nothing
  /\ UNCHANGED pets

(* The request was applied and something else happens.                     *)
Pass == applied' = Nothing /\ UNCHANGED <<users, pets>>

Next ==
  \/ \E r \in Registrations : Register(r)
  \/ \E r \in Changes : Change(r)
  \/ \E u \in UserIds : Withdraw(u)
  \/ Pass

Spec == Init /\ [][Next]_vars
=============================================================================
