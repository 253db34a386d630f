------------------------------ MODULE Accounts ------------------------------
(***************************************************************************)
(* Sign-up, the administrator's POST, PATCH and DELETE of a member, the    *)
(* member's own PATCH, and login: requests in worker threads, each one     *)
(* READ COMMITTED transaction of several statements.  An UPDATE locks its  *)
(* row until the transaction ends; a unique key waits for a transaction    *)
(* that is inserting the key, or that has replaced the row which has it.   *)
(***************************************************************************)
EXTENDS Naturals, FiniteSets

CONSTANTS
  Threads, Emails, Names, Notes, Allergens,
  Registrations,        \* SignupRequest bodies
  Changes,              \* CustomerUpdate bodies, each with the member's id
  Leavers,              \* the ids an administrator withdraws
  Visitors,             \* the e-mail addresses that log in
  InitialUsers, InitialPets,
  Keep,                 \* a column that a PATCH does not give
  NoRow, Nothing,
  MaxUserId, MaxPetId   \* bounds: ids handed out in one behaviour

UserIds == 1..MaxUserId
PetIds == 1..MaxPetId

(* Which row of the request a CHECK of the schema refuses, if any.         *)
Refused == {"nothing", "user", "pet"}

UserRow == [auth_uid: Emails, email: Emails, name: Names, withdrawn: BOOLEAN]
PetRow == [user: UserIds, name: Names, survey: Notes, allergies: SUBSET Allergens]

Registration ==
  [email: Emails, name: Names, pet_name: Names, survey: Notes,
   allergies: SUBSET Allergens, refused: Refused, long_password: BOOLEAN]

Change ==
  [user: UserIds, email: Emails \cup {Keep}, name: Names \cup {Keep},
   pet: PetIds \cup {Keep}, pet_name: Names \cup {Keep}, survey: Notes \cup {Keep},
   allergies: {Keep} \cup SUBSET Allergens, refused: Refused]

(* The rows have the ids from 1 on, and the keys of user are UNIQUE.       *)
Numbered(rows) ==
  \A id \in DOMAIN rows :
    rows[id] # NoRow <=> id <= Cardinality({i \in DOMAIN rows : rows[i] # NoRow})

ASSUME AccountsConstantsOK ==
  /\ IsFiniteSet(Threads)
  /\ MaxUserId \in Nat /\ MaxPetId \in Nat
  /\ Registrations \subseteq Registration
  /\ Changes \subseteq Change
  /\ Leavers \subseteq UserIds /\ Visitors \subseteq Emails
  /\ \A c \in Changes : [c EXCEPT !.email = Keep] \in Changes
  /\ InitialUsers \in [UserIds -> UserRow \cup {NoRow}]
  /\ InitialPets \in [PetIds -> PetRow \cup {NoRow}]
  /\ Numbered(InitialUsers) /\ Numbered(InitialPets)
  /\ \A u, w \in UserIds :
       InitialUsers[u] # NoRow /\ InitialUsers[w] # NoRow /\ u # w =>
         /\ InitialUsers[u].email # InitialUsers[w].email
         /\ InitialUsers[u].auth_uid # InitialUsers[w].auth_uid
  /\ NoRow \notin UserRow \cup PetRow
  /\ Nothing \notin Registrations \cup Changes
  /\ Keep \notin Emails \cup Names \cup Notes \cup PetIds
  /\ \A list \in SUBSET Allergens : Keep # list

VARIABLES
  users, pets,          \* committed rows; a pet with its survey and allergies
  next_user, next_pet,  \* the id sequences
  tokens,               \* the members who have been given a token
  pc,                   \* where the request of each thread is
  req,                  \* what it asks
  row,                  \* the ids it works on and the allergies it has deleted
  applied,              \* the registration or change that this step committed
  answer                \* the HTTP status that this step answered

db == <<users, pets, next_user, next_pet, tokens>>
vars == <<users, pets, next_user, next_pet, tokens, pc, req, row, applied, answer>>

NoRowYet == [user |-> 0, pet |-> 0, deleted |-> {}]
RowInHand == [user: UserIds \cup {0}, pet: PetIds \cup {0}, deleted: SUBSET Allergens]

Registering == {"creating", "created", "pet_created", "registered"}
Changing == {"updating", "user_updated", "email_indexed", "pet_updated",
             "details_read", "updated"}
Holding == {"user_updated", "email_indexed", "pet_updated", "details_read"}
Status == {"none", "200", "201", "204", "400", "401", "404", "409", "500", "constraint_500"}

Empty(c) ==
  \A column \in {"email", "name", "pet", "pet_name", "survey", "allergies"} : c[column] = Keep

TouchesPet(c) == c.pet_name # Keep \/ c.survey # Keep \/ c.allergies # Keep

Given(new, old) == IF new = Keep THEN old ELSE new

Exists(u) == users[u] # NoRow

EmailTaken(email, self) == \E u \in UserIds \ {self} : Exists(u) /\ users[u].email = email

AuthUidTaken(auth_uid) == \E u \in UserIds : Exists(u) /\ users[u].auth_uid = auth_uid

(* The row locks, from the UPDATE to the end of the transaction.           *)
HoldsUser(s, u) ==
  /\ pc[s] \in Holding \cup {"withdrawn"}
  /\ row[s].user = u

HoldsPet(s, p) ==
  /\ pc[s] \in {"pet_updated", "details_read"}
  /\ req[s].pet = p

(* s has inserted the key, or replaced the row that has it.                *)
HoldsEmail(s, email) ==
  \/ pc[s] \in {"created", "pet_created"} /\ req[s].email = email
  \/ pc[s] \in {"email_indexed", "pet_updated", "details_read"} /\ req[s].email = email
  \/ \E u \in UserIds : HoldsUser(s, u) /\ Exists(u) /\ users[u].email = email

HoldsAuthUid(s, auth_uid) ==
  \E u \in UserIds : HoldsUser(s, u) /\ Exists(u) /\ users[u].auth_uid = auth_uid

(* The threads whose transactions the next statement of t waits for.       *)
WaitsFor(t) ==
  {s \in Threads \ {t} :
     CASE pc[t] \in {"updating", "withdrawing"} -> HoldsUser(s, row[t].user)
       [] pc[t] = "user_updated" -> req[t].email # Keep /\ HoldsEmail(s, req[t].email)
       [] pc[t] = "email_indexed" -> TouchesPet(req[t]) /\ HoldsPet(s, req[t].pet)
       [] pc[t] = "creating" ->
            HoldsEmail(s, req[t].email) \/ HoldsAuthUid(s, req[t].email)
       [] OTHER -> FALSE}

-----------------------------------------------------------------------------
Init ==
  /\ users = InitialUsers
  /\ pets = InitialPets
  /\ next_user = Cardinality({u \in UserIds : InitialUsers[u] # NoRow}) + 1
  /\ next_pet = Cardinality({p \in PetIds : InitialPets[p] # NoRow}) + 1
  /\ tokens = {}
  /\ pc = [t \in Threads |-> "idle"]
  /\ req = [t \in Threads |-> Nothing]
  /\ row = [t \in Threads |-> NoRowYet]
  /\ applied = Nothing
  /\ answer = "none"

Answer(t, status) ==
  /\ pc' = [pc EXCEPT ![t] = "idle"]
  /\ req' = [req EXCEPT ![t] = Nothing]
  /\ row' = [row EXCEPT ![t] = NoRowYet]
  /\ applied' = Nothing
  /\ answer' = status

Step(t, to) ==
  /\ pc' = [pc EXCEPT ![t] = to]
  /\ applied' = Nothing
  /\ answer' = "none"

Commit(t, to) ==
  /\ pc' = [pc EXCEPT ![t] = to]
  /\ applied' = req[t]
  /\ answer' = "none"

(* Bound: every registration in progress can still be given its ids.       *)
RoomForAccount ==
  LET waiting(places) == Cardinality({t \in Threads : pc[t] \in places})
  IN  /\ next_user + waiting({"creating"}) <= MaxUserId
      /\ next_pet + waiting({"creating", "created"}) <= MaxPetId

-----------------------------------------------------------------------------
(* register: a password over 72 bytes is refused before anything is read.  *)
BeginRegister(t, r) ==
  /\ pc[t] = "idle"
  /\ UNCHANGED db
  /\ \/ /\ r.long_password
        /\ Answer(t, "400")
     \/ /\ ~r.long_password
        /\ RoomForAccount
        /\ Step(t, "creating")
        /\ req' = [req EXCEPT ![t] = r]
        /\ UNCHANGED row

(* Mutant: the e-mail address is looked up before the INSERT instead of    *)
(* being left to the unique constraint.                                    *)
LooksUpEmail(t) ==
  /\ pc[t] = "creating"
  /\ ~EmailTaken(req[t].email, 0) /\ ~AuthUidTaken(req[t].email)
  /\ Step(t, "created")
  /\ row' = [row EXCEPT ![t].user = next_user]
  /\ next_user' = next_user + 1
  /\ UNCHANGED <<users, pets, next_pet, tokens, req>>

(* create_user: a CHECK comes before the unique indexes and is not mapped; *)
(* an address or authentication id that is taken is a Conflict.            *)
CreateUser(t) ==
  LET r == req[t] IN
  /\ pc[t] = "creating"
  /\ UNCHANGED <<users, pets, next_pet, tokens>>
  /\ \/ /\ r.refused = "user"
        /\ Answer(t, "constraint_500")
        /\ UNCHANGED next_user
     \/ /\ r.refused # "user"
        /\ WaitsFor(t) = {}
        /\ EmailTaken(r.email, 0) \/ AuthUidTaken(r.email)
        /\ Answer(t, "409")
        /\ UNCHANGED next_user
     \/ /\ r.refused # "user"
        /\ WaitsFor(t) = {}
        /\ ~EmailTaken(r.email, 0) /\ ~AuthUidTaken(r.email)
        /\ Step(t, "created")
        /\ row' = [row EXCEPT ![t].user = next_user]
        /\ next_user' = next_user + 1
        /\ UNCHANGED req

(* create_pet.                                                             *)
CreatePet(t) ==
  /\ pc[t] = "created"
  /\ UNCHANGED <<users, pets, next_user, tokens>>
  /\ \/ /\ req[t].refused = "pet"
        /\ Answer(t, "constraint_500")
        /\ UNCHANGED next_pet
     \/ /\ req[t].refused # "pet"
        /\ Step(t, "pet_created")
        /\ row' = [row EXCEPT ![t].pet = next_pet]
        /\ next_pet' = next_pet + 1
        /\ UNCHANGED req

NewUser(r) == [auth_uid |-> r.email, email |-> r.email, name |-> r.name, withdrawn |-> FALSE]

NewPet(u, r) ==
  [user |-> u, name |-> r.pet_name, survey |-> r.survey, allergies |-> r.allergies]

(* The COMMIT, which also flushes the allergies and the survey.            *)
CommitRegister(t) ==
  /\ pc[t] = "pet_created"
  /\ users' = [users EXCEPT ![row[t].user] = NewUser(req[t])]
  /\ pets' = [pets EXCEPT ![row[t].pet] = NewPet(row[t].user, req[t])]
  /\ Commit(t, "registered")
  /\ UNCHANGED <<next_user, next_pet, tokens, req, row>>

(* signup issues a token, create_customer reads the new member's detail.   *)
AnswerRegister(t) ==
  /\ pc[t] = "registered"
  /\ tokens' \in {tokens, tokens \cup {row[t].user}}
  /\ Answer(t, "201")
  /\ UNCHANGED <<users, pets, next_user, next_pet>>

-----------------------------------------------------------------------------
(* update_customer, up to the transaction.                                 *)
BeginUpdate(t, c) ==
  /\ pc[t] = "idle"
  /\ UNCHANGED db
  /\ \/ /\ Empty(c) \/ (TouchesPet(c) /\ c.pet = Keep)
        /\ Answer(t, "400")
     \/ /\ ~Empty(c)
        /\ TouchesPet(c) => c.pet # Keep
        /\ Step(t, "updating")
        /\ req' = [req EXCEPT ![t] = c]
        /\ row' = [row EXCEPT ![t].user = c.user]

AdminPatch(t, c) == BeginUpdate(t, c)

(* PATCH /me/profile: the member is the token's, a new e-mail is ignored.  *)
OwnPatch(t, c) ==
  /\ c.user \in tokens
  /\ BeginUpdate(t, [c EXCEPT !.email = Keep])

(* update_user, as far as the row: it always writes updated_at.            *)
UpdateUser(t) ==
  /\ pc[t] = "updating"
  /\ UNCHANGED db
  /\ \/ /\ ~Exists(req[t].user)
        /\ Answer(t, "404")
     \/ /\ Exists(req[t].user)
        /\ req[t].refused = "user"
        /\ Answer(t, "400")
     \/ /\ Exists(req[t].user)
        /\ req[t].refused # "user"
        /\ WaitsFor(t) = {}
        /\ Step(t, "user_updated")
        /\ UNCHANGED <<req, row>>

(* Mutant: an address that is taken is tried again.                        *)
RetriesForEver(t) ==
  /\ pc[t] = "user_updated"
  /\ WaitsFor(t) = {}
  /\ IF req[t].email # Keep /\ EmailTaken(req[t].email, req[t].user)
     THEN Step(t, "updating")
     ELSE Step(t, "email_indexed")
  /\ UNCHANGED <<db, req, row>>

(* update_user, the unique index of the e-mail address.                    *)
IndexEmail(t) ==
  /\ pc[t] = "user_updated"
  /\ WaitsFor(t) = {}
  /\ UNCHANGED db
  /\ \/ /\ req[t].email # Keep
        /\ EmailTaken(req[t].email, req[t].user)
        /\ Answer(t, "409")
     \/ /\ req[t].email # Keep => ~EmailTaken(req[t].email, req[t].user)
        /\ Step(t, "email_indexed")
        /\ UNCHANGED <<req, row>>

(* Mutant: update_pet filters by pet_id alone.                             *)
UpdatesAnyPet(t) ==
  /\ pc[t] = "email_indexed"
  /\ TouchesPet(req[t])
  /\ pets[req[t].pet] # NoRow
  /\ WaitsFor(t) = {}
  /\ Step(t, "pet_updated")
  /\ UNCHANGED <<db, req, row>>

(* update_pet: only a pet of this member, locked until the COMMIT.         *)
UpdatePet(t) ==
  LET p == req[t].pet
      own == pets[p] # NoRow /\ pets[p].user = req[t].user
  IN  /\ pc[t] = "email_indexed"
      /\ TouchesPet(req[t])
      /\ UNCHANGED db
      /\ \/ /\ ~own
            /\ Answer(t, "404")
         \/ /\ own
            /\ req[t].refused = "pet"
            /\ Answer(t, "400")
         \/ /\ own
            /\ req[t].refused # "pet"
            /\ WaitsFor(t) = {}
            /\ Step(t, "pet_updated")
            /\ UNCHANGED <<req, row>>

(* replace_pet_allergies, the DELETE of the rows that are committed now.   *)
DeleteAllergies(t) ==
  /\ pc[t] = "pet_updated"
  /\ Step(t, "details_read")
  /\ row' = [row EXCEPT ![t].deleted =
       IF req[t].allergies = Keep THEN {} ELSE pets[req[t].pet].allergies]
  /\ UNCHANGED <<db, req>>

(* Mutant: the columns that the body leaves out are written as well.       *)
WritesEveryColumn(old, c) == [old EXCEPT !.email = c.email, !.name = c.name]

ChangedUser(old, c) ==
  [old EXCEPT !.email = Given(c.email, @), !.name = Given(c.name, @)]

ChangedPet(old, c, deleted) ==
  [old EXCEPT !.name = Given(c.pet_name, @), !.survey = Given(c.survey, @),
              !.allergies = (@ \ deleted) \cup (IF c.allergies = Keep THEN {} ELSE c.allergies)]

(* The COMMIT, which also flushes the survey and the new allergies.        *)
CommitUpdate(t) ==
  LET change == req[t] IN
  /\ \/ pc[t] = "details_read"
     \/ pc[t] = "email_indexed" /\ ~TouchesPet(change)
  /\ users' = [users EXCEPT ![change.user] = ChangedUser(@, change)]
  /\ pets' = IF TouchesPet(change)
             THEN [pets EXCEPT ![change.pet] = ChangedPet(@, change, row[t].deleted)]
             ELSE pets
  /\ Commit(t, "updated")
  /\ UNCHANGED <<next_user, next_pet, tokens, req, row>>

(* customer_detail reads the member back.                                  *)
AnswerUpdate(t) ==
  /\ pc[t] = "updated"
  /\ Answer(t, "200")
  /\ UNCHANGED db

-----------------------------------------------------------------------------
BeginWithdraw(t, u) ==
  /\ pc[t] = "idle"
  /\ Step(t, "withdrawing")
  /\ row' = [row EXCEPT ![t].user = u]
  /\ UNCHANGED <<db, req>>

(* withdraw_user: one UPDATE; a member already withdrawn is zero rows.     *)
WithdrawUser(t) ==
  LET u == row[t].user
      current == Exists(u) /\ ~users[u].withdrawn
  IN  /\ pc[t] = "withdrawing"
      /\ UNCHANGED db
      /\ \/ /\ ~current
            /\ Answer(t, "404")
         \/ /\ current
            /\ WaitsFor(t) = {}
            /\ Step(t, "withdrawn")
            /\ UNCHANGED <<req, row>>

CommitWithdraw(t) ==
  /\ pc[t] = "withdrawn"
  /\ users' = [users EXCEPT ![row[t].user].withdrawn = TRUE]
  /\ Answer(t, "204")
  /\ UNCHANGED <<pets, next_user, next_pet, tokens>>

(* login reads the row; bcrypt then compares the password it read.         *)
BeginLogin(t, email) ==
  /\ pc[t] = "idle"
  /\ UNCHANGED db
  /\ \/ /\ \A u \in UserIds : Exists(u) /\ users[u].email = email => users[u].withdrawn
        /\ Answer(t, "401")
     \/ \E u \in UserIds :
          /\ Exists(u) /\ users[u].email = email /\ ~users[u].withdrawn
          /\ Step(t, "comparing")
          /\ row' = [row EXCEPT ![t].user = u]
          /\ UNCHANGED req

AnswerLogin(t) ==
  /\ pc[t] = "comparing"
  /\ UNCHANGED <<users, pets, next_user, next_pet>>
  /\ \/ /\ tokens' = tokens \cup {row[t].user}
        /\ Answer(t, "200")
     \/ /\ UNCHANGED tokens
        /\ Answer(t, "401")

-----------------------------------------------------------------------------
(* A statement, a commit or a read-back fails; the session is closed.      *)
Fail(t) ==
  /\ pc[t] # "idle"
  /\ Answer(t, "500")
  /\ UNCHANGED db

(* The deadlock detector of the database ends one of a set of transactions *)
(* that wait for each other; transaction() rolls back and re-raises.       *)
DeadlockVictim(t) ==
  /\ \E S \in SUBSET Threads : t \in S /\ \A s \in S : WaitsFor(s) \cap S # {}
  /\ Answer(t, "500")
  /\ UNCHANGED db

Crash ==
  /\ pc' = [t \in Threads |-> "idle"]
  /\ req' = [t \in Threads |-> Nothing]
  /\ row' = [t \in Threads |-> NoRowYet]
  /\ applied' = Nothing
  /\ answer' = "none"
  /\ UNCHANGED db

Begin(t) ==
  \/ \E r \in Registrations : BeginRegister(t, r)
  \/ \E c \in Changes : AdminPatch(t, c) \/ OwnPatch(t, c)
  \/ \E u \in Leavers : BeginWithdraw(t, u)
  \/ \E email \in Visitors : BeginLogin(t, email)

(* The statements that may wait for another transaction.                   *)
Waiting(t) ==
  \/ CreateUser(t)
  \/ UpdateUser(t)
  \/ IndexEmail(t)
  \/ UpdatePet(t)
  \/ WithdrawUser(t)

Proceed(t) ==
  \/ CreatePet(t)
  \/ CommitRegister(t)
  \/ AnswerRegister(t)
  \/ DeleteAllergies(t)
  \/ CommitUpdate(t)
  \/ AnswerUpdate(t)
  \/ CommitWithdraw(t)
  \/ AnswerLogin(t)

Next ==
  \/ \E t \in Threads :
       Begin(t) \/ Waiting(t) \/ Proceed(t) \/ Fail(t) \/ DeadlockVictim(t)
  \/ Crash

Spec == Init /\ [][Next]_vars

(* A thread is not paused for ever, the database hands locks on to those   *)
(* who wait, and its deadlock detector runs.                               *)
Fairness ==
  \A t \in Threads :
    /\ WF_vars(Proceed(t))
    /\ SF_vars(Waiting(t))
    /\ WF_vars(DeadlockVictim(t))

FairSpec == Spec /\ Fairness

-----------------------------------------------------------------------------
(* The rows and the requests in progress have the shape the schema and the *)
(* request bodies give them.                                               *)
TypeOK ==
  /\ users \in [UserIds -> UserRow \cup {NoRow}]
  /\ pets \in [PetIds -> PetRow \cup {NoRow}]
  /\ next_user \in Nat \ {0} /\ next_pet \in Nat \ {0}
  /\ tokens \subseteq UserIds
  /\ pc \in [Threads -> {"idle", "withdrawing", "withdrawn", "comparing"}
                          \cup Registering \cup Changing]
  /\ req \in [Threads -> Registrations \cup Changes \cup {Nothing}]
  /\ \A t \in Threads : /\ pc[t] \in Registering => req[t] \in Registrations
                        /\ pc[t] \in Changing => req[t] \in Changes
  /\ row \in [Threads -> RowInHand]
  /\ applied \in Registrations \cup Changes \cup {Nothing}
  /\ answer \in Status

(* auth.py leaves duplicate e-mails to the unique constraints instead of   *)
(* looking first: sign-ups of one address that race each other, and the    *)
(* administrator's changes of address, never leave two accounts that one   *)
(* login could mean.                                                       *)
UniqueLogins ==
  \A u, w \in UserIds :
    Exists(u) /\ Exists(w) /\ u # w =>
      users[u].email # users[w].email /\ users[u].auth_uid # users[w].auth_uid

(* What keeps UniqueLogins.  A request works on the row that it asks for,   *)
(* which is there and, where it is to be withdrawn or its pet is to be     *)
(* changed, still as the request has found it.                             *)
RowsAsFound ==
  \A t \in Threads :
    /\ pc[t] \in Changing \cup {"withdrawing", "withdrawn", "comparing", "registered"}
         => row[t].user \in UserIds
    /\ pc[t] \in Changing =>
         row[t].user = req[t].user /\ (TouchesPet(req[t]) => req[t].pet # Keep)
    /\ pc[t] \in Holding \cup {"withdrawn"} => Exists(row[t].user)
    /\ pc[t] = "withdrawn" => ~users[row[t].user].withdrawn
    /\ pc[t] \in {"pet_updated", "details_read"} =>
         /\ TouchesPet(req[t])
         /\ pets[req[t].pet] # NoRow /\ pets[req[t].pet].user = req[t].user
    /\ pc[t] = "details_read" =>
         row[t].deleted = IF req[t].allergies = Keep THEN {} ELSE pets[req[t].pet].allergies

(* No two transactions hold a row of user, or of pet.                      *)
RowsLocked ==
  \A s, t \in Threads : s # t =>
    /\ \A u \in UserIds : ~(HoldsUser(s, u) /\ HoldsUser(t, u))
    /\ \A p \in PetIds : ~(HoldsPet(s, p) /\ HoldsPet(t, p))

(* The ids that a sequence has handed out are of one row or one request.   *)
IdsAreFresh ==
  /\ \A u \in UserIds : u >= next_user => ~Exists(u)
  /\ \A p \in PetIds : p >= next_pet => pets[p] = NoRow
  /\ \A t \in Threads : pc[t] \in {"created", "pet_created"} =>
       /\ row[t].user \in UserIds /\ row[t].user < next_user /\ ~Exists(row[t].user)
       /\ \A s \in Threads :
            pc[s] \in {"created", "pet_created"} /\ row[s].user = row[t].user => s = t
  /\ \A t \in Threads : pc[t] = "pet_created" =>
       /\ row[t].pet \in PetIds /\ row[t].pet < next_pet /\ pets[row[t].pet] = NoRow
       /\ \A s \in Threads : pc[s] = "pet_created" /\ row[s].pet = row[t].pet => s = t

(* The bounds leave an id for every registration in progress.              *)
IdsSuffice ==
  /\ next_user + Cardinality({t \in Threads : pc[t] = "creating"}) <= MaxUserId + 1
  /\ next_pet + Cardinality({t \in Threads : pc[t] \in {"creating", "created"}}) <= MaxPetId + 1

(* t has passed the unique index with this address and not committed yet.  *)
Claims(t, email) ==
  /\ pc[t] \in {"created", "pet_created", "email_indexed", "pet_updated", "details_read"}
  /\ req[t].email = email

(* An address that has passed the index is nobody else's until the COMMIT. *)
KeysClaimed ==
  \A t \in Threads, email \in Emails : Claims(t, email) =>
    /\ \A s \in Threads : Claims(s, email) => s = t
    /\ ~EmailTaken(email, IF pc[t] \in Registering THEN 0 ELSE req[t].user)
    /\ pc[t] \in Registering => ~AuthUidTaken(email)

IInv ==
  /\ TypeOK
  /\ UniqueLogins
  /\ RowsAsFound
  /\ RowsLocked
  /\ IdsAreFresh
  /\ IdsSuffice
  /\ KeysClaimed

(* update_user, update_pet and the unique index make requests wait for     *)
(* each other, even in a circle (two members given each other's address):  *)
(* every request is answered all the same.                                 *)
RequestsAreAnswered ==
  \A t \in Threads : pc[t] # "idle" ~> pc[t] = "idle"

Reg == INSTANCE Registry

(* The statements and transactions implement Registry: an account appears  *)
(* whole ("반쪽 계정이 남지 않는다"), a change enters all of its columns or     *)
(* none, a new allergy list replaces the old one and never mixes with      *)
(* another request's.                                                      *)
ImplementsRegistry == Reg!Spec
=============================================================================
