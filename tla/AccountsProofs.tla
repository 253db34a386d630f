--------------------------- MODULE AccountsProofs ---------------------------
(***************************************************************************)
(* Accounts, for every set of threads, addresses, requests and rows: one   *)
(* inductive invariant, the uniqueness of logins, and the refinement of    *)
(* Registry.                                                               *)
(***************************************************************************)
EXTENDS Accounts, FiniteSetTheorems, TLAPS

(* Only thread t moves.                                                    *)
OthersWait(t) ==
  \A s \in Threads : s # t => pc'[s] = pc[s] /\ req'[s] = req[s] /\ row'[s] = row[s]

Places == {"idle", "withdrawing", "withdrawn", "comparing"} \cup Registering \cup Changing

(* What a registration in progress carries.                                *)
LEMMA RegistrationTypes ==
  ASSUME TypeOK, NEW t \in Threads, pc[t] \in Registering
  PROVE  /\ req[t] \in Registration
         /\ req[t].email \in Emails /\ req[t].name \in Names /\ req[t].pet_name \in Names
         /\ req[t].survey \in Notes /\ req[t].allergies \in SUBSET Allergens
<1>1. req[t] \in Registration
  BY AccountsConstantsOK DEF TypeOK
<1> QED BY <1>1 DEF Registration

(* What a change in progress carries.                                      *)
LEMMA ChangeTypes ==
  ASSUME TypeOK, NEW t \in Threads, pc[t] \in Changing
  PROVE  /\ req[t] \in Change
         /\ req[t].user \in UserIds /\ req[t].email \in Emails \cup {Keep}
         /\ req[t].name \in Names \cup {Keep} /\ req[t].pet \in PetIds \cup {Keep}
         /\ req[t].pet_name \in Names \cup {Keep} /\ req[t].survey \in Notes \cup {Keep}
         /\ req[t].allergies \in {Keep} \cup SUBSET Allergens
<1>1. req[t] \in Change
  BY AccountsConstantsOK DEF TypeOK
<1> QED BY <1>1 DEF Change

(* The threads at some places are finitely many.                           *)
LEMMA CountIsNat ==
  ASSUME NEW places
  PROVE  /\ IsFiniteSet({t \in Threads : pc[t] \in places})
         /\ Cardinality({t \in Threads : pc[t] \in places}) \in Nat
BY AccountsConstantsOK, FS_Subset, FS_CardinalityType

(* A thread that leaves some places is one less there.                     *)
LEMMA OneLess ==
  ASSUME NEW S \in SUBSET Threads, NEW T \in SUBSET Threads, NEW t \in S, T \subseteq S \ {t}
  PROVE  /\ Cardinality(S) \in Nat /\ Cardinality(T) \in Nat
         /\ Cardinality(T) + 1 <= Cardinality(S)
<1>1. IsFiniteSet(S) /\ IsFiniteSet(T)
  BY AccountsConstantsOK, FS_Subset
<1>2. Cardinality(S \ {t}) = Cardinality(S) - 1 /\ IsFiniteSet(S \ {t})
  BY <1>1, FS_RemoveElement
<1>3. Cardinality(T) <= Cardinality(S \ {t})
  BY <1>2, FS_Subset
<1> QED BY <1>1, <1>2, <1>3, FS_CardinalityType

(* A thread that comes to some places is at most one more there.           *)
LEMMA OneMore ==
  ASSUME NEW S \in SUBSET Threads, NEW T \in SUBSET Threads, NEW t \in Threads, T \subseteq S \cup {t}
  PROVE  /\ Cardinality(S) \in Nat /\ Cardinality(T) \in Nat
         /\ Cardinality(T) <= Cardinality(S) + 1
<1>1. IsFiniteSet(S) /\ IsFiniteSet(T)
  BY AccountsConstantsOK, FS_Subset
<1>2. Cardinality(S) \in Nat /\ Cardinality(T) \in Nat
  BY <1>1, FS_CardinalityType
<1>3. IsFiniteSet(S \cup {t}) /\ Cardinality(S \cup {t}) <= Cardinality(S) + 1
  <2>1. /\ IsFiniteSet(S \cup {t})
        /\ Cardinality(S \cup {t}) = IF t \in S THEN Cardinality(S) ELSE Cardinality(S) + 1
    BY <1>1, FS_AddElement
  <2> QED BY <1>2, <2>1
<1>4. Cardinality(T) <= Cardinality(S \cup {t}) /\ Cardinality(S \cup {t}) \in Nat
  BY <1>3, FS_Subset, FS_CardinalityType
<1> QED BY <1>2, <1>3, <1>4

(* As many threads or fewer are at a subset of the places.                 *)
LEMMA NoMore ==
  ASSUME NEW S \in SUBSET Threads, NEW T \in SUBSET S
  PROVE  /\ Cardinality(S) \in Nat /\ Cardinality(T) \in Nat
         /\ Cardinality(T) <= Cardinality(S)
<1>1. IsFiniteSet(S) /\ IsFiniteSet(T)
  BY AccountsConstantsOK, FS_Subset
<1> QED BY <1>1, FS_CardinalityType, FS_Subset

(* Nobody holds what the next statement of t needs.                        *)
LEMMA NothingToWaitFor ==
  ASSUME NEW t \in Threads, WaitsFor(t) = {}, NEW s \in Threads, s # t
  PROVE  /\ pc[t] \in {"updating", "withdrawing"} => ~HoldsUser(s, row[t].user)
         /\ pc[t] = "user_updated" /\ req[t].email # Keep => ~HoldsEmail(s, req[t].email)
         /\ pc[t] = "email_indexed" /\ TouchesPet(req[t]) => ~HoldsPet(s, req[t].pet)
         /\ pc[t] = "creating" => ~HoldsEmail(s, req[t].email)
<1> DEFINE waits ==
      CASE pc[t] \in {"updating", "withdrawing"} -> HoldsUser(s, row[t].user)
        [] pc[t] = "user_updated" -> req[t].email # Keep /\ HoldsEmail(s, req[t].email)
        [] pc[t] = "email_indexed" -> TouchesPet(req[t]) /\ HoldsPet(s, req[t].pet)
        [] pc[t] = "creating" ->
             HoldsEmail(s, req[t].email) \/ HoldsAuthUid(s, req[t].email)
        [] OTHER -> FALSE
<1>1. ~waits
  BY DEF WaitsFor
<1> QED BY <1>1

(* The rows that are there at first have the ids below the sequences, and  *)
(* nobody asks for anything.                                               *)
LEMMA InitIInv == Init => IInv
<1> SUFFICES ASSUME Init PROVE IInv
  OBVIOUS
<1> USE AccountsConstantsOK DEF Init
<1>1. /\ IsFiniteSet(UserIds) /\ Cardinality(UserIds) = MaxUserId
      /\ IsFiniteSet(PetIds) /\ Cardinality(PetIds) = MaxPetId
  BY FS_Interval DEF UserIds, PetIds
<1> DEFINE members == {u \in UserIds : InitialUsers[u] # NoRow}
           owned == {p \in PetIds : InitialPets[p] # NoRow}
<1>2. /\ Cardinality(members) \in Nat /\ Cardinality(members) <= MaxUserId
      /\ Cardinality(owned) \in Nat /\ Cardinality(owned) <= MaxPetId
  <2>1. IsFiniteSet(members) /\ IsFiniteSet(owned)
    BY <1>1, FS_Subset
  <2> QED BY <1>1, <2>1, FS_Subset, FS_CardinalityType
<1>3. /\ \A u \in UserIds : u >= Cardinality(members) + 1 => InitialUsers[u] = NoRow
      /\ \A p \in PetIds : p >= Cardinality(owned) + 1 => InitialPets[p] = NoRow
  <2>1. /\ \A u \in UserIds : InitialUsers[u] # NoRow <=> u <= Cardinality(members)
        /\ \A p \in PetIds : InitialPets[p] # NoRow <=> p <= Cardinality(owned)
    BY DEF Numbered
  <2> HIDE DEF members, owned
  <2> QED BY <1>2, <2>1 DEF UserIds, PetIds
<1>4. TypeOK
  BY <1>2 DEF TypeOK, Registering, Changing, Status, NoRowYet, RowInHand
<1>5. UniqueLogins
  BY DEF UniqueLogins, Exists
<1>6. RowsAsFound /\ RowsLocked /\ KeysClaimed
  BY DEF RowsAsFound, RowsLocked, KeysClaimed, HoldsUser, HoldsPet, Claims, Holding, Changing
<1>7. IdsAreFresh
  BY <1>3 DEF IdsAreFresh, Exists
<1>8. IdsSuffice
  <2>1. /\ {t \in Threads : pc[t] = "creating"} = {}
        /\ {t \in Threads : pc[t] \in {"creating", "created"}} = {}
    OBVIOUS
  <2>2. /\ next_user + 0 <= MaxUserId + 1 /\ next_pet + 0 <= MaxPetId + 1
    BY <1>2
  <2> QED BY <2>1, <2>2, FS_EmptySet DEF IdsSuffice
<1> QED BY <1>4, <1>5, <1>6, <1>7, <1>8 DEF IInv

(* A thread that is in no transaction any more holds nothing: whatever the *)
(* answer, what the others rely on is as it was.                           *)
LEMMA AnswerKeepsIInv ==
  ASSUME IInv, NEW t \in Threads, NEW status \in Status, Answer(t, status),
         UNCHANGED <<users, pets, next_user, next_pet>>, tokens' \subseteq UserIds
  PROVE  IInv'
<1> USE DEF IInv
<1>1. /\ pc'[t] = "idle" /\ OthersWait(t)
      /\ pc' \in [Threads -> Places]
  BY DEF Answer, TypeOK, OthersWait, Places
<1>2. TypeOK'
  <2>1. req' \in [Threads -> Registrations \cup Changes \cup {Nothing}]
    BY DEF Answer, TypeOK
  <2>2. row' \in [Threads -> RowInHand]
    BY DEF Answer, TypeOK, NoRowYet, RowInHand
  <2>3. \A s \in Threads : /\ pc'[s] \in Registering => req'[s] \in Registrations
                           /\ pc'[s] \in Changing => req'[s] \in Changes
    BY <1>1 DEF TypeOK, OthersWait, Registering, Changing
  <2> QED BY <1>1, <2>1, <2>2, <2>3 DEF TypeOK, Places, Answer
<1>3. UniqueLogins'
  BY DEF UniqueLogins, Exists
<1>4. RowsAsFound'
  BY <1>1 DEF RowsAsFound, OthersWait, Exists, Holding, Changing
<1>5. RowsLocked'
  BY <1>1 DEF RowsLocked, OthersWait, HoldsUser, HoldsPet, Holding
<1>6. IdsAreFresh'
  BY <1>1 DEF IdsAreFresh, OthersWait, Exists
<1>7. IdsSuffice'
  <2> DEFINE waiting == {s \in Threads : pc[s] = "creating"}
             unborn == {s \in Threads : pc[s] \in {"creating", "created"}}
  <2>1. waiting' \subseteq waiting /\ unborn' \subseteq unborn
    BY <1>1 DEF OthersWait
  <2>2. /\ Cardinality(waiting') <= Cardinality(waiting)
        /\ Cardinality(unborn') <= Cardinality(unborn)
        /\ Cardinality(waiting) \in Nat /\ Cardinality(waiting') \in Nat
        /\ Cardinality(unborn) \in Nat /\ Cardinality(unborn') \in Nat
    BY <2>1, NoMore
  <2>3. /\ next_user + Cardinality(waiting) <= MaxUserId + 1
        /\ next_pet + Cardinality(unborn) <= MaxPetId + 1
    BY DEF IdsSuffice
  <2>4. /\ next_user' + Cardinality(waiting') <= MaxUserId + 1
        /\ next_pet' + Cardinality(unborn') <= MaxPetId + 1
    <3> HIDE DEF waiting, unborn
    <3> QED BY <2>2, <2>3, AccountsConstantsOK DEF TypeOK
  <2> QED BY <2>4 DEF IdsSuffice
<1>8. KeysClaimed'
  BY <1>1 DEF KeysClaimed, OthersWait, Claims, EmailTaken, AuthUidTaken, Exists
<1> QED BY <1>2, <1>3, <1>4, <1>5, <1>6, <1>7, <1>8

(* Unless a registration begins or goes on, ids and rows are as they were. *)
LEMMA IdsStayFresh ==
  ASSUME IInv, NEW t \in Threads, OthersWait(t), UNCHANGED db,
         pc'[t] \notin {"creating", "created", "pet_created"}
  PROVE  UniqueLogins' /\ IdsAreFresh' /\ IdsSuffice'
<1> USE DEF IInv, db
<1>1. UniqueLogins'
  BY DEF UniqueLogins, Exists
<1>2. IdsAreFresh'
  BY DEF IdsAreFresh, OthersWait, Exists
<1>3. IdsSuffice'
  <2> DEFINE waiting == {s \in Threads : pc[s] = "creating"}
             unborn == {s \in Threads : pc[s] \in {"creating", "created"}}
  <2>1. waiting' \subseteq waiting /\ unborn' \subseteq unborn
    BY DEF OthersWait
  <2>2. /\ Cardinality(waiting') <= Cardinality(waiting)
        /\ Cardinality(unborn') <= Cardinality(unborn)
        /\ Cardinality(waiting) \in Nat /\ Cardinality(waiting') \in Nat
        /\ Cardinality(unborn) \in Nat /\ Cardinality(unborn') \in Nat
    BY <2>1, NoMore
  <2>3. /\ next_user + Cardinality(waiting) <= MaxUserId + 1
        /\ next_pet + Cardinality(unborn) <= MaxPetId + 1
    BY DEF IdsSuffice
  <2>4. /\ next_user' + Cardinality(waiting') <= MaxUserId + 1
        /\ next_pet' + Cardinality(unborn') <= MaxPetId + 1
    <3> HIDE DEF waiting, unborn
    <3> QED BY <2>2, <2>3, AccountsConstantsOK DEF TypeOK
  <2> QED BY <2>4 DEF IdsSuffice
<1> QED BY <1>1, <1>2, <1>3

(* register: the bounds leave an id for one registration more.             *)
LEMMA BeginRegisterKeepsIInv ==
  ASSUME IInv, NEW t \in Threads, NEW r \in Registrations, BeginRegister(t, r)
  PROVE  IInv'
<1> USE DEF IInv
<1>1. CASE Answer(t, "400")
  <2>1. "400" \in Status /\ UNCHANGED db /\ tokens' \subseteq UserIds
    BY DEF Status, BeginRegister, db, TypeOK
  <2> QED BY <1>1, <2>1, AnswerKeepsIInv DEF db
<1>2. CASE ~Answer(t, "400")
  <2>1. /\ pc[t] = "idle" /\ UNCHANGED db /\ RoomForAccount
        /\ pc' = [pc EXCEPT ![t] = "creating"]
        /\ req' = [req EXCEPT ![t] = r] /\ row' = row
        /\ applied' = Nothing /\ answer' = "none"
    BY <1>2 DEF BeginRegister, Step
  <2>2. pc'[t] = "creating" /\ req'[t] = r /\ OthersWait(t) /\ pc' \in [Threads -> Places]
    BY <2>1 DEF TypeOK, OthersWait, Places, Registering
  <2>3. TypeOK'
    <3>1. req' \in [Threads -> Registrations \cup Changes \cup {Nothing}]
      BY <2>1 DEF TypeOK
    <3>2. \A s \in Threads : /\ pc'[s] \in Registering => req'[s] \in Registrations
                             /\ pc'[s] \in Changing => req'[s] \in Changes
      BY <2>2 DEF TypeOK, OthersWait, Registering, Changing
    <3> QED BY <2>1, <2>2, <3>1, <3>2 DEF TypeOK, Places, db, Status
  <2>4. UniqueLogins' /\ IdsAreFresh'
    BY <2>1, <2>2 DEF UniqueLogins, IdsAreFresh, OthersWait, Exists, db
  <2>5. IdsSuffice'
    <3> DEFINE waiting == {s \in Threads : pc[s] = "creating"}
               unborn == {s \in Threads : pc[s] \in {"creating", "created"}}
    <3>1. waiting' \subseteq waiting \cup {t} /\ unborn' \subseteq unborn \cup {t}
      BY <2>2 DEF OthersWait
    <3>2. /\ Cardinality(waiting') <= Cardinality(waiting) + 1
          /\ Cardinality(unborn') <= Cardinality(unborn) + 1
          /\ Cardinality(waiting) \in Nat /\ Cardinality(waiting') \in Nat
          /\ Cardinality(unborn) \in Nat /\ Cardinality(unborn') \in Nat
      BY <3>1, OneMore
    <3>3. /\ waiting = {s \in Threads : pc[s] \in {"creating"}}
          /\ next_user + Cardinality(waiting) <= MaxUserId
          /\ next_pet + Cardinality(unborn) <= MaxPetId
      BY <2>1 DEF RoomForAccount
    <3>4. /\ next_user' + Cardinality(waiting') <= MaxUserId + 1
          /\ next_pet' + Cardinality(unborn') <= MaxPetId + 1
      <4> HIDE DEF waiting, unborn
      <4> QED BY <2>1, <3>2, <3>3, AccountsConstantsOK DEF TypeOK, db
    <3> QED BY <3>4 DEF IdsSuffice
  <2>6. RowsAsFound' /\ RowsLocked'
    BY <2>1, <2>2 DEF RowsAsFound, RowsLocked, HoldsUser, HoldsPet, OthersWait, Exists,
                      Holding, Changing, db
  <2>7. KeysClaimed'
    BY <2>1, <2>2 DEF KeysClaimed, OthersWait, Claims, EmailTaken, AuthUidTaken, Exists, db
  <2> QED BY <2>3, <2>4, <2>5, <2>6, <2>7
<1> QED BY <1>1, <1>2

(* update_customer, before its transaction, for a change that is made.     *)
LEMMA BeginUpdateKeepsIInv ==
  ASSUME IInv, NEW t \in Threads, NEW c \in Changes, BeginUpdate(t, c)
  PROVE  IInv'
<1> USE DEF IInv
<1>1. CASE Answer(t, "400")
  <2>1. "400" \in Status /\ UNCHANGED db /\ tokens' \subseteq UserIds
    BY DEF Status, BeginUpdate, db, TypeOK
  <2> QED BY <1>1, <2>1, AnswerKeepsIInv DEF db
<1>2. CASE ~Answer(t, "400")
  <2>1. /\ pc[t] = "idle" /\ UNCHANGED db /\ (TouchesPet(c) => c.pet # Keep)
        /\ pc' = [pc EXCEPT ![t] = "updating"]
        /\ req' = [req EXCEPT ![t] = c]
        /\ row' = [row EXCEPT ![t].user = c.user]
        /\ applied' = Nothing /\ answer' = "none"
    BY <1>2 DEF BeginUpdate, Step
  <2>2. c.user \in UserIds
    BY AccountsConstantsOK DEF Change
  <2>3. /\ pc'[t] = "updating" /\ req'[t] = c /\ row'[t].user = c.user
        /\ OthersWait(t) /\ pc' \in [Threads -> Places]
        /\ row' \in [Threads -> RowInHand]
    BY <2>1, <2>2 DEF TypeOK, OthersWait, Places, Changing, RowInHand
  <2>4. TypeOK'
    <3>1. req' \in [Threads -> Registrations \cup Changes \cup {Nothing}]
      BY <2>1 DEF TypeOK
    <3>2. \A s \in Threads : /\ pc'[s] \in Registering => req'[s] \in Registrations
                             /\ pc'[s] \in Changing => req'[s] \in Changes
      BY <2>3 DEF TypeOK, OthersWait, Registering, Changing
    <3> QED BY <2>1, <2>3, <3>1, <3>2 DEF TypeOK, Places, db, Status
  <2>5. UniqueLogins' /\ IdsAreFresh' /\ IdsSuffice'
    BY <2>1, <2>3, IdsStayFresh
  <2>6. RowsAsFound' /\ RowsLocked'
    BY <2>1, <2>2, <2>3 DEF RowsAsFound, RowsLocked, HoldsUser, HoldsPet, OthersWait, Exists,
                            Holding, Changing, TouchesPet, db
  <2>7. KeysClaimed'
    BY <2>1, <2>3 DEF KeysClaimed, OthersWait, Claims, EmailTaken, AuthUidTaken, Exists, db
  <2> QED BY <2>4, <2>5, <2>6, <2>7
<1> QED BY <1>1, <1>2

(* An administrator names a member, or login has found one: nothing is     *)
(* locked yet.                                                             *)
LEMMA NamingKeepsIInv ==
  ASSUME IInv, NEW t \in Threads, NEW u \in UserIds, NEW to \in {"withdrawing", "comparing"},
         pc[t] = "idle", Step(t, to), row' = [row EXCEPT ![t].user = u],
         UNCHANGED <<db, req>>
  PROVE  IInv'
<1> USE DEF IInv
<1>1. /\ pc'[t] = to /\ row'[t].user = u /\ OthersWait(t)
      /\ pc' \in [Threads -> Places] /\ row' \in [Threads -> RowInHand]
  BY DEF Step, TypeOK, OthersWait, Places, RowInHand
<1>2. TypeOK'
  <2>1. \A s \in Threads : /\ pc'[s] \in Registering => req'[s] \in Registrations
                           /\ pc'[s] \in Changing => req'[s] \in Changes
    BY <1>1 DEF TypeOK, OthersWait, Registering, Changing
  <2> QED BY <1>1, <2>1 DEF TypeOK, Places, Step, Status, db
<1>3. UniqueLogins' /\ IdsAreFresh' /\ IdsSuffice'
  BY <1>1, IdsStayFresh
<1>4. RowsAsFound' /\ RowsLocked'
  BY <1>1 DEF RowsAsFound, RowsLocked, HoldsUser, HoldsPet, OthersWait, Exists,
              Holding, Changing, db
<1>5. KeysClaimed'
  BY <1>1 DEF KeysClaimed, OthersWait, Claims, EmailTaken, AuthUidTaken, Exists, db
<1> QED BY <1>2, <1>3, <1>4, <1>5

LEMMA BeginLoginKeepsIInv ==
  ASSUME IInv, NEW t \in Threads, NEW email, BeginLogin(t, email)
  PROVE  IInv'
<1>1. CASE Answer(t, "401")
  <2>1. "401" \in Status /\ UNCHANGED db /\ tokens' \subseteq UserIds
    BY DEF Status, BeginLogin, db, IInv, TypeOK
  <2> QED BY <1>1, <2>1, AnswerKeepsIInv DEF db
<1>2. CASE ~Answer(t, "401")
  BY <1>2, NamingKeepsIInv DEF BeginLogin
<1> QED BY <1>1, <1>2

(* A new member's keys are free, and no other request in progress has      *)
(* claimed them: such a one would have been waited for.                    *)
LEMMA CreateUserKeepsIInv ==
  ASSUME IInv, NEW t \in Threads, CreateUser(t)
  PROVE  IInv'
<1> USE DEF IInv
<1>1. CASE Answer(t, "409") \/ Answer(t, "constraint_500") 
  <2>1. CASE UNCHANGED next_user
    <3>1. /\ "409" \in Status /\ "constraint_500" \in Status
          /\ UNCHANGED <<users, pets, next_user, next_pet>> /\ tokens' \subseteq UserIds
      BY <2>1 DEF Status, CreateUser, TypeOK
    <3> QED BY <1>1, <3>1, AnswerKeepsIInv
  <2>2. CASE next_user' # next_user
    BY <1>1, <2>2 DEF CreateUser, Answer, Step
  <2> QED BY <2>1, <2>2
<1>2. CASE ~Answer(t, "409") /\ ~Answer(t, "constraint_500")
  <2> DEFINE email == req[t].email
  <2>1. /\ pc[t] = "creating" /\ WaitsFor(t) = {}
        /\ ~EmailTaken(email, 0) /\ ~AuthUidTaken(email)
        /\ pc' = [pc EXCEPT ![t] = "created"]
        /\ row' = [row EXCEPT ![t].user = next_user]
        /\ next_user' = next_user + 1
        /\ UNCHANGED <<users, pets, next_pet, tokens, req>>
        /\ applied' = Nothing /\ answer' = "none"
    BY <1>2 DEF CreateUser, Step
  <2>2. next_user \in UserIds
    <3> DEFINE waiting == {s \in Threads : pc[s] = "creating"}
    <3>1. t \in waiting /\ waiting \ {t} \subseteq waiting \ {t}
      BY <2>1
    <3>2. Cardinality(waiting) \in Nat /\ Cardinality(waiting) >= 1
      <4>1. Cardinality({}) = 0
        BY FS_EmptySet
      <4> QED BY <3>1, <4>1, OneLess
    <3>3. next_user + Cardinality(waiting) <= MaxUserId + 1
      BY DEF IdsSuffice
    <3>4. next_user >= 1
      BY DEF TypeOK
    <3> HIDE DEF waiting
    <3> QED BY <3>2, <3>3, <3>4, AccountsConstantsOK DEF TypeOK, UserIds
  <2>3. /\ pc'[t] = "created" /\ row'[t].user = next_user /\ row'[t].pet = row[t].pet
        /\ OthersWait(t) /\ req'[t] = req[t]
        /\ pc' \in [Threads -> Places] /\ row' \in [Threads -> RowInHand]
    BY <2>1, <2>2 DEF TypeOK, OthersWait, Places, Registering, RowInHand
  <2>4. TypeOK'
    <3>1. \A s \in Threads : /\ pc'[s] \in Registering => req'[s] \in Registrations
                             /\ pc'[s] \in Changing => req'[s] \in Changes
      BY <2>1, <2>3 DEF TypeOK, OthersWait, Registering, Changing
    <3> QED BY <2>1, <2>3, <3>1 DEF TypeOK, Places, Status
  <2>5. UniqueLogins'
    BY <2>1 DEF UniqueLogins, Exists
  <2>6. RowsAsFound' /\ RowsLocked'
    BY <2>1, <2>3 DEF RowsAsFound, RowsLocked, HoldsUser, HoldsPet, OthersWait, Exists,
                      Holding, Changing, Registering
  <2>7. IdsAreFresh'
    <3>1. next_user' = next_user + 1 /\ next_user \in Nat /\ UserIds \subseteq Nat
      BY <2>1 DEF TypeOK, UserIds
    <3>2. \A u \in UserIds : u < next_user => u < next_user' /\ u # next_user
      BY <3>1
    <3>3. \A u \in UserIds : u >= next_user' => u >= next_user
      BY <3>1
    <3>4. next_user < next_user'
      BY <3>1
    <3>5. \A u \in UserIds : u >= next_user' => users'[u] = NoRow
      BY <2>1, <3>3 DEF IdsAreFresh, Exists
    <3>6. ~Exists(next_user)
      BY <2>2, <3>1 DEF IdsAreFresh
    <3>7. \A s \in Threads : pc'[s] \in {"created", "pet_created"} =>
            /\ row'[s].user \in UserIds /\ row'[s].user < next_user' /\ users'[row'[s].user] = NoRow
            /\ \A r \in Threads :
                 pc'[r] \in {"created", "pet_created"} /\ row'[r].user = row'[s].user => r = s
      BY <2>1, <2>2, <2>3, <3>2, <3>4, <3>6 DEF IdsAreFresh, OthersWait, Exists
    <3>8. \A s \in Threads : pc'[s] = "pet_created" =>
            /\ row'[s].pet \in PetIds /\ row'[s].pet < next_pet' /\ pets'[row'[s].pet] = NoRow
            /\ \A r \in Threads : pc'[r] = "pet_created" /\ row'[r].pet = row'[s].pet => r = s
      BY <2>1, <2>3 DEF IdsAreFresh, OthersWait
    <3>9. \A p \in PetIds : p >= next_pet' => pets'[p] = NoRow
      BY <2>1 DEF IdsAreFresh
    <3> QED BY <3>5, <3>7, <3>8, <3>9 DEF IdsAreFresh, Exists
  <2>8. IdsSuffice'
    <3> DEFINE waiting == {s \in Threads : pc[s] = "creating"}
               unborn == {s \in Threads : pc[s] \in {"creating", "created"}}
    <3>1. t \in waiting /\ waiting' \subseteq waiting \ {t} /\ unborn' \subseteq unborn
      BY <2>1, <2>3 DEF OthersWait
    <3>2. /\ Cardinality(waiting) \in Nat /\ Cardinality(waiting') \in Nat
          /\ Cardinality(waiting') + 1 <= Cardinality(waiting)
      BY <3>1, OneLess
    <3>3. /\ Cardinality(unborn) \in Nat /\ Cardinality(unborn') \in Nat
          /\ Cardinality(unborn') <= Cardinality(unborn)
      BY <3>1, NoMore
    <3>4. /\ next_user + Cardinality(waiting) <= MaxUserId + 1
          /\ next_pet + Cardinality(unborn) <= MaxPetId + 1
      BY DEF IdsSuffice
    <3>5. /\ next_user' + Cardinality(waiting') <= MaxUserId + 1
          /\ next_pet' + Cardinality(unborn') <= MaxPetId + 1
      <4> HIDE DEF waiting, unborn
      <4> QED BY <2>1, <3>2, <3>3, <3>4, AccountsConstantsOK DEF TypeOK
    <3> QED BY <3>5 DEF IdsSuffice
  <2>9. KeysClaimed'
    <3>1. \A s \in Threads : s # t => ~Claims(s, email)
      BY <2>1, NothingToWaitFor DEF HoldsEmail, Claims
    <3> QED BY <2>1, <2>3, <3>1 DEF KeysClaimed, OthersWait, Claims, EmailTaken, AuthUidTaken,
                                   Exists, Registering
  <2> QED BY <2>4, <2>5, <2>6, <2>7, <2>8, <2>9
<1> QED BY <1>1, <1>2

LEMMA CreatePetKeepsIInv ==
  ASSUME IInv, NEW t \in Threads, CreatePet(t)
  PROVE  IInv'
<1> USE DEF IInv
<1>1. CASE Answer(t, "constraint_500")
  <2>1. CASE UNCHANGED next_pet
    <3>1. /\ "constraint_500" \in Status /\ tokens' \subseteq UserIds
          /\ UNCHANGED <<users, pets, next_user, next_pet>>
      BY <2>1 DEF Status, CreatePet, TypeOK
    <3> QED BY <1>1, <3>1, AnswerKeepsIInv
  <2>2. CASE next_pet' # next_pet
    BY <1>1, <2>2 DEF CreatePet, Answer, Step
  <2> QED BY <2>1, <2>2
<1>2. CASE ~Answer(t, "constraint_500")
  <2>1. /\ pc[t] = "created"
        /\ pc' = [pc EXCEPT ![t] = "pet_created"]
        /\ row' = [row EXCEPT ![t].pet = next_pet]
        /\ next_pet' = next_pet + 1
        /\ UNCHANGED <<users, pets, next_user, tokens, req>>
        /\ applied' = Nothing /\ answer' = "none"
    BY <1>2 DEF CreatePet, Step
  <2>2. next_pet \in PetIds
    <3> DEFINE unborn == {s \in Threads : pc[s] \in {"creating", "created"}}
    <3>1. t \in unborn
      BY <2>1
    <3>2. Cardinality(unborn) \in Nat /\ Cardinality(unborn) >= 1
      <4>1. Cardinality({}) = 0
        BY FS_EmptySet
      <4> QED BY <3>1, <4>1, OneLess
    <3>3. next_pet + Cardinality(unborn) <= MaxPetId + 1
      BY DEF IdsSuffice
    <3> HIDE DEF unborn
    <3> QED BY <3>2, <3>3, AccountsConstantsOK DEF TypeOK, PetIds
  <2>3. /\ pc'[t] = "pet_created" /\ row'[t].pet = next_pet /\ row'[t].user = row[t].user
        /\ OthersWait(t) /\ req'[t] = req[t]
        /\ pc' \in [Threads -> Places] /\ row' \in [Threads -> RowInHand]
    BY <2>1, <2>2 DEF TypeOK, OthersWait, Places, Registering, RowInHand
  <2>4. TypeOK'
    <3>1. \A s \in Threads : /\ pc'[s] \in Registering => req'[s] \in Registrations
                             /\ pc'[s] \in Changing => req'[s] \in Changes
      BY <2>1, <2>3 DEF TypeOK, OthersWait, Registering, Changing
    <3> QED BY <2>1, <2>3, <3>1 DEF TypeOK, Places, Status
  <2>5. UniqueLogins'
    BY <2>1 DEF UniqueLogins, Exists
  <2>6. RowsAsFound' /\ RowsLocked'
    BY <2>1, <2>3 DEF RowsAsFound, RowsLocked, HoldsUser, HoldsPet, OthersWait, Exists,
                      Holding, Changing, Registering
  <2>7. IdsAreFresh'
    <3>1. next_pet' = next_pet + 1 /\ next_pet \in Nat /\ PetIds \subseteq Nat
      BY <2>1 DEF TypeOK, PetIds
    <3>2. \A p \in PetIds : p < next_pet => p < next_pet' /\ p # next_pet
      BY <3>1
    <3>3. /\ \A p \in PetIds : p >= next_pet' => p >= next_pet
          /\ next_pet < next_pet' /\ pets[next_pet] = NoRow
      BY <2>2, <3>1 DEF IdsAreFresh
    <3>4. \A u \in UserIds : u >= next_user' => users'[u] = NoRow
      BY <2>1 DEF IdsAreFresh, Exists
    <3>5. \A p \in PetIds : p >= next_pet' => pets'[p] = NoRow
      BY <2>1, <3>3 DEF IdsAreFresh
    <3>6. \A s \in Threads : pc'[s] \in {"created", "pet_created"} =>
            /\ row'[s].user \in UserIds /\ row'[s].user < next_user' /\ users'[row'[s].user] = NoRow
            /\ \A r \in Threads :
                 pc'[r] \in {"created", "pet_created"} /\ row'[r].user = row'[s].user => r = s
      BY <2>1, <2>3 DEF IdsAreFresh, OthersWait, Exists
    <3>7. \A s \in Threads : pc'[s] = "pet_created" =>
            /\ row'[s].pet \in PetIds /\ row'[s].pet < next_pet' /\ pets'[row'[s].pet] = NoRow
            /\ \A r \in Threads : pc'[r] = "pet_created" /\ row'[r].pet = row'[s].pet => r = s
      BY <2>1, <2>2, <2>3, <3>2, <3>3 DEF IdsAreFresh, OthersWait
    <3> QED BY <3>4, <3>5, <3>6, <3>7 DEF IdsAreFresh, Exists
  <2>8. IdsSuffice'
    <3> DEFINE waiting == {s \in Threads : pc[s] = "creating"}
               unborn == {s \in Threads : pc[s] \in {"creating", "created"}}
    <3>1. t \in unborn /\ unborn' \subseteq unborn \ {t} /\ waiting' \subseteq waiting
      BY <2>1, <2>3 DEF OthersWait
    <3>2. /\ Cardinality(unborn) \in Nat /\ Cardinality(unborn') \in Nat
          /\ Cardinality(unborn') + 1 <= Cardinality(unborn)
      BY <3>1, OneLess
    <3>3. /\ Cardinality(waiting) \in Nat /\ Cardinality(waiting') \in Nat
          /\ Cardinality(waiting') <= Cardinality(waiting)
      BY <3>1, NoMore
    <3>4. /\ next_user + Cardinality(waiting) <= MaxUserId + 1
          /\ next_pet + Cardinality(unborn) <= MaxPetId + 1
      BY DEF IdsSuffice
    <3>5. /\ next_user' + Cardinality(waiting') <= MaxUserId + 1
          /\ next_pet' + Cardinality(unborn') <= MaxPetId + 1
      <4> HIDE DEF waiting, unborn
      <4> QED BY <2>1, <3>2, <3>3, <3>4, AccountsConstantsOK DEF TypeOK
    <3> QED BY <3>5 DEF IdsSuffice
  <2>9. KeysClaimed'
    BY <2>1, <2>3 DEF KeysClaimed, OthersWait, Claims, EmailTaken, AuthUidTaken,
                      Exists, Registering
  <2> QED BY <2>4, <2>5, <2>6, <2>7, <2>8, <2>9
<1> QED BY <1>1, <1>2

(* A statement that only moves its transaction on, to a place of a change  *)
(* or a withdrawal.                                                        *)
LEMMA StatementTypes ==
  ASSUME IInv, NEW t \in Threads, NEW to \in Changing \cup {"withdrawn"},
         pc[t] \in Changing \/ to = "withdrawn",
         Step(t, to), UNCHANGED <<db, req>>,
         row' \in [Threads -> RowInHand],
         \A s \in Threads : s # t => row'[s] = row[s]
  PROVE  /\ pc'[t] = to /\ req'[t] = req[t] /\ OthersWait(t)
         /\ TypeOK' /\ UniqueLogins' /\ IdsAreFresh' /\ IdsSuffice'
<1> USE DEF IInv
<1>1. pc'[t] = to /\ req'[t] = req[t] /\ OthersWait(t) /\ pc' \in [Threads -> Places]
  BY DEF Step, TypeOK, OthersWait, Places
<1>2. TypeOK'
  <2>1. \A s \in Threads : /\ pc'[s] \in Registering => req'[s] \in Registrations
                           /\ pc'[s] \in Changing => req'[s] \in Changes
    BY <1>1 DEF TypeOK, OthersWait, Registering, Changing
  <2> QED BY <1>1, <2>1 DEF TypeOK, Places, Step, Status, db
<1>3. UniqueLogins' /\ IdsAreFresh' /\ IdsSuffice'
  BY <1>1, IdsStayFresh DEF Changing
<1> QED BY <1>1, <1>2, <1>3

(* update_user takes the row of the member, which nobody else holds.       *)
LEMMA UpdateUserKeepsIInv ==
  ASSUME IInv, NEW t \in Threads, UpdateUser(t)
  PROVE  IInv'
<1> USE DEF IInv
<1>1. CASE Answer(t, "404") \/ Answer(t, "400")
  <2>1. /\ "404" \in Status /\ "400" \in Status
        /\ UNCHANGED <<users, pets, next_user, next_pet>> /\ tokens' \subseteq UserIds
    BY DEF Status, UpdateUser, TypeOK, db
  <2> QED BY <1>1, <2>1, AnswerKeepsIInv
<1>2. CASE ~Answer(t, "404") /\ ~Answer(t, "400")
  <2>1. /\ pc[t] = "updating" /\ WaitsFor(t) = {} /\ Exists(req[t].user)
        /\ Step(t, "user_updated") /\ UNCHANGED <<db, req, row>>
    BY <1>2 DEF UpdateUser
  <2>2. /\ pc'[t] = "user_updated" /\ req'[t] = req[t] /\ OthersWait(t)
        /\ TypeOK' /\ UniqueLogins' /\ IdsAreFresh' /\ IdsSuffice'
    BY <2>1, StatementTypes DEF Changing, TypeOK
  <2>3. RowsAsFound'
    BY <2>1, <2>2 DEF RowsAsFound, OthersWait, Exists, Holding, Changing, db
  <2>4. RowsLocked'
    <3>1. \A s \in Threads : s # t => ~HoldsUser(s, row[t].user)
      BY <2>1, NothingToWaitFor
    <3> QED BY <2>1, <2>2, <3>1 DEF RowsLocked, HoldsUser, HoldsPet, OthersWait, Holding
  <2>5. KeysClaimed'
    BY <2>1, <2>2 DEF KeysClaimed, OthersWait, Claims, EmailTaken, AuthUidTaken, Exists, db
  <2> QED BY <2>2, <2>3, <2>4, <2>5
<1> QED BY <1>1, <1>2

(* The unique index: the new address is not taken, and not claimed.        *)
LEMMA IndexEmailKeepsIInv ==
  ASSUME IInv, NEW t \in Threads, IndexEmail(t)
  PROVE  IInv'
<1> USE DEF IInv
<1>1. CASE Answer(t, "409")
  <2>1. /\ "409" \in Status
        /\ UNCHANGED <<users, pets, next_user, next_pet>> /\ tokens' \subseteq UserIds
    BY DEF Status, IndexEmail, TypeOK, db
  <2> QED BY <1>1, <2>1, AnswerKeepsIInv
<1>2. CASE ~Answer(t, "409")
  <2>1. /\ pc[t] = "user_updated" /\ WaitsFor(t) = {}
        /\ (req[t].email # Keep => ~EmailTaken(req[t].email, req[t].user))
        /\ Step(t, "email_indexed") /\ UNCHANGED <<db, req, row>>
    BY <1>2 DEF IndexEmail
  <2>2. /\ pc'[t] = "email_indexed" /\ req'[t] = req[t] /\ OthersWait(t)
        /\ TypeOK' /\ UniqueLogins' /\ IdsAreFresh' /\ IdsSuffice'
    BY <2>1, StatementTypes DEF Changing, TypeOK
  <2>3. RowsAsFound'
    BY <2>1, <2>2 DEF RowsAsFound, OthersWait, Exists, Holding, Changing, db
  <2>4. RowsLocked'
    BY <2>1, <2>2 DEF RowsLocked, HoldsUser, HoldsPet, OthersWait, Holding
  <2>5. KeysClaimed'
    <3>1. req[t].email # Keep => \A s \in Threads : s # t => ~Claims(s, req[t].email)
      BY <2>1, NothingToWaitFor DEF HoldsEmail, Claims
    <3>2. Keep \notin Emails
      BY AccountsConstantsOK
    <3> QED BY <2>1, <2>2, <3>1, <3>2 DEF KeysClaimed, OthersWait, Claims, EmailTaken,
                                         AuthUidTaken, Exists, Registering, db
  <2> QED BY <2>2, <2>3, <2>4, <2>5
<1> QED BY <1>1, <1>2

(* update_pet takes the row of a pet of the member, which nobody holds.    *)
LEMMA UpdatePetKeepsIInv ==
  ASSUME IInv, NEW t \in Threads, UpdatePet(t)
  PROVE  IInv'
<1> USE DEF IInv
<1>1. CASE Answer(t, "404") \/ Answer(t, "400")
  <2>1. /\ "404" \in Status /\ "400" \in Status
        /\ UNCHANGED <<users, pets, next_user, next_pet>> /\ tokens' \subseteq UserIds
    BY DEF Status, UpdatePet, TypeOK, db
  <2> QED BY <1>1, <2>1, AnswerKeepsIInv
<1>2. CASE ~Answer(t, "404") /\ ~Answer(t, "400")
  <2>1. /\ pc[t] = "email_indexed" /\ WaitsFor(t) = {} /\ TouchesPet(req[t])
        /\ pets[req[t].pet] # NoRow /\ pets[req[t].pet].user = req[t].user
        /\ Step(t, "pet_updated") /\ UNCHANGED <<db, req, row>>
    BY <1>2 DEF UpdatePet
  <2>2. /\ pc'[t] = "pet_updated" /\ req'[t] = req[t] /\ OthersWait(t)
        /\ TypeOK' /\ UniqueLogins' /\ IdsAreFresh' /\ IdsSuffice'
    BY <2>1, StatementTypes DEF Changing, TypeOK
  <2>3. RowsAsFound'
    BY <2>1, <2>2 DEF RowsAsFound, OthersWait, Exists, Holding, Changing, db
  <2>4. RowsLocked'
    <3>1. \A s \in Threads : s # t => ~HoldsPet(s, req[t].pet)
      BY <2>1, NothingToWaitFor
    <3> QED BY <2>1, <2>2, <3>1 DEF RowsLocked, HoldsUser, HoldsPet, OthersWait, Holding
  <2>5. KeysClaimed'
    BY <2>1, <2>2 DEF KeysClaimed, OthersWait, Claims, EmailTaken, AuthUidTaken, Exists,
                      Registering, db
  <2> QED BY <2>2, <2>3, <2>4, <2>5
<1> QED BY <1>1, <1>2

(* The allergies that are deleted are those of a pet that is held.         *)
LEMMA DeleteAllergiesKeepsIInv ==
  ASSUME IInv, NEW t \in Threads, DeleteAllergies(t)
  PROVE  IInv'
<1> USE DEF IInv
<1> DEFINE deleted == IF req[t].allergies = Keep THEN {} ELSE pets[req[t].pet].allergies
<1>1. /\ pc[t] = "pet_updated" /\ Step(t, "details_read")
      /\ row' = [row EXCEPT ![t].deleted = deleted] /\ UNCHANGED <<db, req>>
  BY DEF DeleteAllergies
<1>2. deleted \in SUBSET Allergens
  <2>1. pets[req[t].pet] \in PetRow
    <3>1. pets[req[t].pet] # NoRow /\ req[t].pet # Keep
      BY <1>1 DEF RowsAsFound, Changing
    <3>2. req[t].pet \in PetIds
      BY <1>1, <3>1, ChangeTypes DEF Changing
    <3> QED BY <3>1, <3>2 DEF TypeOK
  <2> QED BY <2>1 DEF PetRow
<1>3. /\ row' \in [Threads -> RowInHand]
      /\ row'[t].user = row[t].user /\ row'[t].deleted = deleted
      /\ \A s \in Threads : s # t => row'[s] = row[s]
  <2> HIDE DEF deleted
  <2> QED BY <1>1, <1>2 DEF TypeOK, RowInHand
<1>4. /\ pc'[t] = "details_read" /\ req'[t] = req[t] /\ OthersWait(t)
      /\ TypeOK' /\ UniqueLogins' /\ IdsAreFresh' /\ IdsSuffice'
  <2>1. pc[t] \in Changing /\ "details_read" \in Changing
    BY <1>1 DEF Changing
  <2> QED BY <1>1, <1>3, <2>1, StatementTypes
<1>5. RowsAsFound'
  BY <1>1, <1>3, <1>4 DEF RowsAsFound, OthersWait, Exists, Holding, Changing, db
<1>6. RowsLocked'
  BY <1>1, <1>3, <1>4 DEF RowsLocked, HoldsUser, HoldsPet, OthersWait, Holding
<1>7. KeysClaimed'
  BY <1>1, <1>4 DEF KeysClaimed, OthersWait, Claims, EmailTaken, AuthUidTaken, Exists,
                    Registering, db
<1> QED BY <1>4, <1>5, <1>6, <1>7

(* withdraw_user takes the row of a member who is not withdrawn.           *)
LEMMA WithdrawUserKeepsIInv ==
  ASSUME IInv, NEW t \in Threads, WithdrawUser(t)
  PROVE  IInv'
<1> USE DEF IInv
<1>1. CASE Answer(t, "404")
  <2>1. /\ "404" \in Status
        /\ UNCHANGED <<users, pets, next_user, next_pet>> /\ tokens' \subseteq UserIds
    BY DEF Status, WithdrawUser, TypeOK, db
  <2> QED BY <1>1, <2>1, AnswerKeepsIInv
<1>2. CASE ~Answer(t, "404")
  <2>1. /\ pc[t] = "withdrawing" /\ WaitsFor(t) = {}
        /\ Exists(row[t].user) /\ ~users[row[t].user].withdrawn
        /\ Step(t, "withdrawn") /\ UNCHANGED <<db, req, row>>
    BY <1>2 DEF WithdrawUser
  <2>2. /\ pc'[t] = "withdrawn" /\ req'[t] = req[t] /\ OthersWait(t)
        /\ TypeOK' /\ UniqueLogins' /\ IdsAreFresh' /\ IdsSuffice'
    BY <2>1, StatementTypes DEF TypeOK
  <2>3. RowsAsFound'
    BY <2>1, <2>2 DEF RowsAsFound, OthersWait, Exists, Holding, Changing, db
  <2>4. RowsLocked'
    <3>1. \A s \in Threads : s # t => ~HoldsUser(s, row[t].user)
      BY <2>1, NothingToWaitFor
    <3> QED BY <2>1, <2>2, <3>1 DEF RowsLocked, HoldsUser, HoldsPet, OthersWait, Holding
  <2>5. KeysClaimed'
    BY <2>1, <2>2 DEF KeysClaimed, OthersWait, Claims, EmailTaken, AuthUidTaken, Exists, db
  <2> QED BY <2>2, <2>3, <2>4, <2>5
<1> QED BY <1>1, <1>2

(* What the COMMIT of a registration finds: the rows of its ids are not    *)
(* there yet, they are nobody else's, and its address is free.             *)
LEMMA CommitRegisterFinds ==
  ASSUME IInv, NEW t \in Threads, pc[t] = "pet_created"
  PROVE  LET u == row[t].user
             p == row[t].pet
             email == req[t].email
         IN  /\ u \in UserIds /\ p \in PetIds /\ ~Exists(u) /\ pets[p] = NoRow
             /\ u < next_user /\ p < next_pet
             /\ \A s \in Threads : pc[s] \in {"created", "pet_created"} /\ row[s].user = u => s = t
             /\ \A s \in Threads : pc[s] = "pet_created" /\ row[s].pet = p => s = t
             /\ req[t] \in Registrations /\ email \in Emails
             /\ \A s \in Threads : Claims(s, email) => s = t
             /\ \A w \in UserIds : Exists(w) => users[w].email # email /\ users[w].auth_uid # email
<1> USE DEF IInv
<1> DEFINE u == row[t].user
           p == row[t].pet
           email == req[t].email
<1>1. /\ u \in UserIds /\ p \in PetIds /\ ~Exists(u) /\ pets[p] = NoRow
      /\ u < next_user /\ p < next_pet
      /\ \A s \in Threads : pc[s] \in {"created", "pet_created"} /\ row[s].user = u => s = t
      /\ \A s \in Threads : pc[s] = "pet_created" /\ row[s].pet = p => s = t
  BY DEF IdsAreFresh
<1>2. req[t] \in Registrations /\ email \in Emails
  BY RegistrationTypes DEF Registering, TypeOK
<1>3. Claims(t, email)
  BY DEF Claims
<1>4. /\ \A s \in Threads : Claims(s, email) => s = t
      /\ ~EmailTaken(email, 0) /\ ~AuthUidTaken(email)
  BY <1>2, <1>3 DEF KeysClaimed, Registering
<1>5. 0 \notin UserIds
  BY DEF UserIds
<1>6. \A w \in UserIds : Exists(w) => users[w].email # email /\ users[w].auth_uid # email
  BY <1>4, <1>5 DEF EmailTaken, AuthUidTaken
<1> QED BY <1>1, <1>2, <1>4, <1>6


(* The COMMIT of a registration: the keys it has claimed become a row's.   *)
LEMMA CommitRegisterKeepsIInv ==
  ASSUME IInv, NEW t \in Threads, CommitRegister(t)
  PROVE  IInv'
<1> USE DEF IInv
<1> DEFINE u == row[t].user
           p == row[t].pet
           email == req[t].email
<1>1. /\ pc[t] = "pet_created" /\ pc' = [pc EXCEPT ![t] = "registered"]
      /\ users' = [users EXCEPT ![u] = NewUser(req[t])]
      /\ pets' = [pets EXCEPT ![p] = NewPet(u, req[t])]
      /\ applied' = req[t] /\ answer' = "none"
      /\ UNCHANGED <<next_user, next_pet, tokens, req, row>>
  BY DEF CommitRegister, Commit
<1>2. /\ u \in UserIds /\ p \in PetIds /\ ~Exists(u) /\ pets[p] = NoRow
      /\ u < next_user /\ p < next_pet
      /\ \A s \in Threads : pc[s] \in {"created", "pet_created"} /\ row[s].user = u => s = t
      /\ \A s \in Threads : pc[s] = "pet_created" /\ row[s].pet = p => s = t
  BY <1>1, CommitRegisterFinds
<1>3. /\ req[t] \in Registrations /\ email \in Emails
      /\ NewUser(req[t]) \in UserRow /\ NewPet(u, req[t]) \in PetRow
      /\ NewUser(req[t]) # NoRow /\ NewPet(u, req[t]) # NoRow
      /\ NewUser(req[t]).email = email /\ NewUser(req[t]).auth_uid = email
  <2>1. /\ req[t] \in Registrations
        /\ email \in Emails /\ req[t].name \in Names /\ req[t].pet_name \in Names
        /\ req[t].survey \in Notes /\ req[t].allergies \in SUBSET Allergens
    BY <1>1, RegistrationTypes DEF Registering, TypeOK
  <2>2. NewUser(req[t]) \in UserRow /\ NewPet(u, req[t]) \in PetRow
    BY <1>2, <2>1 DEF NewUser, NewPet, UserRow, PetRow
  <2>3. NewUser(req[t]) # NoRow /\ NewPet(u, req[t]) # NoRow
    BY <2>2, AccountsConstantsOK
  <2>4. NewUser(req[t]).email = email /\ NewUser(req[t]).auth_uid = email
    BY DEF NewUser
  <2> QED BY <2>1, <2>2, <2>3, <2>4
<1>4. /\ pc'[t] = "registered" /\ OthersWait(t) /\ pc' \in [Threads -> Places]
      /\ req'[t] = req[t] /\ row'[t] = row[t]
      /\ users'[u] = NewUser(req[t]) /\ \A w \in UserIds : w # u => users'[w] = users[w]
      /\ pets'[p] = NewPet(u, req[t]) /\ \A q \in PetIds : q # p => pets'[q] = pets[q]
  BY <1>1, <1>2 DEF TypeOK, OthersWait, Places, Registering
<1>5. /\ \A s \in Threads : Claims(s, email) => s = t
      /\ \A w \in UserIds : Exists(w) => users[w].email # email /\ users[w].auth_uid # email
  BY <1>1, CommitRegisterFinds
<1> HIDE DEF u, p, email
<1>6. TypeOK'
  <2>1. /\ users' \in [UserIds -> UserRow \cup {NoRow}]
        /\ pets' \in [PetIds -> PetRow \cup {NoRow}]
    BY <1>1, <1>2, <1>3 DEF TypeOK
  <2>2. \A s \in Threads : /\ pc'[s] \in Registering => req'[s] \in Registrations
                           /\ pc'[s] \in Changing => req'[s] \in Changes
    BY <1>3, <1>4 DEF TypeOK, OthersWait, Registering, Changing
  <2> QED BY <1>1, <1>3, <1>4, <2>1, <2>2 DEF TypeOK, Places, Status
<1>7. UniqueLogins'
  BY <1>2, <1>3, <1>4, <1>5 DEF UniqueLogins, Exists
<1>8. RowsAsFound'
  <2>1. \A s \in Threads : s # t /\ pc[s] \in Holding \cup {"withdrawn"} => row[s].user # u
    BY <1>2 DEF RowsAsFound
  <2>2. \A s \in Threads : s # t /\ pc[s] \in {"pet_updated", "details_read"} => req[s].pet # p
    BY <1>2 DEF RowsAsFound
  <2>3. \A s \in Threads : pc[s] \in {"pet_updated", "details_read"} => req[s].pet \in PetIds
    BY ChangeTypes DEF RowsAsFound, Changing
  <2> QED BY <1>2, <1>4, <2>1, <2>2, <2>3 DEF RowsAsFound, OthersWait, Exists, Holding,
                                              Changing, u
<1>9. RowsLocked'
  BY <1>1, <1>4 DEF RowsLocked, HoldsUser, HoldsPet, OthersWait, Holding
<1>10. IdsAreFresh'
  <2>1. next_user \in Nat /\ next_pet \in Nat /\ UserIds \subseteq Nat /\ PetIds \subseteq Nat
    BY DEF TypeOK, UserIds, PetIds
  <2>2. /\ \A w \in UserIds : w >= next_user => w # u
        /\ \A q \in PetIds : q >= next_pet => q # p
    BY <1>2, <2>1
  <2> QED BY <1>1, <1>2, <1>4, <2>2 DEF IdsAreFresh, OthersWait, Exists
<1>11. IdsSuffice'
  <2>1. /\ {s \in Threads : pc'[s] = "creating"} = {s \in Threads : pc[s] = "creating"}
        /\ {s \in Threads : pc'[s] \in {"creating", "created"}}
             = {s \in Threads : pc[s] \in {"creating", "created"}}
    BY <1>1, <1>4 DEF OthersWait
  <2> QED BY <1>1, <2>1 DEF IdsSuffice
<1>12. KeysClaimed'
  <2>1. ASSUME NEW s \in Threads, NEW e \in Emails, Claims(s, e)'
        PROVE  s # t /\ e # email /\ Claims(s, e)
    BY <1>4, <1>5, <2>1 DEF Claims, OthersWait
  <2> QED BY <1>2, <1>3, <1>4, <2>1 DEF KeysClaimed, OthersWait, EmailTaken, AuthUidTaken,
                                        Exists, Registering
<1> QED BY <1>6, <1>7, <1>8, <1>9, <1>10, <1>11, <1>12

(* What the COMMIT of a change writes, said for each row: the rows are     *)
(* still as the request has found them.                                    *)
LEMMA CommitUpdateWrites ==
  ASSUME IInv, NEW t \in Threads, CommitUpdate(t)
  PROVE  LET c == req[t]
             u == c.user
             p == c.pet
         IN  /\ c \in Changes /\ u \in UserIds /\ users[u] \in UserRow
             /\ users' = [users EXCEPT ![u] = ChangedUser(users[u], c)]
             /\ users'[u] = ChangedUser(users[u], c)
             /\ \A w \in UserIds : w # u => users'[w] = users[w]
             /\ \/ /\ TouchesPet(c) /\ pc[t] = "details_read"
                   /\ p \in PetIds /\ pets[p] \in PetRow /\ pets[p].user = u
                   /\ row[t].deleted = IF c.allergies = Keep THEN {} ELSE pets[p].allergies
                   /\ pets' = [pets EXCEPT ![p] = ChangedPet(pets[p], c, row[t].deleted)]
                   /\ pets'[p] = ChangedPet(pets[p], c, row[t].deleted)
                   /\ \A q \in PetIds : q # p => pets'[q] = pets[q]
                \/ ~TouchesPet(c) /\ pets' = pets
<1> USE DEF IInv
<1> DEFINE c == req[t]
           u == c.user
           p == c.pet
<1>1. /\ pc[t] \in {"details_read", "email_indexed"}
      /\ users' = [users EXCEPT ![u] = ChangedUser(@, c)]
      /\ pets' = IF TouchesPet(c)
                 THEN [pets EXCEPT ![p] = ChangedPet(@, c, row[t].deleted)] ELSE pets
      /\ TouchesPet(c) => pc[t] = "details_read"
  BY DEF CommitUpdate
<1>2. /\ c \in Changes /\ u \in UserIds /\ c.pet \in PetIds \cup {Keep}
      /\ users[u] \in UserRow
  <2>1. c \in Changes /\ u \in UserIds /\ c.pet \in PetIds \cup {Keep}
    BY <1>1, ChangeTypes DEF Changing, TypeOK
  <2>2. row[t].user = u /\ Exists(u)
    BY <1>1 DEF RowsAsFound, Changing, Holding
  <2> QED BY <2>1, <2>2 DEF TypeOK, Exists
<1>3. /\ users' = [users EXCEPT ![u] = ChangedUser(users[u], c)]
      /\ users'[u] = ChangedUser(users[u], c)
      /\ \A w \in UserIds : w # u => users'[w] = users[w]
  <2> HIDE DEF c
  <2> QED BY <1>1, <1>2 DEF TypeOK
<1>4. CASE TouchesPet(c)
  <2>1. pc[t] = "details_read"
    BY <1>1, <1>4
  <2>2. /\ p # Keep /\ pets[p] # NoRow /\ pets[p].user = u
        /\ row[t].deleted = IF c.allergies = Keep THEN {} ELSE pets[p].allergies
    BY <2>1 DEF RowsAsFound, Changing
  <2>3. p \in PetIds /\ pets[p] \in PetRow
    BY <1>2, <2>2 DEF TypeOK
  <2>4. /\ pets' = [pets EXCEPT ![p] = ChangedPet(pets[p], c, row[t].deleted)]
        /\ pets'[p] = ChangedPet(pets[p], c, row[t].deleted)
        /\ \A q \in PetIds : q # p => pets'[q] = pets[q]
    <3> HIDE DEF c
    <3> QED BY <1>1, <1>4, <2>3 DEF TypeOK
  <2> QED BY <1>2, <1>3, <1>4, <2>1, <2>2, <2>3, <2>4
<1>5. CASE ~TouchesPet(c)
  BY <1>1, <1>2, <1>3, <1>5
<1> QED BY <1>4, <1>5

(* A changed row keeps its keys but for the address that is given.         *)
LEMMA ChangedUserKeys ==
  ASSUME NEW old \in UserRow, NEW c \in Change
  PROVE  /\ ChangedUser(old, c) \in UserRow /\ ChangedUser(old, c) # NoRow
         /\ ChangedUser(old, c).auth_uid = old.auth_uid
         /\ ChangedUser(old, c).withdrawn = old.withdrawn
         /\ ChangedUser(old, c).email = IF c.email = Keep THEN old.email ELSE c.email
<1>1. /\ c.email \in Emails \cup {Keep} /\ c.name \in Names \cup {Keep}
      /\ old.auth_uid \in Emails /\ old.email \in Emails /\ old.name \in Names
  BY DEF Change, UserRow
<1>2. ChangedUser(old, c) =
        [auth_uid |-> old.auth_uid, withdrawn |-> old.withdrawn,
         email |-> IF c.email = Keep THEN old.email ELSE c.email,
         name |-> IF c.name = Keep THEN old.name ELSE c.name]
  <2> DEFINE renamed == [old EXCEPT !.email = Given(c.email, old.email)]
  <2>1. old = [auth_uid |-> old.auth_uid, email |-> old.email, name |-> old.name,
               withdrawn |-> old.withdrawn]
    BY DEF UserRow
  <2>2. renamed = [auth_uid |-> old.auth_uid, email |-> Given(c.email, old.email),
                   name |-> old.name, withdrawn |-> old.withdrawn]
    BY <2>1
  <2>3. ChangedUser(old, c) = [renamed EXCEPT !.name = Given(c.name, renamed.name)]
    BY DEF ChangedUser
  <2> HIDE DEF renamed
  <2> QED BY <2>2, <2>3 DEF Given
<1>3. ChangedUser(old, c) \in UserRow
  BY <1>1, <1>2 DEF UserRow
<1> QED BY <1>2, <1>3, AccountsConstantsOK

(* The columns of a changed pet.                                           *)
LEMMA ChangedPetColumns ==
  ASSUME NEW old \in PetRow, NEW c \in Change, NEW deleted
  PROVE  /\ ChangedPet(old, c, deleted) \in PetRow /\ ChangedPet(old, c, deleted) # NoRow
         /\ ChangedPet(old, c, deleted) =
              [user |-> old.user, name |-> Given(c.pet_name, old.name),
               survey |-> Given(c.survey, old.survey),
               allergies |-> (old.allergies \ deleted)
                               \cup (IF c.allergies = Keep THEN {} ELSE c.allergies)]
<1>1. /\ c.pet_name \in Names \cup {Keep} /\ c.survey \in Notes \cup {Keep}
      /\ c.allergies \in {Keep} \cup SUBSET Allergens
      /\ old.user \in UserIds /\ old.name \in Names /\ old.survey \in Notes
      /\ old.allergies \in SUBSET Allergens
  BY DEF Change, PetRow
<1>2. ChangedPet(old, c, deleted) =
        [user |-> old.user, name |-> Given(c.pet_name, old.name),
         survey |-> Given(c.survey, old.survey),
         allergies |-> (old.allergies \ deleted)
                         \cup (IF c.allergies = Keep THEN {} ELSE c.allergies)]
  <2> DEFINE named == [old EXCEPT !.name = Given(c.pet_name, old.name)]
             noted == [named EXCEPT !.survey = Given(c.survey, named.survey)]
             new == IF c.allergies = Keep THEN {} ELSE c.allergies
  <2>1. old = [user |-> old.user, name |-> old.name, survey |-> old.survey,
               allergies |-> old.allergies]
    BY DEF PetRow
  <2>2. named = [user |-> old.user, name |-> Given(c.pet_name, old.name),
                 survey |-> old.survey, allergies |-> old.allergies]
    BY <2>1
  <2>3. noted = [user |-> old.user, name |-> Given(c.pet_name, old.name),
                 survey |-> Given(c.survey, old.survey), allergies |-> old.allergies]
    <3> HIDE DEF named
    <3> QED BY <2>2
  <2>4. ChangedPet(old, c, deleted) =
          [noted EXCEPT !.allergies = (noted.allergies \ deleted) \cup new]
    BY DEF ChangedPet
  <2> HIDE DEF noted
  <2> QED BY <2>3, <2>4
<1>3. ChangedPet(old, c, deleted) \in PetRow
  BY <1>1, <1>2 DEF PetRow, Given
<1> QED BY <1>2, <1>3, AccountsConstantsOK

(* The COMMIT of a change: the address it has claimed becomes the row's.   *)
LEMMA CommitUpdateKeepsIInv ==
  ASSUME IInv, NEW t \in Threads, CommitUpdate(t)
  PROVE  IInv'
<1> USE DEF IInv
<1> DEFINE c == req[t]
           u == c.user
           p == c.pet
           email == c.email
<1>1. /\ pc[t] \in {"details_read", "email_indexed"}
      /\ pc' = [pc EXCEPT ![t] = "updated"] /\ applied' = c /\ answer' = "none"
      /\ UNCHANGED <<next_user, next_pet, tokens, req, row>>
  BY DEF CommitUpdate, Commit
<1>2. /\ c \in Changes /\ c \in Change /\ u \in UserIds /\ users[u] \in UserRow
      /\ users' = [users EXCEPT ![u] = ChangedUser(users[u], c)]
      /\ \A w \in UserIds : w # u => users'[w] = users[w]
  BY CommitUpdateWrites, AccountsConstantsOK
<1>3. /\ users'[u] \in UserRow /\ users'[u] # NoRow /\ users[u] # NoRow
      /\ users'[u].auth_uid = users[u].auth_uid
      /\ users'[u].withdrawn = users[u].withdrawn
      /\ users'[u].email = IF email = Keep THEN users[u].email ELSE email
  <2>1. users'[u] = ChangedUser(users[u], c)
    BY CommitUpdateWrites
  <2> QED BY <1>2, <2>1, ChangedUserKeys, AccountsConstantsOK
<1>4. /\ pets' \in [PetIds -> PetRow \cup {NoRow}]
      /\ \A q \in PetIds : pets'[q] = NoRow <=> pets[q] = NoRow
      /\ \A q \in PetIds : pets[q] # NoRow => pets'[q].user = pets[q].user
      /\ \A q \in PetIds : pets'[q] # pets[q] => q = p /\ HoldsPet(t, p)
  <2>1. CASE pets' = pets
    BY <2>1 DEF TypeOK
  <2>2. CASE /\ TouchesPet(c) /\ pc[t] = "details_read"
             /\ p \in PetIds /\ pets[p] \in PetRow
             /\ pets' = [pets EXCEPT ![p] = ChangedPet(pets[p], c, row[t].deleted)]
             /\ pets'[p] = ChangedPet(pets[p], c, row[t].deleted)
             /\ \A q \in PetIds : q # p => pets'[q] = pets[q]
    <3>1. /\ pets'[p] \in PetRow /\ pets'[p] # NoRow /\ pets'[p].user = pets[p].user
          /\ pets[p] # NoRow
      BY <1>2, <2>2, ChangedPetColumns, AccountsConstantsOK
    <3>2. HoldsPet(t, p)
      BY <2>2 DEF HoldsPet
    <3>3. pets' \in [PetIds -> PetRow \cup {NoRow}]
      BY <2>2, <3>1 DEF TypeOK
    <3> QED BY <2>2, <3>1, <3>2, <3>3
  <2> QED BY <2>1, <2>2, CommitUpdateWrites
<1>5. /\ pc'[t] = "updated" /\ OthersWait(t) /\ pc' \in [Threads -> Places]
      /\ req'[t] = c /\ row'[t] = row[t] /\ row[t].user = u /\ HoldsUser(t, u)
  BY <1>1 DEF TypeOK, OthersWait, Places, Changing, RowsAsFound, HoldsUser, Holding
<1>6. email # Keep =>
        /\ email \in Emails
        /\ \A s \in Threads : Claims(s, email) => s = t
        /\ \A w \in UserIds : Exists(w) /\ w # u => users[w].email # email
  <2>1. email \in Emails \cup {Keep}
    BY <1>2 DEF Change
  <2>2. Claims(t, email) /\ pc[t] \notin Registering
    BY <1>1 DEF Claims, Registering
  <2> QED BY <2>1, <2>2 DEF KeysClaimed, EmailTaken
<1> HIDE DEF c, u, p, email
<1>7. TypeOK'
  <2>1. users' \in [UserIds -> UserRow \cup {NoRow}]
    BY <1>2, <1>3 DEF TypeOK
  <2>2. \A s \in Threads : /\ pc'[s] \in Registering => req'[s] \in Registrations
                           /\ pc'[s] \in Changing => req'[s] \in Changes
    BY <1>2, <1>5 DEF TypeOK, OthersWait, Registering, Changing
  <2> QED BY <1>1, <1>2, <1>4, <1>5, <2>1, <2>2 DEF TypeOK, Places, Status
<1>8. UniqueLogins'
  BY <1>2, <1>3, <1>6 DEF UniqueLogins, Exists
<1>9. RowsAsFound'
  <2>1. \A s \in Threads : s # t /\ pc[s] = "withdrawn" => row[s].user # u
    BY <1>2, <1>5 DEF RowsLocked, HoldsUser
  <2>2. \A s \in Threads : s # t /\ pc[s] \in {"pet_updated", "details_read"} =>
          /\ req[s].pet \in PetIds /\ pets'[req[s].pet] = pets[req[s].pet]
    <3> TAKE s \in Threads
    <3> HAVE s # t /\ pc[s] \in {"pet_updated", "details_read"}
    <3>1. req[s].pet \in PetIds /\ HoldsPet(s, req[s].pet)
      BY ChangeTypes DEF RowsAsFound, Changing, HoldsPet
    <3> QED BY <1>4, <3>1 DEF RowsLocked
  <2>3. \A w \in UserIds : users[w] # NoRow => users'[w] # NoRow
    BY <1>2, <1>3
  <2>4. ASSUME NEW s \in Threads
        PROVE  /\ pc'[s] \in Changing \cup {"withdrawing", "withdrawn", "comparing", "registered"}
                    => row'[s].user \in UserIds
               /\ pc'[s] \in Changing =>
                    row'[s].user = req'[s].user /\ (TouchesPet(req'[s]) => req'[s].pet # Keep)
               /\ pc'[s] \in Holding \cup {"withdrawn"} => users'[row'[s].user] # NoRow
    BY <1>1, <1>5, <2>3 DEF RowsAsFound, OthersWait, Exists, Holding, Changing, c
  <2>5. ASSUME NEW s \in Threads, pc'[s] = "withdrawn"
        PROVE  ~users'[row'[s].user].withdrawn
    <3>1. s # t /\ pc[s] = "withdrawn" /\ row'[s] = row[s]
      BY <1>5, <2>5 DEF OthersWait
    <3>2. row[s].user \in UserIds /\ row[s].user # u /\ ~users[row[s].user].withdrawn
      BY <2>1, <3>1 DEF RowsAsFound
    <3> QED BY <1>2, <3>1, <3>2
  <2>6. ASSUME NEW s \in Threads, pc'[s] \in {"pet_updated", "details_read"}
        PROVE  /\ TouchesPet(req'[s])
               /\ pets'[req'[s].pet] # NoRow /\ pets'[req'[s].pet].user = req'[s].user
               /\ pc'[s] = "details_read" =>
                    row'[s].deleted = IF req'[s].allergies = Keep THEN {}
                                      ELSE pets'[req'[s].pet].allergies
    BY <1>5, <2>2, <2>6 DEF RowsAsFound, OthersWait
  <2> QED BY <2>4, <2>5, <2>6 DEF RowsAsFound, Exists, TouchesPet
<1>10. RowsLocked'
  BY <1>1, <1>5 DEF RowsLocked, HoldsUser, HoldsPet, OthersWait, Holding
<1>11. IdsAreFresh'
  BY <1>1, <1>2, <1>3, <1>4, <1>5 DEF IdsAreFresh, OthersWait, Exists
<1>12. IdsSuffice'
  <2>1. /\ {s \in Threads : pc'[s] = "creating"} = {s \in Threads : pc[s] = "creating"}
        /\ {s \in Threads : pc'[s] \in {"creating", "created"}}
             = {s \in Threads : pc[s] \in {"creating", "created"}}
    BY <1>1, <1>5 DEF OthersWait
  <2> QED BY <1>1, <2>1 DEF IdsSuffice
<1>13. KeysClaimed'
  <2>1. ASSUME NEW s \in Threads, NEW e \in Emails, Claims(s, e)'
        PROVE  s # t /\ Claims(s, e) /\ (email # Keep => e # email)
    BY <1>5, <1>6, <2>1 DEF Claims, OthersWait
  <2>2. ASSUME NEW s \in Threads, NEW e \in Emails, Claims(s, e)', NEW self,
               ~EmailTaken(e, self)
        PROVE  ~EmailTaken(e, self)'
    BY <1>2, <1>3, <2>1, <2>2 DEF EmailTaken, Exists
  <2>3. \A e \in Emails : ~AuthUidTaken(e) => ~AuthUidTaken(e)'
    BY <1>2, <1>3 DEF AuthUidTaken, Exists
  <2> QED BY <1>5, <2>1, <2>2, <2>3 DEF KeysClaimed, OthersWait, Registering, Claims
<1> QED BY <1>7, <1>8, <1>9, <1>10, <1>11, <1>12, <1>13

(* The COMMIT of a withdrawal sets a flag that nothing else here sets.     *)
LEMMA CommitWithdrawWrites ==
  ASSUME IInv, NEW t \in Threads, CommitWithdraw(t)
  PROVE  LET u == row[t].user
         IN  /\ u \in UserIds /\ users[u] \in UserRow /\ ~users[u].withdrawn
             /\ users' = [users EXCEPT ![u].withdrawn = TRUE]
             /\ users'[u] \in UserRow /\ users'[u] # NoRow
             /\ users'[u].email = users[u].email /\ users'[u].auth_uid = users[u].auth_uid
             /\ \A w \in UserIds : w # u => users'[w] = users[w]
<1> DEFINE u == row[t].user
<1>1. pc[t] = "withdrawn" /\ users' = [users EXCEPT ![u].withdrawn = TRUE]
  BY DEF CommitWithdraw
<1>2. u \in UserIds /\ users[u] # NoRow /\ ~users[u].withdrawn
  BY <1>1 DEF IInv, RowsAsFound, Exists
<1>3. users[u] \in UserRow /\ users \in [UserIds -> UserRow \cup {NoRow}]
  BY <1>2 DEF IInv, TypeOK
<1>4. /\ users'[u] = [users[u] EXCEPT !.withdrawn = TRUE]
      /\ \A w \in UserIds : w # u => users'[w] = users[w]
  <2> HIDE DEF u
  <2> QED BY <1>1, <1>2, <1>3
<1>5. /\ users'[u] \in UserRow
      /\ users'[u].email = users[u].email /\ users'[u].auth_uid = users[u].auth_uid
  BY <1>3, <1>4 DEF UserRow
<1>6. users'[u] # NoRow
  BY <1>5, AccountsConstantsOK
<1> QED BY <1>1, <1>2, <1>3, <1>4, <1>5, <1>6

LEMMA CommitWithdrawKeepsIInv ==
  ASSUME IInv, NEW t \in Threads, CommitWithdraw(t)
  PROVE  IInv'
<1> USE DEF IInv
<1> DEFINE u == row[t].user
<1>1. /\ pc[t] = "withdrawn" /\ Answer(t, "204")
      /\ UNCHANGED <<pets, next_user, next_pet, tokens>>
  BY DEF CommitWithdraw
<1>2. /\ u \in UserIds /\ users[u] # NoRow /\ users'[u] \in UserRow /\ users'[u] # NoRow
      /\ users'[u].email = users[u].email /\ users'[u].auth_uid = users[u].auth_uid
      /\ \A w \in UserIds : w # u => users'[w] = users[w]
      /\ users' = [users EXCEPT ![u].withdrawn = TRUE]
  BY <1>1, CommitWithdrawWrites DEF RowsAsFound, Exists
<1>3. /\ pc'[t] = "idle" /\ OthersWait(t) /\ HoldsUser(t, u)
      /\ pc' \in [Threads -> Places]
  BY <1>1 DEF Answer, TypeOK, OthersWait, Places, HoldsUser
<1> HIDE DEF u
<1>4. TypeOK'
  <2>1. req' \in [Threads -> Registrations \cup Changes \cup {Nothing}]
    BY <1>1 DEF Answer, TypeOK
  <2>2. row' \in [Threads -> RowInHand]
    BY <1>1 DEF Answer, TypeOK, NoRowYet, RowInHand
  <2>3. users' \in [UserIds -> UserRow \cup {NoRow}]
    BY <1>2 DEF TypeOK
  <2>4. \A s \in Threads : /\ pc'[s] \in Registering => req'[s] \in Registrations
                           /\ pc'[s] \in Changing => req'[s] \in Changes
    BY <1>3 DEF TypeOK, OthersWait, Registering, Changing
  <2> QED BY <1>1, <1>3, <2>1, <2>2, <2>3, <2>4 DEF TypeOK, Places, Answer, Status
<1>5. UniqueLogins'
  BY <1>2 DEF UniqueLogins, Exists
<1>6. RowsAsFound'
  <2>1. \A s \in Threads : s # t /\ pc[s] = "withdrawn" => row[s].user # u
    BY <1>2, <1>3 DEF RowsLocked, HoldsUser
  <2> QED BY <1>1, <1>2, <1>3, <2>1 DEF RowsAsFound, OthersWait, Exists, Holding, Changing
<1>7. RowsLocked'
  BY <1>3 DEF RowsLocked, OthersWait, HoldsUser, HoldsPet, Holding
<1>8. IdsAreFresh'
  BY <1>1, <1>2, <1>3 DEF IdsAreFresh, OthersWait, Exists
<1>9. IdsSuffice'
  <2>1. /\ {s \in Threads : pc'[s] = "creating"} = {s \in Threads : pc[s] = "creating"}
        /\ {s \in Threads : pc'[s] \in {"creating", "created"}}
             = {s \in Threads : pc[s] \in {"creating", "created"}}
    BY <1>1, <1>3 DEF OthersWait
  <2> QED BY <1>1, <2>1 DEF IdsSuffice
<1>10. KeysClaimed'
  BY <1>2, <1>3 DEF KeysClaimed, OthersWait, Claims, EmailTaken, AuthUidTaken, Exists
<1> QED BY <1>4, <1>5, <1>6, <1>7, <1>8, <1>9, <1>10

(* A crash leaves what is committed and nothing else.                      *)
LEMMA CrashKeepsIInv ==
  ASSUME IInv, Crash
  PROVE  IInv'
<1> USE DEF IInv
<1>1. (\A s \in Threads : pc'[s] = "idle") /\ UNCHANGED db
  BY DEF Crash
<1>2. TypeOK'
  BY <1>1 DEF Crash, TypeOK, db, Registering, Changing, Status, NoRowYet, RowInHand
<1>3. UniqueLogins' /\ RowsAsFound' /\ RowsLocked' /\ IdsAreFresh' /\ KeysClaimed'
  BY <1>1 DEF UniqueLogins, RowsAsFound, RowsLocked, IdsAreFresh, KeysClaimed, Exists, db,
              HoldsUser, HoldsPet, Claims, Holding, Changing
<1>4. IdsSuffice'
  <2> DEFINE waiting == {s \in Threads : pc[s] = "creating"}
             unborn == {s \in Threads : pc[s] \in {"creating", "created"}}
  <2>1. waiting' \subseteq waiting /\ unborn' \subseteq unborn
    BY <1>1
  <2>2. /\ Cardinality(waiting') <= Cardinality(waiting)
        /\ Cardinality(unborn') <= Cardinality(unborn)
        /\ Cardinality(waiting) \in Nat /\ Cardinality(waiting') \in Nat
        /\ Cardinality(unborn) \in Nat /\ Cardinality(unborn') \in Nat
    BY <2>1, NoMore
  <2>3. /\ next_user + Cardinality(waiting) <= MaxUserId + 1
        /\ next_pet + Cardinality(unborn) <= MaxPetId + 1
    BY DEF IdsSuffice
  <2>4. /\ next_user' + Cardinality(waiting') <= MaxUserId + 1
        /\ next_pet' + Cardinality(unborn') <= MaxPetId + 1
    <3> HIDE DEF waiting, unborn
    <3> QED BY <1>1, <2>2, <2>3, AccountsConstantsOK DEF TypeOK, db
  <2> QED BY <2>4 DEF IdsSuffice
<1> QED BY <1>2, <1>3, <1>4

(* Stuttering, as far as the invariant looks.                              *)
LEMMA StutterKeepsIInv ==
  ASSUME IInv, UNCHANGED vars
  PROVE  IInv'
<1> USE DEF IInv, vars
<1>1. TypeOK' /\ UniqueLogins' /\ RowsAsFound'
  BY DEF TypeOK, UniqueLogins, RowsAsFound, Exists
<1>2. RowsLocked' /\ IdsAreFresh' /\ IdsSuffice' /\ KeysClaimed'
  BY DEF RowsLocked, IdsAreFresh, IdsSuffice, KeysClaimed, HoldsUser, HoldsPet, Exists,
         Claims, EmailTaken, AuthUidTaken
<1> QED BY <1>1, <1>2

(* IInv is inductive.                                                      *)
LEMMA NextKeepsIInv == IInv /\ [Next]_vars => IInv'
<1> SUFFICES ASSUME IInv, [Next]_vars PROVE IInv'
  OBVIOUS
<1>1. ASSUME NEW t \in Threads, Begin(t) PROVE IInv'
  <2>1. ASSUME NEW c \in Changes, AdminPatch(t, c) PROVE IInv'
    BY <2>1, BeginUpdateKeepsIInv DEF AdminPatch
  <2>2. ASSUME NEW c \in Changes, OwnPatch(t, c) PROVE IInv'
    <3>1. [c EXCEPT !.email = Keep] \in Changes /\ BeginUpdate(t, [c EXCEPT !.email = Keep])
      BY <2>2, AccountsConstantsOK DEF OwnPatch
    <3> QED BY <3>1, BeginUpdateKeepsIInv
  <2>3. ASSUME NEW u \in Leavers, BeginWithdraw(t, u) PROVE IInv'
    <3>1. u \in UserIds /\ "withdrawing" \in {"withdrawing", "comparing"}
      BY AccountsConstantsOK
    <3> QED BY <2>3, <3>1, NamingKeepsIInv DEF BeginWithdraw
  <2> QED BY <1>1, <2>1, <2>2, <2>3, BeginRegisterKeepsIInv, BeginLoginKeepsIInv DEF Begin
<1>2. ASSUME NEW t \in Threads, Waiting(t) PROVE IInv'
  BY <1>2, CreateUserKeepsIInv, UpdateUserKeepsIInv, IndexEmailKeepsIInv,
     UpdatePetKeepsIInv, WithdrawUserKeepsIInv DEF Waiting
<1>3. ASSUME NEW t \in Threads, Proceed(t) PROVE IInv'
  <2>1. CASE AnswerRegister(t)
    <3>1. row[t].user \in UserIds /\ tokens \subseteq UserIds
      BY <2>1 DEF AnswerRegister, IInv, RowsAsFound, TypeOK
    <3>2. /\ tokens' \subseteq UserIds /\ "201" \in Status /\ Answer(t, "201")
          /\ UNCHANGED <<users, pets, next_user, next_pet>>
      BY <2>1, <3>1 DEF AnswerRegister, Status
    <3> QED BY <3>2, AnswerKeepsIInv
  <2>2. CASE AnswerLogin(t)
    <3>1. row[t].user \in UserIds /\ tokens \subseteq UserIds
      BY <2>2 DEF AnswerLogin, IInv, RowsAsFound, TypeOK
    <3>2. /\ tokens' \subseteq UserIds /\ "200" \in Status /\ "401" \in Status
          /\ Answer(t, "200") \/ Answer(t, "401")
          /\ UNCHANGED <<users, pets, next_user, next_pet>>
      BY <2>2, <3>1 DEF AnswerLogin, Status
    <3> QED BY <3>2, AnswerKeepsIInv
  <2>3. CASE AnswerUpdate(t)
    <3>1. /\ tokens' \subseteq UserIds /\ "200" \in Status /\ Answer(t, "200")
          /\ UNCHANGED <<users, pets, next_user, next_pet>>
      BY <2>3 DEF AnswerUpdate, Status, db, IInv, TypeOK
    <3> QED BY <3>1, AnswerKeepsIInv
  <2> QED BY <1>3, <2>1, <2>2, <2>3, CreatePetKeepsIInv, CommitRegisterKeepsIInv,
             DeleteAllergiesKeepsIInv, CommitUpdateKeepsIInv, CommitWithdrawKeepsIInv
          DEF Proceed
<1>4. ASSUME NEW t \in Threads, Fail(t) \/ DeadlockVictim(t) PROVE IInv'
  <2>1. /\ tokens' \subseteq UserIds /\ "500" \in Status /\ Answer(t, "500")
        /\ UNCHANGED <<users, pets, next_user, next_pet>>
    BY <1>4 DEF Fail, DeadlockVictim, Status, db, IInv, TypeOK
  <2> QED BY <2>1, AnswerKeepsIInv
<1> QED BY <1>1, <1>2, <1>3, <1>4, CrashKeepsIInv, StutterKeepsIInv DEF Next

(* The inductive invariant of the registry: what a transaction has found   *)
(* stays so while it holds the rows, ids are of one row or request, and an *)
(* address that has passed the unique index is claimed until the COMMIT.   *)
THEOREM SpecIInv == Spec => []IInv
<1> QED BY InitIInv, NextKeepsIInv, PTL DEF Spec

(* Rows and requests keep their types, whatever fails or deadlocks.        *)
THEOREM SpecTypeOK == Spec => []TypeOK
BY SpecIInv, PTL DEF IInv

(* Sign-ups that race each other and changes of address never leave two    *)
(* accounts that one login could mean.                                     *)
THEOREM SpecUniqueLogins == Spec => []UniqueLogins
BY SpecIInv, PTL DEF IInv

-----------------------------------------------------------------------------
(* The registry begins with the same rows, and no request applied.         *)
LEMMA InitRefines == Init => Reg!Init
BY DEF Init, Reg!Init

(* The COMMIT of a registration enters its account and its pet.            *)
LEMMA CommitRegisterRegisters ==
  ASSUME IInv, NEW t \in Threads, CommitRegister(t)
  PROVE  Reg!Next
<1> DEFINE r == req[t]
           u == row[t].user
           p == row[t].pet
<1>1. /\ pc[t] = "pet_created" /\ applied' = r
      /\ users' = [users EXCEPT ![u] =
           [auth_uid |-> r.email, email |-> r.email, name |-> r.name, withdrawn |-> FALSE]]
      /\ pets' = [pets EXCEPT ![p] =
           [user |-> u, name |-> r.pet_name, survey |-> r.survey, allergies |-> r.allergies]]
  BY DEF CommitRegister, Commit, NewUser, NewPet
<1>2. /\ u \in UserIds /\ p \in PetIds /\ users[u] = NoRow /\ pets[p] = NoRow
      /\ r \in Registrations
      /\ \A w \in UserIds : users[w] # NoRow => users[w].email # r.email
      /\ \A w \in UserIds : users[w] # NoRow => users[w].auth_uid # r.email
  BY <1>1, CommitRegisterFinds DEF Exists
<1> HIDE DEF r, u, p
<1>3. Reg!Register(r)
  BY <1>1, <1>2 DEF Reg!Register, Reg!Free
<1> QED BY <1>2, <1>3 DEF Reg!Next

(* The COMMIT of a change enters every column it gives: the allergies that *)
(* it has deleted are all that the pet has.                                *)
LEMMA CommitUpdateChanges ==
  ASSUME IInv, NEW t \in Threads, CommitUpdate(t)
  PROVE  Reg!Next
<1> DEFINE c == req[t]
           u == c.user
           p == c.pet
<1>1. /\ c \in Changes /\ c \in Change /\ u \in UserIds /\ users[u] \in UserRow
      /\ users' = [users EXCEPT ![u] = ChangedUser(users[u], c)]
  BY CommitUpdateWrites, AccountsConstantsOK
<1>2. users[u] # NoRow /\ applied' = c
  BY <1>1, AccountsConstantsOK DEF CommitUpdate, Commit
<1>3. c.email # Keep => Reg!Free(c.email, u)
  <2> SUFFICES ASSUME c.email # Keep PROVE Reg!Free(c.email, u)
    OBVIOUS
  <2>1. pc[t] \in {"details_read", "email_indexed"} /\ pc[t] \notin Registering
    BY DEF CommitUpdate, Registering
  <2>2. c.email \in Emails /\ Claims(t, c.email)
    BY <1>1, <2>1 DEF Change, Claims
  <2>3. ~EmailTaken(c.email, u)
    BY <2>1, <2>2 DEF IInv, KeysClaimed
  <2> QED BY <2>3 DEF EmailTaken, Exists, Reg!Free
<1>4. users' = [users EXCEPT ![u].email = Reg!Given(c.email, @),
                             ![u].name = Reg!Given(c.name, @)]
  <2> DEFINE email == Given(c.email, users[u].email)
             name == Given(c.name, users[u].name)
             both == [users EXCEPT ![u].email = email, ![u].name = name]
  <2>1. ChangedUser(users[u], c) = [users[u] EXCEPT !.email = email, !.name = name]
    BY DEF ChangedUser
  <2>2. users' = both
    <3>1. users' = [users EXCEPT ![u] = [users[u] EXCEPT !.email = email, !.name = name]]
      BY <1>1, <2>1
    <3> HIDE DEF email, name, u
    <3> QED BY <1>1, <3>1 DEF IInv, TypeOK
  <2>3. both = [users EXCEPT ![u].email = Reg!Given(c.email, @),
                             ![u].name = Reg!Given(c.name, @)]
    BY DEF Given, Reg!Given
  <2> HIDE DEF both
  <2> QED BY <2>2, <2>3
<1>5. CASE ~TouchesPet(c)
  <2>1. UNCHANGED pets
    BY <1>5, CommitUpdateWrites
  <2>2. c.pet_name = Keep /\ c.survey = Keep /\ c.allergies = Keep
    BY <1>5 DEF TouchesPet
  <2>3. Reg!Change(c)
    <3> HIDE DEF c, u
    <3> QED BY <1>1, <1>2, <1>3, <1>4, <2>1, <2>2 DEF Reg!Change, u
  <2> QED BY <1>1, <2>3 DEF Reg!Next
<1>6. CASE TouchesPet(c)
  <2> DEFINE old == pets[p]
             name == Given(c.pet_name, old.name)
             survey == Given(c.survey, old.survey)
             allergies == Given(c.allergies, old.allergies)
             all == [pets EXCEPT ![p].name = name, ![p].survey = survey,
                                 ![p].allergies = allergies]
  <2>1. /\ p \in PetIds /\ old \in PetRow /\ old.user = u
        /\ row[t].deleted = IF c.allergies = Keep THEN {} ELSE old.allergies
        /\ pets' = [pets EXCEPT ![p] = ChangedPet(old, c, row[t].deleted)]
    BY <1>6, CommitUpdateWrites
  <2>2. ChangedPet(old, c, row[t].deleted) =
          [user |-> old.user, name |-> name, survey |-> survey, allergies |-> allergies]
    <3>1. allergies = (old.allergies \ row[t].deleted)
                        \cup (IF c.allergies = Keep THEN {} ELSE c.allergies)
      BY <1>1, <2>1 DEF Given, Change, PetRow
    <3>2. ChangedPet(old, c, row[t].deleted) =
            [user |-> old.user, name |-> name, survey |-> survey,
             allergies |-> (old.allergies \ row[t].deleted)
                             \cup (IF c.allergies = Keep THEN {} ELSE c.allergies)]
      BY <1>1, <2>1, ChangedPetColumns
    <3> QED BY <3>1, <3>2
  <2>3. pets' = all
    <3>1. old = [user |-> old.user, name |-> old.name, survey |-> old.survey,
                 allergies |-> old.allergies]
      BY <2>1 DEF PetRow
    <3>2. [old EXCEPT !.name = name, !.survey = survey, !.allergies = allergies] =
            [user |-> old.user, name |-> name, survey |-> survey, allergies |-> allergies]
      <4> HIDE DEF name, survey, allergies
      <4> DEFINE named == [old EXCEPT !.name = name]
                 noted == [named EXCEPT !.survey = survey]
      <4>1. named = [user |-> old.user, name |-> name, survey |-> old.survey,
                     allergies |-> old.allergies]
        BY <3>1
      <4>2. noted = [user |-> old.user, name |-> name, survey |-> survey,
                     allergies |-> old.allergies]
        <5> HIDE DEF named
        <5> QED BY <4>1
      <4>3. [old EXCEPT !.name = name, !.survey = survey, !.allergies = allergies] =
              [noted EXCEPT !.allergies = allergies]
        OBVIOUS
      <4> HIDE DEF noted
      <4> QED BY <4>2, <4>3
    <3>3. pets' = [pets EXCEPT ![p] =
            [old EXCEPT !.name = name, !.survey = survey, !.allergies = allergies]]
      BY <2>1, <2>2, <3>2
    <3> HIDE DEF name, survey, allergies, p
    <3> QED BY <2>1, <3>3 DEF IInv, TypeOK
  <2>4. all = [pets EXCEPT ![p].name = Reg!Given(c.pet_name, @),
                           ![p].survey = Reg!Given(c.survey, @),
                           ![p].allergies = Reg!Given(c.allergies, @)]
    BY DEF Given, Reg!Given
  <2>5. p # Keep /\ pets[p] # NoRow
    BY <2>1, AccountsConstantsOK
  <2>6. ~(c.pet_name = Keep /\ c.survey = Keep /\ c.allergies = Keep)
    BY <1>6 DEF TouchesPet
  <2>7. Reg!Change(c)
    <3>1. pets' = [pets EXCEPT ![p].name = Reg!Given(c.pet_name, @),
                               ![p].survey = Reg!Given(c.survey, @),
                               ![p].allergies = Reg!Given(c.allergies, @)]
      <4> HIDE DEF all
      <4> QED BY <2>3, <2>4
    <3> HIDE DEF c
    <3> QED BY <1>1, <1>2, <1>3, <1>4, <2>1, <2>5, <2>6, <3>1 DEF Reg!Change
  <2> QED BY <1>1, <2>7 DEF Reg!Next
<1> QED BY <1>5, <1>6

(* The COMMIT of a withdrawal is final.                                    *)
LEMMA CommitWithdrawWithdraws ==
  ASSUME IInv, NEW t \in Threads, CommitWithdraw(t)
  PROVE  Reg!Next
<1> DEFINE u == row[t].user
<1>1. /\ u \in UserIds /\ users[u] # NoRow /\ ~users[u].withdrawn
      /\ users' = [users EXCEPT ![u].withdrawn = TRUE]
  BY CommitWithdrawWrites, AccountsConstantsOK
<1>2. applied' = Nothing /\ UNCHANGED pets
  BY DEF CommitWithdraw, Answer
<1>3. Reg!Withdraw(u)
  <2> HIDE DEF u
  <2> QED BY <1>1, <1>2 DEF Reg!Withdraw
<1> QED BY <1>1, <1>3 DEF Reg!Next

(* Every step is a step of the registry, or shows nothing there.           *)
LEMMA NextRefines == IInv /\ [Next]_vars => [Reg!Next]_(Reg!vars)
<1> SUFFICES ASSUME IInv, [Next]_vars PROVE Reg!Next \/ UNCHANGED Reg!vars
  OBVIOUS
<1>1. ASSUME applied' = Nothing, UNCHANGED <<users, pets>> PROVE Reg!Next
  BY <1>1 DEF Reg!Next, Reg!Pass
<1>2. ASSUME NEW t \in Threads, Begin(t) PROVE Reg!Next
  BY <1>1, <1>2 DEF Begin, BeginRegister, AdminPatch, OwnPatch, BeginUpdate, BeginWithdraw,
                    BeginLogin, Answer, Step, db
<1>3. ASSUME NEW t \in Threads, Waiting(t) PROVE Reg!Next
  BY <1>1, <1>3 DEF Waiting, CreateUser, UpdateUser, IndexEmail, UpdatePet, WithdrawUser,
                    Answer, Step, db
<1>4. ASSUME NEW t \in Threads, Proceed(t) PROVE Reg!Next
  <2>1. ASSUME CreatePet(t) \/ AnswerRegister(t) \/ DeleteAllergies(t)
                 \/ AnswerUpdate(t) \/ AnswerLogin(t)
        PROVE  applied' = Nothing /\ UNCHANGED <<users, pets>>
    BY <2>1 DEF CreatePet, AnswerRegister, DeleteAllergies, AnswerUpdate, AnswerLogin,
                Answer, Step, db
  <2> QED BY <1>1, <1>4, <2>1, CommitRegisterRegisters, CommitUpdateChanges,
             CommitWithdrawWithdraws DEF Proceed
<1>5. ASSUME NEW t \in Threads, Fail(t) \/ DeadlockVictim(t) PROVE Reg!Next
  BY <1>1, <1>5 DEF Fail, DeadlockVictim, Answer, db
<1>6. CASE Crash
  BY <1>1, <1>6 DEF Crash, db
<1>7. CASE UNCHANGED vars
  BY <1>7 DEF vars, Reg!vars
<1> QED BY <1>2, <1>3, <1>4, <1>5, <1>6, <1>7 DEF Next

(* Statements, locks and commits implement the indivisible registration,   *)
(* change and withdrawal of Registry: no half account, no mixed change.    *)
THEOREM SpecImplementsRegistry == Spec => ImplementsRegistry
BY InitRefines, NextRefines, SpecIInv, PTL DEF Spec, ImplementsRegistry, Reg!Spec

=============================================================================
