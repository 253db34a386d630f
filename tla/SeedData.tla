------------------------------ MODULE SeedData ------------------------------
(***************************************************************************)
(* The synthetic shop that gen_seed.py writes and load_csv.py loads.  The  *)
(* generator draws one row after the other: members, their pets, products, *)
(* purchases moved over from review.csv, further purchases.  The database  *)
(* cannot check how the times of different rows fit together, or that a    *)
(* purchase suits the animal; the generator has to.                        *)
(*                                                                         *)
(* Day d has two instants, 2d and 2d+1: a date stands for its first one,   *)
(* or, where a draw ends, for its last one.                                *)
(***************************************************************************)
EXTENDS Integers, Sequences, FiniteSets

CONSTANTS
  ServiceOpen, Today,      \* days
  OpenUntil,               \* the last day of sign-ups, Today less 14 days
  RecentFrom,              \* Today less 90 days
  DormantUntil,            \* Today less 180 days
  BirthDays, Lifetime,     \* birthdays of pets of 0 to 15 years; 15 years
  Calendar,                \* day -> [month |-> months so far, day |-> of the month]
  Drawn,                   \* instants and days that a draw gives besides its two ends
  NUsers, MaxPets, NProducts,
  NExtra, NSolo,           \* purchases added to those of review.csv, or without it
  Providers, Animals,
  Breeds, BreedAnimal, BodySize, DefaultSize, BreedCounts,
  Allergens, Parent, NoParent, MaxPicks,
  AllergenFiles,           \* orders of the rows of allergen.csv
  Kinds,                   \* of products: category, animals, is_active
  ReviewDays,              \* between a purchase and its review, of 1 to 14
  SourceFiles,             \* contents of review.csv; the empty one: no file
  MaxSignUps

Never == -1
Days == 0..Today
Now == 2 * Today + 1
AsDt(day) == 2 * day
EndOf(day) == 2 * day + 1
DayOf(t) == t \div 2
Later(a, b) == IF a < b THEN b ELSE a
Earlier(a, b) == IF a < b THEN a ELSE b

SourceRow ==
  [id: Nat \ {0}, pet: Nat, customer: Nat, size: 1..5, product: 1..NProducts,
   day: Days]

ASSUME SeedConstantsOK ==
  /\ {ServiceOpen, Today, OpenUntil, RecentFrom, DormantUntil, Lifetime} \subseteq Nat
  /\ ServiceOpen <= OpenUntil /\ {OpenUntil, RecentFrom, DormantUntil} \subseteq 0..Today
  /\ BirthDays \subseteq Days /\ Drawn \subseteq Nat
  /\ Calendar \in [Days -> [month: Nat, day: Nat]]
  /\ {NUsers, MaxPets, NProducts, NExtra, NSolo, MaxSignUps} \subseteq Nat /\ NUsers > 0
  /\ BreedAnimal \in [Breeds -> Animals] /\ BodySize \in [Breeds -> 1..5]
  /\ Parent \in [Allergens -> Allergens \cup {NoParent}]
  /\ DefaultSize \in [Animals -> 1..5] /\ ReviewDays \subseteq 1..14
  /\ Kinds \subseteq [category: Nat, animals: SUBSET Animals, is_active: {0, 1}]
  /\ AllergenFiles \subseteq Seq(Allergens)
  /\ SourceFiles \subseteq Seq(SourceRow)
  /\ \A file \in SourceFiles : \A i, j \in DOMAIN file : file[i].id = file[j].id => i = j

(* allergen.csv has every allergen once, and none lies under itself.       *)
ASSUME AllergensOK ==
  /\ IsFiniteSet(Allergens)
  /\ \A file \in AllergenFiles :
       /\ \A a \in Allergens : \E i \in DOMAIN file : file[i] = a
       /\ \A i, j \in DOMAIN file : file[i] = file[j] => i = j
  /\ \E depth \in [Allergens -> 0..(Cardinality(Allergens) - 1)] :
       \A a \in Allergens : Parent[a] # NoParent => depth[Parent[a]] < depth[a]

(* The dates of the calendar come in order.                                *)
ASSUME CalendarOK ==
  \A d, e \in Days : d <= e =>
     \/ Calendar[d].month < Calendar[e].month
     \/ Calendar[d].month = Calendar[e].month /\ Calendar[d].day <= Calendar[e].day

VARIABLES
  phase,             \* what is being generated, then "written", "loaded"; or "crashed"
  turn,              \* the member whose pets are drawn
  user, pet, product, purchase,   \* the rows, in the order of their ids
  pet_breed, pet_allergy,         \* the pairs of the link tables
  review,            \* when each purchase was reviewed
  source,            \* review.csv
  sequence,          \* what the database gives the next rows of user and pet
  joined,            \* the ids of the members and pets who signed up since
  answer             \* to the last sign-up

people == <<user, pet, pet_breed, pet_allergy, turn>>
orders == <<purchase, review>>
database == <<sequence, joined, answer>>
vars == <<phase, people, product, orders, source, database>>

-----------------------------------------------------------------------------
(* The tools.                                                              *)

(* rdt and rdate: an instant or a day between the two, or the first one.   *)
Draw(start, end) ==
  IF end < start THEN {start}
  ELSE {start, end} \cup {t \in Drawn : start < t /\ t < end}

(* Mutant: the month counts until its birthday has come.                   *)
MonthsTurned(birth, at) ==
  Calendar[at].month - Calendar[birth].month
    - (IF Calendar[at].day > Calendar[birth].day THEN 1 ELSE 0)

(* age_months before it is cut off at 0.                                   *)
MonthsPassed(birth, at) ==
  Calendar[at].month - Calendar[birth].month
    - (IF Calendar[at].day < Calendar[birth].day THEN 1 ELSE 0)

(* age_months.                                                             *)
AgeMonths(birth, at) == Later(MonthsPassed(birth, at), 0)

(* descendants: the allergen and everything below it, layer by layer.      *)
Below[n \in Nat] ==
  [a \in Allergens |->
     IF n = 0 THEN {a}
     ELSE {a} \cup UNION {Below[n - 1][c] : c \in {b \in Allergens : Parent[b] = a}}]

Descendants(a) == Below[Cardinality(Allergens)][a]

(* pick_breeds: different breeds of the animal, as many as were drawn.     *)
BreedPicks(animal) ==
  {bs \in SUBSET {b \in Breeds : BreedAnimal[b] = animal} :
     Cardinality(bs) \in BreedCounts[animal]}

-----------------------------------------------------------------------------
Init ==
  /\ phase = "users" /\ turn = 1
  /\ user = <<>> /\ pet = <<>> /\ product = <<>>
  /\ pet_breed = {} /\ pet_allergy = {}
  /\ purchase = <<>> /\ review = <<>>
  /\ source = <<>>
  /\ sequence = [user |-> 1, pet |-> 1]
  /\ joined = [user |-> {}, pet |-> {}] /\ answer = "none"

Uids == {user[i].auth_uid : i \in DOMAIN user}

(* shareable.                                                              *)
Shareable(provider) ==
  {uid \in Uids : \A i \in DOMAIN user : <<user[i].provider, user[i].auth_uid>> # <<provider, uid>>}

(* A member of gen_users.  A new uid is drawn until nobody has it; it is   *)
(* numbered here.                                                          *)
GenUser ==
  /\ phase = "users"
  /\ \E provider \in Providers, created \in Draw(AsDt(ServiceOpen), EndOf(OpenUntil)) :
     \E uid \in Shareable(provider) \cup {Cardinality(Uids) + 1},
        last_login \in {Never} \cup Draw(created, EndOf(DormantUntil))
                         \cup Draw(Later(created, AsDt(RecentFrom)), Now) :
     \E withdrawn \in {Never} \cup Draw(IF last_login = Never THEN created ELSE last_login, Now) :
       user' = Append(user, [provider |-> provider, auth_uid |-> uid, created |-> created,
                             last_login |-> last_login, withdrawn |-> withdrawn])
  /\ phase' = IF Len(user) + 1 = NUsers THEN "pets" ELSE "users"
  /\ UNCHANGED <<turn, pet, pet_breed, pet_allergy, product, orders, source, database>>

(* Mutant: a pet registered after the last login or the withdrawal.        *)
NoCeiling(u) == Now

(* The last instant at which the member can have registered a pet.         *)
Ceiling(u) ==
  IF u.withdrawn = Never THEN u.last_login ELSE Earlier(u.last_login, u.withdrawn)

Registers(u) == u.last_login # Never /\ u.created <= Ceiling(u)

(* Nobody registers a pet that is born after the last login: the birthday  *)
(* is drawn again.                                                         *)
Birthdays(u, birth) ==
  IF AsDt(birth) <= Ceiling(u) THEN {birth}
  ELSE Draw(Later(DayOf(u.created), DayOf(Ceiling(u)) - Lifetime), DayOf(Ceiling(u)))

Registrable(u, birth) == Later(u.created, AsDt(birth))

(* Mutant: one more than giant.                                            *)
SizesPastFive(animal, breeds) ==
  UNION {{BodySize[b], BodySize[b] + 1} : b \in breeds} \cup {DefaultSize[animal]}

(* The size of the breed, or one off it.                                   *)
Sizes(animal, breeds) ==
  LET standard == IF breeds = {} THEN {DefaultSize[animal]} ELSE {BodySize[b] : b \in breeds}
  IN  UNION {{s, Earlier(5, Later(1, s - 1)), Earlier(5, Later(1, s + 1))} : s \in standard}

(* A pet of gen_pets, with its breeds and its allergies spread out.        *)
GenPet ==
  /\ phase = "pets" /\ turn <= NUsers /\ Len(pet) < MaxPets
  /\ LET u == user[turn]
         id == Len(pet) + 1
     IN  /\ Registers(u)
         /\ \E animal \in Animals, drawn \in BirthDays :
            \E breeds \in BreedPicks(animal), birth \in Birthdays(u, drawn),
               picked \in {as \in SUBSET Allergens : Cardinality(as) <= MaxPicks} :
            \E size \in Sizes(animal, breeds), created \in Draw(Registrable(u, birth), Ceiling(u)) :
            \E inactive \in {Never} \cup Draw(created, Ceiling(u)) :
              /\ pet' = Append(pet, [user |-> turn, animal |-> animal, birth |-> birth,
                                     size |-> size, created |-> created, inactive |-> inactive])
              /\ pet_breed' = pet_breed \cup ({id} \X breeds)
              /\ pet_allergy' = pet_allergy \cup ({id} \X UNION {Descendants(a) : a \in picked})
  /\ UNCHANGED <<phase, turn, user, product, orders, source, database>>

(* The next member, after as many pets as were drawn: none, if nobody ever *)
(* logged in.                                                              *)
NextMember ==
  /\ phase = "pets"
  /\ turn' = turn + 1
  /\ phase' = IF turn = NUsers THEN "products" ELSE "pets"
  /\ UNCHANGED <<user, pet, pet_breed, pet_allergy, product, orders, source, database>>

(* A product of gen_products, as far as a purchase looks at it.            *)
GenProduct ==
  /\ phase = "products" /\ Len(product) < NProducts
  /\ \E kind \in Kinds, created \in Draw(AsDt(ServiceOpen), EndOf(Today)) :
       product' = Append(product, [category |-> kind.category, animals |-> kind.animals,
                                   is_active |-> kind.is_active, created |-> created])
  /\ UNCHANGED <<phase, people, orders, source, database>>

(* gen_purchases begins; from_source reads review.csv, if there is one.    *)
ReadSource ==
  /\ phase = "products" /\ Len(product) = NProducts
  /\ source' \in SourceFiles
  /\ phase' = "source"
  /\ UNCHANGED <<people, product, orders, database>>

-----------------------------------------------------------------------------
(* Purchases.                                                              *)

(* The pet of a row of review.csv: its own, or the first one of the same   *)
(* customer, or the one of the nearest size.                               *)
SourcePet(row) ==
  LET same_user == {i \in DOMAIN pet : pet[i].user = row.customer}
      Off(i) == IF pet[i].size < row.size THEN row.size - pet[i].size ELSE pet[i].size - row.size
  IN  IF row.pet \in DOMAIN pet THEN row.pet
      ELSE IF same_user # {} THEN CHOOSE i \in same_user : \A j \in same_user : i <= j
      ELSE CHOOSE i \in DOMAIN pet :
             \A j \in DOMAIN pet : Off(i) < Off(j) \/ (Off(i) = Off(j) /\ i <= j)

For(animal) == {i \in DOMAIN product : animal \in product[i].animals}

(* Mutant: the product of the row whatever the animal is.                  *)
SourceProductAsItIs(row, animal) == {row.product}

(* Its product: one for another animal is exchanged, if possible within    *)
(* the category.                                                           *)
SourceProducts(row, animal) ==
  LET own == product[row.product]
      alike == {i \in For(animal) : product[i].category = own.category}
  IN  IF own.animals = {} \/ animal \in own.animals THEN {row.product}
      ELSE IF alike # {} THEN alike ELSE For(animal)

(* Mutant: only the pet has to be there.                                   *)
PetFloor(i, j) == pet[i].created

(* Pet and product have to be there.                                       *)
Floor(i, j) == Later(pet[i].created, product[j].created)

(* When: on the day of the row, or later if that is too early.             *)
SourceTimes(row, floor) ==
  LET day_end == Earlier(EndOf(row.day), Now)
  IN  IF floor <= day_end THEN Draw(Later(AsDt(row.day), floor), day_end) ELSE Draw(floor, Now)

Bought(id, i, j, at) ==
  [id |-> id, pet |-> i, product |-> j, age_month |-> AgeMonths(pet[i].birth, DayOf(at)),
   size |-> pet[i].size, at |-> at]

(* The next row of from_source; its review is of the same instant.         *)
MoveRow ==
  /\ phase = "source" /\ Len(purchase) < Len(source) /\ pet # <<>>
  /\ LET row == source[Len(purchase) + 1]
         i == SourcePet(row)
     IN  \E j \in SourceProducts(row, pet[i].animal) :
         \E at \in SourceTimes(row, Floor(i, j)) :
           /\ purchase' = Append(purchase, Bought(row.id, i, j, at))
           /\ review' = Append(review, at)
  /\ UNCHANGED <<phase, people, product, source, database>>

SourceDone ==
  /\ phase = "source" /\ Len(purchase) = Len(source)
  /\ phase' = "purchases"
  /\ UNCHANGED <<people, product, orders, source, database>>

Ids == {purchase[k].id : k \in DOMAIN purchase}

LivePets == {i \in DOMAIN pet : pet[i].inactive = Never}
LiveProducts == {j \in DOMAIN product : product[j].is_active = 1}

(* Any product on sale for the animal, or any one on sale.                 *)
Candidates(animal) ==
  IF For(animal) \cap LiveProducts # {} THEN For(animal) \cap LiveProducts ELSE LiveProducts

Wanted == Len(source) + (IF source = <<>> THEN NSolo ELSE NExtra)

(* Mutant: ids are counted on from the number of rows.                     *)
IdAfterCount == Len(purchase) + 1

(* One above the highest.                                                  *)
NextId == IF purchase = <<>> THEN 1 ELSE (CHOOSE m \in Ids : \A n \in Ids : n <= m) + 1

(* A synthetic purchase of gen_purchases, and its review, 1 to 14 days     *)
(* later if that is not too late.                                          *)
GenPurchase ==
  /\ phase = "purchases" /\ Len(purchase) < Wanted
  /\ \E i \in LivePets : \E j \in Candidates(pet[i].animal) :
     \E at \in Draw(Floor(i, j), Now), days \in ReviewDays :
       /\ purchase' = Append(purchase, Bought(NextId, i, j, at))
       /\ review' = Append(review, Earlier(Now, at + 2 * days))
  /\ UNCHANGED <<phase, people, product, source, database>>

(* There is nothing to choose from: no pet to move a row to, no product    *)
(* for the animal, no living pet, nothing on sale.                         *)
Crash ==
  /\ \/ /\ phase = "source" /\ Len(purchase) < Len(source)
        /\ LET row == source[Len(purchase) + 1]
           IN  ~(pet # <<>> /\ SourceProducts(row, pet[SourcePet(row)].animal) # {})
     \/ /\ phase = "purchases" /\ Len(purchase) < Wanted
        /\ LivePets = {} \/ LiveProducts = {}
  /\ phase' = "crashed"
  /\ UNCHANGED <<people, product, orders, source, database>>

(* main: the files are written when everything is there.                   *)
WriteFiles ==
  /\ phase = "purchases" /\ Len(purchase) = Wanted
  /\ phase' = "written"
  /\ UNCHANGED <<people, product, orders, source, database>>

-----------------------------------------------------------------------------
(* The database.                                                           *)

Distinct(seq) == \A i, j \in DOMAIN seq : seq[i] = seq[j] => i = j

(* The keys, references and CHECKs of the tables.                          *)
KeysHold ==
  /\ Distinct([i \in DOMAIN user |-> <<user[i].provider, user[i].auth_uid>>])
  /\ Distinct([k \in DOMAIN purchase |-> purchase[k].id])

ReferencesHold ==
  /\ \A i \in DOMAIN pet : pet[i].user \in DOMAIN user /\ pet[i].animal \in Animals
  /\ pet_breed \subseteq (DOMAIN pet) \X Breeds /\ pet_allergy \subseteq (DOMAIN pet) \X Allergens
  /\ \A k \in DOMAIN purchase :
       purchase[k].pet \in DOMAIN pet /\ purchase[k].product \in DOMAIN product

ChecksHold ==
  /\ \A i \in DOMAIN user :
       \A t \in {user[i].last_login, user[i].withdrawn} \ {Never} : user[i].created <= t
  /\ \A i \in DOMAIN pet :
       /\ pet[i].size \in 1..5 /\ AsDt(pet[i].birth) <= pet[i].created
       /\ pet[i].inactive # Never => pet[i].created <= pet[i].inactive
  /\ \A k \in DOMAIN purchase : purchase[k].age_month >= 0 /\ purchase[k].size \in 1..5

Elements(rows) == {rows[i] : i \in DOMAIN rows}

(* The items that are ready: not out, with nothing to wait for.            *)
Ready(items, done) ==
  LET Kept[i \in Nat] ==
        IF i = 0 THEN <<>>
        ELSE IF /\ i \in DOMAIN items /\ items[i] \notin done
                /\ {Parent[items[i]]} \ {NoParent} \subseteq done
             THEN Append(Kept[i - 1], items[i]) ELSE Kept[i - 1]
  IN  Kept[Len(items)]

(* topo_sort, of the rows of a table that refers to itself: those that are *)
(* ready, one round after the other.  It raises when some are never ready. *)
topo_sort(items) ==
  LET Out[n \in Nat] ==
        IF n = 0 THEN <<>> ELSE Out[n - 1] \o Ready(items, Elements(Out[n - 1]))
  IN  Out[Len(items)]

(* The rows of allergen: a parent comes before its children, whatever the  *)
(* order of the file, and none is missing.                                 *)
ParentsFirst(rows) ==
  /\ Distinct(rows) /\ Elements(rows) = Allergens
  /\ \A i \in DOMAIN rows :
       Parent[rows[i]] \in {NoParent} \cup {rows[j] : j \in 1..(i - 1)}

AllergensFit == \A file \in AllergenFiles : ParentsFirst(topo_sort(file))

(* load_csv: all tables in one transaction.  The rows bring their ids; the *)
(* sequences behind the columns are new and stay where they are.           *)
Load ==
  /\ phase = "written"
  /\ phase' = IF AllergensFit /\ KeysHold /\ ReferencesHold /\ ChecksHold
             THEN "loaded" ELSE "refused"
  /\ UNCHANGED <<people, product, orders, source, database>>

UserIds == DOMAIN user \cup joined.user
PetIds == DOMAIN pet \cup joined.pet

(* register: a row of user and one of pet, with ids from the sequences,    *)
(* which a refused statement has moved on all the same.                    *)
SignUp ==
  /\ phase = "loaded" /\ sequence.user <= MaxSignUps
  /\ \E taken \in BOOLEAN :
       LET user_fits == ~taken /\ sequence.user \notin UserIds
           pet_fits == user_fits /\ sequence.pet \notin PetIds
       IN  /\ answer' = IF pet_fits THEN "created"
                        ELSE IF taken THEN "email_taken" ELSE "conflict"
           /\ sequence' = [user |-> sequence.user + 1,
                           pet |-> IF user_fits THEN sequence.pet + 1 ELSE sequence.pet]
           /\ joined' = IF pet_fits
                        THEN [user |-> joined.user \cup {sequence.user},
                              pet |-> joined.pet \cup {sequence.pet}]
                        ELSE joined
  /\ UNCHANGED <<phase, people, product, orders, source>>

Done ==
  /\ phase \in {"crashed", "refused"} \/ (phase = "loaded" /\ sequence.user > MaxSignUps)
  /\ UNCHANGED vars

Next ==
  \/ GenUser \/ GenPet \/ NextMember
  \/ GenProduct \/ ReadSource
  \/ MoveRow \/ SourceDone \/ GenPurchase \/ Crash
  \/ WriteFiles \/ Load \/ SignUp \/ Done

Spec == Init /\ [][Next]_vars

-----------------------------------------------------------------------------
UserRow ==
  [provider: Providers, auth_uid: Nat, created: Nat, last_login: Nat \cup {Never},
   withdrawn: Nat \cup {Never}]
PetRow ==
  [user: Nat, animal: Animals, birth: Days, size: 1..5, created: Nat,
   inactive: Nat \cup {Never}]
ProductRow == [category: Nat, animals: SUBSET Animals, is_active: {0, 1}, created: Nat]
PurchaseRow == [id: Nat, pet: Nat, product: Nat, age_month: Nat, size: 1..5, at: Nat]

(* The tables hold rows of their types.                                    *)
TypeOK ==
  /\ phase \in {"users", "pets", "products", "source", "purchases", "written", "crashed",
                "loaded", "refused"}
  /\ turn \in 1..(NUsers + 1)
  /\ user \in Seq(UserRow) /\ pet \in Seq(PetRow) /\ product \in Seq(ProductRow)
  /\ pet_breed \subseteq Nat \X Breeds /\ pet_allergy \subseteq Nat \X Allergens
  /\ purchase \in Seq(PurchaseRow) /\ review \in Seq(Nat)
  /\ source \in SourceFiles \cup {<<>>}
  /\ sequence \in [user: Nat, pet: Nat]
  /\ joined \in [user: SUBSET Nat, pet: SUBSET Nat]
  /\ answer \in {"none", "created", "email_taken", "conflict"}

MemberTimes(u) ==
  /\ AsDt(ServiceOpen) <= u.created /\ u.created <= Now
  /\ u.last_login # Never => u.created <= u.last_login /\ u.last_login <= Now
  /\ u.withdrawn # Never => /\ u.created <= u.withdrawn /\ u.withdrawn <= Now
                            /\ u.last_login <= u.withdrawn

PetTimes(p, u) ==
  /\ u.created <= p.created /\ AsDt(p.birth) <= p.created
  /\ p.created <= u.last_login
  /\ u.withdrawn # Never => p.created <= u.withdrawn
  /\ p.inactive # Never => p.created <= p.inactive /\ p.inactive <= u.last_login

(* Nobody does anything before signing up or after withdrawing: a pet is   *)
(* registered after its birth and its owner's sign-up, and before the      *)
(* owner's last login and withdrawal; it dies later than that.  (Where     *)
(* gen_users and gen_pets draw each time between the others.)              *)
PetsFitOwners ==
  /\ \A i \in DOMAIN user : MemberTimes(user[i])
  /\ \A i \in DOMAIN pet : pet[i].user \in DOMAIN user /\ PetTimes(pet[i], user[pet[i].user])

(* A purchase is later than the registration of its pet and the listing of *)
(* its product, and its review is not earlier; both are in the past.       *)
(* (Where from_source moves a row to another pet, product and time.)       *)
PurchasesFitRows ==
  \A k \in DOMAIN purchase :
    LET o == purchase[k]
    IN  /\ o.pet \in DOMAIN pet /\ o.product \in DOMAIN product
        /\ pet[o.pet].created <= o.at /\ product[o.product].created <= o.at /\ o.at <= Now
        /\ k \in DOMAIN review /\ o.at <= review[k] /\ review[k] <= Now

(* A product for other animals is bought only where nothing on sale is for *)
(* this one, and never by a moved row.                                     *)
PurchasesSuitAnimals ==
  \A k \in DOMAIN purchase :
    LET o == purchase[k]
        animal == pet[o.pet].animal
    IN  \/ animal \in product[o.product].animals
        \/ k <= Len(source) /\ product[o.product].animals = {}
        \/ k > Len(source) /\ For(animal) \cap LiveProducts = {}

(* An animal does not get younger: of two purchases for one pet the later  *)
(* one has the same or a higher age.                                       *)
AgesAdvance ==
  \A k, l \in DOMAIN purchase :
    purchase[k].pet = purchase[l].pet /\ purchase[k].at <= purchase[l].at
      => purchase[k].age_month <= purchase[l].age_month

(* What the generator writes, the database takes: keys, references and     *)
(* CHECKs hold, for any review.csv, any draws and any order of the rows of *)
(* allergen.csv, whose parents load_csv puts first.                        *)
SeedLoads == phase # "refused"

(* What keeps all of these.  A table is complete, and no row of it changes *)
(* any more, when the next one refers to it.                               *)
TablesInOrder ==
  /\ phase = "users" => Len(user) < NUsers /\ pet = <<>>
  /\ phase # "users" => Len(user) = NUsers
  /\ phase \in {"users", "pets"} => turn <= NUsers
  /\ phase \in {"users", "pets"} => product = <<>>
  /\ phase \in {"users", "pets", "products"} => purchase = <<>> /\ source = <<>>
  /\ phase \notin {"users", "pets", "products"} => Len(product) = NProducts
  /\ Len(review) = Len(purchase)
  /\ phase = "source" => Len(purchase) <= Len(source)
  /\ phase \in {"purchases", "written"} => Len(source) <= Len(purchase)

(* uid numbers the members who do not share one.                           *)
UidsNumbered == \E n \in Nat : Uids = 1..n

ProductsListed == \A j \in DOMAIN product : product[j].created <= Now

(* The rows of review.csv keep their ids; there is a highest id.           *)
IdsKept ==
  /\ \A k \in DOMAIN purchase : k <= Len(source) => purchase[k].id = source[k].id
  /\ \E highest \in Nat : \A k \in DOMAIN purchase : purchase[k].id <= highest

(* The age at a purchase is the age of the pet on the day of the purchase. *)
AgesRight ==
  \A k \in DOMAIN purchase :
    purchase[k].age_month = AgeMonths(pet[purchase[k].pet].birth, DayOf(purchase[k].at))

IInv ==
  /\ TypeOK /\ TablesInOrder
  /\ PetsFitOwners /\ ProductsListed /\ PurchasesFitRows /\ PurchasesSuitAnimals
  /\ UidsNumbered /\ IdsKept /\ AgesRight
  /\ KeysHold /\ ReferencesHold
  /\ SeedLoads

(* auth.py:78: the only unique keys a sign-up can meet are the e-mail and  *)
(* the auth_uid that equals it.                                            *)
OnlyEmailsConflict == answer # "conflict"

=============================================================================
