----------------------------- MODULE Catalogue -----------------------------
(***************************************************************************)
(* Which products a member is offered.  The tables of the catalogue come   *)
(* from load_csv.py; a server reads the master tables once, when it        *)
(* starts; members pick allergens by name; administrators change products; *)
(* and four requests look for products:                                    *)
(*                                                                         *)
(*   mine    GET /me/recommend   for the first pet of the member           *)
(*   alike   similar-reviews     for it, by the last review of the member  *)
(*   asked   POST /recommend     for what the body of the request says     *)
(*   demo    poc_signup          a new member with a history of purchases  *)
(*                                                                         *)
(* A row of chunk_vectors stands for the chunk of its purchase that is     *)
(* nearest to the question (search keeps no other); how near, \E sim says. *)
(***************************************************************************)
EXTENDS Integers, FiniteSets, FiniteSetsExt

CONSTANTS
  Names,               \* of allergens
  Ingredients, Animals, Owners,
  Loads,               \* what the CSV files can hold
  Picks,               \* sets of names that members pick
  EditedPets,          \* pets that they pick them for
  AdminProducts,       \* products that administrators change
  NewProducts,         \* ids that the next product may get
  Patches,             \* the values <<is_active, ingredients_verified>> they give
  Questions,           \* bodies of POST /recommend, as profiles
  Sims, Low, High,     \* similarities; MATCH_RANGE
  MinRating, Limit, Wide,   \* 3; of /me/recommend, 5; of /recommend, 20
  NPick, MaxRetries,
  Down, Unknown,
  DemoOwner, DemoPet, DemoRows, DemoName, DemoAnimal, DemoSize, DemoCount

NoAnimal == "any"
NoSize == 0              \* NULL
Nothing == 0             \* no product
Product == [active: 0..1, verified: 0..1, ingredients: SUBSET Ingredients,
            animals: SUBSET Animals, says: SUBSET Names]
PetRow == [owner: Owners, animal: Animals, size: 0..5, allergies: SUBSET Nat, active: BOOLEAN]
PurchaseRow == [product: Nat, pet: Nat, size: 0..5, rating: 0..5]
Profile == [animal: Animals \cup {NoAnimal}, size: 0..5, allergy: SUBSET Names]

(* The names of allergens are unique, and their tree is finite.            *)
TreeOK(tree) ==
  /\ IsFiniteSet(DOMAIN tree) /\ DOMAIN tree \subseteq Nat \ {0}
  /\ tree \in [DOMAIN tree -> [name: Names, parent: Nat]]
  /\ \A a \in DOMAIN tree : tree[a].parent \in DOMAIN tree \cup {0}
  /\ \A a, b \in DOMAIN tree : tree[a].name = tree[b].name => a = b

(* The keys, references and CHECKs of the tables.                          *)
RowsOK(tree, carried, products, pets, purchases) ==
  /\ carried \in [Ingredients -> SUBSET DOMAIN tree]
  /\ IsFiniteSet(DOMAIN products) /\ DOMAIN products \subseteq Nat \ {0}
  /\ products \in [DOMAIN products -> Product]
  /\ DOMAIN pets \subseteq Nat /\ pets \in [DOMAIN pets -> PetRow]
  /\ \A q \in DOMAIN pets : pets[q].allergies \subseteq DOMAIN tree
  /\ DOMAIN purchases \subseteq Nat /\ purchases \in [DOMAIN purchases -> PurchaseRow]
  /\ \A r \in DOMAIN purchases :
       purchases[r].product \in DOMAIN products /\ purchases[r].pet \in DOMAIN pets

(* gen_seed.py gives a pet with an allergy all that lies under it.         *)
SpreadOut(tree, pets) ==
  \A q \in DOMAIN pets : \A a \in DOMAIN tree :
    tree[a].parent \in pets[q].allergies => a \in pets[q].allergies

ASSUME CatalogueConstantsOK ==
  /\ \A l \in Loads : /\ TreeOK(l.allergen)
                      /\ RowsOK(l.allergen, l.carries, l.product, l.pet, l.purchase)
                      /\ SpreadOut(l.allergen, l.pet)
  /\ Picks \subseteq SUBSET Names /\ Patches \subseteq (0..1) \X (0..1) /\ Questions \subseteq Profile
  /\ NewProducts \subseteq Nat \ {0} /\ {Low, High} \cup Sims \subseteq Int /\ Low < High
  /\ {Limit, Wide, NPick} \subseteq Nat \ {0} /\ MinRating \in 1..5 /\ MaxRetries \in Nat
  /\ DemoName \in Names /\ DemoCount \in Nat \ {0} /\ DemoRows \in [1..DemoCount -> Nat \ {0}]
  /\ DemoPet \in Nat /\ DemoOwner \in Owners /\ DemoAnimal \in Animals /\ DemoSize \in 1..5

VARIABLES
  allergen, carries,         \* tables allergen and ingredient_allergen
  product, pet, purchase,    \* with their link tables, and the review of a purchase
  indexed,                   \* the purchases in chunk_vectors
  cache,                     \* the master tables as the server read them
  loading,                   \* load_csv.py has asked for its first lock
  request,                   \* the request under way
  wanted                     \* the names picked for each pet, when its ids mean them

masters == <<allergen, carries>>
tables == <<allergen, carries, product, pet, purchase>>
vars == <<tables, indexed, cache, loading, request, wanted>>

Idle == [step |-> "idle"]
Free == request = Idle

-----------------------------------------------------------------------------
(* The tree of allergens in memory (set_allergen_info, resolve_allergen_ids,*)
(* _descendant_ids, get_allergen).                                         *)
Children(tree, found) == {a \in DOMAIN tree : tree[a].parent \in found}

(* Mutant: the children alone, not their children.                         *)
ChildrenOnly(tree, a) == Children(tree, {a})

_descendant_ids(tree, a) ==
  LET Below[n \in Nat] ==
        IF n = 0 THEN Children(tree, {a}) ELSE Below[n - 1] \cup Children(tree, Below[n - 1])
  IN  Below[Cardinality(DOMAIN tree)]

resolve_allergen_ids(names) ==
  UNION {{a} \cup _descendant_ids(cache.allergen, a) :
           a \in {b \in DOMAIN cache.allergen : cache.allergen[b].name \in names}}

(* Whether get_allergen finds the ids.  Mutant: it looks among the roots.   *)
CachedRoots(ids) == \A a \in ids : a \in DOMAIN cache.allergen /\ cache.allergen[a].parent = 0

Cached(ids) == ids \subseteq DOMAIN cache.allergen

NameOf(tree, ids) == {tree[a].name : a \in ids}
AllergensOf(p, carried) == UNION {carried[i] : i \in product[p].ingredients}

(* judge: the verdict from the caches.                                     *)
_hit_allergens(p, ids) == AllergensOf(p, cache.carries) \cap ids

(* Mutant: whether anyone checked the list is asked first.                 *)
judge_checks_first(p, ids) ==
  IF product[p].ingredients = {} \/ product[p].verified = 0 THEN "unknown"
  ELSE IF _hit_allergens(p, ids) # {} THEN "warn" ELSE "safe"

judge(p, ids) ==
  IF product[p].ingredients = {} THEN "unknown"
  ELSE IF _hit_allergens(p, ids) # {} THEN "warn"
  ELSE IF product[p].verified = 0 THEN "unknown" ELSE "safe"

(* The view v_product_safety: the verdict from the tables, for the pets and *)
(* the products it joins.                                                  *)
InView(q, p) == /\ pet[q].active /\ product[p].active = 1
                /\ pet[q].animal \in product[p].animals

v_product_safety(q, p) ==
  IF AllergensOf(p, carries) \cap pet[q].allergies # {} THEN "warn"
  ELSE IF product[p].verified = 0 THEN "unknown" ELSE "safe"

(* FILTERS["allergy"]: one clause for each name.                           *)
PassesAllergy(p, names) == names \cap NameOf(allergen, AllergensOf(p, carries)) = {}

-----------------------------------------------------------------------------
(* The search.                                                             *)
build_where(profile, r) ==
  /\ purchase[r].rating >= MinRating
  /\ profile.size # NoSize => purchase[r].size = profile.size
  /\ PassesAllergy(purchase[r].product, profile.allergy)
  /\ profile.animal # NoAnimal => pet[purchase[r].pet].animal = profile.animal

Hits(profile) == {r \in indexed \cap DOMAIN purchase : build_where(profile, r)}

Bought(rows) == {purchase[r].product : r \in rows}
Smaller(m, n) == IF m < n THEN m ELSE n

(* The best row of each product.                                           *)
BestOfProduct(hits, rows, sim) ==
  \A r \in hits : \A s \in rows :
     purchase[s].product = purchase[r].product => (s \in hits => s = r) /\ sim[s] <= sim[r]

(* search: among the rows that suit, the best of each product, cut to      *)
(* top_k.  Of equals any may come first.                                   *)
search(hits, rows, sim, top_k) ==
  /\ hits \subseteq rows
  /\ Cardinality(hits) = Smaller(top_k, Cardinality(Bought(rows)))
  /\ BestOfProduct(hits, rows, sim)
  /\ \A r \in hits : \A s \in rows : purchase[s].product \in Bought(hits) \/ sim[s] <= sim[r]

match_rate(s) == IF s <= Low THEN 0 ELSE Smaller(s, High) - Low

(* The best rate of each product over rows, besides those in known.        *)
BestRates(known, rows, sim) ==
  [p \in DOMAIN known \cup Bought(rows) |->
     Max({match_rate(sim[r]) : r \in {s \in rows : purchase[s].product = p}}
           \cup {known[x] : x \in DOMAIN known \cap {p}})]

-----------------------------------------------------------------------------
(* GET /me/recommend.  The session of the request, once it has read, keeps *)
(* a shared lock on the tables until the answer.                           *)
Begin(u) ==
  /\ cache # Down /\ Free
  /\ request' = [step |-> "pets", owner |-> u]
  /\ UNCHANGED <<tables, indexed, cache, loading, wanted>>

primary_pet ==
  /\ request.step = "pets"
  /\ LET own == {q \in DOMAIN pet : pet[q].owner = request.owner /\ pet[q].active}
     IN  request' = IF own = {} THEN Idle
                    ELSE [step |-> "profile", pet |-> Min(own), but |-> Nothing]
  /\ UNCHANGED <<tables, indexed, cache, loading, wanted>>

(* GET /api/customers/<id>/similar-reviews asks with the last review of a   *)
(* member, of what was bought for any of the member's pets, for products   *)
(* like the one reviewed, but that one.  Times are left out: the last may  *)
(* be any of them.                                                         *)
get_user_detail(u) ==
  [pets |-> {q \in DOMAIN pet : pet[q].owner = u},
   reviewed |-> {r \in DOMAIN purchase : pet[purchase[r].pet].owner = u /\ purchase[r].rating > 0}]

similar_reviews_for(u) ==
  /\ cache # Down /\ Free /\ ~loading
  /\ LET detail == get_user_detail(u)
     IN  \E latest \in detail.reviewed :
           request' = [step |-> "profile", pet |-> Min(detail.pets), but |-> purchase[latest].product]
  /\ UNCHANGED <<tables, indexed, cache, loading, wanted>>

Fresh == cache # Down /\ cache.allergen = allergen /\ cache.carries = carries

(* pet_profile, survey_notes, survey_queries: a note is a question; without *)
(* notes there is one.  attach_names fails on an id that is not cached.    *)
pet_profile ==
  /\ request.step = "profile"
  /\ LET q == pet[request.pet]
     IN  IF Cached(q.allergies)
         THEN \E queries \in IF request.but = Nothing THEN 1..2 ELSE {1} :
                request' = [step |-> "search", left |-> queries, but |-> request.but,
                            profile |-> [animal |-> q.animal, size |-> q.size,
                                         allergy |-> NameOf(cache.allergen, q.allergies)],
                            best |-> [p \in {} |-> 0], ideal |-> [p \in {} |-> 0],
                            free |-> IF Fresh THEN wanted[request.pet] ELSE Unknown]
         ELSE request' = Idle
  /\ UNCHANGED <<tables, indexed, cache, loading, wanted>>

(* Mutant: a product may be left out, and none is searched in its place.   *)
AsManyAsShown == Limit

(* What is shown, and the product that is left out.                        *)
Searched == IF request.but = Nothing THEN Limit ELSE Limit + 1

(* One question of candidates_for_queries, or the only one of              *)
(* similar_reviews_for.  ideal takes every row in.                         *)
candidates ==
  /\ request.step = "search" /\ request.left > 0 /\ ~loading
  /\ LET rows == Hits(request.profile)
     IN  \E sim \in [rows -> Sims] : \E hits \in SUBSET rows :
           /\ search(hits, rows, sim, Searched)
           /\ request' = [request EXCEPT !.left = @ - 1,
                            !.best = BestRates(@, hits, sim),
                            !.ideal = BestRates(@, rows, sim)]
  /\ UNCHANGED <<tables, indexed, cache, loading, wanted>>

(* The best Limit of all questions are the answer: any of Answers(best),   *)
(* besides the product that similar_reviews_for leaves out.                *)
Shown(best) == DOMAIN best \ {request.but}

Answers(best) ==
  {answer \in SUBSET Shown(best) :
     /\ Cardinality(answer) = Smaller(Limit, Cardinality(Shown(best)))
     /\ \A p \in answer : \A o \in Shown(best) \ answer : best[o] <= best[p]}

Answering == request.step = "search" /\ request.left = 0

candidates_for_queries ==
  /\ Answering
  /\ request' = Idle
  /\ UNCHANGED <<tables, indexed, cache, loading, wanted>>

-----------------------------------------------------------------------------
(* POST /recommend.  Of the allergen in the body the first cached name that *)
(* fits is taken (resolve_allergy), one that is not cached is left out.    *)
Ask(question) ==
  /\ cache # Down /\ Free
  /\ \E name \in SUBSET (question.allergy \cap NameOf(cache.allergen, DOMAIN cache.allergen)) :
       /\ Cardinality(name) <= 1
       /\ request' = [step |-> "asked", profile |-> [question EXCEPT !.allergy = name]]
  /\ UNCHANGED <<tables, indexed, cache, loading, wanted>>

(* The search has a connection of its own and gives it back ...            *)
search_asked ==
  /\ request.step = "asked" /\ ~loading
  /\ LET rows == Hits(request.profile)
     IN  \E sim \in [rows -> Sims] : \E hits \in SUBSET rows :
           /\ search(hits, rows, sim, Wide)
           /\ request' = [step |-> "lookup", hits |-> hits]
  /\ UNCHANGED <<tables, indexed, cache, loading, wanted>>

(* ... before the session of the request looks the purchases up: load_csv  *)
(* may run between the two.                                                *)
find_products_by_purchase_ids ==
  /\ request.step = "lookup" /\ ~loading
  /\ LET found == Bought(request.hits \cap DOMAIN purchase)
     IN  request' = IF found = {} THEN Idle
                    ELSE [step |-> "pick", attempt |-> 0, error |-> "", valid |-> found]
  /\ UNCHANGED <<tables, indexed, cache, loading, wanted>>

(* recommend: the model picks n products, or the attempt fails, and is     *)
(* counted.                                                                *)
Fails(error) ==
  request' = IF request.attempt = MaxRetries THEN Idle
             ELSE [request EXCEPT !.attempt = @ + 1, !.error = error]

recommend ==
  /\ request.step = "pick"
  /\ \/ \E picks \in SUBSET request.valid :
          picks # {} /\ Cardinality(picks) <= NPick /\ request' = Idle
     \/ \E error \in {"call", "ids", "number"} : Fails(error)
  /\ UNCHANGED <<tables, indexed, cache, loading, wanted>>

-----------------------------------------------------------------------------
(* poc_signup: register, draw, then a purchase and its review, each a      *)
(* transaction of its own.  A sign-up may also fail for an id in use.      *)
SignsUp(q, row, names) ==
  LET ids == resolve_allergen_ids(names)
  IN  IF ids \subseteq DOMAIN allergen
      THEN /\ pet' = [x \in DOMAIN pet \cup {q} |->
                        IF x = q THEN [row EXCEPT !.allergies = ids] ELSE pet[x]]
           /\ wanted' = [x \in DOMAIN pet \cup {q} |->
                           IF x # q THEN wanted[x] ELSE IF Fresh THEN names ELSE Unknown]
           /\ request' = [step |-> "draw"]
      ELSE /\ request' = Idle
           /\ UNCHANGED <<pet, wanted>>

register ==
  /\ cache # Down /\ Free /\ DemoPet \notin DOMAIN pet
  /\ \/ SignsUp(DemoPet, [owner |-> DemoOwner, animal |-> DemoAnimal, size |-> DemoSize,
                          allergies |-> {}, active |-> TRUE], {DemoName})
     \/ request' = Idle /\ UNCHANGED <<pet, wanted>>
  /\ UNCHANGED <<masters, product, purchase, indexed, cache, loading>>

(* The draw: active products for dogs that do not say chicken.             *)
sample ==
  /\ request.step = "draw"
  /\ LET products == {p \in DOMAIN product : /\ product[p].active = 1
                                            /\ DemoAnimal \in product[p].animals
                                            /\ DemoName \notin product[p].says}
     IN  IF Cardinality(products) < DemoCount THEN request' = Idle
         ELSE \E drawn \in kSubset(DemoCount, products) :
                request' = [step |-> "buy", drawn |-> drawn, row |-> 0]
  /\ UNCHANGED <<tables, indexed, cache, loading, wanted>>

(* buy: the member and the product must still be there, and the id not in  *)
(* use.  create_purchase leaves size_at_purchase NULL.                     *)
buy ==
  /\ request.step = "buy" /\ request.row = 0 /\ ~loading
  /\ \E p \in request.drawn :
       LET r == DemoRows[DemoCount + 1 - Cardinality(request.drawn)]
       IN
       IF DemoPet \in DOMAIN pet /\ p \in DOMAIN product /\ r \notin DOMAIN purchase
       THEN /\ purchase' = [x \in DOMAIN purchase \cup {r} |->
                              IF x # r THEN purchase[x]
                              ELSE [product |-> p, pet |-> DemoPet, size |-> NoSize, rating |-> 0]]
            /\ request' = [request EXCEPT !.drawn = @ \ {p}, !.row = r]
       ELSE request' = Idle /\ UNCHANGED purchase
  /\ UNCHANGED <<masters, product, pet, indexed, cache, loading, wanted>>

(* The ratings of POC_REVIEWS are 3 and more: none keeps a row back.       *)
write_review ==
  /\ request.step = "buy" /\ request.row # 0 /\ ~loading
  /\ IF request.row \in DOMAIN purchase
     THEN /\ purchase' = [purchase EXCEPT ![request.row].rating = MinRating]
          /\ request' = IF request.drawn = {} THEN Idle ELSE [request EXCEPT !.row = 0]
     ELSE request' = Idle /\ UNCHANGED purchase
  /\ UNCHANGED <<masters, product, pet, indexed, cache, loading, wanted>>

-----------------------------------------------------------------------------
(* Members, administrators, operators.                                     *)
update_customer(q, names) ==
  /\ cache # Down /\ q \in DOMAIN pet
  /\ LET ids == resolve_allergen_ids(names)
     IN  /\ ids \subseteq DOMAIN allergen           \* or the foreign key refuses
         /\ pet' = [pet EXCEPT ![q].allergies = ids]
  /\ wanted' = [wanted EXCEPT ![q] = IF Fresh THEN names ELSE Unknown]
  /\ UNCHANGED <<masters, product, purchase, indexed, cache, loading, request>>

(* A new product has no ingredients and no animals; its id must be free.   *)
create_product(p, active, verified) ==
  /\ cache # Down /\ p \in NewProducts \ DOMAIN product
  /\ product' = [x \in DOMAIN product \cup {p} |->
                   IF x # p THEN product[x]
                   ELSE [active |-> active, verified |-> verified, ingredients |-> {},
                         animals |-> {}, says |-> {}]]
  /\ UNCHANGED <<masters, pet, purchase, indexed, cache, loading, request, wanted>>

(* A PATCH of a product that is there, with values its CHECKs accept.      *)
update_product(p, active, verified) ==
  /\ cache # Down /\ p \in AdminProducts \cap DOMAIN product
  /\ product' = [product EXCEPT ![p].active = active, ![p].verified = verified]
  /\ UNCHANGED <<masters, pet, purchase, indexed, cache, loading, request, wanted>>

inactive_product(p) ==
  p \in DOMAIN product /\ update_product(p, 0, product[p].verified)

(* Mutant: the session is given back before the model is asked.            *)
ReadsNotForTheModel ==
  \/ request.step \in {"profile", "search"}
  \/ request.step = "buy" /\ Cardinality(request.drawn) = DemoCount

(* Mutant: POST /recommend reads the pet in its session, then searches.    *)
ReadsBeforeItAsks ==
  \/ request.step \in {"asked", "profile", "search", "pick"}
  \/ request.step = "buy" /\ Cardinality(request.drawn) = DemoCount

(* The session of the request has read and not committed since: it holds   *)
(* locks that DROP TABLE waits for.                                        *)
Reading ==
  \/ request.step \in {"profile", "search", "pick"}
  \/ request.step = "buy" /\ Cardinality(request.drawn) = DemoCount

PickedIn(l) == [q \in DOMAIN l.pet |-> NameOf(l.allergen, l.pet[q].allergies)]

TablesOf(l) ==
  /\ allergen' = l.allergen /\ carries' = l.carries
  /\ product' = l.product /\ pet' = l.pet /\ purchase' = l.purchase
  /\ wanted' = PickedIn(l)

(* load_csv.py, a transaction: it drops review first and purchase next, and *)
(* with purchase, for its foreign keys, asks for pet and product.  Who wants *)
(* to read review or purchase from now on waits behind it ...              *)
begin_load ==
  /\ ~loading /\ loading' = TRUE
  /\ UNCHANGED <<tables, indexed, cache, request, wanted>>

(* ... and it waits for those who have read what it drops.                 *)
load_csv(l) ==
  /\ loading /\ ~Reading
  /\ TablesOf(l) /\ loading' = FALSE
  /\ UNCHANGED <<indexed, cache, request>>

load_fails ==
  /\ loading /\ loading' = FALSE
  /\ UNCHANGED <<tables, indexed, cache, request, wanted>>

(* Both have locks that the other asks for: a statement that reads purchase *)
(* and then review, or a session that has read pet or product and then     *)
(* wants purchase.  PostgreSQL ends one of the two transactions.           *)
deadlock ==
  /\ loading /\ request.step \in {"search", "asked", "draw", "buy"}
  /\ request.step = "search" => request.left > 0
  /\ \/ request' = Idle /\ UNCHANGED loading
     \/ loading' = FALSE /\ UNCHANGED request
  /\ UNCHANGED <<tables, indexed, cache, wanted>>

(* What PostgreSQL does not see: the search asks on a connection of its    *)
(* own, behind load_csv, and load_csv waits for the session of the same    *)
(* request.  Neither has a time-out.                                       *)
WaitCircle == loading /\ request.step = "search" /\ request.left > 0

(* chunk.py and embed.py, one after the other.                             *)
reindex ==
  /\ ~loading
  /\ indexed' = {r \in DOMAIN purchase : purchase[r].rating > 0}
  /\ UNCHANGED <<tables, cache, loading, request, wanted>>

init_from_db ==
  /\ cache = Down
  /\ cache' = [allergen |-> allergen, carries |-> carries]
  /\ UNCHANGED <<tables, indexed, loading, request, wanted>>

Stop ==
  /\ cache # Down
  /\ cache' = Down /\ request' = Idle
  /\ UNCHANGED <<tables, indexed, loading, wanted>>

Handle ==
  \/ primary_pet \/ pet_profile \/ candidates \/ candidates_for_queries
  \/ search_asked \/ find_products_by_purchase_ids \/ recommend
  \/ sample \/ buy \/ write_review

Init ==
  /\ \E l \in Loads :
       /\ allergen = l.allergen /\ carries = l.carries
       /\ product = l.product /\ pet = l.pet /\ purchase = l.purchase
       /\ wanted = PickedIn(l)
  /\ indexed = {} /\ cache = Down /\ loading = FALSE /\ request = Idle

Next ==
  \/ \E u \in Owners : Begin(u) \/ similar_reviews_for(u)
  \/ register
  \/ \E question \in Questions : Ask(question)
  \/ Handle
  \/ \E q \in EditedPets, names \in Picks : update_customer(q, names)
  \/ \E p \in AdminProducts : inactive_product(p) \/ \E v \in Patches : update_product(p, v[1], v[2])
  \/ \E p \in NewProducts, v \in Patches : create_product(p, v[1], v[2])
  \/ begin_load \/ load_fails \/ deadlock
  \/ \E l \in Loads : load_csv(l)
  \/ reindex \/ init_from_db \/ Stop

(* A thread and load_csv are not paused for ever; the locks of PostgreSQL   *)
(* are handed on in order, so that one load after another does not keep a  *)
(* request waiting; the deadlock detector runs.                            *)
Fairness ==
  /\ SF_vars(Handle)
  /\ WF_vars(\E l \in Loads : load_csv(l))
  /\ WF_vars(request.step = "buy" /\ Reading /\ deadlock)

Spec == Init /\ [][Next]_vars /\ Fairness

-----------------------------------------------------------------------------
Ids == DOMAIN allergen
Products == DOMAIN product

(* Rates of products, and what a request has in hand at each of its steps. *)
Rates == UNION {[D -> 0..(High - Low)] : D \in SUBSET Products}

Elsewhere ==
  [step: {"idle", "draw"}] \cup [step: {"pets"}, owner: Owners]
  \cup [step: {"asked"}, profile: Profile] \cup [step: {"lookup"}, hits: SUBSET Nat]
  \cup [step: {"buy"}, drawn: SUBSET Nat, row: Nat]
Profiling == [step: {"profile"}, pet: DOMAIN pet, but: Products \cup {Nothing}]
Searching ==
  [step: {"search"}, left: 0..2, profile: Profile, but: Products \cup {Nothing},
   best: Rates, ideal: Rates, free: {Unknown} \cup SUBSET Names]
Picking ==
  [step: {"pick"}, attempt: 0..MaxRetries, error: {"", "call", "ids", "number"},
   valid: SUBSET Products]

Requests == Elsewhere \cup Profiling \cup Searching \cup Picking

(* The tables are as the schema has them, and what a request holds of      *)
(* products and pets it may still look up is there.                        *)
TypeOK ==
  /\ TreeOK(allergen) /\ RowsOK(allergen, carries, product, pet, purchase)
  /\ wanted \in [DOMAIN pet -> {Unknown} \cup SUBSET Names]
  /\ cache # Down => TreeOK(cache.allergen)
  /\ loading \in BOOLEAN
  /\ request \in Requests

(* Whether allergen a is one named n or lies under it.                     *)
LiesUnder(tree, a, n) ==
  LET Up[k \in Nat] ==
        IF k = 0 THEN {a} ELSE Up[k - 1] \cup {tree[b].parent : b \in Up[k - 1] \cap DOMAIN tree}
  IN  \E b \in Up[Cardinality(DOMAIN tree)] \cap DOMAIN tree : tree[b].name = n

FreeOf(p, names) ==
  \A a \in AllergensOf(p, carries) : \A n \in names : ~LiesUnder(allergen, a, n)

(* No product offered to a member contains anything that is, or lies under *)
(* (chicken under meat), an allergen picked for the pet by the time its    *)
(* profile was read: picks go by the names of a tree in memory, filters by *)
(* names in the tables, and load_csv renumbers the ids between the two.    *)
(* For a server whose caches are the tables': wanted is Unknown otherwise. *)
SuggestedAreFree ==
  Answering /\ request.free # Unknown =>
    \A answer \in Answers(request.best) : \A p \in answer : FreeOf(p, request.free)

(* Each question is cut to the best Limit before the questions are merged  *)
(* and cut again, by rates that are clamped, and similar_reviews_for takes *)
(* a product out of the best after they were cut: still, no product that   *)
(* suits is left out for one that matches less, or for none, and none is   *)
(* shown for less than its best row matches any of the questions.          *)
NothingBetterLeftOut ==
  Answering =>
    \A answer \in Answers(request.best) :
      /\ Cardinality(answer) = Smaller(Limit, Cardinality(Shown(request.ideal)))
      /\ \A p \in answer :
           /\ request.best[p] = request.ideal[p]
           /\ \A o \in Shown(request.ideal) \ answer : request.ideal[o] <= request.ideal[p]

(* "하나를 고치면 셋 다 고친다" (safty.py:6): judge, from the caches, and the   *)
(* view, from the tables, give the same verdict, and the filter of the     *)
(* search keeps exactly what they do not warn about, for every product the *)
(* view joins to a pet, if it has ingredients and the caches are fresh.    *)
ThreePlacesAgree ==
  Fresh => \A q \in DOMAIN pet, p \in Products :
    InView(q, p) /\ product[p].ingredients # {} =>
      LET ids == pet[q].allergies
      IN  /\ judge(p, ids) = v_product_safety(q, p)
          /\ PassesAllergy(p, NameOf(allergen, ids)) = (judge(p, ids) # "warn")

(* What keeps these.  Nothing is served before the caches are filled.      *)
Served == cache = Down => request = Idle

(* A pet has every allergen under those picked for it,  *)
(* where they were picked from fresh caches; its profile then has the      *)
(* names of all of them; no product that has one of these gets a rate.     *)
PicksKept ==
  \A q \in DOMAIN pet : wanted[q] # Unknown =>
    \A a \in Ids, n \in wanted[q] : LiesUnder(allergen, a, n) => a \in pet[q].allergies

ProfileHasPicks ==
  request.step = "search" /\ request.free # Unknown =>
    \A a \in Ids, n \in request.free :
      LiesUnder(allergen, a, n) => allergen[a].name \in request.profile.allergy

RatedPass ==
  request.step = "search" =>
    \A p \in DOMAIN request.best : PassesAllergy(p, request.profile.allergy)

(* A product has the rate of its best row, or enough others have no less:  *)
(* those that kept it out of the answer to the question it suits best.     *)
OutrankedOnly(best, ideal, searched) ==
  /\ DOMAIN best \subseteq DOMAIN ideal
  /\ \A p \in DOMAIN best : best[p] <= ideal[p]
  /\ \A p \in DOMAIN ideal :
       \/ p \in DOMAIN best /\ best[p] = ideal[p]
       \/ \E others \in SUBSET (DOMAIN best \ {p}) :
            Cardinality(others) = searched /\ \A o \in others : ideal[p] <= best[o]

RatesHold ==
  request.step = "search" => OutrankedOnly(request.best, request.ideal, Searched)

(* The demo member's draw: as many products as purchases are left.         *)
DrawnLeft ==
  request.step = "buy" =>
    /\ IsFiniteSet(request.drawn) /\ Cardinality(request.drawn) <= DemoCount
    /\ request.row = 0 => request.drawn # {}

IInv ==
  /\ TypeOK /\ Served
  /\ PicksKept /\ ProfileHasPicks /\ RatedPass
  /\ RatesHold /\ DrawnLeft

(* An id that the caches do not know ends a request with an error          *)
(* (attach_names): only ever after load_csv ran under the server.          *)
CachedIdsResolve ==
  [][request.step = "profile" /\ request' = Idle => ~Fresh \/ cache' = Down]_vars

(* A request comes to an end, however the model answers and whatever is    *)
(* loaded, deactivated or picked meanwhile, also when it and load_csv wait *)
(* for each other: unless it stays for ever in the one circle that no      *)
(* time-out of core/db.py ends.                                            *)
RequestsEnd == ~Free ~> (Free \/ []WaitCircle)

(* "이력은 그대로 두고 목록·추천에서만 빠진다" (services/products.py:107), of a  *)
(* product that is deactivated: a search finds active products alone.      *)
DeactivatedAreLeftOut ==
  [][request.step = "search" /\ request'.step = "search" =>
       \A p \in DOMAIN request'.best \ DOMAIN request.best : product[p].active = 1]_vars

(* "시연 계정에 채울 구매 후기 - 알러지(닭고기)와 안 겹치는 상품에 붙인다"         *)
(* (services/auth.py:106): what is drawn for the demo member to buy does   *)
(* not contain the allergen of the demo pet.                               *)
DemoAvoidsAllergy ==
  request.step = "buy" => \A p \in request.drawn \cap Products : FreeOf(p, {DemoName})
=============================================================================
