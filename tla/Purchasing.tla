----------------------------- MODULE Purchasing -----------------------------
(***************************************************************************)
(* POST /me/purchases and POST /me/purchases/{id}/review as they run: one  *)
(* worker thread and one database session per request, READ COMMITTED      *)
(* transactions, the row lock the conditional UPDATE of the credit takes,  *)
(* the unique-index wait of two INSERTs of one key, and a commit at the    *)
(* end.  Administrators change prices meanwhile, a statement or commit can *)
(* fail, and the server can go down between any two steps.                 *)
(***************************************************************************)
EXTENDS Integers, Sequences, FiniteSets

CONSTANTS
  Users, Products, Threads,
  Pets,           \* pet ids; ORDER BY pet_id picks the first
  Owner,          \* pet.user_id
  ActivePets,     \* the pets whose inactive_at is null
  Prices,         \* the prices an administrator sets
  Quantities, Ratings,
  InitialCredit,  \* user.credit_krw before the first request
  NoRow,          \* the price of a product that is not in the table
  MaxPurchaseId   \* bound: purchase ids handed out in one behaviour

ASSUME ConstantsOK ==
  /\ Pets \subseteq Nat
  /\ Owner \in [Pets -> Users]
  /\ ActivePets \subseteq Pets
  /\ Prices \subseteq Nat
  /\ Quantities \subseteq Nat \ {0}
  /\ InitialCredit \in [Users -> Nat]
  /\ NoRow \notin Nat

VARIABLES
  credit_krw,   \* committed user.credit_krw
  price_krw,    \* committed product.price_krw, NoRow where there is no row
  purchases,    \* committed purchase rows of each member, in commit order
  reviews,      \* committed review rows, in commit order
  next_id,      \* the purchase_id sequence (never rolled back)
  pc,           \* where the request of each thread is
  req,          \* what the request of each thread has read and been given
  answer        \* the last HTTP status any request was answered with

vars == <<credit_krw, price_krw, purchases, reviews, next_id, pc, req, answer>>
db == <<credit_krw, price_krw, purchases, reviews, next_id>>

(* A purchase row, with the balance the response reports for it.           *)
PurchaseRow == [purchase_id: Nat, pet_id: Pets, product_id: Products,
                quantity: Quantities, unit_price_krw: Prices, credit_krw: Int]

ReviewRow == [purchase_id: Nat, author: Users, rating: Ratings]

BuyRequest == [user: Users, row: PurchaseRow]

ReviewRequest == [user: Users, row: ReviewRow, blank: BOOLEAN]

NoRequest == [user |-> "none"]

Buying == {"priced", "spent", "inserted", "committed"}
Reviewing == {"owned", "reviewing"}
Status == {"none", "201", "403", "404", "409", "500", "constraint_500"}

IdsOf(u) == {purchases[u][k].purchase_id : k \in 1..Len(purchases[u])}

Reviewed(id) == \E k \in 1..Len(reviews) : reviews[k].purchase_id = id

Amount(row) == row.unit_price_krw * row.quantity

PetsOf(u) == {p \in ActivePets : Owner[p] = u}

(* primary_pet: the first row of the member's active pets by pet_id.       *)
PrimaryPet(u) == {p \in PetsOf(u) : \A q \in PetsOf(u) : p <= q}

(* A transaction holds the member's row from its UPDATE until it ends.     *)
HoldsCreditRow(t, u) == pc[t] \in {"spent", "inserted"} /\ req[t].user = u

(* ... and an inserted review key until it ends.                           *)
HoldsReviewKey(t, id) == pc[t] = "reviewing" /\ req[t].row.purchase_id = id

-----------------------------------------------------------------------------
Init ==
  /\ credit_krw = InitialCredit
  /\ price_krw \in [Products -> Prices \cup {NoRow}]
  /\ purchases = [u \in Users |-> <<>>]
  /\ reviews = <<>>
  /\ next_id = 1
  /\ pc = [t \in Threads |-> "idle"]
  /\ req = [t \in Threads |-> NoRequest]
  /\ answer = "none"

(* The session is closed: whatever was not committed is rolled back.       *)
Answer(t, status) ==
  /\ pc' = [pc EXCEPT ![t] = "idle"]
  /\ req' = [req EXCEPT ![t] = NoRequest]
  /\ answer' = status

Step(t, from, to) ==
  /\ pc[t] = from
  /\ pc' = [pc EXCEPT ![t] = to]
  /\ UNCHANGED answer

(* Bound: every purchase in progress can still be given its id.            *)
RoomForPurchase ==
  next_id + Cardinality({t \in Threads : pc[t] \in {"priced", "spent"}}) <= MaxPurchaseId

(* Mutant: buy without the check that the product exists.                  *)
BuysAnything(t, u, product, quantity) ==
  /\ pc[t] = "idle"
  /\ UNCHANGED db
  /\ \E pet \in PrimaryPet(u) :
       /\ RoomForPurchase
       /\ Step(t, "idle", "priced")
       /\ req' = [req EXCEPT ![t] =
            [user |-> u,
             row |-> [purchase_id |-> 0, pet_id |-> pet, product_id |-> product,
                      quantity |-> quantity, unit_price_krw |-> price_krw[product],
                      credit_krw |-> 0]]]

(* buy, up to the price: no active pet is a Conflict, no row is NotFound.  *)
BeginBuy(t, u, product, quantity) ==
  /\ pc[t] = "idle"
  /\ UNCHANGED db
  /\ \/ /\ PetsOf(u) = {}
        /\ Answer(t, "409")
     \/ /\ PetsOf(u) # {}
        /\ price_krw[product] = NoRow
        /\ Answer(t, "404")
     \/ \E pet \in PrimaryPet(u) :
        /\ price_krw[product] # NoRow
        /\ RoomForPurchase
        /\ Step(t, "idle", "priced")
        /\ req' = [req EXCEPT ![t] =
             [user |-> u,
              row |-> [purchase_id |-> 0, pet_id |-> pet, product_id |-> product,
                       quantity |-> quantity, unit_price_krw |-> price_krw[product],
                       credit_krw |-> 0]]]

(* Mutant: the UPDATE without AND credit_krw >= amount.                    *)
SpendsUnconditionally(t) ==
  LET u == req[t].user IN
  /\ \A other \in Threads : ~HoldsCreditRow(other, u)
  /\ Step(t, "priced", "spent")
  /\ req' = [req EXCEPT ![t].row.credit_krw = credit_krw[u] - Amount(req[t].row)]
  /\ UNCHANGED db

(* Mutant: the UPDATE is committed by itself, before the INSERT.           *)
SpendsAndCommits(t) ==
  LET u == req[t].user
      amount == Amount(req[t].row)
  IN  /\ Step(t, "priced", "spent")
      /\ credit_krw[u] >= amount
      /\ \A other \in Threads : ~HoldsCreditRow(other, u)
      /\ credit_krw' = [credit_krw EXCEPT ![u] = @ - amount]
      /\ req' = [req EXCEPT ![t].row.credit_krw = credit_krw[u] - amount]
      /\ UNCHANGED <<price_krw, purchases, reviews, next_id>>

(* spend_credit: the conditional UPDATE.  A committed balance that is too  *)
(* small is zero rows, a Conflict; otherwise the UPDATE waits for the row  *)
(* and judges what is committed then, and keeps the row locked.            *)
SpendCredit(t) ==
  LET u == req[t].user
      amount == Amount(req[t].row)
  IN  /\ pc[t] = "priced"
      /\ UNCHANGED db
      /\ \/ /\ credit_krw[u] < amount
            /\ Answer(t, "409")
         \/ /\ credit_krw[u] >= amount
            /\ \A other \in Threads : ~HoldsCreditRow(other, u)
            /\ Step(t, "priced", "spent")
            /\ req' = [req EXCEPT ![t].row.credit_krw = credit_krw[u] - amount]

(* create_purchase, the INSERT that the commit flushes.                    *)
InsertPurchase(t) ==
  /\ Step(t, "spent", "inserted")
  /\ req' = [req EXCEPT ![t].row.purchase_id = next_id]
  /\ next_id' = next_id + 1
  /\ UNCHANGED <<credit_krw, price_krw, purchases, reviews>>

(* create_purchase, the COMMIT: the new balance and the row appear at once.*)
CommitPurchase(t) ==
  LET u == req[t].user IN
  /\ Step(t, "inserted", "committed")
  /\ credit_krw' = [credit_krw EXCEPT ![u] = req[t].row.credit_krw]
  /\ purchases' = [purchases EXCEPT ![u] = Append(@, req[t].row)]
  /\ UNCHANGED <<price_krw, reviews, next_id, req>>

(* The id is read back from the committed row and the client is answered.  *)
AnswerBuy(t) ==
  /\ pc[t] = "committed"
  /\ Answer(t, "201")
  /\ UNCHANGED db

(* write_review: is_owned_by, judged on what is committed now.             *)
BeginReview(t, u, id, rating, blank) ==
  /\ pc[t] = "idle"
  /\ UNCHANGED db
  /\ \/ /\ id \notin IdsOf(u)
        /\ Answer(t, "403")
     \/ /\ id \in IdsOf(u)
        /\ Step(t, "idle", "owned")
        /\ req' = [req EXCEPT ![t] =
             [user |-> u, blank |-> blank,
              row |-> [purchase_id |-> id, author |-> u, rating |-> rating]]]

(* Mutant: review without its primary key.                                 *)
InsertsAnyReview(t) ==
  /\ pc[t] = "owned"
  /\ ~req[t].blank
  /\ Step(t, "owned", "reviewing")
  /\ UNCHANGED <<db, req>>

(* Mutant: an older review is deleted with execute, which commits at once, *)
(* before the new one is inserted.                                         *)
ReplacesReview(t) ==
  LET id == req[t].row.purchase_id IN
  /\ pc[t] = "owned"
  /\ ~req[t].blank
  /\ \A other \in Threads : ~HoldsReviewKey(other, id)
  /\ \/ /\ Reviewed(id)
        /\ reviews' = SelectSeq(reviews, LAMBDA r : r.purchase_id # id)
        /\ UNCHANGED <<credit_krw, price_krw, purchases, next_id, pc, req, answer>>
     \/ /\ ~Reviewed(id)
        /\ Step(t, "owned", "reviewing")
        /\ UNCHANGED <<db, req>>

(* Mutant: a taken key is taken for a passing fault and tried again.       *)
RetriesTakenKey(t) ==
  LET id == req[t].row.purchase_id IN
  /\ pc[t] = "owned"
  /\ UNCHANGED db
  /\ \/ /\ req[t].blank
        /\ Answer(t, "constraint_500")
     \/ /\ ~req[t].blank
        /\ \A other \in Threads : ~HoldsReviewKey(other, id)
        /\ ~Reviewed(id)
        /\ Step(t, "owned", "reviewing")
        /\ UNCHANGED req

(* create_review, the INSERT: a body of blanks fails the CHECK, which      *)
(* nobody maps; a taken key fails as constraint_unique, after waiting for  *)
(* another transaction that is inserting the same key.                     *)
InsertReview(t) ==
  LET id == req[t].row.purchase_id IN
  /\ pc[t] = "owned"
  /\ UNCHANGED db
  /\ \/ /\ req[t].blank
        /\ Answer(t, "constraint_500")
     \/ /\ ~req[t].blank
        /\ \A other \in Threads : ~HoldsReviewKey(other, id)
        /\ Reviewed(id)
        /\ Answer(t, "409")
     \/ /\ ~req[t].blank
        /\ \A other \in Threads : ~HoldsReviewKey(other, id)
        /\ ~Reviewed(id)
        /\ Step(t, "owned", "reviewing")
        /\ UNCHANGED req

CommitReview(t) ==
  /\ pc[t] = "reviewing"
  /\ reviews' = Append(reviews, req[t].row)
  /\ Answer(t, "201")
  /\ UNCHANGED <<credit_krw, price_krw, purchases, next_id>>

(* A statement, a commit or the read-back fails; get_db closes the session.*)
Fail(t) ==
  /\ pc[t] # "idle"
  /\ Answer(t, "500")
  /\ UNCHANGED db

(* The process dies: every open transaction is rolled back.                *)
Crash ==
  /\ pc' = [t \in Threads |-> "idle"]
  /\ req' = [t \in Threads |-> NoRequest]
  /\ answer' = "none"
  /\ UNCHANGED db

(* The administrator's PATCH of a price, and the POST of a product.        *)
SetPrice(product, price) ==
  /\ price_krw[product] # NoRow
  /\ price_krw' = [price_krw EXCEPT ![product] = price]
  /\ UNCHANGED <<credit_krw, purchases, reviews, next_id, pc, req, answer>>

CreateProduct(product, price) ==
  /\ price_krw[product] = NoRow
  /\ price_krw' = [price_krw EXCEPT ![product] = price]
  /\ UNCHANGED <<credit_krw, purchases, reviews, next_id, pc, req, answer>>

Begin(t) ==
  \E u \in Users :
    \/ \E product \in Products, quantity \in Quantities : BeginBuy(t, u, product, quantity)
    \/ \E id \in 1..MaxPurchaseId, rating \in Ratings, blank \in BOOLEAN :
         BeginReview(t, u, id, rating, blank)

Proceed(t) ==
  \/ InsertPurchase(t)
  \/ CommitPurchase(t)
  \/ AnswerBuy(t)
  \/ CommitReview(t)

Next ==
  \/ \E t \in Threads :
       Begin(t) \/ SpendCredit(t) \/ InsertReview(t) \/ Proceed(t) \/ Fail(t)
  \/ Crash
  \/ \E product \in Products, price \in Prices :
       SetPrice(product, price) \/ CreateProduct(product, price)

Spec == Init /\ [][Next]_vars

(* A thread is not paused for ever, and the lock queues of the database    *)
(* hand a row or an index key on to those who wait for it.                 *)
Fairness ==
  \A t \in Threads :
    /\ WF_vars(Proceed(t))
    /\ SF_vars(SpendCredit(t))
    /\ SF_vars(InsertReview(t))

FairSpec == Spec /\ Fairness

-----------------------------------------------------------------------------
(* Every variable and every request in progress has the shape the code and *)
(* the schema give it.                                                     *)
TypeOK ==
  /\ credit_krw \in [Users -> Int]
  /\ price_krw \in [Products -> Prices \cup {NoRow}]
  /\ purchases \in [Users -> Seq(PurchaseRow)]
  /\ reviews \in Seq(ReviewRow)
  /\ next_id \in Nat
  /\ pc \in [Threads -> {"idle"} \cup Buying \cup Reviewing]
  /\ answer \in Status
  /\ req \in [Threads -> BuyRequest \cup ReviewRequest \cup {NoRequest}]
  /\ \A t \in Threads : /\ pc[t] \in Buying => req[t] \in BuyRequest
                        /\ pc[t] \in Reviewing => req[t] \in ReviewRequest

(* spend_credit: however the requests of one member interleave, and        *)
(* whichever of them fail, the credit never goes below zero.               *)
CreditNeverNegative == \A u \in Users : credit_krw[u] >= 0

BalanceBefore(u, k) ==
  IF k = 1 THEN InitialCredit[u] ELSE purchases[u][k - 1].credit_krw

(* buy takes the price and records the purchase in one commit: in commit   *)
(* order, each purchase leaves the balance before it less its own quantity *)
(* times unit price, and the last one leaves the credit that is stored. No *)
(* interleaving of buys, failed commit or crash loses or invents a won.    *)
BalanceChain ==
  \A u \in Users :
    /\ \A k \in 1..Len(purchases[u]) :
         purchases[u][k].credit_krw = BalanceBefore(u, k) - Amount(purchases[u][k])
    /\ credit_krw[u] = BalanceBefore(u, Len(purchases[u]) + 1)

(* The key of review is purchase_id: two requests that both found the      *)
(* purchase unreviewed still leave one review.                             *)
OneReviewPerPurchase ==
  \A j, k \in 1..Len(reviews) :
    reviews[j].purchase_id = reviews[k].purchase_id => j = k

(* write_review judges the owner in one statement and inserts in another:  *)
(* what is stored is always a review by the member whose pet made the      *)
(* purchase.                                                               *)
ReviewsByOwner ==
  \A k \in 1..Len(reviews) : reviews[k].purchase_id \in IdsOf(reviews[k].author)

(* A request in progress is answered: the row lock and the index wait of   *)
(* concurrent buys and reviews never leave one waiting for ever.           *)
RequestsAreAnswered ==
  \A t \in Threads : pc[t] # "idle" ~> pc[t] = "idle"

-----------------------------------------------------------------------------
(* What the proofs need beyond the properties themselves.                  *)

(* Whoever holds a credit row holds it alone, and the balance it will      *)
(* write is still the committed one less its amount.                       *)
CreditRowLocked ==
  \A t \in Threads : pc[t] \in {"spent", "inserted"} =>
    /\ req[t].row.credit_krw = credit_krw[req[t].user] - Amount(req[t].row)
    /\ req[t].row.credit_krw >= 0
    /\ \A s \in Threads : HoldsCreditRow(s, req[t].user) => s = t

(* The sequence never hands out an id twice, whatever is rolled back.      *)
IdsAreFresh ==
  /\ \A u \in Users : \A id \in IdsOf(u) : id < next_id
  /\ \A u \in Users : \A j, k \in 1..Len(purchases[u]) :
       purchases[u][j].purchase_id = purchases[u][k].purchase_id => j = k
  /\ \A t \in Threads : pc[t] = "inserted" =>
       /\ req[t].row.purchase_id < next_id
       /\ \A u \in Users : req[t].row.purchase_id \notin IdsOf(u)
       /\ \A s \in Threads :
            pc[s] = "inserted" /\ req[s].row.purchase_id = req[t].row.purchase_id => s = t

(* A review on its way is by the owner, and an inserted one holds its key. *)
ReviewKeyLocked ==
  \A t \in Threads :
    /\ pc[t] \in Reviewing => req[t].row.purchase_id \in IdsOf(req[t].row.author)
    /\ pc[t] = "reviewing" =>
         /\ ~Reviewed(req[t].row.purchase_id)
         /\ \A s \in Threads : HoldsReviewKey(s, req[t].row.purchase_id) => s = t

IInv ==
  /\ TypeOK
  /\ CreditNeverNegative
  /\ BalanceChain
  /\ CreditRowLocked
  /\ IdsAreFresh
  /\ OneReviewPerPurchase
  /\ ReviewsByOwner
  /\ ReviewKeyLocked

-----------------------------------------------------------------------------
(* Where in its author's history the purchase of a review stands.          *)
NthOf(review) ==
  CHOOSE k \in 1..Len(purchases[review.author]) :
    purchases[review.author][k].purchase_id = review.purchase_id

HistoryEntry(row) ==
  [product |-> row.product_id, quantity |-> row.quantity, price |-> row.unit_price_krw]

History ==
  [u \in Users |-> [k \in 1..Len(purchases[u]) |-> HistoryEntry(purchases[u][k])]]

ReviewEntry(review) ==
  [user |-> review.author, nth |-> NthOf(review), rating |-> review.rating]

ReviewEntries == {ReviewEntry(reviews[k]) : k \in 1..Len(reviews)}

L == INSTANCE Ledger
       WITH credit <- credit_krw, history <- History, reviewed <- ReviewEntries

(* The requests, transactions and locks implement the indivisible purchase *)
(* and review of Ledger: a member's history and credit change together, at *)
(* the COMMIT, and nowhere else.                                           *)
ImplementsLedger == L!Spec
=============================================================================
