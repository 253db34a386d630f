-------------------------- MODULE PurchasingProofs --------------------------
(***************************************************************************)
(* Purchasing, for every set of members, products, worker threads, prices  *)
(* and quantities: the invariants of the runs, from one inductive          *)
(* invariant, and the refinement of Ledger.                                *)
(***************************************************************************)
EXTENDS Purchasing, SequenceTheorems, TLAPS

(* A purchase row has a price to pay.                                      *)
LEMMA AmountIsNat ==
  ASSUME NEW row \in PurchaseRow
  PROVE  Amount(row) \in Nat
<1>1. row.unit_price_krw \in Nat /\ row.quantity \in Nat
  BY ConstantsOK DEF PurchaseRow
<1>2. \A m, n \in Nat : m * n \in Nat
  OBVIOUS
<1> QED BY <1>1, <1>2 DEF Amount

(* What a request in progress carries.                                     *)
LEMMA BuyTypes ==
  ASSUME TypeOK, NEW t \in Threads, pc[t] \in Buying
  PROVE  /\ req[t] \in BuyRequest /\ req[t].user \in Users
         /\ req[t].row \in PurchaseRow /\ req[t].row.purchase_id \in Nat
         /\ req[t].row.credit_krw \in Int /\ Amount(req[t].row) \in Nat
<1>1. req[t] \in BuyRequest
  BY DEF TypeOK
<1>2. req[t].user \in Users /\ req[t].row \in PurchaseRow
  BY <1>1 DEF BuyRequest
<1> QED BY <1>1, <1>2, AmountIsNat DEF PurchaseRow

(* What a review in progress carries.                                      *)
LEMMA ReviewTypes ==
  ASSUME TypeOK, NEW t \in Threads, pc[t] \in Reviewing
  PROVE  /\ req[t] \in ReviewRequest /\ req[t].row \in ReviewRow
         /\ req[t].row.purchase_id \in Nat /\ req[t].row.author \in Users
<1>1. req[t] \in ReviewRequest
  BY DEF TypeOK
<1>2. req[t].row \in ReviewRow
  BY <1>1 DEF ReviewRequest
<1> QED BY <1>1, <1>2 DEF ReviewRow

(* Nobody has bought or asked for anything yet.                            *)
LEMMA InitIInv == Init => IInv
<1> SUFFICES ASSUME Init PROVE IInv
  OBVIOUS
<1> USE ConstantsOK DEF Init
<1>1. TypeOK
  BY DEF TypeOK, Buying, Reviewing, Status
<1>2. CreditNeverNegative /\ BalanceChain
  BY DEF CreditNeverNegative, BalanceChain, BalanceBefore
<1>3. CreditRowLocked /\ ReviewKeyLocked
  BY DEF CreditRowLocked, ReviewKeyLocked, Reviewing
<1>4. IdsAreFresh /\ OneReviewPerPurchase /\ ReviewsByOwner
  BY DEF IdsAreFresh, IdsOf, OneReviewPerPurchase, ReviewsByOwner
<1> QED BY <1>1, <1>2, <1>3, <1>4 DEF IInv

(* What is committed stays as it was: the parts about it stay true.        *)
LEMMA CommittedUnchanged ==
  ASSUME IInv, UNCHANGED <<credit_krw, purchases, reviews>>
  PROVE  /\ CreditNeverNegative' /\ BalanceChain'
         /\ OneReviewPerPurchase' /\ ReviewsByOwner'
<1>1. CreditNeverNegative' /\ BalanceChain'
  BY DEF IInv, CreditNeverNegative, BalanceChain, BalanceBefore
<1>2. OneReviewPerPurchase' /\ ReviewsByOwner'
  BY DEF IInv, OneReviewPerPurchase, ReviewsByOwner, IdsOf
<1> QED BY <1>1, <1>2

(* No id is handed out and no purchase is entered.                         *)
LEMMA IdsStayFresh ==
  ASSUME IInv, UNCHANGED <<purchases, next_id>>,
         \A s \in Threads : pc'[s] = "inserted" => pc[s] = "inserted" /\ req'[s] = req[s]
  PROVE  IdsAreFresh'
BY DEF IInv, IdsAreFresh, IdsOf

(* Ending a request without a commit, whatever the answer.                 *)
LEMMA AnswerKeepsIInv ==
  ASSUME IInv, NEW t \in Threads, NEW status \in Status,
         Answer(t, status), UNCHANGED db
  PROVE  IInv'
<1> USE DEF IInv, db
<1>1. /\ pc' = [pc EXCEPT ![t] = "idle"]
      /\ req' = [req EXCEPT ![t] = NoRequest]
  BY DEF Answer
<1>2. TypeOK'
  BY <1>1 DEF TypeOK, Answer, Buying, Reviewing
<1>3. \A s \in Threads : s # t => pc'[s] = pc[s] /\ req'[s] = req[s]
  BY <1>1 DEF TypeOK
<1>4. pc'[t] = "idle"
  BY <1>1 DEF TypeOK
<1>5. CreditRowLocked'
  BY <1>3, <1>4 DEF CreditRowLocked, HoldsCreditRow, Amount
<1>6. IdsAreFresh'
  BY <1>3, <1>4, IdsStayFresh
<1>7. ReviewKeyLocked'
  BY <1>3, <1>4 DEF ReviewKeyLocked, HoldsReviewKey, Reviewing, Reviewed, IdsOf
<1> QED BY <1>2, <1>5, <1>6, <1>7, CommittedUnchanged

(* buy reads the pet and the price: nothing is locked or written.          *)
LEMMA BeginBuyKeepsIInv ==
  ASSUME IInv, NEW t \in Threads, NEW u \in Users, NEW product \in Products,
         NEW quantity \in Quantities, BeginBuy(t, u, product, quantity)
  PROVE  IInv'
<1> USE DEF IInv
<1>1. CASE Answer(t, "409") \/ Answer(t, "404")
  <2>1. "409" \in Status /\ "404" \in Status /\ UNCHANGED db
    BY DEF Status, BeginBuy
  <2> QED BY <1>1, <2>1, AnswerKeepsIInv
<1>2. ASSUME NEW pet \in PrimaryPet(u), price_krw[product] # NoRow,
             Step(t, "idle", "priced"), UNCHANGED db,
             req' = [req EXCEPT ![t] =
               [user |-> u,
                row |-> [purchase_id |-> 0, pet_id |-> pet, product_id |-> product,
                         quantity |-> quantity, unit_price_krw |-> price_krw[product],
                         credit_krw |-> 0]]]
      PROVE  IInv'
  <2> USE <1>2 DEF db
  <2>1. pet \in Pets /\ price_krw[product] \in Prices
    BY ConstantsOK DEF PrimaryPet, PetsOf, TypeOK
  <2>3. \A s \in Threads : s # t => pc'[s] = pc[s] /\ req'[s] = req[s]
    BY DEF TypeOK, Step
  <2>4. pc'[t] = "priced" /\ req'[t] \in BuyRequest
    <3>1. [purchase_id |-> 0, pet_id |-> pet, product_id |-> product,
           quantity |-> quantity, unit_price_krw |-> price_krw[product],
           credit_krw |-> 0] \in PurchaseRow
      BY <2>1 DEF PurchaseRow
    <3> QED BY <3>1 DEF TypeOK, Step, BuyRequest
  <2>2. TypeOK'
    BY <2>3, <2>4 DEF TypeOK, Step, Buying, Reviewing
  <2>5. CreditRowLocked'
    BY <2>3, <2>4 DEF CreditRowLocked, HoldsCreditRow, Amount
  <2>6. IdsAreFresh'
    BY <2>3, <2>4, IdsStayFresh
  <2>7. ReviewKeyLocked'
    BY <2>3, <2>4 DEF ReviewKeyLocked, HoldsReviewKey, Reviewing, Reviewed, IdsOf
  <2> QED BY <2>2, <2>5, <2>6, <2>7, CommittedUnchanged
<1> QED BY <1>1, <1>2 DEF BeginBuy

(* The conditional UPDATE takes the row, which nobody else then holds.     *)
LEMMA SpendCreditKeepsIInv ==
  ASSUME IInv, NEW t \in Threads, SpendCredit(t)
  PROVE  IInv'
<1> USE DEF IInv
<1>1. CASE Answer(t, "409")
  <2>1. "409" \in Status /\ UNCHANGED db
    BY DEF Status, SpendCredit
  <2> QED BY <1>1, <2>1, AnswerKeepsIInv
<1>2. CASE ~Answer(t, "409")
  <2> DEFINE u == req[t].user
             amount == Amount(req[t].row)
  <2>1. /\ pc[t] = "priced" /\ UNCHANGED db
        /\ credit_krw[u] >= amount
        /\ \A other \in Threads : ~HoldsCreditRow(other, u)
        /\ pc' = [pc EXCEPT ![t] = "spent"] /\ UNCHANGED answer
        /\ req' = [req EXCEPT ![t].row.credit_krw = credit_krw[u] - amount]
    BY <1>2 DEF SpendCredit, Step
  <2>2. /\ req[t] \in BuyRequest /\ req[t].row \in PurchaseRow
        /\ u \in Users /\ credit_krw[u] \in Int /\ amount \in Nat
    BY <2>1, AmountIsNat DEF TypeOK, Buying, BuyRequest
  <2>3. req'[t] = [req[t] EXCEPT !.row.credit_krw = credit_krw[u] - amount]
    BY <2>1 DEF TypeOK
  <2>4. /\ req'[t] \in BuyRequest
        /\ req'[t].user = u
        /\ req'[t].row.credit_krw = credit_krw[u] - amount
        /\ Amount(req'[t].row) = amount
    BY <2>2, <2>3 DEF BuyRequest, PurchaseRow, Amount
  <2>5. \A s \in Threads : s # t => pc'[s] = pc[s] /\ req'[s] = req[s]
    BY <2>1 DEF TypeOK
  <2>6. pc'[t] = "spent"
    BY <2>1 DEF TypeOK
  <2>7. TypeOK'
    BY <2>1, <2>4, <2>5, <2>6 DEF TypeOK, db, Buying, Reviewing
  <2>8. CreditRowLocked'
    <3>1. SUFFICES ASSUME NEW s \in Threads, pc'[s] \in {"spent", "inserted"}
                   PROVE  /\ req'[s].row.credit_krw = credit_krw[req'[s].user] - Amount(req'[s].row)
                          /\ req'[s].row.credit_krw >= 0
                          /\ \A r \in Threads :
                               pc'[r] \in {"spent", "inserted"} /\ req'[r].user = req'[s].user => r = s
      BY <2>1 DEF CreditRowLocked, HoldsCreditRow, Amount, db
    <3>2. CASE s = t
      BY <3>2, <2>1, <2>2, <2>4, <2>5 DEF HoldsCreditRow
    <3>3. CASE s # t
      BY <3>1, <3>3, <2>1, <2>4, <2>5 DEF CreditRowLocked, HoldsCreditRow
    <3> QED BY <3>2, <3>3
  <2>9. IdsAreFresh'
    BY <2>1, <2>5, <2>6, IdsStayFresh DEF db
  <2>10. ReviewKeyLocked'
    BY <2>1, <2>5, <2>6 DEF ReviewKeyLocked, HoldsReviewKey, Reviewing, Reviewed, IdsOf, db
  <2> QED BY <2>1, <2>7, <2>8, <2>9, <2>10, CommittedUnchanged DEF db
<1> QED BY <1>1, <1>2

(* The sequence hands out an id that no row and no request has.            *)
LEMMA InsertPurchaseKeepsIInv ==
  ASSUME IInv, NEW t \in Threads, InsertPurchase(t)
  PROVE  IInv'
<1> USE DEF IInv
<1>1. /\ pc[t] = "spent" /\ pc' = [pc EXCEPT ![t] = "inserted"]
      /\ req' = [req EXCEPT ![t].row.purchase_id = next_id]
      /\ next_id' = next_id + 1
      /\ UNCHANGED <<credit_krw, price_krw, purchases, reviews, answer>>
  BY DEF InsertPurchase, Step
<1>2. req[t] \in BuyRequest /\ req[t].row \in PurchaseRow /\ next_id \in Nat
  BY <1>1, BuyTypes DEF TypeOK, Buying
<1>3. req'[t] = [req[t] EXCEPT !.row.purchase_id = next_id]
  BY <1>1 DEF TypeOK
<1>4. /\ req'[t] \in BuyRequest
      /\ req'[t].user = req[t].user
      /\ req'[t].row.purchase_id = next_id
      /\ req'[t].row.credit_krw = req[t].row.credit_krw
      /\ Amount(req'[t].row) = Amount(req[t].row)
  BY <1>2, <1>3 DEF BuyRequest, PurchaseRow, Amount
<1>5. \A s \in Threads : s # t => pc'[s] = pc[s] /\ req'[s] = req[s]
  BY <1>1 DEF TypeOK
<1>6. pc'[t] = "inserted"
  BY <1>1 DEF TypeOK
<1>7. TypeOK'
  <2>1. next_id' \in Nat
    BY <1>1, <1>2
  <2>2. req' \in [Threads -> BuyRequest \cup ReviewRequest \cup {NoRequest}]
    BY <1>1, <1>4, <1>5 DEF TypeOK
  <2> QED BY <2>1, <2>2, <1>1, <1>4, <1>5, <1>6 DEF TypeOK, Buying, Reviewing
<1>8. CreditRowLocked'
  <2>1. SUFFICES ASSUME NEW s \in Threads, pc'[s] \in {"spent", "inserted"}
                 PROVE  /\ req'[s].row.credit_krw = credit_krw[req'[s].user] - Amount(req'[s].row)
                        /\ req'[s].row.credit_krw >= 0
                        /\ \A r \in Threads :
                             pc'[r] \in {"spent", "inserted"} /\ req'[r].user = req'[s].user => r = s
    BY <1>1 DEF CreditRowLocked, HoldsCreditRow, Amount
  <2> QED BY <2>1, <1>1, <1>4, <1>5 DEF CreditRowLocked, HoldsCreditRow
<1>9. IdsAreFresh'
  <2>1. \A w \in Users : \A id \in IdsOf(w) : id < next_id /\ id \in Nat
    <3>1. ASSUME NEW w \in Users, NEW k \in 1..Len(purchases[w])
          PROVE  purchases[w][k].purchase_id \in Nat
      <4>1. purchases[w] \in Seq(PurchaseRow)
        BY DEF TypeOK
      <4>2. purchases[w][k] \in PurchaseRow
        BY <4>1
      <4> QED BY <4>2 DEF PurchaseRow
    <3> QED BY <3>1 DEF IdsAreFresh, IdsOf
  <2>2. \A s \in Threads : pc[s] = "inserted" => req[s].row.purchase_id \in Nat
    BY BuyTypes DEF Buying
  <2>3. /\ \A w \in Users : \A id \in IdsOf(w) : id < next_id'
        /\ \A w \in Users : next_id \notin IdsOf(w)
    BY <1>1, <1>2, <2>1
  <2>4. \A s \in Threads : pc[s] = "inserted" => req[s].row.purchase_id < next_id
    BY DEF IdsAreFresh
  <2>5. \A s \in Threads : pc'[s] = "inserted" =>
          /\ req'[s].row.purchase_id < next_id'
          /\ \A w \in Users : req'[s].row.purchase_id \notin IdsOf(w)
          /\ \A r \in Threads :
               pc'[r] = "inserted" /\ req'[r].row.purchase_id = req'[s].row.purchase_id => r = s
    <3> TAKE s \in Threads
    <3> HAVE pc'[s] = "inserted"
    <3>1. CASE s = t
      BY <3>1, <1>1, <1>2, <1>4, <1>5, <2>2, <2>3, <2>4
    <3>2. CASE s # t
      BY <3>2, <1>1, <1>2, <1>4, <1>5, <2>2, <2>3, <2>4 DEF IdsAreFresh
    <3> QED BY <3>1, <3>2
  <2> QED BY <1>1, <2>3, <2>5 DEF IdsAreFresh, IdsOf
<1>10. ReviewKeyLocked'
  BY <1>1, <1>5, <1>6 DEF ReviewKeyLocked, HoldsReviewKey, Reviewing, Reviewed, IdsOf
<1> QED BY <1>1, <1>7, <1>8, <1>9, <1>10, CommittedUnchanged

(* The COMMIT extends the chain of balances: the row was locked since the  *)
(* UPDATE, so the balance it was computed from is still the committed one. *)
LEMMA CommitPurchaseKeepsIInv ==
  ASSUME IInv, NEW t \in Threads, CommitPurchase(t)
  PROVE  IInv'
<1> USE DEF IInv
<1>a. pc[t] \in Buying
  BY DEF CommitPurchase, Step, Buying
<1>b. PICK u \in Users, row \in PurchaseRow :
        /\ u = req[t].user /\ row = req[t].row
        /\ row.purchase_id \in Nat /\ row.credit_krw \in Int /\ Amount(row) \in Nat
  BY <1>a, BuyTypes
<1>c. PICK n \in Nat : n = Len(purchases[u])
  BY DEF TypeOK
<1>1. /\ pc[t] = "inserted" /\ pc' = [pc EXCEPT ![t] = "committed"]
      /\ credit_krw' = [credit_krw EXCEPT ![u] = row.credit_krw]
      /\ purchases' = [purchases EXCEPT ![u] = Append(@, row)]
      /\ UNCHANGED <<price_krw, reviews, next_id, req, answer>>
  BY <1>b DEF CommitPurchase, Step
<1>2. /\ req[t] \in BuyRequest /\ u = req[t].user /\ row = req[t].row
      /\ row.purchase_id \in Nat /\ row.credit_krw \in Int /\ Amount(row) \in Nat
  BY <1>a, <1>b, BuyTypes
<1>3. /\ purchases[u] \in Seq(PurchaseRow) /\ n = Len(purchases[u])
      /\ purchases'[u] = Append(purchases[u], row)
      /\ purchases'[u] \in Seq(PurchaseRow)
      /\ Len(purchases'[u]) = n + 1
      /\ purchases'[u][n + 1] = row
      /\ \A k \in 1..n : purchases'[u][k] = purchases[u][k]
      /\ \A w \in Users : w # u => purchases'[w] = purchases[w]
  BY <1>1, <1>2, <1>c DEF TypeOK
<1>4. /\ pc'[t] = "committed" /\ req' = req
      /\ \A s \in Threads : s # t => pc'[s] = pc[s]
      /\ credit_krw'[u] = row.credit_krw
      /\ \A w \in Users : w # u => credit_krw'[w] = credit_krw[w]
  BY <1>1, <1>2 DEF TypeOK
<1>5. /\ row.credit_krw = credit_krw[u] - Amount(row) /\ row.credit_krw >= 0
      /\ \A s \in Threads : HoldsCreditRow(s, u) => s = t
  BY <1>1, <1>2 DEF CreditRowLocked
<1>6. TypeOK'
  BY <1>1, <1>2, <1>3, <1>4 DEF TypeOK, Buying, Reviewing
<1>7. CreditNeverNegative'
  BY <1>2, <1>4, <1>5 DEF CreditNeverNegative
<1>8. BalanceChain'
  <2>1. ASSUME NEW k \in 1..(n + 1)
        PROVE  purchases'[u][k].credit_krw = BalanceBefore(u, k)' - Amount(purchases'[u][k])
    <3>1. CASE k \in 1..n
      <4>1. k = 1 \/ k - 1 \in 1..n
        BY <1>3, <3>1
      <4>2. BalanceBefore(u, k)' = BalanceBefore(u, k)
        BY <1>3, <3>1, <4>1 DEF BalanceBefore
      <4> QED BY <1>2, <1>3, <3>1, <4>2 DEF BalanceChain
    <3>2. CASE k = n + 1
      <4>1. n + 1 # 1 => n \in 1..n /\ (n + 1) - 1 = n
        BY <1>3
      <4>2. BalanceBefore(u, k)' = BalanceBefore(u, n + 1)
        BY <1>3, <3>2, <4>1 DEF BalanceBefore
      <4>3. BalanceBefore(u, n + 1) = credit_krw[u]
        BY <1>3 DEF BalanceChain
      <4> QED BY <1>3, <1>5, <3>2, <4>2, <4>3
    <3> QED BY <1>3, <3>1, <3>2
  <2>2. credit_krw'[u] = BalanceBefore(u, Len(purchases[u]) + 1)'
    BY <1>3, <1>4 DEF BalanceBefore
  <2>3. ASSUME NEW w \in Users, w # u
        PROVE  /\ \A k \in 1..Len(purchases'[w]) :
                    purchases'[w][k].credit_krw = BalanceBefore(w, k)' - Amount(purchases'[w][k])
               /\ credit_krw'[w] = BalanceBefore(w, Len(purchases[w]) + 1)'
    BY <1>3, <1>4, <2>3 DEF BalanceChain, BalanceBefore
  <2>4. \A w \in Users :
          /\ \A k \in 1..Len(purchases'[w]) :
               purchases'[w][k].credit_krw = BalanceBefore(w, k)' - Amount(purchases'[w][k])
          /\ credit_krw'[w] = BalanceBefore(w, Len(purchases[w]) + 1)'
    BY <1>3, <2>1, <2>2, <2>3
  <2> QED BY <2>4 DEF BalanceChain, Amount
<1>9. CreditRowLocked'
  <2>1. SUFFICES ASSUME NEW s \in Threads, pc'[s] \in {"spent", "inserted"}
                 PROVE  /\ req'[s].row.credit_krw = credit_krw'[req'[s].user] - Amount(req'[s].row)
                        /\ req'[s].row.credit_krw >= 0
                        /\ \A r \in Threads :
                             pc'[r] \in {"spent", "inserted"} /\ req'[r].user = req'[s].user => r = s
    BY DEF CreditRowLocked, HoldsCreditRow, Amount
  <2>2. s # t /\ pc[s] \in {"spent", "inserted"}
    BY <2>1, <1>4
  <2>3. req[s].user \in Users /\ req[s].user # u
    BY <2>2, <1>5, BuyTypes DEF HoldsCreditRow, Buying
  <2> QED BY <2>2, <2>3, <1>4 DEF CreditRowLocked, HoldsCreditRow
<1>10. \A w \in Users : IdsOf(w)' = IF w = u THEN IdsOf(u) \cup {row.purchase_id} ELSE IdsOf(w)
  <2>1. \A k \in 1..(n + 1) : k \in 1..n \/ k = n + 1
    BY <1>3
  <2>2. 1..n \subseteq 1..(n + 1) /\ n + 1 \in 1..(n + 1)
    BY <1>3
  <2>3. IdsOf(u)' = IdsOf(u) \cup {row.purchase_id}
    BY <1>3, <2>1, <2>2 DEF IdsOf
  <2>4. \A w \in Users : w # u => IdsOf(w)' = IdsOf(w)
    BY <1>3 DEF IdsOf
  <2> QED BY <2>3, <2>4
<1>11. IdsAreFresh'
  <2>1. row.purchase_id < next_id /\ \A w \in Users : row.purchase_id \notin IdsOf(w)
    BY <1>1, <1>2 DEF IdsAreFresh
  <2>2. \A w \in Users : \A id \in IdsOf(w)' : id < next_id'
    BY <1>1, <1>10, <2>1 DEF IdsAreFresh
  <2>3. ASSUME NEW w \in Users,
               NEW j \in 1..Len(purchases'[w]), NEW k \in 1..Len(purchases'[w]),
               purchases'[w][j].purchase_id = purchases'[w][k].purchase_id
        PROVE  j = k
    <3>1. CASE w # u
      BY <3>1, <2>3, <1>3 DEF IdsAreFresh
    <3>2. CASE w = u
      <4>1. j \in 1..n \/ j = n + 1
        BY <3>2, <1>3
      <4>2. k \in 1..n \/ k = n + 1
        BY <3>2, <1>3
      <4>3. \A i \in 1..n : purchases[u][i].purchase_id # row.purchase_id
        BY <1>3, <2>1 DEF IdsOf
      <4> QED BY <3>2, <4>1, <4>2, <4>3, <2>3, <1>2, <1>3 DEF IdsAreFresh
    <3> QED BY <3>1, <3>2
  <2>4. \A s \in Threads : pc'[s] = "inserted" =>
          /\ req'[s].row.purchase_id < next_id'
          /\ \A w \in Users : req'[s].row.purchase_id \notin IdsOf(w)'
          /\ \A r \in Threads :
               pc'[r] = "inserted" /\ req'[r].row.purchase_id = req'[s].row.purchase_id => r = s
    <3> TAKE s \in Threads
    <3> HAVE pc'[s] = "inserted"
    <3>1. s # t /\ pc[s] = "inserted" /\ req'[s] = req[s]
      BY <1>4
    <3>2. req[s].row.purchase_id # row.purchase_id
      BY <3>1, <1>1, <1>2 DEF IdsAreFresh
    <3> QED BY <3>1, <3>2, <1>1, <1>4, <1>10 DEF IdsAreFresh
  <2> QED BY <2>2, <2>3, <2>4 DEF IdsAreFresh
<1>12. OneReviewPerPurchase'
  BY <1>1 DEF OneReviewPerPurchase
<1>13. ReviewsByOwner'
  <2>1. \A k \in 1..Len(reviews) : reviews[k].author \in Users
    <3>1. \A k \in 1..Len(reviews) : reviews[k] \in ReviewRow
      BY DEF TypeOK
    <3> QED BY <3>1 DEF ReviewRow
  <2> QED BY <2>1, <1>1, <1>10 DEF ReviewsByOwner
<1>14. ReviewKeyLocked'
  <2>1. \A s \in Threads : pc[s] \in Reviewing => req[s].row.author \in Users
    BY ReviewTypes
  <2>2. \A s \in Threads : pc'[s] \in Reviewing => s # t /\ pc[s] = pc'[s]
    BY <1>4 DEF Reviewing
  <2>3. \A s \in Threads : pc'[s] \in Reviewing =>
          req'[s].row.purchase_id \in IdsOf(req[s].row.author)'
    BY <1>4, <1>10, <2>1, <2>2 DEF ReviewKeyLocked
  <2>4. \A s \in Threads : pc'[s] = "reviewing" => s # t /\ pc[s] = "reviewing"
    BY <1>4
  <2> QED BY <1>1, <1>4, <2>3, <2>4 DEF ReviewKeyLocked, Reviewed, HoldsReviewKey
<1> QED BY <1>6, <1>7, <1>8, <1>9, <1>11, <1>12, <1>13, <1>14

(* write_review has found the purchase to be the member's.                 *)
LEMMA BeginReviewKeepsIInv ==
  ASSUME IInv, NEW t \in Threads, NEW u \in Users, NEW id \in Nat,
         NEW rating \in Ratings, NEW blank \in BOOLEAN,
         BeginReview(t, u, id, rating, blank)
  PROVE  IInv'
<1> USE DEF IInv
<1>1. CASE Answer(t, "403")
  <2>1. "403" \in Status /\ UNCHANGED db
    BY DEF Status, BeginReview
  <2> QED BY <1>1, <2>1, AnswerKeepsIInv
<1>2. CASE ~Answer(t, "403")
  <2> DEFINE request == [user |-> u, blank |-> blank,
                         row |-> [purchase_id |-> id, author |-> u, rating |-> rating]]
  <2>1. /\ UNCHANGED <<credit_krw, price_krw, purchases, reviews, next_id, answer>>
        /\ id \in IdsOf(u)
        /\ pc' = [pc EXCEPT ![t] = "owned"]
        /\ req' = [req EXCEPT ![t] = request]
    BY <1>2 DEF BeginReview, Step, db
  <2>2. request \in ReviewRequest
    BY DEF ReviewRequest, ReviewRow
  <2>3. \A s \in Threads : s # t => pc'[s] = pc[s] /\ req'[s] = req[s]
    BY <2>1 DEF TypeOK
  <2>4. pc'[t] = "owned" /\ req'[t] = request
    BY <2>1 DEF TypeOK
  <2>5. TypeOK'
    BY <2>1, <2>2, <2>3, <2>4 DEF TypeOK, Buying, Reviewing
  <2>6. CreditRowLocked'
    BY <2>1, <2>3, <2>4 DEF CreditRowLocked, HoldsCreditRow, Amount
  <2>7. IdsAreFresh'
    BY <2>1, <2>3, <2>4, IdsStayFresh
  <2>8. ReviewKeyLocked'
    BY <2>1, <2>3, <2>4 DEF ReviewKeyLocked, HoldsReviewKey, Reviewing, Reviewed, IdsOf
  <2> QED BY <2>1, <2>5, <2>6, <2>7, <2>8, CommittedUnchanged
<1> QED BY <1>1, <1>2

(* The INSERT of a review waits for its key and finds it free.             *)
LEMMA InsertReviewKeepsIInv ==
  ASSUME IInv, NEW t \in Threads, InsertReview(t)
  PROVE  IInv'
<1> USE DEF IInv
<1>1. CASE Answer(t, "constraint_500") \/ Answer(t, "409")
  <2>1. "constraint_500" \in Status /\ "409" \in Status /\ UNCHANGED db
    BY DEF Status, InsertReview
  <2> QED BY <1>1, <2>1, AnswerKeepsIInv
<1>2. CASE ~Answer(t, "constraint_500") /\ ~Answer(t, "409")
  <2>1. /\ UNCHANGED <<credit_krw, price_krw, purchases, reviews, next_id, answer, req>>
        /\ pc[t] = "owned"
        /\ pc' = [pc EXCEPT ![t] = "reviewing"]
        /\ \A other \in Threads : ~HoldsReviewKey(other, req[t].row.purchase_id)
        /\ ~Reviewed(req[t].row.purchase_id)
    BY <1>2 DEF InsertReview, Step, db
  <2>2. \A s \in Threads : s # t => pc'[s] = pc[s]
    BY <2>1 DEF TypeOK
  <2>3. pc'[t] = "reviewing"
    BY <2>1 DEF TypeOK
  <2>4. TypeOK'
    BY <2>1, <2>2, <2>3 DEF TypeOK, Buying, Reviewing
  <2>5. CreditRowLocked'
    BY <2>1, <2>2, <2>3 DEF CreditRowLocked, HoldsCreditRow, Amount
  <2>6. IdsAreFresh'
    BY <2>1, <2>2, <2>3, IdsStayFresh
  <2>7. ReviewKeyLocked'
    BY <2>1, <2>2, <2>3 DEF ReviewKeyLocked, HoldsReviewKey, Reviewing, Reviewed, IdsOf
  <2> QED BY <2>1, <2>4, <2>5, <2>6, <2>7, CommittedUnchanged
<1> QED BY <1>1, <1>2

(* The COMMIT of a review adds a key that was held by this request alone.  *)
LEMMA CommitReviewKeepsIInv ==
  ASSUME IInv, NEW t \in Threads, CommitReview(t)
  PROVE  IInv'
<1> USE DEF IInv
<1>a. pc[t] = "reviewing" /\ pc[t] \in Reviewing
  BY DEF CommitReview, Reviewing
<1>b. PICK row \in ReviewRow : row = req[t].row
  BY <1>a, ReviewTypes
<1>c. PICK n \in Nat : n = Len(reviews)
  BY DEF TypeOK
<1>1. /\ UNCHANGED <<credit_krw, price_krw, purchases, next_id>>
      /\ pc' = [pc EXCEPT ![t] = "idle"]
      /\ req' = [req EXCEPT ![t] = NoRequest]
      /\ answer' \in Status
      /\ reviews' = Append(reviews, row)
  BY <1>b DEF CommitReview, Answer, Status
<1>2. /\ reviews' \in Seq(ReviewRow) /\ Len(reviews') = n + 1
      /\ reviews'[n + 1] = row
      /\ \A k \in 1..n : reviews'[k] = reviews[k]
      /\ \A k \in 1..(n + 1) : k \in 1..n \/ k = n + 1
  BY <1>1, <1>c DEF TypeOK
<1>3. /\ pc'[t] = "idle"
      /\ \A s \in Threads : s # t => pc'[s] = pc[s] /\ req'[s] = req[s]
  BY <1>1 DEF TypeOK
<1>4. /\ ~Reviewed(row.purchase_id)
      /\ row.purchase_id \in IdsOf(row.author)
      /\ \A s \in Threads : HoldsReviewKey(s, row.purchase_id) => s = t
  BY <1>a, <1>b DEF ReviewKeyLocked
<1>5. TypeOK'
  BY <1>1, <1>2, <1>3 DEF TypeOK, Buying, Reviewing
<1>6. CreditNeverNegative' /\ BalanceChain'
  BY <1>1 DEF CreditNeverNegative, BalanceChain, BalanceBefore
<1>7. CreditRowLocked'
  BY <1>1, <1>3 DEF CreditRowLocked, HoldsCreditRow, Amount
<1>8. IdsAreFresh'
  BY <1>1, <1>3, IdsStayFresh
<1>9. OneReviewPerPurchase'
  <2>1. \A k \in 1..n : reviews[k].purchase_id # row.purchase_id
    BY <1>4, <1>c DEF Reviewed
  <2> QED BY <2>1, <1>2, <1>c DEF OneReviewPerPurchase
<1>10. ReviewsByOwner'
  <2>1. purchases' = purchases
    BY <1>1
  <2>2. ASSUME NEW k \in 1..(n + 1)
        PROVE  reviews'[k].purchase_id \in IdsOf(reviews'[k].author)
    <3>1. CASE k = n + 1
      BY <3>1, <1>2, <1>4
    <3>2. CASE k \in 1..n
      BY <3>2, <1>2, <1>c DEF ReviewsByOwner
    <3> QED BY <3>1, <3>2, <1>2
  <2>3. \A k \in 1..(n + 1) :
          reviews'[k].purchase_id
            \in {purchases'[reviews'[k].author][j].purchase_id :
                   j \in 1..Len(purchases'[reviews'[k].author])}
    BY <2>1, <2>2, Zenon DEF IdsOf
  <2>4. 1..Len(reviews') = 1..(n + 1)
    BY <1>2
  <2> QED BY <2>3, <2>4, Zenon DEF ReviewsByOwner, IdsOf
<1>11. ReviewKeyLocked'
  <2>1. SUFFICES ASSUME NEW s \in Threads
                 PROVE  /\ pc'[s] \in Reviewing => req'[s].row.purchase_id \in IdsOf(req'[s].row.author)
                        /\ pc'[s] = "reviewing" =>
                             /\ \A k \in 1..Len(reviews') :
                                  reviews'[k].purchase_id # req'[s].row.purchase_id
                             /\ \A r \in Threads :
                                  pc'[r] = "reviewing" /\ req'[r].row.purchase_id = req'[s].row.purchase_id
                                    => r = s
    BY <1>1 DEF ReviewKeyLocked, HoldsReviewKey, IdsOf, Reviewed
  <2>2. CASE s = t
    BY <2>2, <1>3 DEF Reviewing
  <2>3. CASE s # t
    <3>1. pc'[s] = pc[s] /\ req'[s] = req[s]
      BY <2>3, <1>3
    <3>2. pc[s] = "reviewing" => req[s].row.purchase_id # row.purchase_id
      BY <2>3, <1>4 DEF HoldsReviewKey
    <3>3. pc[s] = "reviewing" =>
            \A k \in 1..Len(reviews') : reviews'[k].purchase_id # req'[s].row.purchase_id
      <4> HAVE pc[s] = "reviewing"
      <4>1. \A k \in 1..n : reviews[k].purchase_id # req[s].row.purchase_id
        BY <1>c DEF ReviewKeyLocked, Reviewed
      <4> QED BY <4>1, <1>2, <3>1, <3>2
    <3> QED BY <2>3, <3>1, <3>3, <1>3 DEF ReviewKeyLocked, HoldsReviewKey
  <2> QED BY <2>2, <2>3
<1> QED BY <1>5, <1>6, <1>7, <1>8, <1>9, <1>10, <1>11

(* A crash leaves what is committed and nothing else.                      *)
LEMMA CrashKeepsIInv == IInv /\ Crash => IInv'
<1> SUFFICES ASSUME IInv, Crash PROVE IInv'
  OBVIOUS
<1> USE DEF IInv, Crash, db
<1>1. \A s \in Threads : pc'[s] = "idle"
  OBVIOUS
<1>2. TypeOK'
  BY <1>1 DEF TypeOK, Buying, Reviewing, Status
<1>3. CreditRowLocked' /\ ReviewKeyLocked'
  BY <1>1 DEF CreditRowLocked, ReviewKeyLocked, Reviewing
<1>4. IdsAreFresh'
  BY <1>1, IdsStayFresh
<1> QED BY <1>2, <1>3, <1>4, CommittedUnchanged

(* Nothing but prices changes.                                             *)
LEMMA PricesKeepIInv ==
  ASSUME IInv, price_krw' \in [Products -> Prices \cup {NoRow}],
         UNCHANGED <<credit_krw, purchases, reviews, next_id, pc, req, answer>>
  PROVE  IInv'
<1> USE DEF IInv
<1>1. TypeOK'
  BY DEF TypeOK
<1>2. CreditRowLocked'
  BY DEF CreditRowLocked, HoldsCreditRow, Amount
<1>3. ReviewKeyLocked'
  BY DEF ReviewKeyLocked, HoldsReviewKey, Reviewed, IdsOf
<1>4. IdsAreFresh'
  BY IdsStayFresh
<1> QED BY <1>1, <1>2, <1>3, <1>4, CommittedUnchanged

(* IInv is inductive.                                                      *)
LEMMA NextKeepsIInv == IInv /\ [Next]_vars => IInv'
<1> SUFFICES ASSUME IInv, [Next]_vars PROVE IInv'
  OBVIOUS
<1>1. ASSUME NEW t \in Threads, Begin(t) PROVE IInv'
  BY <1>1, BeginBuyKeepsIInv, BeginReviewKeepsIInv DEF Begin
<1>2. ASSUME NEW t \in Threads, SpendCredit(t) PROVE IInv'
  BY <1>2, SpendCreditKeepsIInv
<1>3. ASSUME NEW t \in Threads, InsertReview(t) PROVE IInv'
  BY <1>3, InsertReviewKeepsIInv
<1>4. ASSUME NEW t \in Threads, Proceed(t) PROVE IInv'
  <2>1. CASE AnswerBuy(t)
    BY <2>1, AnswerKeepsIInv DEF AnswerBuy, Status
  <2> QED BY <1>4, <2>1, InsertPurchaseKeepsIInv, CommitPurchaseKeepsIInv,
             CommitReviewKeepsIInv DEF Proceed
<1>5. ASSUME NEW t \in Threads, Fail(t) PROVE IInv'
  BY <1>5, AnswerKeepsIInv DEF Fail, Status
<1>6. ASSUME NEW product \in Products, NEW price \in Prices,
             SetPrice(product, price) \/ CreateProduct(product, price)
      PROVE  IInv'
  <2>1. price_krw' \in [Products -> Prices \cup {NoRow}]
    BY <1>6 DEF SetPrice, CreateProduct, IInv, TypeOK
  <2> QED BY <1>6, <2>1, PricesKeepIInv DEF SetPrice, CreateProduct
<1>7. CASE UNCHANGED vars
  <2>1. price_krw' \in [Products -> Prices \cup {NoRow}]
    BY <1>7 DEF vars, IInv, TypeOK
  <2> QED BY <1>7, <2>1, PricesKeepIInv DEF vars
<1> QED BY <1>1, <1>2, <1>3, <1>4, <1>5, <1>6, <1>7, CrashKeepsIInv DEF Next

(* The inductive invariant behind every safety theorem below: credit rows  *)
(* and review keys are held by one request at a time until its COMMIT.     *)
THEOREM SpecIInv == Spec => []IInv
<1> QED BY InitIInv, NextKeepsIInv, PTL DEF Spec

(* Types are kept by every request, failure, crash and price change.       *)
THEOREM SpecTypeOK == Spec => []TypeOK
BY SpecIInv, PTL DEF IInv

(* No interleaving of purchases takes a member's credit below zero.        *)
THEOREM SpecCreditNeverNegative == Spec => []CreditNeverNegative
BY SpecIInv, PTL DEF IInv

(* Every won that leaves a credit is in the history of purchases.          *)
THEOREM SpecBalanceChain == Spec => []BalanceChain
BY SpecIInv, PTL DEF IInv

(* Racing requests leave at most one review of a purchase, by its owner.   *)
THEOREM SpecReviews == Spec => [](OneReviewPerPurchase /\ ReviewsByOwner)
BY SpecIInv, PTL DEF IInv

-----------------------------------------------------------------------------
(* A review stands for exactly one entry of its author's history.          *)
LEMMA NthOfReview ==
  ASSUME IdsAreFresh, NEW r \in ReviewRow, r.purchase_id \in IdsOf(r.author)
  PROVE  /\ NthOf(r) \in 1..Len(purchases[r.author])
         /\ purchases[r.author][NthOf(r)].purchase_id = r.purchase_id
<1>1. \E k \in 1..Len(purchases[r.author]) :
        purchases[r.author][k].purchase_id = r.purchase_id
  BY DEF IdsOf
<1> QED BY <1>1 DEF NthOf

(* An empty shop is an empty ledger.                                       *)
LEMMA InitRefines == Init => L!Init
<1> SUFFICES ASSUME Init PROVE L!Init
  OBVIOUS
<1>1. History = [u \in Users |-> <<>>]
  <2>1. \A u \in Users : [k \in 1..Len(purchases[u]) |-> HistoryEntry(purchases[u][k])] = <<>>
    BY DEF Init
  <2> QED BY <2>1 DEF History
<1>2. ReviewEntries = {}
  BY DEF Init, ReviewEntries
<1> QED BY <1>1, <1>2 DEF Init, L!Init

(* Only a commit shows in the ledger.                                      *)
LEMMA UncommittedStutters ==
  ASSUME UNCHANGED <<credit_krw, purchases, reviews>>
  PROVE  UNCHANGED L!vars
<1>1. History' = History
  BY DEF History, HistoryEntry
<1>2. ReviewEntries' = ReviewEntries
  BY DEF ReviewEntries, ReviewEntry, NthOf
<1> QED BY <1>1, <1>2 DEF L!vars

(* A sequence grown by one element, as a function of the position.         *)
LEMMA AppendIsFunction ==
  ASSUME NEW S, NEW old \in Seq(S), NEW n \in Nat, Len(old) = n, NEW e \in S
  PROVE  Append(old, e) = [k \in 1..(n + 1) |-> IF k <= n THEN old[k] ELSE e]
<1> DEFINE new == [k \in 1..(n + 1) |-> IF k <= n THEN old[k] ELSE e]
<1>1. \A k \in 1..(n + 1) : k \in 1..n \/ (k = n + 1 /\ ~(k <= n))
  OBVIOUS
<1>2. \A k \in 1..(n + 1) : new[k] \in S
  BY <1>1, ElementOfSeq
<1>3. new \in Seq(S) /\ Len(new) = n + 1
  BY <1>2
<1>4. /\ Append(old, e) \in Seq(S) /\ Len(Append(old, e)) = n + 1
      /\ \A k \in 1..n : Append(old, e)[k] = old[k]
      /\ Append(old, e)[n + 1] = e
  BY AppendProperties
<1>5. \A k \in 1..(n + 1) : Append(old, e)[k] = new[k]
  BY <1>1, <1>4
<1> HIDE DEF new
<1>6. Append(old, e) = new
  BY <1>3, <1>4, <1>5, SeqEqual
<1> QED BY <1>6 DEF new

(* The COMMIT of buy is the ledger's purchase.                             *)
LEMMA CommitPurchaseBuys ==
  ASSUME IInv, NEW t \in Threads, CommitPurchase(t)
  PROVE  L!Next
<1> USE DEF IInv
<1>a. pc[t] = "inserted" /\ pc[t] \in Buying
  BY DEF CommitPurchase, Step, Buying
<1>b. PICK u \in Users, row \in PurchaseRow : u = req[t].user /\ row = req[t].row
  BY <1>a, BuyTypes
<1>c. PICK n \in Nat : n = Len(purchases[u])
  BY DEF TypeOK
<1>1. /\ credit_krw' = [credit_krw EXCEPT ![u] = row.credit_krw]
      /\ purchases' = [purchases EXCEPT ![u] = Append(@, row)]
      /\ reviews' = reviews
  BY <1>b DEF CommitPurchase
<1>2. /\ purchases[u] \in Seq(PurchaseRow)
      /\ purchases'[u] = Append(purchases[u], row)
      /\ Len(purchases'[u]) = n + 1
      /\ purchases'[u][n + 1] = row
      /\ \A k \in 1..n : purchases'[u][k] = purchases[u][k]
      /\ \A w \in Users : w # u => purchases'[w] = purchases[w]
  BY <1>1, <1>c DEF TypeOK
<1>3. row.credit_krw = credit_krw[u] - Amount(row) /\ row.credit_krw >= 0
  BY <1>a, <1>b DEF CreditRowLocked
<1>4. /\ row.product_id \in Products /\ row.quantity \in Quantities
      /\ row.unit_price_krw \in Prices
      /\ Amount(row) \in Nat /\ credit_krw[u] \in Int
  BY AmountIsNat DEF PurchaseRow, TypeOK
<1>5. History' = [History EXCEPT ![u] = Append(@, HistoryEntry(row))]
  <2>1. [k \in 1..(n + 1) |-> HistoryEntry(purchases'[u][k])]
          = Append([k \in 1..n |-> HistoryEntry(purchases[u][k])], HistoryEntry(row))
    <3> DEFINE old == [k \in 1..n |-> HistoryEntry(purchases[u][k])]
               S == {HistoryEntry(purchases[u][k]) : k \in 1..n} \cup {HistoryEntry(row)}
    <3>1. old \in Seq(S) /\ Len(old) = n /\ HistoryEntry(row) \in S
      OBVIOUS
    <3>2. \A k \in 1..(n + 1) :
            HistoryEntry(purchases'[u][k]) = IF k <= n THEN old[k] ELSE HistoryEntry(row)
      BY <1>2
    <3> HIDE DEF old, S
    <3>3. Append(old, HistoryEntry(row)) =
            [k \in 1..(n + 1) |-> IF k <= n THEN old[k] ELSE HistoryEntry(row)]
      BY <3>1, AppendIsFunction
    <3>4. [k \in 1..(n + 1) |-> HistoryEntry(purchases'[u][k])]
            = [k \in 1..(n + 1) |-> IF k <= n THEN old[k] ELSE HistoryEntry(row)]
      BY <3>2
    <3> QED BY <3>3, <3>4 DEF old
  <2>2. \A w \in Users : w # u =>
          [k \in 1..Len(purchases'[w]) |-> HistoryEntry(purchases'[w][k])]
            = [k \in 1..Len(purchases[w]) |-> HistoryEntry(purchases[w][k])]
    BY <1>2
  <2>3. History[u] = [k \in 1..n |-> HistoryEntry(purchases[u][k])]
    BY <1>c DEF History
  <2>4. \A w \in Users :
          [k \in 1..Len(purchases'[w]) |-> HistoryEntry(purchases'[w][k])]
            = [History EXCEPT ![u] = Append(@, HistoryEntry(row))][w]
    BY <1>2, <2>1, <2>2, <2>3 DEF History
  <2> QED BY <2>4 DEF History, HistoryEntry
<1>6. ReviewEntries' = ReviewEntries
  <2>1. ASSUME NEW k \in 1..Len(reviews)
        PROVE  NthOf(reviews[k])' = NthOf(reviews[k])
    <3>1. PICK r \in ReviewRow : r = reviews[k]
      BY DEF TypeOK
    <3>2. r.purchase_id \in IdsOf(r.author) /\ r.author \in Users
      BY <3>1 DEF ReviewsByOwner, ReviewRow
    <3>3. PICK j \in 1..Len(purchases[r.author]) :
            purchases[r.author][j].purchase_id = r.purchase_id /\ j = NthOf(r)
      BY <3>2, NthOfReview
    <3>4. row.purchase_id # r.purchase_id
      BY <1>a, <1>b, <3>2 DEF IdsAreFresh
    <3>5. \A i \in 1..Len(purchases'[r.author]) :
            purchases'[r.author][i].purchase_id = r.purchase_id
              <=> i \in 1..Len(purchases[r.author]) /\ purchases[r.author][i].purchase_id = r.purchase_id
      <4>1. CASE r.author # u
        BY <4>1, <1>2, <3>2
      <4>2. CASE r.author = u
        <5>1. ASSUME NEW i \in 1..(n + 1)
              PROVE  purchases'[u][i].purchase_id = r.purchase_id
                       <=> i \in 1..n /\ purchases[u][i].purchase_id = r.purchase_id
          <6>1. CASE i = n + 1
            BY <6>1, <1>2, <1>c, <3>4
          <6>2. CASE i \in 1..n
            BY <6>2, <1>2
          <6> QED BY <5>1, <6>1, <6>2, <1>c
        <5> QED BY <4>2, <5>1, <1>2, <1>c
      <4> QED BY <4>1, <4>2
    <3>6. 1..Len(purchases[r.author]) \subseteq 1..Len(purchases'[r.author])
      BY <1>2, <1>c, <3>2
    <3>7. \A i \in 1..Len(purchases'[r.author]) :
            purchases'[r.author][i].purchase_id = r.purchase_id <=> i = j
      BY <3>2, <3>3, <3>5 DEF IdsAreFresh
    <3>8. (CHOOSE i \in 1..Len(purchases'[r.author]) :
             purchases'[r.author][i].purchase_id = r.purchase_id) = j
      BY <3>3, <3>6, <3>7
    <3>9. NthOf(r)' = j
      BY <3>8 DEF NthOf
    <3>10. NthOf(reviews[k])' = NthOf(r)'
      BY <1>1, <3>1 DEF NthOf
    <3> QED BY <3>1, <3>3, <3>9, <3>10
  <2> QED BY <1>1, <2>1 DEF ReviewEntries, ReviewEntry
<1>7. L!Buy(u)
  <2>1. row.unit_price_krw * row.quantity <= credit_krw[u]
    <3>1. Amount(row) <= credit_krw[u]
      BY <1>3, <1>4
    <3> QED BY <3>1 DEF Amount
  <2>2. credit_krw' = [credit_krw EXCEPT ![u] = @ - row.unit_price_krw * row.quantity]
    BY <1>1, <1>3 DEF Amount, TypeOK
  <2>3. History' = [History EXCEPT ![u] = Append(@, [product |-> row.product_id,
                      quantity |-> row.quantity, price |-> row.unit_price_krw])]
    BY <1>5 DEF HistoryEntry
  <2> QED BY <1>4, <1>6, <2>1, <2>2, <2>3, Zenon DEF L!Buy
<1> QED BY <1>7 DEF L!Next

(* The COMMIT of write_review is the ledger's review.                      *)
LEMMA CommitReviewReviews ==
  ASSUME IInv, NEW t \in Threads, CommitReview(t)
  PROVE  L!Next
<1> USE DEF IInv
<1>a. pc[t] = "reviewing" /\ pc[t] \in Reviewing
  BY DEF CommitReview, Reviewing
<1>b. PICK row \in ReviewRow : row = req[t].row
  BY <1>a, ReviewTypes
<1>c. PICK n \in Nat : n = Len(reviews)
  BY DEF TypeOK
<1>d. PICK u \in Users : u = row.author
  BY DEF ReviewRow
<1>1. /\ UNCHANGED <<credit_krw, purchases>>
      /\ reviews' = Append(reviews, row)
  BY <1>b DEF CommitReview
<1>2. /\ Len(reviews') = n + 1 /\ reviews'[n + 1] = row
      /\ \A k \in 1..n : reviews'[k] = reviews[k]
      /\ \A k \in 1..(n + 1) : k \in 1..n \/ k = n + 1
      /\ 1..n \subseteq 1..(n + 1) /\ n + 1 \in 1..(n + 1)
  BY <1>1, <1>c DEF TypeOK
<1>3. row.purchase_id \in IdsOf(row.author) /\ ~Reviewed(row.purchase_id)
  BY <1>a, <1>b DEF ReviewKeyLocked
<1>4. PICK nth \in 1..Len(purchases[u]) :
        nth = NthOf(row) /\ purchases[u][nth].purchase_id = row.purchase_id
  BY <1>3, <1>d, NthOfReview
<1>5. History' = History
  BY <1>1 DEF History, HistoryEntry
<1>6. ReviewEntries' = ReviewEntries \cup {[user |-> u, nth |-> nth, rating |-> row.rating]}
  <2>1. \A k \in 1..n : ReviewEntry(reviews[k])' = ReviewEntry(reviews[k])
    BY <1>1, <1>2 DEF ReviewEntry, NthOf
  <2>2. ReviewEntry(reviews'[n + 1]) = [user |-> u, nth |-> nth, rating |-> row.rating]
    BY <1>2, <1>4, <1>d DEF ReviewEntry
  <2>3. ReviewEntry(reviews[n + 1])' = ReviewEntry(reviews'[n + 1])
    BY <1>1 DEF ReviewEntry, NthOf
  <2> QED BY <1>2, <1>c, <2>1, <2>2, <2>3 DEF ReviewEntries
<1>7. ASSUME NEW e \in ReviewEntries, e.user = u, e.nth = nth
      PROVE  FALSE
  <2>1. PICK k \in 1..n : e = ReviewEntry(reviews[k])
    BY <1>c DEF ReviewEntries
  <2>2. PICK r \in ReviewRow : r = reviews[k]
    BY <1>c DEF TypeOK
  <2>3. r.author = u /\ NthOf(r) = nth
    BY <1>7, <2>1, <2>2 DEF ReviewEntry
  <2>4. r.purchase_id \in IdsOf(r.author)
    BY <1>c, <2>2 DEF ReviewsByOwner
  <2>5. r.purchase_id = row.purchase_id
    BY <1>4, <2>3, <2>4, NthOfReview
  <2> QED BY <1>3, <1>c, <2>2, <2>5 DEF Reviewed
<1>8. nth \in 1..Len(History[u]) /\ row.rating \in Ratings
  <2>1. History[u] = [k \in 1..Len(purchases[u]) |-> HistoryEntry(purchases[u][k])]
    BY DEF History
  <2>2. Len(purchases[u]) \in Nat
    BY DEF TypeOK
  <2>3. Len(History[u]) = Len(purchases[u])
    BY <2>1, <2>2
  <2> QED BY <1>4, <2>3 DEF ReviewRow
<1>9. L!WriteReview(u)
  BY <1>1, <1>5, <1>6, <1>7, <1>8 DEF L!WriteReview
<1> QED BY <1>9 DEF L!Next

(* Every step is a step of the ledger or leaves it alone.                  *)
LEMMA NextRefines == IInv /\ [Next]_vars => [L!Next]_(L!vars)
<1> SUFFICES ASSUME IInv, [Next]_vars PROVE L!Next \/ UNCHANGED L!vars
  OBVIOUS
<1>1. ASSUME NEW t \in Threads, CommitPurchase(t) PROVE L!Next
  BY <1>1, CommitPurchaseBuys
<1>2. ASSUME NEW t \in Threads, CommitReview(t) PROVE L!Next
  BY <1>2, CommitReviewReviews
<1>3. CASE UNCHANGED <<credit_krw, purchases, reviews>>
  BY <1>3, UncommittedStutters
<1>4. ASSUME NEW t \in Threads, ~CommitPurchase(t), ~CommitReview(t),
             Begin(t) \/ SpendCredit(t) \/ InsertReview(t) \/ Proceed(t) \/ Fail(t)
      PROVE  UNCHANGED <<credit_krw, purchases, reviews>>
  BY <1>4 DEF Begin, BeginBuy, BeginReview, SpendCredit, InsertReview, Proceed,
              InsertPurchase, AnswerBuy, Fail, db
<1>5. ASSUME Crash \/ UNCHANGED vars \/
             \E product \in Products, price \in Prices :
               SetPrice(product, price) \/ CreateProduct(product, price)
      PROVE  UNCHANGED <<credit_krw, purchases, reviews>>
  BY <1>5 DEF Crash, SetPrice, CreateProduct, vars, db
<1> QED BY <1>1, <1>2, <1>3, <1>4, <1>5 DEF Next

(* Requests, row locks and commits implement the indivisible purchase and  *)
(* review of Ledger, whatever fails and however they interleave.           *)
THEOREM SpecImplementsLedger == Spec => ImplementsLedger
BY InitRefines, NextRefines, SpecIInv, PTL DEF Spec, ImplementsLedger, L!Spec

=============================================================================
