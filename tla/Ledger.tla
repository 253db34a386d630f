------------------------------- MODULE Ledger -------------------------------
(***************************************************************************)
(* What the shop promises about credit, purchases and reviews: a purchase  *)
(* takes its price out of the member's credit and enters the member's      *)
(* history in one indivisible step, and the member may review each entry   *)
(* of that history once.  There are no requests, ids, locks or             *)
(* transactions here; Purchasing.tla is shown to implement this module.    *)
(***************************************************************************)
EXTENDS Integers, Sequences

CONSTANTS Users, Products, Prices, Quantities, Ratings, InitialCredit

VARIABLES
  credit,   \* what each member has left to spend
  history,  \* what each member has bought, oldest first
  reviewed  \* the reviews: whose, of which entry of the history, how rated

vars == <<credit, history, reviewed>>

Init ==
  /\ credit = InitialCredit
  /\ history = [u \in Users |-> <<>>]
  /\ reviewed = {}

(* A member buys what the credit covers.                                   *)
Buy(u) ==
  \E product \in Products, quantity \in Quantities, price \in Prices :
    /\ price * quantity <= credit[u]
    /\ credit' = [credit EXCEPT ![u] = @ - price * quantity]
    /\ history' = [history EXCEPT ![u] =
         Append(@, [product |-> product, quantity |-> quantity, price |-> price])]
    /\ UNCHANGED reviewed

(* A member reviews an entry of their own history, once.                   *)
WriteReview(u) ==
  \E nth \in 1..Len(history[u]), rating \in Ratings :
    /\ \A r \in reviewed : ~(r.user = u /\ r.nth = nth)
    /\ reviewed' = reviewed \cup {[user |-> u, nth |-> nth, rating |-> rating]}
    /\ UNCHANGED <<credit, history>>

Next == \E u \in Users : Buy(u) \/ WriteReview(u)

Spec == Init /\ [][Next]_vars
=============================================================================
