SPECIFICATION FairSpec
CONSTANTS
  u1 = u1
  u2 = u2
  u3 = u3
  NoRow = NoRow
  Users = {u1, u2, u3}
  Threads = {t1, t2}
  Products = {1}
  Pets = {1, 2, 3, 4}
  ActivePets = {1, 2, 3}
  Prices = {1, 2}
  Quantities = {2}
  Ratings = {5}
  MaxPurchaseId = 3
  Owner <- MCOwner
  InitialCredit <- MCInitialCredit
INVARIANTS
  TypeOK
  CreditNeverNegative
  BalanceChain
  OneReviewPerPurchase
PROPERTIES
  ImplementsLedger
  RequestsAreAnswered
