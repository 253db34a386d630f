SPECIFICATION SpecVerify
CONSTANTS
  u1 = u1
  u2 = u2
  short = short
  long = long
  s1 = s1
  l1 = l1
  l2 = l2
  small = small
  wide = wide
  large = large
  now = now
  then = then
  NoBody = NoBody
  NoRow = NoRow
  NoTable = NoTable
  MaxTokens = 2
  Shells = {a}
  Scripts <- InOrder
  PurchaseIds = {1, 2, 3, 4}
  Buyer <- FourBuyers
  Bodies = {short, long}
  Written = {short}
  Products = {1}
  Details = {now, then}
  Loads <- LaterLoads
  Models = {small, wide}
  ServerModels = {small}
  Dim <- MCDim
  Split <- MCSplit
  Tokens <- MCTokens
  InitialMeta <- EmptyMeta
PROPERTIES
  DocumentedOrderHidesHoldout
  JobsCatchUp
  PassedMeansQuiet
  DocumentedOrderVerifies
