SPECIFICATION Spec
CONSTANTS
  u1 = u1
  u2 = u2
  short = short
  long = long
  s1 = s1
  l1 = l1
  l2 = l2
  small = small
  wide = wide
  large = large
  now = now
  then = then
  NoBody = NoBody
  NoRow = NoRow
  NoTable = NoTable
  Shells = {a}
  Scripts <- SingleJobs
  PurchaseIds = {1, 2, 3}
  Buyer <- MCBuyer
  Bodies = {short, long}
  Written = {short}
  Products = {1}
  Details = {now, then}
  Loads <- BothLoads
  Models = {small}
  ServerModels = {small}
  Dim <- MCDim
  Split <- MCSplit
  Tokens <- MCTokens
  InitialMeta <- EmptyMeta
PROPERTIES
  QuietMeansCurrent
