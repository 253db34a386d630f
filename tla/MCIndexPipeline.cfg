SPECIFICATION FairSpec
CONSTANTS
  u1 = u1
  u2 = u2
  short = short
  long = long
  s1 = s1
  l1 = l1
  l2 = l2
  small = small
  wide = wide
  large = large
  now = now
  then = then
  NoBody = NoBody
  NoRow = NoRow
  NoTable = NoTable
  Shells = {a, b}
  Scripts <- SingleJobs
  PurchaseIds = {1, 2, 3}
  Buyer <- MCBuyer
  Bodies = {short, long}
  Written = {}
  Products = {1}
  Details = {then}
  Loads <- OneLoad
  Models = {small, large}
  ServerModels = {}
  Dim <- MCDim
  Split <- MCSplit
  Tokens <- MCTokens
  InitialMeta <- EmptyMeta
INVARIANTS
  TypeOK
  VectorsMatchChunks
  NoFalseAlarm
PROPERTIES
  ScriptsEnd
