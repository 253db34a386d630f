SPECIFICATION FairSpec
CONSTANTS
  a = a
  b = b
  c = c
  old = old
  new = new
  x = x
  y = y
  Keep = Keep
  NoRow = NoRow
  Nothing = Nothing
  Threads = {t1, t2}
  Emails = {a, b, c}
  Names = {old, new}
  Notes = {old, new}
  Allergens = {x, y}
  MaxUserId = 4
  MaxPetId = 4
  Registrations <- MCRegistrations
  Changes <- MCChanges
  Leavers = {1}
  Visitors = {a}
  InitialUsers <- MCUsers
  InitialPets <- MCPets
INVARIANTS
  TypeOK
  UniqueLogins
PROPERTIES
  ImplementsRegistry
  RequestsAreAnswered
