CONSTANTS
  ServiceOpen = 1
  Today = 3
  OpenUntil = 2
  RecentFrom = 2
  DormantUntil = 1
  BirthDays = {0, 3}
  Lifetime = 2
  Calendar <- MCCalendar
  Drawn = {}
  NUsers = 2
  MaxPets = 1
  NProducts = 2
  NExtra = 1
  NSolo = 2
  Providers = {"local", "kakao"}
  Animals = {"dog", "cat"}
  Breeds = {"maltese"}
  BreedAnimal <- MCBreedAnimal
  BodySize <- MCBodySize
  DefaultSize <- MCDefaultSize
  BreedCounts <- MCBreedCounts
  Allergens = {"meat", "chicken", "thigh"}
  AllergenFiles <- MCAllergenFiles
  Parent <- MCParent
  NoParent = "none"
  MaxPicks = 1
  Kinds <- MCKinds
  ReviewDays = {1}
  SourceFiles <- MCSourceFiles
  MaxSignUps = 4
VIEW Looked
SPECIFICATION Spec
INVARIANT TypeOK
INVARIANT PetsFitOwners
INVARIANT PurchasesFitRows
INVARIANT PurchasesSuitAnimals
INVARIANT AgesAdvance
INVARIANT SeedLoads
