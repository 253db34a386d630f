CONSTANTS
  ServiceOpen = 1
  Today = 3
  OpenUntil = 2
  RecentFrom = 2
  DormantUntil = 1
  BirthDays = {0, 3}
  Lifetime = 2
  Calendar <- MCCalendar
  Drawn = {}
  NUsers = 1
  MaxPets = 1
  NProducts = 1
  NExtra = 1
  NSolo = 2
  Providers = {"local", "kakao"}
  Animals = {"dog", "cat"}
  Breeds = {"maltese"}
  BreedAnimal <- MCBreedAnimal
  BodySize <- MCBodySize
  DefaultSize <- MCDefaultSize
  BreedCounts <- MCBreedCounts
  Allergens = {"meat", "chicken", "thigh"}
  AllergenFiles <- MCAllergenFiles
  Parent <- MCParent
  NoParent = "none"
  MaxPicks = 1
  Kinds <- MCKinds
  ReviewDays = {1}
  SourceFiles <- NoSourceFile
  MaxSignUps = 4
SPECIFICATION Spec
INVARIANT OnlyEmailsConflict
