SPECIFICATION Spec
CONSTANTS
  Names <- MCNames
  Ingredients <- MCIngredients
  Animals <- MCAnimals
  Owners = {"member", "guest"}
  Loads <- MCLoads
  Picks <- MCPicks
  EditedPets = {1}
  AdminProducts = {3}
  NewProducts = {2}
  Patches <- MCPatches
  Questions <- MCQuestions
  Sims <- MCSims
  Low = 0
  High = 1
  MinRating = 3
  Limit = 2
  Wide = 3
  NPick = 1
  MaxRetries = 2
  Down = Down
  Unknown = Unknown
  DemoOwner = "guest"
  DemoPet = 1
  DemoRows <- MCDemoRows
  DemoName = "chicken"
  DemoAnimal = "dog"
  DemoSize = 3
  DemoCount = 2
INVARIANT DemoAvoidsAllergy
