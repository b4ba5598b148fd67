SPECIFICATION Spec
CONSTANTS
  egg = egg  sauce = sauce  bun = bun  served = served  fried = fried  boiled = boiled
  Sku <- AllSkus
  Countable <- CountableSkus
  Served <- ServedAs
  Item = {fried, boiled}
  Seeded <- SeededSkus
  SeedRecipe <- SeedRecipes
  Form <- Forms
  NewSku <- NewSkus
  File <- Files
  Workbook <- Workbooks
  Typed = {1, 9}
  None = None
  MaxPending = 2
  MaxLog = 3
INVARIANTS TypeOK CycleCheckExact RoutineRecipesAcyclic CostingAgrees UnpricedExplained
PROPERTIES PricesLandOnPurchasables ServingsAreCostable
  WeighedYieldsSurviveStart
CHECK_DEADLOCK FALSE
