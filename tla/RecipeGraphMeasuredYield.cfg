SPECIFICATION Spec
CONSTANTS
  egg = egg  sauce = sauce  bun = bun  served = served  fried = fried  boiled = boiled
  Sku <- AllSkus
  Countable <- CountableSkus
  Served <- ServedAs
  Item = {fried, boiled}
  Seeded <- SeededSkus
  SeedRecipe <- SeedRecipes
  Form <- Forms
  NewSku <- NewSkus
  File <- Files
  Workbook = {}
  Typed = {1, 9}
  None = None
  MaxPending = 2
  MaxLog = 3
PROPERTY MeasuredYieldsSurviveStart
CHECK_DEADLOCK FALSE
