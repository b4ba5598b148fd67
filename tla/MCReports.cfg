SPECIFICATION Spec
CONSTANTS
  latte = latte  tea = tea  beer = beer  milk = milk  keg = keg
  ann = ann  bob = bob  cho = cho
  Item = {latte, tea, beer}
  Leaf = {milk, keg}
  Sku <- AllSkus
  SeedRecipe <- Seeds
  SeedMapping <- SeedMappings
  SeedPrice <- SeedPrices
  RecipeForm <- Forms
  Mapping <- Mappings
  Receipt <- Receipts
  FixedForm <- FixedForms
  SpendForm <- SpendForms
  Price = {4}
  None = None
  LastDay = 4
  MonthDays = 2
  WeekDays = 3
  RollingDays = 2
  TrendBuckets = 2
  MaxToday = 3
  MaxSales = 2
  MaxEdits = 3
  Invoice <- Invoices
  Correction <- Corrections
  CafeSku = {milk}
  KegSku = {keg}
  Tare = 10
  CountForm <- CountForms
  WeighForm <- WeighForms
  Tolerance = 1
  MaxPapers = 5
  Cashier = {ann, bob}
  Rung = {2}
  Taken = {0, 1}
  Miscount <- Miscounts
  HandoffTolerance = 1
  VoidForm <- VoidForms
  SalesCount <- SalesCounts
  ShortRate <- Short
  Task = {open, close}
  Occurrence = {1, 2, 3}
  MaxCloses = 4
  MaxRecords = 3
INVARIANTS ViewsAgree RenderedReportFits StockBookedOnce PurchasesAddUp ShortsFallOnTheirCashier
PROPERTIES PastReportsStay SkipsCarry
CHECK_DEADLOCK FALSE
