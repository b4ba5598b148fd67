---------------------------- MODULE RecipeGraph ----------------------------
(***************************************************************************)
(* What the books know about cost: SKUs, their recipes and prices, and the *)
(* Loyverse items mapped to them.  The routes and scripts that write them, *)
(* and the two walks over the graph of recipes: the cycle check of a save  *)
(* (recipes.py) and the cost resolver (margin.py).                         *)
(*                                                                         *)
(* A request looks, decides, and writes later under the store's lock; what *)
(* it decided waits in `pending`.  Undo makes none of the routes' checks.  *)
(* A script is a process of its own and races the web process likewise.    *)
(*                                                                         *)
(* What is weighed goes in by twos, which makes an estimated yield twice   *)
(* the number of such ingredients; of a price matters that there is one.   *)
(* References between the tables are taken as not enforced, as they are    *)
(* not after a restart (see Vocabulary): enforcing them only refuses steps.*)
(***************************************************************************)
EXTENDS Integers, FiniteSets, FiniteSetsExt, Functions

CONSTANTS
  Sku,         \* SKU ids
  Countable,   \* those measured in `unit`: eggs, bottles, pints
  Served,      \* purchasable SKU -> the SKU sold from it, "<sku>:served"
  Item,        \* Loyverse items
  Seeded,      \* the SKUs of the seed
  SeedRecipe,  \* seeded SKU -> what the recipe it was seeded with uses
  Form,        \* the recipe forms a partner submits
  NewSku,      \* the new-SKU forms
  File,        \* the files of one mapping and one price that are uploaded
  Workbook,    \* the workbooks that are imported
  Typed,       \* the yields a partner types
  None,        \* no such row
  MaxPending,  \* bound: requests between look and write
  MaxLog       \* bound: distinct transactions

\* The SKUs a workbook brings.
Brought(book) == book.priced \cup DOMAIN book.recipes

RecipeRow ==
  [ingredients : SUBSET Sku, yield : 0..2 * Cardinality(Sku) \cup Typed,
   estimated : BOOLEAN, prep : BOOLEAN]

ASSUME RecipeGraphAssumption ==
  /\ IsFiniteSet(Sku)
  /\ Seeded \cup Countable \cup DOMAIN Served \cup Range(Served) \subseteq Sku
  /\ DOMAIN SeedRecipe \subseteq Seeded /\ Range(SeedRecipe) \subseteq (SUBSET Seeded) \ {{}}
  /\ \A X \in SUBSET DOMAIN SeedRecipe : X # {} => \E s \in X : SeedRecipe[s] \cap X = {}
  /\ Range(Served) \subseteq Countable /\ \A s \in DOMAIN Served : Served[s] # s
  /\ Form \subseteq [sku : Sku, ingredients : SUBSET Sku, posted : Typed \cup {None}, prep : BOOLEAN]
  /\ NewSku \subseteq [sku : Sku, priced : BOOLEAN, item : Item \cup {None}]
  /\ File \subseteq [item : Item, target : Sku, priced : Sku]
  /\ \A book \in Workbook :
       /\ Brought(book) \cup book.bare \subseteq Sku
       /\ Range(book.recipes) \subseteq
            [ingredients : (SUBSET Sku) \ {{}}, yield : Typed, prep : BOOLEAN]
  /\ Typed \subseteq Nat \ {0}
  /\ None \notin RecipeRow \cup Sku
  /\ MaxPending \in Nat /\ MaxLog \in Nat

VARIABLES
  skus,     \* SKU -> whether there is a row
  recipes,  \* SKU -> its recipe
  costs,    \* SKU -> whether it has a price of its own
  mapping,  \* item -> the SKU it sells
  log,      \* the audit trail: of each transaction, the rows it changed
  pending,  \* what requests have decided to write
  routine   \* history: web requests one at a time so far, and no undo

books == <<skus, recipes, costs, mapping>>
vars == <<skus, recipes, costs, mapping, log, pending, routine>>

TypeOK ==
  /\ skus \in [Sku -> BOOLEAN] /\ costs \in [Sku -> BOOLEAN]
  /\ recipes \in [Sku -> RecipeRow \cup {None}]
  /\ \A s \in Sku : recipes[s] # None => recipes[s].ingredients # {}
  /\ mapping \in [Item -> Sku \cup {None}]
  /\ \A t \in log : \E table \in DOMAIN t : t[table] # {}
  /\ Cardinality(pending) <= MaxPending
  /\ routine \in BOOLEAN

-----------------------------------------------------------------------------
(***************************************************************************)
(* The cycle check.                                                        *)
(***************************************************************************)

Edges == [s \in Sku |-> IF recipes[s] = None THEN {} ELSE recipes[s].ingredients]

\* Fault: only the ingredients of the ingredients are looked at.
FindsCycleShallow(s, ingredients) ==
  s \in ingredients \/ \E i \in ingredients : s \in Edges[i]

\* find_recipe_cycle: a walk from s that turns away only from the SKUs on its
\* own path.
FindsCycle(s, ingredients) ==
  LET edges == [Edges EXCEPT ![s] = ingredients]
      walk[path \in SUBSET Sku] == [node \in Sku |->
        \E next \in edges[node] :
          next = s \/ (next \notin path /\ walk[path \cup {node}][next])]
  IN walk[{}][s]

-----------------------------------------------------------------------------
(***************************************************************************)
(* The cost resolver.                                                      *)
(***************************************************************************)

\* Fault: a price of its own wins over the recipe.
PriceableDirect(s) ==
  LET resolved[seen \in SUBSET Sku] == [t \in Sku |->
        \/ costs[t]
        \/ /\ recipes[t] # None /\ t \notin seen /\ recipes[t].yield > 0
           /\ \A i \in recipes[t].ingredients : resolved[seen \cup {t}][i]]
  IN resolved[{}][s]

\* CostResolver.unit_cost is not None.
Priceable(s) ==
  LET resolved[seen \in SUBSET Sku] == [t \in Sku |->
        IF recipes[t] = None THEN costs[t]
        ELSE /\ t \notin seen
             /\ recipes[t].yield > 0
             /\ \A i \in recipes[t].ingredients : resolved[seen \cup {t}][i]]
  IN resolved[{}][s]

\* Fault: the walk ends at a prep.
UnpricedLeavesOfPreps(s) ==
  IF recipes[s] = None THEN {t \in {s} : ~costs[t]}
  ELSE {i \in recipes[s].ingredients : recipes[i] = None /\ ~costs[i]}

\* CostResolver.unpriced_leaves.
UnpricedLeaves(s) ==
  LET leaves[seen \in SUBSET Sku] == [t \in Sku |->
        IF recipes[t] = None THEN {u \in {t} : ~costs[u]}
        ELSE IF t \in seen THEN {}
        ELSE UNION {leaves[seen \cup {t}][i] : i \in recipes[t].ingredients}]
  IN leaves[{}][s]

\* sku_role.
Role(s) ==
  IF recipes[s] = None THEN "purchasable"
  ELSE IF recipes[s].prep THEN "prep" ELSE "produced"

-----------------------------------------------------------------------------
(***************************************************************************)
(* Requests.                                                               *)
(***************************************************************************)

Decide(decided) ==
  /\ decided \notin pending
  /\ Cardinality(pending) < MaxPending
  /\ pending' = pending \cup {decided}
  /\ routine' = (routine /\ pending = {})
  /\ UNCHANGED <<books, log>>

Changes(old, new) ==
  {[pk |-> pk, old |-> old[pk], new |-> new[pk]] : pk \in {k \in DOMAIN old : old[k] # new[k]}}

Transaction ==
  [skus |-> Changes(skus, skus'), recipes |-> Changes(recipes, recipes'),
   costs |-> Changes(costs, costs'), mapping |-> Changes(mapping, mapping')]

\* Fault: a transaction that changed nothing is recorded.
AuditedAlways ==
  /\ log' = log \cup {Transaction}
  /\ Cardinality(log') <= MaxLog

\* Every change of a row is an audit entry of the same transaction.
Audited ==
  /\ log' = log \cup {t \in {Transaction} : \E table \in DOMAIN t : t[table] # {}}
  /\ Cardinality(log') <= MaxLog

\* A request meets its transaction: `ok` or rolled back.
Finish(w, ok) ==
  /\ IF ok THEN Audited ELSE UNCHANGED <<books, log>>
  /\ pending' = pending \ {w}
  /\ UNCHANGED routine

-----------------------------------------------------------------------------
(***************************************************************************)
(* Recipes.                                                                *)
(***************************************************************************)

\* estimated_yield: what a batch would yield with no loss, countables aside.  It
\* is 0 where all are countable, and is saved so, whatever a form says of zero.
EstimatedYield(ingredients) == 2 * Cardinality(ingredients \ Countable)

\* A changed yield was measured, a measured one stays, any other is estimated.
SubmittedRecipe(form) ==
  LET stored == recipes[form.sku]
      touched == form.posted # None /\ (stored # None => stored.yield # form.posted)
      kept == stored # None /\ ~stored.estimated
  IN [ingredients |-> form.ingredients, prep |-> form.prep,
      estimated |-> ~touched /\ ~kept,
      yield |-> IF touched THEN form.posted
                ELSE IF kept THEN stored.yield
                ELSE EstimatedYield(form.ingredients)]

\* Fault: the form takes any ingredient that is no sold-only dish.
AcceptableUnwalked(form) ==
  /\ skus[form.sku] /\ form.ingredients # {}
  /\ \A i \in form.ingredients : skus[i] /\ Role(i) # "produced"

Acceptable(form) ==
  /\ skus[form.sku] /\ form.ingredients # {}
  /\ \A i \in form.ingredients : skus[i] /\ Role(i) # "produced"
  /\ ~FindsCycle(form.sku, form.ingredients)

CheckSaveRecipe(form) ==
  /\ Acceptable(form)
  /\ Decide([op |-> "save recipe", sku |-> form.sku, recipe |-> SubmittedRecipe(form)])

SaveRecipe(w) ==
  /\ w.op = "save recipe"
  /\ recipes' = [recipes EXCEPT ![w.sku] = w.recipe]
  /\ UNCHANGED <<skus, costs, mapping>>
  /\ Finish(w, TRUE)

DeleteRecipe(s) ==
  /\ skus[s] /\ recipes[s] # None
  /\ recipes' = [recipes EXCEPT ![s] = None]
  /\ UNCHANGED <<skus, costs, mapping, pending>>
  /\ Audited
  /\ routine' = (routine /\ pending = {})

-----------------------------------------------------------------------------
(***************************************************************************)
(* Prices, and the file that carries prices and mappings.                  *)
(***************************************************************************)

\* Fault: any SKU can be given a price.
PriceDirectlyAny(s) == skus[s]

\* A produced SKU is never priced directly.
PriceDirectly(s) == skus[s] /\ recipes[s] = None

CheckSaveCost(s) ==
  /\ PriceDirectly(s)
  /\ Decide([op |-> "save cost", sku |-> s])

SaveCost(w) ==
  /\ w.op = "save cost"
  /\ costs' = [costs EXCEPT ![w.sku] = TRUE]
  /\ UNCHANGED <<skus, recipes, mapping>>
  /\ Finish(w, TRUE)

\* parse_upload, of a file with one row of each kind: a row that only repeats
\* what is stored changes nothing.
ParseUpload(file) ==
  /\ skus[file.target] /\ PriceDirectly(file.priced)
  /\ LET remaps == mapping[file.item] # file.target  prices == ~costs[file.priced] IN
       /\ remaps \/ prices
       /\ Decide([op |-> "upload", file |-> file, remaps |-> remaps, prices |-> prices])

\* Each change is a transaction of its own, mappings before prices.
UploadMapping(w) ==
  /\ w.op = "upload" /\ w.remaps
  /\ mapping' = [mapping EXCEPT ![w.file.item] = w.file.target]
  /\ UNCHANGED <<skus, recipes, costs, routine>>
  /\ Audited
  /\ pending' = (pending \ {w}) \cup
       IF w.prices THEN {[w EXCEPT !.remaps = FALSE]} ELSE {}

UploadCost(w) ==
  /\ w.op = "upload" /\ ~w.remaps /\ w.prices
  /\ costs' = [costs EXCEPT ![w.file.priced] = TRUE]
  /\ UNCHANGED <<skus, recipes, mapping>>
  /\ Finish(w, TRUE)

-----------------------------------------------------------------------------
(***************************************************************************)
(* New SKUs, and the strokes that need several rows: one batch each, which *)
(* an INSERT of a SKU that exists by now rolls back.                       *)
(***************************************************************************)

\* create_sku, with a price and an item to map or without.
CheckCreateSku(form) ==
  /\ ~skus[form.sku]
  /\ Decide([op |-> "create sku", form |-> form])

CreateSku(w) ==
  /\ w.op = "create sku"
  /\ LET s == w.form.sku  ok == ~skus[s] IN
       /\ skus' = [skus EXCEPT ![s] = TRUE]
       /\ costs' = [costs EXCEPT ![s] = @ \/ (ok /\ w.form.priced)]
       /\ mapping' = [i \in Item |-> IF ok /\ i = w.form.item THEN s ELSE mapping[i]]
       /\ UNCHANGED recipes
       /\ Finish(w, ok)

\* One bottle is one bottle: yield 1, measured, not for use in other recipes.
\* Fault: the dish is poured from itself.
ServingOfItself(s) ==
  [ingredients |-> {Served[s]}, yield |-> 1, estimated |-> FALSE, prep |-> FALSE]

Serving(s) == [ingredients |-> {s}, yield |-> 1, estimated |-> FALSE, prep |-> FALSE]

\* create_serving_recipe_setup.
CheckSoldAsIs(s, item) ==
  /\ ~skus[s] /\ ~skus[Served[s]]
  /\ Decide([op |-> "sold as is", sku |-> s, item |-> item])

SoldAsIs(w) ==
  /\ w.op = "sold as is"
  /\ LET s == w.sku  ok == ~skus[s] /\ ~skus[Served[s]] IN
       /\ IF ok
          THEN /\ skus' = [skus EXCEPT ![s] = TRUE, ![Served[s]] = TRUE]
               /\ costs' = [costs EXCEPT ![s] = TRUE]
               /\ recipes' = [recipes EXCEPT ![Served[s]] = Serving(s)]
               /\ mapping' = [mapping EXCEPT ![w.item] = Served[s]]
          ELSE UNCHANGED books
       /\ Finish(w, ok)

\* add_serving_recipes.py: every item that sells a SKU without a recipe.
ServingPlan ==
  {i \in Item : mapping[i] # None /\ mapping[i] \in DOMAIN Served /\ recipes[mapping[i]] = None}

PlanServings ==
  /\ ServingPlan # {}
  /\ \A i \in ServingPlan : skus[mapping[i]] /\ ~skus[Served[mapping[i]]]
  /\ Decide([op |-> "add servings", plan |-> Restrict(mapping, ServingPlan)])

\* Two items of one SKU ask for the same serving: the second INSERT fails.
AddServings(w) ==
  /\ w.op = "add servings"
  /\ LET sold == Range(w.plan)
         ok == IsInjective(w.plan) /\ \A s \in sold : ~skus[Served[s]] IN
       /\ IF ok
          THEN /\ skus' = [s \in Sku |-> skus[s] \/ \E t \in sold : s = Served[t]]
               /\ recipes' = [s \in Sku |->
                    IF \E t \in sold : s = Served[t]
                    THEN Serving(CHOOSE t \in sold : s = Served[t]) ELSE recipes[s]]
               /\ mapping' = [i \in Item |->
                    IF i \in DOMAIN w.plan THEN Served[w.plan[i]] ELSE mapping[i]]
               /\ UNCHANGED costs
          ELSE UNCHANGED books
       /\ Finish(w, ok)

-----------------------------------------------------------------------------
(***************************************************************************)
(* import_derived_recipes.py.  A workbook brings priced ingredients and    *)
(* recipes; what they use must exist, or be brought, or be one of the bare *)
(* SKUs the script knows.  Nothing looks for a cycle.                      *)
(***************************************************************************)

Consumed(book) ==
  UNION {book.recipes[s].ingredients : s \in DOMAIN book.recipes} \cup UNION Range(Edges)

ValidateWorkbook(book) ==
  /\ \A s \in Brought(book) : ~skus[s]
  /\ \A s \in DOMAIN book.recipes : \A i \in book.recipes[s].ingredients :
       skus[i] \/ i \in Brought(book) \cup book.bare
  /\ Decide([op |-> "import", priced |-> book.priced,
             bare |-> {s \in book.bare : ~skus[s]},
             rows |-> [s \in DOMAIN book.recipes |->
               LET row == book.recipes[s]  prep == row.prep \/ s \in Consumed(book) IN
               [ingredients |-> row.ingredients, yield |-> row.yield, prep |-> prep,
                estimated |-> prep /\ row.yield # 1]]])

ApplyWorkbook(w) ==
  /\ w.op = "import"
  /\ LET new == w.priced \cup w.bare \cup DOMAIN w.rows
         ok == \A s \in new : ~skus[s] IN
       /\ IF ok
          THEN /\ skus' = [s \in Sku |-> skus[s] \/ s \in new]
               /\ costs' = [s \in Sku |-> costs[s] \/ s \in w.priced]
               /\ recipes' = [s \in Sku |-> IF s \in DOMAIN w.rows THEN w.rows[s] ELSE recipes[s]]
               /\ UNCHANGED mapping
          ELSE UNCHANGED books
       /\ IF ok THEN Audited ELSE UNCHANGED log
  /\ pending' = pending \ {w}
  /\ routine' = FALSE

-----------------------------------------------------------------------------
(***************************************************************************)
(* Undo, and the process.                                                  *)
(***************************************************************************)

\* _revert_target of a recipe: only the columns the entry moved go back.
RevertedRecipe(old, new, current) ==
  IF old = None \/ new = None \/ current = None THEN old
  ELSE [c \in DOMAIN current |-> IF old[c] # new[c] THEN old[c] ELSE current[c]]

RevertEntry ==
  /\ \/ \E t \in log : \E e \in t.skus :
          /\ skus' = [skus EXCEPT ![e.pk] = e.old]
          /\ UNCHANGED <<recipes, costs, mapping>>
     \/ \E t \in log : \E e \in t.recipes :
          /\ recipes' = [recipes EXCEPT ![e.pk] = RevertedRecipe(e.old, e.new, @)]
          /\ UNCHANGED <<skus, costs, mapping>>
     \/ \E t \in log : \E e \in t.costs :
          /\ costs' = [costs EXCEPT ![e.pk] = e.old]
          /\ UNCHANGED <<skus, recipes, mapping>>
     \/ \E t \in log : \E e \in t.mapping :
          /\ mapping' = [mapping EXCEPT ![e.pk] = e.old]
          /\ UNCHANGED <<skus, recipes, costs>>
  /\ Audited
  /\ routine' = FALSE
  /\ UNCHANGED pending

\* Fault: every measured yield of an ingredient is estimated anew.
BackfilledAnyYield(s) ==
  /\ recipes[s] # None /\ ~recipes[s].estimated
  /\ \E t \in Sku : s \in Edges[t]
  /\ EstimatedYield(recipes[s].ingredients) > 0

\* The legacy default, measured and 1, of a recipe that is an ingredient.
BackfilledYield(s) ==
  /\ recipes[s] # None /\ ~recipes[s].estimated /\ recipes[s].yield = 1
  /\ \E t \in Sku : s \in Edges[t]
  /\ EstimatedYield(recipes[s].ingredients) > 0

\* seed_config, at the start of a web process, which forgets what was decided
\* and a file's other half, or of a command-line report beside it.  Unaudited.
Start ==
  /\ recipes' = [s \in Sku |->
       IF BackfilledYield(s)
       THEN [recipes[s] EXCEPT !.yield = EstimatedYield(recipes[s].ingredients), !.estimated = TRUE]
       ELSE recipes[s]]
  /\ pending' \in {pending, {}}
  /\ UNCHANGED <<skus, costs, mapping, log, routine>>

-----------------------------------------------------------------------------
\* The seed declares a prep by using it, and its yield is estimated then.
SeededRow(s) ==
  LET used == \E t \in DOMAIN SeedRecipe : s \in SeedRecipe[t] IN
  [ingredients |-> SeedRecipe[s], prep |-> used, estimated |-> used,
   yield |-> IF used THEN EstimatedYield(SeedRecipe[s]) ELSE 1]

Init ==
  /\ skus = [s \in Sku |-> s \in Seeded]
  /\ recipes = [s \in Sku |-> IF s \in DOMAIN SeedRecipe THEN SeededRow(s) ELSE None]
  /\ costs = [s \in Sku |-> FALSE]
  /\ mapping = [i \in Item |-> None]
  /\ log = {}
  /\ pending = {}
  /\ routine = TRUE

Look ==
  \/ \E form \in Form : CheckSaveRecipe(form)
  \/ \E s \in Sku : CheckSaveCost(s)
  \/ \E file \in File : ParseUpload(file)
  \/ \E form \in NewSku : CheckCreateSku(form)
  \/ \E s \in DOMAIN Served, item \in Item : CheckSoldAsIs(s, item)
  \/ PlanServings
  \/ \E book \in Workbook : ValidateWorkbook(book)

Write(w) ==
  \/ SaveRecipe(w) \/ SaveCost(w)
  \/ UploadMapping(w) \/ UploadCost(w)
  \/ CreateSku(w) \/ SoldAsIs(w) \/ AddServings(w) \/ ApplyWorkbook(w)

Next ==
  \/ Look
  \/ \E w \in pending : Write(w)
  \/ \E s \in Sku : DeleteRecipe(s)
  \/ RevertEntry
  \/ Start

Spec == Init /\ [][Next]_vars

-----------------------------------------------------------------------------
(***************************************************************************)
(* Properties.                                                             *)
(***************************************************************************)

\* The SKUs reached from a set of ingredients over given edges, by iteration.
Reached(edges, ingredients) ==
  LET reach[n \in Nat] ==
        IF n = 0 THEN ingredients
        ELSE LET near == reach[n - 1] IN near \cup UNION {edges[s] : s \in near}
  IN reach[Cardinality(Sku)]

\* The cycle check of a save is exact, whatever the graph it walks has become:
\* it refuses a list of ingredients if and only if the saved SKU would be
\* reached from it.
CycleCheckExact ==
  \A s \in Sku, ingredients \in SUBSET Sku :
    FindsCycle(s, ingredients) <=>
      s \in Reached([Edges EXCEPT ![s] = ingredients], ingredients)

OnCycle(s) == s \in Reached(Edges, Edges[s])

\* "A recipe may not contain its own output, directly or through other preps":
\* no series of requests, one at a time, closes a cycle.
RoutineRecipesAcyclic == routine => \A s \in Sku : ~OnCycle(s)

\* What can be costed, from the leaves up: priced purchasables, then recipes
\* with a yield whose ingredients can all be costed.
Costable ==
  LET upTo[n \in Nat] ==
        IF n = 0 THEN {s \in Sku : recipes[s] = None /\ costs[s]}
        ELSE LET lower == upTo[n - 1] IN
             lower \cup {s \in Sku : /\ recipes[s] # None /\ recipes[s].yield > 0
                                     /\ recipes[s].ingredients \subseteq lower}
  IN upTo[Cardinality(Sku)]

\* The resolver, from the dish down with its guard against loops, prices
\* exactly what can be costed from the leaves up, in every graph that races,
\* imports and undos can leave behind.
CostingAgrees == {s \in Sku : Priceable(s)} = Costable

\* A SKU without a cost is explained to the partner: an unpriced leaf is named,
\* unless a cycle or a yield of nothing is below it.
UnpricedExplained ==
  \A s \in Sku :
    LET below == {s} \cup Reached(Edges, Edges[s]) IN
    ~Priceable(s) =>
      \/ UnpricedLeaves(s) # {}
      \/ \E t \in below : OnCycle(t) \/ (recipes[t] # None /\ recipes[t].yield = 0)

\* "A produced SKU is never priced directly": no request on its own gives a
\* price to a SKU that has a recipe.
PricesLandOnPurchasables ==
  [][routine' => \A s \in Sku : ~costs[s] /\ costs'[s] => recipes[s] = None]_vars

\* A sold-as-is stroke leaves an item that can be costed at once, unless it
\* met another request.
ServingsAreCostable ==
  [][routine' =>
       \A w \in pending : SoldAsIs(w) => Priceable(mapping[w.item])']_vars

\* seed_config: "re-running it every startup neither churns data nor clobbers a
\* partner-measured yield".
MeasuredYieldsSurviveStart ==
  [][Start => \A s \in Sku \ DOMAIN SeedRecipe :
       recipes[s] # None /\ ~recipes[s].estimated => recipes'[s] = recipes[s]]_vars

\* A yield above 1 that was weighed does survive every start.
WeighedYieldsSurviveStart ==
  [][Start => \A s \in Sku :
       recipes[s] # None /\ ~recipes[s].estimated /\ recipes[s].yield > 1 =>
         recipes'[s] = recipes[s]]_vars
=============================================================================
