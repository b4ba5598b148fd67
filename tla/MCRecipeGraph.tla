--------------------------- MODULE MCRecipeGraph ---------------------------
(* A sauce and a bun of the seed, an egg to be created, sold as it is or   *)
(* by two items at once, and forms that close cycles of one, two and three. *)
EXTENDS RecipeGraph

CONSTANTS egg, sauce, bun, served

AllSkus == {egg, sauce, bun, served}
CountableSkus == {egg, served}
ServedAs == [s \in {egg} |-> served]
SeededSkus == {sauce, bun}
SeedRecipes == [s \in {sauce} |-> {bun}]

Submit(s, ingredients, posted, prep) ==
  [sku |-> s, ingredients |-> ingredients, posted |-> posted, prep |-> prep]

Forms == {
  Submit(sauce, {bun}, None, TRUE), Submit(bun, {sauce}, None, TRUE),
  Submit(bun, {sauce, egg}, None, FALSE), Submit(sauce, {egg}, None, TRUE),
  Submit(sauce, {egg}, 9, FALSE), Submit(egg, {bun}, 1, TRUE),
  Submit(sauce, {sauce, bun}, 9, TRUE)}

CONSTANTS fried, boiled

NewSkus == {
  [sku |-> egg, priced |-> TRUE, item |-> fried], [sku |-> served, priced |-> FALSE, item |-> None]}

Files == {[item |-> boiled, target |-> egg, priced |-> sauce]}

Row(ingredients, yield, prep) ==
  [ingredients |-> ingredients, yield |-> yield, prep |-> prep]

\* One workbook whose two recipes use each other, one that uses the seed.
Workbooks == {
  [priced |-> {}, bare |-> {},
   recipes |-> [s \in {egg, served} |-> Row({egg, served} \ {s}, 1, FALSE)]],
  [priced |-> {egg}, bare |-> {},
   recipes |-> [s \in {served} |-> Row({egg, sauce}, 9, TRUE)]]}
=============================================================================
