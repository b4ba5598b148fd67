------------------------------ MODULE MCReports ------------------------------
EXTENDS Stocktaking, ShiftControl, TLC

CONSTANTS latte, tea, beer, milk, keg, ann, bob, cho

AllSkus == {"cup", "glass", milk, keg, tea}
Seeds == ("cup" :> [uses |-> (milk :> 2)]) @@ ("glass" :> [uses |-> (keg :> 1)])
SeedMappings == (latte :> "cup") @@ (beer :> "glass")
SeedPrices == (milk :> 3)
Forms == {[sku |-> "cup", uses |-> (keg :> 1)], [sku |-> tea, uses |-> (milk :> 1) @@ (keg :> 1)]}
Mappings == {[item |-> latte, sku |-> "cup"], [item |-> tea, sku |-> keg]}
\* UTC hours: 09:00 and 18:00 on day 2, 02:00 on day 3 in Phuket.
Receipts == {
  [item |-> latte, at |-> 26, price |-> 90, qty |-> 1],
  [item |-> latte, at |-> 35, price |-> 90, qty |-> 2],
  [item |-> tea,   at |-> 43, price |-> 50, qty |-> 1]}
FixedForms == {[kind |-> "recurring", amount |-> 5, period |-> 1], [kind |-> "oneoff", amount |-> 7, period |-> 2]}
SpendForms == {[day |-> 2, amount |-> 500, vat |-> TRUE], [day |-> 4, amount |-> 300, vat |-> FALSE]}

\* Two deliveries of milk, one of them of something else too, and one that does
\* not add up; a partner corrects the first to another quantity.
MilkLine == [sku |-> milk, qty |-> 2, price |-> 30]
Invoices == {
  [supplier |-> "dairy", on |-> 2, lines |-> <<MilkLine>>, vat |-> 4, total |-> 64],
  [supplier |-> "dairy", on |-> 3, vat |-> 0, total |-> 76,
   lines |-> <<[MilkLine EXCEPT !.price = 33], [sku |-> "sack", qty |-> 1, price |-> 10]>>],
  [supplier |-> "depot", on |-> 3, lines |-> <<MilkLine>>, vat |-> 4, total |-> 60]}
Corrections == {<<[MilkLine EXCEPT !.qty = 3]>>}
CountForms == {[sku |-> milk, day |-> d, qty |-> 5 - d] : d \in {1, 2, 4}}
WeighForms == {[sku |-> keg, day |-> d, gross |-> g] : d \in {1, 3, 4, 5}, g \in {9, 15}}

VoidForms == {[cashier |-> ann, day |-> 1, hour |-> 19], [cashier |-> ann, day |-> 2, hour |-> 9],
              [cashier |-> bob, day |-> 1, hour |-> 12], [cashier |-> cho, day |-> 2, hour |-> 20]}
SalesCounts == (ann :> 2) @@ (bob :> 3) @@ (cho :> 0)
Short == <<1, 2>>
Miscounts == {-2, 0, 1}

vars == <<reportVars, stockVars, shiftVars>>

Init == ReportsInit /\ StockInit /\ ShiftInit

\* Bound: one part moves in a behaviour, the others stay as they were at first;
\* a purchase, a count, a close or a task is not read by a report.
Untouched == sales = {} /\ edits = 0 /\ view = Idle /\ today = appToday
UntouchedStock == desk = <<>> /\ counts = {} /\ weighs = {}
UntouchedShifts == closes = <<>> /\ voids = {} /\ log = <<>>

\* Bound: of sales and edits, three in all, two while a report is rendered; no more
\* than two of them edits.  A third edit is of prices or of spend as the two before
\* it were: the undo of an undo, a save after one; those of prices on the process's
\* day while no report is rendered, those of spend on the first day, nothing sold.
Edits ==
  \/ edits <= 2 /\ edits + Cardinality(sales) <= (IF view = Idle THEN 3 ELSE 2)
  \/ /\ edits = Total([l \in Leaf |-> Len(costLog[l])])
     /\ Cardinality(sales) <= 1 /\ view = Idle /\ today = appToday
  \/ edits = Len(spendLog) /\ sales = {} /\ today = 2

\* Bound: kegs are weighed where nothing is bought or counted.
StockApart == weighs = {} \/ (desk = <<>> /\ counts = {})

\* Bound: nor is one of the drawer, the voids and the checklists with another.
ShiftsApart ==
  \/ voids = {} /\ log = <<>>
  \/ closes = <<>> /\ (voids = {} \/ log = <<>>)

Next ==
  \/ ReportsNext /\ Edits' /\ UntouchedStock /\ UntouchedShifts /\ UNCHANGED <<stockVars, shiftVars>>
  \/ StockNext /\ StockApart' /\ Untouched /\ UntouchedShifts /\ UNCHANGED <<reportVars, shiftVars>>
  \/ ShiftNext /\ ShiftsApart' /\ Untouched /\ UntouchedStock /\ UNCHANGED <<reportVars, stockVars>>

Spec == Init /\ [][Next]_vars
=============================================================================
