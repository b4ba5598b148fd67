----------------------------- MODULE Stocktaking -----------------------------
(***************************************************************************)
(* Supplier receipts, cafe counts and keg weigh-ins, and the cost of sales *)
(* the monthly P&L books from them (receipts.py, approvals.py, cost.py,    *)
(* cafe_stock.py, keg_inventory.py, monthly_pnl.py).                       *)
(*                                                                         *)
(* Nothing of this is in the store yet: the ApprovalBook is a mutable      *)
(* object, and whoever calls the engines keeps the checked receipts, the   *)
(* purchases, the counts and the weigh-ins.  The variables are what such a *)
(* caller holds; it may decide on a checked receipt again, for deciding    *)
(* does not change it.                                                     *)
(***************************************************************************)
EXTENDS Reports

CONSTANTS
  Invoice,    \* [supplier, on, lines, vat, total] as extracted; lines [sku, qty, price]
  Correction, \* line sequences a partner may re-enter
  CafeSku,    \* SKUs counted
  KegSku,     \* SKUs weighed, one brand each
  Tare,       \* a keg's tare weight; a gram of beer is a millilitre
  CountForm,  \* [sku, day, qty]
  WeighForm,  \* [sku, day, gross]
  Tolerance,  \* SUM_TOLERANCE
  MaxPapers   \* bound: receipts, purchases, counts and weigh-ins together

\* Lines as a receipt has them: finitely many, with whole quantities and prices.
IsLines(lines) ==
  /\ IsFiniteSet(DOMAIN lines) /\ DOMAIN lines \subseteq Nat
  /\ \A n \in DOMAIN lines : lines[n].qty \in Int /\ lines[n].price \in Int

ASSUME StockAssumption ==
  /\ \A e \in Invoice : e.on \in Int /\ e.total \in Int /\ IsLines(e.lines)
  /\ \A lines \in Correction : IsLines(lines)
  /\ \A c \in CountForm : c.day \in Int /\ c.qty \in Int
  /\ \A w \in WeighForm : w.day \in Int /\ w.gross \in Int
  /\ IsFiniteSet(CafeSku) /\ IsFiniteSet(KegSku) /\ Tare \in Int

VARIABLES
  desk,       \* receipts checked, in order
  purchases,  \* purchases stored, in order
  book,       \* ApprovalBook: <<sku, supplier>> -> [price, on]
  counts,     \* cafe stock counts
  weighs      \* keg weigh-ins, one a brand and day

stockVars == <<desk, purchases, book, counts, weighs>>

-----------------------------------------------------------------------------
(***************************************************************************)
(* Checking and deciding.                                                  *)
(***************************************************************************)

LinesTotal(lines) == Total([n \in DOMAIN lines |-> lines[n].qty * lines[n].price])
Near(x, y) == x - y \in -Tolerance..Tolerance

\* Fault: the sum check leaves the VAT out.
PassesSumCheckNet(e) == Near(LinesTotal(e.lines), e.total)

PassesSumCheck(e) == Near(LinesTotal(e.lines) + e.vat, e.total)

Deviates(line, supplier) ==
  LET key == <<line.sku, supplier>>
  IN /\ key \in DOMAIN book /\ book[key].price # 0
     /\ ~(20 * (line.price - book[key].price) \in -book[key].price..book[key].price)

\* A line of a SKU the master table has not is an unmapped line.
CheckedLine(line, supplier) ==
  LET known == line.sku \in Sku
  IN [sku |-> IF known THEN line.sku ELSE None, qty |-> line.qty, price |-> line.price,
      flags |-> IF ~known THEN {"unmapped_sku"}
                ELSE IF Deviates(line, supplier) THEN {"price_deviation"} ELSE {}]

CheckReceipt(e) ==
  LET lines == [n \in DOMAIN e.lines |-> CheckedLine(e.lines[n], e.supplier)]
      passes == PassesSumCheck(e)
  IN /\ desk' = Append(desk, [supplier |-> e.supplier, on |-> e.on,
                    lines |-> IF passes THEN lines ELSE <<>>, vat |-> e.vat,
                    total |-> e.total, state |-> IF passes THEN "queued" ELSE "auto_rejected"])
     /\ UNCHANGED <<purchases, book, counts, weighs>>

Bare(line) == [sku |-> line.sku, qty |-> line.qty, price |-> line.price]

\* Stores the purchase under the total the extraction read, whatever the lines
\* were corrected to, and prices every mapped line, the later ones last.
Store(c, lines) ==
  LET priced(sku) == {n \in DOMAIN lines : lines[n].sku = sku /\ sku # None}
      skus == {lines[n].sku : n \in DOMAIN lines} \ {None}
  IN /\ purchases' = Append(purchases, [supplier |-> c.supplier, on |-> c.on,
                              lines |-> lines, vat |-> c.vat, total |-> c.total])
     /\ book' = Over([k \in {<<s, c.supplier>> : s \in skus} |->
                        [price |-> lines[Max(priced(k[1]))].price, on |-> c.on]], book)
     /\ UNCHANGED <<desk, counts, weighs>>

Approve(n) ==
  /\ desk[n].state = "queued"
  /\ Store(desk[n], [l \in DOMAIN desk[n].lines |-> Bare(desk[n].lines[l])])

ApproveCorrected(n, lines) ==
  /\ desk[n].state = "queued"
  /\ Store(desk[n], lines)

Count(form) ==
  /\ counts' = counts \cup {form}
  /\ UNCHANGED <<desk, purchases, book, weighs>>

Weigh(form) ==
  /\ ~\E w \in weighs : w.sku = form.sku /\ w.day = form.day
  /\ weighs' = weighs \cup {form}
  /\ UNCHANGED <<desk, purchases, book, counts>>

StockInit == desk = <<>> /\ purchases = <<>> /\ book = <<>> /\ counts = {} /\ weighs = {}

StockNext ==
  /\ Len(desk) + Len(purchases) + Cardinality(counts) + Cardinality(weighs) < MaxPapers
  /\ \/ \E e \in Invoice : CheckReceipt(e)
     \/ \E n \in DOMAIN desk : Approve(n)
     \/ \E n \in DOMAIN desk, lines \in Correction : ApproveCorrected(n, lines)
     \/ \E form \in CountForm : Count(form)
     \/ \E form \in WeighForm : Weigh(form)

StockSpec == StockInit /\ [][StockNext]_stockVars

-----------------------------------------------------------------------------
(***************************************************************************)
(* The cost of what was consumed.                                          *)
(***************************************************************************)

\* The prices CostBook.from_book may settle on: the latest of the suppliers',
\* any of them where two are of the same day, for it walks a set.
LatestPrices(sku) ==
  LET keys == {k \in DOMAIN book : k[1] = sku}
  IN {book[k].price : k \in {x \in keys : \A o \in keys : book[o].on <= book[x].on}}

\* Fault: a delivery of the opening count's day is counted in as well.
InClosedWindow(on, open, close) ==
  (open # None => on >= open) /\ (close # None => on <= close)

InWindow(on, open, close) ==
  (open # None => on > open) /\ (close # None => on <= close)

PurchasedQuantity(sku, open, close) ==
  LET bought(p) == Total([n \in DOMAIN p.lines |->
                            IF p.lines[n].sku = sku THEN p.lines[n].qty ELSE 0])
      within == {i \in DOMAIN purchases : InWindow(purchases[i].on, open, close)}
  IN Total([i \in within |-> bought(purchases[i])])

\* From at most one opening and one closing count; a missing one is zero, and
\* the window has no bound on its side.
ConsumedQuantity(sku, opening, closing) ==
  LET qty(S) == Total([c \in S |-> c.qty])
      day(S) == IF S = {} THEN None ELSE (CHOOSE c \in S : TRUE).day
  IN qty(opening) + PurchasedQuantity(sku, day(opening), day(closing)) - qty(closing)

BeerVolume(w) == IF w.gross <= Tare THEN 0 ELSE w.gross - Tare

\* The last two weigh-ins up to a day, whatever month they are of.
KegPeriod(sku, day) ==
  LET until == {w \in weighs : w.sku = sku /\ w.day <= day}
      ending == CHOOSE w \in until : \A o \in until : o.day <= w.day
      before == until \ {ending}
  IN IF Cardinality(until) < 2 THEN <<>>
     ELSE <<CHOOSE w \in before : \A o \in before : o.day <= w.day, ending>>

KegConsumed(sku, day) ==
  LET period == KegPeriod(sku, day)
  IN IF period = <<>> THEN 0 ELSE BeerVolume(period[1]) - BeerVolume(period[2])

\* An unpriced keg costs nothing.
BarCogs(m, cost) ==
  Total([k \in KegSku |->
           IF cost[k] = None THEN 0 ELSE KegConsumed(k, LastOf(m)) * cost[k]])

CafeCogs(opening, closing, cost) ==
  LET of(S, k) == {c \in S : c.sku = k}
  IN Total([k \in CafeSku |->
              IF cost[k] = None THEN 0
              ELSE ConsumedQuantity(k, of(opening, k), of(closing, k)) * cost[k]])

\* Payables are of the month of the invoice.
Payables(m) ==
  LET due == {i \in DOMAIN purchases : MonthOf(purchases[i].on) = m}
  IN Total([i \in due |-> purchases[i].total])

-----------------------------------------------------------------------------
(***************************************************************************)
(* What holds.                                                             *)
(***************************************************************************)

\* A count of every SKU, and one taken of each after another.
Stocktake(S) == \A k \in CafeSku : \E c \in S : {x \in S : x.sku = k} = {c}
Before(S, T) == \A x \in S, y \in T : x.sku = y.sku => x.day < y.day

\* Counting in between changes nothing: what was consumed from one stocktake to
\* a second and from there to a third is what was consumed from the first to the
\* third, so that every delivery is booked in exactly one window.
CafeWindowsPartition ==
  LET cost == [k \in CafeSku |-> 1]
  IN \A X, Y, Z \in {S \in SUBSET counts : Stocktake(S)} :
       Before(X, Y) /\ Before(Y, Z) =>
         CafeCogs(X, Y, cost) + CafeCogs(Y, Z, cost) = CafeCogs(X, Z, cost)

\* Where the kegs are weighed once in each of some months, after a first time,
\* the months together book what went from the first weigh-in to the last, no
\* pour twice and none left out.
KegMonthsPartition ==
  LET cost == [k \in KegSku |-> 1]
      of(k) == {w \in weighs : w.sku = k}
      first(k) == CHOOSE w \in of(k) : \A o \in of(k) : w.day <= o.day
      final(k) == CHOOSE w \in of(k) : \A o \in of(k) : o.day <= w.day
      months == {MonthOf(w.day) : w \in weighs}
  IN weighs # {} /\ (\A k \in KegSku : of(k) # {}) /\ months = Min(months)..Max(months)
     /\ (\A k \in KegSku, n \in months :
           Cardinality({w \in of(k) \ {first(k)} : MonthOf(w.day) = n})
             = IF n = Min(months) THEN 0 ELSE 1)
     => Total([n \in months |-> BarCogs(n, cost)])
          = Total([k \in KegSku |-> BeerVolume(first(k)) - BeerVolume(final(k))])

StockBookedOnce == CafeWindowsPartition /\ KegMonthsPartition

\* A purchase adds up to the total it is payable under, in one month, unless a
\* partner entered its lines, and its SKUs are the master table's.  The book has
\* for a SKU and supplier what the purchase stored last has, even if that is of
\* an earlier day, and whatever was bought has a cost.
PurchasesAddUp ==
  LET has(i, sku) == \E n \in DOMAIN purchases[i].lines : purchases[i].lines[n].sku = sku
      last(sku, supplier) ==
        Max({i \in DOMAIN purchases : purchases[i].supplier = supplier /\ has(i, sku)})
      months == {MonthOf(purchases[i].on) : i \in DOMAIN purchases}
  IN /\ \A i \in DOMAIN purchases :
          LET p == purchases[i]
          IN p.lines \notin Correction =>
               /\ Near(LinesTotal(p.lines) + p.vat, p.total)
               /\ \A n \in DOMAIN p.lines : p.lines[n].sku \in Sku \cup {None}
     /\ Total([m \in months |-> Payables(m)])
          = Total([i \in DOMAIN purchases |-> purchases[i].total])
     /\ \A k \in DOMAIN book :
          LET p == purchases[last(k[1], k[2])]
          IN /\ book[k].on = p.on
             /\ \E n \in DOMAIN p.lines : p.lines[n].sku = k[1] /\ p.lines[n].price = book[k].price
     /\ \A sku \in Sku : LatestPrices(sku) # {} <=> \E i \in DOMAIN purchases : has(i, sku)
=============================================================================
