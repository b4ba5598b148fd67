------------------------------- MODULE Reports -------------------------------
(***************************************************************************)
(* The reports: what an item earned (margin.py), the daily, the period and *)
(* the item review, the trends, the fixed costs, the spend and the Profit  *)
(* Report, over sales that arrive late and a configuration partners edit.  *)
(*                                                                         *)
(* The day views are functions of one state of the store.  The Profit      *)
(* Report is not: the page reads each table in a request of its own, the   *)
(* prices once per day and the sales twice, and a sync or an edit can fall *)
(* between any two of them, so its rendering is a sequence of steps.       *)
(*                                                                         *)
(* A recipe uses purchasables only and yields one serving (RecipeGraph has *)
(* preps and yields).  Prices are kept as PriceHistory has them, a row and *)
(* its audit entries, from which PriceLog reconstructs those of a past     *)
(* day; scripts that backdate a price are left to PriceHistory.  Of the    *)
(* edits, those of prices and of cash spend can be undone; undoing one of  *)
(* a recipe, a mapping or a fixed cost leaves the table as an edit could.  *)
(* Amounts are whole satang.                                               *)
(***************************************************************************)
EXTENDS Integers, Sequences, FiniteSets, FiniteSetsExt, Functions

CONSTANTS
  Item,        \* Loyverse items; one whose id is a SKU's needs no mapping
  Sku,         \* the SKUs items map to
  Leaf,        \* the purchasables recipes use
  RecipeForm,  \* [sku, uses]: recipes a partner submits
  Mapping,     \* [item, sku]: mappings a partner uploads
  Receipt,     \* [item, at, price, qty]: receipt lines; `at` in UTC hours
  FixedForm,   \* [kind, amount, period]: fixed costs a partner submits
  SpendForm,   \* [day, amount, vat]: cash-spend rows a partner submits
  Price,       \* prices a partner types
  SeedRecipe,  \* [sku -> recipe] of the seed files
  SeedMapping, \* [item -> sku] of the seed files
  SeedPrice,   \* [leaf -> price] of the seed files
  None,        \* Python's None
  LastDay,     \* bound: the last day modelled
  MonthDays,   \* days in a month
  WeekDays,    \* days in a week
  RollingDays, \* ROLLING_AVERAGE_DAYS
  TrendBuckets,\* TREND_BUCKETS
  MaxToday,    \* bound: the day the clock stops
  MaxSales,    \* bound: sales ingested
  MaxEdits     \* bound: configuration edits

Day == 1..LastDay
MonthOf(d) == ((d - 1) \div MonthDays) + 1
Month == 1..MonthOf(LastDay)
FirstOf(m) == (m - 1) * MonthDays + 1
LastOf(m) == m * MonthDays
Weekday(d) == (d - 1) % WeekDays

SpendId == 1..MaxEdits

\* What a recipe uses of each leaf, in whole units.
IsUse(uses) == DOMAIN uses \subseteq Leaf /\ \A l \in DOMAIN uses : uses[l] \in Nat

\* Loyverse sells whole units, for nothing or more; the forms refuse a negative amount.
ASSUME ReportsAssumption ==
  /\ {MonthDays, WeekDays, RollingDays, TrendBuckets} \subseteq Nat \ {0}
  /\ LastDay \in Nat /\ LastDay % MonthDays = 0 /\ {2, MaxToday} \subseteq Day
  /\ Leaf \subseteq Sku /\ IsFiniteSet(Leaf) /\ None \notin Sku \cup Int \cup [net : Nat, date : Int]
  /\ \A f \in RecipeForm : f.sku \in Sku \ Leaf /\ IsUse(f.uses)
  /\ DOMAIN SeedRecipe \subseteq Sku \ Leaf
  /\ \A k \in DOMAIN SeedRecipe : IsUse(SeedRecipe[k].uses)
  /\ \A m \in Mapping : m.item \in Item /\ m.sku \in Sku
  /\ DOMAIN SeedMapping \subseteq Item /\ \A i \in DOMAIN SeedMapping : SeedMapping[i] \in Sku
  /\ Price \subseteq Nat /\ \A l \in DOMAIN SeedPrice : SeedPrice[l] \in Nat
  /\ \A r \in Receipt : r.item \in Item /\ r.at \in Nat /\ r.price \in Nat /\ r.qty \in Nat
  /\ \A f \in FixedForm : f.amount \in Int /\ f.period \in Int
  /\ SpendForm \subseteq [day : Int, amount : Nat, vat : BOOLEAN] /\ MaxEdits \in Nat

VARIABLES
  sales,     \* the sales table
  recipes,   \* [Sku -> recipe or None]
  mapping,   \* [Item -> Sku or None]
  costs,     \* the costs table: [Leaf -> net price and stamp, or None]
  costLog,   \* its audit entries: [Leaf -> those of the leaf, oldest first]
  fixed,     \* the fixed_costs table: id -> entry
  spend,     \* the cash_spend table: [SpendId -> row or None]
  spendLog,  \* its audit entries, oldest first
  today,     \* the day in Phuket
  appToday,  \* app.state.today: the day the process started
  edits,     \* how many edits and undos there were
  view       \* the Profit Report being rendered

prices == <<costs, costLog>>
cash == <<spend, spendLog>>
config == <<recipes, mapping, prices, fixed, cash>>
clock == <<today, appToday>>
reportVars == <<sales, config, edits, clock, view>>

\* The sum of what a function has, and f with g where f has nothing.
Total(f) == SumFunction(f)
Over(f, g) == [x \in DOMAIN f \cup DOMAIN g |-> IF x \in DOMAIN f THEN f[x] ELSE g[x]]

-----------------------------------------------------------------------------
(***************************************************************************)
(* Sales and segments.                                                     *)
(***************************************************************************)

Segment == {"cafe", "bar"}

\* The receipt's hour and day in Phuket, seven hours ahead of UTC.
LocalDayOf(at) == ((at + 7) \div 24) + 1
SegmentForTimestamp(at) == IF (at + 7) % 24 \in 8..16 THEN "cafe" ELSE "bar"

SaleOf(r) == [item |-> r.item, day |-> LocalDayOf(r.at), price |-> r.price, qty |-> r.qty,
              segment |-> SegmentForTimestamp(r.at), receipt |-> r.at]

Earned(s) == s.price * s.qty
Revenue(S) == Total([s \in S |-> Earned(s)])
SoldOn(S, a, b) == {s \in S : s.day \in a..b}

-----------------------------------------------------------------------------
(***************************************************************************)
(* Item margins: a row per item and segment of a day, at the day's prices. *)
(***************************************************************************)

Catalog == [recipes |-> recipes, mapping |-> mapping]

ForItem(c, i) ==
  LET sku == IF c.mapping[i] # None THEN c.mapping[i] ELSE i
  IN IF sku \in Sku THEN c.recipes[sku] ELSE None

INSTANCE PriceLog WITH NoRow <- None, NoPrice <- None

\* The prices in the book now: the coverage page costs at these.
CurrentBook == [l \in Leaf |-> PriceOf(costs[l])]

\* Fault: every day is costed at the prices in the book now.
BookWhatever(d) == CurrentBook

\* price_history: the prices of a day, from the audit log.
BookAsOf(d) == [l \in Leaf |-> PriceOn(Changes(costLog[l]), costs[l], d)]

Priced(recipe, book) == \A l \in DOMAIN recipe.uses : book[l] # None

CostPerUnit(recipe, book) ==
  Total([l \in DOMAIN recipe.uses |-> recipe.uses[l] * book[l]])

ItemMargin(S, recipe, book, i, seg) ==
  LET mine == {s \in S : s.item = i /\ s.segment = seg}
      units == Total([s \in mine |-> s.qty])
      flag == CASE recipe = None -> "unmapped"
                [] recipe # None /\ ~Priced(recipe, book) -> "unknown_price"
                [] OTHER -> "counted"
      cogs == IF flag = "counted" THEN CostPerUnit(recipe, book) * units ELSE 0
  IN [item |-> i, segment |-> seg, units |-> units, revenue |-> Revenue(mine),
      flag |-> flag, cogs |-> cogs]

ComputeItemMargins(S, c, book, d) ==
  LET on == SoldOn(S, d, d)
  IN {ItemMargin(on, ForItem(c, k[1]), book, k[1], k[2]) :
        k \in {<<s.item, s.segment>> : s \in on}}

RowsOn(d) == ComputeItemMargins(sales, Catalog, BookAsOf(d), d)
MarginsOverRange(a, b) == [d \in a..b |-> RowsOn(d)]

Counted(rows) == {r \in rows : r.flag = "counted"}
RowRevenue(rows) == Total([r \in rows |-> r.revenue])
RowCogs(rows) == Total([r \in rows |-> r.cogs])

\* What rows of several days add up to: rows of two days may be equal, so each
\* day is summed before the days are.
OverDays(op(_), days) == Total([d \in DOMAIN days |-> op(days[d])])

\* Fault: a flagged row's revenue is booked into its segment's margin.
SegmentMarginsOfAll(days) ==
  [g \in Segment |->
    LET mine(rows) == {r \in rows : r.segment = g}
    IN [revenue |-> OverDays(LAMBDA rows : RowRevenue(mine(rows)), days),
        cogs |-> OverDays(LAMBDA rows : RowCogs(mine(rows)), days),
        flagged |-> OverDays(LAMBDA rows : RowRevenue(mine(rows \ Counted(rows))), days)]]

SegmentMargins(days) ==
  [g \in Segment |->
    LET mine(rows) == {r \in rows : r.segment = g}
    IN [revenue |-> OverDays(LAMBDA rows : RowRevenue(mine(Counted(rows))), days),
        cogs |-> OverDays(LAMBDA rows : RowCogs(mine(Counted(rows))), days),
        flagged |-> OverDays(LAMBDA rows : RowRevenue(mine(rows \ Counted(rows))), days)]]

DailyMargin(d) ==
  LET days == MarginsOverRange(d, d)
      rows == days[d]
  IN [revenue |-> RowRevenue(rows), cogs |-> RowCogs(Counted(rows)),
      flagged |-> RowRevenue(rows \ Counted(rows)), segments |-> SegmentMargins(days)]

\* The sum of the counted rows' margins over the last RollingDays days, from
\* the first sale on, and how many days it is divided by.
GoalProgress(d) ==
  LET from == Max({Min({s.day : s \in sales}), d - RollingDays + 1})
      days == MarginsOverRange(from, d)
  IN IF sales = {} THEN [total |-> 0, days |-> 0]
     ELSE [total |-> OverDays(LAMBDA rows : RowRevenue(Counted(rows)) - RowCogs(rows), days),
           days |-> Cardinality(from..d)]

-----------------------------------------------------------------------------
(***************************************************************************)
(* Fixed costs and spend over a range.                                     *)
(***************************************************************************)

\* Decimal.quantize rounds a tie to the even satang.
RoundHalfEven(n, d) ==
  LET q == n \div d
      r == n % d
  IN IF 2 * r < d \/ (2 * r = d /\ q % 2 = 0) THEN q ELSE q + 1

AppliesInMonth(e, m) ==
  IF e.kind = "oneoff" THEN m = e.period
  ELSE m >= e.period /\ (e.ended # None => m <= MonthOf(e.ended))

CoveredDays(m, a, b) == Cardinality((a..b) \cap (FirstOf(m)..LastOf(m)))

LineForEntry(e, a, b) ==
  Total([m \in {x \in MonthOf(a)..MonthOf(b) : AppliesInMonth(e, x)} |->
           IF CoveredDays(m, a, b) = MonthDays THEN e.amount
           ELSE RoundHalfEven(e.amount * CoveredDays(m, a, b), MonthDays)])

FixedCostsForPeriod(f, a, b) == Total([id \in DOMAIN f |-> LineForEntry(f[id], a, b)])

\* Net of VAT to the nearest satang; 107 is odd, so there is no tie.
NetOfVat(e) == IF e.vat THEN RoundHalfEven(e.amount * 100, 107) ELSE e.amount

\* What a row, if there is one, adds to a range.
SpentIn(row, a, b) == IF row # None /\ row.day \in a..b THEN NetOfVat(row) ELSE 0

CashSpendForPeriod(S, a, b) == Total([id \in SpendId |-> SpentIn(S[id], a, b)])

-----------------------------------------------------------------------------
(***************************************************************************)
(* The period review and what is built from it.                            *)
(***************************************************************************)

PeriodReview(days, f, a, b) ==
  LET revenue == OverDays(RowRevenue, days)
      cogs == OverDays(LAMBDA rows : RowCogs(Counted(rows)), days)
      fixedTotal == FixedCostsForPeriod(f, a, b)
  IN [revenue |-> revenue, cogs |-> cogs, margin |-> revenue - cogs,
      flagged |-> OverDays(LAMBDA rows : RowRevenue(rows \ Counted(rows)), days),
      segments |-> SegmentMargins(days), fixed |-> fixedTotal,
      net |-> revenue - cogs - fixedTotal]

\* One needs-attention row per item with a flagged row in the range.
AggregateFlagged(days) ==
  LET flagged(rows) == rows \ Counted(rows)
      of(i) == OverDays(LAMBDA rows : RowRevenue({r \in flagged(rows) : r.item = i}), days)
  IN [i \in {r.item : r \in UNION {flagged(days[d]) : d \in DOMAIN days}} |-> of(i)]

\* The last TrendBuckets weeks, the week of the anchor cut off at the anchor.
WeekRanges(anchor) ==
  LET monday(i) == anchor - Weekday(anchor) - i * WeekDays
  IN {<<monday(i), Min({monday(i) + WeekDays - 1, anchor})>> : i \in 0..(TrendBuckets - 1)}

\* The last TrendBuckets calendar months, whole.
MonthRanges(anchor) ==
  {<<FirstOf(m), LastOf(m)>> : m \in (MonthOf(anchor) - TrendBuckets + 1)..MonthOf(anchor)}

\* The days of the buckets, up to the anchor, that fall on a weekday.
WeekdayDays(ranges, anchor, w) ==
  {d \in UNION {r[1]..r[2] : r \in ranges} : d <= anchor /\ Weekday(d) = w}

\* The four tiles of a Profit Report, from what its page has read.
ProfitTiles(v) ==
  LET a == FirstOf(v.month)
      b == LastOf(v.month)
      review == PeriodReview(v.days, v.fixed, a, b)
  IN [revenue |-> review.revenue, margin |-> review.margin, net |-> review.net,
      cash |-> review.revenue - CashSpendForPeriod(v.spend, a, b)]

BestsellerTotals(S, a, b) ==
  LET on == SoldOn(S, a, b)
  IN [i \in {s.item : s \in on} |-> Revenue({s \in on : s.item = i})]

\* Monthly P&L: the month's revenue per segment, costed or not.
RevenueBySegment(m) ==
  [g \in Segment |-> Revenue({s \in SoldOn(sales, FirstOf(m), LastOf(m)) : s.segment = g})]

-----------------------------------------------------------------------------
(***************************************************************************)
(* Item coverage.                                                          *)
(***************************************************************************)

SkuHealth(k) ==
  LET book == CurrentBook
      sold == \E i \in Item : mapping[i] = k
      used == \E s \in Sku : recipes[s] # None /\ k \in DOMAIN recipes[s].uses
  IN CASE ~sold /\ ~used -> "red"
       [] recipes[k] # None /\ (sold \/ used) ->
            IF Priced(recipes[k], book) THEN "green" ELSE "yellow"
       [] OTHER -> IF k \in Leaf /\ book[k] # None THEN "green" ELSE "red"

-----------------------------------------------------------------------------
(***************************************************************************)
(* What changes the store: the sync, the partners, the clock.              *)
(***************************************************************************)

Idle == [phase |-> "idle"]

ReportsInit ==
  /\ sales = {} /\ fixed = <<>> /\ edits = 0
  /\ recipes = Over(SeedRecipe, [k \in Sku |-> None])
  /\ mapping = Over(SeedMapping, [i \in Item |-> None])
  /\ costs = [l \in Leaf |-> IF l \in DOMAIN SeedPrice
                              THEN [net |-> SeedPrice[l], date |-> 1] ELSE None]
  /\ costLog = [l \in Leaf |-> <<>>]
  /\ spend = [id \in SpendId |-> None] /\ spendLog = <<>>
  /\ today = 2 /\ appToday = 2
  /\ view = Idle

\* A sync brings a receipt line, however late.
Ingest(r) ==
  /\ LocalDayOf(r.at) <= today
  /\ SaleOf(r) \notin sales
  /\ Cardinality(sales) < MaxSales
  /\ sales' = sales \cup {SaleOf(r)}
  /\ UNCHANGED <<config, edits, clock, view>>

Edit ==
  /\ edits < MaxEdits
  /\ edits' = edits + 1
  /\ UNCHANGED <<sales, clock, view>>

\* _record_audit: nothing is logged when nothing changed.
Recorded(log, e) == IF e.old = e.new THEN log ELSE Append(log, e)

\* _revert_target: of a row that is there, undo moves the columns the entry moved.
Reverted(e, current) ==
  IF None \in {e.old, e.new, current} THEN e.old
  ELSE [c \in DOMAIN current |-> IF e.old[c] # e.new[c] THEN e.old[c] ELSE current[c]]

\* The entry has the UTC day, until 07:00 yesterday's.
SetCost(l, new) ==
  /\ costs' = [costs EXCEPT ![l] = new]
  /\ \E utc \in {today - 1, today} :
       costLog' = [costLog EXCEPT ![l] =
                     Recorded(@, [old |-> costs[l], new |-> new, utc |-> utc])]
  /\ Edit
  /\ UNCHANGED <<recipes, mapping, fixed, cash>>

SaveCost(l, p) == SetCost(l, [net |-> p, date |-> appToday])

UndoCost(l, i) == SetCost(l, Reverted(costLog[l][i], costs[l]))

SaveRecipe(form) ==
  /\ recipes' = [recipes EXCEPT ![form.sku] = [uses |-> form.uses]]
  /\ Edit
  /\ UNCHANGED <<mapping, prices, fixed, cash>>

DeleteRecipe(k) ==
  /\ recipes[k] # None
  /\ recipes' = [recipes EXCEPT ![k] = None]
  /\ Edit
  /\ UNCHANGED <<mapping, prices, fixed, cash>>

SaveMapping(m) ==
  /\ mapping' = [mapping EXCEPT ![m.item] = m.sku]
  /\ Edit
  /\ UNCHANGED <<recipes, prices, fixed, cash>>

CreateFixedCost(form) ==
  /\ form.amount >= 0
  /\ fixed' = Over(fixed, [id \in {Max(DOMAIN fixed \cup {0}) + 1} |->
                             [kind |-> form.kind, amount |-> form.amount,
                              period |-> form.period, ended |-> None]])
  /\ Edit
  /\ UNCHANGED <<recipes, mapping, prices, cash>>

\* Whatever the entry is, and again if it has ended already.
EndFixedCost(id) ==
  /\ fixed' = [fixed EXCEPT ![id].ended = appToday]
  /\ Edit
  /\ UNCHANGED <<recipes, mapping, prices, cash>>

DeleteFixedCost(id) ==
  /\ fixed' = Restrict(fixed, DOMAIN fixed \ {id})
  /\ Edit
  /\ UNCHANGED <<recipes, mapping, prices, cash>>

SetSpend(id, new) ==
  /\ Edit
  /\ spend' = [spend EXCEPT ![id] = new]
  /\ spendLog' = Recorded(spendLog, [id |-> id, old |-> spend[id], new |-> new])
  /\ UNCHANGED <<recipes, mapping, prices, fixed>>

\* AUTOINCREMENT gives an id no row had before; here it is the number of the edit.
CreateCashSpend(form) == SetSpend(edits + 1, form)

UpdateCashSpend(id, form) == spend[id] # None /\ SetSpend(id, form)

DeleteCashSpend(id) == spend[id] # None /\ SetSpend(id, None)

UndoCashSpend(i) == SetSpend(spendLog[i].id, Reverted(spendLog[i], spend[spendLog[i].id]))

Midnight ==
  /\ today < MaxToday
  /\ today' = today + 1
  /\ UNCHANGED <<sales, config, edits, appToday, view>>

Restart ==
  /\ appToday # today
  /\ appToday' = today
  /\ view' = Idle
  /\ UNCHANGED <<sales, config, edits, today>>

-----------------------------------------------------------------------------
(***************************************************************************)
(* Rendering the Profit Report of a month, one read of the store a step.   *)
(***************************************************************************)

OpenProfit(m) ==
  /\ view = Idle
  /\ view' = [phase |-> "sales", month |-> m, fixed |-> fixed]
  /\ UNCHANGED <<sales, config, edits, clock>>

Reading(phase, new) ==
  /\ view.phase = phase
  /\ view' = Over(new, view)
  /\ UNCHANGED <<sales, config, edits, clock>>

ReadSales == Reading("sales", [phase |-> "recipes", sales |-> sales])

ReadRecipes == Reading("recipes", [phase |-> "mappings", recipes |-> recipes])

ReadMappings ==
  Reading("mappings", [phase |-> "days", mapping |-> mapping, days |-> <<>>])

\* The next day of the month is costed at the prices it had when asked for.
CostDay ==
  LET d == FirstOf(view.month) + Cardinality(DOMAIN view.days)
      rows == ComputeItemMargins(view.sales,
                [recipes |-> view.recipes, mapping |-> view.mapping], BookAsOf(d), d)
  IN Reading("days", [phase |-> IF d = LastOf(view.month) THEN "spend" ELSE "days",
                      days |-> Over(view.days, [x \in {d} |-> rows])])

\* With how far the log had come by then (history).
ReadSpend ==
  Reading("spend", [phase |-> "rank", spend |-> spend, logged |-> Len(spendLog)])

\* Fault: the rankings are those of every month.
RankBestsellersOfAll ==
  Reading("rank", [phase |-> "done", ranked |-> BestsellerTotals(sales, 1, LastDay)])

RankBestsellers ==
  Reading("rank", [phase |-> "done", ranked |->
    BestsellerTotals(sales, FirstOf(view.month), LastOf(view.month))])

Close ==
  /\ view.phase = "done"
  /\ view' = Idle
  /\ UNCHANGED <<sales, config, edits, clock>>

Rendering ==
  \/ \E m \in Month : OpenProfit(m)
  \/ ReadSales \/ ReadRecipes \/ ReadMappings \/ CostDay \/ ReadSpend
  \/ RankBestsellers \/ Close

Editing ==
  \/ \E l \in Leaf, p \in Price : SaveCost(l, p)
  \/ \E l \in Leaf : \E i \in DOMAIN costLog[l] : UndoCost(l, i)
  \/ \E f \in RecipeForm : SaveRecipe(f)
  \/ \E k \in Sku : DeleteRecipe(k)
  \/ \E m \in Mapping : SaveMapping(m)
  \/ \E f \in FixedForm : CreateFixedCost(f)
  \/ \E id \in DOMAIN fixed : EndFixedCost(id) \/ DeleteFixedCost(id)
  \/ \E f \in SpendForm : CreateCashSpend(f)
  \/ \E id \in SpendId : DeleteCashSpend(id) \/ \E f \in SpendForm : UpdateCashSpend(id, f)
  \/ \E i \in DOMAIN spendLog : UndoCashSpend(i)

ReportsNext ==
  \/ \E r \in Receipt : Ingest(r)
  \/ Editing \/ Rendering \/ Midnight \/ Restart

ReportsSpec == ReportsInit /\ [][ReportsNext]_reportVars

-----------------------------------------------------------------------------
(***************************************************************************)
(* What holds.                                                             *)
(***************************************************************************)

\* Every view of a range adds up to the same money: the period is the sum of
\* its days; costed and flagged revenue of the segments, the needs-attention
\* rows and the costed rest, and the bestseller rows each add up to the gross
\* sales; the monthly P&L splits the same revenue over the segments.
RangeViewsAgree ==
  \A a \in Day : \A b \in a..LastDay :
    LET days == MarginsOverRange(a, b)
        period == PeriodReview(days, fixed, a, b)
        gross == Revenue(SoldOn(sales, a, b))
        daily == [d \in a..b |-> DailyMargin(d)]
        ofDays(f(_)) == Total([d \in a..b |-> f(daily[d])])
        attention == AggregateFlagged(days)
        best == BestsellerTotals(sales, a, b)
    IN /\ period.revenue = gross /\ ofDays(LAMBDA m : m.revenue) = gross
       /\ period.cogs = ofDays(LAMBDA m : m.cogs)
       /\ period.flagged = ofDays(LAMBDA m : m.flagged)
       /\ Total([g \in Segment |-> period.segments[g].revenue + period.segments[g].flagged])
            = gross
       /\ Total([g \in Segment |-> period.segments[g].cogs]) = period.cogs
       /\ Total(attention) = period.flagged
       /\ Total(best) = gross
       /\ a = FirstOf(MonthOf(a)) /\ b = LastOf(MonthOf(a)) =>
            \A g \in Segment : RevenueBySegment(MonthOf(a))[g]
              = period.segments[g].revenue + period.segments[g].flagged

\* The weekday bars of a trend are the period from the first bucket's first
\* day to the anchor, whichever way it is cut into buckets.
TrendsAgree ==
  \A anchor \in Day :
    \A ranges \in {WeekRanges(anchor), MonthRanges(anchor)} :
      LET from == Min({r[1] : r \in ranges})
          bars == [w \in 0..(WeekDays - 1) |-> WeekdayDays(ranges, anchor, w)]
      IN /\ UNION {bars[w] : w \in DOMAIN bars} = from..anchor
         /\ \A r, s \in ranges : r # s => r[2] < s[1] \/ s[2] < r[1]
         /\ ranges = WeekRanges(anchor) =>
              Revenue({s \in sales : \E r \in ranges : s.day \in r[1]..r[2]})
                = Revenue(SoldOn(sales, from, anchor))

\* The rolling average of the goal is over what the segments of its days'
\* reviews contribute.  (Their gross margin has the flagged revenue besides.)
GoalAgrees ==
  sales # {} => \A d \in Day :
    LET first == Min({s.day : s \in sales})
        window == Max({first, d - RollingDays + 1})..d
        contributed(x) ==
          LET of == DailyMargin(x).segments
          IN Total([g \in Segment |-> of[g].revenue - of[g].cogs])
    IN GoalProgress(d) = [total |-> Total([x \in window |-> contributed(x)]),
                          days |-> Cardinality(window)]

\* A range cut in two is charged what the whole is, but for the rounding: no
\* more than a satang per cost and month cut.
FixedCostsAddUp ==
  \A a \in Day : \A b \in a..LastDay : \A c \in a..(b - 1) :
    LET whole == FixedCostsForPeriod(fixed, a, b)
        parts == FixedCostsForPeriod(fixed, a, c) + FixedCostsForPeriod(fixed, c + 1, b)
    IN /\ whole - parts \in -Cardinality(DOMAIN fixed)..Cardinality(DOMAIN fixed)
       /\ c = LastOf(MonthOf(c)) => whole = parts

\* The leaf's row was taken away once: by the undo of the save that made it.
Withdrawn(l) == \E i \in DOMAIN costLog[l] : costLog[l][i].new = None

\* An item the coverage page shows green, costed at the prices in the book, is
\* costed in today's review too, at those of the log; and one it shows yellow is
\* not: unless the row of a price was taken away and put back, which the log
\* dates to before it was taken away.
CoverageAgrees ==
  \A i \in Item :
    LET recipe == ForItem(Catalog, i)
        flag == ItemMargin(sales, recipe, BookAsOf(today), i, "bar").flag
    IN mapping[i] # None /\ recipe # None /\ (\A l \in DOMAIN recipe.uses : ~Withdrawn(l)) =>
         /\ flag = "counted" <=> SkuHealth(mapping[i]) = "green"
         /\ flag = "unknown_price" <=> SkuHealth(mapping[i]) = "yellow"

ViewsAgree ==
  view = Idle => /\ RangeViewsAgree /\ TrendsAgree /\ GoalAgrees
                 /\ FixedCostsAddUp /\ CoverageAgrees

\* A rendered Profit Report is one of no moment of the store, and yet its tiles
\* fit: its revenue and its bars are the sales it read, the net profit its margin
\* less the fixed costs of when it was opened; its cash-basis profit is off what
\* the spend rows of now leave by just what the log has of them since they were
\* read, rows created, corrected, deleted and put back; what it ranks is what it
\* totals unless a sale of the month came in meanwhile, and never less.
RenderedReportFits ==
  view.phase = "done" =>
    LET a == FirstOf(view.month)
        b == LastOf(view.month)
        tiles == ProfitTiles(view)
        ranked == Total(view.ranked)
        late == SoldOn(sales, a, b) \ view.sales
        since == (view.logged + 1)..Len(spendLog)
        moved(e) == SpentIn(e.new, a, b) - SpentIn(e.old, a, b)
    IN /\ DOMAIN view.days = a..b
       /\ tiles.revenue = Revenue(SoldOn(view.sales, a, b))
       /\ tiles.net = tiles.margin - FixedCostsForPeriod(view.fixed, a, b)
       /\ tiles.cash = tiles.revenue - CashSpendForPeriod(spend, a, b)
                       + Total([n \in since |-> moved(spendLog[n])])
       /\ tiles.revenue <= ranked /\ ranked <= tiles.revenue + Revenue(late)

\* History is not rewritten: another price for a leaf that has one leaves the
\* margin rows of every day before its stamp as they were, whatever was undone or
\* saved again before; a late sale changes its own day alone.  Ending a cost that
\* had not ended leaves every month up to the process's own as it was, and the
\* later ones without it.
PastReportsStay ==
  [][/\ \A l \in Leaf, p \in Price :
          SaveCost(l, p) /\ costs[l] # None /\ p # costs[l].net =>
            \A d \in 1..(appToday - 1) : RowsOn(d)' = RowsOn(d)
     /\ \A r \in Receipt : Ingest(r) =>
          \A d \in Day \ {LocalDayOf(r.at)} : RowsOn(d)' = RowsOn(d)
     /\ \A id \in DOMAIN fixed : EndFixedCost(id) /\ fixed[id].ended = None =>
          \A m \in Month :
            LET charged == LineForEntry(fixed[id], FirstOf(m), LastOf(m))
            IN LineForEntry(fixed'[id], FirstOf(m), LastOf(m))
                 = IF m <= MonthOf(appToday) \/ fixed[id].kind = "oneoff"
                   THEN charged ELSE 0]_reportVars
=============================================================================
