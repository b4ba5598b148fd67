---------------------------- MODULE ReportsProofs ----------------------------
(***************************************************************************)
(* What holds of the reports, the drawer, the checklists and the stock,    *)
(* for every value of the constants.                                       *)
(*                                                                         *)
(* ReportsIInv is why a Profit Report fits although it is of no moment of  *)
(* the store: the sales it has read the store still has, each day it has   *)
(* costed has their revenue, and of the spend rows it has read the log     *)
(* says how they became those of now.  The rest are laws of sums: by kind, *)
(* over more, over one row changed.  A past day keeps its margins when a   *)
(* price changes as the change is appended to the history with a later     *)
(* day: the rows are stamped by the process's day, the entries by today.   *)
(* The views agree because each cuts the same sales into parts that are    *)
(* disjoint and leave none out: days, shifts, items, buckets; a fixed cost *)
(* is rounded once for each month of a range, so that a cut costs a satang *)
(* in the month it falls in.                                               *)
(*                                                                         *)
(* ShiftIInv is why a shift answers for its own cash: the closes are       *)
(* chained, each opening with what the one before closed at, and the till  *)
(* differs from the chain by no more than one handoff let through.  What   *)
(* the variances add up to follows by induction over the closes, and so    *)
(* do the runs the reviews flag.                                           *)
(*                                                                         *)
(* StockIInv says which purchase each price of the book is of and what a   *)
(* receipt on the desk adds up to.  That nothing is booked twice or left   *)
(* out is the law of sums over disjoint windows, for the kegs by induction *)
(* over the months.                                                        *)
(***************************************************************************)
EXTENDS Stocktaking, ShiftControl, SetInduction, SequenceTheorems, TLAPS

(***************************************************************************)
(* The reports.                                                            *)
(***************************************************************************)

\* A sale as the sync stores it.
SalesTyping(S) ==
  /\ IsFiniteSet(S)
  /\ \A s \in S : s.item \in Item /\ s.segment \in Segment
                  /\ s.day \in Int /\ s.day >= 1 /\ s.price \in Nat /\ s.qty \in Nat

\* What the configuration holds.
BooksTyping ==
  /\ recipes = [k \in Sku |-> recipes[k]]
  /\ \A k \in Sku : recipes[k] # None => IsUse(recipes[k].uses)
  /\ mapping \in [Item -> Sku \cup {None}]

\* A price row stamped on day s or before; the audit entries of a leaf by day t,
\* of which each leaves a row or what N has; what price_history makes of them.
CostRow(s) == [net : Nat, date : 0..s]
CostEntry(s, t, N) == [old : CostRow(s) \cup {None}, new : CostRow(s) \cup N, utc : 0..t]
CostChange(t, N) == [on : 0..t, old : Nat \cup {None}, new : Nat \cup N]

\* Every price is stamped by the process's day and logged by today, and the log
\* ends at the book.
PricesTyping ==
  /\ costs \in [Leaf -> CostRow(appToday) \cup {None}]
  /\ costLog \in [Leaf -> Seq(CostEntry(appToday, today, {None}))]
  /\ \A l \in Leaf : costLog[l] # <<>> => costLog[l][Len(costLog[l])].new = costs[l]


\* Whole fixed costs under their ids.
Cost(e) ==
  /\ e = [kind |-> e.kind, amount |-> e.amount, period |-> e.period, ended |-> e.ended]
  /\ e.amount \in Nat /\ e.period \in Int /\ e.ended \in Int \cup {None}

FixedTyping ==
  /\ fixed = [id \in DOMAIN fixed |-> fixed[id]] /\ IsFiniteSet(DOMAIN fixed)
  /\ \A id \in DOMAIN fixed : Cost(fixed[id])

\* A cash-spend row under its id; the audit entries say what moved.
CashRow == [day : Int, amount : Nat, vat : BOOLEAN]
CashEntry == [id : SpendId, old : CashRow \cup {None}, new : CashRow \cup {None}]

CashTyping ==
  /\ spend \in [SpendId -> CashRow \cup {None}]
  /\ spendLog \in Seq(CashEntry) /\ edits \in Nat

ClockTyping == today \in Day /\ appToday \in Day /\ appToday <= today

\* Where a rendering that has read the sales, costed the days, read the spend.
HasDays == {"spend", "rank", "done"}
HasSales == {"recipes", "mappings", "days"} \cup HasDays

\* The days costed so far, each with the revenue of the sales read.
DaysCosted ==
  /\ "days" \in DOMAIN view
  /\ \A d \in DOMAIN view.days : RowRevenue(view.days[d]) = Revenue(SoldOn(view.sales, d, d))
  /\ IF view.phase = "days"
     THEN \E k \in 0..(MonthDays - 1) :
            DOMAIN view.days = FirstOf(view.month)..(FirstOf(view.month) + k - 1)
     ELSE DOMAIN view.days = FirstOf(view.month)..LastOf(view.month)

\* What the entries after the k-th have moved of the spend of a range.
Moved(l, k, a, b) ==
  [n \in (k + 1)..Len(l) |-> SpentIn(l[n].new, a, b) - SpentIn(l[n].old, a, b)]

\* The spend of the month is what the rows read come to, and what moved since.
SpendRead ==
  /\ {"spend", "logged"} \subseteq DOMAIN view
  /\ view.spend \in [SpendId -> CashRow \cup {None}] /\ view.logged \in 0..Len(spendLog)
  /\ LET a == FirstOf(view.month)
         b == LastOf(view.month)
     IN CashSpendForPeriod(spend, a, b)
          = CashSpendForPeriod(view.spend, a, b) + Total(Moved(spendLog, view.logged, a, b))

\* What a rendering has read is what the store had at some time: of the sales,
\* which are never taken away, no more than there are now; of the spend rows, what
\* the log makes of them again.
ViewInv ==
  /\ view.phase \in {"idle", "sales"} \cup HasSales
  /\ view.phase # "idle" => "month" \in DOMAIN view /\ view.month \in Month
  /\ view.phase \in HasSales => "sales" \in DOMAIN view /\ view.sales \subseteq sales
  /\ view.phase \in {"days"} \cup HasDays => DaysCosted
  /\ view.phase \in {"rank", "done"} => SpendRead
  /\ view.phase = "done" =>
       \E X \in SUBSET sales :
         /\ view.sales \subseteq X
         /\ view.ranked = BestsellerTotals(X, FirstOf(view.month), LastOf(view.month))

ReportsIInv ==
  /\ SalesTyping(sales) /\ BooksTyping /\ PricesTyping /\ FixedTyping /\ CashTyping
  /\ ClockTyping /\ ViewInv

-----------------------------------------------------------------------------
\* A sum over a set by a formula is the sum of a function on it.
LEMMA TotalIs ==
  ASSUME NEW f, NEW A, DOMAIN f = A
  PROVE  Total(f) = SumFunctionOnSet(f, A)
BY DEF Total, SumFunction

\* What some of the sales earned.
LEMMA Earnings ==
  ASSUME NEW S, SalesTyping(S), NEW A \in SUBSET S
  PROVE  /\ Summable([s \in S |-> Earned(s)], A)
         /\ Revenue(A) = SumFunctionOnSet([s \in S |-> Earned(s)], A)
         /\ Revenue(A) \in Int
<1> DEFINE f == [s \in S |-> Earned(s)]
           g == [s \in A |-> Earned(s)]
<1>1. \A s \in S : f[s] \in Int
  <2>1. \A m, n \in Nat : m * n \in Int
    OBVIOUS
  <2>2. \A s \in S : s.price * s.qty \in Int
    BY <2>1 DEF SalesTyping
  <2> QED BY <2>2 DEF Earned
<1>2. DOMAIN g = A /\ \A s \in A : f[s] = g[s]
  OBVIOUS
<1>3. Revenue(A) = Total(g)
  BY DEF Revenue
<1> HIDE DEF f, g
<1>4. Summable(f, A)
  BY <1>1, FS_Subset DEF Summable, SalesTyping
<1>5. Revenue(A) = SumFunctionOnSet(g, A)
  BY <1>2, <1>3, TotalIs
<1>6. SumFunctionOnSet(f, A) = SumFunctionOnSet(g, A)
  BY <1>2, <1>4, SumSame
<1>7. SumFunctionOnSet(f, A) \in Int
  BY <1>4, SumType
<1>8. Summable(f, A) /\ Revenue(A) = SumFunctionOnSet(f, A) /\ Revenue(A) \in Int
  BY <1>4, <1>5, <1>6, <1>7
<1> QED BY <1>8 DEF f

\* The revenue of sales is that of their kinds, whatever those are.
LEMMA RevenueByKind ==
  ASSUME NEW S, SalesTyping(S), NEW A \in SUBSET S, NEW B, IsFiniteSet(B),
         NEW t, \A s \in A : t[s] \in B,
         NEW e, DOMAIN e = B, \A b \in B : e[b] = Revenue(Fibre(A, t, b))
  PROVE  Summable(e, B) /\ Total(e) = Revenue(A)
<1> DEFINE f == [s \in S |-> Earned(s)]
<1>1. Summable(f, A) /\ Revenue(A) = SumFunctionOnSet(f, A)
  BY Earnings
<1>2. \A b \in B : e[b] = SumFunctionOnSet(f, Fibre(A, t, b))
  <2>1. \A b : Fibre(A, t, b) \in SUBSET S
    BY DEF Fibre
  <2>2. \A b : Revenue(Fibre(A, t, b)) = SumFunctionOnSet(f, Fibre(A, t, b))
    BY <2>1, Earnings
  <2> HIDE DEF f
  <2> QED BY <2>2
<1> HIDE DEF f
<1>3. Summable(e, B) /\ SumFunctionOnSet(e, B) = SumFunctionOnSet(f, A)
  BY <1>1, <1>2, SumFibres
<1> QED BY <1>1, <1>3, TotalIs

\* More sales earn no less, by what the others earn.
LEMMA RevenueGrows ==
  ASSUME NEW S, SalesTyping(S), NEW A \in SUBSET S, NEW B \in SUBSET A
  PROVE  Revenue(A) = Revenue(B) + Revenue(A \ B) /\ Revenue(A \ B) >= 0
<1> DEFINE f == [s \in S |-> Earned(s)]
           z == [s \in S |-> 0]
           C == A \ B
<1>1. B \in SUBSET S /\ C \in SUBSET S /\ B \cap C = {} /\ B \cup C = A
  OBVIOUS
<1>2. \A s \in C : z[s] = 0 /\ z[s] <= f[s]
  <2>1. \A m, n \in Nat : 0 <= m * n
    OBVIOUS
  <2>2. \A s \in S : 0 <= s.price * s.qty
    BY <2>1 DEF SalesTyping
  <2> QED BY <2>2 DEF Earned
<1> HIDE DEF C, z
<1>3. /\ Summable(f, B) /\ Revenue(B) = SumFunctionOnSet(f, B)
      /\ Summable(f, C) /\ Revenue(C) = SumFunctionOnSet(f, C)
      /\ Revenue(A) = SumFunctionOnSet(f, A)
  BY <1>1, Earnings
<1> HIDE DEF f
<1>4. SumFunctionOnSet(f, A) = SumFunctionOnSet(f, B) + SumFunctionOnSet(f, C)
  BY <1>1, <1>3, SumUnion
<1>5. IsFiniteSet(C) /\ Summable(z, C)
  BY <1>2, <1>3 DEF Summable
<1>6. SumFunctionOnSet(z, C) = 0
  BY <1>2, <1>5, SumZero
<1>7. SumFunctionOnSet(z, C) <= SumFunctionOnSet(f, C)
  BY <1>2, <1>3, <1>5, SumMonotone
<1> QED BY <1>3, <1>4, <1>6, <1>7 DEF C

\* The rows that are of some shifts, and what they are to have: the revenue of
\* what was sold in them.
RowsOf(rows, G) == {r \in rows : r.segment \in G}
RowsHave(rows, S, d, G) ==
  /\ IsFiniteSet(rows) /\ \A r \in rows : r.revenue \in Int
  /\ RowRevenue(rows) = Revenue({s \in SoldOn(S, d, d) : s.segment \in G})

\* They do have it.
LEMMA RowsEarn ==
  ASSUME NEW S, SalesTyping(S), NEW c, NEW pricing, NEW d \in Int, NEW G \in SUBSET Segment
  PROVE  RowsHave(RowsOf(ComputeItemMargins(S, c, pricing, d), G), S, d, G)
<1> DEFINE on == SoldOn(S, d, d)
           A == {s \in on : s.segment \in G}
           row(i, g) == ItemMargin(on, ForItem(c, i), pricing, i, g)
           t == [s \in A |-> row(s.item, s.segment)]
           B == {t[s] : s \in A}
           e == [r \in B |-> r.revenue]
           rows == RowsOf(ComputeItemMargins(S, c, pricing, d), G)
<1>1. on \in SUBSET S /\ A \in SUBSET S
  BY DEF SoldOn
<1>2. \A i, g : /\ row(i, g).item = i /\ row(i, g).segment = g
                /\ row(i, g).revenue = Revenue({s \in on : s.item = i /\ s.segment = g})
  <2> HIDE DEF on
  <2> QED BY DEF ItemMargin
<1> HIDE DEF row
<1>3. rows = B
  <2>0. rows = {r \in ComputeItemMargins(S, c, pricing, d) : r.segment \in G}
    BY DEF RowsOf
  <2>1. ComputeItemMargins(S, c, pricing, d)
          = {row(k[1], k[2]) : k \in {<<s.item, s.segment>> : s \in on}}
    BY DEF ComputeItemMargins, row
  <2> HIDE DEF on
  <2>2. \A r \in rows : r \in B
    <3> SUFFICES ASSUME NEW r \in rows PROVE r \in B
      OBVIOUS
    <3>1. PICK s \in on : r = row(s.item, s.segment)
      BY <2>0, <2>1
    <3>2. s \in A
      BY <1>2, <2>0, <3>1
    <3>3. t[s] = r
      BY <3>1, <3>2
    <3> QED BY <3>2, <3>3
  <2>3. \A r \in B : r \in rows
    <3> SUFFICES ASSUME NEW s \in A PROVE t[s] \in rows
      OBVIOUS
    <3>1. t[s] = row(s.item, s.segment) /\ s \in on /\ s.segment \in G
      OBVIOUS
    <3>2. t[s].segment \in G
      BY <1>2, <3>1
    <3>3. <<s.item, s.segment>> \in {<<u.item, u.segment>> : u \in on}
      BY <3>1
    <3>4. t[s] \in ComputeItemMargins(S, c, pricing, d)
      <4> DEFINE k == <<s.item, s.segment>>
      <4>1. k[1] = s.item /\ k[2] = s.segment
        OBVIOUS
      <4>2. t[s] = row(k[1], k[2])
        BY <3>1, <4>1
      <4> HIDE DEF t, k
      <4> QED BY <2>1, <3>3, <4>2 DEF k
    <3> QED BY <2>0, <3>2, <3>4
  <2> QED BY <2>2, <2>3
<1>4. IsFiniteSet(B)
  <2>1. IsFiniteSet(A)
    BY <1>1, FS_Subset DEF SalesTyping
  <2> HIDE DEF t, A
  <2> QED BY <2>1, ImageFinite
<1>5. ASSUME NEW b \in B PROVE e[b] = Revenue(Fibre(A, t, b))
  <2>1. PICK s \in A : b = t[s]
    OBVIOUS
  <2>2. \A u \in A : t[u] = row(u.item, u.segment)
    OBVIOUS
  <2>3. \A u \in A : t[u] = b <=> u.item = s.item /\ u.segment = s.segment
    BY <1>2, <2>1, <2>2
  <2>4. Fibre(A, t, b) = {u \in on : u.item = s.item /\ u.segment = s.segment}
    <3> HIDE DEF t, on
    <3> QED BY <2>3 DEF Fibre
  <2>5. e[b] = b.revenue
    OBVIOUS
  <2>6. b.revenue = Revenue({u \in on : u.item = s.item /\ u.segment = s.segment})
    BY <1>2, <2>1, <2>2
  <2> HIDE DEF e
  <2> QED BY <2>4, <2>5, <2>6
<1>6. (\A s \in A : t[s] \in B) /\ DOMAIN e = B
  OBVIOUS
<1>7. RowRevenue(rows) = Total(e)
  BY <1>3 DEF RowRevenue
<1>8. \A r \in B : e[r] = r.revenue
  OBVIOUS
<1> HIDE DEF t, B, e, A
<1> HIDE DEF rows
<1>9. Summable(e, B) /\ Total(e) = Revenue(A)
  BY <1>1, <1>4, <1>5, <1>6, RevenueByKind
<1>10. \A r \in B : r.revenue \in Int
  BY <1>8, <1>9 DEF Summable
<1> HIDE DEF rows
<1>11. IsFiniteSet(rows) /\ (\A r \in rows : r.revenue \in Int) /\ RowRevenue(rows) = Revenue(A)
  BY <1>3, <1>4, <1>7, <1>9, <1>10
<1> QED BY <1>11 DEF A, rows, RowsHave

\* So have all the rows of a day.
LEMMA DayEarns ==
  ASSUME NEW S, SalesTyping(S), NEW c, NEW pricing, NEW d \in Int
  PROVE  LET rows == ComputeItemMargins(S, c, pricing, d)
         IN /\ IsFiniteSet(rows) /\ \A r \in rows : r.revenue \in Int
            /\ RowRevenue(rows) = Revenue(SoldOn(S, d, d))
<1> DEFINE all == ComputeItemMargins(S, c, pricing, d)
           some == RowsOf(all, Segment)
           on == SoldOn(S, d, d)
<1>1. /\ IsFiniteSet(some) /\ \A r \in some : r.revenue \in Int
      /\ RowRevenue(some) = Revenue({s \in on : s.segment \in Segment})
  <2>1. RowsHave(some, S, d, Segment)
    <3>1. Segment \in SUBSET Segment
      OBVIOUS
    <3> QED BY <3>1, RowsEarn
  <2> HIDE DEF some
  <2> QED BY <2>1 DEF RowsHave
<1>2. {s \in on : s.segment \in Segment} = on
  BY DEF SoldOn, SalesTyping
<1>3. some = all
  <2>1. \A i, g : ItemMargin(on, ForItem(c, i), pricing, i, g).segment = g
    <3> HIDE DEF on
    <3> QED BY DEF ItemMargin
  <2>2. \A s \in on : s.segment \in Segment
    BY <1>2
  <2> HIDE DEF on
  <2>3. \A r \in all : r.segment \in Segment
    BY <2>1, <2>2 DEF ComputeItemMargins, on
  <2> QED BY <2>3 DEF RowsOf
<1> QED BY <1>1, <1>2, <1>3

\* The days of a range together have the revenue of the range.
LEMMA DaysEarn ==
  ASSUME NEW S, SalesTyping(S), NEW days, NEW a \in Int, NEW b \in Int, DOMAIN days = a..b,
         \A d \in a..b : RowRevenue(days[d]) = Revenue(SoldOn(S, d, d))
  PROVE  Total([d \in DOMAIN days |-> RowRevenue(days[d])]) = Revenue(SoldOn(S, a, b))
<1> DEFINE A == SoldOn(S, a, b)
           B == a..b
           t == [s \in A |-> s.day]
           e == [d \in B |-> RowRevenue(days[d])]
<1>1. A \in SUBSET S /\ (\A s \in A : t[s] \in B /\ t[s] = s.day) /\ DOMAIN e = B
  BY DEF SoldOn
<1>2. IsFiniteSet(B)
  BY FS_Interval
<1>3. ASSUME NEW d \in B PROVE e[d] = Revenue(Fibre(A, t, d))
  <2>1. Fibre(A, t, d) = SoldOn(S, d, d)
    <3>1. \A s \in S : s.day \in Int /\ (s.day \in d..d <=> s.day = d)
      BY DEF SalesTyping
    <3> QED BY <3>1 DEF Fibre, SoldOn
  <2>2. e[d] = RowRevenue(days[d])
    OBVIOUS
  <2> HIDE DEF e
  <2> QED BY <2>1, <2>2
<1>4. [d \in DOMAIN days |-> RowRevenue(days[d])] = e
  OBVIOUS
<1> HIDE DEF A, B, t, e
<1>5. Total(e) = Revenue(A)
  BY <1>1, <1>2, <1>3, RevenueByKind
<1> QED BY <1>4, <1>5 DEF A

-----------------------------------------------------------------------------
\* A day is of a month or before it if it is no later than the month's last.
LEMMA MonthsEnd ==
  ASSUME NEW d \in Int, NEW n \in Int
  PROVE  MonthOf(d) \in Int /\ (MonthOf(d) <= n <=> d <= LastOf(n))
<1> DEFINE M == MonthDays
           q == (d - 1) \div M
<1>1. M \in Nat /\ M > 0
  BY ReportsAssumption
<1>2. q \in Int /\ M * q <= d - 1 /\ d - 1 < M * q + M
  <2> HIDE DEF M
  <2> QED BY <1>1
<1>3. \A i, j \in Int : i <= j => M * i <= M * j /\ M * i \in Int /\ M * j \in Int
  <2> HIDE DEF M
  <2>1. \A i \in Int, e \in Nat : M * (i + e) = M * i + M * e /\ M * e >= 0 /\ M * i \in Int
    BY <1>1
  <2>2. \A i, j \in Int : i <= j => j - i \in Nat /\ j = i + (j - i)
    OBVIOUS
  <2>3. ASSUME NEW i \in Int, NEW j \in Int, i <= j
        PROVE  M * i <= M * j /\ M * i \in Int /\ M * j \in Int
    <3> DEFINE e == j - i
    <3>1. e \in Nat /\ j = i + e
      BY <2>3
    <3>2. M * (i + e) = M * i + M * e /\ M * e >= 0 /\ M * i \in Int
      <4> HIDE DEF e
      <4> QED BY <2>1, <3>1
    <3>3. M * j = M * (i + e) /\ M * j \in Int /\ M * e \in Int
      <4> HIDE DEF e
      <4> QED BY <1>1, <3>1
    <3> HIDE DEF e
    <3> QED BY <3>2, <3>3
  <2> QED BY <2>3
<1>4. MonthOf(d) = q + 1 /\ LastOf(n) = M * n
  <2>1. n * M = M * n
    BY <1>1
  <2> QED BY <2>1 DEF MonthOf, LastOf
<1> HIDE DEF M, q
<1>5. M * (q + 1) = M * q + M
  BY <1>1, <1>2
<1>6. q + 1 <= n => M * (q + 1) <= M * n /\ M * n \in Int
  BY <1>2, <1>3
<1>7. n <= q => M * n <= M * q
  BY <1>2, <1>3
<1>8. M * n \in Int /\ M * q \in Int
  BY <1>1, <1>2, <1>3
<1>9. CASE q + 1 <= n
  BY <1>1, <1>2, <1>4, <1>5, <1>6, <1>8, <1>9
<1>10. CASE n <= q
  BY <1>1, <1>2, <1>4, <1>7, <1>8, <1>10
<1> QED BY <1>2, <1>9, <1>10

\* A month is the MonthDays days from its first to its last.
LEMMA MonthDates ==
  ASSUME NEW m \in Int
  PROVE  /\ FirstOf(m) \in Int /\ LastOf(m) \in Int /\ LastOf(m) = FirstOf(m) + MonthDays - 1
         /\ MonthOf(FirstOf(m)) = m /\ MonthOf(LastOf(m)) = m
<1> DEFINE M == MonthDays
           p == (m - 1) * M
<1>1. M \in Nat /\ M > 0
  BY ReportsAssumption
<1>2. p \in Int /\ m * M = p + M /\ m * M \in Int
  <2> HIDE DEF M
  <2>1. p \in Int /\ m * M \in Int
    BY <1>1
  <2>2. m * M = p + M
    BY <1>1
  <2> QED BY <2>1, <2>2
<1>3. FirstOf(m) = p + 1 /\ LastOf(m) = p + M /\ LastOf(m - 1) = p
  <2>1. FirstOf(m) = p + 1 /\ LastOf(m) = m * M /\ LastOf(m - 1) = p
    BY DEF FirstOf, LastOf
  <2> HIDE DEF p, M
  <2> QED BY <1>2, <2>1
<1> HIDE DEF p, M
<1>4. FirstOf(m) \in Int /\ LastOf(m) \in Int /\ LastOf(m) = FirstOf(m) + M - 1
  BY <1>1, <1>2, <1>3
<1>5. ASSUME NEW d \in Int, d <= LastOf(m), ~(d <= LastOf(m - 1)) PROVE MonthOf(d) = m
  <2>1. MonthOf(d) \in Int /\ MonthOf(d) <= m
    BY <1>5, MonthsEnd
  <2>2. ~(MonthOf(d) <= m - 1)
    <3>1. m - 1 \in Int
      OBVIOUS
    <3> QED BY <1>5, <3>1, MonthsEnd
  <2> QED BY <2>1, <2>2
<1>6. MonthOf(FirstOf(m)) = m /\ MonthOf(LastOf(m)) = m
  <2>1. /\ FirstOf(m) <= LastOf(m) /\ ~(FirstOf(m) <= LastOf(m - 1))
        /\ LastOf(m) <= LastOf(m) /\ ~(LastOf(m) <= LastOf(m - 1))
    BY <1>1, <1>2, <1>3, <1>4
  <2> QED BY <1>4, <1>5, <2>1
<1> QED BY <1>4, <1>6 DEF M

-----------------------------------------------------------------------------
(***************************************************************************)
(* The prices of a past day.  The lemmas about PriceLog are those of       *)
(* PriceHistoryProofs, for rows that have a net price and a stamp.         *)
(***************************************************************************)

\* A row has a price, no row has none.
LEMMA RowsHavePrices ==
  ASSUME NEW s \in Nat, NEW r \in CostRow(s)
  PROVE  r # None /\ PriceOf(r) \in Nat /\ PriceOf(r) # None
<1>1. r \in [net : Nat, date : Int] /\ r.net \in Nat
  BY DEF CostRow
<1> QED BY <1>1, ReportsAssumption DEF PriceOf

\* So has an entry's.
LEMMA EntryPrices ==
  ASSUME NEW t \in Nat, NEW s \in 0..t, NEW N \in SUBSET {None}, NEW e \in CostEntry(s, t, N)
  PROVE  PriceOf(e.old) \in Nat \cup {None} /\ PriceOf(e.new) \in Nat \cup N
<1>1. e.old \in CostRow(s) \cup {None} /\ e.new \in CostRow(s) \cup N /\ s \in Nat
  BY DEF CostEntry
<1>2. PriceOf(None) = None
  BY DEF PriceOf
<1> QED BY <1>1, <1>2, RowsHavePrices

\* A change takes effect on a day no later than today.
LEMMA EffectiveDateType ==
  ASSUME NEW t \in Nat, NEW s \in 0..t, NEW N \in SUBSET {None}, NEW e \in CostEntry(s, t, N)
  PROVE  EffectiveDate(e) \in 0..t
<1>1. e.utc \in 0..t /\ e.new \in CostRow(s) \cup N /\ N \subseteq {None}
  BY DEF CostEntry
<1>2. e.new # None => e.new.date \in 0..t
  BY <1>1 DEF CostRow
<1> QED BY <1>1, <1>2 DEF EffectiveDate

\* A round of price_history's loop turns changes into changes.
LEMMA AddEntryType ==
  ASSUME NEW t \in Nat, NEW s \in 0..t, NEW N \in SUBSET {None},
         NEW c \in Seq(CostChange(t, N)), NEW e \in CostEntry(s, t, N)
  PROVE  AddEntry(c, e) \in Seq(CostChange(t, N))
<1>1. EffectiveDate(e) \in 0..t
  BY EffectiveDateType
<1>2. PriceOf(e.old) \in Nat \cup {None} /\ PriceOf(e.new) \in Nat \cup N
  BY EntryPrices
<1>4. CASE IsReDating(e)
  <2>1. CASE c = <<>>
    BY <1>4, <2>1 DEF AddEntry
  <2>2. CASE c # <<>>
    <3> DEFINE n == Len(c)
    <3>1. n \in DOMAIN c /\ c[n] \in CostChange(t, N)
      BY <2>2
    <3>2. [c[n] EXCEPT !.on = EffectiveDate(e)] \in CostChange(t, N)
      BY <1>1, <3>1 DEF CostChange
    <3>3. [c EXCEPT ![n].on = EffectiveDate(e)]
          = [c EXCEPT ![n] = [c[n] EXCEPT !.on = EffectiveDate(e)]]
      BY <3>1
    <3> HIDE DEF n
    <3>4. [c EXCEPT ![n].on = EffectiveDate(e)] \in Seq(CostChange(t, N))
      BY <3>1, <3>2, <3>3, ExceptSeq
    <3> QED BY <1>4, <2>2, <3>4 DEF AddEntry, n
  <2> QED BY <2>1, <2>2
<1>5. CASE ~IsReDating(e)
  BY <1>1, <1>2, <1>5 DEF AddEntry, CostChange
<1> QED BY <1>4, <1>5

\* f holds the changes after each round of the loop over l.
IsLoop(l, f) ==
  f = [k \in 0..Len(l) |-> IF k = 0 THEN <<>> ELSE AddEntry(f[k - 1], l[k])]

\* Rounds of entries of E make changes of C.
Rounds(E, C) == \A c \in Seq(C), e \in E : AddEntry(c, e) \in Seq(C)

\* There is such a loop for each log, if a round makes changes of changes.
LEMMA LoopExists ==
  ASSUME NEW E, NEW C, Rounds(E, C), NEW l \in Seq(E)
  PROVE  \E f \in [0..Len(l) -> Seq(C)] : IsLoop(l, f)
<1> DEFINE S == Seq(C)
           F == [p \in S \X Nat |->
             IF p[2] \in 1..Len(l) THEN AddEntry(p[1], l[p[2]]) ELSE <<>>]
           n == Len(l)
<1>1. F \in [S \X Nat -> S]
  <2>1. ASSUME NEW p \in S \X Nat
        PROVE  (IF p[2] \in 1..Len(l) THEN AddEntry(p[1], l[p[2]])
                ELSE <<>>) \in S
    <3>1. CASE p[2] \in 1..Len(l)
      <4>1. l[p[2]] \in E /\ p[1] \in Seq(C)
        BY <3>1
      <4> QED BY <3>1, <4>1 DEF Rounds
    <3>2. CASE ~ (p[2] \in 1..Len(l))
      BY <3>2
    <3> QED BY <3>1, <3>2
  <2> HIDE DEF S
  <2> QED BY <2>1
<1>2. \A s \in S, k \in 1..n : F[<<s, k>>] = AddEntry(s, l[k])
  OBVIOUS
<1>3. <<>> \in S /\ n \in Nat
  OBVIOUS
<1>4. PICK f \in [0..n -> S] : f[0] = <<>>
           /\ \A k \in 1..n : f[k] = F[<<f[k - 1], k>>]
  <2> DEFINE none == <<>>
  <2>1. none \in S
    BY <1>3
  <2> HIDE DEF S, F, n, none
  <2>2. \E f : Iterates(f, none, F, n, S)
    BY <1>1, <1>3, <2>1, NatRecursion
  <2> QED BY <2>2 DEF none, Iterates
<1>5. ASSUME NEW k \in 0..n
      PROVE  f[k] = IF k = 0 THEN <<>> ELSE AddEntry(f[k - 1], l[k])
  <2>1. CASE k = 0
    BY <1>4, <2>1
  <2>2. CASE k # 0
    <3>1. k \in 1..n /\ k - 1 \in 0..n
      BY <2>2
    <3> HIDE DEF F, S, n
    <3>2. f[k - 1] \in S
      BY <3>1
    <3> QED BY <1>2, <1>4, <2>2, <3>1, <3>2
  <2> QED BY <2>1, <2>2
<1>6. f = [k \in 0..n |-> IF k = 0 THEN <<>> ELSE AddEntry(f[k - 1], l[k])]
  <2> HIDE DEF F, S, n
  <2> QED BY <1>5
<1> QED BY <1>6 DEF IsLoop

\* Two loops agree as long as their logs do.
LEMMA LoopsAgree ==
  ASSUME NEW E, NEW l \in Seq(E), NEW m \in Seq(E), NEW n \in Nat,
         n <= Len(l), n <= Len(m), \A k \in 1..n : l[k] = m[k],
         NEW f, NEW g, IsLoop(l, f), IsLoop(m, g)
  PROVE  f[n] = g[n]
<1> DEFINE T == {k \in Nat : k <= n => f[k] = g[k]}
<1>1. \A k \in 0..Len(l) : f[k] = IF k = 0 THEN <<>> ELSE AddEntry(f[k - 1], l[k])
  BY DEF IsLoop
<1>2. \A k \in 0..Len(m) : g[k] = IF k = 0 THEN <<>> ELSE AddEntry(g[k - 1], m[k])
  BY DEF IsLoop
<1>3. 0 \in T
  BY <1>1, <1>2
<1>4. ASSUME NEW k \in T PROVE k + 1 \in T
  <2>1. CASE k + 1 <= n
    <3>1. f[k] = g[k]
      BY <2>1
    <3>2. k + 1 \in 1..n /\ k + 1 \in 0..Len(l) /\ k + 1 \in 0..Len(m)
          /\ (k + 1) - 1 = k /\ k + 1 # 0
      BY <2>1
    <3>3. f[k + 1] = AddEntry(f[k], l[k + 1])
          /\ g[k + 1] = AddEntry(g[k], m[k + 1])
      BY <1>1, <1>2, <3>2
    <3> QED BY <3>1, <3>2, <3>3
  <2>2. CASE ~ (k + 1 <= n)
    BY <2>2
  <2> QED BY <2>1, <2>2
<1>5. T = Nat
  <2>1. T \in SUBSET Nat
    OBVIOUS
  <2> HIDE DEF T
  <2> QED BY <1>3, <1>4, <2>1, NatSetInduction
<1> QED BY <1>5

\* Changes is what the last round leaves.
LEMMA ChangesOfLoop ==
  ASSUME NEW E, NEW l \in Seq(E), NEW f, IsLoop(l, f)
  PROVE  Changes(l) = f[Len(l)]
<1> DEFINE u ==
             CHOOSE upTo :
               upTo = [n \in 0..Len(l) |->
                         IF n = 0 THEN <<>> ELSE AddEntry(upTo[n - 1], l[n])]
<1>1. IsLoop(l, u)
  BY DEF IsLoop
<1>2. Changes(l) = u[Len(l)]
  BY DEF Changes
<1> HIDE DEF u
<1>3. u[Len(l)] = f[Len(l)]
  BY <1>1, LoopsAgree
<1> QED BY <1>2, <1>3

\* The history of a log is a sequence of changes.
LEMMA ChangesType ==
  ASSUME NEW E, NEW C, Rounds(E, C), NEW l \in Seq(E)
  PROVE  Changes(l) \in Seq(C)
<1>1. PICK f \in [0..Len(l) -> Seq(C)] : IsLoop(l, f)
  BY LoopExists
<1>2. Changes(l) = f[Len(l)]
  BY <1>1, ChangesOfLoop
<1> QED BY <1>2

\* An empty log has no history.
LEMMA ChangesEmpty == Changes(<<>>) = <<>>
<1>1. Rounds({}, {}) /\ <<>> \in Seq({}) /\ Len(<<>>) = 0
  BY DEF Rounds
<1>2. PICK f \in [0..0 -> Seq({})] : IsLoop(<<>>, f)
  BY <1>1, LoopExists
<1>3. Changes(<<>>) = f[0]
  BY <1>1, <1>2, ChangesOfLoop
<1>4. f[0] = <<>>
  BY <1>2 DEF IsLoop
<1> QED BY <1>3, <1>4

\* An entry more in the log is a round more of the loop.
LEMMA ChangesAppend ==
  ASSUME NEW E, NEW C, Rounds(E, C), NEW l \in Seq(E), NEW e \in E
  PROVE  Changes(Append(l, e)) = AddEntry(Changes(l), e)
<1> DEFINE m == Append(l, e)
           n == Len(l)
<1>1. m \in Seq(E) /\ n \in Nat /\ Len(m) = n + 1 /\ m[n + 1] = e
      /\ \A k \in 1..n : m[k] = l[k]
  OBVIOUS
<1>2. PICK f \in [0..Len(l) -> Seq(C)] : IsLoop(l, f)
  BY LoopExists
<1> HIDE DEF m
<1>3. PICK g \in [0..Len(m) -> Seq(C)] : IsLoop(m, g)
  BY <1>1, LoopExists
<1>4. Changes(l) = f[n]
  BY <1>2, ChangesOfLoop
<1>5. Changes(m) = g[n + 1]
  BY <1>1, <1>3, ChangesOfLoop
<1>6. g[n + 1] = AddEntry(g[n], e)
  <2>1. n + 1 \in 0..Len(m) /\ n + 1 # 0 /\ (n + 1) - 1 = n
    BY <1>1
  <2>2. \A k \in 0..Len(m) : g[k] =
          IF k = 0 THEN <<>> ELSE AddEntry(g[k - 1], m[k])
    BY <1>3 DEF IsLoop
  <2> HIDE DEF n
  <2> QED BY <1>1, <2>1, <2>2
<1>7. f[n] = g[n]
  <2>1. n <= Len(l) /\ n <= Len(m)
    BY <1>1
  <2>2. \A k \in 1..n : l[k] = m[k]
    BY <1>1
  <2>3. n \in Nat /\ m \in Seq(E)
    BY <1>1
  <2> HIDE DEF n
  <2> QED BY <1>2, <1>3, <2>1, <2>2, <2>3, LoopsAgree
<1> QED BY <1>4, <1>5, <1>6, <1>7 DEF m

\* The days of a history are days.
LEMMA ChangeDays ==
  ASSUME NEW t \in Nat, NEW N, NEW c \in Seq(CostChange(t, N)), NEW i \in DOMAIN c
  PROVE  c[i] \in CostChange(t, N) /\ c[i].on \in 0..t /\ c[i].on \in Int /\ i \in Int
<1>1. c[i] \in CostChange(t, N) /\ i \in Int
  OBVIOUS
<1>2. c[i].on \in 0..t
  BY <1>1 DEF CostChange
<1> QED BY <1>1, <1>2

\* If a change lies on day d or before, one governs d.
LEMMA GovernorExists ==
  ASSUME NEW t \in Nat, NEW N, NEW c \in Seq(CostChange(t, N)), NEW d \in Int, NEW i \in DOMAIN c, c[i].on <= d
  PROVE  \E j \in DOMAIN c : Governs(c, j, d)
<1> DEFINE I == {j \in DOMAIN c : c[j].on <= d}
           D == {c[j].on : j \in I}
<1>1. \A j \in DOMAIN c : c[j].on \in 0..t
  BY ChangeDays
<1>2. PICK m \in D : \A n \in D : n <= m
  <2>1. D \in SUBSET (0..t)
    BY <1>1
  <2>2. D # {}
    <3>1. c[i].on \in D
      OBVIOUS
    <3> QED BY <3>1
  <2> HIDE DEF D
  <2> QED BY <1>1, <2>1, <2>2, GreatestNumber
<1> DEFINE J == {j \in I : c[j].on = m}
<1>3. PICK g \in J : \A j \in J : j <= g
  <2>1. J \in SUBSET (0..Len(c)) /\ Len(c) \in Nat
    OBVIOUS
  <2>2. J # {}
    BY <1>2
  <2> HIDE DEF J
  <2> QED BY <2>1, <2>2, GreatestNumber
<1>4. g \in DOMAIN c /\ c[g].on <= d /\ c[g].on = m
  OBVIOUS
<1>5. ASSUME NEW j \in DOMAIN c, c[j].on <= d
      PROVE  c[j].on < c[g].on \/ (c[j].on = c[g].on /\ j <= g)
  <2>1. j \in I /\ c[j].on \in D
    BY <1>5
  <2>2. c[j].on <= m
    BY <1>2, <2>1
  <2>3. CASE c[j].on = m
    <3>1. j \in J
      BY <2>1, <2>3
    <3> QED BY <1>3, <1>4, <2>3, <3>1
  <2>4. CASE c[j].on # m
    <3>1. c[j].on \in Int /\ m \in Int
      BY <1>1, <1>4
    <3> HIDE DEF D, I, J
    <3> QED BY <1>4, <2>2, <2>4, <3>1
  <2> QED BY <2>3, <2>4
<1> HIDE DEF D, I, J
<1> QED BY <1>4, <1>5 DEF Governs

\* It is the only one, so day d has its price.
LEMMA PriceOnGoverned ==
  ASSUME NEW t \in Nat, NEW N, NEW c \in Seq(CostChange(t, N)), NEW d \in Int,
         NEW i \in DOMAIN c, Governs(c, i, d), NEW r
  PROVE  PriceOn(c, r, d) = c[i].new
<1>1. \A j \in DOMAIN c : c[j].on \in Int /\ j \in Int
  BY ChangeDays
<1>2. ASSUME NEW j \in DOMAIN c, Governs(c, j, d) PROVE j = i
  BY <1>1, <1>2 DEF Governs
<1>3. (CHOOSE j \in DOMAIN c : Governs(c, j, d)) = i
  BY <1>2
<1>4. c[i].on <= d
  BY DEF Governs
<1> QED BY <1>3, <1>4 DEF PriceOn

\* Without one, day d has the price before all changes.
LEMMA PriceOnUngoverned ==
  ASSUME NEW c, NEW d, \A i \in DOMAIN c : ~ (c[i].on <= d), NEW r
  PROVE  PriceOn(c, r, d) = BeforeChanges(c, r)
BY DEF PriceOn

\* A change appended to a history, from the price now in the book, leaves the
\* days before it as they were.
LEMMA AppendLater ==
  ASSUME NEW t \in Nat, NEW N, NEW c \in Seq(CostChange(t, N)), NEW ch \in CostChange(t, N),
         NEW x \in Int, x < ch.on, NEW s \in 0..t, NEW r \in CostRow(s), NEW q \in CostRow(s),
         ch.old = PriceOf(r)
  PROVE  PriceOn(Append(c, ch), q, x) = PriceOn(c, r, x)
<1> DEFINE a == Append(c, ch)
           n == Len(c)
<1>1. /\ a \in Seq(CostChange(t, N)) /\ n \in Nat
      /\ DOMAIN a = 1..(n + 1) /\ DOMAIN c = 1..n
      /\ a[n + 1] = ch /\ \A i \in 1..n : a[i] = c[i]
  OBVIOUS
<1>2. ch.on \in Int /\ ~ (ch.on <= x)
  BY DEF CostChange
<1>3. r # None /\ q # None /\ PriceOf(r) # None
  BY RowsHavePrices
<1> HIDE DEF a
<1>4. CASE \E i \in DOMAIN c : c[i].on <= x
  <2>1. PICK g \in DOMAIN c : Governs(c, g, x)
    BY <1>4, GovernorExists
  <2>2. Governs(a, g, x)
    BY <1>1, <1>2, <2>1 DEF Governs
  <2>3. PriceOn(a, q, x) = a[g].new
    BY <1>1, <2>2, PriceOnGoverned
  <2>4. PriceOn(c, r, x) = c[g].new
    BY <2>1, PriceOnGoverned
  <2> QED BY <1>1, <2>3, <2>4 DEF a
<1>5. CASE ~ \E i \in DOMAIN c : c[i].on <= x
  <2>1. \A i \in DOMAIN a : ~ (a[i].on <= x)
    <3>1. SUFFICES ASSUME NEW i \in 1..(n + 1) PROVE ~ (a[i].on <= x)
      BY <1>1
    <3>2. CASE i = n + 1
      BY <1>1, <1>2, <3>2
    <3>3. CASE i # n + 1
      <4>1. i \in 1..n
        BY <3>3
      <4> QED BY <1>1, <1>5, <4>1
    <3> QED BY <3>2, <3>3
  <2>2. PriceOn(a, q, x) = BeforeChanges(a, q)
    BY <2>1, PriceOnUngoverned
  <2>3. PriceOn(c, r, x) = BeforeChanges(c, r)
    BY <1>5, PriceOnUngoverned
  <2>4. a # <<>>
    BY <1>1
  <2>5. BeforeChanges(a, q) = BeforeChanges(c, r)
    <3>1. CASE c = <<>>
      <4>1. a[1] = ch
        BY <1>1, <3>1
      <4> QED BY <1>3, <2>4, <3>1, <4>1 DEF BeforeChanges
    <3>2. CASE c # <<>>
      <4>1. a[1] = c[1]
        BY <1>1, <3>2
      <4> QED BY <1>3, <2>4, <3>2, <4>1 DEF BeforeChanges
    <3> QED BY <3>1, <3>2
  <2> QED BY <2>2, <2>3, <2>5 DEF a
<1> QED BY <1>4, <1>5

\* The price of a day is a price or none.
LEMMA PriceOnType ==
  ASSUME NEW t \in Nat, NEW s \in 0..t, NEW c \in Seq(CostChange(t, {None})),
         NEW r \in CostRow(s) \cup {None}, NEW d \in Int
  PROVE  PriceOn(c, r, d) \in Nat \cup {None}
<1>1. ASSUME NEW i \in DOMAIN c PROVE c[i].old \in Nat \cup {None} /\ c[i].new \in Nat \cup {None}
  <2>1. c[i] \in CostChange(t, {None})
    OBVIOUS
  <2> QED BY <2>1 DEF CostChange
<1>2. PriceOf(r) \in Nat \cup {None}
  BY RowsHavePrices DEF PriceOf
<1>3. CASE \E i \in DOMAIN c : c[i].on <= d
  <2>1. PICK g \in DOMAIN c : Governs(c, g, d)
    BY <1>3, GovernorExists
  <2>2. PriceOn(c, r, d) = c[g].new
    BY <2>1, PriceOnGoverned
  <2> QED BY <1>1, <2>2
<1>4. CASE ~ \E i \in DOMAIN c : c[i].on <= d
  <2>1. PriceOn(c, r, d) = BeforeChanges(c, r)
    BY <1>4, PriceOnUngoverned
  <2>2. c # <<>> => 1 \in DOMAIN c
    OBVIOUS
  <2>3. BeforeChanges(c, r) \in Nat \cup {None}
    BY <1>1, <1>2, <2>2 DEF BeforeChanges
  <2> QED BY <2>1, <2>3
<1> QED BY <1>3, <1>4

\* The clocks bound what the log's entries and changes say.
LEMMA ClockRounds ==
  ASSUME ClockTyping, NEW N \in SUBSET {None}
  PROVE  /\ today \in Nat /\ today >= 1 /\ appToday \in 0..today
         /\ Rounds(CostEntry(appToday, today, N), CostChange(today, N))
<1>1. today \in Nat /\ today >= 1 /\ appToday \in 0..today
  BY DEF ClockTyping, Day
<1> QED BY <1>1, AddEntryType DEF Rounds

\* The history of a leaf, and its row.
LEMMA HistoryType ==
  ASSUME PricesTyping, ClockTyping, NEW l \in Leaf
  PROVE  /\ costLog[l] \in Seq(CostEntry(appToday, today, {None}))
         /\ Changes(costLog[l]) \in Seq(CostChange(today, {None}))
         /\ costs[l] \in CostRow(appToday) \cup {None}
<1>1. costLog[l] \in Seq(CostEntry(appToday, today, {None})) /\ costs[l] \in CostRow(appToday) \cup {None}
  BY DEF PricesTyping
<1>2. Rounds(CostEntry(appToday, today, {None}), CostChange(today, {None}))
  BY ClockRounds
<1> QED BY <1>1, <1>2, ChangesType

\* What the log says a leaf cost on a day is a price or none.
LEMMA AsOfTyped ==
  ASSUME PricesTyping, ClockTyping, NEW d \in Day, NEW l \in Leaf
  PROVE  BookAsOf(d)[l] \in Nat \cup {None}
<1>1. today \in Nat /\ appToday \in 0..today
  BY ClockRounds
<1>2. Changes(costLog[l]) \in Seq(CostChange(today, {None})) /\ costs[l] \in CostRow(appToday) \cup {None}
  BY HistoryType
<1>3. d \in Int
  BY DEF Day
<1>4. PriceOn(Changes(costLog[l]), costs[l], d) \in Nat \cup {None}
  BY <1>1, <1>2, <1>3, PriceOnType
<1> QED BY <1>4 DEF BookAsOf

\* Undo gives a row or none.
LEMMA RevertedCost ==
  ASSUME NEW s, NEW t, NEW e \in CostEntry(s, t, {None}), NEW r \in CostRow(s) \cup {None}
  PROVE  Reverted(e, r) \in CostRow(s) \cup {None}
<1>1. e.old \in CostRow(s) \cup {None} /\ e.new \in CostRow(s) \cup {None}
  BY DEF CostEntry
<1>2. CASE None \in {e.old, e.new, r}
  BY <1>1, <1>2 DEF Reverted
<1>3. CASE None \notin {e.old, e.new, r}
  <2>1. e.old \in CostRow(s) /\ e.new \in CostRow(s) /\ r \in CostRow(s)
    BY <1>1, <1>3
  <2>2. [c \in DOMAIN r |-> IF e.old[c] # e.new[c] THEN e.old[c] ELSE r[c]] \in CostRow(s)
    BY <2>1 DEF CostRow
  <2> QED BY <1>3, <2>2 DEF Reverted
<1> QED BY <1>2, <1>3

\* Whatever row the costs table gets, the log has it.
LEMMA SetCostKeepsPrices ==
  ASSUME PricesTyping, ClockTyping, NEW l \in Leaf, NEW new \in CostRow(appToday) \cup {None},
         SetCost(l, new)
  PROVE  PricesTyping'
<1> DEFINE E == CostEntry(appToday, today, {None})
<1>1. /\ costs \in [Leaf -> CostRow(appToday) \cup {None}] /\ costLog \in [Leaf -> Seq(E)]
      /\ \A k \in Leaf : costLog[k] # <<>> => costLog[k][Len(costLog[k])].new = costs[k]
  BY DEF PricesTyping
<1>2. PICK utc \in {today - 1, today} :
        costLog' = [costLog EXCEPT ![l] = Recorded(@, [old |-> costs[l], new |-> new, utc |-> utc])]
  BY DEF SetCost
<1>3. costs' = [costs EXCEPT ![l] = new] /\ today' = today /\ appToday' = appToday
  BY DEF SetCost, Edit, clock
<1> DEFINE e == [old |-> costs[l], new |-> new, utc |-> utc]
           m == Recorded(costLog[l], e)
<1>4. e \in E
  <2>1. today \in Nat /\ today >= 1
    BY DEF ClockTyping, Day
  <2>2. utc \in 0..today
    BY <2>1
  <2> QED BY <1>1, <2>2 DEF CostEntry
<1>5. e.new = new /\ e.old = costs[l]
  OBVIOUS
<1>6. costLog' = [costLog EXCEPT ![l] = m]
  BY <1>2
<1> HIDE DEF e, E
<1>7. m \in Seq(E) /\ (m # <<>> => m[Len(m)].new = new)
  <2>1. CASE e.old = e.new
    BY <1>1, <1>5, <2>1 DEF Recorded
  <2>2. CASE e.old # e.new
    <3>1. m = Append(costLog[l], e)
      BY <2>2 DEF Recorded
    <3> HIDE DEF m
    <3>2. m \in Seq(E) /\ m[Len(m)] = e
      BY <1>1, <1>4, <3>1
    <3> QED BY <1>5, <3>2
  <2> QED BY <2>1, <2>2
<1> HIDE DEF m
<1>8. costs' \in [Leaf -> CostRow(appToday) \cup {None}]
  BY <1>1, <1>3
<1>9. costLog' \in [Leaf -> Seq(E)]
  BY <1>1, <1>6, <1>7
<1>10. ASSUME NEW k \in Leaf, costLog'[k] # <<>>
       PROVE  costLog'[k][Len(costLog'[k])].new = costs'[k]
  BY <1>1, <1>3, <1>6, <1>7, <1>10
<1> QED BY <1>3, <1>8, <1>9, <1>10 DEF PricesTyping, E

\* A later clock bounds what an earlier one did.
LEMMA LaterClockKeepsPrices ==
  ASSUME PricesTyping, ClockTyping, ClockTyping', today <= today', appToday <= appToday',
         UNCHANGED <<costs, costLog>>
  PROVE  PricesTyping'
<1>1. /\ today \in Nat /\ appToday \in Nat /\ today' \in Nat /\ appToday' \in Nat
  BY DEF ClockTyping, Day
<1> DEFINE t == today
           s == appToday
           u == today'
           v == appToday'
           E == CostEntry(s, t, {None})
           F == CostEntry(v, u, {None})
<1>2. t \in Nat /\ s \in Nat /\ u \in Nat /\ v \in Nat /\ t <= u /\ s <= v
  BY <1>1
<1>3. /\ costs \in [Leaf -> CostRow(s) \cup {None}] /\ costLog \in [Leaf -> Seq(E)]
      /\ \A l \in Leaf : costLog[l] # <<>> => costLog[l][Len(costLog[l])].new = costs[l]
  BY DEF PricesTyping
<1>4. costs' = costs /\ costLog' = costLog
  OBVIOUS
<1> HIDE DEF t, s, u, v, E, F
<1>5. CostRow(s) \subseteq CostRow(v)
  BY <1>2 DEF CostRow
<1>6. E \subseteq F
  <2>1. 0..t \subseteq 0..u
    BY <1>2
  <2> QED BY <1>5, <2>1 DEF CostEntry, E, F
<1>7. costs' \in [Leaf -> CostRow(v) \cup {None}]
  BY <1>3, <1>4, <1>5
<1>8. Seq(E) \subseteq Seq(F)
  BY <1>6
<1>9. costLog' \in [Leaf -> Seq(F)]
  BY <1>3, <1>4, <1>8
<1>10. \A l \in Leaf : costLog'[l] # <<>> => costLog'[l][Len(costLog'[l])].new = costs'[l]
  BY <1>3, <1>4
<1> QED BY <1>7, <1>9, <1>10 DEF PricesTyping, F, u, v

\* Of a leaf whose row was never taken away, the log knows a price today just
\* when the book has one.
LEMMA BookFollowed ==
  ASSUME PricesTyping, ClockTyping, NEW l \in Leaf, ~Withdrawn(l)
  PROVE  BookAsOf(today)[l] # None <=> CurrentBook[l] # None
<1> DEFINE L == costLog[l]
           c == Changes(L)
           r == costs[l]
           s == appToday
           t == today
<1>1. /\ t \in Nat /\ s \in 0..t /\ t \in Int
      /\ Rounds(CostEntry(s, t, {}), CostChange(t, {}))
  BY ClockRounds
<1>2. /\ L \in Seq(CostEntry(s, t, {None})) /\ r \in CostRow(s) \cup {None}
      /\ (L # <<>> => L[Len(L)].new = r)
  BY HistoryType DEF PricesTyping
<1>3. \A i \in DOMAIN L : L[i].new # None
  BY DEF Withdrawn
<1>4. BookAsOf(today)[l] = PriceOn(c, r, t) /\ CurrentBook[l] = PriceOf(r)
  BY DEF BookAsOf, CurrentBook
<1> HIDE DEF s, t, r, L
<1>5. L \in Seq(CostEntry(s, t, {}))
  <2>1. ASSUME NEW i \in DOMAIN L PROVE L[i] \in CostEntry(s, t, {})
    <3>1. L[i] \in CostEntry(s, t, {None}) /\ L[i].new # None
      BY <1>2, <1>3
    <3> QED BY <3>1 DEF CostEntry
  <2> QED BY <1>2, <2>1
<1>6. c \in Seq(CostChange(t, {}))
  BY <1>1, <1>5, ChangesType
<1>7. CASE c = <<>>
  <2>1. PriceOn(c, r, t) = PriceOf(r)
    <3> HIDE DEF c
    <3>1. \A i \in DOMAIN c : ~ (c[i].on <= t)
      BY <1>7
    <3> QED BY <1>7, <3>1, PriceOnUngoverned DEF BeforeChanges
  <2> QED BY <1>4, <2>1
<1>8. CASE c # <<>>
  <2>1. PriceOn(c, r, t) # None
    <3> HIDE DEF c
    <3>1. 1 \in DOMAIN c /\ c[1].on <= t
      <4>1. 1 \in DOMAIN c
        BY <1>6, <1>8
      <4> QED BY <1>1, <1>6, <4>1, ChangeDays
    <3>2. PICK g \in DOMAIN c : Governs(c, g, t)
      BY <1>1, <1>6, <3>1, GovernorExists
    <3>3. PriceOn(c, r, t) = c[g].new
      BY <1>1, <1>6, <3>2, PriceOnGoverned
    <3>4. c[g] \in CostChange(t, {})
      BY <1>6
    <3>5. c[g].new \in Nat
      BY <3>4 DEF CostChange
    <3> QED BY <3>3, <3>5, ReportsAssumption
  <2>2. PriceOf(r) # None
    <3>1. L # <<>>
      BY <1>8, ChangesEmpty
    <3>2. r # None
      BY <1>2, <1>3, <3>1
    <3> QED BY <1>1, <1>2, <3>2, RowsHavePrices
  <2> QED BY <1>4, <2>1, <2>2
<1> QED BY <1>7, <1>8

-----------------------------------------------------------------------------
\* Rounding a quotient gives a whole number next to it, and none below zero
\* where the dividend is not.
LEMMA RoundingIsClose ==
  ASSUME NEW n \in Int, NEW d \in Nat \ {0}
  PROVE  /\ RoundHalfEven(n, d) \in Int
         /\ 2 * (d * RoundHalfEven(n, d)) - 2 * n \in -d..d
         /\ n >= 0 => RoundHalfEven(n, d) >= 0
<1> DEFINE q == n \div d
           r == n % d
<1>1. q \in Int /\ r \in Int /\ 0 <= r /\ r < d /\ n = d * q + r
  OBVIOUS
<1>2. n >= 0 => q >= 0
  OBVIOUS
<1>3. RoundHalfEven(n, d) = IF 2 * r < d \/ (2 * r = d /\ q % 2 = 0) THEN q ELSE q + 1
  BY DEF RoundHalfEven
<1> HIDE DEF q, r
<1>4. d * (q + 1) = d * q + d /\ d * q \in Int
  BY <1>1
<1>5. CASE RoundHalfEven(n, d) = q /\ 2 * r <= d
  BY <1>1, <1>2, <1>4, <1>5
<1>6. CASE RoundHalfEven(n, d) = q + 1 /\ 2 * r >= d
  <2> DEFINE p == d * q
             x == d * (q + 1)
  <2>1. p \in Int /\ x = p + d /\ n = p + r
    BY <1>1, <1>4
  <2>2. d * RoundHalfEven(n, d) = x
    BY <1>6
  <2> HIDE DEF p, x
  <2>3. 2 * x - 2 * n \in -d..d
    BY <1>1, <1>6, <2>1
  <2> QED BY <1>1, <1>2, <1>6, <2>2, <2>3
<1> QED BY <1>1, <1>3, <1>5, <1>6

\* What a row adds to a range is a whole number.
LEMMA SpentType ==
  ASSUME NEW r \in CashRow \cup {None}, NEW a, NEW b
  PROVE  SpentIn(r, a, b) \in Int
<1>1. CASE r = None
  BY <1>1 DEF SpentIn
<1>2. CASE r # None
  <2>1. r \in CashRow
    BY <1>2
  <2>2. r.amount \in Nat
    BY <2>1 DEF CashRow
  <2>3. r.amount * 100 \in Int /\ 107 \in Nat \ {0}
    BY <2>2
  <2>4. RoundHalfEven(r.amount * 100, 107) \in Int
    BY <2>3, RoundingIsClose
  <2> QED BY <1>2, <2>2, <2>4 DEF SpentIn, NetOfVat
<1> QED BY <1>1, <1>2

\* The spend of a range is a sum over the ids.
LEMMA SpendSums ==
  ASSUME NEW S \in [SpendId -> CashRow \cup {None}], NEW a, NEW b
  PROVE  /\ Summable([id \in SpendId |-> SpentIn(S[id], a, b)], SpendId)
         /\ CashSpendForPeriod(S, a, b)
              = SumFunctionOnSet([id \in SpendId |-> SpentIn(S[id], a, b)], SpendId)
         /\ CashSpendForPeriod(S, a, b) \in Int
<1> DEFINE f == [id \in SpendId |-> SpentIn(S[id], a, b)]
<1>1. IsFiniteSet(SpendId)
  <2>1. MaxEdits \in Int
    BY ReportsAssumption
  <2> QED BY <2>1, FS_Interval DEF SpendId
<1>2. DOMAIN f = SpendId /\ \A id \in SpendId : f[id] \in Int
  BY SpentType
<1>3. CashSpendForPeriod(S, a, b) = Total(f)
  BY DEF CashSpendForPeriod
<1> HIDE DEF f
<1>4. Summable(f, SpendId)
  BY <1>1, <1>2 DEF Summable
<1>5. Total(f) = SumFunctionOnSet(f, SpendId)
  BY <1>2, TotalIs
<1>6. SumFunctionOnSet(f, SpendId) \in Int
  BY <1>4, SumType
<1> QED BY <1>3, <1>4, <1>5, <1>6 DEF f

\* Another row under one id moves it by the difference.
LEMMA SpendMoves ==
  ASSUME NEW S \in [SpendId -> CashRow \cup {None}], NEW R \in [SpendId -> CashRow \cup {None}],
         NEW id \in SpendId, \A x \in SpendId \ {id} : R[x] = S[x], NEW a, NEW b
  PROVE  CashSpendForPeriod(R, a, b)
           = CashSpendForPeriod(S, a, b) + (SpentIn(R[id], a, b) - SpentIn(S[id], a, b))
<1> DEFINE f == [x \in SpendId |-> SpentIn(S[x], a, b)]
           g == [x \in SpendId |-> SpentIn(R[x], a, b)]
           D == SpendId \ {id}
<1>1. \A x \in D : R[x] = S[x]
  OBVIOUS
<1>2. Summable(f, SpendId) /\ CashSpendForPeriod(S, a, b) = SumFunctionOnSet(f, SpendId)
  BY SpendSums
<1>3. Summable(g, SpendId) /\ CashSpendForPeriod(R, a, b) = SumFunctionOnSet(g, SpendId)
  BY SpendSums
<1>4. f[id] = SpentIn(S[id], a, b) /\ g[id] = SpentIn(R[id], a, b) /\ \A x \in D : f[x] = g[x]
  BY <1>1
<1> HIDE DEF f, g
<1>5. /\ SumFunctionOnSet(f, SpendId) = f[id] + SumFunctionOnSet(f, D)
      /\ SumFunctionOnSet(g, SpendId) = g[id] + SumFunctionOnSet(g, D)
  BY <1>2, <1>3, SumMember
<1>6. Summable(f, D)
  <2>1. D \in SUBSET SpendId
    OBVIOUS
  <2> HIDE DEF D
  <2> QED BY <1>2, <2>1, SummableSubset
<1>7. SumFunctionOnSet(f, D) = SumFunctionOnSet(g, D) /\ SumFunctionOnSet(f, D) \in Int
  <2> HIDE DEF D
  <2> QED BY <1>4, <1>6, SumSame, SumType
<1>8. f[id] \in Int /\ g[id] \in Int
  BY <1>2, <1>3 DEF Summable
<1> HIDE DEF D
<1>9. CashSpendForPeriod(R, a, b) = CashSpendForPeriod(S, a, b) + (g[id] - f[id])
  BY <1>2, <1>3, <1>5, <1>7, <1>8
<1> QED BY <1>4, <1>9

\* What entries move is a whole number.
LEMMA MovedType ==
  ASSUME NEW l \in Seq(CashEntry), NEW k \in 0..Len(l), NEW a, NEW b
  PROVE  Total(Moved(l, k, a, b)) \in Int
<1> DEFINE n == Len(l)
           f == Moved(l, k, a, b)
           D == (k + 1)..n
<1>1. n \in Nat /\ k \in Nat
  OBVIOUS
<1>2. IsFiniteSet(D)
  BY <1>1, FS_Interval
<1>3. DOMAIN f = D
      /\ \A i \in D : f[i] = SpentIn(l[i].new, a, b) - SpentIn(l[i].old, a, b)
  BY DEF Moved
<1> HIDE DEF f
<1>4. ASSUME NEW i \in D PROVE f[i] \in Int
  <2>1. l[i] \in CashEntry
    BY <1>1
  <2>2. l[i].new \in CashRow \cup {None} /\ l[i].old \in CashRow \cup {None}
    BY <2>1 DEF CashEntry
  <2>3. SpentIn(l[i].new, a, b) \in Int /\ SpentIn(l[i].old, a, b) \in Int
    BY <2>2, SpentType
  <2> QED BY <1>3, <2>3
<1> HIDE DEF D
<1>5. SumFunctionOnSet(f, D) \in Int
  BY <1>2, <1>4, SumType DEF Summable
<1>6. Total(f) \in Int
  BY <1>3, <1>5, TotalIs
<1> QED BY <1>6 DEF f

\* An entry more moves by what it says.
LEMMA EntryMoves ==
  ASSUME NEW l \in Seq(CashEntry), NEW k \in 0..Len(l), NEW e \in CashEntry, NEW a, NEW b
  PROVE  Total(Moved(Append(l, e), k, a, b))
           = Total(Moved(l, k, a, b)) + (SpentIn(e.new, a, b) - SpentIn(e.old, a, b))
<1> DEFINE n == Len(l)
           m == Append(l, e)
           f == Moved(l, k, a, b)
           g == Moved(m, k, a, b)
           D == (k + 1)..n
           G == (k + 1)..(n + 1)
           moved(x) == SpentIn(x.new, a, b) - SpentIn(x.old, a, b)
<1>1. n \in Nat /\ k \in Nat /\ k <= n /\ IsFiniteSet(D) /\ IsFiniteSet(G)
  <2>1. n \in Nat /\ k \in Nat /\ k <= n
    OBVIOUS
  <2> QED BY <2>1, FS_Interval
<1>2. /\ m \in Seq(CashEntry) /\ Len(m) = n + 1 /\ m[n + 1] = e
      /\ \A i \in 1..n : m[i] = l[i]
  OBVIOUS
<1>3. ASSUME NEW x \in CashEntry PROVE moved(x) \in Int
  <2>1. x.new \in CashRow \cup {None} /\ x.old \in CashRow \cup {None}
    BY DEF CashEntry
  <2>2. SpentIn(x.new, a, b) \in Int /\ SpentIn(x.old, a, b) \in Int
    BY <2>1, SpentType
  <2> QED BY <2>2
<1> HIDE DEF m
<1>4. DOMAIN f = D /\ \A i \in D : f[i] = moved(l[i])
  BY DEF Moved
<1>5. DOMAIN g = G /\ \A i \in G : g[i] = moved(m[i])
  BY <1>2 DEF Moved
<1> HIDE DEF f, g
<1>6. \A i \in D : i \in 1..n /\ l[i] \in CashEntry
  BY <1>1
<1>7. \A i \in G : m[i] \in CashEntry
  BY <1>1, <1>2
<1> HIDE DEF moved
<1>8. (n + 1) \in G /\ G \ {n + 1} = D
  BY <1>1
<1>9. Summable(f, D) /\ Summable(g, G)
  BY <1>1, <1>3, <1>4, <1>5, <1>6, <1>7 DEF Summable
<1>10. \A i \in D : f[i] = g[i]
  <2>1. \A i \in D : i \in G
    BY <1>8
  <2> QED BY <1>2, <1>4, <1>5, <1>6, <2>1
<1>11. SumFunctionOnSet(f, D) = SumFunctionOnSet(g, D) /\ SumFunctionOnSet(f, D) \in Int
  <2> HIDE DEF D
  <2> QED BY <1>9, <1>10, SumSame, SumType
<1>12. SumFunctionOnSet(g, G) = g[n + 1] + SumFunctionOnSet(g, G \ {n + 1})
  <2> HIDE DEF G
  <2> QED BY <1>8, <1>9, SumMember
<1>13. Total(f) = SumFunctionOnSet(f, D) /\ Total(g) = SumFunctionOnSet(g, G)
  BY <1>4, <1>5, TotalIs
<1>14. g[n + 1] = moved(e) /\ moved(e) \in Int
  BY <1>2, <1>3, <1>5, <1>8
<1> HIDE DEF D, G
<1>15. Total(g) = Total(f) + moved(e)
  <2>1. SumFunctionOnSet(g, G) = moved(e) + SumFunctionOnSet(f, D)
    BY <1>8, <1>11, <1>12, <1>14
  <2> DEFINE x == moved(e)
             y == SumFunctionOnSet(f, D)
  <2>2. x \in Int /\ y \in Int
    BY <1>11, <1>14
  <2>3. Total(g) = x + y /\ Total(f) = y
    BY <1>13, <2>1
  <2> HIDE DEF x, y
  <2>4. Total(g) = Total(f) + x
    BY <2>2, <2>3
  <2> QED BY <2>4 DEF x
<1> QED BY <1>15 DEF f, g, m, moved

\* Nothing moved yet.
LEMMA NothingMoved ==
  ASSUME NEW l \in Seq(CashEntry), NEW a, NEW b
  PROVE  Total(Moved(l, Len(l), a, b)) = 0
<1> DEFINE f == Moved(l, Len(l), a, b)
<1>1. DOMAIN f = {}
  BY DEF Moved
<1> HIDE DEF f
<1>2. Total(f) = SumFunctionOnSet(f, {}) /\ SumFunctionOnSet(f, {}) = 0
  BY <1>1, TotalIs, SumEmpty
<1> QED BY <1>2 DEF f

\* Undo gives a row or none.
LEMMA RevertedSpend ==
  ASSUME NEW e \in CashEntry, NEW r \in CashRow \cup {None}
  PROVE  Reverted(e, r) \in CashRow \cup {None}
<1>1. e.old \in CashRow \cup {None} /\ e.new \in CashRow \cup {None}
  BY DEF CashEntry
<1>2. CASE None \in {e.old, e.new, r}
  BY <1>1, <1>2 DEF Reverted
<1>3. CASE None \notin {e.old, e.new, r}
  <2>1. e.old \in CashRow /\ e.new \in CashRow /\ r \in CashRow
    BY <1>1, <1>3
  <2>2. [c \in DOMAIN r |-> IF e.old[c] # e.new[c] THEN e.old[c] ELSE r[c]] \in CashRow
    BY <2>1 DEF CashRow
  <2> QED BY <1>3, <2>2 DEF Reverted
<1> QED BY <1>2, <1>3

\* Whatever row the cash_spend table gets, the log has the difference.
LEMMA SetSpendKeepsCash ==
  ASSUME CashTyping, NEW id \in SpendId, NEW new \in CashRow \cup {None}, SetSpend(id, new)
  PROVE  CashTyping' /\ (SpendRead => SpendRead')
<1> DEFINE e == [id |-> id, old |-> spend[id], new |-> new]
<1>1. /\ spend \in [SpendId -> CashRow \cup {None}] /\ spendLog \in Seq(CashEntry) /\ edits \in Nat
  BY DEF CashTyping
<1>2. /\ spend' = [spend EXCEPT ![id] = new] /\ spendLog' = Recorded(spendLog, e)
      /\ edits' = edits + 1 /\ view' = view
  BY DEF SetSpend, Edit
<1>3. e \in CashEntry /\ e.old = spend[id] /\ e.new = new
  BY <1>1 DEF CashEntry
<1> HIDE DEF e
<1>4. spend' \in [SpendId -> CashRow \cup {None}]
  BY <1>1, <1>2
<1>5. spendLog' \in Seq(CashEntry)
  BY <1>1, <1>2, <1>3 DEF Recorded
<1>6. CashTyping'
  BY <1>1, <1>2, <1>4, <1>5 DEF CashTyping
<1>7. ASSUME NEW a, NEW b
      PROVE  CashSpendForPeriod(spend', a, b)
               = CashSpendForPeriod(spend, a, b) + (SpentIn(new, a, b) - SpentIn(spend[id], a, b))
  <2>1. /\ spend' \in [SpendId -> CashRow \cup {None}] /\ spend'[id] = new
        /\ \A x \in SpendId \ {id} : spend'[x] = spend[x]
    BY <1>1, <1>2
  <2> QED BY <1>1, <2>1, SpendMoves
<1>8. ASSUME SpendRead PROVE SpendRead'
  <2> DEFINE a == FirstOf(view.month)
             b == LastOf(view.month)
             k == view.logged
             was == CashSpendForPeriod(view.spend, a, b)
             before == CashSpendForPeriod(spend, a, b)
             after == CashSpendForPeriod(spend', a, b)
             moved == SpentIn(new, a, b) - SpentIn(spend[id], a, b)
             gained == Total(Moved(spendLog, k, a, b))
             logged == Total(Moved(spendLog', k, a, b))
  <2>1. /\ {"spend", "logged"} \subseteq DOMAIN view
        /\ view.spend \in [SpendId -> CashRow \cup {None}] /\ k \in 0..Len(spendLog)
        /\ before = was + gained
    BY <1>8 DEF SpendRead
  <2>2. was \in Int /\ before \in Int
    BY <1>1, <2>1, SpendSums
  <2>3. after = before + moved
    BY <1>7
  <2>4. gained \in Int
    BY <1>1, <2>1, MovedType
  <2>5. moved \in Int
    <3> HIDE DEF a, b
    <3>1. spend[id] \in CashRow \cup {None}
      BY <1>1
    <3>2. SpentIn(new, a, b) \in Int /\ SpentIn(spend[id], a, b) \in Int
      BY <3>1, SpentType
    <3> QED BY <3>2
  <2>6. k \in 0..Len(spendLog') /\ logged = gained + moved
    <3>1. CASE spend[id] = new
      <4>1. spendLog' = spendLog
        BY <1>2, <1>3, <3>1 DEF Recorded
      <4>2. logged = gained /\ moved = 0
        BY <1>1, <3>1, <4>1, SpentType
      <4> HIDE DEF gained, logged, moved
      <4> QED BY <2>1, <2>4, <4>1, <4>2
    <3>2. CASE spend[id] # new
      <4>1. spendLog' = Append(spendLog, e)
        BY <1>2, <1>3, <3>2 DEF Recorded
      <4>2. Total(Moved(Append(spendLog, e), k, a, b))
              = gained + (SpentIn(e.new, a, b) - SpentIn(e.old, a, b))
        BY <1>1, <1>3, <2>1, EntryMoves
      <4>3. k \in 0..Len(spendLog')
        BY <1>1, <2>1, <4>1
      <4> QED BY <1>3, <4>1, <4>2, <4>3
    <3> QED BY <3>1, <3>2
  <2> HIDE DEF was, before, after, moved, gained, logged
  <2>7. after = was + logged
    BY <2>1, <2>2, <2>3, <2>4, <2>5, <2>6
  <2>8. /\ {"spend", "logged"} \subseteq DOMAIN view'
        /\ view'.spend \in [SpendId -> CashRow \cup {None}] /\ view'.logged \in 0..Len(spendLog')
    BY <1>2, <2>1, <2>6
  <2>9. /\ FirstOf(view'.month) = a /\ LastOf(view'.month) = b
        /\ CashSpendForPeriod(view'.spend, a, b) = was
        /\ Total(Moved(spendLog', view'.logged, a, b)) = logged
    BY <1>2 DEF was, logged
  <2> HIDE DEF a, b
  <2> QED BY <2>7, <2>8, <2>9 DEF SpendRead, after
<1> QED BY <1>6, <1>8

\* What was read of the spend stays read while neither changes.
LEMMA SpendReadStays ==
  ASSUME SpendRead, UNCHANGED <<spend, spendLog, view>>
  PROVE  SpendRead'
BY DEF SpendRead

-----------------------------------------------------------------------------
\* What Over has of its two functions.
LEMMA OverHas ==
  ASSUME NEW f, NEW g
  PROVE  /\ DOMAIN Over(f, g) = DOMAIN f \cup DOMAIN g
         /\ \A x \in DOMAIN f : Over(f, g)[x] = f[x]
         /\ \A x \in DOMAIN g : x \notin DOMAIN f => Over(f, g)[x] = g[x]
         /\ Over(f, g) = [x \in DOMAIN f \cup DOMAIN g |-> Over(f, g)[x]]
BY DEF Over

\* At first the seeds, and nobody has opened a report.
LEMMA InitReportsIInv == ReportsInit => ReportsIInv
<1> SUFFICES ASSUME ReportsInit PROVE ReportsIInv
  OBVIOUS
<1>1. SalesTyping(sales) /\ CashTyping
  BY FS_EmptySet DEF ReportsInit, SalesTyping, CashTyping
<1>2. FixedTyping
  BY FS_EmptySet DEF ReportsInit, FixedTyping
<1>3. ClockTyping
  BY ReportsAssumption DEF ReportsInit, ClockTyping
<1>4. ViewInv
  BY DEF ReportsInit, Idle, ViewInv, HasSales, HasDays
<1>5. BooksTyping
  <2>1. /\ recipes = Over(SeedRecipe, [k \in Sku |-> None])
        /\ mapping = Over(SeedMapping, [i \in Item |-> None])
    BY DEF ReportsInit
  <2>2. recipes = [k \in Sku |-> recipes[k]]
        /\ \A k \in Sku : recipes[k] # None => IsUse(recipes[k].uses)
    <3>1. DOMAIN SeedRecipe \cup Sku = Sku
      BY ReportsAssumption
    <3>2. recipes = [k \in Sku |-> IF k \in DOMAIN SeedRecipe THEN SeedRecipe[k] ELSE None]
      BY <2>1, <3>1 DEF Over
    <3> QED BY <3>2, ReportsAssumption
  <2>3. mapping \in [Item -> Sku \cup {None}]
    <3>1. DOMAIN SeedMapping \cup Item = Item
      BY ReportsAssumption
    <3>2. mapping = [i \in Item |-> IF i \in DOMAIN SeedMapping THEN SeedMapping[i] ELSE None]
      BY <2>1, <3>1 DEF Over
    <3> QED BY <3>2, ReportsAssumption
  <2> QED BY <2>2, <2>3 DEF BooksTyping
<1>6. PricesTyping
  <2>1. /\ costs = [l \in Leaf |-> IF l \in DOMAIN SeedPrice
                                   THEN [net |-> SeedPrice[l], date |-> 1] ELSE None]
        /\ costLog = [l \in Leaf |-> <<>>] /\ appToday = 2 /\ today = 2
    BY DEF ReportsInit
  <2>2. \A l \in DOMAIN SeedPrice : [net |-> SeedPrice[l], date |-> 1] \in CostRow(appToday)
    BY <2>1, ReportsAssumption DEF CostRow
  <2>3. costs \in [Leaf -> CostRow(appToday) \cup {None}]
    BY <2>1, <2>2
  <2>4. costLog \in [Leaf -> Seq(CostEntry(appToday, today, {None}))]
    BY <2>1
  <2> QED BY <2>1, <2>3, <2>4 DEF PricesTyping
<1> QED BY <1>1, <1>2, <1>3, <1>4, <1>5, <1>6 DEF ReportsIInv

\* A receipt line is stored as a sale, of a shift and a day.
LEMMA SaleIsTyped ==
  ASSUME NEW r \in Receipt, NEW S, SalesTyping(S)
  PROVE  SalesTyping(S \cup {SaleOf(r)}) /\ SaleOf(r).day = LocalDayOf(r.at)
<1>1. r.item \in Item /\ r.at \in Nat /\ r.price \in Nat /\ r.qty \in Nat
  BY ReportsAssumption
<1>2. LocalDayOf(r.at) \in Int /\ LocalDayOf(r.at) >= 1
  BY <1>1 DEF LocalDayOf
<1>3. SegmentForTimestamp(r.at) \in Segment
  BY DEF SegmentForTimestamp, Segment
<1>4. /\ SaleOf(r).item = r.item /\ SaleOf(r).day = LocalDayOf(r.at) /\ SaleOf(r).price = r.price
      /\ SaleOf(r).qty = r.qty /\ SaleOf(r).segment = SegmentForTimestamp(r.at)
  BY DEF SaleOf
<1>5. IsFiniteSet(S \cup {SaleOf(r)})
  BY FS_AddElement DEF SalesTyping
<1> QED BY <1>1, <1>2, <1>3, <1>4, <1>5 DEF SalesTyping

\* No edit of the configuration untypes it, or loses track of the spend.
LEMMA EditingKeepsBooks ==
  ASSUME ReportsIInv, Editing
  PROVE  /\ BooksTyping' /\ PricesTyping' /\ FixedTyping' /\ CashTyping'
         /\ SpendRead => SpendRead'
         /\ UNCHANGED <<sales, today, appToday, view>>
<1>1. /\ recipes = [k \in Sku |-> recipes[k]]
      /\ \A k \in Sku : recipes[k] # None => IsUse(recipes[k].uses)
      /\ mapping \in [Item -> Sku \cup {None}]
      /\ BooksTyping
  BY DEF ReportsIInv, BooksTyping
<1>2. /\ fixed = [id \in DOMAIN fixed |-> fixed[id]] /\ IsFiniteSet(DOMAIN fixed)
      /\ \A id \in DOMAIN fixed : Cost(fixed[id])
      /\ FixedTyping
  BY DEF ReportsIInv, FixedTyping
<1>3. PricesTyping /\ CashTyping /\ ClockTyping
  BY DEF ReportsIInv
<1>4. /\ Edit => UNCHANGED <<sales, today, appToday, view>> /\ edits' = edits + 1
      /\ prices = <<costs, costLog>> /\ cash = <<spend, spendLog>>
  BY DEF Edit, clock, prices, cash
<1>5. ASSUME NEW l \in Leaf, NEW new \in CostRow(appToday) \cup {None}, SetCost(l, new)
      PROVE  PricesTyping' /\ UNCHANGED <<recipes, mapping, fixed, spend, spendLog>> /\ Edit
  <2>1. PricesTyping'
    BY <1>3, <1>5, SetCostKeepsPrices
  <2> QED BY <1>5, <2>1 DEF SetCost, cash
<1>6. ASSUME NEW l \in Leaf, NEW p \in Price, SaveCost(l, p)
      PROVE  PricesTyping' /\ UNCHANGED <<recipes, mapping, fixed, spend, spendLog>> /\ Edit
  <2>1. [net |-> p, date |-> appToday] \in CostRow(appToday)
    BY <1>3, ReportsAssumption DEF CostRow, ClockTyping, Day
  <2> QED BY <1>5, <1>6, <2>1 DEF SaveCost
<1>7. ASSUME NEW l \in Leaf, NEW i \in DOMAIN costLog[l], UndoCost(l, i)
      PROVE  PricesTyping' /\ UNCHANGED <<recipes, mapping, fixed, spend, spendLog>> /\ Edit
  <2>1. costLog[l] \in Seq(CostEntry(appToday, today, {None})) /\ costs[l] \in CostRow(appToday) \cup {None}
    BY <1>3, HistoryType
  <2>2. costLog[l][i] \in CostEntry(appToday, today, {None})
    BY <2>1
  <2>3. Reverted(costLog[l][i], costs[l]) \in CostRow(appToday) \cup {None}
    BY <2>1, <2>2, RevertedCost
  <2> QED BY <1>5, <1>7, <2>3 DEF UndoCost
<1>8. ASSUME NEW f \in RecipeForm, SaveRecipe(f)
      PROVE  BooksTyping' /\ UNCHANGED <<costs, costLog, fixed, spend, spendLog>> /\ Edit
  <2>1. /\ recipes' = [recipes EXCEPT ![f.sku] = [uses |-> f.uses]]
        /\ UNCHANGED <<mapping, costs, costLog, fixed, spend, spendLog>> /\ Edit
    BY <1>8 DEF SaveRecipe, prices, cash
  <2>2. f.sku \in Sku /\ IsUse(f.uses)
    BY ReportsAssumption
  <2>3. recipes' = [k \in Sku |-> IF k = f.sku THEN [uses |-> f.uses] ELSE recipes[k]]
    BY <1>1, <2>1
  <2>4. recipes' = [k \in Sku |-> recipes'[k]]
        /\ \A k \in Sku : recipes'[k] # None => IsUse(recipes'[k].uses)
    BY <1>1, <2>2, <2>3
  <2> QED BY <1>1, <2>1, <2>4 DEF BooksTyping
<1>9. ASSUME NEW k \in Sku, DeleteRecipe(k)
      PROVE  BooksTyping' /\ UNCHANGED <<costs, costLog, fixed, spend, spendLog>> /\ Edit
  <2>1. /\ recipes' = [recipes EXCEPT ![k] = None]
        /\ UNCHANGED <<mapping, costs, costLog, fixed, spend, spendLog>> /\ Edit
    BY <1>9 DEF DeleteRecipe, prices, cash
  <2>2. recipes' = [x \in Sku |-> IF x = k THEN None ELSE recipes[x]]
    BY <1>1, <2>1
  <2>3. recipes' = [x \in Sku |-> recipes'[x]]
        /\ \A x \in Sku : recipes'[x] # None => IsUse(recipes'[x].uses)
    BY <1>1, <2>2
  <2> QED BY <1>1, <2>1, <2>3 DEF BooksTyping
<1>10. ASSUME NEW m \in Mapping, SaveMapping(m)
       PROVE  BooksTyping' /\ UNCHANGED <<costs, costLog, fixed, spend, spendLog>> /\ Edit
  <2>1. /\ mapping' = [mapping EXCEPT ![m.item] = m.sku]
        /\ UNCHANGED <<recipes, costs, costLog, fixed, spend, spendLog>> /\ Edit
    BY <1>10 DEF SaveMapping, prices, cash
  <2>2. m.sku \in Sku
    BY ReportsAssumption
  <2>3. mapping' \in [Item -> Sku \cup {None}]
    BY <1>1, <2>1, <2>2
  <2> QED BY <1>1, <2>1, <2>3 DEF BooksTyping
<1>11. ASSUME NEW f \in FixedForm, CreateFixedCost(f)
       PROVE  FixedTyping' /\ UNCHANGED <<recipes, mapping, costs, costLog, spend, spendLog>> /\ Edit
  <2> DEFINE n == Max(DOMAIN fixed \cup {0}) + 1
             new == [kind |-> f.kind, amount |-> f.amount, period |-> f.period, ended |-> None]
             one == [id \in {n} |-> new]
  <2>1. /\ fixed' = Over(fixed, one) /\ f.amount >= 0
        /\ UNCHANGED <<recipes, mapping, costs, costLog, spend, spendLog>> /\ Edit
    BY <1>11 DEF CreateFixedCost, prices, cash
  <2>2. Cost(new)
    BY <2>1, ReportsAssumption DEF Cost
  <2> HIDE DEF new, n
  <2>3. DOMAIN one = {n} /\ \A id \in {n} : one[id] = new
    OBVIOUS
  <2> HIDE DEF one
  <2> DEFINE both == Over(fixed, one)
  <2>3a. both = [x \in DOMAIN fixed \cup DOMAIN one |-> IF x \in DOMAIN fixed THEN fixed[x] ELSE one[x]]
    BY DEF Over
  <2> HIDE DEF both
  <2>4. DOMAIN both = DOMAIN fixed \cup {n} /\ both = [id \in DOMAIN both |-> both[id]]
    BY <2>3, <2>3a
  <2>5. \A id \in DOMAIN both : Cost(both[id])
    <3> SUFFICES ASSUME NEW id \in DOMAIN both PROVE Cost(both[id])
      OBVIOUS
    <3>1. CASE id \in DOMAIN fixed
      <4>1. both[id] = fixed[id]
        BY <2>3a, <3>1
      <4> QED BY <1>2, <3>1, <4>1
    <3>2. CASE id \notin DOMAIN fixed
      <4>1. id = n
        BY <2>4, <3>2
      <4>2. both[id] = new
        BY <2>3, <2>3a, <3>2, <4>1
      <4> QED BY <2>2, <4>2
    <3> QED BY <3>1, <3>2
  <2>5a. fixed' = both
    BY <2>1 DEF both
  <2>6. IsFiniteSet(DOMAIN both)
    BY <1>2, <2>4, FS_AddElement
  <2> QED BY <2>1, <2>4, <2>5, <2>5a, <2>6 DEF FixedTyping
<1>12. ASSUME NEW id \in DOMAIN fixed, EndFixedCost(id)
       PROVE  FixedTyping' /\ UNCHANGED <<recipes, mapping, costs, costLog, spend, spendLog>> /\ Edit
  <2> DEFINE new == [fixed[id] EXCEPT !.ended = appToday]
  <2>1. /\ fixed' = [fixed EXCEPT ![id] = new]
        /\ UNCHANGED <<recipes, mapping, costs, costLog, spend, spendLog>> /\ Edit
    BY <1>12 DEF EndFixedCost, prices, cash
  <2>2. Cost(new)
    <3>1. appToday \in Int
      BY DEF ReportsIInv, ClockTyping, Day
    <3> QED BY <1>2, <3>1 DEF Cost
  <2> HIDE DEF new
  <2>3. fixed' = [x \in DOMAIN fixed |-> IF x = id THEN new ELSE fixed[x]]
    BY <1>2, <2>1
  <2>4. DOMAIN fixed' = DOMAIN fixed /\ fixed' = [x \in DOMAIN fixed' |-> fixed'[x]]
        /\ \A x \in DOMAIN fixed' : Cost(fixed'[x])
    BY <1>2, <2>2, <2>3
  <2> QED BY <1>2, <2>1, <2>4 DEF FixedTyping
<1>13. ASSUME NEW id \in DOMAIN fixed, DeleteFixedCost(id)
       PROVE  FixedTyping' /\ UNCHANGED <<recipes, mapping, costs, costLog, spend, spendLog>> /\ Edit
  <2> DEFINE D == DOMAIN fixed \ {id}
  <2>1. /\ fixed' = Restrict(fixed, D)
        /\ UNCHANGED <<recipes, mapping, costs, costLog, spend, spendLog>> /\ Edit
    BY <1>13 DEF DeleteFixedCost, prices, cash
  <2>2. D \subseteq DOMAIN fixed /\ IsFiniteSet(D)
    BY <1>2, FS_Subset
  <2> HIDE DEF D
  <2>3. fixed' = [x \in D |-> fixed[x]]
    BY <2>1 DEF Restrict
  <2>4. DOMAIN fixed' = D /\ fixed' = [x \in DOMAIN fixed' |-> fixed'[x]]
        /\ \A x \in DOMAIN fixed' : Cost(fixed'[x])
    BY <1>2, <2>2, <2>3
  <2> QED BY <2>1, <2>2, <2>4 DEF FixedTyping
<1>14. ASSUME NEW id \in SpendId, NEW new \in CashRow \cup {None}, SetSpend(id, new)
       PROVE  /\ CashTyping' /\ (SpendRead => SpendRead')
              /\ UNCHANGED <<recipes, mapping, costs, costLog, fixed>> /\ Edit
  <2>1. CashTyping' /\ (SpendRead => SpendRead')
    BY <1>3, <1>14, SetSpendKeepsCash
  <2> QED BY <1>14, <2>1 DEF SetSpend, prices
<1>15. SpendForm \subseteq CashRow
  BY ReportsAssumption DEF CashRow
<1>16. ASSUME NEW f \in SpendForm, CreateCashSpend(f)
       PROVE  /\ CashTyping' /\ (SpendRead => SpendRead')
              /\ UNCHANGED <<recipes, mapping, costs, costLog, fixed>> /\ Edit
  <2>1. SetSpend(edits + 1, f) /\ edits < MaxEdits
    BY <1>16 DEF CreateCashSpend, SetSpend, Edit
  <2>2. edits + 1 \in SpendId
    BY <1>3, <2>1, ReportsAssumption DEF CashTyping, SpendId
  <2> QED BY <1>14, <1>15, <2>1, <2>2
<1>17. ASSUME NEW id \in SpendId, DeleteCashSpend(id)
       PROVE  /\ CashTyping' /\ (SpendRead => SpendRead')
              /\ UNCHANGED <<recipes, mapping, costs, costLog, fixed>> /\ Edit
  BY <1>14, <1>17 DEF DeleteCashSpend
<1>18. ASSUME NEW id \in SpendId, NEW f \in SpendForm, UpdateCashSpend(id, f)
       PROVE  /\ CashTyping' /\ (SpendRead => SpendRead')
              /\ UNCHANGED <<recipes, mapping, costs, costLog, fixed>> /\ Edit
  BY <1>14, <1>15, <1>18 DEF UpdateCashSpend
<1>19. ASSUME NEW i \in DOMAIN spendLog, UndoCashSpend(i)
       PROVE  /\ CashTyping' /\ (SpendRead => SpendRead')
              /\ UNCHANGED <<recipes, mapping, costs, costLog, fixed>> /\ Edit
  <2>1. spendLog \in Seq(CashEntry) /\ spend \in [SpendId -> CashRow \cup {None}]
    BY <1>3 DEF CashTyping
  <2>2. spendLog[i] \in CashEntry
    BY <2>1
  <2>3. spendLog[i].id \in SpendId
    BY <2>2 DEF CashEntry
  <2>4. Reverted(spendLog[i], spend[spendLog[i].id]) \in CashRow \cup {None}
    BY <2>1, <2>2, <2>3, RevertedSpend
  <2> QED BY <1>14, <1>19, <2>3, <2>4 DEF UndoCashSpend
<1>20. UNCHANGED <<recipes, mapping>> => BooksTyping'
  BY <1>1 DEF BooksTyping
<1>21. UNCHANGED fixed => FixedTyping'
  BY <1>2 DEF FixedTyping
<1>22. UNCHANGED <<costs, costLog>> /\ Edit => PricesTyping'
  BY <1>3, <1>4 DEF PricesTyping
<1>23. UNCHANGED <<spend, spendLog>> /\ Edit => CashTyping' /\ (SpendRead => SpendRead')
  BY <1>3, <1>4, SpendReadStays DEF CashTyping
<1>24. Edit
  BY <1>6, <1>7, <1>8, <1>9, <1>10, <1>11, <1>12, <1>13, <1>16, <1>17, <1>18, <1>19 DEF Editing
<1>25. BooksTyping'
  BY <1>6, <1>7, <1>8, <1>9, <1>10, <1>11, <1>12, <1>13, <1>16, <1>17, <1>18, <1>19, <1>20 DEF Editing
<1>26. FixedTyping'
  BY <1>6, <1>7, <1>8, <1>9, <1>10, <1>11, <1>12, <1>13, <1>16, <1>17, <1>18, <1>19, <1>21 DEF Editing
<1>27. PricesTyping'
  BY <1>6, <1>7, <1>8, <1>9, <1>10, <1>11, <1>12, <1>13, <1>16, <1>17, <1>18, <1>19, <1>22 DEF Editing
<1>28. CashTyping' /\ (SpendRead => SpendRead')
  BY <1>6, <1>7, <1>8, <1>9, <1>10, <1>11, <1>12, <1>13, <1>16, <1>17, <1>18, <1>19, <1>23 DEF Editing
<1> QED BY <1>4, <1>24, <1>25, <1>26, <1>27, <1>28

-----------------------------------------------------------------------------
\* What a step of the rendering has read is put over what was read before.
LEMMA ReadingHas ==
  ASSUME NEW phase, NEW new, Reading(phase, new)
  PROVE  /\ view.phase = phase /\ UNCHANGED <<sales, config, edits, clock>>
         /\ DOMAIN view' = DOMAIN new \cup DOMAIN view
         /\ \A x \in DOMAIN new : view'[x] = new[x]
         /\ \A x \in DOMAIN view : x \notin DOMAIN new => view'[x] = view[x]
<1>1. view' = Over(new, view)
  BY DEF Reading
<1>2. /\ DOMAIN Over(new, view) = DOMAIN new \cup DOMAIN view
      /\ \A x \in DOMAIN new : Over(new, view)[x] = new[x]
      /\ \A x \in DOMAIN view : x \notin DOMAIN new => Over(new, view)[x] = view[x]
  BY OverHas
<1> QED BY <1>1, <1>2 DEF Reading

\* The days of a month before the k-th are k; the next is the k-th, and the last
\* if k + 1 is a month's.
LEMMA MonthCount ==
  ASSUME NEW m \in Int, NEW k \in 0..(MonthDays - 1)
  PROVE  LET first == FirstOf(m)
             D == first..(first + k - 1)
             d == first + Cardinality(D)
         IN /\ d \in Int /\ d \notin D /\ D \cup {d} = first..d
            /\ d = first + (k + 1) - 1 /\ d <= LastOf(m)
            /\ d # LastOf(m) => k + 1 \in 0..(MonthDays - 1)
<1> DEFINE M == MonthDays
           first == FirstOf(m)
           last == LastOf(m)
           D == first..(first + k - 1)
           d == first + Cardinality(D)
<1>1. M \in Nat /\ M > 0 /\ k \in 0..(M - 1)
  BY ReportsAssumption
<1>2. first \in Int /\ last \in Int /\ last = first + M - 1
  BY MonthDates
<1> HIDE DEF M, first, last
<1>3. Cardinality(D) = k
  <2> DEFINE e == first + k - 1
  <2>1. e \in Int
    BY <1>1, <1>2
  <2>2. IF first > e THEN Cardinality(first..e) = 0 ELSE Cardinality(first..e) = e - first + 1
    <3> HIDE DEF e
    <3> QED BY <1>2, <2>1, FS_Interval
  <2> QED BY <1>1, <1>2, <2>2
<1>4. d = first + k
  <2> HIDE DEF D
  <2> QED BY <1>3
<1> HIDE DEF d
<1>5. d \notin D /\ D \cup {d} = first..d
  BY <1>1, <1>2, <1>4
<1>6. /\ d \in Int /\ d = first + (k + 1) - 1 /\ d <= last
      /\ d # last => k + 1 \in 0..(M - 1)
  BY <1>1, <1>2, <1>4
<1> QED BY <1>5, <1>6 DEF M, d, first, last

\* Opening the report, reading it table by table and closing it.
LEMMA RenderingKeepsView ==
  ASSUME ReportsIInv, Rendering
  PROVE  ViewInv' /\ UNCHANGED <<sales, config, edits, clock>>
<1>1. SalesTyping(sales)
  BY DEF ReportsIInv
<1>2. ViewInv
  BY DEF ReportsIInv
<1>3. /\ view.phase \in {"idle", "sales", "recipes", "mappings", "days", "spend", "rank", "done"}
      /\ view.phase # "idle" => "month" \in DOMAIN view /\ view.month \in Month
      /\ view.phase \in {"recipes", "mappings", "days", "spend", "rank", "done"} =>
           "sales" \in DOMAIN view /\ view.sales \subseteq sales
      /\ view.phase \in {"days", "spend", "rank", "done"} => DaysCosted
      /\ view.phase \in {"rank", "done"} => SpendRead
  BY <1>2 DEF ViewInv, HasSales, HasDays
<1>4. ASSUME NEW m \in Month, OpenProfit(m) PROVE ViewInv' /\ UNCHANGED <<sales, config, edits, clock>>
  <2>1. view' = [phase |-> "sales", month |-> m, fixed |-> fixed]
        /\ UNCHANGED <<sales, config, edits, clock>>
    BY <1>4 DEF OpenProfit
  <2> QED BY <2>1 DEF ViewInv, HasSales, HasDays
<1>5. ASSUME ReadSales PROVE ViewInv' /\ UNCHANGED <<sales, config, edits, clock>>
  <2> DEFINE new == [phase |-> "recipes", sales |-> sales]
  <2>1. Reading("sales", new)
    BY <1>5 DEF ReadSales
  <2>2. DOMAIN new = {"phase", "sales"} /\ new["phase"] = "recipes" /\ new["sales"] = sales
    OBVIOUS
  <2> HIDE DEF new
  <2>3. /\ view.phase = "sales" /\ UNCHANGED <<sales, config, edits, clock>>
        /\ DOMAIN view' = {"phase", "sales"} \cup DOMAIN view
        /\ view'["phase"] = "recipes" /\ view'["sales"] = sales
        /\ \A x \in DOMAIN view : x \notin {"phase", "sales"} => view'[x] = view[x]
    BY <2>1, <2>2, ReadingHas
  <2>4. "month" \in DOMAIN view' /\ view'.month \in Month
    BY <1>3, <2>3
  <2> QED BY <2>3, <2>4 DEF ViewInv, HasSales, HasDays
<1>6. ASSUME ReadRecipes PROVE ViewInv' /\ UNCHANGED <<sales, config, edits, clock>>
  <2> DEFINE new == [phase |-> "mappings", recipes |-> recipes]
  <2>1. Reading("recipes", new)
    BY <1>6 DEF ReadRecipes
  <2>2. DOMAIN new = {"phase", "recipes"} /\ new["phase"] = "mappings"
    OBVIOUS
  <2> HIDE DEF new
  <2>3. /\ view.phase = "recipes" /\ UNCHANGED <<sales, config, edits, clock>>
        /\ DOMAIN view' = {"phase", "recipes"} \cup DOMAIN view
        /\ view'["phase"] = "mappings"
        /\ \A x \in DOMAIN view : x \notin {"phase", "recipes"} => view'[x] = view[x]
    BY <2>1, <2>2, ReadingHas
  <2>4. /\ "month" \in DOMAIN view' /\ view'.month \in Month
        /\ "sales" \in DOMAIN view' /\ view'.sales \subseteq sales
    BY <1>3, <2>3
  <2> QED BY <2>3, <2>4 DEF ViewInv, HasSales, HasDays
<1>7. ASSUME ReadMappings PROVE ViewInv' /\ UNCHANGED <<sales, config, edits, clock>>
  <2> DEFINE new == [phase |-> "days", mapping |-> mapping, days |-> <<>>]
  <2>1. Reading("mappings", new)
    BY <1>7 DEF ReadMappings
  <2>2. /\ DOMAIN new = {"phase", "mapping", "days"} /\ new["phase"] = "days"
        /\ new["days"] = <<>>
    OBVIOUS
  <2> HIDE DEF new
  <2>3. /\ view.phase = "mappings" /\ UNCHANGED <<sales, config, edits, clock>>
        /\ DOMAIN view' = {"phase", "mapping", "days"} \cup DOMAIN view
        /\ view'["phase"] = "days" /\ view'["days"] = <<>>
        /\ \A x \in DOMAIN view : x \notin {"phase", "mapping", "days"} => view'[x] = view[x]
    BY <2>1, <2>2, ReadingHas
  <2>4. /\ "month" \in DOMAIN view' /\ view'.month \in Month
        /\ "sales" \in DOMAIN view' /\ view'.sales \subseteq sales
    BY <1>3, <2>3
  <2>5. DaysCosted'
    <3>1. view'.month \in Int
      BY <2>4 DEF Month
    <3>2. FirstOf(view'.month) \in Int
      BY <3>1, MonthDates
    <3>3. DOMAIN view'.days = {} /\ FirstOf(view'.month)..(FirstOf(view'.month) + 0 - 1) = {}
      BY <2>3, <3>2
    <3>4. 0 \in 0..(MonthDays - 1)
      BY ReportsAssumption
    <3> QED BY <2>3, <3>3, <3>4 DEF DaysCosted
  <2> QED BY <2>3, <2>4, <2>5 DEF ViewInv, HasSales, HasDays
<1>8. ASSUME CostDay PROVE ViewInv' /\ UNCHANGED <<sales, config, edits, clock>>
  <2> DEFINE first == FirstOf(view.month)
             last == LastOf(view.month)
             d == first + Cardinality(DOMAIN view.days)
             rows == ComputeItemMargins(view.sales,
                       [recipes |-> view.recipes, mapping |-> view.mapping], BookAsOf(d), d)
             phase == IF d = last THEN "spend" ELSE "days"
             one == [x \in {d} |-> rows]
             days == Over(view.days, one)
             new == [phase |-> phase, days |-> days]
  <2>1. Reading("days", new)
    BY <1>8 DEF CostDay
  <2>2. DOMAIN new = {"phase", "days"} /\ new["phase"] = phase /\ new["days"] = days
    OBVIOUS
  <2>3. days = [x \in DOMAIN view.days \cup {d} |-> IF x \in DOMAIN view.days THEN view.days[x] ELSE rows]
    <3>1. DOMAIN one = {d} /\ \A x \in {d} : one[x] = rows
      OBVIOUS
    <3> HIDE DEF one, rows, d
    <3> QED BY <3>1 DEF Over
  <2>4. phase = IF d = last THEN "spend" ELSE "days"
    OBVIOUS
  <2>5. view.phase = "days"
    BY <2>1 DEF Reading
  <2>6. /\ view.month \in Month /\ "month" \in DOMAIN view
        /\ "sales" \in DOMAIN view /\ view.sales \subseteq sales /\ DaysCosted
    BY <1>3, <2>5
  <2>7. view.month \in Int
    BY <2>6 DEF Month
  <2>8. SalesTyping(view.sales)
    BY <1>1, <2>6, FS_Subset DEF SalesTyping
  <2>9. PICK k \in 0..(MonthDays - 1) : DOMAIN view.days = first..(first + k - 1)
    BY <2>5, <2>6 DEF DaysCosted
  <2>10. /\ d \in Int /\ d \notin DOMAIN view.days /\ DOMAIN view.days \cup {d} = first..d
         /\ d = first + (k + 1) - 1 /\ d <= last
         /\ d # last => k + 1 \in 0..(MonthDays - 1)
    BY <2>7, <2>9, MonthCount
  <2>11. RowRevenue(rows) = Revenue(SoldOn(view.sales, d, d))
    <3> HIDE DEF d
    <3> QED BY <2>8, <2>10, DayEarns
  <2> HIDE DEF new, days, phase, rows, d
  <2>12. /\ view.phase = "days" /\ UNCHANGED <<sales, config, edits, clock>>
         /\ DOMAIN view' = {"phase", "days"} \cup DOMAIN view
         /\ view'["phase"] = phase /\ view'["days"] = days
         /\ \A x \in DOMAIN view : x \notin {"phase", "days"} => view'[x] = view[x]
    BY <2>1, <2>2, ReadingHas
  <2>13. /\ "month" \in DOMAIN view' /\ view'.month = view.month
         /\ "sales" \in DOMAIN view' /\ view'.sales = view.sales /\ "days" \in DOMAIN view'
    BY <2>6, <2>12
  <2>14. DOMAIN days = first..d
    BY <2>3, <2>10
  <2>15. \A x \in DOMAIN days : RowRevenue(days[x]) = Revenue(SoldOn(view.sales, x, x))
    <3> SUFFICES ASSUME NEW x \in DOMAIN days
                 PROVE  RowRevenue(days[x]) = Revenue(SoldOn(view.sales, x, x))
      OBVIOUS
    <3>1. CASE x \in DOMAIN view.days
      <4>1. days[x] = view.days[x]
        BY <2>3, <3>1
      <4> QED BY <2>6, <3>1, <4>1 DEF DaysCosted
    <3>2. CASE x \notin DOMAIN view.days
      <4>1. x = d /\ days[x] = rows
        BY <2>3, <3>2
      <4> QED BY <2>11, <4>1
    <3> QED BY <3>1, <3>2
  <2>16. IF phase = "days"
         THEN \E j \in 0..(MonthDays - 1) : DOMAIN days = first..(first + j - 1)
         ELSE DOMAIN days = first..last
    <3>1. CASE d = last
      BY <2>4, <2>14, <3>1
    <3>2. CASE d # last
      <4>1. DOMAIN days = first..(first + (k + 1) - 1) /\ k + 1 \in 0..(MonthDays - 1)
        BY <2>10, <2>14, <3>2
      <4> QED BY <2>4, <3>2, <4>1
    <3> QED BY <3>1, <3>2
  <2>17. DaysCosted'
    <3> HIDE DEF first, last
    <3>1. /\ view'.days = days /\ view'.phase = phase
          /\ FirstOf(view'.month) = first /\ LastOf(view'.month) = last
      BY <2>12, <2>13 DEF first, last
    <3> QED BY <2>13, <2>15, <2>16, <3>1 DEF DaysCosted
  <2>18. phase \in {"days", "spend"}
    BY <2>4
  <2> QED BY <2>6, <2>12, <2>13, <2>17, <2>18 DEF ViewInv, HasSales, HasDays
<1>9. ASSUME ReadSpend PROVE ViewInv' /\ UNCHANGED <<sales, config, edits, clock>>
  <2> DEFINE new == [phase |-> "rank", spend |-> spend, logged |-> Len(spendLog)]
  <2>1. Reading("spend", new)
    BY <1>9 DEF ReadSpend
  <2>2. /\ DOMAIN new = {"phase", "spend", "logged"} /\ new["phase"] = "rank"
        /\ new["spend"] = spend /\ new["logged"] = Len(spendLog)
    OBVIOUS
  <2> HIDE DEF new
  <2>3. /\ view.phase = "spend" /\ UNCHANGED <<sales, config, edits, clock>>
        /\ DOMAIN view' = {"phase", "spend", "logged"} \cup DOMAIN view
        /\ view'["phase"] = "rank" /\ view'["spend"] = spend /\ view'["logged"] = Len(spendLog)
        /\ \A x \in DOMAIN view : x \notin {"phase", "spend", "logged"} => view'[x] = view[x]
    BY <2>1, <2>2, ReadingHas
  <2>4. /\ "month" \in DOMAIN view' /\ view'.month \in Month
        /\ "sales" \in DOMAIN view' /\ view'.sales \subseteq sales
    BY <1>3, <2>3
  <2>5. DaysCosted'
    <3>1. DaysCosted
      BY <1>3, <2>3
    <3>2. view'.days = view.days /\ view'.sales = view.sales /\ view'.month = view.month
          /\ "days" \in DOMAIN view'
      BY <1>3, <2>3, <3>1 DEF DaysCosted
    <3> QED BY <2>3, <3>1, <3>2 DEF DaysCosted
  <2>6. SpendRead'
    <3>1. spend' = spend /\ spendLog' = spendLog
      BY <2>3 DEF config, cash
    <3>2. spend \in [SpendId -> CashRow \cup {None}] /\ spendLog \in Seq(CashEntry)
      BY DEF ReportsIInv, CashTyping
    <3> DEFINE a == FirstOf(view'.month)
               b == LastOf(view'.month)
    <3>3. CashSpendForPeriod(spend, a, b) \in Int
      BY <3>2, SpendSums
    <3>4. Total(Moved(spendLog, Len(spendLog), a, b)) = 0
      BY <3>2, NothingMoved
    <3>5. Len(spendLog) \in 0..Len(spendLog)
      BY <3>2
    <3>6. view'.spend = spend /\ view'.logged = Len(spendLog)
          /\ {"spend", "logged"} \subseteq DOMAIN view'
      BY <2>3
    <3> HIDE DEF a, b
    <3>7. CashSpendForPeriod(spend, a, b)
            = CashSpendForPeriod(spend, a, b) + Total(Moved(spendLog, Len(spendLog), a, b))
      BY <3>3, <3>4
    <3> QED BY <3>1, <3>2, <3>5, <3>6, <3>7 DEF SpendRead, a, b
  <2> QED BY <2>3, <2>4, <2>5, <2>6 DEF ViewInv, HasSales, HasDays
<1>10. ASSUME RankBestsellers PROVE ViewInv' /\ UNCHANGED <<sales, config, edits, clock>>
  <2> DEFINE best == BestsellerTotals(sales, FirstOf(view.month), LastOf(view.month))
             new == [phase |-> "done", ranked |-> best]
  <2>1. Reading("rank", new)
    BY <1>10 DEF RankBestsellers
  <2>2. DOMAIN new = {"phase", "ranked"} /\ new["phase"] = "done" /\ new["ranked"] = best
    OBVIOUS
  <2> HIDE DEF new, best
  <2>3. /\ view.phase = "rank" /\ UNCHANGED <<sales, config, edits, clock>>
        /\ DOMAIN view' = {"phase", "ranked"} \cup DOMAIN view
        /\ view'["phase"] = "done" /\ view'["ranked"] = best
        /\ \A x \in DOMAIN view : x \notin {"phase", "ranked"} => view'[x] = view[x]
    BY <2>1, <2>2, ReadingHas
  <2>4. /\ "month" \in DOMAIN view' /\ view'.month = view.month /\ view.month \in Month
        /\ "sales" \in DOMAIN view' /\ view'.sales = view.sales /\ view.sales \subseteq sales
        /\ SpendRead
    BY <1>3, <2>3
  <2>5. DaysCosted'
    <3>1. DaysCosted
      BY <1>3, <2>3
    <3>2. view'.days = view.days /\ "days" \in DOMAIN view'
      BY <2>3, <3>1 DEF DaysCosted
    <3> QED BY <2>3, <2>4, <3>1, <3>2 DEF DaysCosted
  <2>6. SpendRead'
    <3>1. spend' = spend /\ spendLog' = spendLog
      BY <2>3 DEF config, cash
    <3>2. view'.spend = view.spend /\ view'.logged = view.logged
          /\ {"spend", "logged"} \subseteq DOMAIN view'
      BY <2>3, <2>4 DEF SpendRead
    <3> QED BY <2>4, <3>1, <3>2 DEF SpendRead
  <2>7. /\ sales' = sales /\ sales \in SUBSET sales /\ view'.sales \subseteq sales
        /\ view'.ranked = BestsellerTotals(sales, FirstOf(view'.month), LastOf(view'.month))
    BY <2>3, <2>4 DEF best
  <2> QED BY <2>3, <2>4, <2>5, <2>6, <2>7 DEF ViewInv, HasSales, HasDays
<1>11. ASSUME Close PROVE ViewInv' /\ UNCHANGED <<sales, config, edits, clock>>
  <2>1. view' = [phase |-> "idle"] /\ UNCHANGED <<sales, config, edits, clock>>
    BY <1>11 DEF Close, Idle
  <2> QED BY <2>1 DEF ViewInv, HasSales, HasDays
<1> QED BY <1>4, <1>5, <1>6, <1>7, <1>8, <1>9, <1>10, <1>11 DEF Rendering

\* Sales come in, none goes: what was read of them is still there.
LEMMA ViewOutlivesGrowth ==
  ASSUME ViewInv, view' = view, sales \subseteq sales', SpendRead => SpendRead'
  PROVE  ViewInv'
<1>1. DaysCosted => DaysCosted'
  BY DEF DaysCosted
<1>2. ASSUME NEW X \in SUBSET sales PROVE X \in SUBSET sales'
  OBVIOUS
<1>3. view.phase = "done" =>
        \E X \in SUBSET sales' :
          /\ view.sales \subseteq X
          /\ view.ranked = BestsellerTotals(X, FirstOf(view.month), LastOf(view.month))
  BY <1>2 DEF ViewInv
<1>4. view.phase \in HasSales => view.sales \subseteq sales'
  BY DEF ViewInv
<1>5. view.phase \in {"rank", "done"} => SpendRead'
  BY DEF ViewInv
<1> QED BY <1>1, <1>3, <1>4, <1>5 DEF ViewInv, HasSales, HasDays

\* Every step keeps all of it.
LEMMA NextReportsIInv == ReportsIInv /\ [ReportsNext]_reportVars => ReportsIInv'
<1> SUFFICES ASSUME ReportsIInv, [ReportsNext]_reportVars PROVE ReportsIInv'
  OBVIOUS
<1>1. /\ SalesTyping(sales) /\ BooksTyping /\ PricesTyping /\ FixedTyping /\ CashTyping
      /\ ClockTyping /\ ViewInv
  BY DEF ReportsIInv
<1>2. UNCHANGED sales => SalesTyping(sales')
  BY <1>1
<1>3. UNCHANGED <<config, edits>> =>
        /\ BooksTyping' /\ FixedTyping' /\ CashTyping'
        /\ UNCHANGED <<costs, costLog, spend, spendLog>>
  BY <1>1 DEF config, prices, cash, BooksTyping, FixedTyping, CashTyping
<1>4. UNCHANGED clock => ClockTyping' /\ UNCHANGED <<today, appToday>>
  BY <1>1 DEF clock, ClockTyping
<1>4a. UNCHANGED <<config, clock>> => PricesTyping'
  BY <1>1 DEF config, prices, clock, PricesTyping
<1>5. ASSUME NEW r \in Receipt, Ingest(r) PROVE ReportsIInv'
  <2>1. sales' = sales \cup {SaleOf(r)} /\ UNCHANGED <<config, edits, clock, view>>
    BY <1>5 DEF Ingest
  <2>2. SalesTyping(sales')
    BY <1>1, <2>1, SaleIsTyped
  <2>3. ViewInv'
    <3>1. sales \subseteq sales' /\ view' = view /\ UNCHANGED <<spend, spendLog>>
      BY <1>3, <2>1
    <3> QED BY <1>1, <3>1, SpendReadStays, ViewOutlivesGrowth
  <2> QED BY <1>3, <1>4, <1>4a, <2>1, <2>2, <2>3 DEF ReportsIInv
<1>6. CASE Editing
  <2>1. /\ BooksTyping' /\ PricesTyping' /\ FixedTyping' /\ CashTyping'
        /\ SpendRead => SpendRead'
        /\ UNCHANGED <<sales, today, appToday, view>>
    BY <1>6, EditingKeepsBooks
  <2>2. ViewInv'
    <3>1. sales \subseteq sales' /\ view' = view
      BY <2>1
    <3> QED BY <1>1, <2>1, <3>1, ViewOutlivesGrowth
  <2>3. ClockTyping'
    BY <1>1, <2>1 DEF ClockTyping
  <2> QED BY <1>2, <2>1, <2>2, <2>3 DEF ReportsIInv
<1>7. CASE Rendering
  <2>1. ViewInv' /\ UNCHANGED <<sales, config, edits, clock>>
    BY <1>7, RenderingKeepsView
  <2> QED BY <1>2, <1>3, <1>4, <1>4a, <2>1 DEF ReportsIInv
<1>8. CASE Midnight
  <2>1. /\ today < MaxToday /\ today' = today + 1 /\ appToday' = appToday
        /\ UNCHANGED <<sales, config, edits, view>>
    BY <1>8 DEF Midnight
  <2>2. ClockTyping' /\ today <= today' /\ appToday <= appToday'
    BY <1>1, <2>1, ReportsAssumption DEF ClockTyping, Day
  <2>3. ViewInv'
    <3>1. sales \subseteq sales' /\ view' = view /\ UNCHANGED <<spend, spendLog>>
      BY <1>3, <2>1
    <3> QED BY <1>1, <3>1, SpendReadStays, ViewOutlivesGrowth
  <2>4. PricesTyping'
    BY <1>1, <1>3, <2>1, <2>2, LaterClockKeepsPrices
  <2> QED BY <1>2, <1>3, <2>1, <2>2, <2>3, <2>4 DEF ReportsIInv
<1>9. CASE Restart
  <2>1. /\ appToday' = today /\ today' = today /\ view' = [phase |-> "idle"]
        /\ UNCHANGED <<sales, config, edits>>
    BY <1>9 DEF Restart, Idle
  <2>2. ClockTyping' /\ today <= today' /\ appToday <= appToday'
    BY <1>1, <2>1 DEF ClockTyping, Day
  <2>3. ViewInv'
    BY <2>1 DEF ViewInv, HasSales, HasDays
  <2>4. PricesTyping'
    BY <1>1, <1>3, <2>1, <2>2, LaterClockKeepsPrices
  <2> QED BY <1>2, <1>3, <2>1, <2>2, <2>3, <2>4 DEF ReportsIInv
<1>10. CASE UNCHANGED reportVars
  <2>1. UNCHANGED <<sales, config, edits, clock, view>>
    BY <1>10 DEF reportVars
  <2>2. ViewInv'
    <3>1. sales \subseteq sales' /\ view' = view /\ UNCHANGED <<spend, spendLog>>
      BY <1>3, <2>1
    <3> QED BY <1>1, <3>1, SpendReadStays, ViewOutlivesGrowth
  <2> QED BY <1>2, <1>3, <1>4, <1>4a, <2>1, <2>2 DEF ReportsIInv
<1> QED BY <1>5, <1>6, <1>7, <1>8, <1>9, <1>10 DEF ReportsNext

\* Whatever the sync, the partners and the clock do while a Profit Report is
\* rendered, the store stays typed and the rendering made of what it read.
THEOREM ReportsInvariance == ReportsSpec => []ReportsIInv
<1>1. ReportsInit => ReportsIInv
  BY InitReportsIInv
<1>2. ReportsIInv /\ [ReportsNext]_reportVars => ReportsIInv'
  BY NextReportsIInv
<1> QED BY <1>1, <1>2, PTL DEF ReportsSpec

-----------------------------------------------------------------------------
\* What the bestsellers of a range add up to is what was sold in it.
LEMMA BestsellersEarn ==
  ASSUME NEW S, SalesTyping(S), NEW a \in Int, NEW b \in Int
  PROVE  Total(BestsellerTotals(S, a, b)) = Revenue(SoldOn(S, a, b))
<1> DEFINE A == SoldOn(S, a, b)
           t == [s \in A |-> s.item]
           B == {s.item : s \in A}
           e == BestsellerTotals(S, a, b)
<1>1. A \in SUBSET S /\ \A s \in A : t[s] \in B /\ t[s] = s.item
  BY DEF SoldOn
<1>2. DOMAIN e = B /\ \A i \in B : e[i] = Revenue({s \in A : s.item = i})
  <2> HIDE DEF A
  <2> QED BY DEF BestsellerTotals, A
<1>3. B = {t[s] : s \in A}
  OBVIOUS
<1> HIDE DEF A, B, e, t
<1>4. IsFiniteSet(A)
  BY <1>1, FS_Subset DEF SalesTyping
<1>5. IsFiniteSet(B)
  BY <1>3, <1>4, ImageFinite
<1>6. ASSUME NEW i \in B PROVE e[i] = Revenue(Fibre(A, t, i))
  <2>1. Fibre(A, t, i) = {s \in A : s.item = i}
    BY <1>1 DEF Fibre
  <2> QED BY <1>2, <2>1
<1>7. Total(e) = Revenue(A)
  BY <1>1, <1>2, <1>5, <1>6, RevenueByKind
<1> QED BY <1>7 DEF A, e

\* A rendered Profit Report is made of what it read at several times, and its
\* tiles and rankings fit nevertheless (web/app.py, profit_report.py).
LEMMA IInvFits == ReportsIInv => RenderedReportFits
<1> SUFFICES ASSUME ReportsIInv, view.phase = "done" PROVE RenderedReportFits
  BY DEF RenderedReportFits
<1> DEFINE a == FirstOf(view.month)
           b == LastOf(view.month)
           tiles == ProfitTiles(view)
           sold == SoldOn(view.sales, a, b)
           late == SoldOn(sales, a, b) \ view.sales
           charged == FixedCostsForPeriod(view.fixed, a, b)
<1>1. /\ SalesTyping(sales) /\ CashTyping
      /\ view.month \in Month /\ view.sales \subseteq sales /\ DaysCosted /\ SpendRead
  BY DEF ReportsIInv, ViewInv, HasSales, HasDays
<1>2. PICK X \in SUBSET sales : view.sales \subseteq X /\ view.ranked = BestsellerTotals(X, a, b)
  BY DEF ReportsIInv, ViewInv
<1>3. a \in Int /\ b \in Int
  <2>1. view.month \in Int
    BY <1>1 DEF Month
  <2> QED BY <2>1, MonthDates
<1>4. DOMAIN view.days = a..b
  BY <1>1 DEF DaysCosted
<1>5. SalesTyping(view.sales) /\ SalesTyping(X)
  BY <1>1, <1>2, FS_Subset DEF SalesTyping
<1>6. /\ tiles.revenue = OverDays(RowRevenue, view.days)
      /\ tiles.net = tiles.margin - charged
      /\ tiles.cash = tiles.revenue - CashSpendForPeriod(view.spend, a, b)
  BY DEF ProfitTiles, PeriodReview
<1>7. tiles.revenue = Revenue(sold)
  <2>1. OverDays(RowRevenue, view.days) = Total([d \in DOMAIN view.days |-> RowRevenue(view.days[d])])
    BY DEF OverDays
  <2>2. \A d \in a..b : RowRevenue(view.days[d]) = Revenue(SoldOn(view.sales, d, d))
    BY <1>1, <1>4 DEF DaysCosted
  <2> HIDE DEF a, b, tiles
  <2> DEFINE S == view.sales
             days == view.days
  <2>2a. SalesTyping(S) /\ DOMAIN days = a..b
         /\ \A d \in a..b : RowRevenue(days[d]) = Revenue(SoldOn(S, d, d))
    BY <1>4, <1>5, <2>2
  <2> HIDE DEF S, days
  <2>2b. Total([d \in DOMAIN days |-> RowRevenue(days[d])]) = Revenue(SoldOn(S, a, b))
    BY <1>3, <2>2a, DaysEarn
  <2>3. Total([d \in DOMAIN view.days |-> RowRevenue(view.days[d])]) = Revenue(SoldOn(view.sales, a, b))
    BY <2>2b DEF S, days
  <2> QED BY <1>6, <2>1, <2>3
<1> HIDE DEF tiles, charged
<1>8. Total(view.ranked) = Revenue(SoldOn(X, a, b))
  <2> HIDE DEF a, b
  <2> QED BY <1>2, <1>3, <1>5, BestsellersEarn
<1> HIDE DEF a, b
<1>9. /\ Revenue(SoldOn(X, a, b)) = Revenue(sold) + Revenue(SoldOn(X, a, b) \ sold)
      /\ Revenue(SoldOn(X, a, b) \ sold) >= 0
  <2>1. SoldOn(X, a, b) \in SUBSET X /\ sold \in SUBSET SoldOn(X, a, b)
    BY <1>2 DEF SoldOn
  <2> HIDE DEF sold
  <2> QED BY <1>5, <2>1, RevenueGrows
<1>10. Revenue(SoldOn(X, a, b) \ sold) <= Revenue(late)
  <2> DEFINE C == SoldOn(X, a, b) \ sold
  <2>1. late \in SUBSET sales /\ C \in SUBSET late
    BY <1>2 DEF SoldOn
  <2> HIDE DEF C, late
  <2>2. Revenue(late) = Revenue(C) + Revenue(late \ C) /\ Revenue(late \ C) >= 0
    BY <1>1, <2>1, RevenueGrows
  <2>3. Revenue(C) \in Int /\ Revenue(late \ C) \in Int
    <3>1. C \in SUBSET sales /\ late \ C \in SUBSET sales
      BY <2>1
    <3> QED BY <1>1, <3>1, Earnings
  <2>4. Revenue(C) <= Revenue(late)
    BY <2>2, <2>3
  <2> QED BY <2>4 DEF C
<1>11. Revenue(sold) \in Int /\ Revenue(late) \in Int /\ Revenue(SoldOn(X, a, b) \ sold) \in Int
  <2>1. sold \in SUBSET sales /\ late \in SUBSET sales /\ SoldOn(X, a, b) \ sold \in SUBSET sales
    BY <1>1, <1>2 DEF SoldOn
  <2> HIDE DEF sold, late
  <2> QED BY <1>1, <2>1, Earnings
<1>12. tiles.revenue <= Total(view.ranked) /\ Total(view.ranked) <= tiles.revenue + Revenue(late)
  <2> HIDE DEF sold, late
  <2> QED BY <1>7, <1>8, <1>9, <1>10, <1>11
<1>13. tiles.cash = tiles.revenue - CashSpendForPeriod(spend, a, b)
                    + Total(Moved(spendLog, view.logged, a, b))
  <2> DEFINE was == CashSpendForPeriod(view.spend, a, b)
             now == CashSpendForPeriod(spend, a, b)
             moved == Total(Moved(spendLog, view.logged, a, b))
  <2>1. /\ view.spend \in [SpendId -> CashRow \cup {None}] /\ view.logged \in 0..Len(spendLog)
        /\ now = was + moved
    BY <1>1 DEF SpendRead, a, b
  <2>2. spend \in [SpendId -> CashRow \cup {None}] /\ spendLog \in Seq(CashEntry)
    BY <1>1 DEF CashTyping
  <2>3. was \in Int /\ now \in Int
    BY <2>1, <2>2, SpendSums
  <2>4. moved \in Int
    BY <2>1, <2>2, MovedType
  <2> HIDE DEF sold, was, now, moved
  <2>5. tiles.cash = tiles.revenue - now + moved
    BY <1>6, <1>7, <1>11, <2>1, <2>3, <2>4 DEF was
  <2> QED BY <2>5 DEF now, moved
<1>14. Moved(spendLog, view.logged, a, b)
         = [n \in (view.logged + 1)..Len(spendLog) |->
              SpentIn(spendLog[n].new, a, b) - SpentIn(spendLog[n].old, a, b)]
  BY DEF Moved
<1> QED BY <1>4, <1>6, <1>7, <1>12, <1>13, <1>14 DEF RenderedReportFits, tiles, a, b, charged

\* A rendered Profit Report fits, whatever was edited, ingested or restarted
\* while its page read the store (web/app.py's profit report).
THEOREM RenderedReportFitsCorrect == ReportsSpec => []RenderedReportFits
<1>1. ReportsIInv => RenderedReportFits
  BY IInvFits
<1> QED BY <1>1, ReportsInvariance, PTL

-----------------------------------------------------------------------------
\* A whole month is charged a whole amount where the cost applies.
LEMMA MonthLine ==
  ASSUME NEW e, e.amount \in Int, NEW m \in Int
  PROVE  LineForEntry(e, FirstOf(m), LastOf(m)) = IF AppliesInMonth(e, m) THEN e.amount ELSE 0
<1> DEFINE a == FirstOf(m)
           b == LastOf(m)
           A == {x \in MonthOf(a)..MonthOf(b) : AppliesInMonth(e, x)}
           f == [x \in A |-> IF CoveredDays(x, a, b) = MonthDays THEN e.amount
                             ELSE RoundHalfEven(e.amount * CoveredDays(x, a, b), MonthDays)]
<1>1. /\ a \in Int /\ b \in Int /\ b = a + MonthDays - 1 /\ MonthOf(a) = m /\ MonthOf(b) = m
      /\ MonthDays \in Nat /\ MonthDays > 0
  BY MonthDates, ReportsAssumption
<1>2. LineForEntry(e, a, b) = Total(f)
  BY DEF LineForEntry
<1>3. CoveredDays(m, a, b) = MonthDays
  <2>1. CoveredDays(m, a, b) = Cardinality(a..b)
    BY DEF CoveredDays
  <2> HIDE DEF a, b
  <2>2. IF a > b THEN Cardinality(a..b) = 0 ELSE Cardinality(a..b) = b - a + 1
    BY <1>1, FS_Interval
  <2> QED BY <1>1, <2>1, <2>2
<1>4. A = IF AppliesInMonth(e, m) THEN {m} ELSE {}
  <2> HIDE DEF a, b
  <2>1. MonthOf(a)..MonthOf(b) = {m}
    BY <1>1
  <2> QED BY <2>1
<1>5. DOMAIN f = A /\ (m \in A => f[m] = e.amount)
  <2> HIDE DEF a, b, A
  <2> QED BY <1>3
<1> HIDE DEF a, b, A, f
<1>6. Total(f) = SumFunctionOnSet(f, A)
  BY <1>5, TotalIs
<1>7. CASE AppliesInMonth(e, m)
  <2>1. A = {m} /\ f[m] = e.amount /\ f[m] \in Int
    BY <1>4, <1>5, <1>7
  <2>2. SumFunctionOnSet(f, {m}) = f[m]
    BY <2>1, SumSingle
  <2> QED BY <1>2, <1>6, <1>7, <2>1, <2>2 DEF a, b
<1>8. CASE ~AppliesInMonth(e, m)
  <2>1. A = {}
    BY <1>4, <1>8
  <2>2. SumFunctionOnSet(f, {}) = 0
    BY SumEmpty
  <2> QED BY <1>2, <1>6, <1>8, <2>1, <2>2 DEF a, b
<1> QED BY <1>7, <1>8

\* Another price for a leaf that has one changes no price of a day before its stamp.
LEMMA RepricingKeepsPrices ==
  ASSUME PricesTyping, ClockTyping, NEW l \in Leaf, NEW p \in Price, SaveCost(l, p),
         costs[l] # None, p # costs[l].net, NEW d \in 1..(appToday - 1)
  PROVE  PriceOn(Changes(costLog'[l]), costs'[l], d) = PriceOn(Changes(costLog[l]), costs[l], d)
<1> DEFINE s == appToday
           t == today
           E == CostEntry(s, t, {None})
           C == CostChange(t, {None})
           L == costLog[l]
           r == costs[l]
           new == [net |-> p, date |-> s]
<1>1. /\ costs \in [Leaf -> CostRow(s) \cup {None}] /\ costLog \in [Leaf -> Seq(E)]
  BY DEF PricesTyping
<1>2. PICK utc \in {today - 1, today} :
        costLog' = [costLog EXCEPT ![l] = Recorded(@, [old |-> costs[l], new |-> new, utc |-> utc])]
  BY DEF SaveCost, SetCost
<1>3. costs' = [costs EXCEPT ![l] = new]
  BY DEF SaveCost, SetCost
<1> DEFINE e == [old |-> r, new |-> new, utc |-> utc]
           ch == [on |-> EffectiveDate(e), old |-> PriceOf(e.old), new |-> PriceOf(e.new)]
<1>4. /\ t \in Nat /\ s \in 0..t /\ utc \in 0..t /\ d \in Int /\ d < s /\ Rounds(E, C)
      /\ {None} \in SUBSET {None}
  <2>1. today \in Nat /\ today >= 1 /\ appToday \in 0..today /\ Rounds(E, C)
    BY ClockRounds
  <2> HIDE DEF E, C
  <2> QED BY <2>1
<1>5. r \in CostRow(s) /\ new \in CostRow(s) /\ r.net # new.net /\ new.date = s /\ r.date <= s
  <2>1. r \in CostRow(s)
    BY <1>1
  <2> QED BY <1>4, <2>1, ReportsAssumption DEF CostRow
<1>6. /\ e.old = r /\ e.new = new /\ e \in E /\ L \in Seq(E)
  BY <1>1, <1>4, <1>5 DEF CostEntry
<1>7. costLog'[l] = Append(L, e) /\ costs'[l] = new
  <2>1. e.old # e.new
    BY <1>5, <1>6
  <2> QED BY <1>1, <1>2, <1>3, <1>6, <2>1 DEF Recorded
<1>8. r # None /\ new # None
  BY <1>4, <1>5, RowsHavePrices
<1>9. ~IsReDating(e)
  BY <1>5, <1>6 DEF IsReDating
<1>10. EffectiveDate(e) = s
  BY <1>5, <1>6, <1>8 DEF EffectiveDate, CostRow
<1>11. AddEntry(Changes(L), e) = Append(Changes(L), ch)
  BY <1>9 DEF AddEntry
<1>12. ch \in C
  <2>1. PriceOf(r) \in Nat /\ PriceOf(new) \in Nat
    BY <1>4, <1>5, RowsHavePrices
  <2> QED BY <1>4, <1>6, <1>10, <2>1 DEF CostChange
<1>13. ch.on = s /\ ch.old = PriceOf(r)
  BY <1>6, <1>10
<1> HIDE DEF s, t, L, r, new, e, ch, E
<1>14. Changes(Append(L, e)) = Append(Changes(L), ch)
  <2> HIDE DEF C
  <2> QED BY <1>4, <1>6, <1>11, ChangesAppend
<1>15. Changes(L) \in Seq(C)
  <2> HIDE DEF C
  <2> QED BY <1>4, <1>6, ChangesType
<1>16. PriceOn(Append(Changes(L), ch), new, d) = PriceOn(Changes(L), r, d)
  BY <1>4, <1>5, <1>12, <1>13, <1>15, AppendLater
<1> QED BY <1>7, <1>14, <1>16 DEF L, r

\* Nor then a margin row of such a day.
LEMMA RepricingKeepsBooks ==
  ASSUME ReportsIInv, NEW l \in Leaf, NEW p \in Price, SaveCost(l, p),
         costs[l] # None, p # costs[l].net, NEW d \in 1..(appToday - 1)
  PROVE  RowsOn(d)' = RowsOn(d)
<1>1. recipes' = recipes /\ mapping' = mapping /\ sales' = sales
  BY DEF SaveCost, SetCost, Edit
<1>2. PricesTyping /\ ClockTyping
  BY DEF ReportsIInv
<1>3. /\ costs \in [Leaf -> CostRow(appToday) \cup {None}]
      /\ costLog \in [Leaf -> Seq(CostEntry(appToday, today, {None}))]
  BY <1>2 DEF PricesTyping
<1>4. ASSUME NEW k \in Leaf
      PROVE  PriceOn(Changes(costLog'[k]), costs'[k], d) = PriceOn(Changes(costLog[k]), costs[k], d)
  <2>1. CASE k = l
    BY <1>2, <2>1, RepricingKeepsPrices
  <2>2. CASE k # l
    <3>1. costLog'[k] = costLog[k] /\ costs'[k] = costs[k]
      BY <1>3, <2>2 DEF SaveCost, SetCost
    <3> QED BY <3>1
  <2> QED BY <2>1, <2>2
<1>5. BookAsOf(d)' = BookAsOf(d)
  BY <1>4 DEF BookAsOf
<1>6. RowsOn(d)' = ComputeItemMargins(sales', Catalog', BookAsOf(d)', d)
  BY DEF RowsOn
<1> QED BY <1>1, <1>5, <1>6 DEF RowsOn, Catalog

\* A sale changes the rows of its own day alone.
LEMMA LateSaleKeepsOtherDays ==
  ASSUME ReportsIInv, NEW r \in Receipt, Ingest(r), NEW d \in Day \ {LocalDayOf(r.at)}
  PROVE  RowsOn(d)' = RowsOn(d)
<1>1. /\ sales' = sales \cup {SaleOf(r)} /\ recipes' = recipes /\ mapping' = mapping
      /\ costs' = costs /\ costLog' = costLog
  BY DEF Ingest, config, prices
<1>2. SaleOf(r).day = LocalDayOf(r.at)
  BY DEF SaleOf
<1>3. d \in Int /\ LocalDayOf(r.at) # d
  BY DEF Day
<1>4. SaleOf(r).day \notin d..d
  <2>1. d..d = {d}
    BY <1>3
  <2> QED BY <1>2, <1>3, <2>1
<1>5. SoldOn(sales \cup {SaleOf(r)}, d, d) = SoldOn(sales, d, d)
  BY <1>4 DEF SoldOn
<1>6. \A c, pricing : ComputeItemMargins(sales \cup {SaleOf(r)}, c, pricing, d)
                   = ComputeItemMargins(sales, c, pricing, d)
  BY <1>5 DEF ComputeItemMargins
<1>7. Catalog' = Catalog /\ BookAsOf(d)' = BookAsOf(d)
  BY <1>1 DEF Catalog, BookAsOf
<1>8. RowsOn(d)' = ComputeItemMargins(sales', Catalog', BookAsOf(d)', d)
  BY DEF RowsOn
<1> QED BY <1>1, <1>6, <1>7, <1>8 DEF RowsOn

\* Ending a cost that had not ended takes it off the months after the process's
\* own, and changes no other.
LEMMA EndingKeepsMonths ==
  ASSUME ReportsIInv, NEW id \in DOMAIN fixed, EndFixedCost(id), fixed[id].ended = None,
         NEW m \in Month
  PROVE  LineForEntry(fixed'[id], FirstOf(m), LastOf(m))
           = IF m <= MonthOf(appToday) \/ fixed[id].kind = "oneoff"
             THEN LineForEntry(fixed[id], FirstOf(m), LastOf(m)) ELSE 0
<1> DEFINE e == fixed[id]
           new == [fixed[id] EXCEPT !.ended = appToday]
<1>1. Cost(e) /\ fixed = [x \in DOMAIN fixed |-> fixed[x]] /\ appToday \in Int
  BY DEF ReportsIInv, FixedTyping, ClockTyping, Day
<1>2. fixed'[id] = new
  BY <1>1 DEF EndFixedCost
<1>3. /\ new.amount = e.amount /\ new.kind = e.kind /\ new.period = e.period
      /\ new.ended = appToday
  BY <1>1 DEF Cost
<1>4. e.amount \in Int /\ new.amount \in Int /\ e.period \in Int /\ e.ended = None
  BY <1>1, <1>3 DEF Cost
<1>5. m \in Int /\ None # appToday
  BY <1>1, ReportsAssumption DEF Month
<1> HIDE DEF e, new
<1>6. /\ LineForEntry(e, FirstOf(m), LastOf(m)) = IF AppliesInMonth(e, m) THEN e.amount ELSE 0
      /\ LineForEntry(new, FirstOf(m), LastOf(m)) = IF AppliesInMonth(new, m) THEN new.amount ELSE 0
  BY <1>4, <1>5, MonthLine
<1>7. AppliesInMonth(new, m) <=>
        AppliesInMonth(e, m) /\ (m <= MonthOf(appToday) \/ e.kind = "oneoff")
  BY <1>3, <1>4, <1>5 DEF AppliesInMonth
<1> QED BY <1>2, <1>3, <1>6, <1>7 DEF e

\* No repricing, late sale or ended cost rewrites what the past was made of
\* (config_store.py save_cost, margin.py, fixed_costs.py).
THEOREM PastReportsStayCorrect == ReportsSpec => PastReportsStay
<1> DEFINE A ==
      /\ \A l \in Leaf, p \in Price :
           SaveCost(l, p) /\ costs[l] # None /\ p # costs[l].net =>
             \A d \in 1..(appToday - 1) : RowsOn(d)' = RowsOn(d)
      /\ \A r \in Receipt : Ingest(r) =>
           \A d \in Day \ {LocalDayOf(r.at)} : RowsOn(d)' = RowsOn(d)
      /\ \A id \in DOMAIN fixed : EndFixedCost(id) /\ fixed[id].ended = None =>
           \A m \in Month :
             LET charged == LineForEntry(fixed[id], FirstOf(m), LastOf(m))
             IN LineForEntry(fixed'[id], FirstOf(m), LastOf(m))
                  = IF m <= MonthOf(appToday) \/ fixed[id].kind = "oneoff"
                    THEN charged ELSE 0
<1>1. ReportsIInv => A
  BY RepricingKeepsBooks, LateSaleKeepsOtherDays, EndingKeepsMonths
<1>2. ReportsIInv /\ [ReportsNext]_reportVars => [A]_reportVars
  BY <1>1
<1> QED BY <1>2, ReportsInvariance, PTL DEF ReportsSpec, PastReportsStay

-----------------------------------------------------------------------------
\* A row of a day's margins.
RowTyping(R) ==
  /\ IsFiniteSet(R)
  /\ \A r \in R : r.item \in Item /\ r.segment \in Segment /\ r.revenue \in Nat
                  /\ r.cogs \in Int /\ (r.flag # "counted" => r.cogs = 0)

\* What a recipe costs at prices that are all known is a number.
LEMMA CostTyped ==
  ASSUME PricesTyping, ClockTyping, NEW recipe, IsUse(recipe.uses), NEW d \in Day,
         Priced(recipe, BookAsOf(d))
  PROVE  CostPerUnit(recipe, BookAsOf(d)) \in Int
<1> DEFINE D == DOMAIN recipe.uses
           f == [l \in D |-> recipe.uses[l] * BookAsOf(d)[l]]
<1>1. D \subseteq Leaf /\ IsFiniteSet(D) /\ \A l \in D : recipe.uses[l] \in Nat
  BY ReportsAssumption, FS_Subset DEF IsUse
<1>2. \A l \in D : BookAsOf(d)[l] \in Nat
  <2>1. \A l \in Leaf : BookAsOf(d)[l] \in Nat \cup {None}
    BY AsOfTyped
  <2> QED BY <1>1, <2>1 DEF Priced
<1>3. \A l \in D : f[l] \in Int
  <2>1. \A m, n \in Nat : m * n \in Int
    OBVIOUS
  <2> QED BY <1>1, <1>2, <2>1
<1>4. CostPerUnit(recipe, BookAsOf(d)) = Total(f) /\ DOMAIN f = D
  BY DEF CostPerUnit
<1> HIDE DEF f, D
<1>5. SumFunctionOnSet(f, D) \in Int
  BY <1>1, <1>3, SumType DEF Summable
<1> QED BY <1>4, <1>5, TotalIs

\* The row of an item and a shift.
LEMMA RowTyped ==
  ASSUME NEW S, SalesTyping(S), BooksTyping, PricesTyping, ClockTyping,
         NEW d \in Day, NEW i \in Item, NEW g \in Segment
  PROVE  LET r == ItemMargin(SoldOn(S, d, d), ForItem(Catalog, i), BookAsOf(d), i, g)
         IN /\ r.item = i /\ r.segment = g /\ r.revenue \in Nat
            /\ r.cogs \in Int /\ (r.flag # "counted" => r.cogs = 0)
<1> DEFINE recipe == ForItem(Catalog, i)
           on == SoldOn(S, d, d)
           mine == {s \in on : s.item = i /\ s.segment = g}
           u == [s \in mine |-> s.qty]
           r == ItemMargin(on, recipe, BookAsOf(d), i, g)
<1>1. mine \in SUBSET S
  BY DEF SoldOn
<1>2. Revenue(mine) \in Nat
  <2> HIDE DEF mine
  <2>1. {} \in SUBSET mine /\ mine \ {} = mine
    OBVIOUS
  <2>2. Revenue(mine \ {}) >= 0
    BY <1>1, <2>1, RevenueGrows
  <2>3. Revenue(mine) \in Int
    BY <1>1, Earnings
  <2> QED BY <2>1, <2>2, <2>3
<1>3. Total(u) \in Int
  <2>1. \A s \in mine : u[s] \in Int
    BY <1>1 DEF SalesTyping
  <2>2. IsFiniteSet(mine)
    BY <1>1, FS_Subset DEF SalesTyping
  <2>3. DOMAIN u = mine
    OBVIOUS
  <2> HIDE DEF u, mine
  <2>4. SumFunctionOnSet(u, mine) \in Int
    BY <2>1, <2>2, SumType DEF Summable
  <2> QED BY <2>3, <2>4, TotalIs
<1>4. recipe # None => IsUse(recipe.uses)
  <2>1. Catalog.recipes = recipes /\ Catalog.mapping = mapping
    BY DEF Catalog
  <2>2. \A k \in Sku : recipes[k] # None => IsUse(recipes[k].uses)
    BY DEF BooksTyping
  <2> QED BY <2>1, <2>2 DEF ForItem
<1>5. /\ r.item = i /\ r.segment = g /\ r.revenue = Revenue(mine)
      /\ r.flag = CASE recipe = None -> "unmapped"
                    [] recipe # None /\ ~Priced(recipe, BookAsOf(d)) -> "unknown_price"
                    [] OTHER -> "counted"
      /\ r.cogs = IF r.flag = "counted" THEN CostPerUnit(recipe, BookAsOf(d)) * Total(u) ELSE 0
  <2> HIDE DEF recipe, on
  <2> QED BY DEF ItemMargin
<1> HIDE DEF recipe, mine, u, r
<1>6. r.flag = "counted" => r.cogs \in Int
  <2> SUFFICES ASSUME r.flag = "counted" PROVE r.cogs \in Int
    OBVIOUS
  <2>1. recipe # None /\ Priced(recipe, BookAsOf(d))
    BY <1>5
  <2>2. CostPerUnit(recipe, BookAsOf(d)) \in Int
    BY <1>4, <2>1, CostTyped
  <2>3. \A m, n \in Int : m * n \in Int
    OBVIOUS
  <2>4. CostPerUnit(recipe, BookAsOf(d)) * Total(u) \in Int
    BY <1>3, <2>2, <2>3
  <2> QED BY <1>5, <2>4
<1>7. /\ r.item = i /\ r.segment = g /\ r.revenue \in Nat
      /\ r.cogs \in Int /\ (r.flag # "counted" => r.cogs = 0)
  BY <1>2, <1>5, <1>6
<1> QED BY <1>7 DEF r, recipe

\* A row of a day is that of its item and its shift, of which something was sold.
LEMMA RowIs ==
  ASSUME ReportsIInv, NEW d \in Day, NEW r \in RowsOn(d)
  PROVE  /\ r.item \in Item /\ r.segment \in Segment
         /\ r = ItemMargin(SoldOn(sales, d, d), ForItem(Catalog, r.item), BookAsOf(d), r.item, r.segment)
<1> DEFINE on == SoldOn(sales, d, d)
           row(i, g) == ItemMargin(on, ForItem(Catalog, i), BookAsOf(d), i, g)
<1>1. RowsOn(d) = {row(k[1], k[2]) : k \in {<<s.item, s.segment>> : s \in on}}
  BY DEF RowsOn, ComputeItemMargins
<1>2. \A i, g : row(i, g).item = i /\ row(i, g).segment = g
  <2> HIDE DEF on
  <2> QED BY DEF ItemMargin
<1>3. \A s \in on : s.item \in Item /\ s.segment \in Segment
  BY DEF ReportsIInv, SalesTyping, SoldOn
<1> HIDE DEF row, on
<1>4. PICK s \in on : r = row(s.item, s.segment)
  BY <1>1
<1>5. r.item = s.item /\ r.segment = s.segment
  BY <1>2, <1>4
<1> QED BY <1>3, <1>4, <1>5 DEF row, on

\* The rows of a day.
LEMMA RowsTyped ==
  ASSUME ReportsIInv, NEW d \in Day
  PROVE  RowTyping(RowsOn(d))
<1>1. SalesTyping(sales) /\ BooksTyping /\ PricesTyping /\ ClockTyping /\ d \in Int
  BY DEF ReportsIInv, Day
<1>2. IsFiniteSet(RowsOn(d))
  BY <1>1, DayEarns DEF RowsOn
<1>3. ASSUME NEW r \in RowsOn(d)
      PROVE  /\ r.item \in Item /\ r.segment \in Segment /\ r.revenue \in Nat
             /\ r.cogs \in Int /\ (r.flag # "counted" => r.cogs = 0)
  <2> DEFINE R == ItemMargin(SoldOn(sales, d, d), ForItem(Catalog, r.item), BookAsOf(d), r.item, r.segment)
  <2>1. r.item \in Item /\ r.segment \in Segment /\ r = R
    BY RowIs
  <2>2. R.revenue \in Nat /\ R.cogs \in Int /\ (R.flag # "counted" => R.cogs = 0)
    BY <1>1, <2>1, RowTyped
  <2> HIDE DEF R
  <2> QED BY <2>1, <2>2
<1> QED BY <1>2, <1>3 DEF RowTyping

-----------------------------------------------------------------------------
\* What some rows add up to.
LEMMA RowSums ==
  ASSUME NEW R, RowTyping(R), NEW A \in SUBSET R
  PROVE  /\ Summable([r \in R |-> r.revenue], A)
         /\ RowRevenue(A) = SumFunctionOnSet([r \in R |-> r.revenue], A)
         /\ Summable([r \in R |-> r.cogs], A)
         /\ RowCogs(A) = SumFunctionOnSet([r \in R |-> r.cogs], A)
<1> DEFINE f == [r \in R |-> r.revenue]
           c == [r \in R |-> r.cogs]
           fa == [r \in A |-> r.revenue]
           ca == [r \in A |-> r.cogs]
<1>1. IsFiniteSet(A)
  BY FS_Subset DEF RowTyping
<1>2. \A r \in A : f[r] \in Int /\ c[r] \in Int /\ f[r] = fa[r] /\ c[r] = ca[r]
  BY DEF RowTyping
<1>3. DOMAIN fa = A /\ DOMAIN ca = A
  OBVIOUS
<1>4. RowRevenue(A) = Total(fa) /\ RowCogs(A) = Total(ca)
  BY DEF RowRevenue, RowCogs
<1> HIDE DEF f, c, fa, ca
<1>5. Summable(f, A) /\ Summable(c, A)
  BY <1>1, <1>2 DEF Summable
<1>6. SumFunctionOnSet(f, A) = SumFunctionOnSet(fa, A)
  BY <1>2, <1>5, SumSame
<1>7. SumFunctionOnSet(c, A) = SumFunctionOnSet(ca, A)
  BY <1>2, <1>5, SumSame
<1>8. Total(fa) = SumFunctionOnSet(fa, A) /\ Total(ca) = SumFunctionOnSet(ca, A)
  BY <1>3, TotalIs
<1> QED BY <1>4, <1>5, <1>6, <1>7, <1>8 DEF f, c

\* Rows in two parts.
LEMMA RowsSplit ==
  ASSUME NEW R, RowTyping(R), NEW A \in SUBSET R, NEW B \in SUBSET R, A \cap B = {}
  PROVE  /\ RowRevenue(A) \in Nat /\ RowRevenue(B) \in Nat
         /\ RowRevenue(A \cup B) = RowRevenue(A) + RowRevenue(B)
         /\ RowCogs(A) \in Int /\ RowCogs(B) \in Int
         /\ RowCogs(A \cup B) = RowCogs(A) + RowCogs(B)
<1> DEFINE f == [r \in R |-> r.revenue]
           c == [r \in R |-> r.cogs]
           z == [r \in R |-> 0]
           C == A \cup B
<1>1. \A r \in R : z[r] = 0 /\ z[r] <= f[r]
  BY DEF RowTyping
<1>2. C \in SUBSET R
  OBVIOUS
<1>3. /\ Summable(f, A) /\ RowRevenue(A) = SumFunctionOnSet(f, A)
      /\ Summable(c, A) /\ RowCogs(A) = SumFunctionOnSet(c, A)
  BY RowSums
<1>4. /\ Summable(f, B) /\ RowRevenue(B) = SumFunctionOnSet(f, B)
      /\ Summable(c, B) /\ RowCogs(B) = SumFunctionOnSet(c, B)
  BY RowSums
<1>5. RowRevenue(C) = SumFunctionOnSet(f, C) /\ RowCogs(C) = SumFunctionOnSet(c, C)
  <2> HIDE DEF C
  <2> QED BY <1>2, RowSums
<1> HIDE DEF f, c, z
<1>6. SumFunctionOnSet(f, C) = SumFunctionOnSet(f, A) + SumFunctionOnSet(f, B)
  BY <1>3, <1>4, SumUnion
<1>7. SumFunctionOnSet(c, C) = SumFunctionOnSet(c, A) + SumFunctionOnSet(c, B)
  BY <1>3, <1>4, SumUnion
<1>8. \A X \in SUBSET R : Summable(f, X) => SumFunctionOnSet(f, X) \in Nat
  <2> SUFFICES ASSUME NEW X \in SUBSET R, Summable(f, X) PROVE SumFunctionOnSet(f, X) \in Nat
    OBVIOUS
  <2>1. IsFiniteSet(X) /\ (\A r \in X : z[r] = 0 /\ z[r] <= f[r])
    BY <1>1 DEF Summable
  <2>2. Summable(z, X)
    BY <2>1 DEF Summable
  <2>3. SumFunctionOnSet(z, X) = 0
    BY <2>1, SumZero
  <2>4. SumFunctionOnSet(z, X) <= SumFunctionOnSet(f, X)
    BY <2>1, <2>2, SumMonotone
  <2>5. SumFunctionOnSet(f, X) \in Int
    BY SumType
  <2> QED BY <2>3, <2>4, <2>5
<1>9. SumFunctionOnSet(c, A) \in Int /\ SumFunctionOnSet(c, B) \in Int
  BY <1>3, <1>4, SumType
<1> QED BY <1>3, <1>4, <1>5, <1>6, <1>7, <1>8, <1>9

\* No row of a set costs anything: the set does not.
LEMMA FreeRows ==
  ASSUME NEW R, RowTyping(R), NEW A \in SUBSET R, \A r \in A : r.cogs = 0
  PROVE  RowCogs(A) = 0
<1> DEFINE c == [r \in R |-> r.cogs]
<1>1. Summable(c, A) /\ RowCogs(A) = SumFunctionOnSet(c, A)
  BY RowSums
<1>2. \A r \in A : c[r] = 0
  OBVIOUS
<1> HIDE DEF c
<1>3. SumFunctionOnSet(c, A) = 0
  BY <1>1, <1>2, SumZero DEF Summable
<1> QED BY <1>1, <1>3

\* What is counted of a day and what is flagged are the day; only the former
\* costs something.
LEMMA CountedSplit ==
  ASSUME NEW R, RowTyping(R)
  PROVE  /\ RowRevenue(Counted(R)) \in Nat /\ RowRevenue(R \ Counted(R)) \in Nat
         /\ RowRevenue(R) = RowRevenue(Counted(R)) + RowRevenue(R \ Counted(R))
         /\ RowCogs(Counted(R)) \in Int /\ RowCogs(R) = RowCogs(Counted(R))
<1> DEFINE A == Counted(R)
           B == R \ Counted(R)
<1>1. A \in SUBSET R /\ B \in SUBSET R /\ A \cap B = {} /\ A \cup B = R
  BY DEF Counted
<1>2. \A r \in B : r.cogs = 0
  BY DEF Counted, RowTyping
<1> HIDE DEF A, B
<1>3. /\ RowRevenue(A) \in Nat /\ RowRevenue(B) \in Nat
      /\ RowRevenue(A \cup B) = RowRevenue(A) + RowRevenue(B)
      /\ RowCogs(A) \in Int
      /\ RowCogs(A \cup B) = RowCogs(A) + RowCogs(B)
  <2>1. A \in SUBSET R /\ B \in SUBSET R /\ A \cap B = {}
    BY <1>1
  <2> QED BY <2>1, RowsSplit
<1>4. RowCogs(B) = 0
  BY <1>1, <1>2, FreeRows
<1>5. RowCogs(R) = RowCogs(A)
  BY <1>1, <1>3, <1>4
<1> QED BY <1>1, <1>3, <1>5 DEF A, B

\* The two shifts of rows are the rows.
LEMMA ShiftSplit ==
  ASSUME NEW R, RowTyping(R), NEW X \in SUBSET R
  PROVE  LET of(g) == {r \in X : r.segment = g}
         IN /\ RowRevenue(of("cafe")) \in Nat /\ RowRevenue(of("bar")) \in Nat
            /\ RowRevenue(X) = RowRevenue(of("cafe")) + RowRevenue(of("bar"))
            /\ RowCogs(of("cafe")) \in Int /\ RowCogs(of("bar")) \in Int
            /\ RowCogs(X) = RowCogs(of("cafe")) + RowCogs(of("bar"))
<1> DEFINE A == {r \in X : r.segment = "cafe"}
           B == {r \in X : r.segment = "bar"}
<1>1. A \in SUBSET R /\ B \in SUBSET R /\ A \cap B = {} /\ A \cup B = X
  BY DEF RowTyping, Segment
<1> HIDE DEF A, B
<1>2. A \in SUBSET R /\ B \in SUBSET R /\ A \cap B = {}
  BY <1>1
<1>3. /\ RowRevenue(A) \in Nat /\ RowRevenue(B) \in Nat
      /\ RowRevenue(A \cup B) = RowRevenue(A) + RowRevenue(B)
      /\ RowCogs(A) \in Int /\ RowCogs(B) \in Int
      /\ RowCogs(A \cup B) = RowCogs(A) + RowCogs(B)
  BY <1>2, RowsSplit
<1> QED BY <1>1, <1>3 DEF A, B

-----------------------------------------------------------------------------
\* On D, h is the sum of f and e.
AddUp(D, f, e, h) ==
  /\ IsFiniteSet(D) /\ DOMAIN f = D /\ DOMAIN e = D /\ DOMAIN h = D
  /\ \A x \in D : f[x] \in Int /\ e[x] \in Int /\ h[x] = f[x] + e[x]

\* The sum of the sums is then the sum.
LEMMA TotalPlus ==
  ASSUME NEW D, NEW f, NEW e, NEW h, AddUp(D, f, e, h)
  PROVE  Total(f) \in Int /\ Total(e) \in Int /\ Total(h) = Total(f) + Total(e)
<1>1. Summable(f, D) /\ Summable(e, D) /\ \A x \in D : h[x] = f[x] + e[x]
  BY DEF Summable, AddUp
<1>2. SumFunctionOnSet(h, D) = SumFunctionOnSet(f, D) + SumFunctionOnSet(e, D)
  BY <1>1, SumPlus
<1>3. SumFunctionOnSet(f, D) \in Int /\ SumFunctionOnSet(e, D) \in Int
  BY <1>1, SumType
<1>4. Total(f) = SumFunctionOnSet(f, D) /\ Total(e) = SumFunctionOnSet(e, D)
      /\ Total(h) = SumFunctionOnSet(h, D)
  BY TotalIs DEF AddUp
<1> QED BY <1>2, <1>3, <1>4

\* The sum over the two shifts.
LEMMA TotalOfShifts ==
  ASSUME NEW f, DOMAIN f = Segment, f["cafe"] \in Int, f["bar"] \in Int
  PROVE  Total(f) = f["cafe"] + f["bar"]
<1>1. Segment = {"cafe", "bar"} /\ {"cafe", "bar"} \ {"cafe"} = {"bar"}
  BY DEF Segment
<1>2. Summable(f, {"cafe", "bar"})
  <2>1. IsFiniteSet({"cafe"}) /\ {"cafe", "bar"} = {"cafe"} \cup {"bar"}
    BY FS_Singleton
  <2>2. IsFiniteSet({"cafe", "bar"})
    BY <2>1, FS_AddElement
  <2> QED BY <2>2 DEF Summable
<1>3. SumFunctionOnSet(f, {"cafe", "bar"})
        = f["cafe"] + SumFunctionOnSet(f, {"cafe", "bar"} \ {"cafe"})
  BY <1>2, SumMember
<1>4. SumFunctionOnSet(f, {"bar"}) = f["bar"]
  BY SumSingle
<1>5. Total(f) = SumFunctionOnSet(f, {"cafe", "bar"})
  BY <1>1, TotalIs
<1> QED BY <1>1, <1>3, <1>4, <1>5

-----------------------------------------------------------------------------
\* What the days of a range have each: in all, counted, flagged, of a shift.
OfShift(rows, g) == {r \in rows : r.segment = g}
RevenueOn(a, b) == [d \in a..b |-> RowRevenue(RowsOn(d))]
CogsOn(a, b) == [d \in a..b |-> RowCogs(Counted(RowsOn(d)))]
FlaggedOn(a, b) == [d \in a..b |-> RowRevenue(RowsOn(d) \ Counted(RowsOn(d)))]
ShiftRevenueOn(a, b, g) == [d \in a..b |-> RowRevenue(OfShift(Counted(RowsOn(d)), g))]
ShiftCogsOn(a, b, g) == [d \in a..b |-> RowCogs(OfShift(Counted(RowsOn(d)), g))]
ShiftFlaggedOn(a, b, g) ==
  [d \in a..b |-> RowRevenue(OfShift(RowsOn(d) \ Counted(RowsOn(d)), g))]

\* That is what the period review sums.
LEMMA PeriodIs ==
  ASSUME NEW a, NEW b
  PROVE  LET p == PeriodReview(MarginsOverRange(a, b), fixed, a, b)
         IN /\ p.revenue = Total(RevenueOn(a, b))
            /\ p.cogs = Total(CogsOn(a, b))
            /\ p.flagged = Total(FlaggedOn(a, b))
            /\ \A g \in Segment : /\ p.segments[g].revenue = Total(ShiftRevenueOn(a, b, g))
                                  /\ p.segments[g].cogs = Total(ShiftCogsOn(a, b, g))
                                  /\ p.segments[g].flagged = Total(ShiftFlaggedOn(a, b, g))
<1> DEFINE days == MarginsOverRange(a, b)
           p == PeriodReview(days, fixed, a, b)
<1>1. DOMAIN days = a..b /\ \A d \in a..b : days[d] = RowsOn(d)
  BY DEF MarginsOverRange
<1> HIDE DEF days
<1>2. /\ p.revenue = Total([d \in DOMAIN days |-> RowRevenue(days[d])])
      /\ p.cogs = Total([d \in DOMAIN days |-> RowCogs(Counted(days[d]))])
      /\ p.flagged = Total([d \in DOMAIN days |-> RowRevenue(days[d] \ Counted(days[d]))])
      /\ p.segments = SegmentMargins(days)
  BY DEF PeriodReview, OverDays
<1>3. \A g \in Segment :
        /\ SegmentMargins(days)[g].revenue
             = Total([d \in DOMAIN days |-> RowRevenue(OfShift(Counted(days[d]), g))])
        /\ SegmentMargins(days)[g].cogs
             = Total([d \in DOMAIN days |-> RowCogs(OfShift(Counted(days[d]), g))])
        /\ SegmentMargins(days)[g].flagged
             = Total([d \in DOMAIN days |-> RowRevenue(OfShift(days[d] \ Counted(days[d]), g))])
  BY DEF SegmentMargins, OverDays, OfShift
<1>4. /\ [d \in DOMAIN days |-> RowRevenue(days[d])] = RevenueOn(a, b)
      /\ [d \in DOMAIN days |-> RowCogs(Counted(days[d]))] = CogsOn(a, b)
      /\ [d \in DOMAIN days |-> RowRevenue(days[d] \ Counted(days[d]))] = FlaggedOn(a, b)
  BY <1>1 DEF RevenueOn, CogsOn, FlaggedOn
<1>5. \A g : [d \in DOMAIN days |-> RowRevenue(OfShift(Counted(days[d]), g))] = ShiftRevenueOn(a, b, g)
  BY <1>1 DEF ShiftRevenueOn
<1>6. \A g : [d \in DOMAIN days |-> RowCogs(OfShift(Counted(days[d]), g))] = ShiftCogsOn(a, b, g)
  BY <1>1 DEF ShiftCogsOn
<1>7. \A g : [d \in DOMAIN days |-> RowRevenue(OfShift(days[d] \ Counted(days[d]), g))]
               = ShiftFlaggedOn(a, b, g)
  BY <1>1 DEF ShiftFlaggedOn
<1> HIDE DEF p
<1>8. /\ p.revenue = Total(RevenueOn(a, b)) /\ p.cogs = Total(CogsOn(a, b))
      /\ p.flagged = Total(FlaggedOn(a, b))
  BY <1>2, <1>4
<1>9. \A g \in Segment : /\ p.segments[g].revenue = Total(ShiftRevenueOn(a, b, g))
                         /\ p.segments[g].cogs = Total(ShiftCogsOn(a, b, g))
                         /\ p.segments[g].flagged = Total(ShiftFlaggedOn(a, b, g))
  BY <1>2, <1>3, <1>5, <1>6, <1>7
<1> QED BY <1>8, <1>9 DEF p, days

\* The daily review's figures are its rows'.
LEMMA DailyIs ==
  ASSUME NEW d \in Int
  PROVE  LET m == DailyMargin(d)
             R == RowsOn(d)
         IN /\ m.revenue = RowRevenue(R) /\ m.cogs = RowCogs(Counted(R))
            /\ m.flagged = RowRevenue(R \ Counted(R))
<1>1. d \in d..d
  OBVIOUS
<1>2. MarginsOverRange(d, d)[d] = RowsOn(d)
  BY <1>1 DEF MarginsOverRange
<1> QED BY <1>2 DEF DailyMargin

\* A range of days.
LEMMA DaysAreTyped ==
  ASSUME ReportsIInv, NEW a \in Day, NEW b \in a..LastDay
  PROVE  /\ a \in Int /\ b \in Day /\ b \in Int /\ IsFiniteSet(a..b)
         /\ \A d \in a..b : d \in Day /\ d \in Int /\ RowTyping(RowsOn(d))
<1>1. a \in Int /\ b \in Int /\ b \in Day /\ \A d \in a..b : d \in Day /\ d \in Int
  BY ReportsAssumption DEF Day
<1>2. IsFiniteSet(a..b)
  BY <1>1, FS_Interval
<1> QED BY <1>1, <1>2, RowsTyped

\* What a shift has over a range, counted and flagged, is what was sold in it.
LEMMA ShiftsAddUp ==
  ASSUME ReportsIInv, NEW a \in Day, NEW b \in a..LastDay, NEW g \in Segment
  PROVE  /\ Total(ShiftRevenueOn(a, b, g)) \in Int /\ Total(ShiftFlaggedOn(a, b, g)) \in Int
         /\ Total(ShiftRevenueOn(a, b, g)) + Total(ShiftFlaggedOn(a, b, g))
              = Revenue({s \in SoldOn(sales, a, b) : s.segment = g})
<1> DEFINE D == a..b
           f == ShiftRevenueOn(a, b, g)
           e == ShiftFlaggedOn(a, b, g)
           h == [d \in D |-> RowRevenue(RowsOf(RowsOn(d), {g}))]
           A == {s \in SoldOn(sales, a, b) : s.segment = g}
           t == [s \in A |-> s.day]
<1>1. /\ a \in Int /\ b \in Int /\ IsFiniteSet(D)
      /\ \A d \in D : d \in Day /\ d \in Int /\ RowTyping(RowsOn(d))
  BY DaysAreTyped
<1>2. DOMAIN f = D /\ DOMAIN e = D /\ DOMAIN h = D
  BY DEF ShiftRevenueOn, ShiftFlaggedOn
<1>3. ASSUME NEW d \in D PROVE f[d] \in Int /\ e[d] \in Int /\ h[d] = f[d] + e[d]
  <2> DEFINE R == RowsOn(d)
             X == OfShift(Counted(R), g)
             Y == OfShift(R \ Counted(R), g)
  <2>1. X \in SUBSET R /\ Y \in SUBSET R /\ X \cap Y = {}
    BY DEF OfShift, Counted
  <2>2. X \cup Y = RowsOf(R, {g})
    BY DEF OfShift, Counted, RowsOf
  <2>3. f[d] = RowRevenue(X) /\ e[d] = RowRevenue(Y) /\ h[d] = RowRevenue(RowsOf(R, {g}))
    BY DEF ShiftRevenueOn, ShiftFlaggedOn
  <2>4. RowTyping(R)
    BY <1>1
  <2> HIDE DEF R, X, Y, f, e, h
  <2>5. RowRevenue(X) \in Nat /\ RowRevenue(Y) \in Nat
        /\ RowRevenue(X \cup Y) = RowRevenue(X) + RowRevenue(Y)
    BY <2>1, <2>4, RowsSplit
  <2>6. RowRevenue(RowsOf(R, {g})) = RowRevenue(X) + RowRevenue(Y)
    BY <2>2, <2>5
  <2>7. f[d] \in Int /\ e[d] \in Int
    BY <2>3, <2>5
  <2> QED BY <2>3, <2>6, <2>7
<1>4. Total(f) \in Int /\ Total(e) \in Int /\ Total(h) = Total(f) + Total(e)
  <2> HIDE DEF D, f, e, h
  <2>1. AddUp(D, f, e, h)
    BY <1>1, <1>2, <1>3 DEF AddUp
  <2> QED BY <2>1, TotalPlus
<1>5. Total(h) = Revenue(A)
  <2>1. SalesTyping(sales)
    BY DEF ReportsIInv
  <2>2. A \in SUBSET sales /\ \A s \in A : t[s] \in D /\ t[s] = s.day
    BY DEF SoldOn
  <2>3. ASSUME NEW d \in D PROVE h[d] = Revenue(Fibre(A, t, d))
    <3>1. {g} \in SUBSET Segment
      OBVIOUS
    <3>2. RowsHave(RowsOf(RowsOn(d), {g}), sales, d, {g})
      <4>1. d \in Int
        BY <1>1
      <4>2. RowsOn(d) = ComputeItemMargins(sales, Catalog, BookAsOf(d), d)
        BY DEF RowsOn
      <4> QED BY <2>1, <3>1, <4>1, <4>2, RowsEarn
    <3>3. RowRevenue(RowsOf(RowsOn(d), {g})) = Revenue({s \in SoldOn(sales, d, d) : s.segment \in {g}})
      BY <3>2 DEF RowsHave
    <3>4. {s \in SoldOn(sales, d, d) : s.segment \in {g}} = Fibre(A, t, d)
      <4>1. \A s \in sales : s.day \in Int /\ (s.day \in d..d <=> s.day = d)
        BY <1>1, <2>1 DEF SalesTyping
      <4> QED BY <4>1 DEF Fibre, SoldOn
    <3>5. h[d] = RowRevenue(RowsOf(RowsOn(d), {g}))
      OBVIOUS
    <3> HIDE DEF h
    <3> QED BY <3>3, <3>4, <3>5
  <2> HIDE DEF A, t, D, h
  <2> QED BY <1>1, <1>2, <2>1, <2>2, <2>3, RevenueByKind
<1> HIDE DEF f, e, h, A
<1>6. Total(f) \in Int /\ Total(e) \in Int /\ Total(f) + Total(e) = Revenue(A)
  BY <1>4, <1>5
<1> QED BY <1>6 DEF f, e, A

\* The shifts' costs are the period's.
LEMMA ShiftCostsAddUp ==
  ASSUME ReportsIInv, NEW a \in Day, NEW b \in a..LastDay
  PROVE  /\ Total(ShiftCogsOn(a, b, "cafe")) \in Int /\ Total(ShiftCogsOn(a, b, "bar")) \in Int
         /\ Total(CogsOn(a, b)) = Total(ShiftCogsOn(a, b, "cafe")) + Total(ShiftCogsOn(a, b, "bar"))
<1> DEFINE D == a..b
           f == ShiftCogsOn(a, b, "cafe")
           e == ShiftCogsOn(a, b, "bar")
           h == CogsOn(a, b)
<1>1. IsFiniteSet(D) /\ \A d \in D : RowTyping(RowsOn(d))
  BY DaysAreTyped
<1>2. DOMAIN f = D /\ DOMAIN e = D /\ DOMAIN h = D
  BY DEF ShiftCogsOn, CogsOn
<1>3. ASSUME NEW d \in D PROVE f[d] \in Int /\ e[d] \in Int /\ h[d] = f[d] + e[d]
  <2> DEFINE R == RowsOn(d)
             X == Counted(R)
             of(g) == {r \in X : r.segment = g}
  <2>1. X \in SUBSET R /\ RowTyping(R)
    BY <1>1 DEF Counted
  <2>2. f[d] = RowCogs(of("cafe")) /\ e[d] = RowCogs(of("bar")) /\ h[d] = RowCogs(X)
    BY DEF ShiftCogsOn, CogsOn, OfShift
  <2> HIDE DEF R, X, f, e, h
  <2>3. /\ RowCogs(of("cafe")) \in Int /\ RowCogs(of("bar")) \in Int
        /\ RowCogs(X) = RowCogs(of("cafe")) + RowCogs(of("bar"))
    BY <2>1, ShiftSplit
  <2> HIDE DEF of
  <2> QED BY <2>2, <2>3
<1> HIDE DEF D, f, e, h
<1>4. Total(f) \in Int /\ Total(e) \in Int /\ Total(h) = Total(f) + Total(e)
  <2>1. AddUp(D, f, e, h)
    BY <1>1, <1>2, <1>3 DEF AddUp
  <2> QED BY <2>1, TotalPlus
<1> QED BY <1>4 DEF f, e, h

\* What the two shifts have sold is what was sold.
LEMMA ShiftsEarn ==
  ASSUME ReportsIInv, NEW a \in Int, NEW b \in Int, NEW f, DOMAIN f = Segment,
         \A g \in Segment : f[g] = Revenue({s \in SoldOn(sales, a, b) : s.segment = g})
  PROVE  Total(f) = Revenue(SoldOn(sales, a, b))
<1> DEFINE A == SoldOn(sales, a, b)
           t == [s \in A |-> s.segment]
<1>1. SalesTyping(sales)
  BY DEF ReportsIInv
<1>2. A \in SUBSET sales /\ \A s \in A : t[s] \in Segment /\ t[s] = s.segment
  BY <1>1 DEF SoldOn, SalesTyping
<1>3. IsFiniteSet(Segment)
  <2>1. IsFiniteSet({"cafe"}) /\ Segment = {"cafe"} \cup {"bar"}
    BY FS_Singleton DEF Segment
  <2> QED BY <2>1, FS_AddElement
<1>4. \A g \in Segment : f[g] = Revenue({s \in A : s.segment = g})
  OBVIOUS
<1> HIDE DEF A, t
<1>5. ASSUME NEW g \in Segment PROVE f[g] = Revenue(Fibre(A, t, g))
  <2>1. Fibre(A, t, g) = {s \in A : s.segment = g}
    BY <1>2 DEF Fibre
  <2> QED BY <1>4, <2>1
<1>6. Total(f) = Revenue(A)
  BY <1>1, <1>2, <1>3, <1>5, RevenueByKind
<1> QED BY <1>6 DEF A

-----------------------------------------------------------------------------
\* The rows of several days, each with its day.
OneDay(X, d) == {<<d, r>> : r \in X[d]}
DayRows(X) == UNION {OneDay(X, d) : d \in DOMAIN X}

\* What the days have.
LEMMA DayRowsAre ==
  ASSUME NEW X, NEW k
  PROVE  k \in DayRows(X) <=> k = <<k[1], k[2]>> /\ k[1] \in DOMAIN X /\ k[2] \in X[k[1]]
<1>1. k \in DayRows(X) <=> \E d \in DOMAIN X : k \in OneDay(X, d)
  BY DEF DayRows
<1>2. \A d : k \in OneDay(X, d) <=> \E r \in X[d] : k = <<d, r>>
  BY DEF OneDay
<1>3. \A d, r : k = <<d, r>> => k[1] = d /\ k[2] = r
  OBVIOUS
<1> QED BY <1>1, <1>2, <1>3

\* The rows of all days have the revenue the days have.
LEMMA DayRowsEarn ==
  ASSUME NEW X, IsFiniteSet(DOMAIN X), \A d \in DOMAIN X : RowTyping(X[d]),
         NEW f, \A k \in DayRows(X) : f[k] = k[2].revenue
  PROVE  /\ Summable(f, DayRows(X))
         /\ SumFunctionOnSet(f, DayRows(X)) = Total([d \in DOMAIN X |-> RowRevenue(X[d])])
<1> DEFINE D == DOMAIN X
           K == DayRows(X)
           t == [k \in K |-> k[1]]
           e == [d \in D |-> RowRevenue(X[d])]
<1>1. IsFiniteSet(K)
  <2> DEFINE o == [d \in D |-> OneDay(X, d)]
             U == {o[d] : d \in D}
  <2>1. \A d \in D : o[d] = OneDay(X, d)
    OBVIOUS
  <2>2. ASSUME NEW d \in D PROVE IsFiniteSet(OneDay(X, d))
    <3> DEFINE p == [r \in X[d] |-> <<d, r>>]
    <3>1. IsFiniteSet(X[d])
      BY DEF RowTyping
    <3>2. OneDay(X, d) = {p[r] : r \in X[d]}
      BY DEF OneDay
    <3> HIDE DEF p
    <3> QED BY <3>1, <3>2, ImageFinite
  <2>3. DayRows(X) = UNION U
    BY DEF DayRows
  <2> HIDE DEF o, D
  <2>4. IsFiniteSet(U)
    BY ImageFinite DEF D
  <2>5. \A T \in U : IsFiniteSet(T)
    BY <2>1, <2>2
  <2> HIDE DEF U
  <2> QED BY <2>3, <2>4, <2>5, FS_UNION
<1>2. \A k \in K : f[k] \in Int /\ k[1] \in D /\ t[k] = k[1]
  <2> SUFFICES ASSUME NEW k \in K PROVE f[k] \in Int /\ k[1] \in D /\ t[k] = k[1]
    OBVIOUS
  <2>1. k[1] \in D /\ k[2] \in X[k[1]] /\ f[k] = k[2].revenue
    BY DayRowsAre
  <2>2. k[2].revenue \in Nat
    BY <2>1 DEF RowTyping
  <2> QED BY <2>1, <2>2
<1>3. Summable(f, K)
  BY <1>1, <1>2 DEF Summable
<1>4. ASSUME NEW d \in D PROVE e[d] = SumFunctionOnSet(f, Fibre(K, t, d))
  <2> DEFINE R == X[d]
             Kd == Fibre(K, t, d)
             u == [k \in Kd |-> k[2]]
             g == [r \in R |-> r.revenue]
  <2>1. \A k : k \in Kd <=> k = <<d, k[2]>> /\ k[2] \in R
    <3> SUFFICES ASSUME NEW k PROVE k \in Kd <=> k = <<d, k[2]>> /\ k[2] \in R
      OBVIOUS
    <3>1. k \in K <=> k = <<k[1], k[2]>> /\ k[1] \in D /\ k[2] \in X[k[1]]
      BY DayRowsAre
    <3>2. k \in Kd <=> k \in K /\ k[1] = d
      BY <1>2 DEF Fibre
    <3> HIDE DEF K, Kd, D
    <3> QED BY <3>1, <3>2
  <2>2. Kd \in SUBSET K
    BY DEF Fibre
  <2>3. Summable(f, Kd)
    <3> HIDE DEF Kd, K
    <3> QED BY <1>3, <2>2, SummableSubset
  <2>4. IsFiniteSet(R) /\ RowTyping(R)
    BY DEF RowTyping
  <2>5. \A k \in Kd : u[k] \in R /\ u[k] = k[2]
    BY <2>1
  <2>6. ASSUME NEW r \in R PROVE g[r] = SumFunctionOnSet(f, Fibre(Kd, u, r))
    <3> DEFINE k == <<d, r>>
    <3>1. k[2] = r /\ k = <<d, k[2]>>
      OBVIOUS
    <3> HIDE DEF k
    <3>2. k \in Kd
      BY <2>1, <3>1
    <3>3. Fibre(Kd, u, r) = {k}
      <4>1. \A x \in Kd : u[x] = r => x = k
        BY <2>1, <2>5 DEF k
      <4>2. u[k] = r
        BY <2>5, <3>1, <3>2
      <4> HIDE DEF Kd, u
      <4> QED BY <3>2, <4>1, <4>2 DEF Fibre
    <3>4. f[k] = r.revenue /\ f[k] \in Int
      BY <1>2, <2>2, <3>1, <3>2
    <3>5. SumFunctionOnSet(f, {k}) = f[k]
      BY <3>4, SumSingle
    <3>6. g[r] = r.revenue
      OBVIOUS
    <3> HIDE DEF g, Kd, u
    <3> QED BY <3>3, <3>4, <3>5, <3>6
  <2> HIDE DEF Kd, u, R, K
  <2>7. SumFunctionOnSet(g, R) = SumFunctionOnSet(f, Kd)
    <3> HIDE DEF g
    <3>1. \A r \in R : g[r] = SumFunctionOnSet(f, Fibre(Kd, u, r))
      BY <2>6
    <3>2. \A k \in Kd : u[k] \in R
      BY <2>5
    <3>3. IsFiniteSet(R)
      BY <2>4
    <3> QED BY <2>3, <3>1, <3>2, <3>3, SumFibres
  <2>8. RowRevenue(R) = SumFunctionOnSet(g, R)
    <3>1. R \in SUBSET R
      OBVIOUS
    <3> QED BY <2>4, <3>1, RowSums
  <2>9. e[d] = RowRevenue(R)
    BY DEF R
  <2> HIDE DEF e, g
  <2> QED BY <2>7, <2>8, <2>9 DEF Kd
<1>5. DOMAIN e = D
  OBVIOUS
<1> HIDE DEF K, t, e, D
<1>6. SumFunctionOnSet(e, D) = SumFunctionOnSet(f, K)
  <2>1. IsFiniteSet(D) /\ \A k \in K : t[k] \in D
    BY <1>2 DEF D
  <2> QED BY <1>3, <1>4, <2>1, SumFibres
<1>7. Total(e) = SumFunctionOnSet(f, K)
  BY <1>5, <1>6, TotalIs
<1> QED BY <1>3, <1>7 DEF K, e, D

-----------------------------------------------------------------------------
\* The flagged rows of each day of a range, and an item's among them.
FlagsOn(a, b) == [d \in a..b |-> RowsOn(d) \ Counted(RowsOn(d))]
ItemFlagsOn(a, b, i) == [d \in a..b |-> {r \in FlagsOn(a, b)[d] : r.item = i}]

\* Some rows are rows.
LEMMA SomeRowsTyped ==
  ASSUME NEW R, RowTyping(R), NEW A \in SUBSET R
  PROVE  RowTyping(A)
BY FS_Subset DEF RowTyping

\* The needs-attention list is made of them.
LEMMA AttentionIs ==
  ASSUME NEW a, NEW b
  PROVE  LET att == AggregateFlagged(MarginsOverRange(a, b))
         IN /\ DOMAIN att = {r.item : r \in UNION {FlagsOn(a, b)[d] : d \in a..b}}
            /\ \A i \in DOMAIN att :
                 att[i] = Total([d \in DOMAIN ItemFlagsOn(a, b, i) |->
                                   RowRevenue(ItemFlagsOn(a, b, i)[d])])
<1> DEFINE days == MarginsOverRange(a, b)
           fl == FlagsOn(a, b)
           att == AggregateFlagged(days)
<1>1. DOMAIN days = a..b /\ \A d \in a..b : days[d] \ Counted(days[d]) = fl[d]
  BY DEF MarginsOverRange, FlagsOn
<1> HIDE DEF days, fl
<1>2. att = [i \in {r.item : r \in UNION {days[d] \ Counted(days[d]) : d \in DOMAIN days}} |->
               Total([d \in DOMAIN days |-> RowRevenue({r \in days[d] \ Counted(days[d]) : r.item = i})])]
  BY DEF AggregateFlagged, OverDays
<1>3. {days[d] \ Counted(days[d]) : d \in DOMAIN days} = {fl[d] : d \in a..b}
  BY <1>1
<1>4. \A i : [d \in DOMAIN days |-> RowRevenue({r \in days[d] \ Counted(days[d]) : r.item = i})]
               = [d \in DOMAIN ItemFlagsOn(a, b, i) |-> RowRevenue(ItemFlagsOn(a, b, i)[d])]
  <2> SUFFICES ASSUME NEW i
               PROVE  [d \in DOMAIN days |-> RowRevenue({r \in days[d] \ Counted(days[d]) : r.item = i})]
                        = [d \in DOMAIN ItemFlagsOn(a, b, i) |-> RowRevenue(ItemFlagsOn(a, b, i)[d])]
    OBVIOUS
  <2>1. DOMAIN ItemFlagsOn(a, b, i) = DOMAIN days
    BY <1>1 DEF ItemFlagsOn
  <2>2. \A d \in DOMAIN days :
          ItemFlagsOn(a, b, i)[d] = {r \in days[d] \ Counted(days[d]) : r.item = i}
    BY <1>1 DEF ItemFlagsOn, fl
  <2> QED BY <2>1, <2>2
<1> DEFINE I == {r.item : r \in UNION {days[d] \ Counted(days[d]) : d \in DOMAIN days}}
<1>5. DOMAIN att = I
  BY <1>2
<1>6. I = {r.item : r \in UNION {fl[d] : d \in a..b}}
  BY <1>3
<1>7. \A i \in I : att[i] = Total([d \in DOMAIN ItemFlagsOn(a, b, i) |-> RowRevenue(ItemFlagsOn(a, b, i)[d])])
  <2> HIDE DEF I, att
  <2> SUFFICES ASSUME NEW i \in I
               PROVE  att[i] = Total([d \in DOMAIN ItemFlagsOn(a, b, i) |-> RowRevenue(ItemFlagsOn(a, b, i)[d])])
    OBVIOUS
  <2>1. att[i] = Total([d \in DOMAIN days |-> RowRevenue({r \in days[d] \ Counted(days[d]) : r.item = i})])
    BY <1>2 DEF I
  <2> QED BY <1>4, <2>1
<1> HIDE DEF att, I
<1> QED BY <1>5, <1>6, <1>7 DEF att, days, fl

\* It adds up to what is flagged of the period.
LEMMA AttentionAddsUp ==
  ASSUME ReportsIInv, NEW a \in Day, NEW b \in a..LastDay
  PROVE  Total(AggregateFlagged(MarginsOverRange(a, b))) = Total(FlaggedOn(a, b))
<1> DEFINE D == a..b
           X == FlagsOn(a, b)
           K == DayRows(X)
           f == [k \in K |-> k[2].revenue]
           t == [k \in K |-> k[2].item]
           att == AggregateFlagged(MarginsOverRange(a, b))
           I == DOMAIN att
<1>1. IsFiniteSet(D) /\ \A d \in D : RowTyping(RowsOn(d))
  BY DaysAreTyped
<1>2. DOMAIN X = D /\ \A d \in D : X[d] = RowsOn(d) \ Counted(RowsOn(d))
  BY DEF FlagsOn
<1>3. ASSUME NEW d \in D PROVE RowTyping(X[d])
  <2>1. X[d] \in SUBSET RowsOn(d)
    BY <1>2
  <2> HIDE DEF X, D
  <2> QED BY <1>1, <2>1, SomeRowsTyped
<1>4. (\A k \in K : f[k] = k[2].revenue) /\ (\A k \in K : t[k] = k[2].item)
  OBVIOUS
<1>5. I = {r.item : r \in UNION {X[d] : d \in D}}
  BY AttentionIs
<1>6. \A i \in I : att[i] = Total([d \in DOMAIN ItemFlagsOn(a, b, i) |-> RowRevenue(ItemFlagsOn(a, b, i)[d])])
  BY AttentionIs
<1>7. \A k : k \in K <=> k = <<k[1], k[2]>> /\ k[1] \in D /\ k[2] \in X[k[1]]
  BY <1>2, DayRowsAre
<1> HIDE DEF X, f, t, att, K, D
<1>8. Summable(f, K) /\ SumFunctionOnSet(f, K) = Total([d \in DOMAIN X |-> RowRevenue(X[d])])
  BY <1>1, <1>2, <1>3, <1>4, DayRowsEarn DEF K
<1>9. [d \in DOMAIN X |-> RowRevenue(X[d])] = FlaggedOn(a, b)
  BY <1>2 DEF FlaggedOn, D
<1>10. \A k \in K : t[k] \in I
  <2> SUFFICES ASSUME NEW k \in K PROVE t[k] \in I
    OBVIOUS
  <2>1. k[1] \in D /\ k[2] \in X[k[1]]
    BY <1>7
  <2>2. k[2] \in UNION {X[d] : d \in D}
    BY <2>1
  <2> HIDE DEF I
  <2>3. t[k] = k[2].item
    BY <1>4
  <2> QED BY <1>5, <2>2, <2>3
<1>11. IsFiniteSet(I)
  <2>1. I \subseteq {t[k] : k \in K}
    <3> HIDE DEF I
    <3> SUFFICES ASSUME NEW i \in I PROVE i \in {t[k] : k \in K}
      OBVIOUS
    <3>1. PICK r \in UNION {X[d] : d \in D} : i = r.item
      BY <1>5
    <3>2. PICK d \in D : r \in X[d]
      OBVIOUS
    <3> DEFINE k == <<d, r>>
    <3>3. k[1] = d /\ k[2] = r /\ k = <<k[1], k[2]>>
      OBVIOUS
    <3> HIDE DEF k
    <3>4. k \in K
      BY <1>7, <3>2, <3>3
    <3>5. t[k] = i
      BY <1>4, <3>1, <3>3, <3>4
    <3> QED BY <3>4, <3>5
  <2>2. IsFiniteSet(K)
    BY <1>8 DEF Summable
  <2>3. IsFiniteSet({t[k] : k \in K})
    BY <2>2, ImageFinite
  <2> HIDE DEF I
  <2> QED BY <2>1, <2>3, FS_Subset
<1>12. ASSUME NEW i \in I PROVE att[i] = SumFunctionOnSet(f, Fibre(K, t, i))
  <2> DEFINE Xi == ItemFlagsOn(a, b, i)
  <2>1. DOMAIN Xi = D /\ \A d \in D : Xi[d] = {r \in X[d] : r.item = i}
    BY DEF ItemFlagsOn, X, D
  <2> HIDE DEF Xi
  <2>2. ASSUME NEW d \in D PROVE RowTyping(Xi[d])
    <3>1. Xi[d] \in SUBSET X[d]
      BY <2>1
    <3> QED BY <1>3, <3>1, SomeRowsTyped
  <2>3. \A k : k \in DayRows(Xi) <=> k = <<k[1], k[2]>> /\ k[1] \in D /\ k[2] \in Xi[k[1]]
    BY <2>1, DayRowsAre
  <2>4. \A k : k \in DayRows(Xi) <=> k \in K /\ k[2].item = i
    BY <1>7, <2>1, <2>3
  <2>5. DayRows(Xi) = Fibre(K, t, i)
    BY <1>4, <2>4 DEF Fibre
  <2>6. \A k \in DayRows(Xi) : f[k] = k[2].revenue
    BY <1>4, <2>4
  <2>7. SumFunctionOnSet(f, DayRows(Xi)) = Total([d \in DOMAIN Xi |-> RowRevenue(Xi[d])])
    BY <1>1, <2>1, <2>2, <2>6, DayRowsEarn
  <2> QED BY <1>6, <2>5, <2>7 DEF Xi
<1>13. SumFunctionOnSet(att, I) = SumFunctionOnSet(f, K)
  <2> HIDE DEF I
  <2>1. \A i \in I : att[i] = SumFunctionOnSet(f, Fibre(K, t, i))
    BY <1>12
  <2>2. Summable(f, K)
    BY <1>8
  <2> QED BY <1>10, <1>11, <2>1, <2>2, SumFibres
<1>14. Total(att) = SumFunctionOnSet(att, I)
  BY TotalIs
<1> QED BY <1>8, <1>9, <1>13, <1>14 DEF att

\* Every view of a range has the same money (daily_review.py, period_review.py,
\* margin.py, monthly_pnl.py).
LEMMA RangesAgree == ReportsIInv => RangeViewsAgree
<1> SUFFICES ASSUME ReportsIInv, NEW a \in Day, NEW b \in a..LastDay
             PROVE  LET days == MarginsOverRange(a, b)
                        period == PeriodReview(days, fixed, a, b)
                        gross == Revenue(SoldOn(sales, a, b))
                        daily == [d \in a..b |-> DailyMargin(d)]
                        ofDays(f(_)) == Total([d \in a..b |-> f(daily[d])])
                        attention == AggregateFlagged(days)
                        best == BestsellerTotals(sales, a, b)
                    IN /\ period.revenue = gross /\ ofDays(LAMBDA m : m.revenue) = gross
                       /\ period.cogs = ofDays(LAMBDA m : m.cogs)
                       /\ period.flagged = ofDays(LAMBDA m : m.flagged)
                       /\ Total([g \in Segment |-> period.segments[g].revenue + period.segments[g].flagged])
                            = gross
                       /\ Total([g \in Segment |-> period.segments[g].cogs]) = period.cogs
                       /\ Total(attention) = period.flagged
                       /\ Total(best) = gross
                       /\ a = FirstOf(MonthOf(a)) /\ b = LastOf(MonthOf(a)) =>
                            \A g \in Segment : RevenueBySegment(MonthOf(a))[g]
                              = period.segments[g].revenue + period.segments[g].flagged
  BY DEF RangeViewsAgree
<1> DEFINE days == MarginsOverRange(a, b)
           period == PeriodReview(days, fixed, a, b)
           gross == Revenue(SoldOn(sales, a, b))
<1>1. /\ a \in Int /\ b \in Int /\ b \in Day /\ IsFiniteSet(a..b)
      /\ \A d \in a..b : d \in Day /\ d \in Int /\ RowTyping(RowsOn(d))
  BY DaysAreTyped
<1>2. SalesTyping(sales)
  BY DEF ReportsIInv
<1>3. /\ period.revenue = Total(RevenueOn(a, b)) /\ period.cogs = Total(CogsOn(a, b))
      /\ period.flagged = Total(FlaggedOn(a, b))
      /\ \A g \in Segment : /\ period.segments[g].revenue = Total(ShiftRevenueOn(a, b, g))
                            /\ period.segments[g].cogs = Total(ShiftCogsOn(a, b, g))
                            /\ period.segments[g].flagged = Total(ShiftFlaggedOn(a, b, g))
  BY PeriodIs
<1>4. /\ [d \in a..b |-> DailyMargin(d).revenue] = RevenueOn(a, b)
      /\ [d \in a..b |-> DailyMargin(d).cogs] = CogsOn(a, b)
      /\ [d \in a..b |-> DailyMargin(d).flagged] = FlaggedOn(a, b)
  <2>1. \A d \in a..b : /\ DailyMargin(d).revenue = RowRevenue(RowsOn(d))
                        /\ DailyMargin(d).cogs = RowCogs(Counted(RowsOn(d)))
                        /\ DailyMargin(d).flagged = RowRevenue(RowsOn(d) \ Counted(RowsOn(d)))
    BY <1>1, DailyIs
  <2> QED BY <2>1 DEF RevenueOn, CogsOn, FlaggedOn
<1>5. Total(RevenueOn(a, b)) = gross
  <2> DEFINE X == MarginsOverRange(a, b)
  <2>1. DOMAIN X = a..b /\ \A d \in a..b : X[d] = RowsOn(d)
    BY DEF MarginsOverRange
  <2> HIDE DEF X
  <2>2. \A d \in a..b : RowRevenue(X[d]) = Revenue(SoldOn(sales, d, d))
    <3> SUFFICES ASSUME NEW d \in a..b PROVE RowRevenue(X[d]) = Revenue(SoldOn(sales, d, d))
      OBVIOUS
    <3>1. RowRevenue(ComputeItemMargins(sales, Catalog, BookAsOf(d), d)) = Revenue(SoldOn(sales, d, d))
      BY <1>1, <1>2, DayEarns
    <3> QED BY <2>1, <3>1 DEF RowsOn
  <2>3. Total([d \in DOMAIN X |-> RowRevenue(X[d])]) = Revenue(SoldOn(sales, a, b))
    BY <1>1, <1>2, <2>1, <2>2, DaysEarn
  <2>4. [d \in DOMAIN X |-> RowRevenue(X[d])] = RevenueOn(a, b)
    BY <2>1 DEF RevenueOn
  <2> QED BY <2>3, <2>4
<1> HIDE DEF period
<1>6. \A g \in Segment : /\ period.segments[g].revenue \in Int /\ period.segments[g].flagged \in Int
                         /\ period.segments[g].revenue + period.segments[g].flagged
                              = Revenue({s \in SoldOn(sales, a, b) : s.segment = g})
  BY <1>3, ShiftsAddUp
<1>7. Total([g \in Segment |-> period.segments[g].revenue + period.segments[g].flagged]) = gross
  <2> DEFINE f == [g \in Segment |-> period.segments[g].revenue + period.segments[g].flagged]
  <2>1. DOMAIN f = Segment /\ \A g \in Segment : f[g] = Revenue({s \in SoldOn(sales, a, b) : s.segment = g})
    BY <1>6
  <2> HIDE DEF f
  <2>2. Total(f) = gross
    BY <1>1, <2>1, ShiftsEarn
  <2> QED BY <2>2 DEF f
<1>8. Total([g \in Segment |-> period.segments[g].cogs]) = period.cogs
  <2> DEFINE f == [g \in Segment |-> period.segments[g].cogs]
  <2>1. "cafe" \in Segment /\ "bar" \in Segment
    BY DEF Segment
  <2>2. DOMAIN f = Segment /\ f["cafe"] = Total(ShiftCogsOn(a, b, "cafe"))
        /\ f["bar"] = Total(ShiftCogsOn(a, b, "bar"))
    BY <1>3, <2>1
  <2> HIDE DEF f
  <2>3. /\ Total(ShiftCogsOn(a, b, "cafe")) \in Int /\ Total(ShiftCogsOn(a, b, "bar")) \in Int
        /\ Total(CogsOn(a, b)) = Total(ShiftCogsOn(a, b, "cafe")) + Total(ShiftCogsOn(a, b, "bar"))
    BY ShiftCostsAddUp
  <2>4. Total(f) = f["cafe"] + f["bar"]
    BY <2>2, <2>3, TotalOfShifts
  <2>5. Total(f) = period.cogs
    BY <1>3, <2>2, <2>3, <2>4
  <2> QED BY <2>5 DEF f
<1>9. Total(AggregateFlagged(days)) = period.flagged
  BY <1>3, AttentionAddsUp
<1>10. Total(BestsellerTotals(sales, a, b)) = gross
  BY <1>1, <1>2, BestsellersEarn
<1>11. a = FirstOf(MonthOf(a)) /\ b = LastOf(MonthOf(a)) =>
         \A g \in Segment : RevenueBySegment(MonthOf(a))[g]
           = period.segments[g].revenue + period.segments[g].flagged
  BY <1>6 DEF RevenueBySegment
<1> HIDE DEF gross, days
<1>12. period.revenue = gross /\ Total([d \in a..b |-> DailyMargin(d).revenue]) = gross
  BY <1>3, <1>4, <1>5
<1>13. /\ period.cogs = Total([d \in a..b |-> DailyMargin(d).cogs])
       /\ period.flagged = Total([d \in a..b |-> DailyMargin(d).flagged])
  BY <1>3, <1>4
<1>14. LET daily == [d \in a..b |-> DailyMargin(d)]
       IN /\ [d \in a..b |-> daily[d].revenue] = [d \in a..b |-> DailyMargin(d).revenue]
          /\ [d \in a..b |-> daily[d].cogs] = [d \in a..b |-> DailyMargin(d).cogs]
          /\ [d \in a..b |-> daily[d].flagged] = [d \in a..b |-> DailyMargin(d).flagged]
  OBVIOUS
<1> QED BY <1>7, <1>8, <1>9, <1>10, <1>11, <1>12, <1>13, <1>14 DEF period, gross, days

-----------------------------------------------------------------------------
\* The coverage page and today's margins agree (coverage.py, margin.py).
LEMMA CoveragesAgree == ReportsIInv => CoverageAgrees
<1> SUFFICES ASSUME ReportsIInv, NEW i \in Item, mapping[i] # None, ForItem(Catalog, i) # None,
                    \A l \in DOMAIN ForItem(Catalog, i).uses : ~Withdrawn(l)
             PROVE  LET flag == ItemMargin(sales, ForItem(Catalog, i), BookAsOf(today), i, "bar").flag
                    IN /\ flag = "counted" <=> SkuHealth(mapping[i]) = "green"
                       /\ flag = "unknown_price" <=> SkuHealth(mapping[i]) = "yellow"
  BY DEF CoverageAgrees
<1> DEFINE recipe == ForItem(Catalog, i)
           ofDay == BookAsOf(today)
           flag == ItemMargin(sales, recipe, ofDay, i, "bar").flag
           k == mapping[i]
<1>1. k \in Sku /\ k # None
  BY DEF ReportsIInv, BooksTyping
<1>2. recipe = recipes[k] /\ recipe # None
  BY <1>1 DEF ForItem, Catalog
<1>3. Priced(recipe, ofDay) <=> Priced(recipe, CurrentBook)
  <2>1. PricesTyping /\ ClockTyping /\ IsUse(recipe.uses)
    BY <1>1, <1>2 DEF ReportsIInv, BooksTyping
  <2>2. \A l \in DOMAIN recipe.uses : l \in Leaf /\ ~Withdrawn(l)
    BY <2>1 DEF IsUse
  <2> HIDE DEF recipe
  <2>3. \A l \in DOMAIN recipe.uses : ofDay[l] # None <=> CurrentBook[l] # None
    BY <2>1, <2>2, BookFollowed
  <2> HIDE DEF ofDay
  <2> QED BY <2>3 DEF Priced
<1>4. flag = CASE recipe = None -> "unmapped"
               [] recipe # None /\ ~Priced(recipe, ofDay) -> "unknown_price"
               [] OTHER -> "counted"
  <2> HIDE DEF recipe, ofDay
  <2> QED BY DEF ItemMargin
<1>5. \E j \in Item : mapping[j] = k
  OBVIOUS
<1>6. SkuHealth(k) = IF Priced(recipes[k], CurrentBook) THEN "green" ELSE "yellow"
  <2> HIDE DEF k
  <2>1. recipes[k] # None
    BY <1>2
  <2> QED BY <1>5, <2>1 DEF SkuHealth
<1> HIDE DEF recipe, ofDay, flag, k
<1>7. flag = IF Priced(recipe, ofDay) THEN "counted" ELSE "unknown_price"
  BY <1>2, <1>4
<1> QED BY <1>2, <1>3, <1>6, <1>7 DEF recipe, ofDay, flag, k

-----------------------------------------------------------------------------
\* What the segments of a day's review contribute is its counted rows' margin.
LEMMA ContributedIs ==
  ASSUME NEW x \in Int, RowTyping(RowsOn(x))
  PROVE  LET of == DailyMargin(x).segments
         IN Total([g \in Segment |-> of[g].revenue - of[g].cogs])
              = RowRevenue(Counted(RowsOn(x))) - RowCogs(Counted(RowsOn(x)))
<1> DEFINE R == RowsOn(x)
           X == Counted(R)
           days == MarginsOverRange(x, x)
           of == DailyMargin(x).segments
           f == [g \in Segment |-> of[g].revenue - of[g].cogs]
           mine(g) == {r \in X : r.segment = g}
<1>1. days = [d \in x..x |-> RowsOn(d)] /\ x..x = {x}
  BY DEF MarginsOverRange
<1>2. DOMAIN days = {x} /\ days[x] = R
  BY <1>1
<1>3. of = SegmentMargins(days)
  BY DEF DailyMargin
<1> HIDE DEF days, R
<1>4. ASSUME NEW g \in Segment
      PROVE  /\ of[g].revenue = Total([d \in {x} |-> RowRevenue(mine(g))])
             /\ of[g].cogs = Total([d \in {x} |-> RowCogs(mine(g))])
  <2>1. /\ of[g].revenue = Total([d \in DOMAIN days |-> RowRevenue({r \in Counted(days[d]) : r.segment = g})])
        /\ of[g].cogs = Total([d \in DOMAIN days |-> RowCogs({r \in Counted(days[d]) : r.segment = g})])
    BY <1>3 DEF SegmentMargins, OverDays
  <2>2. /\ [d \in DOMAIN days |-> RowRevenue({r \in Counted(days[d]) : r.segment = g})]
              = [d \in {x} |-> RowRevenue(mine(g))]
        /\ [d \in DOMAIN days |-> RowCogs({r \in Counted(days[d]) : r.segment = g})]
              = [d \in {x} |-> RowCogs(mine(g))]
    BY <1>2
  <2> QED BY <2>1, <2>2
<1>5. ASSUME NEW n \in Int PROVE Total([d \in {x} |-> n]) = n
  <2> DEFINE h == [d \in {x} |-> n]
  <2>1. DOMAIN h = {x} /\ h[x] = n
    OBVIOUS
  <2> HIDE DEF h
  <2>2. Total(h) = SumFunctionOnSet(h, {x}) /\ SumFunctionOnSet(h, {x}) = n
    BY <2>1, TotalIs, SumSingle
  <2> QED BY <2>2 DEF h
<1>6. X \in SUBSET R /\ RowTyping(R)
  BY DEF Counted, R
<1> HIDE DEF X
<1>7. /\ RowRevenue(mine("cafe")) \in Nat /\ RowRevenue(mine("bar")) \in Nat
      /\ RowRevenue(X) = RowRevenue(mine("cafe")) + RowRevenue(mine("bar"))
      /\ RowCogs(mine("cafe")) \in Int /\ RowCogs(mine("bar")) \in Int
      /\ RowCogs(X) = RowCogs(mine("cafe")) + RowCogs(mine("bar"))
  BY <1>6, ShiftSplit
<1>8. "cafe" \in Segment /\ "bar" \in Segment
  BY DEF Segment
<1> HIDE DEF of, mine
<1>9. /\ of["cafe"].revenue = RowRevenue(mine("cafe")) /\ of["cafe"].cogs = RowCogs(mine("cafe"))
      /\ of["bar"].revenue = RowRevenue(mine("bar")) /\ of["bar"].cogs = RowCogs(mine("bar"))
  <2> DEFINE m == RowRevenue(mine("cafe"))
             n == RowCogs(mine("cafe"))
             p == RowRevenue(mine("bar"))
             q == RowCogs(mine("bar"))
  <2>1. m \in Int /\ n \in Int /\ p \in Int /\ q \in Int
    BY <1>7
  <2>2. /\ of["cafe"].revenue = Total([d \in {x} |-> m]) /\ of["cafe"].cogs = Total([d \in {x} |-> n])
        /\ of["bar"].revenue = Total([d \in {x} |-> p]) /\ of["bar"].cogs = Total([d \in {x} |-> q])
    BY <1>4, <1>8
  <2> HIDE DEF m, n, p, q
  <2>3. /\ Total([d \in {x} |-> m]) = m /\ Total([d \in {x} |-> n]) = n
        /\ Total([d \in {x} |-> p]) = p /\ Total([d \in {x} |-> q]) = q
    BY <1>5, <2>1
  <2>4. of["cafe"].revenue = m /\ of["cafe"].cogs = n /\ of["bar"].revenue = p /\ of["bar"].cogs = q
    BY <2>2, <2>3
  <2> QED BY <2>4 DEF m, n, p, q
<1>10. /\ DOMAIN f = Segment /\ f["cafe"] = RowRevenue(mine("cafe")) - RowCogs(mine("cafe"))
       /\ f["bar"] = RowRevenue(mine("bar")) - RowCogs(mine("bar"))
  BY <1>8, <1>9
<1> HIDE DEF f
<1>11. Total(f) = f["cafe"] + f["bar"]
  BY <1>7, <1>10, TotalOfShifts
<1>12. Total(f) = RowRevenue(X) - RowCogs(X)
  BY <1>7, <1>10, <1>11
<1> QED BY <1>12 DEF f, X, R, of

\* The goal's average is over what the segments of the days' reviews contribute
\* (daily_review.py, goal progress).
LEMMA GoalIsSegments ==
  ASSUME ReportsIInv, sales # {}, NEW d \in Day
  PROVE  LET first == Min({s.day : s \in sales})
             window == Max({first, d - RollingDays + 1})..d
             contributed(x) ==
               LET of == DailyMargin(x).segments
               IN Total([g \in Segment |-> of[g].revenue - of[g].cogs])
         IN GoalProgress(d) = [total |-> Total([x \in window |-> contributed(x)]),
                               days |-> Cardinality(window)]
<1> DEFINE V == {s.day : s \in sales}
           first == Min(V)
           low == d - RollingDays + 1
           from == Max({first, low})
           W == from..d
           days == MarginsOverRange(from, d)
           margin(x) == LET of == DailyMargin(x).segments
                        IN Total([g \in Segment |-> of[g].revenue - of[g].cogs])
<1>1. SalesTyping(sales)
  BY DEF ReportsIInv
<1>2. d \in Int /\ d <= LastDay /\ LastDay \in Int
  BY ReportsAssumption DEF Day
<1>3. first \in Int /\ first >= 1
  <2> DEFINE f == [s \in sales |-> s.day]
  <2>1. V = {f[s] : s \in sales}
    OBVIOUS
  <2>2. IsFiniteSet(V)
    <3> HIDE DEF f, V
    <3> QED BY <1>1, <2>1, ImageFinite DEF SalesTyping
  <2>3. V \in SUBSET Int /\ V # {} /\ \A x \in V : x >= 1
    BY <1>1 DEF SalesTyping
  <2> HIDE DEF V
  <2>4. first \in V
    BY <2>2, <2>3, MinFinite
  <2> HIDE DEF first
  <2> QED BY <2>3, <2>4
<1>4. low \in Int
  BY <1>2, ReportsAssumption
<1> HIDE DEF V, first, low
<1>5. from \in Int /\ from >= 1
  <2> DEFINE E == {first, low}
  <2>1. E \in SUBSET Int /\ E # {} /\ first \in E
    BY <1>3, <1>4
  <2>2. IsFiniteSet(E)
    <3>1. IsFiniteSet({first}) /\ E = {first} \cup {low}
      BY FS_Singleton
    <3> HIDE DEF E
    <3> QED BY <3>1, FS_AddElement
  <2>3. from = Max(E)
    OBVIOUS
  <2> HIDE DEF from, E
  <2>4. Max(E) \in E /\ \A x \in E : x <= Max(E)
    BY <2>1, <2>2, MaxFinite
  <2>5. from \in Int /\ first <= from
    BY <2>1, <2>3, <2>4
  <2> QED BY <1>3, <2>5
<1> HIDE DEF from
<1>6. \A x \in W : x \in Int /\ x \in Day
  BY <1>2, <1>5 DEF Day
<1>7. DOMAIN days = W /\ \A x \in W : days[x] = RowsOn(x)
  BY DEF MarginsOverRange
<1>8. ASSUME NEW x \in W
      PROVE  RowRevenue(Counted(days[x])) - RowCogs(days[x]) = margin(x)
  <2> DEFINE R == RowsOn(x)
  <2>1. x \in Int /\ x \in Day /\ days[x] = R
    BY <1>6, <1>7
  <2>2. RowTyping(R)
    BY <2>1, RowsTyped
  <2>3. margin(x) = RowRevenue(Counted(R)) - RowCogs(Counted(R))
    BY <2>1, <2>2, ContributedIs
  <2> HIDE DEF R, margin
  <2>4. RowCogs(R) = RowCogs(Counted(R))
    BY <2>2, CountedSplit
  <2> QED BY <2>1, <2>3, <2>4
<1> HIDE DEF days
<1>9. GoalProgress(d) = [total |-> Total([x \in DOMAIN days |->
                                            RowRevenue(Counted(days[x])) - RowCogs(days[x])]),
                         days |-> Cardinality(W)]
  BY DEF GoalProgress, OverDays, days, from, first, low, V
<1>10. [x \in DOMAIN days |-> RowRevenue(Counted(days[x])) - RowCogs(days[x])]
         = [x \in W |-> margin(x)]
  <2> HIDE DEF margin, W
  <2> QED BY <1>7, <1>8
<1>11. GoalProgress(d) = [total |-> Total([x \in W |-> margin(x)]), days |-> Cardinality(W)]
  <2> HIDE DEF margin, W
  <2> QED BY <1>9, <1>10
<1> QED BY <1>11 DEF from, first, low, V

-----------------------------------------------------------------------------
\* What steps of one satang at most add up to.
LEMMA SumOfSteps ==
  ASSUME NEW S, IsFiniteSet(S), NEW f, \A x \in S : f[x] \in -1..1
  PROVE  SumFunctionOnSet(f, S) \in -Cardinality(S)..Cardinality(S)
<1> DEFINE T == {p \in SUBSET S : SumFunctionOnSet(f, p) \in -Cardinality(p)..Cardinality(p)}
<1>1. {} \in T
  <2>1. SumFunctionOnSet(f, {}) = 0 /\ Cardinality({}) = 0
    BY SumEmpty, FS_EmptySet
  <2> QED BY <2>1
<1>2. ASSUME NEW p \in SUBSET S, NEW x \in p, p \ {x} \in T PROVE p \in T
  <2> DEFINE rest == p \ {x}
  <2>1. IsFiniteSet(p) /\ IsFiniteSet(rest) /\ Cardinality(rest) \in Nat
        /\ Cardinality(rest) = Cardinality(p) - 1 /\ Cardinality(p) \in Nat
    BY FS_Subset, FS_RemoveElement, FS_CardinalityType
  <2>2. Summable(f, p) /\ Summable(f, rest)
    BY <2>1 DEF Summable
  <2>3. SumFunctionOnSet(f, p) = f[x] + SumFunctionOnSet(f, rest)
    BY <2>2, SumMember
  <2>4. SumFunctionOnSet(f, rest) \in -Cardinality(rest)..Cardinality(rest) /\ f[x] \in -1..1
    BY <1>2
  <2> HIDE DEF rest
  <2>5. SumFunctionOnSet(f, p) \in -Cardinality(p)..Cardinality(p)
    BY <2>1, <2>3, <2>4
  <2> QED BY <2>5
<1>3. T = SUBSET S
  <2>1. T \in SUBSET (SUBSET S)
    OBVIOUS
  <2> HIDE DEF T
  <2> QED BY <1>1, <1>2, <2>1, FiniteInduction
<1> QED BY <1>3

\* A whole quotient is not rounded.
LEMMA WholesStay ==
  ASSUME NEW k \in Nat, NEW d \in Nat \ {0}
  PROVE  RoundHalfEven(k * d, d) = k
<1> DEFINE n == k * d
           q == n \div d
           r == n % d
<1>1. n \in Int
  OBVIOUS
<1>2. q \in Int /\ r \in Int /\ 0 <= r /\ r < d /\ n = d * q + r
  <2> HIDE DEF n
  <2> QED BY <1>1
<1>3. RoundHalfEven(n, d) = IF 2 * r < d \/ (2 * r = d /\ q % 2 = 0) THEN q ELSE q + 1
  BY DEF RoundHalfEven
<1>4. n = d * k
  OBVIOUS
<1> HIDE DEF n, q, r
<1>5. d * (k - q) = r
  <2>1. d * (k - q) = d * k - d * q /\ d * k \in Int /\ d * q \in Int
    BY <1>2
  <2> QED BY <1>2, <1>4, <2>1
<1>6. \A j \in Int : (j >= 1 => d * j >= d) /\ (j <= -1 => d * j <= -d)
  OBVIOUS
<1>7. k - q = 0
  <2> DEFINE j == k - q
  <2>1. j \in Int /\ d * j = r
    BY <1>2, <1>5
  <2> HIDE DEF j
  <2>2. j = 0
    BY <1>2, <1>6, <2>1
  <2> QED BY <2>2 DEF j
<1>8. q = k /\ r = 0
  <2>1. q = k
    BY <1>2, <1>7
  <2>2. d * k - d * q = 0
    BY <2>1
  <2> QED BY <1>2, <1>4, <2>1
<1> QED BY <1>3, <1>8 DEF n

-----------------------------------------------------------------------------
\* The days of a range in a month: at most all of it, and of a range cut in two
\* those of the one part and of the other.
LEMMA CoveredIs ==
  ASSUME NEW m \in Int, NEW a \in Int, NEW b \in Int
  PROVE  /\ CoveredDays(m, a, b) \in Nat
         /\ MonthOf(b) < m \/ m < MonthOf(a) => CoveredDays(m, a, b) = 0
         /\ \A c \in a..(b - 1) :
              CoveredDays(m, a, b) = CoveredDays(m, a, c) + CoveredDays(m, c + 1, b)
<1> DEFINE R == FirstOf(m)..LastOf(m)
<1>1. /\ FirstOf(m) \in Int /\ LastOf(m) \in Int /\ LastOf(m - 1) = FirstOf(m) - 1
  <2>1. FirstOf(m) \in Int /\ LastOf(m) \in Int
    BY MonthDates
  <2>2. LastOf(m - 1) = (m - 1) * MonthDays /\ FirstOf(m) = (m - 1) * MonthDays + 1
    BY DEF LastOf, FirstOf
  <2>3. (m - 1) * MonthDays \in Int
    BY ReportsAssumption
  <2> QED BY <2>1, <2>2, <2>3
<1>2. \A x, y \in Int : IsFiniteSet((x..y) \cap R) /\ CoveredDays(m, x, y) = Cardinality((x..y) \cap R)
  BY FS_Interval, FS_Subset DEF CoveredDays
<1>3. CoveredDays(m, a, b) \in Nat
  BY <1>2, FS_CardinalityType
<1>4. ASSUME MonthOf(b) < m \/ m < MonthOf(a) PROVE CoveredDays(m, a, b) = 0
  <2>1. /\ MonthOf(b) \in Int /\ (MonthOf(b) <= m - 1 <=> b <= LastOf(m - 1))
        /\ MonthOf(a) \in Int /\ (MonthOf(a) <= m <=> a <= LastOf(m))
    <3>1. m - 1 \in Int
      OBVIOUS
    <3> QED BY <3>1, MonthsEnd
  <2>2. b < FirstOf(m) \/ LastOf(m) < a
    BY <1>1, <1>4, <2>1
  <2>3. (a..b) \cap R = {}
    BY <1>1, <2>2
  <2> HIDE DEF R
  <2> QED BY <1>2, <2>3, FS_EmptySet
<1>5. ASSUME NEW c \in a..(b - 1)
      PROVE  CoveredDays(m, a, b) = CoveredDays(m, a, c) + CoveredDays(m, c + 1, b)
  <2> DEFINE L == (a..c) \cap R
             U == ((c + 1)..b) \cap R
  <2>1. (a..b) \cap R = L \cup U /\ L \cap U = {}
    <3> HIDE DEF R
    <3> QED OBVIOUS
  <2>2. c \in Int /\ c + 1 \in Int
    OBVIOUS
  <2>3. /\ IsFiniteSet(L) /\ CoveredDays(m, a, c) = Cardinality(L)
        /\ IsFiniteSet(U) /\ CoveredDays(m, c + 1, b) = Cardinality(U)
        /\ CoveredDays(m, a, b) = Cardinality(L \cup U)
    <3> HIDE DEF R
    <3> QED BY <1>2, <2>1, <2>2
  <2> HIDE DEF L, U
  <2>4. Cardinality(L \cup U) = Cardinality(L) + Cardinality(U) - Cardinality({})
    BY <2>1, <2>3, FS_Union
  <2>5. Cardinality(L) \in Nat /\ Cardinality(U) \in Nat /\ Cardinality({}) = 0
    BY <2>3, FS_CardinalityType, FS_EmptySet
  <2> QED BY <2>3, <2>4, <2>5
<1> QED BY <1>3, <1>4, <1>5

\* What a cost is charged for a month in a range.
Charge(e, m, a, b) ==
  IF AppliesInMonth(e, m) THEN RoundHalfEven(e.amount * CoveredDays(m, a, b), MonthDays) ELSE 0

\* Nothing where the range has no day of the month.
LEMMA ChargeIs ==
  ASSUME NEW e, e.amount \in Nat, NEW m \in Int, NEW a \in Int, NEW b \in Int
  PROVE  /\ Charge(e, m, a, b) \in Int
         /\ CoveredDays(m, a, b) = 0 => Charge(e, m, a, b) = 0
         /\ AppliesInMonth(e, m) =>
              Charge(e, m, a, b) = IF CoveredDays(m, a, b) = MonthDays THEN e.amount
                                   ELSE RoundHalfEven(e.amount * CoveredDays(m, a, b), MonthDays)
<1> DEFINE n == CoveredDays(m, a, b)
<1>1. n \in Nat /\ MonthDays \in Nat \ {0}
  BY CoveredIs, ReportsAssumption
<1>2. Charge(e, m, a, b) = IF AppliesInMonth(e, m) THEN RoundHalfEven(e.amount * n, MonthDays) ELSE 0
  BY DEF Charge
<1> HIDE DEF n
<1>3. e.amount * n \in Int
  BY <1>1
<1>4. RoundHalfEven(e.amount * n, MonthDays) \in Int
  BY <1>1, <1>3, RoundingIsClose
<1>5. n = 0 => RoundHalfEven(e.amount * n, MonthDays) = 0
  <2>1. RoundHalfEven(0 * MonthDays, MonthDays) = 0
    BY <1>1, WholesStay
  <2>2. n = 0 => e.amount * n = 0 * MonthDays
    BY <1>1
  <2> QED BY <2>1, <2>2
<1>6. n = MonthDays => RoundHalfEven(e.amount * n, MonthDays) = e.amount
  BY <1>1, WholesStay
<1> QED BY <1>2, <1>4, <1>5, <1>6 DEF n

\* A line is what its cost is charged for the months of the range, and for no
\* other month.
LEMMA LineIs ==
  ASSUME NEW e, e.amount \in Nat, NEW a \in Int, NEW b \in Int,
         NEW i \in Int, i <= MonthOf(a), NEW j \in Int, MonthOf(b) <= j
  PROVE  LineForEntry(e, a, b) = SumFunctionOnSet([m \in i..j |-> Charge(e, m, a, b)], i..j)
<1> DEFINE R == i..j
           A == {x \in MonthOf(a)..MonthOf(b) : AppliesInMonth(e, x)}
           f == [x \in A |-> IF CoveredDays(x, a, b) = MonthDays THEN e.amount
                             ELSE RoundHalfEven(e.amount * CoveredDays(x, a, b), MonthDays)]
           g == [m \in i..j |-> Charge(e, m, a, b)]
<1>1. MonthOf(a) \in Int /\ MonthOf(b) \in Int
  BY MonthsEnd
<1>2. A \in SUBSET R /\ \A m \in R : m \in Int
  BY <1>1
<1>3. \A m \in A : f[m] = g[m]
  <2>1. \A m \in A : m \in Int /\ AppliesInMonth(e, m) /\ m \in i..j
    BY <1>1
  <2> QED BY <2>1, ChargeIs
<1>4. \A m \in R : g[m] \in Int
  BY <1>2, ChargeIs
<1>5. \A m \in R \ A : g[m] = 0
  <2> SUFFICES ASSUME NEW m \in R \ A PROVE Charge(e, m, a, b) = 0
    OBVIOUS
  <2>1. m \in Int
    OBVIOUS
  <2>2. CASE ~AppliesInMonth(e, m)
    BY <2>2 DEF Charge
  <2>3. CASE AppliesInMonth(e, m)
    <3>1. m \notin MonthOf(a)..MonthOf(b)
      BY <2>3
    <3>2. MonthOf(b) < m \/ m < MonthOf(a)
      BY <1>1, <2>1, <3>1
    <3>3. CoveredDays(m, a, b) = 0
      BY <2>1, <3>2, CoveredIs
    <3> QED BY <2>1, <3>3, ChargeIs
  <2> QED BY <2>2, <2>3
<1>6. LineForEntry(e, a, b) = Total(f) /\ DOMAIN f = A
  BY DEF LineForEntry
<1>7. IsFiniteSet(R)
  BY FS_Interval
<1> HIDE DEF R, A, f, g
<1>8. Summable(g, R) /\ Summable(g, A) /\ Summable(g, R \ A) /\ IsFiniteSet(R \ A)
  BY <1>2, <1>4, <1>7, FS_Subset DEF Summable
<1>9. SumFunctionOnSet(g, A \cup (R \ A)) = SumFunctionOnSet(g, A) + SumFunctionOnSet(g, R \ A)
  <2>1. A \cap (R \ A) = {}
    OBVIOUS
  <2> QED BY <1>8, <2>1, SumUnion
<1>10. A \cup (R \ A) = R
  BY <1>2
<1>11. SumFunctionOnSet(g, R \ A) = 0
  BY <1>5, <1>8, SumZero
<1>12. SumFunctionOnSet(f, A) = SumFunctionOnSet(g, A)
  <2>1. \A m \in A : g[m] = f[m]
    BY <1>3
  <2> QED BY <1>8, <2>1, SumSame
<1>13. SumFunctionOnSet(g, A) \in Int
  BY <1>8, SumType
<1>14. Total(f) = SumFunctionOnSet(f, A)
  BY <1>6, TotalIs
<1>15. LineForEntry(e, a, b) = SumFunctionOnSet(g, R)
  BY <1>6, <1>9, <1>10, <1>11, <1>12, <1>13, <1>14
<1> QED BY <1>15 DEF g, R

-----------------------------------------------------------------------------
\* A month is charged for a range what it is for the two parts of it, but for a
\* satang in the month of the cut.
LEMMA MonthCut ==
  ASSUME NEW e, e.amount \in Nat, NEW m \in Int, NEW a \in Int, NEW b \in Int, NEW c \in a..(b - 1)
  PROVE  LET cut == Charge(e, m, a, b) - Charge(e, m, a, c) - Charge(e, m, c + 1, b)
         IN /\ cut \in -1..1
            /\ m # MonthOf(c) \/ c = LastOf(MonthOf(c)) => cut = 0
<1> DEFINE x == Charge(e, m, a, b)
           y == Charge(e, m, a, c)
           z == Charge(e, m, c + 1, b)
           p == CoveredDays(m, a, b)
           q == CoveredDays(m, a, c)
           r == CoveredDays(m, c + 1, b)
           D == MonthDays
           A == e.amount
<1>1. c \in Int /\ c + 1 \in Int /\ D \in Nat /\ D > 0 /\ A \in Nat
  BY ReportsAssumption
<1>2. x \in Int /\ y \in Int /\ z \in Int /\ p \in Nat /\ q \in Nat /\ r \in Nat
  BY <1>1, ChargeIs, CoveredIs
<1>3. p = q + r
  BY CoveredIs
<1>4. (q = 0 => y = 0) /\ (r = 0 => z = 0)
  BY <1>1, ChargeIs
<1>5. (q = p => x = y) /\ (r = p => x = z)
  BY DEF Charge
<1>6. MonthOf(c) \in Int /\ MonthOf(c + 1) \in Int
  BY <1>1, MonthsEnd
<1>7. m > MonthOf(c) => q = 0
  BY <1>1, <1>6, CoveredIs
<1>8. m < MonthOf(c) \/ (m = MonthOf(c) /\ c = LastOf(m)) => r = 0
  <2>1. (MonthOf(c) <= m <=> c <= LastOf(m)) /\ (MonthOf(c + 1) <= m <=> c + 1 <= LastOf(m))
    BY <1>1, MonthsEnd
  <2>2. LastOf(m) \in Int
    BY MonthDates
  <2>3. m < MonthOf(c) \/ (m = MonthOf(c) /\ c = LastOf(m)) => m < MonthOf(c + 1)
    BY <1>1, <1>6, <2>1, <2>2
  <2> QED BY <1>1, <2>3, CoveredIs
<1>9. CASE m # MonthOf(c) \/ c = LastOf(MonthOf(c))
  <2>1. q = 0 \/ r = 0
    BY <1>6, <1>7, <1>8, <1>9
  <2> HIDE DEF x, y, z, p, q, r
  <2>2. x - y - z = 0
    BY <1>2, <1>3, <1>4, <1>5, <2>1
  <2> QED BY <2>2 DEF x, y, z
<1>10. CASE ~(m # MonthOf(c) \/ c = LastOf(MonthOf(c)))
  <2>1. CASE ~AppliesInMonth(e, m)
    BY <1>10, <2>1 DEF Charge
  <2>2. CASE AppliesInMonth(e, m)
    <3>1. x = RoundHalfEven(A * p, D) /\ y = RoundHalfEven(A * q, D) /\ z = RoundHalfEven(A * r, D)
      BY <2>2 DEF Charge
    <3> HIDE DEF x, y, z, p, q, r, D, A
    <3>2. A * p \in Int /\ A * q \in Int /\ A * r \in Int /\ A * p = A * q + A * r
      <4>1. A * (q + r) = A * q + A * r
        BY <1>1, <1>2
      <4>2. A * p \in Int /\ A * q \in Int /\ A * r \in Int
        BY <1>1, <1>2
      <4> QED BY <1>3, <4>1, <4>2
    <3>3. D \in Nat \ {0}
      BY <1>1
    <3>4. 2 * (D * x) - 2 * (A * p) \in -D..D
      BY <3>1, <3>2, <3>3, RoundingIsClose
    <3>5. 2 * (D * y) - 2 * (A * q) \in -D..D
      BY <3>1, <3>2, <3>3, RoundingIsClose
    <3>6. 2 * (D * z) - 2 * (A * r) \in -D..D
      BY <3>1, <3>2, <3>3, RoundingIsClose
    <3> DEFINE w == x - y - z
    <3>7. D * w = D * x - D * y - D * z /\ D * x \in Int /\ D * y \in Int /\ D * z \in Int
      <4>1. D * w = D * x - D * y - D * z
        BY <1>1, <1>2
      <4> QED BY <1>1, <1>2, <4>1
    <3>8. w \in Int /\ D * w \in Int
      BY <1>1, <1>2
    <3> HIDE DEF w
    <3>9. 2 * (D * w) <= 3 * D /\ 2 * (D * w) >= -(3 * D)
      <4> DEFINE u == D * w
                 s == D * x
                 t == D * y
                 v == D * z
                 i == A * q
                 k == A * r
      <4>1. u = s - t - v /\ s \in Int /\ t \in Int /\ v \in Int /\ i \in Int /\ k \in Int
        BY <3>2, <3>7
      <4>2. 2 * s - 2 * (i + k) \in -D..D /\ 2 * t - 2 * i \in -D..D /\ 2 * v - 2 * k \in -D..D
        BY <3>2, <3>4, <3>5, <3>6
      <4> HIDE DEF u, s, t, v, i, k
      <4>3. 2 * u <= 3 * D /\ 2 * u >= -(3 * D)
        BY <1>1, <4>1, <4>2
      <4> QED BY <4>3 DEF u
    <3>10. (w >= 2 => D * w >= 2 * D) /\ (w <= -2 => D * w <= -(2 * D))
      <4>1. \A n \in Nat, g \in Int : (g >= 2 => n * g >= 2 * n) /\ (g <= -2 => n * g <= -(2 * n))
        OBVIOUS
      <4> QED BY <1>1, <3>8, <4>1
    <3>11. w \in -1..1
      BY <1>1, <3>8, <3>9, <3>10
    <3> QED BY <1>10, <3>11 DEF w, x, y, z
  <2> QED BY <2>1, <2>2
<1> QED BY <1>9, <1>10

\* So a cost is charged for a range what it is for the two parts of it, but for
\* a satang, and for nothing where the cut is between two months.
LEMMA LineCut ==
  ASSUME NEW e, e.amount \in Nat, NEW a \in Int, NEW b \in Int, NEW c \in a..(b - 1)
  PROVE  LET cut == LineForEntry(e, a, b) - LineForEntry(e, a, c) - LineForEntry(e, c + 1, b)
         IN /\ LineForEntry(e, a, b) \in Int /\ LineForEntry(e, a, c) \in Int
            /\ LineForEntry(e, c + 1, b) \in Int
            /\ cut \in -1..1
            /\ c = LastOf(MonthOf(c)) => cut = 0
<1> DEFINE i == MonthOf(a)
           j == MonthOf(b)
           K == MonthOf(c)
           R == i..j
           x == [m \in R |-> Charge(e, m, a, b)]
           y == [m \in R |-> Charge(e, m, a, c)]
           z == [m \in R |-> Charge(e, m, c + 1, b)]
           w == [m \in R |-> x[m] - y[m] - z[m]]
           v == [m \in R |-> y[m] + z[m]]
<1>1. c \in Int /\ c + 1 \in Int /\ a <= c /\ c + 1 <= b
  OBVIOUS
<1>2. /\ i \in Int /\ j \in Int /\ K \in Int /\ MonthOf(c + 1) \in Int
      /\ i <= K /\ K <= MonthOf(c + 1) /\ MonthOf(c + 1) <= j
  <2>1. \A d, n \in Int : MonthOf(d) \in Int /\ (MonthOf(d) <= n <=> d <= LastOf(n))
    BY MonthsEnd
  <2>2. \A d, n \in Int : d <= n => MonthOf(d) <= MonthOf(n)
    <3> SUFFICES ASSUME NEW d \in Int, NEW n \in Int, d <= n PROVE MonthOf(d) <= MonthOf(n)
      OBVIOUS
    <3>1. MonthOf(n) \in Int /\ n <= LastOf(MonthOf(n)) /\ LastOf(MonthOf(n)) \in Int
      BY <2>1, MonthDates
    <3>2. d <= LastOf(MonthOf(n))
      BY <3>1
    <3> QED BY <2>1, <3>1, <3>2
  <2>3. c <= c + 1
    BY <1>1
  <2> QED BY <1>1, <2>1, <2>2, <2>3
<1>3. LineForEntry(e, a, b) = SumFunctionOnSet(x, R)
  <2>1. i <= i /\ j <= j
    BY <1>2
  <2> QED BY <1>2, <2>1, LineIs
<1>4. LineForEntry(e, a, c) = SumFunctionOnSet(y, R)
  <2>1. i <= i /\ K <= j
    BY <1>2
  <2> QED BY <1>1, <1>2, <2>1, LineIs
<1>5. LineForEntry(e, c + 1, b) = SumFunctionOnSet(z, R)
  <2>1. i <= MonthOf(c + 1) /\ j <= j
    BY <1>2
  <2> QED BY <1>1, <1>2, <2>1, LineIs
<1>6. K \in R /\ IsFiniteSet(R) /\ \A m \in R : m \in Int
  <2>1. K \in i..j
    <3> HIDE DEF i, j, K
    <3> QED BY <1>2
  <2>2. IsFiniteSet(i..j)
    BY <1>2, FS_Interval
  <2>3. \A m \in i..j : m \in Int
    <3> HIDE DEF i, j
    <3> QED BY <1>2
  <2> QED BY <2>1, <2>2, <2>3
<1>7. \A m \in R : x[m] \in Int /\ y[m] \in Int /\ z[m] \in Int
  BY <1>1, <1>6, ChargeIs
<1>8. \A m \in R : w[m] \in -1..1 /\ (m # K \/ c = LastOf(K) => w[m] = 0)
  BY <1>6, MonthCut
<1>9. \A m \in R : x[m] = w[m] + v[m] /\ v[m] = y[m] + z[m] /\ w[m] \in Int /\ v[m] \in Int
  <2> SUFFICES ASSUME NEW m \in R
               PROVE  x[m] = w[m] + v[m] /\ v[m] = y[m] + z[m] /\ w[m] \in Int /\ v[m] \in Int
    OBVIOUS
  <2>1. w[m] = x[m] - y[m] - z[m] /\ v[m] = y[m] + z[m]
    OBVIOUS
  <2> HIDE DEF x, y, z, w, v
  <2> QED BY <1>7, <2>1
<1> HIDE DEF i, j, K, R, x, y, z, w, v
<1>10. Summable(x, R) /\ Summable(y, R) /\ Summable(z, R) /\ Summable(w, R) /\ Summable(v, R)
  BY <1>6, <1>7, <1>9 DEF Summable
<1>11. SumFunctionOnSet(x, R) = SumFunctionOnSet(w, R) + SumFunctionOnSet(v, R)
  BY <1>9, <1>10, SumPlus
<1>12. SumFunctionOnSet(v, R) = SumFunctionOnSet(y, R) + SumFunctionOnSet(z, R)
  BY <1>9, <1>10, SumPlus
<1>13. SumFunctionOnSet(w, R) = w[K]
  <2>1. SumFunctionOnSet(w, R) = w[K] + SumFunctionOnSet(w, R \ {K})
    BY <1>6, <1>10, SumMember
  <2>2. IsFiniteSet(R \ {K}) /\ \A m \in R \ {K} : w[m] = 0
    BY <1>6, <1>8, FS_Subset
  <2>3. SumFunctionOnSet(w, R \ {K}) = 0
    BY <2>2, SumZero
  <2> QED BY <1>6, <1>9, <2>1, <2>3
<1>14. /\ SumFunctionOnSet(x, R) \in Int /\ SumFunctionOnSet(y, R) \in Int
       /\ SumFunctionOnSet(z, R) \in Int
  BY <1>10, SumType
<1>15. w[K] \in -1..1 /\ (c = LastOf(K) => w[K] = 0)
  BY <1>6, <1>8
<1>16. LineForEntry(e, a, b) - LineForEntry(e, a, c) - LineForEntry(e, c + 1, b) = w[K]
  BY <1>3, <1>4, <1>5, <1>11, <1>12, <1>13, <1>14, <1>15
<1>17. c = LastOf(MonthOf(c)) => w[K] = 0
  BY <1>15 DEF K
<1> QED BY <1>3, <1>4, <1>5, <1>14, <1>15, <1>16, <1>17

\* And what all of them are.
LEMMA CostsAddUp == ReportsIInv => FixedCostsAddUp
<1> SUFFICES ASSUME ReportsIInv, NEW a \in Day, NEW b \in a..LastDay, NEW c \in a..(b - 1)
             PROVE  LET whole == FixedCostsForPeriod(fixed, a, b)
                        parts == FixedCostsForPeriod(fixed, a, c) + FixedCostsForPeriod(fixed, c + 1, b)
                    IN /\ whole - parts \in -Cardinality(DOMAIN fixed)..Cardinality(DOMAIN fixed)
                       /\ c = LastOf(MonthOf(c)) => whole = parts
  BY DEF FixedCostsAddUp
<1> DEFINE S == DOMAIN fixed
           n == Cardinality(S)
           x == [id \in S |-> LineForEntry(fixed[id], a, b)]
           y == [id \in S |-> LineForEntry(fixed[id], a, c)]
           z == [id \in S |-> LineForEntry(fixed[id], c + 1, b)]
           w == [id \in S |-> x[id] - y[id] - z[id]]
           v == [id \in S |-> y[id] + z[id]]
<1>1. a \in Int /\ b \in Int /\ c \in Int
  BY DEF Day
<1>2. IsFiniteSet(S) /\ \A id \in S : fixed[id].amount \in Nat
  BY DEF ReportsIInv, FixedTyping, Cost
<1>3. /\ FixedCostsForPeriod(fixed, a, b) = Total(x) /\ FixedCostsForPeriod(fixed, a, c) = Total(y)
      /\ FixedCostsForPeriod(fixed, c + 1, b) = Total(z)
  BY DEF FixedCostsForPeriod
<1>4. \A id \in S : x[id] \in Int /\ y[id] \in Int /\ z[id] \in Int
  BY <1>1, <1>2, LineCut
<1>5. \A id \in S : w[id] \in -1..1 /\ (c = LastOf(MonthOf(c)) => w[id] = 0)
  BY <1>1, <1>2, LineCut
<1>6. \A id \in S : x[id] = w[id] + v[id] /\ v[id] = y[id] + z[id] /\ w[id] \in Int /\ v[id] \in Int
  <2> SUFFICES ASSUME NEW id \in S
               PROVE  x[id] = w[id] + v[id] /\ v[id] = y[id] + z[id] /\ w[id] \in Int /\ v[id] \in Int
    OBVIOUS
  <2>1. w[id] = x[id] - y[id] - z[id] /\ v[id] = y[id] + z[id]
    OBVIOUS
  <2> HIDE DEF x, y, z, w, v
  <2> QED BY <1>4, <2>1
<1>7. DOMAIN x = S /\ DOMAIN y = S /\ DOMAIN z = S
  OBVIOUS
<1> HIDE DEF S, x, y, z, w, v
<1>8. Summable(x, S) /\ Summable(y, S) /\ Summable(z, S) /\ Summable(w, S) /\ Summable(v, S)
  BY <1>2, <1>4, <1>6 DEF Summable
<1>9. SumFunctionOnSet(x, S) = SumFunctionOnSet(w, S) + SumFunctionOnSet(v, S)
  BY <1>6, <1>8, SumPlus
<1>10. SumFunctionOnSet(v, S) = SumFunctionOnSet(y, S) + SumFunctionOnSet(z, S)
  BY <1>6, <1>8, SumPlus
<1>11. /\ SumFunctionOnSet(x, S) \in Int /\ SumFunctionOnSet(y, S) \in Int
       /\ SumFunctionOnSet(z, S) \in Int /\ SumFunctionOnSet(w, S) \in Int
  BY <1>8, SumType
<1>12. SumFunctionOnSet(w, S) \in -n..n
  BY <1>2, <1>5, SumOfSteps
<1>13. c = LastOf(MonthOf(c)) => SumFunctionOnSet(w, S) = 0
  BY <1>2, <1>5, SumZero
<1>14. /\ Total(x) = SumFunctionOnSet(x, S) /\ Total(y) = SumFunctionOnSet(y, S)
       /\ Total(z) = SumFunctionOnSet(z, S)
  BY <1>7, TotalIs
<1>15. Total(x) - (Total(y) + Total(z)) = SumFunctionOnSet(w, S)
       /\ Total(x) \in Int /\ Total(y) + Total(z) \in Int
  BY <1>9, <1>10, <1>11, <1>14
<1>16. c = LastOf(MonthOf(c)) => Total(x) = Total(y) + Total(z)
  <2> DEFINE t == Total(x)
             u == Total(y) + Total(z)
  <2>1. t \in Int /\ u \in Int /\ t - u = SumFunctionOnSet(w, S)
    BY <1>15
  <2> HIDE DEF t, u
  <2>2. c = LastOf(MonthOf(c)) => t = u
    BY <1>13, <2>1
  <2> QED BY <2>2 DEF t, u
<1> QED BY <1>3, <1>12, <1>15, <1>16 DEF S

-----------------------------------------------------------------------------
\* The buckets are apart, and those of their days that are not after the anchor
\* are the days from the first bucket's first to it.
Tiles(ranges, anchor) ==
  LET from == Min({r[1] : r \in ranges})
  IN /\ from \in Int /\ \A r \in ranges : r[1] \in Int /\ r[2] \in Int
     /\ \A d \in Int : d <= anchor => (from <= d <=> \E r \in ranges : d \in r[1]..r[2])
     /\ \A r, s \in ranges : r # s => r[2] < s[1] \/ s[2] < r[1]

\* Buckets of n days on end, the last one with the anchor and perhaps cut there,
\* and no day left out.
Strides(p, q, lo, hi, n, anchor) ==
  /\ \E base \in Int : \A i \in p..q : lo[i] = base + i * n
  /\ \A i \in p..q : /\ lo[i] \in Int /\ hi[i] \in Int /\ hi[i] <= lo[i] + n - 1
                     /\ hi[i] >= lo[i] + n - 1 \/ hi[i] >= anchor
  /\ lo[q] <= anchor /\ anchor < lo[q] + n

\* The days of each.
Buckets(p, q, lo, hi) == {<<lo[i], hi[i]>> : i \in p..q}

\* Such buckets are apart and leave no day out.
LEMMA StridesTile ==
  ASSUME NEW p \in Int, NEW q \in Int, p <= q, NEW lo, NEW hi, NEW n \in Nat \ {0},
         NEW anchor \in Int, Strides(p, q, lo, hi, n, anchor)
  PROVE  Tiles(Buckets(p, q, lo, hi), anchor)
<1> DEFINE I == p..q
           ranges == {<<lo[i], hi[i]>> : i \in I}
           from == Min({r[1] : r \in ranges})
           firsts == {lo[i] : i \in I}
<1>1. IsFiniteSet(I) /\ p \in I /\ q \in I /\ (\A i \in I : i \in Int /\ p <= i /\ i <= q)
      /\ \A i \in Int : p <= i /\ i <= q => i \in I
  <2>1. IsFiniteSet(I)
    BY FS_Interval
  <2> QED BY <2>1
<1>2. PICK base \in Int : \A i \in I : lo[i] = base + i * n
  BY DEF Strides
<1>3. \A i \in I : /\ lo[i] \in Int /\ hi[i] \in Int /\ hi[i] <= lo[i] + n - 1
                   /\ hi[i] >= lo[i] + n - 1 \/ hi[i] >= anchor
  BY DEF Strides
<1>4. lo[q] <= anchor /\ anchor < lo[q] + n
  BY DEF Strides
<1>5. /\ firsts = {r[1] : r \in ranges}
      /\ \A r : r \in ranges <=> \E i \in I : r = <<lo[i], hi[i]>>
  <2> HIDE DEF I
  <2>1. \A r : r \in ranges <=> \E i \in I : r = <<lo[i], hi[i]>>
    OBVIOUS
  <2>2. \A i \in I : <<lo[i], hi[i]>>[1] = lo[i]
    OBVIOUS
  <2>3. \A x : x \in firsts <=> \E i \in I : x = lo[i]
    OBVIOUS
  <2>4. \A x : x \in {r[1] : r \in ranges} <=> \E r \in ranges : x = r[1]
    OBVIOUS
  <2> HIDE DEF ranges, firsts
  <2>5. \A x \in firsts : \E r \in ranges : x = r[1]
    <3> SUFFICES ASSUME NEW x \in firsts PROVE \E r \in ranges : x = r[1]
      OBVIOUS
    <3>1. PICK i \in I : x = lo[i]
      BY <2>3
    <3>2. <<lo[i], hi[i]>> \in ranges /\ <<lo[i], hi[i]>>[1] = x
      BY <2>1, <2>2, <3>1
    <3> QED BY <3>2
  <2>6. \A r \in ranges : r[1] \in firsts
    <3> SUFFICES ASSUME NEW r \in ranges PROVE r[1] \in firsts
      OBVIOUS
    <3>1. PICK i \in I : r = <<lo[i], hi[i]>>
      BY <2>1
    <3> QED BY <2>2, <2>3, <3>1
  <2> QED BY <2>1, <2>4, <2>5, <2>6
<1> HIDE DEF I, ranges
<1>6. \A i, j \in Int : /\ i * n \in Int
                        /\ i < j => i * n + n <= j * n
                        /\ i <= j => i * n <= j * n
  <2>1. \A i \in Int, g \in Nat : (i + g) * n = i * n + g * n /\ g * n >= 0 /\ i * n \in Int
                                  /\ g * n \in Int /\ (g >= 1 => g * n >= n)
    OBVIOUS
  <2> SUFFICES ASSUME NEW i \in Int, NEW j \in Int, i <= j
               PROVE  /\ i * n \in Int /\ j * n \in Int
                      /\ i < j => i * n + n <= j * n
                      /\ i * n <= j * n
    BY <2>1
  <2> DEFINE g == j - i
             x == i * n
             y == g * n
  <2>2. g \in Nat /\ j = i + g /\ (i < j => g >= 1)
    OBVIOUS
  <2>3. j * n = x + y /\ y >= 0 /\ x \in Int /\ y \in Int /\ (g >= 1 => y >= n)
    <3> HIDE DEF g
    <3> QED BY <2>1, <2>2
  <2> HIDE DEF g, x, y
  <2>4. x \in Int /\ j * n \in Int /\ (i < j => x + n <= j * n) /\ x <= j * n
    BY <2>2, <2>3
  <2> QED BY <2>4 DEF x
<1>7. from = lo[p]
  <2>1. PICK x \in I : Min(firsts) = lo[x]
    <3>1. \A i \in I : lo[i] \in Int
      BY <1>3
    <3>2. I # {}
      BY <1>1
    <3>3. \E x \in I : Min({lo[z] : z \in I}) = lo[x]
      BY <1>1, <3>1, <3>2, MinMaxImage
    <3> QED BY <3>3
  <2>2. Min(firsts) <= lo[p]
    <3>1. \A i \in I : lo[i] \in Int
      BY <1>3
    <3>2. I # {}
      BY <1>1
    <3>3. \A y \in I : Min({lo[z] : z \in I}) <= lo[y]
      BY <1>1, <3>1, <3>2, MinMaxImage
    <3> QED BY <1>1, <3>3
  <2>3. lo[p] <= lo[x]
    <3>1. p * n <= x * n /\ p * n \in Int /\ x * n \in Int
      BY <1>1, <1>6
    <3> QED BY <1>1, <1>2, <3>1
  <2>4. lo[p] \in Int /\ lo[x] \in Int
    BY <1>1, <1>3
  <2>5. Min(firsts) = lo[p]
    BY <2>1, <2>2, <2>3, <2>4
  <2> QED BY <1>5, <2>5
<1> HIDE DEF firsts, from
<1>8. \A i, j \in I : i < j => hi[i] < lo[j]
  <2> SUFFICES ASSUME NEW i \in I, NEW j \in I, i < j PROVE hi[i] < lo[j]
    OBVIOUS
  <2>1. i * n + n <= j * n /\ i * n \in Int /\ j * n \in Int
    BY <1>1, <1>6
  <2>2. lo[i] = base + i * n /\ lo[j] = base + j * n /\ hi[i] <= lo[i] + n - 1 /\ hi[i] \in Int
    BY <1>2, <1>3
  <2> QED BY <2>1, <2>2
<1>9. \A i \in I : lo[p] <= lo[i]
  <2> SUFFICES ASSUME NEW i \in I PROVE lo[p] <= lo[i]
    OBVIOUS
  <2>1. p * n <= i * n /\ p * n \in Int /\ i * n \in Int
    BY <1>1, <1>6
  <2>2. lo[p] = base + p * n /\ lo[i] = base + i * n
    BY <1>1, <1>2
  <2> QED BY <2>1, <2>2
<1>10. ASSUME NEW d \in Int, d <= anchor, lo[p] <= d
       PROVE  \E i \in I : lo[i] <= d /\ d <= hi[i]
  <2> DEFINE g == d - base
             i == g \div n
  <2>1. g \in Int
    OBVIOUS
  <2>2. i \in Int /\ n * i <= g /\ g < n * i + n
    <3> HIDE DEF g
    <3> QED BY <2>1
  <2>3. n * i = i * n /\ i * n \in Int
    <3> HIDE DEF i
    <3> QED BY <2>2
  <2> HIDE DEF i
  <2>4. base + i * n <= d /\ d < base + i * n + n
    BY <2>2, <2>3
  <2>5. lo[p] = base + p * n /\ lo[q] = base + q * n /\ p * n \in Int /\ q * n \in Int
    BY <1>1, <1>2, <1>6
  <2>6. (i < p => i * n + n <= p * n) /\ (q < i => q * n + n <= i * n)
    BY <1>6, <2>2
  <2>7. i \in I
    <3>1. ~(i < p)
      BY <1>10, <2>3, <2>4, <2>5, <2>6
    <3>2. ~(q < i)
      BY <1>4, <1>10, <2>3, <2>4, <2>5, <2>6
    <3> QED BY <1>1, <2>2, <3>1, <3>2
  <2>8. lo[i] = base + i * n /\ hi[i] \in Int /\ (hi[i] >= lo[i] + n - 1 \/ hi[i] >= anchor)
    BY <1>2, <1>3, <2>7
  <2>9. lo[i] <= d /\ d <= hi[i]
    BY <1>10, <2>3, <2>4, <2>8
  <2> QED BY <2>7, <2>9
<1>11. from \in Int
  BY <1>1, <1>3, <1>7
<1>12. \A r \in ranges : \E i \in I : r[1] = lo[i] /\ r[2] = hi[i] /\ r = <<lo[i], hi[i]>>
  BY <1>5
<1>13. \A r \in ranges : r[1] \in Int /\ r[2] \in Int
  BY <1>3, <1>12
<1>14. ASSUME NEW d \in Int, d <= anchor
       PROVE  from <= d <=> \E r \in ranges : d \in r[1]..r[2]
  <2>1. ASSUME from <= d PROVE \E r \in ranges : d \in r[1]..r[2]
    <3>1. PICK i \in I : lo[i] <= d /\ d <= hi[i]
      BY <1>7, <1>10, <1>14, <2>1
    <3>2. <<lo[i], hi[i]>> \in ranges
      BY <1>5
    <3>3. d \in lo[i]..hi[i]
      BY <1>3, <3>1
    <3> QED BY <3>2, <3>3
  <2>2. ASSUME NEW r \in ranges, d \in r[1]..r[2] PROVE from <= d
    <3>1. PICK i \in I : r[1] = lo[i] /\ r[2] = hi[i]
      BY <1>12
    <3>2. lo[i] <= d /\ lo[p] <= lo[i] /\ lo[p] \in Int /\ lo[i] \in Int
      BY <1>1, <1>3, <1>9, <2>2, <3>1
    <3> QED BY <1>7, <3>2
  <2> QED BY <2>1, <2>2
<1>15. ASSUME NEW r \in ranges, NEW s \in ranges, r # s PROVE r[2] < s[1] \/ s[2] < r[1]
  <2>1. PICK i \in I : r[1] = lo[i] /\ r[2] = hi[i] /\ r = <<lo[i], hi[i]>>
    BY <1>12
  <2>2. PICK j \in I : s[1] = lo[j] /\ s[2] = hi[j] /\ s = <<lo[j], hi[j]>>
    BY <1>12
  <2>3. i # j /\ i \in Int /\ j \in Int
    BY <1>1, <1>15, <2>1, <2>2
  <2>4. i < j \/ j < i
    BY <2>3
  <2> QED BY <1>8, <2>1, <2>2, <2>4
<1>16. Tiles(ranges, anchor)
  BY <1>11, <1>13, <1>14, <1>15 DEF Tiles, from
<1> QED BY <1>16 DEF Buckets, ranges, I

-----------------------------------------------------------------------------
\* The weeks of a trend are such buckets, none with a day after the anchor.
LEMMA WeeksTile ==
  ASSUME NEW anchor \in Int
  PROVE  /\ Tiles(WeekRanges(anchor), anchor)
         /\ \A r \in WeekRanges(anchor) : r[2] <= anchor
<1> DEFINE n == WeekDays
           t == TrendBuckets
           m == anchor - Weekday(anchor)
           lo == [e \in (1 - t)..0 |-> m + e * n]
           hi == [e \in (1 - t)..0 |-> Min({m + e * n + n - 1, anchor})]
           monday(i) == m - i * n
           sunday(i) == Min({monday(i) + n - 1, anchor})
           ranges == {<<lo[e], hi[e]>> : e \in (1 - t)..0}
<1>1. n \in Nat \ {0} /\ t \in Nat \ {0}
  BY ReportsAssumption
<1>2. m \in Int /\ m <= anchor /\ anchor < m + n
  <2> DEFINE w == Weekday(anchor)
  <2>1. w \in Int /\ 0 <= w /\ w < n
    <3>1. anchor - 1 \in Int
      OBVIOUS
    <3> QED BY <1>1, <3>1 DEF Weekday
  <2> HIDE DEF w, n
  <2>2. anchor - w \in Int /\ anchor - w <= anchor /\ anchor < (anchor - w) + n
    BY <1>1, <2>1
  <2> QED BY <2>2 DEF w
<1>3. \A x, y \in Int : Min({x, y}) \in {x, y} /\ Min({x, y}) <= x /\ Min({x, y}) <= y
  <2> SUFFICES ASSUME NEW x \in Int, NEW y \in Int
               PROVE  Min({x, y}) \in {x, y} /\ Min({x, y}) <= x /\ Min({x, y}) <= y
    OBVIOUS
  <2>1. IsFiniteSet({x}) /\ {x, y} = {x} \cup {y}
    BY FS_Singleton
  <2>2. IsFiniteSet({x, y})
    BY <2>1, FS_AddElement
  <2>3. {x, y} \in SUBSET Int /\ {x, y} # {}
    OBVIOUS
  <2> QED BY <2>2, <2>3, MinFinite
<1>4. \A i \in 0..(t - 1) : -i \in (1 - t)..0 /\ m + (-i) * n = monday(i)
  <2> HIDE DEF m, n, t
  <2>1. \A i \in Int : (-i) * n = -(i * n) /\ i * n \in Int
    BY <1>1
  <2> QED BY <1>1, <1>2, <2>1
<1>5. \A e \in (1 - t)..0 : -e \in 0..(t - 1) /\ m + e * n = monday(-e)
  <2> HIDE DEF m, n, t
  <2>1. \A i \in Int : (-i) * n = -(i * n) /\ i * n \in Int
    BY <1>1
  <2> QED BY <1>1, <1>2, <2>1
<1>6. WeekRanges(anchor) = {<<monday(i), sunday(i)>> : i \in 0..(t - 1)}
  BY DEF WeekRanges
<1>7. \A e \in (1 - t)..0 : lo[e] = monday(-e) /\ hi[e] = sunday(-e)
  <2>1. \A e \in (1 - t)..0 : lo[e] = m + e * n /\ hi[e] = Min({m + e * n + n - 1, anchor})
    OBVIOUS
  <2> HIDE DEF lo, hi, m
  <2> QED BY <1>5, <2>1
<1>8. \A e \in (1 - t)..0 :
        /\ lo[e] = m + e * n /\ lo[e] \in Int /\ hi[e] = Min({lo[e] + n - 1, anchor})
  <2> SUFFICES ASSUME NEW e \in (1 - t)..0
               PROVE  lo[e] = m + e * n /\ lo[e] \in Int /\ hi[e] = Min({lo[e] + n - 1, anchor})
    OBVIOUS
  <2>1. lo[e] = m + e * n /\ hi[e] = Min({m + e * n + n - 1, anchor})
    OBVIOUS
  <2>2. e * n \in Int
    <3> HIDE DEF n, m, lo, hi
    <3> QED BY <1>1
  <2> HIDE DEF lo, hi, m
  <2> QED BY <1>2, <2>1, <2>2
<1> HIDE DEF lo, hi, ranges, m
<1>9. \A e \in (1 - t)..0 :
        /\ hi[e] \in Int /\ hi[e] <= lo[e] + n - 1 /\ hi[e] <= anchor
        /\ hi[e] >= lo[e] + n - 1 \/ hi[e] >= anchor
  <2> SUFFICES ASSUME NEW e \in (1 - t)..0
               PROVE  /\ hi[e] \in Int /\ hi[e] <= lo[e] + n - 1 /\ hi[e] <= anchor
                      /\ hi[e] >= lo[e] + n - 1 \/ hi[e] >= anchor
    OBVIOUS
  <2> DEFINE x == lo[e] + n - 1
  <2>1. x \in Int /\ hi[e] = Min({x, anchor})
    BY <1>1, <1>8
  <2> HIDE DEF x
  <2>2. hi[e] \in {x, anchor} /\ hi[e] <= x /\ hi[e] <= anchor
    BY <1>3, <2>1
  <2>3. hi[e] \in Int /\ hi[e] <= x /\ hi[e] <= anchor /\ (hi[e] >= x \/ hi[e] >= anchor)
    BY <2>1, <2>2
  <2> QED BY <2>3 DEF x
<1>10. lo[0] = m
  <2>1. 0 \in (1 - t)..0 /\ 0 * n = 0
    BY <1>1
  <2>2. lo[0] = m + 0 * n
    BY <1>8, <2>1
  <2> HIDE DEF n
  <2> QED BY <1>2, <2>1, <2>2
<1>11. Strides(1 - t, 0, lo, hi, n, anchor)
  <2>1. \E base \in Int : \A i \in (1 - t)..0 : lo[i] = base + i * n
    BY <1>2, <1>8
  <2> HIDE DEF n
  <2> QED BY <1>2, <1>8, <1>9, <1>10, <2>1 DEF Strides
<1>12. Tiles(ranges, anchor)
  <2> DEFINE p == 1 - t
  <2>1. p \in Int /\ 0 \in Int /\ p <= 0
    BY <1>1
  <2>2. Strides(p, 0, lo, hi, n, anchor)
    BY <1>11
  <2> HIDE DEF n, p
  <2>3. n \in Nat \ {0} /\ anchor \in Int
    BY <1>1
  <2>4. Tiles(Buckets(p, 0, lo, hi), anchor)
    BY <2>1, <2>2, <2>3, StridesTile
  <2> QED BY <2>4 DEF Buckets, ranges, p
<1>13. WeekRanges(anchor) = ranges
  <2> HIDE DEF n, t
  <2> DEFINE weeks == {<<monday(i), sunday(i)>> : i \in 0..(t - 1)}
  <2>1. ASSUME NEW r \in weeks PROVE r \in ranges
    <3>1. PICK i \in 0..(t - 1) : r = <<monday(i), sunday(i)>>
      OBVIOUS
    <3>2. -i \in (1 - t)..0 /\ -(-i) = i
      BY <1>4
    <3>3. lo[-i] = monday(i) /\ hi[-i] = sunday(i)
      <4>1. lo[-i] = monday(-(-i)) /\ hi[-i] = sunday(-(-i))
        BY <1>7, <3>2
      <4> HIDE DEF monday, sunday
      <4> QED BY <3>2, <4>1
    <3> HIDE DEF monday, sunday
    <3> QED BY <3>1, <3>2, <3>3 DEF ranges
  <2>2. ASSUME NEW r \in ranges PROVE r \in weeks
    <3>1. PICK e \in (1 - t)..0 : r = <<lo[e], hi[e]>>
      BY DEF ranges
    <3>2. -e \in 0..(t - 1) /\ lo[e] = monday(-e) /\ hi[e] = sunday(-e)
      BY <1>5, <1>7
    <3> HIDE DEF monday, sunday
    <3> QED BY <3>1, <3>2
  <2>3. WeekRanges(anchor) = weeks
    BY <1>6
  <2> HIDE DEF weeks
  <2> QED BY <2>1, <2>2, <2>3
<1>14. \A r \in ranges : r[2] <= anchor
  <2> SUFFICES ASSUME NEW r \in ranges PROVE r[2] <= anchor
    OBVIOUS
  <2>1. PICK e \in (1 - t)..0 : r = <<lo[e], hi[e]>>
    BY DEF ranges
  <2> QED BY <1>9, <2>1
<1> QED BY <1>12, <1>13, <1>14

\* And the months.
LEMMA MonthsTile ==
  ASSUME NEW anchor \in Int
  PROVE  Tiles(MonthRanges(anchor), anchor)
<1> DEFINE n == MonthDays
           K == MonthOf(anchor)
           p == K - TrendBuckets + 1
           lo == [m \in p..K |-> FirstOf(m)]
           hi == [m \in p..K |-> LastOf(m)]
<1>1. n \in Nat \ {0} /\ TrendBuckets \in Nat \ {0}
  BY ReportsAssumption
<1>2. K \in Int /\ anchor <= LastOf(K) /\ FirstOf(K) <= anchor
  <2>1. \A j \in Int : MonthOf(anchor) \in Int /\ (MonthOf(anchor) <= j <=> anchor <= LastOf(j))
    BY MonthsEnd
  <2>2. K \in Int /\ K - 1 \in Int
    BY <2>1
  <2>3. anchor <= LastOf(K) /\ ~(anchor <= LastOf(K - 1))
    <3>1. K <= K /\ ~(K <= K - 1)
      BY <2>2
    <3> QED BY <2>1, <2>2, <3>1
  <2>4. LastOf(K - 1) = (K - 1) * n /\ FirstOf(K) = (K - 1) * n + 1 /\ (K - 1) * n \in Int
    BY <1>1, <2>2 DEF LastOf, FirstOf
  <2> HIDE DEF K, n
  <2> QED BY <2>2, <2>3, <2>4
<1> HIDE DEF K
<1>3. p \in Int /\ p <= K
  BY <1>1, <1>2
<1>4. \A m \in p..K : /\ lo[m] = FirstOf(m) /\ hi[m] = LastOf(m) /\ lo[m] \in Int /\ hi[m] \in Int
                      /\ hi[m] = lo[m] + n - 1
  <2>1. \A m \in p..K : m \in Int
    BY <1>2, <1>3
  <2> QED BY <2>1, MonthDates
<1>5. \A m \in Int : FirstOf(m) = (1 - n) + m * n
  <2>1. \A m \in Int : (m - 1) * n = m * n - n /\ m * n \in Int
    BY <1>1
  <2>2. \A m \in Int : FirstOf(m) = (m - 1) * n + 1
    BY DEF FirstOf
  <2> HIDE DEF n
  <2> QED BY <1>1, <2>1, <2>2
<1> HIDE DEF lo, hi, p, n
<1>6. \E base \in Int : \A m \in p..K : lo[m] = base + m * n
  <2>1. 1 - n \in Int /\ \A m \in p..K : lo[m] = (1 - n) + m * n
    BY <1>1, <1>2, <1>3, <1>4, <1>5
  <2> QED BY <2>1
<1>7. Strides(p, K, lo, hi, n, anchor)
  <2>1. K \in p..K
    BY <1>2, <1>3
  <2>2. lo[K] <= anchor /\ anchor < lo[K] + n
    BY <1>1, <1>2, <1>4, <2>1
  <2>3. \A m \in p..K : /\ lo[m] \in Int /\ hi[m] \in Int /\ hi[m] <= lo[m] + n - 1
                        /\ hi[m] >= lo[m] + n - 1 \/ hi[m] >= anchor
    BY <1>1, <1>4
  <2> QED BY <1>6, <2>2, <2>3 DEF Strides
<1>8. Tiles(Buckets(p, K, lo, hi), anchor)
  <2>1. n \in Nat \ {0} /\ K \in Int /\ p \in Int /\ p <= K
    BY <1>1, <1>2, <1>3
  <2> QED BY <1>7, <2>1, StridesTile
<1>9. {<<lo[m], hi[m]>> : m \in p..K} = {<<FirstOf(m), LastOf(m)>> : m \in p..K}
  BY <1>4
<1>10. MonthRanges(anchor) = {<<FirstOf(m), LastOf(m)>> : m \in p..K}
  BY DEF MonthRanges, p, K
<1> QED BY <1>8, <1>9, <1>10 DEF Buckets

\* So the bars have the days to the anchor, and the weeks their sales.
LEMMA TrendsDoAgree == ReportsIInv => TrendsAgree
<1> SUFFICES ASSUME ReportsIInv, NEW anchor \in Day,
                    NEW ranges \in {WeekRanges(anchor), MonthRanges(anchor)}
             PROVE  LET from == Min({r[1] : r \in ranges})
                        bars == [w \in 0..(WeekDays - 1) |-> WeekdayDays(ranges, anchor, w)]
                    IN /\ UNION {bars[w] : w \in DOMAIN bars} = from..anchor
                       /\ \A r, s \in ranges : r # s => r[2] < s[1] \/ s[2] < r[1]
                       /\ ranges = WeekRanges(anchor) =>
                            Revenue({s \in sales : \E r \in ranges : s.day \in r[1]..r[2]})
                              = Revenue(SoldOn(sales, from, anchor))
  BY DEF TrendsAgree
<1> DEFINE from == Min({r[1] : r \in ranges})
           bars == [w \in 0..(WeekDays - 1) |-> WeekdayDays(ranges, anchor, w)]
<1>1. anchor \in Int
  BY DEF Day
<1>2. Tiles(ranges, anchor)
  BY <1>1, WeeksTile, MonthsTile
<1>3. from \in Int /\ \A r \in ranges : r[1] \in Int /\ r[2] \in Int
  BY <1>2 DEF Tiles
<1>4. \A d \in Int : d <= anchor => (from <= d <=> \E r \in ranges : d \in r[1]..r[2])
  BY <1>2 DEF Tiles
<1>5. \A r, s \in ranges : r # s => r[2] < s[1] \/ s[2] < r[1]
  BY <1>2 DEF Tiles
<1> HIDE DEF from
<1>6. \A d \in Int : Weekday(d) \in 0..(WeekDays - 1)
  <2>1. \A d \in Int : d - 1 \in Int
    OBVIOUS
  <2>2. WeekDays \in Nat \ {0}
    BY ReportsAssumption
  <2> QED BY <2>1, <2>2 DEF Weekday
<1>7. \A w \in 0..(WeekDays - 1) : \A d :
        d \in bars[w] <=> /\ \E r \in ranges : d \in r[1]..r[2]
                          /\ d <= anchor /\ Weekday(d) = w
  BY DEF WeekdayDays
<1>8. DOMAIN bars = 0..(WeekDays - 1)
  OBVIOUS
<1> HIDE DEF bars
<1>9. UNION {bars[w] : w \in DOMAIN bars} = from..anchor
  <2>1. ASSUME NEW d \in from..anchor PROVE d \in UNION {bars[w] : w \in DOMAIN bars}
    <3>1. d \in Int /\ d <= anchor /\ from <= d
      BY <1>1, <1>3
    <3>2. Weekday(d) \in DOMAIN bars /\ d \in bars[Weekday(d)]
      BY <1>4, <1>6, <1>7, <1>8, <3>1
    <3> QED BY <3>2
  <2>2. ASSUME NEW w \in DOMAIN bars, NEW d \in bars[w] PROVE d \in from..anchor
    <3>1. PICK r \in ranges : d \in r[1]..r[2]
      BY <1>7, <1>8
    <3>2. d <= anchor
      BY <1>7, <1>8
    <3>3. d \in Int
      BY <1>3, <3>1
    <3> QED BY <1>1, <1>3, <1>4, <3>1, <3>2, <3>3
  <2> QED BY <2>1, <2>2
<1>10. ASSUME ranges = WeekRanges(anchor)
       PROVE  {s \in sales : \E r \in ranges : s.day \in r[1]..r[2]} = SoldOn(sales, from, anchor)
  <2>1. \A r \in ranges : r[2] <= anchor
    BY <1>1, <1>10, WeeksTile
  <2>2. ASSUME NEW s \in sales
        PROVE  (\E r \in ranges : s.day \in r[1]..r[2]) <=> s.day \in from..anchor
    <3>1. s.day \in Int
      BY DEF ReportsIInv, SalesTyping
    <3>2. ASSUME NEW r \in ranges, s.day \in r[1]..r[2] PROVE s.day <= anchor
      BY <1>1, <1>3, <2>1, <3>1, <3>2
    <3>3. s.day \in from..anchor <=> from <= s.day /\ s.day <= anchor
      BY <1>1, <1>3, <3>1
    <3> QED BY <1>4, <3>1, <3>2, <3>3
  <2> QED BY <2>2 DEF SoldOn
<1>11. ranges = WeekRanges(anchor) =>
         Revenue({s \in sales : \E r \in ranges : s.day \in r[1]..r[2]})
           = Revenue(SoldOn(sales, from, anchor))
  BY <1>10
<1> QED BY <1>5, <1>9, <1>11 DEF from, bars

\* Then all of them agree.
LEMMA IInvViewsAgree == ReportsIInv => ViewsAgree
<1> SUFFICES ASSUME ReportsIInv PROVE ViewsAgree
  OBVIOUS
<1>1. GoalAgrees
  BY GoalIsSegments DEF GoalAgrees
<1> QED BY <1>1, RangesAgree, TrendsDoAgree, CostsAddUp, CoveragesAgree DEF ViewsAgree

\* Every view of the sales adds up to the same money, however it cuts them
\* (daily_review.py, period_review.py, trends.py, fixed_costs.py, coverage.py).
THEOREM ViewsAgreeCorrect == ReportsSpec => []ViewsAgree
<1>1. ReportsIInv => ViewsAgree
  BY IInvViewsAgree
<1> QED BY <1>1, ReportsInvariance, PTL

-----------------------------------------------------------------------------
(***************************************************************************)
(* The cash drawer and the checklists.                                     *)
(***************************************************************************)

Closing == [cashier : Cashier, at : Nat, opening : Int, closing : Int, rung : Int,
            variance : Int, taken : Int]
Outcome == {"completed", "skipped"}
LastClose == closes[Len(closes)]

\* The drawer's variables hold what they should, at most MaxCloses shifts closed.
DrawerTyping ==
  /\ till \in Int /\ handed \in BOOLEAN
  /\ closes \in Seq(Closing) /\ Len(closes) <= MaxCloses

\* A close is at its place, opens with what the one before closed at, and its
\* variance is that of its own figures.
Chained ==
  \A n \in 1..Len(closes) :
    /\ closes[n].at = n
    /\ closes[n].opening = OpeningOf(n)
    /\ closes[n].variance =
         DrawerVariance(closes[n].opening, closes[n].closing, closes[n].rung)

\* Whoever has taken the drawer over found what the last close says, within the
\* tolerance.
HandedOver ==
  IF closes = <<>> THEN till = 0 ELSE handed => ~IsBlocked(till, LastClose.closing)

\* The till holds what the last shift opened with, rang up and took, but for what
\* the handoff before it let through.
TillExplained ==
  closes # <<>> =>
    till - LastClose.opening - LastClose.rung + LastClose.taken
      \in -HandoffTolerance..HandoffTolerance

VoidsTyping == voids \subseteq VoidForm /\ IsFiniteSet(voids)
LogTyping == DOMAIN log \subseteq Task \X Occurrence /\ log \in [DOMAIN log -> Outcome]

ShiftIInv ==
  /\ DrawerTyping /\ Chained /\ HandedOver /\ TillExplained /\ VoidsTyping /\ LogTyping

\* The drawer is handed over empty.
LEMMA InitShiftIInv == ShiftInit => ShiftIInv
<1> SUFFICES ASSUME ShiftInit PROVE ShiftIInv
  OBVIOUS
<1>1. DrawerTyping /\ Chained /\ HandedOver /\ TillExplained
  BY ShiftAssumption DEF ShiftInit, DrawerTyping, Chained, HandedOver, TillExplained
<1>2. VoidsTyping
  BY FS_EmptySet DEF ShiftInit, VoidsTyping
<1>3. LogTyping
  BY DEF ShiftInit, LogTyping
<1> QED BY <1>1, <1>2, <1>3 DEF ShiftIInv

\* A close continues the chain of openings, its variance is that of its own figures.
LEMMA CloseShiftKeepsDrawer ==
  ASSUME ShiftIInv, NEW c \in Cashier, NEW r \in Rung, NEW x \in Taken, NEW m \in Miscount,
         CloseShift(c, r, x, m)
  PROVE  (DrawerTyping /\ Chained /\ HandedOver /\ TillExplained)'
<1> DEFINE n == Len(closes) + 1
           left == till + r - x
           new == ShiftClose(n, c, r, x, left + m)
<1>1. r \in Int /\ x \in Int /\ m \in Int /\ till \in Int /\ HandoffTolerance \in Nat
      /\ MaxCloses \in Nat /\ closes \in Seq(Closing) /\ Len(closes) \in Nat
  BY ShiftAssumption DEF ShiftIInv, DrawerTyping
<1>2. /\ handed /\ Len(closes) < MaxCloses /\ left >= 0 /\ till' = left
      /\ closes' = Append(closes, new) /\ handed' = FALSE
  BY DEF CloseShift
<1>3. OpeningOf(n) \in Int
  <2>1. CASE n = 1
    BY <2>1 DEF OpeningOf
  <2>2. CASE n # 1
    <3>1. n - 1 \in 1..Len(closes)
      BY <1>1, <2>2
    <3>2. closes[n - 1] \in Closing
      BY <1>1, <3>1
    <3> QED BY <2>2, <3>2 DEF OpeningOf, Closing
  <2> QED BY <2>1, <2>2
<1>4. /\ new \in Closing /\ new.at = n /\ new.opening = OpeningOf(n) /\ new.rung = r
      /\ new.taken = x
      /\ new.variance = DrawerVariance(new.opening, new.closing, new.rung)
  BY <1>1, <1>3 DEF ShiftClose, Closing, DrawerVariance
<1> HIDE DEF new
<1>5. /\ closes' \in Seq(Closing) /\ Len(closes') = n /\ closes'[n] = new
      /\ \A k \in 1..(n - 1) : closes'[k] = closes[k]
  BY <1>1, <1>2, <1>4
<1>6. \A k \in 1..n : OpeningOf(k)' = OpeningOf(k)
  <2>1. n \in Nat
    BY <1>1
  <2> HIDE DEF n
  <2> QED BY <1>5, <2>1 DEF OpeningOf
<1>7. DrawerTyping'
  <2>1. till' \in Int
    BY <1>1, <1>2
  <2>2. Len(closes') <= MaxCloses
    BY <1>1, <1>2, <1>5
  <2>3. handed' \in BOOLEAN
    BY <1>2
  <2> QED BY <1>5, <2>1, <2>2, <2>3 DEF DrawerTyping
<1>8. Chained'
  BY <1>1, <1>4, <1>5, <1>6 DEF Chained, ShiftIInv
<1>9. closes' # <<>>
  BY <1>1, <1>5
<1>10. HandedOver'
  BY <1>2, <1>9 DEF HandedOver
<1>11. TillExplained'
  <2>1. till - OpeningOf(n) \in -HandoffTolerance..HandoffTolerance
    <3>1. CASE closes = <<>>
      BY <1>1, <3>1 DEF ShiftIInv, HandedOver, OpeningOf
    <3>2. CASE closes # <<>>
      <4>1. n # 1 /\ n - 1 = Len(closes)
        BY <1>1, <3>2
      <4> QED BY <1>2, <3>2, <4>1 DEF ShiftIInv, HandedOver, OpeningOf, IsBlocked, LastClose
    <3> QED BY <3>1, <3>2
  <2>2. LastClose' = new
    BY <1>5 DEF LastClose
  <2>3. till' - new.opening - new.rung + new.taken = till - OpeningOf(n)
    BY <1>1, <1>2, <1>3, <1>4
  <2> QED BY <2>1, <2>2, <2>3 DEF TillExplained
<1> QED BY <1>7, <1>8, <1>10, <1>11

\* A handoff blocked has the last close counted again, one let through is within
\* the tolerance.
LEMMA CheckHandoffKeepsDrawer ==
  ASSUME ShiftIInv, CheckHandoff
  PROVE  (DrawerTyping /\ Chained /\ HandedOver /\ TillExplained)'
<1> DEFINE n == Len(closes)
           new == ShiftClose(LastClose.at, LastClose.cashier, LastClose.rung,
                             LastClose.taken, till)
<1>1. till \in Int /\ HandoffTolerance \in Nat /\ closes \in Seq(Closing) /\ Len(closes) \in Nat
      /\ ~handed /\ till' = till
  BY ShiftAssumption DEF ShiftIInv, DrawerTyping, CheckHandoff
<1>2. CASE ~IsBlocked(till, LastClose.closing)
  <2>1. closes' = closes /\ handed' = TRUE
    BY <1>2 DEF CheckHandoff, LastClose
  <2>2. DrawerTyping'
    BY <1>1, <2>1 DEF ShiftIInv, DrawerTyping
  <2>3. Chained'
    BY <1>1, <2>1 DEF ShiftIInv, Chained, OpeningOf
  <2>4. HandedOver'
    BY <1>1, <1>2, <2>1 DEF ShiftIInv, HandedOver, LastClose, IsBlocked
  <2>5. TillExplained'
    BY <1>1, <2>1 DEF ShiftIInv, TillExplained, LastClose
  <2> QED BY <2>2, <2>3, <2>4, <2>5
<1>3. CASE IsBlocked(till, LastClose.closing)
  <2>1. closes' = [closes EXCEPT ![n] = new] /\ handed' = handed
    BY <1>3 DEF CheckHandoff, LastClose
  <2>2. CASE closes = <<>>
    <3>1. n = 0 /\ closes' = closes
      BY <2>1, <2>2
    <3>2. DrawerTyping'
      BY <1>1, <2>1, <3>1 DEF ShiftIInv, DrawerTyping
    <3>3. Chained'
      BY <3>1 DEF ShiftIInv, Chained, OpeningOf
    <3>4. HandedOver' /\ TillExplained'
      BY <1>1, <2>2, <3>1 DEF ShiftIInv, HandedOver, TillExplained
    <3> QED BY <3>2, <3>3, <3>4
  <2>3. CASE closes # <<>>
    <3>1. n \in 1..Len(closes) /\ LastClose = closes[n] /\ LastClose \in Closing
      BY <1>1, <2>3 DEF LastClose
    <3>2. LastClose.at = n /\ LastClose.opening = OpeningOf(n) /\ OpeningOf(n) \in Int
      BY <1>1, <3>1 DEF ShiftIInv, Chained, Closing
    <3>3. /\ new \in Closing /\ new.at = n /\ new.opening = OpeningOf(n)
          /\ new.rung = LastClose.rung /\ new.taken = LastClose.taken /\ new.closing = till
          /\ new.variance = DrawerVariance(new.opening, new.closing, new.rung)
      <4>1. /\ LastClose.rung \in Int /\ LastClose.taken \in Int /\ LastClose.cashier \in Cashier
            /\ LastClose.at = n /\ n \in Nat
        BY <1>1, <3>1, <3>2 DEF Closing
      <4> QED BY <1>1, <3>2, <4>1 DEF ShiftClose, Closing, DrawerVariance
    <3> HIDE DEF new
    <3>4. /\ closes' \in Seq(Closing) /\ Len(closes') = n /\ closes'[n] = new
          /\ \A k \in 1..(n - 1) : closes'[k] = closes[k]
      BY <1>1, <2>1, <3>1, <3>3
    <3>5. \A k \in 1..n : OpeningOf(k)' = OpeningOf(k)
      BY <1>1, <3>4 DEF OpeningOf
    <3>6. closes' # <<>> /\ LastClose' = new
      BY <1>1, <3>1, <3>4 DEF LastClose
    <3>7. DrawerTyping'
      BY <1>1, <2>1, <3>4 DEF ShiftIInv, DrawerTyping
    <3>8. Chained'
      BY <1>1, <3>3, <3>4, <3>5 DEF ShiftIInv, Chained
    <3>9. HandedOver'
      BY <1>1, <2>1, <3>6 DEF HandedOver
    <3>10. TillExplained'
      BY <1>1, <2>3, <3>2, <3>3, <3>6 DEF ShiftIInv, TillExplained
    <3> QED BY <3>7, <3>8, <3>9, <3>10
  <2> QED BY <2>2, <2>3
<1> QED BY <1>2, <1>3

\* An entry recorded is in the log, and the others are as they were.
LEMMA RecordKeepsLog ==
  ASSUME LogTyping, NEW t \in Task, NEW on \in Occurrence, NEW outcome \in Outcome,
         Record(t, on, outcome)
  PROVE  /\ LogTyping' /\ DOMAIN log' = DOMAIN log \cup {<<t, on>>}
         /\ log'[<<t, on>>] = outcome
         /\ \A k \in DOMAIN log : k # <<t, on>> => log'[k] = log[k]
         /\ UNCHANGED <<till, closes, handed, voids>>
<1>1. log' = [k \in DOMAIN log \cup {<<t, on>>} |-> IF k = <<t, on>> THEN outcome ELSE log[k]]
  BY DEF Record
<1>2. DOMAIN log' = DOMAIN log \cup {<<t, on>>} /\ <<t, on>> \in Task \X Occurrence
  BY <1>1
<1>3. \A k \in DOMAIN log' : log'[k] = IF k = <<t, on>> THEN outcome ELSE log[k]
  BY <1>1
<1>4. \A k \in DOMAIN log' : log'[k] \in Outcome
  BY <1>2, <1>3 DEF LogTyping
<1>5. LogTyping'
  <2>1. log' = [k \in DOMAIN log' |-> log'[k]]
    BY <1>1
  <2> QED BY <1>2, <1>4, <2>1 DEF LogTyping
<1> QED BY <1>2, <1>3, <1>5 DEF Record

\* No step breaks the invariant.
LEMMA NextShiftIInv == ShiftIInv /\ [ShiftNext]_shiftVars => ShiftIInv'
<1> SUFFICES ASSUME ShiftIInv, [ShiftNext]_shiftVars PROVE ShiftIInv'
  OBVIOUS
<1>1. ASSUME UNCHANGED <<till, closes, handed>>
      PROVE  (DrawerTyping /\ Chained /\ HandedOver /\ TillExplained)'
  BY <1>1 DEF ShiftIInv, DrawerTyping, Chained, HandedOver, TillExplained, OpeningOf, LastClose,
              IsBlocked
<1>2. UNCHANGED voids => VoidsTyping'
  BY DEF ShiftIInv, VoidsTyping
<1>3. UNCHANGED log => LogTyping'
  BY DEF ShiftIInv, LogTyping
<1>4. ASSUME NEW c \in Cashier, NEW r \in Rung, NEW x \in Taken, NEW m \in Miscount,
             CloseShift(c, r, x, m)
      PROVE  ShiftIInv'
  <2>1. UNCHANGED <<voids, log>>
    BY <1>4 DEF CloseShift
  <2> QED BY <1>2, <1>3, <1>4, <2>1, CloseShiftKeepsDrawer DEF ShiftIInv
<1>5. CASE CheckHandoff
  <2>1. UNCHANGED <<voids, log>>
    BY <1>5 DEF CheckHandoff
  <2> QED BY <1>2, <1>3, <1>5, <2>1, CheckHandoffKeepsDrawer DEF ShiftIInv
<1>6. ASSUME NEW v \in VoidForm, VoidReceipt(v)
      PROVE  ShiftIInv'
  <2>1. UNCHANGED <<till, closes, handed, log>> /\ voids' = voids \cup {v}
    BY <1>6 DEF VoidReceipt
  <2>2. VoidsTyping'
    BY <2>1, FS_AddElement DEF ShiftIInv, VoidsTyping
  <2> QED BY <1>1, <1>3, <2>1, <2>2 DEF ShiftIInv
<1>7. ASSUME NEW t \in Task, NEW on \in Occurrence, CompleteTask(t, on) \/ SkipTask(t, on)
      PROVE  ShiftIInv'
  <2>1. PICK outcome \in Outcome : Record(t, on, outcome)
    BY <1>7 DEF CompleteTask, SkipTask, Outcome
  <2>2. LogTyping' /\ UNCHANGED <<till, closes, handed, voids>>
    BY <2>1, RecordKeepsLog DEF ShiftIInv
  <2> QED BY <1>1, <1>2, <2>2 DEF ShiftIInv
<1>8. CASE UNCHANGED shiftVars
  BY <1>1, <1>2, <1>3, <1>8 DEF ShiftIInv, shiftVars
<1> QED BY <1>4, <1>5, <1>6, <1>7, <1>8 DEF ShiftNext

\* The invariant of the drawer, the closes, the voids and the log: the closes are
\* chained, each opening with what the one before closed at, and the till holds what
\* they say but for the tolerance.
THEOREM ShiftInvariance == ShiftSpec => []ShiftIInv
BY InitShiftIInv, NextShiftIInv, PTL DEF ShiftSpec

\* What is missing from the till of the last close is its cashier's, but for the
\* tolerance.
LEMMA HandoffShields == ShiftIInv => HandoffShieldsTheNext
<1> SUFFICES ASSUME ShiftIInv, closes # <<>>
             PROVE  LastClose.variance + LastClose.taken - (LastClose.closing - till)
                      \in -HandoffTolerance..HandoffTolerance
  BY DEF HandoffShieldsTheNext, LastClose
<1>1. till \in Int /\ closes \in Seq(Closing) /\ Len(closes) \in 1..Len(closes)
  BY DEF ShiftIInv, DrawerTyping
<1>2. LastClose \in Closing
  BY <1>1 DEF LastClose
<1>3. LastClose.variance = DrawerVariance(LastClose.opening, LastClose.closing, LastClose.rung)
  BY <1>1 DEF ShiftIInv, Chained, LastClose
<1>4. LastClose.variance + LastClose.taken - (LastClose.closing - till)
        = till - LastClose.opening - LastClose.rung + LastClose.taken
  BY <1>1, <1>2, <1>3 DEF DrawerVariance, Closing
<1> QED BY <1>4 DEF ShiftIInv, TillExplained

-----------------------------------------------------------------------------
\* The occurrences a task has entries for, by the log's keys.
LEMMA EntriesAreKeys ==
  ASSUME NEW D \in SUBSET (Task \X Occurrence), NEW t \in Task
  PROVE  {k[2] : k \in {x \in D : x[1] = t}} = {on \in Occurrence : <<t, on>> \in D}
<1> DEFINE E == {k[2] : k \in {x \in D : x[1] = t}}
<1>1. ASSUME NEW on \in E PROVE on \in Occurrence /\ <<t, on>> \in D
  <2>1. PICK k \in D : k[1] = t /\ on = k[2]
    OBVIOUS
  <2>2. k = <<k[1], k[2]>> /\ k[2] \in Occurrence
    OBVIOUS
  <2> QED BY <2>1, <2>2
<1>2. ASSUME NEW on \in Occurrence, <<t, on>> \in D PROVE on \in E
  <2>1. <<t, on>>[1] = t /\ <<t, on>>[2] = on
    OBVIOUS
  <2> QED BY <1>2, <2>1
<1> QED BY <1>1, <1>2

\* What a record does to a task's entries and to the skip that shows.
LEMMA RecordMovesSkips ==
  ASSUME LogTyping, NEW t \in Task, NEW on \in Occurrence, NEW outcome \in Outcome,
         Record(t, on, outcome)
  PROVE  /\ \A u \in Task \ {t} : EntriesOf(u)' = EntriesOf(u)
         /\ \A u \in Task \ {t} : LatestSkipForTask(u)' = LatestSkipForTask(u)
         /\ LatestSkipForTask(t)' =
              IF \E later \in EntriesOf(t) : later > on THEN LatestSkipForTask(t)
              ELSE IF outcome = "skipped" THEN {on} ELSE {}
<1>1. /\ LogTyping' /\ DOMAIN log' = DOMAIN log \cup {<<t, on>>}
      /\ log'[<<t, on>>] = outcome
      /\ \A k \in DOMAIN log : k # <<t, on>> => log'[k] = log[k]
  BY RecordKeepsLog
<1>2. ASSUME NEW u \in Task
      PROVE  /\ EntriesOf(u) = {o \in Occurrence : <<u, o>> \in DOMAIN log}
             /\ EntriesOf(u)' = {o \in Occurrence : <<u, o>> \in DOMAIN log'}
  <2>1. EntriesOf(u) = {o \in Occurrence : <<u, o>> \in DOMAIN log}
    BY EntriesAreKeys DEF EntriesOf, LogTyping
  <2>2. EntriesOf(u)' = {o \in Occurrence : <<u, o>> \in DOMAIN log'}
    BY <1>1, EntriesAreKeys DEF EntriesOf, LogTyping
  <2> QED BY <2>1, <2>2
<1>3. ASSUME NEW u \in Task \ {t} PROVE EntriesOf(u)' = EntriesOf(u)
  BY <1>1, <1>2
<1>4. ASSUME NEW u \in Task \ {t} PROVE LatestSkipForTask(u)' = LatestSkipForTask(u)
  <2>1. \A o \in EntriesOf(u) : log'[<<u, o>>] = log[<<u, o>>]
    BY <1>1, <1>2
  <2> QED BY <1>3, <2>1 DEF LatestSkipForTask
<1>5. EntriesOf(t)' = EntriesOf(t) \cup {on} /\ EntriesOf(t) \subseteq Nat /\ on \in Nat
  BY <1>1, <1>2, ShiftAssumption
<1>6. \A o \in EntriesOf(t) : o # on => log'[<<t, o>>] = log[<<t, o>>]
  BY <1>1, <1>2
<1>7. ASSUME NEW later \in EntriesOf(t), later > on
      PROVE  LatestSkipForTask(t)' = LatestSkipForTask(t)
  <2>1. ASSUME NEW o \in EntriesOf(t), \A e \in EntriesOf(t) : e <= o
        PROVE  o # on /\ \A e \in EntriesOf(t)' : e <= o
    BY <1>5, <1>7, <2>1
  <2>2. ASSUME NEW o \in EntriesOf(t)', \A e \in EntriesOf(t)' : e <= o
        PROVE  o # on /\ o \in EntriesOf(t) /\ \A e \in EntriesOf(t) : e <= o
    BY <1>5, <1>7, <2>2
  <2> QED BY <1>5, <1>6, <2>1, <2>2 DEF LatestSkipForTask
<1>8. ASSUME ~\E later \in EntriesOf(t) : later > on
      PROVE  LatestSkipForTask(t)' = IF outcome = "skipped" THEN {on} ELSE {}
  <2>1. \A e \in EntriesOf(t)' : e <= on
    BY <1>5, <1>8
  <2>2. ASSUME NEW o \in EntriesOf(t)', \A e \in EntriesOf(t)' : e <= o PROVE o = on
    BY <1>5, <2>1, <2>2
  <2> QED BY <1>1, <1>5, <2>1, <2>2 DEF LatestSkipForTask
<1> QED BY <1>3, <1>4, <1>7, <1>8

\* Recording an entry changes the checklists of its own task only, where no later
\* entry stands.
LEMMA SkipsCarryOn ==
  ASSUME LogTyping, NEW t \in Task, NEW on \in Occurrence,
         CompleteTask(t, on) \/ SkipTask(t, on)
  PROVE  /\ \A u \in Task \ {t}, d \in Occurrence : TaskOn(u, d)' = TaskOn(u, d)
         /\ \A d \in Occurrence \ {x \in Occurrence : <<t, x>> \in DOMAIN log'} :
              TaskOn(t, d)' =
                IF \E later \in EntriesOf(t) : later > on THEN TaskOn(t, d)
                ELSE IF SkipTask(t, on) THEN [state |-> "skipped", for |-> on]
                ELSE [state |-> "pending"]
<1>1. PICK outcome \in Outcome : Record(t, on, outcome) /\ (outcome = "skipped" <=> SkipTask(t, on))
  <2>1. CASE SkipTask(t, on)
    BY <2>1 DEF SkipTask, Outcome
  <2>2. CASE ~SkipTask(t, on)
    <3>1. Record(t, on, "completed")
      BY <2>2 DEF CompleteTask
    <3> QED BY <2>2, <3>1 DEF Outcome
  <2> QED BY <2>1, <2>2
<1>2. /\ DOMAIN log' = DOMAIN log \cup {<<t, on>>}
      /\ \A k \in DOMAIN log : k # <<t, on>> => log'[k] = log[k]
  BY <1>1, RecordKeepsLog
<1>3. /\ \A u \in Task \ {t} : LatestSkipForTask(u)' = LatestSkipForTask(u)
      /\ LatestSkipForTask(t)' =
           IF \E later \in EntriesOf(t) : later > on THEN LatestSkipForTask(t)
           ELSE IF outcome = "skipped" THEN {on} ELSE {}
  BY <1>1, RecordMovesSkips
<1>4. ASSUME NEW u \in Task \ {t}, NEW d \in Occurrence
      PROVE  TaskOn(u, d)' = TaskOn(u, d)
  <2>1. <<u, d>> # <<t, on>>
    OBVIOUS
  <2>2. /\ <<u, d>> \in DOMAIN log' <=> <<u, d>> \in DOMAIN log
        /\ <<u, d>> \in DOMAIN log => log'[<<u, d>>] = log[<<u, d>>]
    BY <1>2, <2>1
  <2>3. LatestSkipForTask(u)' = LatestSkipForTask(u)
    BY <1>3
  <2> QED BY <2>2, <2>3 DEF TaskOn
<1>5. ASSUME NEW d \in Occurrence, <<t, d>> \notin DOMAIN log'
      PROVE  TaskOn(t, d)' =
               IF \E later \in EntriesOf(t) : later > on THEN TaskOn(t, d)
               ELSE IF SkipTask(t, on) THEN [state |-> "skipped", for |-> on]
               ELSE [state |-> "pending"]
  <2>1. <<t, d>> \notin DOMAIN log
    BY <1>2, <1>5
  <2>2. TaskOn(t, d)' =
          IF LatestSkipForTask(t)' # {}
          THEN [state |-> "skipped", for |-> CHOOSE o \in LatestSkipForTask(t)' : TRUE]
          ELSE [state |-> "pending"]
    BY <1>5 DEF TaskOn
  <2>3. TaskOn(t, d) =
          IF LatestSkipForTask(t) # {}
          THEN [state |-> "skipped", for |-> CHOOSE o \in LatestSkipForTask(t) : TRUE]
          ELSE [state |-> "pending"]
    BY <2>1 DEF TaskOn
  <2>4. (CHOOSE o \in {on} : TRUE) = on
    OBVIOUS
  <2> QED BY <1>1, <1>3, <2>2, <2>3, <2>4
<1> QED BY <1>4, <1>5

\* A skip is on every checklist of a day without an entry, earlier or later, until the
\* task is completed or skipped for the same day or a later one (checklists.py).
THEOREM SkipsCarryCorrect == ShiftSpec => SkipsCarry
<1>1. ShiftIInv => LogTyping
  BY DEF ShiftIInv
<1>2. LogTyping /\ [ShiftNext]_shiftVars =>
        [\A t \in Task, on \in Occurrence :
           CompleteTask(t, on) \/ SkipTask(t, on) =>
             /\ \A u \in Task \ {t}, d \in Occurrence : TaskOn(u, d)' = TaskOn(u, d)
             /\ \A d \in Occurrence \ {x \in Occurrence : <<t, x>> \in DOMAIN log'} :
                  TaskOn(t, d)' =
                    IF \E later \in EntriesOf(t) : later > on THEN TaskOn(t, d)
                    ELSE IF SkipTask(t, on) THEN [state |-> "skipped", for |-> on]
                    ELSE [state |-> "pending"]]_shiftVars
  BY SkipsCarryOn
<1> QED BY <1>1, <1>2, ShiftInvariance, PTL DEF ShiftSpec, SkipsCarry

-----------------------------------------------------------------------------
\* By induction over the closes: up to each, the variances and what was rung up add
\* up to what it closed at.
LEMMA VariancesTelescope == ShiftIInv => VariancesAddUp
<1> DEFINE f == [n \in DOMAIN closes |-> closes[n].variance + closes[n].rung]
<1> SUFFICES ASSUME ShiftIInv, closes # <<>>
             PROVE  SumFunction(f) = closes[Len(closes)].closing
  BY DEF VariancesAddUp
<1>1. /\ closes \in Seq(Closing) /\ Len(closes) \in Nat /\ Len(closes) \in 1..Len(closes)
      /\ DOMAIN closes = 1..Len(closes)
  BY DEF ShiftIInv, DrawerTyping
<1>2. ASSUME NEW n \in 1..Len(closes)
      PROVE  /\ f[n] \in Int /\ f[n] = closes[n].closing - OpeningOf(n)
             /\ closes[n].closing \in Int /\ OpeningOf(n) \in Int
  <2>1. closes[n] \in Closing
    BY <1>1
  <2>2. f[n] = closes[n].variance + closes[n].rung
    BY <1>1
  <2>3. closes[n].variance = DrawerVariance(OpeningOf(n), closes[n].closing, closes[n].rung)
        /\ OpeningOf(n) = closes[n].opening
    BY DEF ShiftIInv, Chained
  <2> QED BY <2>1, <2>2, <2>3 DEF Closing, DrawerVariance
<1>3. DOMAIN f = 1..Len(closes)
  BY <1>1
<1> HIDE DEF f
<1> DEFINE T == {n \in Nat : n \in 1..Len(closes) =>
                               SumFunctionOnSet(f, 1..n) = closes[n].closing}
<1>4. 0 \in T
  OBVIOUS
<1>5. ASSUME NEW n \in T PROVE n + 1 \in T
  <2> SUFFICES ASSUME n + 1 \in 1..Len(closes)
               PROVE  SumFunctionOnSet(f, 1..(n + 1)) = closes[n + 1].closing
    OBVIOUS
  <2>1. n \in Nat /\ 1..(n + 1) \subseteq 1..Len(closes) /\ (1..(n + 1)) \ {n + 1} = 1..n
    BY <1>1
  <2>2. Summable(f, 1..(n + 1))
    <3>1. 1 \in Int /\ n + 1 \in Int
      OBVIOUS
    <3>2. IsFiniteSet(1..(n + 1))
      BY <3>1, FS_Interval
    <3> QED BY <1>2, <2>1, <3>2 DEF Summable
  <2>3. SumFunctionOnSet(f, 1..(n + 1)) = f[n + 1] + SumFunctionOnSet(f, 1..n)
    BY <2>1, <2>2, SumMember
  <2>4. SumFunctionOnSet(f, 1..n) = OpeningOf(n + 1)
    <3>1. CASE n = 0
      <4>1. 1..n = {}
        BY <3>1
      <4> QED BY <3>1, <4>1, SumEmpty DEF OpeningOf
    <3>2. CASE n # 0
      <4>1. n \in 1..Len(closes) /\ n + 1 # 1 /\ (n + 1) - 1 = n
        BY <1>1, <2>1, <3>2
      <4> QED BY <4>1 DEF OpeningOf
    <3> QED BY <3>1, <3>2
  <2>5. f[n + 1] = closes[n + 1].closing - OpeningOf(n + 1)
        /\ closes[n + 1].closing \in Int /\ OpeningOf(n + 1) \in Int
    BY <1>2
  <2> QED BY <2>3, <2>4, <2>5
<1>6. T = Nat
  <2>1. T \in SUBSET Nat
    OBVIOUS
  <2> HIDE DEF T
  <2> QED BY <1>4, <1>5, <2>1, NatSetInduction
<1>7. SumFunctionOnSet(f, 1..Len(closes)) = closes[Len(closes)].closing
  BY <1>1, <1>6
<1> QED BY <1>3, <1>7 DEF SumFunction

-----------------------------------------------------------------------------
\* The closes of a range are at places there are.
LEMMA StreaksDefined ==
  ASSUME closes \in Seq(Closing), NEW in \in SUBSET (1..Len(closes))
  PROVE  /\ Streaks(in)[0] = [c \in Cashier |-> 0]
         /\ \A n \in 1..Len(closes) :
              Streaks(in)[n] = IF n \in in THEN Extend(Streaks(in)[n - 1], closes[n])
                               ELSE Streaks(in)[n - 1]
         /\ \A n \in 0..Len(closes) : Streaks(in)[n] \in [Cashier -> Nat]
<1> DEFINE L == Len(closes)
           S == [Cashier -> Nat]
           zero == [c \in Cashier |-> 0]
           F == [p \in S \X Nat |-> IF p[2] \in in THEN Extend(p[1], closes[p[2]]) ELSE p[1]]
           step(h) == [n \in 0..L |->
                         IF n = 0 THEN [c \in Cashier |-> 0]
                         ELSE IF n \in in THEN Extend(h[n - 1], closes[n]) ELSE h[n - 1]]
<1>1. L \in Nat /\ zero \in S
  OBVIOUS
<1>2. ASSUME NEW st \in S, NEW k \in in PROVE Extend(st, closes[k]) \in S
  <2>0. k \in 1..Len(closes) /\ closes[k] \in Closing
    OBVIOUS
  <2>1. closes[k].cashier \in Cashier
    BY <2>0 DEF Closing
  <2>2. st[closes[k].cashier] + 1 \in Nat
    BY <2>1
  <2> QED BY <2>1, <2>2 DEF Extend
<1>3. F \in [S \X Nat -> S]
  <2>1. \A p \in S \X Nat : (IF p[2] \in in THEN Extend(p[1], closes[p[2]]) ELSE p[1]) \in S
    BY <1>2
  <2> HIDE DEF S
  <2> QED BY <2>1
<1>4. \A st \in S, n \in Nat : F[<<st, n>>] = IF n \in in THEN Extend(st, closes[n]) ELSE st
  <2> HIDE DEF S
  <2> QED OBVIOUS
<1> HIDE DEF F, S, L, zero
<1>5. PICK h : Iterates(h, zero, F, L, S)
  BY <1>1, <1>3, NatRecursion
<1>6. /\ h \in [0..L -> S] /\ h[0] = zero
      /\ \A n \in 1..L : h[n] = IF n \in in THEN Extend(h[n - 1], closes[n]) ELSE h[n - 1]
  <2>1. \A n \in 1..L : n - 1 \in 0..L /\ n \in Nat
    BY <1>1
  <2> QED BY <1>4, <1>5, <2>1 DEF Iterates
<1>7. h = step(h)
  <2>1. ASSUME NEW n \in 0..L
        PROVE  h[n] = IF n = 0 THEN [c \in Cashier |-> 0]
                      ELSE IF n \in in THEN Extend(h[n - 1], closes[n]) ELSE h[n - 1]
    BY <1>1, <1>6 DEF zero
  <2> QED BY <1>6, <2>1
<1>8. Streaks(in) = CHOOSE g : g = step(g)
  BY DEF Streaks, L
<1>9. Streaks(in) = step(Streaks(in))
  <2> HIDE DEF step
  <2> QED BY <1>7, <1>8
<1> DEFINE g == Streaks(in)
<1> HIDE DEF g
<1>10. /\ g[0] = zero
       /\ \A n \in 1..L : g[n] = IF n \in in THEN Extend(g[n - 1], closes[n]) ELSE g[n - 1]
  <2>1. g = step(g)
    BY <1>9 DEF g
  <2>2. \A n \in 1..L : n \in 0..L /\ n # 0
    BY <1>1
  <2>3. 0 \in 0..L
    BY <1>1
  <2> QED BY <2>1, <2>2, <2>3 DEF zero
<1> DEFINE T == {n \in Nat : n \in 0..L => g[n] \in S}
<1>11. 0 \in T
  BY <1>1, <1>10
<1>12. ASSUME NEW n \in T PROVE n + 1 \in T
  <2>1. CASE n + 1 \in 0..L
    <3>1. n \in 0..L /\ n + 1 \in 1..L /\ (n + 1) - 1 = n
      BY <1>1, <2>1
    <3>2. g[n] \in S
      BY <3>1
    <3>3. g[n + 1] \in S
      BY <1>2, <1>10, <3>1, <3>2
    <3> QED BY <3>3
  <2> QED BY <2>1
<1>13. T = Nat
  <2>1. T \in SUBSET Nat
    OBVIOUS
  <2> HIDE DEF T
  <2> QED BY <1>11, <1>12, <2>1, NatSetInduction
<1>14. \A n \in 0..L : g[n] \in S
  BY <1>1, <1>13
<1> QED BY <1>10, <1>14 DEF g, L, S, zero

\* The closes that a cashier's streak after the n-th counts: the cashier's own since
\* the last that was not short.
Trail(in, c, n) ==
  {m \in in : /\ m <= n /\ closes[m].cashier = c
              /\ \A k \in m..n : k \in in /\ closes[k].cashier = c => closes[k].variance < 0}

\* By induction over the closes: a streak is the number of closes in its trail.
LEMMA StreakIsTrail ==
  ASSUME closes \in Seq(Closing), NEW in \in SUBSET (1..Len(closes)), NEW c \in Cashier,
         NEW n \in 0..Len(closes)
  PROVE  IsFiniteSet(Trail(in, c, n)) /\ Streaks(in)[n][c] = Cardinality(Trail(in, c, n))
<1> DEFINE g == Streaks(in)
           L == Len(closes)
           Same(m) == IsFiniteSet(Trail(in, c, m)) /\ g[m][c] = Cardinality(Trail(in, c, m))
           T == {m \in Nat : m \in 0..L => Same(m)}
<1>1. /\ L \in Nat /\ g[0] = [o \in Cashier |-> 0]
      /\ \A m \in 1..L : g[m] = IF m \in in THEN Extend(g[m - 1], closes[m]) ELSE g[m - 1]
      /\ \A m \in 0..L : g[m] \in [Cashier -> Nat]
  BY StreaksDefined
<1>2. \A m \in in : m \in 1..L /\ closes[m] \in Closing
  OBVIOUS
<1> HIDE DEF g, L
<1>3. 0 \in T
  <2>1. Trail(in, c, 0) = {}
    <3>1. \A m \in in : ~(m <= 0)
      BY <1>2
    <3> QED BY <3>1 DEF Trail
  <2>2. g[0][c] = 0
    BY <1>1
  <2> QED BY <2>1, <2>2, FS_EmptySet
<1>4. ASSUME NEW m \in T PROVE m + 1 \in T
  <2> SUFFICES ASSUME m + 1 \in 0..L PROVE Same(m + 1)
    OBVIOUS
  <2>1. m \in 0..L /\ m + 1 \in 1..L /\ (m + 1) - 1 = m
    BY <1>1
  <2>2. Same(m) /\ g[m] \in [Cashier -> Nat]
    BY <1>1, <2>1
  <2>3. g[m + 1] = IF m + 1 \in in THEN Extend(g[m], closes[m + 1]) ELSE g[m]
    BY <1>1, <2>1
  <2>4. \A j \in in : j <= m + 1 /\ j # m + 1 <=> j <= m
    BY <1>2, <2>1
  <2>5. \A j \in in : j <= m + 1 => j..(m + 1) = (j..m) \cup {m + 1}
    BY <1>2, <2>1
  <2>6. CASE m + 1 \notin in \/ closes[m + 1].cashier # c
    <3>1. Trail(in, c, m + 1) = Trail(in, c, m)
      BY <2>4, <2>5, <2>6 DEF Trail
    <3>2. g[m + 1][c] = g[m][c]
      <4>1. CASE m + 1 \in in
        BY <1>2, <2>2, <2>3, <2>6, <4>1 DEF Extend
      <4> QED BY <2>3, <4>1
    <3> QED BY <2>2, <3>1, <3>2
  <2>7. CASE m + 1 \in in /\ closes[m + 1].cashier = c /\ closes[m + 1].variance < 0
    <3>1. Trail(in, c, m + 1) = Trail(in, c, m) \cup {m + 1}
      <4>1. m + 1 \in Trail(in, c, m + 1)
        <5>1. (m + 1)..(m + 1) = {m + 1} /\ m + 1 <= m + 1
          BY <2>1
        <5> QED BY <2>7, <5>1 DEF Trail
      <4>2. \A j \in in : j # m + 1 => (j \in Trail(in, c, m + 1) <=> j \in Trail(in, c, m))
        BY <2>4, <2>5, <2>7 DEF Trail
      <4> QED BY <2>7, <4>1, <4>2 DEF Trail
    <3>2. m + 1 \notin Trail(in, c, m)
      BY <2>1 DEF Trail
    <3>3. g[m + 1][c] = g[m][c] + 1
      BY <2>2, <2>3, <2>7 DEF Extend
    <3> QED BY <2>2, <3>1, <3>2, <3>3, FS_AddElement
  <2>8. CASE m + 1 \in in /\ closes[m + 1].cashier = c /\ ~(closes[m + 1].variance < 0)
    <3>1. Trail(in, c, m + 1) = {}
      BY <2>1, <2>5, <2>8 DEF Trail
    <3>2. g[m + 1][c] = 0
      BY <2>2, <2>3, <2>8 DEF Extend
    <3> QED BY <3>1, <3>2, FS_EmptySet
  <2> QED BY <2>6, <2>7, <2>8
<1>5. T = Nat
  <2>1. T \in SUBSET Nat
    OBVIOUS
  <2> HIDE DEF T
  <2> QED BY <1>3, <1>4, <2>1, NatSetInduction
<1>6. n \in 0..L /\ n \in Nat
  BY DEF L
<1>7. Same(n)
  BY <1>5, <1>6
<1> QED BY <1>7 DEF g

\* Closes are of days in order, two a day.
LEMMA DaysInOrder ==
  ASSUME NEW m \in Nat, NEW n \in Nat
  PROVE  /\ DayOfShift(n) \in Int
         /\ m <= n => DayOfShift(m) <= DayOfShift(n)
         /\ n \in (2 * DayOfShift(n) - 1)..(2 * DayOfShift(n))
BY DEF DayOfShift, ShiftsADay

\* A cashier's closes of the days a..b.
Own(c, a, b) == {n \in DOMAIN closes : closes[n].cashier = c /\ DayOfShift(n) \in a..b}

\* Three of the cashier's own closes, none of the cashier's in between not short.
IsRun(S, c) ==
  /\ Cardinality(S) = RunOfShifts
  /\ \A n \in Min(S)..Max(S) : closes[n].cashier = c => closes[n].variance < 0

\* Whoever has had a streak of three has three such closes, and conversely.
LEMMA RunFlagsAreRuns ==
  ASSUME ShiftIInv, NEW a \in Int, NEW b \in Int, NEW c \in Cashier
  PROVE  c \in RunFlags(a, b) <=> \E S \in SUBSET Own(c, a, b) : IsRun(S, c)
<1> DEFINE in == ClosesIn(a, b)
           L == Len(closes)
<1>1. /\ closes \in Seq(Closing) /\ L \in Nat /\ DOMAIN closes = 1..L
      /\ \A n \in 1..L : closes[n].at = n
  BY DEF ShiftIInv, DrawerTyping, Chained
<1>2. in = {n \in 1..L : DayOfShift(n) \in a..b}
  BY <1>1 DEF ClosesIn
<1>3. c \in RunFlags(a, b) <=> \E n \in 0..L : Streaks(in)[n][c] >= RunOfShifts
  BY DEF RunFlags
<1> HIDE DEF in, L
<1>4. in \in SUBSET (1..Len(closes))
  BY <1>2 DEF L
<1>5. ASSUME NEW S \in SUBSET Own(c, a, b), Cardinality(S) = RunOfShifts
      PROVE  /\ S \in SUBSET (0..L) /\ S # {} /\ S \subseteq in
             /\ Min(S) \in S /\ \A x \in S : Min(S) <= x
             /\ Max(S) \in S /\ \A x \in S : x <= Max(S)
  <2>1. S \in SUBSET (0..L) /\ S \subseteq in
    BY <1>1, <1>2 DEF Own
  <2>2. S # {}
    BY <1>5, FS_EmptySet DEF RunOfShifts
  <2> QED BY <1>1, <2>1, <2>2, MinMax
<1>6. ASSUME NEW n \in 0..L, Streaks(in)[n][c] >= RunOfShifts
      PROVE  \E S \in SUBSET Own(c, a, b) : IsRun(S, c)
  <2>1. IsFiniteSet(Trail(in, c, n)) /\ Cardinality(Trail(in, c, n)) >= RunOfShifts
    BY <1>1, <1>4, <1>6, StreakIsTrail DEF L
  <2>2. PICK S \in SUBSET Trail(in, c, n) : Cardinality(S) = RunOfShifts
    <3>1. RunOfShifts \in Nat /\ RunOfShifts <= Cardinality(Trail(in, c, n))
      BY <2>1, FS_CardinalityType DEF RunOfShifts
    <3> QED BY <2>1, <3>1, SubsetOfSize
  <2>3. S \in SUBSET Own(c, a, b)
    BY <1>1, <1>2 DEF Trail, Own
  <2>4. /\ Min(S) \in Trail(in, c, n) /\ Max(S) \in Trail(in, c, n)
        /\ Min(S) \in 1..L /\ Max(S) \in 1..L
    BY <1>2, <1>5, <2>2, <2>3 DEF Trail
  <2>5. ASSUME NEW k \in Min(S)..Max(S), closes[k].cashier = c PROVE closes[k].variance < 0
    <3>1. k \in 1..L /\ Min(S) <= k /\ k <= Max(S)
      BY <1>1, <2>4
    <3>2. DayOfShift(k) \in a..b
      <4>1. /\ DayOfShift(Min(S)) <= DayOfShift(k) /\ DayOfShift(k) <= DayOfShift(Max(S))
            /\ DayOfShift(k) \in Int /\ DayOfShift(Min(S)) \in Int /\ DayOfShift(Max(S)) \in Int
        BY <2>4, <3>1, DaysInOrder
      <4>2. DayOfShift(Min(S)) \in a..b /\ DayOfShift(Max(S)) \in a..b
        BY <1>2, <2>4 DEF Trail
      <4> QED BY <4>1, <4>2
    <3>3. k \in in
      BY <1>2, <3>1, <3>2
    <3>4. k \in Min(S)..n
      BY <2>4, <3>1 DEF Trail
    <3> QED BY <2>4, <2>5, <3>3, <3>4 DEF Trail
  <2> QED BY <2>2, <2>3, <2>5 DEF IsRun
<1>7. ASSUME NEW S \in SUBSET Own(c, a, b), IsRun(S, c)
      PROVE  \E n \in 0..L : Streaks(in)[n][c] >= RunOfShifts
  <2>1. /\ S \in SUBSET (0..L) /\ S \subseteq in
        /\ Min(S) \in S /\ \A x \in S : Min(S) <= x
        /\ Max(S) \in S /\ \A x \in S : x <= Max(S)
    BY <1>5, <1>7 DEF IsRun
  <2>2. Max(S) \in 0..L /\ Min(S) \in 0..L
    BY <2>1
  <2>3. S \subseteq Trail(in, c, Max(S))
    <3> SUFFICES ASSUME NEW m \in S PROVE m \in Trail(in, c, Max(S))
      OBVIOUS
    <3>1. m \in in /\ m <= Max(S) /\ Min(S) <= m /\ m \in 0..L /\ closes[m].cashier = c
      BY <2>1 DEF Own
    <3>2. \A k \in m..Max(S) : k \in Min(S)..Max(S)
      BY <1>1, <2>2, <3>1
    <3> QED BY <1>7, <3>1, <3>2 DEF Trail, IsRun
  <2>4. /\ IsFiniteSet(Trail(in, c, Max(S)))
        /\ Streaks(in)[Max(S)][c] = Cardinality(Trail(in, c, Max(S)))
    BY <1>1, <1>4, <2>2, StreakIsTrail DEF L
  <2>5. Cardinality(S) <= Cardinality(Trail(in, c, Max(S)))
    BY <2>3, <2>4, FS_Subset
  <2>6. Cardinality(Trail(in, c, Max(S))) \in Nat
    BY <2>4, FS_CardinalityType
  <2> QED BY <1>7, <2>2, <2>4, <2>5, <2>6 DEF IsRun, RunOfShifts
<1> QED BY <1>3, <1>6, <1>7

\* That is what the property says, and a day has two closes.
LEMMA RunsAreOwn == ShiftIInv => RunsAreOwnShorts
<1> SUFFICES ASSUME ShiftIInv, NEW a \in 1..DayOfShift(MaxCloses),
                    NEW b \in a..DayOfShift(MaxCloses)
             PROVE  /\ RunFlags(a, b) =
                         {c \in Cashier : \E S \in SUBSET Own(c, a, b) : IsRun(S, c)}
                    /\ a = b => RunFlags(a, b) = {}
  BY DEF RunsAreOwnShorts, Own, IsRun
<1>1. a \in Int /\ b \in Int
  BY ShiftAssumption, DaysInOrder
<1>2. RunFlags(a, b) = {c \in Cashier : \E S \in SUBSET Own(c, a, b) : IsRun(S, c)}
  <2>1. RunFlags(a, b) \subseteq Cashier
    BY DEF RunFlags
  <2> QED BY <1>1, <2>1, RunFlagsAreRuns
<1>3. ASSUME a = b, NEW c \in Cashier, NEW S \in SUBSET Own(c, a, b), IsRun(S, c) PROVE FALSE
  <2>1. DOMAIN closes \subseteq Nat
    BY DEF ShiftIInv, DrawerTyping
  <2>2. S \subseteq (2 * a - 1)..(2 * a)
    <3> SUFFICES ASSUME NEW n \in S PROVE n \in (2 * a - 1)..(2 * a)
      OBVIOUS
    <3>1. n \in Nat /\ DayOfShift(n) = a
      BY <1>1, <1>3, <2>1 DEF Own
    <3> QED BY <3>1, DaysInOrder
  <2>3. IsFiniteSet((2 * a - 1)..(2 * a)) /\ Cardinality((2 * a - 1)..(2 * a)) = 2
    <3>1. 2 * a - 1 \in Int /\ 2 * a \in Int /\ ~(2 * a - 1 > 2 * a)
          /\ 2 * a - (2 * a - 1) + 1 = 2
      BY <1>1
    <3> QED BY <3>1, FS_Interval
  <2>4. Cardinality(S) <= 2
    BY <2>2, <2>3, FS_Subset
  <2> QED BY <1>3, <2>4 DEF IsRun, RunOfShifts
<1> QED BY <1>2, <1>3

-----------------------------------------------------------------------------
\* The medians of rates lie among them, and half the staff are at or beyond each.
LEMMA Medians ==
  ASSUME IsFiniteSet(Staff), Staff # {}, NEW rate, \A c \in Staff : rate[c] \in Nat
  PROVE  /\ LowMedian(rate) \in Nat /\ HighMedian(rate) \in Nat
         /\ \E z \in Staff :
              /\ LowMedian(rate) = rate[z]
              /\ 2 * Cardinality({o \in Staff : rate[o] <= rate[z]}) >= Cardinality(Staff)
         /\ \A x \in Staff :
              2 * Cardinality({o \in Staff : rate[o] >= rate[x]}) >= Cardinality(Staff)
                => rate[x] <= HighMedian(rate)
<1> DEFINE N == Cardinality(Staff)
           Low == {x \in Staff : 2 * Cardinality({o \in Staff : rate[o] <= rate[x]}) >= N}
           High == {x \in Staff : 2 * Cardinality({o \in Staff : rate[o] >= rate[x]}) >= N}
<1>1. N \in Nat /\ 2 * N >= N
  BY FS_CardinalityType
<1>2. Low # {}
  <2>1. PICK x \in Staff : \A y \in Staff : rate[y] <= rate[x]
    BY Extremes
  <2>2. {o \in Staff : rate[o] <= rate[x]} = Staff
    BY <2>1
  <2>3. x \in Low
    BY <1>1, <2>2
  <2> QED BY <2>3
<1>3. High # {}
  <2>1. PICK x \in Staff : \A y \in Staff : rate[x] <= rate[y]
    BY Extremes
  <2>2. {o \in Staff : rate[o] >= rate[x]} = Staff
    BY <2>1
  <2>3. x \in High
    BY <1>1, <2>2
  <2> QED BY <2>3
<1>4. LowMedian(rate) = Min({rate[c] : c \in Low})
  BY DEF LowMedian
<1>5. HighMedian(rate) = Max({rate[c] : c \in High})
  BY DEF HighMedian
<1>6. /\ Low \subseteq Staff /\ IsFiniteSet(Low) /\ High \subseteq Staff /\ IsFiniteSet(High)
      /\ \A x \in Low : 2 * Cardinality({o \in Staff : rate[o] <= rate[x]}) >= N
      /\ \A x \in Staff :
           2 * Cardinality({o \in Staff : rate[o] >= rate[x]}) >= N => x \in High
  BY FS_Subset
<1> HIDE DEF Low, High
<1>7. \A x \in Staff : rate[x] \in Int
  OBVIOUS
<1>8. \E z \in Low : LowMedian(rate) = rate[z]
  <2>1. IsFiniteSet(Low) /\ Low # {} /\ \A x \in Low : rate[x] \in Int
    BY <1>2, <1>6, <1>7
  <2>2. \E z \in Low : Min({rate[c] : c \in Low}) = rate[z]
    BY <2>1, MinMaxImage
  <2> QED BY <1>4, <2>2
<1>9. \E z \in High : HighMedian(rate) = rate[z]
  <2>1. IsFiniteSet(High) /\ High # {} /\ \A x \in High : rate[x] \in Int
    BY <1>3, <1>6, <1>7
  <2>2. \E z \in High : Max({rate[c] : c \in High}) = rate[z]
    BY <2>1, MinMaxImage
  <2> QED BY <1>5, <2>2
<1>10. \A x \in High : rate[x] <= HighMedian(rate)
  BY <1>3, <1>5, <1>6, <1>7, MinMaxImage
<1> QED BY <1>6, <1>8, <1>9, <1>10

\* No more than half the staff are above the median, and all of them above zero.
LEMMA FewAbove ==
  ASSUME IsFiniteSet(Staff), NEW rate, \A c \in Staff : rate[c] \in Nat,
         NEW above, above = {c \in Staff : 2 * rate[c] > LowMedian(rate) + HighMedian(rate)}
  PROVE  2 * Cardinality(above) <= Cardinality(Staff) /\ \A c \in above : rate[c] # 0
<1>1. above \subseteq Staff /\ IsFiniteSet(above) /\ Cardinality(above) \in Nat
      /\ Cardinality(Staff) \in Nat
  BY FS_Subset, FS_CardinalityType
<1>2. CASE above = {}
  BY <1>1, <1>2, FS_EmptySet
<1>3. CASE above # {}
  <2>1. /\ LowMedian(rate) \in Nat /\ HighMedian(rate) \in Nat
        /\ \E z \in Staff :
             /\ LowMedian(rate) = rate[z]
             /\ 2 * Cardinality({o \in Staff : rate[o] <= rate[z]}) >= Cardinality(Staff)
        /\ \A x \in Staff :
             2 * Cardinality({o \in Staff : rate[o] >= rate[x]}) >= Cardinality(Staff)
               => rate[x] <= HighMedian(rate)
    BY <1>1, <1>3, Medians
  <2>2. \A c \in above : rate[c] \in Nat /\ 2 * rate[c] > LowMedian(rate) + HighMedian(rate)
    OBVIOUS
  <2>3. \A c \in above : rate[c] # 0
    BY <2>1, <2>2
  <2>4. ASSUME 2 * Cardinality(above) > Cardinality(Staff) PROVE FALSE
    <3>1. PICK x \in above : \A y \in above : rate[x] <= rate[y]
      BY <1>1, <1>3, Extremes
    <3> DEFINE G == {o \in Staff : rate[o] >= rate[x]}
    <3>2. above \subseteq G /\ G \subseteq Staff
      BY <1>1, <3>1
    <3>3. IsFiniteSet(G) /\ Cardinality(above) <= Cardinality(G) /\ Cardinality(G) \in Nat
      BY <3>2, FS_Subset, FS_CardinalityType
    <3>4. 2 * Cardinality(G) >= Cardinality(Staff)
      BY <1>1, <2>4, <3>3
    <3>5. rate[x] <= HighMedian(rate)
      BY <1>1, <2>1, <3>4
    <3>6. PICK z \in Staff :
            /\ LowMedian(rate) = rate[z]
            /\ 2 * Cardinality({o \in Staff : rate[o] <= rate[z]}) >= Cardinality(Staff)
      BY <2>1
    <3> DEFINE B == {o \in Staff : rate[o] <= rate[z]}
    <3>7. Cardinality(B) \in Nat /\ 2 * Cardinality(B) >= Cardinality(Staff)
      BY <3>6, FS_Subset, FS_CardinalityType
    <3>8. B \cap above # {}
      <4>1. Cardinality(B) + Cardinality(above) > Cardinality(Staff) /\ B \subseteq Staff
        BY <1>1, <2>4, <3>7
      <4> HIDE DEF B
      <4> QED BY <1>1, <4>1, FS_MajoritiesIntersect
    <3>9. PICK o \in Staff : rate[o] <= rate[z] /\ rate[x] <= rate[o]
      BY <3>1, <3>8
    <3>10. rate[x] <= LowMedian(rate)
      BY <1>1, <3>6, <3>9
    <3> QED BY <2>1, <2>2, <3>5, <3>10
  <2> QED BY <1>1, <2>3, <2>4
<1> QED BY <1>2, <1>3

\* A rate is a whole number, and none without voids.
LEMMA VoidRates ==
  ASSUME ShiftIInv, NEW a \in Int, NEW b \in Int, NEW c \in Staff
  PROVE  /\ VoidRate(c, a, b) \in Nat
         /\ VoidRate(c, a, b) # 0 => \E v \in voids : v.cashier = c
<1> DEFINE mine == {v \in VoidsIn(a, b) : v.cashier = c}
<1>1. mine \subseteq voids /\ IsFiniteSet(mine) /\ Cardinality(mine) \in Nat
  <2>1. mine \subseteq voids
    BY DEF VoidsIn
  <2> QED BY <2>1, FS_Subset, FS_CardinalityType DEF ShiftIInv, VoidsTyping
<1>2. CommonSales \in Nat
  <2> DEFINE S == {SalesCount[o] : o \in Staff} \ {0}
  <2>1. S \subseteq Nat
    BY ShiftAssumption DEF Staff
  <2>2. IsFiniteSet(S)
    <3>1. IsFiniteSet({SalesCount[o] : o \in Staff})
      BY ShiftAssumption, ImageFinite DEF Staff
    <3> QED BY <3>1, FS_Subset
  <2> HIDE DEF S
  <2>3. ProductSet(S) \in Nat
    BY <2>1, <2>2, ProductType
  <2> QED BY <2>3 DEF CommonSales, S
<1>3. SalesCount[c] \in Nat
  BY ShiftAssumption DEF Staff
<1>4. CASE SalesCount[c] = 0
  BY <1>4 DEF VoidRate
<1>5. CASE SalesCount[c] # 0
  <2>1. VoidRate(c, a, b) = Cardinality(mine) * (CommonSales \div SalesCount[c])
    BY <1>3, <1>5 DEF VoidRate
  <2>2. CommonSales \div SalesCount[c] \in Nat
    BY <1>2, <1>3, <1>5
  <2>3. \A m, n \in Nat : m * n \in Nat /\ (m = 0 => m * n = 0)
    OBVIOUS
  <2>4. VoidRate(c, a, b) \in Nat /\ (Cardinality(mine) = 0 => VoidRate(c, a, b) = 0)
    BY <1>1, <2>1, <2>2, <2>3
  <2>5. Cardinality(mine) # 0 => mine # {}
    BY FS_EmptySet
  <2> QED BY <1>1, <2>4, <2>5
<1> QED BY <1>3, <1>4, <1>5

\* The flagged are above the upper median, for the double of theirs is above both.
LEMMA FewAreAboveMedian == ShiftIInv => FewAboveMedian
<1> SUFFICES ASSUME ShiftIInv PROVE FewAboveMedian
  OBVIOUS
<1> DEFINE last == DayOfShift(MaxCloses)
           rate == [c \in Staff |-> VoidRate(c, 1, last)]
           above == VoidRateFlags(1, last)
<1>1. last \in Int
  BY ShiftAssumption, DaysInOrder
<1>2. IsFiniteSet(Staff)
  BY ShiftAssumption DEF Staff
<1>3. \A c \in Staff : /\ rate[c] = VoidRate(c, 1, last) /\ rate[c] \in Nat
                       /\ rate[c] # 0 => \E v \in voids : v.cashier = c
  BY <1>1, VoidRates
<1>4. above = {c \in Staff : 2 * rate[c] > LowMedian(rate) + HighMedian(rate)}
  BY DEF VoidRateFlags
<1> HIDE DEF rate, above
<1>5. 2 * Cardinality(above) <= Cardinality(Staff) /\ \A c \in above : rate[c] # 0
  BY <1>2, <1>3, <1>4, FewAbove
<1>6. above \subseteq Staff
  BY <1>4
<1>7. \A c \in above : \E v \in voids : v.cashier = c
  BY <1>3, <1>5, <1>6
<1> QED BY <1>5, <1>7 DEF FewAboveMedian, above

-----------------------------------------------------------------------------
\* A share above the limit over the range is above it on one of its days.
LEMMA SharesShow == ShiftIInv => SharesShowOnADay
<1> SUFFICES ASSUME ShiftIInv PROVE SharesShowOnADay
  OBVIOUS
<1> DEFINE last == DayOfShift(MaxCloses)
<1>1. last \in Int /\ IsFiniteSet(1..last)
  <2>1. last \in Int
    BY ShiftAssumption, DaysInOrder
  <2> HIDE DEF last
  <2> QED BY <2>1, FS_Interval
<1>2. ASSUME NEW c \in PeakFlags(1, last), \A d \in 1..last : c \notin PeakFlags(d, d)
      PROVE  FALSE
  <2> DEFINE A == {v \in VoidsIn(1, last) : v.cashier = c}
             P == {v \in A : v.hour \in PeakHours}
             t == [v \in A |-> v.day]
  <2>1. c \in Staff /\ 2 * Cardinality(P) > Cardinality(A)
    BY <1>2 DEF PeakFlags
  <2>2. P \subseteq A /\ IsFiniteSet(A) /\ IsFiniteSet(P)
    <3>1. A \subseteq voids
      BY DEF VoidsIn
    <3> QED BY <3>1, FS_Subset DEF ShiftIInv, VoidsTyping
  <2>3. \A x \in A : t[x] \in 1..last
    BY DEF VoidsIn
  <2>4. ASSUME NEW d \in 1..last
        PROVE  Cardinality(Fibre(P, t, d)) * 2 <= 1 * Cardinality(Fibre(A, t, d))
    <3> DEFINE Ad == {v \in VoidsIn(d, d) : v.cashier = c}
               Pd == {v \in Ad : v.hour \in PeakHours}
    <3>1. Fibre(A, t, d) = Ad
      <4>1. \A v \in voids : v.day \in d..d <=> v.day = d
        BY <1>1
      <4> QED BY <4>1 DEF Fibre, VoidsIn
    <3>2. Fibre(P, t, d) = Pd
      BY <3>1 DEF Fibre
    <3>3. ~(2 * Cardinality(Pd) > Cardinality(Ad))
      BY <1>2, <2>1 DEF PeakFlags
    <3>4. Cardinality(Pd) \in Nat /\ Cardinality(Ad) \in Nat
      <4>1. Ad \subseteq A /\ Pd \subseteq A
        BY <3>1 DEF Fibre
      <4> QED BY <2>2, <4>1, FS_Subset, FS_CardinalityType
    <3> HIDE DEF Ad, Pd
    <3>5. Cardinality(Pd) * 2 <= 1 * Cardinality(Ad)
      BY <3>3, <3>4
    <3> QED BY <3>1, <3>2, <3>5
  <2> HIDE DEF A, P, t
  <2>5. Cardinality(P) * 2 <= 1 * Cardinality(A)
    BY <1>1, <2>2, <2>3, <2>4, ShareOfParts
  <2>6. Cardinality(P) \in Nat /\ Cardinality(A) \in Nat
    BY <2>2, FS_CardinalityType
  <2> QED BY <2>1, <2>5, <2>6
<1>3. ASSUME NEW c \in ShortRateFlags(1, last), \A d \in 1..last : c \notin ShortRateFlags(d, d)
      PROVE  FALSE
  <2> DEFINE A == {n \in ClosesIn(1, last) : closes[n].cashier = c}
             P == {n \in A : closes[n].variance < 0}
             t == [n \in A |-> DayOfShift(closes[n].at)]
  <2>1. c \in Cashier /\ Cardinality(P) * ShortRate[2] > ShortRate[1] * Cardinality(A)
    BY <1>3 DEF ShortRateFlags
  <2>2. P \subseteq A /\ IsFiniteSet(A) /\ IsFiniteSet(P)
    <3>1. IsFiniteSet(DOMAIN closes)
      <4>1. DOMAIN closes = 1..Len(closes) /\ Len(closes) \in Nat
        BY DEF ShiftIInv, DrawerTyping
      <4> QED BY <4>1, FS_Interval
    <3>2. A \subseteq DOMAIN closes
      BY DEF ClosesIn
    <3> QED BY <3>1, <3>2, FS_Subset
  <2>3. \A x \in A : t[x] \in 1..last
    BY DEF ClosesIn
  <2>4. ASSUME NEW d \in 1..last
        PROVE  Cardinality(Fibre(P, t, d)) * ShortRate[2]
                 <= ShortRate[1] * Cardinality(Fibre(A, t, d))
    <3> DEFINE Ad == {n \in ClosesIn(d, d) : closes[n].cashier = c}
               Pd == {n \in Ad : closes[n].variance < 0}
    <3>1. Fibre(A, t, d) = Ad
      <4>1. \A n \in DOMAIN closes :
              /\ DayOfShift(closes[n].at) \in d..d <=> DayOfShift(closes[n].at) = d
              /\ DayOfShift(closes[n].at) = d => DayOfShift(closes[n].at) \in 1..last
        BY <1>1
      <4> QED BY <4>1 DEF Fibre, ClosesIn
    <3>2. Fibre(P, t, d) = Pd
      BY <3>1 DEF Fibre
    <3>3. ~(Cardinality(Pd) * ShortRate[2] > ShortRate[1] * Cardinality(Ad))
      BY <1>3, <2>1 DEF ShortRateFlags
    <3>4. Cardinality(Pd) \in Nat /\ Cardinality(Ad) \in Nat
      <4>1. Ad \subseteq A /\ Pd \subseteq A
        BY <3>1 DEF Fibre
      <4> QED BY <2>2, <4>1, FS_Subset, FS_CardinalityType
    <3>5. Cardinality(Pd) * ShortRate[2] \in Nat /\ ShortRate[1] * Cardinality(Ad) \in Nat
      <4>1. \A m, n \in Nat : m * n \in Nat
        OBVIOUS
      <4> QED BY <3>4, <4>1, ShiftAssumption
    <3> HIDE DEF Ad, Pd
    <3>6. Cardinality(Pd) * ShortRate[2] <= ShortRate[1] * Cardinality(Ad)
      BY <3>3, <3>5
    <3> QED BY <3>1, <3>2, <3>6
  <2>5. ShortRate[1] \in Nat /\ ShortRate[2] \in Nat
    BY ShiftAssumption
  <2> HIDE DEF A, P, t
  <2>6. Cardinality(P) * ShortRate[2] <= ShortRate[1] * Cardinality(A)
    BY <1>1, <2>2, <2>3, <2>4, <2>5, ShareOfParts
  <2>7. Cardinality(P) * ShortRate[2] \in Nat /\ ShortRate[1] * Cardinality(A) \in Nat
    <3>1. \A m, n \in Nat : m * n \in Nat
      OBVIOUS
    <3> QED BY <2>2, <2>5, <3>1, FS_CardinalityType
  <2> QED BY <2>1, <2>6, <2>7
<1> QED BY <1>2, <1>3 DEF SharesShowOnADay

\* Every shift answers for its own cash, the variances are the cash missing, and the
\* flags are raised on the runs, rates and shares of the flagged cashier's own
\* shifts (shifts.py, audit.py).
THEOREM ShortsFallOnTheirCashierCorrect == ShiftSpec => []ShortsFallOnTheirCashier
<1>1. ShiftIInv => ShortsFallOnTheirCashier
  BY HandoffShields, VariancesTelescope, RunsAreOwn, FewAreAboveMedian, SharesShow
     DEF ShortsFallOnTheirCashier
<1> QED BY <1>1, ShiftInvariance, PTL

-----------------------------------------------------------------------------
(***************************************************************************)
(* Receipts, purchases and stock.                                          *)
(***************************************************************************)

IsSequence(s) == s \in Seq({s[n] : n \in DOMAIN s})

\* t is s with e at its end.
Appended(t, s, e) ==
  /\ Len(s) \in Nat /\ DOMAIN s = 1..Len(s)
  /\ IsSequence(t) /\ DOMAIN t = 1..(Len(s) + 1)
  /\ t[Len(s) + 1] = e /\ \A n \in DOMAIN s : t[n] = s[n]

\* What Append does to any sequence, whatever its elements.
LEMMA Appending ==
  ASSUME NEW s, IsSequence(s), NEW e
  PROVE  Appended(Append(s, e), s, e)
<1> DEFINE S == {s[n] : n \in DOMAIN s}
           T == S \cup {e}
           t == Append(s, e)
<1>1. s \in Seq(S)
  BY DEF IsSequence
<1>2. s \in Seq(T) /\ e \in T
  <2> HIDE DEF S
  <2> QED BY <1>1
<1>3. /\ Len(s) \in Nat /\ DOMAIN s = 1..Len(s)
      /\ t \in Seq(T) /\ Len(t) = Len(s) + 1
      /\ t[Len(s) + 1] = e /\ \A n \in 1..Len(s) : t[n] = s[n]
  <2> HIDE DEF T
  <2> QED BY <1>2
<1> HIDE DEF T, t
<1>4. t \in [1..Len(t) -> T] /\ DOMAIN t = 1..Len(t) /\ Len(t) \in Nat
  BY <1>3, LenProperties
<1>5. IsSequence(t)
  <2> DEFINE R == {t[n] : n \in DOMAIN t}
  <2>1. t \in [1..Len(t) -> R]
    BY <1>4
  <2>2. t \in Seq(R)
    <3> HIDE DEF R
    <3> QED BY <1>4, <2>1
  <2> QED BY <2>2 DEF IsSequence
<1> QED BY <1>3, <1>4, <1>5 DEF Appended, t

-----------------------------------------------------------------------------
\* The lines that p bills, unless a partner entered them, add up to its total, and
\* are of SKUs of the master table or unmapped.
Fits(p) ==
  /\ Near(LinesTotal(p.lines) + p.vat, p.total)
  /\ \A n \in DOMAIN p.lines : p.lines[n].sku \in Sku \cup {None}

DeskInv(d) ==
  /\ IsSequence(d)
  /\ \A n \in DOMAIN d :
       /\ d[n].on \in Int /\ d[n].total \in Int
       /\ d[n].state = "queued" => IsLines(d[n].lines) /\ Fits(d[n])

PurchasesInv(ps) ==
  /\ IsSequence(ps)
  /\ \A i \in DOMAIN ps :
       /\ ps[i].on \in Int /\ ps[i].total \in Int /\ IsLines(ps[i].lines)
       /\ ps[i].lines \notin Correction => Fits(ps[i])

Bills(p, sku) == \E n \in DOMAIN p.lines : p.lines[n].sku = sku

\* The i-th is the last purchase from the supplier that has the SKU.
IsLast(ps, i, sku, supplier) ==
  /\ i \in DOMAIN ps /\ ps[i].supplier = supplier /\ Bills(ps[i], sku)
  /\ \A j \in DOMAIN ps : ps[j].supplier = supplier /\ Bills(ps[j], sku) => j <= i

\* A price of the book is of the last purchase from its supplier that has its SKU, and
\* every mapped line is in the book.
BookInv(b, ps) ==
  /\ IsFiniteSet(DOMAIN b)
  /\ \A k \in DOMAIN b :
       /\ k = <<k[1], k[2]>> /\ k[1] # None
       /\ \E i \in DOMAIN ps :
            /\ IsLast(ps, i, k[1], k[2]) /\ b[k].on = ps[i].on
            /\ \E n \in DOMAIN ps[i].lines :
                 ps[i].lines[n].sku = k[1] /\ ps[i].lines[n].price = b[k].price
  /\ \A i \in DOMAIN ps : \A n \in DOMAIN ps[i].lines :
       ps[i].lines[n].sku # None => <<ps[i].lines[n].sku, ps[i].supplier>> \in DOMAIN b

\* A keg is weighed once a day.
WeighsInv(ws) ==
  /\ ws \subseteq WeighForm /\ IsFiniteSet(ws)
  /\ \A w, v \in ws : w.sku = v.sku /\ w.day = v.day => w = v

StockIInv ==
  /\ DeskInv(desk) /\ PurchasesInv(purchases) /\ BookInv(book, purchases)
  /\ counts \subseteq CountForm /\ WeighsInv(weighs)

\* At first there is nothing.
LEMMA InitStockIInv == StockInit => StockIInv
<1> SUFFICES ASSUME StockInit PROVE StockIInv
  OBVIOUS
<1>1. IsSequence(<<>>) /\ DOMAIN <<>> = {}
  BY DEF IsSequence
<1>2. DeskInv(desk) /\ PurchasesInv(purchases)
  BY <1>1 DEF StockInit, DeskInv, PurchasesInv
<1>3. BookInv(book, purchases) /\ WeighsInv(weighs) /\ counts \subseteq CountForm
  BY <1>1, FS_EmptySet DEF StockInit, BookInv, WeighsInv
<1> QED BY <1>2, <1>3 DEF StockIInv

\* What checking does to lines is of no effect on what they add up to.
LEMMA SameTotals ==
  ASSUME NEW l, NEW m, DOMAIN l = DOMAIN m,
         \A n \in DOMAIN m : l[n].qty = m[n].qty /\ l[n].price = m[n].price
  PROVE  LinesTotal(l) = LinesTotal(m) /\ (IsLines(m) => IsLines(l))
<1>1. [n \in DOMAIN l |-> l[n].qty * l[n].price] = [n \in DOMAIN m |-> m[n].qty * m[n].price]
  OBVIOUS
<1>2. LinesTotal(l) = LinesTotal(m)
  BY <1>1 DEF LinesTotal
<1> QED BY <1>2 DEF IsLines

\* A receipt is on the desk as it was checked, its lines kept only if they add up.
LEMMA CheckKeepsDesk ==
  ASSUME DeskInv(desk), NEW e \in Invoice, CheckReceipt(e)
  PROVE  DeskInv(desk')
<1> DEFINE lines == [n \in DOMAIN e.lines |-> CheckedLine(e.lines[n], e.supplier)]
           new == [supplier |-> e.supplier, on |-> e.on,
                   lines |-> IF PassesSumCheck(e) THEN lines ELSE <<>>, vat |-> e.vat,
                   total |-> e.total,
                   state |-> IF PassesSumCheck(e) THEN "queued" ELSE "auto_rejected"]
<1>1. desk' = Append(desk, new)
  BY DEF CheckReceipt
<1>2. new.on \in Int /\ new.total \in Int
  BY StockAssumption
<1>3. /\ DOMAIN lines = DOMAIN e.lines
      /\ \A n \in DOMAIN e.lines : /\ lines[n].qty = e.lines[n].qty
                                   /\ lines[n].price = e.lines[n].price
                                   /\ lines[n].sku \in Sku \cup {None}
  BY DEF CheckedLine
<1>4. new.state = "queued" => IsLines(new.lines) /\ Fits(new)
  <2> SUFFICES ASSUME new.state = "queued" PROVE IsLines(new.lines) /\ Fits(new)
    OBVIOUS
  <2>1. PassesSumCheck(e)
    OBVIOUS
  <2>2. new.lines = lines /\ new.vat = e.vat /\ new.total = e.total
    BY <2>1
  <2> HIDE DEF new, lines
  <2>3. LinesTotal(lines) = LinesTotal(e.lines) /\ IsLines(lines)
    BY <1>3, StockAssumption, SameTotals
  <2> QED BY <1>3, <2>1, <2>2, <2>3 DEF PassesSumCheck, Fits
<1> HIDE DEF new
<1>5. /\ Len(desk) \in Nat /\ DOMAIN desk = 1..Len(desk)
      /\ IsSequence(desk') /\ DOMAIN desk' = 1..(Len(desk) + 1)
      /\ desk'[Len(desk) + 1] = new /\ \A n \in DOMAIN desk : desk'[n] = desk[n]
  <2>1. IsSequence(desk)
    BY DEF DeskInv
  <2>2. Appended(desk', desk, new)
    BY <1>1, <2>1, Appending
  <2> QED BY <2>2 DEF Appended
<1>6. \A n \in DOMAIN desk' : n \in DOMAIN desk \/ n = Len(desk) + 1
  BY <1>5
<1> QED BY <1>2, <1>4, <1>5, <1>6 DEF DeskInv

\* What is stored of a receipt that fits, or of lines entered again, is a purchase.
LEMMA StoreKeepsPurchases ==
  ASSUME PurchasesInv(purchases), NEW c, NEW lines, Store(c, lines),
         c.on \in Int, c.total \in Int, IsLines(lines),
         lines \notin Correction =>
           /\ Near(LinesTotal(lines) + c.vat, c.total)
           /\ \A n \in DOMAIN lines : lines[n].sku \in Sku \cup {None}
  PROVE  PurchasesInv(purchases')
<1> DEFINE new == [supplier |-> c.supplier, on |-> c.on, lines |-> lines, vat |-> c.vat,
                   total |-> c.total]
<1>1. purchases' = Append(purchases, new)
  BY DEF Store
<1>2. /\ new.on \in Int /\ new.total \in Int /\ IsLines(new.lines)
      /\ new.lines \notin Correction => Fits(new)
  BY DEF Fits
<1> HIDE DEF new
<1>3. /\ Len(purchases) \in Nat /\ DOMAIN purchases = 1..Len(purchases)
      /\ IsSequence(purchases') /\ DOMAIN purchases' = 1..(Len(purchases) + 1)
      /\ purchases'[Len(purchases) + 1] = new
      /\ \A i \in DOMAIN purchases : purchases'[i] = purchases[i]
  <2>1. IsSequence(purchases)
    BY DEF PurchasesInv
  <2>2. Appended(purchases', purchases, new)
    BY <1>1, <2>1, Appending
  <2> QED BY <2>2 DEF Appended
<1>4. \A i \in DOMAIN purchases' : i \in DOMAIN purchases \/ i = Len(purchases) + 1
  BY <1>3
<1> QED BY <1>2, <1>3, <1>4 DEF PurchasesInv

\* A purchase stored is the last of its supplier for what it bills, and of nothing else.
LEMMA StoreKeepsBook ==
  ASSUME PurchasesInv(purchases), BookInv(book, purchases), NEW c, NEW lines,
         Store(c, lines), IsLines(lines)
  PROVE  BookInv(book', purchases')
<1> DEFINE priced(sku) == {n \in DOMAIN lines : lines[n].sku = sku /\ sku # None}
           skus == {lines[n].sku : n \in DOMAIN lines} \ {None}
           keys == {<<s, c.supplier>> : s \in skus}
           fresh == [k \in keys |-> [price |-> lines[Max(priced(k[1]))].price, on |-> c.on]]
           new == [supplier |-> c.supplier, on |-> c.on, lines |-> lines, vat |-> c.vat,
                   total |-> c.total]
           L == Len(purchases) + 1
<1>1. purchases' = Append(purchases, new) /\ book' = Over(fresh, book)
  BY DEF Store
<1>2. new.supplier = c.supplier /\ new.on = c.on /\ new.lines = lines
  OBVIOUS
<1>3. DOMAIN fresh = keys
  OBVIOUS
<1>4. \A k \in keys : k = <<k[1], k[2]>> /\ k[1] \in skus /\ k[2] = c.supplier
  OBVIOUS
<1>5. \A k \in keys : fresh[k].price = lines[Max(priced(k[1]))].price /\ fresh[k].on = c.on
  OBVIOUS
<1>6. ASSUME NEW k \in keys
      PROVE  \E n \in DOMAIN lines : lines[n].sku = k[1] /\ lines[n].price = fresh[k].price
  <2> DEFINE P == priced(k[1])
  <2>1. P \subseteq DOMAIN lines /\ P # {}
    BY <1>4
  <2>2. IsFiniteSet(P) /\ P \subseteq Int
    BY <2>1, FS_Subset DEF IsLines
  <2> HIDE DEF P
  <2>3. Max(P) \in P
    BY <2>1, <2>2, MaxFinite
  <2>4. Max(P) \in DOMAIN lines /\ lines[Max(P)].sku = k[1]
    BY <2>3 DEF P
  <2> QED BY <1>5, <2>4 DEF P
<1>7. IsFiniteSet(keys)
  <2> DEFINE f == [n \in DOMAIN lines |-> <<lines[n].sku, c.supplier>>]
             I == {f[n] : n \in DOMAIN lines}
  <2>1. IsFiniteSet(I)
    BY ImageFinite DEF IsLines
  <2>2. keys \subseteq I
    OBVIOUS
  <2> QED BY <2>1, <2>2, FS_Subset
<1>8. \A n \in DOMAIN lines : lines[n].sku # None => <<lines[n].sku, c.supplier>> \in keys
  OBVIOUS
<1>9. \A s \in skus : s # None /\ \E n \in DOMAIN lines : lines[n].sku = s
  OBVIOUS
<1>10. /\ L \in Nat \ {0} /\ DOMAIN purchases = 1..(L - 1) /\ DOMAIN purchases' = 1..L
       /\ purchases'[L] = new /\ \A i \in DOMAIN purchases : purchases'[i] = purchases[i]
  <2> HIDE DEF new
  <2>1. IsSequence(purchases)
    BY DEF PurchasesInv
  <2>2. Appended(purchases', purchases, new)
    BY <1>1, <2>1, Appending
  <2> QED BY <2>2 DEF Appended
<1> HIDE DEF new, fresh, keys, skus, priced, L
<1>11. /\ DOMAIN book' = keys \cup DOMAIN book
       /\ \A k \in keys : book'[k] = fresh[k]
       /\ \A k \in DOMAIN book : k \notin keys => book'[k] = book[k]
  BY <1>1, <1>3 DEF Over
<1>12. /\ L \in DOMAIN purchases' /\ DOMAIN purchases \subseteq DOMAIN purchases'
       /\ \A i \in DOMAIN purchases' : i = L \/ i \in DOMAIN purchases
       /\ \A i \in DOMAIN purchases' : i <= L
  BY <1>10
<1>13. IsFiniteSet(DOMAIN book')
  <2>1. IsFiniteSet(DOMAIN book)
    BY DEF BookInv
  <2> QED BY <1>7, <1>11, <2>1, FS_Union
<1>14. ASSUME NEW k \in keys
       PROVE  /\ k = <<k[1], k[2]>> /\ k[1] # None
              /\ \E i \in DOMAIN purchases' :
                   /\ IsLast(purchases', i, k[1], k[2]) /\ book'[k].on = purchases'[i].on
                   /\ \E n \in DOMAIN purchases'[i].lines :
                        /\ purchases'[i].lines[n].sku = k[1]
                        /\ purchases'[i].lines[n].price = book'[k].price
  <2>1. k = <<k[1], k[2]>> /\ k[1] # None /\ k[2] = c.supplier
    BY <1>4, <1>9
  <2>2. PICK n \in DOMAIN lines : lines[n].sku = k[1] /\ lines[n].price = fresh[k].price
    BY <1>6
  <2>3. Bills(purchases'[L], k[1])
    BY <1>2, <1>10, <2>2 DEF Bills
  <2>4. IsLast(purchases', L, k[1], k[2])
    BY <1>2, <1>10, <1>12, <2>1, <2>3 DEF IsLast
  <2>5. book'[k].on = purchases'[L].on
    BY <1>2, <1>5, <1>10, <1>11
  <2>6. purchases'[L].lines[n].sku = k[1] /\ purchases'[L].lines[n].price = book'[k].price
    BY <1>2, <1>10, <1>11, <2>2
  <2>7. n \in DOMAIN purchases'[L].lines
    BY <1>2, <1>10
  <2> QED BY <1>12, <2>1, <2>4, <2>5, <2>6, <2>7
<1>15. ASSUME NEW k \in DOMAIN book, k \notin keys
       PROVE  /\ k = <<k[1], k[2]>> /\ k[1] # None
              /\ \E i \in DOMAIN purchases' :
                   /\ IsLast(purchases', i, k[1], k[2]) /\ book'[k].on = purchases'[i].on
                   /\ \E n \in DOMAIN purchases'[i].lines :
                        /\ purchases'[i].lines[n].sku = k[1]
                        /\ purchases'[i].lines[n].price = book'[k].price
  <2>1. k = <<k[1], k[2]>> /\ k[1] # None
    BY DEF BookInv
  <2>2. PICK i \in DOMAIN purchases :
          /\ IsLast(purchases, i, k[1], k[2]) /\ book[k].on = purchases[i].on
          /\ \E n \in DOMAIN purchases[i].lines :
               purchases[i].lines[n].sku = k[1] /\ purchases[i].lines[n].price = book[k].price
    BY DEF BookInv
  <2>3. ~(c.supplier = k[2] /\ Bills(new, k[1]))
    BY <1>2, <1>8, <1>15, <2>1 DEF Bills
  <2>4. IsLast(purchases', i, k[1], k[2])
    BY <1>2, <1>10, <1>12, <2>2, <2>3 DEF IsLast
  <2>5. book'[k] = book[k] /\ purchases'[i] = purchases[i]
    BY <1>10, <1>11, <1>15
  <2> QED BY <1>12, <2>1, <2>2, <2>4, <2>5
<1>16. ASSUME NEW i \in DOMAIN purchases', NEW n \in DOMAIN purchases'[i].lines,
              purchases'[i].lines[n].sku # None
       PROVE  <<purchases'[i].lines[n].sku, purchases'[i].supplier>> \in DOMAIN book'
  <2>1. CASE i = L
    BY <1>2, <1>8, <1>10, <1>11, <1>16, <2>1
  <2>2. CASE i \in DOMAIN purchases
    <3>1. purchases'[i] = purchases[i]
      BY <1>10, <2>2
    <3>2. <<purchases[i].lines[n].sku, purchases[i].supplier>> \in DOMAIN book
      BY <1>16, <2>2, <3>1 DEF BookInv
    <3> QED BY <1>11, <3>1, <3>2
  <2> QED BY <1>12, <2>1, <2>2
<1> QED BY <1>11, <1>13, <1>14, <1>15, <1>16 DEF BookInv

\* No step breaks the invariant: only a check changes the desk, only an approval
\* the purchases and the book, and no weigh-in is the second of its keg and day.
LEMMA NextStockIInv == StockIInv /\ [StockNext]_stockVars => StockIInv'
<1> SUFFICES ASSUME StockIInv, [StockNext]_stockVars PROVE StockIInv'
  OBVIOUS
<1>1. DeskInv(desk) /\ PurchasesInv(purchases) /\ BookInv(book, purchases)
  BY DEF StockIInv
<1>2. ASSUME NEW e \in Invoice, CheckReceipt(e) PROVE StockIInv'
  <2>1. DeskInv(desk')
    BY <1>1, <1>2, CheckKeepsDesk
  <2>2. UNCHANGED <<purchases, book, counts, weighs>>
    BY <1>2 DEF CheckReceipt
  <2> QED BY <2>1, <2>2 DEF StockIInv
<1>3. ASSUME NEW c, NEW lines, Store(c, lines), c.on \in Int, c.total \in Int, IsLines(lines),
             lines \notin Correction =>
               /\ Near(LinesTotal(lines) + c.vat, c.total)
               /\ \A n \in DOMAIN lines : lines[n].sku \in Sku \cup {None}
      PROVE  StockIInv'
  <2>1. PurchasesInv(purchases')
    BY <1>1, <1>3, StoreKeepsPurchases
  <2>2. BookInv(book', purchases')
    BY <1>1, <1>3, StoreKeepsBook
  <2>3. UNCHANGED <<desk, counts, weighs>>
    BY <1>3 DEF Store
  <2> QED BY <2>1, <2>2, <2>3 DEF StockIInv
<1>4. ASSUME NEW n \in DOMAIN desk, Approve(n) PROVE StockIInv'
  <2> DEFINE c == desk[n]
             lines == [l \in DOMAIN desk[n].lines |-> Bare(desk[n].lines[l])]
  <2>1. c.on \in Int /\ c.total \in Int /\ IsLines(c.lines) /\ Fits(c)
    BY <1>1, <1>4 DEF Approve, DeskInv
  <2>2. /\ DOMAIN lines = DOMAIN c.lines
        /\ \A l \in DOMAIN c.lines : /\ lines[l].qty = c.lines[l].qty
                                     /\ lines[l].price = c.lines[l].price
                                     /\ lines[l].sku = c.lines[l].sku
    BY DEF Bare
  <2>3. Store(c, lines)
    BY <1>4 DEF Approve
  <2> HIDE DEF c, lines
  <2>4. LinesTotal(lines) = LinesTotal(c.lines) /\ IsLines(lines)
    BY <2>1, <2>2, SameTotals
  <2>5. /\ Near(LinesTotal(lines) + c.vat, c.total)
        /\ \A l \in DOMAIN lines : lines[l].sku \in Sku \cup {None}
    BY <2>1, <2>2, <2>4 DEF Fits
  <2> QED BY <1>3, <2>1, <2>3, <2>4, <2>5
<1>5. ASSUME NEW n \in DOMAIN desk, NEW lines \in Correction, ApproveCorrected(n, lines)
      PROVE  StockIInv'
  <2>1. desk[n].on \in Int /\ desk[n].total \in Int
    BY <1>1 DEF DeskInv
  <2>2. Store(desk[n], lines) /\ IsLines(lines)
    BY <1>5, StockAssumption DEF ApproveCorrected
  <2> QED BY <1>3, <2>1, <2>2
<1>6. ASSUME NEW form \in CountForm, Count(form) PROVE StockIInv'
  BY <1>6 DEF StockIInv, Count
<1>7. ASSUME NEW form \in WeighForm, Weigh(form) PROVE StockIInv'
  <2>1. /\ ~\E w \in weighs : w.sku = form.sku /\ w.day = form.day
        /\ weighs' = weighs \cup {form} /\ UNCHANGED <<desk, purchases, book, counts>>
    BY <1>7 DEF Weigh
  <2>2. WeighsInv(weighs)
    BY DEF StockIInv
  <2>3. WeighsInv(weighs')
    <3>1. IsFiniteSet(weighs') /\ weighs' \subseteq WeighForm
      BY <2>1, <2>2, FS_AddElement DEF WeighsInv
    <3> QED BY <2>1, <2>2, <3>1 DEF WeighsInv
  <2> QED BY <2>1, <2>3 DEF StockIInv
<1>8. CASE UNCHANGED stockVars
  BY <1>8 DEF stockVars, StockIInv
<1> QED BY <1>2, <1>4, <1>5, <1>6, <1>7, <1>8 DEF StockNext

\* The invariant of the desk, the purchases, the book and the weigh-ins: what a
\* receipt on the desk or a purchase adds up to, which purchase each price is of.
THEOREM StockInvariance == StockSpec => []StockIInv
BY InitStockIInv, NextStockIInv, PTL DEF StockSpec

-----------------------------------------------------------------------------
\* The payables of the months are the totals of all purchases.
LEMMA PayablesPartition ==
  ASSUME PurchasesInv(purchases)
  PROVE  Total([m \in {MonthOf(purchases[i].on) : i \in DOMAIN purchases} |-> Payables(m)])
           = Total([i \in DOMAIN purchases |-> purchases[i].total])
<1> DEFINE A == DOMAIN purchases
           months == {MonthOf(purchases[i].on) : i \in DOMAIN purchases}
           f == [i \in A |-> purchases[i].total]
           t == [i \in A |-> MonthOf(purchases[i].on)]
           e == [m \in months |-> Payables(m)]
<1>1. IsFiniteSet(A)
  <2>1. IsSequence(purchases)
    BY DEF PurchasesInv
  <2>2. Appended(Append(purchases, 0), purchases, 0)
    BY <2>1, Appending
  <2> QED BY <2>2, FS_Interval DEF Appended
<1>2. Summable(f, A)
  BY <1>1 DEF Summable, PurchasesInv
<1>3. IsFiniteSet(months) /\ \A i \in A : t[i] \in months
  <2>1. IsFiniteSet({t[i] : i \in A})
    BY <1>1, ImageFinite
  <2>2. months = {t[i] : i \in A}
    OBVIOUS
  <2> QED BY <2>1, <2>2
<1>4. ASSUME NEW m \in months PROVE e[m] = SumFunctionOnSet(f, Fibre(A, t, m))
  <2> DEFINE due == {i \in DOMAIN purchases : MonthOf(purchases[i].on) = m}
             g == [i \in due |-> purchases[i].total]
  <2>1. due = Fibre(A, t, m)
    BY DEF Fibre
  <2>2. e[m] = SumFunctionOnSet(g, due)
    BY DEF Payables, Total, SumFunction
  <2>3. Summable(f, due) /\ \A i \in due : f[i] = g[i]
    BY <1>2, SummableSubset
  <2> HIDE DEF due, g, f
  <2>4. SumFunctionOnSet(f, due) = SumFunctionOnSet(g, due)
    BY <2>3, SumSame
  <2> QED BY <2>1, <2>2, <2>4
<1>5. DOMAIN f = A /\ DOMAIN e = months
  OBVIOUS
<1> HIDE DEF f, t, e, A, months
<1>6. SumFunctionOnSet(e, months) = SumFunctionOnSet(f, A)
  <2>1. \A m \in months : e[m] = SumFunctionOnSet(f, Fibre(A, t, m))
    BY <1>4
  <2> QED BY <1>2, <1>3, <2>1, SumFibres
<1>7. Total(e) = Total(f)
  BY <1>5, <1>6 DEF Total, SumFunction
<1> QED BY <1>7 DEF e, f, A, months

\* A price of the book is the one the invariant says.
LEMMA BookFollowsPurchases ==
  ASSUME PurchasesInv(purchases), BookInv(book, purchases), NEW k \in DOMAIN book
  PROVE  LET p == purchases[Max({i \in DOMAIN purchases : purchases[i].supplier = k[2]
                                   /\ \E n \in DOMAIN purchases[i].lines :
                                        purchases[i].lines[n].sku = k[1]})]
         IN /\ book[k].on = p.on
            /\ \E n \in DOMAIN p.lines : p.lines[n].sku = k[1] /\ p.lines[n].price = book[k].price
<1> DEFINE S == {i \in DOMAIN purchases : purchases[i].supplier = k[2]
                    /\ \E n \in DOMAIN purchases[i].lines : purchases[i].lines[n].sku = k[1]}
<1>1. PICK i \in DOMAIN purchases :
        /\ IsLast(purchases, i, k[1], k[2]) /\ book[k].on = purchases[i].on
        /\ \E n \in DOMAIN purchases[i].lines :
             purchases[i].lines[n].sku = k[1] /\ purchases[i].lines[n].price = book[k].price
  BY DEF BookInv
<1>2. IsSequence(purchases)
  BY DEF PurchasesInv
<1>3. Appended(Append(purchases, 0), purchases, 0)
  BY <1>2, Appending
<1>4. DOMAIN purchases \subseteq Int /\ IsFiniteSet(DOMAIN purchases)
  <2>1. DOMAIN purchases = 1..Len(purchases) /\ Len(purchases) \in Nat
    BY <1>3 DEF Appended
  <2> QED BY <2>1, FS_Interval
<1>5. i \in S /\ \A j \in S : j <= i
  BY <1>1 DEF IsLast, Bills
<1>6. S \subseteq Int /\ IsFiniteSet(S) /\ S # {}
  <2>1. S \subseteq DOMAIN purchases
    OBVIOUS
  <2> HIDE DEF S
  <2> QED BY <1>4, <1>5, <2>1, FS_Subset
<1> HIDE DEF S
<1>7. Max(S) = i
  <2>1. Max(S) \in S /\ \A x \in S : x <= Max(S)
    BY <1>6, MaxFinite
  <2> QED BY <1>5, <1>6, <2>1
<1>8. purchases[Max(S)] = purchases[i]
  BY <1>7
<1> QED BY <1>1, <1>8 DEF S

\* A SKU has a price to cost it at if some purchase has it, and then only.
LEMMA BoughtHasCost ==
  ASSUME PurchasesInv(purchases), BookInv(book, purchases), NEW sku \in Sku
  PROVE  LatestPrices(sku) # {} <=> \E i \in DOMAIN purchases : Bills(purchases[i], sku)
<1> DEFINE keys == {k \in DOMAIN book : k[1] = sku}
<1>1. ASSUME LatestPrices(sku) # {} PROVE \E i \in DOMAIN purchases : Bills(purchases[i], sku)
  <2>1. PICK k \in DOMAIN book : k[1] = sku
    BY <1>1 DEF LatestPrices
  <2> QED BY <2>1 DEF BookInv, IsLast
<1>2. ASSUME NEW i \in DOMAIN purchases, Bills(purchases[i], sku)
      PROVE  LatestPrices(sku) # {}
  <2>1. PICK n \in DOMAIN purchases[i].lines : purchases[i].lines[n].sku = sku
    BY <1>2 DEF Bills
  <2>2. <<sku, purchases[i].supplier>> \in DOMAIN book
    BY <2>1, ReportsAssumption DEF BookInv
  <2>3. keys # {} /\ IsFiniteSet(keys)
    <3>1. <<sku, purchases[i].supplier>> \in keys
      BY <2>2
    <3> QED BY <3>1, FS_Subset DEF BookInv
  <2>4. \A k \in keys : book[k].on \in Int
    BY DEF BookInv, PurchasesInv
  <2> DEFINE on == [k \in keys |-> book[k].on]
  <2>5. \E x \in keys : \A o \in keys : on[o] <= on[x]
    <3>1. \A k \in keys : on[k] \in Int
      BY <2>4
    <3> HIDE DEF on, keys
    <3> QED BY <2>3, <3>1, Extremes
  <2>6. PICK x \in keys : \A o \in keys : book[o].on <= book[x].on
    BY <2>5
  <2>7. book[x].price \in LatestPrices(sku)
    BY <2>6 DEF LatestPrices
  <2> QED BY <2>7
<1> QED BY <1>1, <1>2

\* The property follows from the invariant.
LEMMA PurchasesFit == StockIInv => PurchasesAddUp
<1> SUFFICES ASSUME StockIInv PROVE PurchasesAddUp
  OBVIOUS
<1>1. PurchasesInv(purchases) /\ BookInv(book, purchases)
  BY DEF StockIInv
<1>2. \A i \in DOMAIN purchases : purchases[i].lines \notin Correction => Fits(purchases[i])
  BY <1>1 DEF PurchasesInv
<1>3. Total([m \in {MonthOf(purchases[i].on) : i \in DOMAIN purchases} |-> Payables(m)])
        = Total([i \in DOMAIN purchases |-> purchases[i].total])
  BY <1>1, PayablesPartition
<1>4. \A k \in DOMAIN book :
        LET p == purchases[Max({i \in DOMAIN purchases : purchases[i].supplier = k[2]
                                  /\ \E n \in DOMAIN purchases[i].lines :
                                       purchases[i].lines[n].sku = k[1]})]
        IN /\ book[k].on = p.on
           /\ \E n \in DOMAIN p.lines : p.lines[n].sku = k[1] /\ p.lines[n].price = book[k].price
  BY <1>1, BookFollowsPurchases
<1>5. \A sku \in Sku : LatestPrices(sku) # {} <=>
        \E i \in DOMAIN purchases : \E n \in DOMAIN purchases[i].lines :
          purchases[i].lines[n].sku = sku
  BY <1>1, BoughtHasCost DEF Bills
<1> QED BY <1>2, <1>3, <1>4, <1>5 DEF PurchasesAddUp, Fits

\* Every purchase adds up to its total or has lines a partner entered, the payables
\* of the months are the totals of the purchases, and the book has the price of the
\* last purchase of each SKU and supplier (approvals.py, cost.py, monthly_pnl.py).
THEOREM PurchasesAddUpCorrect == StockSpec => []PurchasesAddUp
BY PurchasesFit, StockInvariance, PTL

-----------------------------------------------------------------------------
\* What each purchase has of a SKU.
Bought(sku) ==
  [i \in DOMAIN purchases |->
     Total([n \in DOMAIN purchases[i].lines |->
              IF purchases[i].lines[n].sku = sku THEN purchases[i].lines[n].qty ELSE 0])]

\* They can be added up.
LEMMA BoughtSummable ==
  ASSUME PurchasesInv(purchases), NEW sku
  PROVE  Summable(Bought(sku), DOMAIN purchases)
<1>1. IsFiniteSet(DOMAIN purchases)
  <2>1. IsSequence(purchases)
    BY DEF PurchasesInv
  <2>2. Appended(Append(purchases, 0), purchases, 0)
    BY <2>1, Appending
  <2> QED BY <2>2, FS_Interval DEF Appended
<1>2. ASSUME NEW i \in DOMAIN purchases PROVE Bought(sku)[i] \in Int
  <2> DEFINE l == purchases[i].lines
             f == [n \in DOMAIN l |-> IF l[n].sku = sku THEN l[n].qty ELSE 0]
  <2>1. IsLines(l)
    BY DEF PurchasesInv
  <2>2. \A n \in DOMAIN l : f[n] \in Int
    BY <2>1 DEF IsLines
  <2>3. Bought(sku)[i] = Total(f) /\ DOMAIN f = DOMAIN l
    BY DEF Bought
  <2> HIDE DEF f, l
  <2>4. SumFunctionOnSet(f, DOMAIN l) \in Int
    BY <2>1, <2>2, SumType DEF Summable, IsLines
  <2> QED BY <2>3, <2>4 DEF Total, SumFunction
<1> QED BY <1>1, <1>2 DEF Summable

\* What is bought in a window is their sum over the purchases in it.
LEMMA PurchasedIsSum ==
  ASSUME PurchasesInv(purchases), NEW sku, NEW open, NEW close, NEW within,
         within = {i \in DOMAIN purchases : InWindow(purchases[i].on, open, close)}
  PROVE  /\ Summable(Bought(sku), within)
         /\ PurchasedQuantity(sku, open, close) = SumFunctionOnSet(Bought(sku), within)
         /\ PurchasedQuantity(sku, open, close) \in Int
<1> DEFINE W == {i \in DOMAIN purchases : InWindow(purchases[i].on, open, close)}
           g == [i \in W |-> Total([n \in DOMAIN purchases[i].lines |->
                   IF purchases[i].lines[n].sku = sku THEN purchases[i].lines[n].qty ELSE 0])]
<1>1. PurchasedQuantity(sku, open, close) = Total(g) /\ DOMAIN g = W
  BY DEF PurchasedQuantity
<1>2. \A i \in W : Bought(sku)[i] = g[i]
  BY DEF Bought
<1>3. W \subseteq DOMAIN purchases /\ within = W
  OBVIOUS
<1> HIDE DEF W, g
<1>4. Summable(Bought(sku), W)
  BY <1>3, BoughtSummable, SummableSubset
<1>5. SumFunctionOnSet(Bought(sku), W) = SumFunctionOnSet(g, W)
  BY <1>2, <1>4, SumSame
<1>6. SumFunctionOnSet(Bought(sku), W) \in Int
  BY <1>4, SumType
<1>7. Total(g) = SumFunctionOnSet(g, W)
  BY <1>1 DEF Total, SumFunction
<1> QED BY <1>1, <1>3, <1>4, <1>5, <1>6, <1>7

\* A delivery is in exactly one of two windows that meet.
LEMMA WindowsMeet ==
  ASSUME PurchasesInv(purchases), NEW sku, NEW x \in Int, NEW y \in Int, NEW z \in Int,
         x < y, y < z
  PROVE  /\ PurchasedQuantity(sku, x, y) \in Int /\ PurchasedQuantity(sku, y, z) \in Int
         /\ PurchasedQuantity(sku, x, y) + PurchasedQuantity(sku, y, z)
              = PurchasedQuantity(sku, x, z)
<1> DEFINE W(o, c) == {i \in DOMAIN purchases : InWindow(purchases[i].on, o, c)}
<1>1. \A i \in DOMAIN purchases : purchases[i].on \in Int
  BY DEF PurchasesInv
<1>2. x # None /\ y # None /\ z # None
  BY ReportsAssumption
<1>3. W(x, y) \cap W(y, z) = {} /\ W(x, y) \cup W(y, z) = W(x, z)
  BY <1>1, <1>2 DEF InWindow
<1>4. ASSUME NEW o, NEW c
      PROVE  /\ Summable(Bought(sku), W(o, c)) /\ PurchasedQuantity(sku, o, c) \in Int
             /\ PurchasedQuantity(sku, o, c) = SumFunctionOnSet(Bought(sku), W(o, c))
  BY PurchasedIsSum
<1> DEFINE A == W(x, y)
           B == W(y, z)
           C == W(x, z)
<1>5. /\ Summable(Bought(sku), A) /\ Summable(Bought(sku), B)
      /\ A \cap B = {} /\ A \cup B = C
  BY <1>3, <1>4
<1>6. /\ PurchasedQuantity(sku, x, y) = SumFunctionOnSet(Bought(sku), A)
      /\ PurchasedQuantity(sku, y, z) = SumFunctionOnSet(Bought(sku), B)
      /\ PurchasedQuantity(sku, x, z) = SumFunctionOnSet(Bought(sku), C)
      /\ PurchasedQuantity(sku, x, y) \in Int /\ PurchasedQuantity(sku, y, z) \in Int
  BY <1>4
<1> HIDE DEF A, B, C
<1>7. SumFunctionOnSet(Bought(sku), A \cup B)
        = SumFunctionOnSet(Bought(sku), A) + SumFunctionOnSet(Bought(sku), B)
  BY <1>5, SumUnion
<1> QED BY <1>5, <1>6, <1>7

\* What is consumed between one count and another.
LEMMA ConsumedBetween ==
  ASSUME PurchasesInv(purchases), NEW sku, NEW c \in CountForm, NEW d \in CountForm
  PROVE  ConsumedQuantity(sku, {c}, {d})
           = c.qty + PurchasedQuantity(sku, c.day, d.day) - d.qty
<1>1. ASSUME NEW x \in CountForm PROVE Total([y \in {x} |-> y.qty]) = x.qty
  <2> DEFINE f == [y \in {x} |-> y.qty]
  <2>1. f[x] = x.qty /\ f[x] \in Int /\ DOMAIN f = {x}
    BY StockAssumption
  <2> HIDE DEF f
  <2>2. SumFunctionOnSet(f, {x}) = f[x]
    BY <2>1, SumSingle
  <2> QED BY <2>1, <2>2 DEF Total, SumFunction, f
<1>2. \A x : {x} # {} /\ (CHOOSE y \in {x} : TRUE) = x
  OBVIOUS
<1> QED BY <1>1, <1>2 DEF ConsumedQuantity

\* The windows between three stocktakes meet in the second, for every SKU.
LEMMA CafeWindows ==
  ASSUME PurchasesInv(purchases), counts \subseteq CountForm
  PROVE  CafeWindowsPartition
<1> DEFINE cost == [k \in CafeSku |-> 1]
           of(S, k) == {c \in S : c.sku = k}
           used(S, T) == [k \in CafeSku |->
                            IF cost[k] = None THEN 0
                            ELSE ConsumedQuantity(k, of(S, k), of(T, k)) * cost[k]]
<1> SUFFICES ASSUME NEW X \in SUBSET counts, NEW Y \in SUBSET counts, NEW Z \in SUBSET counts,
                    Stocktake(X), Stocktake(Y), Stocktake(Z), Before(X, Y), Before(Y, Z)
             PROVE  CafeCogs(X, Y, cost) + CafeCogs(Y, Z, cost) = CafeCogs(X, Z, cost)
  BY DEF CafeWindowsPartition
<1>1. \A S, T : CafeCogs(S, T, cost) = Total(used(S, T)) /\ DOMAIN used(S, T) = CafeSku
  BY DEF CafeCogs
<1>2. ASSUME NEW k \in CafeSku
      PROVE  /\ used(X, Y)[k] \in Int /\ used(Y, Z)[k] \in Int
             /\ used(X, Z)[k] = used(X, Y)[k] + used(Y, Z)[k]
  <2>1. cost[k] = 1 /\ cost[k] # None
    BY ReportsAssumption
  <2>2. \A S, T : used(S, T)[k] = ConsumedQuantity(k, of(S, k), of(T, k)) * 1
    BY <2>1
  <2>3. PICK x \in X : of(X, k) = {x}
    BY DEF Stocktake
  <2>4. PICK y \in Y : of(Y, k) = {y}
    BY DEF Stocktake
  <2>5. PICK z \in Z : of(Z, k) = {z}
    BY DEF Stocktake
  <2>6. x \in CountForm /\ y \in CountForm /\ z \in CountForm
    OBVIOUS
  <2>7. x.sku = k /\ y.sku = k /\ z.sku = k
    BY <2>3, <2>4, <2>5
  <2>8. x.day \in Int /\ y.day \in Int /\ z.day \in Int /\ x.day < y.day /\ y.day < z.day
    BY <2>6, <2>7, StockAssumption DEF Before
  <2> DEFINE pxy == PurchasedQuantity(k, x.day, y.day)
             pyz == PurchasedQuantity(k, y.day, z.day)
             pxz == PurchasedQuantity(k, x.day, z.day)
  <2>9. pxy \in Int /\ pyz \in Int /\ pxy + pyz = pxz
    BY <2>8, WindowsMeet
  <2>10. /\ used(X, Y)[k] = (x.qty + pxy - y.qty) * 1
         /\ used(Y, Z)[k] = (y.qty + pyz - z.qty) * 1
         /\ used(X, Z)[k] = (x.qty + pxz - z.qty) * 1
    <3> HIDE DEF used, of, cost
    <3> QED BY <2>2, <2>3, <2>4, <2>5, <2>6, ConsumedBetween
  <2>11. x.qty \in Int /\ y.qty \in Int /\ z.qty \in Int
    BY <2>6, StockAssumption
  <2> HIDE DEF used, pxy, pyz, pxz
  <2> QED BY <2>9, <2>10, <2>11
<1> HIDE DEF used, cost
<1>3. IsFiniteSet(CafeSku)
  BY StockAssumption
<1>4. Summable(used(X, Y), CafeSku) /\ Summable(used(Y, Z), CafeSku)
  BY <1>2, <1>3 DEF Summable
<1>5. SumFunctionOnSet(used(X, Z), CafeSku)
        = SumFunctionOnSet(used(X, Y), CafeSku) + SumFunctionOnSet(used(Y, Z), CafeSku)
  BY <1>2, <1>4, SumPlus
<1> QED BY <1>1, <1>5 DEF Total, SumFunction

-----------------------------------------------------------------------------
\* The weigh-ins of a keg, and of them the first and those up to a month.
KegOf(k) == {w \in weighs : w.sku = k}
KegUpTo(k, x, n) == {w \in KegOf(k) : w = x \/ w.day <= LastOf(n)}
Latest(S) == CHOOSE w \in S : \A o \in S : o.day <= w.day

\* The keg is weighed first at x, in month a or the next, and once in each month
\* after a until b.
WeighedMonthly(k, x, a, b) ==
  /\ x \in KegOf(k) /\ \A o \in KegOf(k) : x.day <= o.day
  /\ \A w \in KegOf(k) : MonthOf(w.day) \in a..b
  /\ \A n \in a..b : Cardinality({w \in KegOf(k) \ {x} : MonthOf(w.day) = n})
                       = IF n = a THEN 0 ELSE 1

\* The last of a keg's weigh-ins is the only one later than the others.
LEMMA LatestIs ==
  ASSUME WeighsInv(weighs), NEW k, NEW S \in SUBSET KegOf(k), NEW w \in S,
         \A o \in S : o.day <= w.day
  PROVE  Latest(S) = w
<1>1. \A v \in S : v.day \in Int /\ v.sku = k /\ v \in weighs
  BY StockAssumption DEF WeighsInv, KegOf
<1>2. Latest(S) \in S /\ \A o \in S : o.day <= Latest(S).day
  BY DEF Latest
<1>3. Latest(S).day = w.day
  BY <1>1, <1>2
<1> QED BY <1>1, <1>2, <1>3 DEF WeighsInv

\* Up to month a there is the first weigh-in only.
LEMMA KegStarts ==
  ASSUME WeighsInv(weighs), NEW k, NEW x, NEW a \in Int, NEW b \in Int, a <= b,
         WeighedMonthly(k, x, a, b)
  PROVE  /\ KegUpTo(k, x, a) = {x} /\ Latest(KegUpTo(k, x, a)) = x
         /\ KegConsumed(k, LastOf(a)) = 0
         /\ KegUpTo(k, x, b) = KegOf(k)
<1> DEFINE P == {w \in KegOf(k) \ {x} : MonthOf(w.day) = a}
<1>1. \A w \in KegOf(k) : w.day \in Int /\ w \in weighs /\ w.sku = k
  BY StockAssumption DEF WeighsInv, KegOf
<1>2. P = {}
  <2>1. a \in a..b
    OBVIOUS
  <2>2. Cardinality(P) = 0
    BY <2>1 DEF WeighedMonthly
  <2>3. P \subseteq weighs
    BY <1>1
  <2> HIDE DEF P
  <2>4. IsFiniteSet(P)
    BY <2>3, FS_Subset DEF WeighsInv
  <2> QED BY <2>2, <2>4, FS_EmptySet
<1>3. \A w \in KegOf(k) \ {x} : ~(w.day <= LastOf(a))
  <2> SUFFICES ASSUME NEW w \in KegOf(k) \ {x}, w.day <= LastOf(a) PROVE FALSE
    OBVIOUS
  <2>1. MonthOf(w.day) \in Int /\ MonthOf(w.day) <= a
    BY <1>1, MonthsEnd
  <2>2. MonthOf(w.day) >= a
    BY DEF WeighedMonthly
  <2>3. MonthOf(w.day) = a
    BY <2>1, <2>2
  <2> QED BY <1>2, <2>3
<1>4. x \in KegOf(k)
  BY DEF WeighedMonthly
<1>5. KegUpTo(k, x, a) = {x}
  BY <1>3, <1>4 DEF KegUpTo
<1>6. Latest({x}) = x
  BY <1>1, <1>4, LatestIs
<1>7. KegUpTo(k, x, b) = KegOf(k)
  <2>1. \A w \in KegOf(k) : w.day <= LastOf(b)
    BY <1>1, MonthsEnd DEF WeighedMonthly
  <2> QED BY <2>1 DEF KegUpTo
<1>8. KegConsumed(k, LastOf(a)) = 0
  <2> DEFINE U == {w \in weighs : w.sku = k /\ w.day <= LastOf(a)}
  <2>1. U \subseteq {x}
    BY <1>3 DEF KegOf
  <2>2. Cardinality(U) < 2
    <3>1. U = {} \/ U = {x}
      BY <2>1
    <3>2. Cardinality({}) = 0 /\ Cardinality({x}) = 1
      BY FS_EmptySet, FS_Singleton
    <3> QED BY <3>1, <3>2
  <2>3. KegPeriod(k, LastOf(a)) = <<>>
    BY <2>2 DEF KegPeriod
  <2> QED BY <2>3 DEF KegConsumed
<1> QED BY <1>5, <1>6, <1>7, <1>8

\* A month after a consumes what went between its weigh-in and the one before.
LEMMA KegMonth ==
  ASSUME WeighsInv(weighs), NEW k, NEW x, NEW a \in Int, NEW b \in Int,
         WeighedMonthly(k, x, a, b), NEW n \in Int, a < n, n <= b
  PROVE  /\ KegUpTo(k, x, n) # {}
         /\ KegConsumed(k, LastOf(n))
              = BeerVolume(Latest(KegUpTo(k, x, n - 1))) - BeerVolume(Latest(KegUpTo(k, x, n)))
<1> DEFINE P == {v \in KegOf(k) \ {x} : MonthOf(v.day) = n}
<1>1. \A w \in KegOf(k) : w.day \in Int /\ w \in weighs /\ w.sku = k
  BY StockAssumption DEF WeighsInv, KegOf
<1>2. PICK w : P = {w}
  <2>1. n \in a..b /\ n # a
    OBVIOUS
  <2>2. Cardinality(P) = 1
    BY <2>1 DEF WeighedMonthly
  <2>3. P \subseteq weighs
    BY <1>1
  <2> HIDE DEF P
  <2>4. IsFiniteSet(P)
    BY <2>3, FS_Subset DEF WeighsInv
  <2> QED BY <2>2, <2>4, FS_Singleton
<1>3. w \in KegOf(k) /\ w # x /\ MonthOf(w.day) = n /\ x \in KegOf(k)
  BY <1>2 DEF WeighedMonthly
<1>4. \A v \in KegOf(k) : v # x /\ MonthOf(v.day) = n => v = w
  BY <1>2
<1> HIDE DEF P
<1>5. \A v \in KegOf(k) : /\ MonthOf(v.day) \in Int
                          /\ MonthOf(v.day) <= n <=> v.day <= LastOf(n)
                          /\ MonthOf(v.day) <= n - 1 <=> v.day <= LastOf(n - 1)
  BY <1>1, MonthsEnd
<1>6. x.day <= w.day /\ x.day # w.day
  BY <1>1, <1>3 DEF WeighedMonthly, WeighsInv
<1> DEFINE S == KegUpTo(k, x, n - 1)
           T == KegUpTo(k, x, n)
<1>7. w \in T /\ w \notin S /\ T \ {w} = S /\ x \in T /\ S \subseteq KegOf(k) /\ T \subseteq KegOf(k)
  <2>1. \A v \in KegOf(k) : v # x /\ v # w => (v.day <= LastOf(n) <=> v.day <= LastOf(n - 1))
    BY <1>4, <1>5
  <2>2. w.day <= LastOf(n) /\ ~(w.day <= LastOf(n - 1))
    BY <1>3, <1>5
  <2> QED BY <1>3, <2>1, <2>2 DEF KegUpTo
<1>8. \A o \in T : o.day <= w.day
  <2>1. ASSUME NEW o \in KegOf(k), o # x, o.day <= LastOf(n), ~(o.day <= w.day) PROVE FALSE
    <3>1. MonthOf(o.day) <= n /\ MonthOf(o.day) # n
      BY <1>1, <1>3, <1>4, <1>5, <2>1
    <3>2. o.day <= LastOf(n - 1)
      BY <1>5, <3>1
    <3>3. ~(w.day <= LastOf(n - 1))
      BY <1>3, <1>5
    <3>4. LastOf(n - 1) \in Int /\ o.day \in Int /\ w.day \in Int
      <4>1. MonthDays \in Int
        BY ReportsAssumption
      <4>2. (n - 1) * MonthDays \in Int
        BY <4>1
      <4> QED BY <1>1, <1>3, <4>2 DEF LastOf
    <3> QED BY <2>1, <3>2, <3>3, <3>4
  <2> QED BY <1>6, <2>1 DEF KegUpTo
<1>9. Latest(T) = w
  <2> HIDE DEF S, T
  <2> QED BY <1>7, <1>8, LatestIs
<1>10. {v \in weighs : v.sku = k /\ v.day <= LastOf(n)} = T
  <2>1. x.day <= LastOf(n)
    <3>1. MonthOf(x.day) <= n
      <4>1. w.day <= LastOf(n) /\ LastOf(n) \in Int
        <5>1. MonthDays \in Int
          BY ReportsAssumption
        <5>2. n * MonthDays \in Int
          BY <5>1
        <5> QED BY <1>3, <1>5, <5>2 DEF LastOf
      <4>2. x.day <= LastOf(n)
        BY <1>1, <1>3, <1>6, <4>1
      <4> QED BY <1>3, <1>5, <4>2
    <3> QED BY <1>3, <1>5, <3>1
  <2> QED BY <1>3, <2>1 DEF KegUpTo, KegOf
<1>11. ~(Cardinality(T) < 2)
  <2>1. T \subseteq weighs
    BY <1>7 DEF KegOf
  <2> HIDE DEF S, T
  <2>2. IsFiniteSet(T) /\ T \ {w} = S /\ x \in S
    BY <1>3, <1>7, <2>1, FS_Subset DEF WeighsInv
  <2>3. Cardinality(S) = Cardinality(T) - 1 /\ Cardinality(T) \in Nat
    BY <1>7, <2>2, FS_RemoveElement, FS_CardinalityType
  <2>4. Cardinality(S) \in Nat /\ Cardinality(S) # 0
    BY <2>2, FS_RemoveElement, FS_EmptySet, FS_CardinalityType, FS_Subset
  <2> QED BY <2>3, <2>4
<1> HIDE DEF S, T
<1>12. KegPeriod(k, LastOf(n)) = <<Latest(S), Latest(T)>>
  <2> DEFINE ending == CHOOSE v \in T : \A o \in T : o.day <= v.day
  <2>1. ending = w
    BY <1>9 DEF Latest
  <2>2. KegPeriod(k, LastOf(n))
          = <<CHOOSE v \in T \ {ending} : \A o \in T \ {ending} : o.day <= v.day, ending>>
    BY <1>10, <1>11 DEF KegPeriod
  <2>3. T \ {ending} = S
    BY <1>7, <2>1
  <2> QED BY <2>1, <2>2, <2>3, <1>9 DEF Latest
<1>13. KegPeriod(k, LastOf(n)) # <<>>
  BY <1>12
<1> QED BY <1>7, <1>12, <1>13 DEF KegConsumed, S, T

\* What went from each keg's first weigh-in to the last of a month.
Gone(x, n) == [k \in KegSku |-> BeerVolume(x[k]) - BeerVolume(Latest(KegUpTo(k, x[k], n)))]

\* Month by month the cost of the kegs adds up to what went from them.
LEMMA MonthsAddUp ==
  ASSUME WeighsInv(weighs), NEW x, NEW a \in Int, NEW b \in Int, a <= b,
         \A k \in KegSku : WeighedMonthly(k, x[k], a, b)
  PROVE  Total([n \in a..b |-> BarCogs(n, [k \in KegSku |-> 1])]) = Total(Gone(x, b))
<1> DEFINE cost == [k \in KegSku |-> 1]
           G == [n \in a..b |-> BarCogs(n, cost)]
           used(n) == [k \in KegSku |-> KegConsumed(k, LastOf(n))]
           T == {m \in Nat : a + m <= b =>
                   /\ Summable(G, a..(a + m))
                   /\ SumFunctionOnSet(G, a..(a + m)) = SumFunctionOnSet(Gone(x, a + m), KegSku)}
<1>1. IsFiniteSet(KegSku)
  BY StockAssumption
<1>2. ASSUME NEW k \in KegSku, NEW n \in a..b PROVE BeerVolume(Latest(KegUpTo(k, x[k], n))) \in Int
  <2> DEFINE S == KegUpTo(k, x[k], n)
             w == Latest(S)
  <2>0. \A v \in KegOf(k) : v.day \in Int /\ v.gross \in Int
    BY StockAssumption DEF WeighsInv, KegOf
  <2>1. x[k] \in S /\ S \subseteq weighs /\ S \subseteq KegOf(k)
    BY DEF WeighedMonthly, KegUpTo, KegOf
  <2>2. IsFiniteSet(S) /\ S # {}
    BY <2>1, FS_Subset DEF WeighsInv
  <2> DEFINE on == [v \in S |-> v.day]
  <2>3. \A v \in S : on[v] \in Int
    BY <2>0, <2>1
  <2>4. \E v \in S : \A o \in S : on[o] <= on[v]
    <3> HIDE DEF S, on
    <3> QED BY <2>2, <2>3, Extremes
  <2>5. \E v \in S : \A o \in S : o.day <= v.day
    BY <2>4
  <2>6. w \in S
    <3> HIDE DEF S
    <3> QED BY <2>5 DEF Latest
  <2>7. w.gross \in Int /\ Tare \in Int
    BY <2>0, <2>1, <2>6, StockAssumption
  <2>8. \A v : v.gross \in Int => BeerVolume(v) \in Int
    BY <2>7 DEF BeerVolume
  <2> QED BY <2>7, <2>8
<1>3. ASSUME NEW n \in a..b PROVE /\ G[n] = SumFunctionOnSet(used(n), KegSku)
                                  /\ \A k \in KegSku : used(n)[k] \in Int
  <2>1. ASSUME NEW k \in KegSku PROVE used(n)[k] \in Int
    <3>1. CASE n = a
      <4>1. KegConsumed(k, LastOf(a)) = 0
        BY KegStarts
      <4> QED BY <3>1, <4>1
    <3>2. CASE n # a
      <4>1. a < n /\ n <= b /\ n \in Int /\ n - 1 \in a..b
        BY <3>2
      <4>2. used(n)[k] = BeerVolume(Latest(KegUpTo(k, x[k], n - 1)))
                           - BeerVolume(Latest(KegUpTo(k, x[k], n)))
        BY <4>1, KegMonth
      <4>3. /\ BeerVolume(Latest(KegUpTo(k, x[k], n - 1))) \in Int
            /\ BeerVolume(Latest(KegUpTo(k, x[k], n))) \in Int
        BY <1>2, <4>1
      <4> HIDE DEF used
      <4> QED BY <4>2, <4>3
    <3> QED BY <3>1, <3>2
  <2> DEFINE u == [k \in KegSku |-> IF cost[k] = None THEN 0
                                    ELSE KegConsumed(k, LastOf(n)) * cost[k]]
  <2>2. BarCogs(n, cost) = Total(u) /\ DOMAIN u = KegSku
    BY DEF BarCogs
  <2>3. \A k \in KegSku : u[k] = used(n)[k]
    <3>1. 1 # None
      BY ReportsAssumption
    <3>2. \A k \in KegSku : used(n)[k] * 1 = used(n)[k]
      <4> HIDE DEF used
      <4> QED BY <2>1
    <3> QED BY <3>1, <3>2
  <2> HIDE DEF u, used, cost
  <2>4. Summable(u, KegSku)
    BY <1>1, <2>1, <2>3 DEF Summable
  <2>5. SumFunctionOnSet(u, KegSku) = SumFunctionOnSet(used(n), KegSku)
    BY <2>3, <2>4, SumSame
  <2>6. Total(u) = SumFunctionOnSet(u, KegSku)
    BY <2>2 DEF Total, SumFunction
  <2> QED BY <2>1, <2>2, <2>5, <2>6
<1>4. ASSUME NEW n \in a..b
      PROVE  /\ Summable(Gone(x, n), KegSku) /\ DOMAIN Gone(x, n) = KegSku
             /\ \A k \in KegSku : Gone(x, n)[k]
                  = BeerVolume(x[k]) - BeerVolume(Latest(KegUpTo(k, x[k], n)))
             /\ \A k \in KegSku : BeerVolume(x[k]) \in Int
  <2>1. \A k \in KegSku : BeerVolume(x[k]) \in Int
    <3>1. a \in a..b
      OBVIOUS
    <3>2. \A k \in KegSku : Latest(KegUpTo(k, x[k], a)) = x[k]
      BY KegStarts
    <3> QED BY <1>2, <3>1, <3>2
  <2> QED BY <1>1, <1>2, <2>1 DEF Gone, Summable
<1>5. ASSUME NEW n \in a..b PROVE G[n] \in Int
  <2> HIDE DEF G, used
  <2>1. Summable(used(n), KegSku)
    BY <1>1, <1>3 DEF Summable
  <2> QED BY <1>3, <2>1, SumType
<1>6. 0 \in T
  <2>1. a..(a + 0) = {a} /\ a + 0 = a /\ a \in a..b
    OBVIOUS
  <2>2. G[a] = 0
    <3>1. \A k \in KegSku : used(a)[k] = 0
      BY KegStarts
    <3> HIDE DEF used, G
    <3>2. SumFunctionOnSet(used(a), KegSku) = 0
      BY <1>1, <3>1, SumZero
    <3> QED BY <1>3, <2>1, <3>2
  <2>3. SumFunctionOnSet(Gone(x, a), KegSku) = 0
    <3>1. \A k \in KegSku : Latest(KegUpTo(k, x[k], a)) = x[k]
      BY KegStarts
    <3>2. \A k \in KegSku : Gone(x, a)[k] = 0
      BY <1>4, <2>1, <3>1
    <3> QED BY <1>1, <3>2, SumZero
  <2> HIDE DEF G
  <2>4. Summable(G, {a}) /\ SumFunctionOnSet(G, {a}) = 0
    <3>1. G[a] \in Int
      BY <2>2
    <3>2. IsFiniteSet({a})
      BY FS_Singleton
    <3>3. SumFunctionOnSet(G, {a}) = G[a]
      BY <3>1, SumSingle
    <3> QED BY <2>2, <3>1, <3>2, <3>3 DEF Summable
  <2> QED BY <2>1, <2>3, <2>4
<1>7. ASSUME NEW m \in T PROVE m + 1 \in T
  <2> SUFFICES ASSUME a + (m + 1) <= b
               PROVE  /\ Summable(G, a..(a + (m + 1)))
                      /\ SumFunctionOnSet(G, a..(a + (m + 1)))
                           = SumFunctionOnSet(Gone(x, a + (m + 1)), KegSku)
    OBVIOUS
  <2> DEFINE n == a + (m + 1)
  <2>1. /\ n \in a..b /\ n - 1 = a + m /\ a + m \in a..b /\ a < n /\ n <= b
        /\ n \in a..n /\ (a..n) \ {n} = a..(a + m) /\ a..n \subseteq a..b
    OBVIOUS
  <2>2. Summable(G, a..(a + m)) /\ SumFunctionOnSet(G, a..(a + m))
                                     = SumFunctionOnSet(Gone(x, a + m), KegSku)
    BY <2>1
  <2> HIDE DEF G, n, T
  <2>3. Summable(G, a..n)
    <3>1. n \in Int
      BY <2>1
    <3>2. IsFiniteSet(a..n)
      BY <3>1, FS_Interval
    <3> QED BY <1>5, <2>1, <3>2 DEF Summable
  <2>4. SumFunctionOnSet(G, a..n) = G[n] + SumFunctionOnSet(G, (a..n) \ {n})
    BY <2>1, <2>3, SumMember
  <2>5. \A k \in KegSku : Gone(x, n)[k] = used(n)[k] + Gone(x, a + m)[k]
    <3> SUFFICES ASSUME NEW k \in KegSku PROVE Gone(x, n)[k] = used(n)[k] + Gone(x, a + m)[k]
      OBVIOUS
    <3>1. used(n)[k] = BeerVolume(Latest(KegUpTo(k, x[k], a + m)))
                         - BeerVolume(Latest(KegUpTo(k, x[k], n)))
      <4>1. n \in Int
        BY <2>1
      <4> QED BY <2>1, <4>1, KegMonth
    <3>2. /\ BeerVolume(Latest(KegUpTo(k, x[k], a + m))) \in Int
          /\ BeerVolume(Latest(KegUpTo(k, x[k], n))) \in Int
          /\ BeerVolume(x[k]) \in Int
      BY <1>2, <1>4, <2>1
    <3>3. /\ Gone(x, n)[k] = BeerVolume(x[k]) - BeerVolume(Latest(KegUpTo(k, x[k], n)))
          /\ Gone(x, a + m)[k] = BeerVolume(x[k]) - BeerVolume(Latest(KegUpTo(k, x[k], a + m)))
      BY <1>4, <2>1
    <3> HIDE DEF used
    <3> QED BY <3>1, <3>2, <3>3
  <2> HIDE DEF used
  <2>6. Summable(used(n), KegSku) /\ Summable(Gone(x, a + m), KegSku)
    BY <1>1, <1>3, <1>4, <2>1 DEF Summable
  <2>7. SumFunctionOnSet(Gone(x, n), KegSku)
          = SumFunctionOnSet(used(n), KegSku) + SumFunctionOnSet(Gone(x, a + m), KegSku)
    BY <2>5, <2>6, SumPlus
  <2> QED BY <1>3, <2>1, <2>2, <2>3, <2>4, <2>7 DEF n
<1>8. T = Nat
  <2>1. T \in SUBSET Nat
    OBVIOUS
  <2> HIDE DEF T
  <2> QED BY <1>6, <1>7, <2>1, NatSetInduction
<1>9. b - a \in T /\ a + (b - a) = b /\ b - a \in Nat /\ b \in a..b
  <2> HIDE DEF T
  <2> QED BY <1>8
<1>10. SumFunctionOnSet(G, a..b) = SumFunctionOnSet(Gone(x, b), KegSku)
  <2> HIDE DEF G
  <2> QED BY <1>9
<1>11. DOMAIN G = a..b
  OBVIOUS
<1>12. DOMAIN Gone(x, b) = KegSku
  BY <1>4, <1>9
<1>13. Total(G) = Total(Gone(x, b))
  <2> HIDE DEF G
  <2> QED BY <1>10, <1>11, <1>12 DEF Total, SumFunction
<1> QED BY <1>13

\* The months of the property are those of WeighedMonthly.
LEMMA KegMonths == ASSUME WeighsInv(weighs) PROVE KegMonthsPartition
<1> DEFINE of(k) == {w \in weighs : w.sku = k}
           first(k) == CHOOSE w \in of(k) : \A o \in of(k) : w.day <= o.day
           final(k) == CHOOSE w \in of(k) : \A o \in of(k) : o.day <= w.day
           months == {MonthOf(w.day) : w \in weighs}
           a == Min(months)
           b == Max(months)
           x == [k \in KegSku |-> first(k)]
           cost == [k \in KegSku |-> 1]
<1> SUFFICES ASSUME weighs # {}, \A k \in KegSku : of(k) # {}, months = a..b,
                    \A k \in KegSku, n \in months :
                      Cardinality({w \in of(k) \ {first(k)} : MonthOf(w.day) = n})
                        = IF n = a THEN 0 ELSE 1
             PROVE  Total([n \in months |-> BarCogs(n, cost)])
                      = Total([k \in KegSku |-> BeerVolume(first(k)) - BeerVolume(final(k))])
  BY DEF KegMonthsPartition
<1>1. \A w \in weighs : w.day \in Int /\ MonthOf(w.day) \in Int
  BY StockAssumption, MonthsEnd DEF WeighsInv
<1>2. a \in Int /\ b \in Int /\ a <= b
  <2>1. IsFiniteSet(weighs)
    BY DEF WeighsInv
  <2> DEFINE f == [w \in weighs |-> MonthOf(w.day)]
  <2>2. months = {f[w] : w \in weighs} /\ months # {} /\ months \in SUBSET Int
    BY <1>1
  <2>3. IsFiniteSet(months)
    <3> HIDE DEF f, months
    <3> QED BY <2>1, <2>2, ImageFinite
  <2> HIDE DEF months
  <2>4. a \in months /\ b \in months /\ \A m \in months : a <= m
    BY <2>2, <2>3, MinFinite, MaxFinite
  <2> HIDE DEF a, b
  <2> QED BY <2>2, <2>4
<1>3. ASSUME NEW k \in KegSku PROVE WeighedMonthly(k, x[k], a, b)
  <2>1. of(k) = KegOf(k)
    BY DEF KegOf
  <2>2. IsFiniteSet(of(k)) /\ of(k) # {}
    BY FS_Subset DEF WeighsInv
  <2> DEFINE on == [v \in of(k) |-> v.day]
  <2>3. \A v \in of(k) : on[v] \in Int
    BY <1>1
  <2>4. \E v \in of(k) : \A o \in of(k) : on[v] <= on[o]
    <3> HIDE DEF of, on
    <3> QED BY <2>2, <2>3, Extremes
  <2>5. first(k) \in of(k) /\ \A o \in of(k) : first(k).day <= o.day
    <3>1. \E v \in of(k) : \A o \in of(k) : v.day <= o.day
      BY <2>4
    <3> HIDE DEF of
    <3> QED BY <3>1
  <2>6. \A w \in of(k) : MonthOf(w.day) \in a..b
    <3>1. \A w \in of(k) : MonthOf(w.day) \in months
      OBVIOUS
    <3> HIDE DEF months
    <3> QED BY <3>1
  <2>7. \A n \in a..b : Cardinality({w \in of(k) \ {first(k)} : MonthOf(w.day) = n})
                          = IF n = a THEN 0 ELSE 1
    <3> HIDE DEF of, first, months
    <3> QED OBVIOUS
  <2>8. x[k] = first(k)
    OBVIOUS
  <2> HIDE DEF x, of, first, months, a, b
  <2> QED BY <2>1, <2>5, <2>6, <2>7, <2>8 DEF WeighedMonthly
<1>4. \A k \in KegSku : x[k] = first(k) /\ Latest(KegUpTo(k, x[k], b)) = final(k)
  <2>1. \A k \in KegSku : KegUpTo(k, x[k], b) = KegOf(k)
    <3> HIDE DEF x, a, b
    <3> QED BY <1>2, <1>3, KegStarts
  <2>2. \A k : of(k) = KegOf(k)
    BY DEF KegOf
  <2>3. \A k : final(k) = Latest(KegOf(k))
    BY <2>2 DEF Latest
  <2> HIDE DEF of, first, final, a, b
  <2> QED BY <2>1, <2>3
<1>5. Gone(x, b) = [k \in KegSku |-> BeerVolume(first(k)) - BeerVolume(final(k))]
  <2> HIDE DEF first, final, a, b, x
  <2> QED BY <1>4 DEF Gone
<1>6. Total([n \in a..b |-> BarCogs(n, cost)]) = Total(Gone(x, b))
  <2> HIDE DEF a, b, x
  <2> QED BY <1>2, <1>3, MonthsAddUp
<1> HIDE DEF a, b, x, first, final, months
<1> QED BY <1>5, <1>6

\* What is in stock is booked once: of two stocktakes or weigh-ins in between
\* nothing is booked twice or left out.
THEOREM StockBookedOnceCorrect == StockSpec => []StockBookedOnce
<1>1. StockIInv => StockBookedOnce
  BY CafeWindows, KegMonths DEF StockIInv, StockBookedOnce
<1> QED BY <1>1, StockInvariance, PTL
=============================================================================
