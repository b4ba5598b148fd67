------------------------- MODULE PriceHistoryProofs -------------------------
(***************************************************************************)
(* Proofs about PriceHistory, for any prices, partners and bounds: the     *)
(* history ends at the book, and what a save, an undo or a backdate of a   *)
(* price does to the price of each day.                                    *)
(*                                                                         *)
(* The history is what a loop over the log builds.  The first part proves, *)
(* by induction over the entries, that the loop is defined, builds changes *)
(* and is one AddEntry ahead when the log is one entry longer; the second, *)
(* what a change appended or moved does to the price of a day, whose       *)
(* governing change is the greatest in two orders, the day and the place;  *)
(* the third, the invariant: nothing in the row or the log is dated after  *)
(* today (Dated), which HistoryEndsAtBook needs to be inductive.           *)
(***************************************************************************)
EXTENDS PriceHistory, SequenceTheorems, SetInduction, TLAPS

\* A price, or None.
Quote == Price \cup {NoPrice}
\* What the history is made of.
Change == [on : Day, old : Quote, new : Quote]

\* A row has a price, no row has none.
LEMMA PriceOfType ==
  ASSUME NEW r \in RowOrNone
  PROVE  /\ PriceOf(r) \in Quote
         /\ r # NoRow => PriceOf(r) \in Price /\ PriceOf(r) # NoPrice
BY PriceAssumption DEF PriceOf, Quote, RowOrNone, Row

\* A change takes effect on a day.
LEMMA EffectiveDateType ==
  ASSUME NEW e \in Entry
  PROVE  EffectiveDate(e) \in Day
<1>1. e.utc \in Day /\ e.new \in RowOrNone
  BY DEF Entry
<1>2. e.new # NoRow => e.new.date \in Day
  BY <1>1 DEF RowOrNone, Row
<1> QED BY <1>1, <1>2 DEF EffectiveDate

\* A round of price_history's loop turns changes into changes.
LEMMA AddEntryType ==
  ASSUME NEW c \in Seq(Change), NEW e \in Entry
  PROVE  AddEntry(c, e) \in Seq(Change)
<1>1. EffectiveDate(e) \in Day
  BY EffectiveDateType
<1>2. e.old \in RowOrNone /\ e.new \in RowOrNone
  BY DEF Entry
<1>3. PriceOf(e.old) \in Quote /\ PriceOf(e.new) \in Quote
  BY <1>2, PriceOfType
<1>4. CASE IsReDating(e)
  <2>1. CASE c = <<>>
    BY <1>4, <2>1 DEF AddEntry
  <2>2. CASE c # <<>>
    <3> DEFINE n == Len(c)
    <3>1. n \in DOMAIN c /\ c[n] \in Change
      BY <2>2
    <3>2. [c[n] EXCEPT !.on = EffectiveDate(e)] \in Change
      BY <1>1, <3>1 DEF Change
    <3>3. [c EXCEPT ![n].on = EffectiveDate(e)]
          = [c EXCEPT ![n] = [c[n] EXCEPT !.on = EffectiveDate(e)]]
      BY <3>1
    <3> HIDE DEF n
    <3>4. [c EXCEPT ![n].on = EffectiveDate(e)] \in Seq(Change)
      BY <3>1, <3>2, <3>3, ExceptSeq
    <3> QED BY <1>4, <2>2, <3>4 DEF AddEntry, n
  <2> QED BY <2>1, <2>2
<1>5. CASE ~IsReDating(e)
  BY <1>1, <1>3, <1>5 DEF AddEntry, Change
<1> QED BY <1>4, <1>5

\* f holds the changes after each round of the loop over l.
IsRun(l, f) ==
  f = [k \in 0..Len(l) |-> IF k = 0 THEN <<>> ELSE AddEntry(f[k - 1], l[k])]

\* There is such a run for each log.
LEMMA RunExists ==
  ASSUME NEW l \in Seq(Entry)
  PROVE  \E f \in [0..Len(l) -> Seq(Change)] : IsRun(l, f)
<1> DEFINE S == Seq(Change)
           F == [p \in S \X Nat |->
             IF p[2] \in 1..Len(l) THEN AddEntry(p[1], l[p[2]]) ELSE <<>>]
           n == Len(l)
<1>1. F \in [S \X Nat -> S]
  <2>1. ASSUME NEW p \in S \X Nat
        PROVE  (IF p[2] \in 1..Len(l) THEN AddEntry(p[1], l[p[2]])
                ELSE <<>>) \in S
    <3>1. CASE p[2] \in 1..Len(l)
      <4>1. l[p[2]] \in Entry /\ p[1] \in Seq(Change)
        BY <3>1
      <4> QED BY <3>1, <4>1, AddEntryType
    <3>2. CASE ~ (p[2] \in 1..Len(l))
      BY <3>2
    <3> QED BY <3>1, <3>2
  <2> HIDE DEF S
  <2> QED BY <2>1
<1>2. \A s \in S, k \in 1..n : F[<<s, k>>] = AddEntry(s, l[k])
  OBVIOUS
<1>3. <<>> \in S /\ n \in Nat
  OBVIOUS
<1>4. PICK f \in [0..n -> S] : f[0] = <<>>
           /\ \A k \in 1..n : f[k] = F[<<f[k - 1], k>>]
  <2> DEFINE none == <<>>
  <2>1. none \in S
    BY <1>3
  <2> HIDE DEF S, F, n, none
  <2>2. \E f : Iterates(f, none, F, n, S)
    BY <1>1, <1>3, <2>1, NatRecursion
  <2> QED BY <2>2 DEF none, Iterates
<1>5. ASSUME NEW k \in 0..n
      PROVE  f[k] = IF k = 0 THEN <<>> ELSE AddEntry(f[k - 1], l[k])
  <2>1. CASE k = 0
    BY <1>4, <2>1
  <2>2. CASE k # 0
    <3>1. k \in 1..n /\ k - 1 \in 0..n
      BY <2>2
    <3> HIDE DEF F, S, n
    <3>2. f[k - 1] \in S
      BY <3>1
    <3> QED BY <1>2, <1>4, <2>2, <3>1, <3>2
  <2> QED BY <2>1, <2>2
<1>6. f = [k \in 0..n |-> IF k = 0 THEN <<>> ELSE AddEntry(f[k - 1], l[k])]
  <2> HIDE DEF F, S, n
  <2> QED BY <1>5
<1> QED BY <1>6 DEF IsRun

\* Two runs agree as long as their logs do.
LEMMA RunsAgree ==
  ASSUME NEW l \in Seq(Entry), NEW m \in Seq(Entry), NEW n \in Nat,
         n <= Len(l), n <= Len(m), \A k \in 1..n : l[k] = m[k],
         NEW f, NEW g, IsRun(l, f), IsRun(m, g)
  PROVE  f[n] = g[n]
<1> DEFINE T == {k \in Nat : k <= n => f[k] = g[k]}
<1>1. \A k \in 0..Len(l) : f[k] = IF k = 0 THEN <<>> ELSE AddEntry(f[k - 1], l[k])
  BY DEF IsRun
<1>2. \A k \in 0..Len(m) : g[k] = IF k = 0 THEN <<>> ELSE AddEntry(g[k - 1], m[k])
  BY DEF IsRun
<1>3. 0 \in T
  BY <1>1, <1>2
<1>4. ASSUME NEW k \in T PROVE k + 1 \in T
  <2>1. CASE k + 1 <= n
    <3>1. f[k] = g[k]
      BY <2>1
    <3>2. k + 1 \in 1..n /\ k + 1 \in 0..Len(l) /\ k + 1 \in 0..Len(m)
          /\ (k + 1) - 1 = k /\ k + 1 # 0
      BY <2>1
    <3>3. f[k + 1] = AddEntry(f[k], l[k + 1])
          /\ g[k + 1] = AddEntry(g[k], m[k + 1])
      BY <1>1, <1>2, <3>2
    <3> QED BY <3>1, <3>2, <3>3
  <2>2. CASE ~ (k + 1 <= n)
    BY <2>2
  <2> QED BY <2>1, <2>2
<1>5. T = Nat
  <2>1. T \in SUBSET Nat
    OBVIOUS
  <2> HIDE DEF T
  <2> QED BY <1>3, <1>4, <2>1, NatSetInduction
<1> QED BY <1>5

\* Changes is what the last round of the run leaves.
LEMMA ChangesOfRun ==
  ASSUME NEW l \in Seq(Entry), NEW f, IsRun(l, f)
  PROVE  Changes(l) = f[Len(l)]
<1> DEFINE u ==
             CHOOSE upTo :
               upTo = [n \in 0..Len(l) |->
                         IF n = 0 THEN <<>> ELSE AddEntry(upTo[n - 1], l[n])]
<1>1. IsRun(l, u)
  BY DEF IsRun
<1>2. Changes(l) = u[Len(l)]
  BY DEF Changes
<1> HIDE DEF u
<1>3. u[Len(l)] = f[Len(l)]
  BY <1>1, RunsAgree
<1> QED BY <1>2, <1>3

\* The history of a log is a sequence of changes.
LEMMA ChangesType ==
  ASSUME NEW l \in Seq(Entry)
  PROVE  Changes(l) \in Seq(Change)
<1>1. PICK f \in [0..Len(l) -> Seq(Change)] : IsRun(l, f)
  BY RunExists
<1>2. Changes(l) = f[Len(l)]
  BY <1>1, ChangesOfRun
<1> QED BY <1>2

\* An empty log has no history.
LEMMA ChangesEmpty == Changes(<<>>) = <<>>
<1>1. <<>> \in Seq(Entry) /\ Len(<<>>) = 0
  OBVIOUS
<1>2. PICK f \in [0..0 -> Seq(Change)] : IsRun(<<>>, f)
  BY <1>1, RunExists
<1>3. Changes(<<>>) = f[0]
  BY <1>1, <1>2, ChangesOfRun
<1>4. f[0] = <<>>
  BY <1>2 DEF IsRun
<1> QED BY <1>3, <1>4

\* An entry more in the log is a round more of the loop.
LEMMA ChangesAppend ==
  ASSUME NEW l \in Seq(Entry), NEW e \in Entry
  PROVE  Changes(Append(l, e)) = AddEntry(Changes(l), e)
<1> DEFINE m == Append(l, e)
           n == Len(l)
<1>1. m \in Seq(Entry) /\ n \in Nat /\ Len(m) = n + 1 /\ m[n + 1] = e
      /\ \A k \in 1..n : m[k] = l[k]
  OBVIOUS
<1>2. PICK f \in [0..Len(l) -> Seq(Change)] : IsRun(l, f)
  BY RunExists
<1> HIDE DEF m
<1>3. PICK g \in [0..Len(m) -> Seq(Change)] : IsRun(m, g)
  BY <1>1, RunExists
<1>4. Changes(l) = f[n]
  BY <1>2, ChangesOfRun
<1>5. Changes(m) = g[n + 1]
  BY <1>1, <1>3, ChangesOfRun
<1>6. g[n + 1] = AddEntry(g[n], e)
  <2>1. n + 1 \in 0..Len(m) /\ n + 1 # 0 /\ (n + 1) - 1 = n
    BY <1>1
  <2>2. \A k \in 0..Len(m) : g[k] =
          IF k = 0 THEN <<>> ELSE AddEntry(g[k - 1], m[k])
    BY <1>3 DEF IsRun
  <2> HIDE DEF n
  <2> QED BY <1>1, <2>1, <2>2
<1>7. f[n] = g[n]
  <2>1. n <= Len(l) /\ n <= Len(m)
    BY <1>1
  <2>2. \A k \in 1..n : l[k] = m[k]
    BY <1>1
  <2>3. n \in Nat /\ m \in Seq(Entry)
    BY <1>1
  <2> HIDE DEF n
  <2> QED BY <1>2, <1>3, <2>1, <2>2, <2>3, RunsAgree
<1> QED BY <1>4, <1>5, <1>6, <1>7 DEF m

\* The days of a history are days.
LEMMA ChangeDays ==
  ASSUME NEW c \in Seq(Change), NEW i \in DOMAIN c
  PROVE  c[i] \in Change /\ c[i].on \in 0..MaxDay /\ c[i].on \in Int /\ i \in Int
<1>1. c[i] \in Change /\ i \in Int
  OBVIOUS
<1>2. c[i].on \in 0..MaxDay
  BY <1>1 DEF Change, Day
<1>3. MaxDay \in Nat
  BY PriceAssumption
<1> QED BY <1>1, <1>2, <1>3

\* If a change lies on day d or before, one governs d.
LEMMA GovernorExists ==
  ASSUME NEW c \in Seq(Change), NEW d \in Int, NEW i \in DOMAIN c, c[i].on <= d
  PROVE  \E j \in DOMAIN c : Governs(c, j, d)
<1> DEFINE I == {j \in DOMAIN c : c[j].on <= d}
           D == {c[j].on : j \in I}
<1>1. MaxDay \in Nat /\ \A j \in DOMAIN c : c[j].on \in 0..MaxDay
  BY PriceAssumption, ChangeDays
<1>2. PICK m \in D : \A n \in D : n <= m
  <2>1. D \in SUBSET (0..MaxDay)
    BY <1>1
  <2>2. D # {}
    <3>1. c[i].on \in D
      OBVIOUS
    <3> QED BY <3>1
  <2> HIDE DEF D
  <2> QED BY <1>1, <2>1, <2>2, GreatestNumber
<1> DEFINE J == {j \in I : c[j].on = m}
<1>3. PICK g \in J : \A j \in J : j <= g
  <2>1. J \in SUBSET (0..Len(c)) /\ Len(c) \in Nat
    OBVIOUS
  <2>2. J # {}
    BY <1>2
  <2> HIDE DEF J
  <2> QED BY <2>1, <2>2, GreatestNumber
<1>4. g \in DOMAIN c /\ c[g].on <= d /\ c[g].on = m
  OBVIOUS
<1>5. ASSUME NEW j \in DOMAIN c, c[j].on <= d
      PROVE  c[j].on < c[g].on \/ (c[j].on = c[g].on /\ j <= g)
  <2>1. j \in I /\ c[j].on \in D
    BY <1>5
  <2>2. c[j].on <= m
    BY <1>2, <2>1
  <2>3. CASE c[j].on = m
    <3>1. j \in J
      BY <2>1, <2>3
    <3> QED BY <1>3, <1>4, <2>3, <3>1
  <2>4. CASE c[j].on # m
    <3>1. c[j].on \in Int /\ m \in Int
      BY <1>1, <1>4
    <3> HIDE DEF D, I, J
    <3> QED BY <1>4, <2>2, <2>4, <3>1
  <2> QED BY <2>3, <2>4
<1> HIDE DEF D, I, J
<1> QED BY <1>4, <1>5 DEF Governs

\* It is the only one, so day d has its price.
LEMMA PriceOnGoverned ==
  ASSUME NEW c \in Seq(Change), NEW d \in Int, NEW i \in DOMAIN c, Governs(c,
         i, d), NEW r
  PROVE  PriceOn(c, r, d) = c[i].new
<1>1. \A j \in DOMAIN c : c[j].on \in Int /\ j \in Int
  BY ChangeDays
<1>2. ASSUME NEW j \in DOMAIN c, Governs(c, j, d) PROVE j = i
  BY <1>1, <1>2 DEF Governs
<1>3. (CHOOSE j \in DOMAIN c : Governs(c, j, d)) = i
  BY <1>2
<1>4. c[i].on <= d
  BY DEF Governs
<1> QED BY <1>3, <1>4 DEF PriceOn

\* Without one, day d has the price before all changes.
LEMMA PriceOnUngoverned ==
  ASSUME NEW c, NEW d, \A i \in DOMAIN c : ~ (c[i].on <= d), NEW r
  PROVE  PriceOn(c, r, d) = BeforeChanges(c, r)
BY DEF PriceOn

\* A change appended to a history, from the price now in the book, leaves the
\* days before it as they were.
LEMMA AppendLater ==
  ASSUME NEW c \in Seq(Change), NEW ch \in Change, NEW x \in Int, x < ch.on,
         NEW r \in Row, NEW q \in Row, ch.old = PriceOf(r)
  PROVE  PriceOn(Append(c, ch), q, x) = PriceOn(c, r, x)
<1> DEFINE a == Append(c, ch)
           n == Len(c)
<1>1. /\ a \in Seq(Change) /\ n \in Nat
      /\ DOMAIN a = 1..(n + 1) /\ DOMAIN c = 1..n
      /\ a[n + 1] = ch /\ \A i \in 1..n : a[i] = c[i]
  OBVIOUS
<1>2. ch.on \in Int /\ ~ (ch.on <= x)
  BY DEF Change, Day
<1>3. r # NoRow /\ q # NoRow /\ PriceOf(r) # NoPrice
  BY PriceOfType, PriceAssumption DEF RowOrNone
<1> HIDE DEF a
<1>4. CASE \E i \in DOMAIN c : c[i].on <= x
  <2>1. PICK g \in DOMAIN c : Governs(c, g, x)
    BY <1>4, GovernorExists
  <2>2. Governs(a, g, x)
    BY <1>1, <1>2, <2>1 DEF Governs
  <2>3. PriceOn(a, q, x) = a[g].new
    BY <1>1, <2>2, PriceOnGoverned
  <2>4. PriceOn(c, r, x) = c[g].new
    BY <2>1, PriceOnGoverned
  <2> QED BY <1>1, <2>3, <2>4 DEF a
<1>5. CASE ~ \E i \in DOMAIN c : c[i].on <= x
  <2>1. \A i \in DOMAIN a : ~ (a[i].on <= x)
    <3>1. SUFFICES ASSUME NEW i \in 1..(n + 1) PROVE ~ (a[i].on <= x)
      BY <1>1
    <3>2. CASE i = n + 1
      BY <1>1, <1>2, <3>2
    <3>3. CASE i # n + 1
      <4>1. i \in 1..n
        BY <3>3
      <4> QED BY <1>1, <1>5, <4>1
    <3> QED BY <3>2, <3>3
  <2>2. PriceOn(a, q, x) = BeforeChanges(a, q)
    BY <2>1, PriceOnUngoverned
  <2>3. PriceOn(c, r, x) = BeforeChanges(c, r)
    BY <1>5, PriceOnUngoverned
  <2>4. a # <<>>
    BY <1>1
  <2>5. BeforeChanges(a, q) = BeforeChanges(c, r)
    <3>1. CASE c = <<>>
      <4>1. a[1] = ch
        BY <1>1, <3>1
      <4> QED BY <1>3, <2>4, <3>1, <4>1 DEF BeforeChanges
    <3>2. CASE c # <<>>
      <4>1. a[1] = c[1]
        BY <1>1, <3>2
      <4> QED BY <1>3, <2>4, <3>2, <4>1 DEF BeforeChanges
    <3> QED BY <3>1, <3>2
  <2> QED BY <2>2, <2>3, <2>5 DEF a
<1> QED BY <1>4, <1>5

\* A change appended to a history governs its day, when no other lies after it.
LEMMA AppendNow ==
  ASSUME NEW c \in Seq(Change), NEW ch \in Change, NEW x \in Int, ch.on = x,
         \A i \in DOMAIN c : c[i].on <= x, NEW q
  PROVE  PriceOn(Append(c, ch), q, x) = ch.new
<1> DEFINE a == Append(c, ch)
           n == Len(c)
<1>1. /\ a \in Seq(Change) /\ n \in Nat
      /\ DOMAIN a = 1..(n + 1) /\ DOMAIN c = 1..n
      /\ a[n + 1] = ch /\ \A i \in 1..n : a[i] = c[i]
  OBVIOUS
<1> HIDE DEF a
<1>2. \A i \in DOMAIN a : a[i].on \in Int
  BY <1>1, ChangeDays
<1>3. ASSUME NEW j \in DOMAIN a
      PROVE  a[j].on < x \/ (a[j].on = x /\ j <= n + 1)
  <2>1. CASE j = n + 1
    BY <1>1, <2>1
  <2>2. CASE j # n + 1
    <3>1. j \in 1..n
      BY <1>1, <2>2
    <3>2. a[j].on <= x
      BY <1>1, <3>1
    <3> QED BY <1>1, <1>2, <3>1, <3>2
  <2> QED BY <2>1, <2>2
<1>4. Governs(a, n + 1, x)
  BY <1>1, <1>3 DEF Governs
<1>5. n + 1 \in DOMAIN a
  BY <1>1
<1>6. PriceOn(a, q, x) = a[n + 1].new
  BY <1>1, <1>4, <1>5, PriceOnGoverned
<1> QED BY <1>1, <1>6 DEF a

\* The history m is c with its last change on day d.
LastMoved(c, m, d) ==
  /\ Len(m) = Len(c)
  /\ \A i \in 1..(Len(c) - 1) : m[i] = c[i]
  /\ m[Len(c)].on = d
  /\ m[Len(c)].old = c[Len(c)].old
  /\ m[Len(c)].new = c[Len(c)].new

\* A re-dating moves the last change.
LEMMA ReDatingMoves ==
  ASSUME NEW c \in Seq(Change), c # <<>>, NEW e \in Entry, IsReDating(e)
  PROVE  /\ AddEntry(c, e) \in Seq(Change)
         /\ EffectiveDate(e) \in Day
         /\ LastMoved(c, AddEntry(c, e), EffectiveDate(e))
<1> DEFINE n == Len(c)
           d == EffectiveDate(e)
           m == [c EXCEPT ![n].on = d]
<1>1. AddEntry(c, e) = m
  BY DEF AddEntry
<1>2. AddEntry(c, e) \in Seq(Change) /\ d \in Day
  BY AddEntryType, EffectiveDateType
<1>3. n \in 1..n /\ DOMAIN c = 1..n /\ n \in Nat
  OBVIOUS
<1>4. c[n] \in Change
  BY <1>3
<1> HIDE DEF d
<1>5. m = [c EXCEPT ![n] = [c[n] EXCEPT !.on = d]]
  BY <1>3
<1>6. m[n] = [c[n] EXCEPT !.on = d]
  BY <1>3, <1>5
<1>7. m[n].on = d /\ m[n].old = c[n].old /\ m[n].new = c[n].new
  BY <1>4, <1>6 DEF Change
<1>8. \A i \in 1..(n - 1) : m[i] = c[i]
  BY <1>3, <1>5
<1>9. Len(m) = n
  BY <1>3, <1>5
<1> HIDE DEF m
<1> QED BY <1>1, <1>2, <1>7, <1>8, <1>9 DEF LastMoved, d

\* Moving the last change to an earlier day leaves the days before that one as
\* they were.
LEMMA MovedBack ==
  ASSUME NEW c \in Seq(Change), c # <<>>, NEW m \in Seq(Change), NEW d \in Day,
         LastMoved(c, m, d), d <= c[Len(c)].on,
         NEW x \in Int, x < d, NEW r \in Row, NEW q \in Row
  PROVE  PriceOn(m, q, x) = PriceOn(c, r, x)
<1> DEFINE n == Len(c)
<1>1. /\ n \in Nat \ {0} /\ DOMAIN m = 1..n /\ DOMAIN c = 1..n
      /\ \A i \in 1..n : c[i] \in Change /\ m[i] \in Change
  BY DEF LastMoved
<1>2. \A i \in 1..n : c[i].on \in Int /\ m[i].on \in Int
  BY <1>1 DEF Change, Day
<1>3. r # NoRow /\ q # NoRow
  BY PriceAssumption
<1>4. ~ (c[n].on <= x) /\ ~ (m[n].on <= x)
  BY <1>1, <1>2 DEF LastMoved, Day
<1>5. \A i \in 1..n : i # n => m[i] = c[i]
  <2>1. n \in Nat
    OBVIOUS
  <2> HIDE DEF n
  <2>2. \A i \in 1..n : i # n => i \in 1..(n - 1)
    BY <2>1
  <2> QED BY <2>2 DEF LastMoved, n
<1>6. \A i \in 1..n : m[i].new = c[i].new /\ m[i].old = c[i].old
  BY <1>5 DEF LastMoved
<1> HIDE DEF n
<1>7. CASE \E i \in DOMAIN c : c[i].on <= x
  <2>1. PICK g \in DOMAIN c : Governs(c, g, x)
    BY <1>7, GovernorExists
  <2>2. g # n /\ m[g] = c[g]
    BY <1>1, <1>4, <1>5, <2>1 DEF Governs
  <2>3. Governs(m, g, x)
    BY <1>1, <1>4, <1>5, <2>1, <2>2 DEF Governs
  <2>4. PriceOn(m, q, x) = m[g].new
    BY <1>1, <2>1, <2>3, PriceOnGoverned
  <2>5. PriceOn(c, r, x) = c[g].new
    BY <2>1, PriceOnGoverned
  <2> QED BY <2>2, <2>4, <2>5
<1>8. CASE ~ \E i \in DOMAIN c : c[i].on <= x
  <2>1. \A i \in DOMAIN m : ~ (m[i].on <= x)
    BY <1>1, <1>4, <1>5, <1>8
  <2>2. PriceOn(m, q, x) = BeforeChanges(m, q)
    BY <2>1, PriceOnUngoverned
  <2>3. PriceOn(c, r, x) = BeforeChanges(c, r)
    BY <1>8, PriceOnUngoverned
  <2>4. m # <<>> /\ c # <<>> /\ 1 \in 1..n
    BY <1>1
  <2>5. BeforeChanges(m, q) = BeforeChanges(c, r)
    BY <1>3, <1>6, <2>4 DEF BeforeChanges
  <2> QED BY <2>2, <2>3, <2>5
<1> QED BY <1>7, <1>8

\* The last change governs from its day on, when no other lies after it.
LEMMA MovedGoverns ==
  ASSUME NEW c \in Seq(Change), c # <<>>, NEW m \in Seq(Change), NEW d \in Day,
         LastMoved(c, m, d), \A i \in 1..(Len(c) - 1) : c[i].on <= d,
         NEW x \in Int, d <= x, NEW q
  PROVE  PriceOn(m, q, x) = c[Len(c)].new
<1> DEFINE n == Len(c)
<1>1. /\ n \in Nat \ {0} /\ DOMAIN m = 1..n
      /\ \A i \in 1..n : m[i] \in Change
  BY DEF LastMoved
<1>2. \A i \in 1..n : m[i].on \in Int
  BY <1>1 DEF Change, Day
<1>3. m[n].on = d /\ m[n].new = c[n].new /\ d \in Int
  BY DEF LastMoved, Day
<1>4. ASSUME NEW i \in 1..n PROVE m[i].on <= d
  <2>1. CASE i = n
    BY <1>3, <2>1
  <2>2. CASE i # n
    <3>1. i \in 1..(n - 1)
      BY <1>1, <2>2
    <3> QED BY <3>1 DEF LastMoved
  <2> QED BY <2>1, <2>2
<1> HIDE DEF n
<1>5. Governs(m, n, x)
  BY <1>1, <1>2, <1>3, <1>4 DEF Governs
<1>6. n \in DOMAIN m
  BY <1>1
<1>7. PriceOn(m, q, x) = m[n].new
  BY <1>5, <1>6, PriceOnGoverned
<1> QED BY <1>3, <1>7 DEF n

\* Nothing is dated in the future.
Dated ==
  /\ today >= 1
  /\ row # NoRow => row.date <= today
  /\ \A i \in DOMAIN log :
       /\ log[i].utc <= today
       /\ log[i].old # NoRow => log[i].old.date <= today
       /\ log[i].new # NoRow => log[i].new.date <= today

\* The inductive invariant.
IInv == TypeOK /\ Dated /\ HistoryEndsAtBook

\* The UTC day is today, or yesterday before 07:00.
LEMMA UtcDayType ==
  ASSUME TypeOK, Dated
  PROVE  /\ UtcDay \in Day /\ UtcDay <= today /\ today - 1 <= UtcDay
         /\ ~early => UtcDay = today
<1>1. today \in 1..MaxDay /\ MaxDay \in Nat
  BY PriceAssumption DEF TypeOK, Dated, Day
<1> QED BY <1>1 DEF UtcDay, Day, TypeOK

\* Any write of the row dated today or before keeps the invariant.
LEMMA SetRowKeeps ==
  ASSUME IInv, NEW new \in RowOrNone, new # NoRow => new.date <= today,
         SetRow(new)
  PROVE  IInv'
<1> USE DEF IInv
<1>1. UtcDay \in Day /\ UtcDay <= today
  BY UtcDayType
<1>2. row' = new /\ today' = today /\ early' = early /\ appToday' = appToday
  BY DEF SetRow
<1>3. CASE new = row
  <2>1. log' = log /\ row' = row
    BY <1>3 DEF SetRow
  <2>2. TypeOK'
    BY <1>2, <2>1 DEF TypeOK
  <2>3. Dated'
    BY <1>2, <2>1 DEF Dated
  <2>4. HistoryEndsAtBook'
    BY <1>2, <2>1 DEF HistoryEndsAtBook
  <2> QED BY <2>2, <2>3, <2>4
<1>4. CASE new # row
  <2> DEFINE e == [old |-> row, new |-> new, utc |-> UtcDay]
             c == Changes(log)
             n == Len(c)
  <2>1. e \in Entry /\ e.old = row /\ e.new = new /\ e.utc = UtcDay
    BY <1>1 DEF Entry, TypeOK
  <2>2. log' = Append(log, e) /\ log \in Seq(Entry)
    BY <1>4 DEF SetRow, TypeOK
  <2> HIDE DEF e
  <2>3. TypeOK'
    BY <1>2, <2>1, <2>2 DEF TypeOK
  <2>4. Dated'
    <3>1. DOMAIN log' = 1..(Len(log) + 1) /\ log'[Len(log) + 1] = e
          /\ Len(log) \in Nat /\ DOMAIN log = 1..Len(log)
          /\ \A i \in 1..Len(log) : log'[i] = log[i]
      BY <2>1, <2>2
    <3>2. ASSUME NEW i \in 1..(Len(log) + 1)
          PROVE  /\ log'[i].utc <= today
                 /\ log'[i].old # NoRow => log'[i].old.date <= today
                 /\ log'[i].new # NoRow => log'[i].new.date <= today
      <4>1. CASE i = Len(log) + 1
        BY <1>1, <2>1, <3>1, <4>1 DEF Dated
      <4>2. CASE i # Len(log) + 1
        <5>1. i \in 1..Len(log)
          BY <3>1, <4>2
        <5> QED BY <3>1, <5>1 DEF Dated
      <4> QED BY <4>1, <4>2
    <3> QED BY <1>2, <3>1, <3>2 DEF Dated
  <2>5. HistoryEndsAtBook'
    <3>1. Changes(log') = AddEntry(c, e) /\ c \in Seq(Change)
      BY <2>1, <2>2, ChangesAppend, ChangesType
    <3>2. EffectiveDate(e) \in Day /\ EffectiveDate(e) <= today
      BY <1>1, <2>1, EffectiveDateType DEF EffectiveDate
    <3>3. /\ c # <<>> => Last(c).new = PriceOf(row)
          /\ \A i \in DOMAIN c : c[i].on <= today
      BY DEF HistoryEndsAtBook
    <3> HIDE DEF c, n
    <3>4. CASE IsReDating(e) /\ c = <<>>
      <4>1. AddEntry(c, e) = c
        BY <3>4 DEF AddEntry
      <4> QED BY <1>2, <3>1, <3>3, <3>4, <4>1 DEF HistoryEndsAtBook
    <3>5. CASE IsReDating(e) /\ c # <<>>
      <4> DEFINE m == AddEntry(c, e)
      <4>1. LastMoved(c, m, EffectiveDate(e)) /\ m \in Seq(Change)
        BY <2>1, <3>1, <3>5, ReDatingMoves
      <4>2. PriceOf(new) = PriceOf(row)
        BY <2>1, <3>5 DEF IsReDating, PriceOf
      <4>3. n \in Nat \ {0} /\ DOMAIN m = 1..n /\ DOMAIN c = 1..n /\ Len(m) = n
        BY <3>1, <3>5, <4>1 DEF LastMoved, n
      <4>4. Last(m).new = PriceOf(new)
        BY <3>3, <3>5, <4>1, <4>2, <4>3 DEF Last, LastMoved, n
      <4>5. ASSUME NEW i \in DOMAIN m PROVE m[i].on <= today
        <5>1. CASE i = n
          BY <3>2, <4>1, <5>1 DEF LastMoved, n
        <5>2. CASE i # n
          <6>1. i \in 1..(n - 1)
            BY <4>3, <5>2
          <6> QED BY <3>3, <4>1, <4>3, <6>1 DEF LastMoved, n
        <5> QED BY <5>1, <5>2
      <4> HIDE DEF m
      <4>6. Changes(log') = m
        BY <3>1 DEF m
      <4> QED BY <1>2, <4>4, <4>5, <4>6 DEF HistoryEndsAtBook
    <3>6. CASE ~IsReDating(e)
      <4> DEFINE ch ==
        [on |-> EffectiveDate(e), old |-> PriceOf(row), new |-> PriceOf(new)]
                 m == Append(c, ch)
      <4>1. Changes(log') = m
        BY <2>1, <3>1, <3>6 DEF AddEntry
      <4>2. ch.on <= today /\ ch.new = PriceOf(new)
        BY <3>2
      <4> HIDE DEF ch
      <4>3. Len(m) = Len(c) + 1 /\ m[Len(c) + 1] = ch
            /\ \A i \in 1..Len(c) : m[i] = c[i]
            /\ DOMAIN m = 1..(Len(c) + 1) /\ Len(c) \in Nat
               /\ DOMAIN c = 1..Len(c)
        BY <3>1
      <4>4. Last(m).new = PriceOf(new)
        BY <4>2, <4>3 DEF Last
      <4> HIDE DEF m
      <4>5. ASSUME NEW i \in DOMAIN m PROVE m[i].on <= today
        <5>1. CASE i = Len(c) + 1
          BY <4>2, <4>3, <5>1
        <5>2. CASE i # Len(c) + 1
          <6>1. i \in 1..Len(c)
            BY <4>3, <5>2
          <6> QED BY <3>3, <4>3, <6>1
        <5> QED BY <5>1, <5>2
      <4> QED BY <1>2, <4>1, <4>4, <4>5 DEF HistoryEndsAtBook
    <3> QED BY <3>4, <3>5, <3>6
  <2> QED BY <2>3, <2>4, <2>5
<1> QED BY <1>3, <1>4

\* An undo brings back a row, dated today or before.
LEMMA RevertTargetType ==
  ASSUME IInv, NEW i \in DOMAIN log
  PROVE  LET t == RevertTarget(log[i], row)
         IN t \in RowOrNone /\ (t # NoRow => t.date <= today)
<1> DEFINE e == log[i]
           t == [c \in {"net", "date", "by"} |->
                   IF e.old[c] # e.new[c] THEN e.old[c] ELSE row[c]]
<1>1. e \in Entry
  BY DEF IInv, TypeOK
<1>2. e.old \in RowOrNone /\ e.new \in RowOrNone /\ row \in RowOrNone
  BY <1>1 DEF Entry, IInv, TypeOK
<1>3. /\ e.old # NoRow => e.old.date <= today
      /\ row # NoRow => row.date <= today
  BY DEF IInv, Dated
<1>4. CASE e.old = NoRow
  BY <1>4 DEF RevertTarget, RowOrNone
<1>5. CASE e.old # NoRow /\ (e.new = NoRow \/ row = NoRow)
  BY <1>2, <1>3, <1>5 DEF RevertTarget
<1>6. CASE e.old # NoRow /\ e.new # NoRow /\ row # NoRow
  <2>1. RevertTarget(e, row) = t
    BY <1>6 DEF RevertTarget
  <2>2. e.old \in Row /\ e.new \in Row /\ row \in Row
    BY <1>2, <1>6 DEF RowOrNone
  <2> HIDE DEF e
  <2>3. t.date = e.old.date \/ t.date = row.date
    OBVIOUS
  <2>4. t.date \in Day /\ t.net \in Price /\ t.by \in Partner
    BY <2>2 DEF Row
  <2>5. t = [net |-> t.net, date |-> t.date, by |-> t.by]
    OBVIOUS
  <2> HIDE DEF t
  <2>6. t \in Row
    BY <2>4, <2>5 DEF Row
  <2>7. t.date <= today
    BY <1>3, <1>6, <2>3
  <2> QED BY <2>1, <2>6, <2>7 DEF RowOrNone, e
<1> QED BY <1>4, <1>5, <1>6

\* The invariant holds at the start.
LEMMA InitInv == Init => IInv
<1> SUFFICES ASSUME Init PROVE IInv
    OBVIOUS
<1>1. MaxDay \in Nat \ {0} /\ NoRow \notin Row
  BY PriceAssumption
<1>2. row \in RowOrNone /\ (row # NoRow => row.date = 0)
  BY <1>1 DEF Init, RowOrNone, Row, Day
<1>3. log = <<>> /\ today = 1 /\ appToday = 1 /\ early = FALSE
  BY DEF Init
<1>4. TypeOK
  <2>1. log \in Seq(Entry)
    BY <1>3
  <2>2. today \in Day /\ appToday \in 0..today
    BY <1>1, <1>3 DEF Day
  <2>3. early \in BOOLEAN
    BY <1>3
  <2> QED BY <1>2, <2>1, <2>2, <2>3 DEF TypeOK
<1>5. Dated
  BY <1>1, <1>2, <1>3 DEF Dated
<1>6. HistoryEndsAtBook
  <2>1. Changes(log) = <<>>
    BY <1>3, ChangesEmpty
  <2> QED BY <2>1 DEF HistoryEndsAtBook
<1> QED BY <1>4, <1>5, <1>6 DEF IInv

\* Every step keeps the invariant.
LEMMA StepInv == IInv /\ [Next]_vars => IInv'
<1> SUFFICES ASSUME IInv, [Next]_vars PROVE IInv'
    OBVIOUS
<1>1. appToday \in Day /\ appToday <= today /\ today \in Day /\ MaxDay \in Nat
  BY PriceAssumption DEF IInv, TypeOK, Day
<1>2. ASSUME NEW net \in Price, NEW by \in Partner, SaveCost(net, by)
      PROVE  IInv'
  <2> DEFINE new == [net |-> net, date |-> appToday, by |-> by]
  <2>1. new \in RowOrNone /\ new.date <= today
    BY <1>1 DEF RowOrNone, Row
  <2>2. SetRow(new)
    BY <1>2 DEF SaveCost
  <2> HIDE DEF new
  <2> QED BY <2>1, <2>2, SetRowKeeps
<1>3. ASSUME NEW d \in Day, BackdateCost(d)
      PROVE  IInv'
  <2> DEFINE new == [row EXCEPT !.date = d]
  <2>1. row \in Row
    BY <1>3 DEF BackdateCost, IInv, TypeOK, RowOrNone
  <2>2. new \in RowOrNone /\ new.date <= today
    BY <1>3, <2>1 DEF BackdateCost, RowOrNone, Row
  <2>3. SetRow(new)
    BY <1>3 DEF BackdateCost
  <2> HIDE DEF new
  <2> QED BY <2>2, <2>3, SetRowKeeps
<1>4. ASSUME NEW i \in DOMAIN log, RevertEntry(i)
      PROVE  IInv'
  <2> DEFINE new == RevertTarget(log[i], row)
  <2>1. new \in RowOrNone /\ (new # NoRow => new.date <= today)
    BY RevertTargetType
  <2>2. SetRow(new)
    BY <1>4 DEF RevertEntry
  <2> HIDE DEF new
  <2> QED BY <2>1, <2>2, SetRowKeeps
<1>5. CASE RestartApp
  <2>1. row' = row /\ log' = log /\ today' = today /\ early' = early
        /\ appToday' = today
    BY <1>5 DEF RestartApp
  <2>2. TypeOK'
    BY <1>1, <2>1 DEF IInv, TypeOK, Day
  <2>3. Dated' /\ HistoryEndsAtBook'
    BY <2>1 DEF IInv, Dated, HistoryEndsAtBook
  <2> QED BY <2>2, <2>3 DEF IInv
<1>6. CASE PassTime
  <2>1. /\ row' = row /\ log' = log /\ appToday' = appToday
        /\ early' = ~early /\ today' \in Day /\ today <= today'
    BY <1>1, <1>6 DEF PassTime, Day
  <2>2. TypeOK'
    BY <1>1, <2>1 DEF IInv, TypeOK, Day
  <2>3. Dated'
    <3>1. row \in RowOrNone /\ \A i \in DOMAIN log : log[i] \in Entry
      BY DEF IInv, TypeOK
    <3>2. ASSUME NEW r \in RowOrNone, r # NoRow, r.date <= today
          PROVE  r.date <= today'
      BY <1>1, <2>1, <3>2 DEF RowOrNone, Row, Day
    <3>3. ASSUME NEW i \in DOMAIN log
          PROVE  /\ log[i].utc <= today'
                 /\ log[i].old # NoRow => log[i].old.date <= today'
                 /\ log[i].new # NoRow => log[i].new.date <= today'
      <4>1. log[i].utc \in Day /\ log[i].old \in RowOrNone
            /\ log[i].new \in RowOrNone
        BY <3>1 DEF Entry
      <4>2. /\ log[i].utc <= today
            /\ log[i].old # NoRow => log[i].old.date <= today
            /\ log[i].new # NoRow => log[i].new.date <= today
        BY DEF IInv, Dated
      <4>3. log[i].utc <= today'
        BY <1>1, <2>1, <4>1, <4>2 DEF Day
      <4> QED BY <3>2, <4>1, <4>2, <4>3
    <3>4. today >= 1 /\ today' >= 1
      BY <1>1, <2>1 DEF IInv, Dated, Day
    <3>5. row' # NoRow => row'.date <= today'
      BY <2>1, <3>1, <3>2 DEF IInv, Dated
    <3> QED BY <2>1, <3>3, <3>4, <3>5 DEF Dated
  <2>4. HistoryEndsAtBook'
    <3>1. Changes(log) \in Seq(Change)
      BY ChangesType DEF IInv, TypeOK
    <3>2. ASSUME NEW i \in DOMAIN Changes(log)
          PROVE  Changes(log)[i].on <= today'
      <4>1. Changes(log)[i].on \in Int
        BY <3>1, ChangeDays
      <4>2. Changes(log)[i].on <= today
        BY DEF IInv, HistoryEndsAtBook
      <4> QED BY <1>1, <2>1, <4>1, <4>2 DEF Day
    <3> QED BY <2>1, <3>2 DEF IInv, HistoryEndsAtBook
  <2> QED BY <2>2, <2>3, <2>4 DEF IInv
<1>7. CASE UNCHANGED vars
  BY <1>7 DEF vars, IInv, TypeOK, Dated, HistoryEndsAtBook
<1> QED BY <1>2, <1>3, <1>4, <1>5, <1>6, <1>7 DEF Next

\* The invariant always holds.
LEMMA Invariance == Spec => []IInv
BY InitInv, StepInv, PTL DEF Spec

\* The row, the log and the clock keep their types, and the day the process
\* started does not lie ahead.
THEOREM TypeCorrect == Spec => []TypeOK
<1>1. IInv => TypeOK
  BY DEF IInv
<1> QED BY Invariance, <1>1, PTL

\* However the log was re-dated, undone and redone, the change recorded last
\* carries the price in the book, and no change lies in the future.
THEOREM BookIsLastChange == Spec => []HistoryEndsAtBook
<1>1. IInv => HistoryEndsAtBook
  BY DEF IInv
<1> QED BY Invariance, <1>1, PTL

\* A write of another price changes no day before it takes effect, and gives
\* today the new price if it takes effect today.
LEMMA PriceMoves ==
  ASSUME IInv, row # NoRow, NEW new \in Row, new.net # row.net,
         new.date <= today, SetRow(new)
  PROVE  LET on == EffectiveDate([old |-> row, new |-> new, utc |-> UtcDay])
         IN /\ on \in Day /\ on <= today
            /\ \A x \in Day : x < on => PriceAsOf'[x] = PriceAsOf[x]
            /\ on = today => PriceAsOf'[today] = new.net
<1> DEFINE e == [old |-> row, new |-> new, utc |-> UtcDay]
           on == EffectiveDate(e)
           c == Changes(log)
           ch == [on |-> on, old |-> PriceOf(row), new |-> PriceOf(new)]
<1>1. row \in Row /\ log \in Seq(Entry) /\ NoRow \notin Row /\ today \in Day
  BY PriceAssumption DEF IInv, TypeOK, RowOrNone
<1>2. UtcDay \in Day /\ UtcDay <= today
  BY UtcDayType DEF IInv
<1>3. new # row /\ new # NoRow
  BY <1>1
<1>4. e \in Entry /\ e.old = row /\ e.new = new /\ e.utc = UtcDay
  BY <1>1, <1>2 DEF Entry, RowOrNone
<1>5. row' = new /\ log' = Append(log, e)
  BY <1>3 DEF SetRow
<1> HIDE DEF e
<1>6. ~IsReDating(e)
  BY <1>1, <1>3, <1>4 DEF IsReDating
<1>7. c \in Seq(Change)
  BY <1>1, ChangesType
<1>8. Changes(log') = Append(c, ch)
  BY <1>1, <1>4, <1>5, <1>6, ChangesAppend DEF AddEntry
<1>9. on \in Day /\ on <= today
  BY <1>2, <1>4, EffectiveDateType DEF EffectiveDate
<1>10. ch \in Change /\ ch.on = on /\ ch.old = PriceOf(row) /\ ch.new = new.net
  BY <1>1, <1>3, <1>9, PriceOfType DEF Change, PriceOf, RowOrNone
<1>11. \A i \in DOMAIN c : c[i].on <= today
  BY DEF IInv, HistoryEndsAtBook
<1>12. today \in Int /\ \A x \in Day : x \in Int
  BY <1>1 DEF Day
<1> HIDE DEF c, ch, on
<1>13. \A x \in Day : /\ PriceAsOf[x] = PriceOn(c, row, x)
                      /\ PriceAsOf'[x] = PriceOn(Append(c, ch), new, x)
  BY <1>5, <1>8 DEF PriceAsOf, c
<1>14. ASSUME NEW x \in Day, x < on
       PROVE  PriceAsOf'[x] = PriceAsOf[x]
  BY <1>1, <1>7, <1>10, <1>12, <1>13, <1>14, AppendLater
<1>15. on = today => PriceAsOf'[today] = new.net
  BY <1>1, <1>7, <1>10, <1>11, <1>12, <1>13, AppendNow
<1> QED BY <1>9, <1>14, <1>15 DEF on, e

\* It takes effect on the day the process started or later.
LEMMA SavesKeepThePast ==
  ASSUME IInv, NEW net \in Price, NEW by \in Partner,
         SaveCost(net, by), row # NoRow, net # row.net
  PROVE  /\ SamePastBefore(appToday)
         /\ appToday = today => PriceAsOf'[today] = net
<1> DEFINE new == [net |-> net, date |-> appToday, by |-> by]
           e == [old |-> row, new |-> new, utc |-> UtcDay]
           on == EffectiveDate(e)
<1>1. appToday \in 0..today /\ today \in Day /\ MaxDay \in Nat /\ row \in Row
  BY PriceAssumption DEF IInv, TypeOK, RowOrNone
<1>2. new \in Row /\ new.net = net /\ new.date = appToday /\ new # NoRow
      /\ new.date <= today
  BY <1>1, PriceAssumption DEF Row, Day
<1>3. SetRow(new)
  BY DEF SaveCost
<1>4. e.old = row /\ e.new = new /\ e.utc = UtcDay
  OBVIOUS
<1>5. /\ on \in Day /\ on <= today
      /\ \A x \in Day : x < on => PriceAsOf'[x] = PriceAsOf[x]
      /\ on = today => PriceAsOf'[today] = new.net
  <2> HIDE DEF new
  <2> QED BY <1>2, <1>3, PriceMoves
<1>6. appToday <= on
  <2>1. row.date \in Day /\ row.date <= today
    BY <1>1 DEF IInv, Dated, Row
  <2>2. UtcDay \in Day /\ today - 1 <= UtcDay
    BY UtcDayType DEF IInv
  <2> HIDE DEF new, e
  <2>3. on = IF e.new # NoRow
        /\ (IsReDating(e) \/ e.old = NoRow \/ e.new.date >= e.old.date)
             THEN e.new.date ELSE e.utc
    BY DEF EffectiveDate
  <2>4. CASE new.date >= row.date
    BY <1>2, <1>4, <2>3, <2>4, <1>1
  <2>5. CASE ~ (new.date >= row.date)
    <3>1. appToday + 1 <= row.date
      BY <1>1, <1>2, <2>1, <2>5 DEF Day
    <3>2. on \in {appToday, UtcDay}
      BY <1>2, <1>4, <2>3
    <3> HIDE DEF on
    <3> QED BY <1>1, <2>1, <2>2, <3>1, <3>2 DEF Day
  <2> QED BY <2>4, <2>5
<1> HIDE DEF on
<1>7. SamePastBefore(appToday)
  <2>1. \A x \in 0..(appToday - 1) : x \in Day /\ x < on
    BY <1>1, <1>5, <1>6 DEF Day
  <2> QED BY <1>5, <2>1 DEF SamePastBefore
<1>8. appToday = today => on = today
  BY <1>1, <1>5, <1>6 DEF Day
<1> QED BY <1>2, <1>5, <1>7, <1>8

\* An undo to a row stamped earlier takes effect on the UTC day.
LEMMA UndosKeepThePast ==
  ASSUME IInv, NEW i \in DOMAIN log, RevertEntry(i),
         row # NoRow, row' # NoRow, row.net # row'.net, row'.date < row.date
  PROVE  /\ SamePastBefore(UtcDay)
         /\ ~early => PriceAsOf'[today] = row'.net
<1> DEFINE new == RevertTarget(log[i], row)
           e == [old |-> row, new |-> new, utc |-> UtcDay]
           on == EffectiveDate(e)
<1>1. SetRow(new)
  BY DEF RevertEntry
<1>2. row' = new
  BY <1>1 DEF SetRow
<1>3. new \in Row /\ row \in Row /\ new.date <= today
  BY <1>2, RevertTargetType DEF IInv, TypeOK, RowOrNone
<1>4. today \in Day /\ MaxDay \in Nat /\ UtcDay \in Day
      /\ (~early => UtcDay = today)
  BY PriceAssumption, UtcDayType DEF IInv, TypeOK
<1>5. e.old = row /\ e.new = new /\ e.utc = UtcDay
  OBVIOUS
<1> HIDE DEF new
<1>6. /\ on \in Day /\ on <= today
      /\ \A x \in Day : x < on => PriceAsOf'[x] = PriceAsOf[x]
      /\ on = today => PriceAsOf'[today] = new.net
  BY <1>1, <1>2, <1>3, PriceMoves
<1>7. on = UtcDay
  <2>1. ~ (new.date >= row.date)
    BY <1>2, <1>3 DEF Row, Day
  <2> HIDE DEF e
  <2>2. ~IsReDating(e)
    BY <1>2, <1>5 DEF IsReDating
  <2> QED BY <1>5, <2>1, <2>2 DEF EffectiveDate
<1> HIDE DEF on
<1>8. SamePastBefore(UtcDay)
  <2>1. \A x \in 0..(UtcDay - 1) : x \in Day /\ x < on
    BY <1>4, <1>7 DEF Day
  <2> QED BY <1>6, <2>1 DEF SamePastBefore
<1> QED BY <1>2, <1>4, <1>6, <1>7, <1>8

\* A backdate that writes moves the last change.
LEMMA BackdatesApply ==
  ASSUME IInv, NEW d \in Day, BackdateCost(d), vars' # vars,
         Changes(log) # <<>>, d <= Last(Changes(log)).on,
         \A i \in 1..(Len(Changes(log)) - 1) : Changes(log)[i].on <= d
  PROVE  /\ \A x \in Day : x >= d => PriceAsOf'[x] = row.net
         /\ SamePastBefore(d)
<1> DEFINE new == [row EXCEPT !.date = d]
           e == [old |-> row, new |-> new, utc |-> UtcDay]
           c == Changes(log)
           m == AddEntry(c, e)
           n == Len(c)
<1>1. row \in Row /\ row # NoRow /\ log \in Seq(Entry) /\ MaxDay \in Nat
      /\ UtcDay \in Day
  BY PriceAssumption, UtcDayType DEF IInv, TypeOK, RowOrNone, BackdateCost
<1>2. new \in Row /\ new.net = row.net /\ new.date = d /\ new # NoRow
  BY <1>1, PriceAssumption DEF Row
<1>3. SetRow(new)
  BY DEF BackdateCost
<1>4. e \in Entry /\ e.old = row /\ e.new = new
  BY <1>1, <1>2 DEF Entry, RowOrNone
<1>5. new # row
  BY <1>1, <1>3 DEF SetRow, vars
<1>6. row' = new /\ log' = Append(log, e)
  BY <1>3, <1>5 DEF SetRow
<1> HIDE DEF e, new
<1>7. IsReDating(e) /\ EffectiveDate(e) = d
  BY <1>1, <1>2, <1>4 DEF IsReDating, EffectiveDate
<1>8. c \in Seq(Change) /\ Changes(log') = m
  BY <1>1, <1>4, <1>6, ChangesType, ChangesAppend
<1>9. m \in Seq(Change) /\ LastMoved(c, m, d)
  BY <1>4, <1>7, <1>8, ReDatingMoves
<1>10. c[Len(c)].new = row.net
  BY <1>1 DEF IInv, HistoryEndsAtBook, Last, PriceOf
<1>11. d <= c[Len(c)].on
  BY DEF Last
<1>12. \A i \in 1..(Len(c) - 1) : c[i].on <= d
  OBVIOUS
<1>13. c # <<>>
  OBVIOUS
<1> HIDE DEF c, m
<1>14. \A x \in Day : /\ PriceAsOf[x] = PriceOn(c, row, x)
                      /\ PriceAsOf'[x] = PriceOn(m, new, x)
  BY <1>6, <1>8 DEF PriceAsOf, c
<1>15. ASSUME NEW x \in Day, x >= d PROVE PriceAsOf'[x] = row.net
  <2>1. x \in Int /\ d <= x
    BY <1>15 DEF Day
  <2>2. PriceOn(m, new, x) = c[Len(c)].new
    BY <1>8, <1>9, <1>12, <1>13, <2>1, MovedGoverns
  <2> QED BY <1>10, <1>14, <2>2
<1>16. ASSUME NEW x \in 0..(d - 1) PROVE PriceAsOf'[x] = PriceAsOf[x]
  <2>1. x \in Int /\ x < d /\ x \in Day
    BY <1>1 DEF Day
  <2>2. PriceOn(m, new, x) = PriceOn(c, row, x)
    BY <1>1, <1>2, <1>8, <1>9, <1>11, <1>13, <2>1, MovedBack
  <2> QED BY <1>14, <2>1, <2>2
<1> QED BY <1>15, <1>16 DEF SamePastBefore

\* A new price for a priced SKU changes no day before its stamp, and is today's
\* on a process started today.
THEOREM RepricingSparesThePast == Spec => RepricingKeepsThePast
<1>1. IInv /\ [Next]_vars =>
        [\A net \in Price, by \in Partner :
           SaveCost(net, by) /\ row # NoRow /\ net # row.net =>
             /\ SamePastBefore(appToday)
             /\ appToday = today => PriceAsOf'[today] = net]_vars
  BY SavesKeepThePast
<1>2. QED
  BY <1>1, Invariance, PTL DEF Spec, RepricingKeepsThePast

\* Undoing a price edit restates no day before the UTC day of the undo and,
\* after 07:00, gives today the price in the book.
THEOREM UndosSpareThePast == Spec => UndoKeepsThePast
<1>1. IInv /\ [Next]_vars =>
        [\A i \in DOMAIN log :
           /\ RevertEntry(i)
           /\ row # NoRow /\ row' # NoRow
           /\ row.net # row'.net
           /\ row'.date < row.date
           => /\ SamePastBefore(UtcDay)
              /\ ~early => PriceAsOf'[today] = row'.net]_vars
  BY UndosKeepThePast
<1>2. QED
  BY <1>1, Invariance, PTL DEF Spec, UndoKeepsThePast

\* A correction backdated to a day no other change lies after holds from that
\* day on, and on no earlier day.
THEOREM BackdatesApplyFromReceipt == Spec => BackdateAppliesFromReceipt
<1>1. IInv /\ [Next]_vars =>
        [\A d \in Day :
           LET c == Changes(log)
           IN /\ BackdateCost(d)
              /\ c # <<>>
              /\ d <= Last(c).on
              /\ \A i \in 1..(Len(c) - 1) : c[i].on <= d
              => /\ \A x \in Day : x >= d => PriceAsOf'[x] = row.net
                 /\ SamePastBefore(d)]_vars
  BY BackdatesApply
<1>2. QED
  BY <1>1, Invariance, PTL DEF Spec, BackdateAppliesFromReceipt
=============================================================================
