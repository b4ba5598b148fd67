----------------------------- MODULE ShiftControl -----------------------------
(***************************************************************************)
(* The cash drawer from shift to shift (cash_drawer.py), the anomaly rules *)
(* over closes and voids (anomaly.py) and the checklists with the skips    *)
(* they carry forward (checklists.py).                                     *)
(*                                                                         *)
(* The engines keep nothing but the completion log.  The caller keeps the  *)
(* closes, one a shift, and opens a shift with what the one before closed  *)
(* at; the till holds what is really in it.                                *)
(***************************************************************************)
EXTENDS Integers, Sequences, FiniteSets, FiniteSetsExt, Functions

CONSTANTS
  Cashier,        \* who closes shifts
  Rung,           \* what a shift may ring up in cash
  Taken,          \* what may leave the till unrung
  Miscount,       \* by how much a close may be counted wrong
  HandoffTolerance,
  VoidForm,       \* [cashier, day, hour]: voided receipts
  SalesCount,     \* [cashier -> sales of the window]
  ShortRate,      \* <<n, d>>: the short-rate threshold n/d
  Task,           \* task ids
  Occurrence,     \* days a checklist is built for
  MaxCloses,      \* bound: shifts closed
  MaxRecords      \* bound: outcomes and voids recorded

ASSUME ShiftAssumption ==
  /\ Rung \cup Taken \cup Miscount \subseteq Int
  /\ HandoffTolerance \in Nat
  /\ IsFiniteSet(DOMAIN SalesCount)
  /\ \A c \in DOMAIN SalesCount : SalesCount[c] \in Nat
  /\ ShortRate[1] \in Nat /\ ShortRate[2] \in Nat
  /\ Occurrence \subseteq Nat
  /\ MaxCloses \in Nat

RunOfShifts == 3
ShiftsADay == 2
PeakHours == 18..20

VARIABLES
  till,     \* the cash in the drawer
  closes,   \* a shift's last close, oldest first
  handed,   \* the incoming partner has taken the drawer over
  voids,    \* receipts voided
  log       \* CompletionLog: <<task, occurrence>> -> outcome

shiftVars == <<till, closes, handed, voids, log>>

-----------------------------------------------------------------------------
(***************************************************************************)
(* Closing a shift and handing the drawer over.                            *)
(***************************************************************************)

DrawerVariance(opening, closing, rung) == closing - (opening + rung)

OpeningOf(n) == IF n = 1 THEN 0 ELSE closes[n - 1].closing

\* taken and miscount are what happened, and no part of the record.
ShiftClose(n, cashier, rung, taken, counted) ==
  [cashier |-> cashier, at |-> n, opening |-> OpeningOf(n), closing |-> counted,
   rung |-> rung, variance |-> DrawerVariance(OpeningOf(n), counted, rung),
   taken |-> taken]

CloseShift(cashier, rung, taken, miscount) ==
  LET left == till + rung - taken
      n == Len(closes) + 1
  IN /\ handed /\ Len(closes) < MaxCloses
     /\ left >= 0 /\ left + miscount >= 0
     /\ till' = left
     /\ closes' = Append(closes, ShiftClose(n, cashier, rung, taken, left + miscount))
     /\ handed' = FALSE
     /\ UNCHANGED <<voids, log>>

IsBlocked(recounted, closing) ==
  recounted - closing \notin -HandoffTolerance..HandoffTolerance

\* The incoming partner counts right.  A blocked shift is counted again.
CheckHandoff ==
  LET last == closes[Len(closes)]
  IN /\ ~handed
     /\ IF IsBlocked(till, last.closing)
        THEN /\ closes' = [closes EXCEPT ![Len(closes)] =
                             ShiftClose(last.at, last.cashier, last.rung, last.taken, till)]
             /\ UNCHANGED handed
        ELSE handed' = TRUE /\ UNCHANGED closes
     /\ UNCHANGED <<till, voids, log>>

VoidReceipt(v) ==
  /\ v \notin voids
  /\ voids' = voids \cup {v}
  /\ UNCHANGED <<till, closes, handed, log>>

-----------------------------------------------------------------------------
(***************************************************************************)
(* The anomaly rules over the days a..b.                                   *)
(***************************************************************************)

DayOfShift(n) == ((n - 1) \div ShiftsADay) + 1
ClosesIn(a, b) == {n \in DOMAIN closes : DayOfShift(closes[n].at) \in a..b}
VoidsIn(a, b) == {v \in voids : v.day \in a..b}
Staff == DOMAIN SalesCount

\* Rates over the product of all sales counts; nobody's is zero without sales.
CommonSales == ProductSet({SalesCount[o] : o \in Staff} \ {0})

VoidRate(c, a, b) ==
  IF SalesCount[c] <= 0 THEN 0
  ELSE Cardinality({v \in VoidsIn(a, b) : v.cashier = c}) * (CommonSales \div SalesCount[c])

\* Of the two middle rates, the lower: the least that half the staff are at or
\* below; and the upper: the greatest that half the staff are at or above.
LowMedian(rate) ==
  Min({rate[c] : c \in {x \in Staff :
         2 * Cardinality({o \in Staff : rate[o] <= rate[x]}) >= Cardinality(Staff)}})
HighMedian(rate) ==
  Max({rate[c] : c \in {x \in Staff :
         2 * Cardinality({o \in Staff : rate[o] >= rate[x]}) >= Cardinality(Staff)}})

VoidRateFlags(a, b) ==
  LET rate == [c \in Staff |-> VoidRate(c, a, b)]
  IN {c \in Staff : 2 * rate[c] > LowMedian(rate) + HighMedian(rate)}

PeakFlags(a, b) ==
  LET of(c) == {v \in VoidsIn(a, b) : v.cashier = c}
  IN {c \in Staff : 2 * Cardinality({v \in of(c) : v.hour \in PeakHours}) > Cardinality(of(c))}

ShortRateFlags(a, b) ==
  LET of(c) == {n \in ClosesIn(a, b) : closes[n].cashier = c}
      short(c) == {n \in of(c) : closes[n].variance < 0}
  IN {c \in Cashier :
        Cardinality(short(c)) * ShortRate[2] > ShortRate[1] * Cardinality(of(c))}

\* Fault: anybody's close ends a cashier's run.
ExtendBrokenByAll(streak, c) ==
  [o \in Cashier |-> IF o = c.cashier /\ c.variance < 0 THEN streak[o] + 1 ELSE 0]

Extend(streak, c) ==
  [streak EXCEPT ![c.cashier] = IF c.variance < 0 THEN @ + 1 ELSE 0]

\* The streaks after each of the closes, of those of the range; the longest counts.
Streaks(in) ==
  LET streaks[n \in 0..Len(closes)] ==
        IF n = 0 THEN [c \in Cashier |-> 0]
        ELSE IF n \in in THEN Extend(streaks[n - 1], closes[n]) ELSE streaks[n - 1]
  IN streaks

RunFlags(a, b) ==
  LET streaks == Streaks(ClosesIn(a, b))
  IN {c \in Cashier : \E n \in 0..Len(closes) : streaks[n][c] >= RunOfShifts}

-----------------------------------------------------------------------------
(***************************************************************************)
(* Checklists.                                                             *)
(***************************************************************************)

Record(t, on, outcome) ==
  /\ log' = [k \in DOMAIN log \cup {<<t, on>>} |-> IF k = <<t, on>> THEN outcome ELSE log[k]]
  /\ UNCHANGED <<till, closes, handed, voids>>

CompleteTask(t, on) == Record(t, on, "completed")
SkipTask(t, on) == Record(t, on, "skipped")

EntriesOf(t) == {k[2] : k \in {x \in DOMAIN log : x[1] = t}}

\* Fault: a skip carries whatever was recorded after it.
LastSkipForTask(t) ==
  LET skips == {on \in EntriesOf(t) : log[<<t, on>>] = "skipped"}
  IN IF skips = {} THEN {} ELSE {Max(skips)}

\* The occurrence of a task's last entry, where that is a skip.
LatestSkipForTask(t) ==
  {on \in EntriesOf(t) : log[<<t, on>>] = "skipped" /\ \A o \in EntriesOf(t) : o <= on}

\* A task of the checklist of a day: pending, done, or skipped and for when.
TaskOn(t, day) ==
  CASE <<t, day>> \in DOMAIN log ->
         IF log[<<t, day>>] = "completed" THEN [state |-> "done"]
         ELSE [state |-> "skipped", for |-> day]
    [] <<t, day>> \notin DOMAIN log /\ LatestSkipForTask(t) # {} ->
         [state |-> "skipped", for |-> CHOOSE on \in LatestSkipForTask(t) : TRUE]
    [] OTHER -> [state |-> "pending"]

-----------------------------------------------------------------------------
ShiftInit == till = 0 /\ closes = <<>> /\ handed = TRUE /\ voids = {} /\ log = <<>>

ShiftNext ==
  \/ \E c \in Cashier, r \in Rung, x \in Taken, m \in Miscount : CloseShift(c, r, x, m)
  \/ CheckHandoff
  \/ /\ Cardinality(voids) + Cardinality(DOMAIN log) < MaxRecords
     /\ \/ \E v \in VoidForm : VoidReceipt(v)
        \/ \E t \in Task, on \in Occurrence : CompleteTask(t, on) \/ SkipTask(t, on)

ShiftSpec == ShiftInit /\ [][ShiftNext]_shiftVars

-----------------------------------------------------------------------------
(***************************************************************************)
(* What holds.                                                             *)
(***************************************************************************)

\* A shift answers for what it took and for its own count; of the count before
\* it inherits no more than the tolerance the handoff let through.
HandoffShieldsTheNext ==
  closes # <<>> =>
    LET last == closes[Len(closes)]
        miscount == last.closing - till
    IN last.variance + last.taken - miscount \in -HandoffTolerance..HandoffTolerance

\* The variances together are the cash missing against everything rung up,
\* whoever it is put on.
VariancesAddUp ==
  closes # <<>> =>
    SumFunction([n \in DOMAIN closes |-> closes[n].variance + closes[n].rung])
      = closes[Len(closes)].closing

\* A run is three of a cashier's own closes, all short and none of the
\* cashier's in between that is not, whoever else closed meanwhile; over a
\* single day, which is all the daily review passes, there is none.
RunsAreOwnShorts ==
  \A a \in 1..DayOfShift(MaxCloses) : \A b \in a..DayOfShift(MaxCloses) :
    /\ RunFlags(a, b) =
         {c \in Cashier : \E S \in SUBSET {n \in DOMAIN closes :
                            closes[n].cashier = c /\ DayOfShift(n) \in a..b} :
            /\ Cardinality(S) = RunOfShifts
            /\ \A n \in Min(S)..Max(S) : closes[n].cashier = c => closes[n].variance < 0}
    /\ a = b => RunFlags(a, b) = {}

\* No more than half of the staff are above the venue's median, and none of
\* them without a void.
FewAboveMedian ==
  LET above == VoidRateFlags(1, DayOfShift(MaxCloses))
  IN /\ 2 * Cardinality(above) <= Cardinality(Staff)
     /\ \A c \in above : \E v \in voids : v.cashier = c

\* Whom a share flags over a range it flags on a day of the range as well, so
\* that the daily review loses nobody by looking at one day.
SharesShowOnADay ==
  LET last == DayOfShift(MaxCloses)
  IN /\ PeakFlags(1, last) \subseteq UNION {PeakFlags(d, d) : d \in 1..last}
     /\ ShortRateFlags(1, last) \subseteq UNION {ShortRateFlags(d, d) : d \in 1..last}

ShortsFallOnTheirCashier ==
  /\ HandoffShieldsTheNext /\ VariancesAddUp
  /\ RunsAreOwnShorts /\ FewAboveMedian /\ SharesShowOnADay

\* The latest entry of a task says what its checklists show on every day without
\* an entry of its own, the days before it too: a skip is carried until an entry
\* for the same or a later day is recorded, and no longer; recording one touches
\* no other task, and nothing where a later entry stands.
SkipsCarry ==
  [][\A t \in Task, on \in Occurrence :
       CompleteTask(t, on) \/ SkipTask(t, on) =>
         /\ \A u \in Task \ {t}, d \in Occurrence : TaskOn(u, d)' = TaskOn(u, d)
         /\ \A d \in Occurrence \ {x \in Occurrence : <<t, x>> \in DOMAIN log'} :
              TaskOn(t, d)' =
                IF \E later \in EntriesOf(t) : later > on THEN TaskOn(t, d)
                ELSE IF SkipTask(t, on) THEN [state |-> "skipped", for |-> on]
                ELSE [state |-> "pending"]]_shiftVars
=============================================================================
