---------------------------- MODULE PriceHistory ----------------------------
(***************************************************************************)
(* A SKU's price on any past day, reconstructed from the audit log (module *)
(* PriceLog), and the writes that make the log.                            *)
(*                                                                         *)
(* Three calendars meet here.  A save stamps the row with the day the web  *)
(* process started (`appToday`, computed once); an audit entry is stamped  *)
(* with the UTC day, which until 07:00 local time is yesterday's; and a    *)
(* backdate moves the row's stamp to the receipt's day.  The history is    *)
(* rebuilt from all three on each read.                                    *)
(*                                                                         *)
(* SKUs do not interact, so one is modelled.  Its cost row is the net      *)
(* price, the stamp (updated_at) and who typed it (updated_by), the latter *)
(* standing for every column that does not move the price.                 *)
(***************************************************************************)
EXTENDS Integers, Sequences, PriceLog

CONSTANTS
  Price,     \* net prices per unit
  Partner,   \* who edits
  MaxDay,    \* bound: the last day modelled
  MaxLog     \* bound: audit entries of the SKU

Day == 0..MaxDay
Row == [net : Price, date : Day, by : Partner]
RowOrNone == Row \cup {NoRow}
Entry == [old : RowOrNone, new : RowOrNone, utc : Day]

ASSUME PriceAssumption ==
  NoRow \notin Row /\ NoPrice \notin Price /\ MaxDay \in Nat \ {0} /\ MaxLog \in Nat

VARIABLES
  row,       \* the cost row
  log,       \* the SKU's entries of audit_log, oldest first
  today,     \* the day in Phuket
  early,     \* before 07:00, when the UTC day is still yesterday's
  appToday   \* the day the web process took for today when it started

vars == <<row, log, today, early, appToday>>

TypeOK ==
  /\ row \in RowOrNone
  /\ log \in Seq(Entry)
  /\ today \in Day /\ appToday \in 0..today
  /\ early \in BOOLEAN

-----------------------------------------------------------------------------
\* price_as_of, for every day at once.
PriceAsOf ==
  LET c == Changes(log) IN [d \in Day |-> PriceOn(c, row, d)]

-----------------------------------------------------------------------------
(***************************************************************************)
(* Writing it.                                                             *)
(***************************************************************************)

\* Fault: the venue taken to lie west of Greenwich.
UtcDayAhead == IF early THEN today ELSE today + 1

UtcDay == IF early THEN today - 1 ELSE today

SetRow(new) ==
  /\ row' = new
  /\ log' = IF new = row THEN log
            ELSE Append(log, [old |-> row, new |-> new, utc |-> UtcDay])
  /\ UNCHANGED <<today, early, appToday>>

SaveCost(net, by) ==
  /\ Len(log) < MaxLog
  /\ SetRow([net |-> net, date |-> appToday, by |-> by])

\* backdate_cost as scripts/backdate_corrections.py calls it: the SKU's newest
\* entry must have had a before-row, and the day must not lie ahead.
BackdateCost(d) ==
  /\ Len(log) \in 1..(MaxLog - 1)
  /\ Last(log).old # NoRow
  /\ row # NoRow
  /\ d <= today
  /\ SetRow([row EXCEPT !.date = d])

\* revert_entry, column by column.
RevertTarget(e, current) ==
  IF e.old = NoRow THEN NoRow
  ELSE IF e.new = NoRow \/ current = NoRow THEN e.old
  ELSE [c \in {"net", "date", "by"} |->
          IF e.old[c] # e.new[c] THEN e.old[c] ELSE current[c]]

RevertEntry(i) ==
  /\ Len(log) < MaxLog
  /\ SetRow(RevertTarget(log[i], row))

RestartApp ==
  /\ appToday' = today
  /\ UNCHANGED <<row, log, today, early>>

\* 07:00, then midnight.
PassTime ==
  /\ early \/ today < MaxDay
  /\ early' = ~early
  /\ today' = IF early THEN today ELSE today + 1
  /\ UNCHANGED <<row, log, appToday>>

Init ==
  /\ row \in {NoRow} \cup [net : Price, date : {0}, by : Partner]
  /\ log = <<>>
  /\ today = 1 /\ appToday = 1 /\ early = FALSE

Next ==
  \/ \E net \in Price, by \in Partner : SaveCost(net, by)
  \/ \E d \in Day : BackdateCost(d)
  \/ \E i \in DOMAIN log : RevertEntry(i)
  \/ RestartApp
  \/ PassTime

Spec == Init /\ [][Next]_vars

-----------------------------------------------------------------------------
(***************************************************************************)
(* Properties.                                                             *)
(***************************************************************************)

\* However the log was re-dated, undone and redone, the change recorded last
\* carries the price now in the book, and no change lies in the future.
HistoryEndsAtBook ==
  LET c == Changes(log)
  IN /\ c # <<>> => Last(c).new = PriceOf(row)
     /\ \A i \in DOMAIN c : c[i].on <= today

SamePastBefore(d) ==
  LET before == PriceAsOf
      after == PriceAsOf'
  IN \A x \in 0..(d - 1) : after[x] = before[x]

\* A partner who types a new price for a priced SKU changes no day before the
\* stamp, whatever was backdated or undone before, early in the morning too;
\* and on a process started today the new price is today's.
RepricingKeepsThePast ==
  [][\A net \in Price, by \in Partner :
       SaveCost(net, by) /\ row # NoRow /\ net # row.net =>
         /\ SamePastBefore(appToday)
         /\ appToday = today => PriceAsOf'[today] = net]_vars

\* Undoing a price edit that came to be after the price it brings back
\* restates no day before the UTC day of the undo and, after 07:00, gives
\* today the price the book shows.
UndoKeepsThePast ==
  [][\A i \in DOMAIN log :
       /\ RevertEntry(i)
       /\ row # NoRow /\ row' # NoRow
       /\ row.net # row'.net
       /\ row'.date < row.date
       => /\ SamePastBefore(UtcDay)
          /\ ~early => PriceAsOf'[today] = row'.net]_vars

\* Backdating a correction to a day no other change lies after gives that day
\* and every later one the corrected price, and no earlier day another price.
BackdateAppliesFromReceipt ==
  [][\A d \in Day :
       LET c == Changes(log)
       IN /\ BackdateCost(d)
          /\ c # <<>>
          /\ d <= Last(c).on
          /\ \A i \in 1..(Len(c) - 1) : c[i].on <= d
          => /\ \A x \in Day : x >= d => PriceAsOf'[x] = row.net
             /\ SamePastBefore(d)]_vars

NeverReDated == \A i \in DOMAIN log : ~IsReDating(log[i])

\* README: "editing a cost never re-states an old day's margin".  With nothing
\* backdated so far, no save, of whatever price, changes the price of a day
\* before its stamp.
SavesNeverRestate ==
  [][\A net \in Price, by \in Partner :
       SaveCost(net, by) /\ row # NoRow /\ NeverReDated
         => SamePastBefore(appToday)]_vars

\* _change_effective_date: "an undo takes effect the day it was performed".
\* With nothing backdated so far, on a process started today and after 07:00,
\* when the UTC day is the local one, an undo that moves the price leaves today
\* with the price it brought back.
UndoTakesEffectToday ==
  [][\A i \in DOMAIN log :
       /\ RevertEntry(i)
       /\ PriceOf(row') # PriceOf(row)
       /\ NeverReDated /\ ~early /\ appToday = today
       => PriceAsOf'[today] = PriceOf(row')]_vars
=============================================================================
