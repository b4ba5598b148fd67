------------------------------ MODULE PriceLog ------------------------------
(***************************************************************************)
(* What a SKU's entries of the audit log say of its price on a past day    *)
(* (price_history.py, and price_history() in storage/config_store.py): the *)
(* operators PriceHistory and Reports share.                               *)
(*                                                                         *)
(* A cost row has at least its net price (`net`) and its stamp (`date`);   *)
(* an entry has the row before (`old`) and after (`new`), either of which  *)
(* may be missing, and the UTC day it was written (`utc`).                 *)
(***************************************************************************)
EXTENDS Integers, Sequences, SequencesExt

CONSTANTS
  NoRow,     \* the SKU has no cost row
  NoPrice    \* None, where a price is expected

PriceOf(r) == IF r = NoRow THEN NoPrice ELSE r.net

\* An entry that moves the row but not its price: the backdate_cost marker,
\* and any other write that leaves the price as it was.
IsReDating(e) == e.old # NoRow /\ e.new # NoRow /\ e.old.net = e.new.net

\* Fault: the day of a change is the day of its audit stamp.
EffectiveDateUtc(e) == e.utc

\* Fault: a row that moved back in time keeps its old stamp.
EffectiveDateOfRow(e) == IF e.new = NoRow THEN e.utc ELSE e.new.date

\* Fault: a backdate falls into the undo's branch.
EffectiveDateAsUndo(e) ==
  IF e.new # NoRow /\ (e.old = NoRow \/ e.new.date >= e.old.date)
  THEN e.new.date
  ELSE e.utc

\* _change_effective_date
EffectiveDate(e) ==
  IF /\ e.new # NoRow
     /\ IsReDating(e) \/ e.old = NoRow \/ e.new.date >= e.old.date
  THEN e.new.date
  ELSE e.utc

\* Fault: a re-dating also drops the change it should have moved.
AddEntryDropping(changes, e) ==
  IF IsReDating(e) THEN IF changes = <<>> THEN changes ELSE Front(changes)
  ELSE Append(changes, [on |-> EffectiveDate(e),
                        old |-> PriceOf(e.old), new |-> PriceOf(e.new)])

\* One round of price_history's loop; a re-dating folds into the change
\* before it, if there is one.
AddEntry(changes, e) ==
  IF IsReDating(e)
  THEN IF changes = <<>> THEN changes
       ELSE [changes EXCEPT ![Len(changes)].on = EffectiveDate(e)]
  ELSE Append(changes, [on |-> EffectiveDate(e),
                        old |-> PriceOf(e.old), new |-> PriceOf(e.new)])

Changes(l) ==
  LET upTo[n \in 0..Len(l)] == IF n = 0 THEN <<>> ELSE AddEntry(upTo[n - 1], l[n])
  IN upTo[Len(l)]

\* The latest change on or before day d; of one day's changes, the last recorded.
Governs(c, i, d) ==
  /\ c[i].on <= d
  /\ \A j \in DOMAIN c : c[j].on <= d =>
       c[j].on < c[i].on \/ (c[j].on = c[i].on /\ j <= i)

\* What the days before every change cost: the first recorded change's
\* before-price, or its own price when it created the row and the row stands.
BeforeChanges(c, current) ==
  IF c = <<>> THEN PriceOf(current)
  ELSE IF c[1].old # NoPrice THEN c[1].old
  ELSE IF current = NoRow THEN NoPrice
  ELSE c[1].new

PriceOn(c, current, d) ==
  IF \E i \in DOMAIN c : c[i].on <= d
  THEN c[CHOOSE i \in DOMAIN c : Governs(c, i, d)].new
  ELSE BeforeChanges(c, current)
=============================================================================
