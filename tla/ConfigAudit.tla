---------------------------- MODULE ConfigAudit ----------------------------
(***************************************************************************)
(* The audited half of the config store (storage/config_store.py): every   *)
(* table a partner edits, the append-only audit_log of whole-row           *)
(* before/after snapshots, and the two undo operations built on it.        *)
(*                                                                         *)
(* Every operation here runs under the store's lock, in a transaction that *)
(* commits before the lock is released, so one store call is one step.     *)
(* The exception is revert_session, a loop: it is unfolded into one step   *)
(* per entry, with the lock held (`unwind.active`) and the committed state *)
(* kept aside, because the process can die or a statement can fail inside  *)
(* the loop.  Module StoreThreads models the lock itself.                  *)
(*                                                                         *)
(* A row is three columns.  "content" is what the edit form rewrites;      *)
(* "mark" is the column another operation moves on its own: a cost's       *)
(* updated_at, a fixed cost's ended_at, a bucket's retired_at, a recipe's  *)
(* yield_qty, and for a supplier or a cash-spend row its creation stamp.   *)
(* "flag" is a recipe's yield_estimated, which the start-up backfill moves *)
(* together with yield_qty and an edit may move alone; the rows of the     *)
(* other tables do not use it.                                             *)
(***************************************************************************)
EXTENDS Integers, Sequences, FiniteSets

CONSTANTS
  Pk,          \* primary-key values within a table
  Value,       \* what a column can hold
  Default,     \* NULL ended_at / retired_at; the legacy yield_qty of a recipe
  Measured,    \* yield_estimated 0
  Estimate,    \* the yield_qty the start-up backfill writes, one for all recipes
  Estimated,   \* yield_estimated 1
  NoRow,       \* None: the row does not exist on this side
  Session,     \* browser sessions
  NoSession,
  Seed,        \* the rows the first start seeded, which no entry records
  SeedBucket,  \* the buckets a start writes when the table is empty
  MaxTouched,  \* bound: rows edited in one behaviour
  MaxEdits,    \* bound: log length up to which edits are made
  MaxLog       \* bound: log length up to which a session undo may start

Table == {"costs", "mappings", "skus", "recipes", "fixed_costs", "suppliers",
          "cash_spend", "spend_buckets"}
Column == {"content", "mark", "flag"}
Key == Table \X Pk
Row == [Column -> Value]
RowOrNone == Row \cup {NoRow}
Entry == [key : Key, old : RowOrNone, new : RowOrNone, session : Session]

ASSUME ValuesAssumption ==
  /\ {Default, Measured, Estimate, Estimated} \subseteq Value
  /\ Measured # Estimated
  /\ NoRow \notin Row \cup Value
  /\ NoSession \notin Session
  /\ Seed \in [Key -> RowOrNone]
  /\ SeedBucket \in [Pk -> RowOrNone]
  /\ MaxTouched \in Nat /\ MaxEdits \in Nat /\ MaxLog \in Nat

VARIABLES
  rows,    \* the current row of every key
  log,     \* audit_log, in entry_id order
  unwind   \* the session undo in progress, with the state it would roll back to

vars == <<rows, log, unwind>>

Idle == [active |-> FALSE, target |-> NoSession, by |-> NoSession, todo |-> {},
         rows |-> Seed, log |-> <<>>]

TypeOK ==
  /\ rows \in [Key -> RowOrNone]
  /\ log \in Seq(Entry)
  /\ unwind \in [active : BOOLEAN,
                 target : Session \cup {NoSession},
                 by : Session \cup {NoSession},
                 todo : SUBSET Nat,
                 rows : [Key -> RowOrNone],
                 log : Seq(Entry)]

-----------------------------------------------------------------------------
(***************************************************************************)
(* The write-and-record core.                                              *)
(***************************************************************************)

\* _record_audit: nothing is logged when nothing changed.
Recorded(l, k, old, new, s) ==
  IF old = new THEN l
  ELSE Append(l, [key |-> k, old |-> old, new |-> new, session |-> s])

TouchedKeys == {log[i].key : i \in DOMAIN log}

\* One standalone audited write: snapshot, write, snapshot, record, commit.
Write(k, row, s) ==
  /\ ~unwind.active
  /\ Len(log) < MaxEdits
  /\ Cardinality(TouchedKeys \cup {k}) <= MaxTouched
  /\ rows' = [rows EXCEPT ![k] = row]
  /\ log' = Recorded(log, k, rows[k], row, s)
  /\ UNCHANGED unwind

Exists(k) == rows[k] # NoRow

\* AUTOINCREMENT: an id once given out is never given out again.
FreshId(k) == ~Exists(k) /\ k \notin TouchedKeys /\ Seed[k] = NoRow

-----------------------------------------------------------------------------
(***************************************************************************)
(* The operations of each table.                                           *)
(***************************************************************************)

\* A row of a table other than recipes.
Plain(row) == row["flag"] = Measured

SaveCost(p, row, s) == Plain(row) /\ Write(<<"costs", p>>, row, s)

BackdateCost(p, v, s) ==
  /\ Exists(<<"costs", p>>)
  /\ Write(<<"costs", p>>, [rows[<<"costs", p>>] EXCEPT !["mark"] = v], s)

SaveMapping(p, row, s) == Plain(row) /\ Write(<<"mappings", p>>, row, s)

\* A plain INSERT: on an existing id the statement fails and nothing is kept.
CreateSku(p, row, s) ==
  /\ ~Exists(<<"skus", p>>)
  /\ Plain(row)
  /\ Write(<<"skus", p>>, row, s)

SaveRecipe(p, row, s) == Write(<<"recipes", p>>, row, s)

DeleteRecipe(p, s) ==
  /\ Exists(<<"recipes", p>>)
  /\ Write(<<"recipes", p>>, NoRow, s)

CreateFixedCost(p, row, s) ==
  /\ FreshId(<<"fixed_costs", p>>)
  /\ Plain(row) /\ row["mark"] = Default
  /\ Write(<<"fixed_costs", p>>, row, s)

EndFixedCost(p, v, s) ==
  /\ Exists(<<"fixed_costs", p>>)
  /\ Write(<<"fixed_costs", p>>,
           [rows[<<"fixed_costs", p>>] EXCEPT !["mark"] = v], s)

DeleteFixedCost(p, s) ==
  /\ Exists(<<"fixed_costs", p>>)
  /\ Write(<<"fixed_costs", p>>, NoRow, s)

CreateSupplier(p, row, s) ==
  /\ ~Exists(<<"suppliers", p>>)
  /\ Plain(row)
  /\ Write(<<"suppliers", p>>, row, s)

UpdateSupplier(p, v, s) ==
  /\ Exists(<<"suppliers", p>>)
  /\ Write(<<"suppliers", p>>,
           [rows[<<"suppliers", p>>] EXCEPT !["content"] = v], s)

\* Refused while a cash-spend row names the supplier; which rows do is data
\* this module abstracts, so the refusal is the step not being taken.
DeleteSupplier(p, s) ==
  /\ Exists(<<"suppliers", p>>)
  /\ Write(<<"suppliers", p>>, NoRow, s)

CreateCashSpend(p, row, s) ==
  /\ FreshId(<<"cash_spend", p>>)
  /\ Plain(row)
  /\ Write(<<"cash_spend", p>>, row, s)

UpdateCashSpend(p, v, s) ==
  /\ Exists(<<"cash_spend", p>>)
  /\ Write(<<"cash_spend", p>>,
           [rows[<<"cash_spend", p>>] EXCEPT !["content"] = v], s)

DeleteCashSpend(p, s) ==
  /\ Exists(<<"cash_spend", p>>)
  /\ Write(<<"cash_spend", p>>, NoRow, s)

CreateSpendBucket(p, row, s) ==
  /\ ~Exists(<<"spend_buckets", p>>)
  /\ Plain(row) /\ row["mark"] = Default
  /\ Write(<<"spend_buckets", p>>, row, s)

RetireSpendBucket(p, v, s) ==
  /\ Exists(<<"spend_buckets", p>>)
  /\ Write(<<"spend_buckets", p>>,
           [rows[<<"spend_buckets", p>>] EXCEPT !["mark"] = v], s)

DeleteSpendBucket(p, s) ==
  /\ Exists(<<"spend_buckets", p>>)
  /\ Write(<<"spend_buckets", p>>, NoRow, s)

-----------------------------------------------------------------------------
(***************************************************************************)
(* Undo.                                                                   *)
(***************************************************************************)

\* Fault: the before-state comes back whole, dropping later edits.
RevertTargetWhole(old, new, current) == old

\* Fault: only the columns being undone are written back.
RevertTargetPartial(old, new, current) ==
  IF old = NoRow THEN NoRow
  ELSE IF new = NoRow \/ current = NoRow THEN old
  ELSE [c \in {d \in Column : old[d] # new[d]} |-> old[c]]

\* Fault: a deleted row comes back through the create path, mark reset.
RevertTargetRecreates(old, new, current) ==
  IF old = NoRow THEN NoRow
  ELSE IF new = NoRow \/ current = NoRow THEN [old EXCEPT !["mark"] = Default]
  ELSE [c \in Column |-> IF old[c] # new[c] THEN old[c] ELSE current[c]]

\* Only the columns the entry moved go back to their before-values.
RevertTarget(old, new, current) ==
  IF old = NoRow THEN NoRow
  ELSE IF new = NoRow \/ current = NoRow THEN old
  ELSE [c \in Column |-> IF old[c] # new[c] THEN old[c] ELSE current[c]]

\* Undo one entry against the row's current state, itself logged.
RevertOne(e, s) ==
  LET target == RevertTarget(e.old, e.new, rows[e.key])
  IN /\ rows' = [rows EXCEPT ![e.key] = target]
     /\ log' = Recorded(log, e.key, rows[e.key], target, s)

RevertEntry(i, s) ==
  /\ ~unwind.active
  /\ Len(log) < MaxEdits
  /\ RevertOne(log[i], s)
  /\ UNCHANGED unwind

EntriesOf(t) == {i \in DOMAIN log : log[i].session = t}

\* revert_session reads the session's entries once, before its loop.
BeginUnwind(t, s) ==
  /\ ~unwind.active
  /\ EntriesOf(t) # {}
  /\ Len(log) + Cardinality(EntriesOf(t)) <= MaxLog
  /\ unwind' = [active |-> TRUE, target |-> t, by |-> s, todo |-> EntriesOf(t),
                rows |-> rows, log |-> log]
  /\ UNCHANGED <<rows, log>>

\* Fault: ORDER BY entry_id without DESC.
IsOldestToUndo(i) == \A j \in unwind.todo : i <= j

\* ORDER BY entry_id DESC.
IsNextToUndo(i) == \A j \in unwind.todo : j <= i

UnwindStep ==
  /\ unwind.active
  /\ \E i \in unwind.todo :
       /\ IsNextToUndo(i)
       /\ RevertOne(log[i], unwind.by)
       /\ unwind' = [unwind EXCEPT !.todo = @ \ {i}]

CommitUnwind ==
  /\ unwind.active
  /\ unwind.todo = {}
  /\ unwind' = Idle
  /\ UNCHANGED <<rows, log>>

\* Fault: the rows roll back and the paper trail stays.
RollbackUnwindKeepsLog ==
  /\ unwind.active
  /\ rows' = unwind.rows
  /\ log' = log
  /\ unwind' = Idle

\* The process dies, or a statement raises, inside the loop: `with self._conn`
\* (or SQLite, on the next open) rolls rows and entries back together.
RollbackUnwind ==
  /\ unwind.active
  /\ rows' = unwind.rows
  /\ log' = unwind.log
  /\ unwind' = Idle

-----------------------------------------------------------------------------
(***************************************************************************)
(* Start-up (seed_config) writes two things no entry records: the default  *)
(* buckets, when the table has been emptied, and an estimated yield, so    *)
(* marked, for every recipe still at the legacy default that another       *)
(* recipe uses and whose inputs can be weighed.  Which recipes those are   *)
(* is abstracted to any subset P.  A process that died inside a session    *)
(* undo left only a rolled-back database behind (RollbackUnwind).          *)
(***************************************************************************)

NoBuckets == \A p \in Pk : ~Exists(<<"spend_buckets", p>>)

\* What a legacy recipe holds in the two columns of its yield, and what the
\* backfill writes there.
Legacy == [mark |-> Default, flag |-> Measured]
Backfill == [mark |-> Estimate, flag |-> Estimated]

AtLegacyYield(row) ==
  row # NoRow /\ row["mark"] = Legacy.mark /\ row["flag"] = Legacy.flag

\* Both columns in one UPDATE.
Backfilled(row) ==
  [row EXCEPT !["mark"] = Backfill.mark, !["flag"] = Backfill.flag]

\* The row of key k after a start that backfills the recipes P.
Started(k, P) ==
  IF k[1] = "recipes" /\ k[2] \in P THEN Backfilled(rows[k])
  ELSE IF k[1] = "spend_buckets" /\ NoBuckets THEN SeedBucket[k[2]]
  ELSE rows[k]

Restart(P) ==
  /\ ~unwind.active
  /\ \A p \in P : AtLegacyYield(rows[<<"recipes", p>>])
  /\ Cardinality(TouchedKeys \cup {<<"recipes", p>> : p \in P}) <= MaxTouched
  /\ rows' = [k \in Key |-> Started(k, P)]
  /\ UNCHANGED <<log, unwind>>

-----------------------------------------------------------------------------
Init ==
  /\ rows = Seed
  /\ log = <<>>
  /\ unwind = Idle

Upsert(s) == \E p \in Pk, row \in Row :
  SaveCost(p, row, s) \/ SaveMapping(p, row, s) \/ SaveRecipe(p, row, s)

Create(s) == \E p \in Pk, row \in Row :
  \/ CreateSku(p, row, s)
  \/ CreateSupplier(p, row, s)
  \/ CreateCashSpend(p, row, s)
  \/ CreateFixedCost(p, row, s)
  \/ CreateSpendBucket(p, row, s)

Amend(s) == \E p \in Pk, v \in Value :
  \/ BackdateCost(p, v, s)
  \/ EndFixedCost(p, v, s)
  \/ UpdateSupplier(p, v, s)
  \/ UpdateCashSpend(p, v, s)
  \/ RetireSpendBucket(p, v, s)

Delete(s) == \E p \in Pk :
  \/ DeleteRecipe(p, s)
  \/ DeleteFixedCost(p, s)
  \/ DeleteSupplier(p, s)
  \/ DeleteCashSpend(p, s)
  \/ DeleteSpendBucket(p, s)

Next ==
  \/ \E s \in Session : Upsert(s) \/ Create(s) \/ Amend(s) \/ Delete(s)
  \/ \E s \in Session, i \in DOMAIN log : RevertEntry(i, s)
  \/ \E t, s \in Session : BeginUnwind(t, s)
  \/ UnwindStep \/ CommitUnwind \/ RollbackUnwind
  \/ \E P \in SUBSET Pk : Restart(P)

Spec == Init /\ [][Next]_vars

-----------------------------------------------------------------------------
(***************************************************************************)
(* Properties.                                                             *)
(***************************************************************************)

\* Row b can stand where row a stood: the same row, or one that start-up
\* replaced, unaudited, in between.
Linked(k, a, b) ==
  \/ b = a
  \/ k[1] = "recipes" /\ AtLegacyYield(a) /\ b = Backfilled(a)
  \/ k[1] = "spend_buckets" /\ a = NoRow /\ b = SeedBucket[k[2]]

LatestFor(l, k, n, i) ==
  /\ i \in 1..n
  /\ l[i].key = k
  /\ \A j \in (i + 1)..n : l[j].key # k

\* `row` is what key k is left with by the first n entries of l.
Follows(l, k, n, row) ==
  /\ \A i \in 1..n : LatestFor(l, k, n, i) => Linked(k, l[i].new, row)
  /\ (\A j \in 1..n : l[j].key # k) => Linked(k, Seed[k], row)

JournalOf(r, l) ==
  /\ \A j \in DOMAIN l : /\ Follows(l, l[j].key, j - 1, l[j].old)
                         /\ l[j].old # l[j].new
  /\ \A k \in Key : Follows(l, k, Len(l), r[k])

\* The paper trail is complete: each entry's before-snapshot is the previous
\* entry's after-snapshot of that row, the first one's is the seeded row, the
\* last after-snapshot is the row as stored, and no entry records a non-event.
\* Holds through edits, undos, undos of undos, and a session undo that died
\* halfway; the two writes of start-up are the only unrecorded changes.
Journal == JournalOf(rows, log)

\* The state a failing session undo falls back to has a complete trail too.
SavedJournal == unwind.active => JournalOf(unwind.rows, unwind.log)

Cell(row, c) == IF row = NoRow THEN NoRow ELSE row[c]

Moved(e, c) == Cell(e.old, c) # Cell(e.new, c)

\* The start-up backfill, which leaves no entry, has rewritten the recipe that
\* entry e left at the legacy yield.
BackfilledSince(e) ==
  /\ e.key[1] = "recipes"
  /\ AtLegacyYield(e.new)
  /\ rows[e.key] = Backfilled(e.new)

\* revert_entry on the newest entry of a row gives back the row the entry
\* replaced, column for column, whether it had edited, deleted or re-created
\* it: so "a revert can in turn be reverted".  The one exception is a recipe
\* whose yield start-up has estimated since the entry: a column the entry did
\* not move then stays as start-up wrote it, so undoing a change of yield_qty
\* alone leaves the measured yield back under the flag of an estimated one.
NewestUndoIsExact ==
  [][\A i \in DOMAIN log, s \in Session :
       RevertEntry(i, s) /\ LatestFor(log, log[i].key, Len(log), i)
         => \A c \in Column :
              \/ Cell(rows'[log[i].key], c) = Cell(log[i].old, c)
              \/ /\ BackfilledSince(log[i])
                 /\ ~Moved(log[i], c)
                 /\ Cell(rows'[log[i].key], c) = Cell(rows[log[i].key], c)]_vars

\* revert_session takes every column of every row that only this session
\* moved (since it first touched the row) back to its value from before the
\* session, however often the session created, edited, undid or deleted the
\* row and whoever edited the row's other columns in between.  Excepted is a
\* column of a recipe's yield that start-up moved off its legacy value.
SessionUndoRestores ==
  [][CommitUnwind =>
       LET l == unwind.log
           mine(k) == {i \in DOMAIN l : l[i].key = k /\ l[i].session = unwind.target}
       IN \A k \in Key, c \in Column :
            \A i \in mine(k) :
              /\ \A j \in mine(k) : i <= j
              /\ \A j \in (i + 1)..Len(l) :
                   l[j].key = k /\ l[j].session # unwind.target => ~Moved(l[j], c)
              => \/ Cell(rows[k], c) = Cell(l[i].old, c)
                 \/ k[1] = "recipes" /\ c \in DOMAIN Backfill /\ rows[k] # NoRow
                    /\ Cell(rows[k], c) = Backfill[c]
                    /\ Cell(l[i].old, c) = Legacy[c]]_vars

\* What the undone session never moved stays as the others left it.
SessionUndoSparesOthers ==
  [][CommitUnwind =>
       \A k \in Key, c \in Column :
         (\A i \in DOMAIN unwind.log :
            unwind.log[i].key = k /\ unwind.log[i].session = unwind.target
              => ~Moved(unwind.log[i], c))
         /\ (\A i \in DOMAIN unwind.log :
               unwind.log[i].key = k /\ unwind.log[i].session = unwind.target
                 => unwind.rows[k] # NoRow)
         => Cell(rows[k], c) = Cell(unwind.rows[k], c)]_vars
=============================================================================
