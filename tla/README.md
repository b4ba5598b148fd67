# Tangerine Books: formal models

TLA+ models of *Tangerine Phuket Books* (`src/`), an accounting tool of a cafe
and bar: a FastAPI app and a nightly cron job over one SQLite file. Every
definition is read off the Python source; `PROJECT.json` maps each one to its
lines, lists the hazards the properties are for, and names for every property a
mutant (a plausible bug in one mapped definition) that breaks it.

The program is sequential code for the most part, but its hard parts are not:
threads share one connection, two processes share the file, undo works over a
log that other sessions keep writing, a price on a past day is rebuilt from that
log on three calendars, and every route decides on what it read before it took
the lock. Those parts come first; the computations the reports are made of come
after them, over the states those parts can leave behind.

## The system

| Component | State | Operations | Hard behaviour | What makes it correct |
|---|---|---|---|---|
| Config store, audit log, undo (`storage/config_store.py`) | eight tables a partner edits; append-only `audit_log` of whole-row before/after snapshots | 18 audited writes, `revert_entry`, `revert_session`, the start-up writes of `seed_config` | undo after later edits by others, undo of undo, a session undo that dies midway, unaudited start-up writes in between | the log is a complete trail of every row; undo gives back exactly the columns it is about |
| Price history (`price_history.py`, `price_history()`) | none of its own: the `costs` row, its log entries, the process's `today` | `save_cost`, `backdate_cost`, `revert_entry`; read: `price_as_of` | three calendars (the day the process started, the UTC day of the entry, the receipt's day); which entries are re-datings is inferred | history ends at the book; no operation changes days before the one it is about |
| Lock, batch, transactions (`SqliteConfigStore.batch`, `web/app.py`) | RLock, `_in_batch`, the connection's one transaction | standalone writes, multi-write routes, undo | the flag read without the lock, errors inside a batch, crash | each stroke lands whole or not at all and is durable when answered |
| Loyverse sync (`loyverse/`, `storage/sqlite_store.py`, `sync.py`) | `sales`, `menu_snapshots`, `menu_changes` | `run_sync` from "Sync now" and from cron | overlapping syncs of two processes, following cursors while the source changes, failures between the two halves, a malformed line | no sale twice, none missing for good, the menu and its history right |
| Suppliers, buckets, cash spend | three tables that refer to one another; references enforced by checks in the routes | create, edit, retire, delete, import, undo | checks made before and outside the lock, or, while another thread's batch is open, inside the store and still outside the lock; undo makes no check | no row refers to what is gone; a retired bucket gets no new rows |
| Recipes and costing (`recipes.py`, `margin.py`, `quantity.py`, `serving_recipe.py`, two scripts) | SKUs, recipes, prices, mappings | save, delete, upload, sold-as-is, workbook import, undo, the yield backfill; `CostResolver` | the checks are made before and outside the lock; undo and the import make none | no cycle, or costing that is right in spite of one; produced SKUs have no price of their own; a measured yield stays |
| Audit readers (`unreviewed_changes`, export trail) | `review_marks`, `loyverse_exports` | mark reviewed, confirm an export, count since | marks stamped after the read they stand for; strict comparisons | nothing counts as seen that was not shown |
| Sessions, rate limit (`web/auth.py`, `web/ratelimit.py`) | signed cookies; attempts per address | login, logout, sliding refresh, `allow` | a request in flight at logout; window boundaries | logout ends the session; the budget holds per window |
| Migrations (`storage/schema.py`) | `schema_migrations` | `apply_migrations` at each start | crash inside a script; two processes starting | each migration applied once and whole |
| Reports and reviews (`margin.py`, `period_review.py`, `trends.py`, `profit_report.py`, `monthly_pnl.py`, `fixed_costs.py`, `cash_spend.py`, `coverage.py`) | none: folds over the sales and the configuration | daily and period review, trends, goal, Profit Report, coverage | sales arrive late; prices depend on the day and on what was undone; the Profit Report reads each table under a lock of its own, while rows are corrected, deleted and put back | every view of a range adds up to the same money; past days do not move |
| Receipts, counts, kegs (`receipts.py`, `approvals.py`, `cost.py`, `cafe_stock.py`, `keg_inventory.py`) | none in the store: an in-memory `ApprovalBook`, and what the caller keeps | check, approve, correct, count, weigh | out-of-order invoices, window boundaries, months without a weigh-in | what is bought is payable once and what is consumed is booked once |
| Drawer, anomalies, checklists (`cash_drawer.py`, `anomaly.py`, `checklists.py`) | a `CompletionLog`; the closes the caller keeps | close, hand over, void, complete, skip | miscounts reach the next shift; cashiers take turns; backdated entries | a short falls on its cashier; a skip is carried, on every day without an entry, exactly as long as it is unresolved |
| Uploads, pages, command line | none | parsing, rendering | | what they may write is in `RecipeGraph` and `Vocabulary` |

How they interact: the routes call the store on worker threads; both stores of
the web process share one connection and one RLock; the cron job and the
maintenance scripts open connections of their own, so between processes there
is only SQLite's locking. Reports read the sales the sync wrote and the prices
the log yields. Nothing calls back; the only events are requests, cron and
restarts (`systemd`, `Restart=on-failure`).

## Modules

| Module | Models | State and actions |
|---|---|---|
| `ConfigAudit` | audited writes, undo, start-up | `rows`, `log`, `unwind`; one action per store method; `revert_session` unfolded into `BeginUnwind`, one `UnwindStep` per entry, `CommitUnwind` or `RollbackUnwind`; `Restart` for `seed_config` |
| `PriceLog` | what a SKU's log entries say of its price on a day | operators only; `PriceHistory` extends it, `Reports` instantiates it |
| `PriceHistory` | one SKU's price on every day | `row`, `log`, `today`, `early`, `appToday`; `SaveCost`, `BackdateCost`, `RevertEntry`, `RestartApp`, `PassTime`; `PriceAsOf` reads the history back |
| `AtomicStrokes` | what the store promises of one partner action | `stored`, `saved`, `failed` |
| `StoreThreads` | threads, lock, flag, transaction | one action per step of a stroke; refines `AtomicStrokes` |
| `LoyverseSync` | both processes' syncs | Loyverse (`lines`, `onSale`), the store (`sales`, `menu`, `history`), the locks, each worker's place and the pages in its hand; one action per page that is not the last and per store-visible step of `run_sync` |
| `Vocabulary` | suppliers, spend buckets, cash spend and the CSV import | `suppliers`, `buckets`, `spend`, `log`, `enforced`; a route that decides is a `Check...` step and a write step of the same worker, a route that only writes is one step; `CheckUnlocked` and `DeleteUnlocked` for a supplier's delete past the lock; `RevertEntry`, `Restart` |
| `RecipeGraph` | SKUs, recipes, prices, mappings and what walks them | `skus`, `recipes`, `costs`, `mapping`, `log`, `pending` (what requests have decided to write); saves, uploads, sold-as-is, both scripts, undo, `Start`; the walks `FindsCycle`, `Priceable`, `UnpricedLeaves` as recursive functions |
| `Reports` | the computations over sales, prices, fixed costs and spend | `sales`, `recipes`, `mapping`, `costs` and `spend` with their audit entries, `fixed`, the two clocks; each view an operator of these; edits, deletes and undos; the Profit Report is rendered in eight kinds of steps through `view` |
| `Stocktaking` | receipt approval, counts, weigh-ins, cost of sales, payables | extends `Reports` for months and sums; `desk`, `purchases`, `book`, `counts`, `weighs` |
| `ShiftControl` | drawer, anomaly rules, checklists | `till`, `closes`, `handed`, `voids`, `log` |
| `ConfigAuditProofs`, `PriceHistoryProofs`, `StoreThreadsProofs`, `LoyverseSyncProofs`, `VocabularyProofs`, `RecipeGraphProofs`, `ReportsProofs` | the theorems about them; `ReportsProofs` covers `Reports`, `Stocktaking` and `ShiftControl` | see *Proofs* |
| `SetInduction` | induction and recursion over numbers, logs and finite sets; finite sums | lemmas the proofs share |
| `MC...` | instances for TLC | constants, symmetry; `MCReports` composes `Stocktaking` (with `Reports`) and `ShiftControl` |

### Abstractions that matter

* `ConfigAudit`: a row is three columns: `content` (what the edit form
  rewrites), `mark` (the column another operation moves by itself; a recipe's
  `yield_qty`) and `flag` (a recipe's `yield_estimated`, which the backfill
  writes together with `yield_qty` and an undo gives back apart from it). Three
  columns are what undo tells apart: those an entry moved and those it did not,
  of two that start-up moves at once. All recipes have one estimated yield. An
  audited write is one step because it runs under the lock in one transaction;
  `StoreThreads` is about when that is so. `DeleteSupplier`'s in-use refusal is
  the step not being taken. Which recipes the yield backfill touches is any
  subset of those at the legacy yield. A write made by a maintenance script in
  its own process, between another's snapshot and its write, is not modelled.
* `PriceHistory`: SKUs do not interact, so there is one. `today` moves in half
  days: before 07:00 the UTC day is yesterday's. `by` stands for every column of
  the cost row that does not move the price. `BackdateCost` has the guard of
  `scripts/backdate_corrections.py`, its only caller.
* `StoreThreads`: rows are not data but *parts*, two per write (the row, its
  audit entry). A crash discards what is not committed. Nested `batch()` blocks
  occur nowhere and are left out.
* `LoyverseSync`: receipt lines are all-or-nothing facts; refund receipts, which
  the parser skips, are left out. The receipts are pulled page by page: what is
  in hand, and what the cursor of the last page still stands for, are state. One
  thing is assumed of the external service: its cursor stands for a place in an
  order of the lines (`Position`), so that a line which was there at the first
  page is on this page or behind the cursor; lines rung up meanwhile may turn up
  on any page or on none. A page without a body, which ends the loop early, is
  not modelled, nor is the paging of the items, whose snapshot is what it may
  add up to. An item is one version (name and price); change records are kept
  per item. Stamps and reported counts are left out.
* `Vocabulary`: a cash-spend row is the two parents it names. A request's two
  steps may be separated by any other request; the third possibility, a write
  refused by SQLite, exists only while `enforced`. Whether another thread has a
  batch open when a supplier is deleted is a choice made anew each time: a
  stroke of any route may be one. `orderly` is a history variable: it says what
  holds as long as requests do not overlap and nothing is undone, so that each
  property tells what the routes give and what only the database would.
* `RecipeGraph`: weighed ingredients go in by twos and of a price only its
  presence matters; an estimated yield is then twice the number of weighed
  ingredients, zero where everything is counted, which is the case that matters.
  The audit log is a set of transactions, because undo looks at nothing else. An
  undo is of one entry. A script decides on what it read and races the web
  process like another request.
* `Reports`: recipes are one level deep and yield one serving, since
  `RecipeGraph` has the graph. Prices are rows with stamps and an audit trail,
  read back by `PriceLog` as in `PriceHistory`, so that a price saved again, an
  undo and the undo of an undo do to a past day what they do there; backdating
  is left to `PriceHistory`. Undone are edits of prices and of cash spend; an
  undo of another table leaves what an edit could. A cash-spend row keeps its id
  for good. Amounts are whole satang; the rounding of fixed-cost parts (half to
  even) and of VAT is modelled. A day view is a function of one state: each
  reads the store in one request, and what can be torn about them is torn in the
  Profit Report, which reads most.
* `Stocktaking`: nothing of it is persisted and no route calls it, so the
  variables are what a caller must hold to call the engines. `Reject` stores
  nothing and is the step not taken. A tie between suppliers' latest prices is
  any of them: `CostBook.from_book` walks a set. A gram of beer is a millilitre.
* `ShiftControl`: `till` is what is really in the drawer, which no code sees; it
  is what makes "the short falls on who took it" a statement about the code. The
  incoming partner counts right. Voids and closes are given to the rules as the
  callers give them, over a range of days.

## Runs

| Run | Checks | Shows | Bounds |
|---|---|---|---|
| `config_audit` | `TypeOK`, `Journal`, `NewestUndoIsExact`, `SessionUndoRestores`, `SessionUndoSparesOthers` | the paper trail stays complete and linked; undo is exact, column for column, but for a yield estimated since; session undo restores its own columns and spares the others' | 2 sessions, 1 row per table, 2 values, 2 rows touched if one is a bucket and else 1, edits up to 3 entries, a session undo up to 5 |
| `price_history` | `TypeOK`, `HistoryEndsAtBook`, `RepricingKeepsThePast`, `UndoKeepsThePast`, `BackdateAppliesFromReceipt` | the reconstruction is right for repricing, plain undo and backdating | 3 prices, 2 partners, 3 days, 4 entries |
| `price_history_resave` | `SavesNeverRestate` | violated: an unchanged price saved again restates past days | 4 days, 3 entries |
| `price_history_redo` | `UndoTakesEffectToday` | violated: undo of an undo is dated to the edit first undone | 4 days, 3 entries |
| `store_threads` | `TypeOK`, `LockedStrokesAreAtomic`, `StrokesReturn` | strokes that took the lock are atomic and durable; every stroke returns | 3 threads, 3 strokes, 1 crash |
| `store_threads_lost_write` | `NothingSavedIsLost` | violated: a write that sees another thread's batch flag is lost after being answered | 3 threads, 3 strokes |
| `loyverse_sync` | `TypeOK`, `SalesOnce`, `DiffIsFreshInProcess`, `GoodSyncIsComplete`, `SalesArrive`, `MenuConverges` | overlapping, failing, restarted syncs neither double nor lose a sale, and the menu converges | 2 clicks and cron, 3 lines (one before the first sync's window, one malformed) on pages of any size, 1 item, 1 change at Loyverse |
| `loyverse_menu_history` | `MenuHistoryReplays` | violated: two processes diff against the same menu and record a change twice | same workers, 2 versions of the item |
| `vocabulary` | `TypeOK`, `EnforcedReferences`, `OrderlyRequestsKeepBuckets`, `LiveVocabulary`, `DeletesSpareUsedSuppliers` | which references hold through races, imports and undo: all while enforced; a supplier's always but for undo and for a delete past the lock; a bucket's only between orderly requests | 2 overlapping requests, 1 supplier, 2 names, 2 buckets, 2 rows, files of 1 or 2 lines, 4 entries |
| `recipe_graph` | `TypeOK`, `CycleCheckExact`, `RoutineRecipesAcyclic`, `CostingAgrees`, `UnpricedExplained`, `PricesLandOnPurchasables`, `ServingsAreCostable`, `WeighedYieldsSurviveStart` | the cycle check and the resolver are right on every graph, cyclic ones included; requests one at a time close no cycle and price no produced SKU | 4 SKUs, 2 items (which may share a SKU), 7 forms that together close cycles of one, two and three SKUs, 2 workbooks, 2 pending requests, 3 transactions |
| `recipe_graph_measured_yield` | `MeasuredYieldsSurviveStart` | violated: a yield measured as 1 is replaced by an estimate at a start | the same without workbooks |
| `reports` | `ViewsAgree`, `RenderedReportFits`, `StockBookedOnce`, `PurchasesAddUp`, `ShortsFallOnTheirCashier`, `PastReportsStay`, `SkipsCarry` | views of every range agree; a Profit Report torn over edits is off by exactly what the log has of them; repricing leaves the past; deliveries, pours and invoices are booked once; shorts and skips are attributed and carried right | 4 days in 2 months, weeks of 3 days, 3 receipt lines of which 2 arrive, 2 edits and a third of prices or of spend; 5 papers; 4 closes of 2 cashiers, 3 voids or outcomes |

Why the bounds are enough: the undo properties need a row edited by one session,
edited by another and undone, twice over, which three edits and a five-entry
undo give; two touched rows suffice because an entry's undo reads one row, and a
bucket is one of them (`OneIsABucket`) because start-up looks at all of its
table. The price reconstruction compares neighbouring entries, so four entries
over three days produce each pair of kinds in either date order. A stroke
conflicts with the one holding the lock and with the one after it, hence three
threads. In the sync, two workers of one process show what the lock does and the
third what it does not; one change at Loyverse makes two workers hold different
menus.

In `vocabulary` a dangling reference needs one request that looked and one that
deletes in between, or an undo of a creation, hence two workers; two rows give an
import whose lines meet different vocabularies; four entries are create, retire
or delete, and two undos. In `recipe_graph` a race is two decided requests; the
graph properties are over every subset of four SKUs as ingredients, which
includes the cycle beside the walked path that a guard by path must survive.

In `reports` a behaviour moves one part: sales and configuration, or papers, or
the drawer, the voids or the checklists (`Untouched`, `StockApart`,
`ShiftsApart`). Nothing is lost by that: no report reads a purchase, a count, a
close or a task, and no engine of those reads what another of them keeps. Two
months of two days have a month boundary, ranges inside, across and equal to a
month, and a week that does not divide one; two edits suffice to tear a page,
which needs one edit between two reads, and to change what the first made. A
third edit is for chains within one trail: a price saved, undone and redone, or
saved, saved again and changed; a spend row created, corrected or deleted and
put back. It is bounded to what such a chain can show: of prices with at most
one sale, no page open and the process started today, of spend without sales and
on the first day (`Edits`). Four closes by two cashiers hold a run of three with
the other in between. Five papers hold three counts around a delivery on the day
of one of them.

Deadlock is checked in `config_audit`. The other runs stop when a bound (days,
entries, strokes) is used up, and `loyverse_sync` keeps running only while a
worker does, so their configurations switch the check off; that strokes do not
block one another is `StrokesReturn`. `vocabulary`, `recipe_graph` and `reports`
stop likewise when their log, papers or closes are full.

Fairness: `StoreThreads` assumes only that a thread that can run is run (weak
fairness of `Step`, not of beginning a stroke or of failing). `LoyverseSync`
assumes it of the cron job, which starts every night, and strong fairness of each
of its stages, because a stage that fails sends the sync back to its start: the
network does not fail at the same stage every night for ever. "Sync now" clicks
get none. Nothing is assumed of Loyverse, crashes or failures. The newer modules
state no liveness: their steps are requests, which nobody owes the system.

## Findings

Five documented promises do not hold; each has its run, and the first, second,
fourth and fifth were reproduced by calling the code.

1. *"Editing a cost never re-states an old day's margin"* (repository
   `README.md:176`). A save at an unchanged price is taken for a backdate and
   moves the last price change to its own stamp.
2. *"An undo takes effect the day it was performed"*
   (`config_store.py:2780`). An undo of an undo moves the row's stamp forward and
   is dated by it, in the past: today is costed at the price that was undone. The
   coverage page, which costs at the book, can then show an item green that
   today's review leaves uncosted, though "the two surfaces" are to agree
   (`coverage.py:97-101`); `CoverageAgrees` says that they do but for a price row
   that was taken away and put back.
3. *"Standalone calls open and commit their own transaction"*
   (`config_store.py:446`), `_in_batch` *"guarded by `_lock`"* (line 223). The
   flag is read without the lock; a write can land in another thread's batch and
   be rolled back with it after it was reported saved. The same read breaks the
   comment of `delete_supplier` (lines 1606-1609: "a concurrent cash-spend write
   cannot slip in between the route's check and the delete"): past the lock the
   check and the delete are apart, and a supplier in use can go
   (`DeletesSpareUsedSuppliers` says that nothing else but an undo does that).
4. *"A concurrent snapshot cannot slip between them"* (`sqlite_store.py:150`).
   It can, from the other process.
5. The yield backfill *"neither churns data nor clobbers a partner-measured
   yield"* (`config_store.py:2278`). A yield a partner measured as 1 is stored as
   what the backfill takes for the untouched default, and replaced at the next
   start once another recipe uses the SKU. Yields above 1 do survive
   (`WeighedYieldsSurviveStart`).

`LockedStrokesAreAtomic`, `RepricingKeepsThePast`, `UndoKeepsThePast` and
`DiffIsFreshInProcess` say what does hold beside them.

Three more sentences of the documentation are broken by the code; no run is set
up against them, and the properties beside them say what does hold:

* *"Zero or negative yields are rejected"* (`README.md:272`), *"neither is ever a
  real recipe"* (`app.py:2388-2390`). What a partner types is checked, but a recipe
  of counted ingredients alone, left untyped, is saved with yield 0
  (`quantity.py:115`, `app.py:2416`); `margin.py:174` then divides by it. Priced,
  such a recipe makes the reports fail.
* *"The goal agrees with the per-day gross margins by construction"*
  (`daily_review.py:286-289`, `87-91`). The goal leaves the revenue of flagged rows
  out, the daily gross margin has it. It agrees with what the segments contribute
  (`GoalAgrees`).
* *"The item's period numbers agree with the period and day views by construction"*
  (`period_review.py:284-287`). The item page takes the first row of a day only;
  of an item that sold in both shifts it leaves the second out. The page is not
  modelled.

Smaller things met on the way, which the models contain as the code has them and
the properties are worded around:

* Undoing the newest edit of a recipe is not exact if a start has estimated its
  yield since. Lower a measured yield from 3 to 1, restart, so that the backfill
  writes the estimate and its flag, and undo that edit: the yield is 3 again and
  marked as estimated, since undo gives back the columns of its entry alone
  (`config_store.py:2245-2247`, `2482-2487`). `NewestUndoIsExact` says that there
  is no other way for it not to be exact.
* Without enforcement (after the first restart) a bucket can be deleted between
  the look-up and the write of a cash-spend row; a supplier's name taken from a
  form is not looked up at all. While enforced, even undoing the rename of a
  supplier in use is refused.
* The workbook import looks for no cycle; `add_serving_recipes.py` rolls
  everything back when two items share a SKU.
* A file's mapping and price are separate transactions: a restart in between
  leaves half of it applied.
* The Profit Report is not one moment of the store: its rankings may count a
  sale its tiles do not have, and its cash-basis profit is of the spend rows it
  read, whatever was corrected, deleted or put back since.
* The needs-attention list names the first row's segment for all of an item's
  revenue.
* An item whose id is a SKU's is costed without a mapping in the margins, and
  dangling in coverage; an item mapped to a priced purchasable is green in
  coverage and unmapped in the margins.
* Ending a fixed cost again moves its end, to the day the process started.
* A month without a keg weigh-in books the previous interval again; of several
  weigh-ins in a month only the last interval is booked.
* An older invoice approved later overwrites the last-known price; corrected
  lines are stored under the total first extracted; a receipt can be decided
  twice.
* A handoff difference within a tolerance is charged to the next cashier, and
  the rule of three short shifts cannot fire in the daily review, which passes
  one day.

## Proofs

Every safety property that a passing run checks is also a theorem: it holds for
every set of keys, rows, workers, SKUs, sales and cashiers and for every bound.
What the proofs assume is what the modules assume of their constants, and TLC
evaluates it on every run:

| Assumption | Says | Why the code justifies it |
|---|---|---|
| `ValuesAssumption` (`ConfigAudit`) | the sentinels are no rows, values or sessions; seed and bounds are well-typed | `None` is no row, and session ids are drawn by the app |
| `PriceAssumption`, `ThreadAssumption`, `SyncAssumption`, `VocabularyAssumption` | "no row", "no price", "no thread" and the like are apart from what they stand in for; bounds are numbers; the seeded buckets are buckets, each worker has a process; the receipts endpoint lists lines in an order (`Position`) | these are Python's `None`, not values of the columns; the cursor is Loyverse's and is assumed |
| `RecipeGraphAssumption` | the same; finitely many SKUs; forms, files and workbooks as their parsers let them through; typed yields are positive; the seed's recipes close no cycle, a serving is of a counted SKU | the routes' checks; the workbooks and the seed files state yields above zero and recipes with ingredients |
| `ReportsAssumption` | calendar sizes are positive; units, prices and spend amounts whole and not negative; the clock starts and stops within the days modelled; a recipe's SKU is not a purchasable | Loyverse sells whole units; the forms refuse negative amounts |
| `StockAssumption`, `ShiftAssumption` | amounts, quantities and days are whole numbers, there are finitely many SKUs and cashiers, tolerance and limits are not negative | amounts in satang; the constants of `cash_drawer.py` and `anomaly.py` |

### Undo: `ConfigAuditProofs`

`TypeCorrect`, `JournalCorrect`, `SavedJournalCorrect`, `NewestUndoCorrect`,
`SessionUndoRestoresCorrect`, `SessionUndoSparesCorrect`.

`Journal` is not inductive: `RollbackUnwind` puts back a log and rows that
nothing in `Journal` speaks of, and an `UnwindStep` needs its remaining entries
to lie inside the log. `IInv` adds the saved state's own journal
(`SavedJournal`) and that `todo` lies in the log's domain. The steps are grouped
by what they do to the log: every audited write and every undo is one `Recorded`
entry whose before-snapshot is the current row (`RecordedKeepsJournal`), and
start-up replaces a row only by one it is `Linked` to (`LinkedKeepsJournal`).
`RevertTargetExact` is the algebra of undo: reverting from exactly the
after-snapshot gives the before-snapshot, and from what start-up made of it gives
it in every column but those of a yield that the entry had not moved.

What a *session* undo restores is a statement about a whole walk back through
the log. Its invariant `UInv` says that the undo works from the newest entry to
the oldest (`FromTheEnd`), that a row none of whose entries is undone yet is as
the undo found it (`Untouched`), that a column which only the session moved since
the oldest entry undone is back at its value before that entry (`TakenBack`), and
that a column the session never moved is as it was (`Spared`). That a column
nobody moved carries its value through the log is an induction on its length.

### Prices of past days: `PriceHistoryProofs`

`TypeCorrect`, `BookIsLastChange`, `RepricingSparesThePast`, `UndosSpareThePast`,
`BackdatesApplyFromReceipt`.

The history is what a loop over the log builds, so a property of one operation is
one of every log before it. That the loop is defined, and is one `AddEntry` ahead
for a log one entry longer, is by induction on the entries (`NatSetInduction`).
Which change governs a day is the greatest in two orders, the day and the place
in the history; the action properties follow from what a change appended or moved
does to that. `HistoryEndsAtBook` is inductive only with `Dated`: nothing in the
row or in the log is dated after today.

### Lock, batch, transaction: `StoreThreadsProofs`

`TypeCorrect`, `LockExcludes`, `TransactionIsTheHolders`, `LockedAtomic`.

`LockedAtomic` is the refinement of `AtomicStrokes` for the strokes that took the
lock. It is not inductive by itself, since a commit makes durable whatever the
connection sees. `IInv` adds that the lock is held by the one stroke past it
(`LockHeld`), how far a stroke has come at each place (`Route`, `Progress`), that
no two strokes are the same one (`Fresh`), whose uncommitted parts there can be
(`Uncommitted`) and that a locked stroke is whole in the file or absent
(`Whole`). A commit then maps to the stroke being stored, a release to its answer,
and every other step to a stutter (`CommitMaps`, `ReleaseMaps`, `StutterMaps`).

### The nightly sync: `LoyverseSyncProofs`

`TypeCorrect`, `StoredOnce`, `FreshDiffs`, `CompleteSyncs`. The invariant
`WritersHoldLock` (a worker between reading the previous menu and writing the new
one holds its process's lock) is what makes a menu diff fresh within a process,
and why it need not be across processes. That a sync is complete is proved page
by page: `NothingSkipped` says that a line known at the first page is in hand or
still behind the cursor, whatever other workers did between two pages.

### References: `VocabularyProofs`

`TypeCorrect`, `ReferencesHold`, `RoutesKeepBuckets`, `LiveVocabularyHolds`,
`UsedSuppliersSpared`. A request that has decided and not yet written carries a
promise: as long as requests are orderly it is the only one (`Alone`) and what it
looked up is still so (`StillHolds`). `IdsSpent` says that an id the log speaks of
is not given out again, so that an undo brings back the row it means. A supplier
in use is spared by a delete that checks and writes in one step under the lock;
the two steps past the lock promise nothing, and the theorem says so.

### The recipe graph: `RecipeGraphProofs`

`TypeCorrect`, `CycleChecksAreExact`, `CostsAgree`, `GapsAreExplained`,
`RoutineClosesNoCycle`, `PricesMissRecipes`, `ServingsCost`, `WeighedYieldsStay`.

The walks `FindsCycle`, `Priceable` and `UnpricedLeaves` recurse over the set of
SKUs visited, which only grows. `SupersetInduction` gives them their equations
(`SupersetRecursion`: a definition that looks only at larger sets defines a
function) and what they compute: that the check by visited SKUs finds a cycle
exactly if there is one, and that a costed SKU has a well-founded tree below it,
are proved for every graph, cyclic ones included. The state properties follow
with `Typing`, and those about requests one at a time with `Routine` and
`StillHolds`, the same promise as in `VocabularyProofs`.

### Reports, stock and drawer: `ReportsProofs`

* `ReportsInvariance`, `ViewsAgreeCorrect`, `RenderedReportFitsCorrect`,
  `PastReportsStayCorrect`. A Profit Report is read in pieces while the store
  changes. `ReportsIInv` says what its pieces have in common: the sales it has
  read are still there, what the log gained since turns the spend rows it has
  read into those of now (`SpendMoves`: one entry moves a month's spend by its
  row), the rankings are those of some set of sales between what was read first
  and what there is now, and each day costed has the revenue of the sales read.
  A past day keeps its margins because another price appends to the history a
  change of a later day (`AppendLater`): the log ends at the book
  (`PricesTyping`), and no entry is dated ahead. That all views add up to the
  same money is then a matter of partitions: rows of a day split its sales by
  item and shift (`DayEarns`), flagged and counted rows split the rows, weeks
  and months split the days (`StridesTile`: buckets of equal length, the last
  one perhaps cut, are apart and leave no day out). A fixed cost is rounded half
  to even once for each month of a range; a cut changes the rounding of the one
  month it falls in, and there by a satang at most (`MonthCut`, from
  `RoundingIsClose`).
* `ShiftInvariance`, `SkipsCarryCorrect`, `ShortsFallOnTheirCashierCorrect`.
  `ShiftIInv`: the closes are chained, each opening with what the one before
  closed at, and the till differs from the chain by no more than one handoff let
  through. The sum of the variances and the runs of short shifts follow by
  induction over the closes.
* `StockInvariance`, `PurchasesAddUpCorrect`, `StockBookedOnceCorrect`.
  `StockIInv`: each price in the book is of the last purchase of its SKU and
  supplier, and what is on the desk adds up or has lines a partner entered. That
  deliveries and pours are booked once is the sum over windows that meet in the
  count between them, for the kegs by induction over the months.

### How induction is done

A theorem cannot take an operator as a parameter here, so `SetInduction` states
induction for *sets* (a property is the set of what has it) and recursion for
*functions* (a recursive definition is a fixed point of the function its steps
apply). From `LeastNumber` it derives induction over the numbers, over the
subsets and the supersets of a finite set, that such recursions define
functions, and what the recursion behind `SumFunctionOnSet` computes: sums of one
more member, over disjoint sets, by fibres, of sums, and their order. The proofs
about logs, recipe walks and totals of any size are by these lemmas.

### What stays with TLC

* Liveness: `StrokesReturn`, `SalesArrive`, `MenuConverges`. Fairness and
  `ENABLED` are out of the prover's reach.
* The five documented promises that do not hold (next to them the theorems say
  what does).
* Absence of deadlock in `config_audit`.

## Plan

The models of the first plan (`Vocabulary`, `RecipeGraph`, `Reports`,
`Stocktaking`, `ShiftControl`) and the proofs of all their safety properties are
done. What is left, in this order:

1. `AuditReaders`: review marks and the export badge against concurrent edits.
2. `Sessions`: cookie refresh against logout, the limiter's windows.
3. `Migrations`: a crash inside a script, two processes starting.
4. Abstract specifications beside `AtomicStrokes`: for `Vocabulary`, a store in
   which check and write are one step; for `LoyverseSync`, a source and its
   mirror. Their safety half could be proved as the one of `AtomicStrokes` is.

## Not modelled

Rendering, form and file syntax, number formats, wording and navigation; decimal
digits beyond whole satang; units and their conversion. Of the reports: the item
page (see *Findings*), the top and bottom rankings, targets and below-target
flags, percentages and sparklines, which are selections and ratios of the totals
that are modelled. Of the kegs: the rung-up pours and the loss against them
(their caller chooses the period). Of the checklists: which weekday calls for
which task. Of the sync: pages without a body. Audit readers, sessions, the
limiter and migrations: see the plan. One-off scripts except
`backdate_corrections.py`, `add_serving_recipes.py` and
`import_derived_recipes.py`; nginx, TLS, snapshots. The hazards no property
covers yet are in `PROJECT.json` with the reason.
