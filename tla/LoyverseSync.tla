---------------------------- MODULE LoyverseSync ----------------------------
(***************************************************************************)
(* Pulling sales and the menu from Loyverse (loyverse/sync.py) into the    *)
(* store (storage/sqlite_store.py).                                        *)
(*                                                                         *)
(* Two processes do it: the web app, on whose threads any number of "Sync  *)
(* now" clicks may overlap, and the nightly cron job.  A process has one   *)
(* connection and one lock; SQLite serialises the transactions of both.    *)
(* Loyverse goes on changing while a pull pages through it, and every step *)
(* can fail or be the last one of its process.                             *)
(*                                                                         *)
(* A line is one receipt line.  An item's version is its name and price;   *)
(* menu_changes is kept per item, and a renaming and a new price found by  *)
(* one sync are one change.                                                *)
(***************************************************************************)
EXTENDS Integers, Sequences, SequencesExt

CONSTANTS
  Line,        \* receipt lines, by (receipt_number, line_id), refunds left out
  Old,         \* the lines older than the first sync's window
  Malformed,   \* the lines whose quantity the parser refuses
  Item,        \* menu items
  Version,     \* an item's name and price
  Absent,      \* the item is not on the menu
  Process,     \* the web app, the cron job
  Cron,        \* the process of the nightly sync
  Worker,      \* web threads and the cron job's one
  ProcessOf,   \* whose lock a worker takes
  NoWorker,    \* the lock is free
  NoProcess,   \* nobody has recorded a snapshot yet
  Position,    \* where the receipts endpoint lists a line
  MaxEdits     \* bound: lines rung up and items edited at Loyverse

Menu == [Item -> Version \cup {Absent}]
NoMenu == [i \in Item |-> Absent]

ASSUME SyncAssumption ==
  /\ Old \subseteq Line /\ Malformed \subseteq Line
  /\ Absent \notin Version
  /\ ProcessOf \in [Worker -> Process]
  /\ Cron \in Process
  /\ NoWorker \notin Worker /\ NoProcess \notin Process
  /\ Position \in [Line -> Nat]
  /\ MaxEdits \in Nat

VARIABLES
  lines,       \* the lines Loyverse has
  onSale,      \* the menu at Loyverse
  edits,       \* how often Loyverse has changed
  sales,       \* line -> its rows in the sales table
  menu,        \* the latest snapshot
  history,     \* item -> its menu_changes, oldest first
  recordedBy,  \* the process that recorded the latest snapshot
  lock,        \* process -> the worker holding its lock
  work         \* worker -> where it is in its sync, and what it has in hand

loyverse == <<lines, onSale, edits>>
store == <<sales, menu, history, recordedBy>>
vars == <<lines, onSale, edits, sales, menu, history, recordedBy, lock, work>>

Place == {"receipts", "items", "previous", "write"}

\* got:   the receipts of the pages read so far (all_receipts)
\* left:  the lines the cursor of the last page still stands for
\* known: the lines Loyverse had when the first page was asked for
Syncing == [at : Place, first : BOOLEAN, got : SUBSET Line, left : SUBSET Line,
            known : SUBSET Line, incoming : Menu, previous : Menu]

Idle == [at |-> "idle"]

Change == [from : Version \cup {Absent}, to : Version \cup {Absent}]

TypeOK ==
  /\ lines \subseteq Line /\ onSale \in Menu /\ edits \in 0..MaxEdits
  /\ sales \in [Line -> Nat] /\ menu \in Menu
  /\ history \in [Item -> Seq(Change)]
  /\ recordedBy \in Process \cup {NoProcess}
  /\ work \in [Worker -> Syncing \cup {Idle}]
  /\ lock \in [Process -> Worker \cup {NoWorker}]
  /\ \A p \in Process : lock[p] # NoWorker =>
       ProcessOf[lock[p]] = p /\ work[lock[p]].at = "write"

-----------------------------------------------------------------------------
(***************************************************************************)
(* Loyverse.                                                               *)
(***************************************************************************)

RingUp(l) ==
  /\ edits < MaxEdits
  /\ l \notin lines \cup Old
  /\ lines' = lines \cup {l}
  /\ edits' = edits + 1
  /\ UNCHANGED <<onSale, store, lock, work>>

EditItem(i, v) ==
  /\ edits < MaxEdits
  /\ onSale[i] # v
  /\ onSale' = [onSale EXCEPT ![i] = v]
  /\ edits' = edits + 1
  /\ UNCHANGED <<lines, store, lock, work>>

-----------------------------------------------------------------------------
(***************************************************************************)
(* One sync.                                                               *)
(***************************************************************************)

At(w, place) == work[w].at = place

Free(w) == lock[ProcessOf[w]] = NoWorker

NoSales == \A l \in Line : sales[l] = 0

\* Fault: the window stays on after the first sync.
InWindowAlways(first, L) == L \ Old

\* created_at_min, on the sync that finds the sales table empty.
InWindow(first, L) == IF first THEN L \ Old ELSE L

\* run_sync looks at the store, and the first page is asked for.
Start(w) ==
  /\ work[w] = Idle
  /\ Free(w)
  /\ work' = [work EXCEPT ![w] =
       [at |-> "receipts", first |-> NoSales, got |-> {},
        left |-> InWindow(NoSales, lines), known |-> InWindow(NoSales, lines),
        incoming |-> NoMenu, previous |-> NoMenu]]
  /\ UNCHANGED <<loyverse, store, lock>>

\* Fault: each page takes the place of the ones before it.
ExtendedAfresh(got, page) == page

\* all_receipts.extend(page)
Extended(got, page) == got \cup page

\* Lines rung up since the first page was asked for: a later page may hold them.
Arrivals(w) == InWindow(work[w].first, lines) \ work[w].known

\* A page with a cursor to more: the next stretch of what the cursor of the
\* page before stood for.
FetchPage(w) ==
  /\ At(w, "receipts")
  /\ \E P \in SUBSET work[w].left, N \in SUBSET Arrivals(w) :
       /\ P # {} /\ P # work[w].left
       /\ \A a \in P, b \in work[w].left \ P : Position[a] < Position[b]
       /\ work' = [work EXCEPT ![w].got = Extended(@, P \cup N), ![w].left = @ \ P]
  /\ UNCHANGED <<loyverse, store, lock>>

\* What the pages add up to with the last one, which has no cursor.
Pulls(w) == {Extended(work[w].got, work[w].left \cup N) : N \in SUBSET Arrivals(w)}

\* parse_receipts_to_sales raises on one bad line, before anything is stored.
Refused(P) == P \cap Malformed # {}

RefusePull(w) ==
  /\ At(w, "receipts")
  /\ \E P \in Pulls(w) : Refused(P)
  /\ work' = [work EXCEPT ![w] = Idle]
  /\ UNCHANGED <<loyverse, store, lock>>

\* Fault: a plain INSERT into a table without the key.
InsertedTwice(count) == count + 1

\* INSERT OR IGNORE
Inserted(count) == IF count = 0 THEN 1 ELSE count

\* The last page, and all of them recorded in one transaction.  How long ago it
\* was read does not show: another sync's inserts make no difference to these.
RecordSales(w) ==
  /\ At(w, "receipts")
  /\ Free(w)
  /\ \E P \in Pulls(w) :
       /\ ~Refused(P)
       /\ sales' = [l \in Line |-> IF l \in P THEN Inserted(sales[l]) ELSE sales[l]]
  /\ work' = [work EXCEPT ![w].at = "items", ![w].first = FALSE, ![w].got = {},
                          ![w].left = {}, ![w].known = {}, ![w].incoming = onSale]
  /\ UNCHANGED <<loyverse, menu, history, recordedBy, lock>>

\* Fault: the pages are read under another key than the answer's "items".
MenuPagesMiskeyed(w) == {NoMenu}

\* An item is read as it was when the first page was asked for, or as it is now.
MenuPages(w) == {m \in Menu : \A i \in Item : m[i] \in {work[w].incoming[i], onSale[i]}}

FetchItems(w) ==
  /\ At(w, "items")
  /\ \E m \in MenuPages(w) :
       work' = [work EXCEPT ![w].at = "previous", ![w].incoming = m]
  /\ UNCHANGED <<loyverse, store, lock>>

\* Fault: the previous menu is read before the lock is taken.
ReadPreviousUnlocked(w) ==
  /\ At(w, "previous")
  /\ work' = [work EXCEPT ![w].at = "write", ![w].previous = menu]
  /\ UNCHANGED <<loyverse, store, lock>>

\* A SELECT opens no transaction: only the process's own lock is held.
ReadPrevious(w) ==
  /\ At(w, "previous")
  /\ Free(w)
  /\ lock' = [lock EXCEPT ![ProcessOf[w]] = w]
  /\ work' = [work EXCEPT ![w].at = "write", ![w].previous = menu]
  /\ UNCHANGED <<loyverse, store>>

\* diff_menu: an item added, changed or discontinued between two menus.
Recorded(h, from, to) == IF from = to THEN h ELSE Append(h, [from |-> from, to |-> to])

\* Fault: a plain acquire(), with no release when the block raises.
UnlockedNever(w) == lock

Unlocked(w) ==
  IF lock[ProcessOf[w]] = w THEN [lock EXCEPT ![ProcessOf[w]] = NoWorker] ELSE lock

WriteSnapshot(w) ==
  /\ At(w, "write")
  /\ history' = [i \in Item |->
       Recorded(history[i], work[w].previous[i], work[w].incoming[i])]
  /\ menu' = work[w].incoming
  /\ recordedBy' = ProcessOf[w]
  /\ lock' = Unlocked(w)
  /\ work' = [work EXCEPT ![w] = Idle]
  /\ UNCHANGED <<loyverse, sales>>

\* A transport error, an error status, a truncated body, a statement that
\* fails: whatever the sync has committed by then stays.
Fail(w) ==
  /\ work[w] # Idle
  /\ lock' = Unlocked(w)
  /\ work' = [work EXCEPT ![w] = Idle]
  /\ UNCHANGED <<loyverse, store>>

\* The process dies and is started again.
Crash(p) ==
  /\ work' = [w \in Worker |-> IF ProcessOf[w] = p THEN Idle ELSE work[w]]
  /\ lock' = [lock EXCEPT ![p] = NoWorker]
  /\ UNCHANGED <<loyverse, store>>

-----------------------------------------------------------------------------
Init ==
  /\ \E L \in SUBSET (Line \ Old) : lines = Old \cup L
  /\ onSale \in Menu
  /\ edits = 0
  /\ sales = [l \in Line |-> 0]
  /\ menu = NoMenu
  /\ history = [i \in Item |-> <<>>]
  /\ recordedBy = NoProcess
  /\ lock = [p \in Process |-> NoWorker]
  /\ work = [w \in Worker |-> Idle]

Step(w) ==
  \/ Start(w) \/ FetchPage(w) \/ RefusePull(w) \/ RecordSales(w)
  \/ FetchItems(w) \/ ReadPrevious(w) \/ WriteSnapshot(w)

Next ==
  \/ \E l \in Line : RingUp(l)
  \/ \E i \in Item, v \in Version \cup {Absent} : EditItem(i, v)
  \/ \E w \in Worker : Step(w) \/ Fail(w)
  \/ \E p \in Process : Crash(p)

\* The cron job runs every night, and no stage of it fails every night: strong
\* fairness, since a failed night starts over from Start.  Nobody has to click
\* "Sync now", and a click may hang.
Fairness ==
  \A w \in Worker : ProcessOf[w] = Cron =>
    /\ WF_vars(Start(w))
    /\ SF_vars(RecordSales(w)) /\ SF_vars(FetchItems(w))
    /\ SF_vars(ReadPrevious(w)) /\ SF_vars(WriteSnapshot(w))

Spec == Init /\ [][Next]_vars /\ Fairness

-----------------------------------------------------------------------------
(***************************************************************************)
(* Properties.                                                             *)
(***************************************************************************)

Stored(l) == sales[l] > 0

\* Replayed, overlapping, failed and restarted syncs of two processes never
\* store a receipt line twice (a manual click after the cron run, say).
SalesOnce == \A l \in Line : sales[l] <= 1

\* A sync that gets past its receipts has stored every sale that Loyverse had
\* when the first page was asked for, but for those before a first sync's
\* window, however many pages they came on, whatever was rung up between two
\* pages and whichever other syncs stored receipts meanwhile.
GoodSyncIsComplete ==
  [][\A w \in Worker : RecordSales(w) =>
       \A l \in work[w].known : sales'[l] > 0]_vars

\* record_menu_snapshot: the menu a worker is about to diff against is still
\* the latest snapshot, unless another process recorded one since.
DiffIsFreshInProcess ==
  \A w \in Worker : At(w, "write") =>
    work[w].previous = menu \/ recordedBy # ProcessOf[w]

Blocked == lines \cap Malformed # {}

\* Every sale gets in, through failed nights and restarts, unless Loyverse has
\* a line the parser refuses; one from before the first sync's window gets in
\* once any sale has.
SalesArrive ==
  \A l \in Line :
    l \in lines /\ (l \in Old => ~NoSales) ~> Stored(l) \/ Blocked

\* Once Loyverse stops changing the stored menu comes to be Loyverse's, for
\* good, even if overlapping syncs wrote an older menu over a newer one.
MenuConverges == <>[](menu = onSale \/ Blocked)

Replays(h, end) ==
  /\ \A n \in 1..(Len(h) - 1) : h[n].to = h[n + 1].from
  /\ h = <<>> => end = Absent
  /\ h # <<>> => h[1].from = Absent /\ Last(h).to = end

\* record_menu_snapshot: a concurrent snapshot cannot "produce a stale diff
\* (and a duplicated/missed change record)", so each item's changes lead from
\* no menu to the current one.
MenuHistoryReplays == \A i \in Item : Replays(history[i], menu[i])
=============================================================================
