------------------------- MODULE LoyverseSyncProofs -------------------------
(***************************************************************************)
(* Proofs about LoyverseSync, for any lines, menus, processes, workers and *)
(* bounds: replayed, overlapping, failed and restarted syncs store no line *)
(* twice, a sync that gets past its receipts has stored every sale it had  *)
(* to, and a diff is against the latest snapshot of its own process.       *)
(*                                                                         *)
(* The last is inductive once the invariant says that a worker about to    *)
(* write holds its process's lock (WritersHoldLock): no other worker of    *)
(* the process can then record a snapshot under it.  That a sync is        *)
(* complete rests on what holds between two pages (NothingSkipped): a line *)
(* known at the first page is in hand or still behind the cursor.          *)
(***************************************************************************)
EXTENDS LoyverseSync, TLAPS

\* A worker between reading the previous menu and writing the new one holds its
\* process's lock.
WritersHoldLock == \A w \in Worker : At(w, "write") => lock[ProcessOf[w]] = w

\* The inductive invariant.
IInv ==
  /\ TypeOK
  /\ WritersHoldLock
  /\ SalesOnce
  /\ DiffIsFreshInProcess

-----------------------------------------------------------------------------
\* Idle and being at a place exclude each other.
LEMMA SyncingOrIdle ==
  ASSUME TypeOK, NEW w \in Worker
  PROVE  /\ work[w] # Idle => work[w] \in Syncing
         /\ work[w].at \in Place => work[w] \in Syncing
         /\ work[w] = Idle => work[w].at \notin Place
BY DEF TypeOK, Idle, Syncing, Place

\* The menu before the first snapshot is a menu.
LEMMA NoMenuIsMenu == NoMenu \in Menu
BY DEF NoMenu, Menu

\* A step of a worker outside its snapshot, to another place outside it, keeps
\* the invariant if it stores no line twice.
LEMMA PlacedKeeps ==
  ASSUME IInv, NEW w \in Worker, NEW s \in Syncing \cup {Idle},
         work' = [work EXCEPT ![w] = s], s.at # "write", ~At(w, "write"),
         UNCHANGED <<onSale, menu, history, recordedBy, lock>>,
         lines' \subseteq Line, edits' \in 0..MaxEdits,
         sales' \in [Line -> Nat], \A l \in Line : sales'[l] <= 1
  PROVE  IInv'
<1>1. work' \in [Worker -> Syncing \cup {Idle}]
  BY DEF IInv, TypeOK
<1>2. \A v \in Worker : At(v, "write")' => v # w /\ At(v, "write") /\ work'[v] = work[v]
  BY DEF IInv, TypeOK, At
<1>3. ASSUME NEW p \in Process, lock'[p] # NoWorker
      PROVE  ProcessOf[lock'[p]] = p /\ work'[lock'[p]].at = "write"
  <2>1. lock[p] \in Worker /\ ProcessOf[lock[p]] = p /\ work[lock[p]].at = "write"
    BY <1>3 DEF IInv, TypeOK
  <2>2. lock[p] # w
    BY <2>1 DEF At
  <2>3. QED
    BY <2>1, <2>2 DEF IInv, TypeOK
<1>4. TypeOK'
  BY <1>1, <1>3 DEF IInv, TypeOK
<1>5. WritersHoldLock' /\ DiffIsFreshInProcess'
  BY <1>2 DEF IInv, WritersHoldLock, DiffIsFreshInProcess
<1>6. QED
  BY <1>4, <1>5 DEF IInv, SalesOnce

\* Loyverse may change in any way.
LEMMA LoyverseInv ==
  ASSUME IInv, UNCHANGED <<store, lock, work>>,
         lines' \subseteq Line, onSale' \in Menu, edits' \in 0..MaxEdits
  PROVE  IInv'
<1>1. TypeOK'
  BY DEF IInv, TypeOK, store
<1>2. WritersHoldLock' /\ SalesOnce' /\ DiffIsFreshInProcess'
  BY DEF IInv, WritersHoldLock, SalesOnce, DiffIsFreshInProcess, At, store
<1>3. QED
  BY <1>1, <1>2 DEF IInv

\* Between two pages no line that Loyverse had at the first one is lost: it is
\* among the receipts in hand or still behind the cursor.
NothingSkipped ==
  \A w \in Worker : At(w, "receipts") =>
    work[w].known \subseteq work[w].got \cup work[w].left

\* Starting, reading a page, giving up on a bad line and reading the menu store
\* nothing.
LEMMA PullInv ==
  ASSUME IInv, NEW w \in Worker,
         Start(w) \/ FetchPage(w) \/ RefusePull(w) \/ FetchItems(w)
  PROVE  IInv'
<1>1. UNCHANGED <<lines, onSale, edits, sales, menu, history, recordedBy, lock>>
  BY DEF Start, FetchPage, RefusePull, FetchItems, loyverse, store
<1>2. ~At(w, "write")
  BY SyncingOrIdle DEF IInv, At, Place, Start, FetchPage, RefusePull, FetchItems
<1>3. \E s \in Syncing \cup {Idle} : work' = [work EXCEPT ![w] = s] /\ s.at # "write"
  <2>1. CASE Start(w)
    <3>1. InWindow(NoSales, lines) \subseteq Line
      BY DEF InWindow, IInv, TypeOK
    <3>2. NoSales \in BOOLEAN
      BY DEF NoSales
    <3> DEFINE s == [at |-> "receipts", first |-> NoSales, got |-> {},
                     left |-> InWindow(NoSales, lines),
                     known |-> InWindow(NoSales, lines),
                     incoming |-> NoMenu, previous |-> NoMenu]
    <3>3. s \in Syncing /\ s.at # "write"
      BY <3>1, <3>2, NoMenuIsMenu DEF Syncing, Place
    <3>4. work' = [work EXCEPT ![w] = s]
      BY <2>1 DEF Start
    <3>5. QED
      BY <3>3, <3>4
  <2>2. CASE RefusePull(w)
    <3>1. work' = [work EXCEPT ![w] = Idle]
      BY <2>2 DEF RefusePull
    <3>2. Idle.at # "write"
      BY DEF Idle
    <3>3. QED
      BY <3>1, <3>2
  <2>3. CASE FetchItems(w)
    <3>1. work[w] \in Syncing
      BY <2>3, SyncingOrIdle DEF FetchItems, At, Place, IInv
    <3>2. PICK m \in MenuPages(w) :
            work' = [work EXCEPT ![w].at = "previous", ![w].incoming = m]
      BY <2>3 DEF FetchItems
    <3>3. m \in Menu
      BY DEF MenuPages
    <3>4. work' \in [Worker -> Syncing \cup {Idle}] /\ work'[w].at = "previous" /\ work'[w] \in Syncing
      BY <3>1, <3>2, <3>3 DEF IInv, TypeOK, Syncing, Place
    <3>5. \A v \in Worker \ {w} : work'[v] = work[v]
      BY <3>2 DEF IInv, TypeOK
    <3>6. work' = [work EXCEPT ![w] = work'[w]]
      BY <3>4, <3>5 DEF IInv, TypeOK
    <3>7. QED
      BY <3>4, <3>6
  <2>4. CASE FetchPage(w)
    <3>1. work[w] \in Syncing
      BY <2>4, SyncingOrIdle DEF FetchPage, At, Place, IInv
    <3>2. PICK P \in SUBSET work[w].left, N \in SUBSET Arrivals(w) :
            work' = [work EXCEPT ![w].got = Extended(@, P \cup N), ![w].left = @ \ P]
      BY <2>4 DEF FetchPage
    <3>3. Extended(work[w].got, P \cup N) \subseteq Line
      BY <3>1 DEF Extended, Arrivals, InWindow, Syncing, IInv, TypeOK
    <3>4. /\ work'[w] \in Syncing /\ work'[w].at = work[w].at
          /\ work[w].at = "receipts"
      BY <2>4, <3>1, <3>2, <3>3 DEF IInv, TypeOK, Syncing, FetchPage, At
    <3>5. \A v \in Worker \ {w} : work'[v] = work[v]
      BY <3>2 DEF IInv, TypeOK
    <3>6. work' = [work EXCEPT ![w] = work'[w]]
      BY <3>2, <3>4, <3>5 DEF IInv, TypeOK
    <3>7. QED
      BY <3>4, <3>6
  <2>5. QED
    BY <2>1, <2>2, <2>3, <2>4
<1>4. QED
  BY <1>1, <1>2, <1>3, PlacedKeeps DEF IInv, TypeOK, SalesOnce

\* INSERT OR IGNORE.
LEMMA RecordSalesInv ==
  ASSUME IInv, NEW w \in Worker, RecordSales(w)
  PROVE  IInv'
<1>1. /\ work' = [work EXCEPT ![w].at = "items", ![w].first = FALSE, ![w].got = {},
                              ![w].left = {}, ![w].known = {}, ![w].incoming = onSale]
      /\ UNCHANGED <<lines, onSale, edits, menu, history, recordedBy, lock>>
  BY DEF RecordSales, loyverse
<1>2. work[w] \in Syncing /\ ~At(w, "write")
  BY SyncingOrIdle DEF RecordSales, At, Place, IInv
<1>3. work'[w] \in Syncing /\ work'[w].at = "items"
  BY <1>1, <1>2 DEF IInv, TypeOK, Syncing, Place
<1>4. \A v \in Worker \ {w} : work'[v] = work[v]
  BY <1>1 DEF IInv, TypeOK
<1>5. work' = [work EXCEPT ![w] = work'[w]]
  BY <1>1, <1>3, <1>4 DEF IInv, TypeOK
<1>6. sales' \in [Line -> Nat] /\ \A l \in Line : sales'[l] <= 1
  BY DEF RecordSales, Inserted, IInv, TypeOK, SalesOnce
<1>7. QED
  BY <1>1, <1>2, <1>3, <1>5, <1>6, PlacedKeeps DEF IInv, TypeOK

\* The previous menu is read under the lock just taken.
LEMMA ReadPreviousInv ==
  ASSUME IInv, NEW w \in Worker, ReadPrevious(w)
  PROVE  IInv'
<1>1. /\ lock[ProcessOf[w]] = NoWorker /\ lock' = [lock EXCEPT ![ProcessOf[w]] = w]
      /\ work' = [work EXCEPT ![w].at = "write", ![w].previous = menu]
      /\ UNCHANGED <<lines, onSale, edits, sales, menu, history, recordedBy>>
  BY DEF ReadPrevious, Free, loyverse, store
<1>2. work[w] \in Syncing /\ ProcessOf[w] \in Process
  BY SyncingOrIdle, SyncAssumption DEF ReadPrevious, At, Place, IInv
<1>3. work'[w] \in Syncing /\ work'[w].at = "write" /\ work'[w].previous = menu
  BY <1>1, <1>2 DEF IInv, TypeOK, Syncing, Place
<1>4. \A v \in Worker \ {w} : work'[v] = work[v]
  BY <1>1 DEF IInv, TypeOK
<1>5. work' \in [Worker -> Syncing \cup {Idle}]
  BY <1>1, <1>3, <1>4 DEF IInv, TypeOK
<1>6. /\ lock' \in [Process -> Worker \cup {NoWorker}]
      /\ \A p \in Process : lock'[p] # NoWorker =>
           ProcessOf[lock'[p]] = p /\ work'[lock'[p]].at = "write"
  BY <1>1, <1>2, <1>3, <1>4 DEF IInv, TypeOK
<1>7. TypeOK'
  BY <1>1, <1>5, <1>6 DEF IInv, TypeOK
<1>8. ASSUME NEW v \in Worker, At(v, "write")'
      PROVE  lock'[ProcessOf[v]] = v /\ (work'[v].previous = menu \/ recordedBy # ProcessOf[v])
  <2>1. CASE v = w
    BY <1>1, <1>2, <1>3, <2>1 DEF IInv, TypeOK
  <2>2. CASE v # w
    <3>1. At(v, "write") /\ lock[ProcessOf[v]] = v /\ work'[v] = work[v]
      BY <1>4, <1>8, <2>2 DEF At, IInv, WritersHoldLock
    <3>2. v # NoWorker
      BY SyncAssumption
    <3>3. ProcessOf[v] # ProcessOf[w]
      BY <1>1, <3>1, <3>2
    <3>4. QED
      BY <1>1, <3>1, <3>3, SyncAssumption DEF IInv, DiffIsFreshInProcess, TypeOK
  <2>3. QED
    BY <2>1, <2>2
<1>9. QED
  BY <1>1, <1>7, <1>8 DEF IInv, WritersHoldLock, DiffIsFreshInProcess, SalesOnce

\* A worker that is done gives up its own lock and no other.
LEMMA LeaveFacts ==
  ASSUME IInv, NEW w \in Worker, lock' = Unlocked(w),
         work' = [work EXCEPT ![w] = Idle]
  PROVE  /\ work' \in [Worker -> Syncing \cup {Idle}]
         /\ lock' \in [Process -> Worker \cup {NoWorker}]
         /\ \A p \in Process : lock'[p] # NoWorker =>
              ProcessOf[lock'[p]] = p /\ work'[lock'[p]].at = "write"
         /\ \A v \in Worker : At(v, "write")' =>
              /\ v # w /\ At(v, "write") /\ work'[v] = work[v]
              /\ lock'[ProcessOf[v]] = v
<1>1. work' \in [Worker -> Syncing \cup {Idle}] /\ ProcessOf[w] \in Process
  BY SyncAssumption DEF IInv, TypeOK
<1>2. lock' \in [Process -> Worker \cup {NoWorker}]
  BY SyncAssumption DEF Unlocked, IInv, TypeOK
<1>3. ASSUME NEW p \in Process, lock'[p] # NoWorker
      PROVE  ProcessOf[lock'[p]] = p /\ work'[lock'[p]].at = "write"
  <2>1. lock'[p] = lock[p] /\ lock[p] \in Worker /\ ProcessOf[lock[p]] = p
        /\ work[lock[p]].at = "write"
    BY <1>1, <1>3 DEF Unlocked, IInv, TypeOK
  <2>2. lock[p] # w
    BY <1>1, <1>3, <2>1, SyncAssumption DEF Unlocked, IInv, TypeOK
  <2>3. QED
    BY <2>1, <2>2 DEF IInv, TypeOK
<1>4. ASSUME NEW v \in Worker, At(v, "write")'
      PROVE  /\ v # w /\ At(v, "write") /\ work'[v] = work[v]
             /\ lock'[ProcessOf[v]] = v
  <2>1. v # w /\ At(v, "write") /\ work'[v] = work[v]
    BY <1>4 DEF At, Idle, IInv, TypeOK
  <2>2. lock[ProcessOf[v]] = v /\ ProcessOf[v] \in Process
    BY <2>1, SyncAssumption DEF IInv, WritersHoldLock
  <2>3. lock'[ProcessOf[v]] = v
    BY <1>1, <2>1, <2>2 DEF Unlocked, IInv, TypeOK
  <2>4. QED
    BY <2>1, <2>3
<1>5. QED
  BY <1>1, <1>2, <1>3, <1>4

\* A snapshot makes the diffs of other processes stale, not of its own.
LEMMA WriteSnapshotInv ==
  ASSUME IInv, NEW w \in Worker, WriteSnapshot(w)
  PROVE  IInv'
<1>1. /\ lock' = Unlocked(w) /\ work' = [work EXCEPT ![w] = Idle]
      /\ menu' = work[w].incoming /\ recordedBy' = ProcessOf[w]
      /\ history' = [i \in Item |->
           Recorded(history[i], work[w].previous[i], work[w].incoming[i])]
      /\ UNCHANGED <<lines, onSale, edits, sales>>
  BY DEF WriteSnapshot, loyverse
<1>2. work[w] \in Syncing /\ At(w, "write") /\ lock[ProcessOf[w]] = w
      /\ ProcessOf[w] \in Process
  BY SyncingOrIdle, SyncAssumption
  DEF WriteSnapshot, At, Place, IInv, WritersHoldLock
<1>3. work[w].incoming \in Menu /\ work[w].previous \in Menu
  BY <1>2 DEF Syncing
<1>4. history' \in [Item -> Seq(Change)]
  <2>1. ASSUME NEW i \in Item
        PROVE  Recorded(history[i], work[w].previous[i], work[w].incoming[i]) \in Seq(Change)
    <3>1. [from |-> work[w].previous[i], to |-> work[w].incoming[i]] \in Change
      BY <1>3 DEF Menu, Change
    <3>2. history[i] \in Seq(Change)
      BY DEF IInv, TypeOK
    <3>3. QED
      BY <3>1, <3>2 DEF Recorded
  <2>2. QED
    BY <1>1, <2>1
<1>5. TypeOK'
  BY <1>1, <1>2, <1>3, <1>4, LeaveFacts DEF IInv, TypeOK
<1>6. ASSUME NEW v \in Worker, At(v, "write")'
      PROVE  lock'[ProcessOf[v]] = v /\ recordedBy' # ProcessOf[v]
  <2>1. v # w /\ At(v, "write") /\ lock'[ProcessOf[v]] = v
    BY <1>1, <1>6, LeaveFacts
  <2>2. lock[ProcessOf[v]] = v
    BY <2>1 DEF IInv, WritersHoldLock
  <2>3. QED
    BY <1>1, <1>2, <2>1, <2>2
<1>7. QED
  BY <1>1, <1>5, <1>6 DEF IInv, WritersHoldLock, DiffIsFreshInProcess, SalesOnce

\* A sync that fails.
LEMMA FailInv ==
  ASSUME IInv, NEW w \in Worker, Fail(w)
  PROVE  IInv'
<1>1. /\ lock' = Unlocked(w) /\ work' = [work EXCEPT ![w] = Idle]
      /\ UNCHANGED <<lines, onSale, edits, sales, menu, history, recordedBy>>
  BY DEF Fail, loyverse, store
<1>2. TypeOK'
  BY <1>1, LeaveFacts DEF IInv, TypeOK
<1>3. WritersHoldLock' /\ DiffIsFreshInProcess'
  BY <1>1, LeaveFacts DEF IInv, WritersHoldLock, DiffIsFreshInProcess
<1>4. QED
  BY <1>1, <1>2, <1>3 DEF IInv, SalesOnce

\* A process that dies takes its workers and its lock along.
LEMMA CrashInv ==
  ASSUME IInv, NEW p \in Process, Crash(p)
  PROVE  IInv'
<1>1. /\ work' = [w \in Worker |-> IF ProcessOf[w] = p THEN Idle ELSE work[w]]
      /\ lock' = [lock EXCEPT ![p] = NoWorker]
      /\ UNCHANGED <<lines, onSale, edits, sales, menu, history, recordedBy>>
  BY DEF Crash, loyverse, store
<1>2. work' \in [Worker -> Syncing \cup {Idle}] /\ lock' \in [Process -> Worker \cup {NoWorker}]
  BY <1>1 DEF IInv, TypeOK
<1>3. ASSUME NEW q \in Process, lock'[q] # NoWorker
      PROVE  ProcessOf[lock'[q]] = q /\ work'[lock'[q]].at = "write"
  BY <1>1, <1>3 DEF IInv, TypeOK
<1>4. TypeOK'
  BY <1>1, <1>2, <1>3 DEF IInv, TypeOK
<1>5. ASSUME NEW v \in Worker, At(v, "write")'
      PROVE  /\ At(v, "write") /\ work'[v] = work[v] /\ lock'[ProcessOf[v]] = v
  <2>1. ProcessOf[v] # p /\ At(v, "write") /\ work'[v] = work[v]
    BY <1>1, <1>5 DEF At, Idle
  <2>2. lock[ProcessOf[v]] = v
    BY <2>1 DEF IInv, WritersHoldLock
  <2>3. QED
    BY <1>1, <2>1, <2>2, SyncAssumption DEF IInv, TypeOK
<1>6. QED
  BY <1>1, <1>4, <1>5 DEF IInv, WritersHoldLock, DiffIsFreshInProcess, SalesOnce

-----------------------------------------------------------------------------
\* The invariant holds at the start.
LEMMA InitIInv == Init => IInv
<1> SUFFICES ASSUME Init PROVE IInv
  OBVIOUS
<1>1. TypeOK
  <2>1. 0 \in 0..MaxEdits
    BY SyncAssumption
  <2>2. lines \subseteq Line
    BY SyncAssumption DEF Init
  <2>3. history \in [Item -> Seq(Change)]
    BY DEF Init
  <2>4. work \in [Worker -> Syncing \cup {Idle}] /\ lock \in [Process -> Worker \cup {NoWorker}]
    BY DEF Init
  <2>5. QED
    BY <2>1, <2>2, <2>3, <2>4, NoMenuIsMenu DEF Init, TypeOK
<1>2. \A w \in Worker : ~At(w, "write")
  BY DEF Init, At, Idle
<1>3. QED
  BY <1>1, <1>2 DEF Init, IInv, WritersHoldLock, SalesOnce, DiffIsFreshInProcess

\* Every step keeps the invariant.
LEMMA NextIInv == IInv /\ [Next]_vars => IInv'
<1> SUFFICES ASSUME IInv, [Next]_vars PROVE IInv'
  OBVIOUS
<1>1. ASSUME NEW l \in Line, RingUp(l) PROVE IInv'
  BY <1>1, LoyverseInv, SyncAssumption DEF RingUp, IInv, TypeOK
<1>2. ASSUME NEW i \in Item, NEW v \in Version \cup {Absent}, EditItem(i, v)
      PROVE  IInv'
  <2>1. onSale' \in Menu /\ lines' \subseteq Line /\ edits' \in 0..MaxEdits
    BY <1>2, SyncAssumption DEF EditItem, IInv, TypeOK, Menu
  <2>2. QED
    BY <1>2, <2>1, LoyverseInv DEF EditItem
<1>3. ASSUME NEW w \in Worker, Step(w) \/ Fail(w) PROVE IInv'
  BY <1>3, PullInv, RecordSalesInv, ReadPreviousInv, WriteSnapshotInv, FailInv
  DEF Step
<1>4. ASSUME NEW p \in Process, Crash(p) PROVE IInv'
  BY <1>4, CrashInv
<1>5. CASE UNCHANGED vars
  <2>1. UNCHANGED <<store, lock, work, lines, onSale, edits>>
    BY <1>5 DEF vars, store
  <2>2. QED
    BY <2>1, LoyverseInv DEF IInv, TypeOK
<1>6. QED
  BY <1>1, <1>2, <1>3, <1>4, <1>5 DEF Next

\* The invariant always holds.
LEMMA Invariance == Spec => []IInv
  BY InitIInv, NextIInv, PTL DEF Spec

\* No line is lost between two pages.
LEMMA NextNothingSkipped ==
  ASSUME IInv, NothingSkipped, [Next]_vars
  PROVE  NothingSkipped'
<1> SUFFICES ASSUME NEW w \in Worker, At(w, "receipts")'
             PROVE  work'[w].known \subseteq work'[w].got \cup work'[w].left
  BY DEF NothingSkipped
<1>1. CASE work'[w] = work[w]
  BY <1>1 DEF NothingSkipped, At
<1>2. ASSUME NEW v \in Worker, Start(v) PROVE work'[w] = work[w] \/ v = w
  BY <1>2 DEF Start, IInv, TypeOK
<1>3. CASE Start(w)
  BY <1>3 DEF Start, IInv, TypeOK
<1>4. CASE FetchPage(w)
  <2>1. PICK P \in SUBSET work[w].left, N \in SUBSET Arrivals(w) :
          work' = [work EXCEPT ![w].got = Extended(@, P \cup N), ![w].left = @ \ P]
    BY <1>4 DEF FetchPage
  <2>2. work[w] \in Syncing /\ At(w, "receipts")
    BY <1>4, SyncingOrIdle DEF FetchPage, At, Place, IInv
  <2>3. /\ work'[w].known = work[w].known /\ work'[w].left = work[w].left \ P
        /\ work'[w].got = work[w].got \cup P \cup N
    BY <2>1, <2>2 DEF IInv, TypeOK, Syncing, Extended
  <2>4. QED
    BY <2>2, <2>3 DEF NothingSkipped
<1>5. ASSUME NEW v \in Worker,
             RefusePull(v) \/ RecordSales(v) \/ FetchItems(v) \/ ReadPrevious(v)
             \/ WriteSnapshot(v) \/ Fail(v)
      PROVE  work'[w] = work[w]
  <2>1. CASE v # w
    BY <1>5, <2>1
    DEF RefusePull, RecordSales, FetchItems, ReadPrevious, WriteSnapshot, Fail, IInv, TypeOK
  <2>2. CASE v = w
    <3>1. work[v] # Idle => work[v] \in Syncing
      BY SyncingOrIdle DEF IInv
    <3>2. CASE RefusePull(v) \/ WriteSnapshot(v) \/ Fail(v)
      BY <2>2, <3>2 DEF RefusePull, WriteSnapshot, Fail, IInv, TypeOK, At, Idle
    <3>3. CASE RecordSales(v) \/ FetchItems(v) \/ ReadPrevious(v)
      <4>1. work[v] \in Syncing
        BY <3>3, SyncingOrIdle DEF RecordSales, FetchItems, ReadPrevious, At, Place, IInv
      <4>2. work'[v].at # "receipts"
        BY <3>3, <4>1 DEF RecordSales, FetchItems, ReadPrevious, IInv, TypeOK, Syncing
      <4>3. QED
        BY <2>2, <4>2 DEF At
    <3>4. QED
      BY <1>5, <3>2, <3>3
  <2>3. QED
    BY <2>1, <2>2
<1>6. ASSUME NEW p \in Process, Crash(p) PROVE work'[w] = work[w]
  BY <1>6 DEF Crash, IInv, TypeOK, At, Idle
<1>7. ASSUME NEW v \in Worker, FetchPage(v) PROVE work'[w] = work[w] \/ v = w
  BY <1>7 DEF FetchPage, IInv, TypeOK
<1>8. CASE (\E l \in Line : RingUp(l))
           \/ (\E i \in Item, v \in Version \cup {Absent} : EditItem(i, v))
           \/ UNCHANGED vars
  <2>1. work' = work
    BY <1>8 DEF RingUp, EditItem, vars
  <2>2. QED
    BY <1>1, <2>1
<1>9. QED
  BY <1>1, <1>2, <1>3, <1>4, <1>5, <1>6, <1>7, <1>8 DEF Next, Step

\* Nothing is skipped, ever.
LEMMA PagingInvariance == Spec => [](IInv /\ NothingSkipped)
<1>1. Init => NothingSkipped
  BY DEF Init, NothingSkipped, At, Idle
<1>2. IInv /\ NothingSkipped /\ [Next]_vars => (IInv /\ NothingSkipped)'
  BY NextIInv, NextNothingSkipped
<1>3. QED
  BY <1>1, <1>2, InitIInv, PTL DEF Spec

\* Loyverse, the tables, the locks and the syncs keep their types, and a lock is
\* held by a worker of its process that is writing a snapshot.
THEOREM TypeCorrect == Spec => []TypeOK
<1>1. IInv => TypeOK
  BY DEF IInv
<1>2. QED
  BY <1>1, Invariance, PTL

\* Replayed, overlapping, failed and restarted syncs of any number of processes
\* never store a receipt line twice.
THEOREM StoredOnce == Spec => []SalesOnce
<1>1. IInv => SalesOnce
  BY DEF IInv
<1>2. QED
  BY <1>1, Invariance, PTL

\* The menu a worker is about to diff against is still the latest snapshot,
\* unless another process recorded one since.
THEOREM FreshDiffs == Spec => []DiffIsFreshInProcess
<1>1. IInv => DiffIsFreshInProcess
  BY DEF IInv
<1>2. QED
  BY <1>1, Invariance, PTL

\* A sync that gets past its receipts has stored every sale that Loyverse had
\* when it asked for the first page, but for those before a first sync's window,
\* in however many pages they came and whatever happened between two of them.
THEOREM CompleteSyncs == Spec => GoodSyncIsComplete
<1>1. ASSUME IInv, NothingSkipped, NEW w \in Worker, RecordSales(w),
             NEW l \in work[w].known
      PROVE  sales'[l] > 0
  <2>1. work[w] \in Syncing /\ At(w, "receipts")
    BY <1>1, SyncingOrIdle DEF RecordSales, At, Place, IInv
  <2>2. l \in Line
    BY <1>1, <2>1 DEF Syncing
  <2>3. PICK P \in Pulls(w) :
          sales' = [x \in Line |-> IF x \in P THEN Inserted(sales[x]) ELSE sales[x]]
    BY <1>1 DEF RecordSales
  <2>4. l \in P
    BY <1>1, <2>1 DEF Pulls, Extended, NothingSkipped
  <2>5. sales'[l] = Inserted(sales[l]) /\ sales[l] \in Nat
    BY <1>1, <2>2, <2>3, <2>4 DEF IInv, TypeOK
  <2>6. QED
    BY <2>5 DEF Inserted
<1>2. IInv /\ NothingSkipped /\ [Next]_vars =>
        [\A w \in Worker : RecordSales(w) =>
           \A l \in work[w].known : sales'[l] > 0]_vars
  BY <1>1
<1>3. QED
  BY <1>2, PagingInvariance, PTL DEF Spec, GoodSyncIsComplete
=============================================================================
