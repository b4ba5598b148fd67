----------------------------- MODULE Vocabulary -----------------------------
(***************************************************************************)
(* Cash spend and the two vocabularies its rows refer to, suppliers and    *)
(* spend buckets: the routes of web/app.py over storage/config_store.py.   *)
(*                                                                         *)
(* A route looks at the store, decides, and then writes.  Each store call  *)
(* holds the lock, the two together do not: between them any other request *)
(* may run.  So a route that decides is two steps, and one that only       *)
(* writes is one.  Undo (revert_entry) makes none of the routes' checks.   *)
(* A store call that finds another thread's batch open goes without the    *)
(* lock; that matters to the one that checks before it writes, a           *)
(* supplier's delete.  (What else it does is in module StoreThreads.)      *)
(*                                                                         *)
(* The tables declare REFERENCES.  SQLite enforces them only on the        *)
(* connection that ran migration 0013, whose last statement switches       *)
(* enforcement on: until its first restart, and never again.               *)
(***************************************************************************)
EXTENDS Integers, Sequences, SequencesExt

CONSTANTS
  Supplier,   \* supplier ids a form can name
  Name,       \* what a supplier can be called
  Bucket,     \* bucket ids a form can name
  Seeded,     \* the buckets a start writes into an empty table
  Absent,     \* no such row
  Worker,     \* request threads of the web process
  MaxRow,     \* bound: cash-spend rows ever created
  MaxLog      \* bound: audit entries

BucketRow == {"live", "retired"}
RowId == 1..MaxRow
SpendRow == [supplier : Supplier, bucket : Bucket]

ASSUME VocabularyAssumption ==
  /\ Seeded \subseteq Bucket
  /\ Absent \notin Name \cup BucketRow \cup SpendRow
  /\ MaxRow \in Nat /\ MaxLog \in Nat

VARIABLES
  suppliers,  \* supplier id -> its name
  buckets,    \* bucket id -> live or retired
  spend,      \* row id -> what the row refers to
  nextId,     \* AUTOINCREMENT of cash_spend
  log,        \* the audit entries of the three tables
  enforced,   \* whether this process's connection enforces references
  work,       \* worker -> what its request has decided to write
  orderly     \* history: no undo yet, and no request has met another

vars == <<suppliers, buckets, spend, nextId, log, enforced, work, orderly>>

Idle == [op |-> "idle"]

Entry ==
  [table : {"suppliers"}, pk : Supplier,
   old : Name \cup {Absent}, new : Name \cup {Absent}]
  \cup [table : {"spend_buckets"}, pk : Bucket,
        old : BucketRow \cup {Absent}, new : BucketRow \cup {Absent}]
  \cup [table : {"cash_spend"}, pk : RowId,
        old : SpendRow \cup {Absent}, new : SpendRow \cup {Absent}]

Pending ==
  [op : {"create"}, row : SpendRow]
  \cup [op : {"edit"}, id : RowId, row : SpendRow]
  \cup [op : {"import"}, rows : Seq(SpendRow)]
  \cup [op : {"delete supplier"}, supplier : Supplier]
  \cup [op : {"unlocked delete"}, supplier : Supplier, old : Name]
  \cup [op : {"delete bucket"}, bucket : Bucket]

TypeOK ==
  /\ suppliers \in [Supplier -> Name \cup {Absent}]
  /\ buckets \in [Bucket -> BucketRow \cup {Absent}]
  /\ spend \in [RowId -> SpendRow \cup {Absent}]
  /\ nextId \in 1..(MaxRow + 1)
  /\ log \in Seq({e \in Entry : e.old # e.new})
  /\ \A r \in RowId : spend[r] # Absent => r < nextId
  /\ enforced \in BOOLEAN /\ orderly \in BOOLEAN
  /\ work \in [Worker -> Pending \cup {Idle}]

-----------------------------------------------------------------------------
SupplierInUse(s) == \E r \in RowId : spend[r] # Absent /\ spend[r].supplier = s

BucketInUse(b) == \E r \in RowId : spend[r] # Absent /\ spend[r].bucket = b

\* The parents a row names exist.
Resolves(row) == suppliers[row.supplier] # Absent /\ buckets[row.bucket] # Absent

\* FOREIGN KEY, as an INSERT or UPDATE of a child meets it.
ChildAllowed(row) == enforced => Resolves(row)

\* Fault: an entry for a save that changed nothing.
RecordedAlways(l, table, pk, old, new) ==
  Append(l, [table |-> table, pk |-> pk, old |-> old, new |-> new])

\* _record_audit: nothing is logged when nothing changed.
Recorded(l, table, pk, old, new) ==
  IF old = new THEN l
  ELSE Append(l, [table |-> table, pk |-> pk, old |-> old, new |-> new])

Record(table, pk, old, new) ==
  /\ Len(log) < MaxLog
  /\ log' = Recorded(log, table, pk, old, new)

Others(w) == {v \in Worker \ {w} : work[v] # Idle}

\* A request's look-up succeeds: it goes on to `decided`.
Decide(w, decided) ==
  /\ work[w] = Idle
  /\ work' = [work EXCEPT ![w] = decided]
  /\ orderly' = (orderly /\ Others(w) = {})
  /\ UNCHANGED <<suppliers, buckets, spend, nextId, log, enforced>>

Doing(w, op) == work[w].op = op

Done(w) ==
  /\ work' = [work EXCEPT ![w] = Idle]
  /\ UNCHANGED <<enforced, orderly>>

\* A request that only writes, on a thread of its own.
OneStep ==
  /\ orderly' = (orderly /\ \A w \in Worker : work[w] = Idle)
  /\ UNCHANGED <<enforced, work>>

-----------------------------------------------------------------------------
(***************************************************************************)
(* Suppliers.                                                              *)
(***************************************************************************)

SetSupplier(s, row) ==
  /\ suppliers' = [suppliers EXCEPT ![s] = row]
  /\ Record("suppliers", s, suppliers[s], row)
  /\ UNCHANGED <<buckets, spend, nextId>>

CreateSupplier(s, n) ==
  /\ suppliers[s] = Absent
  /\ SetSupplier(s, n) /\ OneStep

EditSupplier(s, n) ==
  /\ suppliers[s] # Absent
  /\ SetSupplier(s, n) /\ OneStep

CheckDeleteSupplier(w, s) ==
  /\ ~SupplierInUse(s)
  /\ Decide(w, [op |-> "delete supplier", supplier |-> s])

\* Fault: the delete relies on the route's check.
SupplierDeletableOnce(s) == suppliers[s] # Absent /\ ~(enforced /\ SupplierInUse(s))

\* The check delete_supplier makes again itself.
SupplierDeletable(s) == suppliers[s] # Absent /\ ~SupplierInUse(s)

\* Check and delete under the lock, in one transaction.
DeleteSupplier(w) ==
  /\ Doing(w, "delete supplier")
  /\ LET s == work[w].supplier IN
       IF SupplierDeletable(s)
       THEN SetSupplier(s, Absent)
       ELSE UNCHANGED <<suppliers, buckets, spend, nextId, log>>
  /\ Done(w)

\* `_in_batch` is read without the lock.  It is TRUE while another thread is in
\* a batch, an import of cash spend or a stroke of another route, which may be
\* at any time: then nobody holds the lock from the check to the delete.
CheckUnlocked(w) ==
  /\ Doing(w, "delete supplier")
  /\ LET s == work[w].supplier IN
       /\ SupplierDeletable(s)
       /\ work' = [work EXCEPT ![w] =
            [op |-> "unlocked delete", supplier |-> s, old |-> suppliers[s]]]
  /\ orderly' = FALSE
  /\ UNCHANGED <<suppliers, buckets, spend, nextId, log, enforced>>

\* FOREIGN KEY may still refuse it.  The entry has the row as it was checked.
DeleteUnlocked(w) ==
  /\ Doing(w, "unlocked delete")
  /\ LET s == work[w].supplier IN
       IF enforced /\ SupplierInUse(s)
       THEN UNCHANGED <<suppliers, log>>
       ELSE /\ suppliers' = [suppliers EXCEPT ![s] = Absent]
            /\ Record("suppliers", s, work[w].old, Absent)
  /\ UNCHANGED <<buckets, spend, nextId>>
  /\ Done(w)

-----------------------------------------------------------------------------
(***************************************************************************)
(* Spend buckets.                                                          *)
(***************************************************************************)

SetBucket(b, row) ==
  /\ buckets' = [buckets EXCEPT ![b] = row]
  /\ Record("spend_buckets", b, buckets[b], row)
  /\ UNCHANGED <<suppliers, spend, nextId>>

CreateSpendBucket(b) ==
  /\ buckets[b] = Absent
  /\ SetBucket(b, "live") /\ OneStep

RetireSpendBucket(b) ==
  /\ buckets[b] # Absent
  /\ SetBucket(b, "retired") /\ OneStep

CheckDeleteBucket(w, b) ==
  /\ ~BucketInUse(b)
  /\ Decide(w, [op |-> "delete bucket", bucket |-> b])

\* Not checked again: only the database could refuse it now.
BucketDeletable(b) == buckets[b] # Absent /\ ~(enforced /\ BucketInUse(b))

DeleteSpendBucket(w) ==
  /\ Doing(w, "delete bucket")
  /\ LET b == work[w].bucket IN
       IF BucketDeletable(b)
       THEN SetBucket(b, Absent)
       ELSE UNCHANGED <<suppliers, buckets, spend, nextId, log>>
  /\ Done(w)

-----------------------------------------------------------------------------
(***************************************************************************)
(* Cash spend.                                                             *)
(***************************************************************************)

SetSpend(r, row) ==
  /\ spend' = [spend EXCEPT ![r] = row]
  /\ Record("cash_spend", r, spend[r], row)
  /\ UNCHANGED <<suppliers, buckets>>

\* Fault: any bucket in the table will do.
PickableAny(b) == buckets[b] # Absent

\* Fault: a bucket the look-up does not find is not retired either.
PickableUnknown(b) == buckets[b] # "retired"

\* The bucket a form names is there and not retired.
Pickable(b) == buckets[b] = "live"

\* The supplier is taken as the form names it.
CheckCreateSpend(w, row) ==
  /\ Pickable(row.bucket)
  /\ Decide(w, [op |-> "create", row |-> row])

CreateCashSpend(w) ==
  /\ Doing(w, "create")
  /\ IF ChildAllowed(work[w].row)
     THEN /\ nextId \in RowId
          /\ SetSpend(nextId, work[w].row)
          /\ nextId' = nextId + 1
     ELSE UNCHANGED <<suppliers, buckets, spend, nextId, log>>
  /\ Done(w)

\* A row may stay on a retired bucket it is already on.
CheckEditSpend(w, r, row) ==
  /\ spend[r] # Absent
  /\ row.bucket # spend[r].bucket => Pickable(row.bucket)
  /\ Decide(w, [op |-> "edit", id |-> r, row |-> row])

UpdateCashSpend(w) ==
  /\ Doing(w, "edit")
  /\ LET r == work[w].id  row == work[w].row IN
       IF spend[r] # Absent /\ ChildAllowed(row)
       THEN SetSpend(r, row) /\ UNCHANGED nextId
       ELSE UNCHANGED <<suppliers, buckets, spend, nextId, log>>
  /\ Done(w)

DeleteCashSpend(r) ==
  /\ spend[r] # Absent
  /\ SetSpend(r, Absent)
  /\ UNCHANGED nextId
  /\ OneStep

\* parse_import: an unknown supplier or bucket blocks the file, a retired
\* bucket only warns.
Importable(rows) == rows # <<>> /\ \A n \in DOMAIN rows : Resolves(rows[n])

ParseImport(w, rows) ==
  /\ Importable(rows)
  /\ Decide(w, [op |-> "import", rows |-> rows])

\* One batch: the row that the database refuses takes the others along.
ApplyImport(w) ==
  /\ Doing(w, "import")
  /\ LET rows == work[w].rows
         id(n) == nextId + n - 1
         entry(n) == [table |-> "cash_spend", pk |-> id(n), old |-> Absent, new |-> rows[n]]
     IN
       IF \A n \in DOMAIN rows : ChildAllowed(rows[n])
       THEN /\ nextId + Len(rows) <= MaxRow + 1
            /\ Len(log) + Len(rows) <= MaxLog
            /\ spend' = [r \in RowId |->
                 IF r \in nextId..id(Len(rows)) THEN rows[r - nextId + 1] ELSE spend[r]]
            /\ nextId' = nextId + Len(rows)
            /\ log' = log \o [n \in DOMAIN rows |-> entry(n)]
       ELSE UNCHANGED <<spend, nextId, log>>
  /\ UNCHANGED <<suppliers, buckets>>
  /\ Done(w)

-----------------------------------------------------------------------------
(***************************************************************************)
(* Undo, and the process.                                                  *)
(***************************************************************************)

\* _revert_target: undo moves back only the columns the entry moved.
Merged(old, new, current) ==
  [c \in DOMAIN current |-> IF old[c] # new[c] THEN old[c] ELSE current[c]]

RevertTarget(e, current) ==
  IF e.old = Absent THEN Absent
  ELSE IF e.new = Absent \/ current = Absent THEN e.old
  ELSE IF e.table = "cash_spend" THEN Merged(e.old, e.new, current)
  ELSE e.old

\* Fault: references checked at the end of the transaction only for rows that
\* were inserted.
ParentUndoAllowedAlways(exists, used) == TRUE

\* _apply_snapshot deletes the row before it inserts the target: a parent in
\* use cannot even be put back with another name.
ParentUndoAllowed(exists, used) == enforced /\ exists => ~used

RevertEntry(i) ==
  LET e == log[i] IN
  /\ Len(log) < MaxLog
  /\ \/ /\ e.table = "suppliers"
        /\ ParentUndoAllowed(suppliers[e.pk] # Absent, SupplierInUse(e.pk))
        /\ SetSupplier(e.pk, RevertTarget(e, suppliers[e.pk]))
     \/ /\ e.table = "spend_buckets"
        /\ ParentUndoAllowed(buckets[e.pk] # Absent, BucketInUse(e.pk))
        /\ SetBucket(e.pk, RevertTarget(e, buckets[e.pk]))
     \/ /\ e.table = "cash_spend"
        /\ LET target == RevertTarget(e, spend[e.pk]) IN
             /\ target # Absent => ChildAllowed(target)
             /\ SetSpend(e.pk, target)
        /\ UNCHANGED nextId
  /\ orderly' = FALSE
  /\ UNCHANGED <<enforced, work>>

\* No migration is left to run, so nothing switches enforcement on again; an
\* empty bucket table is seeded anew, unaudited.
Restart ==
  /\ work' = [w \in Worker |-> Idle]
  /\ enforced' = FALSE
  /\ buckets' = IF \A b \in Bucket : buckets[b] = Absent
                THEN [b \in Bucket |-> IF b \in Seeded THEN "live" ELSE Absent]
                ELSE buckets
  /\ UNCHANGED <<suppliers, spend, nextId, log, orderly>>

-----------------------------------------------------------------------------
\* A new deployment: the migrations of this process, and its seed, just ran.
Init ==
  /\ suppliers = [s \in Supplier |-> Absent]
  /\ buckets = [b \in Bucket |-> IF b \in Seeded THEN "live" ELSE Absent]
  /\ spend = [r \in RowId |-> Absent]
  /\ nextId = 1
  /\ log = <<>>
  /\ enforced = TRUE
  /\ work = [w \in Worker |-> Idle]
  /\ orderly = TRUE

\* Files of one line or two.
File == {<<row>> : row \in SpendRow} \cup (SpendRow \X SpendRow)

Look(w) ==
  \/ \E s \in Supplier : CheckDeleteSupplier(w, s)
  \/ \E b \in Bucket : CheckDeleteBucket(w, b)
  \/ \E row \in SpendRow : CheckCreateSpend(w, row)
  \/ \E r \in RowId, row \in SpendRow : CheckEditSpend(w, r, row)
  \/ \E rows \in File : ParseImport(w, rows)

WriteDecided(w) ==
  \/ DeleteSupplier(w) \/ CheckUnlocked(w) \/ DeleteUnlocked(w)
  \/ DeleteSpendBucket(w)
  \/ CreateCashSpend(w) \/ UpdateCashSpend(w) \/ ApplyImport(w)

Direct ==
  \/ \E s \in Supplier, n \in Name : CreateSupplier(s, n) \/ EditSupplier(s, n)
  \/ \E b \in Bucket : CreateSpendBucket(b) \/ RetireSpendBucket(b)
  \/ \E r \in RowId : DeleteCashSpend(r)

Undo == \E i \in DOMAIN log : RevertEntry(i)

Next ==
  \/ \E w \in Worker : Look(w) \/ WriteDecided(w)
  \/ Direct
  \/ Undo
  \/ Restart

Spec == Init /\ [][Next]_vars

-----------------------------------------------------------------------------
(***************************************************************************)
(* Properties.                                                             *)
(***************************************************************************)

\* While the process that migrated the database runs, every row's supplier and
\* bucket exist, through races, imports and undos: what REFERENCES promises.
EnforcedReferences ==
  enforced => \A r \in RowId : spend[r] # Absent => Resolves(spend[r])

\* The routes alone keep every bucket a row names, with no help from the
\* database: it takes an undo, or two requests at once, to orphan a row.
OrderlyRequestsKeepBuckets ==
  orderly => \A r \in RowId : spend[r] # Absent => buckets[spend[r].bucket] # Absent

ArrivesOnRetired(r) ==
  /\ spend'[r] # Absent
  /\ spend[r] = Absent \/ spend[r].bucket # spend'[r].bucket
  /\ buckets'[spend'[r].bucket] = "retired"

\* A row comes to a retired bucket by a historical import only, or by an undo,
\* or because two requests met ("the live-vocabulary invariant").
LiveVocabulary ==
  [][orderly' =>
       \A r \in RowId : ArrivesOnRetired(r) =>
         \E w \in Worker : Doing(w, "import") /\ ApplyImport(w)]_vars

\* delete_supplier: "a referencing row that appears between this read and the
\* delete still blocks the delete", if the delete took the lock.  Besides an
\* undo only a delete that another thread's batch let past the lock takes a
\* supplier from under its rows.
DeletesSpareUsedSuppliers ==
  [][\A s \in Supplier :
       suppliers[s] # Absent /\ SupplierInUse(s) /\ suppliers'[s] = Absent
         => Undo \/ \E w \in Worker : Doing(w, "unlocked delete") /\ DeleteUnlocked(w)]_vars
=============================================================================
