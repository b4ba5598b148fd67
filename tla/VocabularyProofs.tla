-------------------------- MODULE VocabularyProofs --------------------------
(***************************************************************************)
(* Proofs about Vocabulary, for any suppliers, buckets, names, workers and *)
(* bounds: references hold while they are enforced, the routes keep every  *)
(* bucket in use as long as no two requests meet, rows come to a retired   *)
(* bucket by an import only, and a supplier in use is spared by every      *)
(* delete that holds the lock.                                             *)
(*                                                                         *)
(* What a route decided is stale by the time it writes.  The invariant     *)
(* says when it is not: while the requests are orderly nobody moved since, *)
(* so what the look-up saw still holds (Alone, StillHolds).  An undone     *)
(* cash-spend row gets its old id back, so ids in the log are spent ones   *)
(* (IdsSpent).                                                             *)
(***************************************************************************)
EXTENDS Vocabulary, TLAPS

\* No row the log speaks of has an id still to be given.
IdsSpent ==
  \A i \in DOMAIN log : log[i].table = "cash_spend" => log[i].pk < nextId

\* What a request found when it decided d.  A supplier to be deleted is looked
\* at again, so nothing of it has to hold.
StillHolds(d) ==
  /\ d.op = "create" => Pickable(d.row.bucket)
  /\ d.op = "edit" => /\ spend[d.id] # Absent
                      /\ d.row.bucket # spend[d.id].bucket => Pickable(d.row.bucket)
  /\ d.op = "import" => Importable(d.rows)
  /\ d.op = "delete bucket" => ~BucketInUse(d.bucket)

\* Orderly so far: a request that has decided is the only one, and what it
\* found holds until it writes.
Alone ==
  orderly => \A w \in Worker : work[w] # Idle => Others(w) = {} /\ StillHolds(work[w])

\* The inductive invariant.
IInv ==
  /\ TypeOK
  /\ IdsSpent
  /\ EnforcedReferences
  /\ OrderlyRequestsKeepBuckets
  /\ Alone

-----------------------------------------------------------------------------
\* What _record_audit writes down.
LogEntry == {e \in Entry : e.old # e.new}

\* What an entry of each table holds.
LEMMA EntryOf ==
  ASSUME NEW e \in Entry
  PROVE  /\ e.table = "suppliers" => e.pk \in Supplier /\ e.old \in Name \cup {Absent}
         /\ e.table = "spend_buckets" =>
              e.pk \in Bucket /\ e.old \in BucketRow \cup {Absent}
         /\ e.table = "cash_spend" =>
              /\ e.pk \in RowId /\ e.old \in SpendRow \cup {Absent}
              /\ e.new \in SpendRow \cup {Absent}
         /\ e.table \in {"suppliers", "spend_buckets", "cash_spend"}
BY DEF Entry

\* What a decision of each kind holds.
LEMMA PendingOf ==
  ASSUME TypeOK, NEW w \in Worker
  PROVE  /\ work[w].op = "create" => work[w].row \in SpendRow
         /\ work[w].op = "edit" => work[w].id \in RowId /\ work[w].row \in SpendRow
         /\ work[w].op = "import" => work[w].rows \in Seq(SpendRow)
         /\ work[w].op = "delete supplier" => work[w].supplier \in Supplier
         /\ work[w].op = "unlocked delete" =>
              work[w].supplier \in Supplier /\ work[w].old \in Name
         /\ work[w].op = "delete bucket" => work[w].bucket \in Bucket
<1>1. work[w] \in Pending \cup {Idle}
  BY DEF TypeOK
<1>2. CASE work[w] = Idle
  BY <1>2 DEF Idle
<1>3. CASE work[w] \in [op : {"create"}, row : SpendRow]
  BY <1>3
<1>4. CASE work[w] \in [op : {"edit"}, id : RowId, row : SpendRow]
  BY <1>4
<1>5. CASE work[w] \in [op : {"import"}, rows : Seq(SpendRow)]
  BY <1>5
<1>6. CASE work[w] \in [op : {"delete supplier"}, supplier : Supplier]
  BY <1>6
<1>7. CASE work[w] \in [op : {"delete bucket"}, bucket : Bucket]
  BY <1>7
<1>8. CASE work[w] \in [op : {"unlocked delete"}, supplier : Supplier, old : Name]
  BY <1>8
<1>9. QED
  BY <1>1, <1>2, <1>3, <1>4, <1>5, <1>6, <1>7, <1>8 DEF Pending

\* Recording a change adds one entry at most, of the row that changed.
LEMMA RecordTypes ==
  ASSUME log \in Seq(LogEntry), NEW table, NEW pk, NEW old, NEW new,
         [table |-> table, pk |-> pk, old |-> old, new |-> new] \in Entry,
         Record(table, pk, old, new)
  PROVE  /\ log' \in Seq(LogEntry)
         /\ \A i \in DOMAIN log' :
              \/ i \in DOMAIN log /\ log'[i] = log[i]
              \/ log'[i].table = table /\ log'[i].pk = pk
<1> DEFINE e == [table |-> table, pk |-> pk, old |-> old, new |-> new]
<1>1. CASE old = new
  <2>1. log' = log
    BY <1>1 DEF Record, Recorded
  <2>2. QED
    BY <2>1
<1>2. CASE old # new
  <2>1. e \in LogEntry
    BY <1>2 DEF LogEntry
  <2>2. log' = Append(log, e)
    BY <1>2 DEF Record, Recorded
  <2>3. /\ log' \in Seq(LogEntry) /\ Len(log') = Len(log) + 1
        /\ log'[Len(log) + 1] = e /\ \A i \in 1..Len(log) : log'[i] = log[i]
    BY <2>1, <2>2
  <2>4. ASSUME NEW i \in DOMAIN log'
        PROVE  \/ i \in DOMAIN log /\ log'[i] = log[i]
               \/ log'[i].table = table /\ log'[i].pk = pk
    <3>1. i \in 1..Len(log) \/ i = Len(log) + 1
      BY <2>3
    <3>2. QED
      BY <2>3, <3>1
  <2>5. QED
    BY <2>3, <2>4
<1>3. QED
  BY <1>1, <1>2

\* Writing a supplier keeps the types.
LEMMA SetSupplierTypes ==
  ASSUME TypeOK, IdsSpent, NEW s \in Supplier, NEW row \in Name \cup {Absent},
         SetSupplier(s, row), work' \in [Worker -> Pending \cup {Idle}],
         enforced' = enforced, orderly' \in BOOLEAN
  PROVE  TypeOK' /\ IdsSpent'
<1>1. [table |-> "suppliers", pk |-> s, old |-> suppliers[s], new |-> row] \in Entry
  BY DEF Entry, TypeOK
<1>2. log \in Seq(LogEntry)
  BY DEF TypeOK, LogEntry
<1>3. /\ log' \in Seq(LogEntry)
      /\ \A i \in DOMAIN log' :
           \/ i \in DOMAIN log /\ log'[i] = log[i]
           \/ log'[i].table = "suppliers"
  BY <1>1, <1>2, RecordTypes DEF SetSupplier
<1>4. /\ suppliers' \in [Supplier -> Name \cup {Absent}]
      /\ UNCHANGED <<buckets, spend, nextId>>
  BY DEF SetSupplier, TypeOK
<1>5. QED
  BY <1>3, <1>4 DEF TypeOK, IdsSpent, LogEntry

\* Writing a bucket keeps the types.
LEMMA SetBucketTypes ==
  ASSUME TypeOK, IdsSpent, NEW b \in Bucket,
         NEW row \in BucketRow \cup {Absent},
         SetBucket(b, row), work' \in [Worker -> Pending \cup {Idle}],
         enforced' = enforced, orderly' \in BOOLEAN
  PROVE  TypeOK' /\ IdsSpent'
<1>1. [table |-> "spend_buckets", pk |-> b, old |-> buckets[b], new |-> row] \in Entry
  BY DEF Entry, TypeOK
<1>2. log \in Seq(LogEntry)
  BY DEF TypeOK, LogEntry
<1>3. /\ log' \in Seq(LogEntry)
      /\ \A i \in DOMAIN log' :
           \/ i \in DOMAIN log /\ log'[i] = log[i]
           \/ log'[i].table = "spend_buckets"
  BY <1>1, <1>2, RecordTypes DEF SetBucket
<1>4. /\ buckets' \in [Bucket -> BucketRow \cup {Absent}]
      /\ UNCHANGED <<suppliers, spend, nextId>>
  BY DEF SetBucket, TypeOK
<1>5. QED
  BY <1>3, <1>4 DEF TypeOK, IdsSpent, LogEntry

\* Writing a cash-spend row keeps the types, if its id has been given.
LEMMA SetSpendTypes ==
  ASSUME TypeOK, IdsSpent, NEW r \in RowId, NEW row \in SpendRow \cup {Absent},
         SetSpend(r, row), nextId' \in 1..(MaxRow + 1), nextId <= nextId', r < nextId',
         work' \in [Worker -> Pending \cup {Idle}],
         enforced' = enforced, orderly' \in BOOLEAN
  PROVE  TypeOK' /\ IdsSpent'
<1>1. [table |-> "cash_spend", pk |-> r, old |-> spend[r], new |-> row] \in Entry
  BY DEF Entry, TypeOK
<1>2. log \in Seq(LogEntry)
  BY DEF TypeOK, LogEntry
<1>3. /\ log' \in Seq(LogEntry)
      /\ \A i \in DOMAIN log' :
           \/ i \in DOMAIN log /\ log'[i] = log[i]
           \/ log'[i].pk = r
  BY <1>1, <1>2, RecordTypes DEF SetSpend
<1>4. spend' = [spend EXCEPT ![r] = row] /\ UNCHANGED <<suppliers, buckets>>
  BY DEF SetSpend
<1>5. \A i \in DOMAIN log : log[i].table = "cash_spend" => log[i].pk \in RowId
  BY <1>2, EntryOf DEF LogEntry
<1>6. IdsSpent'
  BY <1>3, <1>5, VocabularyAssumption DEF IdsSpent, TypeOK, RowId
<1>7. \A q \in RowId : spend'[q] # Absent => q < nextId'
  BY <1>4, VocabularyAssumption DEF TypeOK, RowId
<1>8. QED
  BY <1>3, <1>4, <1>6, <1>7 DEF TypeOK, LogEntry

\* An import keeps the types: its rows get the next ids, one each.
LEMMA AppliedTypes ==
  ASSUME TypeOK, IdsSpent, NEW w \in Worker, ApplyImport(w)
  PROVE  TypeOK' /\ IdsSpent'
<1> DEFINE rows == work[w].rows
           id(n) == nextId + n - 1
           entry(n) == [table |-> "cash_spend", pk |-> id(n), old |-> Absent,
                        new |-> rows[n]]
<1>1. rows \in Seq(SpendRow)
  BY PendingOf DEF ApplyImport, Doing
<1>2. /\ work' \in [Worker -> Pending \cup {Idle}]
      /\ UNCHANGED <<suppliers, buckets, enforced, orderly>>
  BY DEF ApplyImport, Done, TypeOK
<1>3. CASE UNCHANGED <<spend, nextId, log>>
  BY <1>2, <1>3 DEF TypeOK, IdsSpent
<1>4. CASE ~UNCHANGED <<spend, nextId, log>>
  <2>1. /\ nextId + Len(rows) <= MaxRow + 1
        /\ spend' = [r \in RowId |->
             IF r \in nextId..id(Len(rows)) THEN rows[r - nextId + 1] ELSE spend[r]]
        /\ nextId' = nextId + Len(rows)
        /\ log' = log \o [n \in DOMAIN rows |-> entry(n)]
    BY <1>4 DEF ApplyImport
  <2>2. nextId \in 1..(MaxRow + 1) /\ Len(rows) \in Nat /\ MaxRow \in Nat
    BY <1>1, VocabularyAssumption DEF TypeOK
  <2>3. nextId' \in 1..(MaxRow + 1) /\ nextId <= nextId'
    BY <2>1, <2>2
  <2>4. ASSUME NEW n \in DOMAIN rows
        PROVE  entry(n) \in LogEntry /\ id(n) < nextId'
    <3>1. n \in 1..Len(rows) /\ rows[n] \in SpendRow
      BY <1>1
    <3>2. id(n) \in RowId /\ id(n) < nextId'
      BY <2>1, <2>2, <3>1 DEF RowId
    <3>3. entry(n) \in Entry
      BY <3>1, <3>2 DEF Entry
    <3>4. rows[n] # Absent
      BY <3>1, VocabularyAssumption
    <3>5. QED
      BY <3>2, <3>3, <3>4 DEF LogEntry
  <2>5. DEFINE t == [n \in DOMAIN rows |-> entry(n)]
  <2>6. /\ t \in Seq(LogEntry) /\ Len(t) = Len(rows)
        /\ \A n \in 1..Len(rows) : t[n] = entry(n)
    <3>1. DOMAIN rows = 1..Len(rows)
      BY <1>1
    <3>2. t \in [1..Len(rows) -> LogEntry]
      BY <2>4, <3>1
    <3>3. QED
      BY <2>2, <3>1, <3>2
  <2>7. log \in Seq(LogEntry) /\ log' = log \o t
    BY <2>1 DEF TypeOK, LogEntry
  <2>8. log' \in Seq(LogEntry)
    BY <2>6, <2>7
  <2>9. ASSUME NEW i \in DOMAIN log', log'[i].table = "cash_spend"
        PROVE  log'[i].pk < nextId'
    <3> HIDE DEF t, entry
    <3>1. i \in 1..(Len(log) + Len(t)) /\ Len(t) \in Nat /\ Len(log) \in Nat
      BY <2>6, <2>7
    <3>2. CASE i <= Len(log)
      <4>1. i \in DOMAIN log /\ log'[i] = log[i]
        BY <2>6, <2>7, <3>1, <3>2
      <4>2. log[i].pk \in RowId /\ log[i].pk < nextId
        BY <2>7, <2>9, <4>1, EntryOf DEF LogEntry, IdsSpent
      <4>3. QED
        BY <2>2, <2>3, <4>1, <4>2, VocabularyAssumption DEF RowId
    <3>3. CASE i > Len(log)
      <4>1. i - Len(log) \in 1..Len(rows) /\ log'[i] = t[i - Len(log)]
        BY <2>6, <2>7, <3>1, <3>3
      <4>2. log'[i] = entry(i - Len(log))
        BY <2>6, <4>1
      <4>3. log'[i].pk = id(i - Len(log))
        BY <4>2 DEF entry
      <4>4. i - Len(log) \in DOMAIN rows
        BY <1>1, <4>1
      <4>5. QED
        BY <2>4, <4>3, <4>4
    <3>4. QED
      BY <3>1, <3>2, <3>3
  <2>10. ASSUME NEW r \in RowId
         PROVE  /\ spend'[r] \in SpendRow \cup {Absent}
                /\ spend'[r] # Absent => r < nextId'
    <3>1. CASE r \in nextId..id(Len(rows))
      <4>1. r - nextId + 1 \in 1..Len(rows)
        BY <2>2, <3>1 DEF RowId
      <4>2. rows[r - nextId + 1] \in SpendRow
        BY <1>1, <4>1
      <4>3. spend'[r] = rows[r - nextId + 1]
        BY <2>1, <3>1
      <4>4. r < nextId'
        BY <2>1, <2>2, <3>1 DEF RowId
      <4>5. QED
        BY <4>2, <4>3, <4>4
    <3>2. CASE r \notin nextId..id(Len(rows))
      BY <2>1, <2>2, <2>3, <3>2 DEF TypeOK, RowId
    <3>3. QED
      BY <3>1, <3>2
  <2>11. spend' \in [RowId -> SpendRow \cup {Absent}]
    BY <2>1, <2>10
  <2>12. QED
    BY <1>2, <2>3, <2>8, <2>9, <2>10, <2>11 DEF TypeOK, IdsSpent, LogEntry
<1>5. QED
  BY <1>3, <1>4

-----------------------------------------------------------------------------
\* After the only request under way has written, none is.
LEMMA DoneAlone ==
  ASSUME IInv, NEW w \in Worker, work[w] # Idle, Done(w)
  PROVE  Alone'
<1>1. ASSUME orderly', NEW v \in Worker PROVE work'[v] = Idle
  <2>1. CASE v = w
    BY <2>1 DEF Done, IInv, TypeOK
  <2>2. CASE v # w
    <3>1. work'[v] = work[v]
      BY <2>2 DEF Done, IInv, TypeOK
    <3>2. QED
      BY <1>1, <2>2, <3>1 DEF Done, IInv, Alone, Others
  <2>3. QED
    BY <2>1, <2>2
<1>2. QED
  BY <1>1 DEF Alone

\* A request that only writes leaves the history orderly only if no other was
\* under way.
LEMMA OneStepAlone ==
  ASSUME OneStep
  PROVE  Alone'
BY DEF OneStep, Alone

\* A look-up that succeeds keeps the invariant, if it saw what StillHolds says.
LEMMA DecideInv ==
  ASSUME IInv, NEW w \in Worker, NEW d \in Pending, Decide(w, d), StillHolds(d)
  PROVE  IInv'
<1>1. /\ work' = [work EXCEPT ![w] = d] /\ orderly' = (orderly /\ Others(w) = {})
      /\ UNCHANGED <<suppliers, buckets, spend, nextId, log, enforced>>
  BY DEF Decide
<1>2. TypeOK'
  BY <1>1 DEF IInv, TypeOK
<1>3. IdsSpent' /\ EnforcedReferences' /\ OrderlyRequestsKeepBuckets'
  BY <1>1
  DEF IInv, IdsSpent, EnforcedReferences, OrderlyRequestsKeepBuckets, Resolves
<1>4. Alone'
  <2>1. ASSUME orderly', NEW v \in Worker \ {w} PROVE work'[v] = Idle
    BY <1>1, <2>1 DEF IInv, TypeOK, Others
  <2>2. work'[w] = d
    BY <1>1 DEF IInv, TypeOK
  <2>3. StillHolds(d)'
    BY <1>1 DEF StillHolds, Pickable, Importable, Resolves, BucketInUse
  <2>4. QED
    BY <2>1, <2>2, <2>3 DEF Alone, Others
<1>5. QED
  BY <1>2, <1>3, <1>4 DEF IInv

\* Each route's look-up sees what StillHolds says.
LEMMA LookInv ==
  ASSUME IInv, NEW w \in Worker, Look(w)
  PROVE  IInv'
<1>1. ASSUME NEW s \in Supplier, CheckDeleteSupplier(w, s) PROVE IInv'
  <2> DEFINE d == [op |-> "delete supplier", supplier |-> s]
  <2>1. d \in Pending
    BY DEF Pending
  <2>2. StillHolds(d)
    BY DEF StillHolds
  <2>3. QED
    BY <1>1, <2>1, <2>2, DecideInv DEF CheckDeleteSupplier
<1>2. ASSUME NEW b \in Bucket, CheckDeleteBucket(w, b) PROVE IInv'
  <2> DEFINE d == [op |-> "delete bucket", bucket |-> b]
  <2>1. d \in Pending
    BY DEF Pending
  <2>2. StillHolds(d)
    BY <1>2 DEF StillHolds, CheckDeleteBucket
  <2>3. QED
    BY <1>2, <2>1, <2>2, DecideInv DEF CheckDeleteBucket
<1>3. ASSUME NEW row \in SpendRow, CheckCreateSpend(w, row) PROVE IInv'
  <2> DEFINE d == [op |-> "create", row |-> row]
  <2>1. d \in Pending
    BY DEF Pending
  <2>2. StillHolds(d)
    BY <1>3 DEF StillHolds, CheckCreateSpend
  <2>3. QED
    BY <1>3, <2>1, <2>2, DecideInv DEF CheckCreateSpend
<1>4. ASSUME NEW r \in RowId, NEW row \in SpendRow, CheckEditSpend(w, r, row)
      PROVE  IInv'
  <2> DEFINE d == [op |-> "edit", id |-> r, row |-> row]
  <2>1. d \in Pending
    BY DEF Pending
  <2>2. StillHolds(d)
    BY <1>4 DEF StillHolds, CheckEditSpend
  <2>3. QED
    BY <1>4, <2>1, <2>2, DecideInv DEF CheckEditSpend
<1>5. ASSUME NEW rows \in File, ParseImport(w, rows) PROVE IInv'
  <2> DEFINE d == [op |-> "import", rows |-> rows]
  <2>1. rows \in Seq(SpendRow)
    <3>1. CASE rows \in {<<row>> : row \in SpendRow}
      <4>1. PICK a \in SpendRow : rows = <<a>>
        BY <3>1
      <4>2. QED
        BY <4>1
    <3>2. CASE rows \in SpendRow \X SpendRow
      <4>1. PICK a \in SpendRow, b \in SpendRow : rows = <<a, b>>
        BY <3>2
      <4>2. QED
        BY <4>1
    <3>3. QED
      BY <3>1, <3>2 DEF File
  <2>2. d \in Pending
    BY <2>1 DEF Pending
  <2>3. StillHolds(d)
    BY <1>5 DEF StillHolds, ParseImport
  <2>4. QED
    BY <1>5, <2>2, <2>3, DecideInv DEF ParseImport
<1>6. QED
  BY <1>1, <1>2, <1>3, <1>4, <1>5 DEF Look

\* Writing a supplier orphans no row, unless it removes one in use.
LEMMA SetSupplierKeeps ==
  ASSUME IInv, NEW s \in Supplier, NEW row, SetSupplier(s, row),
         enforced' = enforced, orderly' => orderly,
         enforced => row # Absent \/ ~SupplierInUse(s)
  PROVE  EnforcedReferences' /\ OrderlyRequestsKeepBuckets'
<1>1. /\ suppliers' = [suppliers EXCEPT ![s] = row]
      /\ UNCHANGED <<buckets, spend>>
  BY DEF SetSupplier
<1>2. \A r \in RowId : spend[r] # Absent => spend[r] \in SpendRow
  BY DEF IInv, TypeOK
<1>3. EnforcedReferences'
  BY <1>1, <1>2
  DEF IInv, EnforcedReferences, Resolves, SupplierInUse, TypeOK, SpendRow
<1>4. QED
  BY <1>1, <1>3 DEF IInv, OrderlyRequestsKeepBuckets

\* Writing a bucket orphans no row, unless it removes one in use.
LEMMA SetBucketKeeps ==
  ASSUME IInv, NEW b \in Bucket, NEW row, SetBucket(b, row),
         enforced' = enforced, orderly' => orderly,
         enforced \/ orderly' => row # Absent \/ ~BucketInUse(b)
  PROVE  EnforcedReferences' /\ OrderlyRequestsKeepBuckets'
<1>1. /\ buckets' = [buckets EXCEPT ![b] = row]
      /\ UNCHANGED <<suppliers, spend>>
  BY DEF SetBucket
<1>2. \A r \in RowId : spend[r] # Absent => spend[r] \in SpendRow
  BY DEF IInv, TypeOK
<1>3. EnforcedReferences'
  BY <1>1, <1>2
  DEF IInv, EnforcedReferences, Resolves, BucketInUse, TypeOK, SpendRow
<1>4. OrderlyRequestsKeepBuckets'
  BY <1>1, <1>2
  DEF IInv, OrderlyRequestsKeepBuckets, BucketInUse, TypeOK, SpendRow
<1>5. QED
  BY <1>3, <1>4

\* Writing a cash-spend row orphans none, if the row's parents are there.
LEMMA SetSpendKeeps ==
  ASSUME IInv, NEW r \in RowId, NEW row \in SpendRow \cup {Absent}, SetSpend(r,
         row),
         enforced' = enforced, orderly' => orderly,
         row # Absent => ChildAllowed(row),
         orderly' /\ row # Absent => buckets[row.bucket] # Absent
  PROVE  EnforcedReferences' /\ OrderlyRequestsKeepBuckets'
<1>1. /\ spend' = [spend EXCEPT ![r] = row]
      /\ UNCHANGED <<suppliers, buckets>>
  BY DEF SetSpend
<1>2. EnforcedReferences'
  BY <1>1 DEF IInv, EnforcedReferences, Resolves, ChildAllowed, TypeOK
<1>3. OrderlyRequestsKeepBuckets'
  BY <1>1 DEF IInv, OrderlyRequestsKeepBuckets, TypeOK
<1>4. QED
  BY <1>2, <1>3

\* The routes that only write.
LEMMA DirectInv ==
  ASSUME IInv, Direct
  PROVE  IInv'
<1>1. /\ enforced' = enforced /\ work' \in [Worker -> Pending \cup {Idle}]
      /\ orderly' \in BOOLEAN /\ (orderly' => orderly) /\ Alone'
  BY OneStepAlone
  DEF Direct, CreateSupplier, EditSupplier, CreateSpendBucket, RetireSpendBucket,
      DeleteCashSpend, OneStep, IInv, TypeOK
<1>2. ASSUME NEW s \in Supplier, NEW n \in Name, SetSupplier(s, n) PROVE IInv'
  <2>1. TypeOK' /\ IdsSpent'
    BY <1>1, <1>2, SetSupplierTypes DEF IInv
  <2>2. EnforcedReferences' /\ OrderlyRequestsKeepBuckets'
    BY <1>1, <1>2, SetSupplierKeeps, VocabularyAssumption
  <2>3. QED
    BY <1>1, <2>1, <2>2 DEF IInv
<1>3. ASSUME NEW b \in Bucket, NEW row \in BucketRow, SetBucket(b, row)
      PROVE  IInv'
  <2>1. TypeOK' /\ IdsSpent'
    BY <1>1, <1>3, SetBucketTypes DEF IInv
  <2>2. EnforcedReferences' /\ OrderlyRequestsKeepBuckets'
    BY <1>1, <1>3, SetBucketKeeps, VocabularyAssumption
  <2>3. QED
    BY <1>1, <2>1, <2>2 DEF IInv
<1>4. ASSUME NEW r \in RowId, DeleteCashSpend(r) PROVE IInv'
  <2>1. /\ SetSpend(r, Absent) /\ nextId' = nextId
        /\ r < nextId /\ nextId \in 1..(MaxRow + 1)
    BY <1>4 DEF DeleteCashSpend, IInv, TypeOK
  <2>2. nextId <= nextId'
    BY <2>1, VocabularyAssumption
  <2>3. TypeOK' /\ IdsSpent'
    BY <1>1, <2>1, <2>2, SetSpendTypes DEF IInv
  <2>4. EnforcedReferences' /\ OrderlyRequestsKeepBuckets'
    BY <1>1, <2>1, SetSpendKeeps
  <2>5. QED
    BY <1>1, <2>3, <2>4 DEF IInv
<1>5. QED
  BY <1>2, <1>3, <1>4
  DEF Direct, CreateSupplier, EditSupplier, CreateSpendBucket, RetireSpendBucket,
      BucketRow

\* A check without the lock moves no row, and is not orderly.
LEMMA CheckUnlockedInv ==
  ASSUME IInv, NEW w \in Worker, CheckUnlocked(w)
  PROVE  IInv'
<1> DEFINE s == work[w].supplier
           d == [op |-> "unlocked delete", supplier |-> s, old |-> suppliers[s]]
<1>1. /\ s \in Supplier /\ suppliers[s] # Absent
      /\ work' = [work EXCEPT ![w] = d] /\ orderly' = FALSE
      /\ UNCHANGED <<suppliers, buckets, spend, nextId, log, enforced>>
  BY PendingOf DEF CheckUnlocked, Doing, SupplierDeletable, IInv
<1>2. d \in Pending
  BY <1>1 DEF IInv, TypeOK, Pending
<1>3. TypeOK'
  BY <1>1, <1>2 DEF IInv, TypeOK
<1>4. IdsSpent' /\ EnforcedReferences' /\ OrderlyRequestsKeepBuckets' /\ Alone'
  BY <1>1
  DEF IInv, IdsSpent, EnforcedReferences, OrderlyRequestsKeepBuckets, Alone, Resolves
<1>5. QED
  BY <1>3, <1>4 DEF IInv

\* A delete without the lock logs the row as it was checked, and a connection
\* that enforces lets it take no supplier in use.
LEMMA DeleteUnlockedKeeps ==
  ASSUME IInv, NEW w \in Worker, DeleteUnlocked(w), log' # log
  PROVE  /\ (TypeOK /\ IdsSpent)'
         /\ EnforcedReferences' /\ OrderlyRequestsKeepBuckets'
<1> DEFINE s == work[w].supplier  old == work[w].old
           e == [table |-> "suppliers", pk |-> s, old |-> old, new |-> Absent]
<1>1. /\ s \in Supplier /\ old \in Name
      /\ enforced => ~SupplierInUse(s)
      /\ suppliers' = [suppliers EXCEPT ![s] = Absent]
      /\ Record("suppliers", s, old, Absent)
      /\ UNCHANGED <<buckets, spend, nextId, enforced, orderly>>
      /\ work' = [work EXCEPT ![w] = Idle]
  BY PendingOf DEF DeleteUnlocked, Doing, Done, IInv
<1>2. e \in Entry
  BY <1>1 DEF Entry
<1>3. /\ log' \in Seq(LogEntry)
      /\ \A i \in DOMAIN log' :
           \/ i \in DOMAIN log /\ log'[i] = log[i]
           \/ log'[i].table = "suppliers" /\ log'[i].pk = s
  BY <1>1, <1>2, RecordTypes DEF IInv, TypeOK, LogEntry
<1>4. TypeOK'
  BY <1>1, <1>3 DEF IInv, TypeOK, LogEntry
<1>5. IdsSpent'
  BY <1>1, <1>3 DEF IInv, IdsSpent
<1>6. EnforcedReferences'
  BY <1>1 DEF IInv, EnforcedReferences, Resolves, SupplierInUse, TypeOK
<1>7. OrderlyRequestsKeepBuckets'
  BY <1>1 DEF IInv, OrderlyRequestsKeepBuckets
<1>8. QED
  BY <1>4, <1>5, <1>6, <1>7

\* A decision carried out: what an enforcing connection checks, and what an
\* orderly request found before, is enough.
LEMMA WriteDecidedInv ==
  ASSUME IInv, NEW w \in Worker, WriteDecided(w), ~CheckUnlocked(w)
  PROVE  IInv'
<1>1. work[w] # Idle /\ Done(w)
  <2>1. work[w].op # "idle" /\ Done(w)
    BY DEF WriteDecided, DeleteSupplier, DeleteUnlocked, DeleteSpendBucket,
           CreateCashSpend, UpdateCashSpend, ApplyImport, Doing
  <2>2. QED
    BY <2>1 DEF Idle
<1>2. /\ enforced' = enforced /\ orderly' = orderly /\ orderly \in BOOLEAN
      /\ work' \in [Worker -> Pending \cup {Idle}]
  BY <1>1 DEF Done, IInv, TypeOK
<1>3. Alone'
  BY <1>1, DoneAlone
<1>4. orderly => StillHolds(work[w])
  BY <1>1 DEF IInv, Alone
<1>5. CASE UNCHANGED <<suppliers, buckets, spend, nextId, log>>
  <2>1. TypeOK'
    BY <1>2, <1>5 DEF IInv, TypeOK
  <2>2. IdsSpent' /\ EnforcedReferences' /\ OrderlyRequestsKeepBuckets'
    BY <1>2, <1>5
    DEF IInv, IdsSpent, EnforcedReferences, OrderlyRequestsKeepBuckets, Resolves
  <2>3. QED
    BY <1>3, <2>1, <2>2 DEF IInv
<1>6. ASSUME DeleteSupplier(w), NEW s \in Supplier, ~SupplierInUse(s),
             SetSupplier(s, Absent)
      PROVE  IInv'
  BY <1>2, <1>3, <1>6, SetSupplierTypes, SetSupplierKeeps DEF IInv
<1>7. ASSUME DeleteSpendBucket(w), NEW b \in Bucket, b = work[w].bucket,
             BucketDeletable(b), SetBucket(b, Absent)
      PROVE  IInv'
  <2>1. enforced \/ orderly' => ~BucketInUse(b)
    BY <1>2, <1>4, <1>7
    DEF BucketDeletable, StillHolds, DeleteSpendBucket, Doing
  <2>2. QED
    BY <1>2, <1>3, <1>7, <2>1, SetBucketTypes, SetBucketKeeps DEF IInv
<1>8. ASSUME NEW r \in RowId, NEW row \in SpendRow, SetSpend(r, row),
             ChildAllowed(row),
             orderly => buckets[row.bucket] # Absent,
             nextId' \in 1..(MaxRow + 1), nextId <= nextId', r < nextId'
      PROVE  IInv'
  <2>1. TypeOK' /\ IdsSpent'
    BY <1>2, <1>8, SetSpendTypes DEF IInv
  <2>2. EnforcedReferences' /\ OrderlyRequestsKeepBuckets'
    BY <1>2, <1>8, SetSpendKeeps DEF IInv
  <2>3. QED
    BY <1>3, <2>1, <2>2 DEF IInv
<1>9. CASE DeleteSupplier(w)
  BY <1>5, <1>6, <1>9, PendingOf
  DEF DeleteSupplier, Doing, SupplierDeletable, IInv
<1>10. CASE DeleteSpendBucket(w)
  BY <1>5, <1>7, <1>10, PendingOf DEF DeleteSpendBucket, Doing, IInv
<1>11. CASE CreateCashSpend(w)
  <2> SUFFICES ASSUME ~UNCHANGED <<suppliers, buckets, spend, nextId, log>>
               PROVE  IInv'
    BY <1>5
  <2> DEFINE row == work[w].row
  <2>1. /\ row \in SpendRow /\ ChildAllowed(row) /\ nextId \in RowId
        /\ SetSpend(nextId, row) /\ nextId' = nextId + 1
    BY <1>11, PendingOf DEF CreateCashSpend, Doing, IInv
  <2>2. nextId' \in 1..(MaxRow + 1) /\ nextId <= nextId' /\ nextId < nextId'
    BY <2>1, VocabularyAssumption DEF RowId
  <2>3. orderly => buckets[row.bucket] # Absent
    <3>1. orderly => buckets[row.bucket] = "live"
      BY <1>4, <1>11 DEF CreateCashSpend, Doing, StillHolds, Pickable
    <3>2. Absent # "live"
      BY VocabularyAssumption DEF BucketRow
    <3>3. QED
      BY <3>1, <3>2
  <2>4. QED
    BY <1>8, <2>1, <2>2, <2>3
<1>12. CASE UpdateCashSpend(w)
  <2> SUFFICES ASSUME ~UNCHANGED <<suppliers, buckets, spend, nextId, log>>
               PROVE  IInv'
    BY <1>5
  <2> DEFINE row == work[w].row  r == work[w].id
  <2>1. /\ row \in SpendRow /\ r \in RowId /\ ChildAllowed(row) /\ spend[r] # Absent
        /\ SetSpend(r, row) /\ nextId' = nextId
    BY <1>12, PendingOf DEF UpdateCashSpend, Doing, IInv
  <2>2. nextId' \in 1..(MaxRow + 1) /\ nextId <= nextId' /\ r < nextId'
    BY <2>1, VocabularyAssumption DEF IInv, TypeOK
  <2>3. orderly => buckets[row.bucket] # Absent
    <3>1. orderly /\ row.bucket # spend[r].bucket => buckets[row.bucket] = "live"
      BY <1>4, <1>12 DEF UpdateCashSpend, Doing, StillHolds, Pickable
    <3>2. orderly => buckets[spend[r].bucket] # Absent
      BY <2>1 DEF IInv, OrderlyRequestsKeepBuckets
    <3>3. Absent # "live"
      BY VocabularyAssumption DEF BucketRow
    <3>4. QED
      BY <3>1, <3>2, <3>3
  <2>4. QED
    BY <1>8, <2>1, <2>2, <2>3
<1>13. CASE ApplyImport(w)
  <2> SUFFICES ASSUME ~UNCHANGED <<suppliers, buckets, spend, nextId, log>>
               PROVE  IInv'
    BY <1>5
  <2> DEFINE rows == work[w].rows
  <2>1. TypeOK' /\ IdsSpent'
    BY <1>13, AppliedTypes DEF IInv
  <2>2. /\ \A n \in DOMAIN rows : ChildAllowed(rows[n])
        /\ \A r \in RowId :
             spend'[r] # spend[r] => \E n \in DOMAIN rows : spend'[r] = rows[n]
        /\ UNCHANGED <<suppliers, buckets>>
    <3>1. /\ \A n \in DOMAIN rows : ChildAllowed(rows[n])
          /\ spend' = [r \in RowId |->
               IF r \in nextId..(nextId + Len(rows) - 1)
               THEN rows[r - nextId + 1] ELSE spend[r]]
          /\ UNCHANGED <<suppliers, buckets>>
      BY <1>13 DEF ApplyImport
    <3>2. rows \in Seq(SpendRow)
      BY <1>13, PendingOf DEF ApplyImport, Doing, IInv
    <3> nextId \in Nat
      BY VocabularyAssumption DEF IInv, TypeOK
    <3>3. \A r \in RowId : r \in nextId..(nextId + Len(rows) - 1) =>
             r - nextId + 1 \in DOMAIN rows
      BY <3>2 DEF RowId
    <3>4. QED
      BY <3>1, <3>3
  <2>3. orderly => \A n \in DOMAIN rows : Resolves(rows[n])
    BY <1>4, <1>13 DEF ApplyImport, Doing, StillHolds, Importable
  <2>4. EnforcedReferences'
    BY <1>2, <2>2 DEF IInv, EnforcedReferences, ChildAllowed, Resolves
  <2>5. OrderlyRequestsKeepBuckets'
    BY <1>2, <2>2, <2>3 DEF IInv, OrderlyRequestsKeepBuckets, Resolves
  <2>6. QED
    BY <1>3, <2>1, <2>4, <2>5 DEF IInv
<1>14. CASE DeleteUnlocked(w)
  <2>1. CASE log' = log
    <3>1. UNCHANGED <<suppliers, buckets, spend, nextId, log>>
      <4>1. /\ UNCHANGED <<buckets, spend, nextId>>
            /\ \/ UNCHANGED suppliers
               \/ Record("suppliers", work[w].supplier, work[w].old, Absent)
        BY <1>14 DEF DeleteUnlocked
      <4>2. work[w].supplier \in Supplier /\ work[w].old \in Name
        BY <1>14, PendingOf DEF DeleteUnlocked, Doing, IInv
      <4>3. work[w].old # Absent
        BY <4>2, VocabularyAssumption
      <4>4. Record("suppliers", work[w].supplier, work[w].old, Absent) =>
              Len(log') = Len(log) + 1
        BY <4>3 DEF Record, Recorded, IInv, TypeOK
      <4>5. QED
        BY <2>1, <4>1, <4>4 DEF IInv, TypeOK
    <3>2. QED
      BY <1>5, <3>1
  <2>2. CASE log' # log
    BY <1>3, <1>14, <2>2, DeleteUnlockedKeeps DEF IInv
  <2>3. QED
    BY <2>1, <2>2
<1>15. QED
  BY <1>9, <1>10, <1>11, <1>12, <1>13, <1>14 DEF WriteDecided

\* Moving back single columns of a row gives a row.
LEMMA MergedTypes ==
  ASSUME NEW a \in SpendRow, NEW b \in SpendRow, NEW c \in SpendRow
  PROVE  Merged(a, b, c) \in SpendRow
<1>1. DOMAIN c = {"supplier", "bucket"}
  BY DEF SpendRow
<1>2. Merged(a, b, c) =
        [supplier |-> IF a.supplier # b.supplier THEN a.supplier ELSE c.supplier,
         bucket |-> IF a.bucket # b.bucket THEN a.bucket ELSE c.bucket]
  BY <1>1 DEF Merged
<1>3. QED
  BY <1>2 DEF SpendRow

\* An undo: a connection that enforces puts no parent in use back, and no
\* child without its parents.
LEMMA UndoInv ==
  ASSUME IInv, NEW i \in DOMAIN log, RevertEntry(i)
  PROVE  IInv'
<1> DEFINE e == log[i]
<1>1. e \in Entry
  BY DEF IInv, TypeOK
<1>2. /\ enforced' = enforced /\ orderly' = FALSE
      /\ work' \in [Worker -> Pending \cup {Idle}] /\ Alone'
      /\ orderly' \in BOOLEAN /\ (orderly' => orderly)
  BY DEF RevertEntry, IInv, TypeOK, Alone
<1>3. CASE e.table = "suppliers"
  <2> DEFINE row == RevertTarget(e, suppliers[e.pk])
  <2>1. /\ e.pk \in Supplier /\ row \in Name \cup {Absent}
        /\ SetSupplier(e.pk, row)
        /\ ParentUndoAllowed(suppliers[e.pk] # Absent, SupplierInUse(e.pk))
    BY <1>1, <1>3, EntryOf DEF RevertEntry, RevertTarget
  <2>2. enforced => ~SupplierInUse(e.pk)
    BY <2>1
    DEF ParentUndoAllowed, IInv, EnforcedReferences, SupplierInUse, Resolves
  <2>3. QED
    BY <1>2, <2>1, <2>2, SetSupplierTypes, SetSupplierKeeps DEF IInv
<1>4. CASE e.table = "spend_buckets"
  <2> DEFINE row == RevertTarget(e, buckets[e.pk])
  <2>1. /\ e.pk \in Bucket /\ row \in BucketRow \cup {Absent}
        /\ SetBucket(e.pk, row)
        /\ ParentUndoAllowed(buckets[e.pk] # Absent, BucketInUse(e.pk))
    BY <1>1, <1>4, EntryOf DEF RevertEntry, RevertTarget
  <2>2. enforced => ~BucketInUse(e.pk)
    BY <2>1
    DEF ParentUndoAllowed, IInv, EnforcedReferences, BucketInUse, Resolves
  <2>3. QED
    BY <1>2, <2>1, <2>2, SetBucketTypes, SetBucketKeeps DEF IInv
<1>5. CASE e.table = "cash_spend"
  <2> DEFINE row == RevertTarget(e, spend[e.pk])
  <2>1. /\ e.pk \in RowId /\ e.old \in SpendRow \cup {Absent}
        /\ e.new \in SpendRow \cup {Absent} /\ spend[e.pk] \in SpendRow \cup {Absent}
    BY <1>1, <1>5, EntryOf DEF IInv, TypeOK
  <2>2. row \in SpendRow \cup {Absent}
    BY <1>5, <2>1, MergedTypes DEF RevertTarget
  <2>3. /\ SetSpend(e.pk, row) /\ nextId' = nextId
        /\ row # Absent => ChildAllowed(row)
    BY <1>5 DEF RevertEntry
  <2>4. nextId' \in 1..(MaxRow + 1) /\ nextId <= nextId' /\ e.pk < nextId'
    BY <1>5, <2>3, VocabularyAssumption DEF IInv, TypeOK, IdsSpent
  <2>5. TypeOK' /\ IdsSpent'
    BY <1>2, <2>1, <2>2, <2>3, <2>4, SetSpendTypes DEF IInv
  <2>6. EnforcedReferences' /\ OrderlyRequestsKeepBuckets'
    BY <1>2, <2>1, <2>2, <2>3, SetSpendKeeps
  <2>7. QED
    BY <1>2, <2>5, <2>6 DEF IInv
<1>6. QED
  BY <1>1, <1>3, <1>4, <1>5, EntryOf

\* A restart forgets the decisions, and seeds an empty bucket table.
LEMMA RestartInv ==
  ASSUME IInv, Restart
  PROVE  IInv'
<1>1. /\ work' = [w \in Worker |-> Idle] /\ enforced' = FALSE
      /\ buckets' = buckets \/ (\A b \in Bucket : buckets[b] = Absent)
      /\ UNCHANGED <<suppliers, spend, nextId, log, orderly>>
  BY DEF Restart
<1>2. buckets' \in [Bucket -> BucketRow \cup {Absent}]
  BY DEF Restart, IInv, TypeOK, BucketRow
<1>3. TypeOK'
  BY <1>1, <1>2 DEF IInv, TypeOK
<1>4. OrderlyRequestsKeepBuckets'
  <2>1. \A r \in RowId : spend[r] # Absent => spend[r].bucket \in Bucket
    BY DEF IInv, TypeOK, SpendRow
  <2>2. QED
    BY <1>1, <2>1 DEF IInv, OrderlyRequestsKeepBuckets
<1>5. IdsSpent' /\ EnforcedReferences' /\ Alone'
  BY <1>1 DEF IInv, IdsSpent, EnforcedReferences, Alone
<1>6. QED
  BY <1>3, <1>4, <1>5 DEF IInv

-----------------------------------------------------------------------------
\* The invariant holds at the start.
LEMMA InitIInv == Init => IInv
<1> SUFFICES ASSUME Init PROVE IInv
  OBVIOUS
<1>1. TypeOK
  <2>1. 1 \in 1..(MaxRow + 1)
    BY VocabularyAssumption
  <2>2. buckets \in [Bucket -> BucketRow \cup {Absent}]
    BY DEF Init, BucketRow
  <2>3. work \in [Worker -> Pending \cup {Idle}]
    BY DEF Init
  <2>4. QED
    BY <2>1, <2>2, <2>3 DEF Init, TypeOK
<1>2. \A w \in Worker : work[w] = Idle
  BY DEF Init
<1>3. IdsSpent /\ EnforcedReferences /\ OrderlyRequestsKeepBuckets /\ Alone
  BY <1>2
  DEF Init, IdsSpent, EnforcedReferences, OrderlyRequestsKeepBuckets, Alone
<1>4. QED
  BY <1>1, <1>3 DEF IInv

\* Every step keeps the invariant.
LEMMA NextIInv == IInv /\ [Next]_vars => IInv'
<1> SUFFICES ASSUME IInv, [Next]_vars PROVE IInv'
  OBVIOUS
<1>1. CASE UNCHANGED vars
  BY <1>1 DEF vars, IInv, TypeOK, IdsSpent, EnforcedReferences, Resolves,
              OrderlyRequestsKeepBuckets, Alone, Others, StillHolds, Pickable,
              Importable, BucketInUse
<1>2. QED
  BY <1>1, LookInv, CheckUnlockedInv, WriteDecidedInv, DirectInv, UndoInv, RestartInv
  DEF Next, Undo

\* The invariant always holds.
LEMMA Invariance == Spec => []IInv
  BY InitIInv, NextIInv, PTL DEF Spec

\* The three tables, the log, the ids and the decisions keep their types, and
\* every entry of the log records a change.
THEOREM TypeCorrect == Spec => []TypeOK
<1>1. IInv => TypeOK
  BY DEF IInv
<1>2. QED
  BY <1>1, Invariance, PTL

\* While the process that migrated the database runs, every cash-spend row's
\* supplier and bucket exist, through races, imports and undos.
THEOREM ReferencesHold == Spec => []EnforcedReferences
<1>1. IInv => EnforcedReferences
  BY DEF IInv
<1>2. QED
  BY <1>1, Invariance, PTL

\* With no undo and no two requests at once, every bucket a row names exists,
\* enforced or not, through restarts too.
THEOREM RoutesKeepBuckets == Spec => []OrderlyRequestsKeepBuckets
<1>1. IInv => OrderlyRequestsKeepBuckets
  BY DEF IInv
<1>2. QED
  BY <1>1, Invariance, PTL

\* Which steps move a cash-spend row.
LEMMA OnlySpendWritesMoveRows ==
  ASSUME Next, NEW r \in RowId, spend'[r] # spend[r]
  PROVE  \/ \E w \in Worker : CreateCashSpend(w) \/ UpdateCashSpend(w) \/ ApplyImport(w)
         \/ \E q \in RowId : DeleteCashSpend(q)
         \/ Undo
<1>1. ASSUME NEW w \in Worker, Look(w) PROVE UNCHANGED spend
  BY <1>1 DEF Look, CheckDeleteSupplier, CheckDeleteBucket, CheckCreateSpend,
              CheckEditSpend, ParseImport, Decide
<1>2. ASSUME NEW w \in Worker,
             \/ DeleteSupplier(w) \/ CheckUnlocked(w) \/ DeleteUnlocked(w)
             \/ DeleteSpendBucket(w)
      PROVE  UNCHANGED spend
  BY <1>2
  DEF DeleteSupplier, CheckUnlocked, DeleteUnlocked, DeleteSpendBucket,
      SetSupplier, SetBucket
<1>3. ASSUME NEW s \in Supplier, NEW n \in Name, CreateSupplier(s,
             n) \/ EditSupplier(s, n)
      PROVE  UNCHANGED spend
  BY <1>3 DEF CreateSupplier, EditSupplier, SetSupplier
<1>4. ASSUME NEW b \in Bucket, CreateSpendBucket(b) \/ RetireSpendBucket(b)
      PROVE  UNCHANGED spend
  BY <1>4 DEF CreateSpendBucket, RetireSpendBucket, SetBucket
<1>5. Restart => UNCHANGED spend
  BY DEF Restart
<1>6. QED
  BY <1>1, <1>2, <1>3, <1>4, <1>5 DEF Next, WriteDecided, Direct

\* With no undo and no two requests at once, only an import brings a row to a
\* retired bucket.
THEOREM LiveVocabularyHolds == Spec => LiveVocabulary
<1>1. ASSUME IInv, Next, orderly', NEW r \in RowId, ArrivesOnRetired(r)
      PROVE  \E w \in Worker : Doing(w, "import") /\ ApplyImport(w)
  <2>1. spend'[r] # spend[r] /\ spend'[r] # Absent
    BY <1>1 DEF ArrivesOnRetired
  <2>2. ASSUME NEW w \in Worker, CreateCashSpend(w) PROVE FALSE
    <3>1. orderly /\ work[w] # Idle
      BY <1>1, <2>2 DEF CreateCashSpend, Done, Doing, Idle
    <3>2. buckets[work[w].row.bucket] = "live"
      BY <1>1, <2>2, <3>1
      DEF IInv, Alone, StillHolds, Pickable, CreateCashSpend, Doing
    <3>3. /\ buckets' = buckets
          /\ spend' = spend \/ spend' = [spend EXCEPT ![nextId] = work[w].row]
      BY <2>2 DEF CreateCashSpend, SetSpend
    <3>4. spend'[r] = work[w].row
      BY <1>1, <2>1, <3>3 DEF IInv, TypeOK
    <3>5. QED
      BY <1>1, <3>2, <3>3, <3>4 DEF ArrivesOnRetired
  <2>3. ASSUME NEW w \in Worker, UpdateCashSpend(w) PROVE FALSE
    <3>1. orderly /\ work[w] # Idle
      BY <1>1, <2>3 DEF UpdateCashSpend, Done, Doing, Idle
    <3>2. /\ spend[work[w].id] # Absent
          /\ work[w].row.bucket # spend[work[w].id].bucket =>
               buckets[work[w].row.bucket] = "live"
      BY <1>1, <2>3, <3>1
      DEF IInv, Alone, StillHolds, Pickable, UpdateCashSpend, Doing
    <3>3. /\ buckets' = buckets
          /\ spend' = spend \/ spend' = [spend EXCEPT ![work[w].id] = work[w].row]
      BY <2>3 DEF UpdateCashSpend, SetSpend
    <3>4. spend'[r] = work[w].row /\ r = work[w].id
      BY <1>1, <2>1, <3>3 DEF IInv, TypeOK
    <3>5. QED
      BY <1>1, <3>2, <3>3, <3>4 DEF ArrivesOnRetired
  <2>4. ASSUME NEW q \in RowId, DeleteCashSpend(q) PROVE FALSE
    BY <1>1, <2>1, <2>4 DEF DeleteCashSpend, SetSpend, IInv, TypeOK
  <2>5. ~Undo
    BY <1>1 DEF Undo, RevertEntry
  <2>6. PICK w \in Worker : ApplyImport(w)
    BY <1>1, <2>1, <2>2, <2>3, <2>4, <2>5, OnlySpendWritesMoveRows
  <2>7. QED
    BY <2>6 DEF ApplyImport
<1>2. IInv /\ [Next]_vars =>
        [orderly' => \A r \in RowId : ArrivesOnRetired(r) =>
           \E w \in Worker : Doing(w, "import") /\ ApplyImport(w)]_vars
  BY <1>1
<1>3. QED
  BY <1>2, Invariance, PTL DEF Spec, LiveVocabulary

\* A step that takes a supplier in use is an undo, or a delete without the lock.
LEMMA OnlyUndoTakesUsedSuppliers ==
  ASSUME IInv, Next, NEW s \in Supplier,
         suppliers[s] # Absent, SupplierInUse(s), suppliers'[s] = Absent
  PROVE  Undo \/ \E w \in Worker : Doing(w, "unlocked delete") /\ DeleteUnlocked(w)
<1>1. ASSUME NEW w \in Worker, Look(w) PROVE UNCHANGED suppliers
  BY <1>1 DEF Look, CheckDeleteSupplier, CheckDeleteBucket, CheckCreateSpend,
              CheckEditSpend, ParseImport, Decide
<1>2. ASSUME NEW w \in Worker, DeleteSupplier(w)
      PROVE  suppliers'[s] = suppliers[s]
  <2>1. \/ UNCHANGED suppliers
        \/ /\ ~SupplierInUse(work[w].supplier)
           /\ suppliers' = [suppliers EXCEPT ![work[w].supplier] = Absent]
    BY <1>2 DEF DeleteSupplier, SupplierDeletable, SetSupplier
  <2>2. QED
    BY <2>1 DEF IInv, TypeOK
<1>3. ASSUME NEW w \in Worker,
             \/ CheckUnlocked(w) \/ DeleteSpendBucket(w) \/ CreateCashSpend(w)
             \/ UpdateCashSpend(w) \/ ApplyImport(w)
      PROVE  UNCHANGED suppliers
  BY <1>3 DEF CheckUnlocked, DeleteSpendBucket, CreateCashSpend, UpdateCashSpend, ApplyImport,
              SetBucket, SetSpend
<1>4. ASSUME NEW t \in Supplier, NEW n \in Name, CreateSupplier(t,
             n) \/ EditSupplier(t, n)
      PROVE  suppliers'[s] # Absent
  BY <1>4, VocabularyAssumption
  DEF CreateSupplier, EditSupplier, SetSupplier, IInv, TypeOK
<1>5. ASSUME NEW b \in Bucket, CreateSpendBucket(b) \/ RetireSpendBucket(b)
      PROVE  UNCHANGED suppliers
  BY <1>5 DEF CreateSpendBucket, RetireSpendBucket, SetBucket
<1>6. ASSUME NEW r \in RowId, DeleteCashSpend(r) PROVE UNCHANGED suppliers
  BY <1>6 DEF DeleteCashSpend, SetSpend
<1>7. Restart => UNCHANGED suppliers
  BY DEF Restart
<1>8. ASSUME NEW w \in Worker, DeleteUnlocked(w) PROVE Doing(w, "unlocked delete")
  BY <1>8 DEF DeleteUnlocked
<1>9. QED
  BY <1>1, <1>2, <1>3, <1>4, <1>5, <1>6, <1>7, <1>8 DEF Next, WriteDecided, Direct

\* However requests interleave, only an undo, or a delete that another thread's
\* batch let past the lock, takes a supplier some row names.
THEOREM UsedSuppliersSpared == Spec => DeletesSpareUsedSuppliers
<1>1. IInv /\ [Next]_vars =>
        [\A s \in Supplier :
           suppliers[s] # Absent /\ SupplierInUse(s) /\ suppliers'[s] = Absent
         => Undo \/ \E w \in Worker : Doing(w, "unlocked delete") /\ DeleteUnlocked(w)]_vars
  BY OnlyUndoTakesUsedSuppliers
<1>2. QED
  BY <1>1, Invariance, PTL DEF Spec, DeletesSpareUsedSuppliers
=============================================================================
