------------------------- MODULE ConfigAuditProofs -------------------------
(***************************************************************************)
(* Proofs about ConfigAudit, for any set of keys, values and sessions and  *)
(* logs of any length: the state is well typed, the audit trail is always  *)
(* complete, undoing the newest entry of a row is exact, and undoing a     *)
(* session restores what only it moved and spares what it never moved.     *)
(*                                                                         *)
(* Journal is nearly inductive.  A session undo that dies reinstates the   *)
(* state saved when it began, so the invariant IInv carries the journal of *)
(* that state too, and that the entries still to undo are entries of the   *)
(* log.  The two facts about a finished session undo need what holds in    *)
(* the middle of one, UInv: the loop works from the end, and after each    *)
(* entry the columns only the session moved are back to before the oldest  *)
(* entry undone so far.                                                    *)
(***************************************************************************)
EXTENDS ConfigAudit, SetInduction, TLAPS

\* The inductive invariant: well-typed, a complete trail, now and in the state
\* a running session undo would fall back to.
IInv ==
  /\ TypeOK
  /\ Journal
  /\ SavedJournal
  /\ unwind.active => unwind.todo \subseteq DOMAIN log /\ unwind.by \in Session

-----------------------------------------------------------------------------
(***************************************************************************)
(* Lemmas about the journal, over any rows r and any log l.                *)
(***************************************************************************)

\* What start-up may do to a row it may not do twice: standing in for a row
\* that stands in for another is standing in for the first.
LEMMA LinkedTransitive ==
  ASSUME NEW k \in Key, NEW a \in RowOrNone, NEW b, NEW c,
         Linked(k, a, b), Linked(k, b, c)
  PROVE  Linked(k, a, c)
<1>1. CASE b = a \/ c = b
  BY <1>1 DEF Linked
<1>2. CASE b # a /\ c # b
  <2>1. CASE k[1] = "recipes"
    <3>1. AtLegacyYield(a) /\ b = Backfilled(a) /\ AtLegacyYield(b)
      BY <1>2, <2>1 DEF Linked
    <3>2. b["flag"] = Estimated
      BY <3>1 DEF AtLegacyYield, Backfilled, Backfill, RowOrNone, Row, Column
    <3>3. QED
      BY <3>1, <3>2, ValuesAssumption DEF AtLegacyYield, Legacy
  <2>2. CASE k[1] = "spend_buckets"
    BY <1>2, <2>2 DEF Linked
  <2>3. QED
    BY <1>2, <2>1, <2>2 DEF Linked
<1>3. QED
  BY <1>1, <1>2

\* Appending an entry leaves what the earlier entries say of a row untouched.
LEMMA FollowsAppend ==
  ASSUME NEW l \in Seq(Entry), NEW e \in Entry, NEW k \in Key, NEW row,
         NEW n \in 0..Len(l)
  PROVE  Follows(Append(l, e), k, n, row) <=> Follows(l, k, n, row)
<1>1. \A j \in 1..n : Append(l, e)[j] = l[j]
  OBVIOUS
<1>2. \A i \in 1..n : \A j \in (i + 1)..n : j \in 1..n
  OBVIOUS
<1>3. \A i \in 1..n : LatestFor(Append(l, e), k, n, i) <=> LatestFor(l, k, n, i)
  BY <1>1, <1>2 DEF LatestFor
<1>4. QED
  BY <1>1, <1>3 DEF Follows

\* Writing a row and recording the write keeps the trail complete: the one
\* fact every audited operation and every undo rests on.
LEMMA RecordedKeepsJournal ==
  ASSUME NEW r \in [Key -> RowOrNone], NEW l \in Seq(Entry), NEW k \in Key,
         NEW v \in RowOrNone, NEW s \in Session, JournalOf(r, l)
  PROVE  JournalOf([r EXCEPT ![k] = v], Recorded(l, k, r[k], v, s))
<1>1. CASE r[k] = v
  <2>1. [r EXCEPT ![k] = v] = r
    BY <1>1
  <2>2. QED
    BY <1>1, <2>1 DEF Recorded
<1>2. CASE r[k] # v
  <2> DEFINE e == [key |-> k, old |-> r[k], new |-> v, session |-> s]
             m == Append(l, e)
             n == Len(l)
             w == [r EXCEPT ![k] = v]
  <2>1. Recorded(l, k, r[k], v, s) = m
    BY <1>2 DEF Recorded
  <2>2. e \in Entry /\ n \in Nat
    BY DEF Entry
  <2>3. Len(m) = n + 1 /\ m[n + 1] = e /\ \A j \in 1..n : m[j] = l[j]
    BY <2>2
  <2>4. ASSUME NEW j \in 1..n PROVE l[j].key \in Key
    <3>1. l[j] \in Entry
      OBVIOUS
    <3>2. QED
      BY <3>1 DEF Entry
  <2>5. ASSUME NEW j \in 1..(n + 1)
        PROVE  Follows(m, m[j].key, j - 1, m[j].old) /\ m[j].old # m[j].new
    <3>1. CASE j = n + 1
      <4>1. Follows(l, k, n, r[k])
        BY DEF JournalOf
      <4>2. Follows(m, k, n, r[k])
        BY <4>1, <2>2, FollowsAppend
      <4>3. QED
        BY <1>2, <2>2, <2>3, <3>1, <4>2
    <3>2. CASE j \in 1..n
      <4>1. Follows(l, l[j].key, j - 1, l[j].old) /\ l[j].old # l[j].new
        BY <3>2 DEF JournalOf
      <4>2. j - 1 \in 0..n
        BY <2>2, <3>2
      <4>3. Follows(m, l[j].key, j - 1, l[j].old)
        BY <2>2, <2>4, <3>2, <4>1, <4>2, FollowsAppend
      <4>4. QED
        BY <2>3, <3>2, <4>1, <4>3
    <3>3. QED
      BY <2>2, <3>1, <3>2
  <2>6. ASSUME NEW q \in Key
        PROVE  Follows(m, q, n + 1, w[q])
    <3>1. CASE q = k
      <4>1. \A i \in 1..(n + 1) : LatestFor(m, q, n + 1, i) => i = n + 1
        BY <2>2, <2>3, <3>1 DEF LatestFor
      <4>2. w[q] = v
        BY <3>1
      <4>3. m[n + 1].key = q /\ m[n + 1].new = v
        BY <2>3, <3>1
      <4>4. QED
        BY <2>2, <4>1, <4>2, <4>3 DEF Follows, Linked
    <3>2. CASE q # k
      <4>1. Follows(l, q, n, r[q]) /\ w[q] = r[q]
        BY <3>2 DEF JournalOf
      <4>2. m[n + 1].key # q
        BY <2>3, <3>2
      <4>3. ASSUME NEW i \in 1..(n + 1), LatestFor(m, q, n + 1, i)
            PROVE  Linked(q, m[i].new, w[q])
        <5>1. i \in 1..n
          BY <2>2, <4>2, <4>3 DEF LatestFor
        <5>2. \A j \in (i + 1)..n : j \in (i + 1)..(n + 1) /\ m[j] = l[j]
          BY <2>2, <2>3, <5>1
        <5>3. LatestFor(l, q, n, i)
          BY <2>3, <4>3, <5>1, <5>2 DEF LatestFor
        <5>4. QED
          BY <2>3, <4>1, <5>1, <5>3 DEF Follows
      <4>4. ASSUME \A j \in 1..(n + 1) : m[j].key # q
            PROVE  Linked(q, Seed[q], w[q])
        <5>1. \A j \in 1..n : l[j].key # q
          BY <2>2, <2>3, <4>4
        <5>2. QED
          BY <4>1, <5>1 DEF Follows
      <4>5. QED
        BY <4>3, <4>4 DEF Follows
    <3>3. QED
      BY <3>1, <3>2
  <2>7. DOMAIN m = 1..(n + 1)
    BY <2>2, <2>3
  <2>8. QED
    BY <2>1, <2>3, <2>5, <2>6, <2>7 DEF JournalOf
<1>3. QED
  BY <1>1, <1>2

\* Start-up replaces rows only by rows that may stand in for them, so the
\* trail stays complete without an entry.
LEMMA LinkedKeepsJournal ==
  ASSUME NEW r \in [Key -> RowOrNone], NEW w \in [Key -> RowOrNone],
         NEW l \in Seq(Entry), JournalOf(r, l),
         \A k \in Key : Linked(k, r[k], w[k])
  PROVE  JournalOf(w, l)
<1>1. ASSUME NEW k \in Key
      PROVE  Follows(l, k, Len(l), w[k])
  <2>1. Follows(l, k, Len(l), r[k]) /\ Linked(k, r[k], w[k])
    BY DEF JournalOf
  <2>2. ASSUME NEW i \in 1..Len(l), LatestFor(l, k, Len(l), i)
        PROVE  Linked(k, l[i].new, w[k])
    <3>0. l[i] \in Entry
      OBVIOUS
    <3>1. l[i].new \in RowOrNone
      BY <3>0 DEF Entry
    <3>2. Linked(k, l[i].new, r[k])
      BY <2>1, <2>2 DEF Follows
    <3>3. QED
      BY <2>1, <3>1, <3>2, LinkedTransitive
  <2>3. (\A j \in 1..Len(l) : l[j].key # k) => Linked(k, Seed[k], w[k])
    <3>1. Seed[k] \in RowOrNone
      BY ValuesAssumption
    <3>2. QED
      BY <2>1, <3>1, LinkedTransitive DEF Follows
  <2>4. QED
    BY <2>2, <2>3 DEF Follows
<1>2. QED
  BY <1>1 DEF JournalOf

-----------------------------------------------------------------------------
(***************************************************************************)
(* The two ways a step changes rows and log.                               *)
(***************************************************************************)

\* What an undo puts back is a row of the table, or none.
LEMMA RevertTargetType ==
  ASSUME NEW old \in RowOrNone, NEW new \in RowOrNone, NEW cur \in RowOrNone
  PROVE  RevertTarget(old, new, cur) \in RowOrNone
BY DEF RevertTarget, RowOrNone, Row

\* A recorded log is a log.
LEMMA RecordedType ==
  ASSUME NEW l \in Seq(Entry), NEW k \in Key, NEW old \in RowOrNone,
         NEW new \in RowOrNone, NEW s \in Session
  PROVE  /\ Recorded(l, k, old, new, s) \in Seq(Entry)
         /\ DOMAIN l \subseteq DOMAIN Recorded(l, k, old, new, s)
<1>1. [key |-> k, old |-> old, new |-> new, session |-> s] \in Entry
  BY DEF Entry
<1>2. QED
  BY <1>1 DEF Recorded

\* Every audited operation is a write of one well-typed row.
LEMMA WritePreserves ==
  ASSUME IInv, NEW k \in Key, NEW row \in RowOrNone, NEW s \in Session,
         Write(k, row, s)
  PROVE  IInv'
<1>1. rows[k] \in RowOrNone
  BY DEF IInv, TypeOK
<1>2. TypeOK'
  BY <1>1, RecordedType DEF IInv, TypeOK, Write
<1>3. Journal'
  BY <1>1, RecordedKeepsJournal DEF IInv, TypeOK, Write, Journal
<1>4. ~unwind'.active
  BY DEF Write
<1>5. QED
  BY <1>2, <1>3, <1>4 DEF IInv, SavedJournal

\* Undoing one entry of the log keeps rows and log well typed, the trail
\* complete and the entries so far in place.
LEMMA RevertOnePreserves ==
  ASSUME IInv, NEW i \in DOMAIN log, NEW s \in Session, RevertOne(log[i], s)
  PROVE  /\ rows' \in [Key -> RowOrNone]
         /\ log' \in Seq(Entry)
         /\ DOMAIN log \subseteq DOMAIN log'
         /\ Journal'
<1> DEFINE e == log[i]
           target == RevertTarget(e.old, e.new, rows[e.key])
<1>1. e \in Entry
  BY DEF IInv, TypeOK
<1>2. e.key \in Key /\ rows[e.key] \in RowOrNone /\ target \in RowOrNone
  BY <1>1, RevertTargetType DEF IInv, TypeOK, Entry
<1>3. /\ rows' = [rows EXCEPT ![e.key] = target]
      /\ log' = Recorded(log, e.key, rows[e.key], target, s)
  BY DEF RevertOne
<1> HIDE DEF e, target
<1>4. rows \in [Key -> RowOrNone] /\ log \in Seq(Entry) /\ JournalOf(rows, log)
  BY DEF IInv, TypeOK, Journal
<1>5. JournalOf(rows', log')
  BY <1>2, <1>3, <1>4, RecordedKeepsJournal
<1>6. QED
  BY <1>2, <1>3, <1>4, <1>5, RecordedType DEF Journal

\* Every operation on a table is a write, of a row of the table or of none.
LEMMA OperationPreserves ==
  ASSUME IInv, NEW s \in Session, Upsert(s) \/ Create(s) \/ Amend(s) \/ Delete(s)
  PROVE  IInv'
<1>1. \A t \in Table, p \in Pk : <<t, p>> \in Key /\ rows[<<t, p>>] \in RowOrNone
  BY DEF IInv, TypeOK, Key
<1>2. NoRow \in RowOrNone /\ Row \subseteq RowOrNone
  BY DEF RowOrNone
<1>4. \A row \in RowOrNone, c \in Column, v \in Value :
        row # NoRow => [row EXCEPT ![c] = v] \in Row
  BY DEF Row, RowOrNone
<1>5. \A t \in Table, p \in Pk, row \in RowOrNone : Write(<<t, p>>, row, s) => IInv'
  BY <1>1, WritePreserves
<1>6. CASE Upsert(s)
  BY <1>2, <1>5, <1>6 DEF Upsert, SaveCost, SaveMapping, SaveRecipe, Table
<1>7. CASE Create(s)
  BY <1>2, <1>5, <1>7
  DEF Create, CreateSku, CreateSupplier, CreateCashSpend, CreateFixedCost,
      CreateSpendBucket, Table
<1>8. CASE Amend(s)
  <2>1. PICK p \in Pk, v \in Value :
          \/ BackdateCost(p, v, s)
          \/ EndFixedCost(p, v, s)
          \/ UpdateSupplier(p, v, s)
          \/ UpdateCashSpend(p, v, s)
          \/ RetireSpendBucket(p, v, s)
    BY <1>8 DEF Amend
  <2>2. \A t \in Table, c \in Column :
          Exists(<<t, p>>) /\ Write(<<t, p>>, [rows[<<t, p>>] EXCEPT ![c] = v], s)
            => IInv'
    BY <1>1, <1>2, <1>4, <1>5 DEF Exists
  <2>3. QED
    BY <2>1, <2>2
    DEF BackdateCost, EndFixedCost, UpdateSupplier, UpdateCashSpend,
        RetireSpendBucket, Table, Column
<1>9. CASE Delete(s)
  BY <1>2, <1>5, <1>9
  DEF Delete, DeleteRecipe, DeleteFixedCost, DeleteSupplier, DeleteCashSpend,
      DeleteSpendBucket, Table
<1>10. QED
  BY <1>6, <1>7, <1>8, <1>9

\* A start only replaces rows by rows that may stand in for them.
LEMMA RestartPreserves ==
  ASSUME IInv, NEW P \in SUBSET Pk, Restart(P)
  PROVE  IInv'
<1>1. ASSUME NEW k \in Key
      PROVE  Started(k, P) \in RowOrNone /\ Linked(k, rows[k], Started(k, P))
  <2>1. rows[k] \in RowOrNone /\ SeedBucket[k[2]] \in RowOrNone
    BY ValuesAssumption DEF IInv, TypeOK, Key
  <2>2. CASE k[1] = "recipes" /\ k[2] \in P
    <3>1. k = <<"recipes", k[2]>>
      BY <2>2 DEF Key
    <3>2. AtLegacyYield(rows[k])
      BY <2>2, <3>1 DEF Restart
    <3>3. Backfilled(rows[k]) \in RowOrNone
      BY <2>1, <3>2, ValuesAssumption
      DEF AtLegacyYield, Backfilled, Backfill, RowOrNone, Row, Column
    <3>4. QED
      BY <2>2, <3>2, <3>3 DEF Started, Linked
  <2>3. CASE k[1] = "spend_buckets" /\ NoBuckets
    <3>1. k = <<"spend_buckets", k[2]>> /\ k[2] \in Pk
      BY <2>3 DEF Key
    <3>2. rows[k] = NoRow
      BY <2>3, <3>1 DEF NoBuckets, Exists
    <3>3. QED
      BY <2>1, <2>3, <3>2 DEF Started, Linked
  <2>4. QED
    BY <2>1, <2>2, <2>3 DEF Started, Linked
<1>2. rows' \in [Key -> RowOrNone] /\ \A k \in Key : Linked(k, rows[k], rows'[k])
  BY <1>1 DEF Restart
<1>3. TypeOK'
  BY <1>2 DEF Restart, IInv, TypeOK
<1>4. Journal'
  <2>1. JournalOf(rows', log)
    BY <1>2, LinkedKeepsJournal DEF IInv, TypeOK, Journal
  <2>2. QED
    BY <2>1 DEF Journal, Restart
<1>5. QED
  BY <1>3, <1>4 DEF Restart, IInv, SavedJournal

-----------------------------------------------------------------------------
(***************************************************************************)
(* The theorems.                                                           *)
(***************************************************************************)

\* The seeded database with its empty log satisfies the invariant.
LEMMA InitIInv == Init => IInv
<1> SUFFICES ASSUME Init PROVE IInv
  OBVIOUS
<1>1. TypeOK
  BY ValuesAssumption DEF Init, TypeOK, Idle
<1>2. Journal
  BY DEF Init, Journal, JournalOf, Follows, LatestFor, Linked
<1>3. QED
  BY <1>1, <1>2 DEF Init, Idle, IInv, SavedJournal

\* Every step of the store preserves it.
LEMMA NextIInv == IInv /\ [Next]_vars => IInv'
<1> SUFFICES ASSUME IInv, [Next]_vars PROVE IInv'
  OBVIOUS
<1>1. ASSUME NEW s \in Session, Upsert(s) \/ Create(s) \/ Amend(s) \/ Delete(s)
      PROVE  IInv'
  BY <1>1, OperationPreserves
<1>2. ASSUME NEW s \in Session, NEW i \in DOMAIN log, RevertEntry(i, s)
      PROVE  IInv'
  <2>1. RevertOne(log[i], s) /\ unwind' = unwind /\ ~unwind.active
    BY <1>2 DEF RevertEntry
  <2>2. /\ rows' \in [Key -> RowOrNone] /\ log' \in Seq(Entry) /\ Journal'
    BY <2>1, RevertOnePreserves
  <2>3. QED
    BY <2>1, <2>2 DEF IInv, TypeOK, SavedJournal
<1>3. ASSUME NEW t \in Session, NEW s \in Session, BeginUnwind(t, s)
      PROVE  IInv'
  <2>1. EntriesOf(t) \subseteq DOMAIN log /\ DOMAIN log \subseteq Nat
    BY DEF EntriesOf, IInv, TypeOK
  <2>2. TypeOK'
    BY <1>3, <2>1 DEF BeginUnwind, IInv, TypeOK
  <2>3. QED
    BY <1>3, <2>1, <2>2 DEF BeginUnwind, IInv, Journal, SavedJournal
<1>4. ASSUME UnwindStep
      PROVE  IInv'
  <2>1. PICK i \in unwind.todo :
          RevertOne(log[i], unwind.by) /\ unwind' = [unwind EXCEPT !.todo = @ \ {i}]
    BY <1>4 DEF UnwindStep
  <2>2. i \in DOMAIN log /\ unwind.by \in Session
    BY <1>4, <2>1 DEF UnwindStep, IInv
  <2>3. /\ rows' \in [Key -> RowOrNone] /\ log' \in Seq(Entry)
        /\ DOMAIN log \subseteq DOMAIN log' /\ Journal'
    BY <2>1, <2>2, RevertOnePreserves
  <2>4. TypeOK'
    BY <2>1, <2>3 DEF IInv, TypeOK
  <2>5. QED
    BY <1>4, <2>1, <2>3, <2>4 DEF IInv, TypeOK, SavedJournal, UnwindStep
<1>5. ASSUME CommitUnwind
      PROVE  IInv'
  BY <1>5, ValuesAssumption DEF CommitUnwind, Idle, IInv, TypeOK, Journal, SavedJournal
<1>6. ASSUME RollbackUnwind
      PROVE  IInv'
  BY <1>6, ValuesAssumption
  DEF RollbackUnwind, Idle, IInv, TypeOK, Journal, SavedJournal
<1>7. ASSUME NEW P \in SUBSET Pk, Restart(P)
      PROVE  IInv'
  BY <1>7, RestartPreserves
<1>8. ASSUME UNCHANGED vars
      PROVE  IInv'
  BY <1>8 DEF vars, IInv, TypeOK, Journal, SavedJournal
<1>9. QED
  BY <1>1, <1>2, <1>3, <1>4, <1>5, <1>6, <1>7, <1>8 DEF Next

LEMMA Invariance == Spec => []IInv
BY InitIInv, NextIInv, PTL DEF Spec

\* The store's state stays well typed: no operation, undo or failed undo ever
\* stores a partial row or a malformed entry.
THEOREM TypeCorrect == Spec => []TypeOK
<1>1. IInv => TypeOK
  BY DEF IInv
<1>2. QED
  BY <1>1, Invariance, PTL

\* The audit trail accounts for every row at all times.
THEOREM JournalCorrect == Spec => []Journal
<1>1. IInv => Journal
  BY DEF IInv
<1>2. QED
  BY <1>1, Invariance, PTL

\* The state a dying session undo falls back to has a complete trail as well.
THEOREM SavedJournalCorrect == Spec => []SavedJournal
<1>1. IInv => SavedJournal
  BY DEF IInv
<1>2. QED
  BY <1>1, Invariance, PTL

\* Undoing the entry that left a row as it is gives back the row before it,
\* but for the columns that the entry did not move and start-up has rewritten.
LEMMA RevertTargetExact ==
  ASSUME NEW k \in Key, NEW old \in RowOrNone, NEW new \in RowOrNone,
         NEW cur \in RowOrNone, Linked(k, new, cur), NEW c \in Column
  PROVE  LET target == RevertTarget(old, new, cur) IN
         \/ Cell(target, c) = Cell(old, c)
         \/ /\ k[1] = "recipes" /\ AtLegacyYield(new) /\ cur = Backfilled(new)
            /\ Cell(old, c) = Cell(new, c)
            /\ Cell(target, c) = Cell(cur, c)
<1>1. CASE old = NoRow \/ new = NoRow \/ cur = NoRow
  BY <1>1 DEF RevertTarget
<1>2. CASE old # NoRow /\ new # NoRow /\ cur # NoRow
  <2> DEFINE target == [x \in Column |-> IF old[x] # new[x] THEN old[x] ELSE cur[x]]
  <2>1. RevertTarget(old, new, cur) = target
    BY <1>2 DEF RevertTarget
  <2>2. old \in Row /\ new \in Row /\ cur \in Row
    BY <1>2 DEF RowOrNone
  <2>3. target \in Row /\ target[c] = IF old[c] # new[c] THEN old[c] ELSE cur[c]
    BY <2>2 DEF Row
  <2> HIDE DEF target
  <2>4. target # NoRow
    BY <2>3, ValuesAssumption
  <2>5. CASE old[c] # new[c] \/ cur = new
    BY <1>2, <2>1, <2>3, <2>4, <2>5 DEF Cell
  <2>6. CASE old[c] = new[c] /\ cur # new
    <3>1. k[1] = "recipes" /\ AtLegacyYield(new) /\ cur = Backfilled(new)
      BY <1>2, <2>6 DEF Linked
    <3> QED BY <1>2, <2>1, <2>3, <2>4, <2>6, <3>1 DEF Cell
  <2> QED BY <2>5, <2>6
<1>3. QED
  BY <1>1, <1>2

\* revert_entry on the newest entry of a row gives back the row before it,
\* but for what start-up has rewritten since and the entry had not moved.
THEOREM NewestUndoCorrect == Spec => NewestUndoIsExact
<1>1. ASSUME IInv, NEW i \in DOMAIN log, NEW s \in Session, RevertEntry(i, s),
             LatestFor(log, log[i].key, Len(log), i), NEW c \in Column
      PROVE  \/ Cell(rows'[log[i].key], c) = Cell(log[i].old, c)
             \/ /\ BackfilledSince(log[i])
                /\ ~Moved(log[i], c)
                /\ Cell(rows'[log[i].key], c) = Cell(rows[log[i].key], c)
  <2>1. log[i] \in Entry
    BY <1>1 DEF IInv, TypeOK
  <2>2. /\ log[i].key \in Key /\ log[i].old \in RowOrNone
        /\ log[i].new \in RowOrNone /\ rows[log[i].key] \in RowOrNone
    BY <1>1, <2>1 DEF Entry, IInv, TypeOK
  <2>3. Linked(log[i].key, log[i].new, rows[log[i].key])
    BY <1>1, <2>2 DEF IInv, Journal, JournalOf, Follows, LatestFor
  <2>4. rows' = [rows EXCEPT ![log[i].key] =
                   RevertTarget(log[i].old, log[i].new, rows[log[i].key])]
    BY <1>1 DEF RevertEntry, RevertOne
  <2>5. rows'[log[i].key] = RevertTarget(log[i].old, log[i].new, rows[log[i].key])
    BY <1>1, <2>2, <2>4 DEF IInv, TypeOK
  <2>6. QED
    BY <2>2, <2>3, <2>5, RevertTargetExact DEF BackfilledSince, Moved
<1>2. IInv /\ [Next]_vars =>
        [\A i \in DOMAIN log, s \in Session :
           RevertEntry(i, s) /\ LatestFor(log, log[i].key, Len(log), i)
             => \A c \in Column :
                  \/ Cell(rows'[log[i].key], c) = Cell(log[i].old, c)
                  \/ /\ BackfilledSince(log[i])
                     /\ ~Moved(log[i], c)
                     /\ Cell(rows'[log[i].key], c) = Cell(rows[log[i].key], c)]_vars
  BY <1>1
<1>3. QED
  BY <1>2, Invariance, PTL DEF Spec, NewestUndoIsExact

-----------------------------------------------------------------------------
(***************************************************************************)
(* Undoing a session.                                                      *)
(***************************************************************************)

\* b has the cell a had, but for a recipe's yield estimated in between.
Restored(k, c, a, b) ==
  \/ Cell(b, c) = Cell(a, c)
  \/ /\ k[1] = "recipes" /\ c \in DOMAIN Backfill /\ b # NoRow
     /\ Cell(b, c) = Backfill[c] /\ Cell(a, c) = Legacy[c]

\* b has it, but for that and a bucket written anew in between.
Carried(k, c, a, b) == Restored(k, c, a, b) \/ (k[1] = "spend_buckets" /\ a = NoRow)

\* A row has a cell for each column.
LEMMA Cells ==
  ASSUME NEW a \in RowOrNone, NEW c \in Column
  PROVE  /\ Cell(a, c) \in Value \cup {NoRow}
         /\ Cell(a, c) = NoRow <=> a = NoRow
BY ValuesAssumption DEF Cell, RowOrNone, Row

\* What carries a cell twice carries it.
LEMMA CarriedTransitive ==
  ASSUME NEW k \in Key, NEW c \in Column,
         NEW a \in RowOrNone, NEW b \in RowOrNone, NEW d \in RowOrNone,
         Carried(k, c, a, b), Carried(k, c, b, d)
  PROVE  Carried(k, c, a, d)
BY Cells, ValuesAssumption DEF Carried, Restored

\* What stands in for a row carries its cells.
LEMMA LinkedCarries ==
  ASSUME NEW k \in Key, NEW c \in Column, NEW a \in RowOrNone, NEW b \in RowOrNone,
         Linked(k, a, b)
  PROVE  Carried(k, c, a, b)
<1>1. CASE b = a
  BY <1>1 DEF Carried, Restored
<1>2. CASE k[1] = "recipes" /\ AtLegacyYield(a) /\ b = Backfilled(a)
  <2>1. a \in Row /\ a # NoRow /\ a["mark"] = Legacy.mark /\ a["flag"] = Legacy.flag
    BY <1>2 DEF AtLegacyYield, RowOrNone
  <2>2. /\ b = [a EXCEPT !["mark"] = Backfill.mark, !["flag"] = Backfill.flag]
        /\ b # NoRow
    BY <1>2, <2>1, ValuesAssumption DEF Backfilled, Backfill, Row
  <2>3. /\ DOMAIN Backfill = {"mark", "flag"}
        /\ b["mark"] = Backfill.mark /\ b["flag"] = Backfill.flag
        /\ \A x \in Column : x \notin DOMAIN Backfill => b[x] = a[x]
    BY <2>1, <2>2 DEF Row, Column, Backfill
  <2> QED BY <1>2, <2>1, <2>2, <2>3 DEF Carried, Restored, Cell
<1>3. CASE k[1] = "spend_buckets" /\ a = NoRow
  BY <1>3 DEF Carried
<1> QED BY <1>1, <1>2, <1>3 DEF Linked

\* Undoing an entry restores the cell of its before-state, if what the row has
\* was carried from its after-state.
LEMMA RevertRestores ==
  ASSUME NEW k \in Key, NEW c \in Column, NEW old \in RowOrNone, NEW new \in RowOrNone,
         NEW cur \in RowOrNone, Carried(k, c, new, cur)
  PROVE  Restored(k, c, old, RevertTarget(old, new, cur))
<1>1. CASE old = NoRow \/ new = NoRow \/ cur = NoRow
  BY <1>1 DEF RevertTarget, Restored
<1>2. CASE old # NoRow /\ new # NoRow /\ cur # NoRow
  <2> DEFINE target == [x \in Column |-> IF old[x] # new[x] THEN old[x] ELSE cur[x]]
  <2>1. RevertTarget(old, new, cur) = target
    BY <1>2 DEF RevertTarget
  <2>2. old \in Row /\ new \in Row /\ cur \in Row
    BY <1>2 DEF RowOrNone
  <2>3. target \in Row /\ target[c] = IF old[c] # new[c] THEN old[c] ELSE cur[c]
    BY <2>2 DEF Row
  <2> HIDE DEF target
  <2>4. target # NoRow
    BY <2>3, ValuesAssumption
  <2>5. Restored(k, c, new, cur)
    BY <1>2 DEF Carried
  <2> QED BY <1>2, <2>1, <2>3, <2>4, <2>5 DEF Restored, Cell
<1> QED BY <1>1, <1>2

\* The entries of a row between two of a session that move no cell carry it.
LEMMA JournalCarries ==
  ASSUME NEW r \in [Key -> RowOrNone], NEW l \in Seq(Entry), JournalOf(r, l),
         NEW k \in Key, NEW c \in Column, NEW i \in DOMAIN l, l[i].key = k,
         NEW n \in i..Len(l), NEW row \in RowOrNone, Follows(l, k, n, row),
         \A j \in (i + 1)..n : l[j].key = k => ~Moved(l[j], c)
  PROVE  Carried(k, c, l[i].new, row)
<1> DEFINE Quiet(m) == \A j \in (i + 1)..m : l[j].key = k => ~Moved(l[j], c)
           T == {m \in Nat : \A x \in i..Len(l) : \A b \in RowOrNone :
                   x <= m /\ Quiet(x) /\ Follows(l, k, x, b) => Carried(k, c, l[i].new, b)}
<1>0. /\ i \in Nat /\ i >= 1 /\ Len(l) \in Nat /\ DOMAIN l = 1..Len(l)
      /\ \A j \in DOMAIN l : l[j].old \in RowOrNone /\ l[j].new \in RowOrNone
  <2>1. \A j \in DOMAIN l : l[j] \in Entry
    OBVIOUS
  <2> QED BY <2>1 DEF Entry
<1>1. ASSUME NEW x \in i..Len(l), NEW b \in RowOrNone, Quiet(x), Follows(l, k, x, b),
             \A y \in i..Len(l) : \A d \in RowOrNone :
               y < x /\ Quiet(y) /\ Follows(l, k, y, d) => Carried(k, c, l[i].new, d)
      PROVE  Carried(k, c, l[i].new, b)
  <2> DEFINE S == {j \in 0..x : j \in 1..x /\ l[j].key = k}
  <2>1. i \in S /\ x \in Nat
    BY <1>0
  <2>2. PICK m \in S : \A j \in S : j <= m
    BY <2>1, GreatestNumber
  <2>3. LatestFor(l, k, x, m) /\ m \in i..Len(l) /\ m \in 1..x
    BY <1>0, <2>1, <2>2 DEF LatestFor
  <2>4. Carried(k, c, l[m].new, b)
    <3>1. Linked(k, l[m].new, b)
      BY <1>1, <2>3 DEF Follows
    <3> QED BY <1>0, <2>3, <3>1, LinkedCarries
  <2>5. CASE m = i
    BY <2>4, <2>5
  <2>6. CASE m # i
    <3>1. /\ m - 1 \in i..Len(l) /\ m - 1 < x /\ m \in (i + 1)..x
          /\ m \in DOMAIN l /\ l[m].key = k
      BY <1>0, <2>2, <2>3, <2>6
    <3>2. Follows(l, k, m - 1, l[m].old)
      BY <3>1 DEF JournalOf
    <3>3. Quiet(m - 1)
      BY <1>0, <1>1, <2>3, <3>1
    <3>4. Carried(k, c, l[i].new, l[m].old)
      BY <1>0, <1>1, <3>1, <3>2, <3>3
    <3>5. Carried(k, c, l[m].old, l[m].new)
      BY <1>1, <3>1 DEF Moved, Carried, Restored
    <3> QED BY <1>0, <2>4, <3>1, <3>4, <3>5, CarriedTransitive
  <2> QED BY <2>5, <2>6
<1>2. 0 \in T
  BY <1>0
<1>3. ASSUME NEW m \in T PROVE m + 1 \in T
  <2>1. ASSUME NEW x \in i..Len(l), NEW b \in RowOrNone,
               x <= m + 1, Quiet(x), Follows(l, k, x, b)
        PROVE  Carried(k, c, l[i].new, b)
    <3> HIDE DEF Quiet
    <3>1. CASE x <= m
      BY <2>1, <3>1
    <3>2. CASE x = m + 1
      <4>1. \A y \in i..Len(l) : y < x => y <= m
        BY <1>0, <3>2
      <4> QED BY <1>1, <2>1, <4>1
    <3> QED BY <1>0, <2>1, <3>1, <3>2
  <2> QED BY <2>1
<1>4. T = Nat
  <2>1. T \in SUBSET Nat
    OBVIOUS
  <2> HIDE DEF T
  <2> QED BY <1>2, <1>3, <2>1, NatSetInduction
<1>5. n \in Nat /\ n \in T /\ n <= n
  BY <1>0, <1>4
<1> QED BY <1>5
\* The entries the session undo `u` is about, and those of row k already undone.
Own(u) == {i \in DOMAIN u.log : u.log[i].session = u.target}
Undone(u, k) == {i \in Own(u) \ u.todo : u.log[i].key = k}

\* From entry i on, nobody but the session moved column c of row k.
OnlyMine(u, k, c, i) ==
  \A j \in (i + 1)..Len(u.log) :
    u.log[j].key = k /\ u.log[j].session # u.target => ~Moved(u.log[j], c)

\* The undo works through its entries from the newest to the oldest.
FromTheEnd(u) ==
  /\ u.todo \subseteq Own(u)
  /\ \A i \in Own(u) \ u.todo, j \in u.todo : j < i

\* A row none of whose entries is undone yet is as the undo found it.
Untouched(u, r) == \A k \in Key : Undone(u, k) = {} => r[k] = u.rows[k]

\* A column only the session moved is back at its value before the oldest
\* entry undone so far.
TakenBack(u, r) ==
  \A k \in Key, c \in Column : \A i \in Undone(u, k) :
    (\A j \in Undone(u, k) : i <= j) /\ OnlyMine(u, k, c, i)
      => Restored(k, c, u.log[i].old, r[k])

\* The session left column c of row k alone, and the row is there.
LeftAlone(u, k, c) ==
  \A i \in Own(u) : u.log[i].key = k => ~Moved(u.log[i], c) /\ u.rows[k] # NoRow

\* What the session left alone is as the undo found it.
Spared(u, r) ==
  \A k \in Key, c \in Column :
    LeftAlone(u, k, c) => Cell(r[k], c) = Cell(u.rows[k], c)

\* The log only grows while the undo runs.
Kept(u, l) ==
  /\ DOMAIN u.log \subseteq DOMAIN l
  /\ \A i \in DOMAIN u.log : l[i] = u.log[i]

Unwinding(u, r) ==
  /\ FromTheEnd(u)
  /\ Untouched(u, r)
  /\ TakenBack(u, r)
  /\ Spared(u, r)

\* What holds in the middle of a session undo.
UInv == unwind.active => Kept(unwind, log) /\ Unwinding(unwind, rows)

\* Writing a row and recording the write leaves the entries so far as they were.
LEMMA RecordedKeepsEntries ==
  ASSUME NEW l \in Seq(Entry), NEW k \in Key, NEW old \in RowOrNone,
         NEW new \in RowOrNone, NEW s \in Session, NEW i \in DOMAIN l
  PROVE  Recorded(l, k, old, new, s)[i] = l[i]
BY DEF Recorded

\* Undoing the newest entry left to undo takes the columns only the session
\* moved back to before that entry, spares those it never moved and leaves the
\* other rows alone.
LEMMA StepKeepsUnwinding ==
  ASSUME NEW u, NEW v, NEW r \in [Key -> RowOrNone], NEW w, NEW i \in u.todo,
         u.log \in Seq(Entry), u.rows \in [Key -> RowOrNone], u.todo \subseteq Nat,
         JournalOf(u.rows, u.log), Unwinding(u, r),
         \A j \in u.todo : j <= i,
         v.todo = u.todo \ {i}, v.log = u.log, v.rows = u.rows, v.target = u.target,
         w = [r EXCEPT ![u.log[i].key] =
                RevertTarget(u.log[i].old, u.log[i].new, r[u.log[i].key])]
  PROVE  Unwinding(v, w)
<1> DEFINE k == u.log[i].key
           old == u.log[i].old
           new == u.log[i].new
<1>1. /\ i \in DOMAIN u.log /\ i \in Own(u) /\ u.log[i].session = u.target
      /\ DOMAIN u.log = 1..Len(u.log) /\ Len(u.log) \in Nat
      /\ i \in Nat /\ i >= 1 /\ i <= Len(u.log)
  BY DEF Unwinding, FromTheEnd, Own
<1>2. /\ k \in Key /\ old \in RowOrNone /\ new \in RowOrNone /\ old # new
      /\ \A j \in DOMAIN u.log : u.log[j] \in Entry
  <2>1. \A j \in DOMAIN u.log : u.log[j] \in Entry
    OBVIOUS
  <2>2. u.log[i] \in Entry /\ old # new
    BY <1>1, <2>1 DEF JournalOf
  <2> QED BY <2>1, <2>2 DEF Entry
<1>3. Own(v) = Own(u) /\ Own(u) \subseteq DOMAIN u.log
  BY DEF Own
<1>4. \A q : Undone(v, q) = Undone(u, q) \cup (IF q = k THEN {i} ELSE {})
  BY <1>1, <1>3 DEF Undone
<1>5. \A q, c, j : OnlyMine(v, q, c, j) <=> OnlyMine(u, q, c, j)
  BY DEF OnlyMine
<1>6. \A q \in Key : q # k => w[q] = r[q]
  OBVIOUS
<1>7. w[k] = RevertTarget(old, new, r[k]) /\ r[k] \in RowOrNone
  BY <1>2
<1>8. \A j \in Own(u) : j > i => j \notin u.todo
  BY <1>1, <1>3
<1>9. \A q : \A j \in Undone(u, q) : j \in DOMAIN u.log /\ j > i /\ u.log[j].key = q
  BY DEF Undone, Own, Unwinding, FromTheEnd
<1> HIDE DEF k, old, new
<1>10. FromTheEnd(v)
  <2>1. v.todo \subseteq Own(v)
    BY <1>3 DEF Unwinding, FromTheEnd
  <2>2. ASSUME NEW a \in Own(v) \ v.todo, NEW j \in v.todo PROVE j < a
    <3>1. CASE a = i
      BY <1>1, <3>1
    <3>2. CASE a # i
      BY <1>3, <2>2, <3>2 DEF Unwinding, FromTheEnd
    <3> QED BY <3>1, <3>2
  <2> QED BY <2>1, <2>2 DEF FromTheEnd
<1>11. Untouched(v, w)
  <2>1. ASSUME NEW q \in Key, Undone(v, q) = {} PROVE w[q] = v.rows[q]
    <3>1. q # k /\ Undone(u, q) = {}
      BY <1>4, <2>1
    <3> QED BY <1>6, <3>1 DEF Unwinding, Untouched
  <2> QED BY <2>1 DEF Untouched
\* What the row has now was carried from the after-state of entry i.
<1>12. ASSUME NEW c \in Column, OnlyMine(u, k, c, i)
       PROVE  Carried(k, c, new, r[k])
  <2>1. CASE Undone(u, k) = {}
    <3>1. r[k] = u.rows[k]
      BY <1>2, <2>1 DEF Unwinding, Untouched
    <3>2. Follows(u.log, k, Len(u.log), u.rows[k])
      BY <1>2 DEF JournalOf
    <3>3. \A j \in (i + 1)..Len(u.log) : u.log[j].key = k => ~Moved(u.log[j], c)
      <4>1. ASSUME NEW j \in (i + 1)..Len(u.log), u.log[j].key = k,
                   u.log[j].session = u.target
            PROVE  FALSE
        <5>1. j \in Own(u) /\ j \notin u.todo
          BY <1>1, <1>8, <4>1 DEF Own
        <5> QED BY <2>1, <4>1, <5>1 DEF Undone
      <4> QED BY <1>12, <4>1 DEF OnlyMine
    <3>4. Len(u.log) \in i..Len(u.log) /\ u.rows[k] \in RowOrNone /\ u.log[i].key = k
      BY <1>1, <1>2 DEF k
    <3> QED BY <1>1, <1>2, <3>1, <3>2, <3>3, <3>4, JournalCarries DEF new
  <2>2. CASE Undone(u, k) # {}
    <3>1. Undone(u, k) \subseteq Nat
      BY <1>1, <1>9
    <3>2. PICK m \in Undone(u, k) : \A j \in Undone(u, k) : m <= j
      BY <2>2, <3>1, LeastNumber
    <3>3. m \in DOMAIN u.log /\ m > i /\ m \in Nat /\ m <= Len(u.log)
          /\ u.log[m].key = k
      BY <1>1, <1>9, <3>2
    <3>4. OnlyMine(u, k, c, m)
      BY <1>1, <1>12, <3>3 DEF OnlyMine
    <3>5. Restored(k, c, u.log[m].old, r[k])
      BY <1>2, <3>2, <3>4 DEF Unwinding, TakenBack
    <3>6. Follows(u.log, k, m - 1, u.log[m].old) /\ u.log[m].old \in RowOrNone
      BY <1>2, <3>3 DEF JournalOf, Entry
    <3>7. \A j \in (i + 1)..(m - 1) : u.log[j].key = k => ~Moved(u.log[j], c)
      <4>1. ASSUME NEW j \in (i + 1)..(m - 1), u.log[j].key = k,
                   u.log[j].session = u.target
            PROVE  FALSE
        <5>1. j \in Own(u) /\ j \notin u.todo /\ j < m
          BY <1>1, <1>8, <3>3, <4>1 DEF Own
        <5> QED BY <1>1, <3>2, <3>3, <4>1, <5>1 DEF Undone
      <4>2. \A j \in (i + 1)..(m - 1) : j \in (i + 1)..Len(u.log)
        BY <1>1, <3>3
      <4> QED BY <1>12, <4>1, <4>2 DEF OnlyMine
    <3>8. m - 1 \in i..Len(u.log) /\ u.log[i].key = k
      BY <1>1, <3>3 DEF k
    <3>9. Carried(k, c, new, u.log[m].old)
      BY <1>1, <1>2, <3>6, <3>7, <3>8, JournalCarries DEF new
    <3>10. Carried(k, c, u.log[m].old, r[k])
      BY <3>5 DEF Carried
    <3> QED BY <1>2, <1>7, <3>6, <3>9, <3>10, CarriedTransitive
  <2> QED BY <2>1, <2>2
<1>13. TakenBack(v, w)
  <2>1. ASSUME NEW q \in Key, NEW c \in Column, NEW a \in Undone(v, q),
               \A j \in Undone(v, q) : a <= j, OnlyMine(v, q, c, a)
        PROVE  Restored(q, c, v.log[a].old, w[q])
    <3>1. CASE q = k
      <4>1. i \in Undone(v, q)
        BY <1>4, <3>1
      <4>2. a = i
        <5>1. a = i \/ a \in Undone(u, q)
          BY <1>4, <2>1, <3>1
        <5>2. a <= i
          BY <2>1, <4>1
        <5> QED BY <1>1, <1>9, <5>1, <5>2
      <4>3. Carried(k, c, new, r[k])
        BY <1>5, <1>12, <2>1, <3>1, <4>2
      <4>4. Restored(k, c, old, RevertTarget(old, new, r[k]))
        BY <1>2, <1>7, <4>3, RevertRestores
      <4> QED BY <1>7, <3>1, <4>2, <4>4 DEF old
    <3>2. CASE q # k
      <4>1. Undone(v, q) = Undone(u, q)
        BY <1>4, <3>2
      <4> QED BY <1>5, <1>6, <2>1, <3>2, <4>1 DEF Unwinding, TakenBack
    <3> QED BY <3>1, <3>2
  <2> QED BY <2>1 DEF TakenBack
<1>14. Spared(v, w)
  <2>1. ASSUME NEW q \in Key, NEW c \in Column, LeftAlone(v, q, c)
        PROVE  Cell(w[q], c) = Cell(v.rows[q], c)
    <3>1. LeftAlone(u, q, c)
      BY <1>3, <2>1 DEF LeftAlone
    <3>2. Cell(r[q], c) = Cell(u.rows[q], c)
      BY <3>1 DEF Unwinding, Spared
    <3>3. CASE q = k
      <4>1. ~Moved(u.log[i], c) /\ u.rows[q] # NoRow
        BY <1>1, <3>1, <3>3 DEF LeftAlone, k
      <4>2. Cell(old, c) = Cell(new, c)
        BY <4>1 DEF Moved, old, new
      <4>3. r[k] # NoRow
        <5>1. u.rows[q] \in RowOrNone
          OBVIOUS
        <5> QED BY <1>7, <3>2, <3>3, <4>1, <5>1, Cells
      <4>4. old # NoRow /\ new # NoRow
        BY <1>2, <4>2, Cells
      <4>5. old[c] = new[c]
        BY <4>2, <4>4 DEF Cell
      <4> DEFINE target == [x \in Column |-> IF old[x] # new[x] THEN old[x] ELSE r[k][x]]
      <4>6. w[k] = target
        BY <1>7, <4>3, <4>4 DEF RevertTarget
      <4>7. target \in Row /\ target[c] = r[k][c]
        BY <1>2, <1>7, <4>3, <4>4, <4>5 DEF RowOrNone, Row
      <4> HIDE DEF target
      <4>8. target # NoRow
        BY <4>7, ValuesAssumption
      <4>9. Cell(w[k], c) = Cell(r[k], c)
        BY <4>3, <4>6, <4>7, <4>8 DEF Cell
      <4> QED BY <3>2, <3>3, <4>9
    <3>4. CASE q # k
      BY <1>6, <3>2, <3>4
    <3> QED BY <3>3, <3>4
  <2> QED BY <2>1 DEF Spared
<1> QED BY <1>10, <1>11, <1>13, <1>14 DEF Unwinding

\* A session undo that begins has undone nothing.
LEMMA BeginsUnwinding ==
  ASSUME NEW u, u.todo = Own(u)
  PROVE  Unwinding(u, u.rows)
BY DEF Unwinding, FromTheEnd, Untouched, TakenBack, Spared, Undone

\* Every step keeps what holds in the middle of a session undo.
LEMMA NextUInv == IInv /\ UInv /\ [Next]_vars => UInv'
<1> SUFFICES ASSUME IInv, UInv, [Next]_vars, unwind'.active
             PROVE  Kept(unwind, log)' /\ Unwinding(unwind, rows)'
  BY DEF UInv
<1>1. CASE ~unwind.active
  <2>1. PICK t \in Session, s \in Session : BeginUnwind(t, s)
    <3>1. ASSUME NEW s \in Session, Upsert(s) \/ Create(s) \/ Amend(s) \/ Delete(s)
          PROVE  unwind' = unwind
      BY <3>1
      DEF Upsert, Create, Amend, Delete, SaveCost, SaveMapping, SaveRecipe, CreateSku,
          CreateSupplier, CreateCashSpend, CreateFixedCost, CreateSpendBucket,
          BackdateCost, EndFixedCost, UpdateSupplier, UpdateCashSpend,
          RetireSpendBucket, DeleteRecipe, DeleteFixedCost, DeleteSupplier,
          DeleteCashSpend, DeleteSpendBucket, Write
    <3> QED
      BY <1>1, <3>1
      DEF Next, vars, RevertEntry, UnwindStep, CommitUnwind, RollbackUnwind, Restart
  <2>2. /\ unwind'.target = t /\ unwind'.todo = EntriesOf(t) /\ unwind'.rows = rows
        /\ unwind'.log = log /\ rows' = rows /\ log' = log
    BY <2>1 DEF BeginUnwind
  <2>3. Own(unwind') = EntriesOf(t)
    BY <2>2 DEF Own, EntriesOf
  <2>4. Unwinding(unwind', rows')
    <3>1. Unwinding(unwind', unwind'.rows)
      BY <2>2, <2>3, BeginsUnwinding
    <3> QED BY <2>2, <3>1
  <2>5. Kept(unwind', log')
    BY <2>2 DEF Kept
  <2> QED BY <2>4, <2>5 DEF Kept, Unwinding, FromTheEnd, Untouched, TakenBack, Spared,
                            Undone, Own, OnlyMine, LeftAlone
<1>2. CASE UNCHANGED vars
  BY <1>2 DEF vars, UInv, Kept, Unwinding, FromTheEnd, Untouched, TakenBack, Spared,
              Undone, Own, OnlyMine, LeftAlone
<1>3. CASE unwind.active /\ Next
  <2>1. UnwindStep
    <3>1. \A s \in Session : ~(Upsert(s) \/ Create(s) \/ Amend(s) \/ Delete(s))
      BY <1>3
      DEF Upsert, Create, Amend, Delete, SaveCost, SaveMapping, SaveRecipe, CreateSku,
          CreateSupplier, CreateCashSpend, CreateFixedCost, CreateSpendBucket,
          BackdateCost, EndFixedCost, UpdateSupplier, UpdateCashSpend,
          RetireSpendBucket, DeleteRecipe, DeleteFixedCost, DeleteSupplier,
          DeleteCashSpend, DeleteSpendBucket, Write
    <3>2. ~(CommitUnwind \/ RollbackUnwind)
      BY DEF CommitUnwind, RollbackUnwind, Idle
    <3> QED BY <1>3, <3>1, <3>2 DEF Next, RevertEntry, BeginUnwind, Restart
  <2>2. PICK i \in unwind.todo :
          /\ IsNextToUndo(i)
          /\ RevertOne(log[i], unwind.by)
          /\ unwind' = [unwind EXCEPT !.todo = @ \ {i}]
    BY <2>1 DEF UnwindStep
  <2>3. /\ unwind'.todo = unwind.todo \ {i} /\ unwind'.log = unwind.log
        /\ unwind'.rows = unwind.rows /\ unwind'.target = unwind.target
    BY <2>2 DEF IInv, TypeOK
  <2>4. /\ unwind.log \in Seq(Entry) /\ unwind.rows \in [Key -> RowOrNone]
        /\ unwind.todo \subseteq Nat /\ JournalOf(unwind.rows, unwind.log)
        /\ rows \in [Key -> RowOrNone] /\ log \in Seq(Entry) /\ i \in DOMAIN log
        /\ unwind.by \in Session
    BY <1>3 DEF IInv, TypeOK, SavedJournal
  <2>5. Kept(unwind, log) /\ Unwinding(unwind, rows)
    BY <1>3 DEF UInv
  <2>6. log[i] = unwind.log[i]
    BY <2>5 DEF Kept, Unwinding, FromTheEnd, Own
  <2> DEFINE e == log[i]
             target == RevertTarget(e.old, e.new, rows[e.key])
  <2>7. rows' = [rows EXCEPT ![e.key] = target]
        /\ log' = Recorded(log, e.key, rows[e.key], target, unwind.by)
    BY <2>2 DEF RevertOne
  <2>8. Unwinding(unwind', rows')
    <3>1. \A j \in unwind.todo : j <= i
      BY <2>2 DEF IsNextToUndo
    <3>2. rows' = [rows EXCEPT ![unwind.log[i].key] =
                     RevertTarget(unwind.log[i].old, unwind.log[i].new,
                                  rows[unwind.log[i].key])]
      BY <2>6, <2>7
    <3> HIDE DEF target, e
    <3> QED BY <2>3, <2>4, <2>5, <3>1, <3>2, StepKeepsUnwinding
  <2>9. Kept(unwind', log')
    <3>1. e \in Entry
      BY <2>4
    <3>2. e.key \in Key /\ rows[e.key] \in RowOrNone /\ target \in RowOrNone
      BY <2>4, <3>1, RevertTargetType DEF Entry
    <3> HIDE DEF target, e
    <3>3. DOMAIN log \subseteq DOMAIN log' /\ \A j \in DOMAIN log : log'[j] = log[j]
      BY <2>4, <2>7, <3>2, RecordedType, RecordedKeepsEntries
    <3> QED BY <2>3, <2>5, <3>3 DEF Kept
  <2> HIDE DEF target, e
  <2> QED BY <2>8, <2>9 DEF Kept, Unwinding, FromTheEnd, Untouched, TakenBack, Spared,
                            Undone, Own, OnlyMine, LeftAlone
<1> QED BY <1>1, <1>2, <1>3

\* No session undo runs at the start.
LEMMA InitUInv == Init => UInv
BY DEF Init, Idle, UInv

LEMMA UnwindInvariance == Spec => [](IInv /\ UInv)
<1>1. Init => IInv /\ UInv
  BY InitIInv, InitUInv
<1>2. IInv /\ UInv /\ [Next]_vars => (IInv /\ UInv)'
  BY NextIInv, NextUInv
<1> QED BY <1>1, <1>2, PTL DEF Spec

\* revert_session takes every column that only the session moved back to its
\* value from before the session.
THEOREM SessionUndoRestoresCorrect == Spec => SessionUndoRestores
<1>1. ASSUME IInv, UInv, CommitUnwind, NEW k \in Key, NEW c \in Column,
             NEW i \in DOMAIN unwind.log,
             unwind.log[i].key = k, unwind.log[i].session = unwind.target,
             \A j \in DOMAIN unwind.log :
               unwind.log[j].key = k /\ unwind.log[j].session = unwind.target => i <= j,
             OnlyMine(unwind, k, c, i)
      PROVE  Restored(k, c, unwind.log[i].old, rows[k])
  <2>1. unwind.todo = {} /\ TakenBack(unwind, rows)
    BY <1>1 DEF CommitUnwind, UInv, Unwinding
  <2>2. i \in Undone(unwind, k) /\ \A j \in Undone(unwind, k) : i <= j
    BY <1>1, <2>1 DEF Undone, Own
  <2> QED BY <1>1, <2>1, <2>2 DEF TakenBack
<1>2. IInv /\ UInv /\ [Next]_vars =>
        [CommitUnwind =>
           LET l == unwind.log
               mine(k) == {i \in DOMAIN l : l[i].key = k /\ l[i].session = unwind.target}
           IN \A k \in Key, c \in Column :
                \A i \in mine(k) :
                  /\ \A j \in mine(k) : i <= j
                  /\ \A j \in (i + 1)..Len(l) :
                       l[j].key = k /\ l[j].session # unwind.target => ~Moved(l[j], c)
                  => \/ Cell(rows[k], c) = Cell(l[i].old, c)
                     \/ k[1] = "recipes" /\ c \in DOMAIN Backfill /\ rows[k] # NoRow
                        /\ Cell(rows[k], c) = Backfill[c]
                        /\ Cell(l[i].old, c) = Legacy[c]]_vars
  BY <1>1 DEF OnlyMine, Restored
<1> QED BY <1>2, UnwindInvariance, PTL DEF Spec, SessionUndoRestores

\* revert_session leaves what the session never moved as the others left it.
THEOREM SessionUndoSparesCorrect == Spec => SessionUndoSparesOthers
<1>1. ASSUME IInv, UInv, CommitUnwind, NEW k \in Key, NEW c \in Column,
             LeftAlone(unwind, k, c)
      PROVE  Cell(rows[k], c) = Cell(unwind.rows[k], c)
  BY <1>1 DEF CommitUnwind, UInv, Unwinding, Spared
<1>2. IInv /\ UInv /\ [Next]_vars =>
        [CommitUnwind =>
           \A k \in Key, c \in Column :
             (\A i \in DOMAIN unwind.log :
                unwind.log[i].key = k /\ unwind.log[i].session = unwind.target
                  => ~Moved(unwind.log[i], c))
             /\ (\A i \in DOMAIN unwind.log :
                   unwind.log[i].key = k /\ unwind.log[i].session = unwind.target
                     => unwind.rows[k] # NoRow)
             => Cell(rows[k], c) = Cell(unwind.rows[k], c)]_vars
  BY <1>1 DEF LeftAlone, Own
<1> QED BY <1>2, UnwindInvariance, PTL DEF Spec, SessionUndoSparesOthers
=============================================================================
