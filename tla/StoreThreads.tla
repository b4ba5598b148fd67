---------------------------- MODULE StoreThreads ----------------------------
(***************************************************************************)
(* The web process's threads over one shared SQLite connection             *)
(* (storage/config_store.py: the RLock, batch() and the batch-aware write  *)
(* methods).                                                               *)
(*                                                                         *)
(* The connection has one transaction.  A statement opens it if none is    *)
(* open; `with self._conn` commits it, or rolls it back when its block     *)
(* raises, whoever's statements are in it.  Three kinds of stroke run on   *)
(* the threads:                                                            *)
(*   write   one batch-aware method called on its own: it reads `_in_batch`*)
(*           before anything else, and takes the lock and a transaction    *)
(*           only if the flag is down;                                     *)
(*   batch   a route's `with cfg.batch()`: lock, flag up, several writes   *)
(*           and reads of the store, commit, flag down, release;           *)
(*   undo    revert_entry, revert_session: always lock and transaction.    *)
(* A write is two statements, the row's and its audit entry's.             *)
(***************************************************************************)
EXTENDS Integers

CONSTANTS
  Thread,       \* the server's worker threads
  NoThread,     \* the lock is free
  MaxStrokes,   \* bound: strokes in one behaviour
  MaxCrashes    \* bound: times the process dies

Kind == {"write", "batch", "undo"}
Stroke == [id : 1..MaxStrokes, kind : Kind]
Writes(s) == IF s.kind = "write" THEN 1 ELSE 2
Part == [stroke : Stroke, n : 1..2, of : {"row", "audit"}]
Parts(s) == [stroke : {s}, n : 1..Writes(s), of : {"row", "audit"}]

\* Where a thread is in its stroke.
Place == {"flag", "lock", "raise_flag", "row", "audit", "read", "commit",
          "rollback", "drop_flag", "release"}

ASSUME ThreadAssumption ==
  /\ NoThread \notin Thread
  /\ MaxStrokes \in Nat /\ MaxCrashes \in Nat

VARIABLES
  work,      \* thread -> the stroke it runs and where it is in it
  owner,     \* who holds the RLock
  inBatch,   \* the store's _in_batch flag
  working,   \* the parts the connection sees
  durable,   \* the parts committed to the file
  saved,     \* strokes answered with success
  failed,    \* strokes answered with an error
  joined,    \* strokes that found the flag up and took no lock
  started,   \* strokes begun so far
  crashes

vars == <<work, owner, inBatch, working, durable, saved, failed, joined, started,
          crashes>>

Idle == [at |-> "idle"]

Working == [at : Place, stroke : Stroke, n : 1..2, ok : BOOLEAN]

TypeOK ==
  /\ work \in [Thread -> Working \cup {Idle}]
  /\ owner \in Thread \cup {NoThread}
  /\ inBatch \in BOOLEAN
  /\ working \subseteq Part /\ durable \subseteq working
  /\ saved \subseteq Stroke /\ failed \subseteq Stroke /\ joined \subseteq Stroke
  /\ started \in 0..MaxStrokes /\ crashes \in 0..MaxCrashes

-----------------------------------------------------------------------------
At(t, place) == work[t].at = place

StrokeOf(t) == work[t].stroke

Goto(t, place) == work' = [work EXCEPT ![t].at = place]

\* Fault: a plain Lock, which its holder cannot take again.
CanAcquirePlain(t) == owner = NoThread

\* The lock is an RLock.
CanAcquire(t) == owner \in {NoThread, t}

Begin(t, kind) ==
  /\ work[t] = Idle
  /\ started < MaxStrokes
  /\ started' = started + 1
  /\ work' = [work EXCEPT ![t] =
       [at |-> IF kind = "write" THEN "flag" ELSE "lock",
        stroke |-> [id |-> started + 1, kind |-> kind], n |-> 1, ok |-> TRUE]]
  /\ UNCHANGED <<owner, inBatch, working, durable, saved, failed, joined, crashes>>

\* `if self._in_batch:`, read without the lock.
ReadFlag(t) ==
  /\ At(t, "flag")
  /\ Goto(t, IF inBatch THEN "row" ELSE "lock")
  /\ joined' = IF inBatch THEN joined \cup {StrokeOf(t)} ELSE joined
  /\ UNCHANGED <<owner, inBatch, working, durable, saved, failed, started, crashes>>

Acquire(t) ==
  /\ At(t, "lock")
  /\ CanAcquire(t)
  /\ owner' = t
  /\ Goto(t, IF StrokeOf(t).kind = "batch" THEN "raise_flag" ELSE "row")
  /\ UNCHANGED <<inBatch, working, durable, saved, failed, joined, started, crashes>>

RaiseFlag(t) ==
  /\ At(t, "raise_flag")
  /\ inBatch' = TRUE
  /\ Goto(t, "row")
  /\ UNCHANGED <<owner, working, durable, saved, failed, joined, started, crashes>>

WriteRow(t) ==
  /\ At(t, "row")
  /\ working' = working \cup {[stroke |-> StrokeOf(t), n |-> work[t].n, of |-> "row"]}
  /\ Goto(t, "audit")
  /\ UNCHANGED <<owner, inBatch, durable, saved, failed, joined, started, crashes>>

Answer(t, ok) ==
  /\ saved' = IF ok THEN saved \cup {StrokeOf(t)} ELSE saved
  /\ failed' = IF ok THEN failed ELSE failed \cup {StrokeOf(t)}

\* Fault: one round too many.
MoreToWriteOverruns(t) == work[t].n <= Writes(StrokeOf(t))

MoreToWrite(t) == work[t].n < Writes(StrokeOf(t))

\* The entry of a joined write is its last statement: it returns, leaving the
\* commit to the batch it takes itself to be in.
WriteAudit(t) ==
  LET s == StrokeOf(t)
  IN /\ At(t, "audit")
     /\ working' = working \cup {[stroke |-> s, n |-> work[t].n, of |-> "audit"]}
     /\ IF s \in joined
        THEN Answer(t, TRUE) /\ work' = [work EXCEPT ![t] = Idle]
        ELSE /\ Goto(t, IF MoreToWrite(t) THEN "read" ELSE "commit")
             /\ UNCHANGED <<saved, failed>>
     /\ UNCHANGED <<owner, inBatch, durable, joined, started, crashes>>

\* Between its writes a batch reads the store back, and a session undo the
\* row, under the lock it already holds.
ReadBack(t) ==
  /\ At(t, "read")
  /\ CanAcquire(t)
  /\ work' = [work EXCEPT ![t].at = "row", ![t].n = @ + 1]
  /\ UNCHANGED <<owner, inBatch, working, durable, saved, failed, joined, started,
                 crashes>>

\* A statement fails a constraint, or the route refuses the next input line.
Raise(t) ==
  /\ work[t].at \in {"row", "audit"}
  /\ IF StrokeOf(t) \in joined
     THEN Answer(t, FALSE) /\ work' = [work EXCEPT ![t] = Idle]
     ELSE /\ work' = [work EXCEPT ![t].at = "rollback", ![t].ok = FALSE]
          /\ UNCHANGED <<saved, failed>>
  /\ UNCHANGED <<owner, inBatch, working, durable, joined, started, crashes>>

Leave(t) == Goto(t, IF StrokeOf(t).kind = "batch" THEN "drop_flag" ELSE "release")

\* `with self._conn` ends: the connection's whole transaction is committed.
Commit(t) ==
  /\ At(t, "commit")
  /\ durable' = working
  /\ Leave(t)
  /\ UNCHANGED <<owner, inBatch, working, saved, failed, joined, started, crashes>>

\* Fault: the exception leaves the transaction open.
RollbackForgotten(t) ==
  /\ At(t, "rollback")
  /\ Leave(t)
  /\ UNCHANGED <<owner, inBatch, working, durable, saved, failed, joined, started,
                 crashes>>

Rollback(t) ==
  /\ At(t, "rollback")
  /\ working' = durable
  /\ Leave(t)
  /\ UNCHANGED <<owner, inBatch, durable, saved, failed, joined, started, crashes>>

DropFlag(t) ==
  /\ At(t, "drop_flag")
  /\ inBatch' = FALSE
  /\ Goto(t, "release")
  /\ UNCHANGED <<owner, working, durable, saved, failed, joined, started, crashes>>

Release(t) ==
  /\ At(t, "release")
  /\ owner' = NoThread
  /\ Answer(t, work[t].ok)
  /\ work' = [work EXCEPT ![t] = Idle]
  /\ UNCHANGED <<inBatch, working, durable, joined, started, crashes>>

\* The process dies and systemd starts it again: SQLite's journal rolls the
\* open transaction back, and nobody gets an answer.
Crash ==
  /\ crashes < MaxCrashes
  /\ crashes' = crashes + 1
  /\ work' = [t \in Thread |-> Idle]
  /\ owner' = NoThread
  /\ inBatch' = FALSE
  /\ working' = durable
  /\ UNCHANGED <<durable, saved, failed, joined, started>>

-----------------------------------------------------------------------------
Init ==
  /\ work = [t \in Thread |-> Idle]
  /\ owner = NoThread
  /\ inBatch = FALSE
  /\ working = {} /\ durable = {}
  /\ saved = {} /\ failed = {} /\ joined = {}
  /\ started = 0 /\ crashes = 0

\* The next step of the stroke a thread runs, when nothing goes wrong.
Step(t) ==
  \/ ReadFlag(t) \/ Acquire(t) \/ RaiseFlag(t)
  \/ WriteRow(t) \/ WriteAudit(t) \/ ReadBack(t)
  \/ Commit(t) \/ Rollback(t) \/ DropFlag(t) \/ Release(t)

Next ==
  \/ \E t \in Thread : Step(t) \/ Raise(t) \/ \E kind \in Kind : Begin(t, kind)
  \/ Crash

\* A thread that can run is run; nobody has to begin a stroke, or to fail.
Fairness == \A t \in Thread : WF_vars(Step(t))

Spec == Init /\ [][Next]_vars /\ Fairness

-----------------------------------------------------------------------------
(***************************************************************************)
(* Properties.                                                             *)
(***************************************************************************)

TookLock(S) == {s \in S : s \notin joined}

Locked == INSTANCE AtomicStrokes WITH
  stored <- {p \in durable : p.stroke \notin joined},
  saved <- TookLock(saved),
  failed <- TookLock(failed)

\* A stroke that took the lock lands whole or not at all, is durable before it
\* is answered, and leaves nothing when it fails: through interleaving with the
\* other threads, writes that slip into its transaction, errors and crashes.
LockedStrokesAreAtomic == Locked!Spec

\* A stroke under way is eventually answered, unless the process dies: nobody
\* waits for the lock forever, least of all a batch for its own.
StrokesReturn == \A t \in Thread : work[t] # Idle ~> work[t] = Idle

\* save_cost and its siblings: "standalone calls open and commit their own
\* transaction".  What was answered as saved is still there.
NothingSavedIsLost == \A s \in saved : Parts(s) \subseteq working
=============================================================================
