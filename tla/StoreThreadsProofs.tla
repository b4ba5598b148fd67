------------------------- MODULE StoreThreadsProofs -------------------------
(***************************************************************************)
(* Proofs about StoreThreads, for any number of threads, strokes and       *)
(* crashes: the state is well typed, the lock admits one stroke at a time, *)
(* and the strokes that take it implement AtomicStrokes.                   *)
(*                                                                         *)
(* The atomicity is not inductive by itself.  A commit makes durable       *)
(* whatever the connection sees, so the invariant says whose uncommitted   *)
(* parts those can be (Uncommitted), how far a stroke has come at each     *)
(* place (Progress), that only its lock's holder is past the lock          *)
(* (LockHeld), and that no two strokes are the same one (Fresh).           *)
(***************************************************************************)
EXTENDS StoreThreads, TLAPS

\* Thread t is in the middle of a stroke.
Running(t) == work[t] # Idle

\* The places past the lock.
Inside == Place \ {"flag", "lock"}

\* Thread t's stroke found the flag up and took no lock.
Joined(t) == StrokeOf(t) \in joined

\* The lock is held by the one stroke that is past it.  A stroke that joined
\* is past no lock of its own.
LockHeld == \A t \in Thread : owner = t <=> work[t].at \in Inside /\ ~Joined(t)

\* What a place tells of the stroke that is there: how many of its writes are
\* behind it, and whether it has failed.
Route(t) ==
  LET w == work[t]
  IN /\ w.n <= Writes(w.stroke)
     /\ w.at = "flag" => w.stroke.kind = "write"
     /\ w.at \in {"flag", "lock", "raise_flag"} => w.n = 1
     /\ w.at = "read" => w.n = 1 /\ Writes(w.stroke) = 2
     /\ w.at = "commit" => w.n = Writes(w.stroke)
     /\ w.at = "rollback" => ~w.ok
     /\ w.at \notin {"rollback", "drop_flag", "release"} => w.ok
     /\ Joined(t) => w.at \in {"row", "audit"} /\ w.stroke.kind = "write"

\* A part p that the work w has put into the connection's transaction.
Wrote(w, p) ==
  \/ p.n < w.n
  \/ /\ p.n = w.n
     /\ w.at \in {"read", "commit"} \/ (w.at = "audit" /\ p.of = "row")

\* Nothing of stroke s is in S.
Untouched(s, S) == \A p \in S : p.stroke # s

\* How far the stroke of thread t has come, if it is one that took the lock:
\* nothing is durable before its commit, what it wrote is what its place says,
\* and once it is to be released it is wholly durable or has left nothing.
Progress(t) ==
  LET w == work[t]
      s == w.stroke
  IN ~Joined(t) =>
       /\ w.at \notin {"drop_flag", "release"} => Untouched(s, durable)
       /\ w.at \notin {"rollback", "drop_flag", "release"} =>
            \A p \in Part : p.stroke = s =>
              (p \in working <=> p \in Parts(s) /\ Wrote(w, p))
       /\ w.at \in {"drop_flag", "release"} =>
            IF w.ok THEN Parts(s) \subseteq durable ELSE Untouched(s, working)

\* A stroke is begun once, run by one thread, and not answered while it runs.
Fresh ==
  /\ \A s \in saved \cup failed \cup joined : s.id <= started
  /\ \A p \in working : p.stroke.id <= started
  /\ \A t \in Thread : Running(t) =>
       StrokeOf(t).id <= started /\ StrokeOf(t) \notin saved \cup failed
  /\ \A t, u \in Thread :
       Running(t) /\ Running(u) /\ StrokeOf(t) = StrokeOf(u) => t = u

\* What is not committed is of a stroke that joined, or of the lock's holder:
\* so a commit or rollback takes no third stroke with it.
Uncommitted ==
  \A p \in working \ durable :
    p.stroke \in joined \/ \E t \in Thread : owner = t /\ StrokeOf(t) = p.stroke

\* In the file, a stroke that took the lock is whole or absent; whole if it
\* was answered as saved, absent if it was answered as failed.
Whole ==
  /\ \A p \in working : p \in Parts(p.stroke)
  /\ \A s \in Stroke \ joined :
       /\ Untouched(s, durable) \/ Parts(s) \subseteq durable
       /\ s \in saved => Parts(s) \subseteq durable
       /\ s \in failed => Untouched(s, working)

\* The inductive invariant.
IInv ==
  /\ TypeOK
  /\ LockHeld
  /\ \A t \in Thread : Running(t) => Route(t) /\ Progress(t)
  /\ Fresh
  /\ Uncommitted
  /\ Whole

-----------------------------------------------------------------------------
\* Idle and being at a place exclude each other.
LEMMA RunningIsWorking ==
  ASSUME TypeOK, NEW t \in Thread
  PROVE  /\ Running(t) => work[t] \in Working
         /\ work[t].at \in Place => Running(t)
         /\ work[t].at \notin Place => work[t] = Idle
BY DEF TypeOK, Running, Working, Idle, Place

\* Moving to another place changes nothing else of a thread's work.
LEMMA GotoMoves ==
  ASSUME TypeOK, NEW t \in Thread, Running(t), NEW place \in Place, Goto(t, place)
  PROVE  /\ work' \in [Thread -> Working \cup {Idle}]
         /\ work'[t] \in Working /\ Running(t)'
         /\ work'[t].at = place /\ work'[t].stroke = work[t].stroke
         /\ work'[t].n = work[t].n /\ work'[t].ok = work[t].ok
         /\ \A u \in Thread \ {t} : work'[u] = work[u]
<1>1. work[t] \in Working
  BY RunningIsWorking
<1>2. [work[t] EXCEPT !.at = place] \in Working
  BY <1>1 DEF Working
<1>3. work' = [work EXCEPT ![t] = [work[t] EXCEPT !.at = place]]
  BY DEF Goto
<1>4. work'[t] = [work[t] EXCEPT !.at = place]
  BY <1>3 DEF TypeOK
<1>5. [work[t] EXCEPT !.at = place] # Idle
  BY <1>2 DEF Working, Idle, Place
<1>6. QED
  BY <1>1, <1>2, <1>3, <1>4, <1>5 DEF TypeOK, Working, Running

\* What a step of thread t leaves to the others.
OnlyMoves(t) ==
  /\ \A u \in Thread \ {t} : work'[u] = work[u]
  /\ Running(t)' => work'[t].stroke = StrokeOf(t) /\ saved' = saved /\ failed' = failed
  /\ saved \subseteq saved' /\ saved' \subseteq saved \cup {StrokeOf(t)}
  /\ failed \subseteq failed' /\ failed' \subseteq failed \cup {StrokeOf(t)}
  /\ joined \subseteq joined' /\ joined' \subseteq joined \cup {StrokeOf(t)}
  /\ \A p \in working' : p \in working \/ p.stroke = StrokeOf(t)
  /\ \A p \in Part : p.stroke \notin joined \cup {StrokeOf(t)} =>
       (p \in working' <=> p \in working) /\ (p \in durable' <=> p \in durable)
  /\ started' = started

\* Such a step keeps what the invariant says of the other threads.
LEMMA OthersUndisturbed ==
  ASSUME IInv, NEW t \in Thread, Running(t), OnlyMoves(t), TypeOK'
  PROVE  /\ Fresh'
         /\ \A u \in Thread \ {t} : Running(u)' => Route(u)' /\ Progress(u)'
<1>1. work[t] \in Working /\ StrokeOf(t) \in Stroke
  BY RunningIsWorking DEF IInv, Working, StrokeOf
<1>2. Fresh'
  BY <1>1 DEF OnlyMoves, IInv, Fresh, Running, StrokeOf, Stroke, TypeOK
<1>3. ASSUME NEW u \in Thread \ {t}, Running(u)'
      PROVE  Route(u)' /\ Progress(u)'
  <2>1. Running(u) /\ work'[u] = work[u] /\ StrokeOf(u) # StrokeOf(t)
    BY <1>3 DEF OnlyMoves, IInv, Fresh, Running
  <2>2. Joined(u)' <=> Joined(u)
    BY <2>1 DEF OnlyMoves, Joined, StrokeOf
  <2>3. Route(u)'
    BY <2>1, <2>2 DEF IInv, Route
  <2>4. \A p \in Part : p.stroke = StrokeOf(u) /\ ~Joined(u) =>
          (p \in working' <=> p \in working) /\ (p \in durable' <=> p \in durable)
    BY <2>1 DEF OnlyMoves, Joined, StrokeOf
  <2>5. /\ working \subseteq Part /\ durable \subseteq Part
        /\ working' \subseteq Part /\ durable' \subseteq Part
    BY DEF IInv, TypeOK
  <2>6. Progress(u)
    BY <2>1 DEF IInv
  <2>7. Parts(StrokeOf(u)) \subseteq Part
    <3>1. StrokeOf(u) \in Stroke
      BY <2>1, RunningIsWorking DEF IInv, Working, StrokeOf
    <3>2. QED
      BY <3>1 DEF Parts, Part, Writes
  <2>8. ~Joined(u)' =>
          /\ Untouched(StrokeOf(u), working') <=> Untouched(StrokeOf(u), working)
          /\ Untouched(StrokeOf(u), durable') <=> Untouched(StrokeOf(u), durable)
    BY <2>2, <2>4, <2>5 DEF Untouched
  <2>9. ~Joined(u)' =>
          (Parts(StrokeOf(u)) \subseteq durable' <=> Parts(StrokeOf(u)) \subseteq durable)
    <3>1. \A p \in Parts(StrokeOf(u)) : p.stroke = StrokeOf(u)
      BY DEF Parts
    <3>2. QED
      BY <2>2, <2>4, <2>7, <3>1
  <2>10. Progress(u)'
    BY <2>1, <2>2, <2>4, <2>6, <2>8, <2>9 DEF Progress, StrokeOf
  <2>11. QED
    BY <2>3, <2>10
<1>4. QED
  BY <1>2, <1>3

\* The invariant at one thread that is at some place.
LEMMA RunningFacts ==
  ASSUME IInv, NEW t \in Thread, work[t].at \in Place
  PROVE  /\ Running(t) /\ work[t] \in Working /\ StrokeOf(t) \in Stroke
         /\ Route(t) /\ Progress(t)
         /\ owner = t <=> work[t].at \in Inside /\ ~Joined(t)
BY RunningIsWorking DEF IInv, StrokeOf, Working, LockHeld

\* A stroke that reads the flag has written nothing yet, so it may join.
LEMMA ReadFlagInv ==
  ASSUME IInv, NEW t \in Thread, ReadFlag(t)
  PROVE  IInv'
<1>1. /\ Running(t) /\ work[t] \in Working /\ StrokeOf(t) \in Stroke
      /\ Route(t) /\ Progress(t) /\ ~Joined(t) /\ work[t].at = "flag" /\ owner # t
  BY RunningFacts DEF ReadFlag, At, Place, Route, Inside
<1>2. /\ work' \in [Thread -> Working \cup {Idle}]
      /\ work'[t] \in Working /\ Running(t)' /\ work'[t].stroke = work[t].stroke
      /\ work'[t].n = work[t].n /\ work'[t].ok = work[t].ok
      /\ work'[t].at = IF inBatch THEN "row" ELSE "lock"
      /\ \A u \in Thread \ {t} : work'[u] = work[u]
  BY <1>1, GotoMoves DEF ReadFlag, IInv, Place
<1>3. /\ joined' = IF inBatch THEN joined \cup {StrokeOf(t)} ELSE joined
      /\ UNCHANGED <<owner, inBatch, working, durable, saved, failed, started, crashes>>
  BY DEF ReadFlag
<1>4. TypeOK'
  BY <1>1, <1>2, <1>3 DEF IInv, TypeOK
<1>5. OnlyMoves(t)
  BY <1>1, <1>2, <1>3 DEF OnlyMoves, StrokeOf
<1>6. LockHeld'
  BY <1>1, <1>2, <1>3
  DEF LockHeld, IInv, Inside, Place, Joined, StrokeOf, Fresh, Running, Idle
<1>7. Route(t)' /\ Progress(t)'
  BY <1>1, <1>2, <1>3
  DEF Route, Progress, Joined, StrokeOf, Wrote, Untouched, IInv
<1>8. Uncommitted'
  BY <1>1, <1>2, <1>3 DEF Uncommitted, IInv, StrokeOf
<1>9. Whole'
  BY <1>1, <1>2, <1>3 DEF Whole, IInv, Untouched
<1>10. QED
  BY <1>1, <1>4, <1>5, <1>6, <1>7, <1>8, <1>9, OthersUndisturbed DEF IInv

\* Taking the lock, the flag's two moves and reading back touch no part.
LEMMA QuietStepInv ==
  ASSUME IInv, NEW t \in Thread,
         Acquire(t) \/ RaiseFlag(t) \/ ReadBack(t) \/ DropFlag(t)
  PROVE  IInv'
<1>1. /\ Running(t) /\ work[t] \in Working /\ StrokeOf(t) \in Stroke
      /\ Route(t) /\ Progress(t) /\ ~Joined(t)
      /\ work[t].at \in {"lock", "raise_flag", "read", "drop_flag"}
      /\ owner = t <=> work[t].at # "lock"
  BY RunningFacts
  DEF Acquire, RaiseFlag, ReadBack, DropFlag, At, Place, Route, Inside
<1>2. /\ work' \in [Thread -> Working \cup {Idle}]
      /\ work'[t] \in Working /\ Running(t)'
      /\ work'[t].stroke = work[t].stroke /\ work'[t].ok = work[t].ok
      /\ \/ /\ work[t].at \in {"lock", "raise_flag"}
            /\ work'[t].at \in {"raise_flag", "row"} /\ work'[t].n = work[t].n
         \/ /\ work[t].at = "read" /\ work'[t].at = "row" /\ work'[t].n = work[t].n + 1
         \/ /\ work[t].at = "drop_flag" /\ work'[t].at = "release"
            /\ work'[t].n = work[t].n
      /\ \A u \in Thread \ {t} : work'[u] = work[u]
  <2>1. CASE Acquire(t)
    BY <1>1, <2>1, GotoMoves DEF Acquire, At, IInv, Place
  <2>2. CASE RaiseFlag(t)
    BY <1>1, <2>2, GotoMoves DEF RaiseFlag, At, IInv, Place
  <2>3. CASE DropFlag(t)
    BY <1>1, <2>3, GotoMoves DEF DropFlag, At, IInv, Place
  <2>4. CASE ReadBack(t)
    <3>1. work[t].at = "read" /\ work[t].n = 1
      BY <1>1, <2>4 DEF ReadBack, At, Route
    <3>2. work' = [work EXCEPT ![t].at = "row", ![t].n = @ + 1]
      BY <2>4 DEF ReadBack
    <3>3. /\ work'[t] \in Working /\ work'[t].at = "row" /\ work'[t].n = 2
          /\ work'[t].stroke = work[t].stroke /\ work'[t].ok = work[t].ok
      BY <1>1, <3>1, <3>2 DEF IInv, TypeOK, Working, Place
    <3>4. \A u \in Thread \ {t} : work'[u] = work[u]
      BY <3>2 DEF IInv, TypeOK
    <3>5. work' \in [Thread -> Working \cup {Idle}]
      BY <3>2, <3>3, <3>4 DEF IInv, TypeOK
    <3>6. QED
      BY <1>1, <3>1, <3>3, <3>4, <3>5 DEF Running, Working, Idle, Place
  <2>5. QED
    BY <2>1, <2>2, <2>3, <2>4
<1>3. /\ owner' = t
      /\ inBatch' \in BOOLEAN
      /\ \A u \in Thread \ {t} : owner # u
      /\ UNCHANGED <<working, durable, saved, failed, joined, started, crashes>>
  BY <1>1, ThreadAssumption
  DEF Acquire, CanAcquire, RaiseFlag, ReadBack, DropFlag, At, IInv, TypeOK
<1>4. TypeOK'
  BY <1>1, <1>2, <1>3 DEF IInv, TypeOK
<1>5. OnlyMoves(t)
  BY <1>1, <1>2, <1>3 DEF OnlyMoves, StrokeOf
<1>6. LockHeld'
  BY <1>1, <1>2, <1>3 DEF LockHeld, IInv, Inside, Place, Joined, StrokeOf
<1>7. Route(t)' /\ Progress(t)'
  <2>1. ~Joined(t)'
    BY <1>1, <1>2, <1>3 DEF Joined, StrokeOf
  <2>2. work[t].stroke.kind \in Kind /\ work[t].n \in 1..2
    BY <1>1 DEF Working, Stroke
  <2>3. Route(t)'
    BY <1>1, <1>2, <2>1, <2>2 DEF Route, Writes
  <2>4. \A p \in Part : Wrote(work'[t], p) <=> Wrote(work[t], p)
    BY <1>1, <1>2, <2>2 DEF Wrote, Part, Route
  <2>5. Progress(t)'
    BY <1>1, <1>2, <1>3, <2>1, <2>4 DEF Progress, Untouched
  <2>6. QED
    BY <2>3, <2>5
<1>8. Uncommitted'
  BY <1>1, <1>2, <1>3 DEF Uncommitted, IInv, StrokeOf
<1>9. Whole'
  BY <1>1, <1>2, <1>3 DEF Whole, IInv, Untouched
<1>10. QED
  BY <1>1, <1>4, <1>5, <1>6, <1>7, <1>8, <1>9, OthersUndisturbed DEF IInv

\* A write's first statement.
LEMMA WriteRowInv ==
  ASSUME IInv, NEW t \in Thread, WriteRow(t)
  PROVE  IInv'
<1> DEFINE p == [stroke |-> StrokeOf(t), n |-> work[t].n, of |-> "row"]
<1>1. /\ Running(t) /\ work[t] \in Working /\ StrokeOf(t) \in Stroke
      /\ Route(t) /\ Progress(t) /\ work[t].at = "row"
      /\ owner = t <=> ~Joined(t)
  BY RunningFacts DEF WriteRow, At, Place, Inside
<1>2. /\ work' \in [Thread -> Working \cup {Idle}]
      /\ work'[t] \in Working /\ Running(t)' /\ work'[t].stroke = work[t].stroke
      /\ work'[t].n = work[t].n /\ work'[t].ok = work[t].ok /\ work'[t].at = "audit"
      /\ \A u \in Thread \ {t} : work'[u] = work[u]
  BY <1>1, GotoMoves DEF WriteRow, IInv, Place
<1>3. /\ working' = working \cup {p}
      /\ UNCHANGED <<owner, inBatch, durable, saved, failed, joined, started, crashes>>
  BY DEF WriteRow
<1>4. p \in Parts(StrokeOf(t)) /\ p \in Part
  BY <1>1 DEF Parts, Part, Working, Route, StrokeOf
<1>5. TypeOK'
  BY <1>1, <1>2, <1>3, <1>4 DEF IInv, TypeOK
<1>6. OnlyMoves(t)
  BY <1>1, <1>2, <1>3, <1>4 DEF OnlyMoves, StrokeOf
<1>7. LockHeld'
  BY <1>1, <1>2, <1>3 DEF LockHeld, IInv, Inside, Place, Joined, StrokeOf
<1>8. Route(t)' /\ Progress(t)'
  <2>1. Joined(t)' <=> Joined(t)
    BY <1>1, <1>2, <1>3 DEF Joined, StrokeOf
  <2>2. Route(t)'
    BY <1>1, <1>2, <2>1 DEF Route
  <2>3. \A q \in Part : q.stroke = StrokeOf(t) /\ q \in Parts(StrokeOf(t)) =>
          (Wrote(work'[t], q) <=> Wrote(work[t], q) \/ q = p)
    BY <1>1, <1>2 DEF Wrote, Part, Working
  <2>4. Progress(t)'
    BY <1>1, <1>2, <1>3, <1>4, <2>1, <2>3 DEF Progress, Untouched, StrokeOf
  <2>5. QED
    BY <2>2, <2>4
<1>9. Uncommitted'
  BY <1>1, <1>2, <1>3 DEF Uncommitted, IInv, StrokeOf, Joined
<1>10. Whole'
  <2>1. \A q \in working' : q \in Parts(q.stroke)
    BY <1>3, <1>4 DEF Whole, IInv
  <2>2. StrokeOf(t) \notin failed
    BY <1>1 DEF IInv, Fresh
  <2>3. QED
    BY <1>3, <2>1, <2>2 DEF Whole, IInv, Untouched
<1>11. QED
  BY <1>1, <1>5, <1>6, <1>7, <1>8, <1>9, <1>10, OthersUndisturbed DEF IInv

\* A write's second statement, the last one of a stroke that joined.
LEMMA WriteAuditInv ==
  ASSUME IInv, NEW t \in Thread, WriteAudit(t)
  PROVE  IInv'
<1> DEFINE p == [stroke |-> StrokeOf(t), n |-> work[t].n, of |-> "audit"]
<1>1. /\ Running(t) /\ work[t] \in Working /\ StrokeOf(t) \in Stroke
      /\ Route(t) /\ Progress(t) /\ work[t].at = "audit"
      /\ owner = t <=> ~Joined(t)
  BY RunningFacts DEF WriteAudit, At, Place, Inside
<1>2. /\ \/ /\ Joined(t) /\ Answer(t, TRUE)
            /\ work' = [work EXCEPT ![t] = Idle]
         \/ /\ ~Joined(t) /\ UNCHANGED <<saved, failed>>
            /\ Goto(t, IF MoreToWrite(t) THEN "read" ELSE "commit")
      /\ working' = working \cup {p}
      /\ UNCHANGED <<owner, inBatch, durable, joined, started, crashes>>
  BY DEF WriteAudit, Joined
<1>3. /\ work' \in [Thread -> Working \cup {Idle}]
      /\ \A u \in Thread \ {t} : work'[u] = work[u]
      /\ Joined(t) => work'[t] = Idle /\ Answer(t, TRUE)
      /\ ~Joined(t) =>
           /\ work'[t] \in Working /\ Running(t)' /\ work'[t].stroke = work[t].stroke
           /\ work'[t].n = work[t].n /\ work'[t].ok = work[t].ok
           /\ work'[t].at = IF MoreToWrite(t) THEN "read" ELSE "commit"
           /\ UNCHANGED <<saved, failed>>
  BY <1>1, <1>2, GotoMoves DEF IInv, TypeOK, Place
<1>4. p \in Parts(StrokeOf(t)) /\ p \in Part
  BY <1>1 DEF Parts, Part, Working, Route, StrokeOf
<1>5. TypeOK'
  BY <1>1, <1>2, <1>3, <1>4 DEF IInv, TypeOK, Answer
<1>6. OnlyMoves(t)
  BY <1>1, <1>2, <1>3, <1>4 DEF OnlyMoves, StrokeOf, Answer, Running
<1>7. LockHeld'
  <2>1. owner' = t <=> work'[t].at \in Inside /\ ~Joined(t)'
    <3>1. CASE Joined(t)
      BY <1>1, <1>2, <1>3, <3>1 DEF Inside, Place, Idle
    <3>2. CASE ~Joined(t)
      BY <1>1, <1>2, <1>3, <3>2 DEF Inside, Place, Joined, StrokeOf
    <3>3. QED
      BY <3>1, <3>2
  <2>2. ASSUME NEW u \in Thread \ {t}
        PROVE  owner' = u <=> work'[u].at \in Inside /\ ~Joined(u)'
    BY <1>2, <1>3 DEF LockHeld, IInv, Joined, StrokeOf
  <2>3. QED
    BY <2>1, <2>2 DEF LockHeld
<1>8. Running(t)' => Route(t)' /\ Progress(t)'
  <2> SUFFICES ASSUME Running(t)' PROVE Route(t)' /\ Progress(t)'
    OBVIOUS
  <2>1. ~Joined(t) /\ ~Joined(t)'
    BY <1>2, <1>3 DEF Joined, StrokeOf, Running
  <2>2. Writes(work[t].stroke) \in 1..2 /\ work[t].n \in 1..2
    BY <1>1 DEF Writes, Working
  <2>3. Route(t)'
    BY <1>1, <1>3, <2>1, <2>2 DEF Route, MoreToWrite, StrokeOf
  <2>4. \A q \in Parts(StrokeOf(t)) :
          Wrote(work'[t], q) <=> Wrote(work[t], q) \/ q = p
    BY <1>1, <1>3, <2>1 DEF Wrote, Parts, Working, StrokeOf
  <2>5. Progress(t)'
    BY <1>1, <1>2, <1>3, <1>4, <2>1, <2>4 DEF Progress, Untouched, StrokeOf
  <2>6. QED
    BY <2>3, <2>5
<1>9. Uncommitted'
  BY <1>1, <1>2, <1>3 DEF Uncommitted, IInv, StrokeOf, Joined
<1>10. Whole'
  <2>1. \A q \in working' : q \in Parts(q.stroke)
    BY <1>2, <1>4 DEF Whole, IInv
  <2>2. StrokeOf(t) \notin failed
    BY <1>1 DEF IInv, Fresh
  <2>3. \A s \in Stroke \ joined :
          (s \in saved' <=> s \in saved) /\ (s \in failed' <=> s \in failed)
    BY <1>3 DEF Answer, Joined, StrokeOf
  <2>4. QED
    BY <1>2, <2>1, <2>2, <2>3 DEF Whole, IInv, Untouched
<1>11. QED
  BY <1>1, <1>5, <1>6, <1>7, <1>8, <1>9, <1>10, OthersUndisturbed DEF IInv

\* A failure sends a stroke that holds the lock to its rollback.
LEMMA RaiseInv ==
  ASSUME IInv, NEW t \in Thread, Raise(t)
  PROVE  IInv'
<1>1. /\ Running(t) /\ work[t] \in Working /\ StrokeOf(t) \in Stroke
      /\ Route(t) /\ Progress(t) /\ work[t].at \in {"row", "audit"}
      /\ owner = t <=> ~Joined(t)
  BY RunningFacts DEF Raise, Place, Inside
<1>2. UNCHANGED <<owner, inBatch, working, durable, joined, started, crashes>>
  BY DEF Raise
<1>3. /\ work' \in [Thread -> Working \cup {Idle}]
      /\ \A u \in Thread \ {t} : work'[u] = work[u]
      /\ Joined(t) => work'[t] = Idle /\ Answer(t, FALSE)
      /\ ~Joined(t) =>
           /\ work'[t] \in Working /\ Running(t)' /\ work'[t].stroke = work[t].stroke
           /\ work'[t].n = work[t].n /\ ~work'[t].ok
           /\ work'[t].at = "rollback"
           /\ UNCHANGED <<saved, failed>>
  <2>1. CASE Joined(t)
    BY <1>1, <2>1 DEF Raise, Joined, IInv, TypeOK
  <2>2. CASE ~Joined(t)
    <3>1. work' = [work EXCEPT ![t].at = "rollback", ![t].ok = FALSE]
          /\ UNCHANGED <<saved, failed>>
      BY <2>2 DEF Raise, Joined
    <3>2. /\ work'[t] \in Working /\ work'[t].at = "rollback" /\ work'[t].n = work[t].n
          /\ work'[t].stroke = work[t].stroke /\ work'[t].ok = FALSE
      BY <1>1, <3>1 DEF IInv, TypeOK, Working, Place
    <3>3. \A u \in Thread \ {t} : work'[u] = work[u]
      BY <3>1 DEF IInv, TypeOK
    <3>4. work' \in [Thread -> Working \cup {Idle}]
      BY <3>1, <3>2, <3>3 DEF IInv, TypeOK
    <3>5. QED
      BY <2>2, <3>1, <3>2, <3>3, <3>4 DEF Running, Working, Idle, Place
  <2>3. QED
    BY <2>1, <2>2
<1>4. TypeOK'
  BY <1>1, <1>2, <1>3 DEF IInv, TypeOK, Answer
<1>5. OnlyMoves(t)
  BY <1>1, <1>2, <1>3 DEF OnlyMoves, StrokeOf, Answer, Running
<1>6. LockHeld'
  <2>1. owner' = t <=> work'[t].at \in Inside /\ ~Joined(t)'
    <3>1. CASE Joined(t)
      BY <1>1, <1>2, <1>3, <3>1 DEF Inside, Place, Idle
    <3>2. CASE ~Joined(t)
      BY <1>1, <1>2, <1>3, <3>2 DEF Inside, Place, Joined, StrokeOf
    <3>3. QED
      BY <3>1, <3>2
  <2>2. ASSUME NEW u \in Thread \ {t}
        PROVE  owner' = u <=> work'[u].at \in Inside /\ ~Joined(u)'
    BY <1>2, <1>3 DEF LockHeld, IInv, Joined, StrokeOf
  <2>3. QED
    BY <2>1, <2>2 DEF LockHeld
<1>7. Running(t)' => Route(t)' /\ Progress(t)'
  BY <1>1, <1>2, <1>3 DEF Route, Progress, Untouched, Running, Joined, StrokeOf
<1>8. Uncommitted'
  BY <1>1, <1>2, <1>3 DEF Uncommitted, IInv, StrokeOf, Joined
<1>9. Whole'
  <2>1. \A s \in Stroke \ joined :
          (s \in saved' <=> s \in saved) /\ (s \in failed' <=> s \in failed)
    BY <1>3 DEF Answer, Joined, StrokeOf
  <2>2. QED
    BY <1>2, <2>1 DEF Whole, IInv, Untouched
<1>10. QED
  BY <1>1, <1>4, <1>5, <1>6, <1>7, <1>8, <1>9, OthersUndisturbed DEF IInv

\* At a commit every part of the owner's stroke is written and none durable,
\* and of the other strokes that took the lock nothing is uncommitted.
LEMMA CommitFacts ==
  ASSUME IInv, NEW t \in Thread, Commit(t)
  PROVE  /\ Running(t) /\ work[t] \in Working /\ StrokeOf(t) \in Stroke
         /\ Route(t) /\ Progress(t) /\ work[t].at = "commit"
         /\ ~Joined(t) /\ owner = t
         /\ \A p \in Part : p.stroke \notin joined \cup {StrokeOf(t)} =>
              (p \in working <=> p \in durable)
         /\ Parts(StrokeOf(t)) \subseteq working
         /\ Untouched(StrokeOf(t), durable)
<1>1. /\ Running(t) /\ work[t] \in Working /\ StrokeOf(t) \in Stroke
      /\ Route(t) /\ Progress(t) /\ work[t].at = "commit"
      /\ ~Joined(t) /\ owner = t
  BY RunningFacts DEF Commit, At, Place, Inside, Route
<1>2. \A p \in Part : p.stroke \notin joined \cup {StrokeOf(t)} =>
        (p \in working <=> p \in durable)
  BY <1>1 DEF IInv, Uncommitted, TypeOK
<1>3. Parts(StrokeOf(t)) \subseteq working
  <2>1. ASSUME NEW p \in Parts(StrokeOf(t))
        PROVE  p \in Part /\ p.stroke = StrokeOf(t) /\ Wrote(work[t], p)
    BY <1>1 DEF Parts, Part, Writes, Wrote, Route, StrokeOf
  <2>2. QED
    BY <1>1, <2>1 DEF Progress, StrokeOf
<1>4. QED
  BY <1>1, <1>2, <1>3 DEF Progress, StrokeOf

\* A commit lands the whole stroke of the lock's holder.
LEMMA CommitInv ==
  ASSUME IInv, NEW t \in Thread, Commit(t)
  PROVE  IInv'
<1>1. /\ Running(t) /\ work[t] \in Working /\ StrokeOf(t) \in Stroke
      /\ Route(t) /\ Progress(t) /\ work[t].at = "commit"
      /\ ~Joined(t) /\ owner = t
      /\ \A p \in Part : p.stroke \notin joined \cup {StrokeOf(t)} =>
           (p \in working <=> p \in durable)
      /\ Parts(StrokeOf(t)) \subseteq working
  BY CommitFacts
<1>2. /\ work' \in [Thread -> Working \cup {Idle}]
      /\ work'[t] \in Working /\ Running(t)' /\ work'[t].stroke = work[t].stroke
      /\ work'[t].n = work[t].n /\ work'[t].ok = work[t].ok
      /\ work'[t].at \in {"drop_flag", "release"}
      /\ \A u \in Thread \ {t} : work'[u] = work[u]
  BY <1>1, GotoMoves DEF Commit, Leave, IInv, Place
<1>3. /\ durable' = working
      /\ UNCHANGED <<owner, inBatch, working, saved, failed, joined, started, crashes>>
  BY DEF Commit
<1>4. TypeOK'
  BY <1>1, <1>2, <1>3 DEF IInv, TypeOK
<1>5. OnlyMoves(t)
  BY <1>1, <1>2, <1>3 DEF OnlyMoves, StrokeOf
<1>6. LockHeld'
  BY <1>1, <1>2, <1>3 DEF LockHeld, IInv, Inside, Place, Joined, StrokeOf
<1>7. Route(t)' /\ Progress(t)'
  BY <1>1, <1>2, <1>3 DEF Route, Progress, Joined, StrokeOf
<1>8. Uncommitted'
  BY <1>3 DEF Uncommitted
<1>9. Whole'
  <2>1. ASSUME NEW s \in Stroke \ joined, s # StrokeOf(t)
        PROVE  /\ Untouched(s, durable) => Untouched(s, durable')
               /\ Parts(s) \subseteq durable => Parts(s) \subseteq durable'
    <3>1. working \subseteq Part /\ durable \subseteq working
      BY DEF IInv, TypeOK
    <3>2. QED
      BY <1>1, <1>3, <2>1, <3>1 DEF Untouched
  <2>2. StrokeOf(t) \notin failed
    BY <1>1 DEF IInv, Fresh
  <2>3. QED
    BY <1>1, <1>3, <2>1, <2>2 DEF Whole, IInv
<1>10. QED
  BY <1>1, <1>4, <1>5, <1>6, <1>7, <1>8, <1>9, OthersUndisturbed DEF IInv

\* A rollback leaves nothing of the lock's holder.
LEMMA RollbackInv ==
  ASSUME IInv, NEW t \in Thread, Rollback(t)
  PROVE  IInv'
<1>1. /\ Running(t) /\ work[t] \in Working /\ StrokeOf(t) \in Stroke
      /\ Route(t) /\ Progress(t) /\ work[t].at = "rollback"
      /\ ~Joined(t) /\ owner = t
  BY RunningFacts DEF Rollback, At, Place, Inside, Route
<1>2. /\ work' \in [Thread -> Working \cup {Idle}]
      /\ work'[t] \in Working /\ Running(t)' /\ work'[t].stroke = work[t].stroke
      /\ work'[t].n = work[t].n /\ work'[t].ok = work[t].ok
      /\ work'[t].at \in {"drop_flag", "release"}
      /\ \A u \in Thread \ {t} : work'[u] = work[u]
  BY <1>1, GotoMoves DEF Rollback, Leave, IInv, Place
<1>3. /\ working' = durable /\ durable \subseteq working
      /\ UNCHANGED <<owner, inBatch, durable, saved, failed, joined, started, crashes>>
  BY DEF Rollback, IInv, TypeOK
<1>4. TypeOK'
  BY <1>1, <1>2, <1>3 DEF IInv, TypeOK
<1>5. OnlyMoves(t)
  BY <1>1, <1>2, <1>3 DEF OnlyMoves, StrokeOf, IInv, Uncommitted, TypeOK
<1>6. LockHeld'
  BY <1>1, <1>2, <1>3 DEF LockHeld, IInv, Inside, Place, Joined, StrokeOf
<1>7. Route(t)' /\ Progress(t)'
  BY <1>1, <1>2, <1>3 DEF Route, Progress, Joined, StrokeOf, Untouched
<1>8. Uncommitted'
  BY <1>3 DEF Uncommitted
<1>9. Whole'
  BY <1>1, <1>3 DEF Whole, IInv, Untouched
<1>10. QED
  BY <1>1, <1>4, <1>5, <1>6, <1>7, <1>8, <1>9, OthersUndisturbed DEF IInv

\* The answer says what became of the stroke.
LEMMA ReleaseInv ==
  ASSUME IInv, NEW t \in Thread, Release(t)
  PROVE  IInv'
<1>1. /\ Running(t) /\ work[t] \in Working /\ StrokeOf(t) \in Stroke
      /\ Route(t) /\ Progress(t) /\ work[t].at = "release"
      /\ ~Joined(t) /\ owner = t
  BY RunningFacts DEF Release, At, Place, Inside, Route
<1>2. /\ work' \in [Thread -> Working \cup {Idle}]
      /\ work'[t] = Idle
      /\ \A u \in Thread \ {t} : work'[u] = work[u]
  BY <1>1 DEF Release, IInv, TypeOK
<1>3. /\ owner' = NoThread
      /\ saved' = IF work[t].ok THEN saved \cup {StrokeOf(t)} ELSE saved
      /\ failed' = IF work[t].ok THEN failed ELSE failed \cup {StrokeOf(t)}
      /\ UNCHANGED <<inBatch, working, durable, joined, started, crashes>>
  BY DEF Release, Answer
<1>4. TypeOK'
  BY <1>1, <1>2, <1>3 DEF IInv, TypeOK
<1>5. OnlyMoves(t)
  BY <1>1, <1>2, <1>3 DEF OnlyMoves, StrokeOf, Running
<1>6. LockHeld'
  BY <1>1, <1>2, <1>3, ThreadAssumption
  DEF LockHeld, IInv, Inside, Place, Joined, StrokeOf, Idle
<1>7. Uncommitted'
  <2>1. \A p \in working \ durable : p.stroke \in joined
    <3>1. ASSUME NEW p \in working \ durable, p.stroke = StrokeOf(t) PROVE FALSE
      BY <1>1, <3>1 DEF Progress, Untouched, StrokeOf, IInv, Whole
    <3>2. QED
      BY <1>1, <3>1 DEF IInv, Uncommitted
  <2>2. QED
    BY <1>3, <2>1 DEF Uncommitted
<1>8. Whole'
  BY <1>1, <1>3 DEF Whole, IInv, Untouched, Progress, StrokeOf
<1>9. QED
  BY <1>1, <1>2, <1>4, <1>5, <1>6, <1>7, <1>8, OthersUndisturbed
  DEF IInv, Running

\* A stroke that begins is a new one.
LEMMA BeginInv ==
  ASSUME IInv, NEW t \in Thread, NEW kind \in Kind, Begin(t, kind)
  PROVE  IInv'
<1> DEFINE s == [id |-> started + 1, kind |-> kind]
           w == [at |-> IF kind = "write" THEN "flag" ELSE "lock",
                 stroke |-> s, n |-> 1, ok |-> TRUE]
<1>1. /\ work[t] = Idle /\ work' = [work EXCEPT ![t] = w]
      /\ started' = started + 1 /\ started < MaxStrokes
      /\ UNCHANGED <<owner, inBatch, working, durable, saved, failed, joined, crashes>>
  BY DEF Begin
<1>2. s \in Stroke /\ w \in Working /\ started \in Nat /\ started' \in 0..MaxStrokes
  BY <1>1, ThreadAssumption DEF IInv, TypeOK, Stroke, Working, Place
<1>3. /\ work' \in [Thread -> Working \cup {Idle}] /\ work'[t] = w /\ w # Idle
      /\ \A u \in Thread \ {t} : work'[u] = work[u]
  BY <1>1, <1>2 DEF IInv, TypeOK, Working, Idle, Place
<1>4. TypeOK'
  BY <1>1, <1>2, <1>3 DEF IInv, TypeOK
<1>5. /\ s \notin saved \cup failed \cup joined
      /\ Untouched(s, working) /\ Untouched(s, durable)
      /\ \A u \in Thread : Running(u) => StrokeOf(u) # s /\ StrokeOf(u) \in Stroke
  <2>1. \A r \in Stroke : r.id <= started => r # s
    BY <1>2 DEF Stroke
  <2>2. \A u \in Thread : Running(u) => StrokeOf(u) \in Stroke
    BY RunningIsWorking DEF IInv, Working, StrokeOf
  <2>3. \A p \in working : p.stroke \in Stroke
    BY DEF IInv, TypeOK, Part
  <2>4. QED
    BY <2>1, <2>2, <2>3 DEF IInv, Fresh, TypeOK, Untouched
<1>6. LockHeld'
  BY <1>1, <1>3 DEF LockHeld, IInv, Inside, Place, Joined, StrokeOf, Idle
<1>7. ASSUME NEW u \in Thread, Running(u)'
      PROVE  Route(u)' /\ Progress(u)'
  <2>1. CASE u = t
    <3>1. ~Joined(u)' /\ Untouched(s, working') /\ Untouched(s, durable')
      BY <1>1, <1>3, <1>5, <2>1 DEF Joined, StrokeOf, Untouched
    <3>2. Route(u)'
      BY <1>2, <1>3, <2>1, <3>1 DEF Route, Writes
    <3>3. \A p \in Parts(s) : ~Wrote(w, p)
      BY DEF Parts, Wrote, Writes
    <3>4. Progress(u)'
      <4>1. work'[u].stroke = s /\ work'[u].at \in {"flag", "lock"} /\ work'[u] = w
        BY <1>3, <2>1
      <4>2. \A p \in Part : p.stroke = s =>
              ~(p \in working') /\ ~(p \in Parts(s) /\ Wrote(w, p))
        BY <3>1, <3>3 DEF Untouched
      <4>3. QED
        BY <3>1, <4>1, <4>2 DEF Progress
    <3>5. QED
      BY <3>2, <3>4
  <2>2. CASE u # t
    BY <1>1, <1>3, <1>7, <2>2
    DEF IInv, Running, Route, Progress, Joined, StrokeOf, Untouched
  <2>3. QED
    BY <2>1, <2>2
<1>8. Fresh'
  <2>1. \A u \in Thread : Running(u)' =>
          StrokeOf(u)' = IF u = t THEN s ELSE StrokeOf(u)
    BY <1>3 DEF StrokeOf
  <2>2. \A r \in Stroke : r.id <= started => r.id <= started'
    BY <1>1, <1>2 DEF Stroke
  <2>3. \A p \in working : p.stroke \in Stroke
    BY DEF IInv, TypeOK, Part
  <2>4. /\ \A r \in saved \cup failed \cup joined : r.id <= started'
        /\ \A p \in working : p.stroke.id <= started'
    BY <2>2, <2>3 DEF IInv, Fresh, TypeOK
  <2>5. \A u \in Thread : Running(u)' =>
          StrokeOf(u)'.id <= started' /\ StrokeOf(u)' \notin saved \cup failed
    BY <1>1, <1>2, <1>3, <1>5, <2>1, <2>2 DEF IInv, Fresh, Running
  <2>6. \A u, v \in Thread :
          Running(u)' /\ Running(v)' /\ StrokeOf(u)' = StrokeOf(v)' => u = v
    BY <1>3, <1>5, <2>1 DEF IInv, Fresh, Running
  <2>7. QED
    BY <1>1, <2>4, <2>5, <2>6 DEF Fresh
<1>9. Uncommitted'
  <2>1. ASSUME NEW p \in working \ durable, NEW u \in Thread, owner = u,
               StrokeOf(u) = p.stroke
        PROVE  StrokeOf(u)' = p.stroke
    <3>1. u # t
      BY <1>1, <2>1 DEF LockHeld, IInv, Inside, Place, Idle
    <3>2. QED
      BY <1>3, <2>1, <3>1 DEF StrokeOf
  <2>2. QED
    BY <1>1, <2>1 DEF Uncommitted, IInv
<1>10. Whole'
  BY <1>1 DEF Whole, IInv, Untouched
<1>11. QED
  BY <1>4, <1>6, <1>7, <1>8, <1>9, <1>10 DEF IInv

\* The process dies: what is not in the file is gone, and so are all strokes.
LEMMA CrashInv ==
  ASSUME IInv, Crash
  PROVE  IInv'
<1>1. /\ work' = [t \in Thread |-> Idle] /\ owner' = NoThread /\ inBatch' = FALSE
      /\ working' = durable /\ durable \subseteq working
      /\ crashes' \in 0..MaxCrashes
      /\ UNCHANGED <<durable, saved, failed, joined, started>>
  BY ThreadAssumption DEF Crash, IInv, TypeOK
<1>2. TypeOK'
  BY <1>1 DEF IInv, TypeOK
<1>3. \A t \in Thread : ~Running(t)'
  BY <1>1 DEF Running
<1>4. LockHeld'
  BY <1>1, ThreadAssumption DEF LockHeld, Inside, Place, Idle
<1>5. Fresh'
  BY <1>1, <1>3 DEF IInv, Fresh
<1>6. Uncommitted' /\ Whole'
  BY <1>1 DEF IInv, Uncommitted, Whole, Untouched
<1>7. QED
  BY <1>2, <1>3, <1>4, <1>5, <1>6 DEF IInv

-----------------------------------------------------------------------------
\* The invariant holds at the start.
LEMMA InitIInv == Init => IInv
<1> SUFFICES ASSUME Init PROVE IInv
  OBVIOUS
<1>1. TypeOK
  <2>1. work \in [Thread -> Working \cup {Idle}]
    BY DEF Init
  <2>2. 0 \in 0..MaxStrokes /\ 0 \in 0..MaxCrashes
    BY ThreadAssumption
  <2>3. QED
    BY <2>1, <2>2 DEF Init, TypeOK
<1>2. \A t \in Thread : ~Running(t)
  BY DEF Init, Running
<1>3. LockHeld
  BY ThreadAssumption DEF Init, LockHeld, Inside, Place, Idle
<1>4. Fresh /\ Uncommitted /\ Whole
  BY <1>2 DEF Init, Fresh, Uncommitted, Whole, Untouched
<1>5. QED
  BY <1>1, <1>2, <1>3, <1>4 DEF IInv

\* Every step of any thread keeps the invariant.
LEMMA NextIInv == IInv /\ [Next]_vars => IInv'
<1> SUFFICES ASSUME IInv, [Next]_vars PROVE IInv'
  OBVIOUS
<1>1. ASSUME NEW t \in Thread, Step(t) PROVE IInv'
  BY <1>1, ReadFlagInv, QuietStepInv, WriteRowInv, WriteAuditInv, CommitInv,
     RollbackInv, ReleaseInv DEF Step
<1>2. ASSUME NEW t \in Thread, Raise(t) PROVE IInv'
  BY <1>2, RaiseInv
<1>3. ASSUME NEW t \in Thread, NEW kind \in Kind, Begin(t, kind) PROVE IInv'
  BY <1>3, BeginInv
<1>4. CASE Crash
  BY <1>4, CrashInv
<1>5. CASE UNCHANGED vars
  BY <1>5
  DEF vars, IInv, TypeOK, LockHeld, Running, Joined, StrokeOf, Route, Progress,
              Untouched, Fresh, Uncommitted, Whole
<1>6. QED
  BY <1>1, <1>2, <1>3, <1>4, <1>5 DEF Next

\* The invariant always holds.
LEMMA Invariance == Spec => []IInv
  BY InitIInv, NextIInv, PTL DEF Spec

\* Threads, lock, flag, parts and answers keep their types, and nothing is in
\* the file that the connection does not see.
THEOREM TypeCorrect == Spec => []TypeOK
<1>1. IInv => TypeOK
  BY DEF IInv
<1>2. QED
  BY <1>1, Invariance, PTL

\* Whatever the flag lets slip past it, the lock itself excludes: two strokes
\* past the lock are the same thread's, or one of them found the flag up.
THEOREM LockExcludes ==
  Spec => [](\A t, u \in Thread :
    /\ work[t].at \in Inside /\ ~Joined(t)
    /\ work[u].at \in Inside /\ ~Joined(u)
    => t = u)
<1>1. IInv => \A t, u \in Thread :
        /\ work[t].at \in Inside /\ ~Joined(t)
        /\ work[u].at \in Inside /\ ~Joined(u)
        => t = u
  BY DEF IInv, LockHeld
<1>2. QED
  BY <1>1, Invariance, PTL

\* The connection's open transaction holds parts of at most one stroke that
\* took the lock: what else is in it slipped past the flag.
THEOREM TransactionIsTheHolders == Spec => []Uncommitted
<1>1. IInv => Uncommitted
  BY DEF IInv
<1>2. QED
  BY <1>1, Invariance, PTL

-----------------------------------------------------------------------------
\* What AtomicStrokes sees of the file.
Stored == {p \in durable : p.stroke \notin joined}

\* A step that AtomicStrokes does not see.
LEMMA StutterMaps ==
  ASSUME TookLock(saved)' = TookLock(saved), TookLock(failed)' = TookLock(failed),
         Stored' = Stored
  PROVE  [Locked!Next]_(Locked!vars)
BY DEF Locked!vars, Stored

\* A commit is the landing of the holder's stroke.
LEMMA CommitMaps ==
  ASSUME IInv, NEW t \in Thread, Commit(t)
  PROVE  Locked!Next
<1>0. PICK s \in Stroke : s = StrokeOf(t)
  BY CommitFacts
<1>1. /\ Running(t) /\ s \in Stroke /\ s \notin joined
      /\ \A p \in Part : p.stroke \notin joined \cup {s} =>
           (p \in working <=> p \in durable)
      /\ Parts(s) \subseteq working
      /\ Untouched(s, durable)
  BY <1>0, CommitFacts DEF Joined
<1>2. durable' = working /\ UNCHANGED <<saved, failed, joined>>
  BY DEF Commit
<1>3. s \notin TookLock(failed)
  BY <1>0, <1>1 DEF TookLock, IInv, Fresh
<1>4. [stroke |-> s, n |-> 1, of |-> "row"] \in Parts(s)
  BY DEF Parts, Writes
<1>5. ~(Parts(s) \subseteq Stored)
  BY <1>1, <1>4 DEF Stored, Untouched
<1>6. Stored' = Stored \cup Parts(s)
  <2>1. \A p \in Parts(s) : p.stroke = s
    BY DEF Parts
  <2>2. \A p \in working : p \in Part /\ p \in Parts(p.stroke)
    BY DEF IInv, TypeOK, Whole
  <2>3. durable \subseteq working
    BY DEF IInv, TypeOK
  <2>4. QED
    BY <1>1, <1>2, <2>1, <2>2, <2>3 DEF Stored
<1>7. TookLock(saved)' = TookLock(saved) /\ TookLock(failed)' = TookLock(failed)
  BY <1>2 DEF TookLock
<1>8. Locked!Land(s)
  BY <1>3, <1>5, <1>6, <1>7 DEF Locked!Land, Locked!Landed, Stored
<1>9. QED
  BY <1>1, <1>8 DEF Locked!Next

\* A release is the report of it.
LEMMA ReleaseMaps ==
  ASSUME IInv, NEW t \in Thread, Release(t)
  PROVE  Locked!Next
<1> DEFINE s == StrokeOf(t)
<1>1. /\ Running(t) /\ s \in Stroke /\ s \notin joined /\ Progress(t)
      /\ work[t].at = "release"
  BY RunningFacts DEF Release, At, Place, Route, Joined
<1>2. Stored' = Stored
  BY DEF Release, Stored
<1>3. CASE work[t].ok
  <2>1. Parts(s) \subseteq Stored
    BY <1>1, <1>3 DEF Progress, Joined, StrokeOf, Stored, Parts
  <2>2. /\ TookLock(saved)' = TookLock(saved) \cup {s}
        /\ TookLock(failed)' = TookLock(failed)
    BY <1>1, <1>3 DEF Release, Answer, TookLock
  <2>3. Locked!ReportSaved(s)
    BY <1>2, <2>1, <2>2 DEF Locked!ReportSaved, Locked!Landed, Stored
  <2>4. QED
    BY <1>1, <2>3 DEF Locked!Next
<1>4. CASE ~work[t].ok
  <2>1. Untouched(s, working)
    BY <1>1, <1>4 DEF Progress, Joined, StrokeOf
  <2>2. Stored \cap Parts(s) = {}
    BY <2>1 DEF Stored, Parts, Untouched, IInv, TypeOK
  <2>3. /\ TookLock(failed)' = TookLock(failed) \cup {s}
        /\ TookLock(saved)' = TookLock(saved)
    BY <1>1, <1>4 DEF Release, Answer, TookLock
  <2>4. Locked!ReportFailed(s)
    BY <1>2, <2>2, <2>3 DEF Locked!ReportFailed, Stored
  <2>5. QED
    BY <1>1, <2>4 DEF Locked!Next
<1>5. QED
  BY <1>3, <1>4

\* Every step of a thread is a step of AtomicStrokes or none.
LEMMA StepMaps ==
  ASSUME IInv, NEW t \in Thread, Step(t) \/ Raise(t)
  PROVE  [Locked!Next]_(Locked!vars)
<1>1. CASE ReadFlag(t)
  <2>1. StrokeOf(t) \notin saved \cup failed /\ Untouched(StrokeOf(t), durable)
    BY <1>1, RunningFacts
    DEF ReadFlag, At, Place, Inside, Route, Progress, IInv, Fresh, StrokeOf
  <2>2. /\ joined' = IF inBatch THEN joined \cup {StrokeOf(t)} ELSE joined
        /\ UNCHANGED <<durable, saved, failed>>
    BY <1>1 DEF ReadFlag
  <2>3. QED
    BY <2>1, <2>2, StutterMaps DEF TookLock, Stored, Untouched
<1>2. CASE \/ Acquire(t) \/ RaiseFlag(t) \/ DropFlag(t)
           \/ WriteRow(t) \/ ReadBack(t) \/ Rollback(t)
  <2>1. UNCHANGED <<durable, saved, failed, joined>>
    BY <1>2 DEF Acquire, RaiseFlag, WriteRow, ReadBack, Rollback, DropFlag
  <2>2. QED
    BY <2>1, StutterMaps DEF TookLock, Stored
<1>3. CASE WriteAudit(t) \/ Raise(t)
  <2>1. /\ UNCHANGED <<durable, joined>>
        /\ \/ saved' = saved
           \/ StrokeOf(t) \in joined /\ saved' = saved \cup {StrokeOf(t)}
        /\ \/ failed' = failed
           \/ StrokeOf(t) \in joined /\ failed' = failed \cup {StrokeOf(t)}
    BY <1>3 DEF WriteAudit, Raise, Answer
  <2>2. QED
    BY <2>1, StutterMaps DEF TookLock, Stored
<1>4. CASE Commit(t)
  BY <1>4, CommitMaps
<1>5. CASE Release(t)
  BY <1>5, ReleaseMaps
<1>6. QED
  BY <1>1, <1>2, <1>3, <1>4, <1>5 DEF Step

\* The refinement: through interleaving threads, writes that slip into
\* another's transaction, errors and crashes, a stroke that took the lock lands
\* whole or not at all, is durable before it is answered, and leaves nothing
\* when it fails.
THEOREM LockedAtomic == Spec => LockedStrokesAreAtomic
<1>1. Init => Locked!Init
  BY DEF Init, Locked!Init, TookLock
<1>2. ASSUME IInv, [Next]_vars PROVE [Locked!Next]_(Locked!vars)
  <2>1. ASSUME NEW t \in Thread, NEW kind \in Kind, Begin(t, kind)
        PROVE  [Locked!Next]_(Locked!vars)
    BY <2>1, StutterMaps DEF Begin, TookLock, Stored
  <2>2. CASE Crash
    BY <2>2, StutterMaps DEF Crash, TookLock, Stored
  <2>3. CASE UNCHANGED vars
    BY <2>3, StutterMaps DEF vars, TookLock, Stored
  <2>4. QED
    BY <1>2, <2>1, <2>2, <2>3, StepMaps DEF Next
<1>3. QED
  BY <1>1, <1>2, Invariance, PTL DEF Spec, LockedStrokesAreAtomic, Locked!Spec
=============================================================================
