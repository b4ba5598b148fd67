--------------------------- MODULE AtomicStrokes ---------------------------
(***************************************************************************)
(* What the config store promises of a stroke (one partner action, however *)
(* many audited writes it makes): it lands whole or not at all, it is      *)
(* durable before it is reported saved, and a stroke reported failed left  *)
(* nothing behind.                                                         *)
(***************************************************************************)
CONSTANTS
  Stroke,       \* every stroke that may ever run
  Parts(_)      \* the statements of a stroke: rows and audit entries

VARIABLES
  stored,       \* the parts in the database
  saved,        \* strokes reported saved
  failed        \* strokes reported failed

vars == <<stored, saved, failed>>

Landed(s) == Parts(s) \subseteq stored

Init == stored = {} /\ saved = {} /\ failed = {}

Land(s) ==
  /\ s \notin failed
  /\ ~Landed(s)
  /\ stored' = stored \cup Parts(s)
  /\ UNCHANGED <<saved, failed>>

ReportSaved(s) ==
  /\ Landed(s)
  /\ saved' = saved \cup {s}
  /\ UNCHANGED <<stored, failed>>

ReportFailed(s) ==
  /\ stored \cap Parts(s) = {}
  /\ failed' = failed \cup {s}
  /\ UNCHANGED <<stored, saved>>

Next == \E s \in Stroke : Land(s) \/ ReportSaved(s) \/ ReportFailed(s)

Spec == Init /\ [][Next]_vars
=============================================================================
