--------------------------- MODULE MCConfigAudit ---------------------------
\* A one-row-per-table instance of ConfigAudit for TLC.
EXTENDS ConfigAudit, TLC

CONSTANTS p1, v0, v1

\* A recipe at the legacy yield and one bucket come from seeding; the other
\* tables start empty.
MCSeed ==
  [k \in {"costs", "mappings", "skus", "recipes", "fixed_costs", "suppliers",
          "cash_spend", "spend_buckets"} \X {p1} |->
     IF k[1] \in {"recipes", "spend_buckets"}
     THEN [c \in {"content", "mark", "flag"} |-> v0]
     ELSE NoRow]

\* The seeded bucket under its default name, not renamed.
MCSeedBucket == [p \in {p1} |-> [c \in {"content", "mark", "flag"} |-> v0]]

\* Bound: of two rows edited one is a bucket, which start-up writes again when
\* the other rows of its table are gone; a row of another table is edited beside
\* that, or alone.
OneIsABucket ==
  \/ Cardinality(TouchedKeys) < 2
  \/ \E k \in TouchedKeys : k[1] = "spend_buckets"

SessionSymmetry == Permutations(Session)
=============================================================================
