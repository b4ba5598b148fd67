---------------------------- MODULE MCVocabulary ----------------------------
\* Two overlapping requests over a small vocabulary, for TLC.
EXTENDS Vocabulary, TLC

WorkerSymmetry == Permutations(Worker)
=============================================================================
