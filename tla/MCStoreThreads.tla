--------------------------- MODULE MCStoreThreads ---------------------------
\* StoreThreads for TLC; the instances are in the configurations.
EXTENDS StoreThreads
=============================================================================
