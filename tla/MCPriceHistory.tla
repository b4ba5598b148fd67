--------------------------- MODULE MCPriceHistory ---------------------------
\* PriceHistory with interchangeable prices and partners.
EXTENDS PriceHistory, TLC

PriceSymmetry == Permutations(Price) \cup Permutations(Partner)
=============================================================================
