--------------------------- MODULE MCLoyverseSync ---------------------------
\* Two "Sync now" clicks and the cron job, for TLC.
EXTENDS LoyverseSync

CONSTANTS click1, click2, nightly, web, old, new, bad

MCProcessOf == [w \in {click1, click2, nightly} |-> IF w = nightly THEN Cron ELSE web]

\* Newest first, the malformed line on top.
MCPosition == [l \in Line |-> IF l = bad THEN 1 ELSE IF l = new THEN 2 ELSE 3]
=============================================================================
