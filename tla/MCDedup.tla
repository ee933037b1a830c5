------------------------------ MODULE MCDedup ------------------------------
\* Instances of Dedup for TLC.
EXTENDS Dedup

\* No deadline in the envelope, or a short one.
Timeouts == {-1, 1}
=============================================================================
