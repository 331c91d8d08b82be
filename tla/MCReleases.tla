----------------------------- MODULE MCReleases -----------------------------
\* Releases on small instances.
EXTENDS Releases

Setup(crashes, rollbacks, nights, previous) ==
    [crashes |-> crashes, rollbacks |-> rollbacks, nights |-> nights, keep |-> previous]

\* An install that dies, one that is rolled back, one that works at night.
Apart == {Setup(2, 0, 0, 1), Setup(0, 2, 0, 0), Setup(0, 2, 0, 1), Setup(0, 1, 2, 1)}
=============================================================================
