------------------------------ MODULE MCAssist ------------------------------
\* Assist on small instances.
EXTENDS Assist

CONSTANTS c1, c2

Setup(calls, faults, crashes) == [calls |-> calls, faults |-> faults, crashes |-> crashes]

\* Two requests and one trouble, one request and several.
Troubles == {Setup({c1, c2}, 1, 0), Setup({c1, c2}, 0, 1), Setup({c1}, 1, 1), Setup({c1}, 2, 0)}
=============================================================================
