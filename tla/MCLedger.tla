------------------------------ MODULE MCLedger ------------------------------
\* Ledger on small instances.
EXTENDS Ledger

\* Either the clock may step back, or two writes are torn.
SomeSetups == {[times |-> {1, 2}, tears |-> 0], [times |-> {1}, tears |-> 2]}
=============================================================================
