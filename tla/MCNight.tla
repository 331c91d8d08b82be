------------------------------- MODULE MCNight -------------------------------
\* Night on small instances.
EXTENDS Night

OneCandidate    == 1 .. 1
TwoCandidates   == 1 .. 2
SecondOnly      == {2}
=============================================================================
