----------------------------- MODULE MCColdStart -----------------------------
\* ColdStart on small instances.
EXTENDS ColdStart, TLC

CONSTANTS u1, u2, p1, p2

OneUser  == {u1}
OneCall  == {p1}
TwoCalls == {p1, p2}

\* Both judges up or both down.
Together == {{}, Roles}

CallSymmetry == Permutations(TwoCalls)
=============================================================================
