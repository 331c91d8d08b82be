--------------------------- MODULE MCObligations ---------------------------
\* Obligations on small instances.
EXTENDS Obligations
=============================================================================
