--------------------------- MODULE MCMatterStore ---------------------------
\* MatterStore on small instances.
EXTENDS MatterStore, TLC

CONSTANTS m1, m2, d1, d2, a, b, t1, t2

OneMatter  == {m1}
NewMatter  == {m1, m2}
TwoDocs    == {d1, d2}
OneWorker  == {a}
TwoWorkers == {a, b}
TwoThreads == {t1, t2}

\* Each thread alone on its worker, or both on one.
Apart    == t1 :> a @@ t2 :> b
Together == t1 :> a @@ t2 :> a

Setup(kinds, seat) == [kinds |-> kinds, seat |-> seat]

\* Papers come and go while they are read; the matter goes while papers come; a matter is
\* made and filled; a tenant leaves while papers come; two threads of one worker write.
Safe == {Setup({"add", "remove", "read"}, Apart), Setup({"add", "drop"}, Apart),
         Setup({"add", "purge"}, Apart),           Setup({"create", "add"}, Together),
         Setup({"add", "remove"}, Together)}

\* A thread reads while another of its worker writes.
ReadBesideWrite == {Setup({"add", "read"}, Together)}
=============================================================================
