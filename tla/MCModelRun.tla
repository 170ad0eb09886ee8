----------------------------- MODULE MCModelRun -----------------------------
\* Instances of ModelRun for TLC.
EXTENDS ModelRun, TLC

CONSTANTS r0, r1, r2

\* Runs yet to start are interchangeable when all are full (safety run only).
FreshSymmetry == Permutations(Runs \ Published)

FullOnly == [r \in Runs |-> "full"]
Mixed == [r \in Runs |-> IF r = r1 THEN "full" ELSE "publish"]
=============================================================================
