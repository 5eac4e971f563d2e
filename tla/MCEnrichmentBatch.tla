------------------------- MODULE MCEnrichmentBatch -------------------------
(* Instances of EnrichmentBatch whose windows share a court. *)
EXTENDS EnrichmentBatch, TLC

CONSTANTS r1, r2, r3, v1, v2, ca, cb, j1, w1, w2

\* With two windows v2 finds r3.
MCWindowOf == [r \in Record |-> IF r = r3 /\ v2 \in Window THEN v2 ELSE v1]

\* r1 and r3 are of court ca, r2 of cb: both windows find records of ca.
MCCourtOf == [r \in Record |-> IF r = r2 THEN cb ELSE ca]

\* One import.
MCOneJob == [v \in Window |-> j1]

WorkerSymmetry == Permutations(Worker)
=============================================================================
