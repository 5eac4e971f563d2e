--------------------------- MODULE MCBackfillSync ---------------------------
(* A backfill whose slices come from the window arithmetic of SyncWindows, *)
(* and that arithmetic for every horizon and window size up to a bound.    *)
EXTENDS BackfillSync, SyncWindows

CONSTANTS w1, w2, HorizonDays, WindowDays, Today, MaxHorizon, MaxWindow

\* The day of the activation, and the bounds on what the run evaluates.
ASSUME WindowAssumptions == Today \in Int /\ MaxHorizon \in Int /\ MaxWindow \in Int

MCSlice == 1..Len(buildSyncWindows(Today - HorizonDays, Today, WindowDays))

MCTotalSlices == calculateSlices(HorizonDays, WindowDays)

\* Every horizon and window size up to the bounds, zero and negative included.
Sizes == (-1..MaxHorizon) \X (-1..MaxWindow)

Windows(size) == buildSyncWindows(Today - size[1], Today, size[2])

\* Every day of the horizon is fetched by exactly one window, no window reaches
\* outside it or is longer than windowDays (buildSyncWindows), and there are as
\* many as total_slices says: calculateSlices computes that independently, and
\* the job ends when it is reached. (A fact about data, evaluated in the
\* initial states only.)
WindowsTileHorizon ==
    status = "NONE" =>
        \A size \in Sizes :
            LET win == Windows(size) IN
            /\ Len(win) = calculateSlices(size[1], size[2])
            /\ size[2] > 0 =>
                  /\ \A d \in (Today - size[1])..(Today - 1) :
                        Cardinality({i \in DOMAIN win : win[i].from <= d /\ d < win[i].to}) = 1
                  /\ \A i \in DOMAIN win :
                        /\ Today - size[1] <= win[i].from
                        /\ win[i].from < win[i].to
                        /\ win[i].to <= Today
                        /\ win[i].to - win[i].from <= size[2]
=============================================================================
