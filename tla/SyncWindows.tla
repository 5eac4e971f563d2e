---------------------------- MODULE SyncWindows ----------------------------
(***************************************************************************)
(* The date arithmetic of the onboarding backfill: how the horizon is cut  *)
(* into sync windows. Dates are day numbers.                               *)
(***************************************************************************)
EXTENDS Integers, Sequences

\* The ceiling of horizonDays / windowDays; nothing to slice gives 0.
calculateSlices(horizonDays, windowDays) ==
    IF horizonDays <= 0 \/ windowDays <= 0
    THEN 0
    ELSE (horizonDays + windowDays - 1) \div windowDays

earlierDay(a, b) == IF a < b THEN a ELSE b

\* Mutant: the last window is not clamped to the end of the range.
buildSyncWindowsUnclamped(from, to, windowDays) ==
    LET tail[cur \in Int] ==
            IF cur < to
            THEN <<[from |-> cur, to |-> cur + windowDays]>> \o tail[cur + windowDays]
            ELSE <<>>
    IN  IF windowDays <= 0 THEN <<>> ELSE tail[from]

\* Consecutive [from, to) windows, oldest first; the last one is clamped.
buildSyncWindows(from, to, windowDays) ==
    LET tail[cur \in Int] ==
            IF cur < to
            THEN LET next == earlierDay(cur + windowDays, to)
                 IN  <<[from |-> cur, to |-> next]>> \o tail[next]
            ELSE <<>>
    IN  IF windowDays <= 0 THEN <<>> ELSE tail[from]
=============================================================================
