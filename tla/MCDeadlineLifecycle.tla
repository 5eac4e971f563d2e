------------------------ MODULE MCDeadlineLifecycle ------------------------
(***************************************************************************)
(* Counts of one to three days; day 2 is a holiday.                        *)
(***************************************************************************)
EXTENDS DeadlineLifecycle, TLC

MCCountDays == <<1, 3, 4>>

Sessions == Permutations(Session)
=============================================================================
