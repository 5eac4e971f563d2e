-------------------------- MODULE PipelineContract --------------------------
(***************************************************************************)
(* The pipeline seen as its contract: the refinement mapping from the rows *)
(* and tasks of EventPipeline to the statuses of DeliveryContract.         *)
(***************************************************************************)
EXTENDS EventPipeline

\* A copy is sent once a row of its event is committed.
Sent(c) ==
    \E r \in RowId :
        /\ rowState[r] \in {"unpublished", "published"}
        /\ rowKey[r] = c[1]
        /\ c[2] \in Destinations(c[1])

statusOf(c) ==
    CASE c \in processed -> "applied"
      [] c \notin processed /\ task[c] = "archived" -> "dropped"
      [] c \notin processed /\ task[c] # "archived" /\ Sent(c) -> "owed"
      [] OTHER -> "unsent"

Contract == INSTANCE DeliveryContract WITH status <- [c \in Copy |-> statusOf(c)]

\* Only a committed row makes tasks, and only tasks leave zombies.
SentInv == \A c \in Copy : task[c] # "none" \/ zombies[c] > 0 => Sent(c)
=============================================================================
