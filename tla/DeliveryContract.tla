-------------------------- MODULE DeliveryContract --------------------------
(***************************************************************************)
(* What lib/events promises to a slice, with no outbox, relay or queue in  *)
(* it: the copy of an event for one consumer is unsent until its producer  *)
(* commits, then owed, and ends applied (once) or dropped (its task was    *)
(* archived). A dropped copy may still turn applied, when an execution     *)
(* that asynq had given up on commits late; an applied one is final.       *)
(***************************************************************************)
CONSTANT Copy

VARIABLE status

Init == status = [c \in Copy |-> "unsent"]

\* A producer commits: the copies of every event it published are owed.
Send(S) ==
    /\ S # {}
    /\ S \subseteq {c \in Copy : status[c] = "unsent"}
    /\ status' = [c \in Copy |-> IF c \in S THEN "owed" ELSE status[c]]

Apply(c) ==
    /\ status[c] \in {"owed", "dropped"}
    /\ status' = [status EXCEPT ![c] = "applied"]

Drop(c) ==
    /\ status[c] = "owed"
    /\ status' = [status EXCEPT ![c] = "dropped"]

Next ==
    \/ \E S \in SUBSET Copy : Send(S)
    \/ \E c \in Copy : Apply(c) \/ Drop(c)

Settle(c) == status[c] = "owed" /\ (Apply(c) \/ Drop(c))

\* An owed copy does not stay owed; a dropped one has no one to revive it.
Settles == \A c \in Copy : WF_status(Settle(c))

Spec == Init /\ [][Next]_status

FairSpec == Spec /\ Settles
=============================================================================
