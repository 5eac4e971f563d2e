-------------------------- MODULE MCEventPipeline --------------------------
(* Small instances of EventPipeline over the routing of EventRouting, and    *)
(* its refinement of DeliveryContract.                                       *)
EXTENDS PipelineContract, EventRouting, TLC

CONSTANTS e1, e2, q1, q2, i1, i2, p1, p2

\* e1 fans out to two queues, as court_record_observed does; e2 has one consumer.
MCQueuesFor == [k \in Event |-> IF k = e1 THEN <<q1, q2>> ELSE <<q1>>]

RelaySymmetry == Permutations(Relay)

\* The pipeline implements the contract: a copy is never applied before its
\* producer committed, never un-applied, never forgotten once owed, and under
\* the pipeline's fairness none stays owed for ever.
ImplementsFairContract == Contract!FairSpec

\* The event types the slices publish.
Published ==
    ({"acquisition"} \X
        {"integration_activated", "sync_requested", "sync_completed", "sync_failed",
         "backfill_finished", "intimation.observed", "intimation.cancelled",
         "intimation.analyzed", "diario_requested", "court_record_observed",
         "court_record_archived", "court_record_superseded", "docket_entry_observed",
         "watched_oab_reenabled", "enrichment_batch_requested"})
    \cup ({"actionitem"} \X {"created", "confirmed", "discarded", "reclassified"})
    \cup ({"billing"} \X {"trial_ending_soon_check", "trial_ending_soon",
                          "subscription_activated", "subscription_updated",
                          "subscription_canceled", "payment_failed"})
    \cup ({"deadline"} \X
        {"opened", "calculated", "seal_assigned", "confirmation_required", "assumed",
         "recalculated", "revoked", "reminder_check", "missed_check", "due_soon", "missed",
         "met", "resolved_on_conclusion", "no_deadline", "reopened", "updated"})
    \cup ({"task"} \X {"created", "updated", "completed", "dismissed"})
    \cup ({"document"} \X {"uploaded", "extracted", "ready", "failed"})
    \cup ({"draft"} \X {"signed", "generation_requested", "generated"})
    \cup ({"filing"} \X {"enqueued", "succeeded", "failed"})
    \cup ({"identity"} \X {"tenant_provisioned", "org_profile_updated", "member_joined",
                           "member_removed"})
    \cup ({"court"} \X {"connection_state_changed", "fetch_autos_requested",
                        "fetch_autos_item_requested"})
    \cup {<<"notification", "requested">>, <<"petition", "filed">>}

\* Every handler that a server registered for a published type runs, once: the
\* relay leaves no consumer out by routing the type to a queue its server does
\* not drain, and no consumer gets it twice. (A fact about tables of literals in
\* three packages, evaluated in the initial state only.)
EveryConsumerReached ==
    nextId = 1 => \A t \in Published : \A s \in Server : t \in Mux[s] => Reached(t, s)

\* The same of every type but the one whose handler no route reaches.
ConsumersReached ==
    nextId = 1 => \A t \in Published \ {<<"billing", "payment_failed">>} :
        \A s \in Server : t \in Mux[s] => Reached(t, s)
=============================================================================
