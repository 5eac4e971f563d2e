---------------------------- MODULE EventRouting ----------------------------
(***************************************************************************)
(* Where an event goes: queuesFor picks the asynq queues of an event type, *)
(* a worker binary serves some queues with one mux, and the mux runs the   *)
(* handler registered for the type. The three are written in different     *)
(* packages, as string literals, and agree only if someone checks.         *)
(* queuesFor is the function EventPipeline is parameterised by.            *)
(*                                                                         *)
(* An event type is <<prefix, rest>>, split at its first dot.              *)
(***************************************************************************)
EXTENDS Integers, Sequences, FiniteSets

acquisition(name) == <<"acquisition", name>>
deadline(name)    == <<"deadline", name>>

prefix(t) == t[1]

\* Mutant: the completion counter has no queue of its own.
dedicatedQueueNoStatus(t) ==
    CASE t = acquisition("diario_requested") -> "diario"
      [] t = acquisition("enrichment_batch_requested") -> "enrichment"
      [] OTHER -> "none"

\* Acquisition work that must not share "ingestao".
dedicatedQueue(t) ==
    CASE t = acquisition("diario_requested") -> "diario"
      [] t \in {acquisition("sync_completed"), acquisition("sync_failed")} -> "sync_status"
      [] t = acquisition("enrichment_batch_requested") -> "enrichment"
      [] OTHER -> "none"

\* The other special cases in front of the prefix switch.
consumerQueue(t) ==
    CASE t \in {acquisition("intimation.observed"), acquisition("intimation.cancelled"),
                deadline("reminder_check"), deadline("missed_check"), deadline("opened"),
                acquisition("court_record_archived")} -> "deadline"
      [] t \in {"actionitem"} \X {"created", "confirmed", "reclassified"} -> "deadline"
      [] t \in {"deadline"} \X {"due_soon", "missed", "resolved_on_conclusion"} -> "notifications"
      [] t \in {<<"identity", "tenant_provisioned">>, <<"billing", "trial_ending_soon_check">>,
                <<"billing", "trial_ending_soon">>} -> "notifications"
      [] t = <<"draft", "generation_requested">> -> "ai"
      [] t \in {"court"} \X {"fetch_autos_requested", "fetch_autos_item_requested"} -> "court_fetch"
      [] t = <<"filing", "enqueued">> -> "filing"
      [] t \in {"filing"} \X {"succeeded", "failed"} -> "notifications"
      [] t = <<"draft", "generated">> -> "notifications"
      [] OTHER -> "none"

prefixQueue(t) ==
    CASE prefix(t) \in {"ingestao", "acquisition", "deadline", "task"} -> "ingestao"
      [] prefix(t) \in {"documents", "document"} -> "documents"
      [] prefix(t) = "ai" -> "ai"
      [] prefix(t) = "notification" -> "notifications"
      [] OTHER -> "default"

queueFor(t) ==
    CASE dedicatedQueue(t) # "none" -> dedicatedQueue(t)
      [] dedicatedQueue(t) = "none" /\ consumerQueue(t) # "none" -> consumerQueue(t)
      [] OTHER -> prefixQueue(t)

\* Two events have a second consumer on another server.
queuesFor(t) ==
    CASE t = acquisition("docket_entry_observed") -> {"ingestao", "deadline"}
      [] t = acquisition("court_record_observed") -> {"ingestao", "court_fetch"}
      [] OTHER -> {queueFor(t)}

Server == {"main", "sync_status", "deadline", "enrichment", "diario",
           "documents", "ai", "court", "filing"}

\* The Queues map of each asynq server.
Queues == [s \in Server |->
    CASE s = "main" -> {"ingestao", "notifications"}
      [] s = "court" -> {"court_fetch"}
      [] OTHER -> {s}]

\* The event types the listeners register on each server's mux.
Mux == [s \in Server |->
    CASE s = "main" ->
            ({"acquisition"} \X {"integration_activated", "watched_oab_reenabled", "sync_requested",
                                 "court_record_observed", "backfill_finished",
                                 "docket_entry_observed", "intimation.analyzed"})
            \cup ({"deadline"} \X {"due_soon", "missed", "resolved_on_conclusion"})
            \cup ({"billing"} \X {"trial_ending_soon", "payment_failed", "trial_ending_soon_check"})
            \cup ({"filing"} \X {"succeeded", "failed"})
            \cup {<<"notification", "requested">>, <<"draft", "generated">>,
                  <<"identity", "tenant_provisioned">>}
      [] s = "sync_status" -> {acquisition("sync_completed"), acquisition("sync_failed")}
      [] s = "deadline" ->
            ({"acquisition"} \X {"intimation.observed", "intimation.cancelled",
                                 "docket_entry_observed", "court_record_archived"})
            \cup ({"deadline"} \X {"reminder_check", "missed_check", "opened"})
            \cup {<<"actionitem", "reclassified">>}
      [] s = "enrichment" -> {acquisition("enrichment_batch_requested")}
      [] s = "diario" -> {acquisition("diario_requested")}
      [] s = "documents" -> {"document"} \X {"uploaded", "extracted", "ready", "failed"}
      [] s = "ai" -> {<<"draft", "generation_requested">>}
      [] s = "court" -> {acquisition("court_record_observed"), <<"court", "fetch_autos_requested">>,
                         <<"court", "fetch_autos_item_requested">>}
      [] s = "filing" -> {<<"filing", "enqueued">>}]

\* The handler of server s runs once for an event of type t: s drains exactly
\* one of its queues, and nobody else drains that queue with another mux.
Reached(t, s) ==
    \E q \in queuesFor(t) :
        /\ queuesFor(t) \cap Queues[s] = {q}
        /\ \A other \in Server \ {s} : q \notin Queues[other]
=============================================================================
