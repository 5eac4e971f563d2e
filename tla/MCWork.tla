------------------------------- MODULE MCWork -------------------------------
(***************************************************************************)
(* One instance of each of the slices that share no state: the watched     *)
(* OABs, the documents, the generation of a piece, its filing and the      *)
(* fetching of autos.  `part` chooses the slice that runs; the variables   *)
(* of the others are Unused and the documents stand at their start.  The   *)
(* faults, crashes and lapses are those of the slice that runs.            *)
(***************************************************************************)
EXTENDS DocumentPipeline, Sequences, TLC

CONSTANTS
    OAB, MaxTime, MaxRequests, MaxCycles, MaxToggles, \* WatchedOAB
    MaxGenerations, MaxGenerationFaults,              \* PieceGeneration
    Attempt,                                          \* PieceFiling
    Record, BatchSize, MaxObservations, MaxDocket,    \* CourtFetch
    MaxStep, MaxConnects, MaxFetchRetry,
    MaxMishaps \* bound: faults, crashes and lapses of the court slice, together

VARIABLES
    part,
    now, scope, requests, toggles, activated, processed, row, lock, tx,
    history, reenabled, syncs, missed, covered, cycles,
    saga, content, request, requested, aiTask, aiSeen, aiExec, reviews, generated,
    attempt, piece, credential, click, filingTask, filingExec, court, told, petitions,
    status, observed, fetched, cursor, docket, offered, caller, outbox, fetchTask,
    fetcher, stranded, clock, connects

\* Session stands for the concurrent requests and transactions of the API.
Watched    == INSTANCE WatchedOAB WITH Tx <- Session
Generation == INSTANCE PieceGeneration WITH
                  Request <- Session, MaxFaults <- MaxGenerationFaults,
                  task <- aiTask, seen <- aiSeen, exec <- aiExec
Filing     == INSTANCE PieceFiling WITH
                  Click <- Session, task <- filingTask, exec <- filingExec
Court      == INSTANCE CourtFetch WITH session <- caller, MaxRetry <- MaxFetchRetry

ASSUME WorkAssumptions ==
    /\ Watched!WatchedAssumptions
    /\ Generation!GenerationAssumptions
    /\ Court!CourtAssumptions
    /\ {MaxGenerationFaults, MaxFetchRetry} \subseteq Nat

documentVars   == <<doc, session, published, task, seen, exec, ocr>>
watchedVars    == <<now, scope, requests, toggles, activated, processed, row, lock, tx,
                    history, reenabled, syncs, missed, covered, cycles>>
generationVars == <<saga, content, request, requested, aiTask, aiSeen, aiExec, reviews, generated>>
filingVars     == <<attempt, piece, credential, click, filingTask, filingExec, court, told, petitions>>
courtVars      == <<status, observed, fetched, cursor, docket, offered, caller, outbox,
                    fetchTask, fetcher, stranded, clock, connects>>
workVars       == <<part, documentVars, watchedVars, generationVars, filingVars, courtVars, bounds>>

Unused == "unused"

WatchedUnused ==
    /\ now = Unused /\ scope = Unused /\ requests = Unused /\ toggles = Unused
    /\ activated = Unused /\ processed = Unused /\ row = Unused /\ lock = Unused
    /\ tx = Unused /\ history = Unused /\ reenabled = Unused /\ syncs = Unused
    /\ missed = Unused /\ covered = Unused /\ cycles = Unused

GenerationUnused ==
    /\ saga = Unused /\ content = Unused /\ request = Unused /\ requested = Unused
    /\ aiTask = Unused /\ aiSeen = Unused /\ aiExec = Unused
    /\ reviews = Unused /\ generated = Unused

FilingUnused ==
    /\ attempt = Unused /\ piece = Unused /\ credential = Unused /\ click = Unused
    /\ filingTask = Unused /\ filingExec = Unused
    /\ court = Unused /\ told = Unused /\ petitions = Unused

CourtUnused ==
    /\ status = Unused /\ observed = Unused /\ fetched = Unused /\ cursor = Unused
    /\ docket = Unused /\ offered = Unused /\ caller = Unused /\ outbox = Unused
    /\ fetchTask = Unused /\ fetcher = Unused /\ stranded = Unused
    /\ clock = Unused /\ connects = Unused

WorkInit ==
    /\ Init
    /\ part \in {"documents", "watched", "generation", "filing", "court"}
    /\ IF part = "watched" THEN Watched!Init ELSE WatchedUnused
    /\ IF part = "generation" THEN Generation!Init ELSE GenerationUnused
    /\ IF part = "filing" THEN Filing!Init ELSE FilingUnused
    /\ IF part = "court" THEN Court!Init ELSE CourtUnused

WorkNext ==
    /\ UNCHANGED part
    /\ \/ /\ part = "documents"
          /\ Next
          /\ UNCHANGED <<watchedVars, generationVars, filingVars, courtVars>>
       \/ /\ part = "watched"
          /\ Watched!Next
          /\ UNCHANGED <<documentVars, generationVars, filingVars, courtVars, bounds>>
       \/ /\ part = "generation"
          /\ Generation!Next
          /\ UNCHANGED <<documentVars, watchedVars, filingVars, courtVars>>
       \/ /\ part = "filing"
          /\ Filing!Next
          /\ UNCHANGED <<documentVars, watchedVars, generationVars, courtVars>>
       \/ /\ part = "court"
          /\ Court!Next
          /\ faults' + crashes' + lapses' <= MaxMishaps
          /\ UNCHANGED <<documentVars, watchedVars, generationVars, filingVars>>

WorkSpec == WorkInit /\ [][WorkNext]_workVars

Symmetric == Permutations(Session) \cup Permutations(Worker)
             \cup Permutations(Attempt) \cup Permutations(OAB)
             \cup Permutations(Record)
-----------------------------------------------------------------------------
\* Every variable of the slice that runs holds what its column, queue or
\* handler can (the CHECK constraints of the migrations, asynq's budget).
PartsTyped ==
    /\ part = "documents" => TypeOK
    /\ part = "watched" => Watched!TypeOK
    /\ part = "generation" => Generation!TypeOK
    /\ part = "filing" => Filing!TypeOK
    /\ part = "court" => Court!TypeOK

\* WatchedOAB: the downtime of an OAB that is on again is fetched or still
\* marked (backfill.go: "a failed catch-up leaves the gap marked").
NoGapForgotten == part = "watched" => Watched!NoGapForgotten

\* WatchedOAB: a watched OAB had its history backfill requested, whoever
\* created its row (backfill.go, the per-OAB guard).
HistoryNotSwallowed == part = "watched" => Watched!HistoryNotSwallowed

\* PieceGeneration: an EXTRACTING piece has a task that will take it out of that
\* state (generate.go: never "stuck in EXTRACTING forever").
ExtractingIsServed == part = "generation" => Generation!ExtractingIsServed

\* PieceFiling: the petition and the events agree with what the court took
\* (filing.go, the last transaction and fail).
ToldTheTruth == part = "filing" => Filing!ToldTheTruth

\* PieceFiling: a redelivery files nothing again (filing.go: outside
\* ENFILEIRADO it is a no-op).
NotRefiled == part = "filing" => Filing!NotRefiled

\* CourtFetch: the docket cursor passes no event a fetch has not gone through
\* (eproc_provider.go: what is older than the cursor was handled before).
CursorPassesNothing == part = "court" => Court!CursorPassesNothing

\* CourtFetch: a record that is due while nothing is coming was left behind in a
\* way the code has (events.go, the stable ids; domain.go, FetchAutosBatch).
DueIsServed == part = "court" => Court!DueIsServed
=============================================================================
