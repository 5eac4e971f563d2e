----------------------------- MODULE PieceFiling -----------------------------
(***************************************************************************)
(* The filing of one signed piece (internal/draft): the lawyer approves    *)
(* the automatic filing, which freezes the PDF in an attempt and queues    *)
(* it; the filing worker drives the court's site with it; or the lawyer    *)
(* files by hand and records the petition.  Nothing unsigns a piece, so    *)
(* the module starts at a signed one.                                      *)
(*                                                                         *)
(* The court is external: a filing it accepted may be answered with an     *)
(* error (the browser times out), and it takes the same piece twice.       *)
(***************************************************************************)
EXTENDS TaskDelivery, FiniteSets

CONSTANTS
    Attempt,  \* filing attempts the lawyer may ask for
    Click,    \* concurrent approve requests
    Worker    \* executions the filing server can run at once

VARIABLES
    attempt,     \* filing_attempt.status
    piece,       \* what the piece has: a court record, a petition
    credential,  \* the lawyer has an active e-SAJ credential
    click,       \* approve requests past their reads
    task,        \* the filing.enqueued of each attempt
    exec,        \* running executions of OnFilingEnqueued
    court,       \* how often the court accepted each attempt
    told,        \* filing.succeeded and filing.failed events of each attempt
    petitions,   \* petition.filed events
    faults, crashes, lapses

bounds == <<faults, crashes, lapses>>
vars   == <<attempt, piece, credential, click, task, exec, court, told, petitions, bounds>>

Status == {"none", "ENFILEIRADO", "PROTOCOLANDO", "PROTOCOLADO", "FALHOU"}

Idle == [pc |-> "idle"]
Exec == {Idle} \cup
        [pc : {"load", "mark", "reload", "open", "protocol", "screenshots", "finalize", "fail"},
         of : Attempt, zombie : BOOLEAN]

Init ==
    /\ attempt = [a \in Attempt |-> "none"]
    /\ piece \in [record : BOOLEAN, petition : {FALSE}]
    /\ credential = FALSE
    /\ click = [c \in Click |-> FALSE]
    /\ task = [a \in Attempt |-> NoTask]
    /\ exec = [w \in Worker |-> Idle]
    /\ court = [a \in Attempt |-> 0]
    /\ told = [a \in Attempt |-> [succeeded |-> 0, failed |-> 0]]
    /\ petitions = 0
    /\ faults = 0 /\ crashes = 0 /\ lapses = 0

Fault == faults < MaxFaults /\ faults' = faults + 1 /\ UNCHANGED <<crashes, lapses>>
NoFault == UNCHANGED bounds
-----------------------------------------------------------------------------
(* The API.                                                                *)

\* The lawyer stores the e-SAJ credential, or revokes it.
SetCredential ==
    /\ credential' = ~credential
    /\ UNCHANGED <<attempt, piece, click, task, exec, court, told, petitions, bounds>>

\* GetActiveFilingAttempt.
Active == {a \in Attempt : attempt[a] \in {"ENFILEIRADO", "PROTOCOLANDO"}}

\* ApproveFiling up to its insert: the credential, no active attempt, and the
\* snapshot of the PDF. With an active attempt it is answered with that one.
ApproveFiling(c) ==
    /\ ~click[c]
    /\ credential
    /\ Active = {}
    /\ click' = [click EXCEPT ![c] = TRUE]
    /\ UNCHANGED <<attempt, piece, credential, task, exec, court, told, petitions, bounds>>

\* The last transaction: the row and filing.enqueued. The partial unique index
\* refuses a second active attempt; the click is answered with the first.
InsertFilingAttempt(c) ==
    /\ click[c]
    /\ click' = [click EXCEPT ![c] = FALSE]
    /\ \/ /\ Active = {}
          /\ \E a \in Attempt :
                /\ attempt[a] = "none"
                /\ attempt' = [attempt EXCEPT ![a] = "ENFILEIRADO"]
                /\ task' = [task EXCEPT ![a].state = "queued"]
       \/ /\ Active # {}
          /\ UNCHANGED <<attempt, task>>
    /\ UNCHANGED <<piece, credential, exec, court, told, petitions, bounds>>

\* The storage or the database fails: nothing is written.
ApproveFails(c) ==
    /\ click[c]
    /\ click' = [click EXCEPT ![c] = FALSE]
    /\ UNCHANGED <<attempt, piece, credential, task, exec, court, told, petitions, bounds>>

\* Mutant: petition.draft_id is not unique.
InsertPetitionAgain == TRUE

\* petition.draft_id is UNIQUE: the second insert fails.
InsertPetition == ~piece.petition

\* InsertPetition, the saga's FILED and MarkFiled, which go together.
Filed == [piece EXCEPT !.petition = TRUE]

\* File, by hand, in one transaction: an existing petition is answered as it
\* is; the request may name the court record the piece lacks.
File ==
    /\ InsertPetition
    /\ piece' = Filed
    /\ petitions' = petitions + 1
    /\ UNCHANGED <<attempt, credential, click, task, exec, court, told, bounds>>
-----------------------------------------------------------------------------
(* The queue of the filing worker.                                         *)

Return(w, cause) ==
    /\ exec' = [exec EXCEPT ![w] = Idle]
    /\ task' = IF exec[w].zombie THEN task
               ELSE [task EXCEPT ![exec[w].of] = Answered(@, cause)]

Goto(w, pc) == exec' = [exec EXCEPT ![w].pc = pc]

Take(w, a) ==
    /\ exec[w] = Idle
    /\ task[a].state = "queued"
    /\ task' = [task EXCEPT ![a].state = "running"]
    /\ exec' = [exec EXCEPT ![w] = [pc |-> "load", of |-> a, zombie |-> FALSE]]
    /\ UNCHANGED <<attempt, piece, credential, click, court, told, petitions, bounds>>

\* The process dies; the recoverer hands the task out again.
Crash(w) ==
    /\ exec[w] # Idle
    /\ crashes < MaxCrashes
    /\ crashes' = crashes + 1
    /\ Return(w, "transient")
    /\ UNCHANGED <<attempt, piece, credential, click, court, told, petitions, faults, lapses>>

\* The lease expires under a slow execution: the task is retried beside it.
LeaseExpires(w) ==
    /\ exec[w] # Idle
    /\ ~exec[w].zombie
    /\ lapses < MaxLapses
    /\ lapses' = lapses + 1
    /\ task' = [task EXCEPT ![exec[w].of] = Retried(@)]
    /\ exec' = [exec EXCEPT ![w].zombie = TRUE]
    /\ UNCHANGED <<attempt, piece, credential, click, court, told, petitions, faults, crashes>>
-----------------------------------------------------------------------------
(* OnFilingEnqueued: each transaction and each outside call is a step.     *)

\* Mutant: an attempt that is being filed is taken up again.
PendingOrFiling(a) == attempt[a] \in {"ENFILEIRADO", "PROTOCOLANDO"}

\* The attempt was not started yet.
Pending(a) == attempt[a] = "ENFILEIRADO"

\* loadAttempt: anything but ENFILEIRADO is acknowledged.
LoadStep(w) ==
    /\ exec[w].pc = "load"
    /\ \/ Pending(exec[w].of) /\ Goto(w, "mark") /\ NoFault /\ UNCHANGED task
       \/ ~Pending(exec[w].of) /\ Return(w, "none") /\ NoFault
       \/ Fault /\ Return(w, "transient")
    /\ UNCHANGED <<attempt, piece, credential, click, court, told, petitions>>

\* MarkFilingProtocolando, guarded on ENFILEIRADO; its row count is not read.
MarkStep(w) ==
    LET a == exec[w].of IN
    /\ exec[w].pc = "mark"
    /\ \/ /\ attempt' = [attempt EXCEPT ![a] = IF @ = "ENFILEIRADO" THEN "PROTOCOLANDO" ELSE @]
          /\ Goto(w, "reload")
          /\ NoFault
          /\ UNCHANGED task
       \/ Fault /\ Return(w, "transient") /\ UNCHANGED attempt
    /\ UNCHANGED <<piece, credential, click, court, told, petitions>>

\* The second loadAttempt: go on if the attempt is PROTOCOLANDO, whoever's.
ReloadStep(w) ==
    LET filing == attempt[exec[w].of] = "PROTOCOLANDO" IN
    /\ exec[w].pc = "reload"
    /\ \/ filing /\ Goto(w, "open") /\ NoFault /\ UNCHANGED task
       \/ ~filing /\ Return(w, "none") /\ NoFault
       \/ Fault /\ Return(w, "transient")
    /\ UNCHANGED <<attempt, piece, credential, click, court, told, petitions>>

\* Open the credential and fetch the frozen PDF.
OpenStep(w) ==
    /\ exec[w].pc = "open"
    /\ \/ credential /\ Goto(w, "protocol") /\ NoFault
       \/ ~credential /\ Goto(w, "fail") /\ NoFault
       \/ Fault /\ Goto(w, "fail")
    /\ UNCHANGED <<attempt, piece, credential, click, task, court, told, petitions>>

\* gateway.Protocol: accepted, refused, or accepted with the answer lost.
ProtocolStep(w) ==
    LET accepted == [court EXCEPT ![exec[w].of] = @ + 1] IN
    /\ exec[w].pc = "protocol"
    /\ \/ court' = accepted /\ Goto(w, "screenshots") /\ NoFault
       \/ court' \in {court, accepted} /\ Goto(w, "fail") /\ Fault
    /\ UNCHANGED <<attempt, piece, credential, click, task, told, petitions>>

\* The screenshots are stored; a failure here fails an accepted filing.
ScreenshotsStep(w) ==
    /\ exec[w].pc = "screenshots"
    /\ \/ Goto(w, "finalize") /\ NoFault
       \/ Goto(w, "fail") /\ Fault
    /\ UNCHANGED <<attempt, piece, credential, click, task, court, told, petitions>>

\* The last transaction: petition, PROTOCOLADO and the events, or an error that
\* asynq sees (and, without a court record, does not retry).
FinalizeStep(w) ==
    LET a == exec[w].of IN
    /\ exec[w].pc = "finalize"
    /\ \/ /\ piece.record
          /\ InsertPetition
          /\ piece' = Filed
          /\ attempt' = [attempt EXCEPT ![a] = "PROTOCOLADO"]
          /\ told' = [told EXCEPT ![a].succeeded = @ + 1]
          /\ petitions' = petitions + 1
          /\ Return(w, "none")
          /\ NoFault
       \/ /\ \/ ~piece.record /\ Return(w, "terminal") /\ NoFault
             \/ piece.record /\ ~InsertPetition /\ Return(w, "transient") /\ NoFault
             \/ Fault /\ Return(w, "transient")
          /\ UNCHANGED <<piece, attempt, told, petitions>>
    /\ UNCHANGED <<credential, click, court>>

\* fail: FALHOU, whatever the status was, and filing.failed; an error of this
\* transaction is only logged. The task is acknowledged either way.
FailStep(w) ==
    LET a == exec[w].of IN
    /\ exec[w].pc = "fail"
    /\ Return(w, "none")
    /\ \/ /\ attempt' = [attempt EXCEPT ![a] = "FALHOU"]
          /\ told' = [told EXCEPT ![a].failed = @ + 1]
          /\ NoFault
       \/ Fault /\ UNCHANGED <<attempt, told>>
    /\ UNCHANGED <<piece, credential, click, court, petitions>>
-----------------------------------------------------------------------------
OnFilingEnqueued(w) ==
    \/ LoadStep(w) \/ MarkStep(w) \/ ReloadStep(w) \/ OpenStep(w)
    \/ ProtocolStep(w) \/ ScreenshotsStep(w) \/ FinalizeStep(w) \/ FailStep(w)

Next ==
    \/ SetCredential
    \/ \E c \in Click : ApproveFiling(c) \/ InsertFilingAttempt(c) \/ ApproveFails(c)
    \/ File
    \/ \E w \in Worker : \/ \E a \in Attempt : Take(w, a)
                         \/ OnFilingEnqueued(w)
                         \/ Crash(w)
                         \/ LeaseExpires(w)

Spec == Init /\ [][Next]_vars
-----------------------------------------------------------------------------
(* Properties.                                                             *)

TypeOK ==
    /\ attempt \in [Attempt -> Status]
    /\ piece \in [record : BOOLEAN, petition : BOOLEAN]
    /\ credential \in BOOLEAN
    /\ click \in [Click -> BOOLEAN]
    /\ task \in [Attempt -> Task]
    /\ exec \in [Worker -> Exec]
    /\ court \in [Attempt -> Nat]
    /\ told \in [Attempt -> [succeeded : Nat, failed : Nat]]
    /\ petitions \in Nat
    /\ faults \in 0..MaxFaults
    /\ crashes \in 0..MaxCrashes
    /\ lapses \in 0..MaxLapses

\* However the robot and the lawyer race, the piece has one petition, announced
\* once; an attempt told to have succeeded is the one that made it, and where no
\* call failed and no lease expired one told to have failed was not accepted.
ToldTheTruth ==
    /\ petitions = IF piece.petition THEN 1 ELSE 0
    /\ \A a \in Attempt : told[a].succeeded > 0 =>
           piece.petition /\ court[a] > 0 /\ told[a].succeeded = 1
    /\ \A a, b \in Attempt : told[a].succeeded > 0 /\ told[b].succeeded > 0 => a = b
    /\ faults + lapses = 0 => \A a \in Attempt : told[a].failed > 0 => court[a] = 0

\* A redelivery never files an attempt again: where no execution outlived its
\* lease, whatever failed, crashed and was retried, the court took the attempt
\* at most once (filing.go: outside ENFILEIRADO it is a no-op).
NotRefiled ==
    lapses = 0 => \A a \in Attempt : court[a] <= 1

\* The court receives a piece once, when no call fails, no process dies and no
\* lease expires (docs/erd-execucao-judicial-tjsp.md: "1 protocolo por peca").
ProtocolledOnce ==
    faults + crashes + lapses = 0 =>
        \A a, b \in Attempt : court[a] > 0 /\ court[b] > 0 => a = b
=============================================================================
