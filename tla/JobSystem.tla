------------------------------ MODULE JobSystem ------------------------------
(***************************************************************************)
(* The job service as it is deployed: the API, the Celery workers and      *)
(* retention of JobLifecycle together with the dispatcher, the broker and  *)
(* the webhook handler of OutboxDispatcher.  They meet in the outbox rows, *)
(* which a job's transactions write and the dispatcher works off, and in   *)
(* the broker's messages, which start workers and handlers.                *)
(***************************************************************************)
EXTENDS Naturals, FiniteSets

CONSTANTS Jobs, Workers, NoJob, Dispatchers, Handlers, BatchSize, MaxCopies, NoEvent

\* What the jobs' part assumes.
ASSUME NoJobIsNoJob == NoJob \notin Jobs

VARIABLES
    outbox,                                       \* shared
    status, outputs, pc, task, seen,              \* JobLifecycle
    inserted, evStatus, locked, stale, due,       \* OutboxDispatcher: rows,
    dpc, held, current, hpc, delivering,   \* its processes,
    broker, handedOver, redirected, recovered     \* the broker and history

Lifecycle == INSTANCE JobLifecycle
Outbox == INSTANCE OutboxDispatcher

jobVars == <<status, outputs, pc, task, seen>>
outboxVars == <<inserted, evStatus, locked, stale, due, dpc, held, current,
                hpc, delivering, broker, handedOver, redirected, recovered>>
vars == <<outbox, jobVars, outboxVars>>

ProcessEvent(j) == <<j, Outbox!ProcessEvent>>
WebhookEvent(j) == <<j, Outbox!WebhookEvent>>

Init == Lifecycle!Init /\ Outbox!Init

-----------------------------------------------------------------------------
(* Transactions that write a job and its outbox rows.                     *)

restOfOutbox == <<dpc, held, current, hpc, delivering, broker, handedOver, redirected, recovered>>

CreateJob(j) ==
    /\ Lifecycle!CreateJob(j)
    /\ Outbox!InsertRow(ProcessEvent(j))
    /\ UNCHANGED restOfOutbox

Publish(w) ==
    /\ Lifecycle!Publish(w)
    /\ Outbox!InsertRow(WebhookEvent(task[w]))
    /\ UNCHANGED restOfOutbox

CleanupExpired(S) ==
    /\ Lifecycle!CleanupExpired(S)
    /\ Outbox!DeleteRows(S)
    /\ UNCHANGED restOfOutbox

(* Messages of jobs.                                                       *)

allButBroker == <<inserted, evStatus, locked, stale, due, dpc, held, current,
                  hpc, delivering, handedOver, redirected, recovered>>

\* Mutant of Deliver: the task runs without a message of the dispatcher.
DeliverWithoutMessage(w, j) == Lifecycle!Deliver(w, j) /\ UNCHANGED outboxVars

Deliver(w, j) ==
    /\ Lifecycle!Deliver(w, j)
    /\ Outbox!Receive(ProcessEvent(j))
    /\ UNCHANGED allButBroker

\* The message of a dead worker goes back to the broker.
WorkerDies(w) ==
    /\ Lifecycle!Crash(w)
    /\ Outbox!Send(ProcessEvent(task[w]))
    /\ UNCHANGED allButBroker

\* So does that of a worker at work when the broker's visibility timeout passes.
DeliveredAgain(w) ==
    /\ pc[w] # "idle"
    /\ Outbox!Send(ProcessEvent(task[w]))
    /\ UNCHANGED <<outbox, jobVars, allButBroker>>

(* Everything else is done by one component.                               *)

WorkerStep(w) ==
    \/ Publish(w)
    \/ /\ \/ Lifecycle!Claim(w) \/ Lifecycle!Discard(w)
          \/ Lifecycle!StartRetrieval(w) \/ Lifecycle!PipelineReturns(w)
          \/ Lifecycle!StartValidation(w) \/ Lifecycle!StopBeforeOutput(w)
          \/ Lifecycle!Raise(w) \/ Lifecycle!MarkFailed(w) \/ Lifecycle!Return(w)
       /\ UNCHANGED outboxVars

HandlerFails(w) == Lifecycle!HandlerFails(w) /\ UNCHANGED outboxVars

CancelJob(j) == Lifecycle!CancelJob(j) /\ UNCHANGED outboxVars

DispatcherStep(d) == Outbox!DispatcherStep(d) /\ UNCHANGED jobVars

WebhookStep(h) == Outbox!HandlerStep(h) /\ UNCHANGED jobVars

Passing(e) == Outbox!Passing(e) /\ UNCHANGED jobVars

OutboxFault == Outbox!Fault /\ UNCHANGED jobVars

Next ==
    \/ \E j \in Jobs : CreateJob(j) \/ CancelJob(j)
    \/ \E S \in SUBSET Jobs : CleanupExpired(S)
    \/ \E w \in Workers :
          \/ \E j \in Jobs : Deliver(w, j)
          \/ WorkerStep(w) \/ HandlerFails(w) \/ WorkerDies(w) \/ DeliveredAgain(w)
    \/ \E d \in Dispatchers : DispatcherStep(d)
    \/ \E h \in Handlers : WebhookStep(h)
    \/ \E e \in Outbox!Events : Passing(e)
    \/ OutboxFault

Spec == Init /\ [][Next]_vars

\* The fairness of JobLifecycle; idle workers take the messages there are; beat starts
\* dispatch_job_outbox every ten seconds; handlers work on; time passes.
FairSpec ==
    /\ Spec
    /\ \A w \in Workers : WF_vars(WorkerStep(w) \/ \E j \in Jobs : Deliver(w, j))
    /\ \A d \in Dispatchers : WF_vars(DispatcherStep(d))
    /\ \A h \in Handlers : WF_vars(WebhookStep(h))
    /\ WF_vars(\E e \in Outbox!Events : Passing(e))

-----------------------------------------------------------------------------
(* Properties.                                                             *)

\* The jobs keep the dispatcher's assumptions about them: each event is inserted once
\* and never again after its deletion, the webhook event only after the broker took the
\* job's message, and no message returns that was never sent.
OutboxImplemented == Outbox!Spec

\* Django never hears of a result that is not, or no longer, the stored one: what was
\* answered stays completed with its output until retention deletes the job.
ReportedResultIsKept ==
    \A j \in Jobs : WebhookEvent(j) \in handedOver
        => status[j] = "purged" \/ (status[j] = "completed" /\ j \in outputs)

Outage ==
    \/ OutboxFault
    \/ \E w \in Workers : HandlerFails(w) \/ WorkerDies(w) \/ DeliveredAgain(w)
    \/ \E h \in Handlers, answer \in Outbox!Answers \ {"2xx json"} : Outbox!Post(h, answer)

\* The message of a job that no worker claimed was acknowledged and nothing sends it
\* again: a worker raised before its claim and could not mark the job failed.
Forgotten(j) ==
    /\ evStatus[ProcessEvent(j)] = "dispatched"
    /\ broker[ProcessEvent(j)] = 0
    /\ \A w \in Workers : task[w] # j

\* What the service owes: an accepted job has to be taken up, unless its message was
\* forgotten, and a completed job's result has to reach Django.
Owed(j) ==
    \/ status[j] = "queued" /\ ~Forgotten(j)
    \/ status[j] = "completed" /\ evStatus[WebhookEvent(j)] # "dispatched"

\* Once outages stop, no job stays owed for ever, whatever was lost, refused, sent twice
\* or taken back as stale before (retention may delete it first).  What the service takes
\* for done may be a redirect: DispatchedMeansHandedOver says which events Django has not.
WhatIsOwedIsDone ==
    <>[][~Outage]_vars => \A j \in Jobs : Owed(j) ~> ~Owed(j)

(* What a document claims and the code does not do.                        *)

\* app/services/outbox_dispatcher.py:98-101: "an AI result can never be lost after
\* generation": a result that Django did not acknowledge yet is still stored.
ResultNeverLost ==
    \A j \in Jobs : WebhookEvent(j) \in inserted
        => WebhookEvent(j) \in handedOver \/ j \in outputs
=============================================================================
