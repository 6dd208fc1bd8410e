---------------------------- MODULE JobLifecycle ----------------------------
(***************************************************************************)
(* The life of AI jobs in PostgreSQL: accepted and canceled by the API     *)
(* (app/services/job_service.py), processed by Celery workers              *)
(* (app/services/job_processor.py) and deleted by retention                *)
(* (app/workers/tasks.py).                                                 *)
(*                                                                         *)
(* A worker runs process_job in one SQLAlchemy session created with        *)
(* expire_on_commit=False.  Its AIJob object is loaded once, when the row  *)
(* is claimed, and never refreshed: transitions are decided on that copy   *)
(* ("seen") and flushed as an UPDATE of the row ("status") whatever the    *)
(* row holds by then.  Statements under one row lock are one action.       *)
(*                                                                         *)
(* Celery delivers at least once: a message of a job that was ever         *)
(* accepted may reach any idle worker, any number of times.                *)
(***************************************************************************)
EXTENDS JobStateMachine

CONSTANTS Jobs,    \* identities of job rows; a row's id is never reused
          Workers, \* processes that run the task process_ai_job
          NoJob    \* "this worker has no task"

ASSUME NoJobAssumption == NoJob \notin Jobs

VARIABLES
    status,  \* ai_jobs.status per job: "absent" before, "purged" after its life
    outputs, \* the jobs that have an ai_outputs row
    outbox,  \* the (job, event type) pairs that have an outbox row
    pc,      \* where each worker is in process_job
    task,    \* the job whose message each worker holds
    seen     \* the status in the worker's own session, "none" before a claim

dbVars == <<status, outputs, outbox>>
workerVars == <<pc, task, seen>>
vars == <<status, outputs, outbox, pc, task, seen>>

ProcessEvent == "process_ai_job"
WebhookEvent == "deliver_result_webhook"
EventTypes == {ProcessEvent, WebhookEvent}

RowStatus == JobStatus \union {"absent", "purged"}

Live(j) == status[j] \in JobStatus
Settled(j) == status[j] \in TERMINAL_JOB_STATES

\* Mutant of Open: forgets that the job may have settled.
OpenUnchecked(j) == Live(j)

\* The row exists and its status, read under the row lock, is not terminal.
Open(j) == Live(j) /\ ~Settled(j)

\* Mutant of Claimable: takes over a job that somebody is working on.
ClaimableWhileOpen(j) == Open(j)

Claimable(j) == status[j] = "queued"

\* Mutants of FailureStatus: a retry by another worker; a status not enumerated.
RetryStatus == "queued"
ErrorStatus == "error"

\* What the error handler of process_job writes.
FailureStatus == "failed"

\* Mutant of CancellationRequested: the test is inverted.
CancellationNotRequested(j) == status[j] # "canceled"

CancellationRequested(j) == status[j] = "canceled"

\* Steps at which a worker owns the job it claimed and still means to finish it.
OwningSteps == {"prepared", "executing", "checked", "validating"}
Steps == OwningSteps \union {"idle", "received", "raised", "finished"}

Owns(w, j) == task[w] = j /\ pc[w] \in OwningSteps

Init ==
    /\ status = [j \in Jobs |-> "absent"]
    /\ outputs = {}
    /\ outbox = {}
    /\ pc = [w \in Workers |-> "idle"]
    /\ task = [w \in Workers |-> NoJob]
    /\ seen = [w \in Workers |-> "none"]

-----------------------------------------------------------------------------
(* The API and retention.                                                  *)

\* JobService.create_job: the job and its dispatch event in one transaction.
CreateJob(j) ==
    /\ status[j] = "absent"
    /\ status' = [status EXCEPT ![j] = "queued"]
    /\ outbox' = outbox \union {<<j, ProcessEvent>>}
    /\ UNCHANGED <<outputs, workerVars>>

\* JobService.cancel_job_by_client_id, under the row lock of a fresh session: a
\* settled job is returned as it is, which changes nothing.
CancelJob(j) ==
    /\ Open(j)
    /\ TransitionAccepted(status[j], "canceled")
    /\ status' = [status EXCEPT ![j] = "canceled"]
    /\ UNCHANGED <<outputs, outbox, workerVars>>

\* _cleanup: one DELETE of the settled jobs older than the retention period (S is
\* any set of them), cascading to their outputs and outbox rows.
CleanupExpired(S) ==
    /\ S # {}
    /\ \A j \in S : Settled(j)
    /\ status' = [j \in Jobs |-> IF j \in S THEN "purged" ELSE status[j]]
    /\ outputs' = outputs \ S
    /\ outbox' = {e \in outbox : e[1] \notin S}
    /\ UNCHANGED workerVars

-----------------------------------------------------------------------------
(* The worker.                                                             *)

Goto(w, step) == pc' = [pc EXCEPT ![w] = step]

Deliver(w, j) ==
    /\ pc[w] = "idle"
    /\ status[j] # "absent"
    /\ Goto(w, "received")
    /\ task' = [task EXCEPT ![w] = j]
    /\ UNCHANGED <<dbVars, seen>>

\* _transition: decided on the session's copy, flushed to the row.  The UPDATE of a
\* deleted row fails (StaleDataError), so only Raise is left to the worker then.
Persist(w, target) ==
    /\ TransitionAccepted(seen[w], target)
    /\ status[task[w]] # "purged"
    /\ seen' = [seen EXCEPT ![w] = target]
    /\ status' = [status EXCEPT ![task[w]] = target]
    /\ UNCHANGED <<outputs, outbox, task>>

\* The row is read and moved to PREPARING under one lock, and only if queued.
Claim(w) ==
    /\ pc[w] = "received"
    /\ Claimable(task[w])
    /\ status' = [status EXCEPT ![task[w]] = "preparing"]
    /\ seen' = [seen EXCEPT ![w] = "preparing"]
    /\ Goto(w, "prepared")
    /\ UNCHANGED <<outputs, outbox, task>>

\* The row is gone, or somebody already moved it out of queued.
Discard(w) ==
    /\ pc[w] = "received"
    /\ ~Claimable(task[w])
    /\ Goto(w, "finished")
    /\ UNCHANGED <<dbVars, task, seen>>

StartRetrieval(w) ==
    /\ pc[w] = "prepared"
    /\ Persist(w, "retrieving")
    /\ Goto(w, "executing")

\* pipeline.execute has returned; _cancellation_requested reads the row's status
\* (a column query, which does not refresh the session's copy).
PipelineReturns(w) ==
    /\ pc[w] = "executing"
    /\ Goto(w, IF CancellationRequested(task[w]) THEN "finished" ELSE "checked")
    /\ UNCHANGED <<dbVars, task, seen>>

\* Mutant of StartValidation: generates again instead of validating.
RegenerateInsteadOfValidating(w) ==
    /\ pc[w] = "checked"
    /\ Persist(w, "retrieving")
    /\ Goto(w, "executing")

StartValidation(w) ==
    /\ pc[w] = "checked"
    /\ Persist(w, "validating")
    /\ Goto(w, "validating")

\* The second _locked_job finds no row, or the object it returns says stop.  That
\* object is the one already in the session: its status is "seen", not the row's.
MustStop(w) ==
    \/ status[task[w]] = "purged"
    \/ seen[w] \in {"canceled", "completed"}

StopBeforeOutput(w) ==
    /\ pc[w] = "validating"
    /\ MustStop(w)
    /\ Goto(w, "finished")
    /\ UNCHANGED <<dbVars, task, seen>>

\* Output, webhook event and COMPLETED in one transaction, under the row lock held
\* since the second _locked_job.
Publish(w) ==
    /\ pc[w] = "validating"
    /\ ~MustStop(w)
    /\ TransitionAccepted(seen[w], "completed")
    /\ outputs' = outputs \union {task[w]}
    /\ outbox' = outbox \union {<<task[w], WebhookEvent>>}
    /\ status' = [status EXCEPT ![task[w]] = "completed"]
    /\ seen' = [seen EXCEPT ![w] = "completed"]
    /\ Goto(w, "finished")
    /\ UNCHANGED task

\* Any call may raise: database, Redis, Django, provider, validation, StaleDataError.
\* The session rolls back to its last commit.
Raise(w) ==
    /\ pc[w] \in OwningSteps \union {"received"}
    /\ Goto(w, "raised")
    /\ UNCHANGED <<dbVars, task, seen>>

\* The except block, in a session of its own, whoever the job belongs to.
MarkFailed(w) ==
    /\ pc[w] = "raised"
    /\ status' = IF Open(task[w])
                 THEN [status EXCEPT ![task[w]] = FailureStatus]
                 ELSE status
    /\ Goto(w, "finished")
    /\ UNCHANGED <<outputs, outbox, task, seen>>

\* The except block raises in turn; the row keeps its status.  (When MarkFailed would
\* leave the row alone anyway, the two outcomes are the same step.)
HandlerFails(w) ==
    /\ pc[w] = "raised"
    /\ Open(task[w])
    /\ Goto(w, "finished")
    /\ UNCHANGED <<dbVars, task, seen>>

LeaveTask(w) ==
    /\ Goto(w, "idle")
    /\ task' = [task EXCEPT ![w] = NoJob]
    /\ seen' = [seen EXCEPT ![w] = "none"]
    /\ UNCHANGED dbVars

\* The task returns or fails: task_acks_late acknowledges the message in both cases.
Return(w) == pc[w] = "finished" /\ LeaveTask(w)

\* The worker process dies and is replaced; task_reject_on_worker_lost puts the
\* message back (Deliver may deliver it again).  Dying between the last commit and the
\* acknowledgement differs from Return only in that redelivery.
Crash(w) == pc[w] \notin {"idle", "finished"} /\ LeaveTask(w)

-----------------------------------------------------------------------------
WorkerStep(w) ==
    \/ Claim(w) \/ Discard(w)
    \/ StartRetrieval(w) \/ PipelineReturns(w) \/ StartValidation(w)
    \/ StopBeforeOutput(w) \/ Publish(w)
    \/ MarkFailed(w) \/ Return(w)

Fault(w) == Raise(w) \/ HandlerFails(w) \/ Crash(w)

Next ==
    \/ \E j \in Jobs : CreateJob(j) \/ CancelJob(j)
    \/ \E S \in SUBSET Jobs : CleanupExpired(S)
    \/ \E w \in Workers :
          \/ \E j \in Jobs : Deliver(w, j)
          \/ WorkerStep(w)
          \/ Fault(w)

Spec == Init /\ [][Next]_vars

\* Every await of process_job has a timeout (HTTP clients, providers, moderation):
\* a worker that is not killed takes its next step or raises.
FairSpec == Spec /\ \A w \in Workers : WF_vars(WorkerStep(w) \/ Raise(w))
-----------------------------------------------------------------------------
(* Properties.                                                             *)

TypeOK ==
    /\ status \in [Jobs -> RowStatus]
    /\ outputs \in SUBSET Jobs
    /\ outbox \in SUBSET (Jobs \X EventTypes)
    /\ pc \in [Workers -> Steps]
    /\ task \in [Workers -> Jobs \union {NoJob}]
    /\ seen \in [Workers -> JobStatus \union {"none"}]

\* Duplicated deliveries, crashes and failures never put two workers to work on one
\* job: process_job claims under the row lock and no step makes a job queued again.
OneOwner ==
    \A j \in Jobs : \A w1, w2 \in Workers : Owns(w1, j) /\ Owns(w2, j) => w1 = w2

\* How far the unrefreshed session object of process_job can be wrong: the row is
\* what the owner believes, or it was canceled, failed or purged behind its back.
OwnerMissesOnlyEndings ==
    \A w \in Workers, j \in Jobs :
        Owns(w, j) => \/ status[j] = seen[w]
                     \/ status[j] \in {"canceled", "failed", "purged"}

\* What the transactions of create_job and process_job and the cascading delete keep
\* together at every moment another session can look, whatever is canceled, fails or
\* races: a stored job has its dispatch event, and it is completed exactly when it
\* has an output and exactly when the webhook that reports it is in the outbox.
RowsMoveTogether ==
    \A j \in Jobs :
        /\ status[j] \in JobStatus <=> <<j, ProcessEvent>> \in outbox
        /\ status[j] = "completed" <=> j \in outputs
        /\ status[j] = "completed" <=> <<j, WebhookEvent>> \in outbox

\* A published result is final: no stale owner, duplicate delivery, cancel or error
\* handler takes a completed job anywhere but to deletion.
CompletedIsFinal ==
    [][\A j \in Jobs :
          status[j] = "completed" => status'[j] \in {"completed", "purged"}]_vars

\* What is left of "terminal states never return to processing": a canceled or failed
\* job changes again only at the three places where its owner writes from the stale
\* object.  In particular nothing overwrites it while the pipeline is executing, and
\* nothing ever does when no worker owns the job.
EndingsOverwrittenOnlyByStaleOwner ==
    [][\A j \in Jobs :
          status[j] \in {"canceled", "failed"}
             => \/ status'[j] \in {status[j], "purged"}
                \/ \E w \in Workers : /\ Owns(w, j)
                                      /\ pc[w] \in {"prepared", "checked", "validating"}]_vars

Processing(j) == status[j] \in {"preparing", "retrieving", "validating"}
HeldBy(w, j) == task[w] = j /\ pc[w] \in OwningSteps \union {"raised"}
Abandoned(j) == Processing(j) /\ \A w \in Workers : ~HeldBy(w, j)

\* A job is left in a processing status with nobody working on it only by the death
\* of its worker or a failure of the error handler, never by one of process_job's
\* early returns, a cancellation or a duplicate delivery.
AbandonedOnlyByFault ==
    [][\A j \in Jobs : Abandoned(j)' /\ ~Abandoned(j)
          => \E w \in Workers : HeldBy(w, j) /\ (Crash(w) \/ HandlerFails(w))]_vars

\* Once faults stop, a job that was taken up and not abandoned before is completed,
\* failed, canceled or purged in the end, whatever was delivered twice meanwhile.
TakenUpJobSettlesUnlessAbandoned ==
    <>[][\A w \in Workers : ~Fault(w)]_vars
        => \A j \in Jobs : Processing(j) ~> ~Processing(j) \/ Abandoned(j)

\* Every behaviour is one Django may rely on: taken up at most once, published at
\* most once, never withdrawn.
PhaseOf(s) ==
    CASE s = "absent" -> "unknown"
      [] s = "queued" -> "waiting"
      [] s = "completed" -> "published"
      [] s = "purged" -> "purged"
      [] OTHER -> "taken"

phases == [j \in Jobs |-> PhaseOf(status[j])]

Promise == INSTANCE JobPromise WITH phase <- phases

ImplementsPromise == Promise!Spec

(* The inductive invariant behind them: the position in process_job fixes  *)
(* the status of the session's copy, and a message is of an accepted job.  *)

CopyAt ==
    [prepared |-> "preparing", executing |-> "retrieving",
     checked |-> "retrieving", validating |-> "validating"]

CopyFollowsStep ==
    \A w \in Workers :
        /\ pc[w] \in OwningSteps => seen[w] = CopyAt[pc[w]]
        /\ pc[w] # "idle" => task[w] \in Jobs /\ status[task[w]] # "absent"

IInv ==
    /\ TypeOK
    /\ CopyFollowsStep
    /\ OneOwner
    /\ OwnerMissesOnlyEndings
    /\ RowsMoveTogether

(* What a docstring claims and the code does not do.                       *)

\* app/services/job_processor.py:76: processing is safe "under at-least-once Celery
\* delivery semantics": once faults stop, and with its message delivered again and
\* again, a job that was taken up does not stay in a processing status for ever.
TakenUpJobSettles ==
    \A j \in Jobs :
        /\ <>[][\A w \in Workers : ~Fault(w)]_vars
        /\ []<><<\E w \in Workers : Deliver(w, j)>>_vars
        => (Processing(j) ~> ~Processing(j))
=============================================================================
