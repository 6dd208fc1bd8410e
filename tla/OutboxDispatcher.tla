--------------------------- MODULE OutboxDispatcher ---------------------------
(***************************************************************************)
(* The transactional outbox: app/services/outbox_dispatcher.py, run as the *)
(* Celery task dispatch_job_outbox every ten seconds (and on several       *)
(* workers at once when one run is slow), the broker, and the webhook      *)
(* handler app/services/webhook_delivery.py that posts results to Django.  *)
(*                                                                         *)
(* Rows come from, and vanish with, job rows: Insert and Delete stand for  *)
(* the transactions that JobLifecycle describes.  Each method of           *)
(* OutboxDispatcher is one transaction, hence one action.  Time is not     *)
(* counted: a lock may grow old while its holder is still at work, and a   *)
(* backoff ends some time after it began.                                  *)
(***************************************************************************)
EXTENDS Naturals, FiniteSets

CONSTANTS Jobs,
          Dispatchers, \* concurrent runs of dispatch_job_outbox
          Handlers,    \* processes that run deliver_result_webhook
          BatchSize,   \* outbox_dispatch_batch_size
          MaxCopies,   \* bound of the model: copies of one message the broker keeps
          NoEvent

ProcessEvent == "process_ai_job"
WebhookEvent == "deliver_result_webhook"
EventTypes == {ProcessEvent, WebhookEvent}
Events == Jobs \X EventTypes

ASSUME OutboxAssumption ==
    /\ BatchSize \in Nat \ {0}
    /\ MaxCopies \in Nat \ {0}
    /\ NoEvent \notin Events

VARIABLES
    outbox,    \* the events that have a row
    inserted,  \* the events that ever had one: ids are not reused
    evStatus,  \* DispatchOutboxStatus per event
    locked,    \* the events whose locked_at is set
    stale,     \* those among them whose locked_at is older than the lock timeout
    due,       \* the events whose available_at has passed
    dpc, held, current,  \* per dispatcher: step, claimed batch, event in hand
    hpc, delivering,     \* per handler: step, event of its message
    broker,    \* messages per event that a consumer can still receive
    handedOver, \* events of jobs that the broker ever accepted, and events of results
               \* that Django ever answered with 2xx: only then has it stored the result
    redirected, \* events of results that got a 3xx answer with a JSON body but never 2xx
    recovered  \* events whose lock was ever taken back as stale

rowVars == <<outbox, inserted, evStatus, locked, stale, due>>
dispatcherVars == <<dpc, held, current>>
handlerVars == <<hpc, delivering>>
history == <<handedOver, redirected, recovered>>
vars == <<rowVars, dispatcherVars, handlerVars, broker, history>>

DispatchOutboxStatus == {"pending", "dispatching", "dispatched"}
DispatcherSteps == {"idle", "claiming", "publishing", "marking", "releasing"}
HandlerSteps == {"idle", "loading", "posting", "marking", "releasing", "raising"}

Init ==
    /\ outbox = {}
    /\ inserted = {}
    /\ evStatus = [e \in Events |-> "pending"]
    /\ locked = {}
    /\ stale = {}
    /\ due = {}
    /\ dpc = [d \in Dispatchers |-> "idle"]
    /\ held = [d \in Dispatchers |-> {}]
    /\ current = [d \in Dispatchers |-> NoEvent]
    /\ hpc = [h \in Handlers |-> "idle"]
    /\ delivering = [h \in Handlers |-> NoEvent]
    /\ broker = [e \in Events |-> 0]
    /\ handedOver = {}
    /\ redirected = {}
    /\ recovered = {}

-----------------------------------------------------------------------------
(* Rows.                                                                   *)

\* A new row is pending and available at once (the column defaults).
InsertRow(e) ==
    /\ outbox' = outbox \union {e}
    /\ inserted' = inserted \union {e}
    /\ due' = due \union {e}
    /\ UNCHANGED <<evStatus, locked, stale>>

\* The rows of the jobs in S go with the jobs (ON DELETE CASCADE).
DeleteRows(S) ==
    LET gone == {e \in outbox : e[1] \in S}
    IN  /\ outbox' = outbox \ gone
        /\ evStatus' = [e \in Events |-> IF e \in gone THEN "pending" ELSE evStatus[e]]
        /\ locked' = locked \ gone
        /\ stale' = stale \ gone
        /\ due' = due \ gone
        /\ UNCHANGED inserted

\* A job is inserted with its process event, once; its result adds the webhook
\* event, which a worker does only after it received the process event's message.
Insert(e) ==
    /\ e \notin inserted
    /\ e[2] = WebhookEvent => <<e[1], ProcessEvent>> \in outbox \intersect handedOver
    /\ InsertRow(e)
    /\ UNCHANGED <<dispatcherVars, handlerVars, broker, history>>

Delete(S) ==
    /\ \E e \in outbox : e[1] \in S
    /\ DeleteRows(S)
    /\ UNCHANGED <<dispatcherVars, handlerVars, broker, history>>

\* available_at passes.
BackoffElapses(e) ==
    /\ e \in outbox \ due
    /\ due' = due \union {e}
    /\ UNCHANGED <<outbox, inserted, evStatus, locked, stale,
                   dispatcherVars, handlerVars, broker, history>>

\* outbox_lock_timeout_seconds pass.
LockAges(e) ==
    /\ e \in locked \ stale
    /\ stale' = stale \union {e}
    /\ UNCHANGED <<outbox, inserted, evStatus, locked, due,
                   dispatcherVars, handlerVars, broker, history>>

Unlock(S) ==
    /\ locked' = locked \ S
    /\ stale' = stale \ S

\* Mutant of SetDispatched: locked_at is not cleared.
SetDispatchedKeepingLock(e) ==
    /\ evStatus' = IF e \in outbox THEN [evStatus EXCEPT ![e] = "dispatched"] ELSE evStatus
    /\ UNCHANGED <<outbox, inserted, locked, stale, due>>

\* mark_dispatched: unconditional if the row still exists.
SetDispatched(e) ==
    /\ evStatus' = IF e \in outbox THEN [evStatus EXCEPT ![e] = "dispatched"] ELSE evStatus
    /\ Unlock({e})
    /\ UNCHANGED <<outbox, inserted, due>>

\* Mutant of ReleasedStatus: a status that the enumeration does not have.
RetryingStatus == "retrying"

ReleasedStatus == "pending"

\* release_for_retry: unconditional too; available_at moves into the future.
SetReleased(e) ==
    /\ evStatus' = IF e \in outbox THEN [evStatus EXCEPT ![e] = ReleasedStatus] ELSE evStatus
    /\ Unlock({e})
    /\ due' = due \ {e}
    /\ UNCHANGED <<outbox, inserted>>

-----------------------------------------------------------------------------
(* dispatch_pending.                                                       *)

\* Mutant of Recoverable: the status that is recovered to, not from.
RecoverableWhenPending == {e \in stale : evStatus[e] = "pending"}

\* The holder of an old lock may be gone or still at work.
Recoverable == {e \in stale : evStatus[e] = "dispatching"}

\* recover_stale_locks: one UPDATE.
RecoverStaleLocks(d) ==
    /\ dpc[d] = "idle"
    /\ evStatus' = [e \in Events |-> IF e \in Recoverable THEN "pending" ELSE evStatus[e]]
    /\ Unlock(Recoverable)
    /\ recovered' = recovered \union Recoverable
    /\ dpc' = [dpc EXCEPT ![d] = "claiming"]
    /\ UNCHANGED <<outbox, inserted, due, held, current, handlerVars, broker,
                   handedOver, redirected>>

\* Mutant of Available: the status is not looked at.
AvailableWhateverStatus == outbox \intersect due

\* claim_pending takes a full batch if there is one.  (The rows it skips because another
\* transaction has them locked are those it would not see after that transaction; their
\* order by creation is left open.)
Available == {e \in outbox \intersect due : evStatus[e] = "pending"}

Batches == {S \in SUBSET Available :
               \/ Cardinality(S) = BatchSize
               \/ Cardinality(S) < BatchSize /\ S = Available}

ClaimPending(d, S) ==
    /\ dpc[d] = "claiming"
    /\ S \in Batches
    /\ evStatus' = [e \in Events |-> IF e \in S THEN "dispatching" ELSE evStatus[e]]
    /\ locked' = locked \union S
    /\ stale' = stale \ S
    /\ held' = [held EXCEPT ![d] = S]
    /\ dpc' = [dpc EXCEPT ![d] = IF S = {} THEN "idle" ELSE "publishing"]
    /\ UNCHANGED <<outbox, inserted, due, current, handlerVars, broker, history>>

\* The loop of dispatch_pending goes on to the next event, or ends.
NextStep(rest) == IF rest = {} THEN "idle" ELSE "publishing"

\* MaxCopies bounds the copies that the model tells apart.
Send(e) == broker' = [broker EXCEPT ![e] = IF @ < MaxCopies THEN @ + 1 ELSE @]

Publish(e) ==
    /\ Send(e)
    /\ handedOver' = IF e[2] = ProcessEvent THEN handedOver \union {e} ELSE handedOver

\* What the dispatcher does once the broker accepted the message: process events are
\* complete and get marked, webhook events stay locked for their handler.
AfterEnqueue(d, e) ==
    IF e[2] = ProcessEvent
    THEN /\ dpc' = [dpc EXCEPT ![d] = "marking"]
         /\ current' = [current EXCEPT ![d] = e]
    ELSE /\ dpc' = [dpc EXCEPT ![d] = NextStep(held[d] \ {e})]
         /\ UNCHANGED current

Enqueue(d, e) ==
    /\ dpc[d] = "publishing"
    /\ e \in held[d]
    /\ held' = [held EXCEPT ![d] = @ \ {e}]
    /\ Publish(e)
    /\ AfterEnqueue(d, e)
    /\ UNCHANGED <<rowVars, handlerVars, redirected, recovered>>

\* ConnectionError, OSError, TimeoutError or kombu's OperationalError; the broker may
\* have taken the message all the same.
EnqueueFails(d, e) ==
    /\ dpc[d] = "publishing"
    /\ e \in held[d]
    /\ held' = [held EXCEPT ![d] = @ \ {e}]
    /\ dpc' = [dpc EXCEPT ![d] = "releasing"]
    /\ current' = [current EXCEPT ![d] = e]
    /\ Publish(e) \/ UNCHANGED <<broker, handedOver>>
    /\ UNCHANGED <<rowVars, handlerVars, redirected, recovered>>

EndOfEvent(d) ==
    /\ dpc' = [dpc EXCEPT ![d] = NextStep(held[d])]
    /\ current' = [current EXCEPT ![d] = NoEvent]
    /\ UNCHANGED <<held, handlerVars, broker, history>>

MarkDispatched(d) == dpc[d] = "marking" /\ SetDispatched(current[d]) /\ EndOfEvent(d)

ReleaseForRetry(d) == dpc[d] = "releasing" /\ SetReleased(current[d]) /\ EndOfEvent(d)

\* The run ends early: the process dies, or an exception of the database (or one that
\* the loop does not catch) ends the task.  What it claimed stays locked.  (With nothing
\* to claim it ends all the same.)
DispatcherFails(d) ==
    /\ dpc[d] # "idle"
    /\ dpc[d] = "claiming" => Available # {}
    /\ dpc' = [dpc EXCEPT ![d] = "idle"]
    /\ held' = [held EXCEPT ![d] = {}]
    /\ current' = [current EXCEPT ![d] = NoEvent]
    /\ UNCHANGED <<rowVars, handlerVars, broker, history>>

-----------------------------------------------------------------------------
(* The broker and the consumers of process_ai_job.                         *)

Receive(e) ==
    /\ broker[e] > 0
    /\ broker' = [broker EXCEPT ![e] = @ - 1]

\* A worker takes a message of a job.
ConsumeProcess(e) ==
    /\ e[2] = ProcessEvent
    /\ Receive(e)
    /\ UNCHANGED <<rowVars, dispatcherVars, handlerVars, history>>

\* The message of a job goes back: its worker died, or the broker's visibility timeout
\* passed while it was at work.
ProcessMessageReturns(e) ==
    /\ e[2] = ProcessEvent
    /\ e \in handedOver
    /\ Send(e)
    /\ UNCHANGED <<rowVars, dispatcherVars, handlerVars, history>>

-----------------------------------------------------------------------------
(* deliver_result_webhook.                                                 *)

EndOfDelivery(h) ==
    /\ hpc' = [hpc EXCEPT ![h] = "idle"]
    /\ delivering' = [delivering EXCEPT ![h] = NoEvent]
    /\ UNCHANGED <<dispatcherVars, history>>

TakeWebhook(h, e) ==
    /\ hpc[h] = "idle"
    /\ e[2] = WebhookEvent
    /\ Receive(e)
    /\ hpc' = [hpc EXCEPT ![h] = "loading"]
    /\ delivering' = [delivering EXCEPT ![h] = e]
    /\ UNCHANGED <<rowVars, dispatcherVars, history>>

\* The row, its job and output are read once, without a lock.
LoadEvent(h) ==
    /\ hpc[h] = "loading"
    /\ delivering[h] \in outbox
    /\ evStatus[delivering[h]] # "dispatched"
    /\ hpc' = [hpc EXCEPT ![h] = "posting"]
    /\ UNCHANGED <<rowVars, dispatcherVars, delivering, broker, history>>

NothingToDeliver(h) ==
    /\ hpc[h] = "loading"
    /\ delivering[h] \in outbox => evStatus[delivering[h]] = "dispatched"
    /\ EndOfDelivery(h)
    /\ UNCHANGED <<rowVars, broker>>

\* BackendClient._request by Django's answer: any status below 400 counts as success
\* if the body is JSON; a body that is not raises ValueError, which the handler lets
\* through; 400 and above and transport errors are AppErrors, which it catches.
Answers == {"2xx json", "2xx other", "3xx json", "3xx other", "error"}
Success == {"2xx json", "3xx json"}

\* What Django has stored is another question: docs/BACKEND_AI_HANDOFF.md:108-110 has it
\* answer 2xx only then, and has every other answer retried.
Stored == {"2xx json", "2xx other"}

\* Mutant of StepAfter: whatever is not an error counts as delivered.
StepAfterAnyAnswer(answer) ==
    IF answer # "error" THEN "marking" ELSE "releasing"

StepAfter(answer) ==
    CASE answer \in Success -> "marking"
      [] answer = "error" -> "releasing"
      [] OTHER -> "raising"

Post(h, answer) ==
    /\ hpc[h] = "posting"
    /\ hpc' = [hpc EXCEPT ![h] = StepAfter(answer)]
    /\ handedOver' = handedOver \union {e \in {delivering[h]} : answer \in Stored}
    /\ redirected' = (redirected \union {e \in {delivering[h]} : answer = "3xx json"})
                        \ handedOver'
    /\ UNCHANGED <<rowVars, dispatcherVars, delivering, broker, recovered>>

MarkDelivered(h) ==
    /\ hpc[h] = "marking"
    /\ SetDispatched(delivering[h])
    /\ EndOfDelivery(h)
    /\ UNCHANGED broker

ReleaseDelivery(h) ==
    /\ hpc[h] = "releasing"
    /\ SetReleased(delivering[h])
    /\ EndOfDelivery(h)
    /\ UNCHANGED broker

\* The answer's ValueError, or an error of the handler's own database access, ends the
\* task and acknowledges the message; the row stays as it is.
DeliveryRaises(h) ==
    /\ hpc[h] # "idle"
    /\ EndOfDelivery(h)
    /\ UNCHANGED <<rowVars, broker>>

\* The broker's visibility timeout passes: the message goes back while it is handled.
DeliveredAgain(h) ==
    /\ hpc[h] # "idle"
    /\ Send(delivering[h])
    /\ UNCHANGED <<rowVars, dispatcherVars, handlerVars, history>>

\* The handler's process dies and its message goes back.
HandlerDies(h) ==
    /\ hpc[h] # "idle"
    /\ Send(delivering[h])
    /\ EndOfDelivery(h)
    /\ UNCHANGED rowVars

-----------------------------------------------------------------------------
DispatcherStep(d) ==
    \/ RecoverStaleLocks(d)
    \/ \E S \in Batches : ClaimPending(d, S)
    \/ \E e \in held[d] : Enqueue(d, e)
    \/ MarkDispatched(d) \/ ReleaseForRetry(d)

HandlerStep(h) ==
    \/ \E e \in Events : TakeWebhook(h, e)
    \/ LoadEvent(h) \/ NothingToDeliver(h)
    \/ \E answer \in Answers : Post(h, answer)
    \/ MarkDelivered(h) \/ ReleaseDelivery(h)
    \/ hpc[h] = "raising" /\ DeliveryRaises(h)

Fault ==
    \/ \E d \in Dispatchers : DispatcherFails(d) \/ \E e \in held[d] : EnqueueFails(d, e)
    \/ \E h \in Handlers :
          \/ hpc[h] # "raising" /\ DeliveryRaises(h)
          \/ DeliveredAgain(h) \/ HandlerDies(h)

Passing(e) == BackoffElapses(e) \/ LockAges(e)

Environment ==
    \/ \E e \in Events : Insert(e) \/ ConsumeProcess(e) \/ ProcessMessageReturns(e)
    \/ \E S \in SUBSET Jobs : Delete(S)

Next ==
    \/ \E d \in Dispatchers : DispatcherStep(d)
    \/ \E h \in Handlers : HandlerStep(h)
    \/ \E e \in Events : Passing(e)
    \/ Fault
    \/ Environment

Spec == Init /\ [][Next]_vars

-----------------------------------------------------------------------------
(* Properties.                                                             *)

TypeOK ==
    /\ inserted \in SUBSET Events
    /\ outbox \in SUBSET inserted
    /\ evStatus \in [Events -> DispatchOutboxStatus]
    /\ locked \in SUBSET outbox
    /\ stale \in SUBSET locked
    /\ due \in SUBSET outbox
    /\ dpc \in [Dispatchers -> DispatcherSteps]
    /\ held \in [Dispatchers -> SUBSET Events]
    /\ current \in [Dispatchers -> Events \union {NoEvent}]
    /\ hpc \in [Handlers -> HandlerSteps]
    /\ delivering \in [Handlers -> Events \union {NoEvent}]
    /\ broker \in [Events -> 0..MaxCopies]
    /\ handedOver \in SUBSET Events
    /\ redirected \in SUBSET {e \in Events : e[2] = WebhookEvent}
    /\ recovered \in SUBSET Events

\* dispatch_pending and deliver_result_webhook record a hand-over only after it
\* happened, whichever runs, crashes and stale locks went before: a row is DISPATCHED only
\* if the broker took the job's message, or Django answered the result with 2xx.  The one
\* exception contradicts docs/BACKEND_AI_HANDOFF.md:109 ("AI retries non-2xx"): after a
\* redirect with a JSON body the row is DISPATCHED and Django has nothing
\* (backend_client.py:59,71).
DispatchedMeansHandedOver ==
    \A e \in outbox : evStatus[e] = "dispatched"
        => e \in handedOver \/ (e[2] = WebhookEvent /\ e \in redirected)

\* recover_stale_locks finds rows by status and locked_at: a row whose claim is never
\* finished stays recoverable, because the two are written and cleared together by
\* five transactions of two processes.
ClaimsAreRecoverable ==
    \A e \in outbox : evStatus[e] = "dispatching" <=> e \in locked

Holds(d, e) == e \in held[d] \/ (current[d] = e)

\* Two overlapping runs of dispatch_job_outbox never hold the same process event
\* unless a stale lock of it was taken back from a slow run.
ProcessClaimsAreExclusive ==
    \A e \in Events \ recovered : \A d1, d2 \in Dispatchers :
        e[2] = ProcessEvent /\ Holds(d1, e) /\ Holds(d2, e) => d1 = d2

\* release_for_retry and mark_dispatched write whatever the row holds by then, yet the
\* event of a job that is dispatched is published again only if its lock was once taken
\* back from a run that was still at work.
DispatchedJobStaysDispatched ==
    [][\A e \in Events \ recovered :
          e[2] = ProcessEvent /\ evStatus[e] = "dispatched"
             => evStatus'[e] = "dispatched" \/ e \notin outbox']_vars

(* The inductive invariant behind them.                                    *)

\* The step of a dispatcher or handler fixes what it holds.
DispatchersFollowStep ==
    \A d \in Dispatchers :
        /\ dpc[d] \in {"idle", "claiming"} => held[d] = {}
        /\ current[d] # NoEvent <=> dpc[d] \in {"marking", "releasing"}
        /\ current[d] \notin held[d]
        /\ dpc[d] = "marking" => current[d] \in handedOver

HandlersFollowStep ==
    \A h \in Handlers :
        /\ delivering[h] # NoEvent <=> hpc[h] # "idle"
        /\ delivering[h] # NoEvent => delivering[h][2] = WebhookEvent
        /\ hpc[h] = "marking" => delivering[h] \in handedOver \union redirected

\* A held event had a row; while it has one, the row says so unless it was recovered.
ClaimsFollowRows ==
    \A d \in Dispatchers, e \in Events : Holds(d, e) =>
        /\ e \in inserted
        /\ e \in outbox \ recovered /\ e[2] = ProcessEvent => evStatus[e] = "dispatching"

DeletedRowsAreFresh == \A e \in Events \ outbox : evStatus[e] = "pending"

IInv ==
    /\ TypeOK
    /\ DispatchersFollowStep
    /\ HandlersFollowStep
    /\ ClaimsFollowRows
    /\ DeletedRowsAreFresh
    /\ DispatchedMeansHandedOver
    /\ ClaimsAreRecoverable
    /\ ProcessClaimsAreExclusive
=============================================================================
