---------------------------- MODULE JobSystemProofs ----------------------------
(***************************************************************************)
(* Proofs about JobSystem for any number of jobs, workers, dispatcher runs *)
(* and webhook handlers.  What JobLifecycleProofs proves of the jobs alone *)
(* holds of them here because every step of the system is one of theirs.   *)
(***************************************************************************)
EXTENDS JobSystem, TLAPS

LP == INSTANCE JobLifecycleProofs

(***************************************************************************)
(* The jobs: the system implements JobLifecycle, invariants included.      *)
(***************************************************************************)
LEMMA JobsBegin == Init => LP!Init
BY DEF Init, Lifecycle!Init, LP!Init

LEMMA WorkersWork ==
  ASSUME NEW w \in Workers,
         \/ Lifecycle!Claim(w) \/ Lifecycle!Discard(w) \/ Lifecycle!StartRetrieval(w)
         \/ Lifecycle!PipelineReturns(w) \/ Lifecycle!StartValidation(w)
         \/ Lifecycle!StopBeforeOutput(w) \/ Lifecycle!Publish(w)
         \/ Lifecycle!MarkFailed(w) \/ Lifecycle!Return(w)
  PROVE  LP!WorkerStep(w)
<1> USE DEF Lifecycle!Goto, LP!Goto, Lifecycle!dbVars, LP!dbVars
<1>1. CASE Lifecycle!Claim(w)
  BY <1>1 DEF Lifecycle!Claim, LP!Claim, Lifecycle!Claimable, LP!Claimable, LP!WorkerStep
<1>2. CASE Lifecycle!Discard(w)
  BY <1>2 DEF Lifecycle!Discard, LP!Discard, Lifecycle!Claimable, LP!Claimable, LP!WorkerStep
<1>3. CASE Lifecycle!StartRetrieval(w) \/ Lifecycle!StartValidation(w)
  BY <1>3 DEF Lifecycle!StartRetrieval, LP!StartRetrieval, Lifecycle!StartValidation,
         LP!StartValidation, Lifecycle!Persist, LP!Persist, LP!WorkerStep,
         Lifecycle!TransitionAccepted, LP!TransitionAccepted, Lifecycle!CanTransition,
         LP!CanTransition, Lifecycle!AllowedTransitions, LP!AllowedTransitions,
         Lifecycle!Stopped, LP!Stopped
<1>4. CASE Lifecycle!PipelineReturns(w)
  BY <1>4 DEF Lifecycle!PipelineReturns, LP!PipelineReturns, Lifecycle!CancellationRequested,
         LP!CancellationRequested, LP!WorkerStep
<1>5. CASE Lifecycle!StopBeforeOutput(w)
  BY <1>5 DEF Lifecycle!StopBeforeOutput, LP!StopBeforeOutput, Lifecycle!MustStop, LP!MustStop,
         LP!WorkerStep
<1>6. CASE Lifecycle!Publish(w)
  BY <1>6 DEF Lifecycle!Publish, LP!Publish, Lifecycle!MustStop, LP!MustStop, LP!WorkerStep,
         Lifecycle!WebhookEvent, LP!WebhookEvent,
         Lifecycle!TransitionAccepted, LP!TransitionAccepted, Lifecycle!CanTransition,
         LP!CanTransition, Lifecycle!AllowedTransitions, LP!AllowedTransitions,
         Lifecycle!Stopped, LP!Stopped
<1>7. CASE Lifecycle!MarkFailed(w)
  BY <1>7 DEF Lifecycle!MarkFailed, LP!MarkFailed, Lifecycle!FailureStatus, LP!FailureStatus,
         Lifecycle!Open, LP!Open, Lifecycle!Live, LP!Live, Lifecycle!Settled, LP!Settled,
         Lifecycle!JobStatus, LP!JobStatus, Lifecycle!TERMINAL_JOB_STATES,
         LP!TERMINAL_JOB_STATES, LP!WorkerStep
<1>8. CASE Lifecycle!Return(w)
  BY <1>8 DEF Lifecycle!Return, LP!Return, Lifecycle!LeaveTask, LP!LeaveTask, LP!WorkerStep
<1> QED
  BY <1>1, <1>2, <1>3, <1>4, <1>5, <1>6, <1>7, <1>8

LEMMA LifecycleSteps == Next => LP!Next \/ UNCHANGED LP!vars
<1> SUFFICES ASSUME Next PROVE LP!Next \/ UNCHANGED LP!vars
  OBVIOUS
<1> USE DEF LP!dbVars, LP!workerVars, Lifecycle!dbVars, Lifecycle!workerVars, Lifecycle!Goto,
            LP!Goto, Lifecycle!Open, LP!Open, Lifecycle!Live, LP!Live, Lifecycle!Settled,
            LP!Settled, Lifecycle!JobStatus, LP!JobStatus, Lifecycle!TERMINAL_JOB_STATES,
            LP!TERMINAL_JOB_STATES
<1>1. ASSUME NEW j \in Jobs, CreateJob(j) PROVE LP!Next
  <2>1. LP!CreateJob(j)
    BY <1>1 DEF CreateJob, Lifecycle!CreateJob, LP!CreateJob, Lifecycle!ProcessEvent, LP!ProcessEvent
  <2> QED
    BY <2>1 DEF LP!Next
<1>2. ASSUME NEW j \in Jobs, CancelJob(j) PROVE LP!Next
  <2>1. LP!CancelJob(j)
    BY <1>2 DEF CancelJob, Lifecycle!CancelJob, LP!CancelJob,
         Lifecycle!TransitionAccepted, LP!TransitionAccepted, Lifecycle!CanTransition,
         LP!CanTransition, Lifecycle!AllowedTransitions, LP!AllowedTransitions,
         Lifecycle!Stopped, LP!Stopped
  <2> QED
    BY <2>1 DEF LP!Next
<1>3. ASSUME NEW S \in SUBSET Jobs, CleanupExpired(S) PROVE LP!Next
  <2>1. LP!CleanupExpired(S)
    BY <1>3 DEF CleanupExpired, Lifecycle!CleanupExpired, LP!CleanupExpired
  <2> QED
    BY <2>1 DEF LP!Next
<1>4. ASSUME NEW w \in Workers, NEW j \in Jobs, Deliver(w, j) PROVE LP!Next
  <2>1. LP!Deliver(w, j)
    BY <1>4 DEF Deliver, Lifecycle!Deliver, LP!Deliver
  <2> QED
    BY <2>1 DEF LP!Next
<1>5. ASSUME NEW w \in Workers, WorkerStep(w) PROVE LP!Next
  <2>1. CASE Lifecycle!Raise(w)
    <3>1. LP!Raise(w)
      BY <2>1 DEF Lifecycle!Raise, LP!Raise, Lifecycle!OwningSteps, LP!OwningSteps
    <3> QED
      BY <3>1 DEF LP!Next, LP!Fault
  <2>2. CASE ~Lifecycle!Raise(w)
    BY <1>5, <2>2, WorkersWork DEF WorkerStep, Publish, LP!Next
  <2> QED
    BY <2>1, <2>2
<1>6. ASSUME NEW w \in Workers, HandlerFails(w) \/ WorkerDies(w) PROVE LP!Next
  <2>1. LP!HandlerFails(w) \/ LP!Crash(w)
    BY <1>6 DEF HandlerFails, Lifecycle!HandlerFails, LP!HandlerFails, WorkerDies,
                Lifecycle!Crash, LP!Crash, Lifecycle!LeaveTask, LP!LeaveTask
  <2> QED
    BY <2>1 DEF LP!Next, LP!Fault
<1>7. ASSUME NEW w \in Workers, DeliveredAgain(w) PROVE UNCHANGED LP!vars
  BY <1>7 DEF DeliveredAgain, jobVars, LP!vars
<1>8. ASSUME NEW d \in Dispatchers, DispatcherStep(d) PROVE UNCHANGED LP!vars
  <2>1. UNCHANGED outbox
    BY <1>8 DEF DispatcherStep, Outbox!DispatcherStep, Outbox!RecoverStaleLocks,
                Outbox!ClaimPending, Outbox!Enqueue, Outbox!MarkDispatched,
                Outbox!ReleaseForRetry, Outbox!SetDispatched, Outbox!SetReleased, Outbox!rowVars
  <2> QED
    BY <1>8, <2>1 DEF DispatcherStep, jobVars, LP!vars
<1>9. ASSUME NEW h \in Handlers, WebhookStep(h) PROVE UNCHANGED LP!vars
  <2>1. UNCHANGED outbox
    BY <1>9 DEF WebhookStep, Outbox!HandlerStep, Outbox!TakeWebhook, Outbox!LoadEvent,
                Outbox!NothingToDeliver, Outbox!Post, Outbox!MarkDelivered,
                Outbox!ReleaseDelivery, Outbox!DeliveryRaises, Outbox!SetDispatched,
                Outbox!SetReleased, Outbox!rowVars
  <2> QED
    BY <1>9, <2>1 DEF WebhookStep, jobVars, LP!vars
<1>10. ASSUME NEW e \in Outbox!Events, Passing(e) PROVE UNCHANGED LP!vars
  BY <1>10 DEF Passing, Outbox!Passing, Outbox!BackoffElapses, Outbox!LockAges, jobVars, LP!vars
<1>11. ASSUME OutboxFault PROVE UNCHANGED LP!vars
  <2>1. UNCHANGED outbox
    BY <1>11 DEF OutboxFault, Outbox!Fault, Outbox!DispatcherFails, Outbox!EnqueueFails,
                 Outbox!DeliveryRaises, Outbox!DeliveredAgain, Outbox!HandlerDies, Outbox!rowVars
  <2> QED
    BY <1>11, <2>1 DEF OutboxFault, jobVars, LP!vars
<1> QED
  BY <1>1, <1>2, <1>3, <1>4, <1>5, <1>6, <1>7, <1>8, <1>9, <1>10, <1>11 DEF Next

\* Every behaviour of the system is one of its jobs, as JobLifecycle describes them.
THEOREM JobsAreLifecycles == Spec => LP!Spec
<1>1. [Next]_vars => [LP!Next]_(LP!vars)
  BY LifecycleSteps DEF vars, jobVars, LP!vars
<1> QED
  BY <1>1, JobsBegin, PTL DEF Spec, LP!Spec

\* So the invariant proved of JobLifecycle holds of the system's jobs.
THEOREM JobsKeepTheirInvariant == Spec => []LP!IInv
<1>1. LP!Spec => []LP!IInv
  BY NoJobIsNoJob, LP!Invariance
<1> QED
  BY <1>1, JobsAreLifecycles, PTL

\* The invariant under this module's names for the parts of the lifecycle.
LEMMA SameInvariant == LP!IInv => Lifecycle!IInv
BY DEF Lifecycle!IInv, LP!IInv, Lifecycle!TypeOK, LP!TypeOK, Lifecycle!RowStatus, LP!RowStatus,
       Lifecycle!JobStatus, LP!JobStatus, Lifecycle!EventTypes, LP!EventTypes, Lifecycle!Steps,
       LP!Steps, Lifecycle!OwningSteps, LP!OwningSteps, Lifecycle!ProcessEvent, LP!ProcessEvent,
       Lifecycle!WebhookEvent, LP!WebhookEvent, Lifecycle!CopyFollowsStep, LP!CopyFollowsStep,
       Lifecycle!CopyAt, LP!CopyAt, Lifecycle!OneOwner, LP!OneOwner, Lifecycle!Owns, LP!Owns,
       Lifecycle!OwnerMissesOnlyEndings, LP!OwnerMissesOnlyEndings,
       Lifecycle!RowsMoveTogether, LP!RowsMoveTogether

(***************************************************************************)
(* The coupling of the two parts.                                          *)
(***************************************************************************)
\* An event was inserted exactly when its job reached the status that inserts it.
RowsFollowJobs ==
  /\ inserted \subseteq Outbox!Events /\ outbox \subseteq inserted
  /\ \A j \in Jobs : ProcessEvent(j) \in inserted <=> status[j] # "absent"
  /\ \A j \in Jobs : WebhookEvent(j) \in inserted => status[j] \in {"completed", "purged"}

\* What is claimed, on its way, handled or handed over was inserted; a message of a job
\* in the broker or at a worker is one that a dispatcher handed over.
MessagesFollowRows ==
  /\ handedOver \subseteq inserted
  /\ broker \in [Outbox!Events -> Nat]
  /\ \A e \in Outbox!Events :
        broker[e] > 0 => e \in inserted /\ (e[2] = Outbox!ProcessEvent => e \in handedOver)
  /\ held \in [Dispatchers -> SUBSET inserted]
  /\ hpc \in [Handlers -> Outbox!HandlerSteps]
  /\ delivering \in [Handlers -> Outbox!Events \cup {NoEvent}]
  /\ \A h \in Handlers : hpc[h] # "idle" =>
        delivering[h] \in inserted /\ delivering[h][2] = Outbox!WebhookEvent
  /\ \A w \in Workers : pc[w] # "idle" => ProcessEvent(task[w]) \in handedOver

Coupled == RowsFollowJobs /\ MessagesFollowRows

LEMMA EventsOfJobs ==
  ASSUME NEW j \in Jobs
  PROVE  /\ ProcessEvent(j) \in Outbox!Events /\ WebhookEvent(j) \in Outbox!Events
         /\ ProcessEvent(j)[1] = j /\ ProcessEvent(j)[2] = Outbox!ProcessEvent
         /\ WebhookEvent(j)[1] = j /\ WebhookEvent(j)[2] = Outbox!WebhookEvent
         /\ Outbox!ProcessEvent # Outbox!WebhookEvent
         /\ \A i \in Jobs : /\ ProcessEvent(j) # WebhookEvent(i)
                            /\ ProcessEvent(j) = ProcessEvent(i) => i = j
                            /\ WebhookEvent(j) = WebhookEvent(i) => i = j
BY DEF ProcessEvent, WebhookEvent, Outbox!Events, Outbox!EventTypes, Outbox!ProcessEvent,
       Outbox!WebhookEvent

LEMMA EventTypesDiffer == Outbox!ProcessEvent # Outbox!WebhookEvent
BY DEF Outbox!ProcessEvent, Outbox!WebhookEvent

LEMMA CouplingBegins == Init => Coupled
BY EventsOfJobs DEF Init, Lifecycle!Init, Outbox!Init, Coupled, RowsFollowJobs,
   MessagesFollowRows, Outbox!HandlerSteps

\* A job that exists goes on existing, a completed or purged one stays so, and only
\* CreateJob makes one.
LEMMA JobsGoOn ==
  ASSUME LP!IInv, Next, NEW j \in Jobs
  PROVE  /\ status[j] # "absent" => status'[j] # "absent"
         /\ status[j] \in {"completed", "purged"} => status'[j] \in {"completed", "purged"}
         /\ status[j] = "absent" => status'[j] = "absent" \/ CreateJob(j)
<1> USE DEF Lifecycle!IInv, Lifecycle!TypeOK, Lifecycle!RowStatus, Lifecycle!JobStatus,
            Lifecycle!OwningSteps, Lifecycle!CopyFollowsStep, Lifecycle!CopyAt,
            Lifecycle!Owns, Lifecycle!OwnerMissesOnlyEndings, Lifecycle!dbVars,
            Lifecycle!workerVars, Lifecycle!Goto, Lifecycle!Live, Lifecycle!Open,
            Lifecycle!Settled, Lifecycle!TERMINAL_JOB_STATES, jobVars
<1>0. Lifecycle!IInv
  BY SameInvariant
<1>1. CASE UNCHANGED status
  BY <1>1
<1> DEFINE GoesOn ==
       /\ status[j] # "absent" => status'[j] # "absent"
       /\ status[j] \in {"completed", "purged"} => status'[j] \in {"completed", "purged"}
       /\ status[j] = "absent" => status'[j] = "absent" \/ CreateJob(j)
<1>2. ASSUME NEW i \in Jobs, CreateJob(i) \/ CancelJob(i) PROVE GoesOn
  BY <1>0, <1>2 DEF CreateJob, CancelJob, Lifecycle!CreateJob, Lifecycle!CancelJob
<1>3. ASSUME NEW S \in SUBSET Jobs, CleanupExpired(S) PROVE GoesOn
  BY <1>0, <1>3 DEF CleanupExpired, Lifecycle!CleanupExpired
<1>4. ASSUME NEW w \in Workers, WorkerStep(w) PROVE GoesOn
  <2>1. CASE Lifecycle!Claim(w) \/ Lifecycle!MarkFailed(w) \/ Publish(w)
    BY <1>0, <2>1 DEF Lifecycle!Claim, Lifecycle!Claimable, Lifecycle!MarkFailed,
         Lifecycle!FailureStatus, Publish, Lifecycle!Publish
  <2>2. CASE Lifecycle!StartRetrieval(w) \/ Lifecycle!StartValidation(w)
    BY <1>0, <2>2 DEF Lifecycle!StartRetrieval, Lifecycle!StartValidation, Lifecycle!Persist
  <2>3. CASE \/ Lifecycle!Discard(w) \/ Lifecycle!PipelineReturns(w)
             \/ Lifecycle!StopBeforeOutput(w) \/ Lifecycle!Raise(w) \/ Lifecycle!Return(w)
    BY <2>3 DEF Lifecycle!Discard, Lifecycle!PipelineReturns, Lifecycle!StopBeforeOutput,
         Lifecycle!Raise, Lifecycle!Return, Lifecycle!LeaveTask
  <2> QED
    BY <1>4, <2>1, <2>2, <2>3 DEF WorkerStep
<1>5. ASSUME NEW w \in Workers, NEW i \in Jobs, Deliver(w, i) PROVE UNCHANGED status
  BY <1>5 DEF Deliver, Lifecycle!Deliver
<1>6. ASSUME NEW w \in Workers, HandlerFails(w) \/ WorkerDies(w) \/ DeliveredAgain(w)
      PROVE UNCHANGED status
  BY <1>6 DEF HandlerFails, WorkerDies, DeliveredAgain, Lifecycle!HandlerFails,
              Lifecycle!Crash, Lifecycle!LeaveTask
<1> QED
  BY <1>1, <1>2, <1>3, <1>4, <1>5, <1>6
     DEF Next, DispatcherStep, WebhookStep, Passing, OutboxFault

\* Steps after which the same events were inserted and jobs are as they were or go on.
LEMMA RowsKept ==
  ASSUME LP!IInv, Next, RowsFollowJobs, UNCHANGED inserted, outbox' \subseteq outbox,
         \A j \in Jobs : ~CreateJob(j)
  PROVE  RowsFollowJobs'
<1>1. UNCHANGED Outbox!Events /\ \A j \in Jobs : UNCHANGED <<ProcessEvent(j), WebhookEvent(j)>>
  BY DEF Outbox!Events, ProcessEvent, WebhookEvent
<1> QED
  BY <1>1, JobsGoOn DEF RowsFollowJobs

LEMMA RowsAreKept == ASSUME LP!IInv, Next, RowsFollowJobs PROVE RowsFollowJobs'
<1>0. Lifecycle!IInv
  BY SameInvariant
<1>1. ASSUME NEW j \in Jobs, CreateJob(j) PROVE RowsFollowJobs'
  <2>1. inserted' = inserted \cup {ProcessEvent(j)} /\ outbox' = outbox \cup {ProcessEvent(j)}
    BY <1>1 DEF CreateJob, Outbox!InsertRow
  <2>2. status' = [status EXCEPT ![j] = "queued"] /\ status[j] = "absent"
    BY <1>1 DEF CreateJob, Lifecycle!CreateJob
  <2>3. status \in [Jobs -> Lifecycle!RowStatus]
    BY <1>0 DEF Lifecycle!IInv, Lifecycle!TypeOK
  <2> QED
    BY <2>1, <2>2, <2>3, EventsOfJobs DEF RowsFollowJobs
<1>2. ASSUME NEW w \in Workers, Publish(w) PROVE RowsFollowJobs'
  <2>1. task[w] \in Jobs /\ status[task[w]] # "absent" /\ status \in [Jobs -> Lifecycle!RowStatus]
    BY <1>0, <1>2 DEF Publish, Lifecycle!Publish, Lifecycle!IInv, Lifecycle!TypeOK,
                      Lifecycle!CopyFollowsStep
  <2>2. /\ inserted' = inserted \cup {WebhookEvent(task[w])}
        /\ outbox' = outbox \cup {WebhookEvent(task[w])}
    BY <1>2 DEF Publish, Outbox!InsertRow
  <2>3. status' = [status EXCEPT ![task[w]] = "completed"]
    BY <1>2 DEF Publish, Lifecycle!Publish
  <2> QED
    BY <2>1, <2>2, <2>3, EventsOfJobs DEF RowsFollowJobs
<1>3. ASSUME \A j \in Jobs : ~CreateJob(j), \A w \in Workers : ~Publish(w)
      PROVE  UNCHANGED inserted /\ outbox' \subseteq outbox
  <2>1. ASSUME NEW S \in SUBSET Jobs, CleanupExpired(S)
        PROVE  UNCHANGED inserted /\ outbox' \subseteq outbox
    BY <2>1 DEF CleanupExpired, Outbox!DeleteRows
  <2>2. ASSUME NEW w \in Workers, \/ \E j \in Jobs : Deliver(w, j)
                                  \/ WorkerDies(w) \/ DeliveredAgain(w)
        PROVE  UNCHANGED <<inserted, outbox>>
    BY <2>2 DEF Deliver, WorkerDies, DeliveredAgain, Lifecycle!Deliver, Lifecycle!Crash,
                Lifecycle!LeaveTask, Lifecycle!dbVars, allButBroker
  <2>3. ASSUME NEW w \in Workers, WorkerStep(w) \/ HandlerFails(w), ~Publish(w)
        PROVE  UNCHANGED <<inserted, outbox>>
    BY <2>3 DEF WorkerStep, HandlerFails, outboxVars, Lifecycle!Claim, Lifecycle!Discard,
         Lifecycle!StartRetrieval, Lifecycle!PipelineReturns, Lifecycle!StartValidation,
         Lifecycle!StopBeforeOutput, Lifecycle!Raise, Lifecycle!MarkFailed, Lifecycle!Return,
         Lifecycle!HandlerFails, Lifecycle!Persist, Lifecycle!LeaveTask, Lifecycle!dbVars
  <2>4. ASSUME NEW j \in Jobs, CancelJob(j) PROVE UNCHANGED <<inserted, outbox>>
    BY <2>4 DEF CancelJob, Lifecycle!CancelJob, outboxVars
  <2>5. ASSUME \/ \E d \in Dispatchers : DispatcherStep(d)
               \/ \E h \in Handlers : WebhookStep(h)
               \/ \E e \in Outbox!Events : Passing(e)
               \/ OutboxFault
        PROVE  UNCHANGED <<inserted, outbox>>
    BY <2>5 DEF DispatcherStep, WebhookStep, Passing, OutboxFault, Outbox!rowVars,
         Outbox!DispatcherStep, Outbox!RecoverStaleLocks, Outbox!ClaimPending, Outbox!Enqueue,
         Outbox!MarkDispatched, Outbox!ReleaseForRetry, Outbox!SetDispatched,
         Outbox!SetReleased, Outbox!HandlerStep, Outbox!TakeWebhook, Outbox!LoadEvent,
         Outbox!NothingToDeliver, Outbox!Post, Outbox!MarkDelivered, Outbox!ReleaseDelivery,
         Outbox!DeliveryRaises, Outbox!Passing, Outbox!BackoffElapses, Outbox!LockAges,
         Outbox!Fault, Outbox!DispatcherFails, Outbox!EnqueueFails, Outbox!DeliveredAgain,
         Outbox!HandlerDies
  <2> QED
    BY <1>3, <2>1, <2>2, <2>3, <2>4, <2>5 DEF Next
<1> QED
  BY <1>1, <1>2, <1>3, RowsKept

\* Sending an event's message makes a copy of that event's and of no other.
LEMMA SendingMessages ==
  ASSUME NEW e \in Outbox!Events, broker \in [Outbox!Events -> Nat], Outbox!Send(e)
  PROVE  /\ broker' \in [Outbox!Events -> Nat]
         /\ \A f \in Outbox!Events : broker'[f] > 0 => broker[f] > 0 \/ f = e
BY DEF Outbox!Send

LEMMA ReceivingMessages ==
  ASSUME NEW e \in Outbox!Events, broker \in [Outbox!Events -> Nat], Outbox!Receive(e)
  PROVE  /\ broker' \in [Outbox!Events -> Nat] /\ broker[e] > 0
         /\ \A f \in Outbox!Events : broker'[f] > 0 => broker[f] > 0
BY DEF Outbox!Receive

\* Steps of the jobs: events may be inserted, messages of jobs received or returned.
LEMMA JobMessages ==
  ASSUME LP!IInv, MessagesFollowRows, RowsFollowJobs, inserted \subseteq inserted',
         UNCHANGED <<handedOver, held, hpc, delivering>>,
         broker' \in [Outbox!Events -> Nat],
         \A e \in Outbox!Events :
            broker'[e] > 0 => broker[e] > 0 \/ (e \in handedOver),
         \A w \in Workers : pc'[w] # "idle" => ProcessEvent(task'[w]) \in handedOver
  PROVE  MessagesFollowRows'
<1>1. UNCHANGED <<Outbox!Events, Outbox!HandlerSteps, Outbox!ProcessEvent, Outbox!WebhookEvent>>
      /\ \A w \in Workers : ProcessEvent(task[w])' = ProcessEvent(task'[w])
  BY DEF Outbox!Events, Outbox!HandlerSteps, Outbox!ProcessEvent, Outbox!WebhookEvent, ProcessEvent
<1>2. held' \in [Dispatchers -> SUBSET inserted']
  BY DEF MessagesFollowRows
<1> QED
  BY <1>1, <1>2 DEF MessagesFollowRows

LEMMA JobStepsKeepMessages ==
  ASSUME LP!IInv, MessagesFollowRows, RowsFollowJobs,
         \/ \E j \in Jobs : CreateJob(j) \/ CancelJob(j)
         \/ \E S \in SUBSET Jobs : CleanupExpired(S)
         \/ \E w \in Workers :
               \/ \E j \in Jobs : Deliver(w, j)
               \/ WorkerStep(w) \/ HandlerFails(w) \/ WorkerDies(w) \/ DeliveredAgain(w)
  PROVE  MessagesFollowRows'
<1>0. /\ pc \in [Workers -> Lifecycle!Steps] /\ task \in [Workers -> Jobs \cup {NoJob}]
      /\ \A w \in Workers : pc[w] # "idle" => task[w] \in Jobs
  BY SameInvariant DEF Lifecycle!IInv, Lifecycle!TypeOK, Lifecycle!CopyFollowsStep
<1>1. /\ broker \in [Outbox!Events -> Nat]
      /\ \A w \in Workers : pc[w] # "idle" => ProcessEvent(task[w]) \in handedOver
  BY DEF MessagesFollowRows
<1>2. ASSUME UNCHANGED <<pc, task>>, UNCHANGED restOfOutbox, inserted \subseteq inserted'
      PROVE  MessagesFollowRows'
  BY <1>1, <1>2, JobMessages DEF restOfOutbox
<1>3. ASSUME NEW j \in Jobs, CreateJob(j) PROVE MessagesFollowRows'
  BY <1>2, <1>3 DEF CreateJob, Lifecycle!CreateJob, Lifecycle!workerVars, Outbox!InsertRow
<1>4. ASSUME NEW j \in Jobs, CancelJob(j) PROVE MessagesFollowRows'
  BY <1>2, <1>4 DEF CancelJob, Lifecycle!CancelJob, Lifecycle!workerVars, outboxVars, restOfOutbox
<1>5. ASSUME NEW S \in SUBSET Jobs, CleanupExpired(S) PROVE MessagesFollowRows'
  BY <1>2, <1>5 DEF CleanupExpired, Lifecycle!CleanupExpired, Lifecycle!workerVars, Outbox!DeleteRows
<1>6. ASSUME NEW w \in Workers, NEW j \in Jobs, Deliver(w, j) PROVE MessagesFollowRows'
  <2>1. Outbox!Receive(ProcessEvent(j)) /\ UNCHANGED <<inserted, handedOver, held, hpc, delivering>>
    BY <1>6 DEF Deliver, allButBroker
  <2>2. ProcessEvent(j) \in handedOver
    BY <1>1, <2>1, EventsOfJobs, ReceivingMessages DEF MessagesFollowRows
  <2>3. pc' = [pc EXCEPT ![w] = "received"] /\ task' = [task EXCEPT ![w] = j]
    BY <1>6 DEF Deliver, Lifecycle!Deliver, Lifecycle!Goto
  <2>4. \A v \in Workers : pc'[v] # "idle" => ProcessEvent(task'[v]) \in handedOver
    BY <1>0, <1>1, <2>2, <2>3
  <2> QED
    BY <1>1, <2>1, <2>4, EventsOfJobs, ReceivingMessages, JobMessages
<1>7. ASSUME NEW w \in Workers, WorkerStep(w) \/ HandlerFails(w) PROVE MessagesFollowRows'
  <2>1. inserted \subseteq inserted' /\ UNCHANGED restOfOutbox
    BY <1>7 DEF WorkerStep, HandlerFails, Publish, Outbox!InsertRow, outboxVars, restOfOutbox
  <2>2. \A v \in Workers : pc'[v] # "idle" => pc[v] # "idle" /\ task'[v] = task[v]
    BY <1>0, <1>7 DEF WorkerStep, HandlerFails, Publish, Lifecycle!Goto, Lifecycle!dbVars,
         Lifecycle!Claim, Lifecycle!Discard, Lifecycle!StartRetrieval, Lifecycle!PipelineReturns,
         Lifecycle!StartValidation, Lifecycle!StopBeforeOutput, Lifecycle!Raise,
         Lifecycle!OwningSteps, Lifecycle!MarkFailed, Lifecycle!Return, Lifecycle!HandlerFails,
         Lifecycle!Persist, Lifecycle!LeaveTask, Lifecycle!Publish
  <2> QED
    BY <1>1, <2>1, <2>2, JobMessages DEF restOfOutbox
<1>8. ASSUME NEW w \in Workers, WorkerDies(w) \/ DeliveredAgain(w) PROVE MessagesFollowRows'
  <2>1. pc[w] # "idle" /\ Outbox!Send(ProcessEvent(task[w]))
        /\ UNCHANGED <<inserted, handedOver, held, hpc, delivering>>
    BY <1>8 DEF WorkerDies, DeliveredAgain, Lifecycle!Crash, allButBroker
  <2>2. \A v \in Workers : pc'[v] # "idle" => pc[v] # "idle" /\ task'[v] = task[v]
    BY <1>0, <1>8 DEF WorkerDies, DeliveredAgain, Lifecycle!Crash, Lifecycle!LeaveTask,
                      Lifecycle!Goto, jobVars
  <2> QED
    BY <1>0, <1>1, <2>1, <2>2, EventsOfJobs, SendingMessages, JobMessages
<1> QED
  BY <1>3, <1>4, <1>5, <1>6, <1>7, <1>8

\* Steps of the dispatcher, the broker and the webhook handler.
LEMMA OutboxMessages ==
  ASSUME MessagesFollowRows, UNCHANGED <<inserted, pc, task>>,
         handedOver \subseteq handedOver', handedOver' \subseteq inserted,
         broker' \in [Outbox!Events -> Nat],
         \A e \in Outbox!Events : broker'[e] > 0 =>
            broker[e] > 0 \/ (e \in inserted /\ (e[2] = Outbox!ProcessEvent => e \in handedOver')),
         held' \in [Dispatchers -> SUBSET inserted],
         hpc' \in [Handlers -> Outbox!HandlerSteps],
         delivering' \in [Handlers -> Outbox!Events \cup {NoEvent}],
         \A h \in Handlers : hpc'[h] # "idle" =>
            delivering'[h] \in inserted /\ delivering'[h][2] = Outbox!WebhookEvent
  PROVE  MessagesFollowRows'
<1>1. UNCHANGED <<Outbox!Events, Outbox!HandlerSteps, Outbox!ProcessEvent, Outbox!WebhookEvent>>
      /\ \A w \in Workers : UNCHANGED ProcessEvent(task[w])
  BY DEF Outbox!Events, Outbox!HandlerSteps, Outbox!ProcessEvent, Outbox!WebhookEvent, ProcessEvent
<1> QED
  BY <1>1 DEF MessagesFollowRows

LEMMA DispatcherKeepsMessages ==
  ASSUME MessagesFollowRows, RowsFollowJobs, NEW d \in Dispatchers, UNCHANGED jobVars,
         \/ Outbox!DispatcherStep(d) \/ Outbox!DispatcherFails(d)
         \/ \E e \in held[d] : Outbox!EnqueueFails(d, e)
  PROVE  MessagesFollowRows'
<1>1. /\ held \in [Dispatchers -> SUBSET inserted] /\ broker \in [Outbox!Events -> Nat]
      /\ handedOver \subseteq inserted /\ inserted \subseteq Outbox!Events
      /\ outbox \subseteq inserted
  BY DEF MessagesFollowRows, RowsFollowJobs
<1>2. UNCHANGED <<pc, task>>
  BY DEF jobVars
<1>3. ASSUME UNCHANGED <<inserted, hpc, delivering, broker, handedOver>>,
             held' \in [Dispatchers -> SUBSET inserted]
      PROVE  MessagesFollowRows'
  BY <1>1, <1>2, <1>3, OutboxMessages DEF MessagesFollowRows
<1>4. CASE Outbox!RecoverStaleLocks(d)
  BY <1>1, <1>3, <1>4 DEF Outbox!RecoverStaleLocks, Outbox!handlerVars
<1>5. ASSUME NEW S, Outbox!ClaimPending(d, S) PROVE MessagesFollowRows'
  <2>1. S \subseteq inserted
    BY <1>1, <1>5 DEF Outbox!ClaimPending, Outbox!Batches, Outbox!Available
  <2> QED
    BY <1>1, <1>3, <1>5, <2>1 DEF Outbox!ClaimPending, Outbox!handlerVars, Outbox!history
<1>6. ASSUME NEW e \in held[d], Outbox!Enqueue(d, e) \/ Outbox!EnqueueFails(d, e)
      PROVE  MessagesFollowRows'
  <2>1. /\ e \in inserted /\ held' \in [Dispatchers -> SUBSET inserted]
        /\ UNCHANGED <<inserted, hpc, delivering>>
    BY <1>1, <1>6 DEF Outbox!Enqueue, Outbox!EnqueueFails, Outbox!rowVars, Outbox!handlerVars
  <2>2. CASE Outbox!Publish(e)
    <3>1. Outbox!Send(e)
          /\ handedOver' = IF e[2] = Outbox!ProcessEvent THEN handedOver \cup {e} ELSE handedOver
      BY <2>2 DEF Outbox!Publish
    <3>2. /\ broker' \in [Outbox!Events -> Nat]
          /\ \A f \in Outbox!Events : broker'[f] > 0 => broker[f] > 0 \/ f = e
      BY <1>1, <2>1, <3>1, SendingMessages
    <3> QED
      BY <1>1, <1>2, <2>1, <3>1, <3>2, OutboxMessages DEF MessagesFollowRows
  <2>3. CASE UNCHANGED <<broker, handedOver>>
    BY <1>3, <2>1, <2>3
  <2> QED
    BY <1>6, <2>2, <2>3 DEF Outbox!Enqueue, Outbox!EnqueueFails
<1>7. CASE Outbox!MarkDispatched(d) \/ Outbox!ReleaseForRetry(d)
  BY <1>1, <1>3, <1>7 DEF Outbox!MarkDispatched, Outbox!ReleaseForRetry, Outbox!SetDispatched,
       Outbox!SetReleased, Outbox!EndOfEvent, Outbox!handlerVars, Outbox!history
<1>8. CASE Outbox!DispatcherFails(d)
  BY <1>1, <1>3, <1>8 DEF Outbox!DispatcherFails, Outbox!rowVars, Outbox!handlerVars, Outbox!history
<1> QED
  BY <1>4, <1>5, <1>6, <1>7, <1>8 DEF Outbox!DispatcherStep

LEMMA HandlerKeepsMessages ==
  ASSUME MessagesFollowRows, RowsFollowJobs, NEW h \in Handlers, UNCHANGED jobVars,
         \/ Outbox!HandlerStep(h) \/ Outbox!DeliveryRaises(h)
         \/ Outbox!DeliveredAgain(h) \/ Outbox!HandlerDies(h)
  PROVE  MessagesFollowRows'
<1>1. /\ held \in [Dispatchers -> SUBSET inserted] /\ broker \in [Outbox!Events -> Nat]
      /\ handedOver \subseteq inserted /\ inserted \subseteq Outbox!Events
      /\ hpc \in [Handlers -> Outbox!HandlerSteps]
      /\ delivering \in [Handlers -> Outbox!Events \cup {NoEvent}]
      /\ \A g \in Handlers : hpc[g] # "idle" =>
            delivering[g] \in inserted /\ delivering[g][2] = Outbox!WebhookEvent
  BY DEF MessagesFollowRows, RowsFollowJobs
<1>2. UNCHANGED <<pc, task>>
  BY DEF jobVars
<1>3. ASSUME UNCHANGED <<inserted, held, broker, delivering>>, hpc[h] # "idle",
             NEW step \in Outbox!HandlerSteps, hpc' = [hpc EXCEPT ![h] = step],
             handedOver' \in {handedOver, handedOver \cup {delivering[h]}}
      PROVE  MessagesFollowRows'
  BY <1>1, <1>2, <1>3, OutboxMessages DEF MessagesFollowRows
<1>4. ASSUME Outbox!EndOfDelivery(h), UNCHANGED inserted, hpc[h] # "idle",
             UNCHANGED broker \/ Outbox!Send(delivering[h])
      PROVE  MessagesFollowRows'
  <2>1. /\ UNCHANGED <<held, handedOver>>
        /\ hpc' = [hpc EXCEPT ![h] = "idle"] /\ delivering' = [delivering EXCEPT ![h] = NoEvent]
    BY <1>4 DEF Outbox!EndOfDelivery, Outbox!dispatcherVars, Outbox!history
  <2>2. /\ hpc' \in [Handlers -> Outbox!HandlerSteps]
        /\ delivering' \in [Handlers -> Outbox!Events \cup {NoEvent}]
        /\ \A g \in Handlers : hpc'[g] # "idle" =>
              delivering'[g] \in inserted /\ delivering'[g][2] = Outbox!WebhookEvent
    BY <1>1, <2>1 DEF Outbox!HandlerSteps
  <2>3. /\ broker' \in [Outbox!Events -> Nat]
        /\ \A f \in Outbox!Events : broker'[f] > 0 => broker[f] > 0 \/ f = delivering[h]
    BY <1>1, <1>4, SendingMessages
  <2> QED
    BY <1>1, <1>2, <1>4, <2>1, <2>2, <2>3, EventTypesDiffer, OutboxMessages DEF MessagesFollowRows
<1>5. ASSUME NEW e \in Outbox!Events, Outbox!TakeWebhook(h, e) PROVE MessagesFollowRows'
  <2>1. /\ e[2] = Outbox!WebhookEvent /\ Outbox!Receive(e)
        /\ hpc' = [hpc EXCEPT ![h] = "loading"] /\ delivering' = [delivering EXCEPT ![h] = e]
        /\ UNCHANGED <<inserted, held, handedOver>>
    BY <1>5 DEF Outbox!TakeWebhook, Outbox!rowVars, Outbox!dispatcherVars, Outbox!history
  <2>2. /\ broker' \in [Outbox!Events -> Nat] /\ e \in inserted
        /\ \A f \in Outbox!Events : broker'[f] > 0 => broker[f] > 0
    BY <1>1, <2>1, ReceivingMessages DEF MessagesFollowRows
  <2>3. /\ hpc' \in [Handlers -> Outbox!HandlerSteps]
        /\ delivering' \in [Handlers -> Outbox!Events \cup {NoEvent}]
        /\ \A g \in Handlers : hpc'[g] # "idle" =>
              delivering'[g] \in inserted /\ delivering'[g][2] = Outbox!WebhookEvent
    BY <1>1, <2>1, <2>2 DEF Outbox!HandlerSteps
  <2> QED
    BY <1>1, <1>2, <2>1, <2>2, <2>3, OutboxMessages
<1>6. CASE Outbox!LoadEvent(h)
  BY <1>3, <1>6 DEF Outbox!LoadEvent, Outbox!HandlerSteps, Outbox!rowVars,
                    Outbox!dispatcherVars, Outbox!history
<1>7. ASSUME NEW answer \in Outbox!Answers, Outbox!Post(h, answer) PROVE MessagesFollowRows'
  <2>1. Outbox!StepAfter(answer) \in Outbox!HandlerSteps
    BY DEF Outbox!StepAfter, Outbox!HandlerSteps
  <2> QED
    BY <1>3, <1>7, <2>1 DEF Outbox!Post, Outbox!rowVars, Outbox!dispatcherVars
<1>8. CASE Outbox!NothingToDeliver(h) \/ Outbox!MarkDelivered(h) \/ Outbox!ReleaseDelivery(h)
  BY <1>4, <1>8 DEF Outbox!NothingToDeliver, Outbox!MarkDelivered, Outbox!ReleaseDelivery,
                    Outbox!SetDispatched, Outbox!SetReleased, Outbox!rowVars
<1>9. CASE Outbox!DeliveryRaises(h) \/ Outbox!HandlerDies(h)
  BY <1>4, <1>9 DEF Outbox!DeliveryRaises, Outbox!HandlerDies, Outbox!rowVars
<1>10. CASE Outbox!DeliveredAgain(h)
  <2>1. /\ hpc[h] # "idle" /\ Outbox!Send(delivering[h])
        /\ UNCHANGED <<inserted, held, hpc, delivering, handedOver>>
    BY <1>10 DEF Outbox!DeliveredAgain, Outbox!rowVars, Outbox!dispatcherVars,
                 Outbox!handlerVars, Outbox!history
  <2>2. /\ broker' \in [Outbox!Events -> Nat]
        /\ \A f \in Outbox!Events : broker'[f] > 0 => broker[f] > 0 \/ f = delivering[h]
    BY <1>1, <2>1, SendingMessages
  <2> QED
    BY <1>1, <1>2, <2>1, <2>2, EventTypesDiffer, OutboxMessages DEF MessagesFollowRows
<1> QED
  BY <1>5, <1>6, <1>7, <1>8, <1>9, <1>10 DEF Outbox!HandlerStep

LEMMA CouplingKept == ASSUME LP!IInv, Coupled, Next PROVE Coupled'
<1>1. RowsFollowJobs'
  BY RowsAreKept DEF Coupled
<1>2. ASSUME NEW d \in Dispatchers, DispatcherStep(d) PROVE MessagesFollowRows'
  BY <1>2, DispatcherKeepsMessages DEF Coupled, DispatcherStep
<1>3. ASSUME NEW h \in Handlers, WebhookStep(h) PROVE MessagesFollowRows'
  BY <1>3, HandlerKeepsMessages DEF Coupled, WebhookStep
<1>4. ASSUME NEW e \in Outbox!Events, Passing(e) PROVE MessagesFollowRows'
  <2>1. UNCHANGED <<inserted, pc, task, broker, handedOver, held, hpc, delivering>>
    BY <1>4 DEF Passing, jobVars, Outbox!Passing, Outbox!BackoffElapses, Outbox!LockAges,
                Outbox!dispatcherVars, Outbox!handlerVars, Outbox!history
  <2> QED
    BY <2>1, OutboxMessages DEF Coupled, MessagesFollowRows
<1>5. ASSUME OutboxFault PROVE MessagesFollowRows'
  BY <1>5, DispatcherKeepsMessages, HandlerKeepsMessages DEF Coupled, OutboxFault, Outbox!Fault
<1> QED
  BY <1>1, <1>2, <1>3, <1>4, <1>5, JobStepsKeepMessages DEF Coupled, Next

(***************************************************************************)
(* The outbox: the system implements OutboxDispatcher.                     *)
(***************************************************************************)
LEMMA OutboxSteps == ASSUME LP!IInv, Coupled, Next PROVE Outbox!Next \/ UNCHANGED Outbox!vars
<1>0. Lifecycle!IInv
  BY SameInvariant
<1> USE DEF Outbox!rowVars, Outbox!dispatcherVars, Outbox!handlerVars, Outbox!history
<1>1. ASSUME NEW j \in Jobs, CreateJob(j) PROVE Outbox!Next
  <2>1. ProcessEvent(j) \notin inserted
    BY <1>1 DEF CreateJob, Lifecycle!CreateJob, Coupled, RowsFollowJobs
  <2>2. Outbox!Insert(ProcessEvent(j))
    BY <1>1, <2>1, EventsOfJobs DEF CreateJob, Outbox!Insert, restOfOutbox
  <2> QED
    BY <2>2, EventsOfJobs DEF Outbox!Next, Outbox!Environment
<1>2. ASSUME NEW w \in Workers, Publish(w) PROVE Outbox!Next
  <2>1. task[w] \in Jobs /\ pc[w] = "validating" /\ status[task[w]] # "purged"
    BY <1>0, <1>2 DEF Publish, Lifecycle!Publish, Lifecycle!MustStop, Lifecycle!IInv,
                      Lifecycle!CopyFollowsStep
  <2>2. status[task[w]] \in {"validating", "canceled", "failed"}
    BY <1>0, <2>1 DEF Lifecycle!IInv, Lifecycle!CopyFollowsStep, Lifecycle!CopyAt,
         Lifecycle!OwningSteps, Lifecycle!OwnerMissesOnlyEndings, Lifecycle!Owns
  <2>3. WebhookEvent(task[w]) \notin inserted
    BY <2>1, <2>2 DEF Coupled, RowsFollowJobs
  <2>4. ProcessEvent(task[w]) \in outbox
    BY <1>0, <2>1, <2>2 DEF Lifecycle!IInv, Lifecycle!RowsMoveTogether, Lifecycle!JobStatus,
         ProcessEvent, Outbox!ProcessEvent, Lifecycle!ProcessEvent
  <2>5. ProcessEvent(task[w]) \in handedOver
    BY <2>1 DEF Coupled, MessagesFollowRows
  <2>6. Outbox!Insert(WebhookEvent(task[w]))
    BY <1>2, <2>1, <2>3, <2>4, <2>5, EventsOfJobs
       DEF Publish, Outbox!Insert, restOfOutbox, ProcessEvent
  <2> QED
    BY <2>1, <2>6, EventsOfJobs DEF Outbox!Next, Outbox!Environment
<1>3. ASSUME NEW S \in SUBSET Jobs, CleanupExpired(S) PROVE Outbox!Next
  <2>1. \E e \in outbox : e[1] \in S
    <3>1. PICK j \in S : status[j] \in Lifecycle!JobStatus
      BY <1>3 DEF CleanupExpired, Lifecycle!CleanupExpired, Lifecycle!Settled,
                  Lifecycle!TERMINAL_JOB_STATES, Lifecycle!JobStatus
    <3>2. <<j, Lifecycle!ProcessEvent>> \in outbox
      BY <1>0, <3>1 DEF Lifecycle!IInv, Lifecycle!RowsMoveTogether
    <3> QED
      BY <3>1, <3>2
  <2>2. Outbox!Delete(S)
    BY <1>3, <2>1 DEF CleanupExpired, Outbox!Delete, restOfOutbox
  <2> QED
    BY <2>2 DEF Outbox!Next, Outbox!Environment
<1>4. ASSUME NEW w \in Workers, NEW j \in Jobs, Deliver(w, j) PROVE Outbox!Next
  <2>1. Outbox!ConsumeProcess(ProcessEvent(j))
    BY <1>4, EventsOfJobs DEF Deliver, Outbox!ConsumeProcess, allButBroker, Lifecycle!Deliver,
                              Lifecycle!dbVars
  <2> QED
    BY <2>1, EventsOfJobs DEF Outbox!Next, Outbox!Environment
<1>5. ASSUME NEW w \in Workers, WorkerDies(w) \/ DeliveredAgain(w) PROVE Outbox!Next
  <2>1. pc[w] # "idle" /\ task[w] \in Jobs /\ ProcessEvent(task[w]) \in handedOver
    BY <1>0, <1>5 DEF WorkerDies, DeliveredAgain, Lifecycle!Crash, Lifecycle!IInv,
                      Lifecycle!CopyFollowsStep, Coupled, MessagesFollowRows
  <2>2. Outbox!ProcessMessageReturns(ProcessEvent(task[w]))
    BY <1>5, <2>1, EventsOfJobs DEF WorkerDies, DeliveredAgain, Outbox!ProcessMessageReturns,
         allButBroker, Lifecycle!Crash, Lifecycle!LeaveTask, Lifecycle!dbVars
  <2> QED
    BY <2>1, <2>2, EventsOfJobs DEF Outbox!Next, Outbox!Environment
<1>6. ASSUME NEW w \in Workers, WorkerStep(w) \/ HandlerFails(w), ~Publish(w)
      PROVE UNCHANGED Outbox!vars
  BY <1>6 DEF WorkerStep, HandlerFails, outboxVars, Outbox!vars, Lifecycle!Claim,
       Lifecycle!Discard, Lifecycle!StartRetrieval, Lifecycle!PipelineReturns,
       Lifecycle!StartValidation, Lifecycle!StopBeforeOutput, Lifecycle!Raise,
       Lifecycle!MarkFailed, Lifecycle!Return, Lifecycle!HandlerFails, Lifecycle!Persist,
       Lifecycle!LeaveTask, Lifecycle!dbVars
<1>7. ASSUME NEW j \in Jobs, CancelJob(j) PROVE UNCHANGED Outbox!vars
  BY <1>7 DEF CancelJob, Lifecycle!CancelJob, outboxVars, Outbox!vars
<1>8. ASSUME \/ \E d \in Dispatchers : DispatcherStep(d)
             \/ \E h \in Handlers : WebhookStep(h)
             \/ \E e \in Outbox!Events : Passing(e)
             \/ OutboxFault
      PROVE Outbox!Next
  BY <1>8 DEF DispatcherStep, WebhookStep, Passing, OutboxFault, Outbox!Next
<1> QED
  BY <1>1, <1>2, <1>3, <1>4, <1>5, <1>6, <1>7, <1>8 DEF Next

\* Rows, jobs and messages of the two parts agree in every reachable state.
THEOREM CouplingInvariance == Spec => []Coupled
<1>1. LP!IInv /\ Coupled /\ [Next]_vars => Coupled'
  <2>1. ASSUME Coupled, UNCHANGED vars PROVE Coupled'
    BY <2>1 DEF vars, jobVars, outboxVars, Coupled, RowsFollowJobs, MessagesFollowRows,
       ProcessEvent, WebhookEvent, Outbox!Events, Outbox!HandlerSteps, Outbox!ProcessEvent,
       Outbox!WebhookEvent, Outbox!EventTypes
  <2> QED
    BY <2>1, CouplingKept
<1> QED
  BY <1>1, CouplingBegins, JobsKeepTheirInvariant, PTL DEF Spec

\* The system implements the outbox: what OutboxDispatcher assumes of jobs holds.
THEOREM OutboxIsImplemented == Spec => OutboxImplemented
<1>1. Init => Outbox!Init
  BY DEF Init
<1>2. LP!IInv /\ Coupled /\ [Next]_vars => [Outbox!Next]_(Outbox!vars)
  BY OutboxSteps DEF vars, jobVars, outboxVars, Outbox!vars, Outbox!rowVars,
                     Outbox!dispatcherVars, Outbox!handlerVars, Outbox!history
<1> QED
  BY <1>1, <1>2, JobsKeepTheirInvariant, CouplingInvariance, PTL
     DEF Spec, OutboxImplemented, Outbox!Spec

\* What Django was told of stays completed, with its output, until it is deleted.
THEOREM ReportsAreKept == Spec => []ReportedResultIsKept
<1>1. LP!IInv /\ Coupled => ReportedResultIsKept
  <2> SUFFICES ASSUME LP!IInv, Coupled, NEW j \in Jobs, WebhookEvent(j) \in handedOver
               PROVE  status[j] = "purged" \/ (status[j] = "completed" /\ j \in outputs)
    BY DEF ReportedResultIsKept
  <2>1. status[j] \in {"completed", "purged"}
    BY DEF Coupled, RowsFollowJobs, MessagesFollowRows
  <2>2. status[j] = "completed" => j \in outputs
    BY SameInvariant DEF Lifecycle!IInv, Lifecycle!RowsMoveTogether
  <2> QED
    BY <2>1, <2>2
<1> QED
  BY <1>1, JobsKeepTheirInvariant, CouplingInvariance, PTL
================================================================================
