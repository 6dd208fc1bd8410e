-------------------------- MODULE JobLifecycleProofs --------------------------
(***************************************************************************)
(* Proofs about JobLifecycle for every set of jobs and of workers.         *)
(***************************************************************************)
EXTENDS JobLifecycle, TLAPS

\* Cancellation and failure are possible from every status that is not terminal: the
\* policy never refuses cancel_job_by_client_id or the error handler of process_job.
LEMMA UnsettledCanStop ==
    ASSUME NEW s \in JobStatus, s \notin TERMINAL_JOB_STATES
    PROVE  CanTransition(s, "canceled") /\ CanTransition(s, "failed")
  BY DEF JobStatus, TERMINAL_JOB_STATES, CanTransition, AllowedTransitions, Stopped

-------------------------------------------------------------------------------
\* Types and the session copy.  Neither is inductive alone: a row is written at
\* task[w], which is a job only because CopyFollowsStep says so.
Typed == TypeOK /\ CopyFollowsStep

LEMMA TypedInductive == Typed /\ [Next]_vars => Typed'
<1> SUFFICES ASSUME Typed, [Next]_vars PROVE Typed'
    OBVIOUS
<1> USE DEF Typed, TypeOK, CopyFollowsStep, CopyAt, RowStatus, JobStatus, Steps,
            OwningSteps, EventTypes, ProcessEvent, WebhookEvent, dbVars, workerVars,
            Goto, Live, Open, Claimable,
            FailureStatus, CancellationRequested, Settled, TERMINAL_JOB_STATES
<1>1. ASSUME NEW j \in Jobs, CreateJob(j) PROVE Typed'
  BY <1>1 DEF CreateJob
<1>2. ASSUME NEW j \in Jobs, CancelJob(j) PROVE Typed'
  BY <1>2 DEF CancelJob
<1>3. ASSUME NEW S \in SUBSET Jobs, CleanupExpired(S) PROVE Typed'
  BY <1>3 DEF CleanupExpired
<1>4. ASSUME NEW w \in Workers, NEW j \in Jobs, Deliver(w, j) PROVE Typed'
  BY <1>4 DEF Deliver
<1>5. ASSUME NEW w \in Workers, WorkerStep(w) PROVE Typed'
  <2>1. CASE Claim(w)
    BY <2>1 DEF Claim
  <2>2. CASE Discard(w)
    BY <2>2 DEF Discard
  <2>3. CASE StartRetrieval(w)
    BY <2>3 DEF StartRetrieval, Persist
  <2>4. CASE PipelineReturns(w)
    BY <2>4 DEF PipelineReturns
  <2>5. CASE StartValidation(w)
    BY <2>5 DEF StartValidation, Persist
  <2>6. CASE StopBeforeOutput(w)
    BY <2>6 DEF StopBeforeOutput
  <2>7. CASE Publish(w)
    BY <2>7 DEF Publish
  <2>8. CASE MarkFailed(w)
    BY <2>8 DEF MarkFailed
  <2>9. CASE Return(w)
    BY <2>9 DEF Return, LeaveTask
  <2> QED
    BY <1>5, <2>1, <2>2, <2>3, <2>4, <2>5, <2>6, <2>7, <2>8, <2>9 DEF WorkerStep
<1>6. ASSUME NEW w \in Workers, Fault(w) PROVE Typed'
  <2>1. CASE Raise(w)
    BY <2>1 DEF Raise
  <2>2. CASE HandlerFails(w)
    BY <2>2 DEF HandlerFails
  <2>3. CASE Crash(w)
    BY <2>3 DEF Crash, LeaveTask
  <2> QED
    BY <1>6, <2>1, <2>2, <2>3 DEF Fault
<1>7. CASE UNCHANGED vars
  BY <1>7 DEF vars
<1> QED
  BY <1>1, <1>2, <1>3, <1>4, <1>5, <1>6, <1>7 DEF Next

-------------------------------------------------------------------------------
\* A claim is exclusive because the owner's row is never queued, and the owner's row
\* is never queued because a row differs from the owner's copy only by an ending.
Owned == OneOwner /\ OwnerMissesOnlyEndings

LEMMA OwnedInductive == Typed /\ Owned /\ [Next]_vars => Owned'
<1> SUFFICES ASSUME Typed, Owned, [Next]_vars PROVE Owned'
    OBVIOUS
<1> USE DEF Typed, TypeOK, CopyFollowsStep, CopyAt, Owned, OneOwner,
            OwnerMissesOnlyEndings, Owns, RowStatus, JobStatus, Steps, OwningSteps,
            dbVars, workerVars, Goto, Live, Open, Claimable,
            FailureStatus, CancellationRequested, Settled, TERMINAL_JOB_STATES
<1>1. ASSUME NEW j \in Jobs, CreateJob(j) PROVE Owned'
  BY <1>1 DEF CreateJob
<1>2. ASSUME NEW j \in Jobs, CancelJob(j) PROVE Owned'
  BY <1>2 DEF CancelJob
<1>3. ASSUME NEW S \in SUBSET Jobs, CleanupExpired(S) PROVE Owned'
  BY <1>3 DEF CleanupExpired
<1>4. ASSUME NEW w \in Workers, NEW j \in Jobs, Deliver(w, j) PROVE Owned'
  BY <1>4 DEF Deliver
<1>5. ASSUME NEW w \in Workers, WorkerStep(w) PROVE Owned'
  <2>1. CASE Claim(w)
    BY <2>1 DEF Claim
  <2>2. CASE Discard(w)
    BY <2>2 DEF Discard
  <2>3. CASE StartRetrieval(w)
    BY <2>3 DEF StartRetrieval, Persist
  <2>4. CASE PipelineReturns(w)
    BY <2>4 DEF PipelineReturns
  <2>5. CASE StartValidation(w)
    BY <2>5 DEF StartValidation, Persist
  <2>6. CASE StopBeforeOutput(w)
    BY <2>6 DEF StopBeforeOutput
  <2>7. CASE Publish(w)
    BY <2>7 DEF Publish
  <2>8. CASE MarkFailed(w)
    BY <2>8 DEF MarkFailed
  <2>9. CASE Return(w)
    BY <2>9 DEF Return, LeaveTask
  <2> QED
    BY <1>5, <2>1, <2>2, <2>3, <2>4, <2>5, <2>6, <2>7, <2>8, <2>9 DEF WorkerStep
<1>6. ASSUME NEW w \in Workers, Fault(w) PROVE Owned'
  <2>1. CASE Raise(w)
    BY <2>1 DEF Raise
  <2>2. CASE HandlerFails(w)
    BY <2>2 DEF HandlerFails
  <2>3. CASE Crash(w)
    BY <2>3 DEF Crash, LeaveTask
  <2> QED
    BY <1>6, <2>1, <2>2, <2>3 DEF Fault
<1>7. CASE UNCHANGED vars
  BY <1>7 DEF vars
<1> QED
  BY <1>1, <1>2, <1>3, <1>4, <1>5, <1>6, <1>7 DEF Next

-------------------------------------------------------------------------------
\* Rows, outputs and outbox events move together: an owner never holds a completed
\* job, so what it writes never takes a published result back.
LEMMA RowsInductive == Typed /\ Owned /\ RowsMoveTogether /\ [Next]_vars => RowsMoveTogether'
<1> SUFFICES ASSUME Typed, Owned, RowsMoveTogether, [Next]_vars PROVE RowsMoveTogether'
    OBVIOUS
<1> USE DEF Typed, TypeOK, CopyFollowsStep, CopyAt, Owned, OneOwner,
            OwnerMissesOnlyEndings, Owns, RowsMoveTogether, RowStatus, JobStatus, Steps,
            OwningSteps, EventTypes, ProcessEvent, WebhookEvent, dbVars, workerVars,
            Goto, Live, Open, Claimable,
            FailureStatus, CancellationRequested, Settled, TERMINAL_JOB_STATES
<1>1. ASSUME NEW j \in Jobs, CreateJob(j) PROVE RowsMoveTogether'
  BY <1>1 DEF CreateJob
<1>2. ASSUME NEW j \in Jobs, CancelJob(j) PROVE RowsMoveTogether'
  BY <1>2 DEF CancelJob
<1>3. ASSUME NEW S \in SUBSET Jobs, CleanupExpired(S) PROVE RowsMoveTogether'
  BY <1>3 DEF CleanupExpired
<1>4. ASSUME NEW w \in Workers, NEW j \in Jobs, Deliver(w, j) PROVE RowsMoveTogether'
  BY <1>4 DEF Deliver
<1>5. ASSUME NEW w \in Workers, WorkerStep(w) PROVE RowsMoveTogether'
  <2>1. CASE Claim(w)
    BY <2>1 DEF Claim
  <2>2. CASE Discard(w)
    BY <2>2 DEF Discard
  <2>3. CASE StartRetrieval(w)
    <3>1. Owns(w, task[w]) /\ status[task[w]] \notin {"absent", "purged", "completed"}
      BY <2>3 DEF StartRetrieval, Persist
    <3>2. status[task[w]] \in JobStatus /\ status'[task[w]] \in JobStatus \ {"completed"}
      BY <3>1, <2>3 DEF StartRetrieval, Persist
    <3>3. \A j \in Jobs : j # task[w] => status'[j] = status[j]
      BY <2>3 DEF StartRetrieval, Persist
    <3> QED
      BY <3>1, <3>2, <3>3, <2>3 DEF StartRetrieval, Persist
  <2>4. CASE PipelineReturns(w)
    BY <2>4 DEF PipelineReturns
  <2>5. CASE StartValidation(w)
    <3>1. Owns(w, task[w]) /\ status[task[w]] \notin {"absent", "purged", "completed"}
      BY <2>5 DEF StartValidation, Persist
    <3>2. status[task[w]] \in JobStatus /\ status'[task[w]] \in JobStatus \ {"completed"}
      BY <3>1, <2>5 DEF StartValidation, Persist
    <3>3. \A j \in Jobs : j # task[w] => status'[j] = status[j]
      BY <2>5 DEF StartValidation, Persist
    <3> QED
      BY <3>1, <3>2, <3>3, <2>5 DEF StartValidation, Persist
  <2>6. CASE StopBeforeOutput(w)
    BY <2>6 DEF StopBeforeOutput
  <2>7. CASE Publish(w)
    <3>1. Owns(w, task[w]) /\ task[w] \in Jobs
      BY <2>7 DEF Publish
    <3>2. status[task[w]] \in JobStatus /\ status' = [status EXCEPT ![task[w]] = "completed"]
      BY <3>1, <2>7 DEF Publish, MustStop
    <3>3. /\ outputs' = outputs \union {task[w]}
          /\ outbox' = outbox \union {<<task[w], WebhookEvent>>}
      BY <2>7 DEF Publish
    <3> QED
      BY <3>1, <3>2, <3>3
  <2>8. CASE MarkFailed(w)
    BY <2>8 DEF MarkFailed
  <2>9. CASE Return(w)
    BY <2>9 DEF Return, LeaveTask
  <2> QED
    BY <1>5, <2>1, <2>2, <2>3, <2>4, <2>5, <2>6, <2>7, <2>8, <2>9 DEF WorkerStep
<1>6. ASSUME NEW w \in Workers, Fault(w) PROVE RowsMoveTogether'
  <2>1. CASE Raise(w)
    BY <2>1 DEF Raise
  <2>2. CASE HandlerFails(w)
    BY <2>2 DEF HandlerFails
  <2>3. CASE Crash(w)
    BY <2>3 DEF Crash, LeaveTask
  <2> QED
    BY <1>6, <2>1, <2>2, <2>3 DEF Fault
<1>7. CASE UNCHANGED vars
  BY <1>7 DEF vars
<1> QED
  BY <1>1, <1>2, <1>3, <1>4, <1>5, <1>6, <1>7 DEF Next

-------------------------------------------------------------------------------
THEOREM Invariance == Spec => []IInv
<1>1. Init => IInv
  BY DEF Init, IInv, TypeOK, CopyFollowsStep, OneOwner, OwnerMissesOnlyEndings,
         RowsMoveTogether, Owns, RowStatus, JobStatus, Steps, OwningSteps
<1>2. IInv /\ [Next]_vars => IInv'
  BY TypedInductive, OwnedInductive, RowsInductive DEF IInv, Typed, Owned
<1> QED
  BY <1>1, <1>2, PTL DEF Spec

\* Statuses, rows and the workers' positions always have the values the code knows.
THEOREM TypeCorrect == Spec => []TypeOK
  BY Invariance, PTL DEF IInv

\* No two workers ever own one job.
THEOREM ExclusiveOwnership == Spec => []OneOwner
  BY Invariance, PTL DEF IInv

\* An owner's session copy is out of date only about endings.
THEOREM BoundedStaleness == Spec => []OwnerMissesOnlyEndings
  BY Invariance, PTL DEF IInv

\* Jobs, outputs and outbox events agree in every reachable state.
THEOREM AtomicPublication == Spec => []RowsMoveTogether
  BY Invariance, PTL DEF IInv

-------------------------------------------------------------------------------
\* How one job's row may move in a step, completed and ended rows in particular.
RowStep(j) ==
    /\ status[j] = "completed" => status'[j] \in {"completed", "purged"}
    /\ status[j] \in {"canceled", "failed"}
          => \/ status'[j] \in {status[j], "purged"}
             \/ \E w \in Workers : /\ Owns(w, j)
                                   /\ pc[w] \in {"prepared", "checked", "validating"}

LEMMA RowSteps == ASSUME IInv, [Next]_vars, NEW j \in Jobs PROVE RowStep(j)
<1> USE DEF IInv, TypeOK, CopyFollowsStep, CopyAt, OneOwner, OwnerMissesOnlyEndings, Owns, RowStep,
            RowStatus, JobStatus, Steps, OwningSteps, dbVars, workerVars, Goto, Live, Open, Claimable,
            FailureStatus, CancellationRequested, Settled, TERMINAL_JOB_STATES
<1>1. ASSUME NEW i \in Jobs, CreateJob(i) PROVE RowStep(j)
  BY <1>1 DEF CreateJob
<1>2. ASSUME NEW i \in Jobs, CancelJob(i) PROVE RowStep(j)
  BY <1>2 DEF CancelJob
<1>3. ASSUME NEW S \in SUBSET Jobs, CleanupExpired(S) PROVE RowStep(j)
  BY <1>3 DEF CleanupExpired
<1>4. ASSUME NEW w \in Workers, NEW i \in Jobs, Deliver(w, i) PROVE RowStep(j)
  BY <1>4 DEF Deliver
<1>5. ASSUME NEW w \in Workers, WorkerStep(w) PROVE RowStep(j)
  <2>1. CASE Claim(w)
    BY <2>1 DEF Claim
  <2>2. CASE Discard(w)
    BY <2>2 DEF Discard
  <2>3. CASE StartRetrieval(w)
    BY <2>3 DEF StartRetrieval, Persist
  <2>4. CASE PipelineReturns(w)
    BY <2>4 DEF PipelineReturns
  <2>5. CASE StartValidation(w)
    BY <2>5 DEF StartValidation, Persist
  <2>6. CASE StopBeforeOutput(w)
    BY <2>6 DEF StopBeforeOutput
  <2>7. CASE Publish(w)
    BY <2>7 DEF Publish
  <2>8. CASE MarkFailed(w)
    BY <2>8 DEF MarkFailed
  <2>9. CASE Return(w)
    BY <2>9 DEF Return, LeaveTask
  <2> QED
    BY <1>5, <2>1, <2>2, <2>3, <2>4, <2>5, <2>6, <2>7, <2>8, <2>9 DEF WorkerStep
<1>6. ASSUME NEW w \in Workers, Fault(w) PROVE RowStep(j)
  <2>1. CASE Raise(w)
    BY <2>1 DEF Raise
  <2>2. CASE HandlerFails(w)
    BY <2>2 DEF HandlerFails
  <2>3. CASE Crash(w)
    BY <2>3 DEF Crash, LeaveTask
  <2> QED
    BY <1>6, <2>1, <2>2, <2>3 DEF Fault
<1>7. CASE UNCHANGED vars
  BY <1>7 DEF vars
<1> QED
  BY <1>1, <1>2, <1>3, <1>4, <1>5, <1>6, <1>7 DEF Next

\* A completed job stays completed until it is deleted.
THEOREM CompletionIsFinal == Spec => CompletedIsFinal
<1>1. IInv /\ [Next]_vars => [\A j \in Jobs :
        status[j] = "completed" => status'[j] \in {"completed", "purged"}]_vars
  BY RowSteps DEF RowStep
<1> QED
  BY <1>1, Invariance, PTL DEF Spec, CompletedIsFinal

\* A canceled or failed job is overwritten only by its owner, from the stale object,
\* and never while the pipeline runs.
THEOREM EndingsAreFinalButForStaleOwners == Spec => EndingsOverwrittenOnlyByStaleOwner
<1>1. IInv /\ [Next]_vars => [\A j \in Jobs :
        status[j] \in {"canceled", "failed"}
          => \/ status'[j] \in {status[j], "purged"}
             \/ \E w \in Workers : /\ Owns(w, j)
                                   /\ pc[w] \in {"prepared", "checked", "validating"}]_vars
  BY RowSteps DEF RowStep
<1> QED
  BY <1>1, Invariance, PTL DEF Spec, EndingsOverwrittenOnlyByStaleOwner
-------------------------------------------------------------------------------
\* A job can be left behind only by a crash or a failing handler of its holder.
LeftBehind(j) ==
    Abandoned(j)' /\ ~Abandoned(j)
        => \E w \in Workers : HeldBy(w, j) /\ (Crash(w) \/ HandlerFails(w))

LEMMA LeftBehindSteps == ASSUME IInv, [Next]_vars, NEW j \in Jobs PROVE LeftBehind(j)
<1> USE DEF IInv, TypeOK, CopyFollowsStep, CopyAt, OneOwner, OwnerMissesOnlyEndings, Owns, LeftBehind, Abandoned,
            HeldBy, Processing,
            RowStatus, JobStatus, Steps, OwningSteps, dbVars, workerVars, Goto, Live, Open, Claimable,
            FailureStatus, CancellationRequested, Settled, TERMINAL_JOB_STATES
<1>1. ASSUME NEW i \in Jobs, CreateJob(i) PROVE LeftBehind(j)
  BY <1>1 DEF CreateJob
<1>2. ASSUME NEW i \in Jobs, CancelJob(i) PROVE LeftBehind(j)
  BY <1>2 DEF CancelJob
<1>3. ASSUME NEW S \in SUBSET Jobs, CleanupExpired(S) PROVE LeftBehind(j)
  BY <1>3 DEF CleanupExpired
<1>4. ASSUME NEW w \in Workers, NEW i \in Jobs, Deliver(w, i) PROVE LeftBehind(j)
  BY <1>4 DEF Deliver
<1>5. ASSUME NEW w \in Workers, WorkerStep(w) PROVE LeftBehind(j)
  <2>1. CASE Claim(w)
    BY <2>1 DEF Claim
  <2>2. CASE Discard(w)
    BY <2>2 DEF Discard
  <2>3. CASE StartRetrieval(w)
    BY <2>3 DEF StartRetrieval, Persist
  <2>4. CASE PipelineReturns(w)
    BY <2>4 DEF PipelineReturns
  <2>5. CASE StartValidation(w)
    BY <2>5 DEF StartValidation, Persist
  <2>6. CASE StopBeforeOutput(w)
    BY <2>6 DEF StopBeforeOutput, MustStop
  <2>7. CASE Publish(w)
    BY <2>7 DEF Publish
  <2>8. CASE MarkFailed(w)
    BY <2>8 DEF MarkFailed
  <2>9. CASE Return(w)
    BY <2>9 DEF Return, LeaveTask
  <2> QED
    BY <1>5, <2>1, <2>2, <2>3, <2>4, <2>5, <2>6, <2>7, <2>8, <2>9 DEF WorkerStep
<1>6. ASSUME NEW w \in Workers, Fault(w) PROVE LeftBehind(j)
  <2>1. CASE Raise(w)
    BY <2>1 DEF Raise
  <2>2. CASE HandlerFails(w)
    BY <2>2 DEF HandlerFails
  <2>3. CASE Crash(w)
    BY <2>3 DEF Crash, LeaveTask
  <2> QED
    BY <1>6, <2>1, <2>2, <2>3 DEF Fault
<1>7. CASE UNCHANGED vars
  BY <1>7 DEF vars
<1> QED
  BY <1>1, <1>2, <1>3, <1>4, <1>5, <1>6, <1>7 DEF Next

\* Early returns, cancellations and duplicate deliveries never strand a job.
THEOREM OnlyFaultsAbandon == Spec => AbandonedOnlyByFault
<1>1. IInv /\ [Next]_vars => [\A j \in Jobs : Abandoned(j)' /\ ~Abandoned(j)
          => \E w \in Workers : HeldBy(w, j) /\ (Crash(w) \/ HandlerFails(w))]_vars
  BY LeftBehindSteps DEF LeftBehind
<1> QED
  BY <1>1, Invariance, PTL DEF Spec, AbandonedOnlyByFault

-------------------------------------------------------------------------------
\* The moves of a row that JobPromise sees as one of its actions, or does not see.
MayMove(s, t) ==
    \/ PhaseOf(s) = PhaseOf(t)
    \/ PhaseOf(s) = "unknown" /\ PhaseOf(t) = "waiting"
    \/ PhaseOf(s) = "waiting" /\ PhaseOf(t) = "taken"
    \/ PhaseOf(s) = "taken"   /\ PhaseOf(t) = "published"

LEMMA PhaseMoves ==
    ASSUME TypeOK, NEW i \in Jobs, NEW t \in RowStatus,
           status' = [status EXCEPT ![i] = t], MayMove(status[i], t)
    PROVE  [Promise!Next]_phases
<1>1. phases \in [Jobs -> {"unknown", "waiting", "taken", "published", "purged"}]
  BY DEF phases, PhaseOf
<1>2. phases[i] = PhaseOf(status[i]) /\ phases' = [phases EXCEPT ![i] = PhaseOf(t)]
  BY DEF phases, TypeOK
<1>3. CASE PhaseOf(status[i]) = PhaseOf(t)
  BY <1>1, <1>2, <1>3
<1>4. CASE PhaseOf(status[i]) # PhaseOf(t)
  <2>1. Promise!Accept(i) \/ Promise!Take(i) \/ Promise!Publish(i)
    BY <1>2, <1>4
       DEF MayMove, Promise!Accept, Promise!Take, Promise!Publish, Promise!Advance
  <2> QED
    BY <2>1 DEF Promise!Next
<1> QED
  BY <1>3, <1>4

\* Each step of the lifecycle is a step, or a stutter, of JobPromise.
LEMMA RefinementStep == ASSUME IInv, [Next]_vars PROVE [Promise!Next]_phases
<1> USE DEF IInv, TypeOK, CopyFollowsStep, CopyAt, OneOwner, OwnerMissesOnlyEndings, Owns,
            RowStatus, JobStatus, Steps, OwningSteps, dbVars, workerVars, Goto, Live, Open, Claimable,
            FailureStatus, CancellationRequested, Settled, TERMINAL_JOB_STATES
<1>1. ASSUME NEW i \in Jobs, CreateJob(i) PROVE [Promise!Next]_phases
  BY <1>1, PhaseMoves DEF CreateJob, MayMove, PhaseOf
<1>2. ASSUME NEW i \in Jobs, CancelJob(i) PROVE [Promise!Next]_phases
  BY <1>2, PhaseMoves DEF CancelJob, MayMove, PhaseOf
<1>3. ASSUME NEW S \in SUBSET Jobs, CleanupExpired(S) PROVE [Promise!Next]_phases
  <2>1. \A j \in S : phases[j] \in {"taken", "published"}
    BY <1>3 DEF CleanupExpired, phases, PhaseOf
  <2>2. phases' = [j \in Jobs |-> IF j \in S THEN "purged" ELSE phases[j]]
    BY <1>3 DEF CleanupExpired, phases, PhaseOf
  <2> QED
    BY <2>1, <2>2 DEF Promise!Next, Promise!Purge
<1>4. ASSUME NEW w \in Workers, NEW i \in Jobs, Deliver(w, i) PROVE [Promise!Next]_phases
  BY <1>4 DEF Deliver, phases
<1>5. ASSUME NEW w \in Workers, WorkerStep(w) PROVE [Promise!Next]_phases
  <2>1. CASE Claim(w)
    <3>2. task[w] \in Jobs /\ status' = [status EXCEPT ![task[w]] = "preparing"]
      BY <2>1 DEF Claim
    <3>3. MayMove(status[task[w]], "preparing")
      BY <2>1 DEF Claim, MayMove, PhaseOf
    <3> QED
      BY <3>2, <3>3, PhaseMoves
  <2>2. CASE Discard(w)
    BY <2>2 DEF Discard, phases
  <2>3. CASE StartRetrieval(w)
    <3>1. Owns(w, task[w])
      BY <2>3 DEF StartRetrieval, Persist
    <3>2. task[w] \in Jobs /\ status' = [status EXCEPT ![task[w]] = "retrieving"]
      BY <2>3 DEF StartRetrieval, Persist
    <3>3. MayMove(status[task[w]], "retrieving")
      BY <3>1, <2>3 DEF StartRetrieval, Persist, MayMove, PhaseOf
    <3> QED
      BY <3>2, <3>3, PhaseMoves
  <2>4. CASE PipelineReturns(w)
    BY <2>4 DEF PipelineReturns, phases
  <2>5. CASE StartValidation(w)
    <3>1. Owns(w, task[w])
      BY <2>5 DEF StartValidation, Persist
    <3>2. task[w] \in Jobs /\ status' = [status EXCEPT ![task[w]] = "validating"]
      BY <2>5 DEF StartValidation, Persist
    <3>3. MayMove(status[task[w]], "validating")
      BY <3>1, <2>5 DEF StartValidation, Persist, MayMove, PhaseOf
    <3> QED
      BY <3>2, <3>3, PhaseMoves
  <2>6. CASE StopBeforeOutput(w)
    BY <2>6 DEF StopBeforeOutput, phases
  <2>7. CASE Publish(w)
    <3>1. Owns(w, task[w])
      BY <2>7 DEF Publish, MustStop
    <3>2. task[w] \in Jobs /\ status' = [status EXCEPT ![task[w]] = "completed"]
      BY <2>7 DEF Publish
    <3>3. MayMove(status[task[w]], "completed")
      BY <3>1, <2>7 DEF Publish, MustStop, MayMove, PhaseOf
    <3> QED
      BY <3>2, <3>3, PhaseMoves
  <2>8. CASE MarkFailed(w)
    <3>1. CASE Open(task[w])
      <4>1. task[w] \in Jobs /\ status' = [status EXCEPT ![task[w]] = "failed"]
        BY <3>1, <2>8 DEF MarkFailed
      <4>2. MayMove(status[task[w]], "failed")
        BY <3>1, <2>8 DEF MayMove, PhaseOf
      <4> QED
        BY <4>1, <4>2, PhaseMoves
    <3>2. CASE ~Open(task[w])
      BY <3>2, <2>8 DEF MarkFailed, phases
    <3> QED
      BY <3>1, <3>2
  <2>9. CASE Return(w)
    BY <2>9 DEF Return, LeaveTask, phases
  <2> QED
    BY <1>5, <2>1, <2>2, <2>3, <2>4, <2>5, <2>6, <2>7, <2>8, <2>9 DEF WorkerStep
<1>6. ASSUME NEW w \in Workers, Fault(w) PROVE [Promise!Next]_phases
  <2>1. CASE Raise(w)
    BY <2>1 DEF Raise, phases
  <2>2. CASE HandlerFails(w)
    BY <2>2 DEF HandlerFails, phases
  <2>3. CASE Crash(w)
    BY <2>3 DEF Crash, LeaveTask, phases
  <2> QED
    BY <1>6, <2>1, <2>2, <2>3 DEF Fault
<1>7. CASE UNCHANGED vars
  BY <1>7 DEF vars, phases
<1> QED
  BY <1>1, <1>2, <1>3, <1>4, <1>5, <1>6, <1>7 DEF Next

\* Whatever the workers do, Django sees a job taken up at most once and at most one
\* result, which is never withdrawn.
THEOREM Refinement == Spec => ImplementsPromise
<1>1. Init => Promise!Init
  BY DEF Init, Promise!Init, phases, PhaseOf
<1>2. IInv /\ [Next]_vars => [Promise!Next]_phases
  BY RefinementStep
<1> QED
  BY <1>1, <1>2, Invariance, PTL DEF Spec, ImplementsPromise, Promise!Spec
===============================================================================
