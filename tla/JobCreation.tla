----------------------------- MODULE JobCreation -----------------------------
(***************************************************************************)
(* Idempotent acceptance of jobs: concurrent POST /jobs requests in        *)
(* app/api/v1/jobs.py and JobService.create_job, up to the commit that     *)
(* JobLifecycle calls CreateJob.  A scope is what the unique index covers, *)
(* user_id together with client_job_id; an input stands for the hash of    *)
(* the semantic payload.                                                   *)
(*                                                                         *)
(* Sessions follow SQLAlchemy 2: the first statement of a session begins   *)
(* its transaction, and begin() of a session with a transaction raises.    *)
(***************************************************************************)
EXTENDS Naturals

CONSTANTS Requests,      \* concurrent request handlers
          Scopes, Inputs,
          MaxJobs,       \* bound of the model: jobs ever inserted
          SharedSession  \* create_job gets the session that made the first lookup, as
                         \* in the endpoint; FALSE is a caller with a session for each

ASSUME CreationAssumption == MaxJobs \in Nat /\ SharedSession \in BOOLEAN

VARIABLES
    jobs,      \* committed rows of ai_jobs
    pending,   \* rows of open transactions, by request
    committed, \* every row ever committed
    rpc, req,  \* per request: step, and what was posted
    answers    \* what clients were ever told

vars == <<jobs, pending, committed, rpc, req, answers>>

Rows == [id : 1..MaxJobs, scope : Scopes, input : Inputs]
Posts == [scope : Scopes, input : Inputs]

Steps == {"idle", "lookup", "freezing", "opening", "selecting", "inserting",
          "committing", "rereading"}

Answers ==
    [kind : {"created", "existing"}, post : Posts, id : 1..MaxJobs]
        \union [kind : {"conflict", "unavailable", "internal"}, post : Posts]

Init ==
    /\ jobs = {}
    /\ pending = [r \in Requests |-> {}]
    /\ committed = {}
    /\ rpc = [r \in Requests |-> "idle"]
    /\ req \in [Requests -> Posts]
    /\ answers = {}

-----------------------------------------------------------------------------
Existing(r) == {job \in jobs : job.scope = req[r].scope}

Goto(r, step) == rpc' = [rpc EXCEPT ![r] = step]

Answer(r, answer) ==
    /\ Goto(r, "idle")
    /\ answers' = answers \union {answer}

Refuse(r, kind) == Answer(r, [kind |-> kind, post |-> req[r]])

\* Mutant of Decide: the payload is not compared.
DecideByScope(r, job) == Answer(r, [kind |-> "existing", post |-> req[r], id |-> job.id])

\* _existing_idempotency_result.
Decide(r, job) ==
    IF job.input = req[r].input
    THEN Answer(r, [kind |-> "existing", post |-> req[r], id |-> job.id])
    ELSE Refuse(r, "conflict")

Receive(r, post) ==
    /\ rpc[r] = "idle"
    /\ Goto(r, "lookup")
    /\ req' = [req EXCEPT ![r] = post]
    /\ UNCHANGED <<jobs, pending, committed, answers>>

\* existing_idempotency_result, before anything else is asked.
Lookup(r) ==
    /\ rpc[r] = "lookup"
    /\ \/ \E job \in Existing(r) : Decide(r, job)
       \/ Existing(r) = {} /\ Goto(r, "freezing") /\ UNCHANGED answers
    /\ UNCHANGED <<jobs, pending, committed, req>>

\* freeze_source_versions asks Django for the manifest of every source.
FreezeSources(r) ==
    /\ rpc[r] = "freezing"
    /\ \/ Goto(r, "opening") /\ UNCHANGED answers
       \/ Refuse(r, "unavailable")
    /\ UNCHANGED <<jobs, pending, committed, req>>

\* create_job: session.begin().
OpenTransaction(r) ==
    /\ rpc[r] = "opening"
    /\ IF SharedSession THEN Refuse(r, "internal")
                        ELSE Goto(r, "selecting") /\ UNCHANGED answers
    /\ UNCHANGED <<jobs, pending, committed, req>>

\* The transaction looks again, but a row that is not committed yet is invisible.
SelectForUpdate(r) ==
    /\ rpc[r] = "selecting"
    /\ \/ \E job \in Existing(r) : Decide(r, job)
       \/ Existing(r) = {} /\ Goto(r, "inserting") /\ UNCHANGED answers
    /\ UNCHANGED <<jobs, pending, committed, req>>

\* Mutant of Blocked: there is no unique index.
NeverBlocked(r) == FALSE

\* The unique index makes an INSERT wait for open transactions with its key.
Blocked(r) ==
    \E other \in Requests \ {r} : \E job \in pending[other] : job.scope = req[r].scope

\* Mutant of Violated: neither does the index cover committed rows.
NeverViolated(r) == FALSE

Violated(r) == Existing(r) # {}

AllRows == committed \union UNION {pending[r] : r \in Requests}

Insert(r, id) ==
    /\ rpc[r] = "inserting"
    /\ ~Blocked(r)
    /\ ~Violated(r)
    /\ \A job \in AllRows : job.id # id
    /\ pending' = [pending EXCEPT
                     ![r] = {[id |-> id, scope |-> req[r].scope, input |-> req[r].input]}]
    /\ Goto(r, "committing")
    /\ UNCHANGED <<jobs, committed, req, answers>>

\* IntegrityError: the session rolls back and reads the winner's row.
InsertLoses(r) ==
    /\ rpc[r] = "inserting"
    /\ ~Blocked(r)
    /\ Violated(r)
    /\ Goto(r, "rereading")
    /\ UNCHANGED <<jobs, pending, committed, req, answers>>

CommitRow(r) ==
    /\ rpc[r] = "committing"
    /\ jobs' = jobs \union pending[r]
    /\ committed' = committed \union pending[r]
    /\ pending' = [pending EXCEPT ![r] = {}]

Commit(r) ==
    /\ CommitRow(r)
    /\ \E job \in pending[r] :
          Answer(r, [kind |-> "created", post |-> req[r], id |-> job.id])
    /\ UNCHANGED req

\* The row may have been deleted meanwhile: the IntegrityError is raised then.
Reread(r) ==
    /\ rpc[r] = "rereading"
    /\ \/ \E job \in Existing(r) : Decide(r, job)
       \/ Existing(r) = {} /\ Refuse(r, "internal")
    /\ UNCHANGED <<jobs, pending, committed, req>>

\* Mutant of RollBack: the transaction stays open.
LeaveOpen(r) == UNCHANGED pending

RollBack(r) == pending' = [pending EXCEPT ![r] = {}]

\* The connection to the client, the process or the database is lost: the open
\* transaction rolls back, or committed just before.
Disconnect(r) ==
    /\ rpc[r] # "idle"
    /\ Goto(r, "idle")
    /\ \/ CommitRow(r)
       \/ RollBack(r) /\ UNCHANGED <<jobs, committed>>
    /\ UNCHANGED <<req, answers>>

\* Retention deletes the job.
Purge(job) ==
    /\ jobs' = jobs \ {job}
    /\ UNCHANGED <<pending, committed, rpc, req, answers>>

Next ==
    \/ \E r \in Requests :
          \/ \E post \in Posts : Receive(r, post)
          \/ Lookup(r) \/ FreezeSources(r) \/ OpenTransaction(r) \/ SelectForUpdate(r)
          \/ \E id \in 1..MaxJobs : Insert(r, id)
          \/ InsertLoses(r) \/ Commit(r) \/ Reread(r) \/ Disconnect(r)
    \/ \E job \in jobs : Purge(job)

Spec == Init /\ [][Next]_vars

-----------------------------------------------------------------------------
(* Properties.                                                             *)

TypeOK ==
    /\ jobs \in SUBSET committed
    /\ committed \in SUBSET Rows
    /\ pending \in [Requests -> SUBSET Rows]
    /\ \A r \in Requests : pending[r] # {} <=> rpc[r] = "committing"
    /\ rpc \in [Requests -> Steps]
    /\ req \in [Requests -> Posts]
    /\ answers \in SUBSET Answers

\* create_job looks, looks again and inserts without a lock in between: still no two
\* requests, whatever they race or lose, store two jobs for one user's client_job_id.
OneJobPerScope ==
    \A job, other \in jobs : job.scope = other.scope => job = other

Told(kinds) == {answer \in answers : answer.kind \in kinds}

\* Every answer is justified by a job that was stored: an accepted request names a job
\* with exactly its payload, and a conflict is with a job that has another one.
AnswersAreJustified ==
    /\ \A answer \in Told({"created", "existing"}) : \E job \in committed :
          /\ job.id = answer.id
          /\ job.scope = answer.post.scope
          /\ job.input = answer.post.input
    /\ \A answer \in Told({"conflict"}) : \E job \in committed :
          /\ job.scope = answer.post.scope
          /\ job.input # answer.post.input

\* Retries name the original job: as long as a job that a client was told of is stored,
\* no request of its scope is answered with another one, nor as created again.
RetriesNameTheOriginal ==
    [][\A old \in Told({"created", "existing"}), new \in answers' \ answers :
          /\ new.kind \in {"created", "existing"}
          /\ new.post.scope = old.post.scope
          /\ \E job \in jobs : job.id = old.id
          => new.kind = "existing" /\ new.id = old.id]_vars

(* The inductive invariant behind them.                                    *)

IdsDistinct == \A job, other \in AllRows : job.id = other.id => job = other

\* An open transaction holds at most the row of its request, and no other row of that
\* scope is committed or pending.
PendingApart ==
    \A r \in Requests : \A job \in pending[r] :
        /\ pending[r] = {job}
        /\ job.scope = req[r].scope /\ job.input = req[r].input
        /\ Existing(r) = {}
        /\ \A other \in Requests \ {r} : \A row \in pending[other] : row.scope # job.scope

IInv ==
    /\ TypeOK
    /\ IdsDistinct
    /\ PendingApart
    /\ OneJobPerScope
    /\ AnswersAreJustified

(* What a document claims and the code does not do.                        *)

\* docs/DJANGO_AI_CONTRACT.md:31: "The response is `202` with the durable job identity":
\* a new request is not answered with an internal error while nothing was deleted.
NewRequestIsAccepted ==
    jobs = committed => Told({"internal"}) = {}
=============================================================================
