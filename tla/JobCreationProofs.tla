-------------------------- MODULE JobCreationProofs --------------------------
(***************************************************************************)
(* Proofs about JobCreation for any number of requests, scopes, inputs and *)
(* jobs, whether or not create_job shares its session with the lookup.     *)
(***************************************************************************)
EXTENDS JobCreation, TLAPS

\* The steps that only read rows: looking up, asking Django, losing the insert.
ReadingStep(r) ==
    \/ \E post \in Posts : Receive(r, post)
    \/ Lookup(r) \/ FreezeSources(r) \/ OpenTransaction(r) \/ SelectForUpdate(r)
    \/ InsertLoses(r) \/ Reread(r)

\* A decision tells of the row it was made about: with its payload the row itself, and
\* otherwise a conflict.
LEMMA DecisionIsJustified ==
    ASSUME TypeOK, NEW r \in Requests, NEW job \in Existing(r), Decide(r, job)
    PROVE  /\ rpc' = [rpc EXCEPT ![r] = "idle"]
           /\ \E answer \in Answers :
                 /\ answers' = answers \union {answer}
                 /\ answer.post = req[r]
                 /\ \/ answer.kind = "existing" /\ answer.id = job.id /\ job.input = req[r].input
                    \/ answer.kind = "conflict" /\ job.input # req[r].input
<1>1. job \in Rows /\ req[r] \in Posts
  BY DEF TypeOK, Existing
<1>2. CASE job.input = req[r].input
  <2> DEFINE answer == [kind |-> "existing", post |-> req[r], id |-> job.id]
  <2>1. answer \in Answers
    BY <1>1 DEF Answers, Rows
  <2> QED
    BY <1>2, <2>1 DEF Decide, Answer, Goto
<1>3. CASE job.input # req[r].input
  <2> DEFINE answer == [kind |-> "conflict", post |-> req[r]]
  <2>1. answer \in Answers
    BY <1>1 DEF Answers
  <2> QED
    BY <1>3, <2>1 DEF Decide, Refuse, Answer, Goto
<1> QED
  BY <1>2, <1>3

\* What any step may tell a client: nothing, a decision about a stored row, a refusal
\* that names no job, or the id of the row that the request just committed.
NewAnswerIsJustified ==
    \A new \in answers' \ answers :
        \/ \E job \in jobs :
              /\ job.scope = new.post.scope
              /\ \/ new.kind = "existing" /\ new.id = job.id /\ job.input = new.post.input
                 \/ new.kind = "conflict" /\ job.input # new.post.input
        \/ new.kind \in {"unavailable", "internal"}
        \/ \E r \in Requests : \E job \in pending[r] :
              /\ new = [kind |-> "created", post |-> req[r], id |-> job.id]
              /\ job \in jobs'

LEMMA ReadingSteps ==
    ASSUME TypeOK, NEW r \in Requests, ReadingStep(r)
    PROVE  /\ UNCHANGED <<jobs, pending, committed>>
           /\ \E step \in Steps \ {"committing"} : rpc' = [rpc EXCEPT ![r] = step]
           /\ rpc[r] # "committing"
           /\ req' = req \/ \E post \in Posts : req' = [req EXCEPT ![r] = post]
           /\ answers' \in SUBSET Answers
           /\ NewAnswerIsJustified
<1> DEFINE Kept == /\ UNCHANGED <<jobs, pending, committed>>
                   /\ rpc[r] # "committing"
                   /\ req' = req \/ \E post \in Posts : req' = [req EXCEPT ![r] = post]
<1> DEFINE Silent == /\ UNCHANGED answers
                     /\ \E step \in Steps \ {"committing"} : rpc' = [rpc EXCEPT ![r] = step]
<1> DEFINE Decided == \E job \in Existing(r) : Decide(r, job)
<1> DEFINE Refused == Refuse(r, "unavailable") \/ Refuse(r, "internal")
<1>1. Kept /\ (Silent \/ Decided \/ Refused)
  BY DEF ReadingStep, Receive, Lookup, FreezeSources, OpenTransaction, SelectForUpdate,
         InsertLoses, Reread, Goto, Steps
<1>2. CASE Silent
  BY <1>1, <1>2 DEF TypeOK, NewAnswerIsJustified
<1>3. CASE Decided
  <2>1. PICK job \in Existing(r) : Decide(r, job)
    BY <1>3
  <2>2. job \in jobs /\ job.scope = req[r].scope
    BY DEF Existing
  <2>3. PICK answer \in Answers :
            /\ answers' = answers \union {answer}
            /\ answer.post = req[r]
            /\ \/ answer.kind = "existing" /\ answer.id = job.id /\ job.input = req[r].input
               \/ answer.kind = "conflict" /\ job.input # req[r].input
    BY <2>1, DecisionIsJustified
  <2>4. rpc' = [rpc EXCEPT ![r] = "idle"]
    BY <2>1, DecisionIsJustified
  <2>5. answers' \in SUBSET Answers
    BY <2>3 DEF TypeOK
  <2>6. NewAnswerIsJustified
    BY <2>2, <2>3 DEF NewAnswerIsJustified
  <2> QED
    BY <1>1, <2>4, <2>5, <2>6 DEF Steps
<1>4. CASE Refused
  <2>1. PICK kind \in {"unavailable", "internal"} : Refuse(r, kind)
    BY <1>4
  <2> DEFINE answer == [kind |-> kind, post |-> req[r]]
  <2>2. answer \in Answers
    BY DEF Answers, TypeOK
  <2>3. answers' = answers \union {answer} /\ rpc' = [rpc EXCEPT ![r] = "idle"]
    BY <2>1 DEF Refuse, Answer, Goto
  <2>4. NewAnswerIsJustified
    BY <2>3 DEF NewAnswerIsJustified
  <2> QED
    BY <1>1, <2>2, <2>3, <2>4 DEF TypeOK, Steps
<1> QED
  BY <1>1, <1>2, <1>3, <1>4

-------------------------------------------------------------------------------
\* Rows.  Uniqueness is inductive only together with the open transactions: a row that
\* is not committed yet already excludes every other row of its scope.
RowsSafe == TypeOK /\ IdsDistinct /\ PendingApart /\ OneJobPerScope

LEMMA ReadingKeepsRows ==
    ASSUME RowsSafe, NEW r \in Requests, ReadingStep(r)
    PROVE  RowsSafe'
<1>1. /\ UNCHANGED <<jobs, pending, committed>>
      /\ \E step \in Steps \ {"committing"} : rpc' = [rpc EXCEPT ![r] = step]
      /\ rpc[r] # "committing"
      /\ req' = req \/ \E post \in Posts : req' = [req EXCEPT ![r] = post]
      /\ answers' \in SUBSET Answers
  BY ReadingSteps DEF RowsSafe
<1>2. TypeOK'
  BY <1>1 DEF RowsSafe, TypeOK
<1>3. IdsDistinct'
  BY <1>1 DEF RowsSafe, IdsDistinct, AllRows
<1>4. pending[r] = {}
  BY <1>1 DEF RowsSafe, TypeOK
<1>5. PendingApart'
  BY <1>1, <1>4 DEF RowsSafe, TypeOK, PendingApart, Existing
<1>6. OneJobPerScope'
  BY <1>1 DEF RowsSafe, OneJobPerScope
<1> QED
  BY <1>2, <1>3, <1>5, <1>6 DEF RowsSafe

\* The INSERT got past the unique index: nothing committed or pending has its scope.
LEMMA InsertKeepsRows ==
    ASSUME RowsSafe, NEW r \in Requests, NEW id \in 1..MaxJobs, Insert(r, id)
    PROVE  RowsSafe'
<1> DEFINE row == [id |-> id, scope |-> req[r].scope, input |-> req[r].input]
<1>1. /\ pending' = [pending EXCEPT ![r] = {row}]
      /\ rpc' = [rpc EXCEPT ![r] = "committing"]
      /\ UNCHANGED <<jobs, committed, req, answers>>
  BY DEF Insert, Goto
<1>2. row \in Rows
  BY DEF RowsSafe, TypeOK, Rows, Posts
<1>3. TypeOK'
  BY <1>1, <1>2 DEF RowsSafe, TypeOK, Steps
<1>4. AllRows' \subseteq AllRows \union {row}
  BY <1>1 DEF AllRows, RowsSafe, TypeOK
<1>5. \A job \in AllRows : job.id # id
  BY DEF Insert
<1>6. IdsDistinct'
  BY <1>4, <1>5 DEF RowsSafe, IdsDistinct
<1>7. /\ Existing(r) = {}
      /\ \A other \in Requests \ {r} : \A job \in pending[other] : job.scope # req[r].scope
  BY DEF Insert, Blocked, Violated
<1>8. PendingApart'
  BY <1>1, <1>7 DEF RowsSafe, TypeOK, PendingApart, Existing
<1>9. OneJobPerScope'
  BY <1>1 DEF RowsSafe, OneJobPerScope
<1> QED
  BY <1>3, <1>6, <1>8, <1>9 DEF RowsSafe

\* Committing or rolling back: the request's row moves to the table, or vanishes.
LEMMA ClosingKeepsRows ==
    ASSUME RowsSafe, NEW r \in Requests, CommitRow(r) \/ (RollBack(r) /\ UNCHANGED <<jobs, committed>>),
           rpc' = [rpc EXCEPT ![r] = "idle"], req' = req, answers' \in SUBSET Answers
    PROVE  RowsSafe'
<1>1. /\ pending' = [pending EXCEPT ![r] = {}]
      /\ \/ jobs' = jobs \union pending[r] /\ committed' = committed \union pending[r]
         \/ jobs' = jobs /\ committed' = committed
  BY DEF CommitRow, RollBack
<1>2. TypeOK'
  BY <1>1 DEF RowsSafe, TypeOK, Steps
<1>3. AllRows' \subseteq AllRows
  BY <1>1 DEF AllRows, RowsSafe, TypeOK
<1>4. IdsDistinct'
  BY <1>3 DEF RowsSafe, IdsDistinct
<1>5. PendingApart'
  BY <1>1 DEF RowsSafe, TypeOK, PendingApart, Existing
<1>6. OneJobPerScope'
  BY <1>1 DEF RowsSafe, OneJobPerScope, PendingApart, Existing
<1> QED
  BY <1>2, <1>4, <1>5, <1>6 DEF RowsSafe

\* What a commit tells its client is the id of the row it committed.
LEMMA CommitSteps ==
    ASSUME RowsSafe, NEW r \in Requests, Commit(r)
    PROVE  /\ rpc' = [rpc EXCEPT ![r] = "idle"]
           /\ answers' \in SUBSET Answers
           /\ NewAnswerIsJustified
<1>1. PICK job \in pending[r] :
          Answer(r, [kind |-> "created", post |-> req[r], id |-> job.id])
  BY DEF Commit
<1> DEFINE answer == [kind |-> "created", post |-> req[r], id |-> job.id]
<1>2. job \in Rows /\ req[r] \in Posts
  BY DEF RowsSafe, TypeOK
<1>3. answer \in Answers
  BY <1>2 DEF Answers, Rows
<1>4. answers' = answers \union {answer} /\ rpc' = [rpc EXCEPT ![r] = "idle"]
  BY <1>1 DEF Answer, Goto
<1>5. job \in jobs'
  BY DEF Commit, CommitRow
<1>6. NewAnswerIsJustified
  BY <1>4, <1>5 DEF NewAnswerIsJustified
<1> QED
  BY <1>3, <1>4, <1>6 DEF RowsSafe, TypeOK

LEMMA RowsInductive ==
    ASSUME RowsSafe, [Next]_vars
    PROVE  RowsSafe' /\ (answers' # answers => NewAnswerIsJustified)
<1>1. ASSUME NEW r \in Requests, ReadingStep(r)
      PROVE  RowsSafe' /\ NewAnswerIsJustified
  BY <1>1, ReadingKeepsRows, ReadingSteps DEF RowsSafe
<1>2. ASSUME NEW r \in Requests, NEW id \in 1..MaxJobs, Insert(r, id)
      PROVE  RowsSafe' /\ answers' = answers
  BY <1>2, InsertKeepsRows DEF Insert
<1>3. ASSUME NEW r \in Requests, Commit(r)
      PROVE  RowsSafe' /\ NewAnswerIsJustified
  BY <1>3, CommitSteps, ClosingKeepsRows DEF Commit
<1>4. ASSUME NEW r \in Requests, Disconnect(r)
      PROVE  RowsSafe' /\ answers' = answers
  BY <1>4, ClosingKeepsRows DEF Disconnect, Goto, RowsSafe, TypeOK
<1>5. ASSUME NEW job \in jobs, Purge(job)
      PROVE  RowsSafe' /\ answers' = answers
  <2>1. jobs' \subseteq jobs /\ UNCHANGED <<pending, committed, rpc, req, answers>>
    BY <1>5 DEF Purge
  <2>2. TypeOK'
    BY <2>1 DEF RowsSafe, TypeOK
  <2>3. IdsDistinct'
    BY <2>1 DEF RowsSafe, IdsDistinct, AllRows
  <2>4. PendingApart'
    BY <2>1 DEF RowsSafe, PendingApart, Existing
  <2>5. OneJobPerScope'
    BY <2>1 DEF RowsSafe, OneJobPerScope
  <2> QED
    BY <2>1, <2>2, <2>3, <2>4, <2>5 DEF RowsSafe
<1>6. CASE UNCHANGED vars
  BY <1>6 DEF vars, RowsSafe, TypeOK, IdsDistinct, AllRows, PendingApart, Existing,
              OneJobPerScope
<1> QED
  BY <1>1, <1>2, <1>3, <1>4, <1>5, <1>6 DEF Next, ReadingStep

-------------------------------------------------------------------------------
\* Rows that were ever committed are remembered, so a justified answer stays justified.
LEMMA CommittedGrows ==
    ASSUME [Next]_vars
    PROVE  committed \subseteq committed'
<1>1. ASSUME NEW r \in Requests, ReadingStep(r)
      PROVE  committed' = committed
  BY <1>1 DEF ReadingStep, Receive, Lookup, FreezeSources, OpenTransaction, SelectForUpdate,
              InsertLoses, Reread
<1>2. ASSUME NEW r \in Requests, Commit(r) \/ Disconnect(r)
      PROVE  committed \subseteq committed'
  BY <1>2 DEF Commit, Disconnect, CommitRow
<1> QED
  BY <1>1, <1>2 DEF Next, ReadingStep, Insert, Purge, vars

LEMMA AnswersInductive ==
    ASSUME RowsSafe, AnswersAreJustified, [Next]_vars
    PROVE  AnswersAreJustified'
<1>1. RowsSafe' /\ (answers' # answers => NewAnswerIsJustified)
  BY RowsInductive
<1>2. committed \subseteq committed' /\ jobs \subseteq committed /\ jobs' \subseteq committed'
  BY <1>1, CommittedGrows DEF RowsSafe, TypeOK
<1>3. ASSUME NEW answer \in answers', answer.kind \in {"created", "existing"}
      PROVE  \E job \in committed' : /\ job.id = answer.id
                                     /\ job.scope = answer.post.scope
                                     /\ job.input = answer.post.input
  <2>1. CASE answer \in answers
    BY <1>2, <1>3, <2>1 DEF AnswersAreJustified, Told
  <2>2. CASE answer \notin answers
    <3>1. CASE \E job \in jobs :
                  /\ job.scope = answer.post.scope
                  /\ answer.kind = "existing" /\ answer.id = job.id
                  /\ job.input = answer.post.input
      BY <1>2, <3>1
    <3>2. CASE \E r \in Requests : \E job \in pending[r] :
                  /\ answer = [kind |-> "created", post |-> req[r], id |-> job.id]
                  /\ job \in jobs'
      BY <1>2, <3>2 DEF RowsSafe, PendingApart
    <3> QED
      BY <1>1, <1>3, <2>2, <3>1, <3>2 DEF NewAnswerIsJustified
  <2> QED
    BY <2>1, <2>2
<1>4. ASSUME NEW answer \in answers', answer.kind = "conflict"
      PROVE  \E job \in committed' : /\ job.scope = answer.post.scope
                                     /\ job.input # answer.post.input
  <2>1. CASE answer \in answers
    BY <1>2, <1>4, <2>1 DEF AnswersAreJustified, Told
  <2>2. CASE answer \notin answers
    BY <1>1, <1>2, <1>4, <2>2 DEF NewAnswerIsJustified
  <2> QED
    BY <2>1, <2>2
<1> QED
  BY <1>3, <1>4 DEF AnswersAreJustified, Told

-------------------------------------------------------------------------------
LEMMA InitSafe == Init => IInv
  BY DEF Init, IInv, TypeOK, IdsDistinct, AllRows, PendingApart, OneJobPerScope,
         AnswersAreJustified, Told, Steps, Rows

\* The inductive invariant of job creation holds in every reachable state, whatever the
\* number of racing requests.
THEOREM CreationInvariance == Spec => []IInv
<1>1. IInv /\ [Next]_vars => IInv'
  BY RowsInductive, AnswersInductive DEF IInv, RowsSafe
<1> QED
  BY InitSafe, <1>1, PTL DEF Spec

\* Requests, rows and answers always have the values the code knows.
THEOREM CreationTypeCorrect == Spec => []TypeOK
<1>1. IInv => TypeOK
  BY DEF IInv
<1> QED
  BY CreationInvariance, <1>1, PTL

\* No two stored jobs share user and client_job_id, whatever races.
THEOREM UniqueJobs == Spec => []OneJobPerScope
<1>1. IInv => OneJobPerScope
  BY DEF IInv
<1> QED
  BY CreationInvariance, <1>1, PTL

\* Every 202 names a job with the posted payload; every 409 is with a different payload.
THEOREM JustifiedAnswers == Spec => []AnswersAreJustified
<1>1. IInv => AnswersAreJustified
  BY DEF IInv
<1> QED
  BY CreationInvariance, <1>1, PTL

\* A retry is answered with the original job for as long as that is stored.
THEOREM IdempotentRetries == Spec => RetriesNameTheOriginal
<1>1. ASSUME IInv, [Next]_vars,
             NEW old \in Told({"created", "existing"}), NEW new \in answers' \ answers,
             new.kind \in {"created", "existing"}, new.post.scope = old.post.scope,
             NEW job \in jobs, job.id = old.id
      PROVE  new.kind = "existing" /\ new.id = old.id
  <2>1. PICK original \in committed :
            original.id = old.id /\ original.scope = old.post.scope
    BY <1>1 DEF IInv, AnswersAreJustified
  <2>2. job = original
    BY <1>1, <2>1 DEF IInv, IdsDistinct, AllRows, TypeOK
  <2>3. NewAnswerIsJustified
    BY <1>1, RowsInductive DEF IInv, RowsSafe
  <2>4. CASE \E row \in jobs : /\ row.scope = new.post.scope
                               /\ new.kind = "existing" /\ new.id = row.id
    BY <1>1, <2>1, <2>2, <2>4 DEF IInv, OneJobPerScope
  <2>5. CASE \E r \in Requests : \E row \in pending[r] :
                new = [kind |-> "created", post |-> req[r], id |-> row.id]
    <3>1. PICK r \in Requests : \E row \in pending[r] :
              new = [kind |-> "created", post |-> req[r], id |-> row.id]
      BY <2>5
    <3>2. job \in Existing(r)
      BY <1>1, <2>1, <2>2, <3>1 DEF Existing
    <3> QED
      BY <1>1, <3>1, <3>2 DEF IInv, PendingApart
  <2> QED
    BY <1>1, <2>3, <2>4, <2>5 DEF NewAnswerIsJustified
<1>2. IInv /\ [Next]_vars =>
        [\A old \in Told({"created", "existing"}), new \in answers' \ answers :
            /\ new.kind \in {"created", "existing"}
            /\ new.post.scope = old.post.scope
            /\ \E job \in jobs : job.id = old.id
            => new.kind = "existing" /\ new.id = old.id]_vars
  BY <1>1
<1> QED
  BY CreationInvariance, <1>2, PTL DEF Spec, RetriesNameTheOriginal
=============================================================================
