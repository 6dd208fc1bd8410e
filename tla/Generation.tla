------------------------------ MODULE Generation ------------------------------
(***************************************************************************)
(* Asking the AI providers.  A worker generates structured output          *)
(* (services/generation.py), transcribes audio before it does so           *)
(* (pipelines/sada.py), embeds texts (rag/embeddings.py) or has an output  *)
(* moderated.  The router picks one account per provider among those whose *)
(* circuit is closed; each account has a circuit in Redis and a monthly    *)
(* usage row in PostgreSQL.  The workers are processes of their own:       *)
(* between two of a worker's awaits the others may do anything.            *)
(*                                                                         *)
(* A worker's uncommitted writes are visible to nobody: they are the       *)
(* fields of its run record, and holder[a] is the worker whose open        *)
(* transaction has inserted or updated a's usage row.  Costs are counted   *)
(* in units of one generation; one month is modelled.                      *)
(***************************************************************************)
EXTENDS Integers, Sequences, FiniteSets, SequencesExt

CONSTANTS Workers, Accounts,
          OpenAI, Gemini,  \* each provider: the sequence of its configured accounts
          TaskRoute,       \* the providers of a task, in the order of their priority
          Policy,          \* settings.provider_routing_policy
          Budget,          \* settings.*_monthly_budget_usd, 0 for no cap
          Threshold,       \* settings.provider_circuit_failure_threshold
          MaxRetries,      \* settings.provider_max_retries
          MaxGenerations,  \* bound: generations begun in a behaviour
          MaxDisturbances  \* bound: errors of Redis and PostgreSQL, crashes, lapses of Redis keys

Kinds == {"generate", "transcribe", "embed", "moderate"}
Nobody == "nobody"
NoRow == -1

ASSUME GenerationAssumption ==
  /\ Workers # {} /\ IsFiniteSet(Workers) /\ Nobody \notin Workers
  /\ {OpenAI, Gemini} \subseteq Seq(Accounts)
  /\ TaskRoute \in Seq({OpenAI, Gemini})
  /\ Policy \in {"failover", "weighted"}
  /\ {Budget, MaxRetries, MaxGenerations, MaxDisturbances} \subseteq Nat
  /\ Threshold \in Nat \ {0}

VARIABLES
  failures,    \* failures[a]: the Redis counter, 0 when there is no key
  expires,     \* expires[a]: the counter has a time to live
  open,        \* open[a]: the circuit's open key exists
  orphaned,    \* history: accounts whose counter lost its EXPIRE to a crash or a Redis error
  usage,       \* usage[a]: committed cost of the month, NoRow before the first charge
  holder,      \* holder[a]: who holds the lock on the usage row
  charged,     \* charged[a]: cost of the committed SUCCEEDED attempts
  raced,       \* history: accounts whose usage was once overwritten with a stale sum
  run,         \* run[w]: the generation w performs and its uncommitted data
  begun,       \* number of generations begun
  disturbances \* number of these so far

circuit == <<failures, expires, open, orphaned>>
database == <<usage, holder, charged, raced>>
vars == <<failures, expires, open, orphaned, usage, holder, charged, raced, run, begun, disturbances>>

(* Where a worker stands: "idle", or the step it takes next. *)
Counting == {"counting", "expiring", "opening"}
Recording == {"reading", "inserting", "writing", "committing"}
Steps == {"ordering", "choosing", "asking", "clearing", "closing"} \cup Counting \cup Recording

Idle == [pc |-> "idle", kind |-> "generate", fallback |-> TRUE, specs |-> <<>>, left |-> <<>>,
         tries |-> 0, after |-> "continue", seen |-> 0, read |-> NoRow,
         asked |-> 0, answers |-> 0, redisFailed |-> FALSE]

Init ==
  /\ failures = [a \in Accounts |-> 0]
  /\ expires = [a \in Accounts |-> FALSE]
  /\ open = [a \in Accounts |-> FALSE]
  /\ orphaned = {}
  /\ \E row \in {NoRow} \cup 0..Budget : usage = [a \in Accounts |-> row]   \* the month so far
  /\ holder = [a \in Accounts |-> Nobody]
  /\ charged = [a \in Accounts |-> IF usage[a] = NoRow THEN 0 ELSE usage[a]]
  /\ raced = {}
  /\ run = [w \in Workers |-> Idle]
  /\ begun = 0 /\ disturbances = 0

(***************************************************************************)
(* Routing                                                                 *)
(***************************************************************************)
(* The providers asked for a capability: Gemini neither transcribes nor    *)
(* moderates, and embeddings are OpenAI's first.                           *)
Route(kind) ==
  CASE kind = "generate" -> TaskRoute
    [] kind = "embed"    -> <<OpenAI, Gemini>>
    [] OTHER             -> <<OpenAI>>

(* The accounts whose circuit is closed: failover takes the first of them, *)
(* weights take the slot of the job's digest, which may be any.            *)
Selectable(accounts) ==
  LET live == {i \in DOMAIN accounts : ~open[accounts[i]]}
  IN  {accounts[i] : i \in {k \in live : Policy = "failover" => \A l \in live : k <= l}}

Account(w) == Head(run[w].left)
Goto(w, pc) == run' = [run EXCEPT ![w].pc = pc]
Disturbed == disturbances < MaxDisturbances /\ disturbances' = disturbances + 1
End(w) == run' = [run EXCEPT ![w] = Idle]   \* the call returned or raised

(* Embeddings always allow fallback, moderation never does. *)
Start(w, kind, fallback) ==
  /\ run[w].pc = "idle"
  /\ begun < MaxGenerations
  /\ kind = "embed" => fallback
  /\ kind = "moderate" => ~fallback
  /\ begun' = begun + 1
  /\ run' = [run EXCEPT ![w] = [Idle EXCEPT !.pc = "ordering", !.kind = kind,
                                            !.fallback = fallback, !.specs = Route(kind)]]
  /\ UNCHANGED <<failures, expires, open, orphaned, usage, holder, charged, raced, disturbances>>

(* One provider of the route: its live accounts give at most one candidate. *)
ConsiderProvider(w) ==
  /\ run[w].pc = "ordering" /\ run[w].specs # <<>>
  /\ LET accounts == Selectable(Head(run[w].specs))
     IN  \E chosen \in IF accounts = {} THEN {<<>>} ELSE {<<a>> : a \in accounts} :
           run' = [run EXCEPT ![w].specs = Tail(@), ![w].left = @ \o chosen]
  /\ UNCHANGED <<failures, expires, open, orphaned, usage, holder, charged, raced, begun, disturbances>>

(* circuit.is_open raises: no caller catches a Redis error. *)
RoutingFails(w) ==
  /\ Disturbed
  /\ run[w].pc = "ordering" /\ run[w].specs # <<>>
  /\ End(w)
  /\ UNCHANGED <<failures, expires, open, orphaned, usage, holder, charged, raced, begun>>

(* no_provider_available (moderation then skips its check), or the         *)
(* candidates: the first only without fallback.                            *)
OrderCandidates(w) ==
  /\ run[w].pc = "ordering" /\ run[w].specs = <<>>
  /\ \/ /\ run[w].left = <<>>
        /\ End(w)
     \/ /\ run[w].left # <<>>
        /\ run' = [run EXCEPT ![w].pc = "choosing",
                              ![w].left = IF run[w].fallback THEN @ ELSE <<Head(@)>>]
  /\ UNCHANGED <<failures, expires, open, orphaned, usage, holder, charged, raced, begun, disturbances>>

(***************************************************************************)
(* The candidate loop                                                      *)
(***************************************************************************)
Budgeted(kind) == kind \in {"generate", "transcribe"}
\* Mutant of HasBudget: an exhausted budget is not exceeded yet.
HasBudgetUpToTheCap(a) == Budget = 0 \/ usage[a] <= Budget
HasBudget(a) == Budget = 0 \/ usage[a] < Budget
Tries(kind) == IF kind = "generate" THEN MaxRetries + 1 ELSE 1

\* Mutant of NextCandidate: a candidate without budget is not left behind.
NextCandidateStuck(w) ==
  /\ run[w].pc = "choosing" /\ run[w].left # <<>>
  /\ Budgeted(run[w].kind) => HasBudget(Account(w))
  /\ run' = [run EXCEPT ![w].pc = "asking", ![w].tries = Tries(run[w].kind)]
  /\ UNCHANGED <<failures, expires, open, orphaned, usage, holder, charged, raced, begun, disturbances>>

NextCandidate(w) ==
  /\ run[w].pc = "choosing" /\ run[w].left # <<>>
  /\ \/ /\ Budgeted(run[w].kind) => HasBudget(Account(w))
        /\ run' = [run EXCEPT ![w].pc = "asking", ![w].tries = Tries(run[w].kind)]
     \/ /\ Budgeted(run[w].kind) /\ ~HasBudget(Account(w))
        /\ run' = [run EXCEPT ![w].left = Tail(@)]
  /\ UNCHANGED <<failures, expires, open, orphaned, usage, holder, charged, raced, begun, disturbances>>

(* After the transcription loop whatever transcript was obtained is used,  *)
(* its attempt recorded FAILED or not: unless it is empty, a generation    *)
(* cleans it up.                                                           *)
LeaveTranscription(w) ==
  \/ End(w)
  \/ /\ run[w].answers > 0
     /\ run' = [run EXCEPT ![w] = [Idle EXCEPT !.pc = "ordering", !.kind = "generate",
                                               !.fallback = run[w].fallback, !.specs = Route("generate")]]

(* The loop ends: transcription_failed, or the last error, or all_providers_failed. *)
LeaveLoop(w) == IF run[w].kind = "transcribe" THEN LeaveTranscription(w) ELSE End(w)

NoneLeft(w) ==
  /\ run[w].pc = "choosing" /\ run[w].left = <<>>
  /\ LeaveLoop(w)
  /\ UNCHANGED <<failures, expires, open, orphaned, usage, holder, charged, raced, begun, disturbances>>

(* What a provider may reply, and the adapters' verdict on it.  A timeout  *)
(* cancels the call and is no AppError.                                    *)
Replies == {"answer", "invalid", "empty", "overloaded", "unknown_status", "rejected", "timeout"}
OpenAIVerdict(reply) ==
  CASE reply \in {"answer", "timeout"}     -> reply
    [] reply \in {"empty", "overloaded"}   -> "retryable"
    [] OTHER                               -> "fatal"
Classified(status) == IF status \in {"overloaded", "unknown_status"} THEN "retryable" ELSE "fatal"
GeminiVerdict(reply) ==
  CASE reply \in {"answer", "timeout"}     -> reply
    [] reply = "empty"                     -> "retryable"
    [] reply = "invalid"                   -> "fatal"
    [] OTHER                               -> Classified(reply)
(* The other calls tell only an answer from an exception. *)
EmbeddingVerdict(reply) == IF reply = "answer" THEN "answer" ELSE "timeout"
TranscriptionVerdict(reply) == IF reply = "answer" THEN "answer" ELSE "timeout"
Verdict(kind, a, reply) ==
  CASE kind = "embed"      -> EmbeddingVerdict(reply)
    [] kind = "transcribe" -> TranscriptionVerdict(reply)
    [] OTHER               -> IF a \in ToSet(Gemini) THEN GeminiVerdict(reply) ELSE OpenAIVerdict(reply)

(* Where the verdict leads: an AppError counts against the circuit only    *)
(* when it is retryable and fallback is allowed, any other exception does. *)
AfterVerdict(r, verdict) ==
  CASE verdict = "answer"                         -> "clearing"
    [] verdict = "timeout"                        -> "counting"
    [] verdict = "retryable" /\ r.fallback        -> "counting"
    [] OTHER                                      -> "closing"
Continues(r, verdict) == r.fallback /\ verdict \in {"retryable", "timeout"}

(* INSERT the STARTED attempt and call the provider. *)
Ask(w, reply) ==
  /\ run[w].pc = "asking" /\ run[w].kind # "moderate"
  /\ LET verdict == Verdict(run[w].kind, Account(w), reply)
     IN  run' = [run EXCEPT
           ![w].pc = AfterVerdict(run[w], verdict),
           ![w].after = IF Continues(run[w], verdict) THEN "continue" ELSE "raise",
           ![w].tries = @ - 1, ![w].asked = @ + 1,
           ![w].answers = IF verdict = "answer" THEN @ + 1 ELSE @]
  /\ UNCHANGED <<failures, expires, open, orphaned, usage, holder, charged, raced, begun, disturbances>>

(* Moderation records nothing, and a provider's failure skips the check. *)
Moderate(w) ==
  /\ run[w].pc = "asking" /\ run[w].kind = "moderate"
  /\ End(w)
  /\ UNCHANGED <<failures, expires, open, orphaned, usage, holder, charged, raced, begun, disturbances>>

(***************************************************************************)
(* Recording a success                                                     *)
(***************************************************************************)
(* circuit.record_success deletes both keys in one command.  Embeddings    *)
(* are done then: they are charged to no budget.                           *)
RecordSuccess(w) ==
  /\ run[w].pc = "clearing"
  /\ failures' = [failures EXCEPT ![Account(w)] = 0]
  /\ expires' = [expires EXCEPT ![Account(w)] = FALSE]
  /\ open' = [open EXCEPT ![Account(w)] = FALSE]
  /\ orphaned' = orphaned \ {Account(w)}
  /\ IF run[w].kind = "embed" THEN End(w) ELSE Goto(w, "reading")
  /\ UNCHANGED <<usage, holder, charged, raced, begun, disturbances>>

(* Redis fails instead: the clause for other exceptions takes over.        *)
RecordSuccessFails(w) ==
  /\ Disturbed
  /\ run[w].pc = "clearing"
  /\ run' = [run EXCEPT ![w].pc = "counting", ![w].redisFailed = TRUE,
                        ![w].after = IF run[w].fallback THEN "continue" ELSE "raise"]
  /\ UNCHANGED <<failures, expires, open, orphaned, usage, holder, charged, raced, begun>>

(* budget.record: read the month's row, create it when there is none. *)
ReadUsage(w) ==
  /\ run[w].pc = "reading"
  /\ run' = [run EXCEPT ![w].read = usage[Account(w)],
                        ![w].pc = IF usage[Account(w)] = NoRow THEN "inserting" ELSE "writing"]
  /\ UNCHANGED <<failures, expires, open, orphaned, usage, holder, charged, raced, begun, disturbances>>

\* Mutant of SessionBroken: a database error is treated as the provider's.
SessionBrokenRetries(w) ==
  /\ run' = [run EXCEPT ![w].after = "continue", ![w].read = NoRow, ![w].pc = "counting"]
  /\ holder' = [a \in Accounts |-> IF holder[a] = w THEN Nobody ELSE holder[a]]
  /\ UNCHANGED <<failures, expires, open, orphaned, usage, charged, raced, begun>>

(* A database error leaves the session unusable: the attempt can not be    *)
(* marked FAILED, everything uncommitted is lost and the job fails.  Only  *)
(* the transcription loop still counts a failure before its commit raises. *)
SessionBroken(w) ==
  /\ IF run[w].kind = "transcribe"
     THEN run' = [run EXCEPT ![w].after = "broken", ![w].read = NoRow, ![w].pc = "counting"]
     ELSE End(w)
  /\ holder' = [a \in Accounts |-> IF holder[a] = w THEN Nobody ELSE holder[a]]
  /\ UNCHANGED <<failures, expires, open, orphaned, usage, charged, raced, begun>>

(* The INSERT waits for another uncommitted one and then finds its row:    *)
(* the unique index (account, month) refuses it.                           *)
InsertUsage(w) ==
  /\ run[w].pc = "inserting" /\ holder[Account(w)] = Nobody
  /\ \/ /\ usage[Account(w)] = NoRow
        /\ holder' = [holder EXCEPT ![Account(w)] = w]
        /\ run' = [run EXCEPT ![w].read = 0, ![w].pc = "writing"]
        /\ UNCHANGED <<failures, expires, open, orphaned, usage, charged, raced, begun, disturbances>>
     \/ /\ usage[Account(w)] # NoRow
        /\ SessionBroken(w) /\ UNCHANGED disturbances

\* Mutant of WriteUsage: the charge is committed before its attempt.
WriteUsageAtOnce(w) ==
  /\ run[w].pc = "writing" /\ holder[Account(w)] \in {Nobody, w}
  /\ usage' = [usage EXCEPT ![Account(w)] = run[w].read + 1]
  /\ Goto(w, "committing")
  /\ UNCHANGED <<failures, expires, open, orphaned, holder, charged, raced, begun, disturbances>>

(* The flushed UPDATE sets the value read plus this cost and locks the row. *)
WriteUsage(w) ==
  /\ run[w].pc = "writing" /\ holder[Account(w)] \in {Nobody, w}
  /\ holder' = [holder EXCEPT ![Account(w)] = w]
  /\ Goto(w, "committing")
  /\ UNCHANGED <<failures, expires, open, orphaned, usage, charged, raced, begun, disturbances>>

(* A transcription is recorded with an estimated cost of zero. *)
Cost(kind) == IF kind = "transcribe" THEN 0 ELSE 1

(* The commit makes the SUCCEEDED attempt and its charge visible at once. *)
Commit(w) ==
  /\ run[w].pc = "committing"
  /\ usage' = [usage EXCEPT ![Account(w)] = run[w].read + Cost(run[w].kind)]
  /\ charged' = [charged EXCEPT ![Account(w)] = @ + Cost(run[w].kind)]
  /\ holder' = [holder EXCEPT ![Account(w)] = Nobody]
  /\ raced' = IF usage[Account(w)] \in {run[w].read, NoRow} THEN raced ELSE raced \cup {Account(w)}
  /\ IF run[w].kind = "transcribe" THEN LeaveTranscription(w) ELSE End(w)
  /\ UNCHANGED <<failures, expires, open, orphaned, begun, disturbances>>

DatabaseFails(w) == Disturbed /\ run[w].pc \in Recording /\ SessionBroken(w)

(***************************************************************************)
(* Recording a failure: INCR, EXPIRE and SET are three commands            *)
(***************************************************************************)
Count(w) ==
  /\ run[w].pc = "counting"
  /\ failures' = [failures EXCEPT ![Account(w)] = @ + 1]
  /\ run' = [run EXCEPT ![w].pc = "expiring", ![w].seen = failures[Account(w)] + 1]
  /\ UNCHANGED <<expires, open, orphaned, usage, holder, charged, raced, begun, disturbances>>

\* Mutant of Expire: only a counter that opens the circuit gets a time to live.
ExpireAtThreshold(w) ==
  /\ run[w].pc = "expiring"
  /\ expires' = [expires EXCEPT ![Account(w)] = @ \/ run[w].seen >= Threshold]
  /\ orphaned' = orphaned \ {Account(w)}
  /\ run' = [run EXCEPT ![w].seen = 0,
                        ![w].pc = IF run[w].seen >= Threshold THEN "opening" ELSE "closing"]
  /\ UNCHANGED <<failures, open, usage, holder, charged, raced, begun, disturbances>>

Expire(w) ==
  /\ run[w].pc = "expiring"
  /\ expires' = [expires EXCEPT ![Account(w)] = failures[Account(w)] > 0]
  /\ orphaned' = orphaned \ {Account(w)}
  /\ run' = [run EXCEPT ![w].seen = 0,
                        ![w].pc = IF run[w].seen >= Threshold THEN "opening" ELSE "closing"]
  /\ UNCHANGED <<failures, open, usage, holder, charged, raced, begun, disturbances>>

OpenCircuit(w) ==
  /\ run[w].pc = "opening"
  /\ open' = [open EXCEPT ![Account(w)] = TRUE]
  /\ Goto(w, "closing")
  /\ UNCHANGED <<failures, expires, orphaned, usage, holder, charged, raced, begun, disturbances>>

Orphan(w) == IF run[w].pc = "expiring" THEN orphaned \cup {Account(w)} ELSE orphaned

(* A Redis error in the except clause escapes it. *)
RecordFailureFails(w) ==
  /\ Disturbed
  /\ run[w].pc \in Counting
  /\ orphaned' = Orphan(w)
  /\ IF run[w].kind = "generate"
     THEN run' = [run EXCEPT ![w].redisFailed = TRUE, ![w].after = "raise", ![w].seen = 0,
                             ![w].pc = "closing"]
     ELSE End(w)
  /\ UNCHANGED <<failures, expires, open, usage, holder, charged, raced, begun>>

(* The FAILED attempt is committed, unless the session is broken; then the *)
(* next retry, the next candidate, or the end of the loop.                 *)
CloseAttempt(w) ==
  /\ run[w].pc = "closing"
  /\ \/ run[w].after = "broken" /\ End(w)
     \/ run[w].after = "raise" /\ LeaveLoop(w)
     \/ /\ run[w].after = "continue" /\ run[w].tries > 0
        /\ Goto(w, "asking")
     \/ /\ run[w].after = "continue" /\ run[w].tries = 0
        /\ run' = [run EXCEPT ![w].pc = "choosing", ![w].left = Tail(@)]
  /\ UNCHANGED <<failures, expires, open, orphaned, usage, holder, charged, raced, begun, disturbances>>

(***************************************************************************)
(* The environment                                                         *)
(***************************************************************************)
(* The worker process dies: its transaction is rolled back. *)
Crash(w) ==
  /\ Disturbed
  /\ run[w].pc \in Steps
  /\ orphaned' = Orphan(w)
  /\ End(w)
  /\ holder' = [a \in Accounts |-> IF holder[a] = w THEN Nobody ELSE holder[a]]
  /\ UNCHANGED <<failures, expires, open, usage, charged, raced, begun>>

CounterExpires(a) ==
  /\ Disturbed
  /\ failures[a] > 0 /\ expires[a]
  /\ failures' = [failures EXCEPT ![a] = 0]
  /\ expires' = [expires EXCEPT ![a] = FALSE]
  /\ UNCHANGED <<open, orphaned, usage, holder, charged, raced, run, begun>>

CooldownEnds(a) ==
  /\ Disturbed
  /\ open[a]
  /\ open' = [open EXCEPT ![a] = FALSE]
  /\ UNCHANGED <<failures, expires, orphaned, usage, holder, charged, raced, run, begun>>

Work(w) ==
  \/ ConsiderProvider(w) \/ OrderCandidates(w) \/ NextCandidate(w) \/ NoneLeft(w)
  \/ (\E reply \in Replies : Ask(w, reply)) \/ Moderate(w)
  \/ RecordSuccess(w) \/ ReadUsage(w) \/ InsertUsage(w) \/ WriteUsage(w) \/ Commit(w)
  \/ Count(w) \/ Expire(w) \/ OpenCircuit(w) \/ CloseAttempt(w)

Fault(w) == RoutingFails(w) \/ RecordSuccessFails(w) \/ DatabaseFails(w) \/ RecordFailureFails(w) \/ Crash(w)

Next ==
  \/ \E w \in Workers : Work(w) \/ Fault(w)
  \/ \E w \in Workers, kind \in Kinds, fallback \in BOOLEAN : Start(w, kind, fallback)
  \/ \E a \in Accounts : CounterExpires(a) \/ CooldownEnds(a)

(* A call is bounded by its timeout, and a lock by the commit, rollback or *)
(* death of its holder; PostgreSQL serves the waiters of a row in turn.    *)
Fairness == \A w \in Workers : WF_vars(Work(w))

Spec == Init /\ [][Next]_vars /\ Fairness

(***************************************************************************)
(* Properties                                                              *)
(***************************************************************************)
Runs == [pc : {"idle"} \cup Steps, kind : Kinds, fallback : BOOLEAN,
         specs : Seq(Seq(Accounts)), left : Seq(Accounts), tries : Nat,
         after : {"continue", "raise", "broken"}, seen : Nat, read : Nat \cup {NoRow},
         asked : Nat, answers : Nat, redisFailed : BOOLEAN]

TypeOK ==
  /\ failures \in [Accounts -> Nat] /\ expires \in [Accounts -> BOOLEAN]
  /\ open \in [Accounts -> BOOLEAN] /\ orphaned \subseteq Accounts
  /\ usage \in [Accounts -> Nat \cup {NoRow}] /\ charged \in [Accounts -> Nat]
  /\ raced \subseteq Accounts
  /\ holder \in [Accounts -> Workers \cup {Nobody}]
  /\ begun \in Nat /\ disturbances \in Nat
  /\ run \in [Workers -> Runs]

(* The month's usage never shows more than the attempts recorded as        *)
(* succeeded cost, and shows exactly that unless two sums raced: rollbacks, *)
(* crashes and refused inserts neither charge nor lose anything.           *)
UsageIsCharged ==
  \A a \in Accounts :
    /\ usage[a] <= charged[a]
    /\ a \notin raced => charged[a] <= usage[a] \/ charged[a] = 0

(* has_budget is asked long before record: the generations in flight may   *)
(* exceed the budget, but only by what they cost, as long as no two sums   *)
(* raced (after a lost update there is no such bound).                     *)
OvershootIsBounded ==
  Budget > 0 => \A a \in Accounts \ raced : charged[a] < Budget + Cardinality(Workers)

(* A generation asks for a second answer after it had one only when Redis  *)
(* failed while the first was being recorded.                              *)
SecondAnswerNeedsRedisFailure ==
  \A w \in Workers : run[w].answers > 1 => run[w].redisFailed

(* A counter of failures lacks its time to live only while a worker stands *)
(* between INCR and EXPIRE, or because one was stopped there.              *)
CounterForgets ==
  \A a \in Accounts :
    failures[a] > 0 /\ ~expires[a] =>
      \/ a \in orphaned
      \/ \E w \in Workers : run[w].pc = "expiring" /\ Account(w) = a

(* Every generation ends: retries are bounded and nobody waits for ever    *)
(* for a usage row.                                                        *)
GenerationEnds == \A w \in Workers : run[w].pc \in Steps ~> run[w].pc = "idle"
================================================================================
