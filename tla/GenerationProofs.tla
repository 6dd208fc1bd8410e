---------------------------- MODULE GenerationProofs ----------------------------
(***************************************************************************)
(* What Generation keeps for any number of workers, accounts, retries,     *)
(* budgets and disturbances.  A worker that passed the check of the budget *)
(* stays in flight on that account until it is charged or gives up; what   *)
(* is charged and what is in flight together exceed the budget by less     *)
(* than one unit per worker.                                               *)
(***************************************************************************)
EXTENDS Generation, TLAPS, SequenceTheorems, FiniteSetTheorems

AtCandidate == {"asking", "clearing", "closing"} \cup Counting \cup Recording

RunOK(r, charges) ==
  /\ r.pc \in AtCandidate => r.left # <<>>
  /\ r.pc = "asking" => r.tries > 0
  /\ r.pc \in AtCandidate \ {"asking"} => r.kind # "moderate"
  /\ r.pc \in Recording => Budgeted(r.kind)
  /\ r.pc \in {"writing", "committing"} => r.read \in Nat /\ r.read <= charges[Head(r.left)]
  /\ r.pc = "ordering" => r.answers = 0
  /\ r.answers > 1 => r.redisFailed
  /\ r.pc \in {"choosing", "asking"} /\ r.answers > 0 => r.redisFailed
  /\ r.pc \in Counting \cup {"closing"} /\ r.answers > 0 => r.redisFailed \/ r.after # "continue"

RunsOK == \A w \in Workers : RunOK(run[w], charged)

Flies(r) == Budgeted(r.kind) /\ r.pc \in AtCandidate
InFlight(a) == {w \in Workers : Flies(run[w]) /\ Account(w) = a}

BudgetKept ==
  Budget > 0 => \A a \in Accounts \ raced :
    charged[a] + Cardinality(InFlight(a)) < Budget + Cardinality(Workers)

IInv == TypeOK /\ UsageIsCharged /\ CounterForgets /\ RunsOK /\ BudgetKept

(***************************************************************************)
(* Records                                                                 *)
(***************************************************************************)
LEMMA RouteIsTyped == \A kind \in Kinds : Route(kind) \in Seq(Seq(Accounts))
<1>1. TaskRoute \in Seq(Seq(Accounts))
  BY GenerationAssumption, SeqMonotonic
<1>2. OpenAI \in Seq(Accounts) /\ Gemini \in Seq(Accounts)
  BY GenerationAssumption
<1>3. <<OpenAI, Gemini>> \in Seq(Seq(Accounts)) /\ <<OpenAI>> \in Seq(Seq(Accounts))
  BY <1>2
<1> QED
  BY <1>1, <1>3 DEF Route

LEMMA IdleIsOK == /\ Idle \in Runs /\ ~Flies(Idle) /\ Idle.pc = "idle"
                  /\ \A charges : RunOK(Idle, charges)
BY DEF Idle, Runs, Kinds, NoRow, RunOK, Flies, AtCandidate, Counting, Recording

\* A generation that begins, on its own or after a transcription.
Beginning(kind, fallback) ==
  [Idle EXCEPT !.pc = "ordering", !.kind = kind, !.fallback = fallback, !.specs = Route(kind)]

LEMMA BeginningIsOK ==
  ASSUME NEW kind \in Kinds, NEW fallback \in BOOLEAN
  PROVE  /\ Beginning(kind, fallback) \in Runs /\ ~Flies(Beginning(kind, fallback))
         /\ Beginning(kind, fallback).pc = "ordering"
         /\ \A charges : RunOK(Beginning(kind, fallback), charges)
<1> DEFINE r == Beginning(kind, fallback)
<1>1. Route(kind) \in Seq(Seq(Accounts))
  BY RouteIsTyped
<1>2. r \in Runs
  BY <1>1, IdleIsOK DEF Beginning, Runs, Steps
<1>3. r.pc = "ordering" /\ r.answers = 0
  BY DEF Beginning, Idle
<1> HIDE DEF r
<1>4. \A charges : RunOK(r, charges)
  BY <1>3 DEF RunOK, AtCandidate, Counting, Recording
<1>5. ~Flies(r)
  BY <1>3 DEF Flies, AtCandidate, Counting, Recording
<1> QED
  BY <1>2, <1>3, <1>4, <1>5 DEF r

LEMMA AtAccount ==
  ASSUME IInv, NEW w \in Workers, run[w].pc \in AtCandidate
  PROVE  /\ run[w] \in Runs /\ RunOK(run[w], charged) /\ run[w].left # <<>>
         /\ Account(w) \in Accounts /\ Account(w) = Head(run[w].left)
         /\ Tail(run[w].left) \in Seq(Accounts)
<1>1. run[w] \in Runs /\ RunOK(run[w], charged)
  BY DEF IInv, TypeOK, RunsOK
<1>2. run[w].left \in Seq(Accounts) /\ run[w].left # <<>>
  BY <1>1 DEF Runs, RunOK
<1> QED
  BY <1>1, <1>2, HeadTailProperties DEF Account

(***************************************************************************)
(* What a step of one worker must show                                     *)
(***************************************************************************)
CircuitTyped ==
  /\ failures \in [Accounts -> Nat] /\ expires \in [Accounts -> BOOLEAN]
  /\ open \in [Accounts -> BOOLEAN] /\ orphaned \subseteq Accounts

CountersTyped == begun \in Nat /\ disturbances \in Nat /\ holder \in [Accounts -> Workers \cup {Nobody}]

\* Flights over the whole: who newly flies passed the check, so that the account was
\* below its budget.
LEMMA FlightsAreBounded ==
  ASSUME IInv, NEW w \in Workers, NEW r \in Runs, run' = [run EXCEPT ![w] = r],
         UNCHANGED <<charged, raced>>,
         Flies(r) => \/ Flies(run[w]) /\ Head(r.left) = Account(w)
                     \/ Head(r.left) \in raced
                     \/ charged[Head(r.left)] < Budget
                     \/ Budget = 0
  PROVE  BudgetKept'
<1> SUFFICES ASSUME Budget > 0, NEW a \in Accounts \ raced
             PROVE  charged[a] + Cardinality(InFlight(a)') < Budget + Cardinality(Workers)
  BY DEF BudgetKept
<1>0. /\ IsFiniteSet(Workers) /\ Cardinality(Workers) \in Nat /\ Budget \in Nat
      /\ charged[a] \in Nat
  BY GenerationAssumption, FS_CardinalityType DEF IInv, TypeOK
<1>1. InFlight(a) \subseteq Workers /\ InFlight(a)' \subseteq Workers
  BY DEF InFlight
<1>2. /\ IsFiniteSet(InFlight(a)) /\ Cardinality(InFlight(a)) \in Nat
      /\ IsFiniteSet(InFlight(a)') /\ Cardinality(InFlight(a)') \in Nat
      /\ Cardinality(InFlight(a)') <= Cardinality(Workers)
  BY <1>0, <1>1, FS_Subset, FS_CardinalityType
<1>3. charged[a] + Cardinality(InFlight(a)) < Budget + Cardinality(Workers)
  BY DEF IInv, BudgetKept
<1>4. \A v \in Workers \ {w} : v \in InFlight(a)' <=> v \in InFlight(a)
  BY DEF InFlight, Account, IInv, TypeOK
<1>5. w \in InFlight(a)' <=> Flies(r) /\ Head(r.left) = a
  BY DEF InFlight, Account, IInv, TypeOK
<1>6. CASE w \in InFlight(a)' /\ w \notin InFlight(a)
  <2>1. charged[a] < Budget
    BY <1>5, <1>6 DEF InFlight
  <2> QED
    BY <1>0, <1>2, <2>1
<1>7. CASE ~(w \in InFlight(a)' /\ w \notin InFlight(a))
  <2>1. InFlight(a)' \subseteq InFlight(a)
    BY <1>1, <1>4, <1>7
  <2>2. Cardinality(InFlight(a)') <= Cardinality(InFlight(a))
    BY <1>2, <2>1, FS_Subset
  <2> QED
    BY <1>0, <1>2, <1>3, <2>2
<1> QED
  BY <1>6, <1>7

\* A step that charges nothing.
LEMMA FreeStep ==
  ASSUME IInv, NEW w \in Workers, NEW r \in Runs, run' = [run EXCEPT ![w] = r],
         RunOK(r, charged), UNCHANGED <<usage, charged, raced>>,
         CircuitTyped', CountersTyped', CounterForgets',
         Flies(r) => \/ Flies(run[w]) /\ Head(r.left) = Account(w)
                     \/ Head(r.left) \in raced
                     \/ charged[Head(r.left)] < Budget
                     \/ Budget = 0
  PROVE  IInv'
<1>1. TypeOK'
  BY DEF IInv, TypeOK, CircuitTyped, CountersTyped
<1>2. RunsOK'
  <2>1. \A v \in Workers : run'[v] = IF v = w THEN r ELSE run[v]
    BY DEF IInv, TypeOK
  <2>2. \A v \in Workers : RunOK(run[v], charged)
    BY DEF IInv, RunsOK
  <2>3. \A v \in Workers : RunOK(run'[v], charged)
    BY <2>1, <2>2
  <2> QED
    BY <2>3 DEF RunsOK
<1> QED
  BY <1>1, <1>2, FlightsAreBounded DEF IInv, UsageIsCharged

\* The circuits stay as they are while no worker leaves the place between INCR and EXPIRE.
LEMMA CircuitsKept ==
  ASSUME IInv, NEW w \in Workers, NEW r, run' = [run EXCEPT ![w] = r],
         run[w].pc # "expiring", UNCHANGED <<failures, expires, open, orphaned>>
  PROVE  CircuitTyped' /\ CounterForgets'
<1>1. \A v \in Workers : run[v].pc = "expiring" => run'[v] = run[v]
  BY DEF IInv, TypeOK
<1>2. CounterForgets'
  BY <1>1 DEF IInv, CounterForgets, Account
<1> QED
  BY <1>2 DEF IInv, TypeOK, CircuitTyped

LEMMA Untouched ==
  ASSUME IInv, UNCHANGED <<begun, disturbances, holder>>
  PROVE  CountersTyped'
BY DEF IInv, TypeOK, CountersTyped

LEMMA DisturbedIsTyped ==
  ASSUME IInv, Disturbed, UNCHANGED begun,
         \/ UNCHANGED holder
         \/ \E w \in Workers : holder' = [a \in Accounts |-> IF holder[a] = w THEN Nobody ELSE holder[a]]
  PROVE  CountersTyped'
BY DEF IInv, TypeOK, Disturbed, CountersTyped

\* A call that returns, or goes on as the generation that cleans a transcript up.
LEMMA LeavingRecord ==
  ASSUME IInv, NEW w \in Workers, End(w) \/ LeaveLoop(w) \/ LeaveTranscription(w)
  PROVE  \E r \in Runs : /\ run' = [run EXCEPT ![w] = r] /\ ~Flies(r) /\ r.pc # "expiring"
                         /\ \A charges : RunOK(r, charges)
<1>1. CASE End(w)
  <2>1. run' = [run EXCEPT ![w] = Idle]
    BY <1>1 DEF End
  <2>2. Idle.pc # "expiring"
    BY DEF Idle
  <2> QED
    BY <2>1, <2>2, IdleIsOK
<1>2. CASE run' = [run EXCEPT ![w] = [Idle EXCEPT !.pc = "ordering", !.kind = "generate",
                                                   !.fallback = run[w].fallback, !.specs = Route("generate")]]
  <2> DEFINE r == Beginning("generate", run[w].fallback)
  <2>1. run[w].fallback \in BOOLEAN /\ "generate" \in Kinds
    BY DEF IInv, TypeOK, Runs, Kinds
  <2>2. run' = [run EXCEPT ![w] = r]
    BY <1>2 DEF Beginning
  <2>3. /\ r \in Runs /\ ~Flies(r) /\ r.pc = "ordering" /\ \A charges : RunOK(r, charges)
    BY <2>1, BeginningIsOK
  <2> HIDE DEF r
  <2> QED
    BY <2>2, <2>3
<1> QED
  BY <1>1, <1>2 DEF LeaveLoop, LeaveTranscription

\* A step that ends a call without charging it.
LEMMA Leaving ==
  ASSUME IInv, NEW w \in Workers, End(w) \/ LeaveLoop(w) \/ LeaveTranscription(w),
         UNCHANGED <<usage, charged, raced>>, CountersTyped',
         (CircuitTyped' /\ CounterForgets') \/
           (run[w].pc # "expiring" /\ UNCHANGED <<failures, expires, open, orphaned>>)
  PROVE  IInv'
<1>1. PICK r \in Runs : /\ run' = [run EXCEPT ![w] = r] /\ ~Flies(r) /\ r.pc # "expiring"
                        /\ \A charges : RunOK(r, charges)
  BY LeavingRecord
<1>2. CircuitTyped' /\ CounterForgets'
  BY <1>1, CircuitsKept
<1> QED
  BY <1>1, <1>2, FreeStep

(***************************************************************************)
(* Routing and the loop                                                    *)
(***************************************************************************)
LEMMA StartIsSafe ==
  ASSUME IInv, NEW w \in Workers, NEW kind \in Kinds, NEW fallback \in BOOLEAN,
         Start(w, kind, fallback)
  PROVE  IInv'
<1> DEFINE r == Beginning(kind, fallback)
<1>1. r \in Runs /\ ~Flies(r) /\ RunOK(r, charged)
  BY BeginningIsOK
<1>2. run' = [run EXCEPT ![w] = r]
  BY DEF Start, Beginning
<1>3. CountersTyped'
  BY DEF Start, CountersTyped, IInv, TypeOK
<1> HIDE DEF r
<1>4. CircuitTyped' /\ CounterForgets'
  BY <1>2, CircuitsKept DEF Start
<1> QED
  BY <1>1, <1>2, <1>3, <1>4, FreeStep DEF Start

LEMMA ConsiderIsSafe ==
  ASSUME IInv, NEW w \in Workers, ConsiderProvider(w)
  PROVE  IInv'
<1>0. run[w] \in Runs /\ RunOK(run[w], charged) /\ run[w].pc = "ordering" /\ run[w].specs # <<>>
  BY DEF ConsiderProvider, IInv, TypeOK, RunsOK
<1>1. Head(run[w].specs) \in Seq(Accounts) /\ Tail(run[w].specs) \in Seq(Seq(Accounts))
  BY <1>0, HeadTailProperties DEF Runs
<1>2. Selectable(Head(run[w].specs)) \subseteq Accounts
  BY <1>1 DEF Selectable
<1>3. PICK chosen : /\ chosen = <<>> \/ \E a \in Selectable(Head(run[w].specs)) : chosen = <<a>>
                    /\ run' = [run EXCEPT ![w].specs = Tail(@), ![w].left = @ \o chosen]
  BY DEF ConsiderProvider
<1>4. chosen \in Seq(Accounts)
  <2>1. CASE chosen = <<>>
    BY <2>1
  <2>2. ASSUME NEW a \in Accounts, chosen = <<a>>
        PROVE  chosen \in Seq(Accounts)
    BY <2>2
  <2> QED
    BY <1>2, <1>3, <2>1, <2>2
<1> DEFINE left == run[w].left \o chosen
           r == [run[w] EXCEPT !.specs = Tail(@), !.left = left]
<1>5. left \in Seq(Accounts)
  BY <1>0, <1>4, ConcatProperties DEF Runs
<1>6. run' = [run EXCEPT ![w] = r]
  BY <1>3
<1> HIDE DEF left
<1>7. r \in Runs /\ r.pc = "ordering" /\ r.answers = run[w].answers
  BY <1>0, <1>1, <1>5 DEF Runs
<1> HIDE DEF r
<1>8. RunOK(r, charged) /\ ~Flies(r)
  BY <1>0, <1>7 DEF RunOK, Flies, AtCandidate, Counting, Recording
<1>9. UNCHANGED <<failures, expires, open, orphaned, usage, holder, charged, raced, begun, disturbances>>
  BY DEF ConsiderProvider
<1>10. CircuitTyped' /\ CounterForgets'
  BY <1>0, <1>6, <1>9, CircuitsKept
<1> QED
  BY <1>6, <1>7, <1>8, <1>9, <1>10, Untouched, FreeStep

LEMMA OrderIsSafe ==
  ASSUME IInv, NEW w \in Workers, OrderCandidates(w)
  PROVE  IInv'
<1>0. run[w] \in Runs /\ RunOK(run[w], charged) /\ run[w].pc = "ordering"
  BY DEF OrderCandidates, IInv, TypeOK, RunsOK
<1>1. UNCHANGED <<failures, expires, open, orphaned, usage, holder, charged, raced, begun, disturbances>>
  BY DEF OrderCandidates
<1>2. CASE End(w)
  BY <1>0, <1>1, <1>2, Untouched, Leaving
<1>3. CASE run[w].left # <<>> /\ ~End(w)
  <2> DEFINE left == IF run[w].fallback THEN run[w].left ELSE <<Head(run[w].left)>>
             r == [run[w] EXCEPT !.pc = "choosing", !.left = left]
  <2>1. left \in Seq(Accounts)
    BY <1>0, <1>3, HeadTailProperties DEF Runs
  <2>2. run' = [run EXCEPT ![w] = r]
    BY <1>3 DEF OrderCandidates
  <2> HIDE DEF left
  <2>3. r \in Runs /\ r.pc = "choosing" /\ r.answers = run[w].answers
    BY <1>0, <2>1 DEF Runs, Steps
  <2> HIDE DEF r
  <2>4. RunOK(r, charged) /\ ~Flies(r)
    BY <1>0, <2>3 DEF RunOK, Flies, AtCandidate, Counting, Recording
  <2>5. CircuitTyped' /\ CounterForgets'
    BY <1>0, <1>1, <2>2, CircuitsKept
  <2> QED
    BY <1>1, <2>2, <2>3, <2>4, <2>5, Untouched, FreeStep
<1> QED
  BY <1>2, <1>3 DEF OrderCandidates

\* Who passes the check finds the account below its budget, or its sums raced.
LEMMA CheckPassed ==
  ASSUME IInv, NEW a \in Accounts, HasBudget(a), Budget # 0
  PROVE  a \in raced \/ charged[a] < Budget
<1>1. Budget \in Nat /\ Budget > 0 /\ usage[a] < Budget
  BY GenerationAssumption DEF HasBudget
<1>2. usage[a] \in Nat \cup {-1} /\ charged[a] \in Nat
  BY DEF IInv, TypeOK, NoRow
<1>3. a \notin raced => charged[a] <= usage[a] \/ charged[a] = 0
  BY DEF IInv, UsageIsCharged
<1> QED
  BY <1>1, <1>2, <1>3

LEMMA NextCandidateIsSafe ==
  ASSUME IInv, NEW w \in Workers, NextCandidate(w)
  PROVE  IInv'
<1>0. run[w] \in Runs /\ RunOK(run[w], charged) /\ run[w].pc = "choosing" /\ run[w].left # <<>>
  BY DEF NextCandidate, IInv, TypeOK, RunsOK
<1>1. UNCHANGED <<failures, expires, open, orphaned, usage, holder, charged, raced, begun, disturbances>>
  BY DEF NextCandidate
<1>2. Head(run[w].left) \in Accounts /\ Tail(run[w].left) \in Seq(Accounts)
  BY <1>0, HeadTailProperties DEF Runs
<1>3. CASE /\ Budgeted(run[w].kind) => HasBudget(Account(w))
           /\ run' = [run EXCEPT ![w].pc = "asking", ![w].tries = Tries(run[w].kind)]
  <2> DEFINE r == [run[w] EXCEPT !.pc = "asking", !.tries = Tries(run[w].kind)]
  <2>1. Tries(run[w].kind) \in Nat /\ Tries(run[w].kind) > 0
    BY GenerationAssumption DEF Tries
  <2>2. /\ r \in Runs /\ r.pc = "asking" /\ r.tries > 0 /\ r.left = run[w].left
        /\ r.answers = run[w].answers /\ r.redisFailed = run[w].redisFailed /\ r.kind = run[w].kind
    BY <1>0, <2>1 DEF Runs, Steps
  <2>3. run' = [run EXCEPT ![w] = r]
    BY <1>3
  <2> HIDE DEF r
  <2>4. RunOK(r, charged)
    BY <1>0, <2>2 DEF RunOK, AtCandidate, Counting, Recording
  <2>5. Flies(r) => Head(r.left) \in raced \/ charged[Head(r.left)] < Budget \/ Budget = 0
    BY <1>2, <1>3, <2>2, CheckPassed DEF Flies, Account
  <2>6. CircuitTyped' /\ CounterForgets'
    BY <1>0, <1>1, <2>3, CircuitsKept
  <2> QED
    BY <1>1, <2>2, <2>3, <2>4, <2>5, <2>6, Untouched, FreeStep
<1>4. CASE run' = [run EXCEPT ![w].left = Tail(@)]
  <2> DEFINE left == Tail(run[w].left)
             r == [run[w] EXCEPT !.left = left]
  <2>1. run' = [run EXCEPT ![w] = r]
    BY <1>4
  <2>2. left \in Seq(Accounts)
    BY <1>2
  <2> HIDE DEF left
  <2>3. /\ r \in Runs /\ r.pc = "choosing" /\ r.answers = run[w].answers
        /\ r.redisFailed = run[w].redisFailed
    BY <1>0, <2>2 DEF Runs
  <2> HIDE DEF r
  <2>4. RunOK(r, charged) /\ ~Flies(r)
    BY <1>0, <2>3 DEF RunOK, Flies, AtCandidate, Counting, Recording
  <2>5. CircuitTyped' /\ CounterForgets'
    BY <1>0, <1>1, <2>1, CircuitsKept
  <2> QED
    BY <1>1, <2>1, <2>3, <2>4, <2>5, Untouched, FreeStep
<1> QED
  BY <1>3, <1>4 DEF NextCandidate

LEMMA AskIsSafe ==
  ASSUME IInv, NEW w \in Workers, NEW reply \in Replies, Ask(w, reply)
  PROVE  IInv'
<1> DEFINE verdict == Verdict(run[w].kind, Account(w), reply)
           pc == AfterVerdict(run[w], verdict)
           after == IF Continues(run[w], verdict) THEN "continue" ELSE "raise"
           answers == IF verdict = "answer" THEN run[w].answers + 1 ELSE run[w].answers
           r == [run[w] EXCEPT !.pc = pc, !.after = after, !.tries = @ - 1, !.asked = @ + 1,
                               !.answers = answers]
<1>0. run[w].pc = "asking" /\ run[w].kind # "moderate" /\ "asking" \in AtCandidate
  BY DEF Ask, AtCandidate
<1>1. /\ run[w] \in Runs /\ RunOK(run[w], charged) /\ run[w].left # <<>>
      /\ Account(w) = Head(run[w].left)
  BY <1>0, AtAccount
<1>2. run[w].tries - 1 \in Nat /\ run[w].asked + 1 \in Nat
  BY <1>0, <1>1 DEF Runs, RunOK
<1>3. pc \in {"clearing", "counting", "closing"} /\ (pc = "clearing" <=> verdict = "answer")
  BY DEF AfterVerdict
<1>4. run' = [run EXCEPT ![w] = r]
  BY DEF Ask
<1> HIDE DEF verdict, pc
<1>5. after \in {"continue", "raise", "broken"} /\ answers \in Nat
  BY <1>1 DEF Runs
<1>6. /\ r \in Runs /\ r.pc = pc /\ r.left = run[w].left /\ r.kind = run[w].kind
      /\ r.answers = answers /\ r.redisFailed = run[w].redisFailed
  <2> HIDE DEF after, answers
  <2> QED
    BY <1>1, <1>2, <1>3, <1>5 DEF Runs, Steps, Counting
<1> HIDE DEF r
<1>7. RunOK(r, charged)
  BY <1>0, <1>1, <1>3, <1>6 DEF RunOK, AtCandidate, Counting, Recording, Runs
<1>8. Flies(r) => Flies(run[w]) /\ Head(r.left) = Account(w)
  BY <1>0, <1>1, <1>6 DEF Flies
<1>9. UNCHANGED <<failures, expires, open, orphaned, usage, holder, charged, raced, begun, disturbances>>
  BY DEF Ask
<1>10. CircuitTyped' /\ CounterForgets'
  BY <1>0, <1>4, <1>9, CircuitsKept
<1> QED
  BY <1>4, <1>6, <1>7, <1>8, <1>9, <1>10, Untouched, FreeStep
\* A step that leaves the circuits, the charges and the candidate alone.
LEMMA Staying ==
  ASSUME IInv, NEW w \in Workers, NEW r \in Runs, run' = [run EXCEPT ![w] = r],
         RunOK(r, charged), run[w].pc \in AtCandidate \ {"expiring"},
         r.left = run[w].left, r.kind = run[w].kind,
         UNCHANGED <<failures, expires, open, orphaned, usage, charged, raced>>, CountersTyped'
  PROVE  IInv'
<1>1. CircuitTyped' /\ CounterForgets'
  BY CircuitsKept
<1>2. Flies(r) => Flies(run[w]) /\ Head(r.left) = Account(w)
  BY DEF Flies, Account
<1> QED
  BY <1>1, <1>2, FreeStep

LEMMA NoneLeftIsSafe ==
  ASSUME IInv, NEW w \in Workers, NoneLeft(w)
  PROVE  IInv'
BY Leaving, Untouched DEF NoneLeft

LEMMA ModerateIsSafe ==
  ASSUME IInv, NEW w \in Workers, Moderate(w)
  PROVE  IInv'
BY Leaving, Untouched DEF Moderate

(***************************************************************************)
(* Recording a success                                                     *)
(***************************************************************************)
LEMMA RecordSuccessIsSafe ==
  ASSUME IInv, NEW w \in Workers, RecordSuccess(w)
  PROVE  IInv'
<1>0. run[w].pc = "clearing" /\ run[w].pc \in AtCandidate
  BY DEF RecordSuccess, AtCandidate
<1>1. /\ run[w] \in Runs /\ RunOK(run[w], charged) /\ run[w].left # <<>>
      /\ Account(w) \in Accounts /\ Account(w) = Head(run[w].left)
  BY <1>0, AtAccount
<1>2. CircuitTyped'
  BY <1>1 DEF RecordSuccess, CircuitTyped, IInv, TypeOK
<1>3. ASSUME NEW r, run' = [run EXCEPT ![w] = r], r.pc # "expiring"
      PROVE  CounterForgets'
  <2>1. \A v \in Workers : run[v].pc = "expiring" => run'[v] = run[v]
    BY <1>0, <1>3 DEF IInv, TypeOK
  <2>2. SUFFICES ASSUME NEW a \in Accounts, failures'[a] > 0, ~expires'[a]
                 PROVE  \/ a \in orphaned'
                        \/ \E v \in Workers : run'[v].pc = "expiring" /\ Account(v)' = a
    BY DEF CounterForgets
  <2>3. a # Account(w) /\ failures'[a] = failures[a] /\ expires'[a] = expires[a]
    <3>1. /\ failures \in [Accounts -> Nat] /\ expires \in [Accounts -> BOOLEAN]
          /\ failures' = [failures EXCEPT ![Account(w)] = 0]
          /\ expires' = [expires EXCEPT ![Account(w)] = FALSE]
      BY DEF RecordSuccess, IInv, TypeOK
    <3>2. a # Account(w)
      BY <1>1, <2>2, <3>1
    <3> QED
      BY <3>1, <3>2
  <2>4. a \in orphaned \/ \E v \in Workers : run[v].pc = "expiring" /\ Account(v) = a
    BY <2>2, <2>3 DEF IInv, CounterForgets
  <2> QED
    BY <2>1, <2>3, <2>4 DEF RecordSuccess, Account
<1>4. CountersTyped'
  BY Untouched DEF RecordSuccess
<1>5. CASE End(w)
  <2>1. CounterForgets'
    <3>1. Idle.pc # "expiring"
      BY DEF Idle
    <3> QED
      BY <1>3, <1>5, <3>1 DEF End
  <2> QED
    BY <1>2, <1>4, <1>5, <2>1, Leaving DEF RecordSuccess
<1>6. CASE run[w].kind # "embed" /\ Goto(w, "reading")
  <2> DEFINE r == [run[w] EXCEPT !.pc = "reading"]
  <2>1. run' = [run EXCEPT ![w] = r]
    BY <1>6 DEF Goto
  <2>2. /\ r \in Runs /\ r.pc = "reading" /\ r.left = run[w].left /\ r.kind = run[w].kind
        /\ r.answers = run[w].answers /\ r.redisFailed = run[w].redisFailed
    BY <1>1 DEF Runs, Steps, Recording
  <2> HIDE DEF r
  <2>3. Budgeted(run[w].kind)
    BY <1>0, <1>1, <1>6 DEF Runs, Kinds, RunOK, Budgeted
  <2>4. RunOK(r, charged)
    BY <1>0, <1>1, <2>2, <2>3 DEF RunOK, AtCandidate, Counting, Recording
  <2>5. Flies(r) => Flies(run[w]) /\ Head(r.left) = Account(w)
    BY <1>0, <1>1, <2>2 DEF Flies
  <2>6. CounterForgets'
    BY <1>3, <2>1, <2>2
  <2> QED
    BY <1>2, <1>4, <2>1, <2>2, <2>4, <2>5, <2>6, FreeStep DEF RecordSuccess
<1> QED
  BY <1>5, <1>6 DEF RecordSuccess

LEMMA RecordSuccessFailsIsSafe ==
  ASSUME IInv, NEW w \in Workers, RecordSuccessFails(w)
  PROVE  IInv'
<1> DEFINE after == IF run[w].fallback THEN "continue" ELSE "raise"
           r == [run[w] EXCEPT !.pc = "counting", !.redisFailed = TRUE, !.after = after]
<1>0. run[w].pc = "clearing" /\ run[w].pc \in AtCandidate \ {"expiring"}
  BY DEF RecordSuccessFails, AtCandidate
<1>1. run[w] \in Runs /\ RunOK(run[w], charged) /\ run[w].left # <<>>
  BY <1>0, AtAccount
<1>2. run' = [run EXCEPT ![w] = r]
  BY DEF RecordSuccessFails
<1>3. /\ r \in Runs /\ r.pc = "counting" /\ r.left = run[w].left /\ r.kind = run[w].kind
      /\ r.redisFailed
  BY <1>1 DEF Runs, Steps, Counting
<1> HIDE DEF r
<1>4. RunOK(r, charged)
  BY <1>0, <1>1, <1>3 DEF RunOK, AtCandidate, Counting, Recording
<1> QED
  BY <1>0, <1>2, <1>3, <1>4, Staying, DisturbedIsTyped DEF RecordSuccessFails

LEMMA ReadUsageIsSafe ==
  ASSUME IInv, NEW w \in Workers, ReadUsage(w)
  PROVE  IInv'
<1> DEFINE row == usage[Account(w)]
           pc == IF row = NoRow THEN "inserting" ELSE "writing"
           r == [run[w] EXCEPT !.read = row, !.pc = pc]
<1>0. run[w].pc = "reading" /\ run[w].pc \in AtCandidate \ {"expiring"}
  BY DEF ReadUsage, AtCandidate, Recording
<1>1. /\ run[w] \in Runs /\ RunOK(run[w], charged) /\ run[w].left # <<>>
      /\ Account(w) \in Accounts /\ Account(w) = Head(run[w].left)
  BY <1>0, AtAccount
<1>2. run' = [run EXCEPT ![w] = r]
  BY DEF ReadUsage
<1>3. row \in Nat \cup {NoRow} /\ row <= charged[Head(run[w].left)]
  BY <1>1 DEF IInv, TypeOK, UsageIsCharged
<1>4. pc \in {"inserting", "writing"} /\ (pc = "writing" => row \in Nat)
  BY <1>3
<1> HIDE DEF row, pc
<1>5. /\ r \in Runs /\ r.pc = pc /\ r.read = row /\ r.left = run[w].left /\ r.kind = run[w].kind
      /\ r.answers = run[w].answers /\ r.redisFailed = run[w].redisFailed
  BY <1>1, <1>3, <1>4 DEF Runs, Steps, Recording
<1> HIDE DEF r
<1>6. RunOK(r, charged)
  BY <1>0, <1>1, <1>3, <1>4, <1>5 DEF RunOK, AtCandidate, Counting, Recording
<1> QED
  BY <1>0, <1>2, <1>5, <1>6, Staying, Untouched DEF ReadUsage

LEMMA SessionBrokenIsSafe ==
  ASSUME IInv, NEW w \in Workers, run[w].pc \in Recording, SessionBroken(w), CountersTyped'
  PROVE  IInv'
<1> DEFINE r == [run[w] EXCEPT !.after = "broken", !.read = NoRow, !.pc = "counting"]
<1>0. run[w].pc \in AtCandidate \ {"expiring"} /\ run[w].pc # "expiring"
  BY DEF AtCandidate, Recording
<1>1. run[w] \in Runs /\ RunOK(run[w], charged) /\ run[w].left # <<>>
  BY <1>0, AtAccount
<1>2. CASE End(w)
  BY <1>0, <1>2, Leaving DEF SessionBroken
<1>3. CASE run' = [run EXCEPT ![w] = r]
  <2>1. /\ r \in Runs /\ r.pc = "counting" /\ r.left = run[w].left /\ r.kind = run[w].kind
        /\ r.answers = run[w].answers /\ r.redisFailed = run[w].redisFailed /\ r.after = "broken"
    BY <1>1 DEF Runs, Steps, Counting
  <2> HIDE DEF r
  <2>2. RunOK(r, charged)
    BY <1>0, <1>1, <2>1 DEF RunOK, AtCandidate, Counting, Recording, Budgeted
  <2> QED
    BY <1>0, <1>3, <2>1, <2>2, Staying DEF SessionBroken
<1> QED
  BY <1>2, <1>3 DEF SessionBroken

LEMMA InsertUsageIsSafe ==
  ASSUME IInv, NEW w \in Workers, InsertUsage(w)
  PROVE  IInv'
<1> DEFINE r == [run[w] EXCEPT !.read = 0, !.pc = "writing"]
<1>0. /\ run[w].pc = "inserting" /\ run[w].pc \in AtCandidate \ {"expiring"}
      /\ run[w].pc \in Recording
  BY DEF InsertUsage, AtCandidate, Recording
<1>1. /\ run[w] \in Runs /\ RunOK(run[w], charged) /\ run[w].left # <<>>
      /\ Account(w) \in Accounts /\ Account(w) = Head(run[w].left)
  BY <1>0, AtAccount
<1>2. CASE SessionBroken(w) /\ UNCHANGED disturbances
  <2>1. CountersTyped'
    BY <1>2 DEF SessionBroken, CountersTyped, IInv, TypeOK
  <2> QED
    BY <1>0, <1>2, <2>1, SessionBrokenIsSafe
<1>3. CASE /\ holder' = [holder EXCEPT ![Account(w)] = w]
           /\ run' = [run EXCEPT ![w].read = 0, ![w].pc = "writing"]
           /\ UNCHANGED <<failures, expires, open, orphaned, usage, charged, raced, begun, disturbances>>
  <2>1. run' = [run EXCEPT ![w] = r]
    BY <1>3
  <2>2. /\ r \in Runs /\ r.pc = "writing" /\ r.read = 0 /\ r.left = run[w].left
        /\ r.kind = run[w].kind
        /\ r.answers = run[w].answers /\ r.redisFailed = run[w].redisFailed
    BY <1>1 DEF Runs, Steps, Recording
  <2> HIDE DEF r
  <2>3. charged[Head(run[w].left)] \in Nat
    BY <1>1 DEF IInv, TypeOK
  <2>4. RunOK(r, charged)
    BY <1>0, <1>1, <2>2, <2>3 DEF RunOK, AtCandidate, Counting, Recording
  <2>5. CountersTyped'
    BY <1>1, <1>3 DEF CountersTyped, IInv, TypeOK
  <2> QED
    BY <1>0, <1>3, <2>1, <2>2, <2>4, <2>5, Staying
<1> QED
  BY <1>2, <1>3 DEF InsertUsage

LEMMA WriteUsageIsSafe ==
  ASSUME IInv, NEW w \in Workers, WriteUsage(w)
  PROVE  IInv'
<1> DEFINE r == [run[w] EXCEPT !.pc = "committing"]
<1>0. run[w].pc = "writing" /\ run[w].pc \in AtCandidate \ {"expiring"}
  BY DEF WriteUsage, AtCandidate, Recording
<1>1. /\ run[w] \in Runs /\ RunOK(run[w], charged) /\ run[w].left # <<>>
      /\ Account(w) \in Accounts
  BY <1>0, AtAccount
<1>2. run' = [run EXCEPT ![w] = r]
  BY DEF WriteUsage, Goto
<1>3. /\ r \in Runs /\ r.pc = "committing" /\ r.read = run[w].read /\ r.left = run[w].left
      /\ r.kind = run[w].kind /\ r.answers = run[w].answers /\ r.redisFailed = run[w].redisFailed
  BY <1>1 DEF Runs, Steps, Recording
<1> HIDE DEF r
<1>4. RunOK(r, charged)
  BY <1>0, <1>1, <1>3 DEF RunOK, AtCandidate, Counting, Recording
<1>5. CountersTyped'
  BY <1>1 DEF WriteUsage, CountersTyped, IInv, TypeOK
<1> QED
  BY <1>0, <1>2, <1>3, <1>4, <1>5, Staying DEF WriteUsage
\* Whoever is charged leaves the flight, so that what is charged and in flight
\* together does not grow.
LEMMA ChargedFlight ==
  ASSUME IInv, NEW w \in Workers, NEW r \in Runs, ~Flies(r), run' = [run EXCEPT ![w] = r],
         Flies(run[w]), NEW cost \in 0..1,
         charged' = [charged EXCEPT ![Account(w)] = @ + cost], raced \subseteq raced',
         Account(w) \in Accounts
  PROVE  BudgetKept'
<1> SUFFICES ASSUME Budget > 0, NEW a \in Accounts \ raced'
             PROVE  charged'[a] + Cardinality(InFlight(a)') < Budget + Cardinality(Workers)
  BY DEF BudgetKept
<1>0. /\ IsFiniteSet(Workers) /\ Cardinality(Workers) \in Nat /\ Budget \in Nat
      /\ charged[a] \in Nat /\ charged \in [Accounts -> Nat]
  BY GenerationAssumption, FS_CardinalityType DEF IInv, TypeOK
<1>1. InFlight(a) \subseteq Workers
  BY DEF InFlight
<1>2. /\ IsFiniteSet(InFlight(a)) /\ Cardinality(InFlight(a)) \in Nat
  BY <1>0, <1>1, FS_Subset, FS_CardinalityType
<1>3. charged[a] + Cardinality(InFlight(a)) < Budget + Cardinality(Workers)
  BY DEF IInv, BudgetKept
<1>4. InFlight(a)' = InFlight(a) \ {w}
  <2>1. \A v \in Workers : run'[v] = IF v = w THEN r ELSE run[v]
    BY DEF IInv, TypeOK
  <2> QED
    BY <2>1 DEF InFlight, Account
<1>5. CASE Account(w) = a
  <2>1. w \in InFlight(a)
    BY <1>5 DEF InFlight
  <2>2. Cardinality(InFlight(a)') = Cardinality(InFlight(a)) - 1
    BY <1>2, <1>4, <2>1, FS_RemoveElement
  <2>3. charged'[a] = charged[a] + cost
    BY <1>0, <1>5
  <2> QED
    BY <1>0, <1>2, <1>3, <2>2, <2>3
<1>6. CASE Account(w) # a
  <2>1. w \notin InFlight(a)
    BY <1>6 DEF InFlight
  <2>2. charged'[a] = charged[a]
    BY <1>0, <1>6
  <2> QED
    BY <1>3, <1>4, <2>1, <2>2
<1> QED
  BY <1>5, <1>6

LEMMA CommitIsSafe ==
  ASSUME IInv, NEW w \in Workers, Commit(w)
  PROVE  IInv'
<1> DEFINE here == Account(w)
           cost == Cost(run[w].kind)
<1>0. /\ run[w].pc = "committing" /\ run[w].pc \in AtCandidate /\ run[w].pc \in Recording
      /\ run[w].pc # "expiring"
  BY DEF Commit, AtCandidate, Recording
<1>1. /\ run[w] \in Runs /\ RunOK(run[w], charged) /\ here \in Accounts
      /\ here = Head(run[w].left)
  BY <1>0, AtAccount
<1>2. run[w].read \in Nat /\ run[w].read <= charged[here] /\ Budgeted(run[w].kind)
  BY <1>0, <1>1 DEF RunOK
<1>3. cost \in 0..1
  BY DEF Cost
<1>4. /\ usage' = [usage EXCEPT ![here] = run[w].read + cost]
      /\ charged' = [charged EXCEPT ![here] = @ + cost]
      /\ holder' = [holder EXCEPT ![here] = Nobody]
      /\ raced' = IF usage[here] \in {run[w].read, NoRow} THEN raced ELSE raced \cup {here}
      /\ UNCHANGED <<failures, expires, open, orphaned, begun, disturbances>>
  BY DEF Commit
<1>5. PICK r \in Runs : /\ run' = [run EXCEPT ![w] = r] /\ ~Flies(r) /\ r.pc # "expiring"
                        /\ \A charges : RunOK(r, charges)
  BY LeavingRecord DEF Commit
<1> HIDE DEF here, cost
<1>6. /\ usage \in [Accounts -> Nat \cup {NoRow}] /\ charged \in [Accounts -> Nat]
      /\ holder \in [Accounts -> Workers \cup {Nobody}] /\ run \in [Workers -> Runs]
      /\ raced \subseteq Accounts
  BY DEF IInv, TypeOK
<1>7. CircuitTyped' /\ CounterForgets'
  BY <1>0, <1>4, <1>5, CircuitsKept
<1>8. TypeOK'
  <2>1. run[w].read + cost \in Nat /\ charged[here] + cost \in Nat
    BY <1>1, <1>2, <1>3, <1>6
  <2>2. usage' \in [Accounts -> Nat \cup {NoRow}] /\ charged' \in [Accounts -> Nat]
    BY <1>4, <1>6, <2>1
  <2>3. holder' \in [Accounts -> Workers \cup {Nobody}] /\ run' \in [Workers -> Runs]
    BY <1>4, <1>5, <1>6
  <2>4. raced' \subseteq Accounts /\ begun' \in Nat /\ disturbances' \in Nat
    BY <1>1, <1>4, <1>6 DEF IInv, TypeOK
  <2> QED
    BY <1>7, <2>2, <2>3, <2>4 DEF TypeOK, CircuitTyped
<1>9. UsageIsCharged'
  <2>1. \A a \in Accounts : /\ usage[a] <= charged[a]
                            /\ a \notin raced => charged[a] <= usage[a] \/ charged[a] = 0
    BY DEF IInv, UsageIsCharged
  <2>2. ASSUME NEW a \in Accounts, a # here
        PROVE  usage'[a] = usage[a] /\ charged'[a] = charged[a] /\ (a \in raced' <=> a \in raced)
    BY <1>4, <1>6, <2>2
  <2>3. usage'[here] = run[w].read + cost /\ charged'[here] = charged[here] + cost
    BY <1>1, <1>4, <1>6
  <2>4. here \notin raced' =>
          here \notin raced /\ (usage[here] = run[w].read \/ usage[here] = -1)
    BY <1>4 DEF NoRow
  <2>5. usage'[here] <= charged'[here]
    BY <1>1, <1>2, <1>3, <1>6, <2>3
  <2>6. here \notin raced' => charged'[here] <= usage'[here]
    <3>1. charged[here] \in Nat
      BY <1>1, <1>6
    <3>2. here \notin raced' => charged[here] <= run[w].read
      BY <1>1, <1>2, <2>1, <2>4, <3>1
    <3> QED
      BY <1>2, <1>3, <2>3, <3>1, <3>2
  <2> QED
    BY <2>1, <2>2, <2>5, <2>6 DEF UsageIsCharged
<1>10. RunsOK'
  <2>1. \A a \in Accounts : charged[a] \in Nat /\ charged'[a] \in Nat /\ charged[a] <= charged'[a]
    BY <1>3, <1>4, <1>6
  <2>2. \A v \in Workers : run'[v] = IF v = w THEN r ELSE run[v]
    BY <1>5, <1>6
  <2>3. ASSUME NEW v \in Workers \ {w}
        PROVE  RunOK(run[v], charged')
    <3>1. RunOK(run[v], charged) /\ run[v] \in Runs
      BY DEF IInv, RunsOK, TypeOK
    <3>2. run[v].pc \in {"writing", "committing"} => Head(run[v].left) \in Accounts
      BY AtAccount DEF AtCandidate, Recording
    <3>3. run[v].pc \in {"writing", "committing"} =>
            run[v].read \in Nat /\ run[v].read <= charged'[Head(run[v].left)]
      BY <2>1, <3>1, <3>2 DEF RunOK
    <3> QED
      BY <3>1, <3>3 DEF RunOK
  <2>4. RunOK(r, charged')
    BY <1>5
  <2>5. \A v \in Workers : RunOK(run'[v], charged')
    BY <2>2, <2>3, <2>4
  <2> QED
    BY <2>5 DEF RunsOK
<1>11. BudgetKept'
  <2>1. Flies(run[w])
    BY <1>0, <1>2 DEF Flies
  <2>2. raced \subseteq raced'
    BY <1>4
  <2> QED
    BY <1>1, <1>3, <1>4, <1>5, <2>1, <2>2, ChargedFlight DEF here
<1> QED
  BY <1>7, <1>8, <1>9, <1>10, <1>11 DEF IInv

LEMMA DatabaseFailsIsSafe ==
  ASSUME IInv, NEW w \in Workers, DatabaseFails(w)
  PROVE  IInv'
<1>1. CountersTyped'
  BY DisturbedIsTyped DEF DatabaseFails, SessionBroken
<1> QED
  BY <1>1, SessionBrokenIsSafe DEF DatabaseFails
(***************************************************************************)
(* Recording a failure                                                     *)
(***************************************************************************)
LEMMA CountIsSafe ==
  ASSUME IInv, NEW w \in Workers, Count(w)
  PROVE  IInv'
<1> DEFINE here == Account(w)
           seen == failures[Account(w)] + 1
           r == [run[w] EXCEPT !.pc = "expiring", !.seen = seen]
<1>0. run[w].pc = "counting" /\ run[w].pc \in AtCandidate
  BY DEF Count, AtCandidate, Counting
<1>1. /\ run[w] \in Runs /\ RunOK(run[w], charged) /\ here \in Accounts
      /\ here = Head(run[w].left)
  BY <1>0, AtAccount
<1>2. failures \in [Accounts -> Nat] /\ seen \in Nat /\ run \in [Workers -> Runs]
  BY <1>1 DEF IInv, TypeOK
<1>3. run' = [run EXCEPT ![w] = r] /\ failures' = [failures EXCEPT ![here] = seen]
  BY DEF Count
<1> HIDE DEF here, seen
<1>4. /\ r \in Runs /\ r.pc = "expiring" /\ r.left = run[w].left /\ r.kind = run[w].kind
      /\ r.answers = run[w].answers /\ r.redisFailed = run[w].redisFailed /\ r.after = run[w].after
  BY <1>1, <1>2 DEF Runs, Steps, Counting
<1> HIDE DEF r
<1>5. RunOK(r, charged)
  BY <1>0, <1>1, <1>4 DEF RunOK, AtCandidate, Counting, Recording
<1>6. Flies(r) => Flies(run[w]) /\ Head(r.left) = Account(w)
  BY <1>0, <1>1, <1>4 DEF Flies, here
<1>7. CircuitTyped'
  <2>1. failures' \in [Accounts -> Nat]
    BY <1>2, <1>3
  <2>2. UNCHANGED <<expires, open, orphaned>>
    BY DEF Count
  <2> QED
    BY <2>1, <2>2 DEF CircuitTyped, IInv, TypeOK
<1>8. CounterForgets'
  <2>1. \A v \in Workers : run[v].pc = "expiring" => run'[v] = run[v]
    BY <1>0, <1>2, <1>3
  <2>2. run'[w] = r /\ Account(w)' = here
    BY <1>1, <1>2, <1>3, <1>4 DEF Account
  <2>3. \A a \in Accounts \ {here} : failures'[a] = failures[a]
    BY <1>2, <1>3
  <2>4. expires' = expires /\ orphaned' = orphaned
    BY DEF Count
  <2>5. ASSUME NEW a \in Accounts \ {here}, failures'[a] > 0, ~expires'[a]
        PROVE  a \in orphaned' \/ \E v \in Workers : run'[v].pc = "expiring" /\ Account(v)' = a
    BY <2>1, <2>3, <2>4, <2>5 DEF IInv, CounterForgets, Account
  <2>6. \E v \in Workers : run'[v].pc = "expiring" /\ Account(v)' = here
    BY <1>4, <2>2
  <2> QED
    BY <2>5, <2>6 DEF CounterForgets
<1>9. CountersTyped'
  BY Untouched DEF Count
<1> QED
  BY <1>3, <1>4, <1>5, <1>6, <1>7, <1>8, <1>9, FreeStep DEF Count

LEMMA ExpireIsSafe ==
  ASSUME IInv, NEW w \in Workers, Expire(w)
  PROVE  IInv'
<1> DEFINE here == Account(w)
           pc == IF run[w].seen >= Threshold THEN "opening" ELSE "closing"
           r == [run[w] EXCEPT !.seen = 0, !.pc = pc]
<1>0. run[w].pc = "expiring" /\ run[w].pc \in AtCandidate
  BY DEF Expire, AtCandidate, Counting
<1>1. /\ run[w] \in Runs /\ RunOK(run[w], charged) /\ here \in Accounts
      /\ here = Head(run[w].left)
  BY <1>0, AtAccount
<1>2. /\ failures \in [Accounts -> Nat] /\ expires \in [Accounts -> BOOLEAN]
      /\ run \in [Workers -> Runs] /\ orphaned \subseteq Accounts
  BY DEF IInv, TypeOK
<1>3. /\ run' = [run EXCEPT ![w] = r]
      /\ expires' = [expires EXCEPT ![here] = failures[here] > 0]
      /\ orphaned' = orphaned \ {here}
      /\ UNCHANGED <<failures, open, usage, holder, charged, raced, begun, disturbances>>
  BY DEF Expire
<1>4. pc \in {"opening", "closing"}
  OBVIOUS
<1> HIDE DEF here, pc
<1>5. /\ r \in Runs /\ r.pc = pc /\ r.left = run[w].left /\ r.kind = run[w].kind
      /\ r.answers = run[w].answers /\ r.redisFailed = run[w].redisFailed /\ r.after = run[w].after
  BY <1>1, <1>4 DEF Runs, Steps, Counting
<1> HIDE DEF r
<1>6. RunOK(r, charged)
  BY <1>0, <1>1, <1>4, <1>5 DEF RunOK, AtCandidate, Counting, Recording
<1>7. Flies(r) => Flies(run[w]) /\ Head(r.left) = Account(w)
  BY <1>0, <1>1, <1>5 DEF Flies, here
<1>8. (failures[here] > 0) \in BOOLEAN
  OBVIOUS
<1>9. CircuitTyped'
  BY <1>2, <1>3, <1>8 DEF CircuitTyped, IInv, TypeOK
<1>10. CounterForgets'
  <2>1. \A v \in Workers \ {w} : run'[v] = run[v]
    BY <1>2, <1>3
  <2>2. ASSUME NEW a \in Accounts, failures'[a] > 0, ~expires'[a]
        PROVE  a \in orphaned' \/ \E v \in Workers : run'[v].pc = "expiring" /\ Account(v)' = a
    <3>1. a # here
      BY <1>1, <1>2, <1>3, <2>2
    <3>2. failures[a] > 0 /\ ~expires[a]
      BY <1>2, <1>3, <2>2, <3>1
    <3>3. \/ a \in orphaned
          \/ \E v \in Workers \ {w} : run[v].pc = "expiring" /\ Account(v) = a
      BY <3>1, <3>2 DEF IInv, CounterForgets, here
    <3> QED
      BY <1>3, <2>1, <3>1, <3>3 DEF Account
  <2> QED
    BY <2>2 DEF CounterForgets
<1>11. CountersTyped'
  BY <1>3, Untouched
<1> QED
  BY <1>3, <1>5, <1>6, <1>7, <1>9, <1>10, <1>11, FreeStep

LEMMA OpenCircuitIsSafe ==
  ASSUME IInv, NEW w \in Workers, OpenCircuit(w)
  PROVE  IInv'
<1> DEFINE r == [run[w] EXCEPT !.pc = "closing"]
<1>0. run[w].pc = "opening" /\ run[w].pc \in AtCandidate
  BY DEF OpenCircuit, AtCandidate, Counting
<1>1. /\ run[w] \in Runs /\ RunOK(run[w], charged) /\ run[w].left # <<>>
      /\ Account(w) = Head(run[w].left)
  BY <1>0, AtAccount
<1>2. run' = [run EXCEPT ![w] = r]
  BY DEF OpenCircuit, Goto
<1>3. /\ r \in Runs /\ r.pc = "closing" /\ r.left = run[w].left /\ r.kind = run[w].kind
      /\ r.answers = run[w].answers /\ r.redisFailed = run[w].redisFailed /\ r.after = run[w].after
  BY <1>1 DEF Runs, Steps
<1> HIDE DEF r
<1>4. RunOK(r, charged)
  BY <1>0, <1>1, <1>3 DEF RunOK, AtCandidate, Counting, Recording
<1>5. Flies(r) => Flies(run[w]) /\ Head(r.left) = Account(w)
  BY <1>0, <1>1, <1>3 DEF Flies
<1>6. CircuitTyped'
  BY DEF OpenCircuit, CircuitTyped, IInv, TypeOK
<1>7. CounterForgets'
  <2>1. \A v \in Workers : run[v].pc = "expiring" => run'[v] = run[v]
    BY <1>0, <1>2 DEF IInv, TypeOK
  <2> QED
    BY <2>1 DEF OpenCircuit, IInv, CounterForgets, Account
<1>8. CountersTyped'
  BY Untouched DEF OpenCircuit
<1> QED
  BY <1>2, <1>3, <1>4, <1>5, <1>6, <1>7, <1>8, FreeStep DEF OpenCircuit

\* A worker that stops between INCR and EXPIRE leaves an orphan.
LEMMA OrphansRemembered ==
  ASSUME IInv, NEW w \in Workers, run[w].pc \in AtCandidate \/ run[w].pc # "expiring",
         NEW r, run' = [run EXCEPT ![w] = r],
         orphaned' = Orphan(w), UNCHANGED <<failures, expires, open>>
  PROVE  CircuitTyped' /\ CounterForgets'
<1>1. run[w].pc = "expiring" => Account(w) \in Accounts
  BY AtAccount DEF AtCandidate, Counting
<1>2. CircuitTyped'
  BY <1>1 DEF CircuitTyped, Orphan, IInv, TypeOK
<1>3. \A v \in Workers \ {w} : run'[v] = run[v]
  BY DEF IInv, TypeOK
<1>4. ASSUME NEW a \in Accounts, failures'[a] > 0, ~expires'[a]
      PROVE  a \in orphaned' \/ \E v \in Workers : run'[v].pc = "expiring" /\ Account(v)' = a
  <2>1. \/ a \in orphaned
        \/ run[w].pc = "expiring" /\ Account(w) = a
        \/ \E v \in Workers \ {w} : run[v].pc = "expiring" /\ Account(v) = a
    BY <1>4 DEF IInv, CounterForgets
  <2> QED
    BY <1>3, <2>1 DEF Orphan, Account
<1> QED
  BY <1>2, <1>4 DEF CounterForgets

LEMMA RecordFailureFailsIsSafe ==
  ASSUME IInv, NEW w \in Workers, RecordFailureFails(w)
  PROVE  IInv'
<1> DEFINE r == [run[w] EXCEPT !.redisFailed = TRUE, !.after = "raise", !.seen = 0, !.pc = "closing"]
<1>0. run[w].pc \in AtCandidate /\ run[w].pc \in Counting
  BY DEF RecordFailureFails, AtCandidate
<1>1. /\ run[w] \in Runs /\ RunOK(run[w], charged) /\ run[w].left # <<>>
      /\ Account(w) = Head(run[w].left)
  BY <1>0, AtAccount
<1>2. CountersTyped'
  BY DisturbedIsTyped DEF RecordFailureFails
<1>3. CASE End(w)
  <2>1. CircuitTyped' /\ CounterForgets'
    BY <1>0, <1>3, OrphansRemembered DEF RecordFailureFails, End
  <2> QED
    BY <1>2, <1>3, <2>1, Leaving DEF RecordFailureFails
<1>4. CASE run' = [run EXCEPT ![w] = r]
  <2>1. /\ r \in Runs /\ r.pc = "closing" /\ r.left = run[w].left /\ r.kind = run[w].kind
        /\ r.answers = run[w].answers /\ r.redisFailed
    BY <1>1 DEF Runs, Steps
  <2> HIDE DEF r
  <2>2. RunOK(r, charged)
    BY <1>0, <1>1, <2>1 DEF RunOK, AtCandidate, Counting, Recording
  <2>3. Flies(r) => Flies(run[w]) /\ Head(r.left) = Account(w)
    BY <1>0, <1>1, <2>1 DEF Flies
  <2>4. CircuitTyped' /\ CounterForgets'
    BY <1>0, <1>4, OrphansRemembered DEF RecordFailureFails
  <2> QED
    BY <1>2, <1>4, <2>1, <2>2, <2>3, <2>4, FreeStep DEF RecordFailureFails
<1> QED
  BY <1>3, <1>4 DEF RecordFailureFails

LEMMA CloseAttemptIsSafe ==
  ASSUME IInv, NEW w \in Workers, CloseAttempt(w)
  PROVE  IInv'
<1>0. run[w].pc = "closing" /\ run[w].pc \in AtCandidate \ {"expiring"}
  BY DEF CloseAttempt, AtCandidate
<1>1. /\ run[w] \in Runs /\ RunOK(run[w], charged) /\ run[w].left # <<>>
      /\ Tail(run[w].left) \in Seq(Accounts)
  BY <1>0, AtAccount
<1>2. UNCHANGED <<failures, expires, open, orphaned, usage, holder, charged, raced, begun, disturbances>>
  BY DEF CloseAttempt
<1>3. CASE End(w) \/ LeaveLoop(w)
  BY <1>0, <1>2, <1>3, Leaving, Untouched
<1>4. CASE run[w].after = "continue" /\ run[w].tries > 0 /\ Goto(w, "asking")
  <2> DEFINE r == [run[w] EXCEPT !.pc = "asking"]
  <2>1. run' = [run EXCEPT ![w] = r]
    BY <1>4 DEF Goto
  <2>2. /\ r \in Runs /\ r.pc = "asking" /\ r.left = run[w].left /\ r.kind = run[w].kind
        /\ r.tries = run[w].tries
        /\ r.answers = run[w].answers /\ r.redisFailed = run[w].redisFailed
    BY <1>1 DEF Runs, Steps
  <2> HIDE DEF r
  <2>3. RunOK(r, charged)
    BY <1>0, <1>1, <1>4, <2>2 DEF RunOK, AtCandidate, Counting, Recording
  <2> QED
    BY <1>0, <1>2, <2>1, <2>2, <2>3, Staying, Untouched
<1>5. CASE run[w].after = "continue" /\ run' = [run EXCEPT ![w].pc = "choosing", ![w].left = Tail(@)]
  <2> DEFINE left == Tail(run[w].left)
             r == [run[w] EXCEPT !.pc = "choosing", !.left = left]
  <2>1. run' = [run EXCEPT ![w] = r]
    BY <1>5
  <2>2. left \in Seq(Accounts)
    BY <1>1
  <2> HIDE DEF left
  <2>3. /\ r \in Runs /\ r.pc = "choosing"
        /\ r.answers = run[w].answers /\ r.redisFailed = run[w].redisFailed
    BY <1>1, <2>2 DEF Runs, Steps
  <2> HIDE DEF r
  <2>4. RunOK(r, charged) /\ ~Flies(r)
    BY <1>0, <1>1, <1>5, <2>3 DEF RunOK, Flies, AtCandidate, Counting, Recording
  <2>5. CircuitTyped' /\ CounterForgets'
    BY <1>0, <1>2, <2>1, CircuitsKept
  <2> QED
    BY <1>2, <2>1, <2>3, <2>4, <2>5, Untouched, FreeStep
<1> QED
  BY <1>3, <1>4, <1>5 DEF CloseAttempt

(***************************************************************************)
(* The environment                                                         *)
(***************************************************************************)
LEMMA CrashIsSafe ==
  ASSUME IInv, NEW w \in Workers, Crash(w)
  PROVE  IInv'
<1>1. CountersTyped'
  BY DisturbedIsTyped DEF Crash
<1>2. run[w].pc \in AtCandidate \/ run[w].pc # "expiring"
  BY DEF AtCandidate, Counting
<1>3. CircuitTyped' /\ CounterForgets'
  BY <1>2, OrphansRemembered DEF Crash, End
<1> QED
  BY <1>1, <1>3, Leaving DEF Crash

LEMMA RoutingFailsIsSafe ==
  ASSUME IInv, NEW w \in Workers, RoutingFails(w)
  PROVE  IInv'
<1>1. CountersTyped'
  BY DisturbedIsTyped DEF RoutingFails
<1> QED
  BY <1>1, Leaving DEF RoutingFails

LEMMA LapseIsSafe ==
  ASSUME IInv, NEW a \in Accounts, CounterExpires(a) \/ CooldownEnds(a)
  PROVE  IInv'
<1>1. UNCHANGED <<usage, holder, charged, raced, run, begun, orphaned>> /\ Disturbed
  BY DEF CounterExpires, CooldownEnds
<1>2. CountersTyped'
  BY <1>1, DisturbedIsTyped
<1>3. CircuitTyped'
  <2>1. CircuitTyped
    BY DEF IInv, TypeOK, CircuitTyped
  <2>2. CASE CounterExpires(a)
    BY <2>1, <2>2 DEF CounterExpires, CircuitTyped
  <2>3. CASE CooldownEnds(a)
    BY <2>1, <2>3 DEF CooldownEnds, CircuitTyped
  <2> QED
    BY <2>2, <2>3
<1>4. \A b \in Accounts : failures'[b] > 0 /\ ~expires'[b] => failures[b] > 0 /\ ~expires[b]
  BY DEF CounterExpires, CooldownEnds, IInv, TypeOK
<1>5. CounterForgets'
  BY <1>1, <1>4 DEF IInv, CounterForgets, Account
<1>6. TypeOK'
  BY <1>1, <1>2, <1>3 DEF IInv, TypeOK, CircuitTyped, CountersTyped
<1>7. RunsOK' /\ UsageIsCharged'
  BY <1>1 DEF IInv, RunsOK, UsageIsCharged
<1>8. BudgetKept'
  <2>1. \A b : InFlight(b)' = InFlight(b)
    BY <1>1 DEF InFlight, Account
  <2> QED
    BY <1>1, <2>1 DEF IInv, BudgetKept
<1> QED
  BY <1>5, <1>6, <1>7, <1>8 DEF IInv
(***************************************************************************)
(* The invariant                                                           *)
(***************************************************************************)
LEMMA InitIsOK == Init => IInv
<1> SUFFICES ASSUME Init PROVE IInv
  OBVIOUS
<1>0. /\ IsFiniteSet(Workers) /\ Workers # {} /\ Budget \in Nat
      /\ Nobody \notin Workers
  BY GenerationAssumption
<1>1. PICK row \in {NoRow} \cup 0..Budget : usage = [a \in Accounts |-> row]
  BY DEF Init
<1>2. charged = [a \in Accounts |-> IF usage[a] = NoRow THEN 0 ELSE usage[a]]
  BY DEF Init
<1>3. \A a \in Accounts : usage[a] = row /\ charged[a] = IF row = -1 THEN 0 ELSE row
  BY <1>1, <1>2 DEF NoRow
<1>4. row \in Nat \cup {-1} /\ row <= Budget
  BY <1>0, <1>1 DEF NoRow
<1>5. usage \in [Accounts -> Nat \cup {NoRow}] /\ charged \in [Accounts -> Nat]
  BY <1>1, <1>2, <1>3, <1>4 DEF NoRow
<1>6. run = [w \in Workers |-> Idle] /\ Idle \in Runs
  BY IdleIsOK DEF Init
<1>7. TypeOK
  BY <1>0, <1>5, <1>6 DEF Init, TypeOK
<1>8. UsageIsCharged
  BY <1>3, <1>4 DEF UsageIsCharged
<1>9. CounterForgets
  BY DEF Init, CounterForgets
<1>10. RunsOK
  BY <1>6, IdleIsOK DEF RunsOK
<1>11. BudgetKept
  <2>1. \A a \in Accounts : InFlight(a) = {}
    BY <1>6, IdleIsOK DEF InFlight
  <2>2. Cardinality(Workers) \in Nat /\ Cardinality(Workers) # 0 /\ Cardinality({}) = 0
    BY <1>0, FS_CardinalityType, FS_EmptySet
  <2>3. Budget > 0 => \A a \in Accounts : charged[a] \in Nat /\ charged[a] <= Budget
    BY <1>0, <1>3, <1>4
  <2> QED
    BY <1>0, <2>1, <2>2, <2>3 DEF BudgetKept
<1> QED
  BY <1>7, <1>8, <1>9, <1>10, <1>11 DEF IInv

LEMMA NextIsSafe == IInv /\ [Next]_vars => IInv'
<1> SUFFICES ASSUME IInv, [Next]_vars PROVE IInv'
  OBVIOUS
<1>1. ASSUME NEW w \in Workers, Work(w) PROVE IInv'
  BY <1>1, ConsiderIsSafe, OrderIsSafe, NextCandidateIsSafe, NoneLeftIsSafe, AskIsSafe,
     ModerateIsSafe, RecordSuccessIsSafe, ReadUsageIsSafe, InsertUsageIsSafe, WriteUsageIsSafe,
     CommitIsSafe, CountIsSafe, ExpireIsSafe, OpenCircuitIsSafe, CloseAttemptIsSafe DEF Work
<1>2. ASSUME NEW w \in Workers, Fault(w) PROVE IInv'
  BY <1>2, RoutingFailsIsSafe, RecordSuccessFailsIsSafe, DatabaseFailsIsSafe,
     RecordFailureFailsIsSafe, CrashIsSafe DEF Fault
<1>3. ASSUME NEW w \in Workers, NEW kind \in Kinds, NEW fallback \in BOOLEAN,
             Start(w, kind, fallback)
      PROVE  IInv'
  BY <1>3, StartIsSafe
<1>4. ASSUME NEW a \in Accounts, CounterExpires(a) \/ CooldownEnds(a) PROVE IInv'
  BY <1>4, LapseIsSafe
<1>5. CASE UNCHANGED vars
  BY <1>5 DEF vars, IInv, TypeOK, UsageIsCharged, CounterForgets, RunsOK, BudgetKept, InFlight, Account
<1> QED
  BY <1>1, <1>2, <1>3, <1>4, <1>5 DEF Next

\* The state of the workers, accounts and circuits stays one the code reasons about.
THEOREM GenerationInvariance == Spec => []IInv
BY InitIsOK, NextIsSafe, PTL DEF Spec

\* Every variable keeps its type: no uncommitted sum, counter or row goes astray.
THEOREM GenerationTypeCorrect == Spec => []TypeOK
BY GenerationInvariance, PTL DEF IInv

\* The month's usage never exceeds what the recorded attempts cost and equals it unless
\* two sums raced (provider_budget.record).
THEOREM ChargesAreRecorded == Spec => []UsageIsCharged
BY GenerationInvariance, PTL DEF IInv

\* Without a race the generations in flight exceed the budget by less than one unit for
\* every worker (has_budget asked before record).
THEOREM BudgetOvershoot == Spec => []OvershootIsBounded
<1>1. IInv => OvershootIsBounded
  <2> SUFFICES ASSUME IInv, Budget > 0, NEW a \in Accounts \ raced
               PROVE  charged[a] < Budget + Cardinality(Workers)
    BY DEF OvershootIsBounded
  <2>1. charged[a] \in Nat /\ Budget \in Nat /\ IsFiniteSet(Workers) /\ Cardinality(Workers) \in Nat
    BY GenerationAssumption, FS_CardinalityType DEF IInv, TypeOK
  <2>2. InFlight(a) \subseteq Workers
    BY DEF InFlight
  <2>3. Cardinality(InFlight(a)) \in Nat
    BY <2>1, <2>2, FS_Subset, FS_CardinalityType
  <2>4. charged[a] + Cardinality(InFlight(a)) < Budget + Cardinality(Workers)
    BY DEF IInv, BudgetKept
  <2> QED
    BY <2>1, <2>3, <2>4
<1> QED
  BY <1>1, GenerationInvariance, PTL

\* A second answer of one generation means that Redis failed while the first was being
\* recorded (the except clauses of generate_structured and the transcription loop).
THEOREM OneAnswerUnlessRedisFails == Spec => []SecondAnswerNeedsRedisFailure
<1>1. IInv => SecondAnswerNeedsRedisFailure
  BY DEF IInv, RunsOK, RunOK, SecondAnswerNeedsRedisFailure
<1> QED
  BY <1>1, GenerationInvariance, PTL

\* A circuit's counter without a time to live has a worker about to give it one, or one
\* that was stopped there (CircuitBreaker.record_failure).
THEOREM CountersForget == Spec => []CounterForgets
BY GenerationInvariance, PTL DEF IInv
=================================================================================
