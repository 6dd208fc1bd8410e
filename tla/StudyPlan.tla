------------------------------- MODULE StudyPlan -------------------------------
(***************************************************************************)
(* The deterministic scheduler of study plans (services/khota_scheduler.py *)
(* and the models of schemas/khota.py that it fills).  A request is the    *)
(* record of its first and last day, the days excluded, the minutes of a   *)
(* day and of a session, the sequence of subjects, the weak topics, and    *)
(* the exam days of some subjects; days are counted from any origin.       *)
(***************************************************************************)
EXTENDS Integers, Sequences, FiniteSets, SequencesExt

ShortestSession == 10
ExamNear == 14          \* days before an exam that give a task high priority
MostTasks == 20         \* max_length of PlanDay.tasks

(* What the validators of KhotaRequest let through, with texts that the    *)
(* fields of a task can hold.                                              *)
ValidRequest(r) ==
  /\ r.subjects \in Seq(STRING) /\ r.subjects # <<>> /\ r.weak \in Seq(STRING)
  /\ r.start \in Int /\ r.end \in Int
  /\ r.start <= r.end /\ r.end - r.start <= 180
  /\ \A subject \in DOMAIN r.exams : r.exams[subject] \in Int
  /\ r.minutes \in 20..720 /\ r.preferred \in 15..180

(* Topics of the sources, else the weak ones, else one per subject. *)
ResolvedTopics(r, topics) ==
  CASE topics # <<>>                 -> topics
    [] topics = <<>> /\ r.weak # <<>> -> r.weak
    [] OTHER                         -> r.subjects

(* The cursor passes the days from the first to the last. *)
DaysBut(r, excluded) ==
  LET Passed == r.end - r.start + 1
      Kept[k \in 0..Passed] ==
        IF k = 0 THEN <<>>
        ELSE LET cursor == r.start + k - 1
             IN  IF cursor \in excluded THEN Kept[k - 1] ELSE Append(Kept[k - 1], cursor)
  IN  Kept[Passed]
\* Mutant of StudyDays: the excluded dates are kept.
AllDays(r) == DaysBut(r, {})
StudyDays(r) == DaysBut(r, r.excluded)

(* The lengths of a day's sessions: as preferred while the time lasts, the *)
(* last one shorter, nothing below ten minutes.                            *)
Sessions(r) ==
  LET Fill[remaining \in 0..r.minutes] ==
        IF remaining < ShortestSession THEN <<>>
        ELSE LET length == IF r.preferred < remaining THEN r.preferred ELSE remaining
             IN  <<length>> \o Fill[remaining - length]
  IN  Fill[r.minutes]

(* The element of a sequence whose turn it is at the given count from 0. *)
Turn(s, count) == s[(count % Len(s)) + 1]

(* Subjects take turns within the day and start one later each day; topics *)
(* take turns over the whole plan.                                         *)
BuildPlanDays(r, topics) ==
  LET sessions == Sessions(r)
      Task(date, day, session) ==
        LET subject == Turn(r.subjects, day + session)
        IN  [subject  |-> subject,
             topic    |-> Turn(ResolvedTopics(r, topics), day * Len(sessions) + session),
             minutes  |-> sessions[session + 1],
             priority |-> IF subject \in DOMAIN r.exams /\ r.exams[subject] - date <= ExamNear
                          THEN "high" ELSE "medium",
             type     |-> IF session % 3 = 2 THEN "review" ELSE "read"]
  IN  [day \in 1..Len(StudyDays(r)) |->
        LET date == StudyDays(r)[day]
        IN  [date |-> date, tasks |-> [k \in 1..Len(sessions) |-> Task(date, day - 1, k - 1)]]]

Total(lengths) ==
  LET Sum[k \in 0..Len(lengths)] == IF k = 0 THEN 0 ELSE Sum[k - 1] + lengths[k]
  IN  Sum[Len(lengths)]
TotalMinutes(day) == Total([k \in 1..Len(day.tasks) |-> day.tasks[k].minutes])

(* A PlanDay with more tasks than its model holds is refused, and with it  *)
(* the request: it has no plan, as one without study days.                 *)
HasPlan(r) == StudyDays(r) # <<>> /\ Len(Sessions(r)) <= MostTasks

(* validate_hard_constraints *)
HardConstraints(r, plan) ==
  /\ \A d \in 1..Len(plan) :
       /\ plan[d].date \in r.start..r.end
       /\ plan[d].date \notin r.excluded
       /\ TotalMinutes(plan[d]) <= r.minutes
  /\ \A d, e \in 1..Len(plan) : plan[d].date = plan[e].date => d = e

(***************************************************************************)
(* What a plan promises, stated without its algorithm                      *)
(***************************************************************************)
Times(f, value) == Cardinality({i \in DOMAIN f : f[i] = value})
(* The values of a list take turns: in each full round every one comes as  *)
(* often as it is listed, and in the last one at most that often.          *)
Even(list, f) ==
  LET rounds == Cardinality(DOMAIN f) \div Len(list)
  IN  \A value \in ToSet(list) :
        /\ rounds * Times(list, value) <= Times(f, value)
        /\ Times(f, value) <= (rounds + 1) * Times(list, value)

(* Every day that is left is used, in order, but for less than a shortest  *)
(* session; the subjects share each day, and the topics the plan, evenly;  *)
(* no task comes after an exam of its subject without being urgent.        *)
FairPlan(r, topics, plan) ==
  LET places == UNION {{d} \X DOMAIN plan[d].tasks : d \in 1..Len(plan)}
  IN  /\ {plan[d].date : d \in 1..Len(plan)} = (r.start..r.end) \ r.excluded
      /\ \A d \in 1..Len(plan) :
           /\ r.minutes - TotalMinutes(plan[d]) < ShortestSession
           /\ Even(r.subjects, [k \in DOMAIN plan[d].tasks |-> plan[d].tasks[k].subject])
           /\ \A e \in 1..d - 1 : plan[e].date < plan[d].date
      /\ Even(ResolvedTopics(r, topics), [at \in places |-> plan[at[1]].tasks[at[2]].topic])
      /\ \A d \in 1..Len(plan) : \A k \in DOMAIN plan[d].tasks :
           LET task == plan[d].tasks[k]
           IN  task.subject \in DOMAIN r.exams /\ r.exams[task.subject] <= plan[d].date
               => task.priority = "high"
================================================================================
