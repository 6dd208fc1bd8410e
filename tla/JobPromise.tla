----------------------------- MODULE JobPromise -----------------------------
(***************************************************************************)
(* What Django may rely on, whatever the workers do: an accepted job is    *)
(* taken up at most once, yields at most one result, and a result is never *)
(* withdrawn or replaced, only purged with the whole job.  JobLifecycle    *)
(* implements this specification.                                          *)
(***************************************************************************)
CONSTANT Jobs

VARIABLE phase

Phases == {"unknown", "waiting", "taken", "published", "purged"}

Init == phase = [j \in Jobs |-> "unknown"]

Advance(j, from, to) ==
    /\ phase[j] = from
    /\ phase' = [phase EXCEPT ![j] = to]

Accept(j)  == Advance(j, "unknown", "waiting")

\* A worker claims the job, or it is canceled or fails before any worker does.
Take(j)    == Advance(j, "waiting", "taken")

Publish(j) == Advance(j, "taken", "published")

\* Retention deletes any set of jobs that are no longer waiting, in one step.
Purge(S) ==
    /\ \A j \in S : phase[j] \in {"taken", "published"}
    /\ phase' = [j \in Jobs |-> IF j \in S THEN "purged" ELSE phase[j]]

Next ==
    \/ \E j \in Jobs : Accept(j) \/ Take(j) \/ Publish(j)
    \/ \E S \in SUBSET Jobs : Purge(S)

Spec == Init /\ [][Next]_phase
=============================================================================
