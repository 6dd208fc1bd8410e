--------------------------- MODULE JobStateMachine ---------------------------
(***************************************************************************)
(* The transition policy of persisted AI jobs: app/services/               *)
(* job_state_machine.py over the statuses of app/models/enums.py.          *)
(***************************************************************************)

JobStatus ==
    {"queued", "preparing", "retrieving", "planning", "generating",
     "validating", "repairing", "materializing",
     "completed", "failed", "canceled"}

TERMINAL_JOB_STATES == {"completed", "failed", "canceled"}

Stopped == {"canceled", "failed"}

\* The dict of allowed targets, keyed by the current status.
AllowedTransitions ==
    [queued        |-> {"preparing"} \union Stopped,
     preparing     |-> {"retrieving", "planning", "generating"} \union Stopped,
     retrieving    |-> {"planning", "generating", "validating"} \union Stopped,
     planning      |-> {"generating"} \union Stopped,
     generating    |-> {"validating", "repairing"} \union Stopped,
     validating    |-> {"repairing", "materializing", "completed"} \union Stopped,
     repairing     |-> {"validating"} \union Stopped,
     materializing |-> {"completed"} \union Stopped,
     completed     |-> {},
     failed        |-> {},
     canceled      |-> {}]

CanTransition(current, target) == target \in AllowedTransitions[current]

\* JobStateMachine.transition returns (rather than raising ConflictError) exactly
\* here: a repeated status is a no-op, anything else has to be in the table.
TransitionAccepted(current, target) ==
    current = target \/ CanTransition(current, target)
=============================================================================
