-------------------------- MODULE MCOutboxDispatcher --------------------------
(* OutboxDispatcher for TLC's safety run: the runs of the dispatcher are   *)
(* interchangeable, and so are the handlers.                               *)
EXTENDS OutboxDispatcher, TLC

InterchangeableProcesses == Permutations(Dispatchers) \union Permutations(Handlers)
=============================================================================
