------------------------------- MODULE MCFeedback -------------------------------
(* The handlers of posts, the processes that export, and the names that    *)
(* datasets are given, are interchangeable.                                *)
EXTENDS Feedback, TLC

Alike == Permutations(Handlers) \cup Permutations(Exporters) \cup Permutations(Names)
================================================================================
