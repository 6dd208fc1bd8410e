-------------------------- MODULE MCSourceIngestion --------------------------
EXTENDS SourceIngestion

CONSTANTS book, notes, scan

(* A quiz and a plan over two sources in opposite orders, a summary of a   *)
(* scan without text, a recommendation, and a transcription.               *)
EveryKind ==
  {[task |-> "fahes", sources |-> <<book, notes>>], [task |-> "khota", sources |-> <<notes, book>>],
   [task |-> "kholasa", sources |-> <<scan>>], [task |-> "rasheed", sources |-> <<>>],
   [task |-> "sada", sources |-> <<notes>>]}

AllButTheScan == {d \in Documents : d[1] # scan}
================================================================================
