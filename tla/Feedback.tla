-------------------------------- MODULE Feedback --------------------------------
(***************************************************************************)
(* Students rate outputs (services/feedback_service.py), consenting or not *)
(* that a rated output becomes a training candidate                        *)
(* (training/candidate_builder.py).  People review the candidates, and     *)
(* scripts/export_dataset.py freezes the approved ones into a dataset: a   *)
(* row, and a file outside the database (training/exporter.py), which its  *)
(* process opens, fills as its buffer is flushed, and closes.  Each post   *)
(* and each export is one transaction that others overlap; an output has   *)
(* one user, and all candidates have the task type that is exported.       *)
(***************************************************************************)
EXTENDS Naturals, FiniteSets, Sequences

CONSTANTS Outputs, Handlers, Exporters,
          Names, Paths,  \* what the operators of exports choose
          MaxPosts,      \* bound: posts
          MaxExports,    \* bound: exports
          MaxLines,      \* bound: candidates in an export
          MaxFaults      \* bound: processes and transactions that fail

Nobody == "nobody"
NoName == "no name"

ASSUME FeedbackAssumption ==
  /\ Nobody \notin Handlers
  /\ Outputs # {} /\ Paths # {}
  /\ {MaxPosts, MaxExports, MaxLines, MaxFaults} \subseteq Nat

VARIABLES
  outputs,    \* the outputs that are stored
  row,        \* row[o]: the committed feedback on o
  lock,       \* lock[o]: the handler whose open transaction wrote that row
  post,       \* post[h]: the post h handles and the row it has read
  posts,      \* number of posts
  candidates, \* the training candidates, each with the number of its post
  export,     \* export[e]: what e exports, and how much of it is flushed
  exports,    \* number of exports
  datasets,   \* the committed dataset versions
  files,      \* files[p]: what the file at p holds, piece by piece
  last,       \* history: last[o], what the last committed post on o said
  mixed,      \* history: outputs whose row was last written from an outdated one
  shared,     \* history: candidates selected by two exports at once
  disturbed,  \* history: the exports into whose file another one wrote after they opened it
  faults      \* number of faults so far

feedback == <<outputs, row, lock, post, posts, last, mixed>>
training == <<export, exports, datasets, files, shared, disturbed>>
vars == <<outputs, row, lock, post, posts, candidates, export, exports, datasets, files,
          last, mixed, shared, disturbed, faults>>

Opinion(consent, usable) == [stored |-> TRUE, consent |-> consent, usable |-> usable]
NoRow == [stored |-> FALSE, consent |-> FALSE, usable |-> FALSE]
AnyOutput == CHOOSE o \in Outputs : TRUE
NoPost == [pc |-> "idle", number |-> 0, output |-> AnyOutput, says |-> NoRow, seen |-> NoRow]
NoExport == [pc |-> "idle", number |-> 0, name |-> NoName,
             path |-> CHOOSE p \in Paths : TRUE, items |-> {}, text |-> <<>>, flushed |-> 0]

Init ==
  /\ outputs = Outputs
  /\ row = [o \in Outputs |-> NoRow] /\ last = row
  /\ lock = [o \in Outputs |-> Nobody]
  /\ post = [h \in Handlers |-> NoPost]
  /\ export = [e \in Exporters |-> NoExport]
  /\ files = [p \in Paths |-> <<>>]
  /\ candidates = {} /\ datasets = {}
  /\ mixed = {} /\ shared = {} /\ disturbed = {}
  /\ posts = 0 /\ exports = 0 /\ faults = 0

Faulty == faults < MaxFaults /\ faults' = faults + 1

(***************************************************************************)
(* create_or_update                                                        *)
(***************************************************************************)
(* The output is found and the user's feedback on it is read.  usable: the *)
(* output helped, or the post corrects it.                                 *)
Post(h, o, consent, usable) ==
  /\ post[h].pc = "idle" /\ posts < MaxPosts
  /\ o \in outputs
  /\ posts' = posts + 1
  /\ post' = [post EXCEPT ![h] = [pc |-> "flushing", number |-> posts', output |-> o,
                                  says |-> Opinion(consent, usable), seen |-> row[o]]]
  /\ UNCHANGED <<outputs, row, lock, candidates, last, mixed, training, faults>>

Answered(h) == post' = [post EXCEPT ![h] = NoPost]

(* INSERT, or UPDATE, once no other transaction holds the row.  A row that *)
(* another post inserted meanwhile, or an output deleted, refuses it.      *)
Flush(h) ==
  LET o == post[h].output IN
  /\ post[h].pc = "flushing" /\ lock[o] = Nobody
  /\ IF o \notin outputs \/ (row[o].stored /\ ~post[h].seen.stored)
     THEN Answered(h) /\ UNCHANGED lock
     ELSE /\ post' = [post EXCEPT ![h].pc = "committing"]
          /\ lock' = [lock EXCEPT ![o] = h]
  /\ UNCHANGED <<outputs, row, posts, candidates, last, mixed, training, faults>>

\* Mutant of Written: a consent that is withheld is not set.
WrittenWhenTrue(stored, seen, says) ==
  IF ~seen.stored THEN says
  ELSE Opinion(IF says.consent THEN TRUE ELSE stored.consent,
               IF says.usable = seen.usable THEN stored.usable ELSE says.usable)
(* The UPDATE sets the columns that differ from the row that was read. *)
Written(stored, seen, says) ==
  IF ~seen.stored THEN says
  ELSE Opinion(IF says.consent = seen.consent THEN stored.consent ELSE says.consent,
               IF says.usable = seen.usable THEN stored.usable ELSE says.usable)

(* build_candidate: from the post itself, whatever the row has become. *)
Built(number, o, says) ==
  IF says.consent /\ says.usable
  THEN {[number |-> number, output |-> o, status |-> "pending"]} ELSE {}

(* Every post that may be used adds a candidate, an update like the first. *)
Commit(h) ==
  LET o == post[h].output IN
  /\ post[h].pc = "committing"
  /\ row' = [row EXCEPT ![o] = Written(@, post[h].seen, post[h].says)]
  /\ candidates' = candidates \cup Built(post[h].number, o, post[h].says)
  /\ last' = [last EXCEPT ![o] = post[h].says]
  /\ mixed' = IF post[h].seen = row[o] THEN mixed \ {o} ELSE mixed \cup {o}
  /\ lock' = [lock EXCEPT ![o] = Nobody]
  /\ Answered(h)
  /\ UNCHANGED <<outputs, posts, training, faults>>

(* The request is canceled or fails: its transaction is rolled back. *)
PostFails(h) ==
  /\ Faulty
  /\ post[h].pc # "idle"
  /\ lock' = [o \in Outputs |-> IF lock[o] = h THEN Nobody ELSE lock[o]]
  /\ Answered(h)
  /\ UNCHANGED <<outputs, row, posts, candidates, last, mixed, training>>

(* Retention deletes the job: the cascade takes its output, the feedback   *)
(* and the candidates, after the transactions that hold them.              *)
Purge(o) ==
  /\ o \in outputs /\ lock[o] = Nobody
  /\ outputs' = outputs \ {o}
  /\ row' = [row EXCEPT ![o] = NoRow]
  /\ last' = [last EXCEPT ![o] = NoRow]
  /\ candidates' = {c \in candidates : c.output # o}
  /\ UNCHANGED <<lock, post, posts, mixed, training, faults>>

(* Human review; a verdict stands until it is revised or exported. *)
Review(c, verdict) ==
  /\ c.status \in {"pending", "approved"} /\ c.status # verdict
  /\ candidates' = (candidates \ {c}) \cup {[c EXCEPT !.status = verdict]}
  /\ UNCHANGED <<feedback, training, faults>>

(***************************************************************************)
(* export_dataset_jsonl                                                    *)
(***************************************************************************)
\* Mutant of Approved: what was exported before is exported again.
ApprovedOrExported == {c.number : c \in {d \in candidates : d.status \in {"approved", "exported"}}}
Approved == {c.number : c \in {d \in candidates : d.status = "approved"}}

(* A candidate's line is written in two pieces; a gap that no process ever *)
(* wrote holds zeros.  The query leaves the order of the lines open.       *)
Gap == <<0, 0>>
Pieces == (Nat \X {1, 2}) \cup {Gap}
Orders(S) ==
  {order \in [1..Cardinality(S) -> S] : \A i, j \in DOMAIN order : order[i] = order[j] => i = j}
Lines(order) ==
  [i \in 1..(2 * Len(order)) |-> IF i % 2 = 1 THEN <<order[(i + 1) \div 2], 1>> ELSE <<order[i \div 2], 2>>]

Select(e, name, path) ==
  /\ export[e].pc = "idle" /\ exports < MaxExports /\ Cardinality(Approved) <= MaxLines
  /\ exports' = exports + 1
  /\ \E order \in Orders(Approved) :
       export' = [export EXCEPT ![e] = [pc |-> "opening", number |-> exports', name |-> name, path |-> path,
                                        items |-> Approved, text |-> Lines(order), flushed |-> 0]]
  /\ shared' = shared \cup (Approved \cap UNION {export[d].items : d \in Exporters})
  /\ UNCHANGED <<feedback, candidates, datasets, files, disturbed, faults>>

(* Whoever else has opened this file: to write it still, or to freeze it. *)
OthersOf(e) ==
  {d.number : d \in {c \in datasets : c.path = export[e].path}} \cup
  {export[d].number : d \in {c \in Exporters \ {e} : /\ export[c].pc \in {"writing", "committing"}
                                                      /\ export[c].path = export[e].path}}

(* e writes the pieces of its text up to the given one, from where it is   *)
(* in the file, whatever the file has become.                              *)
WriteAt(file, from, text, to) ==
  [i \in 1..(IF to > Len(file) THEN to ELSE Len(file)) |->
     IF i \in (from + 1)..to THEN text[i] ELSE IF i <= Len(file) THEN file[i] ELSE Gap]

Writes(e, to) ==
  IF to > export[e].flushed
  THEN /\ files' = [files EXCEPT ![export[e].path] = WriteAt(@, export[e].flushed, export[e].text, to)]
       /\ disturbed' = disturbed \cup OthersOf(e)
  ELSE UNCHANGED <<files, disturbed>>

\* Mutant of OpenFile: the file is not emptied.
OpenFileAsItIs(e) ==
  /\ export[e].pc = "opening"
  /\ disturbed' = disturbed \cup OthersOf(e)
  /\ export' = [export EXCEPT ![e].pc = "writing"]
  /\ UNCHANGED <<feedback, candidates, exports, datasets, files, shared, faults>>

(* Opening the file for writing empties it, whoever else has it open. *)
OpenFile(e) ==
  /\ export[e].pc = "opening"
  /\ files' = [files EXCEPT ![export[e].path] = <<>>]
  /\ disturbed' = disturbed \cup OthersOf(e)
  /\ export' = [export EXCEPT ![e].pc = "writing"]
  /\ UNCHANGED <<feedback, candidates, exports, datasets, shared, faults>>

(* The buffer is full: the first part of the text, perhaps of a line, is   *)
(* flushed.                                                                *)
FlushBuffer(e) ==
  /\ export[e].pc = "writing"
  /\ \E to \in (export[e].flushed + 1)..Len(export[e].text) :
       /\ Writes(e, to)
       /\ export' = [export EXCEPT ![e].flushed = to]
  /\ UNCHANGED <<feedback, candidates, exports, datasets, shared, faults>>

(* Closing the file flushes the rest. *)
CloseFile(e) ==
  /\ export[e].pc = "writing"
  /\ Writes(e, Len(export[e].text))
  /\ export' = [export EXCEPT ![e].pc = "committing", ![e].flushed = Len(export[e].text)]
  /\ UNCHANGED <<feedback, candidates, exports, datasets, shared, faults>>

Exported(e) == export' = [export EXCEPT ![e] = NoExport]

(* EXPORTED is set over whatever verdict a candidate has by now, unless a  *)
(* candidate is gone or the name of the dataset is taken.                  *)
CommitDataset(e) ==
  /\ export[e].pc = "committing"
  /\ IF /\ export[e].items \subseteq {c.number : c \in candidates}
        /\ \A d \in datasets : d.name # export[e].name
     THEN /\ datasets' = datasets \cup {[number |-> export[e].number, name |-> export[e].name,
                                         path |-> export[e].path, items |-> export[e].items,
                                         text |-> export[e].text]}
          /\ candidates' = {IF c.number \in export[e].items THEN [c EXCEPT !.status = "exported"] ELSE c :
                              c \in candidates}
     ELSE UNCHANGED <<datasets, candidates>>
  /\ Exported(e)
  /\ UNCHANGED <<feedback, exports, files, shared, disturbed, faults>>

(* The script dies: what is not flushed is lost, the file stays. *)
ExportDies(e) ==
  /\ Faulty
  /\ export[e].pc # "idle"
  /\ Exported(e)
  /\ UNCHANGED <<feedback, candidates, exports, datasets, files, shared, disturbed>>

Next ==
  \/ \E h \in Handlers, o \in Outputs, consent, usable \in BOOLEAN : Post(h, o, consent, usable)
  \/ \E h \in Handlers : Flush(h) \/ Commit(h) \/ PostFails(h)
  \/ \E o \in Outputs : Purge(o)
  \/ \E c \in candidates, verdict \in {"approved", "rejected"} : Review(c, verdict)
  \/ \E e \in Exporters, name \in Names, path \in Paths : Select(e, name, path)
  \/ \E e \in Exporters : OpenFile(e) \/ FlushBuffer(e) \/ CloseFile(e) \/ CommitDataset(e) \/ ExportDies(e)

Spec == Init /\ [][Next]_vars

(***************************************************************************)
(* Properties                                                              *)
(***************************************************************************)
Opinions == [stored : BOOLEAN, consent : BOOLEAN, usable : BOOLEAN]
Posts == [pc : {"idle", "flushing", "committing"}, number : Nat, output : Outputs,
          says : Opinions, seen : Opinions]
Candidates == [number : Nat, output : Outputs,
               status : {"pending", "approved", "rejected", "exported"}]
Exports == [pc : {"idle", "opening", "writing", "committing"}, number : Nat,
            name : Names \cup {NoName}, path : Paths, items : SUBSET Nat, text : Seq(Pieces), flushed : Nat]
Datasets == [number : Nat, name : Names, path : Paths, items : SUBSET Nat, text : Seq(Pieces)]

TypeOK ==
  /\ outputs \subseteq Outputs /\ mixed \subseteq Outputs
  /\ row \in [Outputs -> Opinions] /\ last \in [Outputs -> Opinions]
  /\ lock \in [Outputs -> Handlers \cup {Nobody}]
  /\ post \in [Handlers -> Posts]
  /\ candidates \subseteq Candidates
  /\ export \in [Exporters -> Exports]
  /\ datasets \subseteq Datasets
  /\ files \in [Paths -> Seq(Pieces)]
  /\ shared \subseteq Nat /\ disturbed \subseteq Nat
  /\ posts \in Nat /\ exports \in Nat /\ faults \in Nat

(* The feedback on an output is what its user said last, whole, unless the *)
(* post was decided on a row that another post has changed since: then     *)
(* the row may say what nobody said, which is named here, not excluded,    *)
(* until a post that finds the row as it is sets it right.                 *)
FeedbackIsLastPost == \A o \in Outputs \ mixed : row[o] = last[o]

(* A candidate that is stored counts as exported exactly when a dataset    *)
(* version holds it, and only two exports that selected it at once put it  *)
(* into two, through deaths, refused names and retention.  A verdict that  *)
(* is revised after the selection is overwritten (exporter.py:54): that is *)
(* not seen here.                                                          *)
ExportedOnce ==
  /\ \A c \in candidates : c.status = "exported" <=> \E d \in datasets : c.number \in d.items
  /\ \A d, e \in datasets : d # e => d.items \cap e.items \subseteq shared

(* The file of a frozen dataset is the text whose digest its row carries:  *)
(* every line, whole, in order, and nothing left by an export that died    *)
(* or was refused before.  The code breaks this (exporter.py:33), and with *)
(* it the "immutable dataset version" of scripts/export_dataset.py:31, in  *)
(* exactly one case: another export with the same path opened or wrote the *)
(* file after this one had opened it, at the same time or long after, and  *)
(* even if that export was then refused its name or died.                  *)
ManifestMatchesFile ==
  \A d \in datasets : d.number \in disturbed \/ files[d.path] = d.text
================================================================================
