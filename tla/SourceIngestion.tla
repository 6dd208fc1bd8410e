---------------------------- MODULE SourceIngestion ----------------------------
(***************************************************************************)
(* A worker brings the sources of its job into the vector store and then   *)
(* retrieves evidence from it (services/source_ingestion.py,               *)
(* rag/repository.py, rag/retriever.py, the pipelines).  The files belong  *)
(* to the Django backend, which may replace one at any time; the job was   *)
(* accepted for the versions frozen then.  A document row stands for one   *)
(* version of one source and is shared by all jobs; every worker has a     *)
(* transaction of its own, whose writes nobody sees before it commits.     *)
(*                                                                         *)
(* A chunk row is the record of its document, its index and the job that   *)
(* inserted it.                                                            *)
(***************************************************************************)
EXTENDS Integers, Sequences, FiniteSets, SequencesExt

CONSTANTS Workers, Sources,
          Requests,    \* what jobs ask for: records of a task and a sequence of sources
          Indexes,     \* the chunk indexes of a document
          Readable,    \* the documents whose text can be extracted
          TopK,        \* settings.rag_rerank_top_k
          Edited,      \* bound: the sources the backend replaces
          MaxVersion,  \* bound: versions of a source
          MaxJobs,     \* bound: jobs begun in a behaviour
          MaxFaults    \* bound: database errors and crashes

Tasks == {"fahes", "kholasa", "khota", "rasheed", "sada"}
Documents == Sources \X (1..MaxVersion)
Nobody == "nobody"

ASSUME IngestionAssumption ==
  /\ Requests \subseteq [task : Tasks, sources : Seq(Sources)]
  /\ Readable \subseteq Documents
  /\ Indexes # {}
  /\ Nobody \notin Workers
  /\ TopK \in Nat /\ MaxVersion \in Nat \ {0} /\ MaxJobs \in Nat /\ MaxFaults \in Nat

VARIABLES
  served,   \* served[s]: the version the backend serves
  status,   \* status[d]: of the committed document row, "absent" without one
  chunks,   \* chunks[d]: its committed chunk rows
  lock,     \* lock[d]: the worker whose open transaction wrote d's row
  job,      \* job[w]: the job w performs and its uncommitted data
  begun,    \* number of jobs begun
  faults    \* number of database errors and crashes

store == <<status, chunks, lock>>
vars == <<served, status, chunks, lock, job, begun, faults>>

(* Committed statuses: a row in EXTRACTING or EMBEDDING is never committed. *)
Statuses == {"absent", "ready", "failed"}
Writing == {"creating", "extracting", "flushing", "embedding", "replacing", "failing"}
Steps == {"manifest", "lookup", "downloading", "asking", "retrieving", "generating"} \cup Writing

Idle == [pc |-> "idle", task |-> "rasheed", number |-> 0, frozen |-> [s \in Sources |-> 1],
         todo |-> <<>>, ensured |-> {}, found |-> "absent", pending |-> {}, evidence |-> {}]

Init ==
  /\ served = [s \in Sources |-> 1]
  /\ \E failed \in SUBSET Sources :   \* earlier jobs left these FAILED
       status = [d \in Documents |-> IF d[2] = 1 /\ d[1] \in failed THEN "failed" ELSE "absent"]
  /\ chunks = [d \in Documents |-> {}]
  /\ lock = [d \in Documents |-> Nobody]
  /\ job = [w \in Workers |-> Idle]
  /\ begun = 0 /\ faults = 0

Source(w) == Head(job[w].todo)
Doc(w) == <<Source(w), job[w].frozen[Source(w)]>>
Goto(w, pc) == job' = [job EXCEPT ![w].pc = pc]
End(w) == job' = [job EXCEPT ![w] = Idle]   \* the pipeline returned or raised
Unlocked(w) == [d \in Documents |-> IF lock[d] = w THEN Nobody ELSE lock[d]]

(* The backend replaces a file. *)
SourceChanges(s) ==
  /\ s \in Edited /\ served[s] < MaxVersion
  /\ served' = [served EXCEPT ![s] = @ + 1]
  /\ UNCHANGED <<store, job, begun, faults>>

(* A pipeline starts on a job accepted some time ago, for the versions its *)
(* sources had then (of the others it has none: 1 stands for that).  A     *)
(* study plan without sources, like a recommendation, goes on to its       *)
(* generation.                                                             *)
Start(w, request, frozen) ==
  /\ job[w].pc = "idle" /\ begun < MaxJobs
  /\ \A s \in Sources : frozen[s] <= served[s] /\ (frozen[s] > 1 => s \in ToSet(request.sources))
  /\ begun' = begun + 1
  /\ job' = [job EXCEPT ![w] =
       [Idle EXCEPT !.task = request.task, !.todo = request.sources, !.frozen = frozen,
                    !.number = begun + 1,
                    !.pc = IF request.sources = <<>> THEN "generating" ELSE "manifest"]]
  /\ UNCHANGED <<served, store, faults>>

(***************************************************************************)
(* ensure_ingested                                                         *)
(***************************************************************************)
(* The job fails when the backend serves another version than the frozen   *)
(* one.  A transcription ingests nothing: it downloads at once.            *)
GetManifest(w) ==
  /\ job[w].pc = "manifest"
  /\ IF served[Source(w)] = job[w].frozen[Source(w)]
     THEN Goto(w, IF job[w].task = "sada" THEN "downloading" ELSE "lookup")
     ELSE End(w)
  /\ UNCHANGED <<served, store, begun, faults>>

(* The backend is unreachable, refuses, or serves too large a file, or     *)
(* audio that is none.                                                     *)
BackendRefuses(w) ==
  /\ job[w].pc \in {"manifest", "downloading"}
  /\ End(w)
  /\ UNCHANGED <<served, store, begun, faults>>

(* The source is done with: the next one, or the retrieval. *)
Done(w) == job' = [job EXCEPT
  ![w].ensured = @ \cup {Source(w)}, ![w].todo = Tail(@), ![w].pending = {},
  ![w].pc = IF Len(job[w].todo) > 1 THEN "manifest" ELSE "asking"]

Lookup(w) ==
  /\ job[w].pc = "lookup"
  /\ \/ status[Doc(w)] = "ready" /\ Done(w)
     \/ /\ status[Doc(w)] # "ready"
        /\ job' = [job EXCEPT ![w].pc = "downloading", ![w].found = status[Doc(w)]]
  /\ UNCHANGED <<served, store, begun, faults>>

(* Size and checksum are those of the manifest, or the job fails. *)
Download(w) ==
  /\ job[w].pc = "downloading"
  /\ \/ served[Source(w)] # job[w].frozen[Source(w)] /\ End(w)
     \/ /\ served[Source(w)] = job[w].frozen[Source(w)]
        /\ Goto(w, CASE job[w].task = "sada"       -> "generating"
                     [] job[w].found = "absent"    -> "creating"
                     [] OTHER                      -> "extracting")
  /\ UNCHANGED <<served, store, begun, faults>>

(* INSERT in status EXTRACTING.  It waits for another uncommitted one; if  *)
(* that one commits, uq_source_version fails the job, outside the try.     *)
CreateDocument(w) ==
  /\ job[w].pc = "creating" /\ lock[Doc(w)] = Nobody
  /\ \/ /\ status[Doc(w)] = "absent"
        /\ lock' = [lock EXCEPT ![Doc(w)] = w]
        /\ Goto(w, "extracting")
     \/ /\ status[Doc(w)] # "absent"
        /\ End(w) /\ UNCHANGED lock
  /\ UNCHANGED <<served, status, chunks, begun, faults>>

\* Mutant of Extract: the check for empty chunks is dropped.
ExtractUnchecked(w) ==
  /\ job[w].pc = "extracting"
  /\ IF Doc(w) \in Readable
     THEN Goto(w, "flushing")
     ELSE job' = [job EXCEPT ![w].pc = "replacing", ![w].pending = {}]
  /\ UNCHANGED <<served, store, begun, faults>>

(* The document's format and text decide: readable pages give at least one *)
(* chunk.                                                                  *)
Extract(w) ==
  /\ job[w].pc = "extracting"
  /\ Goto(w, IF Doc(w) \in Readable THEN "flushing" ELSE "failing")
  /\ UNCHANGED <<served, store, begun, faults>>

\* Mutant of FlushStatus: the flush is a commit.
FlushStatusCommits(w) ==
  /\ job[w].pc = "flushing" /\ lock[Doc(w)] \in {Nobody, w}
  /\ status' = [status EXCEPT ![Doc(w)] = "embedding"]
  /\ lock' = [lock EXCEPT ![Doc(w)] = Nobody]
  /\ Goto(w, "embedding")
  /\ UNCHANGED <<served, chunks, begun, faults>>

(* The flushed UPDATE to EMBEDDING waits for the row and locks it. *)
FlushStatus(w) ==
  /\ job[w].pc = "flushing" /\ lock[Doc(w)] \in {Nobody, w}
  /\ lock' = [lock EXCEPT ![Doc(w)] = w]
  /\ Goto(w, "embedding")
  /\ UNCHANGED <<served, status, chunks, begun, faults>>

Rows(d, number) == {[doc |-> d, index |-> i, number |-> number] : i \in Indexes}

(* The first live provider that answers embeds all texts, unless none does. *)
EmbedDocuments(w) ==
  /\ job[w].pc = "embedding"
  /\ \/ job' = [job EXCEPT ![w].pc = "replacing", ![w].pending = Rows(Doc(w), job[w].number)]
     \/ Goto(w, "failing")
  /\ UNCHANGED <<served, store, begun, faults>>

\* Mutant of ReplaceChunks: the version is only committed with the job.
ReplaceChunksInJob(w) ==
  /\ job[w].pc = "replacing"
  /\ chunks' = [chunks EXCEPT ![Doc(w)] = job[w].pending]
  /\ status' = [status EXCEPT ![Doc(w)] = "ready"]
  /\ Done(w)
  /\ UNCHANGED <<served, lock, begun, faults>>

(* DELETE of the old chunks, INSERT of the new ones, READY, and COMMIT. *)
ReplaceChunks(w) ==
  /\ job[w].pc = "replacing"
  /\ chunks' = [chunks EXCEPT ![Doc(w)] = job[w].pending]
  /\ status' = [status EXCEPT ![Doc(w)] = "ready"]
  /\ lock' = [lock EXCEPT ![Doc(w)] = Nobody]
  /\ Done(w)
  /\ UNCHANGED <<served, begun, faults>>

\* Mutant of CommitFailed: a failed document loses its chunks.
CommitFailedEmpty(w) ==
  /\ job[w].pc = "failing" /\ lock[Doc(w)] \in {Nobody, w}
  /\ status' = [status EXCEPT ![Doc(w)] = "failed"]
  /\ chunks' = [chunks EXCEPT ![Doc(w)] = {}]
  /\ lock' = [lock EXCEPT ![Doc(w)] = Nobody]
  /\ End(w)
  /\ UNCHANGED <<served, begun, faults>>

(* The except clause: FAILED is committed, even over a READY that another  *)
(* job committed since this one looked, and the job fails.                 *)
CommitFailed(w) ==
  /\ job[w].pc = "failing" /\ lock[Doc(w)] \in {Nobody, w}
  /\ status' = [status EXCEPT ![Doc(w)] = "failed"]
  /\ lock' = [lock EXCEPT ![Doc(w)] = Nobody]
  /\ End(w)
  /\ UNCHANGED <<served, chunks, begun, faults>>

(***************************************************************************)
(* retrieve, and the rest of the pipeline                                  *)
(***************************************************************************)
(* The query is embedded by the first live provider too, whichever embedded *)
(* the chunks, or the job fails.                                           *)
EmbedQuery(w) ==
  /\ job[w].pc = "asking"
  /\ Goto(w, "retrieving") \/ End(w)
  /\ UNCHANGED <<served, store, begun, faults>>

\* Mutant of Retrievable: the clause on source_versions is dropped.
RetrievableInAnyVersion(w) == UNION {chunks[d] : d \in {e \in Documents : e[1] \in job[w].ensured}}
(* The chunks of the requested sources in the frozen versions, whatever    *)
(* the status of their document.                                           *)
Retrievable(w) == UNION {chunks[<<s, job[w].frozen[s]>>] : s \in job[w].ensured}

NeedsEvidence(task) == task \in {"fahes", "kholasa"}

(* Similarity, reranking and the size of the context leave any part of     *)
(* them, up to the limit.  Without evidence a quiz or a summary fails, a   *)
(* plan goes on.                                                           *)
Retrieve(w) ==
  /\ job[w].pc = "retrieving"
  /\ \E evidence \in {e \in SUBSET Retrievable(w) : Cardinality(e) <= TopK} :
       IF evidence = {} /\ NeedsEvidence(job[w].task)
       THEN End(w)
       ELSE job' = [job EXCEPT ![w].pc = "generating", ![w].evidence = evidence]
  /\ UNCHANGED <<served, store, begun, faults>>

(* The generation, and the check of its claims against the evidence. *)
Generate(w) ==
  /\ job[w].pc = "generating"
  /\ End(w)
  /\ UNCHANGED <<served, store, begun, faults>>

(***************************************************************************)
(* Faults                                                                  *)
(***************************************************************************)
(* A statement fails and leaves the session unusable, so that the except   *)
(* clause can not commit FAILED; or the worker process dies.  Either way   *)
(* everything uncommitted is rolled back.                                  *)
Abort(w) ==
  /\ faults < MaxFaults /\ faults' = faults + 1
  /\ job[w].pc \in Steps
  /\ lock' = Unlocked(w)
  /\ End(w)
  /\ UNCHANGED <<served, status, chunks, begun>>

Work(w) ==
  \/ GetManifest(w) \/ Lookup(w) \/ Download(w)
  \/ CreateDocument(w) \/ Extract(w) \/ FlushStatus(w) \/ EmbedDocuments(w)
  \/ ReplaceChunks(w) \/ CommitFailed(w)
  \/ EmbedQuery(w) \/ Retrieve(w) \/ Generate(w)

Next ==
  \/ \E w \in Workers : Work(w) \/ BackendRefuses(w) \/ Abort(w)
  \/ \E w \in Workers, request \in Requests, frozen \in [Sources -> 1..MaxVersion] :
       Start(w, request, frozen)
  \/ \E s \in Sources : SourceChanges(s)

(* Calls are bounded by their timeouts; PostgreSQL serves the waiters of a *)
(* row when its holder commits or rolls back.                              *)
Fairness == \A w \in Workers : WF_vars(Work(w))

Spec == Init /\ [][Next]_vars /\ Fairness

(***************************************************************************)
(* Properties                                                              *)
(***************************************************************************)
ChunkRows == [doc : Documents, index : Indexes, number : 0..MaxJobs]
JobRecords == [pc : {"idle"} \cup Steps, task : Tasks, number : 0..MaxJobs,
               frozen : [Sources -> 1..MaxVersion], todo : Seq(Sources),
               ensured : SUBSET Sources, found : {"absent", "failed"},
               pending : SUBSET ChunkRows, evidence : SUBSET ChunkRows]

TypeOK ==
  /\ served \in [Sources -> 1..MaxVersion]
  /\ status \in [Documents -> Statuses]
  /\ chunks \in [Documents -> SUBSET ChunkRows]
  /\ lock \in [Documents -> Workers \cup {Nobody}]
  /\ job \in [Workers -> JobRecords]
  /\ begun \in 0..MaxJobs /\ faults \in Nat

(* Whatever jobs ingest a version at once, fail or die, its committed      *)
(* chunks are those of one ingestion, complete, or there are none; and a   *)
(* READY version has them.                                                 *)
VersionIsWhole ==
  \A d \in Documents :
    /\ chunks[d] = {} \/ \E number \in 1..MaxJobs : chunks[d] = Rows(d, number)
    /\ status[d] = "ready" => chunks[d] # {}

(* What ensure_ingested has returned for stays retrievable until the job   *)
(* ends, though another job may replace the chunks, or mark the version    *)
(* FAILED again.                                                           *)
EnsuredStaysRetrievable ==
  \A w \in Workers : \A s \in job[w].ensured : chunks[<<s, job[w].frozen[s]>>] # {}

(* A job never uses newer (or older) material than it was accepted for     *)
(* (freeze_source_versions), although every version ingested stays in the  *)
(* store.                                                                  *)
EvidenceIsFrozen ==
  \A w \in Workers : \A r \in job[w].evidence :
    r.doc[1] \in job[w].ensured /\ r.doc[2] = job[w].frozen[r.doc[1]]

(* Every job ends, though it holds the row of a version during the calls   *)
(* to the embedding providers and others ingest the same sources in        *)
(* another order.                                                          *)
JobEnds == \A w \in Workers : job[w].pc \in Steps ~> job[w].pc = "idle"
================================================================================
