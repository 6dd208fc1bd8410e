---------------------------- MODULE DocumentProofs ----------------------------
(***************************************************************************)
(* What happens to a document: its ingestion (SourceIngestion), the        *)
(* cutting of its text into chunks (Chunker), and the way from chunks to   *)
(* checked claims (Evidence).  The three share no variable; each has its   *)
(* invariant and its theorems, for any number of workers, sources and      *)
(* jobs, any texts, any size and overlap of chunks and any limits.         *)
(***************************************************************************)
EXTENDS SourceIngestion, Evidence, TLAPS, SequenceTheorems, FiniteSetTheorems,
        WellFoundedInduction

(***************************************************************************)
(* Ingestion: an invariant of the store together with one of each job's    *)
(* record; a step changes one record at most, and the store only so that   *)
(* what had chunks still has them.                                         *)
(***************************************************************************)

WithSource == {"manifest", "lookup", "downloading"} \cup Writing

(* A job that is at a source has it before it; what it is about to commit  *)
(* is complete; what it ensured is there; what it found is what it ensured.*)
JobOK(r, rows) ==
  /\ r.pc \in WithSource => r.todo # <<>>
  /\ r.pc = "replacing" =>
       /\ r.number > 0
       /\ r.pending = Rows(<<Head(r.todo), r.frozen[Head(r.todo)]>>, r.number)
  /\ r.pc # "idle" => r.number > 0
  /\ \A s \in r.ensured : rows[<<s, r.frozen[s]>>] # {}
  /\ \A e \in r.evidence : e.doc[1] \in r.ensured /\ e.doc[2] = r.frozen[e.doc[1]]

JobsOK == \A w \in Workers : JobOK(job[w], chunks)

IInv == TypeOK /\ VersionIsWhole /\ JobsOK

StoreKept ==
  /\ served' \in [Sources -> 1..MaxVersion]
  /\ status' \in [Documents -> Statuses]
  /\ chunks' \in [Documents -> SUBSET ChunkRows]
  /\ lock' \in [Documents -> Workers \cup {Nobody}]
  /\ begun' \in 0..MaxJobs /\ faults' \in Nat
  /\ VersionIsWhole'
  /\ \A d \in Documents : chunks[d] # {} => chunks'[d] # {}

\* A step that writes one job's record keeps the invariant if the record and the store
\* are well.
LEMMA OneJobMoves ==
  ASSUME IInv, StoreKept, NEW w \in Workers, NEW r \in JobRecords,
         job' = [job EXCEPT ![w] = r], JobOK(r, chunks')
  PROVE  IInv'
<1>1. TypeOK'
  BY DEF IInv, TypeOK, StoreKept
<1>2. ASSUME NEW v \in Workers PROVE JobOK(job[v], chunks)'
  <2>1. CASE v = w
    BY <2>1 DEF IInv, TypeOK, JobOK
  <2>2. CASE v # w
    <3>1. job'[v] = job[v] /\ JobOK(job[v], chunks)
      BY <2>2 DEF IInv, JobsOK
    <3>2. \A s \in job[v].ensured : <<s, job[v].frozen[s]>> \in Documents
      BY DEF IInv, TypeOK, JobRecords, Documents
    <3> QED
      BY <3>1, <3>2 DEF JobOK, StoreKept
  <2> QED
    BY <2>1, <2>2
<1> QED
  BY <1>1, <1>2 DEF IInv, JobsOK, StoreKept

\* The store is kept by a step that leaves it alone.
LEMMA StoreUntouched ==
  ASSUME IInv, UNCHANGED <<served, store, begun, faults>>
  PROVE  StoreKept /\ chunks' = chunks
BY DEF IInv, TypeOK, VersionIsWhole, StoreKept, store

LEMMA IdleIsOK == Idle \in JobRecords /\ JobOK(Idle, chunks) /\ JobOK(Idle, chunks')
BY IngestionAssumption DEF Idle, JobRecords, JobOK, Tasks, WithSource, Writing

LEMMA InitIsOK == Init => IInv
<1> SUFFICES ASSUME Init PROVE IInv
  OBVIOUS
<1>1. TypeOK
  <2>1. \A d \in Documents : status[d] \in Statuses
    BY DEF Init, Statuses
  <2> QED
    BY <2>1, IdleIsOK, IngestionAssumption DEF Init, TypeOK, Statuses
<1>2. VersionIsWhole
  BY DEF Init, VersionIsWhole
<1> QED
  BY <1>1, <1>2, IdleIsOK DEF Init, IInv, JobsOK

(***************************************************************************)
(* The steps                                                               *)
(***************************************************************************)
\* What a working job has: a source before it, unless it is past all of them.
LEMMA CurrentSource ==
  ASSUME IInv, NEW w \in Workers, job[w].pc \in WithSource
  PROVE  /\ job[w].todo # <<>> /\ job[w] \in JobRecords
         /\ Source(w) \in Sources /\ Doc(w) \in Documents
         /\ Tail(job[w].todo) \in Seq(Sources)
         /\ Len(job[w].todo) > 1 => Tail(job[w].todo) # <<>>
<1>1. job[w] \in JobRecords /\ job[w].todo # <<>> /\ job[w].todo \in Seq(Sources)
  BY DEF IInv, TypeOK, JobsOK, JobOK, JobRecords
<1>2. Head(job[w].todo) \in Sources /\ Tail(job[w].todo) \in Seq(Sources)
      /\ Len(Tail(job[w].todo)) = Len(job[w].todo) - 1
  BY <1>1, HeadTailProperties
<1>3. Len(job[w].todo) > 1 => Tail(job[w].todo) # <<>>
  <2> DEFINE rest == Tail(job[w].todo)
             length == Len(job[w].todo)
  <2>1. length \in Nat
    BY <1>1, LenProperties
  <2>2. Len(rest) = length - 1
    BY <1>2
  <2>3. rest = <<>> => Len(rest) = 0
    BY EmptySeq
  <2> HIDE DEF rest, length
  <2>4. length > 1 => rest # <<>>
    BY <2>1, <2>2, <2>3
  <2> QED
    BY <2>4 DEF rest, length
<1> QED
  BY <1>1, <1>2, <1>3 DEF Source, Doc, Documents, JobRecords

\* A step that only moves the job on to next, or ends it.
LEMMA MovingOn ==
  ASSUME IInv, NEW w \in Workers, StoreKept,
         NEW next \in Steps, job[w].pc \in Steps,
         next \in WithSource => job[w].pc \in WithSource,
         next # "replacing",
         Goto(w, next)
  PROVE  IInv'
<1> DEFINE r == [job[w] EXCEPT !.pc = next]
<1>1. r \in JobRecords
  BY DEF IInv, TypeOK, JobRecords
<1>2. job' = [job EXCEPT ![w] = r]
  BY DEF Goto
<1>3. JobOK(job[w], chunks) /\ \A s \in job[w].ensured : <<s, job[w].frozen[s]>> \in Documents
  BY DEF IInv, TypeOK, JobsOK, JobRecords, Documents
<1>4. job[w].pc # "idle"
  BY DEF Steps, Writing
<1>5. JobOK(r, chunks')
  BY <1>3, <1>4 DEF JobOK, StoreKept, IInv, TypeOK, JobRecords
<1> QED
  BY <1>1, <1>2, <1>5, OneJobMoves

LEMMA Ending ==
  ASSUME IInv, NEW w \in Workers, StoreKept, End(w)
  PROVE  IInv'
BY IdleIsOK, OneJobMoves DEF End

LEMMA StartIsSafe ==
  ASSUME IInv, NEW w \in Workers, NEW request \in Requests,
         NEW frozen \in [Sources -> 1..MaxVersion], Start(w, request, frozen)
  PROVE  IInv'
<1> DEFINE r == [Idle EXCEPT !.task = request.task, !.todo = request.sources, !.frozen = frozen,
                             !.number = begun + 1,
                             !.pc = IF request.sources = <<>> THEN "generating" ELSE "manifest"]
<1>1. begun + 1 \in 1..MaxJobs
  BY IngestionAssumption DEF Start, IInv, TypeOK
<1>2. request.task \in Tasks /\ request.sources \in Seq(Sources)
  BY IngestionAssumption
<1>3. StoreKept
  <2>1. begun' \in 0..MaxJobs /\ UNCHANGED <<served, status, chunks, lock, faults>>
    BY <1>1, IngestionAssumption DEF Start, store
  <2> QED
    BY <2>1 DEF IInv, TypeOK, VersionIsWhole, StoreKept
<1>4. r \in JobRecords
  <2>1. begun + 1 \in 0..MaxJobs
    BY <1>1, IngestionAssumption
  <2> QED
    BY <1>2, <2>1, IdleIsOK DEF JobRecords, Steps
<1>5. JobOK(r, chunks')
  BY <1>1, <1>2 DEF Idle, JobOK, WithSource, Writing
<1>6. job' = [job EXCEPT ![w] = r]
  BY DEF Start
<1> QED
  BY <1>3, <1>4, <1>5, <1>6, OneJobMoves

\* The source is done with: it joins the ensured ones, whose chunks are there.
LEMMA DoneIsSafe ==
  ASSUME IInv, NEW w \in Workers, job[w].pc \in WithSource, StoreKept,
         chunks'[Doc(w)] # {}, Done(w)
  PROVE  IInv'
<1> DEFINE r == [job[w] EXCEPT !.ensured = @ \cup {Source(w)}, !.todo = Tail(@), !.pending = {},
                               !.pc = IF Len(job[w].todo) > 1 THEN "manifest" ELSE "asking"]
<1>1. r \in JobRecords
  BY CurrentSource, ZenonT(60) DEF JobRecords, Steps, Source
<1>2. job' = [job EXCEPT ![w] = r]
  BY DEF Done
<1>3. JobOK(job[w], chunks) /\ job[w].pc # "idle"
      /\ \A s \in job[w].ensured : <<s, job[w].frozen[s]>> \in Documents
  BY DEF IInv, TypeOK, JobsOK, JobRecords, Documents, WithSource, Writing
<1>4. \A s \in r.ensured : chunks'[<<s, r.frozen[s]>>] # {}
  BY <1>3, CurrentSource, ZenonT(60) DEF JobOK, StoreKept, Doc, JobRecords
<1>5. r.ensured = job[w].ensured \cup {Source(w)} /\ r.todo = Tail(job[w].todo)
      /\ r.frozen = job[w].frozen /\ r.number = job[w].number /\ r.evidence = job[w].evidence
      /\ r.pc = IF Len(job[w].todo) > 1 THEN "manifest" ELSE "asking"
  BY CurrentSource DEF JobRecords
<1>6. r.pc \in WithSource => r.todo # <<>>
  BY <1>5, CurrentSource DEF WithSource, Writing
<1>7. JobOK(r, chunks')
  BY <1>3, <1>4, <1>5, <1>6 DEF JobOK
<1> HIDE DEF r
<1> QED
  BY <1>1, <1>2, <1>7, OneJobMoves

LEMMA EmbedIsSafe ==
  ASSUME IInv, NEW w \in Workers, EmbedDocuments(w)
  PROVE  IInv'
<1> DEFINE r == [job[w] EXCEPT !.pc = "replacing", !.pending = Rows(Doc(w), job[w].number)]
<1>0. StoreKept /\ chunks' = chunks
  BY StoreUntouched DEF EmbedDocuments
<1>1. job[w].pc \in WithSource /\ job[w].pc \in Steps
  BY DEF EmbedDocuments, WithSource, Steps, Writing
<1>2. CASE job' = [job EXCEPT ![w] = r]
  <2>0. JobOK(job[w], chunks) /\ job[w].number \in 0..MaxJobs
    BY DEF IInv, TypeOK, JobsOK, JobRecords
  <2>1. JobOK(job[w], chunks) /\ job[w].number \in 1..MaxJobs
    BY <1>1, <2>0, IngestionAssumption DEF JobOK, WithSource, Writing
  <2>2. Rows(Doc(w), job[w].number) \subseteq ChunkRows
    BY <1>1, <2>1, CurrentSource DEF Rows, ChunkRows
  <2>3. r \in JobRecords
    BY <1>1, <2>2, CurrentSource, ZenonT(60) DEF JobRecords, Steps, Writing
  <2>4. JobOK(r, chunks')
    BY <1>0, <1>1, <2>1, CurrentSource DEF JobOK, JobRecords, Doc, Source, WithSource, Writing
  <2> QED
    BY <1>0, <1>2, <2>3, <2>4, OneJobMoves
<1>3. CASE Goto(w, "failing")
  BY <1>0, <1>1, <1>3, MovingOn DEF Steps, Writing, WithSource
<1> QED
  BY <1>2, <1>3 DEF EmbedDocuments

LEMMA ReplaceIsSafe ==
  ASSUME IInv, NEW w \in Workers, ReplaceChunks(w)
  PROVE  IInv'
<1>1. job[w].pc \in WithSource
  BY DEF ReplaceChunks, WithSource, Writing
<1>2. /\ job[w].number \in 1..MaxJobs
      /\ job[w].pending = Rows(Doc(w), job[w].number)
      /\ job[w].pending \subseteq ChunkRows
  BY <1>1 DEF ReplaceChunks, IInv, TypeOK, JobsOK, JobOK, JobRecords, Doc, Source
<1>3. job[w].pending # {}
  BY <1>2, IngestionAssumption DEF Rows
<1>4. chunks'[Doc(w)] = job[w].pending
  BY <1>1, CurrentSource DEF ReplaceChunks, IInv, TypeOK
<1>5. StoreKept
  <2>1. chunks' \in [Documents -> SUBSET ChunkRows] /\ status' \in [Documents -> Statuses]
        /\ lock' \in [Documents -> Workers \cup {Nobody}]
    BY <1>2 DEF ReplaceChunks, IInv, TypeOK, Statuses
  <2>2. VersionIsWhole'
    BY <1>1, <1>2, <1>3, CurrentSource DEF ReplaceChunks, IInv, TypeOK, VersionIsWhole
  <2>3. \A d \in Documents : chunks[d] # {} => chunks'[d] # {}
    BY <1>3 DEF ReplaceChunks, IInv, TypeOK
  <2> QED
    BY <2>1, <2>2, <2>3 DEF StoreKept, ReplaceChunks, IInv, TypeOK
<1> QED
  BY <1>1, <1>3, <1>4, <1>5, DoneIsSafe DEF ReplaceChunks

\* A step that leaves the chunks alone and writes a status that needs none.
LEMMA FailedIsSafe ==
  ASSUME IInv, NEW w \in Workers, CommitFailed(w)
  PROVE  IInv'
<1>1. StoreKept
  BY DEF CommitFailed, IInv, TypeOK, VersionIsWhole, StoreKept, Statuses
<1> QED
  BY <1>1, Ending DEF CommitFailed

LEMMA RetrieveIsSafe ==
  ASSUME IInv, NEW w \in Workers, Retrieve(w)
  PROVE  IInv'
<1>0. StoreKept /\ chunks' = chunks
  BY StoreUntouched DEF Retrieve
<1>1. PICK evidence \in SUBSET Retrievable(w) :
        \/ End(w)
        \/ job' = [job EXCEPT ![w].pc = "generating", ![w].evidence = evidence]
  BY DEF Retrieve
<1> DEFINE r == [job[w] EXCEPT !.pc = "generating", !.evidence = evidence]
<1>2. CASE job' = [job EXCEPT ![w] = r]
  <2>1. JobOK(job[w], chunks) /\ job[w] \in JobRecords /\ job[w].pc = "retrieving"
    BY DEF IInv, TypeOK, JobsOK, Retrieve
  <2>2. ASSUME NEW e \in evidence
        PROVE  e \in ChunkRows /\ e.doc[1] \in job[w].ensured /\ e.doc[2] = job[w].frozen[e.doc[1]]
    <3>1. PICK s \in job[w].ensured : e \in chunks[<<s, job[w].frozen[s]>>]
      BY <2>2 DEF Retrievable
    <3>2. <<s, job[w].frozen[s]>> \in Documents
      BY <2>1 DEF JobRecords, Documents
    <3>3. PICK number \in 1..MaxJobs : e \in Rows(<<s, job[w].frozen[s]>>, number)
      BY <3>1, <3>2 DEF IInv, VersionIsWhole
    <3>4. e.doc = <<s, job[w].frozen[s]>>
      BY <3>3 DEF Rows
    <3> QED
      BY <3>1, <3>2, <3>4 DEF IInv, TypeOK
  <2>3. r \in JobRecords
    BY <2>1, <2>2 DEF JobRecords, Steps
  <2>4. JobOK(r, chunks')
    BY <1>0, <2>1, <2>2 DEF JobOK, JobRecords, WithSource, Writing
  <2> QED
    BY <1>0, <1>2, <2>3, <2>4, OneJobMoves
<1> QED
  BY <1>0, <1>1, <1>2, Ending

LEMMA WorkIsSafe ==
  ASSUME IInv, NEW w \in Workers, Work(w)
  PROVE  IInv'
<1> USE DEF WithSource, Steps, Writing
<1>1. CASE GetManifest(w)
  BY <1>1, StoreUntouched, MovingOn, Ending DEF GetManifest
<1>2. CASE Lookup(w)
  <2>1. StoreKept /\ chunks' = chunks
    BY <1>2, StoreUntouched DEF Lookup
  <2>2. CASE status[Doc(w)] = "ready" /\ Done(w)
    <3>1. chunks'[Doc(w)] # {}
      BY <1>2, <2>1, <2>2, CurrentSource DEF Lookup, IInv, VersionIsWhole
    <3> QED
      BY <1>2, <2>1, <2>2, <3>1, DoneIsSafe DEF Lookup
  <2>3. CASE job' = [job EXCEPT ![w].pc = "downloading", ![w].found = status[Doc(w)]]
              /\ status[Doc(w)] # "ready"
    <3> DEFINE r == [job[w] EXCEPT !.pc = "downloading", !.found = status[Doc(w)]]
    <3>1. job[w].pc \in WithSource /\ JobOK(job[w], chunks)
      BY <1>2 DEF Lookup, IInv, JobsOK
    <3>2. status[Doc(w)] \in {"absent", "failed"}
      BY <2>3, <3>1, CurrentSource DEF IInv, TypeOK, Statuses
    <3>3. r \in JobRecords
      BY <3>1, <3>2, CurrentSource, ZenonT(60) DEF JobRecords
    <3>4. JobOK(r, chunks')
      BY <2>1, <3>1, CurrentSource DEF JobOK, JobRecords
    <3> QED
      BY <2>1, <2>3, <3>3, <3>4, OneJobMoves
  <2> QED
    BY <1>2, <2>2, <2>3 DEF Lookup
<1>3. CASE Download(w)
  BY <1>3, StoreUntouched, MovingOn, Ending DEF Download
<1>4. CASE CreateDocument(w)
  <2>1. StoreKept
    BY <1>4, CurrentSource DEF CreateDocument, IInv, TypeOK, VersionIsWhole, StoreKept
  <2> QED
    BY <1>4, <2>1, MovingOn, Ending DEF CreateDocument
<1>5. CASE Extract(w)
  BY <1>5, StoreUntouched, MovingOn DEF Extract
<1>6. CASE FlushStatus(w)
  <2>1. StoreKept
    BY <1>6 DEF FlushStatus, IInv, TypeOK, VersionIsWhole, StoreKept
  <2> QED
    BY <1>6, <2>1, MovingOn DEF FlushStatus
<1>7. CASE EmbedQuery(w)
  BY <1>7, StoreUntouched, MovingOn, Ending DEF EmbedQuery
<1>8. CASE Generate(w)
  BY <1>8, StoreUntouched, Ending DEF Generate
<1> QED
  BY <1>1, <1>2, <1>3, <1>4, <1>5, <1>6, <1>7, <1>8,
     EmbedIsSafe, ReplaceIsSafe, FailedIsSafe, RetrieveIsSafe DEF Work

LEMMA NextIsSafe == IInv /\ [Next]_vars => IInv'
<1> SUFFICES ASSUME IInv, [Next]_vars PROVE IInv'
  OBVIOUS
<1>1. ASSUME NEW w \in Workers, Work(w) PROVE IInv'
  BY <1>1, WorkIsSafe
<1>2. ASSUME NEW w \in Workers, BackendRefuses(w) PROVE IInv'
  BY <1>2, StoreUntouched, Ending DEF BackendRefuses
<1>3. ASSUME NEW w \in Workers, Abort(w) PROVE IInv'
  <2>1. StoreKept
    BY <1>3 DEF Abort, Unlocked, IInv, TypeOK, VersionIsWhole, StoreKept
  <2> QED
    BY <1>3, <2>1, Ending DEF Abort
<1>4. ASSUME NEW w \in Workers, NEW request \in Requests,
             NEW frozen \in [Sources -> 1..MaxVersion], Start(w, request, frozen)
      PROVE  IInv'
  BY <1>4, StartIsSafe
<1>5. ASSUME NEW s \in Sources, SourceChanges(s) PROVE IInv'
  <2>1. served' \in [Sources -> 1..MaxVersion]
    BY <1>5, IngestionAssumption DEF SourceChanges, IInv, TypeOK
  <2> QED
    BY <1>5, <2>1 DEF SourceChanges, IInv, TypeOK, VersionIsWhole, JobsOK, JobOK, store
<1>6. CASE UNCHANGED vars
  BY <1>6 DEF vars, IInv, TypeOK, VersionIsWhole, JobsOK, JobOK
<1> QED
  BY <1>1, <1>2, <1>3, <1>4, <1>5, <1>6 DEF Next

(***************************************************************************)
(* The theorems                                                            *)
(***************************************************************************)
\* The store is whole and every job's record agrees with it, in every reachable state.
THEOREM IngestionInvariance == Spec => []IInv
BY InitIsOK, NextIsSafe, PTL DEF Spec

\* Type correctness of SourceIngestion: in particular no row is committed in a passing status.
THEOREM IngestionTypeCorrect == Spec => []TypeOK
BY IngestionInvariance, PTL DEF IInv

\* The committed chunks of a version are those of one ingestion, whoever raced or died.
THEOREM VersionsAreWhole == Spec => []VersionIsWhole
BY IngestionInvariance, PTL DEF IInv

\* What ensure_ingested has returned for stays retrievable until the job ends.
THEOREM EnsuredIsKept == Spec => []EnsuredStaysRetrievable
<1>1. IInv => EnsuredStaysRetrievable
  BY DEF IInv, JobsOK, JobOK, EnsuredStaysRetrievable
<1> QED
  BY <1>1, IngestionInvariance, PTL

\* All evidence of a job is of the versions its acceptance froze.
THEOREM FrozenEvidence == Spec => []EvidenceIsFrozen
<1>1. IInv => EvidenceIsFrozen
  BY DEF IInv, JobsOK, JobOK, EvidenceIsFrozen
<1> QED
  BY <1>1, IngestionInvariance, PTL

(***************************************************************************)
(* Texts                                                                   *)
(***************************************************************************)
\* Induction by least counterexample: a set of natural numbers has a least.
LEMMA LeastNatural ==
  ASSUME NEW T \in SUBSET Nat, T # {}
  PROVE  \E n \in T : \A m \in T : n <= m
<1> DEFINE R == OpToRel(<, Nat)
<1>1. IsWellFoundedOn(R, Nat)
  BY NatLessThanWellFounded
<1>2. \A x, y \in Nat : x < y => <<x, y>> \in R
  BY DEF OpToRel
<1> HIDE DEF R
<1>3. \E x \in T : \A y \in T : ~ (<<y, x>> \in R)
  BY <1>1, WFMin, Zenon
<1>4. PICK x \in T : \A y \in T : ~ (<<y, x>> \in R)
  BY <1>3
<1>5. ASSUME NEW y \in T PROVE x <= y
  <2>1. ~ (y < x)
    BY <1>2, <1>4, Zenon
  <2> QED
    BY <2>1
<1> QED
  BY <1>5

\* And one of bounded ones a greatest.
LEMMA GreatestUpTo ==
  ASSUME NEW n \in Nat, NEW T \in SUBSET (1..n), T # {}
  PROVE  \E i \in T : \A j \in T : i >= j
<1> DEFINE U == {k \in Nat : n - k \in T}
<1>1. PICK t \in T : TRUE
  OBVIOUS
<1>2. n - t \in U
  OBVIOUS
<1>3. PICK k \in U : \A m \in U : k <= m
  BY <1>2, LeastNatural
<1>4. ASSUME NEW j \in T PROVE n - k >= j
  <2>1. n - j \in U /\ j \in 1..n /\ k \in Nat
    OBVIOUS
  <2>2. k <= n - j
    BY <1>3, <2>1
  <2> QED
    BY <2>1, <2>2
<1> QED
  BY <1>3, <1>4

Text == Seq(Characters)

\* Stripping leaves the stretch from the first character that is not a space to the last.
LEMMA StrippedText ==
  ASSUME NEW text \in Text
  PROVE  /\ Stripped(text) \in Text
         /\ Stripped(text) = <<>> \/ Solid(Stripped(text))
         /\ \E a \in 0..Len(text) :
              /\ a + Len(Stripped(text)) <= Len(text)
              /\ \A k \in 1..Len(Stripped(text)) : Stripped(text)[k] = text[a + k]
              /\ \A k \in 1..Len(text) :
                   text[k] # Space => a < k /\ k <= a + Len(Stripped(text))
<1> DEFINE Inner == {i \in DOMAIN text : text[i] # Space}
           first == CHOOSE i \in Inner : \A j \in Inner : i <= j
           last == CHOOSE i \in Inner : \A j \in Inner : i >= j
<1>1. Len(text) \in Nat /\ DOMAIN text = 1..Len(text)
      /\ \A k \in 1..Len(text) : text[k] \in Characters
  BY LenProperties, ElementOfSeq DEF Text
<1>2. CASE Inner = {}
  <2>1. Stripped(text) = <<>>
    BY <1>2 DEF Stripped
  <2>2. Stripped(text) \in Text /\ Len(Stripped(text)) = 0
    BY <2>1, EmptySeq DEF Text
  <2>3. \A k \in 1..Len(text) : text[k] = Space
    BY <1>1, <1>2
  <2>4. 0 \in 0..Len(text)
    BY <1>1
  <2> QED
    BY <1>1, <2>1, <2>2, <2>3, <2>4
<1>3. CASE Inner # {}
  <2>1. Inner \in SUBSET Nat /\ Inner \in SUBSET (1..Len(text))
    BY <1>1
  <2>2. first \in Inner /\ \A j \in Inner : first <= j
    <3>1. \E i \in Inner : \A j \in Inner : i <= j
      BY <1>3, <2>1, LeastNatural
    <3> QED
      BY <3>1
  <2>3. last \in Inner /\ \A j \in Inner : last >= j
    <3>1. \E i \in Inner : \A j \in Inner : i >= j
      BY <1>1, <1>3, <2>1, GreatestUpTo
    <3> QED
      BY <3>1
  <2>4. Stripped(text) = SubSeq(text, first, last)
    BY <1>3 DEF Stripped
  <2>5. /\ first \in 1..Len(text) /\ last \in 1..Len(text) /\ first <= last
        /\ text[first] # Space /\ text[last] # Space
        /\ \A k \in 1..Len(text) : text[k] # Space => first <= k /\ k <= last
    BY <1>1, <2>1, <2>2, <2>3
  <2> HIDE DEF Inner, first, last
  <2>6. /\ Stripped(text) \in Text
        /\ Len(Stripped(text)) = last - first + 1
        /\ \A k \in 1..last - first + 1 : Stripped(text)[k] = text[first + k - 1]
    <3>1. first \in Int /\ last \in Int /\ \A k \in first..last : text[k] \in Characters
      BY <1>1, <2>5
    <3>2. /\ SubSeq(text, first, last) \in Seq(Characters)
          /\ Len(SubSeq(text, first, last)) = IF first <= last THEN last - first + 1 ELSE 0
          /\ \A k \in 1..last - first + 1 : SubSeq(text, first, last)[k] = text[first + k - 1]
      BY <3>1, SubSeqProperties
    <3> QED
      BY <2>4, <2>5, <3>2 DEF Text
  <2>7. Solid(Stripped(text))
    <3>1. Stripped(text)[1] = text[first] /\ Stripped(text)[Len(Stripped(text))] = text[last]
      BY <1>1, <2>5, <2>6
    <3>2. Stripped(text) # <<>>
      BY <1>1, <2>5, <2>6, EmptySeq
    <3> QED
      BY <2>5, <3>1, <3>2 DEF Solid
  <2>8. \A k \in 1..Len(Stripped(text)) : Stripped(text)[k] = text[(first - 1) + k]
    BY <1>1, <2>5, <2>6
  <2>9. first - 1 \in 0..Len(text) /\ (first - 1) + Len(Stripped(text)) <= Len(text)
    BY <1>1, <2>5, <2>6
  <2>10. \A k \in 1..Len(text) :
           text[k] # Space => first - 1 < k /\ k <= (first - 1) + Len(Stripped(text))
    BY <1>1, <2>5, <2>6
  <2> QED
    BY <2>6, <2>7, <2>8, <2>9, <2>10
<1> QED
  BY <1>2, <1>3

\* Joining puts one space between two texts.
LEMMA JoinedText ==
  ASSUME NEW text \in Text, NEW next \in Text
  PROVE  /\ Joined(text, next) \in Text
         /\ Len(Joined(text, next)) = Len(text) + 1 + Len(next)
         /\ \A k \in 1..Len(text) : Joined(text, next)[k] = text[k]
         /\ Joined(text, next)[Len(text) + 1] = Space
         /\ \A k \in 1..Len(next) : Joined(text, next)[Len(text) + 1 + k] = next[k]
<1>1. <<Space>> \in Text /\ Len(<<Space>>) = 1 /\ <<Space>>[1] = Space
  BY ChunkerAssumption DEF Text
<1> DEFINE left == text \o <<Space>>
<1>2. /\ left \in Text /\ Len(left) = Len(text) + 1
      /\ \A k \in 1..Len(text) + 1 : left[k] = IF k <= Len(text) THEN text[k] ELSE Space
  <2>1. /\ left \in Seq(Characters)
        /\ Len(left) = Len(text) + Len(<<Space>>)
        /\ \A i \in 1 .. Len(text) + Len(<<Space>>) :
             left[i] = IF i <= Len(text) THEN text[i] ELSE <<Space>>[i - Len(text)]
    BY <1>1, ConcatProperties, Zenon DEF Text
  <2>2. Len(text) \in Nat
    BY LenProperties DEF Text
  <2> QED
    BY <1>1, <2>1, <2>2 DEF Text
<1> HIDE DEF left
<1>3. /\ left \o next \in Seq(Characters)
      /\ Len(left \o next) = Len(left) + Len(next)
      /\ \A i \in 1 .. Len(left) + Len(next) :
           (left \o next)[i] = IF i <= Len(left) THEN left[i] ELSE next[i - Len(left)]
  BY <1>2, ConcatProperties, Zenon DEF Text
<1>4. Len(text) \in Nat /\ Len(next) \in Nat
  BY LenProperties DEF Text
<1>5. Joined(text, next) = left \o next
  BY DEF Joined, left
<1> QED
  BY <1>2, <1>3, <1>4, <1>5 DEF Text

\* The end of a text is all of it, or as much as the overlap.
LEMMA TailText ==
  ASSUME NEW text \in Text, overlap \in Nat
  PROVE  /\ TailOf(text) \in Text
         /\ Len(TailOf(text)) = IF Len(text) > overlap THEN overlap ELSE Len(text)
         /\ \A k \in 1..Len(TailOf(text)) :
              TailOf(text)[k] = text[Len(text) - Len(TailOf(text)) + k]
<1> DEFINE first == IF Len(text) > overlap THEN Len(text) - overlap + 1 ELSE 1
<1>1. Len(text) \in Nat /\ \A k \in 1..Len(text) : text[k] \in Characters
  BY LenProperties, ElementOfSeq DEF Text
<1>2. first \in 1..Len(text) + 1
  BY <1>1
<1> HIDE DEF first
<1>3. /\ first \in Int /\ Len(text) \in Int
      /\ \A k \in first..Len(text) : text[k] \in Characters
  BY <1>1, <1>2
<1>4. /\ SubSeq(text, first, Len(text)) \in Seq(Characters)
      /\ Len(SubSeq(text, first, Len(text))) = IF first <= Len(text) THEN Len(text) - first + 1 ELSE 0
      /\ \A k \in 1..Len(text) - first + 1 :
           SubSeq(text, first, Len(text))[k] = text[first + k - 1]
  BY <1>3, SubSeqProperties
<1>5. TailOf(text) = SubSeq(text, first, Len(text))
  BY DEF TailOf, first
<1>6. /\ Len(TailOf(text)) = Len(text) - first + 1
      /\ \A k \in 1..Len(text) - first + 1 : TailOf(text)[k] = text[first + k - 1]
  BY <1>1, <1>2, <1>4, <1>5
<1>7. Len(TailOf(text)) = IF Len(text) > overlap THEN overlap ELSE Len(text)
  BY <1>1, <1>6 DEF first
<1>8. \A k \in 1..Len(TailOf(text)) : TailOf(text)[k] = text[Len(text) - Len(TailOf(text)) + k]
  BY <1>1, <1>2, <1>6
<1> QED
  BY <1>4, <1>5, <1>7, <1>8 DEF Text

(***************************************************************************)
(* Stretches of texts                                                      *)
(***************************************************************************)
\* A stretch of a text is a text, within it.
LEMMA StretchOfText ==
  ASSUME NEW text \in Text, NEW i \in 1..Len(text), NEW j \in 1..Len(text), i <= j
  PROVE  /\ SubSeq(text, i, j) \in Text
         /\ Len(SubSeq(text, i, j)) = j - i + 1
         /\ \A k \in 1..j - i + 1 : SubSeq(text, i, j)[k] = text[i + k - 1]
<1>1. i \in Int /\ j \in Int /\ \A k \in i..j : text[k] \in Characters
  BY LenProperties, ElementOfSeq DEF Text
<1> QED
  BY <1>1, SubSeqProperties DEF Text

LEMMA WithinItself == ASSUME NEW text \in Text PROVE Within(text, text)
<1>1. Len(text) \in Nat
  BY LenProperties DEF Text
<1>2. 0 \in 0..Len(text) - Len(text) /\ \A k \in 1..Len(text) : text[0 + k] = text[k]
  BY <1>1
<1> QED
  BY <1>2 DEF Within

LEMMA WithinTransitive ==
  ASSUME NEW part \in Text, NEW middle \in Text, NEW text \in Text,
         Within(part, middle), Within(middle, text)
  PROVE  Within(part, text)
<1>1. Len(part) \in Nat /\ Len(middle) \in Nat /\ Len(text) \in Nat
  BY LenProperties DEF Text
<1>2. PICK i \in 0..Len(middle) - Len(part) : \A k \in 1..Len(part) : middle[i + k] = part[k]
  BY DEF Within
<1>3. PICK j \in 0..Len(text) - Len(middle) : \A k \in 1..Len(middle) : text[j + k] = middle[k]
  BY DEF Within
<1>4. j + i \in 0..Len(text) - Len(part)
  BY <1>1, <1>2, <1>3
<1>5. ASSUME NEW k \in 1..Len(part) PROVE text[(j + i) + k] = part[k]
  <2>1. i + k \in 1..Len(middle) /\ j + (i + k) = (j + i) + k
    BY <1>1, <1>2, <1>3
  <2>2. text[j + (i + k)] = middle[i + k]
    BY <1>3, <2>1
  <2> QED
    BY <1>2, <2>1, <2>2
<1> QED
  BY <1>4, <1>5 DEF Within

\* What has no space at its ends is not torn by stripping.
LEMMA SolidStaysWithin ==
  ASSUME NEW part \in Text, NEW text \in Text, Solid(part), Within(part, text)
  PROVE  Within(part, Stripped(text))
<1>1. Len(part) \in Nat \ {0} /\ Len(text) \in Nat
  BY LenProperties, EmptySeq DEF Text, Solid
<1>2. Stripped(text) \in Text /\ Len(Stripped(text)) \in Nat
  BY StrippedText, LenProperties DEF Text
<1>3. PICK a \in 0..Len(text) :
        /\ a + Len(Stripped(text)) <= Len(text)
        /\ \A k \in 1..Len(Stripped(text)) : Stripped(text)[k] = text[a + k]
        /\ \A k \in 1..Len(text) :
             text[k] # Space => a < k /\ k <= a + Len(Stripped(text))
  BY StrippedText
<1>4. PICK i \in 0..Len(text) - Len(part) : \A k \in 1..Len(part) : text[i + k] = part[k]
  BY DEF Within
<1>5. text[i + 1] # Space /\ text[i + Len(part)] # Space
  BY <1>1, <1>4 DEF Solid
<1>6. a < i + 1 /\ i + Len(part) <= a + Len(Stripped(text))
  BY <1>1, <1>3, <1>4, <1>5
<1>7. i - a \in 0..Len(Stripped(text)) - Len(part)
  BY <1>1, <1>2, <1>3, <1>4, <1>6
<1>8. ASSUME NEW k \in 1..Len(part) PROVE Stripped(text)[(i - a) + k] = part[k]
  <2>1. (i - a) + k \in 1..Len(Stripped(text)) /\ a + ((i - a) + k) = i + k
    BY <1>1, <1>2, <1>3, <1>4, <1>7
  <2>2. Stripped(text)[(i - a) + k] = text[a + ((i - a) + k)]
    BY <1>3, <2>1
  <2> QED
    BY <1>4, <2>1, <2>2
<1> QED
  BY <1>7, <1>8 DEF Within

LEMMA NothingSolidInEmpty ==
  ASSUME NEW part \in Text, Solid(part) PROVE ~ Within(part, <<>>)
<1>1. Len(part) \in Nat \ {0} /\ Len(<<>>) = 0
  BY LenProperties, EmptySeq DEF Text, Solid
<1> QED
  BY <1>1 DEF Within

(***************************************************************************)
(* Ends                                                                    *)
(***************************************************************************)
EndsWith(text, end) ==
  /\ Len(end) <= Len(text)
  /\ \A k \in 1..Len(end) : text[Len(text) - Len(end) + k] = end[k]

LEMMA EndIsWithin ==
  ASSUME NEW text \in Text, NEW end \in Text, EndsWith(text, end) PROVE Within(end, text)
<1>1. Len(end) \in Nat /\ Len(text) \in Nat
  BY LenProperties DEF Text
<1>2. Len(text) - Len(end) \in 0..Len(text) - Len(end)
  BY <1>1 DEF EndsWith
<1> QED
  BY <1>2 DEF Within, EndsWith

\* The end of an end is an end.
LEMMA EndsWithEnd ==
  ASSUME NEW text \in Text, NEW middle \in Text, NEW end \in Text,
         EndsWith(text, middle), EndsWith(middle, end)
  PROVE  EndsWith(text, end)
<1>1. Len(end) \in Nat /\ Len(middle) \in Nat /\ Len(text) \in Nat
  BY LenProperties DEF Text
<1>2. ASSUME NEW k \in 1..Len(end) PROVE text[Len(text) - Len(end) + k] = end[k]
  <2>1. /\ Len(middle) - Len(end) + k \in 1..Len(middle)
        /\ Len(text) - Len(middle) + (Len(middle) - Len(end) + k) = Len(text) - Len(end) + k
    BY <1>1 DEF EndsWith
  <2>2. text[Len(text) - Len(middle) + (Len(middle) - Len(end) + k)] = middle[Len(middle) - Len(end) + k]
    BY <2>1 DEF EndsWith
  <2> QED
    BY <2>1, <2>2 DEF EndsWith
<1> QED
  BY <1>1, <1>2 DEF EndsWith

\* What a chunk leaves to the next is its end.
LEMMA TailIsEnd ==
  ASSUME NEW text \in Text, overlap \in Nat PROVE EndsWith(text, TailOf(text))
<1>1. Len(text) \in Nat
  BY LenProperties DEF Text
<1> QED
  BY <1>1, TailText DEF EndsWith

\* The end of what ends with another text's end.
LEMMA TailKeepsEnd ==
  ASSUME NEW text \in Text, NEW end \in Text, overlap \in Nat,
         EndsWith(text, end), Len(end) <= overlap
  PROVE  EndsWith(TailOf(text), end)
<1>1. Len(text) \in Nat /\ Len(end) \in Nat
  BY LenProperties DEF Text
<1>2. /\ Len(TailOf(text)) = IF Len(text) > overlap THEN overlap ELSE Len(text)
      /\ \A k \in 1..Len(TailOf(text)) :
           TailOf(text)[k] = text[Len(text) - Len(TailOf(text)) + k]
  BY TailText
<1> DEFINE tail == TailOf(text)
<1> HIDE DEF tail
<1>3. Len(tail) \in Nat /\ Len(end) <= Len(tail)
  BY <1>1, <1>2 DEF EndsWith, tail
<1>4. ASSUME NEW k \in 1..Len(end) PROVE tail[Len(tail) - Len(end) + k] = end[k]
  <2>1. /\ Len(tail) - Len(end) + k \in 1..Len(tail)
        /\ Len(text) - Len(tail) + (Len(tail) - Len(end) + k) = Len(text) - Len(end) + k
    BY <1>1, <1>3
  <2>2. tail[Len(tail) - Len(end) + k] = text[Len(text) - Len(tail) + (Len(tail) - Len(end) + k)]
    BY <1>2, <2>1 DEF tail
  <2> QED
    BY <2>1, <2>2 DEF EndsWith
<1> QED
  BY <1>3, <1>4 DEF EndsWith, tail

LEMMA JoinedEnds ==
  ASSUME NEW text \in Text, NEW next \in Text PROVE EndsWith(Joined(text, next), next)
<1>1. Len(text) \in Nat /\ Len(next) \in Nat
  BY LenProperties DEF Text
<1> DEFINE joined == Joined(text, next)
<1>2. /\ Len(joined) = Len(text) + 1 + Len(next)
      /\ \A k \in 1..Len(next) : joined[Len(text) + 1 + k] = next[k]
  BY JoinedText
<1> HIDE DEF joined
<1>3. \A k \in 1..Len(next) : Len(joined) - Len(next) + k = Len(text) + 1 + k
  BY <1>1, <1>2
<1>4. \A k \in 1..Len(next) : joined[Len(joined) - Len(next) + k] = next[k]
  BY <1>2, <1>3
<1>5. Len(next) <= Len(joined)
  BY <1>1, <1>2
<1> QED
  BY <1>4, <1>5 DEF EndsWith, joined

\* Stripping leaves a solid end.
LEMMA StrippedEnds ==
  ASSUME NEW text \in Text, NEW end \in Text, Solid(end), EndsWith(text, end)
  PROVE  EndsWith(Stripped(text), end)
<1>1. Len(end) \in Nat \ {0} /\ Len(text) \in Nat
  BY LenProperties, EmptySeq DEF Text, Solid
<1>2. Stripped(text) \in Text /\ Len(Stripped(text)) \in Nat
  BY StrippedText, LenProperties DEF Text
<1>3. PICK a \in 0..Len(text) :
        /\ a + Len(Stripped(text)) <= Len(text)
        /\ \A k \in 1..Len(Stripped(text)) : Stripped(text)[k] = text[a + k]
        /\ \A k \in 1..Len(text) :
             text[k] # Space => a < k /\ k <= a + Len(Stripped(text))
  BY StrippedText
<1> DEFINE s == Stripped(text)
<1> HIDE DEF s
<1>4. /\ text[Len(text) - Len(end) + 1] = end[1] /\ text[Len(text) - Len(end) + Len(end)] = end[Len(end)]
      /\ Len(text) - Len(end) + Len(end) = Len(text) /\ Len(end) <= Len(text)
  BY <1>1 DEF EndsWith
<1>5. a < Len(text) - Len(end) + 1 /\ Len(text) <= a + Len(s)
  BY <1>1, <1>3, <1>4 DEF Solid, s
<1>6. a + Len(s) = Len(text) /\ Len(end) <= Len(s) /\ Len(s) \in Nat
  BY <1>1, <1>2, <1>3, <1>5 DEF s
<1>7. ASSUME NEW k \in 1..Len(end) PROVE s[Len(s) - Len(end) + k] = end[k]
  <2>1. /\ Len(s) - Len(end) + k \in 1..Len(s)
        /\ a + (Len(s) - Len(end) + k) = Len(text) - Len(end) + k
    BY <1>1, <1>6
  <2>2. s[Len(s) - Len(end) + k] = text[a + (Len(s) - Len(end) + k)]
    BY <1>3, <2>1 DEF s
  <2> QED
    BY <2>1, <2>2 DEF EndsWith
<1> QED
  BY <1>6, <1>7 DEF EndsWith, s

\* Where a text ends with an end, the end joined with the next text is within the text
\* joined with it.
LEMMA JoinedAtEnd ==
  ASSUME NEW text \in Text, NEW end \in Text, NEW next \in Text, EndsWith(text, end)
  PROVE  Within(Joined(end, next), Joined(text, next))
<1>1. Len(text) \in Nat /\ Len(end) \in Nat /\ Len(next) \in Nat
  BY LenProperties DEF Text
<1> DEFINE i == Len(text) - Len(end)
           small == Joined(end, next)
           large == Joined(text, next)
<1>2. i \in Nat /\ i <= Len(text)
  BY <1>1 DEF EndsWith
<1>3. /\ Len(small) = Len(end) + 1 + Len(next) /\ Len(large) = Len(text) + 1 + Len(next)
      /\ \A k \in 1..Len(end) : small[k] = end[k]
      /\ small[Len(end) + 1] = Space /\ large[Len(text) + 1] = Space
      /\ \A k \in 1..Len(next) : small[Len(end) + 1 + k] = next[k]
      /\ \A k \in 1..Len(text) : large[k] = text[k]
      /\ \A k \in 1..Len(next) : large[Len(text) + 1 + k] = next[k]
  BY JoinedText
<1> HIDE DEF small, large
<1>4. ASSUME NEW k \in 1..Len(small) PROVE large[i + k] = small[k]
  <2>1. CASE k <= Len(end)
    <3>1. i + k \in 1..Len(text) /\ k \in 1..Len(end)
      BY <1>1, <1>2, <2>1
    <3> QED
      BY <1>3, <3>1 DEF EndsWith
  <2>2. CASE k = Len(end) + 1
    <3>1. i + k = Len(text) + 1
      BY <1>1, <2>2
    <3> QED
      BY <1>3, <2>2, <3>1
  <2>3. CASE k > Len(end) + 1
    <3>1. PICK m \in 1..Len(next) : k = Len(end) + 1 + m
      <4>1. k - (Len(end) + 1) \in 1..Len(next) /\ k = Len(end) + 1 + (k - (Len(end) + 1))
        BY <1>1, <1>3, <2>3
      <4> QED
        BY <4>1
    <3>2. i + k = Len(text) + 1 + m
      BY <1>1, <3>1
    <3> QED
      BY <1>3, <3>1, <3>2
  <2>4. k <= Len(end) \/ k = Len(end) + 1 \/ k > Len(end) + 1
    <3>1. k \in 1..Len(end) + 1 + Len(next)
      BY <1>3
    <3> QED
      BY <1>1, <3>1
  <2> QED
    BY <2>1, <2>2, <2>3, <2>4
<1>5. i \in 0..Len(large) - Len(small)
  BY <1>1, <1>2, <1>3
<1> QED
  BY <1>4, <1>5 DEF Within, small, large

LEMMA StrippedIsWithin == ASSUME NEW text \in Text PROVE Within(Stripped(text), text)
<1>1. Len(text) \in Nat /\ Len(Stripped(text)) \in Nat
  BY LenProperties, StrippedText DEF Text
<1>2. PICK a \in 0..Len(text) :
        /\ a + Len(Stripped(text)) <= Len(text)
        /\ \A k \in 1..Len(Stripped(text)) : Stripped(text)[k] = text[a + k]
  BY StrippedText
<1>3. a \in 0..Len(text) - Len(Stripped(text))
  BY <1>1, <1>2
<1> QED
  BY <1>2, <1>3 DEF Within

(***************************************************************************)
(* The chunker's invariant: types, what holds of every chunk, and where    *)
(* the text is that the chunker has read so far.                           *)
(***************************************************************************)
ChunkRecords == [text : Text, page : Nat, title : Text]

ChunkerTypes ==
  /\ pages \in Files /\ overlap \in Overlaps
  /\ page \in 0..Len(pages) /\ unit \in Nat
  /\ IF page < Len(pages) THEN unit <= Len(Units) ELSE unit = 0
  /\ start \in Nat
  /\ start > 0 => InPage /\ current = <<>> /\ start < Len(Unit) /\ IsCut(Unit)
  /\ current \in Text
  /\ output \in Seq(ChunkRecords) /\ deduped \in Seq(ChunkRecords)
  /\ item \in 0..Len(output)
  /\ item > 0 => page = Len(pages)

(* What is collected, and every chunk, is local; nothing is collected on a *)
(* page but what was carried over.                                         *)
OutputIsLocal ==
  \A i \in 1..Len(output) : SizeIsBounded(output[i].text) /\ IsOwn(output[i].text, output[i].page)
DedupedIsLocal ==
  \A i \in 1..Len(deduped) : SizeIsBounded(deduped[i].text) /\ IsOwn(deduped[i].text, deduped[i].page)
CurrentIsLocal ==
  /\ SizeIsBounded(current)
  /\ page < Len(pages) => IsOwn(current, page + 1)
  /\ unit = 0 => Len(current) <= overlap

ChunksLocal == OutputIsLocal /\ DedupedIsLocal /\ CurrentIsLocal

Found(part) == \E i \in 1..Len(output) : Within(part, output[i].text)
Held(part) == Found(part) \/ (unit > 0 /\ Within(part, current))

Processed(p, u) == p <= page \/ (p = page + 1 /\ u <= unit)
LastDone(p, u) ==
  IF unit > 0 THEN p = page + 1 /\ u = unit
  ELSE p <= page /\ u = Len(pages[p].units) /\ \A r \in p + 1..page : pages[r].units = <<>>

(* The sentences done are in the chunks or collected, a sentence that is   *)
(* cut as far as it is; so are the meetings of two of them, because what   *)
(* is collected ends with the end of the last; and the deduplication drops *)
(* only what is there.                                                     *)
SentencesHeld ==
  \A p \in DOMAIN pages : \A u \in DOMAIN pages[p].units :
    Processed(p, u) => \A piece \in Pieces(Sentence(p, u)) : Held(piece)
CutSoFar ==
  InPage => \A i, j \in 1..Len(Unit) :
    i <= start /\ i <= j /\ j - i <= overlap => Found(SubSeq(Unit, i, j))
MeetingsHeld ==
  \A p, q \in DOMAIN pages : \A u \in DOMAIN pages[p].units, v \in DOMAIN pages[q].units :
    Follows(p, u, q, v) /\ Processed(q, v) /\ ~IsCut(Sentence(p, u)) /\ ~IsCut(Sentence(q, v))
      => Held(Meeting(Sentence(p, u), Sentence(q, v)))
EndIsCollected ==
  \A p \in DOMAIN pages : \A u \in DOMAIN pages[p].units :
    LastDone(p, u) /\ ~IsCut(Sentence(p, u)) => EndsWith(current, TailOf(Sentence(p, u)))
NothingIsDropped ==
  \A i \in 1..item :
    \/ Stripped(output[i].text) = <<>>
    \/ \E k \in 1..Len(deduped) : deduped[k].text = Stripped(output[i].text)

TextKept == SentencesHeld /\ CutSoFar /\ MeetingsHeld /\ EndIsCollected /\ NothingIsDropped

ChunkerInv == ChunkerTypes /\ ChunksLocal /\ TextKept

\* What the chunker reads: pages of stripped sentences, none of them empty.
LEMMA PagesTyped ==
  ASSUME pages \in Files
  PROVE  /\ Len(pages) \in Nat /\ DOMAIN pages = 1..Len(pages)
         /\ \A p \in DOMAIN pages :
              /\ pages[p].title \in Text
              /\ Len(pages[p].units) \in Nat /\ DOMAIN pages[p].units = 1..Len(pages[p].units)
              /\ pages[p].units = <<>> <=> Len(pages[p].units) = 0
              /\ \A u \in DOMAIN pages[p].units :
                   /\ Sentence(p, u) \in Text /\ Solid(Sentence(p, u))
                   /\ Len(Sentence(p, u)) \in Nat \ {0}
<1> DEFINE Pages == [title : Text, units : Seq(Text)]
<1>1. pages \in Seq(Pages)
  BY ChunkerAssumption DEF Text
<1>2. Len(pages) \in Nat /\ DOMAIN pages = 1..Len(pages)
  BY <1>1, LenProperties
<1>3. \A p \in DOMAIN pages : pages[p] \in Pages
  BY <1>1, <1>2, ElementOfSeq
<1>4. ASSUME NEW p \in DOMAIN pages
      PROVE  /\ pages[p].title \in Text
             /\ Len(pages[p].units) \in Nat /\ DOMAIN pages[p].units = 1..Len(pages[p].units)
             /\ pages[p].units = <<>> <=> Len(pages[p].units) = 0
             /\ \A u \in DOMAIN pages[p].units :
                  /\ Sentence(p, u) \in Text /\ Solid(Sentence(p, u))
                  /\ Len(Sentence(p, u)) \in Nat \ {0}
  <2>1. pages[p].title \in Text /\ pages[p].units \in Seq(Text)
    BY <1>3
  <2>2. Len(pages[p].units) \in Nat /\ DOMAIN pages[p].units = 1..Len(pages[p].units)
    BY <2>1, LenProperties
  <2>3. pages[p].units = <<>> <=> Len(pages[p].units) = 0
    BY <2>1, EmptySeq
  <2>4. ASSUME NEW u \in DOMAIN pages[p].units
        PROVE  /\ Sentence(p, u) \in Text /\ Solid(Sentence(p, u))
               /\ Len(Sentence(p, u)) \in Nat \ {0}
    <3>1. Sentence(p, u) \in Text
      BY <2>1, <2>2, ElementOfSeq DEF Sentence
    <3>2. Solid(Sentence(p, u))
      BY ChunkerAssumption DEF Sentence
    <3>3. Sentence(p, u) # <<>>
      BY <3>2 DEF Solid
    <3> QED
      BY <3>1, <3>2, <3>3, EmptySeq DEF Text
  <2> QED
    BY <2>1, <2>2, <2>3, <2>4
<1> QED
  BY <1>2, <1>4

\* How far it can be.
LEMMA Counters ==
  ASSUME ChunkerTypes
  PROVE  /\ Len(pages) \in Nat /\ DOMAIN pages = 1..Len(pages)
         /\ page \in Nat /\ page <= Len(pages) /\ unit \in Nat /\ start \in Nat
         /\ page < Len(pages) => page + 1 \in DOMAIN pages
         /\ ChunkSize \in Nat /\ overlap \in Nat /\ overlap < ChunkSize
<1>1. Len(pages) \in Nat /\ DOMAIN pages = 1..Len(pages)
  BY PagesTyped DEF ChunkerTypes
<1>2. page \in 0..Len(pages) /\ unit \in Nat /\ start \in Nat
  BY DEF ChunkerTypes
<1>3. overlap \in 0..ChunkSize - 1 /\ ChunkSize \in Nat
  BY ChunkerAssumption DEF ChunkerTypes
<1> QED
  BY <1>1, <1>2, <1>3

\* The sentence that comes next.
LEMMA UnitTyped ==
  ASSUME ChunkerTypes, InPage
  PROVE  /\ page + 1 \in DOMAIN pages /\ unit + 1 \in DOMAIN pages[page + 1].units
         /\ Unit = Sentence(page + 1, unit + 1)
         /\ Unit \in Text /\ Solid(Unit) /\ Len(Unit) \in Nat \ {0}
         /\ Joined(current, Unit) \in Text /\ Stripped(Joined(current, Unit)) \in Text
         /\ Len(Stripped(Joined(current, Unit))) \in Nat
<1>1. page + 1 \in DOMAIN pages /\ unit + 1 \in DOMAIN pages[page + 1].units
  <2>1. page + 1 \in DOMAIN pages
    BY Counters DEF InPage
  <2>2. Len(pages[page + 1].units) \in Nat /\ DOMAIN pages[page + 1].units = 1..Len(pages[page + 1].units)
    BY <2>1, PagesTyped DEF ChunkerTypes
  <2>3. unit \in Nat /\ unit < Len(pages[page + 1].units)
    BY DEF ChunkerTypes, InPage, Units
  <2> QED
    BY <2>1, <2>2, <2>3
<1>2. Unit = Sentence(page + 1, unit + 1)
  BY DEF Unit, Units, Sentence
<1>3. Unit \in Text /\ Solid(Unit) /\ Len(Unit) \in Nat \ {0}
  BY <1>1, <1>2, PagesTyped DEF ChunkerTypes
<1>4. Joined(current, Unit) \in Text
  BY <1>3, JoinedText DEF ChunkerTypes
<1>5. Stripped(Joined(current, Unit)) \in Text
  BY <1>4, StrippedText
<1> QED
  BY <1>1, <1>2, <1>3, <1>4, <1>5, LenProperties DEF Text

\* Only a sentence longer than a chunk is cut.
LEMMA CutIsLong ==
  ASSUME ChunkerTypes, InPage, TooLong, current = <<>> PROVE IsCut(Unit)
<1> DEFINE joined == Joined(<<>>, Unit)
<1>1. joined \in Text /\ Len(joined) = 1 + Len(Unit) /\ joined[1] = Space /\ Len(Unit) \in Nat
  <2>1. <<>> \in Text /\ Len(<<>>) = 0
    BY EmptySeq DEF Text
  <2> QED
    <3>1. Unit \in Text /\ Len(Unit) \in Nat
      BY UnitTyped
    <3>2. /\ joined \in Text /\ Len(joined) = 0 + 1 + Len(Unit)
          /\ joined[0 + 1] = Space
      BY <2>1, <3>1, JoinedText
    <3> QED
      BY <3>1, <3>2
<1> HIDE DEF joined
<1>2. Stripped(joined) \in Text /\ Len(Stripped(joined)) \in Nat
  BY <1>1, StrippedText, LenProperties DEF Text
<1>3. Stripped(joined) = <<>> \/ Solid(Stripped(joined))
  BY <1>1, StrippedText
<1>4. PICK a \in 0..Len(joined) :
        /\ a + Len(Stripped(joined)) <= Len(joined)
        /\ \A k \in 1..Len(Stripped(joined)) : Stripped(joined)[k] = joined[a + k]
  BY <1>1, StrippedText
<1>5. Len(Stripped(joined)) > ChunkSize
  BY DEF TooLong, joined
<1>6. Len(Stripped(joined)) >= 1 /\ Stripped(joined) # <<>>
  BY <1>2, <1>5, Counters, EmptySeq
<1>7. a # 0
  <2>1. Stripped(joined)[1] # Space
    BY <1>3, <1>6 DEF Solid
  <2>2. Stripped(joined)[1] = joined[a + 1]
    BY <1>2, <1>4, <1>6
  <2> QED
    BY <1>1, <2>1, <2>2
<1> QED
  BY <1>1, <1>2, <1>4, <1>5, <1>7, Counters DEF IsCut

\* The part that is cut next.
LEMMA PartOfUnit ==
  ASSUME ChunkerTypes, InPage, start < Len(Unit)
  PROVE  /\ Part \in Text
         /\ Len(Part) = IF start + ChunkSize < Len(Unit) THEN ChunkSize ELSE Len(Unit) - start
         /\ \A k \in 1..Len(Part) : Part[k] = Unit[start + k]
<1> DEFINE last == IF start + ChunkSize < Len(Unit) THEN start + ChunkSize ELSE Len(Unit)
<1>1. Len(Unit) \in Nat /\ Unit \in Text /\ start \in Nat /\ ChunkSize \in Nat \ {0}
  BY UnitTyped, Counters DEF ChunkerTypes
<1>2. last \in 1..Len(Unit) /\ start + 1 \in 1..Len(Unit) /\ start + 1 <= last
  BY <1>1
<1>3. Part = SubSeq(Unit, start + 1, last)
  BY DEF Part
<1> HIDE DEF last
<1>4. /\ Part \in Text /\ Len(Part) = last - (start + 1) + 1
      /\ \A k \in 1..last - (start + 1) + 1 : Part[k] = Unit[(start + 1) + k - 1]
  BY <1>1, <1>2, <1>3, StretchOfText
<1>5. \A k \in 1..Len(Part) : Part[k] = Unit[start + k]
  BY <1>1, <1>2, <1>4
<1>6. Len(Part) = IF start + ChunkSize < Len(Unit) THEN ChunkSize ELSE Len(Unit) - start
  BY <1>1, <1>2, <1>4 DEF last
<1> QED
  BY <1>4, <1>5, <1>6

(***************************************************************************)
(* Every step keeps the types, and what it adds to the chunks.             *)
(***************************************************************************)
\* A chunk made of a text, on the page that is read.
LEMMA ChunkTyped ==
  ASSUME ChunkerTypes, page < Len(pages), NEW text \in Text
  PROVE  Chunk(text) \in ChunkRecords /\ Chunk(text).text = text /\ Chunk(text).page = page + 1
<1>1. page \in Nat /\ page + 1 \in DOMAIN pages
  BY Counters
<1>2. pages[page + 1].title \in Text
  BY <1>1, PagesTyped DEF ChunkerTypes
<1> QED
  BY <1>1, <1>2 DEF Chunk, ChunkRecords

LEMMA ChunkerBegins == ChunkerInit => ChunkerTypes
<1> SUFFICES ASSUME ChunkerInit PROVE ChunkerTypes
  OBVIOUS
<1>1. Len(pages) \in Nat /\ DOMAIN pages = 1..Len(pages)
  BY PagesTyped DEF ChunkerInit
<1>2. 0 < Len(pages) => Len(Units) \in Nat
  <2>1. 0 < Len(pages) => 1 \in DOMAIN pages
    BY <1>1
  <2> QED
    BY <2>1, PagesTyped DEF ChunkerInit, Units
<1>3. <<>> \in Text /\ <<>> \in Seq(ChunkRecords) /\ Len(output) = 0
  BY EmptySeq DEF Text, ChunkerInit
<1> QED
  BY <1>1, <1>2, <1>3 DEF ChunkerInit, ChunkerTypes

\* One more page done.
LEMMA NextPageTyped ==
  ASSUME ChunkerTypes, page < Len(pages), pages' = pages, page' = page + 1, unit' = 0
  PROVE  /\ pages' \in Files /\ page' \in 0..Len(pages') /\ unit' \in Nat
         /\ IF page' < Len(pages') THEN unit' <= Len(Units') ELSE unit' = 0
<1>1. Len(pages) \in Nat /\ DOMAIN pages = 1..Len(pages)
  BY Counters
<1>2. page \in Nat /\ page + 1 \in 0..Len(pages)
  BY Counters
<1>3. CASE page + 1 < Len(pages)
  <2>1. (page + 1) + 1 \in DOMAIN pages
    BY <1>1, <1>2, <1>3
  <2>2. Len(pages[(page + 1) + 1].units) \in Nat
    BY <2>1, PagesTyped DEF ChunkerTypes
  <2>3. Units' = pages[(page + 1) + 1].units
    BY DEF Units
  <2>4. 0 <= Len(Units')
    BY <2>2, <2>3
  <2> QED
    BY <1>2, <2>4 DEF ChunkerTypes
<1>4. CASE ~ (page + 1 < Len(pages))
  BY <1>2, <1>4 DEF ChunkerTypes
<1> QED
  BY <1>3, <1>4

\* Within a page.
LEMMA NextUnitTyped ==
  ASSUME ChunkerTypes, InPage, UNCHANGED <<pages, page>>, unit' \in {unit, unit + 1}
  PROVE  /\ pages' \in Files /\ page' \in 0..Len(pages') /\ unit' \in Nat
         /\ IF page' < Len(pages') THEN unit' <= Len(Units') ELSE unit' = 0
         /\ page' < Len(pages')
<1>1. unit \in Nat /\ page < Len(pages) /\ unit < Len(Units) /\ Len(Units) \in Nat
  <2>1. page + 1 \in DOMAIN pages
    BY UnitTyped
  <2> QED
    BY <2>1, PagesTyped DEF ChunkerTypes, InPage, Units
<1>2. Units' = Units
  BY DEF Units
<1>3. unit' \in Nat /\ unit' <= Len(Units)
  BY <1>1
<1> QED
  BY <1>1, <1>2, <1>3 DEF ChunkerTypes

LEMMA SkipPageTyped == ASSUME ChunkerTypes, SkipPage PROVE ChunkerTypes' /\ unit = 0 /\ start = 0
<1>1. unit = 0
  <2>1. Len(Units) = 0
    BY EmptySeq DEF SkipPage
  <2> QED
    BY <2>1 DEF SkipPage, ChunkerTypes
<1>2. start = 0
  <2>1. ~ InPage
    BY <1>1, EmptySeq DEF SkipPage, InPage
  <2> QED
    BY <2>1 DEF ChunkerTypes
<1>3. /\ pages' \in Files /\ page' \in 0..Len(pages') /\ unit' \in Nat
      /\ IF page' < Len(pages') THEN unit' <= Len(Units') ELSE unit' = 0
  BY <1>1, NextPageTyped DEF SkipPage
<1>4. item = 0
  BY DEF ChunkerTypes, SkipPage
<1> QED
  BY <1>1, <1>2, <1>3, <1>4 DEF ChunkerTypes, SkipPage

LEMMA CollectTyped == ASSUME ChunkerTypes, Collect PROVE ChunkerTypes' /\ start = 0
<1>1. InPage
  BY DEF Collect
<1>2. /\ pages' \in Files /\ page' \in 0..Len(pages') /\ unit' \in Nat
      /\ IF page' < Len(pages') THEN unit' <= Len(Units') ELSE unit' = 0
      /\ page' < Len(pages')
  BY <1>1, NextUnitTyped DEF Collect
<1>3. current' \in Text
  BY <1>1, UnitTyped DEF Collect
<1>4. start = 0
  <2>1. SUFFICES ASSUME start > 0 PROVE FALSE
    BY DEF ChunkerTypes
  <2>2. current = <<>> /\ IsCut(Unit)
    BY <2>1 DEF ChunkerTypes
  <2>3. EndsWith(Stripped(Joined(current, Unit)), Unit)
    BY <1>1, UnitTyped, JoinedEnds, StrippedEnds DEF ChunkerTypes
  <2>4. Len(Stripped(Joined(current, Unit))) <= ChunkSize
    BY DEF Collect
  <2>5. Len(Unit) \in Nat /\ Len(Stripped(Joined(current, Unit))) \in Nat /\ ChunkSize \in Nat
    BY <1>1, UnitTyped, Counters
  <2> QED
    BY <2>2, <2>3, <2>4, <2>5 DEF IsCut, EndsWith
<1>5. item = 0
  BY <1>1 DEF ChunkerTypes, InPage
<1> QED
  BY <1>2, <1>3, <1>4, <1>5 DEF ChunkerTypes, Collect

LEMMA FlushTyped ==
  ASSUME ChunkerTypes, Flush
  PROVE  /\ ChunkerTypes' /\ start = 0
         /\ TailOf(current) \in Text
         /\ Len(current') = Len(TailOf(current)) + 1 + Len(Unit)
         /\ Len(output') = Len(output) + 1 /\ output'[Len(output) + 1] = Chunk(current)
         /\ \A i \in 1..Len(output) : output'[i] = output[i]
<1>1. InPage /\ current \in Text /\ Unit \in Text
  BY UnitTyped DEF Flush, ChunkerTypes
<1>2. /\ pages' \in Files /\ page' \in 0..Len(pages') /\ unit' \in Nat
      /\ IF page' < Len(pages') THEN unit' <= Len(Units') ELSE unit' = 0
      /\ page' < Len(pages')
  BY <1>1, NextUnitTyped DEF Flush
<1>3. TailOf(current) \in Text
  BY <1>1, TailText, Counters
<1>4. current' \in Text /\ Len(current') = Len(TailOf(current)) + 1 + Len(Unit)
  BY <1>1, <1>3, JoinedText DEF Flush, AfterFlush
<1>5. start = 0 /\ item = 0
  BY <1>1 DEF ChunkerTypes, InPage, Flush
<1>6. /\ output' \in Seq(ChunkRecords)
      /\ Len(output') = Len(output) + 1 /\ output'[Len(output) + 1] = Chunk(current)
      /\ \A i \in 1..Len(output) : output'[i] = output[i]
  <2>1. Chunk(current) \in ChunkRecords /\ output \in Seq(ChunkRecords)
    BY <1>1, ChunkTyped DEF InPage, ChunkerTypes
  <2> QED
    BY <2>1, AppendProperties DEF Flush
<1>7. Len(output') \in Nat
  BY <1>6, LenProperties
<1> QED
  BY <1>2, <1>3, <1>4, <1>5, <1>6, <1>7 DEF ChunkerTypes, Flush

LEMMA CutTyped ==
  ASSUME ChunkerTypes, Cut
  PROVE  /\ ChunkerTypes' /\ start < Len(Unit) /\ IsCut(Unit)
         /\ Len(output') = Len(output) + 1 /\ output'[Len(output) + 1] = Chunk(Part)
         /\ \A i \in 1..Len(output) : output'[i] = output[i]
<1>1. InPage /\ Unit \in Text /\ Len(Unit) \in Nat \ {0}
  BY UnitTyped DEF Cut
<1>2. IsCut(Unit) /\ start < Len(Unit)
  BY <1>1, CutIsLong, Counters DEF Cut, ChunkerTypes
<1>3. /\ pages' \in Files /\ page' \in 0..Len(pages') /\ unit' \in Nat
      /\ IF page' < Len(pages') THEN unit' <= Len(Units') ELSE unit' = 0
      /\ page' < Len(pages')
  <2>1. unit' \in {unit, unit + 1} /\ UNCHANGED <<pages, page>>
    BY DEF Cut
  <2> QED
    BY <1>1, <2>1, NextUnitTyped
<1>4. start' \in Nat /\ (start' > 0 => InPage' /\ current' = <<>> /\ (start < Len(Unit) /\ IsCut(Unit))')
  <2> DEFINE next == start + ChunkSize - overlap
  <2>1. next \in Nat
    BY Counters
  <2>2. CASE next < Len(Unit)
    <3>1. start' = next /\ UNCHANGED <<pages, page, unit, current>> /\ current = <<>>
      BY <2>2 DEF Cut
    <3>2. Unit' = Unit /\ (InPage' <=> InPage)
      BY <3>1 DEF Unit, Units, InPage
    <3> QED
      BY <1>1, <1>2, <2>1, <2>2, <3>1, <3>2 DEF IsCut
  <2>3. CASE ~ (next < Len(Unit))
    BY <2>3 DEF Cut
  <2> QED
    BY <2>2, <2>3
<1>5. item = 0
  BY <1>1 DEF ChunkerTypes, InPage
<1>6. /\ output' \in Seq(ChunkRecords)
      /\ Len(output') = Len(output) + 1 /\ output'[Len(output) + 1] = Chunk(Part)
      /\ \A i \in 1..Len(output) : output'[i] = output[i]
  <2>1. Part \in Text
    BY <1>1, <1>2, PartOfUnit
  <2>2. Chunk(Part) \in ChunkRecords /\ output \in Seq(ChunkRecords)
    BY <1>1, <2>1, ChunkTyped DEF InPage, ChunkerTypes
  <2> QED
    BY <2>2, AppendProperties DEF Cut
<1>7. Len(output') \in Nat
  BY <1>6, LenProperties
<1>8. current' \in Text /\ overlap' \in Overlaps /\ deduped' \in Seq(ChunkRecords) /\ item' = 0
  BY <1>5 DEF Cut, ChunkerTypes
<1> QED
  BY <1>2, <1>3, <1>4, <1>6, <1>7, <1>8 DEF ChunkerTypes

LEMMA EndPageTyped ==
  ASSUME ChunkerTypes, EndPage
  PROVE  /\ ChunkerTypes' /\ start = 0 /\ unit > 0 /\ page < Len(pages)
         /\ \A i \in 1..Len(output) : i \in 1..Len(output') /\ output'[i] = output[i]
         /\ current # <<>> => Len(output') = Len(output) + 1 /\ output'[Len(output) + 1] = Chunk(current)
         /\ current = <<>> => output' = output
<1>1. page < Len(pages) /\ page + 1 \in DOMAIN pages /\ Len(pages[page + 1].units) \in Nat \ {0}
  BY Counters, PagesTyped DEF EndPage, ChunkerTypes, Units
<1>2. unit = Len(pages[page + 1].units)
  BY DEF EndPage, Units
<1>3. start = 0
  <2>1. ~ InPage
    BY <1>1, <1>2 DEF InPage, Units
  <2> QED
    BY <2>1 DEF ChunkerTypes
<1>4. /\ pages' \in Files /\ page' \in 0..Len(pages') /\ unit' \in Nat
      /\ IF page' < Len(pages') THEN unit' <= Len(Units') ELSE unit' = 0
  BY <1>1, NextPageTyped DEF EndPage
<1>5. current' \in Text
  BY TailText, Counters DEF EndPage, Carried, ChunkerTypes
<1>6. Len(output) \in Nat /\ output \in Seq(ChunkRecords) /\ item = 0
  BY <1>1, LenProperties DEF ChunkerTypes
<1>7. /\ output' \in Seq(ChunkRecords) /\ Len(output') \in Nat
      /\ \A i \in 1..Len(output) : i \in 1..Len(output') /\ output'[i] = output[i]
      /\ current # <<>> => Len(output') = Len(output) + 1 /\ output'[Len(output) + 1] = Chunk(current)
      /\ current = <<>> => output' = output
  <2>1. CASE current # <<>>
    <3>1. Chunk(current) \in ChunkRecords /\ output' = Append(output, Chunk(current))
      BY <1>1, <2>1, ChunkTyped DEF EndPage, ChunkerTypes
    <3>2. /\ output' \in Seq(ChunkRecords) /\ Len(output') = Len(output) + 1
          /\ output'[Len(output) + 1] = Chunk(current)
          /\ \A i \in 1..Len(output) : output'[i] = output[i]
      BY <1>6, <3>1, AppendProperties
    <3> QED
      BY <1>6, <2>1, <3>2
  <2>2. CASE current = <<>>
    BY <1>6, <2>2 DEF EndPage
  <2> QED
    BY <2>1, <2>2
<1>8. overlap' \in Overlaps /\ deduped' \in Seq(ChunkRecords) /\ item' = 0 /\ start' = 0
  BY <1>3, <1>6 DEF EndPage, ChunkerTypes
<1> QED
  BY <1>1, <1>2, <1>3, <1>4, <1>5, <1>7, <1>8 DEF ChunkerTypes

LEMMA DeduplicateTyped ==
  ASSUME ChunkerTypes, Deduplicate
  PROVE  /\ ChunkerTypes' /\ item + 1 \in 1..Len(output) /\ item \in Nat
         /\ output[item + 1] \in ChunkRecords
         /\ \A i \in 1..Len(deduped) : i \in 1..Len(deduped') /\ deduped'[i] = deduped[i]
         /\ \/ deduped' = deduped
            \/ /\ Len(deduped') = Len(deduped) + 1
               /\ deduped'[Len(deduped) + 1] =
                    [output[item + 1] EXCEPT !.text = Stripped(output[item + 1].text)]
         /\ \/ Stripped(output[item + 1].text) = <<>>
            \/ \E i \in 1..Len(deduped') : deduped'[i].text = Stripped(output[item + 1].text)
<1> DEFINE chunk == output[item + 1]
           kept == [chunk EXCEPT !.text = Stripped(chunk.text)]
<1>1. /\ output \in Seq(ChunkRecords) /\ deduped \in Seq(ChunkRecords)
      /\ Len(output) \in Nat /\ Len(deduped) \in Nat /\ DOMAIN deduped = 1..Len(deduped)
  BY LenProperties DEF ChunkerTypes
<1>2. item \in Nat /\ item + 1 \in 1..Len(output)
  BY <1>1 DEF ChunkerTypes, Deduplicate
<1>3. chunk \in ChunkRecords
  BY <1>1, <1>2, ElementOfSeq
<1>4. kept \in ChunkRecords /\ kept.text = Stripped(chunk.text)
  <2>1. Stripped(chunk.text) \in Text
    BY <1>3, StrippedText DEF ChunkRecords
  <2> QED
    BY <1>3, <2>1 DEF ChunkRecords
<1>5. /\ deduped' \in Seq(ChunkRecords)
      /\ \A i \in 1..Len(deduped) : i \in 1..Len(deduped') /\ deduped'[i] = deduped[i]
      /\ \/ deduped' = deduped
         \/ Len(deduped') = Len(deduped) + 1 /\ deduped'[Len(deduped) + 1] = kept
      /\ \/ Stripped(chunk.text) = <<>>
         \/ \E i \in 1..Len(deduped') : deduped'[i].text = Stripped(chunk.text)
  <2>1. CASE Stripped(chunk.text) = <<>> \/ \E i \in DOMAIN deduped : deduped[i].text = Stripped(chunk.text)
    <3>1. deduped' = deduped
      BY <2>1 DEF Deduplicate
    <3> QED
      BY <1>1, <2>1, <3>1
  <2>2. CASE ~ (Stripped(chunk.text) = <<>> \/ \E i \in DOMAIN deduped : deduped[i].text = Stripped(chunk.text))
    <3>1. deduped' = Append(deduped, kept)
      BY <2>2 DEF Deduplicate
    <3> HIDE DEF chunk, kept
    <3>2. /\ deduped' \in Seq(ChunkRecords) /\ Len(deduped') = Len(deduped) + 1
          /\ deduped'[Len(deduped) + 1] = kept
          /\ \A i \in 1..Len(deduped) : deduped'[i] = deduped[i]
      BY <1>1, <1>4, <3>1, AppendProperties
    <3>3. Len(deduped) + 1 \in 1..Len(deduped') /\ deduped'[Len(deduped) + 1].text = Stripped(chunk.text)
      BY <1>1, <1>4, <3>2
    <3> QED
      BY <1>1, <3>2, <3>3
  <2> QED
    BY <2>1, <2>2
<1>6. ChunkerTypes'
  <2>1. /\ UNCHANGED <<pages, overlap, page, unit, start, current, output>>
        /\ item' = item + 1 /\ page = Len(pages)
    BY DEF Deduplicate
  <2>2. Units' = Units /\ (InPage' <=> InPage) /\ Unit' = Unit /\ (IsCut(Unit)' <=> IsCut(Unit))
    BY <2>1 DEF Units, InPage, Unit, IsCut
  <2>3. item' \in 0..Len(output')
    BY <1>1, <1>2, <2>1
  <2> QED
    BY <1>5, <2>1, <2>2, <2>3 DEF ChunkerTypes
<1> QED
  BY <1>2, <1>3, <1>5, <1>6

(***************************************************************************)
(* Every step keeps chunks local.                                          *)
(***************************************************************************)
\* Stripping keeps a text local: it is no longer, and no character moves to the right.
LEMMA StrippedIsLocal ==
  ASSUME ChunkerTypes, NEW text \in Text, NEW p \in Nat
  PROVE  /\ SizeIsBounded(text) => SizeIsBounded(Stripped(text))
         /\ IsOwn(text, p) => IsOwn(Stripped(text), p)
<1>1. /\ Len(text) \in Nat /\ Len(Stripped(text)) \in Nat
      /\ DOMAIN text = 1..Len(text) /\ DOMAIN Stripped(text) = 1..Len(Stripped(text))
  BY LenProperties, StrippedText DEF Text
<1>2. PICK a \in 0..Len(text) :
        /\ a + Len(Stripped(text)) <= Len(text)
        /\ \A k \in 1..Len(Stripped(text)) : Stripped(text)[k] = text[a + k]
  BY StrippedText
<1>3. ASSUME SizeIsBounded(text) PROVE SizeIsBounded(Stripped(text))
  <2>1. Len(Stripped(text)) <= Len(text)
    BY <1>1, <1>2
  <2>2. ASSUME NEW n \in Int, Len(text) <= n PROVE Len(Stripped(text)) <= n
    BY <1>1, <2>1, <2>2
  <2>3. CASE Len(text) <= ChunkSize
    BY <2>2, <2>3, Counters DEF SizeIsBounded
  <2>4. CASE ~ (Len(text) <= ChunkSize)
    <3>1. PICK q \in DOMAIN pages : \E u \in DOMAIN pages[q].units :
            Len(text) <= overlap + 1 + Len(Sentence(q, u))
      BY <1>3, <2>4 DEF SizeIsBounded
    <3>2. PICK u \in DOMAIN pages[q].units : Len(text) <= overlap + 1 + Len(Sentence(q, u))
      BY <3>1
    <3>3. overlap + 1 + Len(Sentence(q, u)) \in Int
      <4>1. Len(Sentence(q, u)) \in Nat
        BY PagesTyped DEF ChunkerTypes
      <4> QED
        BY <4>1, Counters
    <3>4. Len(Stripped(text)) <= overlap + 1 + Len(Sentence(q, u))
      BY <2>2, <3>2, <3>3
    <3> QED
      BY <3>4 DEF SizeIsBounded
  <2> QED
    BY <2>3, <2>4
<1>4. ASSUME IsOwn(text, p) PROVE IsOwn(Stripped(text), p)
  <2>1. ASSUME NEW j \in 1..Len(Stripped(text)), j > overlap
        PROVE  Stripped(text)[j] = Space \/ HasCharacter(p, Stripped(text)[j])
    <3>1. a + j \in 1..Len(text) /\ a + j > overlap /\ Stripped(text)[j] = text[a + j]
      BY <1>1, <1>2, <2>1, Counters
    <3> QED
      BY <1>1, <1>4, <3>1 DEF IsOwn
  <2> QED
    BY <1>1, <2>1 DEF IsOwn
<1> QED
  BY <1>3, <1>4

\* What is collected before a sentence, local to its page, and the sentence.
LEMMA JoinedIsOwn ==
  ASSUME ChunkerTypes, InPage, NEW text \in Text, IsOwn(text, page + 1)
  PROVE  IsOwn(Joined(text, Unit), page + 1)
<1> DEFINE joined == Joined(text, Unit)
<1>1. /\ page + 1 \in DOMAIN pages /\ unit + 1 \in DOMAIN pages[page + 1].units
      /\ Unit = Sentence(page + 1, unit + 1)
      /\ Unit \in Text /\ Len(Unit) \in Nat /\ DOMAIN Unit = 1..Len(Unit)
      /\ Len(text) \in Nat /\ DOMAIN text = 1..Len(text)
  BY UnitTyped, LenProperties DEF Text
<1>2. /\ joined \in Text /\ Len(joined) = Len(text) + 1 + Len(Unit)
      /\ \A k \in 1..Len(text) : joined[k] = text[k]
      /\ joined[Len(text) + 1] = Space
      /\ \A k \in 1..Len(Unit) : joined[Len(text) + 1 + k] = Unit[k]
  BY <1>1, JoinedText
<1> HIDE DEF joined
<1>3. DOMAIN joined = 1..Len(text) + 1 + Len(Unit)
  BY <1>2, LenProperties DEF Text
<1>4. ASSUME NEW j \in 1..Len(text) + 1 + Len(Unit), j > overlap
      PROVE  joined[j] = Space \/ HasCharacter(page + 1, joined[j])
  <2>1. CASE j <= Len(text)
    <3>1. j \in 1..Len(text)
      BY <1>1, <2>1
    <3> QED
      BY <1>1, <1>2, <1>4, <3>1 DEF IsOwn
  <2>2. CASE j = Len(text) + 1
    BY <1>2, <2>2
  <2>3. CASE j > Len(text) + 1
    <3>1. j - (Len(text) + 1) \in 1..Len(Unit) /\ j = Len(text) + 1 + (j - (Len(text) + 1))
      BY <1>1, <2>3
    <3>2. joined[j] = Unit[j - (Len(text) + 1)]
      BY <1>2, <3>1
    <3>3. joined[j] \in ToSet(Sentence(page + 1, unit + 1))
      BY <1>1, <3>1, <3>2 DEF ToSet
    <3> QED
      BY <1>1, <3>3 DEF HasCharacter
  <2> QED
    BY <1>1, <2>1, <2>2, <2>3
<1> QED
  BY <1>3, <1>4 DEF IsOwn, joined

\* What is no longer than the overlap is local wherever it is.
LEMMA ShortIsLocal ==
  ASSUME ChunkerTypes, NEW text \in Text, NEW p, Len(text) <= overlap
  PROVE  SizeIsBounded(text) /\ IsOwn(text, p)
<1>1. Len(text) \in Nat /\ DOMAIN text = 1..Len(text)
  BY LenProperties DEF Text
<1>2. Len(text) <= ChunkSize
  BY <1>1, Counters
<1> QED
  BY <1>1, <1>2, Counters DEF SizeIsBounded, IsOwn

\* The chunks are local when those that were are the same, and the new one is.
LEMMA ChunksStayLocal ==
  ASSUME ChunkerTypes, ChunksLocal, UNCHANGED <<pages, overlap>>,
         NEW text \in Text, page < Len(pages),
         SizeIsBounded(text), IsOwn(text, page + 1),
         Len(output') = Len(output) + 1, output'[Len(output) + 1] = Chunk(text),
         \A i \in 1..Len(output) : output'[i] = output[i]
  PROVE  OutputIsLocal'
<1>1. Len(output) \in Nat
  BY LenProperties DEF ChunkerTypes
<1>2. Chunk(text).text = text /\ Chunk(text).page = page + 1
  BY ChunkTyped
<1>3. ASSUME NEW i \in 1..Len(output')
      PROVE  SizeIsBounded(output'[i].text) /\ IsOwn(output'[i].text, output'[i].page)
  <2>1. CASE i \in 1..Len(output)
    BY <2>1 DEF ChunksLocal, OutputIsLocal
  <2>2. CASE i = Len(output) + 1
    BY <1>2, <2>2
  <2> QED
    BY <1>1, <2>1, <2>2
<1> QED
  BY <1>3 DEF OutputIsLocal, SizeIsBounded, IsOwn, HasCharacter, Sentence

LEMMA DedupedRest ==
  ASSUME ChunksLocal, UNCHANGED <<pages, overlap, deduped>>
  PROVE  DedupedIsLocal'
BY DEF ChunksLocal, OutputIsLocal, DedupedIsLocal, SizeIsBounded, IsOwn, HasCharacter, Sentence

LEMMA OutputRests ==
  ASSUME ChunksLocal, UNCHANGED <<pages, overlap, output>>
  PROVE  OutputIsLocal'
BY DEF ChunksLocal, OutputIsLocal, DedupedIsLocal, SizeIsBounded, IsOwn, HasCharacter, Sentence

LEMMA LocalBegins == ChunkerInit => ChunksLocal
<1> SUFFICES ASSUME ChunkerInit PROVE ChunksLocal
  OBVIOUS
<1>1. Len(output) = 0 /\ Len(deduped) = 0 /\ current \in Text /\ Len(current) = 0
  BY EmptySeq DEF ChunkerInit, Text
<1>2. ChunkerTypes
  BY ChunkerBegins
<1>3. Len(current) <= overlap
  BY <1>1, <1>2, Counters
<1>4. \A p : SizeIsBounded(current) /\ IsOwn(current, p)
  BY <1>1, <1>2, <1>3, ShortIsLocal
<1> QED
  BY <1>1, <1>3, <1>4 DEF ChunksLocal, OutputIsLocal, DedupedIsLocal, CurrentIsLocal

\* Each step keeps chunks local: what it collects is at most what was carried over, of any
\* page, and sentences of this one.
LEMMA LocalKept == ASSUME ChunkerTypes, ChunksLocal, ChunkerNext PROVE ChunksLocal'
<1>1. CASE SkipPage
  <2>1. unit = 0 /\ UNCHANGED <<pages, overlap, unit, current, output, deduped>>
    BY <1>1, SkipPageTyped DEF SkipPage
  <2>2. \A p : SizeIsBounded(current)' /\ IsOwn(current, p)'
    <3>1. current \in Text /\ Len(current) <= overlap
      BY <2>1 DEF ChunksLocal, CurrentIsLocal, ChunkerTypes
    <3>2. \A p : SizeIsBounded(current) /\ IsOwn(current, p)
      BY <3>1, ShortIsLocal
    <3> QED
      BY <2>1, <3>2 DEF SizeIsBounded, IsOwn, HasCharacter, Sentence
  <2> QED
    BY <2>1, <2>2, OutputRests, DedupedRest DEF ChunksLocal, CurrentIsLocal
<1>2. CASE Collect
  <2>1. InPage /\ UNCHANGED <<pages, overlap, page, output, deduped>> /\ unit' = unit + 1 /\ unit \in Nat
    BY <1>2, Counters DEF Collect
  <2>2. current' = Stripped(Joined(current, Unit)) /\ Len(current') <= ChunkSize
    BY <1>2 DEF Collect
  <2>3. IsOwn(Joined(current, Unit), page + 1)
    BY <2>1, JoinedIsOwn DEF ChunksLocal, CurrentIsLocal, InPage, ChunkerTypes
  <2>4. IsOwn(current', page + 1)
    BY <2>1, <2>2, <2>3, UnitTyped, StrippedIsLocal, Counters
  <2>5. IsOwn(current, page + 1)' /\ SizeIsBounded(current)'
    BY <2>1, <2>2, <2>4 DEF SizeIsBounded, IsOwn, HasCharacter, Sentence
  <2> QED
    BY <2>1, <2>5, OutputRests, DedupedRest DEF ChunksLocal, CurrentIsLocal
<1>3. CASE Flush
  <2>1. InPage /\ UNCHANGED <<pages, overlap, page, deduped>> /\ unit' = unit + 1 /\ unit \in Nat
    BY <1>3, Counters DEF Flush
  <2>2. current \in Text /\ SizeIsBounded(current) /\ IsOwn(current, page + 1) /\ page < Len(pages)
    BY <2>1 DEF ChunksLocal, CurrentIsLocal, InPage, ChunkerTypes
  <2>3. OutputIsLocal'
    BY <1>3, <2>1, <2>2, FlushTyped, ChunksStayLocal
  <2>4. TailOf(current) \in Text /\ Len(TailOf(current)) <= overlap /\ Len(TailOf(current)) \in Nat
    BY <2>2, TailText, Counters, LenProperties DEF Text
  <2>5. IsOwn(current', page + 1)
    <3>1. IsOwn(TailOf(current), page + 1)
      BY <2>4, ShortIsLocal
    <3> QED
      BY <1>3, <2>1, <2>4, <3>1, JoinedIsOwn DEF Flush, AfterFlush
  <2>6. SizeIsBounded(current')
    <3>1. Len(current') <= overlap + 1 + Len(Unit)
      BY <1>3, <2>1, <2>4, FlushTyped, UnitTyped, Counters
    <3> QED
      BY <2>1, <3>1, UnitTyped DEF SizeIsBounded
  <2>7. IsOwn(current, page + 1)' /\ SizeIsBounded(current)'
    BY <2>1, <2>5, <2>6 DEF SizeIsBounded, IsOwn, HasCharacter, Sentence
  <2> QED
    BY <2>1, <2>3, <2>7, DedupedRest DEF ChunksLocal, CurrentIsLocal
<1>4. CASE Cut
  <2>1. /\ InPage /\ page < Len(pages) /\ UNCHANGED <<pages, overlap, page, deduped, current>>
        /\ current = <<>> /\ current \in Text
    BY <1>4 DEF Cut, InPage, ChunkerTypes
  <2>2. Part \in Text /\ Len(Part) <= ChunkSize
    BY <1>4, <2>1, CutTyped, PartOfUnit, UnitTyped, Counters, SMTT(20)
  <2>3. SizeIsBounded(Part) /\ IsOwn(Part, page + 1)
    <3>1. ASSUME NEW j \in DOMAIN Part PROVE HasCharacter(page + 1, Part[j])
      <4>1. /\ Len(Part) \in Nat /\ DOMAIN Part = 1..Len(Part)
            /\ Len(Unit) \in Nat /\ DOMAIN Unit = 1..Len(Unit)
        BY <2>1, <2>2, UnitTyped, LenProperties DEF Text
      <4>2. /\ Len(Part) = IF start + ChunkSize < Len(Unit) THEN ChunkSize ELSE Len(Unit) - start
            /\ \A k \in 1..Len(Part) : Part[k] = Unit[start + k]
            /\ start < Len(Unit)
        BY <1>4, <2>1, CutTyped, PartOfUnit
      <4>3. start + j \in 1..Len(Unit) /\ Part[j] = Unit[start + j]
        BY <4>1, <4>2, Counters, SMTT(30)
      <4>4. Part[j] \in ToSet(Sentence(page + 1, unit + 1))
        BY <2>1, <4>1, <4>3, UnitTyped DEF ToSet
      <4> QED
        BY <2>1, <4>4, UnitTyped DEF HasCharacter
    <3> QED
      BY <2>2, <3>1 DEF SizeIsBounded, IsOwn
  <2>4. OutputIsLocal'
    BY <1>4, <2>1, <2>2, <2>3, CutTyped, ChunksStayLocal
  <2>5. Len(current) <= overlap
    BY <2>1, EmptySeq, Counters
  <2>6. SizeIsBounded(current)' /\ IsOwn(current, page + 1)'
    <3>1. SizeIsBounded(current) /\ IsOwn(current, page + 1)
      BY <2>1, <2>5, ShortIsLocal
    <3> QED
      BY <2>1, <3>1 DEF SizeIsBounded, IsOwn, HasCharacter, Sentence
  <2> QED
    BY <2>1, <2>4, <2>5, <2>6, DedupedRest DEF ChunksLocal, CurrentIsLocal
<1>5. CASE EndPage
  <2>1. page < Len(pages) /\ UNCHANGED <<pages, overlap, deduped>> /\ current' = TailOf(current)
    BY <1>5 DEF EndPage, Carried
  <2>2. current \in Text /\ SizeIsBounded(current) /\ IsOwn(current, page + 1)
    BY <2>1 DEF ChunksLocal, CurrentIsLocal, ChunkerTypes
  <2>3. OutputIsLocal'
    <3>1. CASE current # <<>>
      BY <1>5, <2>1, <2>2, <3>1, EndPageTyped, ChunksStayLocal
    <3>2. CASE current = <<>>
      BY <1>5, <2>1, <3>2, EndPageTyped, OutputRests
    <3> QED
      BY <3>1, <3>2
  <2>4. current' \in Text /\ Len(current') <= overlap
    BY <2>1, <2>2, TailText, Counters, LenProperties DEF Text
  <2>5. \A p : SizeIsBounded(current)' /\ IsOwn(current, p)'
    <3>1. \A p : SizeIsBounded(current') /\ IsOwn(current', p)
      BY <2>4, ShortIsLocal
    <3> QED
      BY <2>1, <3>1 DEF SizeIsBounded, IsOwn, HasCharacter, Sentence
  <2> QED
    BY <2>1, <2>3, <2>4, <2>5, DedupedRest DEF ChunksLocal, CurrentIsLocal
<1>6. CASE Deduplicate
  <2>1. UNCHANGED <<pages, overlap, page, unit, current, output>> /\ page = Len(pages)
    BY <1>6 DEF Deduplicate
  <2> DEFINE chunk == output[item + 1]
             kept == [chunk EXCEPT !.text = Stripped(chunk.text)]
  <2>2. /\ item + 1 \in 1..Len(output) /\ chunk \in ChunkRecords
        /\ SizeIsBounded(chunk.text) /\ IsOwn(chunk.text, chunk.page)
    BY <1>6, DeduplicateTyped DEF ChunksLocal, OutputIsLocal
  <2>3. SizeIsBounded(Stripped(chunk.text)) /\ IsOwn(Stripped(chunk.text), chunk.page)
    BY <2>2, StrippedIsLocal DEF ChunkRecords
  <2>4. kept.text = Stripped(chunk.text) /\ kept.page = chunk.page
    BY <2>2 DEF ChunkRecords
  <2>5. \A i \in 1..Len(deduped') :
          SizeIsBounded(deduped'[i].text) /\ IsOwn(deduped'[i].text, deduped'[i].page)
    <3>1. Len(deduped) \in Nat
      BY LenProperties DEF ChunkerTypes
    <3>2. /\ \A i \in 1..Len(deduped) : i \in 1..Len(deduped') /\ deduped'[i] = deduped[i]
          /\ \/ deduped' = deduped
             \/ Len(deduped') = Len(deduped) + 1 /\ deduped'[Len(deduped) + 1] = kept
      BY <1>6, DeduplicateTyped
    <3> HIDE DEF kept, chunk
    <3>3. ASSUME NEW i \in 1..Len(deduped')
          PROVE  SizeIsBounded(deduped'[i].text) /\ IsOwn(deduped'[i].text, deduped'[i].page)
      <4>1. CASE i \in 1..Len(deduped)
        BY <3>2, <4>1 DEF ChunksLocal, DedupedIsLocal
      <4>2. CASE i \notin 1..Len(deduped)
        <5>1. i = Len(deduped) + 1 /\ deduped'[i] = kept
          BY <3>1, <3>2, <4>2
        <5> QED
          BY <2>3, <2>4, <5>1
      <4> QED
        BY <4>1, <4>2
    <3> QED
      BY <3>3
  <2>6. DedupedIsLocal'
    BY <2>1, <2>5 DEF DedupedIsLocal, SizeIsBounded, IsOwn, HasCharacter, Sentence
  <2>7. SizeIsBounded(current)' /\ (unit' = 0 => Len(current') <= overlap')
    BY <2>1 DEF ChunksLocal, CurrentIsLocal, SizeIsBounded, Sentence
  <2>8. ~ (page' < Len(pages'))
    BY <2>1, Counters
  <2> QED
    BY <2>1, <2>6, <2>7, <2>8, OutputRests DEF ChunksLocal, CurrentIsLocal
<1> QED
  BY <1>1, <1>2, <1>3, <1>4, <1>5, <1>6 DEF ChunkerNext

(***************************************************************************)
(* No step loses text.                                                     *)
(***************************************************************************)
\* A chunk has a text.
LEMMA TextOfChunk ==
  ASSUME ChunkerTypes, NEW i \in 1..Len(output) PROVE output[i].text \in Text
<1>1. output[i] \in ChunkRecords
  BY ElementOfSeq DEF ChunkerTypes
<1> QED
  BY <1>1 DEF ChunkRecords

\* What was found or collected stays so, whatever the chunker does next.
LEMMA HeldGoesOn ==
  ASSUME ChunkerTypes, ChunkerNext, NEW part \in Text, Solid(part)
  PROVE  (Held(part) => Held(part)') /\ (Found(part) => Found(part)')
<1>2. ASSUME NEW text, Within(part, text), NEW i \in 1..Len(output'), output'[i].text = text
      PROVE  Found(part)'
  BY <1>2 DEF Found, Within
<1>1. ASSUME \A i \in 1..Len(output) : i \in 1..Len(output') /\ output'[i] = output[i]
      PROVE  Found(part) => Found(part)'
  <2>1. SUFFICES ASSUME Found(part) PROVE Found(part)'
    OBVIOUS
  <2>2. PICK i \in 1..Len(output) : Within(part, output[i].text)
    BY <2>1 DEF Found
  <2>3. i \in 1..Len(output') /\ output'[i].text = output[i].text
    BY <1>1
  <2> QED
    BY <1>2, <2>2, <2>3
<1>3. CASE SkipPage \/ Deduplicate
  <2>1. UNCHANGED <<output, current, unit>>
    <3>1. SkipPage => UNCHANGED <<output, current, unit>>
      BY DEF SkipPage
    <3>2. Deduplicate => UNCHANGED <<output, current, unit>>
      BY DEF Deduplicate
    <3> QED
      BY <1>3, <3>1, <3>2
  <2>2. \A i \in 1..Len(output) : i \in 1..Len(output') /\ output'[i] = output[i]
    BY <2>1
  <2>3. Within(part, current) => Within(part, current)'
    BY <2>1 DEF Within
  <2> QED
    BY <1>1, <2>1, <2>2, <2>3 DEF Held
<1>4. CASE Collect
  <2>1. InPage /\ output' = output /\ unit' > 0
    BY <1>4, Counters DEF Collect
  <2>2. Found(part) => Found(part)'
    BY <2>1 DEF Found, Within
  <2>3. ASSUME Within(part, current) PROVE Within(part, current')
    <3>1. Within(current, Joined(current, Unit))
      <4>1. current \in Text /\ Unit \in Text /\ Len(current) \in Nat /\ Len(Unit) \in Nat
        BY <2>1, UnitTyped, LenProperties DEF ChunkerTypes, Text
      <4>2. /\ Len(Joined(current, Unit)) = Len(current) + 1 + Len(Unit)
            /\ \A k \in 1..Len(current) : Joined(current, Unit)[k] = current[k]
        BY <4>1, JoinedText
      <4>3. /\ 0 \in 0..Len(Joined(current, Unit)) - Len(current)
            /\ \A k \in 1..Len(current) : 0 + k = k
        BY <4>1, <4>2
      <4>4. \A k \in 1..Len(current) : Joined(current, Unit)[0 + k] = current[k]
        BY <4>2, <4>3
      <4> QED
        BY <4>3, <4>4 DEF Within
    <3>2. Within(part, Joined(current, Unit))
      BY <2>1, <2>3, <3>1, UnitTyped, WithinTransitive DEF ChunkerTypes
    <3> QED
      BY <1>4, <2>1, <3>2, UnitTyped, SolidStaysWithin DEF Collect
  <2> QED
    BY <2>1, <2>2, <2>3 DEF Held, Within
<1>5. CASE Flush
  <2>1. InPage /\ page < Len(pages) /\ current \in Text
    BY <1>5 DEF Flush, InPage, ChunkerTypes
  <2>2. /\ Len(output') = Len(output) + 1 /\ output'[Len(output) + 1].text = current
        /\ \A i \in 1..Len(output) : output'[i] = output[i]
    BY <1>5, <2>1, FlushTyped, ChunkTyped
  <2>3. /\ Len(output) + 1 \in 1..Len(output')
        /\ \A i \in 1..Len(output) : i \in 1..Len(output') /\ output'[i] = output[i]
    <3>1. Len(output) \in Nat
      BY LenProperties DEF ChunkerTypes
    <3> QED
      BY <2>2, <3>1
  <2> QED
    BY <1>1, <1>2, <2>2, <2>3 DEF Held
<1>6. CASE Cut
  <2>1. /\ Len(output') = Len(output) + 1
        /\ \A i \in 1..Len(output) : output'[i] = output[i]
    BY <1>6, CutTyped
  <2>2. \A i \in 1..Len(output) : i \in 1..Len(output') /\ output'[i] = output[i]
    <3>1. Len(output) \in Nat
      BY LenProperties DEF ChunkerTypes
    <3> QED
      BY <2>1, <3>1
  <2>3. current' = current /\ (unit > 0 => unit' > 0)
    BY <1>6, Counters DEF Cut
  <2> QED
    BY <1>1, <2>2, <2>3 DEF Held, Within
<1>7. CASE EndPage
  <2>1. \A i \in 1..Len(output) : i \in 1..Len(output') /\ output'[i] = output[i]
    BY <1>7, EndPageTyped
  <2>2. ASSUME Within(part, current) PROVE Found(part)'
    <3>1. current # <<>>
      BY <2>2, NothingSolidInEmpty
    <3>2. current \in Text /\ page < Len(pages) /\ Len(output) \in Nat
      BY <1>7, LenProperties DEF EndPage, ChunkerTypes
    <3>3. /\ Len(output') = Len(output) + 1
          /\ output'[Len(output) + 1].text = current
      BY <1>7, <3>1, <3>2, EndPageTyped, ChunkTyped
    <3>4. Len(output) + 1 \in 1..Len(output')
      BY <3>2, <3>3
    <3> QED
      BY <1>2, <2>2, <3>3, <3>4
  <2> QED
    BY <1>1, <2>1, <2>2 DEF Held
<1> QED
  BY <1>3, <1>4, <1>5, <1>6, <1>7 DEF ChunkerNext

\* A sentence is done when it has been collected, or when its last part has been cut.
LEMMA WhatIsDone ==
  ASSUME ChunkerTypes, ChunkerNext,
         NEW p \in DOMAIN pages, NEW u \in DOMAIN pages[p].units, Processed(p, u)'
  PROVE  \/ Processed(p, u)
         \/ /\ p = page + 1 /\ u = unit + 1 /\ InPage /\ unit' = unit + 1
            /\ Collect \/ Flush \/ Cut
<1>1. page \in Nat /\ unit \in Nat /\ p \in Nat /\ u \in Nat /\ u > 0 /\ u <= Len(pages[p].units)
  <2>1. DOMAIN pages = 1..Len(pages) /\ DOMAIN pages[p].units = 1..Len(pages[p].units)
    BY PagesTyped DEF ChunkerTypes
  <2> QED
    BY <2>1, Counters
<1>2. CASE SkipPage
  <2>1. p <= page + 1 \/ (p = (page + 1) + 1 /\ u <= 0)
    BY <1>2, SkipPageTyped DEF SkipPage, Processed
  <2>2. p # page + 1
    BY <1>1, <1>2, EmptySeq DEF SkipPage, Units
  <2> QED
    BY <1>1, <2>1, <2>2 DEF Processed
<1>3. CASE EndPage
  <2>1. p <= page + 1 \/ (p = (page + 1) + 1 /\ u <= 0)
    BY <1>3 DEF EndPage, Processed
  <2>2. p = page + 1 => u <= unit
    BY <1>1, <1>3 DEF EndPage, Units
  <2> QED
    BY <1>1, <2>1, <2>2 DEF Processed
<1>4. CASE Deduplicate
  BY <1>4 DEF Deduplicate, Processed
<1>5. CASE Collect \/ Flush \/ Cut
  <2>1. InPage /\ page' = page /\ unit' \in {unit, unit + 1}
    BY <1>5 DEF Collect, Flush, Cut
  <2> QED
    BY <1>1, <1>5, <2>1 DEF Processed
<1> QED
  BY <1>2, <1>3, <1>4, <1>5 DEF ChunkerNext

\* The sentence that is collected next ends what is collected.
LEMMA UnitIsCollected ==
  ASSUME ChunkerTypes, Collect \/ Flush
  PROVE  InPage /\ current' \in Text /\ EndsWith(current', Unit)
<1>1. InPage /\ Unit \in Text /\ Solid(Unit) /\ current \in Text /\ TailOf(current) \in Text
  BY UnitTyped, TailText, Counters DEF Collect, Flush, ChunkerTypes
<1>2. CASE Collect
  <2>1. current' = Stripped(Joined(current, Unit))
    BY <1>2 DEF Collect
  <2> QED
    BY <1>1, <2>1, JoinedText, JoinedEnds, StrippedText, StrippedEnds
<1>3. CASE Flush
  <2>1. current' = Joined(TailOf(current), Unit)
    BY <1>3 DEF Flush, AfterFlush
  <2> QED
    BY <1>1, <2>1, JoinedText, JoinedEnds
<1> QED
  BY <1>2, <1>3

\* A piece of a sentence is solid, a stretch of it, and within it.
LEMMA PieceOfSentence ==
  ASSUME ChunkerTypes, NEW sentence \in Text, Solid(sentence), NEW piece \in Pieces(sentence)
  PROVE  /\ piece \in Text /\ Solid(piece) /\ Within(piece, sentence)
         /\ IsCut(sentence) => \E i, j \in 1..Len(sentence) :
              i <= j /\ j - i <= overlap /\ piece = SubSeq(sentence, i, j)
<1>1. CASE ~ IsCut(sentence)
  BY <1>1, WithinItself DEF Pieces
<1>2. CASE IsCut(sentence)
  <2>1. DOMAIN sentence = 1..Len(sentence) /\ Len(sentence) \in Nat
    BY LenProperties DEF Text
  <2> DEFINE Stretches == {SubSeq(sentence, i, j) : i \in DOMAIN sentence, j \in DOMAIN sentence}
  <2>0. Pieces(sentence) = {s \in Stretches : Solid(s) /\ Len(s) <= overlap + 1}
    BY <1>2 DEF Pieces
  <2> HIDE DEF Stretches
  <2>9. piece \in Stretches /\ Solid(piece) /\ Len(piece) <= overlap + 1
    BY <2>0
  <2>8. \E i, j \in DOMAIN sentence : piece = SubSeq(sentence, i, j)
    BY <2>9 DEF Stretches
  <2>2. PICK i \in 1..Len(sentence), j \in 1..Len(sentence) :
          piece = SubSeq(sentence, i, j) /\ Solid(piece) /\ Len(piece) <= overlap + 1
    BY <2>1, <2>8, <2>9
  <2>3. i <= j
    <3>1. SUFFICES ASSUME j < i PROVE FALSE
      BY <2>1
    <3>2. piece = <<>>
      BY <2>2, <3>1, SubSeqEmpty
    <3> QED
      BY <2>2, <3>2 DEF Solid
  <2>4. /\ piece \in Text /\ Len(piece) = j - i + 1
        /\ \A k \in 1..j - i + 1 : piece[k] = sentence[i + k - 1]
    BY <2>2, <2>3, StretchOfText
  <2>5. i - 1 \in 0..Len(sentence) - Len(piece) /\ \A k \in 1..Len(piece) : sentence[(i - 1) + k] = piece[k]
    BY <2>1, <2>3, <2>4
  <2>6. j - i <= overlap
    BY <2>1, <2>2, <2>4, Counters
  <2> QED
    BY <2>2, <2>3, <2>4, <2>5, <2>6 DEF Within
<1> QED
  BY <1>1, <1>2

LEMMA PagesStay == ASSUME ChunkerNext PROVE UNCHANGED <<pages, overlap>>
  BY DEF ChunkerNext, SkipPage, Collect, Flush, Cut, EndPage, Deduplicate

\* What is within the text that is collected by a step, or cut by it, is held after it.
LEMMA CollectedIsHeld ==
  ASSUME ChunkerTypes, Collect \/ Flush, NEW part, Within(part, current') PROVE Held(part)'
<1>1. unit' = unit + 1
  BY DEF Collect, Flush
<1>2. unit' > 0
  BY <1>1, Counters
<1>3. Within(part, current)'
  BY DEF Within
<1> QED
  BY <1>2, <1>3 DEF Held

LEMMA StretchOfPart ==
  ASSUME ChunkerTypes, Cut, NEW i \in 1..Len(Unit), NEW j \in 1..Len(Unit),
         start < i, i <= j, j <= start + ChunkSize, NEW piece, piece = SubSeq(Unit, i, j)
  PROVE  Found(piece)'
<1>1. /\ InPage /\ Unit \in Text /\ Len(Unit) \in Nat /\ start \in Nat /\ start < Len(Unit)
      /\ ChunkSize \in Nat /\ page < Len(pages)
  BY UnitTyped, Counters, CutTyped DEF Cut, InPage
<1>2. /\ Part \in Text
      /\ Len(Part) = IF start + ChunkSize < Len(Unit) THEN ChunkSize ELSE Len(Unit) - start
      /\ \A k \in 1..Len(Part) : Part[k] = Unit[start + k]
  BY <1>1, PartOfUnit
<1>3. piece \in Text /\ Len(piece) = j - i + 1 /\ \A k \in 1..j - i + 1 : piece[k] = Unit[i + k - 1]
  BY <1>1, StretchOfText
<1>4. i - start - 1 \in 0..Len(Part) - Len(piece)
  BY <1>1, <1>2, <1>3
<1>5. ASSUME NEW k \in 1..Len(piece) PROVE Part[(i - start - 1) + k] = piece[k]
  <2>1. (i - start - 1) + k \in 1..Len(Part) /\ start + ((i - start - 1) + k) = i + k - 1
    BY <1>1, <1>2, <1>3
  <2>2. Part[(i - start - 1) + k] = Unit[start + ((i - start - 1) + k)]
    BY <1>2, <2>1
  <2> QED
    BY <1>3, <2>1, <2>2
<1>6. Within(piece, Part)
  BY <1>4, <1>5 DEF Within
<1>7. Len(output) \in Nat /\ Len(output') = Len(output) + 1 /\ output'[Len(output) + 1] = Chunk(Part)
  BY CutTyped, LenProperties DEF ChunkerTypes
<1>8. Len(output) + 1 \in 1..Len(output') /\ output'[Len(output) + 1].text = Part
  BY <1>1, <1>2, <1>7, ChunkTyped
<1>9. Within(piece, output'[Len(output) + 1].text)
  BY <1>6, <1>8
<1> QED
  BY <1>8, <1>9 DEF Found, Within

\* A sentence that a step finishes is in what it collects, or its pieces are in the parts cut
\* from it: one that begins before the last part is in an earlier part, for two parts share
\* the overlap.
LEMMA SentencesStayHeld ==
  ASSUME ChunkerTypes, ChunkerNext, SentencesHeld, CutSoFar PROVE SentencesHeld'
<1>1. ASSUME NEW p \in DOMAIN pages, NEW u \in DOMAIN pages[p].units, Processed(p, u)',
             NEW piece \in Pieces(Sentence(p, u))
      PROVE  Held(piece)'
  <2>1. Sentence(p, u) \in Text /\ Solid(Sentence(p, u))
    BY PagesTyped DEF ChunkerTypes
  <2>2. /\ piece \in Text /\ Solid(piece) /\ Within(piece, Sentence(p, u))
        /\ IsCut(Sentence(p, u)) => \E i, j \in 1..Len(Sentence(p, u)) :
              i <= j /\ j - i <= overlap /\ piece = SubSeq(Sentence(p, u), i, j)
    BY <2>1, PieceOfSentence
  <2>3. CASE Processed(p, u)
    BY <2>2, <2>3, HeldGoesOn DEF SentencesHeld
  <2>4. CASE ~ Processed(p, u)
    <3>1. /\ p = page + 1 /\ u = unit + 1 /\ InPage /\ unit' = unit + 1
          /\ Collect \/ Flush \/ Cut
      BY <1>1, <2>4, WhatIsDone
    <3>2. Sentence(p, u) = Unit
      BY <3>1, UnitTyped
    <3>3. CASE Collect \/ Flush
      <4>1. current' \in Text /\ EndsWith(current', Unit)
        BY <3>3, UnitIsCollected
      <4>2. Within(piece, current')
        BY <2>1, <2>2, <3>2, <4>1, EndIsWithin, WithinTransitive
      <4> QED
        BY <3>3, <4>2, CollectedIsHeld
    <3>4. CASE Cut
      <4>1. PICK i \in 1..Len(Unit), j \in 1..Len(Unit) :
              i <= j /\ j - i <= overlap /\ piece = SubSeq(Unit, i, j)
        BY <2>2, <3>2, <3>4, CutTyped
      <4>2. CASE i <= start
        <5>1. Found(piece)
          BY <3>1, <4>1, <4>2 DEF CutSoFar
        <5>2. Found(piece)'
          BY <2>2, <5>1, HeldGoesOn
        <5> QED
          BY <5>2 DEF Held
      <4>3. CASE start < i
        <5>1. ~ (start + ChunkSize - overlap < Len(Unit))
          BY <3>1, <3>4, Counters DEF Cut
        <5>2. j <= start + ChunkSize
          BY <3>1, <5>1, Counters, UnitTyped, SMTT(20)
        <5>3. Found(piece)'
          BY <3>4, <4>1, <4>3, <5>2, StretchOfPart
        <5> QED
          BY <5>3 DEF Held
      <4> QED
        BY <4>2, <4>3, Counters
    <3> QED
      BY <3>1, <3>3, <3>4
  <2> QED
    BY <2>3, <2>4
<1>2. UNCHANGED <<pages, overlap>>
  BY PagesStay
<1>3. \A p, u : Pieces(Sentence(p, u))' = Pieces(Sentence(p, u))
  BY <1>2 DEF Pieces, IsCut, Sentence
<1> QED
  BY <1>1, <1>2, <1>3 DEF SentencesHeld

\* Every piece that begins in the parts cut so far, but for the overlap, is in one of them.
LEMMA CutGoesOn == ASSUME ChunkerTypes, ChunkerNext, CutSoFar PROVE CutSoFar'
<1>1. CASE start' = 0 \/ ~ InPage'
  BY <1>1 DEF CutSoFar
<1>2. CASE start' # 0 /\ InPage'
  <2>1. Cut /\ start' = start + ChunkSize - overlap /\ start + ChunkSize - overlap < Len(Unit)
    <3>1. ~ SkipPage
      BY <1>2, SkipPageTyped DEF SkipPage
    <3>2. ~ Collect
      BY <1>2, CollectTyped DEF Collect
    <3>3. ~ Flush
      BY <1>2, FlushTyped DEF Flush
    <3>4. ~ EndPage
      BY <1>2, EndPageTyped DEF EndPage
    <3>5. ~ Deduplicate
      <4>1. ASSUME Deduplicate PROVE FALSE
        <5>1. ~ InPage'
          BY <4>1, Counters DEF Deduplicate, InPage
        <5> QED
          BY <1>2, <5>1
      <4> QED
        BY <4>1
    <3> QED
      BY <1>2, <3>1, <3>2, <3>3, <3>4, <3>5 DEF ChunkerNext, Cut
  <2>2. InPage /\ UNCHANGED <<pages, overlap, page, unit>>
    BY <2>1, Counters, UnitTyped DEF Cut
  <2>3. Unit' = Unit
    BY <2>2 DEF Unit, Units
  <2>4. ASSUME NEW i \in 1..Len(Unit), NEW j \in 1..Len(Unit),
               i <= start + ChunkSize - overlap, i <= j, j - i <= overlap,
               NEW piece, piece = SubSeq(Unit, i, j)
        PROVE  Found(piece)'
    <3>1. CASE i <= start
      <4>1. Found(piece)
        BY <2>2, <2>4, <3>1 DEF CutSoFar
      <4>2. PICK m \in 1..Len(output) : Within(piece, output[m].text)
        BY <4>1 DEF Found
      <4>3. \A m1 \in 1..Len(output) : m1 \in 1..Len(output') /\ output'[m1] = output[m1]
        <5>1. Len(output) \in Nat
          BY LenProperties DEF ChunkerTypes
        <5> QED
          BY <2>1, <5>1, CutTyped
      <4>4. m \in 1..Len(output') /\ Within(piece, output'[m].text)
        BY <4>2, <4>3
      <4> QED
        BY <4>4 DEF Found, Within
    <3>2. CASE start < i
      <4>1. j <= start + ChunkSize
        BY <2>4, Counters
      <4> QED
        BY <2>1, <2>4, <3>2, <4>1, StretchOfPart
    <3> QED
      BY <3>1, <3>2, Counters
  <2>5. ASSUME NEW i \in 1..Len(Unit), NEW j \in 1..Len(Unit),
               i <= start + ChunkSize - overlap, i <= j, j - i <= overlap
        PROVE  \E m \in 1..Len(output') : Within(SubSeq(Unit, i, j), output'[m].text)
    <3>1. ASSUME NEW piece, piece = SubSeq(Unit, i, j)
          PROVE  \E m \in 1..Len(output') : Within(piece, output'[m].text)
      <4>1. Found(piece)'
        BY <2>4, <2>5, <3>1
      <4> QED
        BY <4>1 DEF Found, Within
    <3> QED
      BY <3>1
  <2>6. \A i, j \in 1..Len(Unit') :
          i <= start' /\ i <= j /\ j - i <= overlap' =>
            \E m \in 1..Len(output') : Within(SubSeq(Unit', i, j), output'[m].text)
    BY <2>1, <2>2, <2>3, <2>5
  <2> QED
    BY <2>6 DEF CutSoFar, Found, Within
<1> QED
  BY <1>1, <1>2

LEMMA MeetingIsText ==
  ASSUME overlap \in Nat, NEW sentence \in Text, NEW next \in Text, Solid(next)
  PROVE  /\ TailOf(sentence) \in Text /\ Joined(TailOf(sentence), next) \in Text
         /\ Meeting(sentence, next) \in Text /\ Solid(Meeting(sentence, next))
         /\ Within(Meeting(sentence, next), Joined(TailOf(sentence), next))
<1> DEFINE joined == Joined(TailOf(sentence), next)
<1>1. TailOf(sentence) \in Text
  BY TailText
<1>2. joined \in Text
  BY <1>1, JoinedText
<1>3. EndsWith(joined, next)
  BY <1>1, JoinedEnds
<1> HIDE DEF joined
<1>4. Stripped(joined) \in Text /\ (Stripped(joined) = <<>> \/ Solid(Stripped(joined)))
  BY <1>2, StrippedText
<1>5. EndsWith(Stripped(joined), next)
  BY <1>2, <1>3, StrippedEnds
<1>6. Stripped(joined) # <<>>
  <2>1. Within(next, Stripped(joined))
    BY <1>4, <1>5, EndIsWithin
  <2> QED
    BY <2>1, NothingSolidInEmpty
<1>7. Within(Stripped(joined), joined)
  BY <1>2, StrippedIsWithin
<1> QED
  BY <1>1, <1>2, <1>4, <1>6, <1>7 DEF Meeting, joined

\* The end of the last sentence done and the next one meet in what is collected.
LEMMA MeetingIsCollected ==
  ASSUME ChunkerTypes, Collect \/ Flush, NEW sentence \in Text,
         EndsWith(current, TailOf(sentence)), NEW meeting, meeting = Meeting(sentence, Unit)
  PROVE  Held(meeting)'
<1> DEFINE end == TailOf(sentence)
<1>1. /\ InPage /\ Unit \in Text /\ Solid(Unit) /\ current \in Text /\ overlap \in Nat
      /\ TailOf(current) \in Text /\ Joined(current, Unit) \in Text
      /\ Stripped(Joined(current, Unit)) \in Text
  BY UnitTyped, TailText, Counters DEF Collect, Flush, ChunkerTypes
<1>2. /\ end \in Text /\ Joined(end, Unit) \in Text /\ meeting \in Text /\ Solid(meeting)
      /\ Within(meeting, Joined(end, Unit))
  BY <1>1, MeetingIsText
<1>3. CASE Collect
  <2>1. Within(Joined(end, Unit), Joined(current, Unit))
    BY <1>1, <1>2, JoinedAtEnd
  <2>2. Within(meeting, Joined(current, Unit))
    BY <1>1, <1>2, <2>1, WithinTransitive
  <2>3. current' = Stripped(Joined(current, Unit))
    BY <1>3 DEF Collect
  <2>4. Within(meeting, current')
    BY <1>1, <1>2, <2>2, <2>3, SolidStaysWithin
  <2> QED
    BY <1>3, <2>4, CollectedIsHeld
<1>4. CASE Flush
  <2>1. Len(end) <= overlap
    BY <1>1, TailText, LenProperties DEF Text
  <2>2. EndsWith(TailOf(current), end)
    BY <1>1, <1>2, <2>1, TailKeepsEnd
  <2>3. Within(Joined(end, Unit), Joined(TailOf(current), Unit))
    BY <1>1, <1>2, <2>2, JoinedAtEnd
  <2>4. current' = Joined(TailOf(current), Unit) /\ Joined(TailOf(current), Unit) \in Text
    BY <1>1, <1>4, JoinedText DEF Flush, AfterFlush
  <2>5. Within(meeting, current')
    BY <1>1, <1>2, <2>3, <2>4, WithinTransitive
  <2> QED
    BY <1>4, <2>5, CollectedIsHeld
<1> QED
  BY <1>3, <1>4

\* A meeting is held from the step on that collects its second sentence.
LEMMA MeetingsStayHeld ==
  ASSUME ChunkerTypes, ChunkerNext, MeetingsHeld, EndIsCollected PROVE MeetingsHeld'
<1>1. ASSUME NEW p \in DOMAIN pages, NEW q \in DOMAIN pages,
             NEW u \in DOMAIN pages[p].units, NEW v \in DOMAIN pages[q].units,
             Follows(p, u, q, v), Processed(q, v)',
             ~ IsCut(Sentence(p, u)), ~ IsCut(Sentence(q, v)),
             NEW meeting, meeting = Meeting(Sentence(p, u), Sentence(q, v))
      PROVE  Held(meeting)'
  <2>1. /\ Sentence(p, u) \in Text /\ Sentence(q, v) \in Text /\ Solid(Sentence(q, v))
        /\ overlap \in Nat
    BY PagesTyped, Counters DEF ChunkerTypes
  <2>2. meeting \in Text /\ Solid(meeting)
    BY <1>1, <2>1, MeetingIsText
  <2>3. CASE Processed(q, v)
    <3>1. Held(meeting)
      BY <1>1, <2>3 DEF MeetingsHeld
    <3> QED
      BY <2>2, <3>1, HeldGoesOn
  <2>4. CASE ~ Processed(q, v)
    <3>1. /\ q = page + 1 /\ v = unit + 1 /\ InPage /\ unit' = unit + 1
          /\ Collect \/ Flush \/ Cut
      BY <1>1, <2>4, WhatIsDone
    <3>2. Sentence(q, v) = Unit
      BY <3>1, UnitTyped
    <3>3. Collect \/ Flush
      BY <1>1, <3>1, <3>2, CutTyped
    <3>4. LastDone(p, u)
      <4>1. p \in Nat /\ u \in Nat \ {0} /\ page \in Nat /\ unit \in Nat
        <5>1. DOMAIN pages = 1..Len(pages) /\ DOMAIN pages[p].units = 1..Len(pages[p].units)
          BY PagesTyped DEF ChunkerTypes
        <5> QED
          BY <5>1, Counters
      <4>2. CASE q = p /\ v = u + 1
        BY <3>1, <4>1, <4>2 DEF LastDone
      <4>3. CASE q > p /\ u = Len(pages[p].units) /\ v = 1
                 /\ \A r \in p + 1..q - 1 : pages[r].units = <<>>
        <5>1. unit = 0 /\ p <= page /\ q - 1 = page
          BY <3>1, <4>1, <4>3
        <5>2. \A r \in p + 1..page : pages[r].units = <<>>
          BY <4>3, <5>1
        <5> QED
          BY <4>3, <5>1, <5>2 DEF LastDone
      <4> QED
        BY <1>1, <4>2, <4>3 DEF Follows
    <3>5. EndsWith(current, TailOf(Sentence(p, u)))
      BY <1>1, <3>4 DEF EndIsCollected
    <3> QED
      BY <1>1, <2>1, <3>2, <3>3, <3>5, MeetingIsCollected
  <2> QED
    BY <2>3, <2>4
<1>2. UNCHANGED <<pages, overlap>>
  BY PagesStay
<1>3. ASSUME NEW p \in DOMAIN pages, NEW q \in DOMAIN pages,
             NEW u \in DOMAIN pages[p].units, NEW v \in DOMAIN pages[q].units,
             Follows(p, u, q, v), Processed(q, v)',
             ~ IsCut(Sentence(p, u)), ~ IsCut(Sentence(q, v)),
             NEW meeting, meeting = Meeting(Sentence(p, u), Sentence(q, v))
      PROVE  \/ \E i \in 1..Len(output') : Within(meeting, output'[i].text)
             \/ unit' > 0 /\ Within(meeting, current')
  <2>1. Held(meeting)'
    BY <1>1, <1>3
  <2> QED
    BY <2>1 DEF Held, Found, Within
<1>4. ASSUME NEW p \in DOMAIN pages, NEW q \in DOMAIN pages,
             NEW u \in DOMAIN pages[p].units, NEW v \in DOMAIN pages[q].units,
             Follows(p, u, q, v), Processed(q, v)',
             ~ IsCut(Sentence(p, u)), ~ IsCut(Sentence(q, v))
      PROVE  \/ \E i \in 1..Len(output') :
                  Within(Meeting(Sentence(p, u), Sentence(q, v)), output'[i].text)
             \/ unit' > 0 /\ Within(Meeting(Sentence(p, u), Sentence(q, v)), current')
  BY <1>3, <1>4
<1>5. \A p, q, u, v :
        /\ Follows(p, u, q, v)' <=> Follows(p, u, q, v)
        /\ IsCut(Sentence(p, u))' <=> IsCut(Sentence(p, u))
        /\ Meeting(Sentence(p, u), Sentence(q, v))' = Meeting(Sentence(p, u), Sentence(q, v))
  BY <1>2 DEF Follows, IsCut, Sentence, Meeting, TailOf, Stripped, Joined
<1>6. ASSUME NEW p \in DOMAIN pages, NEW q \in DOMAIN pages,
             NEW u \in DOMAIN pages[p].units, NEW v \in DOMAIN pages[q].units,
             Follows(p, u, q, v)', Processed(q, v)',
             ~ IsCut(Sentence(p, u))', ~ IsCut(Sentence(q, v))'
      PROVE  Held(Meeting(Sentence(p, u), Sentence(q, v)))'
  <2>1. \/ \E i \in 1..Len(output') :
                  Within(Meeting(Sentence(p, u), Sentence(q, v)), output'[i].text)
        \/ unit' > 0 /\ Within(Meeting(Sentence(p, u), Sentence(q, v)), current')
    BY <1>4, <1>5, <1>6
  <2> DEFINE meeting == Meeting(Sentence(p, u), Sentence(q, v))
  <2>2. meeting' = meeting
    BY <1>5
  <2> HIDE DEF meeting
  <2>3. \/ \E i \in 1..Len(output') : Within(meeting, output'[i].text)
        \/ unit' > 0 /\ Within(meeting, current')
    BY <2>1 DEF meeting
  <2>4. Held(meeting)'
    BY <2>2, <2>3 DEF Held, Found, Within
  <2> QED
    BY <2>4 DEF meeting
<1> QED
  BY <1>2, <1>6 DEF MeetingsHeld

\* What is collected ends with the end of the last sentence, also over a page's end and
\* over pages without text.
LEMMA EndStaysCollected ==
  ASSUME ChunkerTypes, ChunkerNext, EndIsCollected PROVE EndIsCollected'
<1>1. ASSUME NEW p \in DOMAIN pages, NEW u \in DOMAIN pages[p].units,
             LastDone(p, u)', ~ IsCut(Sentence(p, u))
      PROVE  EndsWith(current', TailOf(Sentence(p, u)))
  <2>1. /\ Sentence(p, u) \in Text /\ overlap \in Nat
        /\ p \in Nat /\ u \in Nat \ {0} /\ u <= Len(pages[p].units) /\ p <= Len(pages)
        /\ page \in Nat /\ unit \in Nat /\ Len(pages[p].units) \in Nat \ {0}
        /\ (pages[p].units = <<>> <=> Len(pages[p].units) = 0)
    <3>1. DOMAIN pages = 1..Len(pages) /\ DOMAIN pages[p].units = 1..Len(pages[p].units)
      BY PagesTyped DEF ChunkerTypes
    <3>2. /\ Sentence(p, u) \in Text /\ Len(pages) \in Nat /\ Len(pages[p].units) \in Nat
          /\ (pages[p].units = <<>> <=> Len(pages[p].units) = 0)
      BY PagesTyped DEF ChunkerTypes
    <3> QED
      BY <3>1, <3>2, Counters
  <2>2. LastDone(p, u) => EndsWith(current, TailOf(Sentence(p, u)))
    BY <1>1 DEF EndIsCollected
  <2>3. CASE SkipPage
    <3>1. /\ unit = 0 /\ unit' = 0 /\ page' = page + 1 /\ pages' = pages /\ current' = current
          /\ pages[page + 1].units = <<>>
      BY <2>3, SkipPageTyped DEF SkipPage, Units
    <3>2. /\ p <= page + 1 /\ u = Len(pages[p].units)
          /\ \A r \in p + 1..page + 1 : pages[r].units = <<>>
      BY <1>1, <3>1 DEF LastDone
    <3>3. p # page + 1
      BY <2>1, <3>1
    <3>4. p <= page /\ \A r \in p + 1..page : pages[r].units = <<>>
      BY <2>1, <3>2, <3>3
    <3> QED
      BY <2>2, <3>1, <3>2, <3>4 DEF LastDone
  <2>4. CASE Collect \/ Flush
    <3>1. /\ page' = page /\ unit' = unit + 1 /\ unit' > 0
      BY <2>1, <2>4 DEF Collect, Flush
    <3>2. p = page + 1 /\ u = unit + 1
      BY <1>1, <3>1 DEF LastDone
    <3>3. InPage /\ current' \in Text /\ EndsWith(current', Unit) /\ Sentence(p, u) = Unit
      BY <2>4, <3>2, UnitIsCollected, UnitTyped
    <3>4. EndsWith(Unit, TailOf(Unit)) /\ TailOf(Unit) \in Text
      BY <2>1, <3>3, TailIsEnd, TailText
    <3> QED
      BY <2>1, <3>3, <3>4, EndsWithEnd
  <2>5. CASE Cut
    <3>1. page' = page /\ pages' = pages /\ current' = current /\ unit' \in {unit, unit + 1}
      BY <2>5 DEF Cut
    <3>2. CASE unit' = unit
      BY <1>1, <2>2, <3>1, <3>2 DEF LastDone
    <3>3. CASE unit' = unit + 1
      <4>1. p = page + 1 /\ u = unit + 1
        BY <1>1, <2>1, <3>1, <3>3 DEF LastDone
      <4>2. Sentence(p, u) = Unit /\ IsCut(Unit)
        BY <2>5, <4>1, CutTyped, UnitTyped DEF Cut
      <4> QED
        BY <1>1, <4>2
    <3> QED
      BY <3>1, <3>2, <3>3
  <2>6. CASE EndPage
    <3>1. /\ unit > 0 /\ unit' = 0 /\ page' = page + 1 /\ pages' = pages
          /\ current' = TailOf(current) /\ current \in Text
          /\ pages[page + 1].units # <<>> /\ unit = Len(pages[page + 1].units)
      BY <2>6, EndPageTyped DEF EndPage, Units, Carried, ChunkerTypes
    <3>2. /\ p <= page + 1 /\ u = Len(pages[p].units)
          /\ \A r \in p + 1..page + 1 : pages[r].units = <<>>
      BY <1>1, <3>1 DEF LastDone
    <3>3. p = page + 1
      <4>1. SUFFICES ASSUME p <= page PROVE FALSE
        BY <2>1, <3>2
      <4>2. page + 1 \in p + 1..page + 1
        BY <2>1, <4>1
      <4> QED
        BY <3>1, <3>2, <4>2
    <3>4. LastDone(p, u)
      BY <3>1, <3>2, <3>3 DEF LastDone
    <3>5. Len(TailOf(Sentence(p, u))) <= overlap /\ TailOf(Sentence(p, u)) \in Text
      BY <2>1, TailText, LenProperties DEF Text
    <3> QED
      BY <2>1, <2>2, <3>1, <3>4, <3>5, TailKeepsEnd
  <2>7. CASE Deduplicate
    <3>1. UNCHANGED <<pages, page, unit, current>>
      BY <2>7 DEF Deduplicate
    <3> QED
      BY <1>1, <2>2, <3>1 DEF LastDone
  <2> QED
    BY <2>3, <2>4, <2>5, <2>6, <2>7 DEF ChunkerNext
<1>2. UNCHANGED <<pages, overlap>>
  BY PagesStay
<1>3. \A p, u : /\ IsCut(Sentence(p, u))' <=> IsCut(Sentence(p, u))
                /\ TailOf(Sentence(p, u))' = TailOf(Sentence(p, u))
  BY <1>2 DEF IsCut, Sentence, TailOf
<1>4. ASSUME NEW p \in DOMAIN pages, NEW u \in DOMAIN pages[p].units,
             LastDone(p, u)', ~ IsCut(Sentence(p, u))'
      PROVE  EndsWith(current, TailOf(Sentence(p, u)))'
  <2>1. EndsWith(current', TailOf(Sentence(p, u)))
    BY <1>1, <1>3, <1>4
  <2> QED
    BY <1>3, <2>1 DEF EndsWith
<1> QED
  BY <1>2, <1>4 DEF EndIsCollected

\* The deduplication drops a chunk only for an equal one, or an empty one.
LEMMA NothingGetsDropped ==
  ASSUME ChunkerTypes, ChunkerNext, NothingIsDropped PROVE NothingIsDropped'
<1>1. item \in Nat /\ Len(output) \in Nat /\ Len(deduped) \in Nat
  BY LenProperties DEF ChunkerTypes
<1>2. CASE Deduplicate
  <2>1. item' = item + 1 /\ output' = output
    BY <1>2 DEF Deduplicate
  <2>2. /\ \A i \in 1..Len(deduped) : i \in 1..Len(deduped') /\ deduped'[i] = deduped[i]
        /\ \/ Stripped(output[item + 1].text) = <<>>
           \/ \E i \in 1..Len(deduped') : deduped'[i].text = Stripped(output[item + 1].text)
    BY <1>2, DeduplicateTyped
  <2>3. ASSUME NEW i \in 1..item + 1
        PROVE  \/ Stripped(output[i].text) = <<>>
               \/ \E k \in 1..Len(deduped') : deduped'[k].text = Stripped(output[i].text)
    <3>1. CASE i = item + 1
      BY <2>2, <3>1
    <3>2. CASE i # item + 1
      <4>1. i \in 1..item
        BY <1>1, <3>2
      <4> QED
        BY <2>2, <4>1 DEF NothingIsDropped
    <3> QED
      BY <3>1, <3>2
  <2>4. \A i : Stripped(output[i].text)' = Stripped(output[i].text)
    BY <2>1 DEF Stripped
  <2> QED
    BY <2>1, <2>3, <2>4 DEF NothingIsDropped
<1>3. CASE SkipPage \/ Collect \/ Flush \/ Cut \/ EndPage
  <2>1. page < Len(pages) /\ item' = item
    BY <1>3 DEF SkipPage, Collect, Flush, Cut, EndPage, InPage
  <2>2. item' = 0
    BY <1>1, <2>1, Counters DEF ChunkerTypes
  <2>3. \A i \in 1..item' : FALSE
    BY <2>2
  <2> QED
    BY <2>3 DEF NothingIsDropped
<1> QED
  BY <1>2, <1>3 DEF ChunkerNext

(***************************************************************************)
(* The chunker's theorems, of Evidence's specification: the steps after    *)
(* the chunking leave its variables alone.                                 *)
(***************************************************************************)
LEMMA ChunkerInvBegins == ChunkerInit => ChunkerInv
<1> SUFFICES ASSUME ChunkerInit PROVE ChunkerInv
  OBVIOUS
<1>1. ChunkerTypes /\ ChunksLocal
  BY ChunkerBegins, LocalBegins
<1>2. page = 0 /\ unit = 0 /\ start = 0 /\ item = 0
  BY DEF ChunkerInit
<1>3. ASSUME NEW p \in DOMAIN pages, NEW u \in DOMAIN pages[p].units
      PROVE  ~ Processed(p, u) /\ ~ LastDone(p, u)
  <2>1. DOMAIN pages = 1..Len(pages) /\ DOMAIN pages[p].units = 1..Len(pages[p].units)
    BY <1>1, PagesTyped DEF ChunkerTypes
  <2>2. p > 0 /\ u > 0 /\ p \in Nat /\ u \in Nat
    BY <2>1
  <2> QED
    BY <1>2, <2>2 DEF Processed, LastDone
<1>4. SentencesHeld /\ MeetingsHeld /\ EndIsCollected
  BY <1>3 DEF SentencesHeld, MeetingsHeld, EndIsCollected
<1>5. CutSoFar /\ NothingIsDropped
  BY <1>2 DEF CutSoFar, NothingIsDropped
<1> QED
  BY <1>1, <1>4, <1>5 DEF ChunkerInv, TextKept

LEMMA ChunkerInvStays == ChunkerInv /\ [ChunkerNext]_chunkerVars => ChunkerInv'
<1> SUFFICES ASSUME ChunkerInv, [ChunkerNext]_chunkerVars PROVE ChunkerInv'
  OBVIOUS
<1>1. CASE ChunkerNext
  <2>1. ChunkerTypes'
    BY <1>1, SkipPageTyped, CollectTyped, FlushTyped, CutTyped, EndPageTyped, DeduplicateTyped
    DEF ChunkerInv, ChunkerNext
  <2>2. ChunksLocal'
    BY <1>1, LocalKept DEF ChunkerInv
  <2>3. TextKept'
    BY <1>1, SentencesStayHeld, CutGoesOn, MeetingsStayHeld, EndStaysCollected, NothingGetsDropped
    DEF ChunkerInv, TextKept
  <2> QED
    BY <2>1, <2>2, <2>3 DEF ChunkerInv
<1>2. CASE UNCHANGED chunkerVars
  <2>1. ChunkerTypes'
    BY <1>2 DEF ChunkerInv, ChunkerTypes, chunkerVars, Units, Unit, InPage, IsCut
  <2>2. ChunksLocal'
    BY <1>2 DEF ChunkerInv, ChunksLocal, OutputIsLocal, DedupedIsLocal, CurrentIsLocal,
      SizeIsBounded, IsOwn, HasCharacter, Sentence, chunkerVars
  <2>3. UNCHANGED <<pages, overlap, page, unit, start, current, output, item, deduped>>
    BY <1>2 DEF chunkerVars
  <2>4. \A part : Held(part)' <=> Held(part)
    BY <2>3 DEF Held, Found, Within
  <2>5. SentencesHeld'
    BY <2>3, <2>4 DEF ChunkerInv, TextKept, SentencesHeld, Processed, Pieces, IsCut, Sentence
  <2>6. CutSoFar'
    <3>1. (InPage' <=> InPage) /\ Unit' = Unit
      BY <2>3 DEF InPage, Units, Unit
    <3>2. \A i, j : Found(SubSeq(Unit, i, j))' <=> Found(SubSeq(Unit, i, j))
      BY <2>3 DEF Found, Within, Unit, Units
    <3> QED
      BY <2>3, <3>1, <3>2 DEF ChunkerInv, TextKept, CutSoFar
  <2>7. MeetingsHeld'
    <3>1. \A p, q, u, v :
            /\ Follows(p, u, q, v)' <=> Follows(p, u, q, v)
            /\ IsCut(Sentence(p, u))' <=> IsCut(Sentence(p, u))
            /\ Processed(q, v)' <=> Processed(q, v)
      BY <2>3 DEF Follows, IsCut, Sentence, Processed
    <3>2. \A p, q, u, v : Held(Meeting(Sentence(p, u), Sentence(q, v)))'
                           <=> Held(Meeting(Sentence(p, u), Sentence(q, v)))
      BY <2>3 DEF Held, Found, Within, Meeting, Sentence, TailOf, Stripped, Joined
    <3> QED
      BY <2>3, <3>1, <3>2 DEF ChunkerInv, TextKept, MeetingsHeld
  <2>8. EndIsCollected'
    <3>1. \A p, u :
            /\ LastDone(p, u)' <=> LastDone(p, u)
            /\ IsCut(Sentence(p, u))' <=> IsCut(Sentence(p, u))
            /\ EndsWith(current, TailOf(Sentence(p, u)))' <=> EndsWith(current, TailOf(Sentence(p, u)))
      BY <2>3 DEF LastDone, IsCut, Sentence, TailOf, EndsWith
    <3> QED
      BY <2>3, <3>1 DEF ChunkerInv, TextKept, EndIsCollected
  <2>9. NothingIsDropped'
    <3>1. \A i : Stripped(output[i].text)' = Stripped(output[i].text)
      BY <2>3 DEF Stripped
    <3> QED
      BY <2>3, <3>1 DEF ChunkerInv, TextKept, NothingIsDropped
  <2> QED
    BY <2>1, <2>2, <2>5, <2>6, <2>7, <2>8, <2>9 DEF ChunkerInv, TextKept
<1> QED
  BY <1>1, <1>2

\* When all is done, what is in a chunk is in a returned one.
LEMMA FoundIsReturned ==
  ASSUME ChunkerInv, Chunked, NEW part \in Text, Solid(part), Held(part) PROVE Returned(part)
<1>1. ChunkerTypes /\ NothingIsDropped /\ unit = 0 /\ item = Len(output)
  BY Counters DEF ChunkerInv, TextKept, ChunkerTypes, Chunked
<1>2. PICK i \in 1..Len(output) : Within(part, output[i].text)
  BY <1>1 DEF Held, Found
<1>3. output[i].text \in Text
  BY <1>1, TextOfChunk
<1>4. Within(part, Stripped(output[i].text)) /\ Stripped(output[i].text) \in Text
  BY <1>2, <1>3, SolidStaysWithin, StrippedText
<1>5. Stripped(output[i].text) # <<>>
  BY <1>4, NothingSolidInEmpty
<1>6. PICK k \in 1..Len(deduped) : deduped[k].text = Stripped(output[i].text)
  BY <1>1, <1>5 DEF NothingIsDropped
<1>7. k \in DOMAIN deduped /\ Within(part, deduped[k].text)
  BY <1>1, <1>4, <1>6, LenProperties DEF ChunkerTypes
<1> QED
  BY <1>7 DEF Returned

\* At the end all sentences are done and nothing is collected: all is in returned chunks.
LEMMA KeptAtTheEnd == ChunkerInv => ChunksKeepText
<1> SUFFICES ASSUME ChunkerInv, Chunked PROVE NoSentenceIsTorn /\ NeighboursMeet
  BY DEF ChunksKeepText
<1>1. ChunkerTypes /\ SentencesHeld /\ MeetingsHeld /\ page = Len(pages) /\ overlap \in Nat
  BY Counters DEF ChunkerInv, TextKept, Chunked
<1>2. ASSUME NEW p \in DOMAIN pages, NEW u \in DOMAIN pages[p].units
      PROVE  /\ Processed(p, u)
             /\ Sentence(p, u) \in Text /\ Solid(Sentence(p, u))
  <2>1. Sentence(p, u) \in Text /\ Solid(Sentence(p, u)) /\ DOMAIN pages = 1..Len(pages)
    BY <1>1, PagesTyped DEF ChunkerTypes
  <2> QED
    BY <1>1, <2>1, Counters DEF Processed
<1>3. NoSentenceIsTorn
  <2>1. ASSUME NEW p \in DOMAIN pages, NEW u \in DOMAIN pages[p].units,
               NEW piece \in Pieces(Sentence(p, u))
        PROVE  Returned(piece)
    <3>1. piece \in Text /\ Solid(piece)
      BY <1>1, <1>2, PieceOfSentence
    <3>2. Held(piece)
      BY <1>1, <1>2 DEF SentencesHeld
    <3> QED
      BY <3>1, <3>2, FoundIsReturned
  <2> QED
    BY <2>1 DEF NoSentenceIsTorn
<1>4. NeighboursMeet
  <2>1. ASSUME NEW p \in DOMAIN pages, NEW q \in DOMAIN pages,
               NEW u \in DOMAIN pages[p].units, NEW v \in DOMAIN pages[q].units,
               Follows(p, u, q, v), ~ IsCut(Sentence(p, u)), ~ IsCut(Sentence(q, v))
        PROVE  Returned(Meeting(Sentence(p, u), Sentence(q, v)))
    <3>1. /\ Meeting(Sentence(p, u), Sentence(q, v)) \in Text
          /\ Solid(Meeting(Sentence(p, u), Sentence(q, v)))
      BY <1>1, <1>2, MeetingIsText
    <3>2. Held(Meeting(Sentence(p, u), Sentence(q, v)))
      BY <1>1, <1>2, <2>1 DEF MeetingsHeld
    <3> QED
      BY <3>1, <3>2, FoundIsReturned
  <2> QED
    BY <2>1 DEF NeighboursMeet
<1> QED
  BY <1>3, <1>4

LEMMA LocalThroughout == ChunkerInv => ChunksAreLocal
<1> SUFFICES ASSUME ChunkerInv PROVE ChunksAreLocal
  OBVIOUS
<1>1. DOMAIN deduped = 1..Len(deduped)
  BY LenProperties DEF ChunkerInv, ChunkerTypes
<1> QED
  BY <1>1 DEF ChunkerInv, ChunksLocal, DedupedIsLocal, ChunksAreLocal

\* Retrieval and grounding do not touch the text.
LEMMA EvidenceLeavesTheText == [EvidenceNext]_evidenceVars => [ChunkerNext]_chunkerVars
<1> SUFFICES ASSUME [EvidenceNext]_evidenceVars PROVE [ChunkerNext]_chunkerVars
  OBVIOUS
<1>1. CASE ChunkerNext /\ UNCHANGED retrievalVars
  BY <1>1
<1>2. CASE Ask
  BY <1>2 DEF Ask
<1>3. ASSUME NEW i, ShowBlock(i) PROVE UNCHANGED chunkerVars
  BY <1>3 DEF ShowBlock
<1>4. CASE EndContext
  BY <1>4 DEF EndContext
<1>5. ASSUME NEW claim, CheckClaim(claim) PROVE UNCHANGED chunkerVars
  BY <1>5 DEF CheckClaim, Check
<1>6. CASE AcceptQuiz
  BY <1>6 DEF AcceptQuiz
<1>7. ASSUME NEW terms, CheckSummary(terms) PROVE UNCHANGED chunkerVars
  BY <1>7 DEF CheckSummary, Check
<1>8. CASE UNCHANGED evidenceVars
  BY <1>8 DEF evidenceVars
<1> QED
  BY <1>1, <1>2, <1>3, <1>4, <1>5, <1>6, <1>7, <1>8 DEF EvidenceNext

\* Types, locality and the whereabouts of the text read so far, in every reachable state of
\* ArabicAwareChunker.
THEOREM ChunkerInvariance == EvidenceSpec => []ChunkerInv
<1>1. EvidenceInit => ChunkerInv
  BY ChunkerInvBegins DEF EvidenceInit
<1>2. ChunkerInv /\ [EvidenceNext]_evidenceVars => ChunkerInv'
  BY EvidenceLeavesTheText, ChunkerInvStays
<1> QED
  BY <1>1, <1>2, PTL DEF EvidenceSpec

\* No sentence that fits a chunk is torn, no stretch of a longer one is lost, and neighbours
\* meet in a chunk, whatever the document, the size and the overlap.
THEOREM ChunkerKeepsText == EvidenceSpec => []ChunksKeepText
  BY ChunkerInvariance, KeptAtTheEnd, PTL

\* A chunk exceeds its size by at most the overlap and a sentence, and has another page's
\* text only in what was carried over to it.
THEOREM ChunkerIsLocal == EvidenceSpec => []ChunksAreLocal
  BY ChunkerInvariance, LocalThroughout, PTL

(***************************************************************************)
(* Retrieval and grounding                                                 *)
(***************************************************************************)
(* The citations are the excerpts of the blocks, number by number; every   *)
(* hit that is not shown ranks after all that are; and every claim that    *)
(* has passed has its verdict still, because the citations stay as they    *)
(* are once claims are checked.                                            *)
HitRecords == [text : Text, title : Text, similarity : Nat]

RetrievalTypes ==
  /\ IsFiniteSet(query) /\ hits \in Seq(HitRecords)
  /\ context \in Seq(DOMAIN hits) /\ citations \in Seq(Text)
  /\ pc = "searching" => context = <<>> /\ citations = <<>> /\ claims = {}
  /\ pc = "retrieving" => claims = {}

HitsAreSorted ==
  \A i, j \in DOMAIN hits : i < j => hits[i].similarity >= hits[j].similarity
CitationsMatch ==
  /\ Len(citations) = Len(context)
  /\ \A n \in 1..Len(context) : citations[n] = Excerpt(hits[context[n]].text)
BestIsShown ==
  \A i \in DOMAIN hits : \A n \in 1..Len(context) : i \in ToSet(context) \/ Before(context[n], i)
ClaimsAreSupported ==
  \A claim \in claims : IsFiniteSet(claim.terms) /\ Verdict(claim) = "supported"

EvidenceInv ==
  RetrievalTypes /\ HitsAreSorted /\ CitationsMatch /\ BestIsShown /\ ClaimsAreSupported

\* The words of a text are its stretches between spaces.
LEMMA WordsOfText ==
  ASSUME NEW text, NEW word
  PROVE  word \in Words(text) <=>
           \E i, j \in DOMAIN text : IsWord(text, i, j) /\ word = SubSeq(text, i, j)
  BY DEF Words

\* The words of an excerpt are words of the text, but for the one its end cuts in two.
LEMMA ExcerptOfText ==
  ASSUME NEW text \in Text
  PROVE  Excerpt(text) \in Text /\ Words(Excerpt(text)) \subseteq Words(text) \cup CutWord(text)
<1> DEFINE last == IF ExcerptSize < Len(text) THEN ExcerptSize ELSE Len(text)
           excerpt == SubSeq(text, 1, last)
<1>1. Len(text) \in Nat /\ ExcerptSize \in Nat /\ DOMAIN text = 1..Len(text)
  BY LenProperties, EvidenceAssumption DEF Text
<1>2. last \in 0..Len(text)
  BY <1>1
<1>3. last # Len(text) => last = ExcerptSize /\ ExcerptSize < Len(text)
  OBVIOUS
<1>4. Excerpt(text) = excerpt
  BY DEF Excerpt
<1> HIDE DEF last, excerpt
<1>5. CASE last = 0
  <2>1. excerpt = <<>>
    BY <1>1, <1>2, <1>5, SubSeqEmpty DEF excerpt
  <2>2. DOMAIN excerpt = {}
    BY <2>1
  <2>3. excerpt \in Text
    BY <2>1, EmptySeq DEF Text
  <2> QED
    BY <1>4, <2>2, <2>3, WordsOfText
<1>6. CASE last # 0
  <2>1. 1 \in 1..Len(text) /\ last \in 1..Len(text) /\ 1 <= last
    BY <1>1, <1>2, <1>6
  <2>2. /\ excerpt \in Text /\ Len(excerpt) = last - 1 + 1
        /\ \A k \in 1..last - 1 + 1 : excerpt[k] = text[1 + k - 1]
    BY <2>1, StretchOfText DEF excerpt
  <2>3. Len(excerpt) = last /\ DOMAIN excerpt = 1..last /\ \A k \in 1..last : excerpt[k] = text[k]
    BY <2>1, <2>2, LenProperties DEF Text
  <2>4. ASSUME NEW word \in Words(excerpt) PROVE word \in Words(text) \cup CutWord(text)
    <3>1. PICK i \in 1..last, j \in 1..last : IsWord(excerpt, i, j) /\ word = SubSeq(excerpt, i, j)
      <4>1. \E i, j \in DOMAIN excerpt : IsWord(excerpt, i, j) /\ word = SubSeq(excerpt, i, j)
        BY <2>4, WordsOfText
      <4> QED
        BY <2>3, <4>1
    <3>2. i <= j /\ i \in 1..Len(text) /\ j \in 1..Len(text)
      BY <2>1, <3>1 DEF IsWord
    <3>3. word = SubSeq(text, i, j)
      <4>1. 1 \in 1..Len(text) /\ i \in 1..last - 1 + 1 /\ j \in 1..last - 1 + 1 /\ text \in Seq(Characters)
        BY <2>1, <3>1 DEF Text
      <4>2. SubSeq(SubSeq(text, 1, last), i, j) = SubSeq(text, 1 + i - 1, 1 + j - 1)
        BY <2>1, <2>2, <4>1, SubSeqOfSubSeq DEF Text, excerpt
      <4>3. 1 + i - 1 = i /\ 1 + j - 1 = j
        BY <3>2
      <4> QED
        BY <3>1, <4>2, <4>3 DEF excerpt
    <3>4. WordBegins(text, i) /\ \A k \in i..j : text[k] # Space
      <4>1. i - 1 \in 1..last \/ i = 1
        BY <2>1, <3>1
      <4> QED
        BY <2>1, <2>3, <3>1, <4>1 DEF IsWord, WordBegins
    <3>5. CASE j = Len(text) \/ text[j + 1] = Space
      <4>1. IsWord(text, i, j)
        BY <3>2, <3>4, <3>5 DEF IsWord
      <4> QED
        BY <1>1, <3>2, <3>3, <4>1, WordsOfText
    <3>6. CASE ~ (j = Len(text) \/ text[j + 1] = Space)
      <4>1. j = last
        <5>1. ASSUME j # last PROVE FALSE
          <6>1. j + 1 \in 1..last
            BY <2>1, <3>1, <5>1
          <6> QED
            BY <2>3, <3>1, <3>6, <5>1, <6>1 DEF IsWord
        <5> QED
          BY <5>1
      <4>2. j = ExcerptSize /\ ExcerptSize < Len(text) /\ i \in 1..ExcerptSize
        BY <1>3, <3>1, <3>6, <4>1
      <4>3. \A n \in i..ExcerptSize + 1 : text[n] # Space
        <5>1. \A n \in i..ExcerptSize + 1 : n \in i..ExcerptSize \/ n = ExcerptSize + 1
          BY <1>1, <4>2
        <5> QED
          BY <3>4, <3>6, <4>2, <5>1
      <4> QED
        BY <3>3, <3>4, <4>2, <4>3 DEF CutWord
    <3> QED
      BY <3>5, <3>6
  <2> QED
    BY <1>4, <2>2, <2>4
<1> QED
  BY <1>5, <1>6

LEMMA VerdictStays == ASSUME UNCHANGED citations PROVE \A claim : Verdict(claim)' = Verdict(claim)
  BY DEF Verdict, Covered

LEMMA RankStays == ASSUME UNCHANGED <<query, hits>> PROVE \A i, j : Before(i, j)' <=> Before(i, j)
  BY DEF Before, Score, Lexical, TitleMatch

\* The claims are as well supported after a step that leaves the citations alone.
LEMMA SupportStays ==
  ASSUME ClaimsAreSupported, UNCHANGED <<citations, claims>> PROVE ClaimsAreSupported'
  BY VerdictStays DEF ClaimsAreSupported

\* The evidence is as it was after a step that leaves it alone.
LEMMA EvidenceStays ==
  ASSUME EvidenceInv, UNCHANGED <<query, hits, context, citations>>
  PROVE  (HitsAreSorted /\ CitationsMatch /\ BestIsShown)'
<1>1. HitsAreSorted'
  BY DEF EvidenceInv, HitsAreSorted
<1>2. CitationsMatch'
  BY DEF EvidenceInv, CitationsMatch, Excerpt
<1>3. BestIsShown'
  <2>1. \A n, i : Before(context[n], i)' <=> Before(context[n], i)
    BY DEF Before, Score, Lexical, TitleMatch
  <2> QED
    BY <2>1 DEF EvidenceInv, BestIsShown
<1> QED
  BY <1>1, <1>2, <1>3

LEMMA EvidenceBegins == EvidenceInit => EvidenceInv
<1> SUFFICES ASSUME EvidenceInit PROVE EvidenceInv
  OBVIOUS
<1>1. /\ query = {} /\ hits = <<>> /\ context = <<>> /\ citations = <<>> /\ claims = {}
      /\ pc = "searching"
  BY DEF EvidenceInit
<1>2. Len(context) = 0 /\ Len(citations) = 0 /\ DOMAIN hits = {}
  BY <1>1
<1>3. RetrievalTypes
  BY <1>1, FS_EmptySet, EmptySeq DEF RetrievalTypes
<1> QED
  BY <1>1, <1>2, <1>3 DEF EvidenceInv, HitsAreSorted, CitationsMatch, BestIsShown, ClaimsAreSupported

\* The search finds chunks, the most similar first, and nothing is shown yet.
LEMMA AskIsSafe == ASSUME ChunkerTypes, EvidenceInv, Ask PROVE EvidenceInv'
<1>1. /\ pc = "searching" /\ context = <<>> /\ citations = <<>> /\ claims = {}
      /\ UNCHANGED <<context, citations, claims>> /\ pc' = "retrieving"
      /\ query' \in Queries
  BY DEF Ask, Search, EvidenceInv, RetrievalTypes
<1>2. PICK chosen \in BoundedSeq(DOMAIN deduped, SearchLimit),
           similarity \in BoundedSeq(Similarities, SearchLimit) : Search(chosen, similarity)
  BY DEF Ask
<1>3. /\ chosen \in Seq(DOMAIN deduped) /\ similarity \in Seq(Similarities)
      /\ Len(similarity) = Len(chosen)
  <2>1. \A S : BoundedSeq(S, SearchLimit) = UNION {[1..m -> S] : m \in 0..SearchLimit}
    BY DEF BoundedSeq, SeqOf
  <2>2. 0..SearchLimit \subseteq Nat
    BY EvidenceAssumption
  <2>3. ASSUME NEW S, NEW s \in BoundedSeq(S, SearchLimit) PROVE s \in Seq(S)
    <3>1. PICK m \in 0..SearchLimit : s \in [1..m -> S]
      BY <2>1, <2>3
    <3> QED
      BY <2>2, <3>1, SeqDef
  <2> QED
    BY <1>2, <2>3 DEF Search
<1>4. /\ DOMAIN chosen = 1..Len(chosen) /\ DOMAIN similarity = 1..Len(chosen)
      /\ Len(chosen) \in Nat
      /\ \A i \in 1..Len(chosen) : chosen[i] \in DOMAIN deduped /\ similarity[i] \in Nat
  <2>1. \A i \in Similarities : i \in Nat
    BY EvidenceAssumption
  <2> QED
    BY <1>3, <2>1, LenProperties, ElementOfSeq
<1>5. \A i \in DOMAIN deduped : deduped[i] \in ChunkRecords
  BY ElementOfSeq, LenProperties DEF ChunkerTypes
<1>6. hits' = [i \in 1..Len(chosen) |->
                 [text |-> deduped[chosen[i]].text, title |-> deduped[chosen[i]].title,
                  similarity |-> similarity[i]]]
  BY <1>2, <1>4 DEF Search
<1>7. \A i \in 1..Len(chosen) : hits'[i] \in HitRecords /\ hits'[i].similarity = similarity[i]
  BY <1>4, <1>5, <1>6 DEF HitRecords, ChunkRecords
<1>8. hits' \in Seq(HitRecords) /\ DOMAIN hits' = 1..Len(chosen)
  BY <1>4, <1>6, <1>7, SeqDef
<1>9. RetrievalTypes'
  <2>1. IsFiniteSet(query')
    BY <1>1, EvidenceAssumption
  <2> QED
    BY <1>1, <1>8, <2>1, EmptySeq DEF RetrievalTypes
<1>10. HitsAreSorted'
  <2>1. \A i, j \in 1..Len(chosen) : i < j => similarity[i] >= similarity[j]
    BY <1>2, <1>4 DEF Search
  <2> QED
    BY <1>7, <1>8, <2>1 DEF HitsAreSorted
<1>11. Len(context') = 0 /\ Len(citations') = 0
  BY <1>1
<1> QED
  BY <1>1, <1>9, <1>10, <1>11 DEF EvidenceInv, CitationsMatch, BestIsShown, ClaimsAreSupported

\* The block shown next ranks before all that remain.
LEMMA ShowBlockIsSafe == ASSUME EvidenceInv, NEW h \in DOMAIN hits, ShowBlock(h) PROVE EvidenceInv'
<1>1. /\ pc = "retrieving" /\ claims = {} /\ NextRanked(h)
      /\ context' = Append(context, h) /\ citations' = Append(citations, Excerpt(hits[h].text))
      /\ UNCHANGED <<query, hits, claims, pc>>
  BY DEF ShowBlock, EvidenceInv, RetrievalTypes
<1>2. /\ context \in Seq(DOMAIN hits) /\ citations \in Seq(Text) /\ hits \in Seq(HitRecords)
      /\ Len(context) \in Nat /\ Len(citations) = Len(context) /\ DOMAIN context = 1..Len(context)
  BY LenProperties DEF EvidenceInv, RetrievalTypes, CitationsMatch
<1>3. hits[h].text \in Text
  <2>1. hits[h] \in HitRecords
    BY <1>2, LenProperties, ElementOfSeq
  <2> QED
    BY <2>1 DEF HitRecords
<1>4. /\ context' \in Seq(DOMAIN hits) /\ Len(context') = Len(context) + 1
      /\ context'[Len(context) + 1] = h
      /\ \A n \in 1..Len(context) : context'[n] = context[n]
  BY <1>1, <1>2, AppendProperties
<1>5. /\ citations' \in Seq(Text) /\ Len(citations') = Len(context) + 1
      /\ citations'[Len(context) + 1] = Excerpt(hits[h].text)
      /\ \A n \in 1..Len(context) : citations'[n] = citations[n]
  BY <1>1, <1>2, <1>3, ExcerptOfText, AppendProperties
<1>6. RetrievalTypes'
  BY <1>1, <1>4, <1>5 DEF EvidenceInv, RetrievalTypes
<1>7. HitsAreSorted'
  BY <1>1 DEF EvidenceInv, HitsAreSorted
<1>8. CitationsMatch'
  <2>1. ASSUME NEW n \in 1..Len(context) + 1
        PROVE  citations'[n] = Excerpt(hits[context'[n]].text)
    <3>1. CASE n \in 1..Len(context)
      BY <1>4, <1>5, <3>1 DEF EvidenceInv, CitationsMatch
    <3>2. CASE n \notin 1..Len(context)
      <4>1. n = Len(context) + 1
        BY <1>2, <3>2
      <4> QED
        BY <1>4, <1>5, <4>1
    <3> QED
      BY <3>1, <3>2
  <2>2. \A n \in 1..Len(context') : citations'[n] = Excerpt(hits'[context'[n]].text)
    BY <1>1, <1>4, <2>1
  <2> QED
    BY <1>4, <1>5, <2>2 DEF CitationsMatch, Excerpt
<1>9. BestIsShown'
  <2>1. DOMAIN context' = 1..Len(context) + 1
    BY <1>4, LenProperties
  <2>2. \A i : i \notin ToSet(context') => i \notin ToSet(context) /\ i # h
    BY <1>2, <1>4, <2>1, SMTT(20) DEF ToSet
  <2>3. ASSUME NEW i \in DOMAIN hits, NEW n \in 1..Len(context) + 1, i \notin ToSet(context')
        PROVE  Before(context'[n], i)
    <3>1. CASE n \in 1..Len(context)
      BY <1>4, <2>2, <2>3, <3>1 DEF EvidenceInv, BestIsShown
    <3>2. CASE n \notin 1..Len(context)
      <4>1. n = Len(context) + 1
        BY <1>2, <3>2
      <4>2. i \in Remaining \ {h}
        BY <2>2, <2>3 DEF Remaining
      <4> QED
        BY <1>1, <1>4, <4>1, <4>2 DEF NextRanked
    <3> QED
      BY <3>1, <3>2
  <2>4. \A i, n : Before(context'[n], i) <=> Before(context[n], i)'
    BY <1>1 DEF Before, Score, Lexical, TitleMatch
  <2> QED
    BY <1>1, <1>4, <2>3, <2>4 DEF BestIsShown
<1>10. ClaimsAreSupported'
  BY <1>1 DEF ClaimsAreSupported
<1> QED
  BY <1>6, <1>7, <1>8, <1>9, <1>10 DEF EvidenceInv

\* A claim passes only with the verdict that it is supported, and none is checked before the
\* evidence is there.
LEMMA CheckIsSafe ==
  ASSUME EvidenceInv, pc = "grounding", NEW claim, IsFiniteSet(claim.terms),
         NEW next \in {"grounding", "accepted"}, Check(claim, next)
  PROVE  EvidenceInv'
<1>1. UNCHANGED <<query, hits, context, citations>>
  BY DEF Check
<1>2. pc' \in {"grounding", "accepted", "failed"}
  BY DEF Check, Fail
<1>3. RetrievalTypes'
  BY <1>1, <1>2 DEF EvidenceInv, RetrievalTypes
<1>4. ClaimsAreSupported'
  <2>1. \A c \in claims' : IsFiniteSet(c.terms) /\ Verdict(c) = "supported"
    BY DEF Check, EvidenceInv, ClaimsAreSupported
  <2> QED
    BY <1>1, <2>1, VerdictStays DEF ClaimsAreSupported
<1> QED
  BY <1>1, <1>3, <1>4, EvidenceStays DEF EvidenceInv

LEMMA EvidenceStepIsSafe ==
  ChunkerTypes /\ EvidenceInv /\ [EvidenceNext]_evidenceVars => EvidenceInv'
<1> SUFFICES ASSUME ChunkerTypes, EvidenceInv, [EvidenceNext]_evidenceVars PROVE EvidenceInv'
  OBVIOUS
<1>1. CASE UNCHANGED retrievalVars
  <2>1. UNCHANGED <<query, hits, context, citations, claims, pc>>
    BY <1>1 DEF retrievalVars
  <2>2. RetrievalTypes'
    BY <2>1 DEF EvidenceInv, RetrievalTypes
  <2> QED
    BY <2>1, <2>2, EvidenceStays, SupportStays DEF EvidenceInv
<1>2. CASE Ask
  BY <1>2, AskIsSafe
<1>3. ASSUME NEW i \in DOMAIN hits, ShowBlock(i) PROVE EvidenceInv'
  BY <1>3, ShowBlockIsSafe
<1>4. CASE EndContext
  <2>1. UNCHANGED <<query, hits, context, citations, claims>> /\ pc' \in {"failed", "grounding"}
    BY <1>4 DEF EndContext, ContextEnds, Fail
  <2>2. RetrievalTypes'
    BY <2>1 DEF EvidenceInv, RetrievalTypes
  <2> QED
    BY <2>1, <2>2, EvidenceStays, SupportStays DEF EvidenceInv
<1>5. ASSUME NEW claim \in Claims, CheckClaim(claim) PROVE EvidenceInv'
  <2>1. IsFiniteSet(claim.terms)
    BY EvidenceAssumption DEF Claims
  <2> QED
    BY <1>5, <2>1, CheckIsSafe DEF CheckClaim
<1>6. CASE AcceptQuiz
  <2>1. UNCHANGED <<query, hits, context, citations, claims>> /\ pc' = "accepted"
    BY <1>6 DEF AcceptQuiz
  <2>2. RetrievalTypes'
    BY <2>1 DEF EvidenceInv, RetrievalTypes
  <2> QED
    BY <2>1, <2>2, EvidenceStays, SupportStays DEF EvidenceInv
<1>7. ASSUME NEW terms \in ClaimTerms, CheckSummary(terms) PROVE EvidenceInv'
  <2> DEFINE claim == [terms |-> terms, references |-> [n \in DOMAIN citations |-> n]]
  <2>1. IsFiniteSet(claim.terms)
    BY EvidenceAssumption
  <2>2. pc = "grounding" /\ Check(claim, "accepted")
    BY <1>7 DEF CheckSummary
  <2> HIDE DEF claim
  <2> QED
    BY <2>1, <2>2, CheckIsSafe
<1> QED
  BY <1>1, <1>2, <1>3, <1>4, <1>5, <1>6, <1>7 DEF EvidenceNext, evidenceVars

\* What the citations cover, the blocks have, or a cut at an excerpt's end makes.
LEMMA SupportedIsQuoted == EvidenceInv => AcceptedClaimsAreQuoted
<1> DEFINE support(c) == c.terms \cap (Quoted(c) \cup CutOff(c))
<1> SUFFICES ASSUME EvidenceInv, NEW claim \in claims
             PROVE  /\ claim.references # <<>> /\ ToSet(claim.references) \subseteq DOMAIN context
                    /\ support(claim) # {}
                    /\ 100 * Cardinality(support(claim)) >= MinSupport * Cardinality(claim.terms)
  BY DEF AcceptedClaimsAreQuoted
<1>1. IsFiniteSet(claim.terms) /\ Verdict(claim) = "supported"
  BY DEF EvidenceInv, ClaimsAreSupported
<1>2. /\ claim.references # <<>> /\ ToSet(claim.references) \subseteq DOMAIN citations
      /\ Covered(claim) # {}
      /\ ~ (100 * Cardinality(Covered(claim)) < MinSupport * Cardinality(claim.terms))
  BY <1>1 DEF Verdict
<1>3. /\ DOMAIN citations = 1..Len(context) /\ DOMAIN context = 1..Len(context)
      /\ \A n \in 1..Len(context) : context[n] \in DOMAIN hits
      /\ \A i \in DOMAIN hits : hits[i].text \in Text
  <2>1. \A i \in DOMAIN hits : hits[i] \in HitRecords
    BY ElementOfSeq, LenProperties DEF EvidenceInv, RetrievalTypes
  <2>2. /\ context \in Seq(DOMAIN hits) /\ citations \in Seq(Text) /\ Len(citations) = Len(context)
    BY DEF EvidenceInv, RetrievalTypes, CitationsMatch
  <2> QED
    BY <2>1, <2>2, ElementOfSeq, LenProperties DEF HitRecords
<1>4. ASSUME NEW n \in 1..Len(context)
      PROVE  Words(citations[n]) \subseteq Words(hits[context[n]].text) \cup CutWord(hits[context[n]].text)
  BY <1>3, ExcerptOfText DEF EvidenceInv, CitationsMatch
<1>5. Covered(claim) \subseteq support(claim)
  <2>1. \A k \in DOMAIN claim.references : claim.references[k] \in 1..Len(context)
    BY <1>2, <1>3 DEF ToSet
  <2>2. ASSUME NEW term \in Covered(claim) PROVE term \in support(claim)
    <3>1. PICK k \in DOMAIN claim.references : term \in Words(citations[claim.references[k]])
      BY <2>2 DEF Covered
    <3> DEFINE text == hits[context[claim.references[k]]].text
    <3>2. term \in Words(text) \cup CutWord(text)
      BY <1>4, <2>1, <3>1
    <3>3. text \in Shown(claim)
      BY DEF Shown
    <3>4. term \in claim.terms
      BY <2>2 DEF Covered
    <3> HIDE DEF text
    <3> QED
      BY <3>2, <3>3, <3>4 DEF Quoted, CutOff
  <2> QED
    BY <2>2
<1>6. /\ IsFiniteSet(support(claim))
      /\ Cardinality(Covered(claim)) <= Cardinality(support(claim))
  <2>1. IsFiniteSet(support(claim))
    BY <1>1, FS_Subset
  <2> QED
    BY <1>5, <2>1, FS_Subset
<1>7. /\ Cardinality(Covered(claim)) \in Nat /\ Cardinality(support(claim)) \in Nat
      /\ Cardinality(claim.terms) \in Nat /\ MinSupport \in Nat
  BY <1>1, <1>5, <1>6, FS_Subset, FS_CardinalityType, EvidenceAssumption
<1>8. MinSupport * Cardinality(claim.terms) \in Nat
  BY <1>7
<1> QED
  BY <1>2, <1>3, <1>5, <1>6, <1>7, <1>8

\* A hit that is better in every respect is never ranked behind: its score is higher, or the
\* query has no terms and the search had it first.
LEMMA BetterIsBefore ==
  ASSUME EvidenceInv, NEW i \in DOMAIN hits, NEW j \in DOMAIN hits, Better(i, j) PROVE ~ Before(j, i)
<1> DEFINE si == hits[i].similarity
           sj == hits[j].similarity
           q == Cardinality(query)
<1>1. si \in Nat /\ sj \in Nat /\ i \in Nat /\ j \in Nat
  <2>1. hits[i] \in HitRecords /\ hits[j] \in HitRecords /\ DOMAIN hits = 1..Len(hits)
    BY ElementOfSeq, LenProperties DEF EvidenceInv, RetrievalTypes
  <2> QED
    BY <2>1 DEF HitRecords
<1>2. \A h : Lexical(h) \in Nat /\ TitleMatch(h) \in Nat /\ Lexical(h) <= q /\ TitleMatch(h) <= q
  BY FS_Subset, FS_CardinalityType DEF EvidenceInv, RetrievalTypes, Lexical, TitleMatch
<1>3. q \in Nat
  BY FS_CardinalityType DEF EvidenceInv, RetrievalTypes
<1>4. /\ si >= sj /\ Lexical(i) >= Lexical(j) /\ TitleMatch(i) >= TitleMatch(j)
      /\ si > sj \/ Lexical(i) > Lexical(j) \/ TitleMatch(i) > TitleMatch(j)
  BY DEF Better
<1>5. /\ Score(i) = 76 * si * q + 1800 * Lexical(i) + 600 * TitleMatch(i)
      /\ Score(j) = 76 * sj * q + 1800 * Lexical(j) + 600 * TitleMatch(j)
  BY DEF Score
<1> HIDE DEF si, sj, q
<1>6. CASE q = 0
  <2>1. si > sj
    BY <1>2, <1>3, <1>4, <1>6
  <2>2. ~ (j < i)
    BY <1>1, <2>1 DEF EvidenceInv, HitsAreSorted, si, sj
  <2>3. Score(i) = 0 /\ Score(j) = 0
    <3>1. Lexical(i) = 0 /\ Lexical(j) = 0 /\ TitleMatch(i) = 0 /\ TitleMatch(j) = 0
      BY <1>2, <1>6
    <3> QED
      BY <1>1, <1>5, <1>6, <3>1
  <2> QED
    BY <2>2, <2>3 DEF Before
<1>7. CASE q # 0
  <2>1. PICK d \in Nat : si = sj + d
    BY <1>1, <1>4
  <2>2. 76 * si * q = 76 * sj * q + 76 * (d * q) /\ d * q \in Nat /\ d * q >= d /\ sj * q \in Nat
    BY <1>1, <1>3, <1>7, <2>1
  <2>3. Score(i) > Score(j) /\ Score(i) \in Int /\ Score(j) \in Int
    BY <1>1, <1>2, <1>3, <1>4, <1>5, <2>1, <2>2
  <2> QED
    BY <2>3 DEF Before
<1> QED
  BY <1>6, <1>7

LEMMA BestIsFirst == EvidenceInv => BetterEvidenceFirst
<1> SUFFICES ASSUME EvidenceInv, NEW i \in DOMAIN hits, NEW j \in DOMAIN hits,
                    Better(i, j), j \in ToSet(context), i \notin ToSet(context)
             PROVE  FALSE
  BY DEF BetterEvidenceFirst
<1>1. PICK n \in 1..Len(context) : context[n] = j
  BY LenProperties DEF EvidenceInv, RetrievalTypes, ToSet
<1>2. Before(j, i)
  BY <1>1 DEF EvidenceInv, BestIsShown
<1> QED
  BY <1>2, BetterIsBefore

\* What is shown, cited and accepted agrees, in every reachable state.
THEOREM EvidenceInvariance == EvidenceSpec => [](ChunkerTypes /\ EvidenceInv)
<1>1. EvidenceInit => EvidenceInv
  BY EvidenceBegins
<1>2. ChunkerInv /\ EvidenceInv /\ [EvidenceNext]_evidenceVars => EvidenceInv'
  BY EvidenceStepIsSafe DEF ChunkerInv
<1>3. ChunkerInv => ChunkerTypes
  BY DEF ChunkerInv
<1> QED
  BY <1>1, <1>2, <1>3, ChunkerInvariance, PTL DEF EvidenceSpec

\* Every claim of an accepted result has enough of its terms in blocks that were shown, but
\* for a word that the end of an excerpt cuts in two.
THEOREM EvidenceIsQuoted == EvidenceSpec => []AcceptedClaimsAreQuoted
  BY EvidenceInvariance, SupportedIsQuoted, PTL

\* No chunk is shown instead of one that is better in every respect.
THEOREM EvidenceIsBest == EvidenceSpec => []BetterEvidenceFirst
  BY EvidenceInvariance, BestIsFirst, PTL
================================================================================
