----------------------------- MODULE FeedbackProofs -----------------------------
(***************************************************************************)
(* What Feedback keeps for any number of outputs, posts and exports.  The  *)
(* numbers of posts identify candidates: one that is not stored yet can be *)
(* in no export, and what two exports share they selected at once.         *)
(* A file that nobody else touched holds what its export has flushed.      *)
(***************************************************************************)
EXTENDS Feedback, FiniteSetTheorems, SequenceTheorems, TLAPS

Active(e) == export[e].pc # "idle"
HasOpened(e) == export[e].pc \in {"writing", "committing"}
FirstPieces(text, n) == [i \in 1..n |-> text[i]]
AsFlushed(e) == files[export[e].path] = FirstPieces(export[e].text, export[e].flushed)

PostsOK ==
  \A h \in Handlers : post[h].pc # "idle" =>
    /\ post[h].says.stored
    /\ post[h].number <= posts
    /\ \A g \in Handlers : g # h /\ post[g].pc # "idle" => post[g].number # post[h].number
    /\ \A c \in candidates : c.number # post[h].number
    /\ \A e \in Exporters : post[h].number \notin export[e].items
    /\ \A d \in datasets : post[h].number \notin d.items

NumbersOK ==
  /\ \A c \in candidates : c.number <= posts
  /\ \A c, d \in candidates : c.number = d.number => c = d
  /\ \A e \in Exporters : \A n \in export[e].items : n <= posts
  /\ \A d \in datasets : \A n \in d.items : n <= posts

ExportsOK ==
  \A e \in Exporters :
    /\ ~Active(e) => export[e].items = {}
    /\ \A d \in datasets : export[e].items \cap d.items \subseteq shared
    /\ \A f \in Exporters : f # e => export[e].items \cap export[f].items \subseteq shared
    /\ Active(e) => export[e].name \in Names
    /\ export[e].flushed <= Len(export[e].text)
    /\ export[e].pc = "opening" => export[e].flushed = 0
    /\ export[e].pc = "committing" => export[e].flushed = Len(export[e].text)
    /\ HasOpened(e) => export[e].number \in disturbed \/ AsFlushed(e)

IInv ==
  /\ TypeOK
  /\ PostsOK /\ NumbersOK /\ ExportsOK
  /\ FeedbackIsLastPost /\ ExportedOnce /\ ManifestMatchesFile

LEMMA NothingIsTyped == NoPost \in Posts /\ NoRow \in Opinions /\ NoExport \in Exports
BY FeedbackAssumption DEF NoPost, NoRow, NoExport, AnyOutput, Posts, Opinions, Exports

LEMMA InitIsOK == Init => IInv
<1> SUFFICES ASSUME Init PROVE IInv
  OBVIOUS
<1>1. TypeOK
  BY NothingIsTyped DEF Init, TypeOK
<1>2. /\ NoPost.pc = "idle" /\ NoExport.pc = "idle" /\ NoExport.items = {}
      /\ NoExport.flushed <= Len(NoExport.text)
  BY DEF NoPost, NoExport
<1>3. PostsOK /\ NumbersOK /\ ExportsOK
  BY <1>2 DEF Init, PostsOK, NumbersOK, ExportsOK, Active, HasOpened
<1> QED
  BY <1>1, <1>3 DEF Init, IInv, FeedbackIsLastPost, ExportedOnce, ManifestMatchesFile

(***************************************************************************)
(* Posts                                                                   *)
(***************************************************************************)
\* A post that does not touch candidates, exports or rows moves on or ends.
LEMMA PostMoves ==
  ASSUME IInv, NEW h \in Handlers, NEW pc \in {"flushing", "committing"},
         post[h].pc # "idle",
         Answered(h) \/ post' = [post EXCEPT ![h].pc = pc],
         lock' \in [Outputs -> Handlers \cup {Nobody}], faults' \in Nat,
         UNCHANGED <<outputs, row, posts, candidates, last, mixed, training>>
  PROVE  IInv'
<1>0. post \in [Handlers -> Posts]
  BY DEF IInv, TypeOK
<1>1. post' \in [Handlers -> Posts]
  BY <1>0, NothingIsTyped DEF Answered, Posts
<1>2. TypeOK'
  BY <1>1 DEF IInv, TypeOK, training
<1>3. \A g \in Handlers : post'[g].pc # "idle" =>
        post[g].pc # "idle" /\ post'[g].number = post[g].number /\ post'[g].says = post[g].says
  <2>1. CASE Answered(h)
    BY <1>0, <2>1 DEF Answered, NoPost
  <2>2. CASE post' = [post EXCEPT ![h].pc = pc]
    BY <1>0, <2>2 DEF Posts
  <2> QED
    BY <2>1, <2>2
<1>4. PostsOK'
  BY <1>3 DEF IInv, PostsOK, training
<1>5. NumbersOK' /\ ExportsOK'
  BY DEF IInv, NumbersOK, ExportsOK, Active, HasOpened, AsFlushed, training
<1> QED
  BY <1>2, <1>4, <1>5 DEF IInv, FeedbackIsLastPost, ExportedOnce, ManifestMatchesFile, training

LEMMA PostIsSafe ==
  ASSUME IInv, NEW h \in Handlers, NEW o \in Outputs, NEW consent \in BOOLEAN,
         NEW usable \in BOOLEAN, Post(h, o, consent, usable)
  PROVE  IInv'
<1> DEFINE p == [pc |-> "flushing", number |-> posts + 1, output |-> o,
                 says |-> Opinion(consent, usable), seen |-> row[o]]
<1>1. /\ posts' = posts + 1 /\ posts \in Nat
      /\ post' = [post EXCEPT ![h] = p] /\ post[h].pc = "idle"
      /\ UNCHANGED <<outputs, row, lock, candidates, last, mixed, export, exports, datasets, files,
                     shared, disturbed, faults>>
  BY DEF Post, IInv, TypeOK, training
<1>2. p \in Posts /\ p.says.stored
  BY <1>1 DEF Posts, Opinions, Opinion, IInv, TypeOK
<1>3. TypeOK'
  BY <1>1, <1>2 DEF IInv, TypeOK
<1>4. NumbersOK'
  BY <1>1 DEF IInv, TypeOK, NumbersOK, Candidates, Exports, Datasets
<1>5. PostsOK'
  <2>1. \A g \in Handlers \ {h} : post'[g] = post[g]
    BY <1>1 DEF IInv, TypeOK
  <2>2. post'[h].number = posts + 1 /\ post'[h].says.stored
    BY <1>1, <1>2 DEF IInv, TypeOK
  <2>3. \A g \in Handlers \ {h} : post[g].pc # "idle" => post[g].number <= posts /\ post[g].number \in Nat
    BY DEF IInv, TypeOK, PostsOK, Posts
  <2>4. /\ \A c \in candidates : c.number <= posts /\ c.number \in Nat
        /\ \A e \in Exporters : \A n \in export[e].items : n <= posts /\ n \in Nat
        /\ \A d \in datasets : \A n \in d.items : n <= posts /\ n \in Nat
    BY DEF IInv, TypeOK, NumbersOK, Candidates, Exports, Datasets
  <2>5. PostsOK
    BY DEF IInv
  <2> QED
    BY <1>1, <2>1, <2>2, <2>3, <2>4, <2>5 DEF PostsOK
<1>6. ExportsOK'
  BY <1>1 DEF IInv, ExportsOK, Active, HasOpened, AsFlushed
<1> QED
  BY <1>1, <1>3, <1>4, <1>5, <1>6
     DEF IInv, FeedbackIsLastPost, ExportedOnce, ManifestMatchesFile

\* An UPDATE from an up-to-date row writes what the post says.
LEMMA UpToDate ==
  ASSUME NEW seen \in Opinions, NEW says \in Opinions, says.stored
  PROVE  Written(seen, seen, says) = says
BY DEF Written, Opinion, Opinions

LEMMA WrittenIsTyped ==
  ASSUME NEW stored \in Opinions, NEW seen \in Opinions, NEW says \in Opinions
  PROVE  Written(stored, seen, says) \in Opinions
BY DEF Written, Opinion, Opinions

LEMMA CommitIsSafe ==
  ASSUME IInv, NEW h \in Handlers, Commit(h)
  PROVE  IInv'
<1> DEFINE o == post[h].output
           p == post[h]
<1>0. p \in Posts /\ p.pc # "idle" /\ o \in Outputs /\ row[o] \in Opinions /\ p.says.stored
      /\ p.says \in Opinions /\ p.seen \in Opinions /\ p.number \in Nat
  BY DEF Commit, IInv, TypeOK, Posts, PostsOK
<1>1. /\ row' = [row EXCEPT ![o] = Written(row[o], p.seen, p.says)]
      /\ candidates' = candidates \cup Built(p.number, o, p.says)
      /\ last' = [last EXCEPT ![o] = p.says]
      /\ mixed' = IF p.seen = row[o] THEN mixed \ {o} ELSE mixed \cup {o}
      /\ lock' = [lock EXCEPT ![o] = Nobody]
      /\ post' = [post EXCEPT ![h] = NoPost]
      /\ UNCHANGED <<outputs, posts, export, exports, datasets, files, shared, disturbed, faults>>
  BY DEF Commit, Answered, training, IInv, TypeOK
<1>2. Built(p.number, o, p.says) \subseteq Candidates
      /\ \A c \in Built(p.number, o, p.says) : c.number = p.number /\ c.status = "pending"
      /\ \A d, e \in Built(p.number, o, p.says) : d = e
  BY <1>0 DEF Built, Candidates
<1>3. TypeOK'
  <2>1. row' \in [Outputs -> Opinions] /\ last' \in [Outputs -> Opinions]
    BY <1>0, <1>1, WrittenIsTyped DEF IInv, TypeOK
  <2>2. candidates' \subseteq Candidates /\ post' \in [Handlers -> Posts]
    BY <1>1, <1>2, NothingIsTyped DEF IInv, TypeOK
  <2> QED
    BY <1>0, <1>1, <2>1, <2>2 DEF IInv, TypeOK
<1>4. PostsOK'
  <2>1. \A g \in Handlers : post'[g].pc # "idle" => g # h /\ post'[g] = post[g]
    BY <1>1 DEF IInv, TypeOK, NoPost
  <2>2. \A g \in Handlers \ {h} : post[g].pc # "idle" => post[g].number # p.number
    BY <1>0 DEF IInv, PostsOK
  <2>3. PostsOK
    BY DEF IInv
  <2> HIDE DEF o, p
  <2> QED
    BY <1>1, <1>2, <2>1, <2>2, <2>3 DEF PostsOK
<1>5. \A c \in candidates : c.number # p.number
  BY <1>0 DEF IInv, PostsOK
<1>6. p.number <= posts
  BY <1>0 DEF IInv, PostsOK
<1>7. NumbersOK'
  <2> HIDE DEF o, p
  <2> QED
    BY <1>1, <1>2, <1>5, <1>6 DEF IInv, NumbersOK
<1>8. ExportsOK'
  BY <1>1 DEF IInv, ExportsOK, Active, HasOpened, AsFlushed
<1>9. FeedbackIsLastPost'
  <2>1. CASE p.seen = row[o]
    <3>1. row'[o] = p.says /\ last'[o] = p.says
      BY <1>0, <1>1, <2>1, UpToDate DEF IInv, TypeOK
    <3> QED
      BY <1>1, <2>1, <3>1 DEF IInv, TypeOK, FeedbackIsLastPost
  <2>2. CASE p.seen # row[o]
    BY <1>1, <2>2 DEF IInv, TypeOK, FeedbackIsLastPost
  <2> QED
    BY <2>1, <2>2
<1>10. \A d \in datasets : p.number \notin d.items
  BY <1>0 DEF IInv, PostsOK
<1>11. ExportedOnce' /\ ManifestMatchesFile'
  <2> HIDE DEF o, p
  <2> QED
    BY <1>1, <1>2, <1>10 DEF IInv, ExportedOnce, ManifestMatchesFile
<1> QED
  BY <1>3, <1>4, <1>7, <1>8, <1>9, <1>11 DEF IInv

(***************************************************************************)
(* Candidates                                                              *)
(***************************************************************************)
LEMMA PurgeIsSafe ==
  ASSUME IInv, NEW o \in Outputs, Purge(o)
  PROVE  IInv'
<1>1. /\ outputs' = outputs \ {o}
      /\ row' = [row EXCEPT ![o] = NoRow] /\ last' = [last EXCEPT ![o] = NoRow]
      /\ candidates' \subseteq candidates
      /\ UNCHANGED <<lock, post, posts, mixed, export, exports, datasets, files, shared, disturbed, faults>>
  BY DEF Purge, training
<1>2. TypeOK'
  BY <1>1, NothingIsTyped DEF IInv, TypeOK
<1>3. PostsOK' /\ NumbersOK' /\ ExportsOK'
  BY <1>1 DEF IInv, PostsOK, NumbersOK, ExportsOK, Active, HasOpened, AsFlushed
<1>4. FeedbackIsLastPost'
  BY <1>1 DEF IInv, TypeOK, FeedbackIsLastPost
<1>5. ExportedOnce' /\ ManifestMatchesFile'
  BY <1>1 DEF IInv, ExportedOnce, ManifestMatchesFile
<1> QED
  BY <1>2, <1>3, <1>4, <1>5 DEF IInv

\* Whoever writes verdicts leaves the numbers and the outputs as they are.
LEMMA ReviewIsSafe ==
  ASSUME IInv, NEW c \in candidates, NEW verdict \in {"approved", "rejected"}, Review(c, verdict)
  PROVE  IInv'
<1> DEFINE r == [c EXCEPT !.status = verdict]
<1>1. c \in Candidates /\ r \in Candidates /\ r.number = c.number /\ r.status = verdict
      /\ c.status # "exported"
  BY DEF Review, IInv, TypeOK, Candidates
<1>2. /\ candidates' = (candidates \ {c}) \cup {r}
      /\ UNCHANGED <<outputs, row, lock, post, posts, last, mixed, export, exports, datasets, files,
                     shared, disturbed, faults>>
  BY DEF Review, feedback, training
<1> HIDE DEF r
<1>3. TypeOK'
  BY <1>1, <1>2 DEF IInv, TypeOK
<1>4. PostsOK' /\ NumbersOK' /\ ExportsOK'
  BY <1>1, <1>2 DEF IInv, PostsOK, NumbersOK, ExportsOK, Active, HasOpened, AsFlushed
<1>5. FeedbackIsLastPost' /\ ManifestMatchesFile'
  BY <1>2 DEF IInv, FeedbackIsLastPost, ManifestMatchesFile
<1>6. ExportedOnce'
  BY <1>1, <1>2 DEF IInv, ExportedOnce
<1> QED
  BY <1>3, <1>4, <1>5, <1>6 DEF IInv

(***************************************************************************)
(* Exports                                                                 *)
(***************************************************************************)
LEMMA LinesAreText ==
  ASSUME NEW S \in SUBSET Nat, IsFiniteSet(S), NEW order \in Orders(S)
  PROVE  Lines(order) \in Seq(Pieces)
<1>1. Cardinality(S) \in Nat
  BY FS_CardinalityType
<1>2. order \in [1..Cardinality(S) -> S] /\ Len(order) = Cardinality(S)
  BY <1>1 DEF Orders
<1> DEFINE n == Len(order)
<1>3. ASSUME NEW i \in 1..(2 * n)
      PROVE  (IF i % 2 = 1 THEN <<order[(i + 1) \div 2], 1>> ELSE <<order[i \div 2], 2>>) \in Pieces
  <2>1. CASE i % 2 = 1
    <3>1. (i + 1) \div 2 \in 1..n
      BY <1>1, <1>2, <2>1
    <3> QED
      BY <1>2, <2>1, <3>1 DEF Pieces
  <2>2. CASE i % 2 # 1
    <3>1. i \div 2 \in 1..n
      BY <1>1, <1>2, <2>2
    <3> QED
      BY <1>2, <2>2, <3>1 DEF Pieces
  <2> QED
    BY <2>1, <2>2
<1>4. 2 * n \in Nat
  BY <1>1, <1>2
<1>5. Lines(order) \in [1..(2 * n) -> Pieces]
  BY <1>3 DEF Lines
<1> HIDE DEF n
<1> QED
  BY <1>4, <1>5

\* Only numbers of posts are selected, so an export is finite.
LEMMA ApprovedIsFinite ==
  ASSUME IInv
  PROVE  Approved \subseteq Nat /\ IsFiniteSet(Approved)
<1>1. \A n \in Approved : \E c \in candidates : c.number = n
  BY DEF Approved
<1>2. posts \in Nat /\ Approved \subseteq 0..posts
  BY <1>1 DEF IInv, TypeOK, NumbersOK, Candidates
<1>3. IsFiniteSet(0..posts)
  BY <1>2, FS_Interval
<1>4. IsFiniteSet(Approved)
  BY <1>2, <1>3, FS_Subset
<1> QED
  BY <1>2, <1>4

LEMMA SelectIsSafe ==
  ASSUME IInv, NEW e \in Exporters, NEW name \in Names, NEW path \in Paths, Select(e, name, path)
  PROVE  IInv'
<1>0. PICK order \in Orders(Approved) :
        export' = [export EXCEPT ![e] = [pc |-> "opening", number |-> exports', name |-> name, path |-> path,
                                         items |-> Approved, text |-> Lines(order), flushed |-> 0]]
  BY DEF Select
<1> DEFINE x == [pc |-> "opening", number |-> exports', name |-> name, path |-> path,
                 items |-> Approved, text |-> Lines(order), flushed |-> 0]
<1>1. /\ export' = [export EXCEPT ![e] = x] /\ export[e].pc = "idle"
      /\ exports' = exports + 1
      /\ shared' = shared \cup (Approved \cap UNION {export[f].items : f \in Exporters})
      /\ UNCHANGED <<outputs, row, lock, post, posts, last, mixed, candidates, datasets, files,
                     disturbed, faults>>
  BY <1>0 DEF Select, feedback
<1>2. /\ Approved \subseteq Nat
      /\ \A n \in Approved : \E c \in candidates : c.number = n /\ c.status = "approved"
  BY DEF Approved, IInv, TypeOK, Candidates
<1>a. Lines(order) \in Seq(Pieces)
  BY ApprovedIsFinite, LinesAreText
<1>3. /\ x \in Exports /\ x.items = Approved /\ x.pc = "opening" /\ x.name = name
      /\ x.flushed = 0 /\ x.flushed <= Len(x.text)
  <2>1. exports' \in Nat
    BY <1>1 DEF IInv, TypeOK
  <2>2. Len(Lines(order)) \in Nat
    BY <1>a, LenProperties
  <2> HIDE DEF Lines
  <2> QED
    BY <1>2, <1>a, <2>1, <2>2 DEF Exports
<1> HIDE DEF x
<1>4. TypeOK'
  <2>1. shared' \subseteq Nat
    BY <1>1, <1>2 DEF IInv, TypeOK
  <2>2. export' \in [Exporters -> Exports]
    BY <1>1, <1>3 DEF IInv, TypeOK
  <2>3. exports' \in Nat
    BY <1>1 DEF IInv, TypeOK
  <2> QED
    BY <1>1, <2>1, <2>2, <2>3 DEF IInv, TypeOK
<1>5. export'[e] = x /\ \A f \in Exporters \ {e} : export'[f] = export[f]
  BY <1>1 DEF IInv, TypeOK
<1>6. \A h \in Handlers : post[h].pc # "idle" => post[h].number \notin Approved
  BY <1>2 DEF IInv, PostsOK
<1>7. PostsOK'
  BY <1>1, <1>3, <1>5, <1>6 DEF IInv, PostsOK
<1>8. NumbersOK'
  <2>1. NumbersOK
    BY DEF IInv
  <2>2. \A n \in Approved : n <= posts
    BY <1>2, <2>1 DEF NumbersOK
  <2> QED
    BY <1>1, <1>3, <1>5, <2>1, <2>2 DEF NumbersOK
<1>9. \A d \in datasets : Approved \cap d.items = {}
  <2> SUFFICES ASSUME NEW d \in datasets, NEW n \in Approved, n \in d.items
               PROVE  FALSE
    OBVIOUS
  <2>1. PICK c \in candidates : c.number = n /\ c.status = "approved"
    BY <1>2
  <2>2. c.status = "exported"
    BY <2>1 DEF IInv, ExportedOnce
  <2> QED
    BY <2>1, <2>2
<1>10. \A f \in Exporters : Approved \cap export[f].items \subseteq shared'
  BY <1>1
<1>11. ExportsOK'
  <2>1. ExportsOK
    BY DEF IInv
  <2> QED
    BY <1>1, <1>3, <1>5, <1>9, <1>10, <2>1 DEF ExportsOK, Active, HasOpened, AsFlushed
<1> QED
  BY <1>1, <1>4, <1>7, <1>8, <1>11 DEF IInv, FeedbackIsLastPost, ExportedOnce, ManifestMatchesFile

LEMMA SameInterval ==
  ASSUME NEW m \in Nat, NEW n \in Nat, 1..m = 1..n
  PROVE  m = n
<1>1. /\ m = 0 \/ m \in 1..m
      /\ n = 0 \/ n \in 1..n
  OBVIOUS
<1>2. /\ m = 0 \/ m \in 1..n
      /\ n = 0 \/ n \in 1..m
  BY <1>1
<1> QED
  BY <1>2

\* What is written is a text again, and in a file left as it was it continues the text.
LEMMA WrittenFile ==
  ASSUME NEW file \in Seq(Pieces), NEW text \in Seq(Pieces), NEW from \in Nat, NEW to \in Nat,
         from <= to, to <= Len(text)
  PROVE  /\ WriteAt(file, from, text, to) \in Seq(Pieces)
         /\ file = FirstPieces(text, from) => WriteAt(file, from, text, to) = FirstPieces(text, to)
<1>1. Len(file) \in Nat /\ Len(text) \in Nat
      /\ file \in [1..Len(file) -> Pieces] /\ text \in [1..Len(text) -> Pieces]
  BY LenProperties
<1>2. Gap \in Pieces
  BY DEF Pieces
<1> DEFINE size == IF to > Len(file) THEN to ELSE Len(file)
           Piece(i) == IF i \in (from + 1)..to THEN text[i] ELSE IF i <= Len(file) THEN file[i] ELSE Gap
<1>3. size \in Nat
  BY <1>1
<1>4. \A i \in 1..size : Piece(i) \in Pieces
  BY <1>1, <1>2
<1>5. WriteAt(file, from, text, to) = [i \in 1..size |-> Piece(i)]
  BY DEF WriteAt
<1>6. WriteAt(file, from, text, to) \in Seq(Pieces)
  <2> HIDE DEF size, Piece
  <2>1. [i \in 1..size |-> Piece(i)] \in [1..size -> Pieces]
    BY <1>4
  <2> QED
    BY <1>3, <1>5, <2>1
<1>7. ASSUME file = FirstPieces(text, from)
      PROVE  WriteAt(file, from, text, to) = FirstPieces(text, to)
  <2>1. DOMAIN file = 1..from
    BY <1>7 DEF FirstPieces
  <2>2. Len(file) = from
    <3>1. 1..Len(file) = 1..from
      BY <1>1, <2>1
    <3> QED
      BY <1>1, <3>1, SameInterval
  <2>3. size = to
    BY <2>2
  <2>4. \A i \in 1..to : Piece(i) = text[i]
    BY <1>7, <2>2 DEF FirstPieces
  <2> HIDE DEF size, Piece
  <2>5. [i \in 1..size |-> Piece(i)] = [i \in 1..to |-> text[i]]
    BY <2>3, <2>4
  <2> QED
    BY <1>5, <2>5 DEF FirstPieces
<1> QED
  BY <1>6, <1>7

LEMMA WholeText ==
  ASSUME NEW text \in Seq(Pieces)
  PROVE  FirstPieces(text, Len(text)) = text
BY LenProperties DEF FirstPieces

\* A file that e changes is no longer what another export left, which is on record.
LEMMA ChangedFile ==
  ASSUME IInv, NEW e \in Exporters, NEW content \in Seq(Pieces),
         files' = [files EXCEPT ![export[e].path] = content],
         disturbed' = disturbed \cup OthersOf(e),
         UNCHANGED datasets
  PROVE  /\ ManifestMatchesFile'
         /\ disturbed' \subseteq Nat /\ files' \in [Paths -> Seq(Pieces)]
         /\ \A f \in Exporters \ {e} : HasOpened(f) =>
              \/ export[f].number \in disturbed'
              \/ files'[export[f].path] = FirstPieces(export[f].text, export[f].flushed)
<1>1. export[e] \in Exports /\ export[e].path \in Paths
  BY DEF IInv, TypeOK, Exports
<1>2. \A d \in datasets : d.path = export[e].path => d.number \in disturbed'
  BY DEF OthersOf
<1>3. \A f \in Exporters \ {e} : HasOpened(f) /\ export[f].path = export[e].path
        => export[f].number \in disturbed'
  BY DEF OthersOf, HasOpened
<1>4. OthersOf(e) \subseteq Nat
  <2>1. \A d \in datasets : d.number \in Nat
    BY DEF IInv, TypeOK, Datasets
  <2>2. \A f \in Exporters : export[f].number \in Nat
    BY DEF IInv, TypeOK, Exports
  <2> QED
    BY <2>1, <2>2 DEF OthersOf
<1>5. ManifestMatchesFile'
  <2> SUFFICES ASSUME NEW d \in datasets, d.number \notin disturbed'
               PROVE  files'[d.path] = d.text
    BY DEF ManifestMatchesFile
  <2>1. d.path # export[e].path /\ d.number \notin disturbed
    BY <1>2
  <2>2. d.path \in Paths
    BY DEF IInv, TypeOK, Datasets
  <2>3. files[d.path] = d.text
    BY <2>1 DEF IInv, ManifestMatchesFile
  <2>4. files'[d.path] = files[d.path]
    BY <2>1, <2>2 DEF IInv, TypeOK
  <2> QED
    BY <2>3, <2>4
<1>6. ASSUME NEW f \in Exporters \ {e}, HasOpened(f), export[f].number \notin disturbed'
      PROVE  files'[export[f].path] = FirstPieces(export[f].text, export[f].flushed)
  <2>1. export[f].path \in Paths
    BY DEF IInv, TypeOK, Exports
  <2>2. export[f].path # export[e].path /\ export[f].number \notin disturbed
    BY <1>3, <1>6
  <2>3. AsFlushed(f)
    BY <1>6, <2>2 DEF IInv, ExportsOK
  <2>4. files'[export[f].path] = files[export[f].path]
    BY <2>1, <2>2 DEF IInv, TypeOK
  <2> QED
    BY <2>3, <2>4 DEF AsFlushed
<1>7. disturbed' \subseteq Nat /\ files' \in [Paths -> Seq(Pieces)]
  BY <1>1, <1>4 DEF IInv, TypeOK
<1> QED
  BY <1>5, <1>6, <1>7

\* An export that moves on in its file keeps what it selected.
LEMMA FileStep ==
  ASSUME IInv, NEW e \in Exporters, export[e].pc # "idle",
         NEW pc \in {"writing", "committing"}, NEW to \in Nat, to <= Len(export[e].text),
         pc = "committing" => to = Len(export[e].text),
         export' = [export EXCEPT ![e].pc = pc, ![e].flushed = to],
         files' \in [Paths -> Seq(Pieces)], disturbed' \subseteq Nat, ManifestMatchesFile',
         export[e].number \in disturbed' \/ files'[export[e].path] = FirstPieces(export[e].text, to),
         \A f \in Exporters \ {e} : HasOpened(f) =>
           \/ export[f].number \in disturbed'
           \/ files'[export[f].path] = FirstPieces(export[f].text, export[f].flushed),
         UNCHANGED <<outputs, row, lock, post, posts, last, mixed, candidates, exports, datasets,
                     shared, faults>>
  PROVE  IInv'
<1>0. export \in [Exporters -> Exports]
  BY DEF IInv, TypeOK
<1>1. TypeOK'
  <2>1. export' \in [Exporters -> Exports]
    <3>1. export[e] \in Exports
      BY <1>0
    <3>2. [export[e] EXCEPT !.pc = pc, !.flushed = to] \in Exports
      BY <3>1 DEF Exports
    <3>3. export' = [export EXCEPT ![e] = [export[e] EXCEPT !.pc = pc, !.flushed = to]]
      BY <1>0, <3>1 DEF Exports
    <3> QED
      BY <1>0, <3>2, <3>3
  <2> QED
    BY <2>1 DEF IInv, TypeOK
<1>2. \A f \in Exporters : /\ export'[f].items = export[f].items /\ export'[f].name = export[f].name
                           /\ export'[f].path = export[f].path /\ export'[f].text = export[f].text
                           /\ export'[f].number = export[f].number
  BY <1>0 DEF Exports
<1>3. \A f \in Exporters \ {e} : export'[f] = export[f]
  BY <1>0
<1>4. export'[e].pc = pc /\ export'[e].flushed = to
  BY <1>0 DEF Exports
<1>5. PostsOK' /\ NumbersOK'
  BY <1>2 DEF IInv, PostsOK, NumbersOK
<1>6. ExportsOK'
  <2>1. ExportsOK
    BY DEF IInv
  <2>2. \A f \in Exporters : Active(f)' <=> Active(f)
    BY <1>3, <1>4 DEF Active
  <2>3. ASSUME NEW f \in Exporters
        PROVE  /\ ~Active(f)' => export'[f].items = {}
               /\ \A d \in datasets' : export'[f].items \cap d.items \subseteq shared'
               /\ \A g \in Exporters : g # f => export'[f].items \cap export'[g].items \subseteq shared'
               /\ Active(f)' => export'[f].name \in Names
    BY <1>2, <2>1, <2>2 DEF ExportsOK
  <2>4. ASSUME NEW f \in Exporters
        PROVE  /\ export'[f].flushed <= Len(export'[f].text)
               /\ export'[f].pc = "opening" => export'[f].flushed = 0
               /\ export'[f].pc = "committing" => export'[f].flushed = Len(export'[f].text)
               /\ HasOpened(f)' => export'[f].number \in disturbed' \/ AsFlushed(f)'
    <3>1. CASE f = e
      BY <1>2, <1>4, <3>1 DEF AsFlushed
    <3>2. CASE f # e
      <4>1. export'[f] = export[f] /\ HasOpened(f)' = HasOpened(f)
        BY <1>3, <3>2 DEF HasOpened
      <4>2. /\ export[f].flushed <= Len(export[f].text)
            /\ export[f].pc = "opening" => export[f].flushed = 0
            /\ export[f].pc = "committing" => export[f].flushed = Len(export[f].text)
        BY <2>1 DEF ExportsOK
      <4>3. HasOpened(f) => export[f].number \in disturbed'
              \/ files'[export[f].path] = FirstPieces(export[f].text, export[f].flushed)
        BY <3>2
      <4> QED
        BY <4>1, <4>2, <4>3 DEF AsFlushed
    <3> QED
      BY <3>1, <3>2
  <2> QED
    BY <2>3, <2>4 DEF ExportsOK
<1> QED
  BY <1>1, <1>5, <1>6 DEF IInv, FeedbackIsLastPost, ExportedOnce

LEMMA OpenFileIsSafe ==
  ASSUME IInv, NEW e \in Exporters, OpenFile(e)
  PROVE  IInv'
<1>1. /\ export[e].pc = "opening" /\ export[e] \in Exports /\ export[e].flushed = 0
      /\ files' = [files EXCEPT ![export[e].path] = <<>>]
      /\ disturbed' = disturbed \cup OthersOf(e)
      /\ export' = [export EXCEPT ![e].pc = "writing"]
      /\ UNCHANGED <<outputs, row, lock, post, posts, last, mixed, candidates, exports, datasets,
                     shared, faults>>
  BY DEF OpenFile, feedback, IInv, TypeOK, ExportsOK
<1>2. <<>> \in Seq(Pieces)
  OBVIOUS
<1>3. /\ ManifestMatchesFile'
      /\ disturbed' \subseteq Nat /\ files' \in [Paths -> Seq(Pieces)]
      /\ \A f \in Exporters \ {e} : HasOpened(f) =>
           \/ export[f].number \in disturbed'
           \/ files'[export[f].path] = FirstPieces(export[f].text, export[f].flushed)
  BY <1>1, <1>2, ChangedFile
<1>4. export' = [export EXCEPT ![e].pc = "writing", ![e].flushed = 0]
  BY <1>1 DEF IInv, TypeOK, Exports
<1>5. files'[export[e].path] = FirstPieces(export[e].text, 0)
  <2>1. files'[export[e].path] = <<>>
    BY <1>1 DEF IInv, TypeOK, Exports
  <2>2. 1..0 = {}
    OBVIOUS
  <2>3. FirstPieces(export[e].text, 0) = <<>>
    BY <2>2 DEF FirstPieces
  <2> QED
    BY <2>1, <2>3
<1>6. 0 <= Len(export[e].text)
  BY <1>1, LenProperties DEF Exports
<1>7. PICK pc \in {"writing", "committing"}, to \in Nat : pc = "writing" /\ to = 0
  OBVIOUS
<1>8. /\ to <= Len(export[e].text) /\ export[e].pc # "idle"
      /\ pc = "committing" => to = Len(export[e].text)
      /\ export' = [export EXCEPT ![e].pc = pc, ![e].flushed = to]
      /\ export[e].number \in disturbed' \/ files'[export[e].path] = FirstPieces(export[e].text, to)
  BY <1>1, <1>4, <1>5, <1>6, <1>7
<1> QED
  BY <1>1, <1>3, <1>8, FileStep

\* What is written at an export's own place leaves the file as that export flushed it.
LEMMA WritesIsSafe ==
  ASSUME IInv, NEW e \in Exporters, export[e].pc = "writing",
         NEW to \in Nat, export[e].flushed <= to, to <= Len(export[e].text), Writes(e, to),
         NEW pc \in {"writing", "committing"}, pc = "committing" => to = Len(export[e].text),
         export' = [export EXCEPT ![e].pc = pc, ![e].flushed = to],
         UNCHANGED <<outputs, row, lock, post, posts, last, mixed, candidates, exports, datasets,
                     shared, faults>>
  PROVE  IInv'
<1>1. /\ export[e] \in Exports /\ export[e].path \in Paths /\ export[e].text \in Seq(Pieces)
      /\ export[e].flushed \in Nat /\ files[export[e].path] \in Seq(Pieces)
  BY DEF IInv, TypeOK, Exports
<1>2. export[e].number \in disturbed
      \/ files[export[e].path] = FirstPieces(export[e].text, export[e].flushed)
  BY DEF IInv, ExportsOK, HasOpened, AsFlushed
<1>3. CASE to > export[e].flushed
  <2> DEFINE content == WriteAt(files[export[e].path], export[e].flushed, export[e].text, to)
  <2>1. files' = [files EXCEPT ![export[e].path] = content] /\ disturbed' = disturbed \cup OthersOf(e)
    BY <1>3 DEF Writes
  <2>2. /\ content \in Seq(Pieces)
        /\ files[export[e].path] = FirstPieces(export[e].text, export[e].flushed)
             => content = FirstPieces(export[e].text, to)
    BY <1>1, WrittenFile
  <2> HIDE DEF content
  <2>3. /\ ManifestMatchesFile'
        /\ disturbed' \subseteq Nat /\ files' \in [Paths -> Seq(Pieces)]
        /\ \A f \in Exporters \ {e} : HasOpened(f) =>
             \/ export[f].number \in disturbed'
             \/ files'[export[f].path] = FirstPieces(export[f].text, export[f].flushed)
    BY <2>1, <2>2, ChangedFile
  <2>4. files'[export[e].path] = content
    BY <1>1, <2>1 DEF IInv, TypeOK
  <2>5. export[e].number \in disturbed' \/ files'[export[e].path] = FirstPieces(export[e].text, to)
    BY <1>2, <2>1, <2>2, <2>4
  <2> QED
    BY <2>3, <2>5, FileStep
<1>4. CASE ~(to > export[e].flushed)
  <2>1. to = export[e].flushed
    BY <1>1, <1>4
  <2>2. UNCHANGED <<files, disturbed>>
    BY <1>4 DEF Writes
  <2>3. \A f \in Exporters \ {e} : HasOpened(f) =>
          \/ export[f].number \in disturbed'
          \/ files'[export[f].path] = FirstPieces(export[f].text, export[f].flushed)
    BY <2>2 DEF IInv, ExportsOK, AsFlushed
  <2>4. ManifestMatchesFile' /\ files' \in [Paths -> Seq(Pieces)] /\ disturbed' \subseteq Nat
    BY <2>2 DEF IInv, TypeOK, ManifestMatchesFile
  <2>5. export[e].number \in disturbed' \/ files'[export[e].path] = FirstPieces(export[e].text, to)
    BY <1>2, <2>1, <2>2
  <2> QED
    BY <2>3, <2>4, <2>5, FileStep
<1> QED
  BY <1>3, <1>4

LEMMA FlushBufferIsSafe ==
  ASSUME IInv, NEW e \in Exporters, FlushBuffer(e)
  PROVE  IInv'
<1>1. /\ export[e].pc = "writing" /\ export[e].flushed \in Nat /\ Len(export[e].text) \in Nat
      /\ UNCHANGED <<outputs, row, lock, post, posts, last, mixed, candidates, exports, datasets,
                     shared, faults>>
  BY LenProperties DEF FlushBuffer, feedback, IInv, TypeOK, Exports
<1>2. PICK to \in (export[e].flushed + 1)..Len(export[e].text) :
        Writes(e, to) /\ export' = [export EXCEPT ![e].flushed = to]
  BY DEF FlushBuffer
<1>3. to \in Nat /\ export[e].flushed <= to /\ to <= Len(export[e].text)
  BY <1>1
<1>4. export' = [export EXCEPT ![e].pc = "writing", ![e].flushed = to]
  BY <1>1, <1>2 DEF IInv, TypeOK, Exports
<1> QED
  BY <1>1, <1>2, <1>3, <1>4, WritesIsSafe

LEMMA CloseFileIsSafe ==
  ASSUME IInv, NEW e \in Exporters, CloseFile(e)
  PROVE  IInv'
<1>1. /\ export[e].pc = "writing" /\ export[e].flushed <= Len(export[e].text)
      /\ Len(export[e].text) \in Nat /\ Writes(e, Len(export[e].text))
      /\ export' = [export EXCEPT ![e].pc = "committing", ![e].flushed = Len(export[e].text)]
      /\ UNCHANGED <<outputs, row, lock, post, posts, last, mixed, candidates, exports, datasets,
                     shared, faults>>
  BY LenProperties DEF CloseFile, feedback, IInv, TypeOK, Exports, ExportsOK
<1>2. PICK pc \in {"writing", "committing"}, to \in Nat :
        pc = "committing" /\ to = Len(export[e].text)
  BY <1>1
<1>3. /\ export[e].flushed <= to /\ to <= Len(export[e].text) /\ Writes(e, to)
      /\ pc = "committing" => to = Len(export[e].text)
      /\ export' = [export EXCEPT ![e].pc = pc, ![e].flushed = to]
  BY <1>1, <1>2
<1> QED
  BY <1>1, <1>3, WritesIsSafe

\* An export that ends leaves nothing selected.
LEMMA Ended ==
  ASSUME IInv, NEW e \in Exporters, Exported(e)
  PROVE  /\ export' \in [Exporters -> Exports]
         /\ export'[e].pc = "idle" /\ export'[e].items = {}
         /\ export'[e].flushed <= Len(export'[e].text)
         /\ \A f \in Exporters \ {e} : export'[f] = export[f]
BY NothingIsTyped DEF IInv, TypeOK, Exported, NoExport

LEMMA ExportDiesIsSafe ==
  ASSUME IInv, NEW e \in Exporters, ExportDies(e)
  PROVE  IInv'
<1>1. UNCHANGED <<outputs, row, lock, post, posts, last, mixed, candidates, exports, datasets, files,
                  shared, disturbed>>
      /\ Exported(e) /\ faults' \in Nat
  BY DEF ExportDies, Faulty, feedback, IInv, TypeOK
<1>2. TypeOK'
  BY <1>1, Ended DEF IInv, TypeOK
<1>3. PostsOK' /\ NumbersOK' /\ ExportsOK'
  <2>1. PostsOK /\ NumbersOK /\ ExportsOK
    BY DEF IInv
  <2> QED
    BY <1>1, <2>1, Ended DEF PostsOK, NumbersOK, ExportsOK, Active, HasOpened, AsFlushed
<1> QED
  BY <1>1, <1>2, <1>3 DEF IInv, FeedbackIsLastPost, ExportedOnce, ManifestMatchesFile

LEMMA DatasetIsSafe ==
  ASSUME IInv, NEW e \in Exporters, CommitDataset(e)
  PROVE  IInv'
<1> DEFINE new == [number |-> export[e].number, name |-> export[e].name, path |-> export[e].path,
                   items |-> export[e].items, text |-> export[e].text]
           Marked(c) == IF c.number \in export[e].items THEN [c EXCEPT !.status = "exported"] ELSE c
<1>1. /\ UNCHANGED <<outputs, row, lock, post, posts, last, mixed, exports, files, shared, disturbed,
                     faults>>
      /\ Exported(e) /\ export[e].pc = "committing" /\ export[e] \in Exports
  BY DEF CommitDataset, feedback, IInv, TypeOK
<1>2. CASE UNCHANGED <<datasets, candidates>>
  <2>1. TypeOK'
    BY <1>1, <1>2, Ended DEF IInv, TypeOK
  <2>2. PostsOK' /\ NumbersOK' /\ ExportsOK'
    <3>1. PostsOK /\ NumbersOK /\ ExportsOK
      BY DEF IInv
    <3> QED
      BY <1>1, <1>2, <3>1, Ended DEF PostsOK, NumbersOK, ExportsOK, Active, HasOpened, AsFlushed
  <2> QED
    BY <1>1, <1>2, <2>1, <2>2 DEF IInv, FeedbackIsLastPost, ExportedOnce, ManifestMatchesFile
<1>3. CASE /\ datasets' = datasets \cup {new}
           /\ candidates' = {Marked(c) : c \in candidates}
  <2>1. new \in Datasets /\ new.items = export[e].items /\ new.name = export[e].name
        /\ new.path = export[e].path /\ new.number = export[e].number /\ new.text = export[e].text
    <3>1. export[e].name \in Names
      BY <1>1 DEF IInv, ExportsOK, Active
    <3> QED
      BY <1>1, <3>1 DEF Datasets, Exports
  <2>2. \A c \in candidates :
          /\ Marked(c) \in Candidates /\ Marked(c).number = c.number
          /\ c.number \in export[e].items => Marked(c).status = "exported"
          /\ c.number \notin export[e].items => Marked(c) = c
    BY DEF IInv, TypeOK, Candidates
  <2> HIDE DEF new, Marked
  <2>3. \A c \in candidates' : \E b \in candidates : c = Marked(b)
    BY <1>3
  <2>4. TypeOK'
    BY <1>1, <1>3, <2>1, <2>2, <2>3, Ended DEF IInv, TypeOK
  <2>5. PostsOK'
    <3>1. \A h \in Handlers : post[h].pc # "idle" => post[h].number \notin new.items
      BY <2>1 DEF IInv, PostsOK
    <3>2. PostsOK
      BY DEF IInv
    <3> QED
      BY <1>1, <1>3, <2>2, <2>3, <3>1, <3>2, Ended DEF PostsOK
  <2>6. NumbersOK'
    <3>1. NumbersOK /\ \A n \in new.items : n <= posts
      BY <2>1 DEF IInv, NumbersOK
    <3> QED
      BY <1>1, <1>3, <2>2, <2>3, <3>1, Ended DEF NumbersOK
  <2>7. ExportsOK'
    <3>1. ExportsOK /\ \A f \in Exporters \ {e} : export[f].items \cap new.items \subseteq shared
      BY <2>1 DEF IInv, ExportsOK
    <3> QED
      BY <1>1, <1>3, <3>1, Ended DEF ExportsOK, Active, HasOpened, AsFlushed
  <2>8. ExportedOnce'
    <3>1. ExportedOnce /\ \A d \in datasets : new.items \cap d.items \subseteq shared
      BY <2>1 DEF IInv, ExportsOK
    <3>2. ASSUME NEW c \in candidates'
          PROVE  c.status = "exported" <=> \E d \in datasets' : c.number \in d.items
      <4>1. PICK b \in candidates : c = Marked(b)
        BY <2>3
      <4>2. CASE b.number \in export[e].items
        BY <1>3, <2>1, <2>2, <4>1, <4>2
      <4>3. CASE b.number \notin export[e].items
        BY <1>3, <2>1, <2>2, <3>1, <4>1, <4>3 DEF ExportedOnce
      <4> QED
        BY <4>2, <4>3
    <3> QED
      BY <1>1, <1>3, <3>1, <3>2 DEF ExportedOnce
  <2>9. ManifestMatchesFile'
    <3>1. new.number \in disturbed \/ files[new.path] = new.text
      <4>1. export[e].text \in Seq(Pieces)
        BY <1>1 DEF Exports
      <4>2. export[e].flushed = Len(export[e].text)
        BY <1>1 DEF IInv, ExportsOK
      <4>3. export[e].number \in disturbed \/ AsFlushed(e)
        BY <1>1 DEF IInv, ExportsOK, HasOpened
      <4> QED
        BY <2>1, <4>1, <4>2, <4>3, WholeText DEF AsFlushed
    <3> QED
      BY <1>1, <1>3, <3>1 DEF IInv, ManifestMatchesFile
  <2> QED
    BY <1>1, <2>4, <2>5, <2>6, <2>7, <2>8, <2>9 DEF IInv, FeedbackIsLastPost
<1> QED
  BY <1>2, <1>3 DEF CommitDataset

LEMMA NextIsSafe == IInv /\ [Next]_vars => IInv'
<1> SUFFICES ASSUME IInv, [Next]_vars PROVE IInv'
  OBVIOUS
<1>1. ASSUME NEW h \in Handlers, NEW o \in Outputs, NEW consent \in BOOLEAN, NEW usable \in BOOLEAN,
             Post(h, o, consent, usable)
      PROVE  IInv'
  BY <1>1, PostIsSafe
<1>2. ASSUME NEW h \in Handlers, Flush(h) PROVE IInv'
  <2>1. lock' \in [Outputs -> Handlers \cup {Nobody}] /\ faults' \in Nat
    BY <1>2 DEF Flush, IInv, TypeOK
  <2> QED
    BY <1>2, <2>1, PostMoves DEF Flush
<1>3. ASSUME NEW h \in Handlers, Commit(h) PROVE IInv'
  BY <1>3, CommitIsSafe
<1>4. ASSUME NEW h \in Handlers, PostFails(h) PROVE IInv'
  <2>1. lock' \in [Outputs -> Handlers \cup {Nobody}] /\ faults' \in Nat
    BY <1>4 DEF PostFails, Faulty, IInv, TypeOK
  <2> QED
    BY <1>4, <2>1, PostMoves DEF PostFails
<1>5. ASSUME NEW o \in Outputs, Purge(o) PROVE IInv'
  BY <1>5, PurgeIsSafe
<1>6. ASSUME NEW c \in candidates, NEW verdict \in {"approved", "rejected"}, Review(c, verdict)
      PROVE  IInv'
  BY <1>6, ReviewIsSafe
<1>7. ASSUME NEW e \in Exporters, NEW name \in Names, NEW path \in Paths, Select(e, name, path)
      PROVE  IInv'
  BY <1>7, SelectIsSafe
<1>8. ASSUME NEW e \in Exporters,
             OpenFile(e) \/ FlushBuffer(e) \/ CloseFile(e) \/ CommitDataset(e) \/ ExportDies(e)
      PROVE  IInv'
  BY <1>8, OpenFileIsSafe, FlushBufferIsSafe, CloseFileIsSafe, DatasetIsSafe, ExportDiesIsSafe
<1>9. CASE UNCHANGED vars
  BY <1>9 DEF vars, IInv, TypeOK, PostsOK, NumbersOK, ExportsOK, Active, HasOpened, AsFlushed,
              FeedbackIsLastPost, ExportedOnce, ManifestMatchesFile
<1> QED
  BY <1>1, <1>2, <1>3, <1>4, <1>5, <1>6, <1>7, <1>8, <1>9 DEF Next

(***************************************************************************)
(* The theorems                                                            *)
(***************************************************************************)
\* Posts, candidates, exports and datasets agree in every reachable state.
THEOREM FeedbackInvariance == Spec => []IInv
BY InitIsOK, NextIsSafe, PTL DEF Spec

\* Type correctness of Feedback.
THEOREM FeedbackTypeCorrect == Spec => []TypeOK
BY FeedbackInvariance, PTL DEF IInv

\* The stored feedback is its user's last post, unless posts raced on one row.
THEOREM LastPostStands == Spec => []FeedbackIsLastPost
BY FeedbackInvariance, PTL DEF IInv

\* EXPORTED means that a dataset holds the candidate; two datasets share only what two
\* exports selected at once.
THEOREM ExportsAreDisjoint == Spec => []ExportedOnce
BY FeedbackInvariance, PTL DEF IInv

\* A dataset's file is, piece by piece, the text its manifest digests, unless another export
\* opened or wrote the file after the dataset's own export had opened it.
THEOREM ManifestsAreTrue == Spec => []ManifestMatchesFile
BY FeedbackInvariance, PTL DEF IInv
=================================================================================
