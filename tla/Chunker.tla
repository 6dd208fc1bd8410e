-------------------------------- MODULE Chunker --------------------------------
(***************************************************************************)
(* How ArabicAwareChunker (rag/chunker.py) cuts the pages of an extracted  *)
(* document into overlapping chunks.  A page is the sequence of its        *)
(* sentences, a sentence a sequence of characters; where sentences end and *)
(* how white space is normalized is the input's.  Both ingestions of the   *)
(* system, the service's and the Lab's, store what this computes; Evidence  *)
(* goes on from there.                                                     *)
(***************************************************************************)
EXTENDS Integers, Sequences, FiniteSets, SequencesExt

CONSTANTS Characters, Space,
          Files,       \* the uploaded documents: sequences of pages, some without text
          ChunkSize,
          Overlaps     \* the overlaps a chunker is configured with

(* Units are stripped, and empty ones left out. *)
Solid(text) == text # <<>> /\ text[1] # Space /\ text[Len(text)] # Space

ASSUME ChunkerAssumption ==
  /\ ChunkSize \in Nat /\ Overlaps \subseteq 0..ChunkSize - 1
  /\ Space \in Characters
  /\ Files \subseteq Seq([title : Seq(Characters), units : Seq(Seq(Characters))])
  /\ \A file \in Files : \A p \in DOMAIN file : \A u \in DOMAIN file[p].units :
       Solid(file[p].units[u])

VARIABLES pages,    \* the extracted pages
          overlap,
          page, unit,   \* how far the chunker is: pages done, sentences of the next done,
          start,        \* characters done of a sentence that is cut
          current,  \* the text that is collected, at a page's start what was carried over
          output,   \* the chunks
          item,     \* how many of them the deduplication has seen
          deduped   \* the chunks that are returned

chunkerVars == <<pages, overlap, page, unit, start, current, output, item, deduped>>

ChunkerInit ==
  /\ pages \in Files /\ overlap \in Overlaps
  /\ page = 0 /\ unit = 0 /\ start = 0
  /\ current = <<>> /\ output = <<>>
  /\ item = 0 /\ deduped = <<>>

Units == pages[page + 1].units
Unit == Units[unit + 1]

Stripped(text) ==
  LET Inner == {i \in DOMAIN text : text[i] # Space}
  IN  IF Inner = {} THEN <<>>
      ELSE SubSeq(text, CHOOSE i \in Inner : \A j \in Inner : i <= j,
                        CHOOSE i \in Inner : \A j \in Inner : i >= j)

Joined(text, next) == text \o <<Space>> \o next

(* text[-overlap:], nothing for an overlap of 0. *)
TailOf(text) ==
  SubSeq(text, IF Len(text) > overlap THEN Len(text) - overlap + 1 ELSE 1, Len(text))

(* Chunks of a page have its number and title. *)
Chunk(text) == [text |-> text, page |-> page + 1, title |-> pages[page + 1].title]

(* A page without text: what is carried over stays for the next one. *)
SkipPage ==
  /\ page < Len(pages) /\ Units = <<>>
  /\ page' = page + 1
  /\ UNCHANGED <<pages, overlap, unit, start, current, output, item, deduped>>

InPage == page < Len(pages) /\ unit < Len(Units)

(* The sentence fits in what is collected. *)
Collect ==
  /\ InPage
  /\ LET candidate == Stripped(Joined(current, Unit))
     IN  Len(candidate) <= ChunkSize /\ current' = candidate
  /\ unit' = unit + 1
  /\ UNCHANGED <<pages, overlap, page, start, output, item, deduped>>

TooLong == Len(Stripped(Joined(current, Unit))) > ChunkSize

\* Mutant of AfterFlush: nothing is carried into the next chunk.
AfterFlushAlone == Unit
AfterFlush == Joined(TailOf(current), Unit)

(* It does not: what is collected becomes a chunk, and the sentence, of    *)
(* whatever length, is collected after the end of that chunk.              *)
Flush ==
  /\ InPage /\ TooLong /\ current # <<>>
  /\ output' = Append(output, Chunk(current))
  /\ current' = AfterFlush
  /\ unit' = unit + 1
  /\ UNCHANGED <<pages, overlap, page, start, item, deduped>>

Part == SubSeq(Unit, start + 1,
               IF start + ChunkSize < Len(Unit) THEN start + ChunkSize ELSE Len(Unit))

(* Nothing is collected: the sentence itself is too long and is cut into   *)
(* parts of a chunk's size, each a step after the last.                    *)
Cut ==
  /\ InPage /\ TooLong /\ current = <<>>
  /\ output' = Append(output, Chunk(Part))
  /\ LET next == start + ChunkSize - overlap
     IN  IF next < Len(Unit) THEN start' = next /\ UNCHANGED unit
         ELSE start' = 0 /\ unit' = unit + 1
  /\ UNCHANGED <<pages, overlap, page, current, item, deduped>>

\* Mutant of Carried: the whole of the last chunk goes over to the next page.
CarriedWhole == current
Carried == TailOf(current)

(* The end of the page: what is collected becomes a chunk of this page and *)
(* its end is carried over to the next.                                    *)
EndPage ==
  /\ page < Len(pages) /\ Units # <<>> /\ unit = Len(Units)
  /\ output' = IF current # <<>> THEN Append(output, Chunk(current)) ELSE output
  /\ current' = Carried
  /\ page' = page + 1 /\ unit' = 0
  /\ UNCHANGED <<pages, overlap, start, item, deduped>>

(* Chunks are stripped, and of equal ones only the first is kept. *)
Deduplicate ==
  /\ page = Len(pages) /\ item < Len(output)
  /\ LET text == Stripped(output[item + 1].text)
     IN  deduped' = IF text = <<>> \/ \E i \in DOMAIN deduped : deduped[i].text = text
                    THEN deduped
                    ELSE Append(deduped, [output[item + 1] EXCEPT !.text = text])
  /\ item' = item + 1
  /\ UNCHANGED <<pages, overlap, page, unit, start, current, output>>

ChunkerNext == SkipPage \/ Collect \/ Flush \/ Cut \/ EndPage \/ Deduplicate

Chunked == page = Len(pages) /\ item = Len(output)

(***************************************************************************)
(* Properties                                                              *)
(***************************************************************************)
Within(part, text) ==
  \E i \in 0..Len(text) - Len(part) : \A k \in 1..Len(part) : text[i + k] = part[k]
Returned(part) == \E i \in DOMAIN deduped : Within(part, deduped[i].text)

Sentence(p, u) == pages[p].units[u]
IsCut(sentence) == Len(sentence) > ChunkSize

(* What of a sentence must be readable in one piece: all of it, or of a    *)
(* longer one than a chunk every stretch one longer than the overlap.      *)
Pieces(sentence) ==
  IF ~IsCut(sentence) THEN {sentence}
  ELSE {piece \in {SubSeq(sentence, i, j) : i \in DOMAIN sentence, j \in DOMAIN sentence} :
          Solid(piece) /\ Len(piece) <= overlap + 1}

NoSentenceIsTorn ==
  \A p \in DOMAIN pages : \A u \in DOMAIN pages[p].units :
    \A piece \in Pieces(Sentence(p, u)) : Returned(piece)

(* The next sentence, on this page or on the next with text. *)
Follows(p, u, q, v) ==
  \/ q = p /\ v = u + 1
  \/ q > p /\ u = Len(pages[p].units) /\ v = 1 /\ \A r \in p + 1..q - 1 : pages[r].units = <<>>

(* The end of a sentence and the next one. *)
Meeting(sentence, next) == Stripped(Joined(TailOf(sentence), next))

NeighboursMeet ==
  \A p, q \in DOMAIN pages : \A u \in DOMAIN pages[p].units, v \in DOMAIN pages[q].units :
    Follows(p, u, q, v) /\ ~IsCut(Sentence(p, u)) /\ ~IsCut(Sentence(q, v)) =>
      Returned(Meeting(Sentence(p, u), Sentence(q, v)))

(* Whatever is collected, carried over, cut, stripped and dropped as a     *)
(* repetition: no sentence that fits a chunk is torn, and no stretch of a  *)
(* longer one is lost.  And the end of a sentence and the whole of a short *)
(* one after it, even on the next page, are in one chunk, so that what is  *)
(* said across a boundary can be retrieved; only beside a sentence that    *)
(* was cut they need not be.                                               *)
ChunksKeepText == Chunked => NoSentenceIsTorn /\ NeighboursMeet

SizeIsBounded(text) ==
  \/ Len(text) <= ChunkSize
  \/ \E p \in DOMAIN pages : \E u \in DOMAIN pages[p].units :
       Len(text) <= overlap + 1 + Len(Sentence(p, u))

HasCharacter(p, c) == \E u \in DOMAIN pages[p].units : c \in ToSet(Sentence(p, u))
IsOwn(text, p) ==
  \A j \in DOMAIN text : j > overlap => text[j] = Space \/ HasCharacter(p, text[j])

(* A chunk exceeds its size by no more than the overlap and one sentence   *)
(* that was not cut; and it holds text of another page than its own, which *)
(* its citations name, only in what was carried over to it.                *)
ChunksAreLocal ==
  \A i \in DOMAIN deduped :
    SizeIsBounded(deduped[i].text) /\ IsOwn(deduped[i].text, deduped[i].page)
================================================================================
