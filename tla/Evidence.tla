-------------------------------- MODULE Evidence --------------------------------
(***************************************************************************)
(* From the chunks of a document to a result whose claims are checked: the *)
(* search, HybridReranker, the context that the model is shown and the     *)
(* citations that the result carries (RAGRetriever.retrieve), and          *)
(* ClaimEvidenceValidator as the quiz and the summary pipeline use it.     *)
(* Terms are the words of a text, what stands between its spaces; a query  *)
(* and a claim are the terms they have, once those that are too short and  *)
(* the stop words are left out.                                            *)
(***************************************************************************)
EXTENDS Chunker

CONSTANTS Searched,       \* bound of the model: the files that questions are about
          Queries,        \* queries, each the set of its terms
          ClaimTerms,     \* what a claim may say, also as the set of its terms
          Similarities,   \* from the least that the search accepts, in hundredths
          SearchLimit, RerankLimit, MaxContext,
          HeaderSize,     \* of a block of the context, with the guard's sentence
          ExcerptSize,    \* of the excerpt in a citation, wherever in a word it ends
          MinSupport,     \* hundredths of a claim's terms that evidence must have
          MaxReferences, MaxClaims

ASSUME EvidenceAssumption ==
  /\ \A terms \in Queries \cup ClaimTerms : IsFiniteSet(terms)
  /\ Similarities \subseteq 0..100
  /\ {SearchLimit, RerankLimit, MaxContext, HeaderSize, ExcerptSize, MinSupport,
      MaxReferences, MaxClaims} \subseteq Nat

VARIABLES task, query,
          hits,       \* what the search returned: chunks with their similarity
          context,    \* the numbered blocks that the model is shown, by index of their hit
          consumed,   \* the characters of the context
          citations,  \* the excerpts, by the same numbers
          claims,     \* the claims that passed
          pc, code    \* code of a failure, with the claim that failed
retrievalVars == <<task, query, hits, context, consumed, citations, claims, pc, code>>
evidenceVars == <<chunkerVars, retrievalVars>>

Claims == [terms : ClaimTerms, references : BoundedSeq(0..RerankLimit + 1, MaxReferences)]
NoClaim == [terms |-> {}, references |-> <<>>]

EvidenceInit ==
  /\ ChunkerInit
  /\ task = "" /\ query = {} /\ hits = <<>>
  /\ context = <<>> /\ consumed = 0 /\ citations = <<>> /\ claims = {}
  /\ pc = "searching" /\ code = [name |-> "", claim |-> NoClaim]

(* SourceRepository.retrieve: the most similar chunks, the most similar    *)
(* first; those that are not similar enough are not among them.            *)
Search(chosen, similarity) ==
  /\ Len(similarity) = Len(chosen) /\ IsInjective(chosen)
  /\ \A i, j \in DOMAIN chosen : i < j => similarity[i] >= similarity[j]
  /\ hits' = [i \in DOMAIN chosen |->
                [text |-> deduped[chosen[i]].text, title |-> deduped[chosen[i]].title,
                 similarity |-> similarity[i]]]
  /\ pc' = "retrieving"
  /\ UNCHANGED <<context, consumed, citations, claims, code>>

Ask ==
  /\ Chunked /\ pc = "searching" /\ pages \in Searched
  /\ task' \in {"fahes", "kholasa"} /\ query' \in Queries
  /\ \E chosen \in BoundedSeq(DOMAIN deduped, SearchLimit) :
       \E similarity \in BoundedSeq(Similarities, SearchLimit) : Search(chosen, similarity)
  /\ UNCHANGED chunkerVars

Fail(name, claim) == pc' = "failed" /\ code' = [name |-> name, claim |-> claim]

(***************************************************************************)
(* Retrieval                                                               *)
(***************************************************************************)
WordBegins(text, i) == text[i] # Space /\ (i = 1 \/ text[i - 1] = Space)

(* What _TOKEN.findall finds, in the reranker and in the validator: from   *)
(* where a word begins to where it ends.                                   *)
IsWord(text, i, j) ==
  /\ WordBegins(text, i) /\ i <= j /\ \A k \in i..j : text[k] # Space
  /\ j = Len(text) \/ text[j + 1] = Space
Words(text) ==
  UNION {{SubSeq(text, i, j) : j \in {k \in DOMAIN text : IsWord(text, i, k)}} : i \in DOMAIN text}

Lexical(i) == Cardinality(query \cap Words(hits[i].text))
TitleMatch(i) == Cardinality(query \cap Words(hits[i].title))

(* The blend of the reranker, in hundredths of hundredths times the number *)
(* of the query's terms.                                                   *)
Score(i) ==
  76 * hits[i].similarity * Cardinality(query) + 1800 * Lexical(i) + 600 * TitleMatch(i)

(* Best first, equals as the search had them; a query without terms leaves *)
(* the search's order.                                                     *)
Before(i, j) == Score(i) > Score(j) \/ (Score(i) = Score(j) /\ i < j)

Remaining == DOMAIN hits \ ToSet(context)
Fits(i) == consumed + HeaderSize + Len(hits[i].text) <= MaxContext

\* Mutant of NextRanked: a block that does not fit is skipped, not the last one.
NextThatFits(i) ==
  /\ i \in Remaining /\ Fits(i)
  /\ \A j \in Remaining \ {i} : Fits(j) => Before(i, j)
NextRanked(i) == i \in Remaining /\ \A j \in Remaining \ {i} : Before(i, j)

(* chunk.text[:1200] *)
Excerpt(text) == SubSeq(text, 1, IF ExcerptSize < Len(text) THEN ExcerptSize ELSE Len(text))

(* The next of the ranked chunks becomes a block of the context. *)
ShowBlock(i) ==
  /\ pc = "retrieving" /\ Len(context) < RerankLimit
  /\ NextRanked(i) /\ Fits(i)
  /\ context' = Append(context, i)
  /\ consumed' = consumed + HeaderSize + Len(hits[i].text)
  /\ citations' = Append(citations, Excerpt(hits[i].text))
  /\ UNCHANGED <<chunkerVars, task, query, hits, claims, pc, code>>

(* There is none, or it would exceed the context.  Without any block the   *)
(* job fails before the generation.                                        *)
ContextEnds ==
  /\ pc = "retrieving"
  /\ Len(context) < RerankLimit => \A i \in Remaining : NextRanked(i) => ~Fits(i)
  /\ IF context = <<>> THEN Fail("insufficient_source_context", NoClaim)
     ELSE pc' = "grounding" /\ UNCHANGED code

\* Mutant of EndContext: the citation of a block is added before its size is checked.
EndContextCiting ==
  /\ ContextEnds
  /\ \/ Len(context) < RerankLimit /\ \E i \in Remaining :
          NextRanked(i) /\ citations' = Append(citations, Excerpt(hits[i].text))
     \/ (Len(context) = RerankLimit \/ Remaining = {}) /\ UNCHANGED citations
  /\ UNCHANGED <<chunkerVars, task, query, hits, context, consumed, claims>>
EndContext ==
  /\ ContextEnds
  /\ UNCHANGED <<chunkerVars, task, query, hits, context, consumed, citations, claims>>

(***************************************************************************)
(* Grounding                                                               *)
(***************************************************************************)
(* The terms of a claim that the excerpts it refers to have: whole words   *)
(* of the excerpts, of which the last may be the beginning of a longer one.*)
Covered(claim) ==
  claim.terms \cap UNION {Words(citations[claim.references[k]]) : k \in DOMAIN claim.references}

(* ClaimEvidenceValidator.validate *)
Verdict(claim) ==
  IF claim.references = <<>> THEN "missing_evidence"
  ELSE IF ~(ToSet(claim.references) \subseteq DOMAIN citations) THEN "invalid_source_reference"
  ELSE IF claim.terms = {} THEN "unverifiable_claim"
  ELSE IF \/ Covered(claim) = {}
          \/ 100 * Cardinality(Covered(claim)) < MinSupport * Cardinality(claim.terms)
       THEN "unsupported_claim"
  ELSE "supported"

Check(claim, next) ==
  /\ IF Verdict(claim) = "supported"
     THEN claims' = claims \cup {claim} /\ pc' = next /\ UNCHANGED code
     ELSE Fail(Verdict(claim), claim) /\ UNCHANGED claims
  /\ UNCHANGED <<chunkerVars, task, query, hits, context, consumed, citations>>

(* A question, or a flashcard, which may come without references. *)
CheckClaim(claim) ==
  /\ pc = "grounding" /\ Cardinality(claims) < MaxClaims
  /\ task = "fahes" => claim.references # <<>>
  /\ Check(claim, "grounding")

AcceptQuiz ==
  /\ pc = "grounding" /\ task = "fahes" /\ claims # {}
  /\ pc' = "accepted"
  /\ UNCHANGED <<chunkerVars, task, query, hits, context, consumed, citations, claims, code>>

(* The summary as a whole refers to all citations. *)
CheckSummary(terms) ==
  /\ pc = "grounding" /\ task = "kholasa"
  /\ Check([terms |-> terms, references |-> [n \in DOMAIN citations |-> n]], "accepted")

EvidenceNext ==
  \/ ChunkerNext /\ UNCHANGED retrievalVars
  \/ Ask
  \/ \E i \in DOMAIN hits : ShowBlock(i)
  \/ EndContext
  \/ \E claim \in Claims : CheckClaim(claim)
  \/ AcceptQuiz
  \/ \E terms \in ClaimTerms : CheckSummary(terms)

EvidenceSpec == EvidenceInit /\ [][EvidenceNext]_evidenceVars

(***************************************************************************)
(* Properties                                                              *)
(***************************************************************************)
(* What the model was shown under the numbers that a claim refers to. *)
Shown(claim) == {hits[context[claim.references[k]]].text : k \in DOMAIN claim.references}
Quoted(claim) == UNION {Words(text) : text \in Shown(claim)}

(* The beginning of the one word that the end of the excerpt cuts in two,  *)
(* if it cuts one.                                                         *)
CutWord(text) ==
  {SubSeq(text, i, ExcerptSize) : i \in
     {k \in 1..ExcerptSize : /\ ExcerptSize < Len(text) /\ WordBegins(text, k)
                             /\ \A n \in k..ExcerptSize + 1 : text[n] # Space}}
CutOff(claim) == UNION {CutWord(text) : text \in Shown(claim)}

(* Every claim that a pipeline validates (all but kholasa's detailed       *)
(* summary) and that an accepted result has refers to blocks that the      *)
(* model was shown, and they have enough of its terms, though it is        *)
(* checked against the citations, a list of their own.  What counts for a  *)
(* claim without standing in a block is only the beginning of a word, one  *)
(* for each reference, that retriever.py:83 cuts in two: "evidence support"*)
(* (docs/RAG_GROUNDING.md:10) that no block gives.                         *)
AcceptedClaimsAreQuoted ==
  pc = "accepted" => \A claim \in claims :
    LET support == claim.terms \cap (Quoted(claim) \cup CutOff(claim)) IN
    /\ claim.references # <<>> /\ ToSet(claim.references) \subseteq DOMAIN context
    /\ support # {}
    /\ 100 * Cardinality(support) >= MinSupport * Cardinality(claim.terms)

Better(i, j) ==
  /\ hits[i].similarity >= hits[j].similarity
  /\ Lexical(i) >= Lexical(j) /\ TitleMatch(i) >= TitleMatch(j)
  /\ \/ hits[i].similarity > hits[j].similarity
     \/ Lexical(i) > Lexical(j) \/ TitleMatch(i) > TitleMatch(j)

(* No chunk is shown instead of one that is better in every respect: not   *)
(* for its weights, its place in the search nor its length.                *)
BetterEvidenceFirst ==
  \A i, j \in DOMAIN hits :
    Better(i, j) /\ j \in ToSet(context) => i \in ToSet(context)
================================================================================
