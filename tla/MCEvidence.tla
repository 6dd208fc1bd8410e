------------------------------- MODULE MCEvidence -------------------------------
EXTENDS Evidence

(* Two characters, three with a space among them, and two sentences that   *)
(* do not fit a chunk; pages of up to two sentences, or one, or none.      *)
FewSentences ==
  {<<"a1", "a2">>, <<"b1", Space, "b2">>,
   <<"c1", "c2", "c3", Space, "c4", "c5", "c6">>,
   <<"d1", "d2", "d3", "d4", "d5", "d6", "d7", "d8", "d9", "d10">>}

Page(title, units) == [title |-> title, units |-> units]

ShortFiles ==
  LET Pages == {Page(<<>>, units) : units \in BoundedSeq(FewSentences, 2)}
      LastPages == {Page(<<>>, units) : units \in BoundedSeq(FewSentences, 1)}
  IN  {<<p, q, r>> : p \in Pages, q \in Pages, r \in LastPages}

(* Documents with titles.  The first has three chunks that share words;    *)
(* the second has texts within an excerpt (four characters), cut by its    *)
(* end within a word and between two, and beyond the context.              *)
TitledFiles ==
  {<<Page(<<"a1">>, <<<<"a1", Space, "a2">>, <<"b1", Space, "a2">>>>),
     Page(<<"b1", Space, "a1">>, <<<<"a1", Space, "b1">>>>)>>,
   <<Page(<<>>, <<<<"a1", Space, "c1", "c2", "c3">>, <<"b1", "b2", "b3", "b4", Space, "a1">>>>),
     Page(<<"c1">>, <<<<"c1", "c2", Space, "b1", Space, "a1">>>>)>>}

AllFiles == ShortFiles \cup TitledFiles

(* Words, one of which stands in the texts and in the excerpts only as the *)
(* beginning of another.                                                   *)
FewQueries == {{}, {<<"a1">>}, {<<"a1">>, <<"b1">>}}
FewClaims ==
  {{}, {<<"c1", "c2">>}, {<<"a1">>, <<"b1">>, <<"c1", "c2", "c3">>, <<"b1", "b2", "b3", "b4">>}}

FewCharacters ==
  LET Pages == UNION {ToSet(file) : file \in AllFiles}
  IN  {Space} \cup UNION {ToSet(p.title) : p \in Pages}
        \cup UNION {ToSet(sentence) : sentence \in UNION {ToSet(p.units) : p \in Pages}}
================================================================================
