------------------------ MODULE MCQuestionSelection ------------------------
(***************************************************************************)
(* Two interviews of one candidate, one with semantic retrieval and one    *)
(* with adaptive difficulty, the first of two questions and the second of  *)
(* one, over two questions of which 2 is too similar to 1 even by the      *)
(* relaxed threshold; 3 is in no store.  The first searches return one     *)
(* candidate, the relaxed ones two.                                        *)
(***************************************************************************)
EXTENDS QuestionSelection

MCQuestions == 1 .. 3
MCPair == 1 .. 2
MCDifficulty == <<1, 1, 2>>
MCSimilarity == <<<<100, 95, 95>>, <<95, 100, 10>>, <<95, 10, 100>>>>
MCSubmissions == 1 .. 2
MCRelevant == <<{1}, {}>>
MCCount == <<2, 1>>
MCTopK == <<1, 1, 1, 1, 2, 2>>
MCProfile == <<"p", "p">>
MCStrategy == <<"semantic_retrieval", "adaptive">>
=============================================================================
