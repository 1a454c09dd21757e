------------------------- MODULE QuestionSelection -------------------------
(***************************************************************************)
(* How a question is found: QuestionSelectionService.select_next_question  *)
(* (src/app/question/selection), the retrieval below it (Redis cache,      *)
(* circuit breaker, Qdrant, the static pool in PostgreSQL) and generation  *)
(* by the LLM with its generic questions.  Selections for different        *)
(* submissions run at the same time and share breaker and cache; a step is *)
(* one call of another service and what is done with its answer.           *)
(***************************************************************************)
EXTENDS CircuitBreaker, FiniteSets, Sequences, FiniteSetsExt

CONSTANTS Submissions, Questions,
          Indexed,      \* the questions in Qdrant
          Static,       \* the active questions in PostgreSQL
          Embedded,     \* the questions whose embedding Qdrant returns
          Difficulty,   \* [Questions -> 1 .. 3]: easy, medium, hard
          Similarity,   \* [Questions -> [Questions -> percent]]
          Relevant,     \* [Submissions -> questions near the resume]
          Profile,      \* [Submissions -> candidate, in the cache key]
          Strategy,     \* [Submissions -> selection_strategy of the section]
          Start,        \* first difficulty of the section
          Count,        \* [Submissions -> question_count of the section]
          TopK,         \* [1 .. 6 -> top_k of that search]
          Scores,       \* scores an answer may have got, in percent
          MaxRetries,   \* attempts of the LLM
          None

ThresholdUp == 80
ThresholdDown == 50
Similar == 85           \* similarity_threshold_similar, in percent
RelaxedSimilar == 90    \* relaxed_similarity_threshold
Levels == 1 .. 3        \* easy, medium, hard

ASSUME SelectionAssumption ==
    /\ Indexed \cup Static \cup Embedded \subseteq Questions
    /\ IsFiniteSet(Questions)
    /\ Difficulty \in [Questions -> Levels]
    /\ Similarity \in [Questions -> [Questions -> Nat]]
    /\ Relevant \in [Submissions -> SUBSET Questions]
    /\ Start \in Levels /\ Count \in [Submissions -> Nat]
    /\ TopK \in [1 .. 6 -> Nat \ {0}]
    /\ Scores \subseteq Nat /\ MaxRetries \in Nat \ {0}
    /\ None \notin Questions \cup Scores \cup Levels

VARIABLES
    breaker,    \* the circuit breaker
    up,         \* whether Qdrant answers
    cache,      \* [<<profile, difficulty>> -> cached candidates or None]
    asked,      \* [Submissions -> exchange history of the section]
    sel         \* [Submissions -> the selection in progress]

vars == <<breaker, up, cache, asked, sel>>

-----------------------------------------------------------------------------
(* History, adaptation and repetition                                      *)

AskedIds(s) == {asked[s][i].id : i \in DOMAIN asked[s]} \ {None}

(* adapt_difficulty with a maximal jump of one level.                      *)
Adapted(previous, score) ==
    CASE score >= ThresholdUp -> IF previous = 3 THEN 3 ELSE previous + 1
      [] score < ThresholdDown -> IF previous = 1 THEN 1 ELSE previous - 1
      [] OTHER -> previous

(* _determine_difficulty: without a score, or without adaptation, the      *)
(* first difficulty of the section.                                        *)
Target(s, score) ==
    IF Strategy[s] = "adaptive" /\ asked[s] # <<>> /\ score # None
    THEN Adapted(asked[s][Len(asked[s])].difficulty, score)
    ELSE Start

(* Mutation: a question is known again only by its embedding.              *)
NoExactMatch(s, q) == FALSE

IsExactMatch(s, q) == q \in AskedIds(s)

(* is_acceptable_candidate: the questions before it that have embeddings.  *)
TooSimilar(s, q, threshold) ==
    \E a \in AskedIds(s) \cap Embedded : Similarity[q][a] >= threshold

(* check_repetition; an embedding that is not known is not compared.       *)
Repetition(s, q, known, threshold) ==
    \/ IsExactMatch(s, q)
    \/ known /\ TooSimilar(s, q, threshold)

-----------------------------------------------------------------------------
(* The stages: the search asked for, and the fallbacks in their order      *)

Stages == <<"primary", "easy", "medium", "hard", "relaxed_topic",
            "relaxed_similarity", "llm_generation", "generic_fallback">>
Searches == 1 .. 6

(* The difficulty a stage searches for, None when it takes any.            *)
Wanted(s) ==
    LET n == sel[s].stage
    IN  CASE n = 1 -> sel[s].target
          [] n \in 2 .. 4 -> n - 1
          [] OTHER -> None

Threshold(s) ==
    IF Stages[sel[s].stage] = "relaxed_similarity" THEN RelaxedSimilar
    ELSE Similar

Semantic(s) == sel[s].stage = 1 /\ Strategy[s] = "semantic_retrieval"

OfDifficulty(S, d) == {q \in S : d \in {None, Difficulty[q]}}

(* At most top_k of the matches, whichever the store returns first.        *)
Limited(s, S) ==
    LET k == TopK[sel[s].stage]
    IN  IF Cardinality(S) <= k THEN {S} ELSE kSubset(k, S)

(* search_questions and scroll_questions_by_filter.                        *)
QdrantMatches(s) ==
    LET near == IF Semantic(s) THEN Relevant[s] ELSE Questions
    IN  (OfDifficulty(Indexed, Wanted(s)) \cap near) \ AskedIds(s)

(* get_random, asked again without the difficulty when it finds nothing.   *)
StaticMatches(s) ==
    LET strict == OfDifficulty(Static, Wanted(s)) \ AskedIds(s)
    IN  IF strict # {} THEN strict ELSE Static \ AskedIds(s)

CacheKey(s) == <<Profile[s], Wanted(s)>>

-----------------------------------------------------------------------------
(* The course of a selection                                               *)

Idle == [at |-> "idle", stage |-> 1, target |-> Start, left |-> {},
         found |-> None, tries |-> 0, blind |-> FALSE]

At(s, p) == sel[s].at = p
Goto(s, p) == sel' = [sel EXCEPT ![s].at = p]

Answered(s, id, difficulty) ==
    /\ asked' = [asked EXCEPT ![s] =
                    Append(@, [id |-> id, difficulty |-> difficulty])]
    /\ sel' = [sel EXCEPT ![s] = Idle]

Candidates(s, S) ==
    sel' = [sel EXCEPT ![s].at = "filter", ![s].left = S, ![s].found = None]

(* Mutation: a stage that finds nothing is tried again.                    *)
SameStage(s) == sel' = [sel EXCEPT ![s].at = "search"]

(* _fallback_selection with the next attempt.                              *)
NextStage(s) ==
    LET n == sel[s].stage + 1
    IN  sel' = [sel EXCEPT ![s].stage = IF n <= Len(Stages) THEN n ELSE @,
                           ![s].tries = 0,
                           ![s].at = IF n \in Searches THEN "search"
                                     ELSE IF n <= Len(Stages) THEN "generate"
                                     ELSE "failed"]

(* select_next_question, unless the section is complete.                   *)
Begin(s) ==
    /\ At(s, "idle")
    /\ Len(asked[s]) < Count[s]
    /\ \E score \in Scores \cup {None} :
          sel' = [sel EXCEPT ![s] = [Idle EXCEPT !.at = "search",
                                                 !.target = Target(s, score)]]
    /\ UNCHANGED <<breaker, up, cache, asked>>

(* Only the semantic search looks into the cache; what it finds there was  *)
(* stored without regard to the questions asked since.                     *)
CacheHit(s) ==
    /\ At(s, "search") /\ Semantic(s)
    /\ cache[CacheKey(s)] # None
    /\ Candidates(s, cache[CacheKey(s)])
    /\ UNCHANGED <<breaker, up, cache, asked>>

(* A search goes by the breaker; a cache that fails counts as a miss.      *)
Gate(s) ==
    /\ At(s, "search")
    /\ breaker' = Probed(breaker)
    /\ Goto(s, IF IsOpen(breaker) THEN "static" ELSE "call")
    /\ UNCHANGED <<up, cache, asked>>

Found(s) ==
    /\ At(s, "call") /\ up
    /\ breaker' = RecordSuccess(breaker)
    /\ \E S \in Limited(s, QdrantMatches(s)) :
          /\ Candidates(s, S)
          /\ \/ Semantic(s) /\ cache' = [cache EXCEPT ![CacheKey(s)] = S]
             \/ UNCHANGED cache
    /\ UNCHANGED <<up, asked>>

(* Mutation: a search that fails is taken for one that finds nothing.      *)
SearchFailsEmpty(s) ==
    /\ At(s, "call") /\ ~up
    /\ breaker' = RecordFailure(breaker)
    /\ Candidates(s, {})
    /\ UNCHANGED <<up, cache, asked>>

SearchFails(s) ==
    /\ At(s, "call") /\ ~up
    /\ breaker' = RecordFailure(breaker)
    /\ Goto(s, "static")
    /\ UNCHANGED <<up, cache, asked>>

StaticFallback(s) ==
    /\ At(s, "static")
    /\ \E S \in Limited(s, StaticMatches(s)) : Candidates(s, S)
    /\ UNCHANGED <<breaker, up, cache, asked>>

StaticFails(s) ==
    /\ At(s, "static")
    /\ sel' = [sel EXCEPT ![s].at = "filter", ![s].left = {},
                          ![s].found = None,
                          ![s].blind = Stages[sel[s].stage] = "relaxed_similarity"]
    /\ UNCHANGED <<breaker, up, cache, asked>>

(* Each candidate is judged with its embedding, if Qdrant gives it; the    *)
(* first that is no repetition is the one.                                 *)
Judge(s, q, known) ==
    sel' = [sel EXCEPT
        ![s].left = @ \ {q},
        ![s].found = IF @ = None /\ ~Repetition(s, q, known, Threshold(s))
                     THEN q ELSE @]

(* A missing embedding is neither a success nor a failure; nor is a search *)
(* that fails inside the repository, but a client that is not there is.    *)
JudgeNext(s, q) ==
    /\ At(s, "filter") /\ q \in sel[s].left
    /\ \/ /\ up /\ ~IsOpen(breaker) /\ q \in Embedded
          /\ breaker' = RecordSuccess(Probed(breaker))
          /\ Judge(s, q, TRUE)
       \/ /\ IsOpen(breaker) \/ ~up \/ q \notin Embedded
          /\ breaker' = Probed(breaker)
          /\ Judge(s, q, FALSE)
       \/ /\ ~up /\ ~IsOpen(breaker)
          /\ breaker' = RecordFailure(Probed(breaker))
          /\ Judge(s, q, FALSE)
    /\ UNCHANGED <<up, cache, asked>>

Select(s) ==
    LET q == sel[s].found IN
    /\ At(s, "filter") /\ sel[s].left = {}
    /\ q # None
    /\ Answered(s, q, Difficulty[q])
    /\ UNCHANGED <<breaker, up, cache>>

Fallback(s) ==
    /\ At(s, "filter") /\ sel[s].left = {}
    /\ sel[s].found = None
    /\ NextStage(s)
    /\ UNCHANGED <<breaker, up, cache, asked>>

-----------------------------------------------------------------------------
(* Generation                                                              *)

(* An answer of the LLM that is parsed and passes the validation.          *)
Generated(s) ==
    /\ At(s, "generate")
    /\ sel[s].tries < MaxRetries
    /\ Answered(s, None, sel[s].target)
    /\ UNCHANGED <<breaker, up, cache>>

(* A call that fails, has no text, cannot be parsed or is not valid; or a  *)
(* prompt that cannot be rendered, which spends all attempts.              *)
AttemptFails(s) ==
    /\ At(s, "generate")
    /\ sel[s].tries < MaxRetries
    /\ \E n \in {sel[s].tries + 1, MaxRetries} :
          sel' = [sel EXCEPT ![s].tries = n]
    /\ UNCHANGED <<breaker, up, cache, asked>>

(* _try_fallback answers with a generic question, or with none; either way *)
(* the status is not SUCCESS, and the selection goes to its next stage.    *)
GenericQuestion(s) ==
    /\ At(s, "generate")
    /\ sel[s].tries = MaxRetries
    /\ NextStage(s)
    /\ UNCHANGED <<breaker, up, cache, asked>>

(* NoQuestionAvailableError reaches the caller, who may ask again.         *)
GiveUp(s) ==
    /\ At(s, "failed")
    /\ sel' = [sel EXCEPT ![s] = Idle]
    /\ UNCHANGED <<breaker, up, cache, asked>>

-----------------------------------------------------------------------------
(* Around the selections: another interview, Qdrant, Redis and the clock   *)

NextInterview(s) ==
    /\ At(s, "idle")
    /\ Len(asked[s]) = Count[s]
    /\ asked' = [asked EXCEPT ![s] = <<>>]
    /\ UNCHANGED <<breaker, up, cache, sel>>

QdrantChanges ==
    /\ up' = ~up
    /\ UNCHANGED <<breaker, cache, asked, sel>>

CacheExpires(k) ==
    /\ cache[k] # None
    /\ cache' = [cache EXCEPT ![k] = None]
    /\ UNCHANGED <<breaker, up, asked, sel>>

BreakerTimeout ==
    /\ breaker.state = "open" /\ ~breaker.elapsed
    /\ breaker' = [breaker EXCEPT !.elapsed = TRUE]
    /\ UNCHANGED <<up, cache, asked, sel>>

-----------------------------------------------------------------------------
Keys == {Profile[s] : s \in Submissions} \X Levels

Init ==
    /\ breaker = NewBreaker
    /\ up = TRUE
    /\ cache = [k \in Keys |-> None]
    /\ asked = [s \in Submissions |-> <<>>]
    /\ sel = [s \in Submissions |-> Idle]

Step(s) ==
    \/ Begin(s) \/ CacheHit(s) \/ Gate(s) \/ Found(s) \/ SearchFails(s)
    \/ StaticFallback(s) \/ StaticFails(s)
    \/ (\E q \in Questions : JudgeNext(s, q))
    \/ Select(s) \/ Fallback(s)
    \/ Generated(s) \/ AttemptFails(s) \/ GenericQuestion(s) \/ GiveUp(s)
    \/ NextInterview(s)

Next ==
    \/ \E s \in Submissions : Step(s)
    \/ QdrantChanges
    \/ \E k \in Keys : CacheExpires(k)
    \/ BreakerTimeout

(* A selection that has begun goes on, interviews go on asking, and time   *)
(* passes.                                                                 *)
Fairness ==
    /\ \A s \in Submissions : WF_vars(Step(s))
    /\ WF_vars(BreakerTimeout)

Spec == Init /\ [][Next]_vars /\ Fairness

-----------------------------------------------------------------------------
(* Properties                                                              *)

TypeOK ==
    /\ breaker \in Breakers
    /\ up \in BOOLEAN
    /\ cache \in [Keys -> (SUBSET Questions) \cup {None}]
    /\ \A s \in Submissions :
          /\ Len(asked[s]) <= Count[s]
          /\ \A i \in DOMAIN asked[s] :
                /\ asked[s][i].id \in Questions \cup {None}
                /\ asked[s][i].difficulty \in Levels
          /\ sel[s].stage \in DOMAIN Stages
          /\ sel[s].target \in Levels
          /\ sel[s].left \subseteq Questions
          /\ sel[s].found \in Questions \cup {None}
          /\ sel[s].tries \in 0 .. MaxRetries

(* No question is asked twice in an interview, though the cache answers    *)
(* with questions asked since it was filled, and Qdrant may be gone when   *)
(* the repetition is to be found by similarity.                            *)
NeverAskedTwice ==
    \A s \in Submissions : \A i, j \in DOMAIN asked[s] :
        i # j /\ asked[s][i].id = asked[s][j].id => asked[s][i].id = None

(* A selection fails only when every question that both stores have was    *)
(* asked, or is too similar to one that was even by the relaxed threshold, *)
(* or when the widest search of all found the database failing, or as many *)
(* candidates too similar as it returns at most: no interleaving of an     *)
(* opening breaker, a stale cache and the fallbacks passes over a question *)
(* that could be asked.                                                    *)
FailsOnlyWhenExhausted ==
    \A s \in Submissions : At(s, "failed") /\ ~sel[s].blind =>
        LET similar == {q \in (Indexed \cup Static) \cap Embedded :
                           /\ q \notin AskedIds(s)
                           /\ TooSimilar(s, q, RelaxedSimilar)}
        IN  \/ (Indexed \cap Static) \ AskedIds(s) \subseteq similar
            \/ Cardinality(similar) >= TopK[6]

(* Every selection comes to an end, whatever fails on the way.             *)
SelectionsEnd == \A s \in Submissions : ~At(s, "idle") ~> At(s, "idle")

(* Once Qdrant is back for good, and interviews go on, the breaker does    *)
(* not stay open: failures of calls begun before cannot keep it open.      *)
BreakerRecovers == <>[]up => <>[](breaker.state = "closed")

=============================================================================
