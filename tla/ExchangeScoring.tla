---------------------------- MODULE ExchangeScoring ----------------------------
(***************************************************************************)
(* ScoringService.score_exchange over one provider: the AI scorer with its *)
(* retries, what it makes of a reply, the human scorer, the last           *)
(* validation and the total.  Who commits what when is the subject of      *)
(* InterviewEvaluation; here an exchange is scored once.                   *)
(*                                                                         *)
(* A dimension is [name, key, max, weight]: key is the name without case   *)
(* and punctuation (_normalize_dimension_key), weight is in hundredths.  A *)
(* reply has a sequence of [key, score], the input of a human is one of    *)
(* [name, score].  Totals are in hundredths of a percent.                  *)
(***************************************************************************)
EXTENDS LlmProvider

CONSTANTS
    Exchanges,     \* the number of exchanges of the interview
    HumanInputs,   \* what a human may send
    MaxRetries     \* max_evaluation_retries

ASSUME ScoringAssumption == Exchanges \in Nat /\ MaxRetries \in Nat \ {0}

VARIABLES
    rubric,       \* the dimensions RubricResolver finds
    work,         \* the exchange being scored
    evaluations   \* of each exchange: the scores and the total, or how it failed

scoringVars == <<rubric, work, evaluations>>

Evaluators == {"ai", "human", "hybrid"}
NoWork     == [pc |-> "idle", exchange |-> 0, kind |-> "ai", human |-> <<>>, attempt |-> 0]
NotScored  == [state |-> "none"]
Failure(how) == [state |-> how]

At(step) == work.pc = step
Goto(step) == work' = [work EXCEPT !.pc = step]
Finish(evaluation) ==
    /\ evaluations' = [evaluations EXCEPT ![work.exchange] = evaluation]
    /\ work' = NoWork

Names(dims)  == {d.name : d \in Range(dims)}
Keys(dims)   == {d.key : d \in Range(dims)}
Named(dims, name)  == CHOOSE d \in Range(dims) : d.name = name
\* The lookup by key: of two names that normalize alike the last one stays.
Lookup(dims, key)  == dims[Max({i \in DOMAIN dims : dims[i].key = key})]

Clamp(score, dim)  == IF score < 0 THEN 0 ELSE IF score > dim.max THEN dim.max ELSE score
Score(dim, score)  == [name |-> dim.name, score |-> score]

-----------------------------------------------------------------------------
(* AIScorer._validate_response.                                            *)

\* The first score of each dimension that is named.
Matched(reply, dims)   == Firsts(SelectSeq(reply, LAMBDA x : x.key \in Keys(dims)), LAMBDA x : x.key)
Unmatched(reply, dims) == SelectSeq(reply, LAMBDA x : x.key \notin Keys(dims))

\* Scores under unknown names go to the dimensions that are missing, in order.
Positional(reply, dims) ==
    LET found   == {x.key : x \in Range(Matched(reply, dims))}
        missing == SelectSeq(dims, LAMBDA d : d.key \notin found)
        rest    == Unmatched(reply, dims)
    IN  [i \in 1..Min({Len(missing), Len(rest)}) |->
            LET d == Lookup(dims, missing[i].key) IN Score(d, Clamp(rest[i].score, d))]

ValidatedScores(reply, dims) ==
    LET named == [i \in DOMAIN Matched(reply, dims) |->
                    LET x == Matched(reply, dims)[i]
                        d == Lookup(dims, x.key)
                    IN  Score(d, Clamp(x.score, d))]
        given == named \o Positional(reply, dims)
        zero  == {d \in {Lookup(dims, k) : k \in Keys(dims)} :
                    \A s \in Range(given) : s.name # d.name}
    IN  given \o SetToSeq({Score(d, 0) : d \in zero})

\* A negative score under a known name is not forgiven.
InvalidScore(reply, dims) == \E x \in Range(Matched(reply, dims)) : x.score < 0

-----------------------------------------------------------------------------
(* HumanScorer, validate_dimension_scores_against_rubric, ScoreCalculator.  *)

WithinBounds(scores, dims) ==
    \A s \in Range(scores) : 0 <= s.score /\ s.score <= Named(dims, s.name).max

\* validate_and_format: every dimension, no other, within its bounds.
HumanAccepted(input, dims) ==
    {s.name : s \in Range(input)} = Names(dims) /\ WithinBounds(input, dims)

\* Mutant: the names are compared as sets.
FitsRubricAsSet(scores, dims) ==
    {s.name : s \in Range(scores)} = Names(dims) /\ WithinBounds(scores, dims)

FitsRubric(scores, dims) ==
    /\ \A i, j \in DOMAIN scores : scores[i].name = scores[j].name => i = j
    /\ {s.name : s \in Range(scores)} = Names(dims)
    /\ WithinBounds(scores, dims)

\* A weight of 0 counts as 1.
Weight(dim) == IF dim.weight = 0 THEN 100 ELSE dim.weight

\* The weighted mean of score / max, rounded half up.
CalculateTotal(scores, dims) ==
    LET unit   == ProductSet({d.max : d \in Range(dims)})
        points == MapThenSumSet(LAMBDA s : LET d == Named(dims, s.name)
                                           IN  s.score * (unit \div d.max) * Weight(d), Range(scores))
        all    == unit * MapThenSumSet(Weight, Range(dims))
    IN  (2 * 10000 * points + all) \div (2 * all)

-----------------------------------------------------------------------------
\* The rubric is resolved first; one without dimensions cannot be used.
\* HUMAN and HYBRID need the input of a human.
ScoreExchange(x) ==
    /\ At("idle") /\ evaluations[x] = NotScored
    /\ \A y \in 1..(x - 1) : evaluations[y] # NotScored
    /\ \E kind \in Evaluators, human \in HumanInputs :
          work' = [pc |-> IF rubric = <<>> THEN "no rubric" ELSE IF kind = "human" THEN "merge" ELSE "ask",
                   exchange |-> x, kind |-> kind, attempt |-> 0,
                   human |-> IF kind = "ai" THEN <<>> ELSE human]
    /\ UNCHANGED <<rubric, evaluations, llmVars>>

RubricUnusable ==
    /\ At("no rubric")
    /\ Finish(Failure("no rubric"))
    /\ UNCHANGED <<rubric, llmVars>>

\* _call_llm, once per attempt.
CallLlm ==
    /\ At("ask") /\ work.attempt < MaxRetries
    /\ Ask(TRUE)
    /\ Goto("answer")
    /\ UNCHANGED <<rubric, evaluations>>

HangUp == call' = NoCall /\ UNCHANGED <<provider, served, changes, cache>>

\* Rate limits, retryable errors and an empty list of scores: after a delay the
\* next attempt.
RetryLater ==
    /\ At("answer") /\ Answered
    /\ IF call.answer.success THEN call.answer.content.scores = <<>> ELSE call.answer.retryable
    /\ work' = [work EXCEPT !.pc = "ask", !.attempt = @ + 1]
    /\ HangUp
    /\ UNCHANGED <<rubric, evaluations>>

RetriesUsedUp ==
    /\ At("ask") /\ work.attempt = MaxRetries
    /\ Finish(Failure("gave up"))
    /\ UNCHANGED <<rubric, llmVars>>

\* LLMModelNotFoundError, and provider errors that are not retryable.
LlmRefuses ==
    /\ At("answer") /\ Answered /\ ~call.answer.success /\ ~call.answer.retryable
    /\ Finish([state |-> "refused", why |-> call.answer.message])
    /\ HangUp
    /\ UNCHANGED rubric

LlmReplies ==
    /\ At("answer") /\ Answered /\ call.answer.success /\ call.answer.content.scores # <<>>
    /\ LET reply == call.answer.content.scores
       IN  IF InvalidScore(reply, rubric)
           THEN Finish(Failure("invalid"))
           ELSE /\ work' = [work EXCEPT !.pc = IF work.kind = "hybrid" THEN "merge" ELSE "persist",
                                        !.human = IF work.kind = "hybrid" THEN @
                                                  ELSE ValidatedScores(reply, rubric)]
                /\ UNCHANGED evaluations
    /\ HangUp
    /\ UNCHANGED rubric

\* HumanScorer, and _merge_scores: the human's scores replace all of the AI's.
MergeHuman ==
    /\ At("merge")
    /\ IF HumanAccepted(work.human, rubric)
       THEN Goto("persist") /\ UNCHANGED evaluations
       ELSE Finish(Failure("invalid"))
    /\ UNCHANGED <<rubric, llmVars>>

\* The last validation, the total, and the rows.
PersistEvaluation ==
    /\ At("persist")
    /\ Finish(IF FitsRubric(work.human, rubric)
              THEN [state |-> "scored", scores |-> work.human,
                    total |-> CalculateTotal(work.human, rubric)]
              ELSE Failure("invalid"))
    /\ UNCHANGED <<rubric, llmVars>>

\* ResumeAnalysisService._call_llm: one text request, on a provider of its own;
\* the interview's provider is built after it.
AskText ==
    /\ At("text")
    /\ Ask(FALSE)
    /\ Goto("reading")
    /\ UNCHANGED <<rubric, evaluations>>

ReadText ==
    /\ At("reading") /\ Answered
    /\ work' = NoWork
    /\ call' = NoCall /\ cache' = Unlisted
    /\ UNCHANGED <<rubric, evaluations, provider, served, changes>>

ScoringStep ==
    \/ AskText \/ ReadText
    \/ \E x \in 1..Exchanges : ScoreExchange(x)
    \/ RubricUnusable \/ CallLlm \/ RetryLater \/ RetriesUsedUp \/ LlmRefuses
    \/ LlmReplies \/ MergeHuman \/ PersistEvaluation

ScoringInit ==
    /\ work \in {NoWork, [NoWork EXCEPT !.pc = "text"]}
    /\ evaluations = [x \in 1..Exchanges |-> NotScored]
-----------------------------------------------------------------------------
\* What is stored, whoever scored, scores every dimension of the rubric once
\* and within its bounds; the total is a percentage, full only when each score is.
StoredScoresFitRubric ==
    \A x \in 1..Exchanges : evaluations[x].state = "scored" =>
        LET e == evaluations[x]
        IN  /\ Len(e.scores) = Len(rubric)
            /\ \A d \in Range(rubric) : \E s \in Range(e.scores) :
                  s.name = d.name /\ s.score \in 0..d.max
            /\ e.total \in 0..10000
            /\ e.total = 10000 <=> \A s \in Range(e.scores) : s.score = Named(rubric, s.name).max
=============================================================================
