--------------------------- MODULE ResultAggregation ---------------------------
(***************************************************************************)
(* AggregationService.aggregate_interview_result over the exchanges that   *)
(* ExchangeScoring has scored: the weights of the template's sections, the *)
(* section sums, the normalized score, the recommendation, the summary (a  *)
(* request to the provider, or the fallback), and the result.  Versions    *)
(* and concurrent aggregations are the subject of InterviewEvaluation.     *)
(*                                                                         *)
(* A template structure is [sections, weights, dims]: sections is a        *)
(* sequence of [name, enabled, weight], weights one of [name, weight] (the *)
(* section_weights of the scoring configuration), dims the names of its    *)
(* evaluation dimensions.  Scores are in hundredths.                       *)
(***************************************************************************)
EXTENDS ExchangeScoring, TLC

CONSTANTS
    SectionNames,   \* the section name in the metadata of each exchange
    Interviews,     \* <<rubric, structure, severities>> an interview may have
    Influence,      \* enable_proctoring_influence
    MaxResults      \* bound: how often the result is aggregated

ASSUME AggregationAssumption ==
    DOMAIN SectionNames = 1..Exchanges /\ Influence \in BOOLEAN /\ MaxResults \in Nat

VARIABLES
    structure,   \* template_structure
    severities,  \* severities of the proctoring events of the interview
    report,      \* the aggregation under way
    results      \* the results it has persisted, oldest first

reportVars == <<structure, severities, report, results>>

vars == <<llmVars, scoringVars, reportVars>>

NoReport == [pc |-> "none"]

\* _normalize_section_name, with one of its aliases.
Section(name) == IF name = "coding" THEN "live_coding" ELSE name

SectionOf(x) == Section(SectionNames[x])

-----------------------------------------------------------------------------
(* _fetch_template_weights: a function from sections to weights.           *)

\* The sections that are on, or else the evaluation dimensions.
Enabled(s) ==
    LET on == {Section(x.name) : x \in {y \in Range(s.sections) : y.enabled}}
    IN  IF on # {} THEN on ELSE {Section(n) : n \in s.dims}

\* The weights of names that are the same section: one of them counts.
WeightsOf(pairs, last) ==
    [n \in {Section(x.name) : x \in Range(pairs)} |->
        LET same == {i \in DOMAIN pairs : Section(pairs[i].name) = n}
        IN  pairs[IF last THEN Max(same) ELSE Min(same)].weight]

\* section_weights of sections that are on: the last one counts.
Explicit(s) ==
    WeightsOf(SelectSeq(s.weights, LAMBDA x : Enabled(s) = {} \/ Section(x.name) \in Enabled(s)), TRUE)

\* The sections that are on: the first one counts.
Derived(s) == WeightsOf(SelectSeq(s.sections, LAMBDA x : x.enabled), FALSE)

\* No weight at all is a TemplateWeightsNotFoundError.
TemplateWeights(s) ==
    IF s.weights # <<>> THEN Explicit(s)
    ELSE IF Derived(s) # <<>> THEN Derived(s) ELSE [n \in Enabled(s) |-> 1]

\* Mutant: what is persisted are the equal weights the log speaks of.
HealedEqual(s) ==
    IF s.weights = <<>> /\ Derived(s) # <<>>
    THEN [s EXCEPT !.weights = SetToSeq({[name |-> n, weight |-> 1] : n \in DOMAIN Derived(s)})]
    ELSE s

\* Derived weights are written into the template.
Healed(s) ==
    IF s.weights = <<>> /\ Derived(s) # <<>>
    THEN [s EXCEPT !.weights = SetToSeq({[name |-> n, weight |-> Derived(s)[n]] : n \in DOMAIN Derived(s)})]
    ELSE s

\* complexity_analysis counts only in an interview with a coding round.
Applicable(weights) ==
    IF \E x \in 1..Exchanges : SectionOf(x) = "live_coding" THEN weights
    ELSE Restrict(weights, DOMAIN weights \ {"complexity_analysis"})

-----------------------------------------------------------------------------
(* Scores.                                                                 *)

In(section)    == {x \in 1..Exchanges : SectionOf(x) = section}
Score100(x)    == evaluations[x].total
Points(section) == MapThenSumSet(Score100, In(section))

\* Mutant: a section without exchanges counts as one with a score of 0.
CountAtLeastOne(section) == Max({1, Cardinality(In(section))})

Count(section) == Cardinality(In(section))

\* Decimal.quantize.
RoundHalfEven(a, b) ==
    LET q == a \div b
        r == a % b
    IN  IF 2 * r > b \/ (2 * r = b /\ q % 2 = 1) THEN q + 1 ELSE q

Weighted(values, weights) ==
    MapThenSumSet(LAMBDA n : weights[n] * values[n], DOMAIN weights)

\* ScoreNormalizer: the weighted sum over the weighted maximum.
Normalized(weights) ==
    LET counts == [n \in DOMAIN weights |-> Count(n)]
        points == [n \in DOMAIN weights |-> Points(n)]
        most   == Weighted(counts, weights)
    IN  IF most = 0 THEN 0 ELSE Min({10000, RoundHalfEven(Weighted(points, weights), most)})

Recommendations == <<"no_hire", "review", "hire", "strong_hire">>

Recommended(score) ==
    IF score >= 8500 THEN 4 ELSE IF score >= 7000 THEN 3 ELSE IF score >= 5000 THEN 2 ELSE 1

\* ProctoringAdjuster: a high or critical risk lowers it by one.
Adjusted(level) ==
    IF Influence /\ severities \cap {"high", "critical"} # {} THEN Max({1, level - 1}) ELSE level

\* Section averages, as they are stored.
Averages(weights) ==
    [n \in DOMAIN weights |-> IF Count(n) = 0 THEN 0 ELSE Min({10000, RoundHalfEven(Points(n), Count(n))})]

\* _fallback_summary: sections from an average of 7 on are strengths, below 5
\* weaknesses, and the exchanges from 80 on, below 50.  Of exchanges two at
\* most are named.
FallbackSummary(weights) ==
    LET average(n) == IF Count(n) = 0 THEN 0 ELSE Points(n) \div Count(n)
        named(S)   == {x \in S : Cardinality({y \in S : y < x}) < 2}
    IN  [by         |-> "fallback",
         strengths  |-> {n \in DOMAIN weights : average(n) >= 700},
         weaknesses |-> {n \in DOMAIN weights : average(n) < 500},
         excelled   |-> named({x \in 1..Exchanges : Score100(x) >= 8000}),
         struggled  |-> named({x \in 1..Exchanges : Score100(x) < 5000})]

-----------------------------------------------------------------------------
\* Everything up to the summary; an exchange without a final evaluation, or no
\* weights, end it.
AggregateResult ==
    /\ At("idle") /\ report = NoReport /\ Len(results) < MaxResults
    /\ \A x \in 1..Exchanges : evaluations[x] # NotScored
    /\ LET weights == Applicable(TemplateWeights(structure))
       IN  report' = IF \E x \in 1..Exchanges : evaluations[x].state # "scored"
                     THEN [pc |-> "failed", why |-> "incomplete"]
                     ELSE IF TemplateWeights(structure) = <<>>
                     THEN [pc |-> "failed", why |-> "no weights"]
                     ELSE [pc |-> "summary", weights |-> weights,
                           score |-> Normalized(weights),
                           recommendation |-> Adjusted(Recommended(Normalized(weights)))]
    /\ UNCHANGED <<llmVars, scoringVars, structure, severities, results>>

\* SummaryGenerator.generate: a provider, or None.
AskSummary ==
    /\ report.pc = "summary" /\ call = NoCall
    /\ Ask(TRUE)
    /\ report' = [report EXCEPT !.pc = "summary asked"]
    /\ UNCHANGED <<scoringVars, structure, severities, results>>

\* _persist_result, in the transaction that has healed the template.
Persist(summary) ==
    /\ results' = Append(results, [weights |-> report.weights, score |-> report.score,
                                   averages |-> Averages(report.weights),
                                   recommendation |-> report.recommendation, summary |-> summary])
    /\ structure' = Healed(structure)
    /\ report' = NoReport

SummarizeWithoutLlm ==
    /\ report.pc = "summary" /\ call = NoCall
    /\ Persist(FallbackSummary(report.weights))
    /\ UNCHANGED <<llmVars, scoringVars, severities>>

\* Any failure of the provider or of the schema is the fallback.
ReadSummary ==
    /\ report.pc = "summary asked" /\ Answered
    /\ \/ call.answer.success /\ Persist([by |-> "ai"])
       \/ Persist(FallbackSummary(report.weights))
    /\ HangUp
    /\ UNCHANGED <<scoringVars, severities>>

ReportStep == AggregateResult \/ AskSummary \/ SummarizeWithoutLlm \/ ReadSummary

-----------------------------------------------------------------------------
Init ==
    /\ ProviderInit /\ ScoringInit
    /\ \E i \in Interviews : rubric = i[1] /\ structure = i[2] /\ severities = i[3]
    /\ report = NoReport
    /\ results = <<>>

Working == \/ ProviderStep /\ UNCHANGED <<scoringVars, reportVars>>
           \/ ScoringStep /\ UNCHANGED reportVars
           \/ ReportStep

Finished == (report.pc = "failed" \/ Len(results) = MaxResults) /\ UNCHANGED vars

Next == Working \/ (ServiceChanges /\ UNCHANGED <<scoringVars, reportVars>>) \/ Finished

Spec == Init /\ [][Next]_vars

-----------------------------------------------------------------------------
\* The score of a result lies between the lowest and the highest total of the
\* exchanges whose section has a weight, whatever sections have no exchange; so
\* do its stored averages.
NormalizedScoreIsAMean ==
    \A r \in Range(results) :
        LET counted == {x \in 1..Exchanges : SectionOf(x) \in DOMAIN r.weights
                                               /\ r.weights[SectionOf(x)] > 0}
            totals  == {Score100(x) : x \in counted}
        IN  IF counted = {} THEN r.score = 0
            ELSE Min(totals) <= r.score /\ r.score <= Max(totals)

\* Aggregating again, after the derived weights were written to the template,
\* gives the same weights, score and recommendation.
ReaggregationAgrees ==
    \A r, q \in Range(results) :
        r.weights = q.weights /\ r.score = q.score /\ r.recommendation = q.recommendation
=============================================================================
