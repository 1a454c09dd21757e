---------------------------- MODULE SpeechAnalysis ----------------------------
(***************************************************************************)
(* What the audio module makes of one utterance (src/app/audio/analysis,   *)
(* transcription/confidence.py) and how the interview classifies it        *)
(* (interview/exchanges/intent_classifier.py): pure functions.             *)
(*                                                                         *)
(* An utterance u keeps what they look at:                                 *)
(*   words     its words: "word", "filler" (um, like, ...), "like verb",   *)
(*             "aside" (well, right, okay: a filler for completeness only) *)
(*   phrases   positions at which "you know", "i think" or "i mean" begins *)
(*   last      the number of words of its last sentence                    *)
(*   ending    part of speech of the last word, FALSE or TRUE when it is a *)
(*             verb that lacks its complement: [part, open]                *)
(*   mark      whether it ends in . ! or ?, dots whether in "..."          *)
(*   clause    [subject, verb, transitive, complement] of the parse        *)
(*   says      kinds of key words in it                                    *)
(*   tone      the compound score of VADER, in hundredths                  *)
(*   silent    it is [silence], [noise] or a single hum                    *)
(*   segments  <<[from, to, words, sure]>>, times in ms, sure in hundredths *)
(* Rates are in hundredths, words per minute in tenths.                    *)
(***************************************************************************)
EXTENDS Integers, Sequences, FiniteSets, SequencesExt

Blank(u) == u.words = <<>>

\* Round half up; the code's round() differs at exact halves only.
Rounded(a, b) == (2 * a + b) \div (2 * b)

Total(s, Of(_)) == FoldLeft(LAMBDA sum, x : sum + Of(x), 0, s)

-----------------------------------------------------------------------------
(* CompletenessClassifier.                                                 *)

CompleteClause(u) ==
    u.clause.subject /\ u.clause.verb /\ (u.clause.transitive => u.clause.complement)

FillerOnly(u) ==
    \A i \in (Len(u.words) - u.last + 1)..Len(u.words) :
        u.words[i] \in {"filler", "like verb", "aside"}

Incomplete(reason, confidence) == [state |-> "incomplete", reason |-> reason, confidence |-> confidence]

\* The decision tree over the last sentence, in the order of the code.
Completeness(u) ==
    IF Blank(u) THEN Incomplete("empty_transcript", 100)
    ELSE IF u.ending.part = "conjunction" THEN Incomplete("ends_with_conjunction", 85)
    ELSE IF u.ending.part = "preposition" THEN Incomplete("dangling_preposition", 80)
    ELSE IF u.ending.part = "verb" /\ u.ending.open THEN Incomplete("missing_complement", 75)
    ELSE IF FillerOnly(u) THEN Incomplete("filler_only", 80)
    ELSE IF u.mark
    THEN [state |-> "complete", reason |-> "none", confidence |-> IF CompleteClause(u) THEN 90 ELSE 70]
    ELSE [state |-> "continuing", reason |-> "no_punctuation", confidence |-> 60]

-----------------------------------------------------------------------------
(* FillerDetector: positions count from 0.                                 *)

\* "like" as a verb is no filler when the detector is aware of the context.
SingleFillers(u, aware) ==
    {i - 1 : i \in {j \in DOMAIN u.words :
                       u.words[j] = "filler" \/ (u.words[j] = "like verb" /\ ~aware)}}

\* A phrase and a word at the same position count once.
FillerPositions(u, aware) ==
    IF Blank(u) THEN {} ELSE SingleFillers(u, aware) \cup u.phrases

FillerRate(u, aware) ==
    IF Blank(u) THEN 0
    ELSE Min({100, Rounded(100 * Cardinality(FillerPositions(u, aware)), Len(u.words))})

-----------------------------------------------------------------------------
(* SpeechRateAnalyzer.analyze_segments, with its default thresholds; the   *)
(* gaps between segments are no speech.                                    *)

Gaps(segments) ==
    SelectSeq([i \in 1..(Len(segments) - 1) |-> segments[i + 1].from - segments[i].to],
              LAMBDA gap : gap > 0)

NoSpeech == [wpm |-> 0, speech |-> 0, pauses |-> 0, longest |-> 0]

SpeechRate(segments) ==
    IF segments = <<>> THEN NoSpeech
    ELSE LET gaps   == Gaps(segments)
             whole  == segments[Len(segments)].to - segments[1].from
             speech == Max({0, whole - Total(gaps, LAMBDA g : g)})
             words  == Total(segments, LAMBDA s : s.words)
         IN  [wpm     |-> IF speech = 0 THEN 0 ELSE Rounded(words * 600000, speech),
              speech  |-> speech,
              pauses  |-> Len(SelectSeq(gaps, LAMBDA g : g >= 1000)),
              longest |-> Max({0} \cup Range(gaps))]

\* calculate_aggregate_confidence.
AggregateConfidence(segments) ==
    IF segments = <<>> THEN 0
    ELSE Max({0, Min({100, Rounded(Total(segments, LAMBDA s : s.sure), Len(segments))})})

-----------------------------------------------------------------------------
(* The providers of transcription: how sure they say they are.             *)

Whisper(u) == IF u.segments = <<>> THEN 85 ELSE AggregateConfidence(u.segments)
GoogleSpeech(u) == AggregateConfidence(u.segments)
LocalWhisper(u) == AggregateConfidence(u.segments)

Confidence(provider, u) ==
    IF provider = "whisper" THEN Whisper(u)
    ELSE IF provider = "google" THEN GoogleSpeech(u) ELSE LocalWhisper(u)

-----------------------------------------------------------------------------
(* SentimentAnalyzer.                                                      *)

Magnitude(n) == IF n < 0 THEN -n ELSE n

Neutral == [score |-> 0, level |-> "low", hesitation |-> FALSE, frustration |-> FALSE]

Sentiment(u, fillerRate) ==
    IF Blank(u) THEN Neutral
    ELSE [score       |-> u.tone,
          level       |-> IF Magnitude(u.tone) >= 60 THEN "high"
                          ELSE IF Magnitude(u.tone) >= 30 THEN "medium" ELSE "low",
          hesitation  |-> fillerRate > 15 \/ "doubt" \in u.says,
          frustration |-> u.tone < -30]

-----------------------------------------------------------------------------
(* The two classifiers of intent.                                          *)

Intents == {"ANSWER", "CLARIFICATION", "REPEAT", "POST_ANSWER", "INVALID", "INCOMPLETE", "UNKNOWN"}

\* audio/analysis: submissions is how many answers there are already.
AudioIntent(u, confidence, submissions) ==
    IF submissions >= 1 THEN "POST_ANSWER"
    ELSE IF confidence < 70 THEN "INVALID"
    ELSE IF Blank(u) \/ u.silent THEN "INVALID"
    ELSE IF "solution" \in u.says THEN "ANSWER"
    ELSE IF "question" \in u.says THEN "CLARIFICATION"
    ELSE IF "again" \in u.says THEN "REPEAT"
    ELSE "UNKNOWN"

\* interview/exchanges: state is that of the question.
UtteranceIntent(u, state) ==
    IF Blank(u) THEN "INVALID"
    ELSE IF state = "POST_ANSWER_WINDOW" THEN "POST_ANSWER"
    ELSE IF "approach" \in u.says THEN "ANSWER"
    ELSE IF "unclear" \in u.says THEN "CLARIFICATION"
    ELSE IF "repeat" \in u.says THEN "REPEAT"
    ELSE IF Len(u.words) < 5 /\ u.dots THEN "INCOMPLETE"
    ELSE "ANSWER"
=============================================================================
