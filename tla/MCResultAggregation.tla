-------------------------- MODULE MCResultAggregation --------------------------
(***************************************************************************)
(* Two exchanges in two sections, one of them coding under its alias; or   *)
(* one question by voice.  The two have no state in common: a run is one   *)
(* of the two, and what is of the other stays as it is put at the start.   *)
(***************************************************************************)
EXTENDS ResultAggregation, VoiceQuestion

MCModels == {"flash", "flash-latest", "pro"}
MCLive == {"flash", "pro"}
MCAliases == <<"flash-latest">>
MCFamily == {"flash", "flash-latest"}

Dim(name, key, max, weight) == [name |-> name, key |-> key, max |-> max, weight |-> weight]
Says(key, score) == [key |-> key, score |-> score]
Gives(name, score) == [name |-> name, score |-> score]

MCHumanInputs == { <<Gives("depth", 9), Gives("clarity", 5)>>, <<Gives("depth", 4), Gives("depth", 5), Gives("clarity", 1)>> }
Text(form, scores) == [form |-> form, scores |-> scores]
MCContents ==
    { Text("not json", <<>>), Text("complete", <<>>),
      Text("complete", <<Says("depth", 12), Says("depth", 1), Says("other", 3)>>),
      Text("complete", <<Says("clarity", -1)>>),
      Text("complete", <<Says("c", 4), Says("other", -2)>>) }

MCSectionNames == <<"coding", "resume_analysis">>

Has(name, enabled, weight) == [name |-> name, enabled |-> enabled, weight |-> weight]
Weighs(name, weight) == [name |-> name, weight |-> weight]

\* Two dimensions and derived weights; names that normalize alike and explicit
\* weights, one of a section that is off; no rubric and only evaluation
\* dimensions; no weights at all.
MCInterviews ==
    { <<<<Dim("depth", "depth", 10, 60), Dim("clarity", "clarity", 5, 40)>>,
        [sections |-> <<Has("coding", TRUE, 3), Has("live_coding", TRUE, 5),
                        Has("resume_analysis", TRUE, 1), Has("complexity_analysis", TRUE, 2)>>,
         weights |-> <<>>, dims |-> {}], {"low"}>>,
      <<<<Dim("C++", "c", 10, 50), Dim("C#", "c", 10, 50)>>,
        [sections |-> <<Has("coding", FALSE, 3), Has("resume_analysis", TRUE, 1)>>,
         weights |-> <<Weighs("coding", 3), Weighs("resume_analysis", 2)>>, dims |-> {}], {"low"}>>,
      <<<<Dim("depth", "depth", 10, 0)>>,
        [sections |-> <<>>, weights |-> <<>>, dims |-> {"coding"}], {"high"}>>,
      <<<<>>, [sections |-> <<>>, weights |-> <<>>, dims |-> {}], {}>> }
-----------------------------------------------------------------------------
\* Utterances of every intent, with and without segments; replies that break
\* each rule of the policy.
Segment(from, to, words, sure) == [from |-> from, to |-> to, words |-> words, sure |-> sure]
Clause(subject, verb, transitive, complement) ==
    [subject |-> subject, verb |-> verb, transitive |-> transitive, complement |-> complement]
Plain == [words |-> <<>>, phrases |-> {}, last |-> 0, ending |-> [part |-> "other", open |-> FALSE],
          mark |-> FALSE, dots |-> FALSE, clause |-> Clause(FALSE, FALSE, FALSE, FALSE),
          says |-> {}, tone |-> 0, silent |-> FALSE, segments |-> <<>>]

\* "Um, so I think I like ... because"; "What do you mean?"; "like, um..."; nothing.
MCUtterances ==
    { [Plain EXCEPT !.words = <<"filler", "filler", "word", "word", "word", "like verb", "word">>,
                    !.phrases = {2}, !.last = 7, !.ending = [part |-> "conjunction", open |-> FALSE],
                    !.clause = Clause(TRUE, TRUE, FALSE, FALSE), !.tone = -40,
                    !.says = {"approach", "unclear", "doubt"},
                    !.segments = <<Segment(0, 900, 3, 60), Segment(2000, 3000, 4, 95)>>],
      [Plain EXCEPT !.words = <<"word", "word", "word", "word">>, !.last = 4, !.mark = TRUE,
                    !.says = {"unclear", "question"}],
      [Plain EXCEPT !.words = <<"filler", "filler">>, !.last = 2, !.dots = TRUE, !.mark = TRUE],
      Plain }

Reply(words, analogy, hint) == [words |-> words, analogy |-> analogy, hint |-> hint]
MCReplies == { Reply(20, TRUE, FALSE), Reply(20, FALSE, TRUE), Reply(121, FALSE, FALSE) }

MCChain == << [name |-> "azure", key |-> TRUE], [name |-> "whisper", key |-> TRUE],
              [name |-> "google", key |-> FALSE], [name |-> "local", key |-> FALSE] >>

ASSUME MCConfidences == ConfidencesAreMeans

-----------------------------------------------------------------------------
NoQuestion == [NewQuestion EXCEPT !.state = "NEXT_QUESTION"]

SpokenParked ==
    /\ question = NoQuestion /\ policy = NewPolicy /\ asked = 0
    /\ voice = Silence /\ answer = NoAnswerYet /\ exchange = NoExchange
    /\ AnalyticsInit

ScoringParked ==
    /\ provider = "groq" /\ served = {} /\ changes = 0 /\ cache = Unlisted /\ call = NoCall
    /\ rubric = <<>> /\ work = NoWork /\ evaluations = [x \in 1..Exchanges |-> NotScored]
    /\ structure = [sections |-> <<>>, weights |-> <<>>, dims |-> {}] /\ severities = {}
    /\ report = NoReport /\ results = <<>>

MCInit == \/ Init /\ SpokenParked
          \/ VoiceInit /\ ScoringParked

\* The candidate may also keep silent.
MCNext == \/ question = NoQuestion /\ Next /\ UNCHANGED spokenVars
          \/ question # NoQuestion /\ UNCHANGED vars
                /\ (VoiceNext \/ (Hears("silence") /\ UNCHANGED spokenVars))

MCSpec == MCInit /\ [][MCNext]_<<vars, spokenVars>>
=============================================================================
