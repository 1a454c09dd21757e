---------------------------- MODULE VoiceQuestion ----------------------------
(***************************************************************************)
(* A question that is asked and answered by voice: each utterance is       *)
(* transcribed (audio/transcription), analysed and classified, and moves   *)
(* the question (interview/exchanges/question_state_machine.py); the       *)
(* clarifications it asks for are generated meanwhile, under the policy of *)
(* clarification_policy.py.  No route of the program connects these parts  *)
(* yet: they are called here in the order of their integration tests.      *)
(***************************************************************************)
EXTENDS SpeechAnalysis

(***************************************************************************)
(* The row of audio_analytics for one exchange                             *)
(* (src/app/audio/persistence): created once, updated until its transcript *)
(* is finalized.  Writers are transactions at READ COMMITTED, each with    *)
(* one repository; what one has flushed is its draft until it commits.     *)
(***************************************************************************)
CONSTANTS
    Writers,        \* transactions that work on the row
    MaxRevisions    \* bound: transcripts the row may have in turn

ASSUME AnalyticsAssumption == MaxRevisions \in Nat \ {0}

VARIABLES
    analytics,   \* the committed row, or NoRow
    draft,       \* the row as the transaction that holds its lock sees it
    writing      \* [Writers -> where the transaction is, whether it holds the lock]

analyticsVars == <<analytics, draft, writing>>

NoRow == [data |-> <<>>, revision |-> 0, finalized |-> FALSE]

Idle == [at |-> "idle", locks |-> FALSE]

Doing(w, place) == writing[w].at = place

\* The key or the row is nobody else's: an INSERT with the key of an open
\* transaction waits for it, and so does SELECT FOR UPDATE for its lock.
Free(w) == \A v \in Writers \ {w} : ~writing[v].locks

Sees(w) == IF writing[w].locks THEN draft ELSE analytics

Holding(w, row) ==
    /\ draft' = row
    /\ writing' = [writing EXCEPT ![w] = [at |-> "open", locks |-> TRUE]]
    /\ UNCHANGED analytics

-----------------------------------------------------------------------------
\* create_or_get: the insert, in a savepoint.
Create(w, data) ==
    /\ Doing(w, "idle") /\ Free(w) /\ analytics = NoRow
    /\ Holding(w, [data |-> data, revision |-> 1, finalized |-> FALSE])

\* The key is there: the savepoint is rolled back and the row is read.
GetExisting(w) ==
    /\ Doing(w, "idle") /\ Free(w) /\ analytics # NoRow
    /\ writing' = [writing EXCEPT ![w].at = "open"]
    /\ UNCHANGED <<analytics, draft>>

\* Mutation: the row is updated without a look at its flag.
UpdateAnyRow(w) ==
    /\ Doing(w, "open") /\ Free(w) /\ Sees(w).revision < MaxRevisions
    /\ Holding(w, [Sees(w) EXCEPT !.revision = @ + 1])

\* update: SELECT FOR UPDATE, then the fields that are given.
Update(w) ==
    /\ Doing(w, "open") /\ Free(w) /\ ~Sees(w).finalized /\ Sees(w).revision < MaxRevisions
    /\ Holding(w, [Sees(w) EXCEPT !.revision = @ + 1])

\* finalize; of a row that is final it is no more than its lock.
Finalize(w) ==
    /\ Doing(w, "open") /\ Free(w)
    /\ Holding(w, [Sees(w) EXCEPT !.finalized = TRUE])

CommitRow(w) ==
    /\ Doing(w, "open")
    /\ analytics' = Sees(w)
    /\ draft' = IF writing[w].locks THEN NoRow ELSE draft
    /\ writing' = [writing EXCEPT ![w] = Idle]

\* ImmutabilityError of an update, or any other failure of the caller.
RollbackRow(w) ==
    /\ Doing(w, "open")
    /\ draft' = IF writing[w].locks THEN NoRow ELSE draft
    /\ writing' = [writing EXCEPT ![w] = Idle]
    /\ UNCHANGED analytics

WriterStep(w) ==
    GetExisting(w) \/ Update(w) \/ Finalize(w) \/ CommitRow(w) \/ RollbackRow(w)

AnalyticsInit ==
    /\ analytics = NoRow /\ draft = NoRow
    /\ writing = [w \in Writers |-> Idle]

-----------------------------------------------------------------------------
(* The question and its utterances.                                        *)
CONSTANTS
    Utterances,      \* what the candidate may say
    Replies,         \* clarifications the LLM may generate: [words, analogy, hint]
    Chain,           \* providers of transcription, in order: <<[name, key]>>
    MaxAttempts,     \* max_retries of each of them
    MaxUtterances    \* bound: utterances of a question

ASSUME VoiceAssumption ==
    MaxAttempts \in Nat \ {0} /\ MaxUtterances \in Nat /\ Chain # <<>>

\* A phrase begins at one of the words; VADER's compound score is in [-1, 1].
ASSUME UtteranceAssumption ==
    \A u \in Utterances :
        /\ u.words \in Seq({"word", "filler", "like verb", "aside"})
        /\ u.phrases \subseteq 0..(Len(u.words) - 1)
        /\ u.tone \in (-100)..100

ASSUME ReplyAssumption ==
    \A r \in Replies : r.words \in Nat /\ r.analogy \in BOOLEAN /\ r.hint \in BOOLEAN

VARIABLES
    question,   \* the QuestionStateMachine
    policy,     \* the ClarificationPolicy
    asked,      \* the number of clarifications being generated
    voice,      \* the utterance under way
    answer,     \* the utterance that was submitted and its confidence, or NoAnswerYet
    exchange    \* the exchange that was stored, or NoExchange

voiceVars == <<question, policy, asked, voice, answer, exchange>>
spokenVars == <<voiceVars, analyticsVars>>

MaxClarifications == 3
MaxWords == 120

NoAnswerYet == <<>>
NoExchange == [answer |-> NoAnswerYet]
Silence == [at |-> "silence", heard |-> <<>>, provider |-> 0, attempt |-> 0, confidence |-> 0]

NewQuestion == [state |-> "ASKED", count |-> 0, exceeded |-> FALSE, locked |-> FALSE,
                intents |-> 0, last |-> "none"]
NewPolicy   == [count |-> 0, analogy |-> FALSE, hint |-> FALSE, log |-> <<>>]

Hears(place) == voice.at = place

-----------------------------------------------------------------------------
(* QuestionStateMachine.                                                   *)

Transitions ==
    { <<"ASKED", "WAITING_INPUT">>,
      <<"WAITING_INPUT", "CLARIFICATION_REQUESTED">>, <<"WAITING_INPUT", "ANSWER_SUBMITTED">>,
      <<"CLARIFICATION_REQUESTED", "WAITING_INPUT">>, <<"CLARIFICATION_REQUESTED", "ANSWER_SUBMITTED">>,
      <<"ANSWER_SUBMITTED", "POST_ANSWER_WINDOW">>, <<"ANSWER_SUBMITTED", "EVALUATED">>,
      <<"POST_ANSWER_WINDOW", "EVALUATED">>, <<"EVALUATED", "NEXT_QUESTION">> }

\* transition_to: an exception leaves the machine as q is.
TransitionTo(q, target) ==
    IF <<q.state, target>> \in Transitions
    THEN [q EXCEPT !.state = target, !.locked = @ \/ target = "ANSWER_SUBMITTED"]
    ELSE q

\* request_clarification: the limit or the count is written first.
RequestClarification(q) ==
    IF q.count >= MaxClarifications
    THEN TransitionTo([q EXCEPT !.exceeded = TRUE], "ANSWER_SUBMITTED")
    ELSE TransitionTo([q EXCEPT !.count = @ + 1], "CLARIFICATION_REQUESTED")

Granted(q) ==
    q.count < MaxClarifications /\ <<q.state, "CLARIFICATION_REQUESTED">> \in Transitions

Moves(target) ==
    /\ <<question.state, target>> \in Transitions
    /\ question' = TransitionTo(question, target)

-----------------------------------------------------------------------------
(* ClarificationPolicy.                                                    *)

Violates(p, r) == r.words > MaxWords \/ (r.analogy /\ p.analogy) \/ r.hint

ValidateResponse(p, r) ==
    [count   |-> p.count + 1,
     analogy |-> p.analogy \/ r.analogy,
     hint    |-> p.hint \/ r.hint,
     log     |-> Append(p.log, [number |-> p.count + 1, reply |-> r, violates |-> Violates(p, r)])]

\* The LLM has generated the clarification that was asked for: it is
\* validated, and the question waits again, unless it was answered meanwhile.
Clarify(r) ==
    /\ asked > 0
    /\ policy' = ValidateResponse(policy, r)
    /\ question' = TransitionTo(question, "WAITING_INPUT")
    /\ asked' = asked - 1
    /\ UNCHANGED <<voice, answer, exchange, analyticsVars>>

-----------------------------------------------------------------------------
(* TranscriptionService.transcribe_with_fallback.                          *)

Listening == question.state \notin {"ASKED", "EVALUATED", "NEXT_QUESTION"}

Speak(u) ==
    /\ Hears("silence") /\ Listening /\ question.intents < MaxUtterances
    /\ voice' = [Silence EXCEPT !.at = "provider", !.heard = u, !.provider = 1]
    /\ UNCHANGED <<question, policy, asked, answer, exchange, analyticsVars>>

\* get_provider raises for what is unknown or not implemented (azure,
\* assemblyai), and for an external provider without its key.
Usable(p) == p.name = "local" \/ (p.name \in {"whisper", "google"} /\ p.key)

\* Then the next one is tried; after the last one the utterance is lost.
GetProvider ==
    /\ Hears("provider")
    /\ voice' = IF voice.provider > Len(Chain) THEN Silence
                ELSE IF Usable(Chain[voice.provider])
                THEN [voice EXCEPT !.at = "transcribe", !.attempt = 1]
                ELSE [voice EXCEPT !.provider = @ + 1]
    /\ UNCHANGED <<question, policy, asked, answer, exchange, analyticsVars>>

\* A timeout or an exception: the next attempt, or the next provider.
AttemptFails ==
    /\ Hears("transcribe")
    /\ voice' = IF voice.attempt < MaxAttempts THEN [voice EXCEPT !.attempt = @ + 1]
                ELSE [voice EXCEPT !.at = "provider", !.provider = @ + 1]
    /\ UNCHANGED <<question, policy, asked, answer, exchange, analyticsVars>>

Transcribed ==
    /\ Hears("transcribe")
    /\ voice' = [voice EXCEPT !.at = "classify", !.provider = 0, !.attempt = 0,
          !.confidence = Confidence(Chain[voice.provider].name, voice.heard)]
    /\ UNCHANGED <<question, policy, asked, answer, exchange, analyticsVars>>

-----------------------------------------------------------------------------
(* What an utterance does to the question.                                 *)

Classified(intent) ==
    /\ Hears("classify")
    /\ UtteranceIntent(voice.heard, question.state) = intent
    /\ voice' = Silence
    /\ UNCHANGED <<exchange, analyticsVars>>

\* record_intent; of the sequence its length and its last element are kept.
Record(q, intent) == [q EXCEPT !.intents = @ + 1, !.last = intent]

\* A request that the policy and the machine grant is generated; one that is
\* refused still leaves its traces in the machine.
HearClarification ==
    /\ Classified("CLARIFICATION")
    /\ question' = RequestClarification(Record(question, "CLARIFICATION"))
    /\ asked' = asked + (IF policy.count < MaxClarifications /\ Granted(question) THEN 1 ELSE 0)
    /\ UNCHANGED <<policy, answer>>

\* submit_answer, which raises once there is an answer.
HearAnswer ==
    /\ Classified("ANSWER")
    /\ question' = TransitionTo(Record(question, "ANSWER"), "ANSWER_SUBMITTED")
    /\ answer' = IF <<question.state, "ANSWER_SUBMITTED">> \in Transitions
                 THEN <<voice.heard, voice.confidence>> ELSE answer
    /\ UNCHANGED <<policy, asked>>

\* Recorded, and without effect: noise, speech after the answer, fragments.
HearOther ==
    /\ \E intent \in Intents \ {"CLARIFICATION", "ANSWER"} :
          Classified(intent) /\ question' = Record(question, intent)
    /\ UNCHANGED <<policy, asked, answer>>

\* The question is put; after the answer the interview waits for an
\* afterthought or not; and goes on.
Proceed ==
    /\ \/ question.state = "ASKED" /\ Moves("WAITING_INPUT")
       \/ Moves("POST_ANSWER_WINDOW")
       \/ Moves("NEXT_QUESTION")
    /\ UNCHANGED <<policy, asked, voice, answer, exchange, analyticsVars>>

\* to_snapshot_dict: what is kept of the question with its exchange.
Metadata(q) == [clarification_count |-> q.count, limit_exceeded |-> q.exceeded,
                intents |-> q.intents, final_intent |-> q.last]

\* The exchange is stored; without an answer (the limit was exceeded) it is
\* an IncompleteResponseError.
Evaluate ==
    /\ Moves("EVALUATED")
    /\ exchange' = IF answer = NoAnswerYet THEN NoExchange
                   ELSE [answer |-> answer, metadata |-> Metadata(question)]
    /\ UNCHANGED <<policy, asked, voice, answer, analyticsVars>>

-----------------------------------------------------------------------------
\* What the analysis of the answer stores: AudioAnalyticsCreate.
Analysis(u, confidence) ==
    LET rate == FillerRate(u, TRUE)
        mood == Sentiment(u, rate)
        pace == SpeechRate(u.segments)
    IN  [transcript |-> u.words, confidence |-> confidence,
         speech_state |-> Completeness(u).state,
         wpm |-> pace.wpm, pauses |-> pace.pauses, longest |-> pace.longest,
         fillers |-> Cardinality(FillerPositions(u, TRUE)), filler_rate |-> rate,
         sentiment |-> mood.score, hesitation |-> mood.hesitation, frustration |-> mood.frustration,
         intent |-> AudioIntent(u, confidence, 0)]

\* The row refers to the exchange.
Analyse(w) ==
    /\ exchange # NoExchange
    /\ Create(w, Analysis(exchange.answer[1], exchange.answer[2]))
    /\ UNCHANGED voiceVars

VoiceInit ==
    /\ question = NewQuestion /\ policy = NewPolicy /\ asked = 0
    /\ voice = Silence /\ answer = NoAnswerYet /\ exchange = NoExchange
    /\ AnalyticsInit

VoiceNext ==
    \/ \E u \in Utterances : Speak(u)
    \/ GetProvider \/ AttemptFails \/ Transcribed
    \/ HearClarification \/ HearAnswer \/ HearOther \/ Proceed \/ Evaluate
    \/ \E r \in Replies : Clarify(r)
    \/ \E w \in Writers : Analyse(w) \/ (WriterStep(w) /\ UNCHANGED voiceVars)

VoiceSpec == VoiceInit /\ [][VoiceNext]_spokenVars

-----------------------------------------------------------------------------
\* However the utterances, the generation of clarifications and the answer
\* overlap, at most three are given to a question, one at a time; a question
\* that waits for one gets it, for the policy never refuses what the machine
\* grants, though each counts by itself; of those not flagged as a violation
\* one at most has an analogy, and none a hint or too many words.
ClarificationsAreFair ==
    LET log == policy.log
    IN  /\ Len(log) + asked <= question.count /\ question.count <= MaxClarifications
        /\ asked <= 1 /\ (question.state = "CLARIFICATION_REQUESTED" => asked = 1)
        /\ (question.state = "WAITING_INPUT" => asked = 0)
        /\ \A i \in DOMAIN log : ~log[i].violates =>
              /\ ~log[i].reply.hint /\ log[i].reply.words <= MaxWords
              /\ \A j \in 1..(i - 1) : ~(log[i].reply.analogy /\ log[j].reply.analogy)

\* What is stored is of the answer that locked the question: its exchange, with
\* a count of clarifications that has all that were given, and its analysis,
\* which satisfies the check constraints of the table.
StoredIsOfTheAnswer ==
    /\ exchange # NoExchange =>
          /\ question.locked /\ exchange.answer = answer
          /\ Len(policy.log) <= exchange.metadata.clarification_count
    /\ analytics # NoRow =>
          LET row == analytics.data
          IN  /\ row = Analysis(answer[1], answer[2])
              /\ row.fillers <= Len(row.transcript)
              /\ {row.confidence, row.filler_rate} \subseteq 0..100 /\ row.sentiment \in (-100)..100

\* The mean of the confidences of segments is a confidence: a fact about data.
ConfidencesAreMeans ==
    \A u \in Utterances : AggregateConfidence(u.segments) \in 0..100

\* All along, clarifications are fair and what is stored is of its answer.  A
\* question that is locked stays so, with the answer it had: a late
\* clarification or a second answer does not reopen it; and a finalized
\* transcript is never changed, whoever held an older view of its row.
SpokenAnswersAreSettled ==
    /\ [](ClarificationsAreFair /\ StoredIsOfTheAnswer)
    /\ [][/\ question.locked => question'.locked /\ answer' = answer
          /\ analytics.finalized => analytics' = analytics]_spokenVars
=============================================================================
