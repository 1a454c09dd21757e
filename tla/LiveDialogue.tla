---------------------------- MODULE LiveDialogue ----------------------------
(***************************************************************************)
(* The conversation of one submission over the WebSocket: what a client    *)
(* may send (realtime/contracts/events.py), how each event is handled      *)
(* (_dispatch_event, RealtimeEventHandler, ExchangeCoordinator) and what   *)
(* it is told.  A socket is served by a process of its own, so the         *)
(* handlers of two sockets interleave; each event has a fresh database     *)
(* session, committed before the reply is sent.  The audio and coding      *)
(* completion handlers reach the same coordinator without a socket.        *)
(*                                                                         *)
(* A handler has up to three steps: it reads the submission and decides,   *)
(* it records the exchange and commits (ExchangeCreation has the steps of  *)
(* that transaction), it sends the reply.  An error is rolled back and     *)
(* answered with an error_event; nothing else of it is left.               *)
(***************************************************************************)
EXTENDS FrozenTemplate

CONSTANTS
    Socket,         \* sockets of the candidate, one per server process
    Signal,         \* completion signals of the audio and coding modules
    Templates,      \* templates a practice session may be started from
    Problems,       \* ids of the coding problems
    MaxEvents,      \* events the candidate sends (bound)
    MaxDrops        \* connections lost while an event is handled (bound)

Questions == Topical \cup Behavioral \cup Technical \cup Presets
Actor == Socket \cup Signal

ASSUME LiveDialogueAssumption ==
    /\ Questions \subseteq Nat \ {0} /\ Problems \subseteq Nat \ {0}
    /\ Socket \cap Signal = {}
    /\ MaxEvents \in Nat /\ MaxDrops \in Nat

VARIABLES
    frozen,         \* template_structure_snapshot
    row,            \* status and current_exchange_sequence of the submission
    exchanges,      \* its rows of interview_exchanges, by sequence_order
    pc,             \* where each actor's handler is
    event,          \* the answer it is about to record
    reply,          \* the server event it is about to send
    told,           \* server events the client of a socket has received
    sent,           \* events the candidate has sent
    dropped         \* connections lost so far

liveVars == <<frozen, row, exchanges, pc, event, reply, told, sent, dropped>>

None == [type |-> "none"]

Finished == {"completed", "expired", "reviewed"}

-----------------------------------------------------------------------------
(* What the clients send.                                                  *)

\* parse_client_event: exchange_id is any integer; a text may be empty, code
\* may not.
AnswerEvents ==
    [type : {"submit_answer"}, n : 0..(frozen.total + 1), empty : BOOLEAN]
        \cup [type : {"submit_code"}, n : 0..(frozen.total + 1), empty : {FALSE}]

SectionOf(n) == frozen.sections[SectionAt(frozen, n - 1)].name

\* Code is completed for the coding sections, audio for the others; neither is
\* empty.
Signals ==
    {e \in [type : {"audio_completed", "code_completed"}, n : 1..frozen.total,
            empty : {FALSE}] :
        (e.type = "code_completed") <=> (SectionOf(e.n) = "coding")}

\* An idle socket takes the next event of its client.
Receives(s) ==
    /\ pc[s] = "idle"
    /\ sent < MaxEvents
    /\ sent' = sent + 1

-----------------------------------------------------------------------------
(* The replies.                                                            *)

\* The transaction has ended and the reply is next.
Reply(a, r) ==
    /\ reply' = [reply EXCEPT ![a] = r]
    /\ pc' = [pc EXCEPT ![a] = "send"]

InterviewCompleted(reason) ==
    [type |-> "interview_completed", reason |-> reason,
     exchanges |-> Len(exchanges)]

Forget(a, then) ==
    /\ pc' = [pc EXCEPT ![a] = then]
    /\ event' = [event EXCEPT ![a] = None]
    /\ reply' = [reply EXCEPT ![a] = None]

\* manager.send_event, in the process of the socket.
Send(a) ==
    /\ pc[a] = "send"
    /\ told' = IF a \in Socket THEN [told EXCEPT ![a] = @ \cup {reply[a]}]
               ELSE told
    /\ Forget(a, IF a \in Socket THEN "idle" ELSE "done")
    /\ UNCHANGED <<frozen, row, exchanges, sent, dropped>>

\* The connection or its process is lost: what is not committed is undone, what
\* is not sent is never told.  The client connects again.
Drop(s) ==
    /\ pc[s] # "idle"
    /\ dropped < MaxDrops
    /\ dropped' = dropped + 1
    /\ Forget(s, "idle")
    /\ UNCHANGED <<frozen, row, exchanges, told, sent>>

-----------------------------------------------------------------------------
(* join_session and request_next_question.                                 *)

\* A reviewed submission is announced as expired.
JoinReply ==
    IF row.status \in Finished
    THEN InterviewCompleted(IF row.status = "completed" THEN "submitted"
                            ELSE "expired")
    ELSE [type |-> "session_joined", current_sequence |-> row.seq]

JoinSession(s) ==
    /\ Receives(s)
    /\ row.status \in Finished \cup {"in_progress"}
    /\ Reply(s, JoinReply)
    /\ UNCHANGED <<frozen, row, exchanges, event, told, dropped>>

CompletionReason(status) ==
    CASE status = "completed" -> "submitted"
      [] status \in {"expired", "reviewed"} -> status
      [] OTHER -> "all_questions_answered"

\* Nothing is left to ask, or the interview has ended.
NoQuestionLeft(s) ==
    /\ Receives(s)
    /\ \/ row.status \in Finished
       \/ row.status = "in_progress" /\ row.seq >= frozen.total
    /\ Reply(s, InterviewCompleted(CompletionReason(row.status)))
    /\ UNCHANGED <<frozen, row, exchanges, event, told, dropped>>

\* _load_question_content: a section named "coding" is read from the coding
\* problems, any other from the questions.  Nothing if the row is missing.
ContentOf(q) ==
    IF q.section = "coding"
    THEN {[table |-> "coding_problems", id |-> i] :
             i \in {q.question} \cap Problems}
    ELSE {[table |-> "questions", id |-> q.question]}

\* QuestionPayloadEvent: exchange_id is the sequence order.
QuestionPayload(q, content) ==
    [type |-> "question_payload", n |-> q.sequence, final |-> q.final,
     id |-> content.id]

\* get_next_question: the question after the current one, with its content.
RequestNextQuestion(s) ==
    /\ Receives(s)
    /\ row.status = "in_progress"
    /\ \E q \in ResolveNextQuestion(frozen, row.seq) :
          \E content \in ContentOf(q) : Reply(s, QuestionPayload(q, content))
    /\ UNCHANGED <<frozen, row, exchanges, event, told, dropped>>

-----------------------------------------------------------------------------
(* submit_answer, submit_code and the completion signals.                  *)

IsCode(e) == e.type \in {"submit_code", "code_completed"}

\* Response modality of the exchange.
KindOf(e) ==
    IF IsCode(e) THEN "coding"
    ELSE IF e.type = "submit_answer" THEN "text" ELSE "audio"

\* The question of an answer, as _resolve_question_at_sequence finds it from the
\* exchange_id alone.
QuestionOf(e) ==
    IF e.n < 1 THEN {} ELSE ResolveNextQuestion(frozen, e.n - 1)

\* Past the end it is a ValidationError; before the first question a
\* NextQuestionResult cannot be built.
Unresolvable(e) == QuestionOf(e) = {}

ContentNotFound(e) == \E q \in QuestionOf(e) : ContentOf(q) = {}

InterviewComplete == row.seq + 1 > frozen.total

SequenceMismatch(e) == e.n # row.seq + 1

\* An exchange of code needs a coding problem, any other a question.
NoReference(e) ==
    /\ e.type = "submit_code"
    /\ \A q \in QuestionOf(e) : \A c \in ContentOf(q) :
          c.table # "coding_problems"

\* validate_response_completeness and the signals' own constraints.
IncompleteResponse(e) == e.empty

\* The first check that fails; "none" lets the answer through.
ErrorCode(e) ==
    CASE row.status # "in_progress" -> "INTERVIEW_NOT_ACTIVE"
      [] Unresolvable(e) ->
            IF e.n < 1 THEN "SERVER_ERROR" ELSE "VALIDATION_ERROR"
      [] ContentNotFound(e) -> "NOT_FOUND"
      [] IncompleteResponse(e) -> "SERVER_ERROR"
      [] InterviewComplete -> "INTERVIEW_COMPLETE"
      [] SequenceMismatch(e) -> "SEQUENCE_MISMATCH"
      [] NoReference(e) -> "SERVER_ERROR"
      [] OTHER -> "none"

\* handle_submit_answer and handle_submit_code up to the transaction.
SubmitAnswer(s) ==
    /\ Receives(s)
    /\ \E e \in AnswerEvents :
          /\ ErrorCode(e) = "none"
          /\ event' = [event EXCEPT ![s] = e]
    /\ pc' = [pc EXCEPT ![s] = "create"]
    /\ UNCHANGED <<frozen, row, exchanges, reply, told, dropped>>

\* A completion handler takes a signal; its caller brings the question's content.
Completed(g, type) ==
    /\ pc[g] = "idle"
    /\ \E e \in Signals :
          /\ e.type = type
          /\ ErrorCode(e) = "none"
          /\ event' = [event EXCEPT ![g] = e]
    /\ pc' = [pc EXCEPT ![g] = "create"]
    /\ UNCHANGED <<frozen, row, exchanges, reply, told, sent, dropped>>

\* AudioCompletionHandler.handle
AudioCompleted(g) == Completed(g, "audio_completed")

\* CodingCompletionHandler.handle
CodeCompleted(g) == Completed(g, "code_completed")

\* An event that is refused, or a question whose content is missing.
RefuseEvent(s) ==
    /\ Receives(s)
    /\ \/ \E e \in AnswerEvents : ErrorCode(e) # "none"
       \/ row.status = "cancelled"
       \/ \E q \in ResolveNextQuestion(frozen, row.seq) : ContentOf(q) = {}
    /\ UNCHANGED <<frozen, row, exchanges, pc, event, reply, told, dropped>>

\* ExchangeCreationData: code is filed under its coding problem, any other
\* answer under the question.
ExchangeOf(a) ==
    LET e == event[a]
        q == CHOOSE x \in QuestionOf(e) : TRUE IN
    [question |-> IF IsCode(e) THEN 0 ELSE q.question,
     problem |-> IF IsCode(e) THEN q.question ELSE 0,
     section |-> q.section,
     kind |-> KindOf(e),
     by |-> a]

\* update_progress: the sequence only advances and the last answer completes
\* the submission if it is still in progress.
Progressed(n) ==
    [status |-> IF n >= frozen.total /\ row.status = "in_progress"
                THEN "completed" ELSE row.status,
     seq |-> IF row.seq < n THEN n ELSE row.seq]

AcceptedReply(e) ==
    IF IsCode(e)
    THEN [type |-> "code_submission_accepted", n |-> e.n]
    ELSE [type |-> "answer_accepted", n |-> e.n,
          next |-> IF e.n < frozen.total THEN e.n + 1 ELSE 0]

\* Mutation: the reply is made before the commit, which may still fail.
RecordExchangeOrNot(a) ==
    /\ pc[a] = "create"
    /\ \/ /\ row' = Progressed(event[a].n)
          /\ exchanges' = IF event[a].n \in DOMAIN exchanges THEN exchanges
                          ELSE Append(exchanges, ExchangeOf(a))
       \/ UNCHANGED <<row, exchanges>>
    /\ Reply(a, AcceptedReply(event[a]))
    /\ UNCHANGED <<frozen, event, told, sent, dropped>>

\* _create_exchange_with_progress and the commit.  An exchange that another
\* handler has created meanwhile is returned as it is, and the answer accepted
\* all the same.  The status is the one the handler read first.
RecordExchange(a) ==
    /\ pc[a] = "create"
    /\ event[a].n \in DOMAIN exchanges \cup {Len(exchanges) + 1}
    /\ exchanges' = IF event[a].n \in DOMAIN exchanges THEN exchanges
                    ELSE Append(exchanges, ExchangeOf(a))
    /\ row' = Progressed(event[a].n)
    /\ Reply(a, AcceptedReply(event[a]))
    /\ UNCHANGED <<frozen, event, told, sent, dropped>>

-----------------------------------------------------------------------------
(* GET /exchanges and /progress.                                           *)

ExchangeItem(n) ==
    [sequence_order |-> n, question_type |-> exchanges[n].kind,
     section_name |-> exchanges[n].section]

\* The exchanges in order, of one section if it is named.
ListExchanges(sections) ==
    SelectSeq([n \in DOMAIN exchanges |-> ExchangeItem(n)],
              LAMBDA item : item.section_name \in sections)

GetProgress == GetSectionProgress(frozen, exchanges)

-----------------------------------------------------------------------------
\* The session API and the expiry worker end the submission; an admin reviews.
EndSubmission ==
    /\ \/ /\ row.status = "in_progress"
          /\ \E status \in {"completed", "expired", "cancelled"} :
                row' = [row EXCEPT !.status = status]
       \/ /\ row.status \in {"completed", "expired"}
          /\ row' = [row EXCEPT !.status = "reviewed"]
    /\ UNCHANGED <<frozen, exchanges, pc, event, reply, told, sent, dropped>>

LiveInit ==
    /\ \E template \in Templates : frozen \in BuildPracticeSnapshot(template)
    /\ ValidateTemplateSnapshot(frozen)
    /\ row = [status |-> "in_progress", seq |-> 0]
    /\ exchanges = <<>>
    /\ pc = [a \in Actor |-> "idle"]
    /\ event = [a \in Actor |-> None]
    /\ reply = [a \in Actor |-> None]
    /\ told = [s \in Socket |-> {}]
    /\ sent = 0
    /\ dropped = 0

LiveNext ==
    \/ \E s \in Socket :
          \/ JoinSession(s) \/ NoQuestionLeft(s) \/ RequestNextQuestion(s)
          \/ SubmitAnswer(s) \/ RefuseEvent(s) \/ Drop(s)
    \/ \E g \in Signal : AudioCompleted(g) \/ CodeCompleted(g)
    \/ \E a \in Actor : RecordExchange(a) \/ Send(a)
    \/ EndSubmission

Spec == LiveInit /\ [][LiveNext]_liveVars

-----------------------------------------------------------------------------
(* Properties.                                                             *)

\* The questions of the snapshot one after the other, written independently of
\* the sequencer.
Flattened ==
    FoldLeft(LAMBDA q, section :
                 q \o [j \in DOMAIN section.ids |->
                          [id |-> section.ids[j], section |-> section.name]],
             <<>>, frozen.sections)

\* Exchange n answers the n-th question of the frozen template, whichever socket
\* or signal brought it, and so does the question a client is asked as the n-th.
ExchangeIsOfItsPosition ==
    /\ frozen.total = Len(Flattened)
    /\ \A n \in DOMAIN exchanges :
          /\ exchanges[n].section = Flattened[n].section
          /\ {exchanges[n].question, exchanges[n].problem} = {0, Flattened[n].id}
    /\ \A s \in Socket : \A r \in told[s] :
          r.type = "question_payload" => r.id = Flattened[r.n].id

\* An answer is acknowledged only when its exchange is durable, and the last one
\* only when the interview is over.
Acknowledged(r) ==
    r.type \in {"answer_accepted", "code_submission_accepted"} =>
        /\ r.n \in DOMAIN exchanges
        /\ r.n = frozen.total => row.status # "in_progress"

\* A client that joins again is not told of progress that is undone later.
Joined(r) ==
    r.type = "session_joined" => r.current_sequence <= Len(exchanges)

\* A client is asked question n only when all the questions before it are
\* answered, by whichever socket, and told that it is the last when it is.
Asked(r) ==
    r.type = "question_payload" =>
        /\ r.n <= Len(exchanges) + 1
        /\ r.final <=> r.n = frozen.total

\* A client is told that the interview is completed only when it is, and never
\* of exchanges that are not there.
Ended(r) ==
    r.type = "interview_completed" =>
        /\ row.status \in Finished
        /\ r.reason = "submitted" => row.status \in {"completed", "reviewed"}
        /\ r.exchanges <= Len(exchanges)

\* What the client of a socket is told about the submission is true and stays
\* true, whatever the other sockets, the signals and the REST API do meanwhile.
ToldIsTrue ==
    \A s \in Socket : \A r \in told[s] :
        Acknowledged(r) /\ Joined(r) /\ Asked(r) /\ Ended(r)

NoRepeats == IsInjective([n \in DOMAIN Flattened |-> Flattened[n].id])

\* The two reads of the REST API agree: the progress counts every exchange, and
\* unless the template has a question twice each section counts those that are
\* listed for it.
ReportedProgressIsTrue ==
    /\ TotalAnswered(frozen, exchanges) >= Len(exchanges)
    /\ NoRepeats =>
          \A i \in DOMAIN frozen.sections :
             GetProgress[i].answered =
                 Len(ListExchanges({frozen.sections[i].name}))
=============================================================================
