--------------------------- MODULE ConversationProofs ---------------------------
(***************************************************************************)
(* Proofs about the conversation with a candidate, in three parts that     *)
(* have no state in common: one submission's dialogue, a question of it    *)
(* that is asked by voice, and the connections both are held over.         *)
(*                                                                         *)
(* The dialogue, for any number of sockets, signals and events and any set *)
(* of templates: what a client is told is true and stays true, and every   *)
(* exchange is the one that the sequencer gives for its position.          *)
(***************************************************************************)
EXTENDS LiveDialogue, VoiceQuestion, RealtimeConnection, FiniteSetTheorems, SequenceTheorems, TLAPS

-----------------------------------------------------------------------------
(* The inductive invariant.                                                *)

Statuses == Finished \cup {"in_progress", "cancelled"}

\* The row follows the exchanges: the sequence counts them, and with the last
\* one the interview is over.
RowFollows ==
    /\ frozen.total \in Nat \ {0}
    /\ row \in [status : Statuses, seq : Nat]
    /\ exchanges \in Seq(Range(exchanges))
    /\ row.seq = Len(exchanges)
    /\ row.seq <= frozen.total
    /\ row.seq = frozen.total => row.status # "in_progress"

\* An answer about to be recorded is for a question there is, and at most the
\* next one, for the sequence never goes back.
PendingIsNext ==
    /\ pc \in [Actor -> {"idle", "create", "send", "done"}]
    /\ event = [a \in Actor |-> event[a]]
    /\ reply = [a \in Actor |-> reply[a]]
    /\ \A a \in Actor : pc[a] = "create" =>
          event[a].n \in 1..frozen.total /\ event[a].n <= row.seq + 1

\* A server event whose numbers are numbers, and which is true.
IsTrue(r) ==
    /\ r.type \in {"answer_accepted", "code_submission_accepted",
                   "question_payload"} => r.n \in Nat \ {0}
    /\ r.type = "session_joined" => r.current_sequence \in Nat
    /\ r.type = "interview_completed" => r.exchanges \in Nat
    /\ Acknowledged(r) /\ Joined(r) /\ Asked(r) /\ Ended(r)

\* What is about to be told is true as well.
RepliesAreTrue == \A a \in Actor : pc[a] = "send" => IsTrue(reply[a])

TellsTheTruth ==
    /\ told = [s \in Socket |-> told[s]]
    /\ \A s \in Socket : \A r \in told[s] : IsTrue(r)

DialogueInv == RowFollows /\ PendingIsNext /\ RepliesAreTrue /\ TellsTheTruth

-----------------------------------------------------------------------------
(* What true events rest on is never taken back.                           *)

\* Statuses and exchanges as a step may change them.
Onward ==
    /\ frozen' = frozen
    /\ Len(exchanges') \in Nat /\ Len(exchanges) <= Len(exchanges')
    /\ DOMAIN exchanges \subseteq DOMAIN exchanges'
    /\ \/ row'.status = row.status
       \/ row.status \notin Finished
       \/ row.status \in {"completed", "expired"} /\ row'.status = "reviewed"
    /\ row.status # "in_progress" => row'.status # "in_progress"

\* A true event stays true.
LEMMA TruthStays == \A r : RowFollows /\ IsTrue(r) /\ Onward => IsTrue(r)'
<1> SUFFICES ASSUME NEW r, RowFollows, IsTrue(r), Onward PROVE IsTrue(r)'
  OBVIOUS
<1>1. Len(exchanges) \in Nat
  BY DEF RowFollows
<1>2. Acknowledged(r)'
  BY DEF IsTrue, Acknowledged, Onward
<1>3. Joined(r)'
  BY <1>1 DEF IsTrue, Joined, Onward
<1>4. Asked(r)'
  BY <1>1 DEF IsTrue, Asked, Onward
<1>5. Ended(r)'
  BY <1>1 DEF IsTrue, Ended, Onward, Finished
<1> QED BY <1>2, <1>3, <1>4, <1>5 DEF IsTrue

\* A true event stays true when nothing of the submission changes.
LEMMA TruthRests ==
    \A r : IsTrue(r) /\ UNCHANGED <<frozen, row, exchanges>> => IsTrue(r)'
BY DEF IsTrue, Acknowledged, Joined, Asked, Ended

-----------------------------------------------------------------------------
(* The initial state and the steps.                                        *)

\* The dialogue begins with a snapshot that was validated and no exchange.
LEMMA DialogueInit == LiveInit => DialogueInv
<1> SUFFICES ASSUME LiveInit PROVE DialogueInv
  OBVIOUS
<1>1. RowFollows
  <2>1. exchanges = <<>> /\ Len(exchanges) = 0 /\ exchanges \in Seq(Range(exchanges))
    BY DEF LiveInit
  <2> QED
    BY <2>1 DEF LiveInit, RowFollows, ValidateTemplateSnapshot, Statuses
<1>2. PendingIsNext
  BY DEF LiveInit, PendingIsNext
<1>3. RepliesAreTrue /\ TellsTheTruth
  BY DEF LiveInit, RepliesAreTrue, TellsTheTruth
<1> QED BY <1>1, <1>2, <1>3 DEF DialogueInv

\* A handler that has read the submission is about to send an event that is true.
LEMMA ReplyStep ==
    ASSUME DialogueInv, NEW s \in Socket, NEW r, IsTrue(r), Reply(s, r),
           UNCHANGED <<frozen, row, exchanges, event, told>>
    PROVE  DialogueInv'
<1>1. RowFollows'
  BY DEF DialogueInv, RowFollows
<1>2. s \in Actor
  BY DEF Actor
<1>3. PendingIsNext'
  BY <1>2 DEF DialogueInv, PendingIsNext, Reply
<1>4. /\ reply'[s] = r
      /\ \A a \in Actor \ {s} : reply'[a] = reply[a] /\ pc'[a] = pc[a]
  BY <1>2 DEF DialogueInv, PendingIsNext, Reply
<1>5. IsTrue(r)'
  BY TruthRests
<1>6. ASSUME NEW a \in Actor, pc'[a] = "send" PROVE IsTrue(reply[a])'
  <2>1. CASE a = s
    BY <1>4, <1>5, <2>1 DEF IsTrue, Acknowledged, Joined, Asked, Ended
  <2>2. CASE a # s
    BY <1>4, <1>6, <2>2
    DEF DialogueInv, RepliesAreTrue, IsTrue, Acknowledged, Joined, Asked, Ended
  <2> QED BY <2>1, <2>2
<1>7. TellsTheTruth'
  BY TruthRests DEF DialogueInv, TellsTheTruth
<1> QED BY <1>1, <1>3, <1>6, <1>7 DEF DialogueInv, RepliesAreTrue

\* join_session tells what the row says.
LEMMA JoinStep ==
    ASSUME DialogueInv, NEW s \in Socket, JoinSession(s)
    PROVE  DialogueInv'
<1>1. IsTrue(JoinReply)
  BY DEF DialogueInv, RowFollows, JoinReply, InterviewCompleted, IsTrue,
         Acknowledged, Joined, Asked, Ended, Finished
<1> QED BY <1>1, ReplyStep DEF JoinSession

\* While the submission is in progress there is a question left, so that a client
\* hears of the end only when there is one.
LEMMA NoQuestionLeftStep ==
    ASSUME DialogueInv, NEW s \in Socket, NoQuestionLeft(s)
    PROVE  DialogueInv'
<1>1. row.status \in Finished
  BY DEF DialogueInv, RowFollows, NoQuestionLeft
<1>2. IsTrue(InterviewCompleted(CompletionReason(row.status)))
  BY <1>1
  DEF DialogueInv, RowFollows, InterviewCompleted, CompletionReason, IsTrue,
      Acknowledged, Joined, Asked, Ended, Finished
<1> QED BY <1>2, ReplyStep DEF NoQuestionLeft

\* The question asked is the one after the exchanges.
LEMMA NextQuestionStep ==
    ASSUME DialogueInv, NEW s \in Socket, RequestNextQuestion(s)
    PROVE  DialogueInv'
<1>1. PICK q \in ResolveNextQuestion(frozen, row.seq) :
          \E content \in ContentOf(q) : Reply(s, QuestionPayload(q, content))
  BY DEF RequestNextQuestion
<1>4. PICK content \in ContentOf(q) : Reply(s, QuestionPayload(q, content))
  BY <1>1
<1>2. /\ q.sequence = row.seq + 1
      /\ q.final = (row.seq = frozen.total - 1)
  BY <1>1 DEF ResolveNextQuestion
<1>3. IsTrue(QuestionPayload(q, content))
  <2> DEFINE r == QuestionPayload(q, content)
  <2>1. r.type = "question_payload" /\ r.n = row.seq + 1 /\ r.final = q.final
    BY <1>2 DEF QuestionPayload
  <2>2. row.seq \in Nat /\ frozen.total \in Nat /\ row.seq = Len(exchanges)
    BY DEF DialogueInv, RowFollows
  <2>3. r.final = (r.n = frozen.total)
    <3>1. (row.seq = frozen.total - 1) = (r.n = frozen.total)
      BY <2>1, <2>2
    <3> QED BY <1>2, <2>1, <3>1
  <2>4. r.n \in Nat \ {0} /\ r.n <= Len(exchanges) + 1
    BY <2>1, <2>2
  <2> QED
    BY <2>1, <2>3, <2>4, Zenon DEF IsTrue, Acknowledged, Joined, Asked, Ended
<1> QED BY <1>3, <1>4, ReplyStep DEF RequestNextQuestion

\* An answer that passes every check is for the next question.
LEMMA AcceptedIsNext ==
    ASSUME DialogueInv, NEW e, e.n \in Int, ErrorCode(e) = "none"
    PROVE  e.n \in 1..frozen.total /\ e.n = row.seq + 1
<1>1. ~Unresolvable(e) /\ ~InterviewComplete /\ ~SequenceMismatch(e)
  BY DEF ErrorCode
<1> QED
  BY <1>1
  DEF InterviewComplete, SequenceMismatch, DialogueInv, RowFollows

\* The handler of an actor holds the answer until its transaction.
LEMMA HoldStep ==
    ASSUME DialogueInv, NEW a \in Actor, NEW e, e.n \in Int,
           ErrorCode(e) = "none", event' = [event EXCEPT ![a] = e],
           pc' = [pc EXCEPT ![a] = "create"],
           UNCHANGED <<frozen, row, exchanges, reply, told>>
    PROVE  DialogueInv'
<1>1. RowFollows'
  BY DEF DialogueInv, RowFollows
<1>2. PendingIsNext'
  BY AcceptedIsNext DEF DialogueInv, PendingIsNext, RowFollows
<1>3. RepliesAreTrue'
  <2>1. \A b \in Actor : pc'[b] = "send" => pc[b] = "send"
    BY DEF DialogueInv, PendingIsNext
  <2> QED
    BY <2>1
    DEF DialogueInv, RepliesAreTrue, IsTrue, Acknowledged, Joined, Asked, Ended
<1>4. TellsTheTruth'
  BY TruthRests DEF DialogueInv, TellsTheTruth
<1> QED BY <1>1, <1>2, <1>3, <1>4 DEF DialogueInv

LEMMA AnswerStep ==
    ASSUME DialogueInv, NEW s \in Socket, SubmitAnswer(s)
    PROVE  DialogueInv'
<1>1. PICK e \in AnswerEvents :
          ErrorCode(e) = "none" /\ event' = [event EXCEPT ![s] = e]
  BY DEF SubmitAnswer
<1>2. e.n \in 0..(frozen.total + 1)
  BY <1>1, Zenon DEF AnswerEvents
<1>3. e.n \in Int /\ s \in Actor
  BY <1>2 DEF DialogueInv, RowFollows, Actor
<1> QED BY <1>1, <1>3, HoldStep DEF SubmitAnswer

LEMMA CompletedStep ==
    ASSUME DialogueInv, NEW g \in Signal, AudioCompleted(g) \/ CodeCompleted(g)
    PROVE  DialogueInv'
<1>1. PICK type : Completed(g, type)
  BY DEF AudioCompleted, CodeCompleted
<1>2. PICK e \in Signals :
          ErrorCode(e) = "none" /\ event' = [event EXCEPT ![g] = e]
  BY <1>1 DEF Completed
<1>3. e.n \in Int /\ g \in Actor
  BY <1>2 DEF Signals, Actor
<1> QED BY <1>1, <1>2, <1>3, HoldStep DEF Completed

\* The sequence after an exchange has been recorded.
LEMMA RecordedRow ==
    ASSUME DialogueInv, NEW a \in Actor, RecordExchange(a)
    PROVE  /\ RowFollows' /\ Onward
           /\ row.seq <= row'.seq /\ event[a].n \in 1..row'.seq
           /\ event[a].n \in DOMAIN exchanges'
<1> DEFINE n == event[a].n
<1>1. /\ n \in 1..frozen.total /\ n <= Len(exchanges) + 1
      /\ Len(exchanges) \in Nat /\ frozen.total \in Nat \ {0}
      /\ row.seq = Len(exchanges) /\ row.seq <= frozen.total
      /\ row \in [status : Statuses, seq : Nat]
      /\ row.seq = frozen.total => row.status # "in_progress"
      /\ exchanges \in Seq(Range(exchanges))
      /\ DOMAIN exchanges = 1..Len(exchanges)
  BY DEF DialogueInv, RowFollows, PendingIsNext, RecordExchange
<1>2. /\ row'.seq = IF row.seq < n THEN n ELSE row.seq
      /\ row'.status = IF n >= frozen.total /\ row.status = "in_progress"
                       THEN "completed" ELSE row.status
      /\ row' \in [status : Statuses, seq : Nat]
      /\ frozen' = frozen
  BY <1>1 DEF RecordExchange, Progressed, Statuses, Finished
<1>3. CASE n \in DOMAIN exchanges
  <2>1. exchanges' = exchanges /\ row'.seq = row.seq
    BY <1>1, <1>2, <1>3 DEF RecordExchange
  <2>2. RowFollows'
    BY <1>1, <1>2, <2>1 DEF RowFollows
  <2>3. Onward
    BY <1>1, <1>2, <2>1 DEF Onward, Finished
  <2> QED BY <1>1, <1>3, <2>1, <2>2, <2>3
<1>4. CASE n \notin DOMAIN exchanges
  <2>1. exchanges' = Append(exchanges, ExchangeOf(a))
    BY <1>4 DEF RecordExchange
  <2>2. n = Len(exchanges) + 1 /\ row'.seq = n
    BY <1>1, <1>2, <1>4
  <2> DEFINE S == Range(exchanges) \cup {ExchangeOf(a)}
  <2>3. exchanges \in Seq(S) /\ ExchangeOf(a) \in S
    BY <1>1
  <2>4. /\ exchanges' \in Seq(S) /\ Len(exchanges') = Len(exchanges) + 1
        /\ \A i \in 1..Len(exchanges) : exchanges'[i] = exchanges[i]
    BY <2>1, <2>3, AppendProperties
  <2>5. DOMAIN exchanges' = 1..(Len(exchanges) + 1)
    BY <1>1, <2>4
  <2>6. exchanges' \in Seq(Range(exchanges'))
    BY <2>4, <2>5 DEF Range
  <2>7. RowFollows'
    BY <1>1, <1>2, <2>2, <2>4, <2>6 DEF RowFollows
  <2>8. Onward
    BY <1>1, <1>2, <2>4, <2>5 DEF Onward, Finished
  <2> QED BY <1>1, <2>2, <2>5, <2>7, <2>8
<1> QED BY <1>3, <1>4

\* The transaction of an answer: its acknowledgement is true of what it commits.
LEMMA RecordStep ==
    ASSUME DialogueInv, NEW a \in Actor, RecordExchange(a)
    PROVE  DialogueInv'
<1>1. RowFollows' /\ Onward /\ event[a].n \in 1..row'.seq
  BY RecordedRow
<1>2. PendingIsNext'
  <2>1. \A b \in Actor : pc'[b] = "create" => pc[b] = "create"
    BY DEF RecordExchange, Reply, DialogueInv, PendingIsNext
  <2>2. row.seq <= row'.seq /\ row.seq \in Nat /\ row'.seq \in Nat
    BY <1>1, RecordedRow DEF DialogueInv, RowFollows
  <2>3. frozen' = frozen /\ event' = event /\ frozen.total \in Nat
    BY DEF RecordExchange, DialogueInv, RowFollows
  <2>4. \A b \in Actor : pc'[b] = "create" =>
            event'[b].n \in 1..frozen'.total /\ event'[b].n <= row'.seq + 1
    BY <2>1, <2>2, <2>3 DEF DialogueInv, PendingIsNext
  <2>5. /\ pc' \in [Actor -> {"idle", "create", "send", "done"}]
        /\ event' = [b \in Actor |-> event'[b]]
        /\ reply' = [b \in Actor |-> reply'[b]]
    BY DEF RecordExchange, Reply, DialogueInv, PendingIsNext
  <2> QED BY <2>4, <2>5 DEF PendingIsNext
<1>3. IsTrue(AcceptedReply(event[a]))'
  <2> DEFINE r == AcceptedReply(event[a])
  <2>1. /\ r.type \in {"answer_accepted", "code_submission_accepted"}
        /\ r.n = event[a].n
    BY DEF AcceptedReply
  <2>2. /\ event'[a] = event[a] /\ frozen' = frozen
        /\ r.n \in Nat \ {0} /\ r.n \in DOMAIN exchanges'
    BY <1>1, <2>1, RecordedRow DEF RecordExchange, DialogueInv, PendingIsNext
  <2>3. r.n = frozen.total => row'.status # "in_progress"
    BY <1>1, <2>1, <2>2 DEF RowFollows, DialogueInv
  <2>4. AcceptedReply(event[a])' = r
    BY <2>2 DEF AcceptedReply, IsCode, RecordExchange
  <2> QED
    BY <2>1, <2>2, <2>3, <2>4
    DEF IsTrue, Acknowledged, Joined, Asked, Ended
<1>4. RepliesAreTrue'
  <2>1. ASSUME NEW b \in Actor, pc'[b] = "send" PROVE IsTrue(reply[b])'
    <3>1. CASE b = a
      <4>1. reply'[a] = AcceptedReply(event[a])'
        BY DEF RecordExchange, Reply, AcceptedReply, IsCode, DialogueInv,
               PendingIsNext
      <4> QED
        BY <1>3, <3>1, <4>1 DEF IsTrue, Acknowledged, Joined, Asked, Ended
    <3>2. CASE b # a
      <4>1. reply'[b] = reply[b] /\ IsTrue(reply[b])
        BY <2>1, <3>2
        DEF RecordExchange, Reply, DialogueInv, PendingIsNext, RepliesAreTrue
      <4> QED
        BY <1>1, <4>1, TruthStays
        DEF DialogueInv, IsTrue, Acknowledged, Joined, Asked, Ended
    <3> QED BY <3>1, <3>2
  <2> QED BY <2>1 DEF RepliesAreTrue
<1>5. TellsTheTruth'
  BY <1>1, TruthStays DEF RecordExchange, DialogueInv, TellsTheTruth
<1> QED BY <1>1, <1>2, <1>4, <1>5 DEF DialogueInv

\* A handler that forgets what it did, whatever its client has been told.
LEMMA ForgetStep ==
    ASSUME DialogueInv, NEW a \in Actor, NEW step \in {"idle", "done"},
           Forget(a, step), UNCHANGED <<frozen, row, exchanges>>,
           TellsTheTruth'
    PROVE  DialogueInv'
<1>1. RowFollows'
  BY DEF DialogueInv, RowFollows
<1>2. /\ PendingIsNext'
      /\ \A b \in Actor : pc'[b] = "send" => pc[b] = "send" /\ reply'[b] = reply[b]
  BY DEF Forget, DialogueInv, PendingIsNext
<1>3. RepliesAreTrue'
  BY <1>2, TruthRests
  DEF DialogueInv, RepliesAreTrue, IsTrue, Acknowledged, Joined, Asked, Ended
<1> QED BY <1>1, <1>2, <1>3 DEF DialogueInv

LEMMA SendStep == ASSUME DialogueInv, NEW a \in Actor, Send(a) PROVE DialogueInv'
<1>1. IsTrue(reply[a])
  BY DEF Send, DialogueInv, RepliesAreTrue
<1>2. TellsTheTruth'
  <2>1. told' = [s \in Socket |-> told'[s]]
    BY DEF Send, DialogueInv, TellsTheTruth
  <2>2. \A s \in Socket : told'[s] \subseteq told[s] \cup {reply[a]}
    BY DEF Send, DialogueInv, TellsTheTruth
  <2>3. \A s \in Socket : \A r \in told'[s] : IsTrue(r)
    BY <1>1, <2>2 DEF DialogueInv, TellsTheTruth
  <2>4. UNCHANGED <<frozen, row, exchanges>>
    BY DEF Send
  <2>5. \A s \in Socket : \A r \in told'[s] : IsTrue(r)'
    BY <2>3, <2>4, TruthRests
  <2> QED BY <2>1, <2>5 DEF TellsTheTruth
<1>3. PICK step \in {"idle", "done"} : Forget(a, step)
  BY DEF Send
<1> QED BY <1>2, <1>3, ForgetStep DEF Send

LEMMA DropStep == ASSUME DialogueInv, NEW s \in Socket, Drop(s) PROVE DialogueInv'
<1>1. TellsTheTruth'
  BY TruthRests DEF Drop, DialogueInv, TellsTheTruth
<1> QED BY <1>1, ForgetStep DEF Drop, Actor

\* Another part of the system ends the submission: what was told of its end
\* remains true, because only a completed or expired one is reviewed.
LEMMA EndStep == ASSUME DialogueInv, EndSubmission PROVE DialogueInv'
<1>1. RowFollows' /\ Onward
  BY DEF EndSubmission, DialogueInv, RowFollows, Onward, Statuses, Finished
<1>2. PendingIsNext'
  BY DEF EndSubmission, DialogueInv, PendingIsNext, RowFollows
<1>3. RepliesAreTrue'
  BY <1>1, TruthStays
  DEF EndSubmission, DialogueInv, RepliesAreTrue, IsTrue, Acknowledged, Joined,
      Asked, Ended
<1>4. TellsTheTruth'
  BY <1>1, TruthStays DEF EndSubmission, DialogueInv, TellsTheTruth
<1> QED BY <1>1, <1>2, <1>3, <1>4 DEF DialogueInv

\* Nothing of the dialogue changes.
LEMMA RestStep ==
    ASSUME DialogueInv, UNCHANGED <<frozen, row, exchanges, pc, event, reply, told>>
    PROVE  DialogueInv'
BY DEF DialogueInv, RowFollows, PendingIsNext, RepliesAreTrue, TellsTheTruth,
       IsTrue, Acknowledged, Joined, Asked, Ended

-----------------------------------------------------------------------------
(* The theorems.                                                           *)

\* The invariant holds in every reachable state: the row counts the exchanges, an
\* answer being recorded is for an existing question no further than the next,
\* and every event told or about to be told is true.
THEOREM DialogueInvariance == Spec => []DialogueInv
<1>1. DialogueInv /\ [LiveNext]_liveVars => DialogueInv'
  <2> SUFFICES ASSUME DialogueInv, [LiveNext]_liveVars PROVE DialogueInv'
    OBVIOUS
  <2>1. ASSUME NEW s \in Socket,
               \/ JoinSession(s) \/ NoQuestionLeft(s) \/ RequestNextQuestion(s)
               \/ SubmitAnswer(s) \/ Drop(s)
        PROVE  DialogueInv'
    BY <2>1, JoinStep, NoQuestionLeftStep, NextQuestionStep, AnswerStep, DropStep
  <2>2. ASSUME NEW s \in Socket, RefuseEvent(s) PROVE DialogueInv'
    BY <2>2, RestStep DEF RefuseEvent
  <2>3. ASSUME NEW g \in Signal, AudioCompleted(g) \/ CodeCompleted(g)
        PROVE  DialogueInv'
    BY <2>3, CompletedStep
  <2>4. ASSUME NEW a \in Actor, RecordExchange(a) \/ Send(a) PROVE DialogueInv'
    BY <2>4, RecordStep, SendStep
  <2>5. CASE EndSubmission
    BY <2>5, EndStep
  <2>6. CASE UNCHANGED liveVars
    BY <2>6, RestStep DEF liveVars
  <2> QED BY <2>1, <2>2, <2>3, <2>4, <2>5, <2>6 DEF LiveNext
<1> QED BY <1>1, DialogueInit, PTL DEF Spec

\* A client is told the truth: an acknowledged answer is durable and the last one
\* has ended the interview, a question is asked when those before it are
\* answered, and the interview is over when that is said.
THEOREM ClientsAreToldTheTruth == Spec => []ToldIsTrue
<1>1. DialogueInv => ToldIsTrue
  BY DEF DialogueInv, TellsTheTruth, IsTrue, ToldIsTrue
<1> QED BY <1>1, DialogueInvariance, PTL

-----------------------------------------------------------------------------
(* Every exchange is of its position.                                      *)

\* The question the sequencer has for the n-th position.
AtPosition(n) == ResolveNextQuestion(frozen, n - 1)

OfPosition(x, n) ==
    \E q \in AtPosition(n) :
        x.section = q.section /\ {x.question, x.problem} = {0, q.question}

AskedOfPosition(r) ==
    r.type = "question_payload" => \E q \in AtPosition(r.n) : r.id = q.question

\* Exchanges and questions asked or about to be are those of the sequencer.
SequencerInv ==
    /\ \A n \in DOMAIN exchanges : OfPosition(exchanges[n], n)
    /\ \A a \in Actor : pc[a] = "send" => AskedOfPosition(reply[a])
    /\ \A s \in Socket : \A r \in told[s] : AskedOfPosition(r)

\* A reply of another type says nothing of a question.
LEMMA OtherReplies ==
    /\ AskedOfPosition(JoinReply)
    /\ \A reason : AskedOfPosition(InterviewCompleted(reason))
    /\ \A e : AskedOfPosition(AcceptedReply(e))'
BY DEF AskedOfPosition, JoinReply, InterviewCompleted, AcceptedReply

\* The payload carries the question that was resolved, in whichever table it is.
LEMMA PayloadOfPosition ==
    ASSUME row.seq \in Nat, NEW q \in ResolveNextQuestion(frozen, row.seq),
           NEW content \in ContentOf(q)
    PROVE  AskedOfPosition(QuestionPayload(q, content))
<1>1. content.id = q.question
  BY DEF ContentOf
<1>2. q.sequence = row.seq + 1
  BY DEF ResolveNextQuestion
<1>3. q \in AtPosition(q.sequence)
  BY <1>2 DEF AtPosition
<1> QED BY <1>1, <1>3 DEF AskedOfPosition, QuestionPayload

\* A step that records nothing: what is sent or told is what was, or a reply of
\* the sequencer.
LEMMA SequencerRests ==
    ASSUME DialogueInv, SequencerInv, UNCHANGED <<frozen, exchanges>>,
           \A a \in Actor : pc'[a] = "send" =>
               AskedOfPosition(reply'[a]) \/ (pc[a] = "send" /\ reply'[a] = reply[a]),
           \A s \in Socket : \A r \in told'[s] : AskedOfPosition(r)
    PROVE  SequencerInv'
BY DEF SequencerInv, OfPosition, AskedOfPosition, AtPosition

\* A handler that answers at once.
LEMMA SequencerReplies ==
    ASSUME DialogueInv, SequencerInv, NEW s \in Socket, NEW r, Reply(s, r),
           AskedOfPosition(r), UNCHANGED <<frozen, exchanges, told>>
    PROVE  SequencerInv'
<1>1. \A a \in Actor : pc'[a] = "send" =>
          AskedOfPosition(reply'[a]) \/ (pc[a] = "send" /\ reply'[a] = reply[a])
  <2>1. reply'[s] = r
    BY DEF Reply, DialogueInv, PendingIsNext, Actor
  <2>2. \A a \in Actor \ {s} : pc'[a] = pc[a] /\ reply'[a] = reply[a]
    BY DEF Reply, DialogueInv, PendingIsNext
  <2> QED BY <2>1, <2>2 DEF AskedOfPosition
<1> QED BY <1>1, SequencerRests DEF SequencerInv

\* The exchange that a transaction adds is that of its position.
LEMMA RecordOfPosition ==
    ASSUME DialogueInv, SequencerInv, NEW a \in Actor, RecordExchange(a)
    PROVE  SequencerInv'
<1> DEFINE e == event[a]
<1>1. /\ e.n \in 1..frozen.total /\ frozen' = frozen /\ frozen.total \in Nat
      /\ exchanges \in Seq(Range(exchanges)) /\ Len(exchanges) \in Nat
      /\ DOMAIN exchanges = 1..Len(exchanges)
      /\ e.n \in DOMAIN exchanges \cup {Len(exchanges) + 1}
  BY DEF DialogueInv, RowFollows, PendingIsNext, RecordExchange
<1>2. \A n \in DOMAIN exchanges' : OfPosition(exchanges'[n], n)
  <2>1. CASE e.n \in DOMAIN exchanges
    BY <2>1 DEF RecordExchange, SequencerInv
  <2>2. CASE e.n \notin DOMAIN exchanges
    <3>1. exchanges' = Append(exchanges, ExchangeOf(a)) /\ e.n = Len(exchanges) + 1
      BY <1>1, <2>2 DEF RecordExchange
    <3> DEFINE S == Range(exchanges) \cup {ExchangeOf(a)}
    <3>2. exchanges \in Seq(S) /\ ExchangeOf(a) \in S
      BY <1>1
    <3>3. /\ exchanges' \in Seq(S) /\ Len(exchanges') = Len(exchanges) + 1
          /\ \A i \in 1..Len(exchanges) : exchanges'[i] = exchanges[i]
          /\ exchanges'[e.n] = ExchangeOf(a)
      BY <3>1, <3>2, AppendProperties
    <3>4. DOMAIN exchanges' = DOMAIN exchanges \cup {e.n}
      BY <1>1, <3>1, <3>3
    <3>5. QuestionOf(e) # {} /\ QuestionOf(e) = AtPosition(e.n)
      <4>1. QuestionOf(e) = AtPosition(e.n)
        BY <1>1 DEF QuestionOf, AtPosition
      <4>2. ~(e.n - 1 >= frozen.total)
        BY <1>1
      <4>3. AtPosition(e.n) # {}
        BY <4>2 DEF AtPosition, ResolveNextQuestion
      <4> QED BY <4>1, <4>3
    <3>6. OfPosition(ExchangeOf(a), e.n)
      <4>1. PICK q \in QuestionOf(e) : q = CHOOSE x \in QuestionOf(e) : TRUE
        BY <3>5
      <4>2. /\ ExchangeOf(a).section = q.section
            /\ {ExchangeOf(a).question, ExchangeOf(a).problem} = {0, q.question}
        BY <4>1 DEF ExchangeOf
      <4> QED BY <3>5, <4>2 DEF OfPosition
    <3> QED BY <1>1, <3>3, <3>4, <3>6 DEF SequencerInv
  <2> QED BY <2>1, <2>2
<1>3. \A n \in DOMAIN exchanges' : OfPosition(exchanges[n], n)'
  BY <1>1, <1>2 DEF OfPosition, AtPosition
<1>4. \A b \in Actor : pc'[b] = "send" => AskedOfPosition(reply[b])'
  BY <1>1 DEF RecordExchange, Reply, AcceptedReply, DialogueInv, PendingIsNext,
              SequencerInv, AskedOfPosition, AtPosition
<1>5. \A s \in Socket : \A r \in told'[s] : AskedOfPosition(r)'
  BY <1>1 DEF RecordExchange, SequencerInv, AskedOfPosition, AtPosition
<1> QED BY <1>3, <1>4, <1>5 DEF SequencerInv

\* Every exchange is filed under the section and the question that the sequencer
\* has for its position, and every question asked is the one of its number.
THEOREM PositionsAreTheSequencers == Spec => []SequencerInv
<1>1. LiveInit => SequencerInv
  BY DEF LiveInit, SequencerInv
<1>2. DialogueInv /\ SequencerInv /\ [LiveNext]_liveVars => SequencerInv'
  <2> SUFFICES ASSUME DialogueInv, SequencerInv, [LiveNext]_liveVars
               PROVE  SequencerInv'
    OBVIOUS
  <2>1. ASSUME NEW s \in Socket, JoinSession(s) \/ NoQuestionLeft(s)
        PROVE  SequencerInv'
    BY <2>1, OtherReplies, SequencerReplies DEF JoinSession, NoQuestionLeft
  <2>2. ASSUME NEW s \in Socket, RequestNextQuestion(s) PROVE SequencerInv'
    <3>1. PICK q \in ResolveNextQuestion(frozen, row.seq) :
              \E content \in ContentOf(q) : Reply(s, QuestionPayload(q, content))
      BY <2>2 DEF RequestNextQuestion
    <3>2. PICK content \in ContentOf(q) : Reply(s, QuestionPayload(q, content))
      BY <3>1
    <3>3. AskedOfPosition(QuestionPayload(q, content))
      BY PayloadOfPosition DEF DialogueInv, RowFollows
    <3> QED BY <2>2, <3>2, <3>3, SequencerReplies DEF RequestNextQuestion
  <2>3. ASSUME NEW a \in Actor,
               /\ UNCHANGED <<frozen, exchanges, reply, told>>
               /\ pc' = [pc EXCEPT ![a] = "create"]
        PROVE  SequencerInv'
    <3>1. \A b \in Actor : pc'[b] = "send" => pc[b] = "send"
      BY <2>3 DEF DialogueInv, PendingIsNext
    <3> QED BY <2>3, <3>1, SequencerRests DEF SequencerInv
  <2>4. ASSUME NEW s \in Socket, SubmitAnswer(s) PROVE SequencerInv'
    BY <2>3, <2>4 DEF SubmitAnswer, Actor
  <2>5. ASSUME NEW g \in Signal, AudioCompleted(g) \/ CodeCompleted(g)
        PROVE  SequencerInv'
    BY <2>3, <2>5 DEF AudioCompleted, CodeCompleted, Completed, Actor
  <2>6. ASSUME NEW s \in Socket, RefuseEvent(s) PROVE SequencerInv'
    BY <2>6, SequencerRests DEF RefuseEvent, SequencerInv
  <2>7. ASSUME NEW a \in Actor, NEW step \in {"idle", "done"}, Forget(a, step),
               UNCHANGED <<frozen, exchanges>>,
               \A s \in Socket : \A r \in told'[s] : AskedOfPosition(r)
        PROVE  SequencerInv'
    <3>1. \A b \in Actor : pc'[b] = "send" => pc[b] = "send" /\ reply'[b] = reply[b]
      BY <2>7 DEF Forget, DialogueInv, PendingIsNext
    <3> QED BY <2>7, <3>1, SequencerRests
  <2>8. ASSUME NEW a \in Actor, Send(a) PROVE SequencerInv'
    <3>1. PICK step \in {"idle", "done"} : Forget(a, step)
      BY <2>8 DEF Send
    <3>2. AskedOfPosition(reply[a])
      BY <2>8 DEF Send, SequencerInv
    <3>3. \A s \in Socket : told'[s] \subseteq told[s] \cup {reply[a]}
      BY <2>8 DEF Send, DialogueInv, TellsTheTruth
    <3> QED BY <2>7, <2>8, <3>1, <3>2, <3>3 DEF Send, SequencerInv
  <2>9. ASSUME NEW s \in Socket, Drop(s) PROVE SequencerInv'
    BY <2>7, <2>9 DEF Drop, SequencerInv, Actor
  <2>10. ASSUME NEW a \in Actor, RecordExchange(a) PROVE SequencerInv'
    BY <2>10, RecordOfPosition
  <2>11. CASE EndSubmission
    BY <2>11, SequencerRests DEF EndSubmission, SequencerInv
  <2>12. CASE UNCHANGED liveVars
    BY <2>12, SequencerRests DEF liveVars, SequencerInv
  <2> QED
    BY <2>1, <2>2, <2>4, <2>5, <2>6, <2>8, <2>9, <2>10, <2>11, <2>12 DEF LiveNext
<1> QED BY <1>1, <1>2, DialogueInvariance, PTL DEF Spec

\* The sequencer's arithmetic of section counts agrees with the sections laid out
\* one after the other.  It is a fact about data, which TLC evaluates.
SequencerIsFlat ==
    /\ frozen.total = Len(Flattened)
    /\ \A n \in 1..frozen.total : \A q \in AtPosition(n) :
          q.question = Flattened[n].id /\ q.section = Flattened[n].section

\* As long as the sequencer's arithmetic is right, every exchange is of its
\* position in the frozen template, and so is every question that is asked.
THEOREM ExchangesAreOfTheirPositions ==
    Spec => [](SequencerIsFlat => ExchangeIsOfItsPosition)
<1>1. DialogueInv /\ SequencerInv => (SequencerIsFlat => ExchangeIsOfItsPosition)
  <2> SUFFICES ASSUME DialogueInv, SequencerInv, SequencerIsFlat
               PROVE  ExchangeIsOfItsPosition
    OBVIOUS
  <2>1. \A n \in DOMAIN exchanges : n \in 1..frozen.total
    BY DEF DialogueInv, RowFollows
  <2>2. ASSUME NEW n \in DOMAIN exchanges
        PROVE  /\ exchanges[n].section = Flattened[n].section
               /\ {exchanges[n].question, exchanges[n].problem} = {0, Flattened[n].id}
    BY <2>1 DEF SequencerInv, OfPosition, SequencerIsFlat
  <2>3. ASSUME NEW s \in Socket, NEW r \in told[s], r.type = "question_payload"
        PROVE  r.id = Flattened[r.n].id
    <3>1. PICK q \in AtPosition(r.n) : r.id = q.question
      BY <2>3 DEF SequencerInv, AskedOfPosition
    <3>2. r.n - 1 < frozen.total /\ r.n \in Nat /\ frozen.total \in Nat
      BY <2>3, <3>1
      DEF AtPosition, ResolveNextQuestion, DialogueInv, TellsTheTruth, IsTrue,
          RowFollows
    <3>3. r.n \in 1..frozen.total
      BY <2>3, <3>2 DEF DialogueInv, TellsTheTruth, IsTrue, Asked
    <3> QED BY <3>1, <3>3 DEF SequencerIsFlat
  <2> QED BY <2>2, <2>3 DEF ExchangeIsOfItsPosition, SequencerIsFlat
<1> QED BY <1>1, DialogueInvariance, PositionsAreTheSequencers, PTL

-----------------------------------------------------------------------------
(***************************************************************************)
(* A question by voice, for any utterances, replies, providers and         *)
(* writers: a spoken answer, once given, is settled.                       *)
(*                                                                         *)
(* The question machine, the policy and the caller count clarifications    *)
(* each by itself; QuestionInv relates the counts.  Stored relates what is *)
(* stored to the answer, in the table and in a draft, and a draft of a     *)
(* row that has been finalized is that row.                                *)
(***************************************************************************)
Open == {"ASKED", "WAITING_INPUT", "CLARIFICATION_REQUESTED"}
Settled == {"ANSWER_SUBMITTED", "POST_ANSWER_WINDOW", "EVALUATED", "NEXT_QUESTION"}
Percent == 0..100

QuestionType ==
    [state : Open \cup Settled, count : 0..MaxClarifications, exceeded : BOOLEAN,
     locked : BOOLEAN, intents : Nat, last : Intents \cup {"none"}]

PolicyType ==
    [count : Nat, analogy : BOOLEAN, hint : BOOLEAN,
     log : Seq([number : Nat, reply : Replies, violates : BOOLEAN])]

VoiceType ==
    [at : {"silence", "provider", "transcribe", "classify"},
     heard : Utterances \cup {<<>>}, provider : Nat, attempt : Nat, confidence : Percent]

Types ==
    /\ question \in QuestionType
    /\ policy \in PolicyType
    /\ asked \in Nat
    /\ voice \in VoiceType
    /\ voice.at # "silence" => voice.heard \in Utterances

\* The counts of the machine, of the policy and of what is being generated.
QuestionInv ==
    /\ question.locked <=> question.state \in Settled
    /\ policy.count = Len(policy.log)
    /\ \A i \in DOMAIN policy.log : policy.log[i].reply.analogy => policy.analogy
    /\ question.state = "ASKED" => asked = 0
    /\ ClarificationsAreFair

AnswerInv ==
    /\ answer # NoAnswerYet =>
          /\ question.locked
          /\ answer = <<answer[1], answer[2]>>
          /\ answer[1] \in Utterances /\ answer[2] \in Percent
    /\ exchange # NoExchange =>
          /\ answer # NoAnswerYet /\ exchange.answer = answer
          /\ question.state \in {"EVALUATED", "NEXT_QUESTION"}
          /\ exchange.metadata.clarification_count \in Nat
          /\ Len(policy.log) + asked <= exchange.metadata.clarification_count

\* A row there is, which has the analysis of the answer.
Stored(stored) ==
    /\ exchange # NoExchange
    /\ stored \in [data : {Analysis(answer[1], answer[2])}, revision : Nat \ {0}, finalized : BOOLEAN]

WriterInv(w) ==
    /\ writing[w].at = "open" => writing[w].locks \/ analytics # NoRow
    /\ writing[w].locks =>
          /\ Stored(draft)
          /\ analytics.finalized => draft = analytics
          /\ \A v \in Writers : writing[v].locks => v = w

AnalyticsInv ==
    /\ analytics = NoRow \/ Stored(analytics)
    /\ writing \in [Writers -> [at : {"idle", "open"}, locks : BOOLEAN]]
    /\ \A w \in Writers : WriterInv(w)

SpokenInv == Types /\ QuestionInv /\ AnswerInv /\ AnalyticsInv

-----------------------------------------------------------------------------
(* The functions of the machine and of the policy.                         *)

LEMMA TransitionToSound ==
    ASSUME NEW q \in QuestionType, q.locked <=> q.state \in Settled, NEW target
    PROVE  LET r == TransitionTo(q, target) IN
           /\ r \in QuestionType
           /\ r.locked <=> r.state \in Settled
           /\ q.locked => r.locked
           /\ r.count = q.count
           /\ IF <<q.state, target>> \in Transitions THEN r.state = target ELSE r = q
<1>1. CASE <<q.state, target>> \in Transitions
  <2>1. /\ q.state \in Settled => target \in Settled
        /\ q.state \in Open /\ target # "ANSWER_SUBMITTED" => target \in Open
        /\ target \in Open \cup Settled
    BY <1>1 DEF Transitions, Open, Settled
  <2>2. TransitionTo(q, target)
          = [q EXCEPT !.state = target, !.locked = q.locked \/ target = "ANSWER_SUBMITTED"]
    BY <1>1 DEF TransitionTo
  <2>3. Open \cap Settled = {} /\ "ANSWER_SUBMITTED" \in Settled
    BY DEF Open, Settled
  <2> QED BY <1>1, <2>1, <2>2, <2>3 DEF QuestionType
<1>2. CASE <<q.state, target>> \notin Transitions
  BY <1>2 DEF TransitionTo
<1> QED BY <1>1, <1>2

LEMMA RecordSound ==
    ASSUME NEW q \in QuestionType, NEW intent \in Intents
    PROVE  /\ Record(q, intent) \in QuestionType
           /\ Record(q, intent).state = q.state
           /\ Record(q, intent).locked = q.locked
           /\ Record(q, intent).count = q.count
<1>1. Record(q, intent) = [q EXCEPT !.intents = q.intents + 1, !.last = intent]
  BY DEF Record
<1>2. q.intents + 1 \in Nat
  BY DEF QuestionType
<1> QED BY <1>1, <1>2 DEF QuestionType

LEMMA NewEntry ==
    ASSUME policy \in PolicyType, policy.count = Len(policy.log), NEW r \in Replies
    PROVE  LET p == ValidateResponse(policy, r) IN
           /\ p \in PolicyType
           /\ p.count = Len(p.log) /\ Len(p.log) = Len(policy.log) + 1
           /\ p.analogy = (policy.analogy \/ r.analogy)
           /\ DOMAIN p.log = DOMAIN policy.log \cup {Len(p.log)}
           /\ \A i \in DOMAIN policy.log : p.log[i] = policy.log[i]
           /\ p.log[Len(p.log)].reply = r
           /\ p.log[Len(p.log)].violates = Violates(policy, r)
<1> DEFINE Entry == [number : Nat, reply : Replies, violates : BOOLEAN]
           e == [number |-> policy.count + 1, reply |-> r, violates |-> Violates(policy, r)]
<1>1. r.words \in Nat /\ r.analogy \in BOOLEAN /\ r.hint \in BOOLEAN
  BY ReplyAssumption
<1>2. policy.log \in Seq(Entry) /\ policy.count \in Nat /\ policy.analogy \in BOOLEAN /\ policy.hint \in BOOLEAN
  BY DEF PolicyType
<1>3. Violates(policy, r) \in BOOLEAN
  BY <1>1, <1>2 DEF Violates
<1>4. e \in Entry
  BY <1>2, <1>3
<1> HIDE DEF e
<1>5. /\ Append(policy.log, e) \in Seq(Entry)
      /\ Len(Append(policy.log, e)) = Len(policy.log) + 1
      /\ DOMAIN Append(policy.log, e) = DOMAIN policy.log \cup {Len(policy.log) + 1}
      /\ \A i \in DOMAIN policy.log : Append(policy.log, e)[i] = policy.log[i]
      /\ Append(policy.log, e)[Len(policy.log) + 1] = e
  BY <1>2, <1>4
<1>6. ValidateResponse(policy, r) =
        [count |-> policy.count + 1, analogy |-> policy.analogy \/ r.analogy,
         hint |-> policy.hint \/ r.hint, log |-> Append(policy.log, e)]
  BY DEF ValidateResponse, e
<1>7. e.reply = r /\ e.violates = Violates(policy, r)
  BY DEF e
<1> QED BY <1>1, <1>2, <1>5, <1>6, <1>7 DEF PolicyType

\* A request at the limit is not counted; one that is refused otherwise is.
LEMMA RequestSound ==
    ASSUME NEW q \in QuestionType, q.locked <=> q.state \in Settled
    PROVE  LET r == RequestClarification(q) IN
           /\ r \in QuestionType
           /\ r.locked <=> r.state \in Settled
           /\ q.locked => r.locked
           /\ q.count <= r.count /\ r.count <= MaxClarifications
           /\ IF Granted(q)
              THEN q.state = "WAITING_INPUT" /\ r.state = "CLARIFICATION_REQUESTED" /\ r.count = q.count + 1
              ELSE r.state = q.state \/ r.state = "ANSWER_SUBMITTED"
           /\ q.state \in Settled => r.state = q.state
<1> DEFINE full  == [q EXCEPT !.exceeded = TRUE]
           count == [q EXCEPT !.count = q.count + 1]
<1>1. full \in QuestionType /\ full.locked = q.locked /\ full.state = q.state /\ full.count = q.count
  BY DEF QuestionType
<1>2. ASSUME ~(q.count >= MaxClarifications)
      PROVE  count \in QuestionType /\ count.locked = q.locked /\ count.state = q.state
               /\ count.count = q.count + 1
  BY <1>2 DEF QuestionType, MaxClarifications
<1>3. q.count \in Nat /\ q.count <= MaxClarifications
  BY DEF QuestionType, MaxClarifications
<1>4. \A s \in Settled : \A t \in {"ANSWER_SUBMITTED", "CLARIFICATION_REQUESTED"} :
          <<s, t>> \notin Transitions
  BY DEF Settled, Transitions
<1>5. \A s : <<s, "CLARIFICATION_REQUESTED">> \in Transitions <=> s = "WAITING_INPUT"
  BY DEF Transitions
<1>6. CASE q.count >= MaxClarifications
  <2>1. RequestClarification(q) = TransitionTo(full, "ANSWER_SUBMITTED")
    BY <1>6 DEF RequestClarification
  <2>2. ~Granted(q)
    BY <1>3, <1>6 DEF Granted, MaxClarifications
  <2> HIDE DEF full
  <2>3. /\ RequestClarification(q) \in QuestionType
        /\ RequestClarification(q).locked <=> RequestClarification(q).state \in Settled
        /\ q.locked => RequestClarification(q).locked
        /\ RequestClarification(q).count = q.count
        /\ IF <<q.state, "ANSWER_SUBMITTED">> \in Transitions
           THEN RequestClarification(q).state = "ANSWER_SUBMITTED"
           ELSE RequestClarification(q) = full
    BY <1>1, <2>1, TransitionToSound
  <2>4. q.state \in Settled => RequestClarification(q).state = q.state
    BY <1>1, <1>4, <2>3
  <2>5. \/ RequestClarification(q).state = q.state
        \/ RequestClarification(q).state = "ANSWER_SUBMITTED"
    BY <1>1, <2>3
  <2>6. q.count <= RequestClarification(q).count /\ RequestClarification(q).count <= MaxClarifications
    BY <1>3, <2>3
  <2> QED BY <2>2, <2>3, <2>4, <2>5, <2>6
<1>7. CASE ~(q.count >= MaxClarifications)
  <2>1. RequestClarification(q) = TransitionTo(count, "CLARIFICATION_REQUESTED")
    BY <1>7 DEF RequestClarification
  <2>2. Granted(q) <=> q.state = "WAITING_INPUT"
    BY <1>3, <1>5, <1>7 DEF Granted, MaxClarifications
  <2>3. q.count + 1 <= MaxClarifications
    BY <1>3, <1>7 DEF MaxClarifications
  <2> HIDE DEF count
  <2>4. /\ RequestClarification(q) \in QuestionType
        /\ RequestClarification(q).locked <=> RequestClarification(q).state \in Settled
        /\ q.locked => RequestClarification(q).locked
        /\ RequestClarification(q).count = q.count + 1
        /\ IF <<q.state, "CLARIFICATION_REQUESTED">> \in Transitions
           THEN RequestClarification(q).state = "CLARIFICATION_REQUESTED"
           ELSE RequestClarification(q) = count
    BY <1>2, <1>7, <2>1, TransitionToSound
  <2>5. q.state \in Settled => RequestClarification(q).state = q.state
    BY <1>2, <1>4, <1>7, <2>4
  <2>6. IF Granted(q)
        THEN q.state = "WAITING_INPUT" /\ RequestClarification(q).state = "CLARIFICATION_REQUESTED"
        ELSE RequestClarification(q).state = q.state
    BY <1>2, <1>5, <1>7, <2>2, <2>4
  <2>7. q.count <= RequestClarification(q).count /\ RequestClarification(q).count <= MaxClarifications
    BY <1>3, <2>3, <2>4 DEF MaxClarifications
  <2> QED BY <2>4, <2>5, <2>6, <2>7
<1> QED BY <1>6, <1>7

-----------------------------------------------------------------------------
(* The analysis satisfies the constraints of its table.                    *)

LEMMA RatesArePercents ==
    ASSUME NEW a \in Nat, NEW b \in Nat \ {0}
    PROVE  Min({100, Rounded(100 * a, b)}) \in Percent
<1>1. Rounded(100 * a, b) \in Nat
  BY DEF Rounded
<1>2. ASSUME NEW n \in Nat PROVE Min({100, n}) \in Percent
  BY DEF Min, Percent
<1> QED BY <1>1, <1>2

LEMMA FillersAreWords ==
    ASSUME NEW u \in Utterances
    PROVE  LET f == FillerPositions(u, TRUE) IN
           /\ Cardinality(f) \in Nat
           /\ Cardinality(f) <= Len(u.words)
<1>1. /\ u.words \in Seq({"word", "filler", "like verb", "aside"})
      /\ u.phrases \subseteq 0..(Len(u.words) - 1)
  BY UtteranceAssumption
<1>2. Len(u.words) \in Nat /\ DOMAIN u.words = 1..Len(u.words)
  BY <1>1, LenProperties
<1>3. FillerPositions(u, TRUE) \subseteq 0..(Len(u.words) - 1)
  <2>1. SingleFillers(u, TRUE) \subseteq {i - 1 : i \in DOMAIN u.words}
    BY DEF SingleFillers
  <2>2. {i - 1 : i \in DOMAIN u.words} \subseteq 0..(Len(u.words) - 1)
    BY <1>2
  <2> QED BY <1>1, <2>1, <2>2 DEF FillerPositions
<1>4. /\ IsFiniteSet(0..(Len(u.words) - 1))
      /\ Cardinality(0..(Len(u.words) - 1)) = Len(u.words)
  <2> DEFINE n == Len(u.words) - 1
  <2>1. n \in Int /\ 0 \in Int
    BY <1>2
  <2> HIDE DEF n
  <2>2. /\ IsFiniteSet(0..n)
        /\ Cardinality(0..n) = IF 0 > n THEN 0 ELSE n - 0 + 1
    BY <2>1, FS_Interval
  <2>3. (IF 0 > n THEN 0 ELSE n - 0 + 1) = Len(u.words)
    BY <1>2 DEF n
  <2> QED BY <2>2, <2>3 DEF n
<1>5. /\ IsFiniteSet(FillerPositions(u, TRUE))
      /\ Cardinality(FillerPositions(u, TRUE)) <= Len(u.words)
  BY <1>3, <1>4, FS_Subset
<1> QED BY <1>5, FS_CardinalityType

LEMMA AnalysisFits ==
    ASSUME NEW u \in Utterances, NEW confidence \in Percent
    PROVE  LET stored == Analysis(u, confidence) IN
           /\ stored.fillers <= Len(stored.transcript)
           /\ {stored.confidence, stored.filler_rate} \subseteq 0..100
           /\ stored.sentiment \in (-100)..100
<1> DEFINE stored == Analysis(u, confidence)
<1>1. /\ stored.fillers = Cardinality(FillerPositions(u, TRUE))
      /\ stored.transcript = u.words
      /\ stored.confidence = confidence
      /\ stored.filler_rate = FillerRate(u, TRUE)
      /\ stored.sentiment = Sentiment(u, FillerRate(u, TRUE)).score
  BY DEF Analysis
<1>2. FillerRate(u, TRUE) \in Percent
  <2>1. u.words \in Seq({"word", "filler", "like verb", "aside"})
    BY UtteranceAssumption
  <2>2. CASE Blank(u)
    BY <2>2 DEF FillerRate, Percent
  <2>3. CASE ~Blank(u)
    <3>1. Len(u.words) \in Nat \ {0}
      BY <2>1, <2>3, LenProperties, EmptySeq DEF Blank
    <3> QED BY <2>3, <3>1, FillersAreWords, RatesArePercents DEF FillerRate
  <2> QED BY <2>2, <2>3
<1>3. Sentiment(u, FillerRate(u, TRUE)).score \in {0, u.tone}
  BY DEF Sentiment, Neutral
<1>4. u.tone \in (-100)..100
  BY UtteranceAssumption
<1> HIDE DEF stored
<1>5. stored.sentiment \in (-100)..100
  <2>1. 0 \in (-100)..100
    OBVIOUS
  <2> QED BY <1>1, <1>3, <1>4, <2>1
<1> QED BY <1>1, <1>2, <1>5, FillersAreWords DEF stored, Percent

LEMMA ConfidenceIsPercent ==
    ASSUME ConfidencesAreMeans, NEW u \in Utterances, NEW provider
    PROVE  Confidence(provider, u) \in Percent
BY DEF Confidence, Whisper, GoogleSpeech, LocalWhisper, ConfidencesAreMeans, Percent

-----------------------------------------------------------------------------
(* Frames.                                                                 *)

\* The rows are of the answer as long as that does not change under them.
LEMMA AnalyticsFrame ==
    ASSUME AnalyticsInv, UNCHANGED analyticsVars,
           exchange # NoExchange => exchange' # NoExchange /\ answer' = answer
    PROVE  AnalyticsInv'
<1>1. \A stored : Stored(stored) => Stored(stored)'
  BY DEF Stored
<1>2. analytics' = analytics /\ draft' = draft /\ writing' = writing
  BY DEF analyticsVars
<1> QED BY <1>1, <1>2 DEF AnalyticsInv, WriterInv, Stored

\* A question of which the state and the count are left alone.
LEMMA QuestionFrame ==
    ASSUME Types, QuestionInv, AnswerInv,
           question' \in QuestionType,
           question'.state = question.state, question'.locked = question.locked,
           question'.count = question.count,
           UNCHANGED <<policy, asked, answer, exchange>>
    PROVE  QuestionInv' /\ AnswerInv'
BY DEF QuestionInv, AnswerInv, ClarificationsAreFair, NoAnswerYet, NoExchange

\* What a step never does to a settled question and to a final transcript.
Settles ==
    /\ question.locked => question'.locked /\ answer' = answer
    /\ analytics.finalized => analytics' = analytics

-----------------------------------------------------------------------------
(* The steps.                                                              *)

LEMMA Initially == VoiceInit => SpokenInv
<1> SUFFICES ASSUME VoiceInit PROVE SpokenInv
  OBVIOUS
<1>1. Types
  <2>1. question \in QuestionType
    BY DEF VoiceInit, NewQuestion, QuestionType, Open, MaxClarifications
  <2>2. policy \in PolicyType
    BY EmptySeq DEF VoiceInit, NewPolicy, PolicyType
  <2>3. voice \in VoiceType /\ voice.at = "silence"
    BY DEF VoiceInit, Silence, VoiceType, Percent
  <2> QED BY <2>1, <2>2, <2>3 DEF Types, VoiceInit
<1>2. QuestionInv
  <2>1. Len(policy.log) = 0 /\ policy.count = 0 /\ DOMAIN policy.log = {}
    BY DEF VoiceInit, NewPolicy
  <2>2. question.state = "ASKED" /\ question.count = 0 /\ ~question.locked /\ asked = 0
    BY DEF VoiceInit, NewQuestion
  <2> QED BY <2>1, <2>2 DEF QuestionInv, ClarificationsAreFair, Settled, MaxClarifications
<1>3. AnswerInv
  BY DEF VoiceInit, AnswerInv
<1>4. AnalyticsInv
  BY DEF VoiceInit, AnalyticsInit, AnalyticsInv, WriterInv, Idle
<1> QED BY <1>1, <1>2, <1>3, <1>4 DEF SpokenInv

VoiceTyped(v) == v \in VoiceType /\ (v.at # "silence" => v.heard \in Utterances)

\* Speaking and transcribing are no business of the question.
LEMMA VoiceStep ==
    ASSUME SpokenInv, ConfidencesAreMeans,
           (\E u \in Utterances : Speak(u)) \/ GetProvider \/ AttemptFails \/ Transcribed
    PROVE  SpokenInv' /\ Settles
<1>1. UNCHANGED <<question, policy, asked, answer, exchange>> /\ UNCHANGED analyticsVars
  BY DEF Speak, GetProvider, AttemptFails, Transcribed
<1>2. VoiceTyped(voice')
  <2>1. VoiceTyped(voice) /\ VoiceTyped(Silence) /\ voice.provider + 1 \in Nat /\ voice.attempt + 1 \in Nat
    BY DEF SpokenInv, Types, VoiceTyped, VoiceType, Silence, Percent
  <2>2. ASSUME NEW u \in Utterances, Speak(u)
        PROVE  VoiceTyped(voice')
    <3>1. voice' = [at |-> "provider", heard |-> u, provider |-> 1, attempt |-> 0, confidence |-> 0]
      BY <2>2 DEF Speak, Silence
    <3> QED BY <3>1 DEF VoiceTyped, VoiceType, Percent
  <2>3. CASE GetProvider
    <3>1. voice.at = "provider"
      BY <2>3 DEF GetProvider, Hears
    <3>2. \/ voice' = Silence
          \/ voice' = [voice EXCEPT !.at = "transcribe", !.attempt = 1]
          \/ voice' = [voice EXCEPT !.provider = voice.provider + 1]
      BY <2>3 DEF GetProvider
    <3>3. VoiceTyped([voice EXCEPT !.at = "transcribe", !.attempt = 1])
      BY <2>1, <3>1 DEF VoiceTyped, VoiceType
    <3>4. VoiceTyped([voice EXCEPT !.provider = voice.provider + 1])
      BY <2>1, <3>1 DEF VoiceTyped, VoiceType
    <3> QED BY <2>1, <3>2, <3>3, <3>4
  <2>4. CASE AttemptFails
    <3>1. voice.at = "transcribe"
      BY <2>4 DEF AttemptFails, Hears
    <3>2. \/ voice' = [voice EXCEPT !.attempt = voice.attempt + 1]
          \/ voice' = [voice EXCEPT !.at = "provider", !.provider = voice.provider + 1]
      BY <2>4 DEF AttemptFails
    <3>3. VoiceTyped([voice EXCEPT !.attempt = voice.attempt + 1])
      BY <2>1, <3>1 DEF VoiceTyped, VoiceType
    <3>4. VoiceTyped([voice EXCEPT !.at = "provider", !.provider = voice.provider + 1])
      BY <2>1, <3>1 DEF VoiceTyped, VoiceType
    <3> QED BY <3>2, <3>3, <3>4
  <2>5. CASE Transcribed
    <3>1. voice.at = "transcribe" /\ voice.heard \in Utterances
      BY <2>1, <2>5 DEF Transcribed, Hears, VoiceTyped
    <3>2. Confidence(Chain[voice.provider].name, voice.heard) \in Percent
      BY <3>1, ConfidenceIsPercent
    <3>3. ASSUME NEW c \in Percent
          PROVE  VoiceTyped([voice EXCEPT !.at = "classify", !.provider = 0, !.attempt = 0,
                                          !.confidence = c])
      BY <2>1, <3>1 DEF VoiceTyped, VoiceType
    <3> QED BY <2>5, <3>2, <3>3 DEF Transcribed
  <2> QED BY <2>2, <2>3, <2>4, <2>5
<1>3. Types'
  BY <1>1, <1>2 DEF SpokenInv, Types, VoiceTyped
<1>4. QuestionInv' /\ AnswerInv'
  BY <1>1, QuestionFrame DEF SpokenInv, Types
<1>5. AnalyticsInv'
  BY <1>1, AnalyticsFrame DEF SpokenInv
<1>6. Settles
  BY <1>1 DEF Settles, analyticsVars
<1> QED BY <1>3, <1>4, <1>5, <1>6 DEF SpokenInv

\* An utterance is over once it has been classified.
LEMMA ClassifiedSound ==
    ASSUME Types, NEW intent \in Intents, Classified(intent)
    PROVE  /\ voice.heard \in Utterances /\ voice.confidence \in Percent
           /\ VoiceTyped(voice')
           /\ exchange' = exchange /\ UNCHANGED analyticsVars
<1>1. voice.at = "classify" /\ voice' = Silence /\ exchange' = exchange /\ UNCHANGED analyticsVars
  BY DEF Classified, Hears
<1>2. VoiceTyped(Silence)
  BY DEF VoiceTyped, VoiceType, Silence, Percent
<1> QED BY <1>1, <1>2 DEF Types, VoiceType

LEMMA HearClarificationStep ==
    ASSUME SpokenInv, HearClarification
    PROVE  SpokenInv' /\ Settles
<1> DEFINE q == Record(question, "CLARIFICATION")
<1> USE DEF SpokenInv
<1>1. /\ question' = RequestClarification(q)
      /\ asked' = asked + (IF policy.count < MaxClarifications /\ Granted(question) THEN 1 ELSE 0)
      /\ UNCHANGED <<policy, answer>>
  BY DEF HearClarification
<1>2. VoiceTyped(voice') /\ exchange' = exchange /\ UNCHANGED analyticsVars
  BY ClassifiedSound DEF HearClarification, Intents
<1>3. /\ q \in QuestionType /\ q.state = question.state
      /\ q.locked = question.locked /\ q.count = question.count
  BY RecordSound DEF Types, Intents
<1>4. Granted(q) = Granted(question)
  BY <1>3 DEF Granted
<1> HIDE DEF q
<1>5. /\ question' \in QuestionType
      /\ question'.locked <=> question'.state \in Settled
      /\ question.locked => question'.locked
      /\ question.count <= question'.count /\ question'.count <= MaxClarifications
      /\ IF Granted(question)
         THEN /\ question.state = "WAITING_INPUT" /\ question'.state = "CLARIFICATION_REQUESTED"
              /\ question'.count = question.count + 1
         ELSE question'.state = question.state \/ question'.state = "ANSWER_SUBMITTED"
      /\ question.state \in Settled => question'.state = question.state
  BY <1>1, <1>3, <1>4, RequestSound DEF QuestionInv
<1>6. question.count \in Nat /\ question'.count \in Nat /\ asked \in Nat /\ Len(policy.log) \in Nat
  BY <1>5 DEF Types, QuestionType, PolicyType, MaxClarifications
\* What the machine grants, the policy does not refuse.
<1>7. asked' = asked + (IF Granted(question) THEN 1 ELSE 0)
  BY <1>1, <1>6 DEF QuestionInv, ClarificationsAreFair, Granted, MaxClarifications
<1>8. Types'
  BY <1>1, <1>2, <1>5, <1>6, <1>7 DEF Types, VoiceTyped
<1>9. QuestionInv'
  <2>1. /\ Len(policy.log) + asked' <= question'.count
        /\ asked' <= 1
        /\ question'.state = "CLARIFICATION_REQUESTED" => asked' = 1
        /\ question'.state \in {"ASKED", "WAITING_INPUT"} => asked' = 0
    <3>1. /\ Len(policy.log) + asked <= question.count /\ asked <= 1
          /\ question.state = "CLARIFICATION_REQUESTED" => asked = 1
          /\ question.state \in {"ASKED", "WAITING_INPUT"} => asked = 0
      BY DEF QuestionInv, ClarificationsAreFair
    <3>2. CASE Granted(question)
      <4>1. asked = 0 /\ asked' = 1
        BY <1>5, <1>7, <3>1, <3>2
      <4> QED BY <1>5, <1>6, <3>1, <3>2, <4>1
    <3>3. CASE ~Granted(question)
      BY <1>5, <1>6, <1>7, <3>1, <3>3
    <3> QED BY <3>2, <3>3
  <2> QED BY <1>1, <1>5, <2>1 DEF QuestionInv, ClarificationsAreFair
<1>10. AnswerInv'
  <2>1. exchange # NoExchange => asked' = asked /\ question'.state = question.state
    BY <1>5, <1>6, <1>7 DEF AnswerInv, Settled
  <2> QED BY <1>1, <1>2, <1>5, <2>1 DEF AnswerInv, NoExchange, NoAnswerYet
<1>11. AnalyticsInv'
  BY <1>1, <1>2, AnalyticsFrame
<1>12. Settles
  BY <1>1, <1>2, <1>5 DEF Settles, analyticsVars
<1> QED BY <1>8, <1>9, <1>10, <1>11, <1>12

LEMMA HearAnswerStep ==
    ASSUME SpokenInv, HearAnswer
    PROVE  SpokenInv' /\ Settles
<1> DEFINE q == Record(question, "ANSWER")
<1> USE DEF SpokenInv
<1>1. /\ question' = TransitionTo(q, "ANSWER_SUBMITTED")
      /\ answer' = IF <<question.state, "ANSWER_SUBMITTED">> \in Transitions
                   THEN <<voice.heard, voice.confidence>> ELSE answer
      /\ UNCHANGED <<policy, asked>>
  BY DEF HearAnswer
<1>2. /\ voice.heard \in Utterances /\ voice.confidence \in Percent
      /\ VoiceTyped(voice') /\ exchange' = exchange /\ UNCHANGED analyticsVars
  BY ClassifiedSound DEF HearAnswer, Intents
<1>3. /\ q \in QuestionType /\ q.state = question.state
      /\ q.locked = question.locked /\ q.count = question.count
  BY RecordSound DEF Types, Intents
<1> HIDE DEF q
<1>4. /\ question' \in QuestionType
      /\ question'.locked <=> question'.state \in Settled
      /\ question.locked => question'.locked
      /\ question'.count = question.count
      /\ IF <<question.state, "ANSWER_SUBMITTED">> \in Transitions
         THEN question'.state = "ANSWER_SUBMITTED" ELSE question' = q
  BY <1>1, <1>3, TransitionToSound DEF QuestionInv
<1>5. <<question.state, "ANSWER_SUBMITTED">> \in Transitions => question.state \in Open
  BY DEF Transitions, Open
<1>6. Open \cap Settled = {} /\ "ANSWER_SUBMITTED" \in Settled
  BY DEF Open, Settled
<1>7. question.locked => question'.state = question.state /\ answer' = answer
  BY <1>1, <1>3, <1>4, <1>5, <1>6 DEF QuestionInv
<1>8. Types'
  BY <1>1, <1>2, <1>4 DEF Types, VoiceTyped
<1>9. QuestionInv'
  BY <1>1, <1>3, <1>4 DEF QuestionInv, ClarificationsAreFair
<1>10. exchange # NoExchange => question.locked
  BY DEF AnswerInv
<1>11. AnswerInv'
  <2>1. CASE question.locked
    BY <1>1, <1>2, <1>4, <1>7, <2>1 DEF AnswerInv, NoExchange, NoAnswerYet
  <2>2. CASE ~question.locked
    <3>1. answer = NoAnswerYet /\ exchange' = NoExchange
      BY <1>2, <1>10, <2>2 DEF AnswerInv, NoExchange, NoAnswerYet
    <3>2. \/ answer' = NoAnswerYet
          \/ answer' = <<voice.heard, voice.confidence>> /\ question'.locked
      BY <1>1, <1>4, <1>6, <3>1
    <3> QED BY <1>2, <3>1, <3>2 DEF AnswerInv, NoExchange, NoAnswerYet
  <2> QED BY <2>1, <2>2
<1>12. AnalyticsInv'
  BY <1>2, <1>7, <1>10, AnalyticsFrame
<1>13. Settles
  BY <1>2, <1>4, <1>7 DEF Settles, analyticsVars
<1> QED BY <1>8, <1>9, <1>11, <1>12, <1>13

LEMMA HearOtherStep ==
    ASSUME SpokenInv, HearOther
    PROVE  SpokenInv' /\ Settles
<1> USE DEF SpokenInv
<1> PICK intent \in Intents \ {"CLARIFICATION", "ANSWER"} :
          Classified(intent) /\ question' = Record(question, intent)
  BY DEF HearOther
<1>1. UNCHANGED <<policy, asked, answer>>
  BY DEF HearOther
<1>2. VoiceTyped(voice') /\ exchange' = exchange /\ UNCHANGED analyticsVars
  BY ClassifiedSound
<1>3. /\ question' \in QuestionType /\ question'.state = question.state
      /\ question'.locked = question.locked /\ question'.count = question.count
  BY RecordSound DEF Types
<1>4. Types'
  BY <1>1, <1>2, <1>3 DEF Types, VoiceTyped
<1>5. QuestionInv' /\ AnswerInv'
  BY <1>1, <1>2, <1>3, QuestionFrame
<1>6. AnalyticsInv'
  BY <1>1, <1>2, AnalyticsFrame
<1>7. Settles
  BY <1>1, <1>2, <1>3 DEF Settles, analyticsVars
<1> QED BY <1>4, <1>5, <1>6, <1>7

\* Putting the question, the window after the answer, the next question.
LEMMA ProceedStep ==
    ASSUME SpokenInv, Proceed
    PROVE  SpokenInv' /\ Settles
<1> USE DEF SpokenInv
<1>1. UNCHANGED <<policy, asked, voice, answer, exchange>> /\ UNCHANGED analyticsVars
  BY DEF Proceed
<1>2. \E target \in {"WAITING_INPUT", "POST_ANSWER_WINDOW", "NEXT_QUESTION"} :
         Moves(target) /\ (target = "WAITING_INPUT" => question.state = "ASKED")
  BY DEF Proceed
<1> PICK target \in {"WAITING_INPUT", "POST_ANSWER_WINDOW", "NEXT_QUESTION"} :
         Moves(target) /\ (target = "WAITING_INPUT" => question.state = "ASKED")
  BY <1>2
<1>3. /\ question' \in QuestionType
      /\ question'.locked <=> question'.state \in Settled
      /\ question.locked => question'.locked
      /\ question'.count = question.count
      /\ question'.state = target
      /\ <<question.state, target>> \in Transitions
  BY TransitionToSound DEF Moves, Types, QuestionInv
<1>4. Types'
  BY <1>1, <1>3 DEF Types
<1>5. QuestionInv'
  <2>1. target = "WAITING_INPUT" => asked = 0
    BY DEF QuestionInv
  <2> QED BY <1>1, <1>3, <2>1 DEF QuestionInv, ClarificationsAreFair
<1>6. exchange # NoExchange => question'.state \in {"EVALUATED", "NEXT_QUESTION"}
  BY <1>3 DEF AnswerInv, Transitions
<1>7. AnswerInv'
  BY <1>1, <1>3, <1>6 DEF AnswerInv, NoExchange, NoAnswerYet
<1>8. AnalyticsInv'
  BY <1>1, AnalyticsFrame
<1>9. Settles
  BY <1>1, <1>3 DEF Settles, analyticsVars
<1> QED BY <1>4, <1>5, <1>7, <1>8, <1>9

\* The exchange is stored once, with what has been counted so far.
LEMMA EvaluateStep ==
    ASSUME SpokenInv, Evaluate
    PROVE  SpokenInv' /\ Settles
<1> USE DEF SpokenInv
<1>1. UNCHANGED <<policy, asked, voice, answer>> /\ UNCHANGED analyticsVars
  BY DEF Evaluate
<1>2. /\ question' \in QuestionType
      /\ question'.locked <=> question'.state \in Settled
      /\ question.locked => question'.locked
      /\ question'.count = question.count
      /\ question'.state = "EVALUATED"
      /\ <<question.state, "EVALUATED">> \in Transitions
  BY TransitionToSound DEF Evaluate, Moves, Types, QuestionInv
<1>3. exchange = NoExchange
  BY <1>2 DEF AnswerInv, Transitions
<1>4. Types'
  BY <1>1, <1>2 DEF Types
<1>5. QuestionInv'
  BY <1>1, <1>2 DEF QuestionInv, ClarificationsAreFair
<1>6. AnswerInv'
  <2>1. exchange' # NoExchange =>
           /\ answer # NoAnswerYet /\ exchange'.answer = answer
           /\ exchange'.metadata.clarification_count = question.count
    BY DEF Evaluate, Metadata
  <2>2. Len(policy.log) + asked <= question.count /\ question.count \in Nat
    BY DEF QuestionInv, ClarificationsAreFair, Types, QuestionType, MaxClarifications
  <2> QED BY <1>1, <1>2, <2>1, <2>2 DEF AnswerInv, NoExchange, NoAnswerYet
<1>7. AnalyticsInv'
  BY <1>1, <1>3, AnalyticsFrame
<1>8. Settles
  BY <1>1, <1>2 DEF Settles, analyticsVars
<1> QED BY <1>4, <1>5, <1>6, <1>7, <1>8

\* What is generated was asked for, and is counted by the policy instead.
LEMMA ClarifyStep ==
    ASSUME SpokenInv, NEW r \in Replies, Clarify(r)
    PROVE  SpokenInv' /\ Settles
<1> USE DEF SpokenInv
<1>1. /\ asked > 0 /\ asked' = asked - 1
      /\ policy' = ValidateResponse(policy, r)
      /\ question' = TransitionTo(question, "WAITING_INPUT")
      /\ UNCHANGED <<voice, answer, exchange>> /\ UNCHANGED analyticsVars
  BY DEF Clarify
<1>2. /\ question' \in QuestionType
      /\ question'.locked <=> question'.state \in Settled
      /\ question.locked => question'.locked
      /\ question'.count = question.count
      /\ IF <<question.state, "WAITING_INPUT">> \in Transitions
         THEN question'.state = "WAITING_INPUT" ELSE question' = question
  BY <1>1, TransitionToSound DEF Types, QuestionInv
<1>3. /\ policy' \in PolicyType
      /\ policy'.count = Len(policy'.log) /\ Len(policy'.log) = Len(policy.log) + 1
      /\ policy'.analogy = (policy.analogy \/ r.analogy)
      /\ DOMAIN policy'.log = DOMAIN policy.log \cup {Len(policy'.log)}
      /\ \A i \in DOMAIN policy.log : policy'.log[i] = policy.log[i]
      /\ policy'.log[Len(policy'.log)].reply = r
      /\ policy'.log[Len(policy'.log)].violates = Violates(policy, r)
  BY <1>1, NewEntry DEF Types, QuestionInv
<1>4. asked = 1 /\ asked' = 0
  BY <1>1 DEF Types, QuestionInv, ClarificationsAreFair
<1>5. Len(policy.log) \in Nat /\ DOMAIN policy.log = 1..Len(policy.log)
  BY LenProperties DEF Types, PolicyType
<1>6. question'.state # "CLARIFICATION_REQUESTED"
  BY <1>2 DEF Transitions
<1>7. Types'
  BY <1>1, <1>2, <1>3, <1>4 DEF Types
<1>8. \A i \in DOMAIN policy'.log : policy'.log[i].reply.analogy => policy'.analogy
  BY <1>3 DEF QuestionInv
<1>9. ASSUME NEW i \in DOMAIN policy'.log, ~policy'.log[i].violates
      PROVE  /\ ~policy'.log[i].reply.hint /\ policy'.log[i].reply.words <= MaxWords
             /\ \A j \in 1..(i - 1) : ~(policy'.log[i].reply.analogy /\ policy'.log[j].reply.analogy)
  <2>1. CASE i \in DOMAIN policy.log
    <3>1. \A j \in 1..(i - 1) : j \in DOMAIN policy.log
      BY <1>5, <2>1
    <3> QED BY <1>3, <1>9, <2>1, <3>1 DEF QuestionInv, ClarificationsAreFair
  <2>2. CASE i = Len(policy.log) + 1
    <3>1. ~Violates(policy, r) /\ policy'.log[i].reply = r
      BY <1>3, <1>9, <2>2
    <3>2. r.words \in Nat
      BY ReplyAssumption
    <3>3. ~r.hint /\ r.words <= MaxWords /\ ~(r.analogy /\ policy.analogy)
      BY <3>1, <3>2 DEF Violates, MaxWords
    <3>4. \A j \in 1..(i - 1) : j \in DOMAIN policy.log /\ policy'.log[j] = policy.log[j]
      BY <1>3, <1>5, <2>2
    <3>5. \A j \in 1..(i - 1) : policy'.log[j].reply.analogy => policy.analogy
      BY <3>4 DEF QuestionInv
    <3> QED BY <3>1, <3>3, <3>5
  <2> QED BY <1>3, <2>1, <2>2
<1>10. QuestionInv'
  <2>1. Len(policy'.log) + asked' <= question'.count /\ question'.count <= MaxClarifications
    BY <1>2, <1>3, <1>4, <1>5 DEF QuestionInv, ClarificationsAreFair
  <2>2. question'.state = "ASKED" => asked' = 0
    BY <1>4
  <2> QED BY <1>2, <1>3, <1>4, <1>6, <1>8, <1>9, <2>1, <2>2 DEF QuestionInv, ClarificationsAreFair
<1>11. AnswerInv'
  <2>1. Len(policy'.log) + asked' = Len(policy.log) + asked
    BY <1>3, <1>4, <1>5
  <2>2. question.state \in Settled => question' = question
    BY <1>2 DEF Settled, Transitions
  <2>3. exchange # NoExchange => question' = question
    BY <2>2 DEF AnswerInv, Settled
  <2> QED BY <1>1, <1>2, <2>1, <2>3 DEF AnswerInv, NoExchange, NoAnswerYet
<1>12. AnalyticsInv'
  BY <1>1, AnalyticsFrame
<1>13. Settles
  BY <1>1, <1>2 DEF Settles, analyticsVars
<1> QED BY <1>7, <1>10, <1>11, <1>12, <1>13

-----------------------------------------------------------------------------
(* The writers of the row.                                                 *)

LEMMA SeesSound ==
    ASSUME AnalyticsInv, NEW w \in Writers, writing[w].at = "open"
    PROVE  /\ Stored(Sees(w))
           /\ analytics.finalized => Sees(w) = analytics
<1>1. WriterInv(w)
  BY DEF AnalyticsInv
<1>2. CASE writing[w].locks
  BY <1>1, <1>2 DEF WriterInv, Sees
<1>3. CASE ~writing[w].locks
  BY <1>1, <1>3 DEF WriterInv, AnalyticsInv, Sees
<1> QED BY <1>2, <1>3 DEF AnalyticsInv, WriterInv

\* The lock is taken by a writer to whom the row is free, for a draft that is
\* the row if that is final.
LEMMA HoldingSound ==
    ASSUME AnalyticsInv, NEW w \in Writers, Free(w), NEW stored, Stored(stored), Holding(w, stored),
           analytics.finalized => stored = analytics,
           UNCHANGED voiceVars
    PROVE  AnalyticsInv' /\ analytics' = analytics
<1>1. /\ draft' = stored /\ analytics' = analytics
      /\ writing' = [writing EXCEPT ![w] = [at |-> "open", locks |-> TRUE]]
  BY DEF Holding
<1>2. exchange' = exchange /\ answer' = answer
  BY DEF voiceVars
<1>3. \A x : Stored(x) => Stored(x)'
  BY <1>2 DEF Stored
<1>4. \A v \in Writers \ {w} : ~writing[v].locks
  BY DEF Free
<1>5. writing' \in [Writers -> [at : {"idle", "open"}, locks : BOOLEAN]]
  BY <1>1 DEF AnalyticsInv
<1>6. writing'[w].locks /\ writing'[w].at = "open"
  BY <1>1 DEF AnalyticsInv
<1>7. \A v \in Writers \ {w} : writing'[v] = writing[v]
  BY <1>1 DEF AnalyticsInv
<1>8. WriterInv(w)'
  BY <1>1, <1>3, <1>4, <1>6, <1>7 DEF WriterInv, Stored
<1>9. \A v \in Writers \ {w} : WriterInv(v)'
  BY <1>1, <1>4, <1>7 DEF AnalyticsInv, WriterInv
<1> QED BY <1>1, <1>3, <1>5, <1>8, <1>9 DEF AnalyticsInv, Stored

\* A writer that has come to its end gives back what it holds.
LEMMA EndSound ==
    ASSUME AnalyticsInv, NEW w \in Writers, writing[w].at = "open",
           analytics' \in {analytics, Sees(w)},
           draft' = (IF writing[w].locks THEN NoRow ELSE draft),
           writing' = [writing EXCEPT ![w] = Idle],
           UNCHANGED voiceVars
    PROVE  AnalyticsInv' /\ (analytics.finalized => analytics' = analytics)
<1>1. exchange' = exchange /\ answer' = answer
  BY DEF voiceVars
<1>2. \A x : Stored(x) => Stored(x)'
  BY <1>1 DEF Stored
<1>3. Stored(Sees(w)) /\ (analytics.finalized => Sees(w) = analytics)
  BY SeesSound
<1>4. \A x : Stored(x) => x # NoRow
  BY DEF Stored, NoRow
<1>5. writing' \in [Writers -> [at : {"idle", "open"}, locks : BOOLEAN]]
  BY DEF AnalyticsInv, Idle
<1>6. writing'[w] = Idle /\ \A v \in Writers \ {w} : writing'[v] = writing[v]
  BY DEF AnalyticsInv
<1>7. analytics' = NoRow \/ Stored(analytics)'
  BY <1>2, <1>3 DEF AnalyticsInv
<1>8. analytics # NoRow => analytics' # NoRow
  BY <1>3, <1>4
<1>9. WriterInv(w)'
  BY <1>6 DEF WriterInv, Idle
<1>10. ASSUME NEW v \in Writers \ {w} PROVE WriterInv(v)'
  <2>1. WriterInv(v) /\ WriterInv(w) /\ writing'[v] = writing[v]
    BY <1>6 DEF AnalyticsInv
  <2>2. CASE writing[v].locks
    <3>1. ~writing[w].locks
      BY <2>1, <2>2 DEF WriterInv
    <3>2. draft' = draft /\ analytics' = analytics
      BY <3>1 DEF Sees
    <3>3. \A u \in Writers : writing'[u].locks => u = v
      BY <1>6, <2>1, <2>2 DEF WriterInv, Idle
    <3> QED BY <1>2, <2>1, <2>2, <3>2, <3>3 DEF WriterInv
  <2>3. CASE ~writing[v].locks
    BY <1>8, <2>1, <2>3 DEF WriterInv
  <2> QED BY <2>2, <2>3
<1> QED BY <1>3, <1>5, <1>7, <1>9, <1>10 DEF AnalyticsInv

LEMMA WriterStepSound ==
    ASSUME SpokenInv, NEW w \in Writers, WriterStep(w) \/ (Analyse(w)), UNCHANGED voiceVars
    PROVE  SpokenInv' /\ Settles
<1> USE DEF SpokenInv
<1>1. Types' /\ QuestionInv' /\ AnswerInv'
  BY DEF voiceVars, Types, QuestionInv, AnswerInv, ClarificationsAreFair
<1>2. question' = question /\ answer' = answer
  BY DEF voiceVars
<1>3. AnalyticsInv' /\ (analytics.finalized => analytics' = analytics)
  <2>1. CASE Analyse(w)
    <3> DEFINE stored == [data |-> Analysis(exchange.answer[1], exchange.answer[2]),
                       revision |-> 1, finalized |-> FALSE]
    <3>1. exchange # NoExchange /\ Free(w) /\ analytics = NoRow /\ Holding(w, stored)
      BY <2>1 DEF Analyse, Create
    <3>2. Stored(stored)
      BY <3>1 DEF AnswerInv, Stored
    <3>3. ~analytics.finalized
      BY <3>1 DEF NoRow
    <3> HIDE DEF stored
    <3> QED BY <3>1, <3>2, <3>3, HoldingSound
  <2>2. CASE GetExisting(w)
    <3>1. /\ analytics # NoRow /\ analytics' = analytics /\ draft' = draft /\ Free(w)
          /\ writing[w].at = "idle"
          /\ writing' = [writing EXCEPT ![w].at = "open"]
      BY <2>2 DEF GetExisting, Doing
    <3>2. exchange' = exchange
      BY DEF voiceVars
    <3>3. \A x : Stored(x) => Stored(x)'
      BY <1>2, <3>2 DEF Stored
    <3>4. writing' \in [Writers -> [at : {"idle", "open"}, locks : BOOLEAN]]
      BY <3>1 DEF AnalyticsInv
    <3>5. \A v \in Writers : writing'[v].locks = writing[v].locks
      BY <3>1 DEF AnalyticsInv
    <3>6. \A v \in Writers : WriterInv(v)'
      BY <3>1, <3>3, <3>5 DEF AnalyticsInv, WriterInv
    <3> QED BY <3>1, <3>3, <3>4, <3>6 DEF AnalyticsInv
  <2>3. CASE Update(w)
    <3> DEFINE stored == [Sees(w) EXCEPT !.revision = Sees(w).revision + 1]
    <3>1. writing[w].at = "open" /\ Free(w) /\ ~Sees(w).finalized /\ Holding(w, stored)
      BY <2>3 DEF Update, Doing
    <3>2. Stored(Sees(w)) /\ (analytics.finalized => Sees(w) = analytics)
      BY <3>1, SeesSound
    <3>3. Stored(stored)
      BY <3>2 DEF Stored
    <3>4. ~analytics.finalized
      BY <3>1, <3>2
    <3> HIDE DEF stored
    <3> QED BY <3>1, <3>3, <3>4, HoldingSound
  <2>4. CASE Finalize(w)
    <3> DEFINE stored == [Sees(w) EXCEPT !.finalized = TRUE]
    <3>1. writing[w].at = "open" /\ Free(w) /\ Holding(w, stored)
      BY <2>4 DEF Finalize, Doing
    <3>2. Stored(Sees(w)) /\ (analytics.finalized => Sees(w) = analytics)
      BY <3>1, SeesSound
    <3>3. Stored(stored) /\ (Sees(w).finalized => stored = Sees(w))
      BY <3>2 DEF Stored
    <3> HIDE DEF stored
    <3> QED BY <3>1, <3>2, <3>3, HoldingSound
  <2>5. CASE CommitRow(w)
    BY <2>5, EndSound DEF CommitRow, Doing
  <2>6. CASE RollbackRow(w)
    BY <2>6, EndSound DEF RollbackRow, Doing
  <2> QED BY <2>1, <2>2, <2>3, <2>4, <2>5, <2>6 DEF WriterStep
<1> QED BY <1>1, <1>2, <1>3 DEF Settles

-----------------------------------------------------------------------------
(* The theorems.                                                           *)

LEMMA SpokenStep ==
    ASSUME ConfidencesAreMeans, SpokenInv, [VoiceNext]_spokenVars
    PROVE  SpokenInv' /\ [Settles]_spokenVars
<1>1. ASSUME VoiceNext PROVE SpokenInv' /\ Settles
  <2>1. CASE (\E u \in Utterances : Speak(u)) \/ GetProvider \/ AttemptFails \/ Transcribed
    BY <2>1, VoiceStep
  <2>2. CASE HearClarification
    BY <2>2, HearClarificationStep
  <2>3. CASE HearAnswer
    BY <2>3, HearAnswerStep
  <2>4. CASE HearOther
    BY <2>4, HearOtherStep
  <2>5. CASE Proceed
    BY <2>5, ProceedStep
  <2>6. CASE Evaluate
    BY <2>6, EvaluateStep
  <2>7. CASE \E r \in Replies : Clarify(r)
    BY <2>7, ClarifyStep
  <2>8. CASE \E w \in Writers : Analyse(w) \/ (WriterStep(w) /\ UNCHANGED voiceVars)
    <3>1. \A w \in Writers : Analyse(w) => UNCHANGED voiceVars
      BY DEF Analyse
    <3> QED BY <2>8, <3>1, WriterStepSound
  <2> QED BY <1>1, <2>1, <2>2, <2>3, <2>4, <2>5, <2>6, <2>7, <2>8 DEF VoiceNext
<1>2. ASSUME UNCHANGED spokenVars PROVE SpokenInv'
  <2>1. /\ UNCHANGED <<question, policy, asked, voice, answer, exchange>>
        /\ UNCHANGED analyticsVars
    BY <1>2 DEF spokenVars, voiceVars
  <2>2. Types' /\ QuestionInv' /\ AnswerInv'
    BY <2>1 DEF SpokenInv, Types, QuestionInv, AnswerInv, ClarificationsAreFair
  <2>3. AnalyticsInv'
    BY <2>1, AnalyticsFrame DEF SpokenInv
  <2> QED BY <2>2, <2>3 DEF SpokenInv
<1> QED BY <1>1, <1>2

\* What is stored satisfies the constraints of its table.
LEMMA StoredFits == SpokenInv => ClarificationsAreFair /\ StoredIsOfTheAnswer
<1> SUFFICES ASSUME SpokenInv PROVE ClarificationsAreFair /\ StoredIsOfTheAnswer
  OBVIOUS
<1> USE DEF SpokenInv
<1>1. exchange # NoExchange =>
         /\ question.locked /\ exchange.answer = answer
         /\ Len(policy.log) <= exchange.metadata.clarification_count
  <2>1. Len(policy.log) \in Nat /\ asked \in Nat
    BY LenProperties DEF Types, PolicyType
  <2> QED BY <2>1 DEF AnswerInv
<1>2. ASSUME analytics # NoRow
      PROVE  LET stored == analytics.data
             IN  /\ stored = Analysis(answer[1], answer[2])
                 /\ stored.fillers <= Len(stored.transcript)
                 /\ {stored.confidence, stored.filler_rate} \subseteq 0..100 /\ stored.sentiment \in (-100)..100
  <2>1. Stored(analytics)
    BY <1>2 DEF AnalyticsInv
  <2>2. analytics.data = Analysis(answer[1], answer[2])
    BY <2>1 DEF Stored
  <2>3. answer[1] \in Utterances /\ answer[2] \in Percent
    BY <2>1 DEF Stored, AnswerInv
  <2> QED BY <2>2, <2>3, AnalysisFits
<1> QED BY <1>1, <1>2 DEF StoredIsOfTheAnswer, QuestionInv

\* The invariant: counts, answer and stored rows fit together, whoever speaks,
\* generates or writes at the same time.
THEOREM SpokenInvariance ==
    ASSUME ConfidencesAreMeans
    PROVE  VoiceSpec => []SpokenInv
<1>1. SpokenInv /\ [VoiceNext]_spokenVars => SpokenInv'
  BY SpokenStep
<1> QED BY <1>1, Initially, PTL DEF VoiceSpec

\* Clarifications are fair, what is stored is of the answer, a question that is
\* locked keeps its answer and a finalized transcript is never changed.
THEOREM AnswersAreSettled ==
    ASSUME ConfidencesAreMeans
    PROVE  VoiceSpec => SpokenAnswersAreSettled
<1>1. SpokenInv => ClarificationsAreFair /\ StoredIsOfTheAnswer
  BY StoredFits
<1>2. SpokenInv /\ [VoiceNext]_spokenVars
        => [/\ question.locked => question'.locked /\ answer' = answer
            /\ analytics.finalized => analytics' = analytics]_spokenVars
  BY SpokenStep DEF Settles
<1> QED BY <1>1, <1>2, SpokenInvariance, PTL DEF VoiceSpec, SpokenAnswersAreSettled

-----------------------------------------------------------------------------
(***************************************************************************)
(* The connection tables, for any number of connections and processes and  *)
(* any distribution of the ones on the others.                             *)
(***************************************************************************)
USE ConnAssumption, HomeAssumption

-----------------------------------------------------------------------------
\* The initial tables are empty.
LEMMA IndInit == Init => IndInv
BY DEF Init, IndInv, TypeOK, NoDeadEntry, MetadataIsCleanedUp, DropKeyInv,
       Steps, Registered

\* What every action of a connection but DropKey needs first: no coroutine of the
\* process stands between GET and DELETE.
LEMMA LoopOfProcess ==
    ASSUME NEW c \in Conn, LoopFree(c), NEW d \in Conn, place[d] = "drop_key"
    PROVE  Home[d] # Home[c]
BY DEF LoopFree

\* Closing a socket keeps its type.
LEMMA CloseType ==
    ASSUME sock \in [Conn -> {"connecting", "open", "closed"}], NEW c \in Conn
    PROVE  Close(c) \in [Conn -> {"connecting", "open", "closed"}]
BY DEF Close

\* A step of a coroutine that leaves the tables and the keys alone.
LEMMA TablesUntouched ==
    ASSUME IndInv, TypeOK', NEW c \in Conn, NEW s,
           UNCHANGED <<active, key, meta>>, place' = [place EXCEPT ![c] = s],
           s # "drop_key", s \in Registered \/ place[c] \notin Registered,
           place[c] # "crashed"
    PROVE  IndInv'
<1>1. place \in [Conn -> Steps]
  BY DEF IndInv, TypeOK
<1>2. /\ place'[c] = s
      /\ \A d \in Conn \ {c} : place'[d] = place[d]
  BY <1>1
<1>3. NoDeadEntry'
  BY <1>2 DEF IndInv, NoDeadEntry, TypeOK
<1>4. MetadataIsCleanedUp'
  BY <1>2 DEF IndInv, MetadataIsCleanedUp
<1>5. DropKeyInv'
  BY <1>2 DEF IndInv, DropKeyInv
<1> QED BY <1>3, <1>4, <1>5 DEF IndInv

\* Every step keeps the types.
LEMMA TypeNext == TypeOK /\ [Next]_vars => TypeOK'
<1> SUFFICES ASSUME TypeOK, [Next]_vars PROVE TypeOK'
  OBVIOUS
<1> USE DEF TypeOK, Goto, Steps, Registered, Over
<1>1. ASSUME NEW c \in Conn,
             \/ Connect(c) \/ Accept(c) \/ Register(c) \/ ConnectFails(c)
             \/ Replied(c) \/ HandleEvent(c) \/ FatalEvent(c)
             \/ CloseAfterFatal(c) \/ ReceiveRaises(c) \/ DropKey(c)
      PROVE  TypeOK'
  <2>1. Home[c] \in Process
    OBVIOUS
  <2> QED
    BY <1>1, <2>1
    DEF Connect, Accept, Register, ConnectFails, Replied, HandleEvent,
        FatalEvent, CloseAfterFatal, ReceiveRaises, DropKey
<1>2. ASSUME NEW c \in Conn, CloseOld(c) PROVE TypeOK'
  <2>1. old[c] \in Conn
    BY <1>2 DEF CloseOld
  <2> QED BY <1>2, <2>1, CloseType DEF CloseOld
<1>3. ASSUME NEW c \in Conn, Disconnect(c) PROVE TypeOK'
  BY <1>3 DEF Disconnect
<1>4. CASE KeyExpires
  BY <1>4 DEF KeyExpires
<1>5. ASSUME NEW p \in Process, Crash(p) PROVE TypeOK'
  BY <1>5 DEF Crash
<1>6. CASE UNCHANGED vars
  BY <1>6 DEF vars
<1> QED
  BY <1>1, <1>2, <1>3, <1>4, <1>5, <1>6 DEF Next, ClientGone, ErrorSent

\* Every step preserves the invariant.
LEMMA IndNext == IndInv /\ [Next]_vars => IndInv'
<1> SUFFICES ASSUME IndInv, [Next]_vars PROVE IndInv'
  OBVIOUS
<1>a. /\ TypeOK /\ TypeOK' /\ NoDeadEntry /\ MetadataIsCleanedUp /\ DropKeyInv
      /\ place \in [Conn -> Steps] /\ active \in [Process -> Conn \cup {NoConn}]
      /\ \A c \in Conn : Home[c] \in Process
  BY TypeNext DEF IndInv, TypeOK
<1> USE DEF Registered, Over, Goto
<1>1. ASSUME NEW c \in Conn,
             \/ Connect(c) \/ CloseOld(c) \/ Accept(c) \/ Replied(c)
             \/ HandleEvent(c) \/ FatalEvent(c) \/ CloseAfterFatal(c)
             \/ ReceiveRaises(c)
      PROVE  IndInv'
  <2>1. PICK s \in {"notify", "accept", "register", "receive", "reply",
                    "fatal", "error"} :
            /\ place' = [place EXCEPT ![c] = s]
            /\ s \in Registered \/ place[c] \notin Registered
    BY <1>1
    DEF Connect, CloseOld, Accept, Replied, HandleEvent, FatalEvent,
        CloseAfterFatal, ReceiveRaises
  <2>2. UNCHANGED <<active, key, meta>> /\ place[c] # "crashed"
    BY <1>1
    DEF Connect, CloseOld, Accept, Replied, HandleEvent, FatalEvent,
        CloseAfterFatal, ReceiveRaises
  <2> QED BY <1>a, <2>1, <2>2, TablesUntouched
<1>2. ASSUME NEW c \in Conn, Register(c) PROVE IndInv'
  <2>1. /\ place'[c] = "reply" /\ \A d \in Conn \ {c} : place'[d] = place[d]
        /\ key' = c /\ meta' = meta \cup {c}
        /\ active'[Home[c]] = c
        /\ \A p \in Process \ {Home[c]} : active'[p] = active[p]
    BY <1>2, <1>a DEF Register
  <2>2. NoDeadEntry'
    BY <1>a, <2>1 DEF NoDeadEntry, TypeOK
  <2>3. MetadataIsCleanedUp'
    BY <1>a, <2>1 DEF MetadataIsCleanedUp
  <2>4. DropKeyInv'
    BY <1>2, <1>a, <2>1, LoopOfProcess DEF Register, DropKeyInv
  <2> QED BY <1>a, <2>2, <2>3, <2>4 DEF IndInv
<1>3. ASSUME NEW c \in Conn, ConnectFails(c) PROVE IndInv'
  <2>1. /\ place'[c] = "failed" /\ \A d \in Conn \ {c} : place'[d] = place[d]
        /\ place[c] \in {"accept", "register"} /\ LoopFree(c)
        /\ key' \in {key, c} /\ UNCHANGED <<active, meta>>
    BY <1>3, <1>a DEF ConnectFails
  <2>2. NoDeadEntry'
    BY <1>a, <2>1 DEF NoDeadEntry, TypeOK
  <2>3. MetadataIsCleanedUp'
    BY <1>a, <2>1 DEF MetadataIsCleanedUp
  <2>4. DropKeyInv'
    BY <1>a, <2>1, LoopOfProcess DEF DropKeyInv
  <2> QED BY <1>a, <2>2, <2>3, <2>4 DEF IndInv
<1>4. ASSUME NEW c \in Conn, ClientGone(c) \/ ErrorSent(c) PROVE IndInv'
  <2>1. /\ place[c] \in {"receive", "error"} /\ LoopFree(c) /\ Disconnect(c)
    BY <1>4 DEF ClientGone, ErrorSent
  <2>2. /\ place'[c] = IF key = c THEN "drop_key" ELSE "gone"
        /\ \A d \in Conn \ {c} : place'[d] = place[d]
        /\ key' = key
        /\ meta' = IF key = c THEN meta ELSE meta \ {c}
        /\ active'[Home[c]] = NoConn
        /\ \A p \in Process \ {Home[c]} : active'[p] = active[p]
    BY <1>a, <2>1 DEF Disconnect
  <2>3. NoDeadEntry'
    BY <1>a, <2>2 DEF NoDeadEntry, TypeOK
  <2>4. MetadataIsCleanedUp'
    BY <1>a, <2>1, <2>2 DEF MetadataIsCleanedUp
  <2>5. DropKeyInv'
    BY <1>a, <2>2 DEF DropKeyInv
  <2> QED BY <1>a, <2>3, <2>4, <2>5 DEF IndInv
<1>5. ASSUME NEW c \in Conn, DropKey(c) PROVE IndInv'
  <2>1. /\ place[c] = "drop_key"
        /\ place'[c] = "gone" /\ \A d \in Conn \ {c} : place'[d] = place[d]
        /\ key' = NoConn /\ meta' = meta \ {c} /\ active' = active
    BY <1>5, <1>a DEF DropKey
  \* The table has had no entry for the process since the GET.
  <2>2. NoDeadEntry'
    BY <1>a, <2>1 DEF NoDeadEntry, DropKeyInv, TypeOK
  <2>3. MetadataIsCleanedUp'
    BY <1>a, <2>1 DEF MetadataIsCleanedUp
  <2>4. DropKeyInv'
    BY <1>a, <2>1 DEF DropKeyInv
  <2> QED BY <1>a, <2>2, <2>3, <2>4 DEF IndInv
<1>6. CASE KeyExpires
  BY <1>6, <1>a
  DEF KeyExpires, IndInv, NoDeadEntry, MetadataIsCleanedUp, DropKeyInv
<1>7. ASSUME NEW p \in Process, Crash(p) PROVE IndInv'
  <2>1. /\ \A c \in Conn :
              \/ place'[c] = place[c]
              \/ place'[c] = "crashed" /\ Home[c] = p
        /\ active'[p] = NoConn
        /\ \A q \in Process \ {p} : active'[q] = active[q]
        /\ key' = key /\ meta' = meta
    BY <1>7, <1>a DEF Crash
  <2>2. NoDeadEntry'
    BY <1>a, <2>1 DEF NoDeadEntry, TypeOK
  <2>3. MetadataIsCleanedUp'
    BY <1>a, <2>1 DEF MetadataIsCleanedUp
  <2>4. DropKeyInv'
    BY <1>a, <2>1 DEF DropKeyInv
  <2> QED BY <1>a, <2>2, <2>3, <2>4 DEF IndInv
<1>8. CASE UNCHANGED vars
  BY <1>8, <1>a
  DEF vars, IndInv, NoDeadEntry, MetadataIsCleanedUp, DropKeyInv
<1> QED
  BY <1>1, <1>2, <1>3, <1>4, <1>5, <1>6, <1>7, <1>8 DEF Next

-----------------------------------------------------------------------------
(* The theorems.                                                           *)

\* The invariant holds of every reachable state.
THEOREM ConnectionInvariance == ConnSpec => []IndInv
BY IndInit, IndNext, PTL DEF ConnSpec

\* The table of a process never names a connection whose coroutine is over.
THEOREM TableIsLive == ConnSpec => []NoDeadEntry
<1>1. IndInv => NoDeadEntry
  BY DEF IndInv
<1> QED BY <1>1, ConnectionInvariance, PTL

\* Only a crash leaves the metadata of a connection in Redis.
THEOREM MetadataIsRemoved == ConnSpec => []MetadataIsCleanedUp
<1>1. IndInv => MetadataIsCleanedUp
  BY DEF IndInv
<1> QED BY <1>1, ConnectionInvariance, PTL

\* The end of a connection never deletes the key of a neighbour in its process.
THEOREM NeighbourKeepsKey == ConnSpec => SameProcessKeySurvives
<1> DEFINE A == \A c \in Conn : DropKey(c) =>
                   key \in {c, NoConn} \/ Home[key] # Home[c]
<1>1. IndInv /\ [Next]_vars => [A]_vars
  BY DEF IndInv, DropKeyInv, DropKey
<1> QED BY <1>1, ConnectionInvariance, PTL DEF ConnSpec, SameProcessKeySurvives
=================================================================================
