------------------------ MODULE InterviewEvaluation ------------------------
(***************************************************************************)
(* How a submission gets its evaluations and its result: the endpoints of  *)
(* evaluation/api/routes.py (evaluate, override, finalize, generate-       *)
(* report), the scoring and aggregation services they share, and the       *)
(* thread that complete_interview starts.  A session commits in the middle *)
(* of its request; the steps are the statements between which another      *)
(* session can commit, and the calls of the LLM.                           *)
(***************************************************************************)
EXTENDS Naturals, Sequences, FiniteSets

(***************************************************************************)
(* The evaluations and interview_results of one submission, as PostgreSQL  *)
(* keeps them for sessions at READ COMMITTED.  Two partial unique indexes  *)
(* (DEV-49) admit one final evaluation per exchange and one current result *)
(* per submission; an INSERT that meets a row which another transaction is *)
(* writing waits for its end.                                              *)
(***************************************************************************)
CONSTANTS
    Worker,         \* sessions: the requests and the completion thread
    Exchanges,      \* number of questions the interview may reach
    MaxEvaluations  \* bound: evaluations of one submission

ASSUME ExchangesAssumption == Exchanges \in Nat \ {0}
ASSUME EvaluationsAssumption == MaxEvaluations \in Nat

VARIABLES
    evals,      \* committed evaluations
    finals,     \* those with is_final = true
    results,    \* committed results: the evaluations each one aggregates
    current,    \* indexes of the results with is_current = true
    unmarked,   \* evaluations a session has uncommittedly made non-final
    added,      \* the final evaluation a session has uncommittedly inserted
    retired,    \* results a session has uncommittedly made non-current
    reporting   \* whether a session has an uncommitted current result

dbVars == <<evals, finals, results, current, unmarked, added, retired, reporting>>

-----------------------------------------------------------------------------
Exchange == 1..Exchanges

\* An evaluation: the exchange and which of its evaluations it is.
Evaluation == Exchange \X (1..MaxEvaluations)

Of(x, E) == {e \in E : e[1] = x}

\* What a session reads: committed rows and its own writes.
FinalOf(w, x) == Of(x, (finals \ unmarked[w]) \cup added[w])

\* UPDATE evaluations SET is_final = false WHERE id = e: waits for the row lock.
Unmark(w, E) ==
    /\ \A u \in Worker \ {w} : unmarked[u] \cap E = {}
    /\ unmarked' = [unmarked EXCEPT ![w] = @ \cup E]
    /\ UNCHANGED <<evals, finals, results, current, added, retired, reporting>>

\* Mutation: without uq_evaluations_exchange_final nothing is waited for.
NoKeyWriter(w, x) == FALSE

\* Another transaction is deciding whether x has a final evaluation.
KeyWriter(w, x) ==
    \E u \in Worker \ {w} :
        Of(x, added[u]) # {} \/ Of(x, unmarked[u] \cap finals) # {}

Stored == evals \cup UNION {added[u] : u \in Worker}

\* The evaluation of x that is inserted next; none at the bound.
Fresh(x) ==
    {e \in Of(x, Evaluation) :
        /\ Cardinality(Stored) < MaxEvaluations
        /\ \A n \in 1..MaxEvaluations : n < e[2] <=> <<x, n>> \in Stored}

\* INSERT INTO evaluations (..., is_final = true).
AddFinal(w, x) ==
    /\ ~KeyWriter(w, x)
    /\ FinalOf(w, x) = {}
    /\ \E e \in Fresh(x) : added' = [added EXCEPT ![w] = {e}]
    /\ UNCHANGED <<evals, finals, results, current, unmarked, retired, reporting>>

\* The same INSERT raises IntegrityError.
FinalExists(w, x) == ~KeyWriter(w, x) /\ FinalOf(w, x) # {}

\* UPDATE interview_results SET is_current = false WHERE id = r.
Retire(w, R) ==
    /\ \A u \in Worker \ {w} : retired[u] \cap R = {}
    /\ retired' = [retired EXCEPT ![w] = @ \cup R]
    /\ UNCHANGED <<evals, finals, results, current, unmarked, added, reporting>>

\* Mutation: without uq_interview_results_submission_current.
NoResultWriter(w) == FALSE

\* Another transaction is deciding which result is current.
ResultWriter(w) ==
    \E u \in Worker \ {w} : reporting[u] \/ retired[u] \cap current # {}

\* INSERT INTO interview_results (..., is_current = true).
AddCurrent(w) ==
    /\ ~ResultWriter(w)
    /\ current \subseteq retired[w]
    /\ reporting' = [reporting EXCEPT ![w] = TRUE]
    /\ UNCHANGED <<evals, finals, results, current, unmarked, added, retired>>

CurrentExists(w) == ~ResultWriter(w) /\ ~(current \subseteq retired[w])

Settle(w) ==
    /\ unmarked' = [unmarked EXCEPT ![w] = {}]
    /\ added' = [added EXCEPT ![w] = {}]
    /\ retired' = [retired EXCEPT ![w] = {}]
    /\ reporting' = [reporting EXCEPT ![w] = FALSE]

\* COMMIT of a session whose pending result, if any, aggregates E.
Commit(w, E) ==
    /\ evals' = evals \cup added[w]
    /\ finals' = (finals \ unmarked[w]) \cup added[w]
    /\ results' = IF reporting[w] THEN Append(results, E) ELSE results
    /\ current' = (current \ retired[w])
                    \cup (IF reporting[w] THEN {Len(results) + 1} ELSE {})
    /\ Settle(w)

Rollback(w) == Settle(w) /\ UNCHANGED <<evals, finals, results, current>>

DbInit ==
    /\ evals = {}
    /\ finals = {}
    /\ results = <<>>
    /\ current = {}
    /\ unmarked = [w \in Worker |-> {}]
    /\ added = [w \in Worker |-> {}]
    /\ retired = [w \in Worker |-> {}]
    /\ reporting = [w \in Worker |-> FALSE]

DbTypeOK ==
    /\ evals \subseteq Evaluation
    /\ finals \subseteq evals
    /\ results \in Seq(SUBSET evals)
    /\ current \subseteq DOMAIN results
    /\ unmarked \in [Worker -> SUBSET evals]
    /\ added \in [Worker -> SUBSET Evaluation]
    /\ retired \in [Worker -> SUBSET DOMAIN results]
    /\ reporting \in [Worker -> BOOLEAN]

-----------------------------------------------------------------------------
(* The sessions that work on them.                                         *)
CONSTANTS
    Thread,         \* the session of the completion thread
    MaxResults,     \* bound: results of one submission
    MaxBusy         \* bound: sessions at work at the same time

ASSUME ThreadAssumption == Thread \in Worker
ASSUME ResultsAssumption == MaxResults \in Nat
ASSUME BusyAssumption == MaxBusy \in Nat \ {0}

VARIABLES
    answered,   \* committed exchanges are 1..answered
    score,      \* the result that final_score was copied from, 0 for NULL
    job         \* what each session is doing

vars == <<dbVars, answered, score, job>>

-----------------------------------------------------------------------------
Kinds == {"none", "evaluate", "override", "finalize", "report", "completion"}

Scoring == {"check", "unmark", "score_check", "score_unmark", "llm", "insert", "store"}
Looping == {"list", "next"}
Aggregating == {"agg_check", "agg_exchanges", "agg_evals", "retire",
                "insert_result", "store_result", "final_score"}
Ends == {"idle", "done", "gave_up"}

Jobs == [pc : Ends \cup Scoring \cup Looping \cup Aggregating, kind : Kinds,
         force : BOOLEAN, at : 0..(Exchanges + 1), upto : 0..Exchanges,
         got : BOOLEAN, rescore : BOOLEAN, base : SUBSET Evaluation,
         seen : SUBSET Nat, inputs : SUBSET Evaluation, again : BOOLEAN]

\* Nothing kept: force, the exchange at hand and the last of the list, whether
\* any was evaluated, whether the one at hand is rescored, the evaluation it is
\* made from, the result to replace, the evaluations read, the second attempt.
NoJob == [pc |-> "idle", kind |-> "none", force |-> FALSE, at |-> 0, upto |-> 0,
          got |-> FALSE, rescore |-> FALSE, base |-> {}, seen |-> {},
          inputs |-> {}, again |-> FALSE]

At(w, step) == job[w].pc = step

Do(w, j) == job' = [job EXCEPT ![w] = j]

Goto(w, step) == Do(w, [job[w] EXCEPT !.pc = step])

\* Only these and the session's own work change with most steps.
Outside == <<answered, score>>

Over(w) == Do(w, IF w = Thread THEN [NoJob EXCEPT !.pc = "done"] ELSE NoJob)

\* The exception reaches the end of the request: get_db_session_with_commit
\* rolls back, as does closing the session of the thread.
Raise(w) == Rollback(w) /\ Over(w) /\ UNCHANGED Outside

Room == Cardinality({w \in Worker : job[w].pc \notin Ends}) < MaxBusy

Begin(w, j) ==
    /\ At(w, "idle") /\ w # Thread /\ Room
    /\ Do(w, j)
    /\ UNCHANGED <<dbVars, Outside>>

-----------------------------------------------------------------------------
(* The interview, as the rest of the system moves it.                      *)

\* An answer commits; one that was under way when the interview was completed
\* may still do so (InterviewSession), and so may later ones if the completion
\* that started the thread is rolled back.
Answer ==
    /\ answered < Exchanges
    /\ answered' = answered + 1
    /\ UNCHANGED <<dbVars, score, job>>

\* complete_interview starts the thread, before its own transaction commits.
Complete ==
    /\ At(Thread, "idle") /\ Room
    /\ Do(Thread, [NoJob EXCEPT !.pc = "list", !.kind = "completion"])
    /\ UNCHANGED <<dbVars, answered, score>>

-----------------------------------------------------------------------------
(* POST /evaluate and /override: the evaluation they start from.           *)

Evaluate(w, x, force) ==
    /\ x <= answered
    /\ Begin(w, [NoJob EXCEPT !.pc = "check", !.kind = "evaluate", !.at = x,
                              !.force = force])

\* Without force an existing final evaluation is the answer.
CheckExisting(w) ==
    /\ At(w, "check")
    /\ LET e == FinalOf(w, job[w].at) IN
       Do(w, IF e = {} THEN [job[w] EXCEPT !.pc = "score_check", !.force = FALSE]
             ELSE IF job[w].force THEN [job[w] EXCEPT !.pc = "unmark", !.base = e, !.force = FALSE]
             ELSE NoJob)
    /\ UNCHANGED <<dbVars, Outside>>

\* Any version may be overridden.  Setting is_final of a row that was read as
\* non-final writes nothing.
Override(w, e) ==
    /\ e \in evals
    /\ Begin(w, [NoJob EXCEPT !.pc = IF e \in finals THEN "unmark" ELSE "insert",
                              !.kind = "override", !.at = e[1], !.base = {e}])

\* Mutation: whichever evaluation is final by now is made non-final.
MarkFinalNonFinal(w) ==
    /\ At(w, "unmark")
    /\ Unmark(w, FinalOf(w, job[w].at))
    /\ Goto(w, IF job[w].kind = "override" THEN "insert" ELSE "score_check")
    /\ UNCHANGED Outside

MarkNonFinal(w) ==
    /\ At(w, "unmark")
    /\ Unmark(w, job[w].base)
    /\ Goto(w, IF job[w].kind = "override" THEN "insert" ELSE "score_check")
    /\ UNCHANGED Outside

-----------------------------------------------------------------------------
(* ScoringService.score_exchange.                                          *)

Skip(w) == [job[w] EXCEPT !.pc = "next", !.at = @ + 1, !.rescore = FALSE, !.base = {}]

\* Mutation: the report goes on to the next exchange in the same transaction.
ScoringRaisesOn(w) ==
    /\ IF job[w].kind \in {"report", "completion"}
       THEN UNCHANGED dbVars /\ Do(w, Skip(w)) /\ UNCHANGED Outside
       ELSE Raise(w)

\* What a caller does when it raises: a report rolls back and goes on with the
\* next exchange, the thread goes on, an endpoint fails.
ScoringRaises(w) ==
    CASE job[w].kind = "report" -> Rollback(w) /\ Do(w, Skip(w)) /\ UNCHANGED Outside
      [] job[w].kind = "completion" ->
            UNCHANGED dbVars /\ Do(w, Skip(w)) /\ UNCHANGED Outside
      [] OTHER -> Raise(w)

ScoreCheck(w) ==
    /\ At(w, "score_check")
    /\ LET e == FinalOf(w, job[w].at) IN
       \/ /\ e = {} \/ job[w].rescore
          /\ Do(w, [job[w] EXCEPT !.pc = IF e = {} THEN "llm" ELSE "score_unmark",
                                  !.base = IF e = {} THEN @ ELSE e])
          /\ UNCHANGED <<dbVars, Outside>>
       \/ e # {} /\ ~job[w].rescore /\ ScoringRaises(w)

ScoreUnmark(w) ==
    /\ At(w, "score_unmark")
    /\ Unmark(w, job[w].base)
    /\ Goto(w, "llm")
    /\ UNCHANGED Outside

\* The rubric, the LLM after its retries, or its answer raises.
ScoringFails(w) == At(w, "llm") /\ ScoringRaises(w)

\* The scores are there, from the LLM or from the human who overrides.
InsertEvaluation(w) ==
    /\ At(w, "llm") \/ At(w, "insert")
    /\ AddFinal(w, job[w].at)
    /\ Goto(w, "store")
    /\ UNCHANGED Outside

\* IntegrityError: both services roll back before they raise.
InsertRaises(w) ==
    /\ At(w, "llm") \/ At(w, "insert")
    /\ FinalExists(w, job[w].at)
    /\ Rollback(w)
    /\ IF job[w].kind \in {"report", "completion"} THEN Do(w, Skip(w)) ELSE Over(w)
    /\ UNCHANGED Outside

StoreEvaluation(w) ==
    /\ At(w, "store")
    /\ Commit(w, {})
    /\ IF job[w].kind \in {"report", "completion"}
       THEN Do(w, [Skip(w) EXCEPT !.got = TRUE]) ELSE Over(w)
    /\ UNCHANGED Outside

-----------------------------------------------------------------------------
(* generate-report and the completion thread: every exchange in turn.      *)

\* Without force a current result is the answer.
Report(w, force) ==
    /\ force \/ current = {}
    /\ Begin(w, [NoJob EXCEPT !.pc = "list", !.kind = "report", !.force = force])

ListExchanges(w) ==
    /\ At(w, "list")
    /\ IF answered > 0
       THEN Do(w, [job[w] EXCEPT !.pc = "next", !.at = 1, !.upto = answered])
       ELSE IF w = Thread THEN Over(w) ELSE Goto(w, "insert_result")
    /\ UNCHANGED <<dbVars, Outside>>

\* A report skips what is evaluated, unless it is forced or the evaluation looks
\* like one the parser defaulted to zero; the thread tries everything.
NextExchange(w) ==
    /\ At(w, "next") /\ job[w].at <= job[w].upto
    /\ \/ /\ \/ job[w].kind = "completion" \/ job[w].force
             \/ FinalOf(w, job[w].at) = {}
          /\ Do(w, [job[w] EXCEPT !.pc = "score_check", !.rescore = job[w].force])
       \/ /\ job[w].kind = "report" /\ ~job[w].force
          /\ FinalOf(w, job[w].at) # {}
          /\ \/ Do(w, [job[w] EXCEPT !.pc = "score_check", !.rescore = TRUE])
             \/ Do(w, [Skip(w) EXCEPT !.got = TRUE])
    /\ UNCHANGED <<dbVars, Outside>>

\* With no evaluation at all the report fails and the thread returns.
ExchangesDone(w) ==
    /\ At(w, "next") /\ job[w].at > job[w].upto
    /\ \/ /\ job[w].got
          /\ Do(w, [NoJob EXCEPT !.pc = "agg_check", !.kind = "finalize",
                                 !.force = job[w].force])
          /\ UNCHANGED <<dbVars, Outside>>
       \/ ~job[w].got /\ w # Thread /\ Raise(w)
       \/ /\ ~job[w].got /\ w = Thread
          /\ Goto(w, "gave_up")
          /\ UNCHANGED <<dbVars, Outside>>

-----------------------------------------------------------------------------
(* AggregationService.aggregate_interview_result.                          *)

Finalize(w, force) ==
    Begin(w, [NoJob EXCEPT !.pc = "agg_check", !.kind = "finalize", !.force = force])

CheckResult(w) ==
    /\ At(w, "agg_check")
    /\ \/ /\ current = {} \/ job[w].force
          /\ Do(w, [NoJob EXCEPT !.pc = "agg_exchanges", !.kind = "finalize",
                                 !.seen = current])
          /\ UNCHANGED <<dbVars, Outside>>
       \/ current # {} /\ ~job[w].force /\ Raise(w)

FetchExchanges(w) ==
    /\ At(w, "agg_exchanges")
    /\ \/ /\ answered > 0
          /\ Do(w, [job[w] EXCEPT !.pc = "agg_evals", !.upto = answered])
          /\ UNCHANGED <<dbVars, Outside>>
       \/ answered = 0 /\ Raise(w)

FinalsUpTo(n) == {e \in finals : e[1] <= n}

EvaluatedUpTo(n) == \A x \in 1..n : Of(x, finals) # {}

\* Mutation: aggregate what is there.
FetchAnyEvaluations(w) ==
    /\ At(w, "agg_evals")
    /\ Do(w, [job[w] EXCEPT !.inputs = FinalsUpTo(job[w].upto),
                !.pc = IF job[w].seen = {} THEN "insert_result" ELSE "retire"])
    /\ UNCHANGED <<dbVars, Outside>>

\* One SELECT of the final evaluations, complete for the exchanges read before;
\* then the summary, whose failures fall back to templates.
FetchEvaluations(w) ==
    /\ At(w, "agg_evals")
    /\ \/ /\ EvaluatedUpTo(job[w].upto)
          /\ Do(w, [job[w] EXCEPT !.inputs = FinalsUpTo(job[w].upto),
                      !.pc = IF job[w].seen = {} THEN "insert_result" ELSE "retire"])
          /\ UNCHANGED <<dbVars, Outside>>
       \/ ~EvaluatedUpTo(job[w].upto) /\ Raise(w)

\* The first time is_current is the cached value, true; after the rollback it is
\* read again.
RetireResult(w) ==
    /\ At(w, "retire")
    /\ LET R == IF job[w].again THEN job[w].seen \cap current ELSE job[w].seen IN
       Retire(w, R)
    /\ Goto(w, "insert_result")
    /\ UNCHANGED Outside

InsertResult(w) ==
    /\ At(w, "insert_result")
    /\ Len(results) < MaxResults
    /\ AddCurrent(w)
    /\ Goto(w, "store_result")
    /\ UNCHANGED Outside

\* IntegrityError: taken for a duplicate scoring_version, and tried once more;
\* the repository that stores the report of no answers does not try again.
InsertResultRaises(w) ==
    /\ At(w, "insert_result")
    /\ CurrentExists(w)
    /\ Rollback(w)
    /\ IF job[w].again \/ job[w].upto = 0 THEN Over(w)
       ELSE Do(w, [job[w] EXCEPT !.again = TRUE,
                     !.pc = IF job[w].seen = {} THEN "insert_result" ELSE "retire"])
    /\ UNCHANGED Outside

StoreResult(w) ==
    /\ At(w, "store_result")
    /\ Commit(w, job[w].inputs)
    /\ IF w = Thread
       THEN Do(w, [job[w] EXCEPT !.pc = "final_score", !.seen = {Len(results) + 1}])
       ELSE Over(w)
    /\ UNCHANGED Outside

\* Step 3 of the thread.
WriteFinalScore(w) ==
    /\ At(w, "final_score")
    /\ score' \in job[w].seen
    /\ Over(w)
    /\ UNCHANGED <<dbVars, answered>>

-----------------------------------------------------------------------------
\* A statement times out, a connection breaks or the process dies.
Abort(w) == job[w].pc \notin Ends /\ Raise(w)

Init ==
    /\ DbInit
    /\ answered = 0
    /\ score = 0
    /\ job = [w \in Worker |-> NoJob]

Requests(w) ==
    \/ \E x \in Exchange, force \in BOOLEAN : Evaluate(w, x, force)
    \/ \E e \in evals : Override(w, e)
    \/ \E force \in BOOLEAN : Report(w, force) \/ Finalize(w, force)

EvaluationSteps(w) ==
    \/ CheckExisting(w) \/ MarkNonFinal(w) \/ ScoreCheck(w) \/ ScoreUnmark(w)
    \/ ScoringFails(w) \/ InsertEvaluation(w) \/ InsertRaises(w) \/ StoreEvaluation(w)

ReportSteps(w) ==
    \/ ListExchanges(w) \/ NextExchange(w) \/ ExchangesDone(w)
    \/ CheckResult(w) \/ FetchExchanges(w) \/ FetchEvaluations(w)
    \/ RetireResult(w) \/ InsertResult(w) \/ InsertResultRaises(w)
    \/ StoreResult(w) \/ WriteFinalScore(w)

Next ==
    \/ Answer \/ Complete
    \/ \E w \in Worker :
          Requests(w) \/ EvaluationSteps(w) \/ ReportSteps(w) \/ Abort(w)

Spec == Init /\ [][Next]_vars

-----------------------------------------------------------------------------
TypeOK ==
    /\ DbTypeOK
    /\ answered \in 0..Exchanges
    /\ score \in 0..Len(results)
    /\ job \in [Worker -> Jobs]

\* The final evaluation of an exchange is always the last one that was stored:
\* there are never two, and no re-evaluation that fails after it has withdrawn
\* the old evaluation leaves the exchange without one.
FinalIsLatest ==
    \A e \in evals :
        e \in finals <=> \A f \in Of(e[1], evals) : f[2] <= e[2]

\* So is the current result among the results, whatever reports, finalizations
\* and the completion thread race each other.
CurrentIsLatest == current = IF results = <<>> THEN {} ELSE {Len(results)}

\* A result with answers aggregates one evaluation of each exchange from the
\* first on, although exchanges and evaluations are read one after the other.
ResultsAreComplete ==
    \A i \in DOMAIN results :
        LET E == results[i] IN
        \E n \in 0..answered :
            /\ \A e \in E : e[1] <= n
            /\ \A x \in 1..n : \E e \in E : Of(x, E) = {e}

\* An evaluation made from another one, a correction by a human above all,
\* replaces exactly that one: nothing has been stored in between.
ReplacesItsBase ==
    [][\A w \in Worker : StoreEvaluation(w) => job[w].base \subseteq finals]_vars
=============================================================================
