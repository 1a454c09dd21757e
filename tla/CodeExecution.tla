--------------------------- MODULE CodeExecution ---------------------------
(***************************************************************************)
(* Code submissions: the endpoint that stores one per exchange, the        *)
(* workers that execute them under a row lock, and the reader that polls.  *)
(* A worker runs ExecutionService.execute in one transaction: the          *)
(* repositories flush, the caller commits when execute returns.  So what   *)
(* a worker writes is its own until Commit, and a crash takes all of it.   *)
(***************************************************************************)
EXTENDS CodeSandbox, Sequences, FiniteSets, FiniteSetsExt

CONSTANTS
    Exchange,       \* coding exchanges of interviews
    Request,        \* POST /code requests
    ExchangeOf,     \* the exchange a request names
    Language,       \* the language of its code
    Worker,         \* task runners
    NoRequest,      \* also: nobody
    Tests,          \* number of test cases
    TimeLimit,      \* of each test case of the exchange's problem, in ms
    Weight,         \* of each test case
    Programs,       \* behaviours the submitted programs can show
    MaxFail         \* bound: transactions that die

Test == 1..Tests

ASSUME CodeAssumption ==
    /\ ExchangeOf \in [Request -> Exchange]
    /\ Language \in [Request -> Languages]
    /\ NoRequest \notin Request \cup Worker
    /\ Tests \in Nat
    /\ TimeLimit \in [Exchange -> [Test -> Nat]]
    /\ Weight \in [Test -> Nat]
    /\ \A p \in Programs : IsProgram(p)
    /\ MaxFail \in Nat

VARIABLES
    code,       \* committed code_submissions row of each exchange
    rows,       \* committed code_execution_results of each exchange
    inserting,  \* the request with an uncommitted insert for the exchange
    req,        \* what each request is doing, and its answer
    lock,       \* the worker that holds the row lock of the exchange's row
    work,       \* what each worker is doing
    poll,       \* what the polling reader has read
    failures    \* transactions that have died

codeVars == <<code, rows, inserting, req, lock, work, poll, failures>>

-----------------------------------------------------------------------------
NoScore == -1
NoRow == [status |-> "none", source |-> NoRequest, score |-> NoScore]
NoResult == [passed |-> FALSE, ms |-> -1]
Untested == [t \in Test |-> NoResult]

FinalStatuses == {"passed", "failed", "error", "timeout", "memory_exceeded"}

IsValidTransition(s, target) ==
    \/ s = "pending" /\ target = "running"
    \/ s = "running" /\ target \in FinalStatuses

\* calculate_score, in hundredths of a per cent.
CalculateScore(passed) ==
    LET total  == MapThenSumSet(LAMBDA t : Weight[t], Test)
        earned == MapThenSumSet(LAMBDA t : Weight[t], passed)
    IN  IF total = 0 THEN 0 ELSE (20000 * earned + total) \div (2 * total)

\* _determine_final_status: by priority over the results of one execution.
DetermineFinalStatus(results) ==
    LET seen == {results[i].status : i \in DOMAIN results}
    IN  IF results = <<>> THEN "error"
        ELSE IF seen = {"passed"} THEN "passed"
        ELSE IF "timeout" \in seen THEN "timeout"
        ELSE IF "memory_exceeded" \in seen THEN "memory_exceeded"
        ELSE IF "runtime_error" \in seen THEN "error"
        ELSE "failed"

\* A worker: control point, exchange it executes, status it has written to the
\* row, results list in memory, rows it has inserted, score it has written.
IdleWorker ==
    [pc |-> "idle", x |-> NoRequest, status |-> "none", results |-> <<>>,
     inserted |-> Untested, score |-> NoScore]

IdleReader == [pc |-> "idle", x |-> NoRequest, status |-> "none"]

Init ==
    /\ code = [x \in Exchange |-> NoRow]
    /\ rows = [x \in Exchange |-> Untested]
    /\ inserting = [x \in Exchange |-> NoRequest]
    /\ req = [r \in Request |-> [pc |-> "new", reply |-> "none", source |-> NoRequest]]
    /\ lock = [x \in Exchange |-> NoRequest]
    /\ work = [w \in Worker |-> IdleWorker]
    /\ poll = IdleReader
    /\ failures = 0

-----------------------------------------------------------------------------
(* CodingApiService.submit_code, past the checks that refuse a request     *)
(* without storing anything (unknown exchange, other problem).             *)

Reply(r, reply, source) ==
    req' = [req EXCEPT ![r] = [pc |-> "done", reply |-> reply, source |-> source]]

\* INSERT and flush.  Another uncommitted insert for the exchange is waited for.
InsertCode(r) ==
    LET x == ExchangeOf[r] IN
    /\ req[r].pc = "new"
    /\ code[x].status = "none"
    /\ inserting[x] = NoRequest
    /\ inserting' = [inserting EXCEPT ![x] = r]
    /\ req' = [req EXCEPT ![r].pc = "inserted"]
    /\ UNCHANGED <<code, rows, lock, work, poll, failures>>

\* Mutation: INSERT .. ON CONFLICT DO UPDATE in place of the conflict.
OverwriteCode(r) ==
    LET x == ExchangeOf[r] IN
    /\ req[r].pc = "new"
    /\ code[x].status # "none"
    /\ lock[x] = NoRequest
    /\ code' = [code EXCEPT ![x].source = r]
    /\ Reply(r, "created", r)
    /\ UNCHANGED <<rows, inserting, lock, work, poll, failures>>

\* The unique key refuses it: rollback, and the answer names the code there is.
RefuseDuplicate(r) ==
    LET x == ExchangeOf[r] IN
    /\ req[r].pc = "new"
    /\ code[x].status # "none"
    /\ Reply(r, "conflict", code[x].source)
    /\ UNCHANGED <<code, rows, inserting, lock, work, poll, failures>>

CommitCode(r) ==
    LET x == ExchangeOf[r] IN
    /\ req[r].pc = "inserted"
    /\ code' = [code EXCEPT ![x] = [status |-> "pending", source |-> r, score |-> NoScore]]
    /\ inserting' = [inserting EXCEPT ![x] = NoRequest]
    /\ Reply(r, "created", r)
    /\ UNCHANGED <<rows, lock, work, poll, failures>>

\* The request dies before its commit.
FailCode(r) ==
    /\ failures < MaxFail
    /\ req[r].pc = "inserted"
    /\ inserting' = [inserting EXCEPT ![ExchangeOf[r]] = NoRequest]
    /\ failures' = failures + 1
    /\ Reply(r, "died", NoRequest)
    /\ UNCHANGED <<code, rows, lock, work, poll>>

-----------------------------------------------------------------------------
(* ExecutionService.execute                                                *)

\* A task for a stored submission reaches a worker, possibly again.
Deliver(w, x) ==
    /\ work[w].pc = "idle"
    /\ code[x].status # "none"
    /\ work' = [work EXCEPT ![w].pc = "waiting", ![w].x = x]
    /\ UNCHANGED <<code, rows, inserting, req, lock, poll, failures>>

\* SELECT .. FOR UPDATE, then UPDATE .. SET execution_status = 'running'.
StartExecution(w) ==
    LET x == work[w].x IN
    /\ work[w].pc = "waiting"
    /\ lock[x] = NoRequest
    /\ IsValidTransition(code[x].status, "running")
    /\ lock' = [lock EXCEPT ![x] = w]
    /\ work' = [work EXCEPT ![w].pc = "running", ![w].status = "running"]
    /\ UNCHANGED <<code, rows, inserting, req, poll, failures>>

\* Already finalised, or running: an error result, and the lock is given back.
RefuseExecution(w) ==
    LET x == work[w].x IN
    /\ work[w].pc = "waiting"
    /\ lock[x] = NoRequest
    /\ ~IsValidTransition(code[x].status, "running")
    /\ work' = [work EXCEPT ![w] = IdleWorker]
    /\ UNCHANGED <<code, rows, inserting, req, lock, poll, failures>>

\* The row the worker sees: its own insert, or a committed one.
SeenRow(w, t) ==
    IF work[w].inserted[t] # NoResult THEN work[w].inserted[t] ELSE rows[work[w].x][t]

\* What a test can come to, by language.
Outcomes ==
    [l \in Languages |-> [x \in Exchange |-> [t \in Test |->
        TestOutcomes(l, TimeLimit[x][t], Programs)]]]

\* A test that has a row is not run again: its result is rebuilt from the row.
RebuildTest(w, t) ==
    LET row == SeenRow(w, t)
        result == [status |-> IF row.passed THEN "passed" ELSE "failed", ms |-> row.ms]
    IN  work' = [work EXCEPT ![w].results = Append(@, result)]

\* The sandbox runs, the result is appended and its row inserted.
ExecuteTest(w, t) ==
    LET x == work[w].x IN
    /\ LimitAccepted(TimeLimit[x][t])
    /\ \E o \in Outcomes[Language[code[x].source]][x][t] :
          work' = [work EXCEPT
                    ![w].results = Append(@, o),
                    ![w].inserted[t] = [passed |-> o.status = "passed", ms |-> o.ms]]

RunTest(w) ==
    LET t == Len(work[w].results) + 1 IN
    /\ work[w].pc = "running"
    /\ t <= Tests
    /\ IF SeenRow(w, t) # NoResult THEN RebuildTest(w, t) ELSE ExecuteTest(w, t)
    /\ UNCHANGED <<code, rows, inserting, req, lock, poll, failures>>

\* _finalize_submission: reads the row again, its own write included.
FinalizeSubmission(w, target, score) ==
    work' = [work EXCEPT
              ![w].pc = "committing",
              ![w].status = IF IsValidTransition(@, target) THEN target ELSE @,
              ![w].score = IF IsValidTransition(work[w].status, target) THEN score ELSE @]

\* A test case outside the sandbox's limits raises: the submission is an error.
AbortExecution(w) ==
    LET t == Len(work[w].results) + 1 IN
    /\ work[w].pc = "running"
    /\ t <= Tests
    /\ SeenRow(w, t) = NoResult
    /\ ~LimitAccepted(TimeLimit[work[w].x][t])
    /\ FinalizeSubmission(w, "error", 0)
    /\ UNCHANGED <<code, rows, inserting, req, lock, poll, failures>>

Passed(results) == {t \in DOMAIN results : results[t].status = "passed"}

FinishExecution(w) ==
    LET results == work[w].results IN
    /\ work[w].pc = "running"
    /\ Len(results) = Tests
    /\ FinalizeSubmission(w, DetermineFinalStatus(results), CalculateScore(Passed(results)))
    /\ UNCHANGED <<code, rows, inserting, req, lock, poll, failures>>

\* Mutation: the results are written through a session nobody commits.
CommitWithoutRows(w) ==
    LET x == work[w].x IN
    /\ work[w].pc = "committing"
    /\ code' = [code EXCEPT ![x].status = work[w].status, ![x].score = work[w].score]
    /\ lock' = [lock EXCEPT ![x] = NoRequest]
    /\ work' = [work EXCEPT ![w] = IdleWorker]
    /\ UNCHANGED <<rows, inserting, req, poll, failures>>

\* The caller commits what execute wrote; the row lock goes with it.
CommitExecution(w) ==
    LET x == work[w].x IN
    /\ work[w].pc = "committing"
    /\ code' = [code EXCEPT ![x].status = work[w].status, ![x].score = work[w].score]
    /\ rows' = [rows EXCEPT ![x] = [t \in Test |-> SeenRow(w, t)]]
    /\ lock' = [lock EXCEPT ![x] = NoRequest]
    /\ work' = [work EXCEPT ![w] = IdleWorker]
    /\ UNCHANGED <<inserting, req, poll, failures>>

\* Mutation: the lock is a flag in the row instead of a row lock.
FailWorkerKeepsLock(w) ==
    /\ failures < MaxFail
    /\ work[w].pc \in {"running", "committing"}
    /\ failures' = failures + 1
    /\ work' = [work EXCEPT ![w] = IdleWorker]
    /\ UNCHANGED <<code, rows, inserting, req, lock, poll>>

\* The worker dies, or a statement fails: rollback.
FailWorker(w) ==
    LET x == work[w].x IN
    /\ failures < MaxFail
    /\ work[w].pc \in {"running", "committing"}
    /\ failures' = failures + 1
    /\ lock' = [lock EXCEPT ![x] = NoRequest]
    /\ work' = [work EXCEPT ![w] = IdleWorker]
    /\ UNCHANGED <<code, rows, inserting, req, poll>>

-----------------------------------------------------------------------------
(* CodingApiService.get_execution_status: two SELECTs, not a snapshot.     *)

ReadSubmission(x) ==
    /\ poll.pc = "idle"
    /\ code[x].status # "none"
    /\ poll' = [poll EXCEPT !.pc = "results", !.x = x, !.status = code[x].status]
    /\ UNCHANGED <<code, rows, inserting, req, lock, work, failures>>

\* The rows of the second SELECT complete the response.
ReadResults ==
    /\ poll.pc = "results"
    /\ poll' = IdleReader
    /\ UNCHANGED <<code, rows, inserting, req, lock, work, failures>>

-----------------------------------------------------------------------------
RequestStep(r) == InsertCode(r) \/ RefuseDuplicate(r) \/ CommitCode(r)

LockedStep(w) == StartExecution(w) \/ RefuseExecution(w)

WorkerStep(w) ==
    RunTest(w) \/ AbortExecution(w) \/ FinishExecution(w) \/ CommitExecution(w)

Read == (\E x \in Exchange : ReadSubmission(x)) \/ ReadResults

Next ==
    \/ \E r \in Request : RequestStep(r) \/ FailCode(r)
    \/ \E w \in Worker :
          \/ \E x \in Exchange : Deliver(w, x)
          \/ LockedStep(w)
          \/ WorkerStep(w)
          \/ FailWorker(w)
    \/ Read

\* A container ends at the latest at its hard timeout and a commit returns; a row
\* lock that is given back again and again is granted to each that waits for it.
\* Nothing obliges anybody to send a request or to deliver a task.
Fairness ==
    \A w \in Worker : SF_codeVars(LockedStep(w)) /\ WF_codeVars(WorkerStep(w))

Spec == Init /\ [][Next]_codeVars /\ Fairness

-----------------------------------------------------------------------------
(* Properties.                                                             *)

Scores == {NoScore, 0} \cup {CalculateScore(passed) : passed \in SUBSET Test}

Row == [status : {"none", "pending"} \cup FinalStatuses,
        source : Request \cup {NoRequest}, score : Scores]

Result == [passed : BOOLEAN, ms : Nat \cup {-1}]

Outcome == [status : TestStatuses, ms : Nat]

Work == [pc : {"idle", "waiting", "running", "committing"},
         x : Exchange \cup {NoRequest}, status : {"none", "running"} \cup FinalStatuses,
         results : Seq(Outcome), inserted : [Test -> Result], score : Scores]

\* Every variable has its type; a committed status is never "running".
TypeOK ==
    /\ code \in [Exchange -> Row]
    /\ rows \in [Exchange -> [Test -> Result]]
    /\ inserting \in [Exchange -> Request \cup {NoRequest}]
    /\ req \in [Request -> [pc : {"new", "inserted", "done"},
                            reply : {"none", "created", "conflict", "died"},
                            source : Request \cup {NoRequest}]]
    /\ lock \in [Exchange -> Worker \cup {NoRequest}]
    /\ work \in [Worker -> Work]
    /\ poll \in [pc : {"idle", "results"}, x : Exchange \cup {NoRequest},
                  status : {"none", "pending"} \cup FinalStatuses]
    /\ failures \in 0..MaxFail

Complete(results) == \A t \in Test : results[t] # NoResult

PassedRows(results) == {t \in Test : results[t].passed}

\* The stored verdict and score are those of the stored results, over all tests; only
\* an execution that raised leaves tests without a row, and it is an error with score 0.
VerdictFits(x) ==
    IF Complete(rows[x])
    THEN /\ (code[x].status = "passed") <=> (Tests > 0 /\ PassedRows(rows[x]) = Test)
         /\ code[x].score = CalculateScore(PassedRows(rows[x]))
    ELSE code[x].status = "error" /\ code[x].score = 0

\* The two SELECTs of the status endpoint may straddle a commit, but a final
\* status is never shown without the results and the score that belong to it.
PolledVerdictHasItsResults ==
    [][ReadResults /\ poll.status \in FinalStatuses =>
        poll.status = code[poll.x].status /\ VerdictFits(poll.x)]_codeVars

\* Committed code and results go through the steps of CodeVerdict only: one code
\* is accepted, and it is judged once, with all of its results in one step.
Verdict == INSTANCE CodeVerdict WITH
    source <- [x \in Exchange |-> code[x].source],
    verdict <- [x \in Exchange |-> code[x].status],
    score <- [x \in Exchange |-> code[x].score],
    outcomes <- rows

ImplementsVerdict == Verdict!Spec

\* A worker that has taken a task comes to the end of it: nobody waits for ever for
\* a lock, also when the holder has died.
ExecutionsEnd == \A w \in Worker : (work[w].pc # "idle") ~> (work[w].pc = "idle")
=============================================================================
