------------------------ MODULE CodeExecutionProofs ------------------------
(***************************************************************************)
(* Proofs about code submissions, for any number of requests, workers,     *)
(* exchanges, tests, programs and crashes: committed code goes through the *)
(* steps of CodeVerdict only, and a verdict is never shown without its     *)
(* results and its score.                                                  *)
(***************************************************************************)
EXTENDS CodeExecution, SequenceTheorems, TLAPS

USE CodeAssumption

-----------------------------------------------------------------------------
(* The inductive invariant.                                                *)

\* The row that is inserted for an outcome.
RowOf(o) == [passed |-> o.status = "passed", ms |-> o.ms]

\* A verdict and a score are those of the results.
Judged(results, status, score) ==
    IF Complete(results)
    THEN /\ (status = "passed") <=> (Tests > 0 /\ PassedRows(results) = Test)
         /\ score = CalculateScore(PassedRows(results))
    ELSE status = "error" /\ score = 0

\* Code and results in the tables.
ExchangeInv(x) ==
    /\ code[x].status \in {"none", "pending"} =>
          rows[x] = Untested /\ code[x].score = NoScore
    /\ code[x].status \in FinalStatuses =>
          Judged(rows[x], code[x].status, code[x].score)
    /\ code[x].status # "none" => code[x].source \in Request

\* The unique key: one uncommitted insert, and only for an exchange without code.
RequestInv(r) ==
    req[r].pc = "inserted" =>
        inserting[ExchangeOf[r]] = r /\ code[ExchangeOf[r]].status = "none"

\* The rows a worker has inserted are the results it has in memory.
InMemory(j) ==
    /\ Len(j.results) <= Tests
    /\ \A t \in Test :
          j.inserted[t] = IF t <= Len(j.results) THEN RowOf(j.results[t]) ELSE NoResult

\* The row lock: who executes a code holds it, and the code is not judged yet.
WorkerInv(w, j) ==
    /\ j.pc # "idle" => j.x \in Exchange /\ code[j.x].status # "none"
    /\ j.pc \in {"idle", "waiting"} => j.results = <<>> /\ j.inserted = Untested
    /\ j.pc \in {"running", "committing"} => lock[j.x] = w /\ code[j.x].status = "pending"
    /\ j.pc = "running" => j.status = "running" /\ InMemory(j)
    /\ j.pc = "committing" =>
          j.status \in FinalStatuses /\ Judged(j.inserted, j.status, j.score)

\* A final status that was read stays.
PollInv ==
    /\ poll.pc = "results" => poll.x \in Exchange
    /\ poll.status \in FinalStatuses =>
          poll.pc = "results" /\ code[poll.x].status = poll.status

CodeInv ==
    /\ TypeOK
    /\ \A x \in Exchange : ExchangeInv(x)
    /\ \A r \in Request : RequestInv(r)
    /\ \A w \in Worker : WorkerInv(w, work[w])
    /\ PollInv

-----------------------------------------------------------------------------
(* What the sandbox can say of a test.                                     *)

LEMMA ContainersRun ==
    ASSUME NEW lang \in Languages, NEW limit \in Nat, NEW p, IsProgram(p),
           NEW d \in RunContainer(lang, limit, p)
    PROVE  d.ms \in Nat
<1>1. p.ms \in Nat
  BY DEF IsProgram
<1>2. \/ d = DockerRun(FALSE, -1, NoTimeOutput, FALSE, "other", 0)
      \/ d = DockerRun(FALSE, 1, NoTimeOutput, TRUE, "other", 0)
      \/ d = DockerRun(FALSE, 124, NoTimeOutput, FALSE, p.stdout, 0)
      \/ d = DockerRun(TRUE, 124, NoTimeOutput, FALSE, "other", 0)
      \/ d = DockerRun(FALSE, 137, NoTimeOutput, FALSE, p.stdout, 0)
      \/ d = DockerRun(FALSE, 137, 0, FALSE, p.stdout, p.ms)
      \/ d = DockerRun(FALSE, p.exit, p.exit, FALSE, p.stdout, p.ms)
  BY Zenon DEF RunContainer
<1> QED BY <1>1, <1>2 DEF DockerRun

\* A test has one of the five statuses and a runtime.
LEMMA OutcomesFit ==
    ASSUME NEW lang \in Languages, NEW limit \in Nat,
           NEW o \in TestOutcomes(lang, limit, Programs)
    PROVE  o \in Outcome
<1>1. CASE o = [status |-> "runtime_error", ms |-> 0]
  BY <1>1 DEF Outcome, TestStatuses
<1>2. CASE \E p \in Programs : \E d \in RunContainer(lang, limit, p) :
              LET s == SandboxExecute(lang, limit, d)
              IN  o = [status |-> Classify(s), ms |-> IF s.compilation THEN 0 ELSE s.ms]
  <2>1. PICK p \in Programs : \E d \in RunContainer(lang, limit, p) :
              LET s == SandboxExecute(lang, limit, d)
              IN  o = [status |-> Classify(s), ms |-> IF s.compilation THEN 0 ELSE s.ms]
    BY <1>2
  <2>2. PICK d \in RunContainer(lang, limit, p) :
              LET s == SandboxExecute(lang, limit, d)
              IN  o = [status |-> Classify(s), ms |-> IF s.compilation THEN 0 ELSE s.ms]
    BY <2>1
  <2> DEFINE s == SandboxExecute(lang, limit, d)
  <2>3. o = [status |-> Classify(s), ms |-> IF s.compilation THEN 0 ELSE s.ms]
    BY <2>2
  <2>4. d.ms \in Nat
    BY <2>2, ContainersRun
  <2>5. s.ms \in Nat
    BY <2>4 DEF SandboxExecute, SandboxResult
  <2>6. Classify(s) \in TestStatuses
    BY DEF Classify, TestStatuses
  <2> HIDE DEF s
  <2> QED BY <2>3, <2>5, <2>6 DEF Outcome
<1> QED BY <1>1, <1>2 DEF TestOutcomes

-----------------------------------------------------------------------------
(* Steps by whose state they change.                                       *)

\* A worker's step that leaves the tables alone.
LEMMA WorkStep ==
    ASSUME CodeInv, NEW w \in Worker, NEW j \in Work, work' = [work EXCEPT ![w] = j],
           UNCHANGED <<code, rows, inserting, req, poll>>, failures' \in 0..MaxFail,
           lock' \in [Exchange -> Worker \cup {NoRequest}],
           \A x \in Exchange : lock[x] \in Worker \ {w} => lock'[x] = lock[x],
           WorkerInv(w, j)'
    PROVE  CodeInv'
<1>1. TypeOK'
  BY DEF CodeInv, TypeOK
<1>2. (\A x \in Exchange : ExchangeInv(x)') /\ (\A r \in Request : RequestInv(r)') /\ PollInv'
  BY DEF CodeInv, ExchangeInv, RequestInv, PollInv, Judged
<1>3. WorkerInv(w, work[w])'
  BY DEF CodeInv, TypeOK
<1>4. ASSUME NEW u \in Worker \ {w} PROVE WorkerInv(u, work[u])'
  <2>1. work'[u] = work[u] /\ work[u] \in Work /\ WorkerInv(u, work[u])
    BY DEF CodeInv, TypeOK
  <2>2. work[u].pc \in {"running", "committing"} => lock'[work[u].x] = u
    BY <2>1 DEF WorkerInv, Work
  <2> QED BY <2>1, <2>2 DEF WorkerInv, Judged
<1> QED BY <1>1, <1>2, <1>3, <1>4 DEF CodeInv

\* Nothing at hand.
LEMMA IdleFits ==
    ASSUME NEW w \in Worker PROVE IdleWorker \in Work /\ WorkerInv(w, IdleWorker)'
<1>1. /\ IdleWorker.pc = "idle" /\ IdleWorker.results = <<>>
      /\ IdleWorker.inserted = Untested
  BY DEF IdleWorker
<1>2. Untested \in [Test -> Result] /\ NoScore \in Scores /\ <<>> \in Seq(Outcome)
  BY DEF Untested, NoResult, Result, Scores
<1>3. IdleWorker \in Work
  BY <1>2 DEF IdleWorker, Work
<1>4. WorkerInv(w, IdleWorker)'
  BY <1>1 DEF WorkerInv
<1> QED BY <1>3, <1>4

LEMMA WorkerFacts ==
    ASSUME CodeInv, NEW w \in Worker
    PROVE  /\ work[w] \in Work /\ WorkerInv(w, work[w])
           /\ lock \in [Exchange -> Worker \cup {NoRequest}] /\ failures \in 0..MaxFail
           /\ code \in [Exchange -> Row] /\ rows \in [Exchange -> [Test -> Result]]
           /\ NoRequest \notin Worker
BY DEF CodeInv, TypeOK

\* A task reaches a worker.
LEMMA DeliverStep ==
    ASSUME CodeInv, NEW w \in Worker, NEW x \in Exchange, Deliver(w, x) PROVE CodeInv'
<1>1. PICK j : j = [work[w] EXCEPT !.pc = "waiting", !.x = x]
  OBVIOUS
<1>2. /\ j.pc = "waiting" /\ j.x = x /\ j.results = work[w].results
      /\ j.inserted = work[w].inserted /\ j \in Work
  BY <1>1, WorkerFacts DEF Work
<1>3. WorkerInv(w, j)'
  BY <1>2, WorkerFacts DEF Deliver, WorkerInv
<1>4. work' = [work EXCEPT ![w] = j]
  BY <1>1 DEF Deliver
<1> QED BY <1>2, <1>3, <1>4, WorkerFacts, WorkStep DEF Deliver

LEMMA StartStep == ASSUME CodeInv, NEW w \in Worker, StartExecution(w) PROVE CodeInv'
<1>1. PICK j : j = [work[w] EXCEPT !.pc = "running", !.status = "running"]
  OBVIOUS
<1>2. /\ j.pc = "running" /\ j.x = work[w].x /\ j.results = work[w].results
      /\ j.inserted = work[w].inserted /\ j.status = "running" /\ j \in Work
  BY <1>1, WorkerFacts DEF Work
<1>3. /\ j.x \in Exchange /\ j.results = <<>> /\ j.inserted = Untested
      /\ code[j.x].status = "pending" /\ lock[j.x] = NoRequest
      /\ lock' = [lock EXCEPT ![j.x] = w]
  <2>1. j.x \in Exchange /\ work[w].pc = "waiting"
    BY <1>2, WorkerFacts DEF StartExecution, WorkerInv
  <2>2. j.results = <<>> /\ j.inserted = Untested
    BY <1>2, <2>1, WorkerFacts DEF WorkerInv
  <2>3. code[j.x].status = "pending"
    BY <1>2 DEF StartExecution, IsValidTransition, FinalStatuses
  <2> QED BY <1>2, <2>1, <2>2, <2>3 DEF StartExecution
<1>4. InMemory(j)
  BY <1>3 DEF InMemory, Untested, Test
<1>5. WorkerInv(w, j)'
  BY <1>2, <1>3, <1>4, WorkerFacts DEF StartExecution, WorkerInv, InMemory
<1>6. work' = [work EXCEPT ![w] = j]
  BY <1>1 DEF StartExecution
<1>7. /\ lock' \in [Exchange -> Worker \cup {NoRequest}]
      /\ \A x \in Exchange : lock[x] \in Worker \ {w} => lock'[x] = lock[x]
  BY <1>3, WorkerFacts
<1> QED BY <1>2, <1>5, <1>6, <1>7, WorkerFacts, WorkStep DEF StartExecution

LEMMA RefuseStep == ASSUME CodeInv, NEW w \in Worker, RefuseExecution(w) PROVE CodeInv'
BY IdleFits, WorkerFacts, WorkStep DEF RefuseExecution

\* A test that is executed: its row belongs to its result.
LEMMA RunStep == ASSUME CodeInv, NEW w \in Worker, RunTest(w) PROVE CodeInv'
<1> DEFINE n == Len(work[w].results) + 1
<1>1. /\ work[w] \in Work /\ work[w].x \in Exchange /\ work[w].pc = "running"
      /\ work[w].status = "running" /\ InMemory(work[w])
      /\ lock[work[w].x] = w /\ code[work[w].x].status = "pending"
      /\ code[work[w].x].source \in Request /\ rows[work[w].x] = Untested
  BY WorkerFacts DEF RunTest, WorkerInv, CodeInv, ExchangeInv
<1>2. /\ work[w].results \in Seq(Outcome) /\ Len(work[w].results) \in Nat
      /\ n \in Test /\ work[w].inserted \in [Test -> Result]
  BY <1>1 DEF Work, Test, RunTest
<1>3. SeenRow(w, n) = NoResult
  <2>1. work[w].inserted[n] = NoResult
    BY <1>1, <1>2 DEF InMemory
  <2>2. rows[work[w].x][n] = NoResult
    BY <1>1, <1>2 DEF Untested
  <2> QED BY <2>1, <2>2 DEF SeenRow
<1>4. PICK o \in Outcomes[Language[code[work[w].x].source]][work[w].x][n] :
          work' = [work EXCEPT ![w].results = Append(@, o),
                    ![w].inserted[n] = [passed |-> o.status = "passed", ms |-> o.ms]]
  BY <1>3 DEF RunTest, ExecuteTest
<1>5. o \in Outcome
  <2>1. Language[code[work[w].x].source] \in Languages /\ TimeLimit[work[w].x][n] \in Nat
    BY <1>1, <1>2
  <2>2. o \in TestOutcomes(Language[code[work[w].x].source], TimeLimit[work[w].x][n], Programs)
    BY <1>1, <1>2, <1>4, <2>1 DEF Outcomes
  <2> QED BY <2>1, <2>2, OutcomesFit
<1>6. PICK j : j = [work[w] EXCEPT !.results = Append(work[w].results, o),
                      !.inserted = [work[w].inserted EXCEPT ![n] = RowOf(o)]]
  OBVIOUS
<1>7. /\ j.pc = "running" /\ j.x = work[w].x /\ j.status = "running"
      /\ j.results = Append(work[w].results, o)
      /\ j.inserted = [work[w].inserted EXCEPT ![n] = RowOf(o)]
  BY <1>1, <1>6 DEF Work
<1>8. /\ j.results \in Seq(Outcome) /\ Len(j.results) = n
      /\ \A i \in 1..Len(work[w].results) : j.results[i] = work[w].results[i]
      /\ j.results[n] = o
  BY <1>2, <1>5, <1>7, AppendProperties
<1>9. j \in Work
  <2>1. RowOf(o) \in Result
    BY <1>5 DEF Outcome, RowOf, Result
  <2>2. j.inserted \in [Test -> Result]
    BY <1>2, <1>7, <2>1
  <2> QED BY <1>1, <1>2, <1>6, <1>7, <1>8, <2>2 DEF Work
<1>10. InMemory(j)
  <2>1. n <= Tests
    BY <1>2 DEF Test
  <2>2. ASSUME NEW t \in Test
        PROVE  j.inserted[t] = IF t <= n THEN RowOf(j.results[t]) ELSE NoResult
    <3>1. CASE t = n
      BY <1>2, <1>7, <1>8, <3>1
    <3>2. CASE t # n
      <4>1. j.inserted[t] = work[w].inserted[t]
        BY <1>2, <1>7, <3>2
      <4>2. t <= n <=> t <= Len(work[w].results)
        <5>1. t \in Nat
          BY DEF Test
        <5> QED BY <1>2, <3>2, <5>1
      <4>3. t <= n => j.results[t] = work[w].results[t]
        BY <1>2, <1>8, <4>2 DEF Test
      <4> QED BY <1>1, <4>1, <4>2, <4>3 DEF InMemory
    <3> QED BY <3>1, <3>2
  <2> QED BY <1>8, <2>1, <2>2 DEF InMemory
<1>11. UNCHANGED <<code, rows, inserting, req, lock, poll, failures>>
  BY DEF RunTest
<1>12. WorkerInv(w, j)'
  BY <1>1, <1>7, <1>10, <1>11 DEF WorkerInv, InMemory
<1>13. work' = [work EXCEPT ![w] = j]
  BY <1>1, <1>4, <1>6 DEF RowOf, Work
<1> QED BY <1>9, <1>11, <1>12, <1>13, WorkerFacts, WorkStep

\* The end of an execution: status and score of its rows.
LEMMA FinalizeStep ==
    ASSUME CodeInv, NEW w \in Worker, NEW target \in FinalStatuses, NEW score \in Scores,
           work[w].pc = "running", FinalizeSubmission(w, target, score),
           UNCHANGED <<code, rows, inserting, req, lock, poll, failures>>,
           Judged(work[w].inserted, target, score)
    PROVE  CodeInv'
<1>1. /\ work[w].status = "running" /\ work[w].x \in Exchange
      /\ code[work[w].x].status = "pending" /\ lock[work[w].x] = w
  BY WorkerFacts DEF WorkerInv
<1>2. IsValidTransition(work[w].status, target)
  BY <1>1 DEF IsValidTransition
<1>3. PICK j : j = [work[w] EXCEPT !.pc = "committing", !.status = target, !.score = score]
  OBVIOUS
<1>4. /\ j.pc = "committing" /\ j.x = work[w].x /\ j.status = target /\ j.score = score
      /\ j.inserted = work[w].inserted /\ j.results = work[w].results /\ j \in Work
  BY <1>3, WorkerFacts DEF Work
<1>5. work' = [work EXCEPT ![w] = j]
  BY <1>2, <1>3, WorkerFacts DEF FinalizeSubmission, Work
<1>6. WorkerInv(w, j)'
  BY <1>1, <1>4 DEF WorkerInv, Judged
<1> QED BY <1>4, <1>5, <1>6, WorkerFacts, WorkStep

LEMMA AbortStep == ASSUME CodeInv, NEW w \in Worker, AbortExecution(w) PROVE CodeInv'
<1> DEFINE n == Len(work[w].results) + 1
<1>1. /\ work[w].pc = "running" /\ InMemory(work[w]) /\ work[w] \in Work
  BY WorkerFacts DEF AbortExecution, WorkerInv
<1>2. n \in Test /\ work[w].inserted[n] = NoResult
  <2>1. Len(work[w].results) \in Nat
    BY <1>1 DEF Work
  <2>2. n \in Test /\ ~(n <= Len(work[w].results))
    BY <2>1 DEF AbortExecution, Test
  <2> QED BY <1>1, <2>2 DEF InMemory
<1>3. Judged(work[w].inserted, "error", 0)
  BY <1>2 DEF Judged, Complete
<1>4. "error" \in FinalStatuses /\ 0 \in Scores
  BY DEF FinalStatuses, Scores
<1> QED BY <1>1, <1>3, <1>4, FinalizeStep DEF AbortExecution

LEMMA FinishStep == ASSUME CodeInv, NEW w \in Worker, FinishExecution(w) PROVE CodeInv'
<1> DEFINE R == work[w].results
           I == work[w].inserted
<1>1. /\ work[w].pc = "running" /\ InMemory(work[w]) /\ R \in Seq(Outcome) /\ Len(R) = Tests
  BY WorkerFacts DEF FinishExecution, WorkerInv, Work
<1>2. DOMAIN R = Test
  BY <1>1 DEF Test
<1>3. \A t \in Test : R[t] \in Outcome /\ I[t] = RowOf(R[t])
  BY <1>1, <1>2 DEF InMemory, Test
<1>4. \A t \in Test : I[t] # NoResult /\ (I[t].passed <=> R[t].status = "passed")
  <2>1. ASSUME NEW t \in Test PROVE I[t].ms = R[t].ms /\ R[t].ms \in Nat
    <3>1. I[t] = RowOf(R[t]) /\ R[t].ms \in Nat
      BY <1>3 DEF Outcome
    <3> HIDE DEF I, R
    <3>2. RowOf(R[t]).ms = R[t].ms
      BY Zenon DEF RowOf
    <3> QED BY <3>1, <3>2
  <2>2. ASSUME NEW t \in Test PROVE I[t] # NoResult
    BY <2>1 DEF NoResult
  <2>3. ASSUME NEW t \in Test PROVE I[t].passed <=> R[t].status = "passed"
    <3>1. I[t] = RowOf(R[t])
      BY <1>3
    <3> HIDE DEF I, R
    <3>2. RowOf(R[t]).passed = (R[t].status = "passed")
      BY Zenon DEF RowOf
    <3> QED BY <3>1, <3>2, Zenon
  <2> QED BY <2>2, <2>3
<1>5. PassedRows(I) = Passed(R) /\ Complete(I)
  BY <1>2, <1>4 DEF PassedRows, Passed, Complete
<1>6. /\ DetermineFinalStatus(R) \in FinalStatuses
      /\ DetermineFinalStatus(R) = "passed" <=> (Tests > 0 /\ PassedRows(I) = Test)
  <2>1. R = <<>> <=> Tests = 0
    BY <1>1
  <2>2. (\E t \in Test : TRUE) <=> Tests > 0
    <3>1. Tests > 0 => 1 \in Test
      BY DEF Test
    <3>2. (\E t \in Test : TRUE) => Tests > 0
      BY DEF Test
    <3> QED BY <3>1, <3>2
  <2> DEFINE seen == {R[i].status : i \in DOMAIN R}
  <2>3. R # <<>> => (seen = {"passed"} <=> PassedRows(I) = Test)
    <3>1. PassedRows(I) = Test <=> \A t \in Test : R[t].status = "passed"
      BY <1>2, <1>5 DEF Passed
    <3>2. R # <<>> => \E t \in Test : TRUE
      BY <2>1, <2>2
    <3>3. (\E t \in Test : TRUE) =>
            (seen = {"passed"} <=> \A t \in Test : R[t].status = "passed")
      <4>1. seen = {"passed"} => \A t \in Test : R[t].status = "passed"
        BY <1>2
      <4>2. ASSUME NEW t \in Test, \A u \in Test : R[u].status = "passed"
            PROVE  seen = {"passed"}
        BY <1>2, <4>2
      <4> QED BY <4>1, <4>2
    <3> QED BY <3>1, <3>2, <3>3
  <2>4. CASE R = <<>>
    BY <2>1, <2>4 DEF DetermineFinalStatus, FinalStatuses
  <2>5. CASE R # <<>>
    <3>1. DetermineFinalStatus(R) = IF seen = {"passed"} THEN "passed"
        ELSE IF "timeout" \in seen THEN "timeout"
        ELSE IF "memory_exceeded" \in seen THEN "memory_exceeded"
        ELSE IF "runtime_error" \in seen THEN "error"
        ELSE "failed"
      BY <2>5 DEF DetermineFinalStatus
    <3> HIDE DEF seen
    <3>2. /\ DetermineFinalStatus(R) \in FinalStatuses
          /\ DetermineFinalStatus(R) = "passed" <=> seen = {"passed"}
      BY <3>1 DEF FinalStatuses
    <3> QED BY <2>1, <2>3, <2>5, <3>2
  <2> QED BY <2>4, <2>5
<1>7. CalculateScore(Passed(R)) \in Scores
  BY <1>2 DEF Passed, Scores
<1>8. Judged(I, DetermineFinalStatus(R), CalculateScore(Passed(R)))
  BY <1>5, <1>6 DEF Judged
<1> QED BY <1>1, <1>6, <1>7, <1>8, FinalizeStep DEF FinishExecution

LEMMA FailStep == ASSUME CodeInv, NEW w \in Worker, FailWorker(w) PROVE CodeInv'
<1>1. /\ work[w].x \in Exchange /\ lock[work[w].x] = w
      /\ lock' = [lock EXCEPT ![work[w].x] = NoRequest]
  BY WorkerFacts DEF FailWorker, WorkerInv
<1>2. failures' \in 0..MaxFail
  BY WorkerFacts DEF FailWorker
<1>3. /\ lock' \in [Exchange -> Worker \cup {NoRequest}]
      /\ \A x \in Exchange : lock[x] \in Worker \ {w} => lock'[x] = lock[x]
  BY <1>1, WorkerFacts
<1> QED BY <1>2, <1>3, IdleFits, WorkStep DEF FailWorker

\* What a worker reads back is what it has inserted.
LEMMA SeenIsInserted ==
    ASSUME CodeInv, NEW w \in Worker, work[w].pc \in {"running", "committing"}
    PROVE  [t \in Test |-> SeenRow(w, t)] = work[w].inserted
<1>1. /\ work[w].x \in Exchange /\ rows[work[w].x] = Untested
      /\ work[w].inserted \in [Test -> Result]
  BY WorkerFacts DEF WorkerInv, CodeInv, ExchangeInv, Work
<1>2. ASSUME NEW t \in Test PROVE SeenRow(w, t) = work[w].inserted[t]
  <2>1. rows[work[w].x][t] = NoResult
    BY <1>1 DEF Untested
  <2> QED BY <2>1 DEF SeenRow
<1> QED BY <1>1, <1>2

\* COMMIT of an execution: row, results and lock at once.
LEMMA CommitStep == ASSUME CodeInv, NEW w \in Worker, CommitExecution(w) PROVE CodeInv'
<1> DEFINE x == work[w].x
           row == [code[x] EXCEPT !.status = work[w].status, !.score = work[w].score]
<1>1. /\ work[w] \in Work /\ x \in Exchange /\ lock[x] = w /\ code[x].status = "pending"
      /\ work[w].status \in FinalStatuses /\ code[x] \in Row /\ code[x].source \in Request
      /\ Judged(work[w].inserted, work[w].status, work[w].score)
  BY WorkerFacts DEF CommitExecution, WorkerInv, CodeInv, ExchangeInv
<1>2. /\ row \in Row /\ row.status = work[w].status /\ row.score = work[w].score
      /\ row.source = code[x].source
  BY <1>1 DEF Row, Work
<1>3. /\ code' = [code EXCEPT ![x] = row] /\ rows' = [rows EXCEPT ![x] = work[w].inserted]
      /\ lock' = [lock EXCEPT ![x] = NoRequest] /\ work' = [work EXCEPT ![w] = IdleWorker]
      /\ UNCHANGED <<inserting, req, poll, failures>>
  BY SeenIsInserted DEF CommitExecution
<1> HIDE DEF row
<1>4. work[w].inserted \in [Test -> Result] /\ IdleWorker \in Work
  BY <1>1, IdleFits DEF Work
<1>5. TypeOK'
  BY <1>1, <1>2, <1>3, <1>4 DEF CodeInv, TypeOK
<1>6. /\ code'[x] = row /\ rows'[x] = work[w].inserted /\ work'[w] = IdleWorker
      /\ \A y \in Exchange \ {x} :
            code'[y] = code[y] /\ rows'[y] = rows[y] /\ lock'[y] = lock[y]
      /\ \A u \in Worker \ {w} : work'[u] = work[u]
  BY <1>1, <1>3, WorkerFacts DEF CodeInv, TypeOK
<1>7. ASSUME NEW y \in Exchange PROVE ExchangeInv(y)'
  <2>1. CASE y = x
    BY <1>1, <1>2, <1>6, <2>1 DEF ExchangeInv, Judged, FinalStatuses
  <2>2. CASE y # x
    BY <1>6, <2>2 DEF CodeInv, ExchangeInv, Judged
  <2> QED BY <2>1, <2>2
<1>8. ASSUME NEW r \in Request PROVE RequestInv(r)'
  BY <1>1, <1>3, <1>6 DEF CodeInv, RequestInv
<1>9. ASSUME NEW u \in Worker PROVE WorkerInv(u, work[u])'
  <2>1. CASE u = w
    BY <1>6, <2>1, IdleFits
  <2>2. CASE u # w
    <3>1. work'[u] = work[u] /\ work[u] \in Work /\ WorkerInv(u, work[u])
      BY <1>6, <2>2, WorkerFacts
    <3>2. work[u].pc \in {"running", "committing"} => work[u].x # x
      BY <1>1, <2>2, <3>1 DEF WorkerInv
    <3>3. row.status # "none"
      BY <1>1, <1>2 DEF FinalStatuses
    <3>4. work[u].pc # "idle" => work[u].x \in Exchange /\ code'[work[u].x].status # "none"
      BY <1>6, <3>1, <3>3 DEF WorkerInv
    <3> QED BY <1>6, <3>1, <3>2, <3>4 DEF WorkerInv, Judged, InMemory
  <2> QED BY <2>1, <2>2
<1>10. PollInv'
  <2>1. poll.status \in FinalStatuses => poll.x \in Exchange /\ poll.x # x
    BY <1>1 DEF CodeInv, PollInv, FinalStatuses
  <2> QED BY <1>3, <1>6, <2>1 DEF CodeInv, PollInv
<1> QED BY <1>5, <1>7, <1>8, <1>9, <1>10 DEF CodeInv

-----------------------------------------------------------------------------
(* The requests and the reader.                                            *)

LEMMA ReplyFits ==
    ASSUME CodeInv, NEW r \in Request, NEW reply \in {"created", "conflict", "died"},
           NEW source \in Request \cup {NoRequest}, Reply(r, reply, source)
    PROVE  /\ req' \in [Request -> [pc : {"new", "inserted", "done"},
                                    reply : {"none", "created", "conflict", "died"},
                                    source : Request \cup {NoRequest}]]
           /\ req'[r].pc = "done" /\ \A q \in Request \ {r} : req'[q] = req[q]
BY DEF CodeInv, TypeOK, Reply

\* A step of a request that leaves the tables alone.
LEMMA AskStep ==
    ASSUME CodeInv, UNCHANGED <<code, rows, lock, work, poll>>,
           failures' \in 0..MaxFail,
           inserting' \in [Exchange -> Request \cup {NoRequest}],
           req' \in [Request -> [pc : {"new", "inserted", "done"},
                                 reply : {"none", "created", "conflict", "died"},
                                 source : Request \cup {NoRequest}]],
           \A r \in Request : RequestInv(r)'
    PROVE  CodeInv'
<1>1. TypeOK'
  BY DEF CodeInv, TypeOK
<1>2. (\A x \in Exchange : ExchangeInv(x)') /\ PollInv'
  BY DEF CodeInv, ExchangeInv, PollInv, Judged
<1>3. \A w \in Worker : WorkerInv(w, work[w])'
  BY DEF CodeInv, WorkerInv, Judged, InMemory
<1> QED BY <1>1, <1>2, <1>3 DEF CodeInv

LEMMA InsertStep == ASSUME CodeInv, NEW r \in Request, InsertCode(r) PROVE CodeInv'
<1> DEFINE x == ExchangeOf[r]
<1>1. /\ x \in Exchange /\ code[x].status = "none" /\ inserting[x] = NoRequest
      /\ inserting' = [inserting EXCEPT ![x] = r] /\ req' = [req EXCEPT ![r].pc = "inserted"]
      /\ UNCHANGED <<code, rows, lock, work, poll, failures>> /\ NoRequest \notin Request
  BY DEF InsertCode
<1>2. /\ inserting' \in [Exchange -> Request \cup {NoRequest}]
      /\ req' \in [Request -> [pc : {"new", "inserted", "done"},
                               reply : {"none", "created", "conflict", "died"},
                               source : Request \cup {NoRequest}]]
  <2>1. inserting' \in [Exchange -> Request \cup {NoRequest}]
    BY <1>1 DEF CodeInv, TypeOK
  <2>2. [req[r] EXCEPT !.pc = "inserted"] \in
            [pc : {"new", "inserted", "done"},
             reply : {"none", "created", "conflict", "died"},
             source : Request \cup {NoRequest}]
    <3>1. req[r] \in [pc : {"new", "inserted", "done"},
                      reply : {"none", "created", "conflict", "died"},
                      source : Request \cup {NoRequest}]
      BY DEF CodeInv, TypeOK
    <3> QED BY <3>1
  <2>3. req' = [req EXCEPT ![r] = [req[r] EXCEPT !.pc = "inserted"]]
    BY <1>1
  <2> QED BY <2>1, <2>2, <2>3 DEF CodeInv, TypeOK
<1>3. ASSUME NEW q \in Request PROVE RequestInv(q)'
  <2>1. CASE q = r
    BY <1>1, <2>1 DEF CodeInv, TypeOK, RequestInv
  <2>2. CASE q # r
    BY <1>1, <2>2 DEF CodeInv, TypeOK, RequestInv
  <2> QED BY <2>1, <2>2
<1> QED BY <1>1, <1>2, <1>3, AskStep DEF CodeInv, TypeOK

LEMMA RefuseDuplicateStep ==
    ASSUME CodeInv, NEW r \in Request, RefuseDuplicate(r) PROVE CodeInv'
<1>1. /\ Reply(r, "conflict", code[ExchangeOf[r]].source)
      /\ UNCHANGED <<code, rows, inserting, lock, work, poll, failures>>
      /\ code[ExchangeOf[r]].source \in Request \cup {NoRequest}
  <2>1. code[ExchangeOf[r]] \in Row
    BY DEF CodeInv, TypeOK
  <2> QED BY <2>1 DEF RefuseDuplicate, Row
<1>2. /\ req' \in [Request -> [pc : {"new", "inserted", "done"},
                               reply : {"none", "created", "conflict", "died"},
                               source : Request \cup {NoRequest}]]
      /\ req'[r].pc = "done" /\ \A q \in Request \ {r} : req'[q] = req[q]
  BY <1>1, ReplyFits
<1>3. \A q \in Request : RequestInv(q)'
  BY <1>1, <1>2 DEF CodeInv, RequestInv
<1> QED BY <1>1, <1>2, <1>3, AskStep DEF CodeInv, TypeOK

LEMMA FailCodeStep == ASSUME CodeInv, NEW r \in Request, FailCode(r) PROVE CodeInv'
<1> DEFINE x == ExchangeOf[r]
<1>1. /\ req[r].pc = "inserted" /\ inserting[x] = r /\ x \in Exchange
      /\ inserting' = [inserting EXCEPT ![x] = NoRequest]
      /\ Reply(r, "died", NoRequest) /\ UNCHANGED <<code, rows, lock, work, poll>>
  BY DEF FailCode, CodeInv, RequestInv
<1>2. failures' \in 0..MaxFail
  BY DEF FailCode, CodeInv, TypeOK
<1>3. inserting' \in [Exchange -> Request \cup {NoRequest}]
  BY <1>1 DEF CodeInv, TypeOK
<1>4. /\ req' \in [Request -> [pc : {"new", "inserted", "done"},
                               reply : {"none", "created", "conflict", "died"},
                               source : Request \cup {NoRequest}]]
      /\ req'[r].pc = "done" /\ \A q \in Request \ {r} : req'[q] = req[q]
  BY <1>1, ReplyFits
<1>5. ASSUME NEW q \in Request PROVE RequestInv(q)'
  <2>1. CASE q = r
    BY <1>4, <2>1 DEF RequestInv
  <2>2. CASE q # r
    BY <1>1, <1>4, <2>2 DEF CodeInv, TypeOK, RequestInv
  <2> QED BY <2>1, <2>2
<1> QED BY <1>1, <1>2, <1>3, <1>4, <1>5, AskStep

\* COMMIT of a code: nobody else was inserting one, and nobody executes it yet.
LEMMA CommitCodeStep == ASSUME CodeInv, NEW r \in Request, CommitCode(r) PROVE CodeInv'
<1> DEFINE x == ExchangeOf[r]
<1> DEFINE row == [status |-> "pending", source |-> r, score |-> NoScore]
<1>1. /\ req[r].pc = "inserted" /\ inserting[x] = r /\ x \in Exchange
      /\ code[x].status = "none" /\ rows[x] = Untested
      /\ code' = [code EXCEPT ![x] = row]
      /\ inserting' = [inserting EXCEPT ![x] = NoRequest]
      /\ Reply(r, "created", r) /\ UNCHANGED <<rows, lock, work, poll, failures>>
  BY DEF CommitCode, CodeInv, RequestInv, ExchangeInv
<1>2. /\ row.status = "pending" /\ row.source = r /\ row.score = NoScore
      /\ row \in Row
  BY DEF Row, Scores
<1> HIDE DEF row
<1>3. /\ req' \in [Request -> [pc : {"new", "inserted", "done"},
                               reply : {"none", "created", "conflict", "died"},
                               source : Request \cup {NoRequest}]]
      /\ req'[r].pc = "done" /\ \A q \in Request \ {r} : req'[q] = req[q]
  BY <1>1, ReplyFits
<1>4. TypeOK'
  BY <1>1, <1>2, <1>3 DEF CodeInv, TypeOK
<1>5. /\ code'[x] = row /\ \A y \in Exchange \ {x} :
            code'[y] = code[y] /\ inserting'[y] = inserting[y]
  BY <1>1 DEF CodeInv, TypeOK
<1>6. ASSUME NEW y \in Exchange PROVE ExchangeInv(y)'
  <2>1. CASE y = x
    BY <1>1, <1>2, <1>5, <2>1 DEF ExchangeInv, FinalStatuses
  <2>2. CASE y # x
    BY <1>1, <1>5, <2>2 DEF CodeInv, ExchangeInv, Judged
  <2> QED BY <2>1, <2>2
<1>7. ASSUME NEW q \in Request PROVE RequestInv(q)'
  <2>1. CASE q = r
    BY <1>3, <2>1 DEF RequestInv
  <2>2. CASE q # r
    BY <1>1, <1>3, <1>5, <2>2 DEF CodeInv, RequestInv
  <2> QED BY <2>1, <2>2
<1>8. ASSUME NEW w \in Worker PROVE WorkerInv(w, work[w])'
  <2>1. work[w].pc # "idle" => work[w].x \in Exchange \ {x}
    BY <1>1 DEF CodeInv, WorkerInv
  <2>2. WorkerInv(w, work[w])
    BY DEF CodeInv
  <2> QED BY <1>1, <1>5, <2>1, <2>2 DEF WorkerInv, Judged, InMemory
<1>9. PollInv'
  <2>1. poll.status \in FinalStatuses => poll.x \in Exchange /\ poll.x # x
    BY <1>1 DEF CodeInv, PollInv, FinalStatuses
  <2> QED BY <1>1, <1>5, <2>1 DEF CodeInv, PollInv
<1> QED BY <1>4, <1>6, <1>7, <1>8, <1>9 DEF CodeInv

LEMMA ReadStep == ASSUME CodeInv, Read PROVE CodeInv'
<1>1. UNCHANGED <<code, rows, inserting, req, lock, work, failures>>
  BY DEF Read, ReadSubmission, ReadResults
<1>2. /\ poll' \in [pc : {"idle", "results"}, x : Exchange \cup {NoRequest},
                    status : {"none", "pending"} \cup FinalStatuses]
      /\ PollInv'
  <2>1. CASE ReadResults
    BY <1>1, <2>1 DEF ReadResults, IdleReader, PollInv, FinalStatuses
  <2>2. ASSUME NEW x \in Exchange, ReadSubmission(x)
        PROVE  /\ poll' \in [pc : {"idle", "results"}, x : Exchange \cup {NoRequest},
                             status : {"none", "pending"} \cup FinalStatuses]
               /\ PollInv'
    <3>1. poll' = [poll EXCEPT !.pc = "results", !.x = x, !.status = code[x].status]
      BY <2>2 DEF ReadSubmission
    <3>2. code[x].status \in {"none", "pending"} \cup FinalStatuses
      BY WorkerFacts DEF CodeInv, TypeOK, Row
    <3>3. poll'.pc = "results" /\ poll'.x = x /\ poll'.status = code[x].status
      BY <3>1 DEF CodeInv, TypeOK
    <3> QED BY <1>1, <3>1, <3>2, <3>3 DEF CodeInv, TypeOK, PollInv
  <2> QED BY <2>1, <2>2 DEF Read
<1>3. TypeOK'
  BY <1>1, <1>2 DEF CodeInv, TypeOK
<1>4. \A x \in Exchange : ExchangeInv(x)'
  BY <1>1 DEF CodeInv, ExchangeInv, Judged
<1>5. \A r \in Request : RequestInv(r)'
  BY <1>1 DEF CodeInv, RequestInv
<1>6. \A w \in Worker : WorkerInv(w, work[w])'
  BY <1>1 DEF CodeInv, WorkerInv, Judged, InMemory
<1> QED BY <1>2, <1>3, <1>4, <1>5, <1>6 DEF CodeInv

-----------------------------------------------------------------------------
(* The theorems.                                                           *)

LEMMA InitialState == ASSUME Init PROVE CodeInv
<1>1. /\ Untested \in [Test -> Result] /\ NoScore \in Scores /\ NoRow \in Row
  BY DEF Untested, NoResult, Result, Scores, NoRow, Row
<1>2. /\ NoRow.status = "none" /\ NoRow.score = NoScore
      /\ IdleWorker.pc = "idle" /\ IdleWorker.results = <<>>
      /\ IdleWorker.inserted = Untested /\ <<>> \in Seq(Outcome)
  BY DEF NoRow, IdleWorker
<1>3. IdleWorker \in Work
  BY <1>1, <1>2 DEF IdleWorker, Work
<1>4. TypeOK
  BY <1>1, <1>3 DEF Init, TypeOK, IdleReader
<1>5. (\A x \in Exchange : ExchangeInv(x)) /\ (\A r \in Request : RequestInv(r))
  BY <1>2 DEF Init, ExchangeInv, RequestInv, FinalStatuses
<1>6. \A w \in Worker : WorkerInv(w, work[w])
  BY <1>2 DEF Init, WorkerInv
<1>7. PollInv
  BY DEF Init, PollInv, IdleReader, FinalStatuses
<1> QED BY <1>4, <1>5, <1>6, <1>7 DEF CodeInv

LEMMA StepPreserves == ASSUME CodeInv, [Next]_codeVars PROVE CodeInv'
<1>1. ASSUME NEW r \in Request, RequestStep(r) \/ FailCode(r) PROVE CodeInv'
  BY <1>1, InsertStep, RefuseDuplicateStep, CommitCodeStep, FailCodeStep DEF RequestStep
<1>2. ASSUME NEW w \in Worker, LockedStep(w) \/ WorkerStep(w) \/ FailWorker(w)
      PROVE  CodeInv'
  BY <1>2, StartStep, RefuseStep, RunStep, AbortStep, FinishStep, CommitStep, FailStep
  DEF LockedStep, WorkerStep
<1>3. ASSUME NEW w \in Worker, NEW x \in Exchange, Deliver(w, x) PROVE CodeInv'
  BY <1>3, DeliverStep
<1>4. CASE Read
  BY <1>4, ReadStep
<1>5. CASE UNCHANGED codeVars
  BY <1>5 DEF codeVars, CodeInv, TypeOK, ExchangeInv, RequestInv, WorkerInv, PollInv,
              Judged, InMemory
<1> QED BY <1>1, <1>2, <1>3, <1>4, <1>5 DEF Next

\* Whatever requests, workers, programs and crashes: CodeInv is inductive.
THEOREM CodeInvariance == Spec => []CodeInv
<1>1. Init => CodeInv
  BY InitialState
<1>2. CodeInv /\ [Next]_codeVars => CodeInv'
  BY StepPreserves
<1> QED BY <1>1, <1>2, PTL DEF Spec

\* Every variable keeps its type; a committed status is never "running".
THEOREM CodeTypes == Spec => []TypeOK
<1>1. CodeInv => TypeOK
  BY DEF CodeInv
<1> QED BY <1>1, CodeInvariance, PTL

\* The status endpoint's second SELECT finds the results and the score that belong
\* to the final status of the first one.
THEOREM PollsAreConsistent == Spec => PolledVerdictHasItsResults
<1>1. CodeInv => (ReadResults /\ poll.status \in FinalStatuses =>
                    poll.status = code[poll.x].status /\ VerdictFits(poll.x))
  <2>1. SUFFICES ASSUME CodeInv, poll.status \in FinalStatuses
                 PROVE  poll.status = code[poll.x].status /\ VerdictFits(poll.x)
    OBVIOUS
  <2>2. poll.x \in Exchange /\ poll.status = code[poll.x].status
    BY <2>1 DEF CodeInv, PollInv
  <2>3. Judged(rows[poll.x], code[poll.x].status, code[poll.x].score)
    BY <2>1, <2>2 DEF CodeInv, ExchangeInv
  <2> QED BY <2>2, <2>3 DEF VerdictFits, Judged
<1> QED BY <1>1, CodeInvariance, PTL DEF PolledVerdictHasItsResults

\* A step of a request, a worker or the reader is a step of CodeVerdict, or none.
LEMMA StepsRefine == ASSUME CodeInv, [Next]_codeVars PROVE [Verdict!Next]_Verdict!cvVars
<1>1. ASSUME UNCHANGED <<code, rows>> PROVE [Verdict!Next]_Verdict!cvVars
  BY <1>1 DEF Verdict!cvVars
<1>2. ASSUME NEW r \in Request, CommitCode(r) PROVE Verdict!Next
  <2> DEFINE x == ExchangeOf[r]
             row == [status |-> "pending", source |-> r, score |-> NoScore]
  <2>1. /\ x \in Exchange /\ code[x].status = "none" /\ code[x].score = NoScore
        /\ code' = [code EXCEPT ![x] = row] /\ rows' = rows
    BY <1>2 DEF CommitCode, CodeInv, RequestInv, ExchangeInv
  <2>2. row.status = "pending" /\ row.source = r /\ row.score = NoScore
    OBVIOUS
  <2> HIDE DEF row
  <2>3. code'[x] = row /\ \A y \in Exchange \ {x} : code'[y] = code[y]
    BY <2>1 DEF CodeInv, TypeOK
  <2>4. [y \in Exchange |-> code'[y].source]
          = [[y \in Exchange |-> code[y].source] EXCEPT ![x] = r]
    <3>1. \A y \in Exchange : code'[y].source = IF y = x THEN r ELSE code[y].source
      BY <2>2, <2>3
    <3> QED BY <2>1, <3>1
  <2>5. [y \in Exchange |-> code'[y].status]
          = [[y \in Exchange |-> code[y].status] EXCEPT ![x] = "pending"]
    <3>1. \A y \in Exchange : code'[y].status = IF y = x THEN "pending" ELSE code[y].status
      BY <2>2, <2>3
    <3> QED BY <2>1, <3>1
  <2>6. [y \in Exchange |-> code'[y].score] = [y \in Exchange |-> code[y].score]
    BY <2>1, <2>2, <2>3
  <2>7. [y \in Exchange |-> code[y].status][x] = "none"
    BY <2>1
  <2>8. Verdict!Accept(x)
    BY <2>1, <2>4, <2>5, <2>6, <2>7 DEF Verdict!Accept
  <2> QED BY <2>1, <2>8 DEF Verdict!Next
<1>3. ASSUME NEW w \in Worker, CommitExecution(w) PROVE Verdict!Next
  <2>0. PICK x \in Exchange : x = work[w].x
    BY <1>3, WorkerFacts DEF CommitExecution, WorkerInv
  <2> DEFINE row == [code[x] EXCEPT !.status = work[w].status, !.score = work[w].score]
  <2>1. /\ code[x].status = "pending" /\ code[x] \in Row
        /\ work[w].status \in FinalStatuses
    BY <1>3, <2>0, WorkerFacts DEF CommitExecution, WorkerInv
  <2>2. /\ code' = [code EXCEPT ![x] = row]
        /\ rows' = [rows EXCEPT ![x] = [t \in Test |-> SeenRow(w, t)]]
    BY <1>3, <2>0 DEF CommitExecution
  <2>3. row.status = work[w].status /\ row.source = code[x].source
    BY <2>1 DEF Row
  <2> HIDE DEF row
  <2>4. /\ code'[x] = row
        /\ \A y \in Exchange \ {x} : code'[y] = code[y] /\ rows'[y] = rows[y]
    BY <2>1, <2>2 DEF CodeInv, TypeOK
  <2>5. [y \in Exchange |-> code'[y].source] = [y \in Exchange |-> code[y].source]
    BY <2>3, <2>4
  <2>6. [y \in Exchange |-> code'[y].status]
          = [[y \in Exchange |-> code[y].status] EXCEPT ![x] = work[w].status]
    BY <2>1, <2>3, <2>4
  <2>7. [y \in Exchange |-> code[y].status][x] = "pending"
    BY <2>1
  <2>8. \A y \in Exchange \ {x} :
            /\ [z \in Exchange |-> code'[z].score][y] = [z \in Exchange |-> code[z].score][y]
            /\ rows'[y] = rows[y]
    BY <2>4
  <2>9. Verdict!Judge(x)
    <3>1. work[w].status \in Verdict!FinalVerdicts
      BY <2>1 DEF Verdict!FinalVerdicts, FinalStatuses
    <3> QED BY <3>1, <2>5, <2>6, <2>7, <2>8 DEF Verdict!Judge
  <2> QED BY <2>9 DEF Verdict!Next
<1>4. \/ UNCHANGED <<code, rows>>
      \/ \E r \in Request : CommitCode(r)
      \/ \E w \in Worker : CommitExecution(w)
  BY DEF Next, RequestStep, InsertCode, RefuseDuplicate, FailCode, Deliver, LockedStep,
         StartExecution, RefuseExecution, WorkerStep, RunTest, AbortExecution,
         FinishExecution, FailWorker, Read, ReadSubmission, ReadResults, codeVars
<1> QED BY <1>1, <1>2, <1>3, <1>4

\* Seen through committed data, the first code that arrives for an exchange is the
\* one that is judged, once, with status, score and results in one step: the endpoint,
\* the workers and their crashes implement CodeVerdict.
THEOREM CodeImplementsVerdict == Spec => ImplementsVerdict
<1>1. Init => Verdict!Init
  BY DEF Init, Verdict!Init, NoRow
<1>2. CodeInv /\ [Next]_codeVars => [Verdict!Next]_Verdict!cvVars
  BY StepsRefine
<1> QED BY <1>1, <1>2, CodeInvariance, PTL DEF Spec, ImplementsVerdict, Verdict!Spec
=============================================================================
