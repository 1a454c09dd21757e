--------------------- MODULE InterviewEvaluationProofs ---------------------
(***************************************************************************)
(* Proofs about the evaluations and results of one submission, for any     *)
(* number of sessions and exchanges and whatever the bounds: which         *)
(* evaluation is final, which result is current, what a result aggregates  *)
(* and what a re-evaluation replaces.                                      *)
(***************************************************************************)
EXTENDS InterviewEvaluation, SequenceTheorems, TLAPS

USE ExchangesAssumption, EvaluationsAssumption, ThreadAssumption

-----------------------------------------------------------------------------
(* The inductive invariant.                                                *)

\* What a result of n answers has to aggregate.
Aggregates(E, n) ==
    /\ \A e \in E : e[1] <= n
    /\ \A x \in 1..n : \E e \in E : Of(x, E) = {e}

\* What a session keeps in its variables is of rows that are there.
Fits(j) ==
    /\ j.base \subseteq Of(j.at, evals)
    /\ \A e, f \in j.base : e = f
    /\ j.inputs \subseteq evals
    /\ j.seen \subseteq DOMAIN results
    /\ j.upto <= answered
    /\ j.pc \in Scoring => j.at \in Exchange
    /\ j.pc = "next" => j.at \in 1..(j.upto + 1)
    /\ j.pc \in Scoring /\ j.kind \in {"report", "completion"} => j.at <= j.upto
    /\ j.pc \in {"check", "unmark"} =>
          j.kind \in {"evaluate", "override"} /\ j.rescore = FALSE
    /\ j.pc = "score_unmark" => j.kind # "completion"
    /\ j.pc = "list" => j.upto = 0 /\ j.inputs = {} /\ j.base = {}
    /\ j.kind = "completion" => ~j.force /\ ~j.rescore
    /\ j.pc \in {"retire", "insert_result", "store_result"} =>
          Aggregates(j.inputs, j.upto)

\* What a session has written and not committed belongs to the step it is at;
\* the evaluation it replaces is still final when the new one is stored.
Holds(w, j) ==
    /\ unmarked[w] # {} => j.pc \in {"score_check", "llm", "insert", "store"}
    /\ unmarked[w] \subseteq j.base
    /\ j.rescore /\ unmarked[w] # {} => j.pc # "score_check"
    /\ j.kind = "completion" => unmarked[w] = {}
    /\ added[w] # {} <=> j.pc = "store"
    /\ \A e \in added[w] : e[1] = j.at
    /\ retired[w] # {} => j.pc \in {"insert_result", "store_result"}
    /\ reporting[w] <=> j.pc = "store_result"
    /\ j.pc = "store" => j.base \subseteq finals

\* Row locks: no two sessions withdraw the same evaluation.
RowLocks ==
    \A u, w \in Worker : u # w => unmarked[u] \cap unmarked[w] = {}

\* The unique key of final evaluations: who inserts one follows every evaluation
\* of its exchange, is the only one to insert, and has withdrawn what was final.
KeyHeld ==
    \A w \in Worker : \A e \in added[w] :
        /\ added[w] = {e}
        /\ e \notin evals
        /\ \A f \in Of(e[1], evals) : f[2] < e[2]
        /\ \A u \in Worker \ {w} : Of(e[1], added[u]) = {}
        /\ Of(e[1], finals) \subseteq unmarked[w]

\* The unique key of current results.
ReporterAlone ==
    \A w \in Worker : reporting[w] =>
        /\ current \subseteq retired[w]
        /\ \A u \in Worker \ {w} : ~reporting[u]

\* An exchange that has been evaluated keeps a final evaluation.
HasFinal == \A e \in evals : Of(e[1], finals) # {}

ResultsComplete ==
    \A i \in DOMAIN results : \E n \in 0..answered : Aggregates(results[i], n)

TablesInv ==
    /\ RowLocks /\ KeyHeld /\ ReporterAlone
    /\ HasFinal /\ FinalIsLatest /\ CurrentIsLatest /\ ResultsComplete

SessionInv(w, j) == Fits(j) /\ Holds(w, j)

EvaluationInv ==
    TypeOK /\ TablesInv /\ \A w \in Worker : SessionInv(w, job[w])

-----------------------------------------------------------------------------
(* Facts about the state.                                                  *)

\* Two final evaluations of an exchange are one.
LEMMA FinalsAreOne ==
    ASSUME EvaluationInv, NEW e \in finals, NEW f \in finals, e[1] = f[1]
    PROVE  e = f
<1>1. e \in evals /\ f \in evals /\ e \in Evaluation /\ f \in Evaluation
  BY DEF EvaluationInv, TypeOK, DbTypeOK
<1>2. e[2] <= f[2] /\ f[2] <= e[2]
  BY <1>1 DEF EvaluationInv, TablesInv, FinalIsLatest, Of
<1> QED BY <1>1, <1>2 DEF Evaluation, Exchange

\* What a session without an insertion of its own reads as final.
LEMMA FinalOfSession ==
    ASSUME EvaluationInv, NEW w \in Worker, NEW x, added[w] = {}
    PROVE  /\ FinalOf(w, x) \subseteq Of(x, evals)
           /\ FinalOf(w, x) \subseteq finals
           /\ FinalOf(w, x) \cap unmarked[w] = {}
           /\ \A e, f \in FinalOf(w, x) : e = f
           /\ FinalOf(w, x) \subseteq Evaluation
<1>1. FinalOf(w, x) = Of(x, finals \ unmarked[w])
  BY DEF FinalOf
<1>2. finals \subseteq evals /\ evals \subseteq Evaluation
  BY DEF EvaluationInv, TypeOK, DbTypeOK
<1>3. \A e, f \in FinalOf(w, x) : e = f
  BY <1>1, FinalsAreOne DEF Of
<1> QED BY <1>1, <1>2, <1>3 DEF Of

-----------------------------------------------------------------------------
(* Steps by what they do to the database.                                  *)

\* The session of another step stays as it was while rows are only added.
LEMMA OthersStay ==
    ASSUME EvaluationInv, TypeOK', NEW u \in Worker, job'[u] = job[u],
           unmarked'[u] = unmarked[u], added'[u] = added[u],
           retired'[u] = retired[u], reporting'[u] = reporting[u],
           evals \subseteq evals', DOMAIN results \subseteq DOMAIN results',
           answered <= answered',
           job[u].pc = "store" => job[u].base \subseteq finals'
    PROVE  SessionInv(u, job[u])'
<1>1. SessionInv(u, job[u]) /\ job[u] \in Jobs /\ answered \in Nat /\ answered' \in Nat
  BY DEF EvaluationInv, TypeOK
<1>2. Fits(job[u])'
  BY <1>1 DEF SessionInv, Fits, Of, Aggregates, Jobs
<1>3. Holds(u, job[u])'
  BY <1>1 DEF SessionInv, Holds
<1> QED BY <1>2, <1>3 DEF SessionInv

\* A step of one session that leaves the database alone.
LEMMA QuietStep ==
    ASSUME EvaluationInv, NEW w \in Worker, NEW j \in Jobs, Do(w, j),
           UNCHANGED <<dbVars, answered>>, score' \in 0..Len(results),
           SessionInv(w, j)
    PROVE  EvaluationInv'
<1>1. TypeOK'
  BY DEF EvaluationInv, TypeOK, DbTypeOK, dbVars, Do
<1>2. TablesInv'
  BY DEF EvaluationInv, TablesInv, RowLocks, KeyHeld, ReporterAlone, HasFinal,
         FinalIsLatest, CurrentIsLatest, ResultsComplete, dbVars
<1>3. job'[w] = j /\ \A u \in Worker \ {w} : job'[u] = job[u]
  BY DEF Do, EvaluationInv, TypeOK
<1>4. SessionInv(w, job[w])'
  BY <1>3 DEF SessionInv, Fits, Holds, dbVars
<1>5. ASSUME NEW u \in Worker \ {w} PROVE SessionInv(u, job[u])'
  <2>1. job[u].pc = "store" => job[u].base \subseteq finals
    BY DEF EvaluationInv, SessionInv, Holds
  <2>2. answered \in Nat
    BY DEF EvaluationInv, TypeOK
  <2> QED BY <1>1, <1>3, <2>1, <2>2, OthersStay DEF dbVars
<1> QED BY <1>1, <1>2, <1>4, <1>5 DEF EvaluationInv

\* A session that rolls back, and goes on with j, holds nothing.
LEMMA RollbackStep ==
    ASSUME EvaluationInv, NEW w \in Worker, NEW j \in Jobs, Do(w, j),
           Rollback(w), UNCHANGED <<answered, score>>,
           Fits(j), j.pc \notin {"store", "store_result"}
    PROVE  EvaluationInv'
<1>1. TypeOK'
  BY DEF EvaluationInv, TypeOK, DbTypeOK, Rollback, Settle, Do
<1>2. /\ UNCHANGED <<evals, finals, results, current, answered>>
      /\ unmarked'[w] = {} /\ added'[w] = {} /\ retired'[w] = {} /\ reporting'[w] = FALSE
      /\ job'[w] = j
      /\ \A u \in Worker \ {w} :
            /\ unmarked'[u] = unmarked[u] /\ added'[u] = added[u]
            /\ retired'[u] = retired[u] /\ reporting'[u] = reporting[u]
            /\ job'[u] = job[u]
  BY DEF Rollback, Settle, Do, EvaluationInv, TypeOK, DbTypeOK
<1>3. RowLocks'
  BY <1>2 DEF EvaluationInv, TablesInv, RowLocks
<1>4. KeyHeld'
  BY <1>2 DEF EvaluationInv, TablesInv, KeyHeld, Of
<1>5. ReporterAlone'
  BY <1>2 DEF EvaluationInv, TablesInv, ReporterAlone
<1>6. HasFinal' /\ FinalIsLatest' /\ CurrentIsLatest' /\ ResultsComplete'
  BY <1>2 DEF EvaluationInv, TablesInv, HasFinal, FinalIsLatest, CurrentIsLatest,
              ResultsComplete
<1>7. SessionInv(w, job[w])'
  BY <1>2 DEF SessionInv, Fits, Holds
<1>8. ASSUME NEW u \in Worker \ {w} PROVE SessionInv(u, job[u])'
  <2>1. job[u].pc = "store" => job[u].base \subseteq finals
    BY DEF EvaluationInv, SessionInv, Holds
  <2>2. answered \in Nat
    BY DEF EvaluationInv, TypeOK
  <2> QED BY <1>1, <1>2, <2>1, <2>2, OthersStay
<1> QED
  BY <1>1, <1>3, <1>4, <1>5, <1>6, <1>7, <1>8 DEF EvaluationInv, TablesInv

\* UPDATE ... SET is_final = false of the evaluation a session starts from.
LEMMA UnmarkStep ==
    ASSUME EvaluationInv, NEW w \in Worker, NEW step \in {"score_check", "insert", "llm"},
           Unmark(w, job[w].base), Goto(w, step), UNCHANGED Outside,
           job[w].pc \in {"unmark", "score_unmark"},
           job[w].kind # "completion",
           step = "score_check" => ~job[w].rescore
    PROVE  EvaluationInv'
<1> DEFINE j == [job[w] EXCEPT !.pc = step]
<1>1. /\ SessionInv(w, job[w]) /\ job[w] \in Jobs /\ j \in Jobs
      /\ job[w].base \subseteq evals
  <2>1. SessionInv(w, job[w]) /\ job[w] \in Jobs
    BY DEF EvaluationInv, TypeOK
  <2>2. j \in Jobs
    BY <2>1 DEF Jobs, Scoring
  <2> QED BY <2>1, <2>2 DEF SessionInv, Fits, Of
<1>2. /\ UNCHANGED <<evals, finals, results, current, added, retired, reporting,
                     answered, score>>
      /\ unmarked'[w] = unmarked[w] \cup job[w].base /\ job'[w] = j
      /\ \A u \in Worker \ {w} : unmarked'[u] = unmarked[u] /\ job'[u] = job[u]
      /\ \A u \in Worker \ {w} : unmarked[u] \cap job[w].base = {}
  BY DEF Unmark, Goto, Do, EvaluationInv, TypeOK, DbTypeOK, Outside
<1>3. TypeOK'
  BY <1>1 DEF EvaluationInv, TypeOK, DbTypeOK, Unmark, Goto, Do, Outside
<1>4. RowLocks'
  BY <1>2 DEF EvaluationInv, TablesInv, RowLocks
<1>5. KeyHeld'
  BY <1>2 DEF EvaluationInv, TablesInv, KeyHeld, Of
<1>6. ReporterAlone' /\ HasFinal' /\ FinalIsLatest' /\ CurrentIsLatest' /\ ResultsComplete'
  BY <1>2 DEF EvaluationInv, TablesInv, ReporterAlone, HasFinal, FinalIsLatest,
              CurrentIsLatest, ResultsComplete
<1>7. SessionInv(w, job[w])'
  <2>1. /\ j.pc = step /\ j.base = job[w].base /\ j.at = job[w].at
        /\ j.kind = job[w].kind /\ j.rescore = job[w].rescore
        /\ j.force = job[w].force /\ j.upto = job[w].upto
        /\ j.inputs = job[w].inputs /\ j.seen = job[w].seen
    BY <1>1 DEF Jobs
  <2>2. Fits(job[w])'
    BY <1>1, <1>2, <2>1 DEF SessionInv, Fits, Scoring
  <2>3. Holds(w, job[w])'
    BY <1>1, <1>2, <2>1 DEF SessionInv, Holds
  <2> QED BY <2>2, <2>3 DEF SessionInv
<1>8. ASSUME NEW u \in Worker \ {w} PROVE SessionInv(u, job[u])'
  <2>1. job[u].pc = "store" => job[u].base \subseteq finals
    BY DEF EvaluationInv, SessionInv, Holds
  <2>2. answered \in Nat
    BY DEF EvaluationInv, TypeOK
  <2> QED BY <1>2, <1>3, <2>1, <2>2, OthersStay
<1> QED
  BY <1>3, <1>4, <1>5, <1>6, <1>7, <1>8 DEF EvaluationInv, TablesInv

\* The evaluation that INSERT adds follows all those of its exchange.
LEMMA FreshIsLatest ==
    ASSUME EvaluationInv, NEW x \in Exchange, NEW e \in Fresh(x)
    PROVE  /\ e \in Evaluation /\ e[1] = x /\ e \notin evals
           /\ \A f \in Of(x, evals) : f[2] < e[2]
<1>1. /\ e \in Evaluation /\ e[1] = x /\ e[2] \in 1..MaxEvaluations
      /\ \A n \in 1..MaxEvaluations : n < e[2] <=> <<x, n>> \in Stored
      /\ e = <<x, e[2]>>
  BY DEF Fresh, Of, Evaluation
<1>2. evals \subseteq Stored /\ evals \subseteq Evaluation
  BY DEF Stored, EvaluationInv, TypeOK, DbTypeOK
<1>3. e \notin Stored
  BY <1>1
<1>4. ASSUME NEW f \in Of(x, evals) PROVE f[2] < e[2]
  <2>1. f = <<x, f[2]>> /\ f[2] \in 1..MaxEvaluations /\ f \in Stored
    BY <1>2 DEF Of, Evaluation
  <2> QED BY <1>1, <2>1
<1> QED BY <1>1, <1>2, <1>3, <1>4

\* INSERT of a final evaluation: with the unique key, and with the old final
\* evaluation withdrawn, which is therefore the one it is made from.
LEMMA InsertStep ==
    ASSUME EvaluationInv, NEW w \in Worker, InsertEvaluation(w)
    PROVE  EvaluationInv'
<1> DEFINE x == job[w].at
           j == [job[w] EXCEPT !.pc = "store"]
<1>1. /\ SessionInv(w, job[w]) /\ job[w] \in Jobs /\ j \in Jobs
      /\ x \in Exchange /\ job[w].pc \in {"llm", "insert"} /\ added[w] = {}
      /\ finals \subseteq evals
  <2>1. /\ SessionInv(w, job[w]) /\ job[w] \in Jobs /\ finals \subseteq evals
        /\ job[w].pc \in {"llm", "insert"}
    BY DEF EvaluationInv, TypeOK, DbTypeOK, InsertEvaluation, At
  <2>2. j \in Jobs
    BY <2>1 DEF Jobs, Scoring
  <2> QED BY <2>1, <2>2 DEF SessionInv, Fits, Holds, Scoring
<1>2. PICK e \in Fresh(x) : added' = [added EXCEPT ![w] = {e}]
  BY DEF InsertEvaluation, AddFinal
<1>3. /\ e \in Evaluation /\ e[1] = x /\ e \notin evals
      /\ \A f \in Of(x, evals) : f[2] < e[2]
  BY <1>1, <1>2, FreshIsLatest
<1>4. /\ UNCHANGED <<evals, finals, results, current, unmarked, retired, reporting,
                     answered, score>>
      /\ added'[w] = {e} /\ job'[w] = j
      /\ \A u \in Worker \ {w} : added'[u] = added[u] /\ job'[u] = job[u]
      /\ \A u \in Worker \ {w} : Of(x, added[u]) = {}
      /\ Of(x, finals) \subseteq unmarked[w]
  BY <1>1, <1>2
  DEF InsertEvaluation, AddFinal, KeyWriter, FinalOf, Of, Goto, Do, EvaluationInv,
      TypeOK, DbTypeOK, Outside
<1>5. TypeOK'
  BY <1>1, <1>2, <1>3
  DEF EvaluationInv, TypeOK, DbTypeOK, InsertEvaluation, AddFinal, Goto, Do, Outside
<1>6. RowLocks' /\ ReporterAlone' /\ HasFinal' /\ FinalIsLatest' /\ CurrentIsLatest'
      /\ ResultsComplete'
  BY <1>4 DEF EvaluationInv, TablesInv, RowLocks, ReporterAlone, HasFinal,
              FinalIsLatest, CurrentIsLatest, ResultsComplete
<1>7. KeyHeld'
  <2>1. ASSUME NEW u \in Worker \ {w}, NEW f \in added[u] PROVE f[1] # x
    BY <1>4, <2>1 DEF Of
  <2>2. ASSUME NEW u \in Worker \ {w}, NEW f \in added[u], NEW v \in Worker \ {u}
        PROVE  Of(f[1], added'[v]) = {}
    BY <1>3, <1>4, <2>1 DEF EvaluationInv, TablesInv, KeyHeld, Of
  <2> QED BY <1>3, <1>4, <2>2 DEF EvaluationInv, TablesInv, KeyHeld, Of
<1>8. job[w].base \subseteq finals
  <2>1. unmarked[w] \subseteq job[w].base /\ job[w].base \subseteq Of(x, evals)
        /\ \A f, h \in job[w].base : f = h
    BY <1>1 DEF SessionInv, Fits, Holds
  <2>2. ASSUME NEW f \in job[w].base PROVE f \in finals
    <3>1. f \in evals /\ f[1] = x
      BY <2>1 DEF Of
    <3>2. PICK h \in finals : h[1] = x
      BY <3>1 DEF EvaluationInv, TablesInv, HasFinal, Of
    <3>3. h \in job[w].base
      BY <1>4, <2>1, <3>2 DEF Of
    <3> QED BY <2>1, <3>2, <3>3
  <2> QED BY <2>2
<1>9. SessionInv(w, job[w])'
  <2>1. /\ j.pc = "store" /\ j.base = job[w].base /\ j.at = job[w].at
        /\ j.kind = job[w].kind /\ j.rescore = job[w].rescore
        /\ j.force = job[w].force /\ j.upto = job[w].upto
        /\ j.inputs = job[w].inputs /\ j.seen = job[w].seen
    BY <1>1 DEF Jobs
  <2>2. Fits(job[w])'
    BY <1>1, <1>4, <2>1 DEF SessionInv, Fits, Scoring
  <2>3. Holds(w, job[w])'
    BY <1>1, <1>3, <1>4, <1>8, <2>1 DEF SessionInv, Holds
  <2> QED BY <2>2, <2>3 DEF SessionInv
<1>10. ASSUME NEW u \in Worker \ {w} PROVE SessionInv(u, job[u])'
  <2>1. job[u].pc = "store" => job[u].base \subseteq finals
    BY DEF EvaluationInv, SessionInv, Holds
  <2>2. answered \in Nat
    BY DEF EvaluationInv, TypeOK
  <2> QED BY <1>4, <1>5, <2>1, <2>2, OthersStay
<1> QED
  BY <1>5, <1>6, <1>7, <1>9, <1>10 DEF EvaluationInv, TablesInv

\* COMMIT of an evaluation, whatever the session goes on with.
LEMMA StoreStep ==
    ASSUME EvaluationInv, NEW w \in Worker, NEW j \in Jobs, Do(w, j),
           job[w].pc = "store", Commit(w, {}), UNCHANGED <<answered, score>>,
           Fits(j), j.pc \in Looping \cup Ends
    PROVE  EvaluationInv'
<1>1. /\ SessionInv(w, job[w]) /\ job[w] \in Jobs
      /\ reporting[w] = FALSE /\ retired[w] = {} /\ added[w] # {}
  BY DEF EvaluationInv, TypeOK, DbTypeOK, SessionInv, Holds
<1>2. PICK e \in added[w] :
          /\ added[w] = {e} /\ e[1] = job[w].at /\ e \notin evals
          /\ \A f \in Of(e[1], evals) : f[2] < e[2]
          /\ \A u \in Worker \ {w} : Of(e[1], added[u]) = {}
          /\ Of(e[1], finals) \subseteq unmarked[w]
  <2>1. PICK e \in added[w] : TRUE
    BY <1>1
  <2>2. e[1] = job[w].at
    BY <1>1 DEF SessionInv, Holds
  <2> QED BY <2>1, <2>2 DEF EvaluationInv, TablesInv, KeyHeld
<1>3. /\ finals \subseteq evals /\ evals \subseteq Evaluation /\ e \in Evaluation
      /\ unmarked[w] \subseteq Of(e[1], evals) /\ e[2] \in Nat
      /\ \A f \in evals : f[2] \in Nat
  BY <1>1, <1>2
  DEF EvaluationInv, TypeOK, DbTypeOK, SessionInv, Fits, Holds, Evaluation
<1>4. /\ evals' = evals \cup {e} /\ finals' = (finals \ unmarked[w]) \cup {e}
      /\ results' = results /\ current' = current /\ answered' = answered
      /\ unmarked'[w] = {} /\ added'[w] = {} /\ retired'[w] = {}
      /\ reporting'[w] = FALSE /\ job'[w] = j
      /\ \A u \in Worker \ {w} :
            /\ unmarked'[u] = unmarked[u] /\ added'[u] = added[u]
            /\ retired'[u] = retired[u] /\ reporting'[u] = reporting[u]
            /\ job'[u] = job[u]
  BY <1>1, <1>2 DEF Commit, Settle, Do, EvaluationInv, TypeOK, DbTypeOK
<1>5. TypeOK'
  <2>1. evals' \subseteq Evaluation /\ finals' \subseteq evals'
    BY <1>3, <1>4
  <2>2. results' \in Seq(SUBSET evals') /\ current' \subseteq DOMAIN results'
    <3>1. results \in Seq(SUBSET evals) /\ SUBSET evals \subseteq SUBSET evals'
      BY <1>4 DEF EvaluationInv, TypeOK, DbTypeOK
    <3> QED BY <1>4, <3>1 DEF EvaluationInv, TypeOK, DbTypeOK
  <2>3. /\ unmarked' \in [Worker -> SUBSET evals']
        /\ added' \in [Worker -> SUBSET Evaluation]
        /\ retired' \in [Worker -> SUBSET DOMAIN results']
        /\ reporting' \in [Worker -> BOOLEAN]
    BY <1>4 DEF Commit, Settle, EvaluationInv, TypeOK, DbTypeOK
  <2>4. job' \in [Worker -> Jobs] /\ answered' \in 0..Exchanges /\ score' \in 0..Len(results')
    BY <1>4 DEF Do, EvaluationInv, TypeOK
  <2> QED BY <2>1, <2>2, <2>3, <2>4 DEF TypeOK, DbTypeOK
<1>6. RowLocks' /\ ReporterAlone' /\ CurrentIsLatest' /\ ResultsComplete'
  BY <1>4 DEF EvaluationInv, TablesInv, RowLocks, ReporterAlone, CurrentIsLatest,
              ResultsComplete
<1>7. FinalIsLatest'
  <2>1. ASSUME NEW f \in evals' PROVE f \in finals' <=> \A g \in Of(f[1], evals') : g[2] <= f[2]
    <3>1. CASE f = e
      BY <1>2, <1>3, <1>4, <3>1 DEF Of
    <3>2. CASE f # e /\ f[1] = e[1]
      <4>1. f \in evals /\ f \in Of(e[1], evals) /\ f[2] < e[2] /\ f[2] \in Nat
        BY <1>2, <1>3, <1>4, <3>2, <2>1 DEF Of
      <4>2. f \notin finals'
        BY <1>2, <1>4, <3>2 DEF Of
      <4>3. e \in Of(f[1], evals') /\ ~(e[2] <= f[2])
        BY <1>3, <1>4, <3>2, <4>1 DEF Of
      <4> QED BY <4>2, <4>3
    <3>3. CASE f[1] # e[1]
      <4>1. Of(f[1], evals') = Of(f[1], evals) /\ f \in evals
        BY <1>4, <2>1, <3>3 DEF Of
      <4>2. f \in finals' <=> f \in finals
        BY <1>3, <1>4, <3>3 DEF Of
      <4> QED BY <4>1, <4>2 DEF EvaluationInv, TablesInv, FinalIsLatest
    <3> QED BY <3>1, <3>2, <3>3
  <2> QED BY <2>1 DEF FinalIsLatest
<1>8. HasFinal'
  <2>1. ASSUME NEW f \in evals' PROVE Of(f[1], finals') # {}
    <3>1. CASE f[1] = e[1]
      BY <1>4, <3>1 DEF Of
    <3>2. CASE f[1] # e[1]
      <4>1. PICK g \in finals : g[1] = f[1]
        BY <1>4, <2>1, <3>2 DEF EvaluationInv, TablesInv, HasFinal, Of
      <4>2. g \in finals'
        BY <1>3, <1>4, <3>2, <4>1 DEF Of
      <4> QED BY <4>1, <4>2 DEF Of
    <3> QED BY <3>1, <3>2
  <2> QED BY <2>1 DEF HasFinal
<1>9. KeyHeld'
  <2>1. ASSUME NEW u \in Worker, NEW f \in added'[u]
        PROVE  /\ added'[u] = {f} /\ f \notin evals'
               /\ \A g \in Of(f[1], evals') : g[2] < f[2]
               /\ \A v \in Worker \ {u} : Of(f[1], added'[v]) = {}
               /\ Of(f[1], finals') \subseteq unmarked'[u]
    <3>1. u # w /\ f \in added[u] /\ f[1] # e[1]
      BY <1>2, <1>4, <2>1 DEF Of
    <3>2. Of(f[1], evals') = Of(f[1], evals) /\ Of(f[1], finals') \subseteq Of(f[1], finals)
      BY <1>4, <3>1 DEF Of
    <3>3. \A v \in Worker \ {u} : Of(f[1], added'[v]) = {}
      BY <1>4, <3>1 DEF EvaluationInv, TablesInv, KeyHeld, Of
    <3> QED BY <1>4, <3>1, <3>2, <3>3 DEF EvaluationInv, TablesInv, KeyHeld
  <2> QED BY <2>1 DEF KeyHeld
<1>10. SessionInv(w, job[w])'
  <2>1. Fits(job[w])'
    BY <1>4 DEF Fits, Of, Looping, Ends
  <2>2. Holds(w, job[w])'
    BY <1>4 DEF Holds, Looping, Ends
  <2> QED BY <2>1, <2>2 DEF SessionInv
<1>11. ASSUME NEW u \in Worker \ {w} PROVE SessionInv(u, job[u])'
  <2>1. job[u].pc = "store" => job[u].base \subseteq finals'
    <3>1. SUFFICES ASSUME job[u].pc = "store", NEW f \in job[u].base PROVE f \in finals'
      OBVIOUS
    <3>2. PICK g \in added[u] : g[1] = job[u].at
      BY <3>1 DEF EvaluationInv, SessionInv, Holds
    <3>3. f \in finals /\ f[1] = g[1]
      BY <3>1, <3>2 DEF EvaluationInv, SessionInv, Fits, Holds, Of
    <3>4. f[1] # e[1]
      BY <1>2, <3>2, <3>3 DEF Of
    <3> QED BY <1>3, <1>4, <3>3, <3>4 DEF Of
  <2>2. answered \in Nat
    BY DEF EvaluationInv, TypeOK
  <2> QED BY <1>4, <1>5, <2>1, <2>2, OthersStay
<1> QED
  BY <1>5, <1>6, <1>7, <1>8, <1>9, <1>10, <1>11 DEF EvaluationInv, TablesInv

\* UPDATE ... SET is_current = false of the result that was read.
LEMMA RetireStep ==
    ASSUME EvaluationInv, NEW w \in Worker, RetireResult(w)
    PROVE  EvaluationInv'
<1> DEFINE j == [job[w] EXCEPT !.pc = "insert_result"]
<1>1. SessionInv(w, job[w]) /\ job[w] \in Jobs /\ job[w].pc = "retire"
  BY DEF EvaluationInv, TypeOK, RetireResult, At
<1>2. /\ j \in Jobs /\ j.pc = "insert_result" /\ j.base = job[w].base
      /\ j.at = job[w].at /\ j.kind = job[w].kind /\ j.rescore = job[w].rescore
      /\ j.force = job[w].force /\ j.upto = job[w].upto
      /\ j.inputs = job[w].inputs /\ j.seen = job[w].seen
  BY <1>1 DEF Jobs, Aggregating
<1>3. PICK R \in SUBSET DOMAIN results : Retire(w, R)
  BY <1>1 DEF RetireResult, SessionInv, Fits
<1>4. /\ UNCHANGED <<evals, finals, results, current, unmarked, added, reporting,
                     answered, score>>
      /\ retired'[w] = retired[w] \cup R /\ job'[w] = j
      /\ \A u \in Worker \ {w} : retired'[u] = retired[u] /\ job'[u] = job[u]
  BY <1>3
  DEF Retire, RetireResult, Goto, Do, EvaluationInv, TypeOK, DbTypeOK, Outside
<1>5. TypeOK'
  BY <1>2, <1>3 DEF EvaluationInv, TypeOK, DbTypeOK, Retire, RetireResult, Goto, Do, Outside
<1>6. TablesInv'
  BY <1>4 DEF EvaluationInv, TablesInv, RowLocks, KeyHeld, ReporterAlone, HasFinal,
              FinalIsLatest, CurrentIsLatest, ResultsComplete
<1>7. SessionInv(w, job[w])'
  <2>1. Fits(job[w])'
    BY <1>1, <1>2, <1>4 DEF SessionInv, Fits, Scoring
  <2>2. Holds(w, job[w])'
    BY <1>1, <1>2, <1>4 DEF SessionInv, Holds
  <2> QED BY <2>1, <2>2 DEF SessionInv
<1>8. ASSUME NEW u \in Worker \ {w} PROVE SessionInv(u, job[u])'
  <2>1. job[u].pc = "store" => job[u].base \subseteq finals
    BY DEF EvaluationInv, SessionInv, Holds
  <2>2. answered \in Nat
    BY DEF EvaluationInv, TypeOK
  <2> QED BY <1>4, <1>5, <2>1, <2>2, OthersStay
<1> QED BY <1>5, <1>6, <1>7, <1>8 DEF EvaluationInv

\* INSERT of a current result, with the unique key and the old one withdrawn.
LEMMA CurrentStep ==
    ASSUME EvaluationInv, NEW w \in Worker, InsertResult(w)
    PROVE  EvaluationInv'
<1> DEFINE j == [job[w] EXCEPT !.pc = "store_result"]
<1>1. SessionInv(w, job[w]) /\ job[w] \in Jobs /\ job[w].pc = "insert_result"
  BY DEF EvaluationInv, TypeOK, InsertResult, At
<1>2. /\ j \in Jobs /\ j.pc = "store_result" /\ j.base = job[w].base
      /\ j.at = job[w].at /\ j.kind = job[w].kind /\ j.rescore = job[w].rescore
      /\ j.force = job[w].force /\ j.upto = job[w].upto
      /\ j.inputs = job[w].inputs /\ j.seen = job[w].seen
  BY <1>1 DEF Jobs, Aggregating
<1>4. /\ UNCHANGED <<evals, finals, results, current, unmarked, added, retired,
                     answered, score>>
      /\ reporting'[w] = TRUE /\ job'[w] = j
      /\ \A u \in Worker \ {w} :
            reporting'[u] = reporting[u] /\ job'[u] = job[u] /\ ~reporting[u]
      /\ current \subseteq retired[w]
  BY DEF AddCurrent, ResultWriter, InsertResult, Goto, Do, EvaluationInv, TypeOK,
         DbTypeOK, Outside
<1>5. TypeOK'
  BY <1>2 DEF EvaluationInv, TypeOK, DbTypeOK, AddCurrent, InsertResult, Goto, Do, Outside
<1>6. TablesInv'
  BY <1>4 DEF EvaluationInv, TablesInv, RowLocks, KeyHeld, ReporterAlone, HasFinal,
              FinalIsLatest, CurrentIsLatest, ResultsComplete
<1>7. SessionInv(w, job[w])'
  <2>1. Fits(job[w])'
    BY <1>1, <1>2, <1>4 DEF SessionInv, Fits, Scoring
  <2>2. Holds(w, job[w])'
    BY <1>1, <1>2, <1>4 DEF SessionInv, Holds
  <2> QED BY <2>1, <2>2 DEF SessionInv
<1>8. ASSUME NEW u \in Worker \ {w} PROVE SessionInv(u, job[u])'
  <2>1. job[u].pc = "store" => job[u].base \subseteq finals
    BY DEF EvaluationInv, SessionInv, Holds
  <2>2. answered \in Nat
    BY DEF EvaluationInv, TypeOK
  <2> QED BY <1>4, <1>5, <2>1, <2>2, OthersStay
<1> QED BY <1>5, <1>6, <1>7, <1>8 DEF EvaluationInv

\* Nothing kept.
LEMMA NoJobFits ==
    ASSUME EvaluationInv
    PROVE  /\ NoJob \in Jobs /\ Fits(NoJob)
           /\ [NoJob EXCEPT !.pc = "done"] \in Jobs /\ Fits([NoJob EXCEPT !.pc = "done"])
<1>1. answered \in Nat
  BY DEF EvaluationInv, TypeOK
<1>2. ASSUME NEW step \in {"idle", "done"}
      PROVE  [NoJob EXCEPT !.pc = step] \in Jobs /\ Fits([NoJob EXCEPT !.pc = step])
  <2>1. [NoJob EXCEPT !.pc = step] \in Jobs
    <3>1. 0 \in 0..(Exchanges + 1) /\ 0 \in 0..Exchanges
      OBVIOUS
    <3>2. {} \in SUBSET Evaluation /\ {} \in SUBSET Nat /\ FALSE \in BOOLEAN
      OBVIOUS
    <3>3. "none" \in Kinds /\ step \in Ends
      BY DEF Kinds, Ends
    <3> QED BY <3>1, <3>2, <3>3 DEF NoJob, Jobs
  <2>2. Fits([NoJob EXCEPT !.pc = step])
    BY <1>1 DEF NoJob, Scoring, Fits
  <2> QED BY <2>1, <2>2
<1>3. NoJob = [NoJob EXCEPT !.pc = "idle"]
  BY DEF NoJob
<1> QED BY <1>2, <1>3

\* COMMIT of a result.
LEMMA ResultStep ==
    ASSUME EvaluationInv, NEW w \in Worker, StoreResult(w)
    PROVE  EvaluationInv'
<1>1. /\ SessionInv(w, job[w]) /\ job[w] \in Jobs /\ job[w].pc = "store_result"
      /\ reporting[w] = TRUE /\ added[w] = {} /\ unmarked[w] = {}
      /\ current \subseteq retired[w]
      /\ \A u \in Worker \ {w} : ~reporting[u]
  <2>1. /\ SessionInv(w, job[w]) /\ job[w] \in Jobs /\ job[w].pc = "store_result"
        /\ reporting[w] \in BOOLEAN
    BY DEF EvaluationInv, TypeOK, DbTypeOK, StoreResult, At
  <2>2. reporting[w] /\ added[w] = {} /\ unmarked[w] = {}
    BY <2>1 DEF SessionInv, Holds
  <2> QED BY <2>1, <2>2 DEF EvaluationInv, TablesInv, ReporterAlone
<1> DEFINE E == job[w].inputs
<1>2. /\ results \in Seq(SUBSET evals) /\ E \in SUBSET evals /\ Len(results) \in Nat
      /\ DOMAIN results = 1..Len(results)
      /\ Aggregates(E, job[w].upto) /\ job[w].upto \in 0..answered
      /\ answered \in Nat /\ answered \in 0..Exchanges
  BY <1>1 DEF EvaluationInv, TypeOK, DbTypeOK, SessionInv, Fits, Jobs
<1>3. /\ results' = Append(results, E)
      /\ results' \in Seq(SUBSET evals) /\ Len(results') = Len(results) + 1
      /\ \A i \in 1..Len(results) : results'[i] = results[i]
      /\ results'[Len(results) + 1] = E
  BY <1>1, <1>2, AppendProperties DEF StoreResult, Commit
<1>4. /\ DOMAIN results' = 1..(Len(results) + 1)
      /\ results' # <<>>
  BY <1>2, <1>3
<1>5. /\ UNCHANGED <<evals, finals, unmarked, added, answered, score>>
      /\ current' = {Len(results) + 1}
      /\ retired'[w] = {} /\ reporting'[w] = FALSE
      /\ \A u \in Worker \ {w} :
            retired'[u] = retired[u] /\ reporting'[u] = reporting[u] /\ job'[u] = job[u]
  <2>1. unmarked' = unmarked /\ added' = added
    BY <1>1 DEF StoreResult, Commit, Settle, EvaluationInv, TypeOK, DbTypeOK
  <2>2. evals' = evals /\ finals' = finals /\ current' = {Len(results) + 1}
    BY <1>1 DEF StoreResult, Commit
  <2> QED
    BY <1>1, <2>1, <2>2
    DEF StoreResult, Commit, Settle, Do, Over, Outside, EvaluationInv, TypeOK, DbTypeOK
<1>6. PICK j \in Jobs :
          /\ Do(w, j) /\ j.pc \in {"final_score", "idle", "done"}
          /\ j.base \subseteq Of(j.at, evals) /\ \A e, f \in j.base : e = f
          /\ j.inputs \subseteq evals /\ j.upto <= answered
          /\ j.seen \subseteq {Len(results) + 1}
          /\ j.kind = "completion" => ~j.force /\ ~j.rescore
  <2>1. CASE w = Thread
    <3> DEFINE j == [job[w] EXCEPT !.pc = "final_score", !.seen = {Len(results) + 1}]
    <3>1. Do(w, j) /\ j \in Jobs
      <4>1. {Len(results) + 1} \in SUBSET Nat /\ "final_score" \in Aggregating
        BY <1>2 DEF Aggregating
      <4>2. j \in Jobs
        BY <1>1, <4>1 DEF Jobs
      <4> QED BY <2>1, <4>2 DEF StoreResult
    <3>2. /\ j.pc = "final_score" /\ j.base = job[w].base /\ j.at = job[w].at
          /\ j.inputs = job[w].inputs /\ j.upto = job[w].upto
          /\ j.seen = {Len(results) + 1} /\ j.kind = job[w].kind
          /\ j.force = job[w].force /\ j.rescore = job[w].rescore
      BY <1>1 DEF Jobs
    <3>3. /\ j.base \subseteq Of(j.at, evals) /\ \A e, f \in j.base : e = f
          /\ j.inputs \subseteq evals /\ j.upto <= answered
          /\ j.kind = "completion" => ~j.force /\ ~j.rescore
      BY <1>1, <3>2 DEF SessionInv, Fits
    <3> QED BY <3>1, <3>2, <3>3
  <2>2. CASE w # Thread
    <3>1. Do(w, NoJob) /\ NoJob \in Jobs
      BY <2>2, NoJobFits DEF StoreResult, Over
    <3> QED BY <1>2, <3>1 DEF NoJob
  <2> QED BY <2>1, <2>2
<1>7. TypeOK'
  <2>1. /\ current' \subseteq DOMAIN results' /\ DOMAIN results \subseteq DOMAIN results'
        /\ 0..Len(results) \subseteq 0..Len(results')
    BY <1>2, <1>3, <1>4, <1>5
  <2>2. /\ retired' \in [Worker -> SUBSET DOMAIN results']
        /\ reporting' \in [Worker -> BOOLEAN]
    BY <2>1 DEF StoreResult, Commit, Settle, EvaluationInv, TypeOK, DbTypeOK
  <2>3. job' \in [Worker -> Jobs]
    BY <1>6 DEF Do, EvaluationInv, TypeOK
  <2> QED
    BY <1>3, <1>5, <2>1, <2>2, <2>3 DEF EvaluationInv, TypeOK, DbTypeOK
<1>8. RowLocks' /\ KeyHeld' /\ HasFinal' /\ FinalIsLatest'
  BY <1>5 DEF EvaluationInv, TablesInv, RowLocks, KeyHeld, HasFinal, FinalIsLatest
<1>9. ReporterAlone'
  BY <1>1, <1>5 DEF EvaluationInv, TablesInv, ReporterAlone
<1>10. CurrentIsLatest'
  BY <1>3, <1>4, <1>5 DEF CurrentIsLatest
<1>11. ResultsComplete'
  <2>1. ASSUME NEW i \in DOMAIN results' PROVE \E n \in 0..answered' : Aggregates(results'[i], n)
    <3>1. CASE i \in DOMAIN results
      BY <1>2, <1>3, <1>5, <3>1 DEF EvaluationInv, TablesInv, ResultsComplete
    <3>2. CASE i = Len(results) + 1
      BY <1>2, <1>3, <1>5, <3>2
    <3> QED BY <1>2, <1>4, <3>1, <3>2
  <2> QED BY <2>1 DEF ResultsComplete
<1>12. SessionInv(w, job[w])'
  <2>1. job'[w].pc \in {"final_score", "idle", "done"}
    BY <1>6 DEF Do, EvaluationInv, TypeOK
  <2>2. /\ job'[w].base \subseteq Of(job'[w].at, evals)
        /\ \A e, f \in job'[w].base : e = f
        /\ job'[w].inputs \subseteq evals /\ job'[w].upto <= answered
        /\ job'[w].seen \subseteq {Len(results) + 1}
        /\ job'[w].kind = "completion" => ~job'[w].force /\ ~job'[w].rescore
    BY <1>6 DEF Do, EvaluationInv, TypeOK
  <2>3. job'[w].seen \subseteq DOMAIN results'
    BY <1>2, <1>4, <2>2
  <2>5. Fits(job[w])'
    BY <1>5, <2>1, <2>2, <2>3 DEF Fits, Scoring, Of
  <2>4. Holds(w, job[w])'
    BY <1>1, <1>5, <2>1, <2>2 DEF Holds
  <2> QED BY <2>4, <2>5 DEF SessionInv
<1>13. ASSUME NEW u \in Worker \ {w} PROVE SessionInv(u, job[u])'
  <2>1. job[u].pc = "store" => job[u].base \subseteq finals
    BY DEF EvaluationInv, SessionInv, Holds
  <2>2. DOMAIN results \subseteq DOMAIN results'
    BY <1>2, <1>4
  <2> QED BY <1>2, <1>5, <1>7, <2>1, <2>2, OthersStay
<1> QED
  BY <1>7, <1>8, <1>9, <1>10, <1>11, <1>12, <1>13 DEF EvaluationInv, TablesInv

\* An answer commits.
LEMMA AnswerStep == ASSUME EvaluationInv, Answer PROVE EvaluationInv'
<1>1. /\ UNCHANGED <<dbVars, job, score>> /\ answered' = answered + 1
      /\ answered \in Nat /\ answered' \in 0..Exchanges
  BY DEF Answer, EvaluationInv, TypeOK
<1>2. TypeOK'
  BY <1>1 DEF EvaluationInv, TypeOK, DbTypeOK, dbVars
<1>3. RowLocks' /\ KeyHeld' /\ ReporterAlone' /\ HasFinal' /\ FinalIsLatest' /\ CurrentIsLatest'
  BY <1>1 DEF EvaluationInv, TablesInv, RowLocks, KeyHeld, ReporterAlone, HasFinal,
              FinalIsLatest, CurrentIsLatest, dbVars
<1>4. ResultsComplete'
  <2>1. 0..answered \subseteq 0..answered' /\ results' = results
    BY <1>1 DEF dbVars
  <2> QED
    BY <2>1 DEF EvaluationInv, TablesInv, ResultsComplete, Aggregates, Of
<1>5. ASSUME NEW u \in Worker PROVE SessionInv(u, job[u])'
  <2>1. job[u].pc = "store" => job[u].base \subseteq finals
    BY DEF EvaluationInv, SessionInv, Holds
  <2> QED BY <1>1, <1>2, <2>1, OthersStay DEF dbVars
<1> QED BY <1>1, <1>2, <1>3, <1>4, <1>5 DEF EvaluationInv, TablesInv

-----------------------------------------------------------------------------
(* The steps that only move a session on.                                  *)

\* A session that holds nothing goes on with any work that fits.
LEMMA FreeStep ==
    ASSUME EvaluationInv, NEW w \in Worker, NEW j \in Jobs, Do(w, j),
           UNCHANGED <<dbVars, answered>>, score' \in 0..Len(results), Fits(j),
           job[w].pc \notin {"score_check", "llm", "insert", "store",
                             "insert_result", "store_result"},
           j.pc \notin {"store", "store_result"}
    PROVE  EvaluationInv'
<1>1. SessionInv(w, job[w]) /\ reporting[w] \in BOOLEAN
  BY DEF EvaluationInv, TypeOK, DbTypeOK
<1>2. Holds(w, j)
  BY <1>1 DEF SessionInv, Holds
<1> QED BY <1>2, QuietStep DEF SessionInv

LEMMA ScoreStays == ASSUME EvaluationInv, UNCHANGED Outside PROVE score' \in 0..Len(results)
BY DEF EvaluationInv, TypeOK, Outside

\* The session ends, or goes back to accepting requests.
LEMMA OverJob ==
    ASSUME EvaluationInv, NEW w \in Worker, Over(w)
    PROVE  \E j \in Jobs : Do(w, j) /\ Fits(j) /\ j.pc \in {"idle", "done"}
<1>1. NoJob.pc = "idle" /\ [NoJob EXCEPT !.pc = "done"].pc = "done"
  BY DEF NoJob
<1> QED BY <1>1, NoJobFits DEF Over

LEMMA RaiseStep == ASSUME EvaluationInv, NEW w \in Worker, Raise(w) PROVE EvaluationInv'
<1>1. PICK j \in Jobs : Do(w, j) /\ Fits(j) /\ j.pc \in {"idle", "done"}
  BY OverJob DEF Raise
<1> QED BY <1>1, RollbackStep DEF Raise, Outside

\* The next exchange of a report.
LEMMA SkipFits ==
    ASSUME EvaluationInv, NEW w \in Worker,
           \/ job[w].pc \in Scoring /\ job[w].kind \in {"report", "completion"}
           \/ job[w].pc = "next" /\ job[w].at <= job[w].upto,
           NEW got \in BOOLEAN
    PROVE  /\ Skip(w) \in Jobs /\ Fits(Skip(w)) /\ Skip(w).pc = "next"
           /\ [Skip(w) EXCEPT !.got = got] \in Jobs
           /\ Fits([Skip(w) EXCEPT !.got = got])
           /\ [Skip(w) EXCEPT !.got = got].pc = "next"
<1>1. /\ job[w] \in Jobs /\ Fits(job[w])
      /\ job[w].at \in Nat /\ job[w].upto \in 0..Exchanges /\ job[w].at <= job[w].upto
      /\ job[w].at >= 1
  <2>1. job[w] \in Jobs /\ Fits(job[w])
    BY DEF EvaluationInv, TypeOK, SessionInv
  <2>2. job[w].at \in 0..(Exchanges + 1) /\ job[w].upto \in 0..Exchanges
    BY <2>1 DEF Jobs
  <2>3. job[w].at <= job[w].upto
    BY <2>1 DEF Fits
  <2>4. job[w].at >= 1
    BY <2>1, <2>2 DEF Fits, Exchange
  <2> QED BY <2>1, <2>2, <2>3, <2>4
<1>2. job[w].at + 1 \in 0..(Exchanges + 1) /\ job[w].at + 1 \in 1..(job[w].upto + 1)
  BY <1>1
<1>3. ASSUME NEW j, NEW g \in BOOLEAN,
             j = [job[w] EXCEPT !.pc = "next", !.at = @ + 1, !.rescore = FALSE,
                                !.base = {}, !.got = g]
      PROVE  j \in Jobs /\ Fits(j) /\ j.pc = "next"
  <2>1. j \in Jobs
    <3>1. "next" \in Looping /\ {} \in SUBSET Evaluation /\ FALSE \in BOOLEAN
      BY DEF Looping
    <3> QED BY <1>1, <1>2, <1>3, <3>1 DEF Jobs
  <2>2. /\ j.pc = "next" /\ j.at = job[w].at + 1 /\ j.base = {} /\ j.rescore = FALSE
        /\ j.inputs = job[w].inputs /\ j.seen = job[w].seen /\ j.upto = job[w].upto
        /\ j.kind = job[w].kind /\ j.force = job[w].force
    BY <1>1, <1>3 DEF Jobs
  <2>3. Fits(j)
    BY <1>1, <1>2, <2>2 DEF Fits, Scoring
  <2> QED BY <2>1, <2>2, <2>3
<1>4. Skip(w) = [job[w] EXCEPT !.pc = "next", !.at = @ + 1, !.rescore = FALSE,
                               !.base = {}, !.got = job[w].got]
  BY <1>1 DEF Skip, Jobs
<1>5. [Skip(w) EXCEPT !.got = got]
        = [job[w] EXCEPT !.pc = "next", !.at = @ + 1, !.rescore = FALSE,
                         !.base = {}, !.got = got]
  BY <1>1 DEF Skip, Jobs
<1>6. job[w].got \in BOOLEAN
  BY <1>1 DEF Jobs
<1> QED BY <1>3, <1>4, <1>5, <1>6

\* Work that starts from nothing kept.
LEMMA NewJob ==
    ASSUME EvaluationInv, NEW step \in {"check", "list", "agg_check", "agg_exchanges"},
           NEW kind \in Kinds, NEW x \in 0..Exchanges, NEW force \in BOOLEAN,
           NEW seen \in SUBSET DOMAIN results,
           step = "check" => x \in Exchange /\ kind = "evaluate",
           kind = "completion" => force = FALSE,
           NEW j,
           j = [pc |-> step, kind |-> kind, force |-> force, at |-> x, upto |-> 0,
                got |-> FALSE, rescore |-> FALSE, base |-> {}, seen |-> seen,
                inputs |-> {}, again |-> FALSE]
    PROVE  j \in Jobs /\ Fits(j) /\ j.pc = step
<1>1. /\ answered \in Nat /\ DOMAIN results \subseteq Nat
  BY DEF EvaluationInv, TypeOK, DbTypeOK
<1>2. /\ j.pc = step /\ j.kind = kind /\ j.at = x /\ j.force = force /\ j.seen = seen
      /\ j.upto = 0 /\ j.got = FALSE /\ j.rescore = FALSE /\ j.base = {}
      /\ j.inputs = {} /\ j.again = FALSE
  OBVIOUS
<1>3. j \in Jobs
  <2>1. /\ step \in Scoring \cup Looping \cup Aggregating
        /\ x \in 0..(Exchanges + 1) /\ 0 \in 0..Exchanges /\ seen \in SUBSET Nat
    BY <1>1 DEF Scoring, Looping, Aggregating
  <2> QED BY <1>2, <2>1 DEF Jobs
<1>4. Fits(j)
  BY <1>1, <1>2 DEF Fits, Scoring, Exchange
<1> QED BY <1>2, <1>3, <1>4

\* A request begins, or the completion thread does.
LEMMA BeginStep ==
    ASSUME EvaluationInv, NEW w \in Worker, NEW j \in Jobs, At(w, "idle"), Do(w, j),
           UNCHANGED <<dbVars, Outside>>, Fits(j), j.pc \notin {"store", "store_result"}
    PROVE  EvaluationInv'
BY FreeStep, ScoreStays DEF At, Outside

LEMMA CompleteStep == ASSUME EvaluationInv, Complete PROVE EvaluationInv'
<1>1. PICK j : j = [NoJob EXCEPT !.pc = "list", !.kind = "completion"]
  OBVIOUS
<1>2. j = [pc |-> "list", kind |-> "completion", force |-> FALSE, at |-> 0, upto |-> 0,
           got |-> FALSE, rescore |-> FALSE, base |-> {}, seen |-> {},
           inputs |-> {}, again |-> FALSE]
  BY <1>1 DEF NoJob
<1>3. j \in Jobs /\ Fits(j) /\ j.pc = "list"
  <2>1. "completion" \in Kinds /\ 0 \in 0..Exchanges /\ {} \in SUBSET DOMAIN results
    BY DEF Kinds
  <2> QED BY <1>2, <2>1, NewJob
<1> QED BY <1>1, <1>3, BeginStep DEF Complete, Outside

LEMMA RequestStep == ASSUME EvaluationInv, NEW w \in Worker, Requests(w) PROVE EvaluationInv'
<1>1. ASSUME NEW x \in Exchange, NEW force \in BOOLEAN, Evaluate(w, x, force)
      PROVE  EvaluationInv'
  <2>1. PICK j : j = [NoJob EXCEPT !.pc = "check", !.kind = "evaluate", !.at = x,
                                   !.force = force]
    OBVIOUS
  <2>2. j = [pc |-> "check", kind |-> "evaluate", force |-> force, at |-> x,
             upto |-> 0, got |-> FALSE, rescore |-> FALSE, base |-> {}, seen |-> {},
             inputs |-> {}, again |-> FALSE]
    BY <2>1 DEF NoJob
  <2>3. x \in 0..Exchanges /\ "evaluate" \in Kinds /\ {} \in SUBSET DOMAIN results
    BY DEF Exchange, Kinds
  <2>4. j \in Jobs /\ Fits(j) /\ j.pc = "check"
    BY <2>2, <2>3, NewJob
  <2> QED BY <1>1, <2>1, <2>4, BeginStep DEF Evaluate, Begin
<1>2. ASSUME NEW e \in evals, Override(w, e) PROVE EvaluationInv'
  <2>1. /\ e \in Evaluation /\ e[1] \in Exchange /\ e[1] \in 0..(Exchanges + 1)
        /\ answered \in Nat
    BY DEF EvaluationInv, TypeOK, DbTypeOK, Evaluation, Exchange
  <2>2. PICK step \in {"unmark", "insert"} :
            /\ At(w, "idle")
            /\ Do(w, [NoJob EXCEPT !.pc = step, !.kind = "override",
                                   !.at = e[1], !.base = {e}])
            /\ UNCHANGED <<dbVars, Outside>>
    BY <1>2 DEF Override, Begin
  <2>6. PICK j : j = [NoJob EXCEPT !.pc = step, !.kind = "override", !.at = e[1],
                                   !.base = {e}]
    OBVIOUS
  <2>3. /\ j.pc = step /\ j.kind = "override" /\ j.at = e[1] /\ j.base = {e}
        /\ j.upto = 0 /\ j.seen = {} /\ j.inputs = {} /\ j.rescore = FALSE
        /\ j = [pc |-> step, kind |-> "override", force |-> FALSE, at |-> e[1],
                upto |-> 0, got |-> FALSE, rescore |-> FALSE, base |-> {e},
                seen |-> {}, inputs |-> {}, again |-> FALSE]
    BY <2>6 DEF NoJob
  <2>4. j \in Jobs
    <3>1. /\ step \in Scoring /\ "override" \in Kinds /\ 0 \in 0..Exchanges
          /\ {e} \in SUBSET Evaluation
      BY <2>1 DEF Scoring, Kinds
    <3> QED BY <2>1, <2>3, <3>1 DEF Jobs
  <2>5. Fits(j)
    BY <2>1, <2>3 DEF Fits, Of
  <2> QED BY <2>2, <2>3, <2>4, <2>5, <2>6, BeginStep
<1>3. ASSUME NEW force \in BOOLEAN, Report(w, force) \/ Finalize(w, force)
      PROVE  EvaluationInv'
  <2>1. PICK step \in {"list", "agg_check"}, kind \in {"report", "finalize"} :
            Begin(w, [NoJob EXCEPT !.pc = step, !.kind = kind, !.force = force])
    BY <1>3 DEF Report, Finalize
  <2>2. PICK j : j = [NoJob EXCEPT !.pc = step, !.kind = kind, !.force = force]
    OBVIOUS
  <2>3. j = [pc |-> step, kind |-> kind, force |-> force, at |-> 0, upto |-> 0,
             got |-> FALSE, rescore |-> FALSE, base |-> {}, seen |-> {},
             inputs |-> {}, again |-> FALSE]
    BY <2>2 DEF NoJob
  <2>4. kind \in Kinds /\ 0 \in 0..Exchanges /\ {} \in SUBSET DOMAIN results
    BY DEF Kinds
  <2>5. j \in Jobs /\ Fits(j) /\ j.pc = step
    BY <2>3, <2>4, NewJob
  <2> QED BY <2>1, <2>2, <2>5, BeginStep DEF Begin
<1> QED BY <1>1, <1>2, <1>3 DEF Requests

\* A session goes on to another step of the same work.
LEMMA GotoJob ==
    ASSUME EvaluationInv, NEW w \in Worker,
           NEW step \in Ends \cup Scoring \cup Looping \cup Aggregating,
           NEW j, j = [job[w] EXCEPT !.pc = step]
    PROVE  /\ j \in Jobs /\ j.pc = step
           /\ j.base = job[w].base /\ j.at = job[w].at /\ j.kind = job[w].kind
           /\ j.rescore = job[w].rescore /\ j.force = job[w].force
           /\ j.upto = job[w].upto /\ j.inputs = job[w].inputs /\ j.seen = job[w].seen
<1>1. job[w] \in Jobs
  BY DEF EvaluationInv, TypeOK
<1> QED BY <1>1 DEF Jobs

LEMMA SessionFacts ==
    ASSUME EvaluationInv, NEW w \in Worker
    PROVE  /\ job[w] \in Jobs /\ Fits(job[w]) /\ Holds(w, job[w])
           /\ job[w].pc # "store" => added[w] = {}
           /\ answered \in Nat /\ Exchanges \in Nat
BY DEF EvaluationInv, TypeOK, SessionInv, Holds

\* POST /evaluate: is there a final evaluation?
LEMMA CheckStep == ASSUME EvaluationInv, NEW w \in Worker, CheckExisting(w) PROVE EvaluationInv'
<1> DEFINE e == FinalOf(w, job[w].at)
<1>1. /\ job[w] \in Jobs /\ Fits(job[w]) /\ job[w].pc = "check" /\ added[w] = {}
      /\ job[w].kind \in {"evaluate", "override"} /\ job[w].rescore = FALSE
      /\ job[w].at \in Exchange
  BY SessionFacts DEF CheckExisting, At, Fits, Scoring
<1>2. /\ e \subseteq Of(job[w].at, evals) /\ \A f, g \in e : f = g
      /\ e \in SUBSET Evaluation
  BY <1>1, FinalOfSession
<1>3. PICK j : /\ Do(w, j)
               /\ \/ j = [job[w] EXCEPT !.pc = "score_check", !.force = FALSE]
                  \/ j = [job[w] EXCEPT !.pc = "unmark", !.base = e, !.force = FALSE]
                  \/ j = NoJob
  BY DEF CheckExisting
<1>4. j \in Jobs /\ Fits(j) /\ j.pc \in {"score_check", "unmark", "idle"}
  <2>1. CASE j = [job[w] EXCEPT !.pc = "score_check", !.force = FALSE]
    <3>1. /\ j.pc = "score_check" /\ j.base = job[w].base /\ j.at = job[w].at
          /\ j.kind = job[w].kind /\ j.rescore = FALSE /\ j.force = FALSE
          /\ j.upto = job[w].upto /\ j.inputs = job[w].inputs /\ j.seen = job[w].seen
      BY <1>1, <2>1 DEF Jobs
    <3>2. j \in Jobs
      BY <1>1, <2>1 DEF Jobs, Scoring
    <3>3. Fits(j)
      BY <1>1, <3>1 DEF Fits
    <3> QED BY <3>1, <3>2, <3>3
  <2>2. CASE j = [job[w] EXCEPT !.pc = "unmark", !.base = e, !.force = FALSE]
    <3>1. /\ j.pc = "unmark" /\ j.base = e /\ j.at = job[w].at
          /\ j.kind = job[w].kind /\ j.rescore = FALSE /\ j.force = FALSE
          /\ j.upto = job[w].upto /\ j.inputs = job[w].inputs /\ j.seen = job[w].seen
      BY <1>1, <2>2 DEF Jobs
    <3>2. j \in Jobs
      BY <1>1, <1>2, <2>2 DEF Jobs, Scoring
    <3>3. Fits(j)
      BY <1>1, <1>2, <3>1 DEF Fits
    <3> QED BY <3>1, <3>2, <3>3
  <2>3. CASE j = NoJob
    BY <2>3, NoJobFits DEF NoJob
  <2> QED BY <1>3, <2>1, <2>2, <2>3
<1> QED BY <1>1, <1>3, <1>4, FreeStep, ScoreStays DEF CheckExisting, Outside

LEMMA MarkStep ==
    ASSUME EvaluationInv, NEW w \in Worker, MarkNonFinal(w) \/ ScoreUnmark(w)
    PROVE  EvaluationInv'
<1>1. job[w].pc \in {"unmark", "score_unmark"} /\ Unmark(w, job[w].base) /\ UNCHANGED Outside
  BY DEF MarkNonFinal, ScoreUnmark, At
<1>2. /\ job[w].kind # "completion"
      /\ job[w].pc = "unmark" => job[w].rescore = FALSE
  BY <1>1, SessionFacts DEF Fits
<1>3. PICK step \in {"score_check", "insert", "llm"} :
          Goto(w, step) /\ (step = "score_check" => job[w].pc = "unmark")
  BY DEF MarkNonFinal, ScoreUnmark, At
<1> QED BY <1>1, <1>2, <1>3, UnmarkStep

\* The scoring service raises: what a report or the thread goes on with.
LEMMA ScoringRaisesStep ==
    ASSUME EvaluationInv, NEW w \in Worker, job[w].pc \in {"score_check", "llm"},
           ScoringRaises(w)
    PROVE  EvaluationInv'
<1>1. /\ job[w] \in Jobs /\ Holds(w, job[w]) /\ added[w] = {} /\ reporting[w] \in BOOLEAN
      /\ job[w].pc \in Scoring
  BY SessionFacts DEF EvaluationInv, TypeOK, DbTypeOK, Scoring
<1>2. CASE job[w].kind = "report"
  <2>1. Rollback(w) /\ Do(w, Skip(w)) /\ UNCHANGED Outside
    BY <1>2 DEF ScoringRaises
  <2>2. Skip(w) \in Jobs /\ Fits(Skip(w)) /\ Skip(w).pc = "next"
    BY <1>1, <1>2, SkipFits
  <2> QED BY <2>1, <2>2, RollbackStep DEF Outside
<1>3. CASE job[w].kind = "completion"
  <2>1. UNCHANGED dbVars /\ Do(w, Skip(w)) /\ UNCHANGED Outside
    BY <1>3 DEF ScoringRaises
  <2>2. Skip(w) \in Jobs /\ Fits(Skip(w)) /\ Skip(w).pc = "next"
    BY <1>1, <1>3, SkipFits
  <2>3. Holds(w, Skip(w))
    BY <1>1, <1>3, <2>2 DEF Holds
  <2> QED BY <2>1, <2>2, <2>3, QuietStep, ScoreStays DEF SessionInv, Outside
<1>4. CASE job[w].kind \notin {"report", "completion"}
  BY <1>4, RaiseStep DEF ScoringRaises
<1> QED BY <1>2, <1>3, <1>4

LEMMA ScoreCheckStep == ASSUME EvaluationInv, NEW w \in Worker, ScoreCheck(w) PROVE EvaluationInv'
<1> DEFINE e == FinalOf(w, job[w].at)
<1>1. /\ job[w] \in Jobs /\ Fits(job[w]) /\ Holds(w, job[w]) /\ job[w].pc = "score_check"
      /\ added[w] = {} /\ job[w].at \in Exchange
  BY SessionFacts DEF ScoreCheck, At, Fits, Scoring
<1>2. /\ e \subseteq Of(job[w].at, evals) /\ (\A f, g \in e : f = g)
      /\ e \in SUBSET Evaluation
  BY <1>1, FinalOfSession
<1>3. CASE ScoringRaises(w)
  BY <1>1, <1>3, ScoringRaisesStep
<1>4. CASE e = {} /\ Do(w, [job[w] EXCEPT !.pc = "llm", !.base = job[w].base])
           /\ UNCHANGED <<dbVars, Outside>>
  <2>1. PICK j : j = [job[w] EXCEPT !.pc = "llm", !.base = job[w].base]
    OBVIOUS
  <2>2. /\ j.pc = "llm" /\ j.base = job[w].base /\ j.at = job[w].at
        /\ j.kind = job[w].kind /\ j.rescore = job[w].rescore /\ j.force = job[w].force
        /\ j.upto = job[w].upto /\ j.inputs = job[w].inputs /\ j.seen = job[w].seen
    BY <1>1, <2>1 DEF Jobs
  <2>3. j \in Jobs
    BY <1>1, <2>1 DEF Jobs, Scoring
  <2>4. Fits(j) /\ Holds(w, j)
    BY <1>1, <2>2 DEF Fits, Holds, Scoring
  <2> QED BY <1>4, <2>1, <2>3, <2>4, QuietStep, ScoreStays DEF SessionInv, Outside
<1>5. CASE e # {} /\ job[w].rescore /\ Do(w, [job[w] EXCEPT !.pc = "score_unmark", !.base = e])
           /\ UNCHANGED <<dbVars, Outside>>
  <2>1. PICK j : j = [job[w] EXCEPT !.pc = "score_unmark", !.base = e]
    OBVIOUS
  <2>2. /\ j.pc = "score_unmark" /\ j.base = e /\ j.at = job[w].at
        /\ j.kind = job[w].kind /\ j.rescore = job[w].rescore /\ j.force = job[w].force
        /\ j.upto = job[w].upto /\ j.inputs = job[w].inputs /\ j.seen = job[w].seen
    BY <1>1, <2>1 DEF Jobs
  <2>3. j \in Jobs
    BY <1>1, <1>2, <2>1 DEF Jobs, Scoring
  <2>4. unmarked[w] = {}
    BY <1>1, <1>5 DEF Holds
  <2>5. Fits(j) /\ Holds(w, j)
    BY <1>1, <1>2, <1>5, <2>2, <2>4 DEF Fits, Holds, Scoring
  <2> QED BY <1>5, <2>1, <2>3, <2>5, QuietStep, ScoreStays DEF SessionInv, Outside
<1> QED BY <1>3, <1>4, <1>5 DEF ScoreCheck

\* IntegrityError of an evaluation.
LEMMA InsertRaisesStep == ASSUME EvaluationInv, NEW w \in Worker, InsertRaises(w) PROVE EvaluationInv'
<1>1. job[w].pc \in Scoring /\ Rollback(w) /\ UNCHANGED Outside
  BY DEF InsertRaises, At, Scoring
<1>2. CASE job[w].kind \in {"report", "completion"}
  <2>1. Skip(w) \in Jobs /\ Fits(Skip(w)) /\ Skip(w).pc = "next"
    BY <1>1, <1>2, SkipFits
  <2>2. Do(w, Skip(w))
    BY <1>2 DEF InsertRaises
  <2> QED BY <1>1, <2>1, <2>2, RollbackStep DEF Outside
<1>3. CASE job[w].kind \notin {"report", "completion"}
  <2>1. Over(w)
    BY <1>3 DEF InsertRaises
  <2> QED BY <1>1, <2>1, RaiseStep DEF Raise
<1> QED BY <1>2, <1>3

LEMMA StoreEvaluationStep ==
    ASSUME EvaluationInv, NEW w \in Worker, StoreEvaluation(w) PROVE EvaluationInv'
<1>1. job[w].pc = "store" /\ job[w].pc \in Scoring /\ Commit(w, {}) /\ UNCHANGED Outside
  BY DEF StoreEvaluation, At, Scoring
<1>2. CASE job[w].kind \in {"report", "completion"}
  <2>1. PICK j : j = [Skip(w) EXCEPT !.got = TRUE]
    OBVIOUS
  <2>2. j \in Jobs /\ Fits(j) /\ j.pc = "next"
    BY <1>1, <1>2, <2>1, SkipFits
  <2>3. Do(w, j)
    BY <1>2, <2>1 DEF StoreEvaluation
  <2> QED BY <1>1, <2>2, <2>3, StoreStep DEF Outside, Looping
<1>3. CASE job[w].kind \notin {"report", "completion"}
  <2>1. PICK j \in Jobs : Do(w, j) /\ Fits(j) /\ j.pc \in {"idle", "done"}
    BY <1>3, OverJob DEF StoreEvaluation
  <2> QED BY <1>1, <2>1, StoreStep DEF Outside, Ends
<1> QED BY <1>2, <1>3

\* The list of the exchanges of a report.
LEMMA ListStep == ASSUME EvaluationInv, NEW w \in Worker, ListExchanges(w) PROVE EvaluationInv'
<1>1. /\ job[w] \in Jobs /\ Fits(job[w]) /\ job[w].pc = "list"
      /\ job[w].upto = 0 /\ job[w].inputs = {} /\ UNCHANGED <<dbVars, Outside>>
      /\ answered \in 0..Exchanges
  BY SessionFacts DEF ListExchanges, At, Fits, EvaluationInv, TypeOK
<1>2. CASE answered > 0
  <2>1. PICK j : j = [job[w] EXCEPT !.pc = "next", !.at = 1, !.upto = answered]
    OBVIOUS
  <2>2. /\ j.pc = "next" /\ j.base = job[w].base /\ j.at = 1
        /\ j.kind = job[w].kind /\ j.rescore = job[w].rescore /\ j.force = job[w].force
        /\ j.upto = answered /\ j.inputs = job[w].inputs /\ j.seen = job[w].seen
    BY <1>1, <2>1 DEF Jobs
  <2>3. j \in Jobs
    <3>1. "next" \in Looping /\ 1 \in 0..(Exchanges + 1)
      BY <1>1, <1>2 DEF Looping
    <3> QED BY <1>1, <2>1, <3>1 DEF Jobs
  <2>4. Do(w, j)
    BY <1>2, <2>1 DEF ListExchanges
  <2>5. Fits(j)
    <3>1. j.base = {}
      BY <1>1, <2>2 DEF Fits
    <3> QED BY <1>1, <1>2, <2>2, <3>1 DEF Fits, Scoring
  <2> QED BY <1>1, <2>2, <2>3, <2>4, <2>5, FreeStep, ScoreStays DEF Outside
<1>3. CASE ~(answered > 0) /\ w = Thread
  <2>1. PICK j \in Jobs : Do(w, j) /\ Fits(j) /\ j.pc \in {"idle", "done"}
    BY <1>3, OverJob DEF ListExchanges
  <2> QED BY <1>1, <2>1, FreeStep, ScoreStays DEF Outside
<1>4. CASE ~(answered > 0) /\ w # Thread
  <2>1. PICK j : j = [job[w] EXCEPT !.pc = "insert_result"]
    OBVIOUS
  <2>2. /\ j \in Jobs /\ j.pc = "insert_result"
        /\ j.base = job[w].base /\ j.at = job[w].at /\ j.kind = job[w].kind
        /\ j.rescore = job[w].rescore /\ j.force = job[w].force
        /\ j.upto = job[w].upto /\ j.inputs = job[w].inputs /\ j.seen = job[w].seen
    BY <2>1, GotoJob DEF Aggregating
  <2>3. Aggregates(j.inputs, j.upto)
    BY <1>1, <2>2 DEF Aggregates
  <2>4. Fits(j)
    BY <1>1, <2>2, <2>3 DEF Fits, Scoring
  <2>5. Do(w, j)
    BY <1>4, <2>1 DEF ListExchanges, Goto
  <2> QED BY <1>1, <2>2, <2>4, <2>5, FreeStep, ScoreStays DEF Outside
<1> QED BY <1>2, <1>3, <1>4

LEMMA NextStep == ASSUME EvaluationInv, NEW w \in Worker, NextExchange(w) PROVE EvaluationInv'
<1>1. /\ job[w] \in Jobs /\ Fits(job[w]) /\ job[w].pc = "next"
      /\ job[w].at <= job[w].upto /\ UNCHANGED <<dbVars, Outside>>
      /\ job[w].at \in 1..(job[w].upto + 1) /\ job[w].upto \in 0..Exchanges
      /\ Exchanges \in Nat
  <2>1. /\ job[w] \in Jobs /\ Fits(job[w]) /\ job[w].pc = "next"
        /\ job[w].at <= job[w].upto /\ UNCHANGED <<dbVars, Outside>> /\ Exchanges \in Nat
    BY SessionFacts DEF NextExchange, At
  <2> QED BY <2>1 DEF Fits, Jobs
<1>2. CASE Do(w, [Skip(w) EXCEPT !.got = TRUE])
  <2>1. PICK j : j = [Skip(w) EXCEPT !.got = TRUE]
    OBVIOUS
  <2>2. j \in Jobs /\ Fits(j) /\ j.pc = "next"
    BY <1>1, <2>1, SkipFits
  <2> QED BY <1>1, <1>2, <2>1, <2>2, FreeStep, ScoreStays DEF Outside
<1>3. ASSUME NEW again \in BOOLEAN, job[w].kind = "completion" => again = FALSE,
             Do(w, [job[w] EXCEPT !.pc = "score_check", !.rescore = again])
      PROVE  EvaluationInv'
  <2>1. PICK j : j = [job[w] EXCEPT !.pc = "score_check", !.rescore = again]
    OBVIOUS
  <2>2. /\ j.pc = "score_check" /\ j.base = job[w].base /\ j.at = job[w].at
        /\ j.kind = job[w].kind /\ j.rescore = again /\ j.force = job[w].force
        /\ j.upto = job[w].upto /\ j.inputs = job[w].inputs /\ j.seen = job[w].seen
    BY <1>1, <2>1 DEF Jobs
  <2>3. j \in Jobs
    BY <1>1, <2>1 DEF Jobs, Scoring
  <2>4. j.at \in Exchange /\ j.at <= j.upto
    BY <1>1, <2>2 DEF Exchange
  <2>5. Fits(j)
    BY <1>1, <1>3, <2>2, <2>4 DEF Fits
  <2> QED BY <1>1, <1>3, <2>1, <2>2, <2>3, <2>5, FreeStep, ScoreStays DEF Outside
<1>4. /\ job[w].force \in BOOLEAN
      /\ job[w].kind = "completion" => job[w].force = FALSE
  BY <1>1 DEF Fits, Jobs
<1> QED BY <1>2, <1>3, <1>4 DEF NextExchange

\* The end of the list.
LEMMA DoneStep == ASSUME EvaluationInv, NEW w \in Worker, ExchangesDone(w) PROVE EvaluationInv'
<1>1. /\ job[w] \in Jobs /\ Fits(job[w]) /\ job[w].pc = "next"
  BY SessionFacts DEF ExchangesDone, At
<1>2. CASE Raise(w)
  BY <1>2, RaiseStep
<1>3. CASE /\ Do(w, [NoJob EXCEPT !.pc = "agg_check", !.kind = "finalize",
                                  !.force = job[w].force])
           /\ UNCHANGED <<dbVars, Outside>>
  <2>1. PICK j : j = [NoJob EXCEPT !.pc = "agg_check", !.kind = "finalize",
                                   !.force = job[w].force]
    OBVIOUS
  <2>2. j = [pc |-> "agg_check", kind |-> "finalize", force |-> job[w].force, at |-> 0,
             upto |-> 0, got |-> FALSE, rescore |-> FALSE, base |-> {}, seen |-> {},
             inputs |-> {}, again |-> FALSE]
    BY <2>1 DEF NoJob
  <2>3. /\ job[w].force \in BOOLEAN /\ "finalize" \in Kinds /\ 0 \in 0..Exchanges
        /\ {} \in SUBSET DOMAIN results
    BY <1>1 DEF Jobs, Kinds
  <2>4. j \in Jobs /\ Fits(j) /\ j.pc = "agg_check"
    BY <2>2, <2>3, NewJob
  <2> QED BY <1>1, <1>3, <2>1, <2>4, FreeStep, ScoreStays DEF Outside
<1>4. CASE Goto(w, "gave_up") /\ UNCHANGED <<dbVars, Outside>>
  <2>1. PICK j : j = [job[w] EXCEPT !.pc = "gave_up"]
    OBVIOUS
  <2>2. /\ j \in Jobs /\ j.pc = "gave_up"
        /\ j.base = job[w].base /\ j.at = job[w].at /\ j.kind = job[w].kind
        /\ j.rescore = job[w].rescore /\ j.force = job[w].force
        /\ j.upto = job[w].upto /\ j.inputs = job[w].inputs /\ j.seen = job[w].seen
    BY <2>1, GotoJob DEF Ends
  <2>3. Fits(j)
    BY <1>1, <2>2 DEF Fits, Scoring
  <2> QED BY <1>1, <1>4, <2>1, <2>2, <2>3, FreeStep, ScoreStays DEF Goto, Outside
<1> QED BY <1>2, <1>3, <1>4 DEF ExchangesDone

\* The result to replace.
LEMMA CheckResultStep == ASSUME EvaluationInv, NEW w \in Worker, CheckResult(w) PROVE EvaluationInv'
<1>1. job[w].pc = "agg_check"
  BY DEF CheckResult, At
<1>2. CASE Raise(w)
  BY <1>2, RaiseStep
<1>3. CASE /\ Do(w, [NoJob EXCEPT !.pc = "agg_exchanges", !.kind = "finalize",
                                  !.seen = current])
           /\ UNCHANGED <<dbVars, Outside>>
  <2>1. PICK j : j = [NoJob EXCEPT !.pc = "agg_exchanges", !.kind = "finalize",
                                   !.seen = current]
    OBVIOUS
  <2>2. j = [pc |-> "agg_exchanges", kind |-> "finalize", force |-> FALSE, at |-> 0,
             upto |-> 0, got |-> FALSE, rescore |-> FALSE, base |-> {},
             seen |-> current, inputs |-> {}, again |-> FALSE]
    BY <2>1 DEF NoJob
  <2>3. "finalize" \in Kinds /\ 0 \in 0..Exchanges /\ current \in SUBSET DOMAIN results
    BY DEF Kinds, EvaluationInv, TypeOK, DbTypeOK
  <2>4. j \in Jobs /\ Fits(j) /\ j.pc = "agg_exchanges"
    BY <2>2, <2>3, NewJob
  <2> QED BY <1>1, <1>3, <2>1, <2>4, FreeStep, ScoreStays DEF Outside
<1> QED BY <1>2, <1>3 DEF CheckResult

LEMMA FetchExchangesStep ==
    ASSUME EvaluationInv, NEW w \in Worker, FetchExchanges(w) PROVE EvaluationInv'
<1>1. /\ job[w] \in Jobs /\ Fits(job[w]) /\ job[w].pc = "agg_exchanges"
      /\ answered \in 0..Exchanges
  BY SessionFacts DEF FetchExchanges, At, EvaluationInv, TypeOK
<1>2. CASE Raise(w)
  BY <1>2, RaiseStep
<1>3. CASE /\ Do(w, [job[w] EXCEPT !.pc = "agg_evals", !.upto = answered])
           /\ UNCHANGED <<dbVars, Outside>>
  <2>1. PICK j : j = [job[w] EXCEPT !.pc = "agg_evals", !.upto = answered]
    OBVIOUS
  <2>2. /\ j.pc = "agg_evals" /\ j.base = job[w].base /\ j.at = job[w].at
        /\ j.kind = job[w].kind /\ j.rescore = job[w].rescore /\ j.force = job[w].force
        /\ j.upto = answered /\ j.inputs = job[w].inputs /\ j.seen = job[w].seen
    BY <1>1, <2>1 DEF Jobs
  <2>3. j \in Jobs
    BY <1>1, <2>1 DEF Jobs, Aggregating
  <2>4. Fits(j)
    BY <1>1, <2>2 DEF Fits, Scoring
  <2> QED BY <1>1, <1>3, <2>1, <2>2, <2>3, <2>4, FreeStep, ScoreStays DEF Outside
<1> QED BY <1>2, <1>3 DEF FetchExchanges

\* The evaluations read are complete for the exchanges read before, because an
\* exchange has one final evaluation at most.
LEMMA FinalsAggregate ==
    ASSUME EvaluationInv, NEW n \in Nat, EvaluatedUpTo(n)
    PROVE  Aggregates(FinalsUpTo(n), n) /\ FinalsUpTo(n) \subseteq evals
<1>1. finals \subseteq evals
  BY DEF EvaluationInv, TypeOK, DbTypeOK
<1>2. ASSUME NEW x \in 1..n PROVE \E e \in FinalsUpTo(n) : Of(x, FinalsUpTo(n)) = {e}
  <2>1. PICK e \in finals : e[1] = x
    BY <1>2 DEF EvaluatedUpTo, Of
  <2>2. e \in FinalsUpTo(n)
    BY <2>1 DEF FinalsUpTo
  <2>3. ASSUME NEW f \in Of(x, FinalsUpTo(n)) PROVE f = e
    <3>1. f \in finals /\ f[1] = x
      BY DEF Of, FinalsUpTo
    <3> QED BY <2>1, <3>1, FinalsAreOne
  <2>4. Of(x, FinalsUpTo(n)) = {e}
    BY <2>1, <2>2, <2>3 DEF Of
  <2> QED BY <2>2, <2>4
<1> QED BY <1>1, <1>2 DEF Aggregates, FinalsUpTo

LEMMA FetchEvaluationsStep ==
    ASSUME EvaluationInv, NEW w \in Worker, FetchEvaluations(w) PROVE EvaluationInv'
<1>1. /\ job[w] \in Jobs /\ Fits(job[w]) /\ job[w].pc = "agg_evals"
      /\ job[w].upto \in Nat
  <2>1. job[w] \in Jobs /\ Fits(job[w]) /\ job[w].pc = "agg_evals" /\ Exchanges \in Nat
    BY SessionFacts DEF FetchEvaluations, At
  <2> QED BY <2>1 DEF Jobs
<1>2. CASE Raise(w)
  BY <1>2, RaiseStep
<1>3. CASE EvaluatedUpTo(job[w].upto) /\ ~Raise(w)
  <2> DEFINE E == FinalsUpTo(job[w].upto)
  <2>1. PICK step \in {"insert_result", "retire"} :
            /\ Do(w, [job[w] EXCEPT !.inputs = E, !.pc = step])
            /\ UNCHANGED <<dbVars, Outside>>
    BY <1>3 DEF FetchEvaluations
  <2>2. PICK j : j = [job[w] EXCEPT !.inputs = E, !.pc = step]
    OBVIOUS
  <2>3. /\ j.pc = step /\ j.base = job[w].base /\ j.at = job[w].at
        /\ j.kind = job[w].kind /\ j.rescore = job[w].rescore /\ j.force = job[w].force
        /\ j.upto = job[w].upto /\ j.inputs = E /\ j.seen = job[w].seen
    BY <1>1, <2>2 DEF Jobs
  <2>4. Aggregates(E, job[w].upto) /\ E \subseteq evals /\ E \in SUBSET Evaluation
    BY <1>1, <1>3, FinalsAggregate DEF EvaluationInv, TypeOK, DbTypeOK
  <2>5. j \in Jobs
    BY <1>1, <2>2, <2>4 DEF Jobs, Aggregating
  <2>6. Fits(j)
    BY <1>1, <2>3, <2>4 DEF Fits, Scoring
  <2> QED BY <1>1, <2>1, <2>2, <2>3, <2>5, <2>6, FreeStep, ScoreStays DEF Outside
<1> QED BY <1>2, <1>3 DEF FetchEvaluations

\* IntegrityError of a result: once more, with the same evaluations.
LEMMA InsertResultRaisesStep ==
    ASSUME EvaluationInv, NEW w \in Worker, InsertResultRaises(w) PROVE EvaluationInv'
<1>1. /\ job[w] \in Jobs /\ Fits(job[w]) /\ job[w].pc = "insert_result"
      /\ Rollback(w) /\ UNCHANGED Outside
  BY SessionFacts DEF InsertResultRaises, At
<1>2. CASE Over(w)
  BY <1>1, <1>2, RaiseStep DEF Raise
<1>3. CASE ~Over(w)
  <2>1. PICK step \in {"insert_result", "retire"} :
            Do(w, [job[w] EXCEPT !.again = TRUE, !.pc = step])
    BY <1>3 DEF InsertResultRaises
  <2>2. PICK j : j = [job[w] EXCEPT !.again = TRUE, !.pc = step]
    OBVIOUS
  <2>3. /\ j.pc = step /\ j.base = job[w].base /\ j.at = job[w].at
        /\ j.kind = job[w].kind /\ j.rescore = job[w].rescore /\ j.force = job[w].force
        /\ j.upto = job[w].upto /\ j.inputs = job[w].inputs /\ j.seen = job[w].seen
    BY <1>1, <2>2 DEF Jobs
  <2>4. j \in Jobs
    BY <1>1, <2>2 DEF Jobs, Aggregating
  <2>5. Fits(j)
    BY <1>1, <2>3 DEF Fits, Scoring
  <2> QED BY <1>1, <2>1, <2>2, <2>3, <2>4, <2>5, RollbackStep DEF Outside
<1> QED BY <1>2, <1>3

\* Step 3 of the thread copies the score of a result that is there.
LEMMA WriteFinalScoreStep ==
    ASSUME EvaluationInv, NEW w \in Worker, WriteFinalScore(w) PROVE EvaluationInv'
<1>1. /\ Fits(job[w]) /\ job[w].pc = "final_score" /\ score' \in job[w].seen
      /\ UNCHANGED <<dbVars, answered>>
  BY SessionFacts DEF WriteFinalScore, At
<1>2. score' \in 0..Len(results)
  <2>1. score' \in DOMAIN results
    BY <1>1 DEF Fits
  <2>2. DOMAIN results = 1..Len(results) /\ Len(results) \in Nat
    BY DEF EvaluationInv, TypeOK, DbTypeOK
  <2> QED BY <2>1, <2>2
<1>3. PICK j \in Jobs : Do(w, j) /\ Fits(j) /\ j.pc \in {"idle", "done"}
  BY OverJob DEF WriteFinalScore
<1> QED BY <1>1, <1>2, <1>3, FreeStep

-----------------------------------------------------------------------------
(* The theorems.                                                           *)

LEMMA InitialState == ASSUME Init PROVE EvaluationInv
<1>1. TypeOK
  <2>1. NoJob \in Jobs
    <3>1. 0 \in 0..(Exchanges + 1) /\ 0 \in 0..Exchanges /\ FALSE \in BOOLEAN
      OBVIOUS
    <3>2. {} \in SUBSET Evaluation /\ {} \in SUBSET Nat /\ "none" \in Kinds /\ "idle" \in Ends
      BY DEF Kinds, Ends
    <3> QED BY <3>1, <3>2 DEF NoJob, Jobs
  <2>2. results \in Seq(SUBSET evals) /\ Len(results) = 0 /\ DOMAIN results = {}
    BY DEF Init, DbInit
  <2> QED BY <2>1, <2>2 DEF Init, DbInit, TypeOK, DbTypeOK
<1>2. TablesInv
  BY DEF Init, DbInit, TablesInv, RowLocks, KeyHeld, ReporterAlone, HasFinal,
         FinalIsLatest, CurrentIsLatest, ResultsComplete
<1>3. ASSUME NEW w \in Worker PROVE SessionInv(w, job[w])
  <2>1. Fits(NoJob)
    BY DEF Init, NoJob, Fits, Scoring
  <2>2. Holds(w, NoJob)
    BY DEF Init, DbInit, NoJob, Holds
  <2> QED BY <2>1, <2>2 DEF Init, SessionInv
<1> QED BY <1>1, <1>2, <1>3 DEF EvaluationInv

LEMMA StepPreserves == ASSUME EvaluationInv, [Next]_vars PROVE EvaluationInv'
<1>1. CASE Answer
  BY <1>1, AnswerStep
<1>2. CASE Complete
  BY <1>2, CompleteStep
<1>3. ASSUME NEW w \in Worker, Requests(w) PROVE EvaluationInv'
  BY <1>3, RequestStep
<1>4. ASSUME NEW w \in Worker, EvaluationSteps(w) PROVE EvaluationInv'
  <2>1. ASSUME ScoringFails(w) PROVE EvaluationInv'
    BY <2>1, ScoringRaisesStep DEF ScoringFails, At
  <2> QED
    BY <1>4, <2>1, CheckStep, MarkStep, ScoreCheckStep, InsertStep, InsertRaisesStep,
       StoreEvaluationStep
    DEF EvaluationSteps
<1>5. ASSUME NEW w \in Worker, ReportSteps(w) PROVE EvaluationInv'
  BY <1>5, ListStep, NextStep, DoneStep, CheckResultStep, FetchExchangesStep,
     FetchEvaluationsStep, RetireStep, CurrentStep, InsertResultRaisesStep, ResultStep,
     WriteFinalScoreStep
  DEF ReportSteps
<1>6. ASSUME NEW w \in Worker, Abort(w) PROVE EvaluationInv'
  BY <1>6, RaiseStep DEF Abort
<1>7. CASE UNCHANGED vars
  <2>1. UNCHANGED <<dbVars, answered, score, job>>
    BY <1>7 DEF vars
  <2>2. TypeOK' /\ TablesInv'
    BY <2>1 DEF EvaluationInv, TypeOK, DbTypeOK, TablesInv, RowLocks, KeyHeld,
                ReporterAlone, HasFinal, FinalIsLatest, CurrentIsLatest,
                ResultsComplete, dbVars
  <2>3. ASSUME NEW w \in Worker PROVE SessionInv(w, job[w])'
    BY <2>1 DEF EvaluationInv, SessionInv, Fits, Holds, dbVars
  <2> QED BY <2>2, <2>3 DEF EvaluationInv
<1> QED BY <1>1, <1>2, <1>3, <1>4, <1>5, <1>6, <1>7 DEF Next

\* Whatever sessions, exchanges and bounds: EvaluationInv is inductive.
THEOREM EvaluationInvariance == Spec => []EvaluationInv
<1>1. Init => EvaluationInv
  BY InitialState
<1>2. EvaluationInv /\ [Next]_vars => EvaluationInv'
  BY StepPreserves
<1> QED BY <1>1, <1>2, PTL DEF Spec

\* The tables and the sessions keep their types.
THEOREM EvaluationTypes == Spec => []TypeOK
<1>1. EvaluationInv => TypeOK
  BY DEF EvaluationInv
<1> QED BY <1>1, EvaluationInvariance, PTL

\* The final evaluation of an exchange is the last one stored, whichever of the
\* requests that insert one race, fail after withdrawing, or are rolled back.
THEOREM FinalIsAlwaysLatest == Spec => []FinalIsLatest
<1>1. EvaluationInv => FinalIsLatest
  BY DEF EvaluationInv, TablesInv
<1> QED BY <1>1, EvaluationInvariance, PTL

\* So is the current result among the results, with the retry after an
\* IntegrityError and the completion thread.
THEOREM CurrentIsAlwaysLatest == Spec => []CurrentIsLatest
<1>1. EvaluationInv => CurrentIsLatest
  BY DEF EvaluationInv, TablesInv
<1> QED BY <1>1, EvaluationInvariance, PTL

\* A result aggregates one evaluation of each exchange from the first on.
THEOREM ResultsAreAlwaysComplete == Spec => []ResultsAreComplete
<1>1. EvaluationInv => ResultsAreComplete
  BY DEF EvaluationInv, TablesInv, ResultsComplete, ResultsAreComplete, Aggregates
<1> QED BY <1>1, EvaluationInvariance, PTL

\* An evaluation made from another one replaces exactly that one.
THEOREM EvaluationReplacesItsBase == Spec => ReplacesItsBase
<1>1. EvaluationInv =>
        \A w \in Worker : StoreEvaluation(w) => job[w].base \subseteq finals
  BY DEF EvaluationInv, SessionInv, Holds, StoreEvaluation, At
<1> QED BY <1>1, EvaluationInvariance, PTL DEF ReplacesItsBase
=============================================================================
