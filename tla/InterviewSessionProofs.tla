----------------------- MODULE InterviewSessionProofs -----------------------
(***************************************************************************)
(* Proofs of the safety properties of InterviewSession, for any number of  *)
(* requests, questions and optimistic attempts.                            *)
(***************************************************************************)
EXTENDS InterviewSession, TLAPS

USE TxnAssumption, QuestionsAssumption, OfferedAssumption, OrphanAssumption,
    RetriesAssumption

-----------------------------------------------------------------------------
(* Types.                                                                  *)

\* The columns a request remembers of a row are well typed.
LEMMA ColumnsType ==
    ASSUME NEW r \in Rows
    PROVE  Columns(r) \in
               [status : Statuses, version : Nat, seq : 0..TotalQuestions]
BY DEF Columns, Rows

\* The row a submission is created with is well typed.
LEMMA NewRowType == NewRow \in Rows
BY DEF NewRow, Rows, Statuses

\* SET status, version = version + 1 keeps a row well typed.
LEMMA WithStatusType ==
    ASSUME NEW r \in Rows, NEW s \in Statuses, NEW a \in Actors
    PROVE  WithStatus(r, s, a) \in Rows
<1>1. [from |-> r.status, to |-> s, actor |-> a] \in AuditEntry
  BY DEF Rows, AuditEntry
<1>2. Append(r.trail, [from |-> r.status, to |-> s, actor |-> a])
          \in Seq(AuditEntry)
  BY <1>1 DEF Rows
<1>3. r.version + 1 \in Nat
  BY DEF Rows
<1> QED BY <1>2, <1>3 DEF WithStatus, Rows

\* A rolled back transaction leaves a well-typed database.
LEMMA RollbackType ==
    ASSUME DbTypeOK, NEW t \in Txn, DbRollback(t)
    PROVE  DbTypeOK'
BY DEF DbTypeOK, DbRollback

\* So does a committed one.
LEMMA CommitType ==
    ASSUME DbTypeOK, NEW t \in Txn, DbCommit(t)
    PROVE  DbTypeOK'
<1>1. inserting[t] # 0 => inserting[t] \in 1..TotalQuestions
  BY DEF DbTypeOK
<1>2. inserting[t] # 0 =>
          Append(exchanges, inserting[t]) \in Seq(1..TotalQuestions)
  BY <1>1 DEF DbTypeOK
<1>3. exchanges' \in Seq(1..TotalQuestions)
  BY <1>2 DEF DbTypeOK, DbCommit
<1> QED BY <1>3 DEF DbTypeOK, DbCommit

\* And a row that is written with a well-typed value.
LEMMA WriteType ==
    ASSUME DbTypeOK, NEW t \in Txn, NEW new \in Rows, WriteRow(t, new)
    PROVE  DbTypeOK'
BY DEF DbTypeOK, WriteRow

\* What the requests and Redis keep, the part of TypeOK that is not the database.
RequestTypeOK ==
    /\ pc \in [Txn -> Steps]
    /\ op \in [Txn -> Transitions \cup {"none"}]
    /\ \A t \in Txn : pc[t] \in TransitionSteps => op[t] # "none"
    /\ ans \in [Txn -> 0..TotalQuestions]
    /\ seen \in [Txn -> [status : Statuses, version : Nat, seq : 0..TotalQuestions]]
    /\ tries \in [Txn -> 0..MaxRetries - 1]
    /\ out \in [Txn -> CacheStatuses]
    /\ got \in [Txn -> CacheStatuses]
    /\ lockOwner \in [LockKeys -> Txn \cup {NoTxn, Orphan}]
    /\ cache \in [status : CacheStatuses, seq : 0..TotalQuestions]
    /\ aggStarted \in BOOLEAN
    /\ moved \in Seq(Statuses)

\* TypeOK is the types of the database and the types of the requests.
LEMMA TypeParts == TypeOK <=> DbTypeOK /\ RequestTypeOK
BY DEF TypeOK, RequestTypeOK

\* A request that is over leaves well-typed variables behind.
LEMMA RaiseType ==
    ASSUME TypeOK, NEW t \in Txn, NEW k \in LockKeys, Raise(t, k)
    PROVE  TypeOK'
<1>1. DbTypeOK' BY RollbackType DEF TypeOK, Raise
<1>2. RequestTypeOK'
  BY NewRowType, ColumnsType
  DEF TypeOK, RequestTypeOK, Raise, Finish, Goto, Release, Steps, CacheStatuses,
      TransitionSteps
<1> QED BY <1>1, <1>2, TypeParts DEF TypeOK, RequestTypeOK

\* The row a transaction sees is well typed.
LEMMA VisibleType ==
    ASSUME DbTypeOK, NEW t \in Txn
    PROVE  Visible(t) \in Rows
BY DEF DbTypeOK, Visible

\* The initial state is well typed.
LEMMA TypeInit == Init => TypeOK
<1> SUFFICES ASSUME Init PROVE TypeOK
  OBVIOUS
<1>1. DbTypeOK
  BY NewRowType DEF Init, DbInit, DbTypeOK
<1>2. Columns(NewRow) \in
          [status : Statuses, version : Nat, seq : 0..TotalQuestions]
  BY NewRowType, ColumnsType
<1>3. cache \in [status : CacheStatuses, seq : 0..TotalQuestions]
  BY DEF NoCache, CacheStatuses, Init, RequestInit
<1>4. aggStarted \in BOOLEAN
  BY Zenon DEF Init, RequestInit
<1>5. RequestTypeOK
  BY <1>2, <1>3, <1>4
  DEF Init, RequestInit, RequestTypeOK, Steps, CacheStatuses, TransitionSteps
<1> QED BY <1>1, <1>5, TypeParts

\* Every step of SessionService and of the expiry worker keeps the types.
LEMMA TransitionTypes ==
    ASSUME TypeOK, NEW t \in Txn, TransitionNext(t)
    PROVE  TypeOK'
<1> DEFINE v == Visible(t)
           ColumnSet ==
               [status : Statuses, version : Nat, seq : 0..TotalQuestions]
<1>a. DbTypeOK /\ RequestTypeOK
  BY TypeParts
<1>b. v \in Rows /\ Columns(v) \in ColumnSet
  BY <1>a, VisibleType, ColumnsType
<1>c. 0 \in LockKeys
  BY DEF LockKeys
<1>d. \A o \in Transitions : Target[o] \in Statuses /\ ActorOf[o] \in Actors
  BY DEF Target, ActorOf, Transitions, Statuses, Actors
<1>e. "system:expiry_worker" \in Actors /\ "expired" \in Statuses
  BY DEF Actors, Statuses
<1>f. SUFFICES DbTypeOK' /\ RequestTypeOK'
  BY DEF TypeOK, RequestTypeOK
<1> USE DEF Goto, Steps, TransitionSteps, CacheStatuses
<1>1. CASE BeginTransition(t)
  <2>1. PICK o \in Transitions : op' = [op EXCEPT ![t] = o]
    BY <1>1 DEF BeginTransition
  <2>2. o # "none"
    BY DEF Transitions
  <2> QED
    BY <1>1, <1>a, <2>1, <2>2
    DEF BeginTransition, RequestTypeOK, DbTypeOK, dbVars, sharedVars
<1>2. CASE ReadForTransition(t)
  <2>1. lockOwner' \in [LockKeys -> Txn \cup {NoTxn, Orphan}]
    BY <1>2, <1>a, <1>c
    DEF ReadForTransition, OptionalSessionLock, RequestTypeOK
  <2> QED
    BY <1>2, <1>a, <1>b, <2>1
    DEF ReadForTransition, RequestTypeOK, DbTypeOK, dbVars
<1>3. CASE IdempotentHit(t)
  BY <1>3, <1>a, <1>b
  DEF IdempotentHit, RequestTypeOK, DbTypeOK, dbVars, sharedVars
<1>4. CASE ForbiddenTransition(t)
  BY <1>4, <1>c, RaiseType DEF ForbiddenTransition, TypeOK, RequestTypeOK
<1>5. CASE TransitionUpdate(t)
  <2>1. op[t] \in Transitions
    BY <1>5, <1>a DEF TransitionUpdate, RequestTypeOK
  <2>2. WithStatus(v, Target[op[t]], ActorOf[op[t]]) \in Rows
    BY <1>b, <1>d, <2>1, WithStatusType
  <2>3. DbTypeOK' /\ draft' \in Rows
    BY <1>5, <1>a, <2>2, WriteType DEF TransitionUpdate, WriteRow
  <2>4. Columns(draft') \in ColumnSet
    BY <2>3, ColumnsType
  <2>5. RequestTypeOK'
    BY <1>5, <1>a, <1>d, <2>1, <2>4
    DEF TransitionUpdate, RequestTypeOK, Release
  <2> QED BY <2>3, <2>5
<1>6. CASE TransitionLost(t)
  BY <1>6, <1>c, RaiseType DEF TransitionLost, TypeOK, RequestTypeOK
<1>7. CASE SyncRedis(t)
  <2>1. aggStarted' \in BOOLEAN
    BY <1>7, Zenon DEF SyncRedis
  <2>2. cache' \in [status : CacheStatuses, seq : 0..TotalQuestions]
    BY <1>7, <1>a DEF SyncRedis, RequestTypeOK
  <2> QED
    BY <1>7, <1>a, <2>1, <2>2 DEF SyncRedis, RequestTypeOK, DbTypeOK, dbVars
<1>8. CASE CommitRequest(t)
  <2>1. DbTypeOK'
    BY <1>8, <1>a, CommitType DEF CommitRequest
  <2>2. out[t] # "none" => Append(moved, out[t]) \in Seq(Statuses)
    BY <1>a DEF RequestTypeOK
  <2>3. Columns(NewRow) \in ColumnSet
    BY NewRowType, ColumnsType
  <2>4. RequestTypeOK'
    BY <1>8, <1>a, <2>2, <2>3 DEF CommitRequest, Finish, RequestTypeOK
  <2> QED BY <2>1, <2>4
<1>9. CASE ExpirySelect(t)
  BY <1>9, <1>a
  DEF ExpirySelect, RequestTypeOK, DbTypeOK, dbVars, sharedVars
<1>10. CASE ExpiryUpdate(t)
  <2>1. draft \in Rows
    BY <1>a DEF DbTypeOK
  <2>2. DbTypeOK'
    BY <1>10, <1>a, <1>e, <2>1, WithStatusType, WriteType DEF ExpiryUpdate
  <2>3. RequestTypeOK'
    BY <1>10, <1>a, <1>e DEF ExpiryUpdate, RequestTypeOK, sharedVars
  <2> QED BY <2>2, <2>3
<1>11. CASE ExpiryRefused(t)
  BY <1>11, <1>c, RaiseType DEF ExpiryRefused, TypeOK, RequestTypeOK
<1> QED
  BY <1>1, <1>2, <1>3, <1>4, <1>5, <1>6, <1>7, <1>8, <1>9, <1>10, <1>11
  DEF TransitionNext

\* Every step of the exchange coordinator and its helpers keeps the types.
LEMMA ExchangeTypes ==
    ASSUME TypeOK, NEW t \in Txn, ExchangeNext(t)
    PROVE  TypeOK'
<1> DEFINE v == Visible(t)
           ColumnSet ==
               [status : Statuses, version : Nat, seq : 0..TotalQuestions]
<1>a. DbTypeOK /\ RequestTypeOK
  BY TypeParts
<1>b. v \in Rows /\ Columns(v) \in ColumnSet
  BY <1>a, VisibleType, ColumnsType
<1>c. ans[t] \in LockKeys /\ ans[t] \in 0..TotalQuestions
  BY <1>a DEF LockKeys, RequestTypeOK
<1>d. /\ 0 \in 0..MaxRetries - 1
      /\ \A n \in 0..MaxRetries - 1 : n + 1 < MaxRetries => n + 1 \in 0..MaxRetries - 1
  OBVIOUS
<1>f. SUFFICES DbTypeOK' /\ RequestTypeOK'
  BY DEF TypeOK, RequestTypeOK
<1> USE DEF Goto, Steps, TransitionSteps, ExchangeSteps, ProgressSteps
<1>r. ASSUME Retry(t)
      PROVE  DbTypeOK' /\ RequestTypeOK'
  <2>1. CASE tries[t] + 1 < MaxRetries
    <3>1. tries[t] + 1 \in 0..MaxRetries - 1
      BY <2>1, <1>a, <1>d DEF RequestTypeOK
    <3>2. DbTypeOK'
      BY <1>r, <2>1, <1>a DEF Retry, DbTypeOK, dbVars
    <3>3. /\ pc' \in [Txn -> Steps]
          /\ \A u \in Txn : pc'[u] \in TransitionSteps => u # t /\ pc'[u] = pc[u]
      BY <1>r, <2>1, <1>a DEF Retry, RequestTypeOK
    <3>4. tries' \in [Txn -> 0..MaxRetries - 1]
      BY <1>r, <2>1, <3>1, <1>a DEF Retry, RequestTypeOK
    <3>5. RequestTypeOK'
      BY <1>r, <2>1, <3>3, <3>4, <1>a DEF Retry, RequestTypeOK, sharedVars
    <3> QED BY <3>2, <3>5
  <2>2. CASE ~(tries[t] + 1 < MaxRetries)
    BY <1>r, <2>2, <1>c, RaiseType DEF Retry, TypeOK, RequestTypeOK
  <2> QED BY <2>1, <2>2
<1>1. CASE LoadActiveSubmission(t)
  <2>1. Columns(row) \in ColumnSet /\ row.seq + 1 \in 0..TotalQuestions
    BY <1>1, <1>a, ColumnsType DEF LoadActiveSubmission, DbTypeOK, Rows
  <2> QED
    BY <1>1, <1>a, <2>1
    DEF LoadActiveSubmission, RequestTypeOK, DbTypeOK, dbVars, sharedVars
<1>2. CASE ExchangeExists(t)
  BY <1>2, <1>d, <1>a
  DEF ExchangeExists, StartProgress, RequestTypeOK, DbTypeOK, dbVars, sharedVars
<1>3. CASE AcquireExchangeLock(t)
  BY <1>3, <1>a, <1>c
  DEF AcquireExchangeLock, RequestTypeOK, DbTypeOK, dbVars
<1>4. CASE ValidateCreation(t)
  BY <1>4, <1>a
  DEF ValidateCreation, RequestTypeOK, DbTypeOK, dbVars, sharedVars
<1>5. CASE CreationInvalid(t)
  BY <1>5, <1>c, RaiseType DEF CreationInvalid, TypeOK, RequestTypeOK
<1>6. CASE InsertExchange(t)
  <2>1. DbTypeOK'
    BY <1>6, <1>d, <1>a, <1>c DEF InsertExchange, DbTypeOK
  <2>2. RequestTypeOK'
    BY <1>6, <1>d, <1>a DEF InsertExchange, StartProgress, RequestTypeOK, Release
  <2> QED BY <2>1, <2>2
<1>7. CASE InsertDuplicate(t)
  <2>1. DbTypeOK'
    BY <1>7, <1>d, <1>a, RollbackType DEF InsertDuplicate
  <2>2. RequestTypeOK'
    BY <1>7, <1>d, <1>a DEF InsertDuplicate, StartProgress, RequestTypeOK, Release
  <2> QED BY <2>1, <2>2
<1>8. CASE ReadProgress(t)
  <2>1. DbTypeOK'
    BY <1>8, <1>a DEF ReadProgress, DbTypeOK, dbVars
  <2>2. PICK s \in {"auto_check", "cache_get", "advance"} :
              pc' = [pc EXCEPT ![t] = s]
    BY <1>8 DEF ReadProgress, AfterAdvance
  <2>3. tries' \in [Txn -> 0..MaxRetries - 1]
    BY <1>8, <1>a, <1>d DEF ReadProgress, AfterAdvance, RequestTypeOK
  <2>4. /\ pc' \in [Txn -> Steps]
        /\ \A u \in Txn : pc'[u] \in TransitionSteps => u # t /\ pc'[u] = pc[u]
    BY <1>a, <2>2 DEF RequestTypeOK
  <2>5. RequestTypeOK'
    BY <1>8, <1>a, <1>b, <2>3, <2>4 DEF ReadProgress, RequestTypeOK, sharedVars
  <2> QED BY <2>1, <2>5
<1>9. CASE Advance(t)
  <2>0. v.version + 1 \in Nat
    BY <1>b DEF Rows
  <2>1. [v EXCEPT !.seq = ans[t], !.version = @ + 1] \in Rows
    BY <1>b, <1>c, <2>0 DEF Rows
  <2>2. DbTypeOK'
    BY <1>9, <1>a, <2>1, WriteType DEF Advance
  <2>3. RequestTypeOK'
    BY <1>9, <1>a DEF Advance, AfterAdvance, RequestTypeOK, sharedVars
  <2> QED BY <2>2, <2>3
<1>10. CASE AdvanceMiss(t)
  BY <1>10, <1>r DEF AdvanceMiss
<1>11. CASE ReadForAutoComplete(t)
  BY <1>11, <1>a, <1>b
  DEF ReadForAutoComplete, RequestTypeOK, DbTypeOK, dbVars, sharedVars
<1>12. CASE AutoComplete(t)
  <2>1. WithStatus(v, "completed", "system:auto_complete") \in Rows
    BY <1>b, WithStatusType DEF Statuses, Actors
  <2>2. DbTypeOK'
    BY <1>12, <1>a, <2>1, WriteType DEF AutoComplete
  <2>3. RequestTypeOK'
    BY <1>12, <1>a
    DEF AutoComplete, RequestTypeOK, sharedVars, CacheStatuses, Statuses
  <2> QED BY <2>2, <2>3
<1>13. CASE ReadSnapshot(t)
  BY <1>13, <1>a
  DEF ReadSnapshot, RequestTypeOK, DbTypeOK, dbVars, sharedVars
<1>14. CASE WriteSnapshot(t)
  BY <1>14, <1>a, <1>c
  DEF WriteSnapshot, RequestTypeOK, DbTypeOK, dbVars, CacheStatuses, Statuses
<1> QED
  BY <1>1, <1>2, <1>3, <1>4, <1>5, <1>6, <1>7, <1>8, <1>9, <1>10, <1>11, <1>12,
     <1>13, <1>14
  DEF ExchangeNext

\* Failures, crashes and expired keys keep them too.
LEMMA EnvironmentTypes ==
    ASSUME TypeOK, Environment
    PROVE  TypeOK'
<1>a. DbTypeOK /\ RequestTypeOK
  BY TypeParts
<1>1. ASSUME NEW t \in Txn, Fail(t) PROVE TypeOK'
  <2>1. LockKey(t) \in LockKeys
    BY <1>a DEF LockKey, LockKeys, RequestTypeOK
  <2> QED BY <1>1, <2>1, RaiseType DEF Fail
<1>2. ASSUME NEW t \in Txn, Crash(t) PROVE TypeOK'
  <2>1. DbTypeOK'
    BY <1>2, <1>a, RollbackType DEF Crash
  <2>2. Columns(NewRow) \in
            [status : Statuses, version : Nat, seq : 0..TotalQuestions]
    BY NewRowType, ColumnsType
  <2>3. RequestTypeOK'
    BY <1>2, <1>a, <2>2
    DEF Crash, Finish, Goto, RequestTypeOK, Steps, CacheStatuses, TransitionSteps
  <2> QED BY <2>1, <2>3 DEF TypeOK, RequestTypeOK
<1>3. ASSUME NEW k \in LockKeys, LockExpires(k) PROVE TypeOK'
  BY <1>3, <1>a
  DEF LockExpires, TypeOK, RequestTypeOK, DbTypeOK, dbVars, requestVars
<1>4. CASE SnapshotExpires
  BY <1>4, <1>a
  DEF SnapshotExpires, NoCache, CacheStatuses, TypeOK, RequestTypeOK, DbTypeOK,
      dbVars, requestVars
<1> QED BY <1>1, <1>2, <1>3, <1>4 DEF Environment

\* Type correctness of the whole system.
LEMMA TypeNext == TypeOK /\ [Next]_vars => TypeOK'
<1> SUFFICES ASSUME TypeOK, [Next]_vars PROVE TypeOK'
  OBVIOUS
<1>1. CASE UNCHANGED vars
  BY <1>1 DEF vars, dbVars, requestVars, sharedVars, TypeOK, DbTypeOK
<1> QED
  BY <1>1, TransitionTypes, ExchangeTypes, EnvironmentTypes DEF Next

\* Every variable keeps the type the code gives it, and a request that is inside
\* a transition knows which one.
THEOREM TypeCorrect == Spec => []TypeOK
BY TypeInit, TypeNext, PTL DEF Spec

-----------------------------------------------------------------------------
(* The row: a status change that the trigger accepts.                      *)

\* The table the trigger consults holds no transition that the state machine of
\* the application forbids.
LEMMA TablesAgree ==
    ASSUME NEW s \in Statuses, NEW u \in Statuses
    PROVE  <<s, u>> \in DbAllowedTransitions => ValidTransition(s, u)
BY DEF DbAllowedTransitions, ValidTransition, AllowedTransitions, Statuses

\* A write of the status keeps the trail a path, whatever the writer had read.
LEMMA WithStatusPath ==
    ASSUME NEW r \in Rows, NEW s \in Statuses, NEW a \in Actors,
           TrailIsPath(r), TriggerAccepts(r, s)
    PROVE  TrailIsPath(WithStatus(r, s, a))
<1> DEFINE e == [from |-> r.status, to |-> s, actor |-> a]
           n == Len(r.trail)
           w == WithStatus(r, s, a)
<1>1. r.trail \in Seq(AuditEntry) /\ n \in Nat /\ r.status \in Statuses
  BY DEF Rows
<1>2. CASE r.status = s
  BY <1>2 DEF WithStatus, TrailIsPath
<1>3. CASE r.status # s
  <2>1. ValidTransition(r.status, s)
    BY <1>1, <1>3, TablesAgree DEF TriggerAccepts
  <2>2. w.status = s /\ w.trail = Append(r.trail, e)
    BY <1>3 DEF WithStatus
  <2>3. e \in AuditEntry
    BY <1>1 DEF AuditEntry
  <2>4. /\ Len(w.trail) = n + 1
        /\ w.trail[n + 1] = e
        /\ \A i \in 1..n : w.trail[i] = r.trail[i]
    BY <1>1, <2>2, <2>3
  <2>5. n > 0 => r.trail[1].from = "pending" /\ 1 \in 1..n
    BY <1>1 DEF TrailIsPath
  <2>6. w.trail[1].from = "pending"
    BY <1>1, <2>4, <2>5 DEF TrailIsPath
  <2>7. ASSUME NEW i \in 1..n + 1
        PROVE  /\ ValidTransition(w.trail[i].from, w.trail[i].to)
               /\ i > 1 => w.trail[i].from = w.trail[i - 1].to
    <3>1. CASE i = n + 1
      BY <1>1, <2>1, <2>4, <3>1 DEF TrailIsPath
    <3>2. CASE i \in 1..n
      <4>1. i > 1 => i - 1 \in 1..n
        BY <1>1, <3>2
      <4> QED BY <1>1, <2>4, <3>2, <4>1 DEF TrailIsPath
    <3> QED BY <1>1, <3>1, <3>2
  <2> QED BY <1>1, <2>2, <2>4, <2>6, <2>7 DEF TrailIsPath
<1> QED BY <1>2, <1>3

\* So does everything else that is said of a row.
LEMMA WithStatusInv ==
    ASSUME NEW r \in Rows, NEW s \in Statuses, NEW a \in Actors,
           RowInv(r), TriggerAccepts(r, s),
           a = "system:auto_complete" => r.seq = TotalQuestions
    PROVE  RowInv(WithStatus(r, s, a))
<1> DEFINE e == [from |-> r.status, to |-> s, actor |-> a]
           w == WithStatus(r, s, a)
<1>1. /\ r.trail \in Seq(AuditEntry) /\ Len(r.trail) \in Nat
      /\ r.version \in Nat /\ r.seq \in Nat
  BY DEF Rows
<1>2. TrailIsPath(w)
  BY WithStatusPath DEF RowInv
<1>3. /\ w.version = r.version + 1
      /\ w.seq = r.seq
      /\ w.trail = r.trail \/ w.trail = Append(r.trail, e)
  BY DEF WithStatus
<1>4. e \in AuditEntry
  BY DEF AuditEntry, Rows
<1>5. VersionsCount(w)
  BY <1>1, <1>3, <1>4 DEF RowInv, VersionsCount
<1>6. \A i \in DOMAIN w.trail :
          \/ i \in DOMAIN r.trail /\ w.trail[i] = r.trail[i]
          \/ w.trail[i] = e
  BY <1>1, <1>3, <1>4
<1>7. AutoCompletedInFull(w)
  BY <1>3, <1>6 DEF RowInv, AutoCompletedInFull
<1> QED BY <1>2, <1>5, <1>7 DEF RowInv

-----------------------------------------------------------------------------
(* The inductive invariant, one lemma per effect on the database.          *)

\* What a step of one request leaves alone: the places of all the others.
Untouched(t) ==
    \A u \in Txn \ {t} :
        pc'[u] = pc[u] /\ ans'[u] = ans[u] /\ inserting'[u] = inserting[u]

\* A step that does not touch the database.
LEMMA LocalStep ==
    ASSUME CoreInv, TypeOK', NEW t \in Txn, UNCHANGED dbVars, Untouched(t),
           RequestInv(t)', SnapshotAtMostOneAhead'
    PROVE  CoreInv'
<1>1. ASSUME NEW u \in Txn PROVE RequestInv(u)'
  BY DEF CoreInv, dbVars, Untouched, RequestInv, RowLockInv, InsertInv,
         AnswerInv, DraftInv
<1>2. /\ NobodyElseInserts'
      /\ (writer = NoTxn => draft = row)'
      /\ ExchangesContiguous'
      /\ ProgressMatchesExchanges'
      /\ RowInv(row)' /\ RowInv(draft)'
  BY DEF CoreInv, dbVars, NobodyElseInserts, ExchangesContiguous,
         ProgressMatchesExchanges, RowInv, TrailIsPath, VersionsCount,
         AutoCompletedInFull
<1> QED BY <1>1, <1>2 DEF CoreInv

\* A step that writes the row under the row lock.
LEMMA WriteStep ==
    ASSUME CoreInv, TypeOK', NEW t \in Txn, NEW new, WriteRow(t, new),
           Untouched(t), RequestInv(t)', UNCHANGED cache, RowInv(new)
    PROVE  CoreInv'
<1>1. ASSUME NEW u \in Txn \ {t} PROVE RequestInv(u)'
  BY DEF CoreInv, WriteRow, MayWrite, Untouched, RequestInv, RowLockInv,
         InsertInv, AnswerInv, DraftInv
<1>2. /\ NobodyElseInserts'
      /\ (writer = NoTxn => draft = row)'
      /\ ExchangesContiguous'
      /\ ProgressMatchesExchanges'
      /\ SnapshotAtMostOneAhead'
  BY DEF CoreInv, WriteRow, NobodyElseInserts, ExchangesContiguous,
         ProgressMatchesExchanges, SnapshotAtMostOneAhead
<1>3. RowInv(row)' /\ RowInv(draft)'
  BY DEF CoreInv, WriteRow, RowInv, TrailIsPath, VersionsCount,
         AutoCompletedInFull
<1> QED BY <1>1, <1>2, <1>3 DEF CoreInv

\* A step that rolls back.
LEMMA RollbackStep ==
    ASSUME CoreInv, TypeOK', NEW t \in Txn, DbRollback(t), Untouched(t),
           RequestInv(t)', UNCHANGED cache
    PROVE  CoreInv'
<1>1. ASSUME NEW u \in Txn \ {t} PROVE RequestInv(u)'
  BY DEF CoreInv, DbRollback, Untouched, RequestInv, RowLockInv, InsertInv,
         AnswerInv, DraftInv
<1>2. /\ NobodyElseInserts'
      /\ (writer = NoTxn => draft = row)'
      /\ ExchangesContiguous'
      /\ ProgressMatchesExchanges'
      /\ SnapshotAtMostOneAhead'
  BY DEF CoreInv, TypeOK, DbTypeOK, DbRollback, NobodyElseInserts,
         ExchangesContiguous, ProgressMatchesExchanges, SnapshotAtMostOneAhead
<1>3. RowInv(row)' /\ RowInv(draft)'
  BY DEF CoreInv, DbRollback, RowInv, TrailIsPath, VersionsCount,
         AutoCompletedInFull
<1> QED BY <1>1, <1>2, <1>3 DEF CoreInv

\* A request that is over has nothing to keep.
LEMMA FinishedInv ==
    ASSUME TypeOK, TypeOK', NEW t \in Txn, Finish(t), inserting'[t] = 0,
           writer' # t
    PROVE  RequestInv(t)'
BY DEF Finish, Goto, TypeOK, DbTypeOK, RequestInv, RowLockInv, InsertInv,
       AnswerInv, DraftInv, ExchangeSteps, ProgressSteps

\* An exception, or a crash.
LEMMA AbortStep ==
    ASSUME CoreInv, TypeOK', NEW t \in Txn, DbRollback(t), Finish(t),
           UNCHANGED cache
    PROVE  CoreInv'
<1>1. inserting'[t] = 0 /\ writer' # t
  BY DEF CoreInv, TypeOK, DbTypeOK, DbRollback
<1>2. RequestInv(t)'
  BY <1>1, FinishedInv DEF CoreInv
<1>3. Untouched(t)
  BY DEF CoreInv, TypeOK, DbTypeOK, Untouched, DbRollback, Finish, Goto
<1> QED BY <1>2, <1>3, RollbackStep

\* An exception rolls back what the request wrote.
LEMMA RaiseStep ==
    ASSUME CoreInv, TypeOK', NEW t \in Txn, NEW k, Raise(t, k)
    PROVE  CoreInv'
BY AbortStep DEF Raise

\* A commit: the exchange and the sequence advance together, and what the row
\* loses to the draft is nothing.
LEMMA CommitStep ==
    ASSUME CoreInv, TypeOK', NEW t \in Txn, CommitRequest(t)
    PROVE  CoreInv'
<1>0. /\ TypeOK /\ DbTypeOK /\ RequestInv(t) /\ pc[t] = "commit"
      /\ DbCommit(t) /\ Finish(t) /\ cache' = cache
      /\ NobodyElseInserts /\ ExchangesContiguous /\ ProgressMatchesExchanges
  BY DEF CoreInv, TypeOK, CommitRequest
<1>1. /\ Len(exchanges) \in Nat /\ exchanges \in Seq(1..TotalQuestions)
      /\ row \in Rows /\ draft \in Rows
      /\ row.seq \in Nat /\ draft.seq \in Nat /\ inserting[t] \in Nat
      /\ cache.seq \in Nat
  BY <1>0 DEF TypeOK, DbTypeOK, Rows
<1>2. inserting[t] # 0 =>
          /\ inserting[t] = Len(exchanges) + 1
          /\ inserting[t] \in 1..TotalQuestions
          /\ writer = t
          /\ draft.seq = Len(exchanges) + 1
  BY <1>0 DEF RequestInv, InsertInv, DraftInv, DbTypeOK
<1>3. inserting[t] = 0 => exchanges' = exchanges /\ row'.seq = row.seq
  BY <1>0 DEF DbCommit, RequestInv, DraftInv
<1>4. inserting[t] # 0 =>
          /\ exchanges' = Append(exchanges, Len(exchanges) + 1)
          /\ row'.seq = Len(exchanges) + 1
  BY <1>0, <1>2 DEF DbCommit
<1>5. inserting[t] # 0 =>
          /\ Len(exchanges') = Len(exchanges) + 1
          /\ \A i \in 1..Len(exchanges) : exchanges'[i] = exchanges[i]
          /\ exchanges'[Len(exchanges) + 1] = Len(exchanges) + 1
  <2>1. ASSUME NEW n \in 1..TotalQuestions
        PROVE  /\ Len(Append(exchanges, n)) = Len(exchanges) + 1
               /\ \A i \in 1..Len(exchanges) :
                     Append(exchanges, n)[i] = exchanges[i]
               /\ Append(exchanges, n)[Len(exchanges) + 1] = n
    BY <1>1
  <2> QED BY <1>2, <1>4, <2>1
<1>6. ExchangesContiguous' /\ ProgressMatchesExchanges'
  <2>1. CASE inserting[t] = 0
    BY <1>0, <1>3, <2>1 DEF ExchangesContiguous, ProgressMatchesExchanges
  <2>2. CASE inserting[t] # 0
    <3>1. exchanges' \in Seq(1..TotalQuestions)
      BY DEF TypeOK, DbTypeOK
    <3>2. DOMAIN exchanges' = 1..Len(exchanges) + 1
      BY <1>5, <2>2, <3>1
    <3>3. \A i \in 1..Len(exchanges) : exchanges[i] = i
      BY <1>0, <1>1 DEF ExchangesContiguous
    <3>4. ASSUME NEW i \in 1..Len(exchanges) + 1 PROVE exchanges'[i] = i
      <4>1. i \in 1..Len(exchanges) \/ i = Len(exchanges) + 1
        BY <1>1
      <4> QED BY <1>5, <2>2, <3>3, <4>1
    <3> QED
      BY <1>4, <1>5, <2>2, <3>2, <3>4
      DEF ExchangesContiguous, ProgressMatchesExchanges
  <2> QED BY <2>1, <2>2
<1>7. SnapshotAtMostOneAhead'
  <2>1. row.seq <= row'.seq
    BY <1>0, <1>1, <1>3, <1>4 DEF ProgressMatchesExchanges
  <2>2. row'.seq \in Nat
    BY DEF TypeOK, DbTypeOK, Rows
  <2> QED BY <1>0, <1>1, <2>1, <2>2 DEF CoreInv, SnapshotAtMostOneAhead
<1>8. RequestInv(t)'
  <2>1. inserting'[t] = 0 /\ writer' # t
    BY <1>0 DEF DbTypeOK, DbCommit
  <2> QED BY <1>0, <2>1, FinishedInv
<1>9. ASSUME NEW u \in Txn \ {t} PROVE RequestInv(u)'
  <2>1. pc'[u] = pc[u] /\ ans'[u] = ans[u] /\ inserting'[u] = inserting[u]
    BY <1>0 DEF TypeOK, DbTypeOK, Finish, Goto, DbCommit
  <2>2. RequestInv(u)
    BY DEF CoreInv
  <2>3. inserting[u] # 0 => Len(exchanges') = Len(exchanges)
    BY <1>0, <1>3 DEF NobodyElseInserts
  <2>4. /\ Len(exchanges') \in Nat /\ Len(exchanges) <= Len(exchanges')
        /\ ans[u] \in Nat
    <3>1. ans[u] \in 0..TotalQuestions
      BY <1>0 DEF TypeOK
    <3>2. Len(exchanges') = Len(exchanges) \/ Len(exchanges') = Len(exchanges) + 1
      BY <1>3, <1>5
    <3> QED BY <1>1, <3>1, <3>2
  <2>5. writer' = u => writer = u /\ row' = row /\ draft' = draft
    BY <1>0 DEF DbCommit, DbTypeOK
  <2>6. writer = u => writer' = u /\ draft' = draft
    BY <1>0 DEF DbCommit
  <2>7. RowLockInv(u)' /\ DraftInv(u)'
    BY <2>1, <2>2, <2>5, <2>6 DEF RequestInv, RowLockInv, DraftInv
  <2>8. InsertInv(u)'
    BY <2>1, <2>2, <2>3 DEF RequestInv, InsertInv
  <2>9. AnswerInv(u)'
    BY <1>1, <2>1, <2>2, <2>4 DEF RequestInv, AnswerInv
  <2> QED BY <2>7, <2>8, <2>9 DEF RequestInv
<1>10. NobodyElseInserts'
  BY <1>0 DEF NobodyElseInserts, DbCommit, DbTypeOK
<1>11. (writer = NoTxn => draft = row)'
  BY <1>0 DEF CoreInv, DbCommit
<1>12. RowInv(row)' /\ RowInv(draft)'
  <2>1. row' \in {row, draft} /\ draft' = draft
    BY <1>0 DEF DbCommit
  <2> QED
    BY <2>1 DEF CoreInv, RowInv, TrailIsPath, VersionsCount, AutoCompletedInFull
<1> QED
  BY <1>6, <1>7, <1>8, <1>9, <1>10, <1>11, <1>12 DEF CoreInv

\* A request that is inserting nothing and holds no row lock: what the steps
\* before the first write need.
LEMMA NothingYet ==
    ASSUME CoreInv, NEW t \in Txn,
           pc[t] \notin ProgressSteps \cup {"sync", "commit"}
    PROVE  inserting[t] = 0 /\ writer # t /\ Visible(t) = row
BY DEF CoreInv, RequestInv, RowLockInv, InsertInv, ProgressSteps, Visible

\* The steps of SessionService and of the expiry worker.
LEMMA TransitionInv ==
    ASSUME CoreInv, TypeOK', NEW t \in Txn, TransitionNext(t)
    PROVE  CoreInv'
<1>a. /\ TypeOK /\ DbTypeOK /\ RequestInv(t) /\ SnapshotAtMostOneAhead
      /\ RowInv(row) /\ RowInv(draft)
  BY DEF CoreInv, TypeOK
<1>aa. row \in Rows /\ draft \in Rows /\ row.seq \in Nat
  BY <1>a DEF DbTypeOK, Rows
<1>b. \A o \in Transitions :
          /\ Target[o] \in Statuses
          /\ ActorOf[o] \in Actors
          /\ ActorOf[o] # "system:auto_complete"
  BY DEF Target, ActorOf, Transitions, Statuses, Actors
<1> USE DEF ProgressSteps, ExchangeSteps
<1>1. ASSUME UNCHANGED <<dbVars, ans, cache>>, inserting[t] = 0, writer # t,
             NEW s \in {"lock", "update", "sync", "expire"},
             pc' = [pc EXCEPT ![t] = s]
      PROVE  CoreInv'
  <2>1. RequestInv(t)'
    BY <1>a, <1>aa, <1>1
    DEF TypeOK, dbVars, RequestInv, RowLockInv, InsertInv, AnswerInv, DraftInv
  <2>2. Untouched(t)
    BY <1>a, <1>aa, <1>1 DEF TypeOK, dbVars, Untouched
  <2>3. SnapshotAtMostOneAhead'
    BY <1>a, <1>aa, <1>1 DEF dbVars, SnapshotAtMostOneAhead
  <2> QED BY <1>1, <2>1, <2>2, <2>3, LocalStep
<1>2. CASE BeginTransition(t) \/ ReadForTransition(t) \/ IdempotentHit(t)
           \/ ExpirySelect(t)
  <2>1. inserting[t] = 0 /\ writer # t
    BY <1>2, NothingYet
    DEF BeginTransition, ReadForTransition, IdempotentHit, ExpirySelect
  <2> QED
    BY <1>1, <1>2, <2>1
    DEF BeginTransition, ReadForTransition, IdempotentHit, ExpirySelect, Goto,
        sharedVars
<1>3. CASE ForbiddenTransition(t) \/ TransitionLost(t) \/ ExpiryRefused(t)
  BY <1>3, RaiseStep DEF ForbiddenTransition, TransitionLost, ExpiryRefused
<1>4. ASSUME NEW s \in Statuses, NEW a \in Actors, a # "system:auto_complete",
             pc[t] \in {"update", "expire"}, TriggerAccepts(row, s),
             WriteRow(t, WithStatus(row, s, a)), UNCHANGED <<ans, cache>>,
             NEW p \in {"sync", "commit"}, pc' = [pc EXCEPT ![t] = p]
      PROVE  CoreInv'
  <2>1. inserting[t] = 0 /\ writer # t
    BY <1>4, NothingYet
  <2>2. draft'.seq = row'.seq
    BY <1>4 DEF WriteRow, WithStatus
  <2>3. RequestInv(t)'
    BY <1>a, <1>aa, <1>4, <2>1, <2>2
    DEF TypeOK, WriteRow, RequestInv, RowLockInv, InsertInv, AnswerInv, DraftInv
  <2>4. Untouched(t)
    BY <1>a, <1>aa, <1>4 DEF TypeOK, WriteRow, Untouched
  <2>5. RowInv(WithStatus(row, s, a))
    BY <1>a, <1>aa, <1>4, WithStatusInv
  <2> QED BY <1>4, <2>3, <2>4, <2>5, WriteStep
<1>5. CASE TransitionUpdate(t)
  <2>1. op[t] \in Transitions
    BY <1>5, <1>a DEF TransitionUpdate, TypeOK, TransitionSteps
  <2>2. Visible(t) = row
    BY <1>5, NothingYet DEF TransitionUpdate
  <2> QED
    BY <1>b, <1>4, <1>5, <2>1, <2>2 DEF TransitionUpdate, Goto
<1>6. CASE ExpiryUpdate(t)
  <2>1. draft = row
    BY <1>6, NothingYet DEF ExpiryUpdate, MayWrite, CoreInv
  <2>2. "expired" \in Statuses /\ "system:expiry_worker" \in Actors
    BY DEF Statuses, Actors
  <2> QED BY <1>4, <1>6, <2>1, <2>2 DEF ExpiryUpdate, Goto, sharedVars
<1>7. CASE SyncRedis(t)
  <2>1. RequestInv(t)'
    BY <1>a, <1>aa, <1>7
    DEF SyncRedis, Goto, TypeOK, dbVars, RequestInv, RowLockInv, InsertInv,
        AnswerInv, DraftInv
  <2>2. Untouched(t)
    BY <1>a, <1>aa, <1>7 DEF SyncRedis, Goto, TypeOK, dbVars, Untouched
  <2>3. SnapshotAtMostOneAhead'
    BY <1>a, <1>aa, <1>7 DEF SyncRedis, dbVars, SnapshotAtMostOneAhead
  <2> QED BY <1>7, <2>1, <2>2, <2>3, LocalStep DEF SyncRedis
<1>8. CASE CommitRequest(t)
  BY <1>8, CommitStep
<1> QED
  BY <1>2, <1>3, <1>5, <1>6, <1>7, <1>8 DEF TransitionNext

\* The steps of an answer.
LEMMA ExchangeInv ==
    ASSUME CoreInv, TypeOK', NEW t \in Txn, ExchangeNext(t)
    PROVE  CoreInv'
<1> DEFINE v == Visible(t)
           n == Len(exchanges)
<1>a. /\ TypeOK /\ DbTypeOK /\ RequestInv(t) /\ SnapshotAtMostOneAhead
      /\ row \in Rows /\ draft \in Rows /\ RowInv(row) /\ RowInv(draft)
      /\ exchanges \in Seq(1..TotalQuestions) /\ ExchangesContiguous
      /\ row.seq = n /\ n \in Nat /\ ans[t] \in Nat /\ ans[t] <= TotalQuestions
      /\ ans[t] \in 0..TotalQuestions
      /\ v \in Rows /\ RowInv(v) /\ v.seq \in Nat /\ v.version \in Nat
      /\ Len(v.trail) \in Nat
  <2>1. TypeOK /\ DbTypeOK /\ RequestInv(t) /\ SnapshotAtMostOneAhead
        /\ RowInv(row) /\ RowInv(draft) /\ ExchangesContiguous
        /\ ProgressMatchesExchanges
    BY DEF CoreInv, TypeOK
  <2>2. ans[t] \in 0..TotalQuestions
    BY <2>1 DEF TypeOK
  <2>3. row \in Rows /\ draft \in Rows /\ exchanges \in Seq(1..TotalQuestions)
    BY <2>1 DEF DbTypeOK
  <2>4. v \in Rows /\ RowInv(v)
    BY <2>1, VisibleType DEF Visible
  <2>5. v.seq \in Nat /\ v.version \in Nat /\ Len(v.trail) \in Nat
    BY <2>4 DEF Rows
  <2>6. row.seq = n /\ n \in Nat
    BY <2>1, <2>3 DEF ProgressMatchesExchanges
  <2> QED BY <2>1, <2>2, <2>3, <2>4, <2>5, <2>6
<1>b. DOMAIN exchanges = 1..n /\ \A i \in 1..n : exchanges[i] = i
  BY <1>a DEF ExchangesContiguous
<1>c. Exchanges = 1..n
  BY <1>b DEF Exchanges
<1> USE DEF ProgressSteps, ExchangeSteps
\* Steps that only move the request.
<1>1. ASSUME UNCHANGED <<dbVars, ans>>, cache' = cache \/ cache'.seq = ans[t],
             pc[t] \in ExchangeSteps \cup ProgressSteps,
             NEW s, pc' = [pc EXCEPT ![t] = s], RequestInv(t)',
             cache' # cache => pc[t] \in ProgressSteps
      PROVE  CoreInv'
  <2>1. Untouched(t)
    BY <1>a, <1>1 DEF TypeOK, dbVars, Untouched
  <2>2. pc[t] \in ProgressSteps => ans[t] <= n + 1
    BY <1>a DEF RequestInv, AnswerInv, InsertInv
  <2>3. SnapshotAtMostOneAhead'
    BY <1>a, <1>1, <2>2 DEF dbVars, SnapshotAtMostOneAhead
  <2> QED BY <1>1, <2>1, <2>3, LocalStep
<1>2. CASE LoadActiveSubmission(t)
  <2>1. inserting[t] = 0 /\ writer # t
    BY <1>2, NothingYet DEF LoadActiveSubmission
  <2>2. RequestInv(t)'
    BY <1>a, <1>2, <2>1
    DEF LoadActiveSubmission, Goto, TypeOK, dbVars, RequestInv, RowLockInv,
        InsertInv, AnswerInv, DraftInv
  <2>3. Untouched(t)
    BY <1>a, <1>2 DEF LoadActiveSubmission, Goto, TypeOK, dbVars, Untouched
  <2>4. SnapshotAtMostOneAhead'
    BY <1>a, <1>2
    DEF LoadActiveSubmission, dbVars, sharedVars, SnapshotAtMostOneAhead
  <2> QED BY <1>2, <2>2, <2>3, <2>4, LocalStep DEF LoadActiveSubmission
<1>3. CASE ExchangeExists(t)
  <2>1. ans[t] # 0 /\ ans[t] <= n
    BY <1>3, <1>a, <1>c DEF ExchangeExists
  <2>2. RequestInv(t)'
    BY <1>a, <1>3, <2>1
    DEF ExchangeExists, StartProgress, Goto, TypeOK, dbVars, RequestInv,
        RowLockInv, InsertInv, AnswerInv, DraftInv
  <2> QED
    BY <1>1, <1>3, <2>2 DEF ExchangeExists, StartProgress, Goto, sharedVars
<1>4. CASE AcquireExchangeLock(t) \/ ValidateCreation(t)
  <2>1. PICK s \in {"validate", "insert"} : pc' = [pc EXCEPT ![t] = s]
    BY <1>4 DEF AcquireExchangeLock, ValidateCreation, Goto
  <2>2. RequestInv(t)'
    BY <1>a, <1>4, <2>1
    DEF AcquireExchangeLock, ValidateCreation, TypeOK, dbVars, RequestInv,
        RowLockInv, InsertInv, AnswerInv, DraftInv
  <2> QED
    BY <1>1, <1>4, <2>1, <2>2
    DEF AcquireExchangeLock, ValidateCreation, sharedVars
<1>5. CASE CreationInvalid(t)
  BY <1>5, RaiseStep DEF CreationInvalid
<1>6. CASE InsertExchange(t)
  \* The answer is new and contiguous, and the key is free.
  <2>1. inserting[t] = 0 /\ writer # t
    BY <1>6, NothingYet DEF InsertExchange
  <2>2. ans[t] = n + 1
    BY <1>6, <1>a, <1>c DEF InsertExchange, RequestInv, AnswerInv
  <2>3. \A u \in Txn \ {t} : inserting[u] = 0
    BY <1>6, <2>2
    DEF InsertExchange, KeyPending, CoreInv, RequestInv, InsertInv
  <2>4. /\ inserting' = [inserting EXCEPT ![t] = ans[t]]
        /\ pc' = [pc EXCEPT ![t] = "progress"]
        /\ UNCHANGED <<row, draft, writer, exchanges, ans, cache>>
    BY <1>6 DEF InsertExchange, StartProgress, Goto
  <2>5. ASSUME NEW u \in Txn PROVE RequestInv(u)'
    <3>1. CASE u = t
      <4>1. pc'[t] = "progress" /\ ans'[t] = n + 1 /\ inserting'[t] = n + 1
        BY <1>a, <2>2, <2>4 DEF TypeOK, DbTypeOK
      <4> QED
        BY <1>a, <2>1, <2>4, <3>1, <4>1
        DEF RequestInv, RowLockInv, InsertInv, AnswerInv, DraftInv
    <3>2. CASE u # t
      <4>1. pc'[u] = pc[u] /\ inserting'[u] = inserting[u] /\ RequestInv(u)
        BY <1>a, <2>4, <3>2 DEF TypeOK, DbTypeOK, CoreInv
      <4> QED
        BY <2>4, <4>1
        DEF RequestInv, RowLockInv, InsertInv, AnswerInv, DraftInv
    <3> QED BY <3>1, <3>2
  <2>6. NobodyElseInserts'
    BY <1>a, <2>3, <2>4 DEF NobodyElseInserts, DbTypeOK
  <2>7. /\ (writer = NoTxn => draft = row)'
        /\ ExchangesContiguous'
        /\ ProgressMatchesExchanges'
        /\ SnapshotAtMostOneAhead'
        /\ RowInv(row)' /\ RowInv(draft)'
    BY <2>4 DEF CoreInv, ExchangesContiguous, ProgressMatchesExchanges,
       SnapshotAtMostOneAhead, RowInv, TrailIsPath, VersionsCount,
       AutoCompletedInFull
  <2> QED BY <2>5, <2>6, <2>7 DEF CoreInv
<1>7. CASE InsertDuplicate(t)
  <2>1. ans[t] # 0 /\ ans[t] <= n
    BY <1>7, <1>a, <1>c DEF InsertDuplicate
  <2>2. writer # t
    BY <1>7, NothingYet DEF InsertDuplicate
  <2>3. RequestInv(t)'
    BY <1>a, <1>7, <2>1, <2>2
    DEF InsertDuplicate, StartProgress, Goto, DbRollback, TypeOK, DbTypeOK,
        RequestInv, RowLockInv, InsertInv, AnswerInv, DraftInv
  <2>4. Untouched(t)
    BY <1>a, <1>7
    DEF InsertDuplicate, StartProgress, Goto, DbRollback, TypeOK, DbTypeOK,
        Untouched
  <2> QED BY <1>7, <2>3, <2>4, RollbackStep DEF InsertDuplicate
<1>8. CASE ReadProgress(t)
  \* Nothing has been written yet, so the progress read is the committed one.
  <2>1. writer # t /\ v = row
    BY <1>8, <1>a DEF ReadProgress, RequestInv, RowLockInv, Visible
  <2>2. v.seq >= ans[t] <=> inserting[t] = 0
    BY <1>8, <1>a, <2>1
    DEF ReadProgress, RequestInv, AnswerInv, InsertInv
  <2>3. PICK s \in {"advance", "auto_check", "cache_get"} :
            /\ pc' = [pc EXCEPT ![t] = s]
            /\ s = "advance" <=> inserting[t] # 0
            /\ s = "auto_check" => ans[t] >= TotalQuestions
    BY <1>8, <2>2 DEF ReadProgress, AfterAdvance, Goto
  <2>4. RequestInv(t)'
    BY <1>a, <1>8, <2>1, <2>3
    DEF ReadProgress, TypeOK, dbVars, RequestInv, RowLockInv, InsertInv,
        AnswerInv, DraftInv
  <2> QED BY <1>1, <1>8, <2>3, <2>4 DEF ReadProgress, sharedVars
<1>9. CASE Advance(t)
  <2> DEFINE new == [v EXCEPT !.seq = ans[t], !.version = @ + 1]
  <2>1. writer # t /\ v = row /\ inserting[t] # 0
    BY <1>9, <1>a DEF Advance, RequestInv, RowLockInv, AnswerInv, Visible
  <2>2. ans[t] = n + 1
    BY <1>a, <2>1 DEF RequestInv, InsertInv
  <2>3. /\ new.seq = ans[t] /\ new.version = v.version + 1
        /\ new.trail = v.trail /\ new.status = v.status
    BY <1>a DEF Rows
  <2>4. TrailIsPath(new)
    BY <1>a, <2>3 DEF RowInv, TrailIsPath
  <2>5. VersionsCount(new)
    <3>1. v.version >= 1 + Len(v.trail) + v.seq /\ v.seq + 1 = ans[t]
      BY <1>a, <2>1, <2>2 DEF RowInv, VersionsCount
    <3>2. v.version + 1 >= 1 + Len(v.trail) + ans[t]
      BY <1>a, <3>1
    <3> QED BY <2>3, <3>2 DEF VersionsCount
  <2>6. AutoCompletedInFull(new)
    BY <1>a, <2>1, <2>2, <2>3 DEF RowInv, AutoCompletedInFull
  <2>7. WriteRow(t, new) /\ ans' = ans /\ cache' = cache
    BY <1>9 DEF Advance, sharedVars
  <2>8. PICK s \in {"auto_check", "cache_get"} :
            /\ pc' = [pc EXCEPT ![t] = s]
            /\ s = "auto_check" => ans[t] >= TotalQuestions
    BY <1>9 DEF Advance, AfterAdvance, Goto
  <2>9. draft'.seq = ans[t] /\ writer' = t
    BY <2>3, <2>7 DEF WriteRow
  <2>10. RequestInv(t)'
    BY <1>a, <2>1, <2>7, <2>8, <2>9
    DEF WriteRow, TypeOK, RequestInv, RowLockInv, InsertInv, AnswerInv, DraftInv
  <2>11. Untouched(t)
    BY <1>a, <2>7, <2>8 DEF TypeOK, WriteRow, Untouched
  <2> HIDE DEF new
  <2> QED BY <2>4, <2>5, <2>6, <2>7, <2>10, <2>11, WriteStep DEF RowInv
<1>10. CASE AdvanceMiss(t)
  <2>1. CASE tries[t] + 1 < MaxRetries
    <3>1. RequestInv(t)'
      BY <1>a, <1>10, <2>1
      DEF AdvanceMiss, Retry, Goto, TypeOK, dbVars, RequestInv, RowLockInv,
          InsertInv, AnswerInv, DraftInv
    <3> QED
      BY <1>1, <1>10, <2>1, <3>1 DEF AdvanceMiss, Retry, Goto, sharedVars
  <2>2. CASE ~(tries[t] + 1 < MaxRetries)
    BY <1>10, <2>2, RaiseStep DEF AdvanceMiss, Retry
  <2> QED BY <2>1, <2>2
<1>11. CASE ReadForAutoComplete(t)
  <2>1. PICK s \in {"auto_complete", "cache_get"} : pc' = [pc EXCEPT ![t] = s]
    BY <1>11 DEF ReadForAutoComplete, Goto
  <2>2. RequestInv(t)'
    BY <1>a, <1>11, <2>1
    DEF ReadForAutoComplete, TypeOK, dbVars, RequestInv, RowLockInv, InsertInv,
        AnswerInv, DraftInv
  <2> QED BY <1>1, <1>11, <2>1, <2>2 DEF ReadForAutoComplete, sharedVars
<1>12. CASE AutoComplete(t)
  \* Every question is answered, if the open transaction is counted.
  <2> DEFINE new == WithStatus(v, "completed", "system:auto_complete")
  <2>1. ans[t] = TotalQuestions
    BY <1>12, <1>a DEF AutoComplete, RequestInv, AnswerInv
  <2>2. inserting[t] # 0 => writer = t /\ v.seq = ans[t]
    BY <1>12, <1>a DEF AutoComplete, RequestInv, DraftInv, Visible
  <2>3. inserting[t] = 0 => v.seq = n /\ ans[t] <= n
    BY <1>12, <1>a
    DEF AutoComplete, RequestInv, DraftInv, AnswerInv, Visible
  <2>4. v.seq = TotalQuestions
    BY <1>a, <2>1, <2>2, <2>3 DEF DbTypeOK, Rows
  <2>5. TriggerAccepts(v, "completed")
    BY <1>12 DEF AutoComplete, AutoCompleteGuard, TriggerAccepts,
       DbAllowedTransitions
  <2>6. RowInv(new)
    BY <1>a, <2>4, <2>5, WithStatusInv DEF Statuses, Actors
  <2>7. /\ WriteRow(t, new) /\ ans' = ans /\ cache' = cache
        /\ pc' = [pc EXCEPT ![t] = "cache_get"]
    BY <1>12 DEF AutoComplete, Goto, sharedVars
  <2>8. draft'.seq = v.seq /\ writer' = t /\ row' = row /\ inserting' = inserting
    BY <2>7 DEF WriteRow, WithStatus
  <2>9. RequestInv(t)'
    BY <1>a, <1>12, <2>2, <2>3, <2>7, <2>8
    DEF AutoComplete, WriteRow, TypeOK, RequestInv, RowLockInv, InsertInv,
        AnswerInv, DraftInv
  <2>10. Untouched(t)
    BY <1>a, <2>7 DEF TypeOK, WriteRow, Untouched
  <2> HIDE DEF new
  <2> QED BY <2>6, <2>7, <2>9, <2>10, WriteStep
<1>13. CASE ReadSnapshot(t) \/ WriteSnapshot(t)
  <2>1. PICK s \in {"cache_set", "commit"} : pc' = [pc EXCEPT ![t] = s]
    BY <1>13 DEF ReadSnapshot, WriteSnapshot, Goto
  <2>2. RequestInv(t)'
    BY <1>a, <1>13, <2>1
    DEF ReadSnapshot, WriteSnapshot, TypeOK, dbVars, RequestInv, RowLockInv,
        InsertInv, AnswerInv, DraftInv
  <2>3. /\ UNCHANGED <<dbVars, ans>>
        /\ cache' = cache \/ cache'.seq = ans[t]
        /\ pc[t] \in ProgressSteps
    BY <1>13 DEF ReadSnapshot, WriteSnapshot, sharedVars
  <2> QED BY <1>1, <2>1, <2>2, <2>3
<1> QED
  BY <1>2, <1>3, <1>4, <1>5, <1>6, <1>7, <1>8, <1>9, <1>10, <1>11, <1>12, <1>13
  DEF ExchangeNext

\* Failures, crashes and expired keys.
LEMMA EnvironmentInv ==
    ASSUME CoreInv, TypeOK', Environment
    PROVE  CoreInv'
<1>1. ASSUME NEW t \in Txn, Fail(t) \/ Crash(t) PROVE CoreInv'
  BY <1>1, RaiseStep, AbortStep DEF Fail, Crash
<1>2. ASSUME UNCHANGED <<dbVars, pc, ans>>, SnapshotAtMostOneAhead' PROVE CoreInv'
  <2>1. \A t \in Txn : RequestInv(t)'
    BY <1>2 DEF CoreInv, dbVars, RequestInv, RowLockInv, InsertInv, AnswerInv,
       DraftInv
  <2>2. /\ NobodyElseInserts'
        /\ (writer = NoTxn => draft = row)'
        /\ ExchangesContiguous'
        /\ ProgressMatchesExchanges'
        /\ RowInv(row)' /\ RowInv(draft)'
    BY <1>2 DEF CoreInv, dbVars, NobodyElseInserts, ExchangesContiguous,
       ProgressMatchesExchanges, RowInv, TrailIsPath, VersionsCount,
       AutoCompletedInFull
  <2> QED BY <1>2, <2>1, <2>2 DEF CoreInv
<1>3. ASSUME NEW k \in LockKeys, LockExpires(k) PROVE CoreInv'
  BY <1>2, <1>3
  DEF LockExpires, requestVars, dbVars, SnapshotAtMostOneAhead, CoreInv
<1>4. CASE SnapshotExpires
  <2>1. row.seq \in Nat
    BY DEF CoreInv, TypeOK, DbTypeOK, Rows
  <2> QED
    BY <1>2, <1>4, <2>1
    DEF SnapshotExpires, requestVars, dbVars, NoCache, SnapshotAtMostOneAhead
<1> QED BY <1>1, <1>3, <1>4 DEF Environment

\* The initial state satisfies the invariant.
LEMMA InvInit == Init => CoreInv
<1> SUFFICES ASSUME Init PROVE CoreInv
  OBVIOUS
<1>1. TypeOK
  BY TypeInit
<1>2. \A t \in Txn : RequestInv(t)
  BY DEF Init, DbInit, RequestInit, RequestInv, RowLockInv, InsertInv,
     AnswerInv, DraftInv, ExchangeSteps, ProgressSteps
<1>3. RowInv(NewRow)
  BY DEF NewRow, RowInv, TrailIsPath, VersionsCount, AutoCompletedInFull
<1> QED
  BY <1>1, <1>2, <1>3
  DEF CoreInv, Init, DbInit, RequestInit, NewRow, NoCache, NobodyElseInserts,
      ExchangesContiguous, ProgressMatchesExchanges, SnapshotAtMostOneAhead

\* Every step preserves it.
LEMMA InvNext == CoreInv /\ [Next]_vars => CoreInv'
<1> SUFFICES ASSUME CoreInv, [Next]_vars PROVE CoreInv'
  OBVIOUS
<1>1. TypeOK'
  BY TypeNext DEF CoreInv
<1>2. CASE UNCHANGED vars
  BY <1>1, <1>2
  DEF vars, dbVars, requestVars, sharedVars, CoreInv, RequestInv, RowLockInv,
      InsertInv, AnswerInv, DraftInv, NobodyElseInserts, ExchangesContiguous,
      ProgressMatchesExchanges, SnapshotAtMostOneAhead, RowInv, TrailIsPath,
      VersionsCount, AutoCompletedInFull
<1> QED
  BY <1>1, <1>2, TransitionInv, ExchangeInv, EnvironmentInv DEF Next

-----------------------------------------------------------------------------
(* The safety properties, for every reachable state.                       *)

\* Row lock, pending insert, draft and committed data always agree.
THEOREM CoreInvariance == Spec => []CoreInv
BY InvInit, InvNext, PTL DEF Spec

\* Stored answers are numbered without a gap or a repetition.
THEOREM NoGapNoDuplicate == Spec => []ExchangesContiguous
<1>1. CoreInv => ExchangesContiguous
  BY DEF CoreInv
<1> QED BY <1>1, CoreInvariance, PTL

\* current_exchange_sequence counts the stored answers, through every rollback,
\* retry and lost race.
THEOREM ProgressIsExact == Spec => []ProgressMatchesExchanges
<1>1. CoreInv => ProgressMatchesExchanges
  BY DEF CoreInv
<1> QED BY <1>1, CoreInvariance, PTL

\* The audit trail is a complete and permitted path from pending to the status.
THEOREM TrailIsComplete == Spec => []AuditTrailIsComplete
<1>1. CoreInv => AuditTrailIsComplete
  BY DEF CoreInv, RowInv, AuditTrailIsComplete
<1> QED BY <1>1, CoreInvariance, PTL

\* No write of the status or of the progress shares a version number.
THEOREM EveryWriteIsVersioned == Spec => []NoUnversionedWrite
<1>1. CoreInv => NoUnversionedWrite
  BY DEF CoreInv, RowInv, VersionsCount, NoUnversionedWrite
<1> QED BY <1>1, CoreInvariance, PTL

\* The system completes an interview by itself only when all is answered.
THEOREM NoPrematureCompletion == Spec => []AutoCompleteOnlyWhenAnswered
<1>1. CoreInv => AutoCompleteOnlyWhenAnswered
  BY DEF CoreInv, RowInv, AutoCompletedInFull, AutoCompleteOnlyWhenAnswered,
     ProgressMatchesExchanges
<1> QED BY <1>1, CoreInvariance, PTL

\* The Redis snapshot never runs more than one question ahead of the database.
THEOREM SnapshotIsBounded == Spec => []SnapshotAtMostOneAhead
<1>1. CoreInv => SnapshotAtMostOneAhead
  BY DEF CoreInv
<1> QED BY <1>1, CoreInvariance, PTL

-----------------------------------------------------------------------------
(* The moves of the status: the rest of the inductive invariant, one       *)
(* winner per move, the refinement of SubmissionLifecycle, and the safety  *)
(* of the Redis locks.                                                     *)

USE QuestionsAssumption, TxnAssumption, OrphanAssumption

-----------------------------------------------------------------------------
(* Facts about the state machine.                                          *)

\* A transition goes onward, and never back to where the submission has been.
LEMMA OnwardStep ==
    ASSUME NEW s \in Statuses, NEW u \in Statuses, ValidTransition(s, u)
    PROVE  /\ s # u /\ u # "pending"
           /\ u = "in_progress" => s = "pending"
           /\ \A m \in Statuses : s \in Onward[m] => u \in Onward[m] /\ u # m
BY DEF ValidTransition, AllowedTransitions, Onward, Statuses

\* Every status is onward of itself.
LEMMA OnwardSelf == \A s \in Statuses : s \in Onward[s]
BY DEF Onward, Statuses

-----------------------------------------------------------------------------
(* One lemma per effect.                                                   *)

\* What a step of one request leaves alone in the others.
OthersKeep(t) ==
    /\ \A u \in Txn \ {t} :
          /\ pc'[u] = pc[u] /\ op'[u] = op[u] /\ ans'[u] = ans[u]
          /\ seen'[u] = seen[u] /\ out'[u] = out[u]
          /\ inserting'[u] = inserting[u]
          /\ writer' = u <=> writer = u
          /\ writer = u => draft' = draft

\* A step that commits nothing.
LEMMA UncommittedStep ==
    ASSUME IndInv, NEW t \in Txn, OthersKeep(t), UNCHANGED <<row, moved>>,
           MoveInv(t)', ClosingInv(t)'
    PROVE  LifecycleInv'
<1>1. ASSUME NEW u \in Txn \ {t} PROVE MoveInv(u)'
  BY DEF IndInv, LifecycleInv, OthersKeep, MoveInv
<1>2. ASSUME NEW u \in Txn \ {t} PROVE ClosingInv(u)'
  <2>1. ClosingInv(u) /\ RequestInv(u)
    BY DEF IndInv, LifecycleInv, CoreInv
  <2>2. AutoCompleteNeverMisses(u)'
    BY <2>1
    DEF ClosingInv, OthersKeep, AutoCompleteNeverMisses, AutoCompleteGuard,
        Visible
  <2>3. /\ pc[u] \in {"cache_get", "cache_set", "commit"}
        /\ inserting[u] = TotalQuestions
        => writer = u
    BY <2>1 DEF RequestInv, DraftInv
  <2> QED BY <2>1, <2>2, <2>3 DEF ClosingInv, OthersKeep
<1> QED
  BY <1>1, <1>2 DEF IndInv, LifecycleInv, OneWinnerPerMove

\* A request that is over leaves nothing to report.
LEMMA FinishedMoves ==
    ASSUME TypeOK, NEW t \in Txn, Finish(t), inserting'[t] = 0, writer' # t
    PROVE  MoveInv(t)' /\ ClosingInv(t)'
<1>1. pc'[t] = "idle" /\ out'[t] = "none" /\ ans'[t] = 0
  BY DEF Finish, Goto, TypeOK
<1> QED
  BY <1>1 DEF MoveInv, ClosingInv, AutoCompleteNeverMisses

\* What a finished request leaves alone.
LEMMA FinishedOthers ==
    ASSUME TypeOK, NEW t \in Txn, Finish(t)
    PROVE  \A u \in Txn \ {t} :
              /\ pc'[u] = pc[u] /\ op'[u] = op[u] /\ ans'[u] = ans[u]
              /\ seen'[u] = seen[u] /\ out'[u] = out[u]
BY DEF Finish, Goto, TypeOK

\* An exception or a crash.
LEMMA AbortMoves ==
    ASSUME IndInv, NEW t \in Txn, DbRollback(t), Finish(t), moved' = moved
    PROVE  LifecycleInv'
<1>1. TypeOK /\ DbTypeOK
  BY DEF IndInv, CoreInv, TypeOK
<1>2. inserting'[t] = 0 /\ writer' # t
  BY <1>1 DEF DbTypeOK, DbRollback
<1>3. OthersKeep(t)
  BY <1>1, FinishedOthers DEF OthersKeep, DbRollback, DbTypeOK
<1>4. row' = row
  BY DEF DbRollback
<1> QED BY <1>1, <1>2, <1>3, <1>4, FinishedMoves, UncommittedStep

\* Before its first write a request inserts nothing, holds no row lock and has
\* nothing to report.
LEMMA NothingReported ==
    ASSUME IndInv, NEW t \in Txn,
           pc[t] \notin ProgressSteps \cup {"sync", "commit"}
    PROVE  inserting[t] = 0 /\ writer # t /\ Visible(t) = row /\ out[t] = "none"
BY NothingYet DEF IndInv, LifecycleInv, MoveInv

-----------------------------------------------------------------------------
(* The commit.                                                             *)

\* A commit moves the status onward, reports the move once, and closes the
\* interview with the last answer.
LEMMA CommitMoves ==
    ASSUME IndInv, TypeOK', NEW t \in Txn, CommitRequest(t)
    PROVE  LifecycleInv'
<1>0. /\ TypeOK /\ DbTypeOK /\ RequestInv(t) /\ MoveInv(t) /\ ClosingInv(t)
      /\ pc[t] = "commit" /\ DbCommit(t) /\ Finish(t)
      /\ moved' = IF out[t] = "none" THEN moved ELSE Append(moved, out[t])
  BY DEF IndInv, LifecycleInv, CoreInv, TypeOK, CommitRequest
<1>1. /\ row \in Rows /\ draft \in Rows /\ moved \in Seq(Statuses)
      /\ row.status \in Statuses /\ draft.status \in Statuses
      /\ "none" \notin Statuses
  BY <1>0 DEF TypeOK, DbTypeOK, Rows, Statuses
<1>2. MoveInv(t)' /\ ClosingInv(t)'
  <2>1. inserting'[t] = 0 /\ writer' # t
    BY <1>0 DEF DbTypeOK, DbCommit
  <2> QED BY <1>0, <2>1, FinishedMoves
<1>3. CASE writer # t
  <2>1. inserting[t] = 0 /\ out[t] = "none"
    BY <1>0, <1>3 DEF RequestInv, DraftInv, MoveInv
  <2>2. UNCHANGED <<row, moved, writer, draft>>
    BY <1>0, <1>3, <2>1 DEF DbCommit
  <2>3. OthersKeep(t)
    BY <1>0, <2>2, FinishedOthers DEF OthersKeep, DbCommit, DbTypeOK
  <2> QED BY <1>2, <2>2, <2>3, UncommittedStep
<1>4. CASE writer = t
  <2>1. row' = draft /\ writer' = NoTxn /\ draft' = draft
    BY <1>0, <1>4 DEF DbCommit
  <2>2. \/ draft.status = row.status /\ out[t] \in {"none", "expired"}
        \/ ValidTransition(row.status, draft.status) /\ out[t] = draft.status
    BY <1>0, <1>4 DEF MoveInv
  <2>3. /\ row.status # "pending" => draft.status # "pending"
        /\ row.status \notin {"pending", "in_progress"} =>
              draft.status \notin {"pending", "in_progress"}
    BY <1>1, <2>2, OnwardStep
  <2>4. ASSUME NEW u \in Txn \ {t} PROVE MoveInv(u)' /\ ClosingInv(u)'
    <3>1. /\ pc'[u] = pc[u] /\ op'[u] = op[u] /\ ans'[u] = ans[u]
          /\ seen'[u] = seen[u] /\ out'[u] = out[u]
          /\ inserting'[u] = inserting[u]
      BY <1>0, FinishedOthers DEF DbCommit, DbTypeOK
    <3>2. MoveInv(u) /\ ClosingInv(u) /\ RequestInv(u)
      BY DEF IndInv, CoreInv, LifecycleInv
    <3>3. out[u] = "none" /\ pc[u] # "auto_complete"
      BY <1>4, <3>2 DEF MoveInv, ClosingInv, AutoCompleteNeverMisses
    <3>4. MoveInv(u)'
      BY <2>1, <3>1, <3>2, <3>3 DEF MoveInv
    <3>5. ~(/\ pc[u] \in {"cache_get", "cache_set", "commit"}
            /\ inserting[u] = TotalQuestions)
      BY <1>4, <3>2 DEF RequestInv, DraftInv
    <3>6. ClosingInv(u)'
      BY <2>1, <2>3, <3>1, <3>2, <3>3, <3>5
      DEF ClosingInv, AutoCompleteNeverMisses
    <3> QED BY <3>4, <3>6
  <2>5. row'.seq = TotalQuestions => row'.status \notin {"pending", "in_progress"}
    <3>1. CASE inserting[t] = 0
      BY <1>0, <1>4, <2>1, <2>3, <3>1
      DEF IndInv, LifecycleInv, RequestInv, DraftInv
    <3>2. CASE inserting[t] # 0
      <4>1. draft.seq = inserting[t] /\ ans[t] # 0
        BY <1>0, <3>2 DEF RequestInv, DraftInv, InsertInv
      <4> QED BY <1>0, <2>1, <2>3, <4>1 DEF ClosingInv
    <3> QED BY <3>1, <3>2
  <2>6. \A i \in DOMAIN moved :
           /\ draft.status \in Onward[moved[i]]
           /\ out[t] # "none" /\ moved[i] = out[t] => out[t] = "expired"
    <3>1. ASSUME NEW i \in DOMAIN moved
          PROVE  row.status \in Onward[moved[i]] /\ moved[i] \in Statuses
      BY <1>1 DEF IndInv, LifecycleInv
    <3> QED BY <1>1, <2>2, <3>1, OnwardStep
  <2>7. CASE out[t] = "none"
    <3>1. moved' = moved
      BY <1>0, <2>7
    <3> QED
      BY <1>2, <2>1, <2>4, <2>5, <2>6, <3>1
      DEF IndInv, LifecycleInv, OneWinnerPerMove
  <2>8. CASE out[t] # "none"
    <3> DEFINE n == Len(moved)
    <3>1. out[t] = draft.status
      BY <1>0, <2>8 DEF MoveInv
    <3>2. moved' = Append(moved, out[t]) /\ n \in Nat
      BY <1>0, <1>1, <2>8
    <3>3. /\ DOMAIN moved' = 1..n + 1
          /\ moved'[n + 1] = out[t]
          /\ \A i \in 1..n : i \in DOMAIN moved /\ moved'[i] = moved[i]
      BY <1>1, <3>1, <3>2
    <3>4. \A i \in DOMAIN moved' : i \in 1..n \/ i = n + 1
      BY <3>2, <3>3
    <3>5. \A i \in DOMAIN moved' : row'.status \in Onward[moved'[i]]
      BY <1>1, <2>1, <2>6, <3>1, <3>3, <3>4, OnwardSelf
    <3>6. OneWinnerPerMove'
      <4>1. OneWinnerPerMove
        BY DEF IndInv, LifecycleInv
      <4>2. ASSUME NEW i \in DOMAIN moved', NEW j \in DOMAIN moved', i # j,
                   moved'[i] = moved'[j]
            PROVE  moved'[i] = "expired"
        <5>1. CASE i \in 1..n /\ j \in 1..n
          BY <3>3, <4>1, <4>2, <5>1 DEF OneWinnerPerMove
        <5>2. CASE i = n + 1 /\ j \in 1..n
          BY <2>6, <2>8, <3>3, <4>2, <5>2
        <5>3. CASE i \in 1..n /\ j = n + 1
          BY <2>6, <2>8, <3>3, <4>2, <5>3
        <5> QED BY <3>4, <4>2, <5>1, <5>2, <5>3
      <4> QED BY <4>2 DEF OneWinnerPerMove
    <3> QED BY <1>2, <2>4, <2>5, <3>5, <3>6 DEF LifecycleInv
  <2> QED BY <2>7, <2>8
<1> QED BY <1>3, <1>4

-----------------------------------------------------------------------------
(* The steps of every request.                                             *)

\* The steps of SessionService and of the expiry worker.
LEMMA TransitionMoves ==
    ASSUME IndInv, TypeOK', NEW t \in Txn, TransitionNext(t)
    PROVE  LifecycleInv'
<1>a. /\ TypeOK /\ DbTypeOK /\ RequestInv(t) /\ MoveInv(t) /\ ClosingInv(t)
      /\ row \in Rows /\ draft \in Rows /\ row.status \in Statuses
      /\ writer = NoTxn => draft = row
  BY DEF IndInv, CoreInv, LifecycleInv, TypeOK, DbTypeOK, Rows
<1> USE DEF ProgressSteps, Goto
\* Before the UPDATE: the database is not touched.
<1>1. ASSUME UNCHANGED <<dbVars, ans, out, moved>>, inserting[t] = 0,
             writer # t, out[t] = "none",
             NEW s \in {"lock", "update", "sync", "expire"},
             pc' = [pc EXCEPT ![t] = s],
             s = "update" => ValidTransition(seen'[t].status, Target[op'[t]]),
             \A u \in Txn \ {t} : op'[u] = op[u] /\ seen'[u] = seen[u]
      PROVE  LifecycleInv'
  <2>1. OthersKeep(t)
    BY <1>a, <1>1 DEF OthersKeep, TypeOK, dbVars
  <2>2. MoveInv(t)' /\ ClosingInv(t)'
    BY <1>a, <1>1
    DEF TypeOK, dbVars, MoveInv, ClosingInv, AutoCompleteNeverMisses
  <2> QED BY <1>1, <2>1, <2>2, UncommittedStep DEF dbVars
<1>2. CASE BeginTransition(t) \/ IdempotentHit(t) \/ ExpirySelect(t)
  <2>1. inserting[t] = 0 /\ writer # t /\ out[t] = "none"
    BY <1>2, NothingReported DEF BeginTransition, IdempotentHit, ExpirySelect
  <2>2. \A u \in Txn \ {t} : op'[u] = op[u] /\ seen'[u] = seen[u]
    BY <1>2, <1>a
    DEF BeginTransition, IdempotentHit, ExpirySelect, TypeOK
  <2> QED
    BY <1>1, <1>2, <2>1, <2>2
    DEF BeginTransition, IdempotentHit, ExpirySelect, sharedVars
<1>3. CASE ReadForTransition(t)
  <2>1. inserting[t] = 0 /\ writer # t /\ out[t] = "none" /\ Visible(t) = row
    BY <1>3, NothingReported DEF ReadForTransition
  <2>2. /\ seen'[t].status = row.status
        /\ \A u \in Txn \ {t} : op'[u] = op[u] /\ seen'[u] = seen[u]
    BY <1>3, <1>a, <2>1 DEF ReadForTransition, TypeOK, Columns
  <2>3. ValidTransition(seen'[t].status, Target[op'[t]])
    BY <1>3, <2>1, <2>2 DEF ReadForTransition
  <2> QED BY <1>1, <1>3, <2>1, <2>2, <2>3 DEF ReadForTransition
<1>4. CASE ForbiddenTransition(t) \/ TransitionLost(t) \/ ExpiryRefused(t)
  BY <1>4, AbortMoves
  DEF ForbiddenTransition, TransitionLost, ExpiryRefused, Raise
\* The UPDATE of a status.
<1>5. ASSUME NEW s \in Statuses, NEW a, WriteRow(t, WithStatus(row, s, a)),
             \/ row.status = s /\ s = "expired"
             \/ ValidTransition(row.status, s),
             inserting[t] = 0, out' = [out EXCEPT ![t] = s],
             UNCHANGED <<op, ans, moved>>,
             \A u \in Txn \ {t} : seen'[u] = seen[u],
             NEW p \in {"sync", "commit"}, pc' = [pc EXCEPT ![t] = p]
      PROVE  LifecycleInv'
  <2>1. /\ row' = row /\ writer' = t /\ inserting' = inserting
        /\ draft'.status = s /\ writer \in {t, NoTxn}
    BY <1>5 DEF WriteRow, WithStatus, MayWrite
  <2>2. OthersKeep(t)
    BY <1>a, <1>5, <2>1 DEF OthersKeep, TypeOK
  <2>3. MoveInv(t)' /\ ClosingInv(t)'
    BY <1>a, <1>5, <2>1
    DEF TypeOK, MoveInv, ClosingInv, AutoCompleteNeverMisses
  <2> QED BY <1>5, <2>1, <2>2, <2>3, UncommittedStep
<1>6. CASE TransitionUpdate(t)
  <2>1. /\ inserting[t] = 0 /\ writer # t /\ Visible(t) = row
        /\ op[t] \in Transitions /\ Target[op[t]] \in Statuses
    BY <1>6, <1>a, NothingReported
    DEF TransitionUpdate, TypeOK, TransitionSteps, Target, Transitions, Statuses
  <2>2. ValidTransition(row.status, Target[op[t]])
    BY <1>6, <1>a, <2>1 DEF TransitionUpdate, StillAsRead, MoveInv
  <2>3. \A u \in Txn \ {t} : seen'[u] = seen[u]
    BY <1>6, <1>a DEF TransitionUpdate, TypeOK
  <2> QED BY <1>5, <1>6, <2>1, <2>2, <2>3 DEF TransitionUpdate
<1>7. CASE ExpiryUpdate(t)
  <2>1. inserting[t] = 0 /\ draft = row /\ "expired" \in Statuses
    BY <1>7, <1>a, NothingReported DEF ExpiryUpdate, MayWrite, Statuses
  <2>2. row.status = "expired" \/ ValidTransition(row.status, "expired")
    BY <1>7, <1>a, <2>1, TablesAgree DEF ExpiryUpdate, TriggerAccepts
  <2> QED BY <1>5, <1>7, <2>1, <2>2 DEF ExpiryUpdate, sharedVars
<1>8. CASE SyncRedis(t)
  <2>1. inserting[t] = 0 /\ UNCHANGED <<dbVars, op, ans, seen, out, moved>>
    BY <1>8, <1>a DEF SyncRedis, RequestInv, InsertInv
  <2>2. pc' = [pc EXCEPT ![t] = "commit"]
    BY <1>8 DEF SyncRedis
  <2>3. OthersKeep(t)
    BY <1>a, <2>1, <2>2 DEF OthersKeep, TypeOK, dbVars
  <2>4. MoveInv(t)' /\ ClosingInv(t)'
    BY <1>a, <2>1, <2>2
    DEF TypeOK, dbVars, MoveInv, ClosingInv, AutoCompleteNeverMisses
  <2> QED BY <2>1, <2>3, <2>4, UncommittedStep DEF dbVars
<1>9. CASE CommitRequest(t)
  BY <1>9, CommitMoves
<1> QED
  BY <1>2, <1>3, <1>4, <1>6, <1>7, <1>8, <1>9 DEF TransitionNext

\* The steps of an answer.
LEMMA ExchangeMoves ==
    ASSUME IndInv, TypeOK', NEW t \in Txn, ExchangeNext(t)
    PROVE  LifecycleInv'
<1> DEFINE v == Visible(t)
<1>a. /\ TypeOK /\ DbTypeOK /\ RequestInv(t) /\ MoveInv(t) /\ ClosingInv(t)
      /\ row \in Rows /\ draft \in Rows
      /\ row.status \in Statuses /\ draft.status \in Statuses
      /\ "none" \notin Statuses /\ row.seq \in 0..TotalQuestions
      /\ row.seq = Len(exchanges) /\ ans[t] \in 0..TotalQuestions
      /\ exchanges \in Seq(1..TotalQuestions)
      /\ ExchangesContiguous
  <2>1. TypeOK /\ DbTypeOK
    BY DEF IndInv, CoreInv, TypeOK
  <2>2. row \in Rows /\ draft \in Rows /\ ans[t] \in 0..TotalQuestions
    BY <2>1 DEF TypeOK, DbTypeOK
  <2> QED
    BY <2>1, <2>2
    DEF IndInv, CoreInv, LifecycleInv, DbTypeOK, Rows, Statuses,
        ProgressMatchesExchanges
<1> USE DEF ProgressSteps, ExchangeSteps, Goto
\* Steps that do not touch the database.
<1>1. ASSUME UNCHANGED <<dbVars, op, out, moved>>, NEW s,
             pc' = [pc EXCEPT ![t] = s], s # "update",
             \A u \in Txn \ {t} : seen'[u] = seen[u] /\ ans'[u] = ans[u],
             ClosingInv(t)'
      PROVE  LifecycleInv'
  <2>1. OthersKeep(t)
    BY <1>a, <1>1 DEF OthersKeep, TypeOK, dbVars
  <2>2. MoveInv(t)'
    BY <1>a, <1>1 DEF TypeOK, dbVars, MoveInv
  <2> QED BY <1>1, <2>1, <2>2, UncommittedStep DEF dbVars
<1>2. CASE LoadActiveSubmission(t)
  <2>1. inserting[t] = 0
    BY <1>2, NothingReported DEF LoadActiveSubmission
  <2>2. ClosingInv(t)'
    BY <1>2, <1>a, <2>1
    DEF LoadActiveSubmission, TypeOK, dbVars, ClosingInv,
        AutoCompleteNeverMisses
  <2>3. \A u \in Txn \ {t} : seen'[u] = seen[u] /\ ans'[u] = ans[u]
    BY <1>2, <1>a DEF LoadActiveSubmission, TypeOK
  <2> QED BY <1>1, <1>2, <2>2, <2>3 DEF LoadActiveSubmission, sharedVars
<1>3. CASE ExchangeExists(t) \/ AcquireExchangeLock(t) \/ ValidateCreation(t)
  <2>1. PICK s \in {"progress", "validate", "insert"} :
            pc' = [pc EXCEPT ![t] = s]
    BY <1>3
    DEF ExchangeExists, StartProgress, AcquireExchangeLock, ValidateCreation
  <2>2. UNCHANGED <<dbVars, op, ans, seen, out, moved>>
    BY <1>3
    DEF ExchangeExists, AcquireExchangeLock, ValidateCreation, sharedVars
  <2>3. ClosingInv(t)'
    BY <1>a, <2>1, <2>2
    DEF TypeOK, dbVars, ClosingInv, AutoCompleteNeverMisses
  <2> QED BY <1>1, <2>1, <2>2, <2>3
<1>4. CASE CreationInvalid(t)
  BY <1>4, AbortMoves DEF CreationInvalid, Raise
<1>5. CASE InsertExchange(t) \/ InsertDuplicate(t)
  <2>1. inserting[t] = 0 /\ writer # t /\ out[t] = "none"
    BY <1>5, NothingReported DEF InsertExchange, InsertDuplicate
  <2>2. /\ pc' = [pc EXCEPT ![t] = "progress"]
        /\ UNCHANGED <<row, draft, writer, op, ans, seen, out, moved>>
        /\ \A u \in Txn \ {t} : inserting'[u] = inserting[u]
    BY <1>5, <1>a, <2>1
    DEF InsertExchange, InsertDuplicate, StartProgress, DbRollback, DbTypeOK
  <2>3. OthersKeep(t)
    BY <1>a, <2>2 DEF OthersKeep, TypeOK
  <2>4. MoveInv(t)' /\ ClosingInv(t)'
    BY <1>a, <2>1, <2>2
    DEF TypeOK, MoveInv, ClosingInv, AutoCompleteNeverMisses
  <2> QED BY <2>2, <2>3, <2>4, UncommittedStep
<1>6. CASE ReadProgress(t)
  <2>1. writer # t /\ v = row
    BY <1>6, <1>a DEF ReadProgress, RequestInv, RowLockInv, Visible
  <2>2. inserting[t] # 0 => v.seq < ans[t]
    BY <1>6, <1>a, <2>1 DEF ReadProgress, RequestInv, InsertInv
  <2>3. PICK s \in {"advance", "auto_check", "cache_get"} :
            pc' = [pc EXCEPT ![t] = s] /\ (inserting[t] # 0 => s = "advance")
    BY <1>6, <1>a, <2>1, <2>2 DEF ReadProgress, AfterAdvance
  <2>4. UNCHANGED <<dbVars, op, ans, out, moved>>
        /\ \A u \in Txn \ {t} : seen'[u] = seen[u]
    BY <1>6, <1>a DEF ReadProgress, sharedVars, TypeOK
  <2>5. ClosingInv(t)'
    BY <1>a, <2>3, <2>4
    DEF TypeOK, dbVars, ClosingInv, AutoCompleteNeverMisses
  <2> QED BY <1>1, <2>3, <2>4, <2>5
<1>7. CASE Advance(t)
  <2>1. writer # t /\ v = row /\ out[t] = "none" /\ inserting[t] = ans[t]
    BY <1>7, <1>a
    DEF Advance, RequestInv, RowLockInv, AnswerInv, InsertInv, MoveInv, Visible
  <2>2. /\ UNCHANGED <<row, inserting, op, ans, seen, out, moved>>
        /\ writer' = t /\ writer \in {t, NoTxn}
        /\ draft'.status = row.status
    BY <1>7, <1>a, <2>1 DEF Advance, WriteRow, MayWrite, sharedVars, Rows
  <2>3. PICK s \in {"auto_check", "cache_get"} :
            /\ pc' = [pc EXCEPT ![t] = s]
            /\ s = "cache_get" => ans[t] # TotalQuestions
    <3>1. CASE ans[t] >= TotalQuestions
      BY <1>7, <3>1 DEF Advance, AfterAdvance
    <3>2. CASE ~(ans[t] >= TotalQuestions)
      <4>1. ans[t] # TotalQuestions
        BY <1>a, <3>2
      <4> QED BY <1>7, <3>2, <4>1 DEF Advance, AfterAdvance
    <3> QED BY <3>1, <3>2
  <2>4. OthersKeep(t)
    BY <1>a, <2>2, <2>3 DEF OthersKeep, TypeOK
  <2>5. MoveInv(t)' /\ ClosingInv(t)'
    BY <1>a, <2>1, <2>2, <2>3
    DEF TypeOK, MoveInv, ClosingInv, AutoCompleteNeverMisses
  <2> QED BY <2>2, <2>4, <2>5, UncommittedStep
<1>8. CASE AdvanceMiss(t)
  <2>1. CASE tries[t] + 1 < MaxRetries
    <3>1. /\ UNCHANGED <<dbVars, op, ans, seen, out, moved>>
          /\ pc' = [pc EXCEPT ![t] = "progress"]
      BY <1>8, <2>1 DEF AdvanceMiss, Retry, sharedVars
    <3>2. ClosingInv(t)'
      BY <1>a, <3>1 DEF TypeOK, dbVars, ClosingInv, AutoCompleteNeverMisses
    <3> QED BY <1>1, <3>1, <3>2
  <2>2. CASE ~(tries[t] + 1 < MaxRetries)
    BY <1>8, <2>2, AbortMoves DEF AdvanceMiss, Retry, Raise
  <2> QED BY <2>1, <2>2
<1>9. CASE ReadForAutoComplete(t)
  <2>1. /\ UNCHANGED <<dbVars, op, ans, out, moved>>
        /\ \A u \in Txn \ {t} : seen'[u] = seen[u]
        /\ seen'[t] = Columns(v)
        /\ pc' = [pc EXCEPT ![t] = IF v.status = "in_progress"
                                   THEN "auto_complete" ELSE "cache_get"]
    BY <1>9, <1>a DEF ReadForAutoComplete, sharedVars, TypeOK
  <2>2. ans[t] = TotalQuestions
    BY <1>9, <1>a DEF ReadForAutoComplete, RequestInv, AnswerInv
  <2>3. inserting[t] # 0 => writer = t /\ v = draft
    BY <1>9, <1>a DEF ReadForAutoComplete, RequestInv, DraftInv, Visible
  \* An answer that inserts nothing finds the interview closed.
  <2>4. inserting[t] = 0 => v.status # "in_progress"
    <3>1. SUFFICES ASSUME inserting[t] = 0 PROVE v.status # "in_progress"
      OBVIOUS
    <3>2. row.seq = TotalQuestions
      BY <1>9, <1>a, <2>2, <3>1 DEF ReadForAutoComplete, RequestInv, AnswerInv
    <3>3. row.status \notin {"pending", "in_progress"}
      BY <3>2 DEF IndInv, LifecycleInv
    <3>4. writer = t => draft.status # "in_progress"
      BY <1>a, <3>3, OnwardStep DEF MoveInv
    <3> QED BY <3>3, <3>4 DEF Visible
  <2>5. v.status = "in_progress" =>
            writer = t /\ inserting[t] # 0 /\ v = draft /\ out[t] = "none"
    BY <1>a, <2>3, <2>4 DEF MoveInv
  <2>6. ClosingInv(t)'
    <3>1. CASE v.status = "in_progress"
      <4>1. pc'[t] = "auto_complete" /\ writer' = t /\ draft' = draft
        BY <1>a, <2>1, <2>5, <3>1 DEF TypeOK, dbVars
      <4>2. AutoCompleteGuard(t)'
        BY <2>1, <2>5, <3>1, <4>1 DEF AutoCompleteGuard, Visible, Columns
      <4> QED
        BY <1>a, <2>1, <2>5, <3>1, <4>1, <4>2
        DEF ClosingInv, AutoCompleteNeverMisses, dbVars
    <3>2. CASE v.status # "in_progress"
      BY <1>a, <2>1, <2>3, <3>2
      DEF TypeOK, dbVars, ClosingInv, AutoCompleteNeverMisses
    <3> QED BY <3>1, <3>2
  <2>7. PICK s \in {"auto_complete", "cache_get"} : pc' = [pc EXCEPT ![t] = s]
    BY <2>1
  <2> QED BY <1>1, <2>1, <2>6, <2>7
<1>10. CASE AutoComplete(t)
  <2>1. /\ writer = t /\ inserting[t] # 0 /\ out[t] = "none" /\ v = draft
        /\ draft.status = "in_progress"
    BY <1>10, <1>a
    DEF AutoComplete, ClosingInv, AutoCompleteNeverMisses, AutoCompleteGuard,
        Visible
  <2>2. row.status = "in_progress"
    BY <1>a, <2>1 DEF MoveInv
  <2>3. inserting[t] = TotalQuestions
    BY <1>10, <1>a, <2>1 DEF AutoComplete, RequestInv, AnswerInv, InsertInv
  <2>4. /\ UNCHANGED <<row, inserting, op, ans, seen, moved>>
        /\ writer' = t /\ draft'.status = "completed"
        /\ out' = [out EXCEPT ![t] = "completed"]
        /\ pc' = [pc EXCEPT ![t] = "cache_get"]
    BY <1>10, <2>1 DEF AutoComplete, WriteRow, WithStatus, sharedVars
  <2>5. ValidTransition("in_progress", "completed")
    BY DEF ValidTransition, AllowedTransitions, Statuses
  <2>6. OthersKeep(t)
    BY <1>a, <2>1, <2>4 DEF OthersKeep, TypeOK
  <2>7. MoveInv(t)' /\ ClosingInv(t)'
    BY <1>a, <2>2, <2>3, <2>4, <2>5
    DEF TypeOK, MoveInv, ClosingInv, AutoCompleteNeverMisses
  <2> QED BY <2>4, <2>6, <2>7, UncommittedStep
<1>11. CASE ReadSnapshot(t) \/ WriteSnapshot(t)
  <2>1. PICK s \in {"cache_set", "commit"} : pc' = [pc EXCEPT ![t] = s]
    BY <1>11 DEF ReadSnapshot, WriteSnapshot
  <2>2. /\ UNCHANGED <<dbVars, op, ans, seen, out, moved>>
        /\ pc[t] \in {"cache_get", "cache_set"}
    BY <1>11 DEF ReadSnapshot, WriteSnapshot, sharedVars
  <2>3. ClosingInv(t)'
    BY <1>a, <2>1, <2>2
    DEF TypeOK, dbVars, ClosingInv, AutoCompleteNeverMisses
  <2> QED BY <1>1, <2>1, <2>2, <2>3
<1> QED
  BY <1>2, <1>3, <1>4, <1>5, <1>6, <1>7, <1>8, <1>9, <1>10, <1>11
  DEF ExchangeNext

\* Failures, crashes and expired keys.
LEMMA EnvironmentMoves ==
    ASSUME IndInv, Environment
    PROVE  LifecycleInv'
<1>1. ASSUME NEW t \in Txn, Fail(t) \/ Crash(t) PROVE LifecycleInv'
  BY <1>1, AbortMoves DEF Fail, Crash, Raise
<1>2. ASSUME UNCHANGED <<dbVars, requestVars, moved>> PROVE LifecycleInv'
  BY <1>2
  DEF IndInv, LifecycleInv, dbVars, requestVars, MoveInv, ClosingInv,
      AutoCompleteNeverMisses, AutoCompleteGuard, Visible, OneWinnerPerMove
<1> QED
  BY <1>1, <1>2 DEF Environment, LockExpires, SnapshotExpires

\* Initially nothing has moved.
LEMMA LifecycleInit == Init => LifecycleInv
BY DEF Init, DbInit, RequestInit, NewRow, LifecycleInv, MoveInv, ClosingInv,
       AutoCompleteNeverMisses, OneWinnerPerMove

\* Every step preserves the whole invariant.
LEMMA IndNext == IndInv /\ [Next]_vars => IndInv'
<1> SUFFICES ASSUME IndInv, [Next]_vars PROVE IndInv'
  OBVIOUS
<1>1. CoreInv' /\ TypeOK'
  BY InvNext DEF IndInv, CoreInv
<1>2. CASE UNCHANGED vars
  <2>1. LifecycleInv'
    BY <1>2
    DEF vars, dbVars, requestVars, sharedVars, IndInv, LifecycleInv, MoveInv,
        ClosingInv, AutoCompleteNeverMisses, AutoCompleteGuard, Visible,
        OneWinnerPerMove
  <2> QED BY <1>1, <2>1 DEF IndInv
<1>3. CASE Next
  <2>1. LifecycleInv'
    BY <1>1, <1>3, TransitionMoves, ExchangeMoves, EnvironmentMoves DEF Next
  <2> QED BY <1>1, <2>1 DEF IndInv
<1> QED BY <1>2, <1>3

-----------------------------------------------------------------------------
(* The theorems.                                                           *)

\* The inductive invariant holds of every reachable state.
THEOREM Invariance == Spec => []IndInv
<1>1. Init => IndInv
  BY InvInit, LifecycleInit DEF IndInv
<1> QED BY <1>1, IndNext, PTL DEF Spec

\* Of the requests that race for a move of the status, at most one reports that
\* it made it; only the bulk expiry may report a submission again.
THEOREM OneWinner == Spec => []OneWinnerPerMove
<1>1. IndInv => OneWinnerPerMove
  BY DEF IndInv, LifecycleInv
<1> QED BY <1>1, Invariance, PTL

-----------------------------------------------------------------------------
(* Refinement.                                                             *)

\* What a commit does to the committed data is a step of the lifecycle.
LEMMA CommitImplements ==
    ASSUME IndInv, TypeOK', NEW t \in Txn, CommitRequest(t)
    PROVE  Lifecycle!Next \/ UNCHANGED <<row.status, row.seq>>
<1>1. /\ DbTypeOK /\ RequestInv(t) /\ MoveInv(t) /\ ClosingInv(t)
      /\ pc[t] = "commit" /\ DbCommit(t) /\ ProgressMatchesExchanges
      /\ row \in Rows /\ draft \in Rows
      /\ row.status \in Statuses /\ draft.status \in Statuses
      /\ "none" \notin Statuses
  BY DEF IndInv, LifecycleInv, CoreInv, TypeOK, DbTypeOK, CommitRequest, Rows,
     Statuses
<1>2. CASE writer # t
  BY <1>1, <1>2 DEF DbCommit
<1>3. CASE writer = t /\ inserting[t] = 0
  <2>1. row' = draft /\ draft.seq = row.seq
    BY <1>1, <1>3 DEF DbCommit, RequestInv, DraftInv
  <2>2. draft.status = row.status \/ ValidTransition(row.status, draft.status)
    BY <1>1, <1>3 DEF MoveInv
  <2>3. CASE draft.status = row.status
    BY <2>1, <2>3
  <2>4. CASE ValidTransition(row.status, draft.status)
    BY <1>1, <2>1, <2>4
    DEF ValidTransition, AllowedTransitions, Statuses, Lifecycle!Next,
        Lifecycle!Begin, Lifecycle!Close, Lifecycle!Cancel, Lifecycle!Review
  <2> QED BY <2>2, <2>3, <2>4
<1>4. CASE writer = t /\ inserting[t] # 0
  <2>1. /\ row' = draft /\ draft.seq = inserting[t]
        /\ inserting[t] = Len(exchanges) + 1 /\ ans[t] # 0
    BY <1>1, <1>4 DEF DbCommit, RequestInv, DraftInv, InsertInv
  <2>2. /\ row.seq = Len(exchanges) /\ inserting[t] \in 0..TotalQuestions
        /\ row.seq \in 0..TotalQuestions
    BY <1>1 DEF DbTypeOK, Rows, ProgressMatchesExchanges
  <2>3. row'.seq = row.seq + 1 /\ row.seq < TotalQuestions
    BY <2>1, <2>2
  <2>4. row.status # "pending"
    BY <1>1, <2>1 DEF ClosingInv
  <2>5. row'.status = IF row'.seq = TotalQuestions /\ row.status = "in_progress"
                      THEN "completed" ELSE row.status
    <3>1. \/ draft.status = row.status
          \/ /\ row.status = "in_progress" /\ draft.status = "completed"
             /\ inserting[t] = TotalQuestions
      BY <1>1, <1>4 DEF MoveInv
    <3>2. inserting[t] = TotalQuestions => draft.status # "in_progress"
      BY <1>1 DEF ClosingInv
    <3> QED BY <2>1, <3>1, <3>2
  <2> QED BY <2>3, <2>4, <2>5 DEF Lifecycle!Next, Lifecycle!Answer
<1> QED BY <1>2, <1>3, <1>4

\* Nothing but a commit changes committed data.
LEMMA OnlyCommits ==
    ASSUME [Next]_vars, \A t \in Txn : ~CommitRequest(t)
    PROVE  UNCHANGED row
<1>1. ASSUME NEW t \in Txn, TransitionNext(t) PROVE row' = row
  BY <1>1
  DEF TransitionNext, BeginTransition, ReadForTransition, IdempotentHit,
      ForbiddenTransition, TransitionUpdate, TransitionLost, SyncRedis,
      ExpirySelect, ExpiryUpdate, ExpiryRefused, WriteRow, Raise, DbRollback,
      dbVars
<1>2. ASSUME NEW t \in Txn, ExchangeNext(t) PROVE row' = row
  BY <1>2
  DEF ExchangeNext, LoadActiveSubmission, ExchangeExists, AcquireExchangeLock,
      ValidateCreation, CreationInvalid, InsertExchange, InsertDuplicate,
      ReadProgress, Advance, AdvanceMiss, Retry, ReadForAutoComplete,
      AutoComplete, ReadSnapshot, WriteSnapshot, WriteRow, Raise, DbRollback,
      dbVars
<1>3. ASSUME Environment PROVE row' = row
  BY <1>3
  DEF Environment, Fail, Crash, LockExpires, SnapshotExpires, Raise,
      DbRollback, dbVars
<1>4. UNCHANGED vars => row' = row
  BY DEF vars, dbVars
<1> QED BY <1>1, <1>2, <1>3, <1>4 DEF Next

\* Through committed data the system is the lifecycle that the module promises: a
\* one-way status, and a count of answers that advances by one and never before
\* the interview has begun.
THEOREM Refinement == Spec => ImplementsLifecycle
<1>1. Init => Lifecycle!Init
  BY DEF Init, DbInit, NewRow, Lifecycle!Init
<1>2. IndInv /\ [Next]_vars => [Lifecycle!Next]_<<row.status, row.seq>>
  <2>1. SUFFICES ASSUME IndInv, [Next]_vars
                 PROVE  Lifecycle!Next \/ UNCHANGED <<row.status, row.seq>>
    OBVIOUS
  <2>2. TypeOK'
    BY <2>1, IndNext DEF IndInv, CoreInv
  <2>3. CASE \E t \in Txn : CommitRequest(t)
    BY <2>1, <2>2, <2>3, CommitImplements
  <2>4. CASE \A t \in Txn : ~CommitRequest(t)
    BY <2>1, <2>4, OnlyCommits
  <2> QED BY <2>3, <2>4
<1> QED
  BY <1>1, <1>2, Invariance, PTL DEF Spec, ImplementsLifecycle, Lifecycle!Spec

-----------------------------------------------------------------------------
(* The Redis locks.                                                        *)

\* Every step of a request, its failure and its crash move it.
LEMMA EveryStepMoves ==
    ASSUME TypeOK, NEW u \in Txn,
           TransitionNext(u) \/ ExchangeNext(u) \/ Fail(u) \/ Crash(u)
    PROVE  pc'[u] # pc[u]
<1>1. pc \in [Txn -> Steps]
  BY DEF TypeOK
<1>2. CASE TransitionNext(u)
  BY <1>1, <1>2
  DEF TransitionNext, BeginTransition, ReadForTransition, IdempotentHit,
      ForbiddenTransition, TransitionUpdate, TransitionLost, SyncRedis,
      CommitRequest, ExpirySelect, ExpiryUpdate, ExpiryRefused, Raise, Finish,
      Goto
<1>3. CASE ExchangeNext(u)
  BY <1>1, <1>3
  DEF ExchangeNext, LoadActiveSubmission, ExchangeExists, AcquireExchangeLock,
      ValidateCreation, CreationInvalid, InsertExchange, InsertDuplicate,
      StartProgress, ReadProgress, Advance, AfterAdvance, AdvanceMiss, Retry,
      ReadForAutoComplete, AutoComplete, ReadSnapshot, WriteSnapshot, Raise,
      Finish, Goto
<1>4. CASE Fail(u) \/ Crash(u)
  BY <1>1, <1>4 DEF Fail, Crash, Raise, Finish, Goto
<1> QED BY <1>2, <1>3, <1>4

\* No step of a request touches a lock that another one holds.
LEMMA OthersLocksStay ==
    ASSUME TypeOK, NEW u \in Txn, NEW t \in Txn \ {u}, NEW k \in LockKeys,
           lockOwner[k] = t,
           TransitionNext(u) \/ ExchangeNext(u) \/ Fail(u) \/ Crash(u)
    PROVE  lockOwner'[k] = t
<1>1. lockOwner \in [LockKeys -> Txn \cup {NoTxn, Orphan}]
  BY DEF TypeOK
<1>2. \A j : Release(u, j)[k] = t
  BY <1>1 DEF Release
<1>3. CASE TransitionNext(u)
  BY <1>1, <1>2, <1>3
  DEF TransitionNext, BeginTransition, ReadForTransition, OptionalSessionLock,
      IdempotentHit, ForbiddenTransition, TransitionUpdate, TransitionLost,
      SyncRedis, CommitRequest, ExpirySelect, ExpiryUpdate, ExpiryRefused,
      Raise, sharedVars
<1>4. CASE ExchangeNext(u)
  BY <1>1, <1>2, <1>4
  DEF ExchangeNext, LoadActiveSubmission, ExchangeExists, AcquireExchangeLock,
      ValidateCreation, CreationInvalid, InsertExchange, InsertDuplicate,
      ReadProgress, Advance, AdvanceMiss, Retry, ReadForAutoComplete,
      AutoComplete, ReadSnapshot, WriteSnapshot, Raise, sharedVars
<1>5. CASE Fail(u) \/ Crash(u)
  BY <1>1, <1>2, <1>5 DEF Fail, Crash, Raise
<1> QED BY <1>3, <1>4, <1>5

\* A lock is lost only by a step, the failure or the crash of its holder, or by
\* its own time-out: no release takes away what somebody else has acquired.
THEOREM LocksAreSafe == Spec => NoForeignRelease
<1> DEFINE A == \A k \in LockKeys, t \in Txn :
                   lockOwner[k] = t /\ lockOwner'[k] # t
                      => pc'[t] # pc[t] \/ LockExpires(k)
<1>1. TypeOK /\ [Next]_vars => [A]_vars
  <2>1. SUFFICES ASSUME TypeOK, Next, NEW k \in LockKeys, NEW t \in Txn,
                        lockOwner[k] = t, lockOwner'[k] # t
                 PROVE  pc'[t] # pc[t] \/ LockExpires(k)
    OBVIOUS
  <2>2. ASSUME NEW u \in Txn,
               TransitionNext(u) \/ ExchangeNext(u) \/ Fail(u) \/ Crash(u)
        PROVE  pc'[t] # pc[t]
    <3>1. u = t
      BY <2>1, <2>2, OthersLocksStay
    <3> QED BY <2>1, <2>2, <3>1, EveryStepMoves
  <2>3. ASSUME NEW j \in LockKeys, LockExpires(j) PROVE LockExpires(k)
    BY <2>1, <2>3 DEF LockExpires, TypeOK
  <2>4. ~SnapshotExpires
    BY <2>1 DEF SnapshotExpires
  <2> QED BY <2>1, <2>2, <2>3, <2>4 DEF Next, Environment
<1> QED BY <1>1, TypeCorrect, PTL DEF Spec, NoForeignRelease
=============================================================================
