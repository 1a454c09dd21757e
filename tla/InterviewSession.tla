-------------------------- MODULE InterviewSession --------------------------
(***************************************************************************)
(* One interview submission and every request that can touch it at the     *)
(* same time: candidate and admin transitions, answers on any number of    *)
(* WebSocket processes, and the expiry worker.  Requests fail and          *)
(* processes crash; Redis locks expire.                                    *)
(***************************************************************************)
EXTENDS SessionTransitions, ExchangeCreation

Init == DbInit /\ RequestInit

\* The lock a request may hold at a step.
LockKey(t) == IF pc[t] \in TransitionSteps THEN 0 ELSE ans[t]

\* Any exception (statement timeout, lost connection, failed commit): the
\* session is rolled back and the with-statement releases the lock.
Fail(t) == pc[t] # "idle" /\ Raise(t, LockKey(t))

\* The process dies: PostgreSQL rolls back, the Redis lock stays behind.
Crash(t) ==
    /\ pc[t] # "idle"
    /\ DbRollback(t)
    /\ lockOwner' = [k \in LockKeys |->
                        IF lockOwner[k] = t THEN Orphan ELSE lockOwner[k]]
    /\ Finish(t)
    /\ UNCHANGED <<cache, aggStarted, moved>>

\* EX timeout of a lock, whatever its holder is doing.
LockExpires(k) ==
    /\ lockOwner[k] # NoTxn
    /\ lockOwner' = [lockOwner EXCEPT ![k] = NoTxn]
    /\ UNCHANGED <<dbVars, requestVars, cache, aggStarted, moved>>

\* EX timeout of the session snapshot.
SnapshotExpires ==
    /\ cache # NoCache
    /\ cache' = NoCache
    /\ UNCHANGED <<dbVars, requestVars, lockOwner, aggStarted, moved>>

Environment ==
    \/ \E t \in Txn : Fail(t) \/ Crash(t)
    \/ \E k \in LockKeys : LockExpires(k)
    \/ SnapshotExpires

Next == Environment \/ \E t \in Txn : TransitionNext(t) \/ ExchangeNext(t)

Spec == Init /\ [][Next]_vars

\* A thread that has begun a request goes on until it is over; nobody has to
\* send one, and nothing has to fail.
Progress(t) ==
    \/ ReadForTransition(t) \/ IdempotentHit(t) \/ ForbiddenTransition(t)
    \/ TransitionUpdate(t) \/ TransitionLost(t) \/ SyncRedis(t)
    \/ CommitRequest(t) \/ ExpiryUpdate(t) \/ ExpiryRefused(t)
    \/ (pc[t] # "idle" /\ ExchangeNext(t))

\* PostgreSQL queues the transactions that wait for a row lock or for another
\* inserter of their key: none is passed over for ever, hence strong fairness.
WaitsForDatabase(t) ==
    \/ TransitionUpdate(t) \/ Advance(t) \/ AutoComplete(t)
    \/ ExpiryUpdate(t) \/ ExpiryRefused(t) \/ InsertExchange(t)

FairSpec ==
    /\ Spec
    /\ \A t \in Txn : WF_vars(Progress(t)) /\ SF_vars(WaitsForDatabase(t))

-----------------------------------------------------------------------------
(* Safety.                                                                 *)

\* Every variable has the type the code gives it.
TypeOK ==
    /\ DbTypeOK
    /\ pc \in [Txn -> Steps]
    /\ op \in [Txn -> Transitions \cup {"none"}]
    /\ \A t \in Txn : pc[t] \in TransitionSteps => op[t] # "none"
    /\ ans \in [Txn -> 0..TotalQuestions]
    /\ seen \in [Txn -> [status : Statuses, version : Nat, seq : 0..TotalQuestions]]
    /\ tries \in [Txn -> 0..MaxRetries - 1]
    /\ out \in [Txn -> CacheStatuses]
    /\ got \in [Txn -> CacheStatuses]
    /\ lockOwner \in [LockKeys -> Txn \cup {NoTxn, Orphan}]
    /\ cache \in [status : CacheStatuses, seq : 0..TotalQuestions]
    /\ aggStarted \in BOOLEAN
    /\ moved \in Seq(Statuses)

\* The committed exchanges are numbered 1, 2, 3, ... in the order they were
\* committed: no answer is stored twice and none is skipped, whatever the Redis
\* lock did (resolve_or_create, validate_sequence_order, the UNIQUE constraint).
ExchangesContiguous == \A i \in DOMAIN exchanges : exchanges[i] = i

\* current_exchange_sequence is the number of stored exchanges: the next question
\* the candidate is asked is the first one without an answer.
ProgressMatchesExchanges == row.seq = Len(exchanges)

\* A trail starts at pending, goes on where it left off, and only along the
\* transitions of the state machine.
TrailIsPath(r) ==
    LET n == Len(r.trail) IN
    /\ r.status = IF n = 0 THEN "pending" ELSE r.trail[n].to
    /\ n > 0 => r.trail[1].from = "pending"
    /\ \A i \in 1..n :
          /\ ValidTransition(r.trail[i].from, r.trail[i].to)
          /\ i > 1 => r.trail[i].from = r.trail[i - 1].to

\* The audit trail tells the whole history of the status, with no step missing
\* and none forbidden, although five services and a worker write the status.
AuditTrailIsComplete == TrailIsPath(row)

\* Every committed move of the status and every committed advance has a version
\* number of its own: no optimistic writer can overwrite another unnoticed.
NoUnversionedWrite == row.version >= 1 + Len(row.trail) + row.seq

\* The system closes an interview by itself only when every question has its
\* exchange (_auto_complete_submission runs after the final one).
AutoCompleteOnlyWhenAnswered ==
    (\E i \in DOMAIN row.trail : row.trail[i].actor = "system:auto_complete")
        => Len(exchanges) = TotalQuestions

\* Of the requests that race to move the submission to a status, one reports that
\* it did: complete_interview starts one aggregation, start sets started_at once.
OneWinnerPerMove ==
    \A i, j \in DOMAIN moved :
        i # j /\ moved[i] = moved[j] => moved[i] = "expired"

\* get_progress, which trusts the snapshot in Redis, is at most one question
\* ahead of the committed progress, even after rollbacks and expired snapshots.
SnapshotAtMostOneAhead == cache.seq <= row.seq + 1

\* A Redis lock that another request holds is never taken away by a release:
\* only its holder's own step, its failure or its timeout ends it.
NoForeignRelease ==
    [][\A k \in LockKeys, t \in Txn :
          lockOwner[k] = t /\ lockOwner'[k] # t
              => pc'[t] # pc[t] \/ LockExpires(k)]_vars

\* Committed state implements the lifecycle the module promises.
Lifecycle == INSTANCE SubmissionLifecycle
                WITH status <- row.status, answered <- row.seq

ImplementsLifecycle == Lifecycle!Spec

(* Liveness.                                                               *)

\* No request waits for ever: row lock, unique key, Redis lock and the bounded
\* optimistic loops never hold each other up.
RequestsTerminate == \A t \in Txn : pc[t] # "idle" ~> pc[t] = "idle"

-----------------------------------------------------------------------------
(* The inductive invariant behind the safety properties.                   *)

\* The row lock: whoever holds it has written, and has not finished.
RowLockInv(t) ==
    writer = t =>
        pc[t] \in {"sync", "commit", "auto_check", "auto_complete", "cache_get",
                   "cache_set"}

\* An answer that is being stored is the next one.
InsertInv(t) ==
    inserting[t] # 0 =>
        /\ inserting[t] = ans[t]
        /\ ans[t] = Len(exchanges) + 1
        /\ pc[t] \in ProgressSteps \cup {"commit"}

\* Where an answer stands with respect to the exchanges stored so far.
AnswerInv(t) ==
    /\ pc[t] \in ExchangeSteps => ans[t] \in 1..Len(exchanges) + 1
    /\ pc[t] \in ProgressSteps =>
          /\ ans[t] # 0
          /\ inserting[t] # 0 \/ ans[t] <= Len(exchanges)
    /\ pc[t] = "advance" => inserting[t] # 0
    /\ pc[t] \in {"auto_check", "auto_complete"} => ans[t] = TotalQuestions

\* The sequence an uncommitted writer leaves behind when it commits.
DraftInv(t) ==
    /\ inserting[t] # 0 /\ pc[t] \notin {"progress", "advance"} =>
          writer = t /\ draft.seq = ans[t]
    /\ writer = t /\ inserting[t] = 0 => draft.seq = row.seq

RequestInv(t) == RowLockInv(t) /\ InsertInv(t) /\ AnswerInv(t) /\ DraftInv(t)

NobodyElseInserts ==
    \A t, u \in Txn : inserting[t] # 0 /\ inserting[u] # 0 => t = u

VersionsCount(r) == r.version >= 1 + Len(r.trail) + r.seq

AutoCompletedInFull(r) ==
    (\E i \in DOMAIN r.trail : r.trail[i].actor = "system:auto_complete")
        => r.seq = TotalQuestions

\* What the properties say of the committed row holds of the uncommitted one.
RowInv(r) == TrailIsPath(r) /\ VersionsCount(r) /\ AutoCompletedInFull(r)

\* What the requests, the row lock and the exchanges have to do with each other.
CoreInv ==
    /\ TypeOK
    /\ \A t \in Txn : RequestInv(t)
    /\ NobodyElseInserts
    /\ writer = NoTxn => draft = row
    /\ ExchangesContiguous
    /\ ProgressMatchesExchanges
    /\ SnapshotAtMostOneAhead
    /\ RowInv(row)
    /\ RowInv(draft)

\* The statuses that are not behind a status.
Onward ==
    [s \in Statuses |->
        CASE s = "pending" -> Statuses
          [] s = "in_progress" -> Statuses \ {"pending"}
          [] s \in {"completed", "expired", "cancelled"} -> {s, "reviewed"}
          [] s = "reviewed" -> {s}]

\* An uncommitted move is one the state machine permits and the one its request
\* will report.
MoveInv(t) ==
    /\ pc[t] = "update" => ValidTransition(seen[t].status, Target[op[t]])
    /\ out[t] # "none" => writer = t /\ out[t] = draft.status
    /\ writer = t =>
          \/ draft.status = row.status /\ out[t] \in {"none", "expired"}
          \/ ValidTransition(row.status, draft.status) /\ out[t] = draft.status
    /\ inserting[t] # 0 /\ out[t] # "none" =>
          /\ row.status = "in_progress" /\ out[t] = "completed"
          /\ inserting[t] = TotalQuestions

\* The last answer finds the guard of its auto-completion true.
AutoCompleteNeverMisses(t) ==
    pc[t] = "auto_complete" =>
        /\ writer = t /\ inserting[t] # 0 /\ out[t] = "none"
        /\ AutoCompleteGuard(t)

\* An answer belongs to an interview that has begun, and the last one is not
\* committed to an interview that is open.
ClosingInv(t) ==
    /\ ans[t] # 0 => row.status # "pending"
    /\ AutoCompleteNeverMisses(t)
    /\ pc[t] \in {"cache_get", "cache_set", "commit"} /\ inserting[t] = TotalQuestions
          => draft.status # "in_progress"

\* What the committed moves have to do with the status.
LifecycleInv ==
    /\ \A t \in Txn : MoveInv(t) /\ ClosingInv(t)
    /\ row.seq = TotalQuestions => row.status \notin {"pending", "in_progress"}
    /\ \A i \in DOMAIN moved : row.status \in Onward[moved[i]]
    /\ OneWinnerPerMove

\* The conjunction that every step preserves.
IndInv == CoreInv /\ LifecycleInv
=============================================================================
