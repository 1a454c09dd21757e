-------------------------- MODULE ExchangeCreation --------------------------
(***************************************************************************)
(* An answer (text, audio or code) from the moment the realtime handler    *)
(* loads the submission to the commit: ExchangeCoordinator, RaceResolver,  *)
(* InterviewExchangeRepository and ProgressTracker.                        *)
(***************************************************************************)
EXTENDS RequestState

CONSTANT MaxRetries     \* _max_optimistic_retries of the ProgressTracker

ASSUME RetriesAssumption == MaxRetries \in Nat \ {0}

-----------------------------------------------------------------------------
(* Loading and validating.                                                 *)

\* _load_active_submission and _validate_sequence accept the answer: it must be
\* the next one.  Any other is refused without a trace (InterviewNotActiveError,
\* InterviewCompleteError, SequenceMismatchError).
LoadActiveSubmission(t) ==
    /\ pc[t] = "idle"
    /\ "answer" \in Offered
    /\ row.status = "in_progress"
    /\ row.seq + 1 <= TotalQuestions
    /\ seen' = [seen EXCEPT ![t] = Columns(row)]
    /\ ans' = [ans EXCEPT ![t] = row.seq + 1]
    /\ Goto(t, "exchange_lock")
    /\ UNCHANGED <<dbVars, op, tries, out, got, sharedVars>>

-----------------------------------------------------------------------------
(* RaceResolver.resolve_or_create and InterviewExchangeRepository.create.  *)

StartProgress(t) ==
    /\ tries' = [tries EXCEPT ![t] = 0]
    /\ Goto(t, "progress")

\* The existing exchange is returned; the lock, had it been taken, is free again.
ExchangeExists(t) ==
    /\ pc[t] = "exchange_lock"
    /\ ans[t] \in Exchanges
    /\ StartProgress(t)
    /\ UNCHANGED <<dbVars, op, ans, seen, out, got, sharedVars>>

\* No exchange yet: create one, under the lock or, after LockAcquisitionError,
\* without it.
AcquireExchangeLock(t) ==
    /\ pc[t] = "exchange_lock"
    /\ ans[t] \notin Exchanges
    /\ lockOwner' = IF lockOwner[ans[t]] = NoTxn
                    THEN [lockOwner EXCEPT ![ans[t]] = t] ELSE lockOwner
    /\ Goto(t, "validate")
    /\ UNCHANGED <<dbVars, op, ans, seen, tries, out, got, cache, aggStarted, moved>>

\* Steps 1 and 2 of create: the status is the cached object's, the count and the
\* orders are read from the table.
CreationValid(t) ==
    /\ seen[t].status = "in_progress"
    /\ ans[t] \notin Exchanges
    /\ ans[t] = Len(exchanges) + 1

ValidateCreation(t) ==
    /\ pc[t] = "validate"
    /\ CreationValid(t)
    /\ Goto(t, "insert")
    /\ UNCHANGED <<dbVars, op, ans, seen, tries, out, got, sharedVars>>

\* DuplicateSequenceError or SequenceGapError.
CreationInvalid(t) ==
    /\ pc[t] = "validate"
    /\ ~CreationValid(t)
    /\ Raise(t, ans[t])

\* The flush of the INSERT succeeds and the exchange lock is released, with the
\* transaction still open.
InsertExchange(t) ==
    /\ pc[t] = "insert"
    /\ ~KeyPending(t, ans[t])
    /\ ans[t] \notin Exchanges
    /\ inserting' = [inserting EXCEPT ![t] = ans[t]]
    /\ lockOwner' = Release(t, ans[t])
    /\ StartProgress(t)
    /\ UNCHANGED <<row, draft, writer, exchanges, op, ans, seen, out, got, cache,
                   aggStarted, moved>>

\* IntegrityError: the transaction is rolled back, the winner's exchange is
\* returned and the handler goes on in a new transaction.
InsertDuplicate(t) ==
    /\ pc[t] = "insert"
    /\ ans[t] \in Exchanges
    /\ DbRollback(t)
    /\ lockOwner' = Release(t, ans[t])
    /\ StartProgress(t)
    /\ UNCHANGED <<op, ans, seen, out, got, cache, aggStarted, moved>>

-----------------------------------------------------------------------------
(* ProgressTracker.update_progress.                                        *)

\* Mutation: the test for the final question is off by one.
AfterAdvanceTooSoon(t) ==
    /\ tries' = [tries EXCEPT ![t] = 0]
    /\ Goto(t, IF ans[t] + 1 >= TotalQuestions THEN "auto_check"
               ELSE "cache_get")

\* Mutation: the final question completes nothing.
AfterAdvanceNeverCompletes(t) ==
    /\ tries' = [tries EXCEPT ![t] = 0]
    /\ Goto(t, "cache_get")

\* After the sequence: the final question completes the submission.
AfterAdvance(t) ==
    /\ tries' = [tries EXCEPT ![t] = 0]
    /\ Goto(t, IF ans[t] >= TotalQuestions THEN "auto_check" ELSE "cache_get")

\* Mutation: a sequence one behind counts as updated.
ReadProgressOffByOne(t) ==
    /\ pc[t] = "progress"
    /\ seen' = [seen EXCEPT ![t] = Columns(Visible(t))]
    /\ IF Visible(t).seq + 1 >= ans[t]
       THEN AfterAdvance(t)
       ELSE Goto(t, "advance") /\ tries' = tries
    /\ UNCHANGED <<dbVars, op, ans, out, got, sharedVars>>

\* _update_db_progress: SELECT current_exchange_sequence, version.
ReadProgress(t) ==
    /\ pc[t] = "progress"
    /\ seen' = [seen EXCEPT ![t] = Columns(Visible(t))]
    /\ IF Visible(t).seq >= ans[t]
       THEN AfterAdvance(t)
       ELSE Goto(t, "advance") /\ tries' = tries
    /\ UNCHANGED <<dbVars, op, ans, out, got, sharedVars>>

\* ... its UPDATE: the status of the submission is not looked at.
AdvanceGuard(t) ==
    /\ Visible(t).seq < ans[t]
    /\ Visible(t).version = seen[t].version

Advance(t) ==
    /\ pc[t] = "advance"
    /\ AdvanceGuard(t)
    /\ WriteRow(t, [Visible(t) EXCEPT !.seq = ans[t], !.version = @ + 1])
    /\ AfterAdvance(t)
    /\ UNCHANGED <<op, ans, seen, out, got, sharedVars>>

\* An optimistic attempt failed; after the last one ConflictError is raised.
Retry(t) ==
    IF tries[t] + 1 < MaxRetries
    THEN /\ tries' = [tries EXCEPT ![t] = @ + 1]
         /\ Goto(t, "progress")
         /\ UNCHANGED <<dbVars, op, ans, seen, out, got, sharedVars>>
    ELSE Raise(t, ans[t])

AdvanceMiss(t) ==
    /\ pc[t] = "advance"
    /\ ~AdvanceGuard(t)
    /\ Retry(t)

\* _auto_complete_submission: SELECT status, version.
ReadForAutoComplete(t) ==
    /\ pc[t] = "auto_check"
    /\ seen' = [seen EXCEPT ![t] = Columns(Visible(t))]
    /\ Goto(t, IF Visible(t).status = "in_progress" THEN "auto_complete"
               ELSE "cache_get")
    /\ UNCHANGED <<dbVars, op, ans, tries, out, got, sharedVars>>

AutoCompleteGuard(t) ==
    /\ Visible(t).status = "in_progress"
    /\ Visible(t).version = seen[t].version

\* No aggregation thread is started on this path.  The row lock is already held
\* by the advance, so the guard is never found false and the loop around it never
\* repeats (AutoCompleteNeverMisses).
AutoComplete(t) ==
    /\ pc[t] = "auto_complete"
    /\ AutoCompleteGuard(t)
    /\ WriteRow(t, WithStatus(Visible(t), "completed", "system:auto_complete"))
    /\ out' = [out EXCEPT ![t] = "completed"]
    /\ Goto(t, "cache_get")
    /\ UNCHANGED <<op, ans, seen, tries, got, sharedVars>>

\* _update_redis_progress: GET, merge, SET, all before the commit.
ReadSnapshot(t) ==
    /\ pc[t] = "cache_get"
    /\ got' = [got EXCEPT ![t] = cache.status]
    /\ Goto(t, "cache_set")
    /\ UNCHANGED <<dbVars, op, ans, seen, tries, out, sharedVars>>

WriteSnapshot(t) ==
    /\ pc[t] = "cache_set"
    /\ cache' = [status |-> IF out[t] = "completed" THEN "completed"
                            ELSE got[t],
                 seq |-> ans[t]]
    /\ Goto(t, "commit")
    /\ UNCHANGED <<dbVars, op, ans, seen, tries, out, got, lockOwner, aggStarted,
                   moved>>

ExchangeNext(t) ==
    \/ LoadActiveSubmission(t)
    \/ ExchangeExists(t) \/ AcquireExchangeLock(t)
    \/ ValidateCreation(t) \/ CreationInvalid(t)
    \/ InsertExchange(t) \/ InsertDuplicate(t)
    \/ ReadProgress(t) \/ Advance(t) \/ AdvanceMiss(t)
    \/ ReadForAutoComplete(t) \/ AutoComplete(t)
    \/ ReadSnapshot(t) \/ WriteSnapshot(t)
=============================================================================
