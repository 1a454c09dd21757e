------------------------- MODULE SessionTransitions -------------------------
(***************************************************************************)
(* SessionService and SubmissionRepository: start, complete, expire,       *)
(* cancel and review.  A request takes the session lock if it can, reads   *)
(* the submission, moves it with an UPDATE guarded by the status and the   *)
(* version it read, pushes the snapshot to Redis and commits when the      *)
(* handler returns.  The bulk expiry worker is at the end.                 *)
(***************************************************************************)
EXTENDS RequestState

Target ==
    [o \in Transitions |->
        CASE o = "start" -> "in_progress"
          [] o = "complete" -> "completed"
          [] o = "expire" -> "expired"
          [] o = "cancel" -> "cancelled"
          [] o = "review" -> "reviewed"]

ActorOf ==
    [o \in Transitions |->
        CASE o \in {"start", "complete"} -> "candidate"
          [] o = "expire" -> "system:expiry_worker"
          [] o \in {"cancel", "review"} -> "admin"]

-----------------------------------------------------------------------------
BeginTransition(t) ==
    /\ pc[t] = "idle"
    /\ \E o \in Transitions \cap Offered : op' = [op EXCEPT ![t] = o]
    /\ Goto(t, "lock")
    /\ UNCHANGED <<dbVars, ans, seen, tries, out, got, sharedVars>>

\* _optional_session_lock: SET NX succeeds, or the wait for another holder
\* times out and the request goes on without the lock.
OptionalSessionLock(t) ==
    \/ lockOwner[0] = NoTxn /\ lockOwner' = [lockOwner EXCEPT ![0] = t]
    \/ lockOwner[0] # NoTxn /\ lockOwner' = lockOwner

\* The first half of _do_transition and _do_multi_source_transition, for a
\* submission that may still make the move.
ReadForTransition(t) ==
    /\ pc[t] = "lock"
    /\ ValidTransition(Visible(t).status, Target[op[t]])
    /\ OptionalSessionLock(t)
    /\ seen' = [seen EXCEPT ![t] = Columns(Visible(t))]
    /\ Goto(t, "update")
    /\ UNCHANGED <<dbVars, op, ans, tries, out, got, cache, aggStarted, moved>>

\* ... for one that has made it: nothing to write, but the snapshot is pushed.
\* The session lock is taken and given back at once.
IdempotentHit(t) ==
    /\ pc[t] = "lock"
    /\ Visible(t).status = Target[op[t]]
    /\ seen' = [seen EXCEPT ![t] = Columns(Visible(t))]
    /\ Goto(t, "sync")
    /\ UNCHANGED <<dbVars, op, ans, tries, out, got, sharedVars>>

\* ... and for one that may not: StateTransitionError.
ForbiddenTransition(t) ==
    /\ pc[t] = "lock"
    /\ Visible(t).status # Target[op[t]]
    /\ ~ValidTransition(Visible(t).status, Target[op[t]])
    /\ Raise(t, 0)

-----------------------------------------------------------------------------
\* Mutation: an UPDATE by id alone.
UpdateUnguarded(t) == TRUE

\* WHERE status = :expected AND version = :expected_version
StillAsRead(t) ==
    /\ Visible(t).status = seen[t].status
    /\ Visible(t).version = seen[t].version

TransitionUpdate(t) ==
    /\ pc[t] = "update"
    /\ StillAsRead(t)
    /\ TriggerAccepts(Visible(t), Target[op[t]])
    /\ WriteRow(t, WithStatus(Visible(t), Target[op[t]], ActorOf[op[t]]))
    /\ seen' = [seen EXCEPT ![t] = Columns(draft')]
    /\ lockOwner' = Release(t, 0)
    /\ out' = [out EXCEPT ![t] = Target[op[t]]]
    /\ Goto(t, "sync")
    /\ UNCHANGED <<op, ans, tries, got, cache, aggStarted, moved>>

\* No row matched.  The reload goes through the identity map and returns the
\* object that was read before the UPDATE, with its old status and version: the
\* tests for "already there" and "version moved" compare it with itself, and
\* what is raised is StateTransitionError.
TransitionLost(t) ==
    /\ pc[t] = "update"
    /\ ~StillAsRead(t)
    /\ Raise(t, 0)

\* _sync_redis replaces the whole snapshot, then complete_interview starts its
\* background thread if this request made the transition.  Both come before the
\* commit.
SyncRedis(t) ==
    /\ pc[t] = "sync"
    /\ cache' = [status |-> seen[t].status, seq |-> 0]
    /\ aggStarted' = \/ aggStarted
                     \/ op[t] = "complete" /\ out[t] = "completed"
    /\ Goto(t, "commit")
    /\ UNCHANGED <<dbVars, op, ans, seen, tries, out, got, lockOwner, moved>>

\* get_db_session_with_commit and _dispatch_event commit after the handler.
CommitRequest(t) ==
    /\ pc[t] = "commit"
    /\ DbCommit(t)
    /\ moved' = IF out[t] = "none" THEN moved ELSE Append(moved, out[t])
    /\ Finish(t)
    /\ UNCHANGED <<lockOwner, cache, aggStarted>>

-----------------------------------------------------------------------------
\* expire_overdue_submissions: the CTE picks overdue rows from the snapshot the
\* statement starts with.
ExpirySelect(t) ==
    /\ pc[t] = "idle"
    /\ "expire_overdue" \in Offered
    /\ row.status = "in_progress"
    /\ Goto(t, "expire")
    /\ UNCHANGED <<dbVars, op, ans, seen, tries, out, got, sharedVars>>

\* The UPDATE joins on the id alone: once it has the row lock, a row that has
\* left in_progress is still written, unless the trigger raises.
ExpiryUpdate(t) ==
    /\ pc[t] = "expire"
    /\ MayWrite(t)
    /\ TriggerAccepts(draft, "expired")
    /\ WriteRow(t, WithStatus(draft, "expired", "system:expiry_worker"))
    /\ out' = [out EXCEPT ![t] = "expired"]
    /\ Goto(t, "commit")
    /\ UNCHANGED <<op, ans, seen, tries, got, sharedVars>>

ExpiryRefused(t) ==
    /\ pc[t] = "expire"
    /\ MayWrite(t)
    /\ ~TriggerAccepts(draft, "expired")
    /\ Raise(t, 0)

TransitionNext(t) ==
    \/ BeginTransition(t) \/ ReadForTransition(t) \/ IdempotentHit(t)
    \/ ForbiddenTransition(t) \/ TransitionUpdate(t) \/ TransitionLost(t)
    \/ SyncRedis(t) \/ CommitRequest(t)
    \/ ExpirySelect(t) \/ ExpiryUpdate(t) \/ ExpiryRefused(t)
=============================================================================
