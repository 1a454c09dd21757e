---------------------------- MODULE RequestState ----------------------------
(***************************************************************************)
(* What a request keeps while it runs, and the two things requests share   *)
(* outside the database: the Redis locks of persistence/redis/locks.py and *)
(* the Redis session snapshot interview_session:{id}.                      *)
(***************************************************************************)
EXTENDS SubmissionDb

CONSTANTS
    Orphan,     \* a lock value whose holder has crashed
    Offered     \* the kinds of request that clients, admins and workers send

Transitions == {"start", "complete", "expire", "cancel", "review"}

ASSUME OfferedAssumption ==
    Offered \subseteq Transitions \cup {"answer", "expire_overdue"}

ASSUME OrphanAssumption == Orphan \notin Txn \cup {NoTxn}

VARIABLES
    pc,         \* where each request is
    op,         \* which transition a request asks for
    ans,        \* the sequence_order an answer claims
    seen,       \* the row as the request last read it: ORM object or SELECT
    tries,      \* optimistic attempts already spent in the current loop
    out,        \* the move of the status this request reports, if any
    got,        \* status field of the snapshot read by _update_redis_progress
    lockOwner,  \* holder of each Redis lock: 0 the session's, n exchange n's
    cache,      \* the snapshot in Redis
    aggStarted, \* a background scoring and aggregation thread was started
    moved       \* history: the moves that committed requests have reported

requestVars == <<pc, op, ans, seen, tries, out, got>>
sharedVars == <<lockOwner, cache, aggStarted, moved>>
vars == <<dbVars, requestVars, sharedVars>>

-----------------------------------------------------------------------------
TransitionSteps == {"lock", "update", "sync"}
ExchangeSteps == {"exchange_lock", "validate", "insert"}
ProgressSteps == {"progress", "advance", "auto_check", "auto_complete",
                  "cache_get", "cache_set"}
Steps == {"idle", "expire", "commit"}
            \cup TransitionSteps \cup ExchangeSteps \cup ProgressSteps

\* The columns a request reads; the audit trail is never read back.
Columns(r) == [status |-> r.status, version |-> r.version, seq |-> r.seq]

LockKeys == 0..TotalQuestions

\* Lua compare-and-delete: only the value that was set is deleted.
Release(t, k) ==
    IF lockOwner[k] = t THEN [lockOwner EXCEPT ![k] = NoTxn] ELSE lockOwner

\* The fields of the snapshot that matter: "none" and 0 for an absent one.
NoCache == [status |-> "none", seq |-> 0]

CacheStatuses == Statuses \cup {"none"}

Goto(t, step) == pc' = [pc EXCEPT ![t] = step]

\* The request is over; what it kept is gone.
Finish(t) ==
    /\ Goto(t, "idle")
    /\ op' = [op EXCEPT ![t] = "none"]
    /\ ans' = [ans EXCEPT ![t] = 0]
    /\ seen' = [seen EXCEPT ![t] = Columns(NewRow)]
    /\ tries' = [tries EXCEPT ![t] = 0]
    /\ out' = [out EXCEPT ![t] = "none"]
    /\ got' = [got EXCEPT ![t] = "none"]

\* An exception leaves the handler: roll back, and let go of the lock that the
\* with-statement around it may hold.
Raise(t, k) ==
    /\ DbRollback(t)
    /\ lockOwner' = Release(t, k)
    /\ Finish(t)
    /\ UNCHANGED <<cache, aggStarted, moved>>

RequestInit ==
    /\ pc = [t \in Txn |-> "idle"]
    /\ op = [t \in Txn |-> "none"]
    /\ ans = [t \in Txn |-> 0]
    /\ seen = [t \in Txn |-> Columns(NewRow)]
    /\ tries = [t \in Txn |-> 0]
    /\ out = [t \in Txn |-> "none"]
    /\ got = [t \in Txn |-> "none"]
    /\ lockOwner = [k \in LockKeys |-> NoTxn]
    /\ cache = NoCache
    /\ aggStarted = FALSE
    /\ moved = <<>>
=============================================================================
