---------------------------- MODULE SubmissionDb ----------------------------
(***************************************************************************)
(* One row of interview_submissions, its status audit trail and its        *)
(* interview_exchanges, as PostgreSQL keeps them for transactions that run *)
(* at READ COMMITTED.  A transaction sees committed data and its own       *)
(* writes; an UPDATE of the row waits for the transaction that holds the   *)
(* row lock and re-evaluates its WHERE clause on what that one leaves; an  *)
(* INSERT of a duplicate key waits for the other inserter.                 *)
(***************************************************************************)
EXTENDS Naturals, Sequences

CONSTANTS
    Txn,            \* requests in flight, each one with a transaction of its own
    NoTxn,          \* nobody
    TotalQuestions  \* total_questions of the frozen template snapshot

ASSUME TxnAssumption == NoTxn \notin Txn

\* TemplateSnapshot rejects a template without questions.
ASSUME QuestionsAssumption == TotalQuestions \in Nat \ {0}

VARIABLES
    row,        \* the committed submission row, with its audit trail
    draft,      \* the row as its uncommitted writer sees it; = row without one
    writer,     \* the transaction that holds the row lock, or NoTxn
    exchanges,  \* sequence_order of the committed exchanges, in commit order
    inserting   \* sequence_order each transaction has inserted, 0 for none

dbVars == <<row, draft, writer, exchanges, inserting>>

-----------------------------------------------------------------------------
(* The lifecycle of a submission.                                          *)

Statuses ==
    {"pending", "in_progress", "completed", "expired", "cancelled", "reviewed"}

\* _ALLOWED_TRANSITIONS of the state machine in the application.
AllowedTransitions ==
    [s \in Statuses |->
        CASE s = "pending" -> {"in_progress", "cancelled"}
          [] s = "in_progress" -> {"completed", "expired", "cancelled"}
          [] s \in {"completed", "expired", "cancelled"} -> {"reviewed"}
          [] OTHER -> {}]

ValidTransition(current, target) == target \in AllowedTransitions[current]

\* interview_submission_allowed_transitions, the table the trigger consults.
DbAllowedTransitions ==
    {<<"pending", "in_progress">>, <<"pending", "cancelled">>,
     <<"in_progress", "completed">>, <<"in_progress", "expired">>,
     <<"in_progress", "cancelled">>, <<"completed", "reviewed">>,
     <<"expired", "reviewed">>, <<"cancelled", "reviewed">>}

\* Mutation: the trigger is not installed.
AnyUpdateAccepted(r, target) == TRUE

\* BEFORE UPDATE OF status: writing the status it already has passes.
TriggerAccepts(r, target) ==
    r.status # target => <<r.status, target>> \in DbAllowedTransitions

Actors == {"candidate", "admin", "system:auto_complete", "system:expiry_worker"}

\* SET status, version = version + 1; the AFTER trigger audits a real change.
WithStatus(r, target, actor) ==
    [status |-> target,
     version |-> r.version + 1,
     seq |-> r.seq,
     trail |-> IF r.status = target THEN r.trail
               ELSE Append(r.trail, [from |-> r.status, to |-> target,
                                     actor |-> actor])]

-----------------------------------------------------------------------------
(* Transactions.                                                           *)

Exchanges == {exchanges[i] : i \in DOMAIN exchanges}

Visible(t) == IF writer = t THEN draft ELSE row

\* The row lock is free or already ours.
MayWrite(t) == writer \in {t, NoTxn}

WriteRow(t, new) ==
    /\ MayWrite(t)
    /\ writer' = t
    /\ draft' = new
    /\ UNCHANGED <<row, exchanges, inserting>>

\* Mutation: no UNIQUE constraint on the exchanges.
KeyNeverPending(t, n) == FALSE

\* UNIQUE(interview_submission_id, sequence_order): an uncommitted insert of
\* the same key by another transaction makes this one wait.
KeyPending(t, n) == \E u \in Txn \ {t} : inserting[u] = n

DbCommit(t) ==
    /\ row' = IF writer = t THEN draft ELSE row
    /\ writer' = IF writer = t THEN NoTxn ELSE writer
    /\ exchanges' = IF inserting[t] = 0 THEN exchanges
                    ELSE Append(exchanges, inserting[t])
    /\ inserting' = [inserting EXCEPT ![t] = 0]
    /\ draft' = draft

\* Mutation: the connection goes back to its pool with the transaction open.
RollbackKeepsRowLock(t) ==
    /\ inserting' = [inserting EXCEPT ![t] = 0]
    /\ UNCHANGED <<row, draft, writer, exchanges>>

DbRollback(t) ==
    /\ draft' = IF writer = t THEN row ELSE draft
    /\ writer' = IF writer = t THEN NoTxn ELSE writer
    /\ inserting' = [inserting EXCEPT ![t] = 0]
    /\ UNCHANGED <<row, exchanges>>

NewRow == [status |-> "pending", version |-> 1, seq |-> 0, trail |-> <<>>]

DbInit ==
    /\ row = NewRow
    /\ draft = NewRow
    /\ writer = NoTxn
    /\ exchanges = <<>>
    /\ inserting = [t \in Txn |-> 0]

AuditEntry == [from : Statuses, to : Statuses, actor : Actors]

Rows == [status : Statuses, version : Nat, seq : 0..TotalQuestions,
         trail : Seq(AuditEntry)]

DbTypeOK ==
    /\ row \in Rows
    /\ draft \in Rows
    /\ writer \in Txn \cup {NoTxn}
    /\ exchanges \in Seq(1..TotalQuestions)
    /\ inserting \in [Txn -> 0..TotalQuestions]
=============================================================================
