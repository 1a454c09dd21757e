---------------------------- MODULE ContentRequest ----------------------------
(***************************************************************************)
(* How one request writes through SQLAlchemy: it begins an operation with  *)
(* the steps still to do, holds the entities it has loaded, and ends in    *)
(* the commit of get_db_session_with_commit or in its rollback.            *)
(*                                                                         *)
(* The repositories of the administration return dataclasses: the ORM row  *)
(* is let go after every read, so update() reads the row AGAIN and assigns *)
(* every column of the entity; the flush writes the columns that differ    *)
(* from that second read.                                                  *)
(***************************************************************************)
EXTENDS ContentDb, Sequences

(***************************************************************************)
(* Who a request is made for, and what an administrator or a candidate may *)
(* do: the identity context and the checks of shared/auth_context and of   *)
(* admin/domain/authorization.                                             *)
(***************************************************************************)
CONSTANTS SuperOrg   \* SUPER_ORG_ID: the organization whose content is everyone's base

Nobody == [type |-> "none", org |-> "none", role |-> "none", candidate |-> "none"]
AdminIdentity(org, role) == [type |-> "admin", org |-> org, role |-> role, candidate |-> "none"]
CandidateIdentity(c)     == [type |-> "candidate", org |-> "none", role |-> "none", candidate |-> c]

\* __post_init__: an identity is an administrator's or a candidate's, never both.
WellFormed(by) ==
    \/ by.type = "admin" /\ by.org # "none" /\ by.role \in {"superadmin", "admin", "read_only"}
       /\ by.candidate = "none"
    \/ by.type = "candidate" /\ by.org = "none" /\ by.role = "none" /\ by.candidate # "none"

IsAdmin(by)      == by.type = "admin"
IsSuperadmin(by) == IsAdmin(by) /\ by.role = "superadmin"

\* enforce_organization_scope, enforce_candidate_scope.
InOrganization(by, org)  == IsAdmin(by) /\ (IsSuperadmin(by) \/ by.org = org)
InCandidateScope(by, c)  == by.type = "candidate" /\ by.candidate = c

\* Mutant: an operation that changes something is checked like a read.
MayChangeAsRead(by, org) == InOrganization(by, org)

\* authorize_admin_operation of an operation that changes something.
MayChange(by, org) == by.role # "read_only" /\ InOrganization(by, org)

\* Base content is the superadmin's, other content its organization's.
MayMutate(by, org) == IF org = SuperOrg THEN IsSuperadmin(by) ELSE MayChange(by, org)

\* authorize_override_operation: base content, overridden for one's own organization.
MayOverride(by, base) == base.org = SuperOrg /\ MayChange(by, by.org)

\* What get_* finds: an organization's own content and the base content.
Visible(by, x) == IsSuperadmin(by) \/ x.org \in {by.org, SuperOrg}

\* What list_* and count_* are filtered by, the superadmin's too.
Listed(by, S) == {x \in S : x.org \in {by.org, SuperOrg}}

-----------------------------------------------------------------------------
(* The course of a request.                                                *)
VARIABLES workload,   \* the operations clients call in this behaviour; never changes
          job,        \* job[r]: what r does and for whom, its steps to do, the entity it
                      \* holds, the rows it creates, the ids a walk has passed
          shown       \* every <<template, text>> a candidate was offered: committed while active

vars == <<rows, tx, stmt, workload, job, shown>>

NewJob == [do |-> "none", by |-> Nobody, todo |-> <<"begin">>,
           entity |-> <<>>, create |-> <<>>, walk |-> <<>>]

At(r, step) == stmt[r] = NoStmt /\ job[r].todo # <<>> /\ Head(job[r].todo) = step
Ended(r)    == job[r].todo = <<>>

\* The session is closed; only what the request was is remembered.
End(r)      == job' = [job EXCEPT ![r] = [NewJob EXCEPT !.do = job[r].do, !.todo = <<>>]]

Start(r, by, op, entity, create, todo) ==
    /\ At(r, "begin")
    /\ op \in workload
    /\ job' = [job EXCEPT ![r] = [do |-> op, by |-> by, todo |-> todo, entity |-> entity,
                                  create |-> create, walk |-> <<>>]]
    /\ UNCHANGED <<workload, shown>>

\* The first read of an operation: the entity it holds and the steps it leads to.
Begin(r, by, op, entity, create, todo) ==
    Start(r, by, op, entity, create, todo) /\ UNCHANGED dbVars

Pass(r) == job' = [job EXCEPT ![r].todo = Tail(@)]

Active(x)         == x.active
Overrides(r, id)  == {x \in From("override", View(r)) : x.base = id}
ChildrenOf(r, id) == {x \in From("dimension", View(r)) : x.rubric = id}
                       \cup {x \in From("mapping", View(r)) : x.window = id}

(***************************************************************************)
(* repository.update(entity): read the row again, assign every column,     *)
(* flush what differs.  When the row is gone the mapper fills a new model  *)
(* that is never added; update_override() assigns to None and fails.       *)
(***************************************************************************)
Changed(entity, row) == [c \in {d \in DOMAIN row : entity[d] # row[d]} |-> entity[c]]

Flush(r) ==
    /\ At(r, "flush")
    /\ LET entity == job[r].entity
           row    == {x \in View(r) : x.id = entity.id}
       IN  /\ IF row = {}
              THEN Issue(r, IF Table(entity) = "override" THEN Failed ELSE NoStmt)
              ELSE \E x \in row :
                     Issue(r, IF entity = x THEN NoStmt
                              ELSE UpdateRow(x.id, Changed(entity, x)))
    /\ Pass(r)
    /\ UNCHANGED <<rows, tx, workload, shown>>

\* mark_overrides_stale: one bulk UPDATE of the active overrides.
MarkStale(r) ==
    /\ At(r, "mark_stale")
    /\ Issue(r, Update(Ids({x \in Overrides(r, job[r].entity.id) : x.active}),
                       [active |-> FALSE]))
    /\ Pass(r)
    /\ UNCHANGED <<rows, tx, workload, shown>>

\* set_dimensions and set_mappings: one bulk DELETE of the children ...
ClearChildren(r) ==
    /\ At(r, "clear")
    /\ Issue(r, Delete(Ids(ChildrenOf(r, job[r].entity.id)), FALSE))
    /\ Pass(r)
    /\ UNCHANGED <<rows, tx, workload, shown>>

\* ... and the INSERT of what was added to the session.
InsertNext(r) ==
    /\ At(r, "insert")
    /\ Issue(r, Insert(Head(job[r].create)))
    /\ job' = [job EXCEPT ![r].todo = Tail(@), ![r].create = Tail(@)]
    /\ UNCHANGED <<rows, tx, workload, shown>>

DeleteEntity(r) ==
    /\ At(r, "delete")
    /\ Issue(r, Delete({job[r].entity.id}, Table(job[r].entity) = "override"))
    /\ Pass(r)
    /\ UNCHANGED <<rows, tx, workload, shown>>

Offered(S) == {<<x.id, x.text>> : x \in {y \in From("template", S) : y.active}}

\* audit.log: a row of the same transaction, flushed by its commit.
AuditRow(r) == [id |-> <<"audit", r>>, action |-> job[r].do, about |-> job[r].entity.id]

\* Mutant: the audit row is added after the commit and lost with the session.
CommitUnlogged(r) ==
    /\ At(r, "commit") \/ At(r, "log_and_commit")
    /\ CommitTx(r, {})
    /\ shown' = shown \cup Offered(rows')
    /\ End(r)
    /\ UNCHANGED workload

Commit(r) ==
    /\ At(r, "commit") \/ At(r, "log_and_commit")
    /\ CommitTx(r, IF At(r, "commit") THEN {} ELSE {AuditRow(r)})
    /\ shown' = shown \cup Offered(rows')
    /\ End(r)
    /\ UNCHANGED workload

Rollback(r) ==
    /\ RollbackTx(r)
    /\ End(r)
    /\ UNCHANGED <<workload, shown>>

\* get_db_session: the session is closed and never committed.
CloseSession(r) == At(r, "close") /\ Rollback(r)

\* An exception of the database ends the request.
EndFailed(r) == stmt[r] = Failed /\ Rollback(r)

\* So does one of the code (a refused validation, a provider that fails) or a
\* crash of the worker, wherever it comes.
Abandon(r) == ~Ended(r) /\ stmt[r] # Failed /\ Rollback(r)
=============================================================================
