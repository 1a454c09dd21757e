------------------------------ MODULE ContentDb ------------------------------
(***************************************************************************)
(* The tables that administrators and candidates edit, as PostgreSQL keeps *)
(* them at READ COMMITTED: one transaction per request, a fresh snapshot   *)
(* for every statement, row locks that last until the transaction ends,    *)
(* unique keys and foreign keys that make an INSERT wait for an undecided  *)
(* rival, and ON DELETE CASCADE.                                           *)
(*                                                                         *)
(* A row is a record whose id is <<table, name>>.  A statement is issued   *)
(* with the rows its snapshot shows and executed later, once the rows it   *)
(* needs are free: what is committed in between is what READ COMMITTED     *)
(* does not protect against.                                               *)
(***************************************************************************)
EXTENDS Integers, FiniteSets, TLC

CONSTANTS Requests   \* HTTP requests, each with a session of its own

VARIABLES rows,      \* the committed rows
          tx,        \* tx[r].adds: row versions r wrote, tx[r].gone: ids r locked
          stmt       \* stmt[r]: the statement r has issued and not finished

dbVars == <<rows, tx, stmt>>

NoTx   == [adds |-> {}, gone |-> {}]
None   == <<>>   \* a NULL reference
NoStmt == [do |-> "none"]
Failed == [do |-> "failed"]

Table(x)    == x.id[1]
From(t, S)  == {x \in S : Table(x) = t}
Ids(S)      == {x.id : x \in S}

View(r)     == {x \in rows : x.id \notin tx[r].gone} \cup tx[r].adds
Deleted(r)  == tx[r].gone \ Ids(tx[r].adds)

(***************************************************************************)
(* The constraints of docs/schema.sql.                                     *)
(***************************************************************************)

\* Mutant: the partial unique indexes are missing.
KeyWithoutActive(x) ==
    CASE Table(x) = "template" -> <<"template", x.org, x.name, x.version>>
      [] Table(x) \in {"rubric", "role", "topic"} -> <<Table(x), x.org, x.name>>
      [] Table(x) = "coding_topic" /\ x.parent # None -> <<Table(x), x.org, x.parent, x.name>>
      [] Table(x) = "override" -> <<"override", x.org, x.base>>
      [] Table(x) = "mapping"  -> <<"mapping", x.window, x.role, x.template>>
      [] Table(x) = "user" -> <<"user", x.email>>
      [] Table(x) \in {"admin", "candidate"} -> <<Table(x), x.user>>
      [] OTHER -> x.id

\* What the unique indexes compare.  NULL parents are distinct; decks and
\* roadmaps are unique per candidate only while they are active.
KeyOf(x) ==
    CASE Table(x) = "template" -> <<"template", x.org, x.name, x.version>>
      [] Table(x) \in {"rubric", "role", "topic"} -> <<Table(x), x.org, x.name>>
      [] Table(x) = "coding_topic" /\ x.parent # None -> <<Table(x), x.org, x.parent, x.name>>
      [] Table(x) = "override" -> <<"override", x.org, x.base>>
      [] Table(x) = "mapping"  -> <<"mapping", x.window, x.role, x.template>>
      [] Table(x) \in {"deck", "roadmap"} /\ x.active -> <<Table(x), "active">>
      [] Table(x) = "user" -> <<"user", x.email>>
      [] Table(x) \in {"admin", "candidate"} -> <<Table(x), x.user>>
      [] OTHER -> x.id

\* The deletable rows a row refers to; both references cascade.
Parents(x) == IF Table(x) \in {"mapping", "submission"} THEN {x.window} ELSE {}

KeysAreUnique(S) ==
    \A x, y \in S : x # y => x.id # y.id /\ KeyOf(x) # KeyOf(y)
ParentsExist(S)  == \A x \in S : Parents(x) \subseteq Ids(S)

(***************************************************************************)
(* Statements.                                                             *)
(***************************************************************************)
Update(ids, cols)    == [do |-> "update", ids |-> ids, cols |-> cols, must |-> FALSE]
\* The ORM's UPDATE of one loaded row: a row count of 0 is a StaleDataError.
\* delete_override: a row count of 0 is a NotFoundError.
UpdateRow(id, cols)  == [do |-> "update", ids |-> {id}, cols |-> cols, must |-> TRUE]
Delete(ids, must)    == [do |-> "delete", ids |-> ids, must |-> must]
Insert(x)            == [do |-> "insert", new |-> x]

Issue(r, s) == stmt' = [stmt EXCEPT ![r] = s]
Fail(r)     == /\ Issue(r, Failed)
               /\ UNCHANGED <<rows, tx>>

\* The versions an UPDATE makes of the rows it finds.
Assigned(x, cols) == [c \in DOMAIN x |-> IF c \in DOMAIN cols THEN cols[c] ELSE x[c]]
NewVersions(r)    == {Assigned(x, stmt[r].cols) : x \in {y \in View(r) : y.id \in stmt[r].ids}}

\* The rows whose keys q's undecided transaction adds or gives up.
Undecided(q) == tx[q].adds \cup {y \in rows : y.id \in tx[q].gone}
SameKey(x, y) == x.id # y.id /\ KeyOf(x) = KeyOf(y)

\* q holds a row lock, a key or a reference that r's statement has to wait for.
Blocks(q, r) ==
    LET s == stmt[r]
    IN  /\ q # r
        /\ CASE s.do = "insert" ->
                  \/ Parents(s.new) \cap Deleted(q) # {}
                  \/ \E x \in Undecided(q) : KeyOf(x) = KeyOf(s.new)
             [] s.do = "update" ->
                  \/ s.ids \cap tx[q].gone # {}
                  \/ \E x \in Undecided(q), new \in NewVersions(r) : SameKey(x, new)
             [] s.do = "delete" ->
                  \/ s.ids \cap tx[q].gone # {}
                  \/ \E x \in tx[q].adds : Parents(x) \cap s.ids # {}
             [] OTHER -> FALSE

Free(r) == stmt[r].do \in {"insert", "update", "delete"} /\ \A q \in Requests : ~Blocks(q, r)

Write(r, removed, added) ==
    tx' = [tx EXCEPT ![r] = [adds |-> {x \in @.adds : x.id \notin removed} \cup added,
                             gone |-> @.gone \cup removed]]

ExecUpdate(r) ==
    /\ Free(r) /\ stmt[r].do = "update"
    /\ LET new == NewVersions(r)
       IN  IF \/ stmt[r].must /\ new = {}
              \/ \E x \in new, y \in View(r) : SameKey(x, y)
           THEN Fail(r)
           ELSE /\ Write(r, Ids(new), new)
                /\ Issue(r, NoStmt)
                /\ UNCHANGED rows

\* A DELETE of rows that others refer to goes on as a DELETE of those.
ExecDelete(r) ==
    /\ Free(r) /\ stmt[r].do = "delete"
    /\ LET hit      == Ids({x \in View(r) : x.id \in stmt[r].ids})
           children == {x \in View(r) : Parents(x) \cap hit # {}}
       IN  IF stmt[r].must /\ hit = {}
           THEN Fail(r)
           ELSE /\ Write(r, hit, {})
                /\ Issue(r, IF children = {} THEN NoStmt ELSE Delete(Ids(children), FALSE))
                /\ UNCHANGED rows

\* Mutant: no unique index and no foreign key is checked.
ExecInsertUnchecked(r) ==
    /\ Free(r) /\ stmt[r].do = "insert"
    /\ Write(r, {}, {stmt[r].new})
    /\ Issue(r, NoStmt)
    /\ UNCHANGED rows

ExecInsert(r) ==
    /\ Free(r) /\ stmt[r].do = "insert"
    /\ LET x == stmt[r].new
       IN  IF Parents(x) \subseteq Ids(View(r)) /\ \A y \in View(r) : KeyOf(y) # KeyOf(x)
           THEN /\ Write(r, {}, {x})
                /\ Issue(r, NoStmt)
                /\ UNCHANGED rows
           ELSE Fail(r)

\* PostgreSQL breaks a cycle of waiting transactions by failing one of them.
BreakDeadlock(r) ==
    /\ \E q \in Requests :
          Blocks(q, r) /\ \/ Blocks(r, q)
                          \/ \E p \in Requests : Blocks(p, q) /\ Blocks(r, p)
    /\ Fail(r)

\* COMMIT flushes what was only added to the session.
CommitTx(r, added) ==
    /\ stmt[r] = NoStmt
    /\ rows' = View(r) \cup added
    /\ tx' = [tx EXCEPT ![r] = NoTx]
    /\ UNCHANGED stmt

\* Mutant: the locks outlive the transaction.
RollbackKeepsLocks(r) ==
    /\ tx' = [tx EXCEPT ![r].adds = {}]
    /\ Issue(r, NoStmt)
    /\ UNCHANGED rows

RollbackTx(r) ==
    /\ tx' = [tx EXCEPT ![r] = NoTx]
    /\ Issue(r, NoStmt)
    /\ UNCHANGED rows
=============================================================================
