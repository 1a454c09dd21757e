-------------------------- MODULE ContentRequestProofs --------------------------
(***************************************************************************)
(* What each request of ContentSystem keeps by itself, for any number of   *)
(* requests and any rows they begin with: the discipline that all other    *)
(* theorems of ContentSystem rest on.                                      *)
(*                                                                         *)
(* It says which steps a request still has to do, what the entity it holds *)
(* and the rows it is about to create are good for, and which rows and     *)
(* columns a statement may touch.  Every operation is visited once, here;  *)
(* what follows from the statements alone is in ContentSystemProofs.       *)
(***************************************************************************)
EXTENDS ContentSystem, FiniteSetTheorems, SequenceTheorems, TLAPS

-----------------------------------------------------------------------------
(***************************************************************************)
(* What the invariant is made of.                                          *)
(***************************************************************************)
\* The columns an UPDATE may set.
Mutable == [template     |-> {"text", "active"},
            override     |-> {"text", "active"},
            rubric       |-> {"text", "active"},
            dimension    |-> {},
            window       |-> {"text"},
            mapping      |-> {},
            role         |-> {"name"},
            topic        |-> {"name", "parent"},
            coding_topic |-> {},
            question     |-> {"text"},
            problem      |-> {"text"},
            audit        |-> {},
            submission   |-> {},
            deck         |-> {"active", "done", "reached"},
            roadmap      |-> {"active", "done", "reached"},
            insight      |-> {},
            user         |-> {"name", "secret", "version", "seen"},
            admin        |-> {},
            candidate    |-> {"skills", "bio"},
            token        |-> {"revoked"},
            settings     |-> {"notify", "privacy"},
            resume       |-> {"parsed", "analysed"},
            event        |-> {},
            risk         |-> {"counted", "total", "flagged"}]

Tables    == DOMAIN Columns
OrgTables == {t \in Tables : "org" \in Columns[t]}
Deletable == {"override", "window", "dimension", "mapping", "submission"}
Editable  == {"template", "override", "rubric", "window", "role", "topic", "question", "problem"}
Personal  == {"deck", "roadmap"}

\* Versions of one row agree on the columns no UPDATE sets.
Frozen(t)   == Columns[t] \ Mutable[t]
Agree(x, y) == \A c \in Frozen(Table(x)) : x[c] = y[c]
Versions    == rows \cup UNION {tx[q].adds : q \in Requests}

Tenant(by) == IsAdmin(by) /\ ~IsSuperadmin(by)
Steps(todo) == {todo[i] : i \in 1 .. Len(todo)}

\* An id that is named after a request is known to others once it has ended.
Known(r, id)  == id[2] \in Requests => id[2] = r \/ Ended(id[2])
Settled(id)   == id[2] \in Requests => Ended(id[2])

IsBase(id) == id[1] \in {"template", "question"} /\ \E y \in rows : y.id = id /\ y.org = SuperOrg

HasEarlierVersions(x) ==
    \A v \in 1 .. (x.version - 1) :
        \E y \in rows : Table(y) = "template" /\ y.name = x.name /\ y.org = x.org /\ y.version = v

\* What r may insert for by.
NewRow(r, by, x) ==
    /\ IsRow(x)
    /\ Table(x) \notin {"audit", "risk", "event"}
    /\ x.id[2] = r \/ x.id = SettingsId
    /\ Tenant(by) /\ Table(x) \in OrgTables => x.org = by.org /\ by.role = "admin"
    /\ Table(x) = "override" => IsBase(x.base)
    /\ Table(x) = "submission" => <<x.template, x.text>> \in shown
    /\ Table(x) \in Personal => x.active = TRUE
    /\ Table(x) = "template" => HasEarlierVersions(x)
    /\ Table(x) = "candidate" => x.user[2] = r

\* An event that r has taken from its batch.
NewEventRow(r, x) == IsRow(x) /\ Table(x) = "event" /\ x.id[2] = r

\* What r may write back for by.
Edited(by, e) ==
    /\ IsRow(e)
    /\ Table(e) \in Editable
    /\ Settled(e.id)
    /\ \A y \in Versions : y.id = e.id => Agree(y, e)
    /\ Tenant(by) => e.org = by.org /\ by.role = "admin"
    /\ Table(e) = "template" => \E y \in rows : y.id = e.id

-----------------------------------------------------------------------------
(***************************************************************************)
(* Jobs.                                                                   *)
(***************************************************************************)
IngestSteps == {"take_event", "record", "compute"}
PageSteps   == {"read_windows", "read_mappings", "read_problems", "read_its_window",
                "read_its_template", "list_flagged", "count_events"}
LastSteps   == {"commit", "log_and_commit", "close", "raise"}
StepNames   == IngestSteps \cup PageSteps \cup LastSteps \cup
               {"begin", "check_in_use", "find_window", "flush", "mark_stale", "clear", "insert",
                "delete", "walk", "retire", "revoke_all", "write_profile", "save_text",
                "save_analysis"}
FinalSteps  == LastSteps \cup IngestSteps \cup {"begin", "check_in_use", "find_window"}

\* There is a row to create for every INSERT still to do, in the same order.
Matches(todo, create) ==
    /\ Len(create) <= 2
    /\ Len(create) = 0 => \A i \in 1 .. Len(todo) : todo[i] # "insert"
    /\ Len(create) = 1 =>
          \E i \in 1 .. Len(todo) : \A k \in 1 .. Len(todo) : todo[k] = "insert" <=> k = i
    /\ Len(create) = 2 =>
          \E i, j \in 1 .. Len(todo) :
             i < j /\ \A k \in 1 .. Len(todo) : todo[k] = "insert" <=> k \in {i, j}

IsJob(j) ==
    /\ j = [do |-> j.do, by |-> j.by, todo |-> j.todo,
            entity |-> j.entity, create |-> j.create, walk |-> j.walk]
    /\ j.todo \in Seq(StepNames)
    /\ j.create \in Seq({j.create[i] : i \in 1 .. Len(j.create)})
    /\ j.by = Nobody \/ WellFormed(j.by)

\* The steps of a job and the rows it creates fit together.
Script(j) ==
    /\ "begin" \in Steps(j.todo) => j = NewJob
    /\ \A i \in 1 .. Len(j.todo) : j.todo[i] \in LastSteps => i = Len(j.todo)
    /\ j.todo # <<>> => j.todo[Len(j.todo)] \in FinalSteps
    /\ IF Steps(j.todo) \cap IngestSteps # {}
       THEN /\ Len(j.todo) = 1
            /\ j.create \in Seq([kind : DOMAIN Rules, time : Int]) \ {<<>>}
            /\ ~IsAdmin(j.by)
       ELSE Matches(j.todo, j.create)
    /\ "retire" \in Steps(j.todo) =>
          /\ j.todo \in {<<"retire", "insert", "commit">>, <<"insert", "retire", "insert", "commit">>}
          /\ j.create[Len(j.create)].id[1] \in Personal
    /\ Steps(j.todo) \cap PageSteps # {} =>
          Steps(j.todo) \subseteq PageSteps \cup {"close"} /\ ~Tenant(j.by)
    /\ IsAdmin(j.by) /\ "commit" \in Steps(j.todo) =>
          \/ j.todo = <<"commit">>
          \/ j.do = "deactivate_template" /\ j.todo = <<"mark_stale", "commit">>

ToCreate(j) == IF "insert" \in Steps(j.todo) THEN {j.create[i] : i \in 1 .. Len(j.create)} ELSE {}

\* The record that makes an account of a user.
IsRecordOf(a, u) == Table(a) = u.type /\ a.user = u.id

Creates(r, j) ==
    /\ \A x \in ToCreate(j) : NewRow(r, j.by, x)
    /\ "insert" \in Steps(j.todo) =>
          /\ \A i, k \in 1 .. Len(j.create) : i # k => j.create[i].id # j.create[k].id
          /\ \A i \in 1 .. Len(j.create) : Table(j.create[i]) = "user" =>
                \E k \in (i + 1) .. Len(j.create) : IsRecordOf(j.create[k], j.create[i])

\* The entity is what the steps to do need.
Holds(r, j) ==
    LET e == j.entity
    IN  /\ Tenant(j.by) /\ "org" \in DOMAIN e => e.org \in {j.by.org, SuperOrg}
        /\ Steps(j.todo) \cap {"flush", "check_in_use"} # {} => Edited(j.by, e)
        /\ "check_in_use" \in Steps(j.todo) => Table(e) = "template" /\ j.todo = <<"check_in_use">>
        /\ "mark_stale" \in Steps(j.todo) =>
              /\ e.id[1] \in Editable /\ Settled(e.id)
              /\ \A y \in Versions : y.id = e.id => y.org = e.org
              /\ Tenant(j.by) => e.org = j.by.org /\ e.org # SuperOrg /\ j.by.role = "admin"
        /\ "delete" \in Steps(j.todo) => e.id[1] \in {"override", "window"} /\ Settled(e.id)
        /\ "find_window" \in Steps(j.todo) =>
              <<e.id, e.text>> \in shown /\ ~IsAdmin(j.by) /\ j.todo = <<"find_window">>
        /\ "write_profile" \in Steps(j.todo) =>
              e.id[1] = "candidate" /\ Known(r, e.id) /\ j.do = "update_profile"
        /\ {"save_text", "save_analysis"} \cap Steps(j.todo) # {} => e.id = <<"resume", r>>

JobOK(r, j) == IsJob(j) /\ Script(j) /\ Creates(r, j) /\ Holds(r, j)

-----------------------------------------------------------------------------
(***************************************************************************)
(* Statements and transactions.                                            *)
(***************************************************************************)
Updates(r, j, s) ==
    /\ \A id \in s.ids :
          /\ id[1] \in Tables /\ Mutable[id[1]] # {}
          /\ DOMAIN s.cols \subseteq Mutable[id[1]]
          /\ Known(r, id)
          /\ id[1] = "token" => "revoked" \in DOMAIN s.cols /\ s.cols.revoked = TRUE
          /\ id[1] \in Personal /\ "active" \in DOMAIN s.cols =>
                s.cols.active = FALSE /\ \E x \in ToCreate(j) : Table(x) = id[1]
    /\ Tenant(j.by) =>
          \A y \in Versions : y.id \in s.ids /\ Table(y) \in OrgTables =>
                                 y.org = j.by.org /\ j.by.role = "admin"
    /\ \/ \A id, other \in s.ids : id = other
       \/ s.cols = [active |-> FALSE]
       \/ s.cols = [revoked |-> TRUE]

StmtOK(r, j, s) ==
    /\ s.do \in {"none", "failed", "insert", "update", "delete"}
    /\ s.do = "none" => s = NoStmt
    /\ s.do = "update" => Updates(r, j, s)
    /\ s.do = "delete" => \A id \in s.ids : id[1] \in Deletable /\ Known(r, id)
    /\ s.do = "insert" => /\ NewRow(r, j.by, s.new) \/ NewEventRow(r, s.new)
                          /\ \A x \in ToCreate(j) : x.id # s.new.id
                          /\ Table(s.new) = "user" => \E a \in ToCreate(j) : IsRecordOf(a, s.new)

TxOK(r) ==
    /\ tx[r] = [adds |-> tx[r].adds, gone |-> tx[r].gone]
    /\ \A x \in tx[r].adds :
          /\ IsRow(x) /\ Known(r, x.id) /\ Table(x) # "audit"
          /\ Table(x) = "candidate" => Known(r, x.user)
    /\ IsFiniteSet(tx[r].adds)
    /\ \A id \in tx[r].gone :
          /\ id[1] \in Tables /\ (id[1] \in Deletable \/ Mutable[id[1]] # {})
          /\ id[1] \in Deletable \/ \E x \in tx[r].adds : x.id = id
    /\ Ended(r) \/ Steps(job[r].todo) \cap {"begin", "check_in_use"} # {} =>
          tx[r] = NoTx /\ stmt[r] = NoStmt
    /\ "find_window" \in Steps(job[r].todo) => tx[r] = NoTx /\ stmt[r].do \in {"none", "failed"}

\* No row r has written has an id r is about to give another one.
Unused(r) ==
    /\ \A x \in ToCreate(job[r]) : x.id = SettingsId \/ x.id \notin Ids(tx[r].adds)
    /\ stmt[r].do = "insert" =>
          stmt[r].new.id[1] \in {"settings", "event"} \/ stmt[r].new.id \notin Ids(tx[r].adds)

RowsOK ==
    /\ IsFiniteSet(rows)
    /\ \A x \in rows : IsRow(x) /\ Settled(x.id) /\ (Table(x) = "candidate" => Settled(x.user))
    /\ \A x, y \in Versions : x.id = y.id => Agree(x, y)
    /\ \A o \in Versions : Table(o) = "override" => IsBase(o.base)
    /\ \A s \in Versions : Table(s) = "submission" => <<s.template, s.text>> \in shown
    /\ Offered(rows) \subseteq shown
    /\ \A t \in Versions : Table(t) = "template" => HasEarlierVersions(t)

Shapes ==
    /\ DOMAIN job = Requests /\ DOMAIN stmt = Requests /\ DOMAIN tx = Requests
    /\ job = [r \in Requests |-> job[r]]
    /\ stmt = [r \in Requests |-> stmt[r]]
    /\ tx = [r \in Requests |-> tx[r]]

Discipline ==
    /\ Shapes
    /\ RowsOK
    /\ \A r \in Requests : JobOK(r, job[r]) /\ StmtOK(r, job[r], stmt[r]) /\ TxOK(r) /\ Unused(r)

-----------------------------------------------------------------------------
(***************************************************************************)
(* Lemmas about columns, scripts and steps.                                *)
(***************************************************************************)
LEMMA TableNames ==
    Tables = {"template", "override", "rubric", "dimension", "window", "mapping", "role", "topic",
              "coding_topic", "question", "problem", "audit", "submission", "deck", "roadmap",
              "insight", "user", "admin", "candidate", "token", "settings", "resume", "event",
              "risk"}
BY DEF Tables, Columns

LEMMA MutableColumns ==
    ASSUME NEW t \in Tables
    PROVE  /\ Mutable[t] \subseteq Columns[t]
           /\ "id" \in Columns[t] /\ "id" \notin Mutable[t]
           /\ "org" \notin Mutable[t] /\ "base" \notin Mutable[t]
BY TableNames DEF Columns, Mutable, TemplateColumns, OverrideColumns, RubricColumns,
   DimensionColumns, WindowColumns, MappingColumns, RoleColumns, TopicColumns, CodingTopicColumns,
   QuestionColumns, ProblemColumns, AuditColumns, PersonalColumns, InsightColumns, UserColumns,
   AdminColumns, CandidateColumns, TokenColumns, SettingsColumns, ResumeColumns, EventColumns,
   RiskColumns

LEMMA OrgTableNames ==
    OrgTables = {"template", "override", "rubric", "window", "role", "topic", "coding_topic",
                 "question", "problem", "admin"}
BY TableNames DEF OrgTables, Columns, TemplateColumns, OverrideColumns, RubricColumns,
   DimensionColumns, WindowColumns, MappingColumns, RoleColumns, TopicColumns, CodingTopicColumns,
   QuestionColumns, ProblemColumns, AuditColumns, PersonalColumns, InsightColumns, UserColumns,
   AdminColumns, CandidateColumns, TokenColumns, SettingsColumns, ResumeColumns, EventColumns,
   RiskColumns

LEMMA TailSteps ==
    ASSUME NEW s \in Seq(StepNames), s # <<>>
    PROVE  /\ Tail(s) \in Seq(StepNames)
           /\ Len(Tail(s)) = Len(s) - 1
           /\ \A i \in 1 .. Len(Tail(s)) : Tail(s)[i] = s[i + 1]
           /\ Steps(Tail(s)) \subseteq Steps(s)
           /\ Head(s) = s[1]
           /\ Head(s) \in Steps(s)
BY DEF Steps

-----------------------------------------------------------------------------
(***************************************************************************)
(* What a step of p leaves as it is for everyone.                          *)
(***************************************************************************)
Grows(p) ==
    /\ \A q \in Requests : Ended(q) => Ended(q)'
    /\ shown \subseteq shown'
    /\ \A y \in rows : Table(y) \notin Deletable => \E z \in rows' : z.id = y.id /\ Agree(z, y)
    /\ \A y \in Versions' :
          \/ \E x \in Versions : x.id = y.id /\ Agree(x, y)
          \/ y.id[2] = p /\ ~Ended(p)
          \/ Table(y) = "settings"

LEMMA FrozenColumns ==
    /\ {"name", "org", "version", "id"} \subseteq Frozen("template")
    /\ \A t \in OrgTables : {"id", "org"} \subseteq Frozen(t)
    /\ \A t \in Tables : "id" \in Frozen(t)
    /\ Frozen("settings") = {"id"}
    /\ "base" \in Frozen("override")
    /\ {"template", "text", "window"} \subseteq Frozen("submission")
    /\ {"type", "email", "id"} \subseteq Frozen("user")
    /\ {"user", "org", "role"} \subseteq Frozen("admin")
    /\ "user" \in Frozen("candidate")
    /\ Frozen("event") = Columns["event"]
BY TableNames, OrgTableNames, MutableColumns DEF Frozen, Columns, Mutable, TemplateColumns, OrgTables,
   SettingsColumns, OverrideColumns, UserColumns, AdminColumns, CandidateColumns

LEMMA BaseStays ==
    ASSUME Discipline, NEW p \in Requests, Grows(p), NEW id, IsBase(id)
    PROVE  IsBase(id)'
<1>1. PICK y \in rows : y.id = id /\ y.org = SuperOrg
  BY DEF IsBase
<1>2. Table(y) \notin Deletable /\ Table(y) \in OrgTables
  BY <1>1, OrgTableNames DEF IsBase, Table, Deletable
<1>3. PICK z \in rows' : z.id = y.id /\ Agree(z, y)
  BY <1>2 DEF Grows
<1>4. z.org = y.org
  BY <1>2, <1>3, FrozenColumns DEF Agree, Table
<1>. QED
  BY <1>1, <1>3, <1>4 DEF IsBase

LEMMA EarlierVersionsStay ==
    ASSUME Discipline, NEW p \in Requests, Grows(p), NEW x, HasEarlierVersions(x)
    PROVE  HasEarlierVersions(x)'
<1>. SUFFICES ASSUME NEW v \in 1 .. (x.version - 1)
              PROVE  \E z \in rows' : Table(z) = "template" /\ z.name = x.name /\ z.org = x.org /\ z.version = v
  BY DEF HasEarlierVersions
<1>1. PICK y \in rows : Table(y) = "template" /\ y.name = x.name /\ y.org = x.org /\ y.version = v
  BY DEF HasEarlierVersions
<1>2. PICK z \in rows' : z.id = y.id /\ Agree(z, y)
  BY <1>1 DEF Grows, Deletable
<1>. QED
  BY <1>1, <1>2, FrozenColumns DEF Agree, Table

LEMMA KnownStays ==
    ASSUME NEW p \in Requests, Grows(p)
    PROVE  /\ \A r, id : Known(r, id) => Known(r, id)'
           /\ \A id : Settled(id) => Settled(id)'
BY DEF Grows, Known, Settled

LEMMA NewRowStays ==
    ASSUME Discipline, NEW p \in Requests, Grows(p), NEW r, NEW by, NEW x, NewRow(r, by, x)
    PROVE  NewRow(r, by, x)'
BY BaseStays, EarlierVersionsStay DEF NewRow, Grows

LEMMA EditedStays ==
    ASSUME Discipline, NEW p \in Requests, Grows(p), NEW by, NEW e, Edited(by, e)
    PROVE  Edited(by, e)'
<1>1. ASSUME NEW y \in Versions', y.id = e.id
      PROVE  Agree(y, e)
  <2>1. CASE \E x \in Versions : x.id = y.id /\ Agree(x, y)
    <3>1. PICK x \in Versions : x.id = y.id /\ Agree(x, y)
      BY <2>1
    <3>2. Agree(x, e)
      BY <1>1, <3>1 DEF Edited
    <3>. QED
      BY <1>1, <3>1, <3>2 DEF Agree, Table
  <2>2. CASE y.id[2] = p /\ ~Ended(p)
    BY <1>1, <2>2 DEF Edited, Settled
  <2>3. CASE Table(y) = "settings"
    BY <1>1, <2>3 DEF Edited, Table, Editable
  <2>. QED
    BY <2>1, <2>2, <2>3 DEF Grows
<1>2. Table(e) = "template" => \E z \in rows' : z.id = e.id
  BY DEF Edited, Grows, Table, Deletable
<1>3. Settled(e.id)'
  BY KnownStays DEF Edited
<1>. QED
  BY <1>1, <1>2, <1>3 DEF Edited
LEMMA HeldStays ==
    ASSUME Discipline, NEW p \in Requests, Grows(p), NEW r, NEW j, Holds(r, j)
    PROVE  Holds(r, j)'
<1>1. Steps(j.todo) \cap {"flush", "check_in_use"} # {} => Edited(j.by, j.entity)'
  BY EditedStays DEF Holds
<1>2. ASSUME "mark_stale" \in Steps(j.todo), NEW y \in Versions', y.id = j.entity.id
      PROVE  y.org = j.entity.org
  <2>. j.entity.id[1] \in Editable /\ Settled(j.entity.id)
    BY <1>2 DEF Holds
  <2>1. CASE \E x \in Versions : x.id = y.id /\ Agree(x, y)
    <3>1. PICK x \in Versions : x.id = y.id /\ Agree(x, y)
      BY <2>1
    <3>2. x.org = j.entity.org
      BY <1>2, <3>1 DEF Holds
    <3>3. Table(x) \in OrgTables
      BY <1>2, <3>1, OrgTableNames DEF Table, Editable
    <3>. QED
      BY <3>1, <3>2, <3>3, FrozenColumns DEF Agree
  <2>2. CASE y.id[2] = p /\ ~Ended(p)
    BY <1>2, <2>2 DEF Settled
  <2>3. CASE Table(y) = "settings"
    BY <1>2, <2>3 DEF Table, Editable
  <2>. QED
    BY <2>1, <2>2, <2>3 DEF Grows
<1>3. shown \subseteq shown'
  BY DEF Grows
<1>. QED
  BY <1>1, <1>2, <1>3, KnownStays DEF Holds

LEMMA JobStays ==
    ASSUME Discipline, NEW p \in Requests, Grows(p), NEW r, NEW j, JobOK(r, j)
    PROVE  JobOK(r, j)'
<1>1. Creates(r, j)'
  BY NewRowStays DEF JobOK, Creates
<1>. QED
  BY <1>1, HeldStays DEF JobOK

LEMMA StatementStays ==
    ASSUME Discipline, NEW p \in Requests, Grows(p), NEW r \in Requests, NEW j, NEW s, StmtOK(r, j, s),
           r # p \/ Versions' = Versions
    PROVE  StmtOK(r, j, s)'
<1>1. ASSUME s.do = "update" PROVE Updates(r, j, s)'
  <2>. Updates(r, j, s)
    BY <1>1 DEF StmtOK
  <2>1. ASSUME Tenant(j.by), NEW y \in Versions', y.id \in s.ids, Table(y) \in OrgTables
        PROVE  y.org = j.by.org /\ j.by.role = "admin"
    <3>1. CASE \E x \in Versions : x.id = y.id /\ Agree(x, y)
      <4>1. PICK x \in Versions : x.id = y.id /\ Agree(x, y)
        BY <3>1
      <4>2. x.org = j.by.org /\ j.by.role = "admin"
        BY <2>1, <4>1 DEF Updates, Table
      <4>. QED
        BY <2>1, <4>1, <4>2, FrozenColumns DEF Agree, Table
    <3>2. CASE y.id[2] = p /\ ~Ended(p)
      <4>1. CASE r # p
        BY <2>1, <3>2, <4>1 DEF Updates, Known
      <4>2. CASE Versions' = Versions
        BY <2>1, <4>2 DEF Updates
      <4>. QED
        BY <4>1, <4>2
    <3>3. CASE Table(y) = "settings"
      BY <2>1, <3>3, OrgTableNames
    <3>. QED
      BY <3>1, <3>2, <3>3 DEF Grows
  <2>2. \A id \in s.ids : Known(r, id)'
    BY KnownStays DEF Updates
  <2>. QED
    BY <2>1, <2>2 DEF Updates
<1>2. s.do = "delete" => \A id \in s.ids : id[1] \in Deletable /\ Known(r, id)'
  BY KnownStays DEF StmtOK
<1>3. s.do = "insert" => NewRow(r, j.by, s.new)' \/ NewEventRow(r, s.new)
  BY NewRowStays DEF StmtOK
<1>. QED
  BY <1>1, <1>2, <1>3 DEF StmtOK, NewEventRow

LEMMA TransactionStays ==
    ASSUME Discipline, NEW p \in Requests, Grows(p), NEW r \in Requests,
           job'[r] = job[r], stmt'[r] = stmt[r], tx'[r] = tx[r]
    PROVE  TxOK(r)' /\ Unused(r)'
<1>1. Ended(r)' => Ended(r)
  BY DEF Ended
<1>2. TxOK(r) /\ Unused(r)
  BY DEF Discipline
<1>3. \A x \in tx[r].adds : Known(r, x.id)' /\ (Table(x) = "candidate" => Known(r, x.user)')
  BY <1>2, KnownStays DEF TxOK
<1>. QED
  BY <1>1, <1>2, <1>3 DEF TxOK, Unused

\* The requests other than p keep what they have.
LEMMA OthersStay ==
    ASSUME Discipline, NEW p \in Requests, Grows(p),
           \A r \in Requests : r # p => job'[r] = job[r] /\ stmt'[r] = stmt[r] /\ tx'[r] = tx[r]
    PROVE  \A r \in Requests : r # p =>
              JobOK(r, job[r])' /\ StmtOK(r, job[r], stmt[r])' /\ TxOK(r)' /\ Unused(r)'
<1>. SUFFICES ASSUME NEW r \in Requests, r # p
              PROVE  JobOK(r, job[r])' /\ StmtOK(r, job[r], stmt[r])' /\ TxOK(r)' /\ Unused(r)'
  OBVIOUS
<1>1. TxOK(r)' /\ Unused(r)'
  BY TransactionStays
<1>2. \A j : JobOK(r, j) => JobOK(r, j)'
  BY JobStays
<1>3. \A j, s : StmtOK(r, j, s) => StmtOK(r, j, s)'
  BY StatementStays
<1>4. JobOK(r, job[r]) /\ StmtOK(r, job[r], stmt[r])
  BY DEF Discipline
<1>. DEFINE P(j) == JobOK(r, j)
            Q(j, s) == StmtOK(r, j, s)
<1>5. \A j : P(j) => P(j)'
  BY <1>2
<1>. QED
  BY <1>1, <1>2, <1>3, <1>4 DEF JobOK

(***************************************************************************)
(* A step that only changes the job and the statement of p.                *)
(***************************************************************************)
LEMMA JobStep ==
    ASSUME Discipline, NEW p \in Requests, NEW j, NEW s,
           job' = [job EXCEPT ![p] = j], stmt' = [stmt EXCEPT ![p] = s], UNCHANGED <<rows, tx, shown>>,
           ~Ended(p), j.todo # <<>>,
           JobOK(p, j), StmtOK(p, j, s),
           Steps(j.todo) \cap {"begin", "check_in_use"} # {} => tx[p] = NoTx /\ s = NoStmt,
           "find_window" \in Steps(j.todo) => tx[p] = NoTx /\ s.do \in {"none", "failed"},
           \A x \in ToCreate(j) : x.id = SettingsId \/ x.id \notin Ids(tx[p].adds),
           s.do = "insert" => s.new.id[1] \in {"settings", "event"} \/ s.new.id \notin Ids(tx[p].adds)
    PROVE  Discipline' /\ Grows(p)
<1>1. Shapes /\ RowsOK
  BY DEF Discipline
<1>2. /\ job'[p] = j /\ stmt'[p] = s
      /\ \A r \in Requests : r # p => job'[r] = job[r] /\ stmt'[r] = stmt[r] /\ tx'[r] = tx[r]
  BY <1>1 DEF Shapes
<1>3. \A r \in Requests : Ended(r)' <=> Ended(r)
  BY <1>2 DEF Ended
<1>4. Versions' = Versions
  BY DEF Versions
<1>5. Grows(p)
  BY <1>3, <1>4 DEF Grows, Agree
<1>6. JobOK(p, j)' /\ StmtOK(p, j, s)'
  BY <1>4, <1>5, JobStays, StatementStays
<1>7. JobOK(p, job[p])' /\ StmtOK(p, job[p], stmt[p])'
  BY <1>2, <1>6
<1>8. TxOK(p)'
  <2>1. TxOK(p)
    BY DEF Discipline
  <2>2. \A x \in tx[p].adds : Known(p, x.id)' /\ (Table(x) = "candidate" => Known(p, x.user)')
    BY <2>1, <1>5, KnownStays DEF TxOK
  <2>. QED
    BY <2>1, <2>2, <1>2 DEF TxOK, Ended
<1>9. Unused(p)'
  BY <1>2 DEF Unused
<1>10. Shapes'
  BY <1>1 DEF Shapes
<1>11. RowsOK'
  <2>1. \A id : IsBase(id) => IsBase(id)'
    BY <1>5, BaseStays
  <2>2. \A x : HasEarlierVersions(x) => HasEarlierVersions(x)'
    BY <1>5, EarlierVersionsStay
  <2>3. \A id : Settled(id) => Settled(id)'
    BY <1>5, KnownStays
  <2>. QED
    BY <1>1, <1>4, <2>1, <2>2, <2>3 DEF RowsOK
<1>. QED
  BY <1>2, <1>5, <1>7, <1>8, <1>9, <1>10, <1>11, OthersStay DEF Discipline

-----------------------------------------------------------------------------
(***************************************************************************)
(* The beginning of a request.                                             *)
(***************************************************************************)
Logging == "log_and_commit"

LEMMA TupleOf1 ==
    ASSUME NEW S, NEW a \in S
    PROVE  /\ <<a>> \in Seq(S) /\ <<a>> # <<>> /\ Len(<<a>>) = 1
           /\ <<a>>[1] = a
<1>1. <<a>> \in Seq(S)
  OBVIOUS
<1>2. Len(<<a>>) = 1
  OBVIOUS
<1>3. <<a>>[1] = a
  OBVIOUS
<1>4. <<a>> # <<>>
  BY <1>2, EmptySeq
<1>. QED
  BY <1>1, <1>2, <1>3, <1>4

LEMMA TupleOf2 ==
    ASSUME NEW S, NEW a \in S, NEW b \in S
    PROVE  /\ <<a, b>> \in Seq(S) /\ <<a, b>> # <<>> /\ Len(<<a, b>>) = 2
           /\ <<a, b>>[1] = a /\ <<a, b>>[2] = b
<1>1. <<a, b>> \in Seq(S)
  OBVIOUS
<1>2. Len(<<a, b>>) = 2
  OBVIOUS
<1>3. <<a, b>>[1] = a /\ <<a, b>>[2] = b
  OBVIOUS
<1>4. <<a, b>> # <<>>
  BY <1>2, EmptySeq
<1>. QED
  BY <1>1, <1>2, <1>3, <1>4

LEMMA TupleOf3 ==
    ASSUME NEW S, NEW a \in S, NEW b \in S, NEW c \in S
    PROVE  /\ <<a, b, c>> \in Seq(S) /\ <<a, b, c>> # <<>> /\ Len(<<a, b, c>>) = 3
           /\ <<a, b, c>>[1] = a /\ <<a, b, c>>[2] = b /\ <<a, b, c>>[3] = c
<1>1. <<a, b, c>> \in Seq(S)
  OBVIOUS
<1>2. Len(<<a, b, c>>) = 3
  OBVIOUS
<1>3. <<a, b, c>>[1] = a /\ <<a, b, c>>[2] = b /\ <<a, b, c>>[3] = c
  OBVIOUS
<1>4. <<a, b, c>> # <<>>
  BY <1>2, EmptySeq
<1>. QED
  BY <1>1, <1>2, <1>3, <1>4

LEMMA TupleOf4 ==
    ASSUME NEW S, NEW a \in S, NEW b \in S, NEW c \in S, NEW d \in S
    PROVE  /\ <<a, b, c, d>> \in Seq(S) /\ <<a, b, c, d>> # <<>> /\ Len(<<a, b, c, d>>) = 4
           /\ <<a, b, c, d>>[1] = a /\ <<a, b, c, d>>[2] = b /\ <<a, b, c, d>>[3] = c /\ <<a, b, c, d>>[4] = d
<1>1. <<a, b, c, d>> \in Seq(S)
  OBVIOUS
<1>2. Len(<<a, b, c, d>>) = 4
  OBVIOUS
<1>3. <<a, b, c, d>>[1] = a /\ <<a, b, c, d>>[2] = b /\ <<a, b, c, d>>[3] = c /\ <<a, b, c, d>>[4] = d
  OBVIOUS
<1>4. <<a, b, c, d>> # <<>>
  BY <1>2, EmptySeq
<1>. QED
  BY <1>1, <1>2, <1>3, <1>4

\* The steps that go before the last, and the last ones, of an ordinary operation.
Special == IngestSteps \cup PageSteps \cup {"begin", "retire"}
Early   == {"flush", "mark_stale", "clear", "insert", "delete", "walk", "revoke_all",
            "write_profile", "save_text", "save_analysis"}
Late    == {"commit", Logging, "close", "raise", "check_in_use", "find_window"}

LEMMA EarlyAndLate ==
    /\ Early \cap (Special \cup LastSteps) = {}
    /\ Late \cap Special = {}
    /\ Late \subseteq FinalSteps
    /\ Early \cup Late \subseteq StepNames
    /\ "insert" \notin Late
BY DEF Early, Late, Special, LastSteps, FinalSteps, StepNames, IngestSteps, PageSteps, Logging

\* A script without the steps that need a special argument.
Plain(todo, create) ==
    /\ todo \in Seq(StepNames) /\ todo # <<>>
    /\ \A i \in 1 .. Len(todo) : todo[i] \in LastSteps => i = Len(todo)
    /\ todo[Len(todo)] \in FinalSteps
    /\ Steps(todo) \cap Special = {}
    /\ Matches(todo, create)

LEMMA ScriptOf1 ==
    ASSUME NEW a \in Late
    PROVE  /\ Steps(<<a>>) = {a}
           /\ Len(<<a>>) = 1
           /\ \A create : Matches(<<a>>, create) => Plain(<<a>>, create)
<1>. DEFINE todo == <<a>>
<1>1. /\ todo \in Seq(StepNames) /\ todo # <<>> /\ Len(todo) = 1
      /\ todo[1] = a
  BY TupleOf1, EarlyAndLate
<1>. HIDE DEF todo
<1>2. Steps(todo) = {a}
  BY <1>1 DEF Steps
<1>3. \A i \in 1 .. Len(todo) : todo[i] \in LastSteps => i = Len(todo)
  BY <1>1, EarlyAndLate
<1>4. Steps(todo) \cap Special = {}
  BY <1>2, EarlyAndLate
<1>5. todo[Len(todo)] \in FinalSteps
  BY <1>1, EarlyAndLate
<1>6. \A create : Matches(todo, create) => Plain(todo, create)
  BY <1>1, <1>3, <1>4, <1>5 DEF Plain
<1>. QED
  BY <1>1, <1>2, <1>6 DEF todo

LEMMA ScriptOf2 ==
    ASSUME NEW a \in Early, NEW b \in Late
    PROVE  /\ Steps(<<a, b>>) = {a, b}
           /\ Len(<<a, b>>) = 2
           /\ \A create : Matches(<<a, b>>, create) => Plain(<<a, b>>, create)
<1>. DEFINE todo == <<a, b>>
<1>1. /\ todo \in Seq(StepNames) /\ todo # <<>> /\ Len(todo) = 2
      /\ todo[1] = a /\ todo[2] = b
  BY TupleOf2, EarlyAndLate
<1>. HIDE DEF todo
<1>2. Steps(todo) = {a, b}
  BY <1>1 DEF Steps
<1>3. \A i \in 1 .. Len(todo) : todo[i] \in LastSteps => i = Len(todo)
  BY <1>1, EarlyAndLate
<1>4. Steps(todo) \cap Special = {}
  BY <1>2, EarlyAndLate
<1>5. todo[Len(todo)] \in FinalSteps
  BY <1>1, EarlyAndLate
<1>6. \A create : Matches(todo, create) => Plain(todo, create)
  BY <1>1, <1>3, <1>4, <1>5 DEF Plain
<1>. QED
  BY <1>1, <1>2, <1>6 DEF todo

LEMMA ScriptOf3 ==
    ASSUME NEW a \in Early, NEW b \in Early, NEW c \in Late
    PROVE  /\ Steps(<<a, b, c>>) = {a, b, c}
           /\ Len(<<a, b, c>>) = 3
           /\ \A create : Matches(<<a, b, c>>, create) => Plain(<<a, b, c>>, create)
<1>. DEFINE todo == <<a, b, c>>
<1>1. /\ todo \in Seq(StepNames) /\ todo # <<>> /\ Len(todo) = 3
      /\ todo[1] = a /\ todo[2] = b /\ todo[3] = c
  BY TupleOf3, EarlyAndLate
<1>. HIDE DEF todo
<1>2. Steps(todo) = {a, b, c}
  BY <1>1 DEF Steps
<1>3. \A i \in 1 .. Len(todo) : todo[i] \in LastSteps => i = Len(todo)
  BY <1>1, EarlyAndLate
<1>4. Steps(todo) \cap Special = {}
  BY <1>2, EarlyAndLate
<1>5. todo[Len(todo)] \in FinalSteps
  BY <1>1, EarlyAndLate
<1>6. \A create : Matches(todo, create) => Plain(todo, create)
  BY <1>1, <1>3, <1>4, <1>5 DEF Plain
<1>. QED
  BY <1>1, <1>2, <1>6 DEF todo

LEMMA ScriptOf4 ==
    ASSUME NEW a \in Early, NEW b \in Early, NEW c \in Early, NEW d \in Late
    PROVE  /\ Steps(<<a, b, c, d>>) = {a, b, c, d}
           /\ Len(<<a, b, c, d>>) = 4
           /\ \A create : Matches(<<a, b, c, d>>, create) => Plain(<<a, b, c, d>>, create)
<1>. DEFINE todo == <<a, b, c, d>>
<1>1. /\ todo \in Seq(StepNames) /\ todo # <<>> /\ Len(todo) = 4
      /\ todo[1] = a /\ todo[2] = b /\ todo[3] = c /\ todo[4] = d
  BY TupleOf4, EarlyAndLate
<1>. HIDE DEF todo
<1>2. Steps(todo) = {a, b, c, d}
  BY <1>1 DEF Steps
<1>3. \A i \in 1 .. Len(todo) : todo[i] \in LastSteps => i = Len(todo)
  BY <1>1, EarlyAndLate
<1>4. Steps(todo) \cap Special = {}
  BY <1>2, EarlyAndLate
<1>5. todo[Len(todo)] \in FinalSteps
  BY <1>1, EarlyAndLate
<1>6. \A create : Matches(todo, create) => Plain(todo, create)
  BY <1>1, <1>3, <1>4, <1>5 DEF Plain
<1>. QED
  BY <1>1, <1>2, <1>6 DEF todo

LEMMA Joined ==
    ASSUME NEW a, NEW b, NEW c, NEW d
    PROVE  <<a, b>> \o <<c, d>> = <<a, b, c, d>> /\ <<a, b>> \o <<c>> = <<a, b, c>>
<1>. DEFINE S == {a, b, c, d}
<1>1. /\ <<a, b>> \in Seq(S) /\ <<c, d>> \in Seq(S) /\ <<c>> \in Seq(S)
      /\ <<a, b, c, d>> \in Seq(S) /\ <<a, b, c>> \in Seq(S)
  OBVIOUS
<1>2. /\ <<a, b>> \o <<c, d>> \in Seq(S) /\ Len(<<a, b>> \o <<c, d>>) = 4
      /\ \A i \in 1 .. 4 : (<<a, b>> \o <<c, d>>)[i] = <<a, b, c, d>>[i]
  BY <1>1, ConcatProperties
<1>3. /\ <<a, b>> \o <<c>> \in Seq(S) /\ Len(<<a, b>> \o <<c>>) = 3
      /\ \A i \in 1 .. 3 : (<<a, b>> \o <<c>>)[i] = <<a, b, c>>[i]
  BY <1>1, ConcatProperties
<1>4. <<a, b>> \o <<c, d>> = <<a, b, c, d>>
  BY <1>1, <1>2, SeqEqual
<1>5. <<a, b>> \o <<c>> = <<a, b, c>>
  BY <1>1, <1>3, SeqEqual
<1>. QED
  BY <1>4, <1>5

LEMMA NoRowsMatch ==
    ASSUME NEW todo, "insert" \notin Steps(todo)
    PROVE  Matches(todo, <<>>)
BY DEF Matches, Steps

LEMMA OneRowMatches ==
    ASSUME NEW todo, NEW x, NEW i \in 1 .. Len(todo),
           \A l \in 1 .. Len(todo) : todo[l] = "insert" <=> l = i
    PROVE  Matches(todo, <<x>>)
<1>1. Len(<<x>>) = 1
  OBVIOUS
<1>. QED
  BY <1>1 DEF Matches

LEMMA TwoRowsMatch ==
    ASSUME NEW todo, NEW x, NEW y, NEW i \in 1 .. Len(todo), NEW k \in 1 .. Len(todo), i < k,
           \A l \in 1 .. Len(todo) : todo[l] = "insert" <=> l \in {i, k}
    PROVE  Matches(todo, <<x, y>>)
<1>1. Len(<<x, y>>) = 2
  OBVIOUS
<1>. QED
  BY <1>1 DEF Matches

\* The scripts without an INSERT.
LEMMA PlainOne ==
    ASSUME NEW a \in Late
    PROVE  Plain(<<a>>, <<>>) /\ Steps(<<a>>) = {a}
BY ScriptOf1, NoRowsMatch, EarlyAndLate

LEMMA PlainTwo ==
    ASSUME NEW a \in Early \ {"insert"}, NEW b \in Late
    PROVE  Plain(<<a, b>>, <<>>) /\ Steps(<<a, b>>) = {a, b}
BY ScriptOf2, NoRowsMatch, EarlyAndLate

LEMMA PlainThree ==
    ASSUME NEW a \in Early \ {"insert"}, NEW b \in Early \ {"insert"}, NEW c \in Late
    PROVE  Plain(<<a, b, c>>, <<>>) /\ Steps(<<a, b, c>>) = {a, b, c}
BY ScriptOf3, NoRowsMatch, EarlyAndLate

\* The scripts with one INSERT.
LEMMA PlainInsert ==
    ASSUME NEW b \in Late, NEW x
    PROVE  Plain(<<"insert", b>>, <<x>>) /\ Steps(<<"insert", b>>) = {"insert", b}
<1>. DEFINE todo == <<"insert", b>>
<1>1. "insert" \in Early /\ "insert" # b
  BY EarlyAndLate DEF Early
<1>2. Len(todo) = 2 /\ todo[1] = "insert" /\ todo[2] = b
  OBVIOUS
<1>. HIDE DEF todo
<1>3. Matches(todo, <<x>>)
  <2>1. \A l \in 1 .. Len(todo) : todo[l] = "insert" <=> l = 1
    BY <1>1, <1>2
  <2>. QED
    BY <1>2, <2>1, OneRowMatches
<1>. QED
  BY <1>1, <1>3, ScriptOf2 DEF todo

LEMMA PlainUpload ==
    ASSUME NEW x
    PROVE  /\ Plain(<<"insert", "save_text", "commit">>, <<x>>)
           /\ Steps(<<"insert", "save_text", "commit">>) = {"insert", "save_text", "commit"}
           /\ Plain(<<"insert", "save_text", "save_analysis", "commit">>, <<x>>)
           /\ Steps(<<"insert", "save_text", "save_analysis", "commit">>)
                  = {"insert", "save_text", "save_analysis", "commit"}
<1>1. {"insert", "save_text", "save_analysis"} \subseteq Early /\ "commit" \in Late
  BY DEF Early, Late
<1>0. "save_text" # "insert" /\ "save_analysis" # "insert" /\ "commit" # "insert"
  OBVIOUS
<1>2. Matches(<<"insert", "save_text", "commit">>, <<x>>)
  <2>. DEFINE todo == <<"insert", "save_text", "commit">>
  <2>1. Len(todo) = 3 /\ todo[1] = "insert" /\ todo[2] = "save_text" /\ todo[3] = "commit"
    OBVIOUS
  <2>. HIDE DEF todo
  <2>2. \A l \in 1 .. Len(todo) : todo[l] = "insert" <=> l = 1
    BY <1>0, <2>1
  <2>3. 1 \in 1 .. Len(todo)
    BY <2>1
  <2>4. Matches(todo, <<x>>)
    BY <2>2, <2>3, OneRowMatches
  <2>. QED
    BY <2>4 DEF todo
<1>3. Matches(<<"insert", "save_text", "save_analysis", "commit">>, <<x>>)
  <2>. DEFINE todo == <<"insert", "save_text", "save_analysis", "commit">>
  <2>1. /\ Len(todo) = 4 /\ todo[1] = "insert" /\ todo[2] = "save_text"
        /\ todo[3] = "save_analysis" /\ todo[4] = "commit"
    OBVIOUS
  <2>. HIDE DEF todo
  <2>2. \A l \in 1 .. Len(todo) : todo[l] = "insert" <=> l = 1
    BY <1>0, <2>1
  <2>3. 1 \in 1 .. Len(todo)
    BY <2>1
  <2>4. Matches(todo, <<x>>)
    BY <2>2, <2>3, OneRowMatches
  <2>. QED
    BY <2>4 DEF todo
<1>. QED
  BY <1>1, <1>2, <1>3, ScriptOf3, ScriptOf4

LEMMA PlainReplace ==
    ASSUME NEW x
    PROVE  /\ Plain(<<"flush", "clear", "insert", Logging>>, <<x>>)
           /\ Steps(<<"flush", "clear", "insert", Logging>>) = {"flush", "clear", "insert", Logging}
<1>. DEFINE todo == <<"flush", "clear", "insert", Logging>>
<1>1. {"flush", "clear", "insert"} \subseteq Early /\ Logging \in Late /\ Logging # "insert"
  BY DEF Early, Late, Logging
<1>2. Len(todo) = 4 /\ todo[1] = "flush" /\ todo[2] = "clear" /\ todo[3] = "insert" /\ todo[4] = Logging
  OBVIOUS
<1>. HIDE DEF todo
<1>3. \A l \in 1 .. Len(todo) : todo[l] = "insert" <=> l = 3
  BY <1>1, <1>2
<1>4. 3 \in 1 .. Len(todo)
  BY <1>2
<1>5. Matches(todo, <<x>>)
  BY <1>3, <1>4, OneRowMatches
<1>. QED
  BY <1>1, <1>5, ScriptOf4 DEF todo

\* The scripts with two.
LEMMA PlainInserts ==
    ASSUME NEW x, NEW y
    PROVE  /\ Plain(<<"insert", "insert", Logging>>, <<x, y>>)
           /\ Steps(<<"insert", "insert", Logging>>) = {"insert", Logging}
           /\ Plain(<<"insert", "clear", "insert", Logging>>, <<x, y>>)
           /\ Steps(<<"insert", "clear", "insert", Logging>>) = {"insert", "clear", Logging}
<1>1. {"clear", "insert"} \subseteq Early /\ Logging \in Late /\ Logging # "insert"
  BY DEF Early, Late, Logging
<1>2. Matches(<<"insert", "insert", Logging>>, <<x, y>>)
  <2>. DEFINE todo == <<"insert", "insert", Logging>>
  <2>1. Len(todo) = 3 /\ todo[1] = "insert" /\ todo[2] = "insert" /\ todo[3] = Logging
    OBVIOUS
  <2>. HIDE DEF todo
  <2>2. \A l \in 1 .. Len(todo) : todo[l] = "insert" <=> l \in {1, 2}
    BY <1>1, <2>1
  <2>3. 1 \in 1 .. Len(todo) /\ 2 \in 1 .. Len(todo) /\ 1 < 2
    BY <2>1
  <2>4. Matches(todo, <<x, y>>)
    BY <2>2, <2>3, TwoRowsMatch
  <2>. QED
    BY <2>4 DEF todo
<1>3. Matches(<<"insert", "clear", "insert", Logging>>, <<x, y>>)
  <2>. DEFINE todo == <<"insert", "clear", "insert", Logging>>
  <2>1. /\ Len(todo) = 4 /\ todo[1] = "insert" /\ todo[2] = "clear"
        /\ todo[3] = "insert" /\ todo[4] = Logging
    OBVIOUS
  <2>. HIDE DEF todo
  <2>2. \A l \in 1 .. Len(todo) : todo[l] = "insert" <=> l \in {1, 3}
    BY <1>1, <2>1
  <2>3. 1 \in 1 .. Len(todo) /\ 3 \in 1 .. Len(todo) /\ 1 < 3
    BY <2>1
  <2>4. Matches(todo, <<x, y>>)
    BY <2>2, <2>3, TwoRowsMatch
  <2>. QED
    BY <2>4 DEF todo
<1>4. Steps(<<"insert", "insert", Logging>>) = {"insert", Logging}
  BY <1>1, ScriptOf3
<1>5. Steps(<<"insert", "clear", "insert", Logging>>) = {"insert", "clear", Logging}
  BY <1>1, ScriptOf4
<1>. QED
  BY <1>1, <1>2, <1>3, <1>4, <1>5, ScriptOf3, ScriptOf4

LEMMA AtBegin ==
    ASSUME Discipline, NEW p \in Requests, At(p, "begin")
    PROVE  /\ job[p] = NewJob /\ tx[p] = NoTx /\ stmt[p] = NoStmt
           /\ View(p) = rows /\ ~Ended(p)
           /\ \A x \in rows : IsRow(x) /\ Settled(x.id) /\ x.id[2] # p /\ x \in Versions
<1>1. JobOK(p, job[p]) /\ TxOK(p)
  BY DEF Discipline
<1>2. "begin" \in Steps(job[p].todo)
  BY <1>1, TailSteps DEF At, JobOK, IsJob
<1>3. job[p] = NewJob /\ tx[p] = NoTx /\ stmt[p] = NoStmt
  BY <1>1, <1>2 DEF JobOK, Script, TxOK
<1>4. View(p) = rows
  BY <1>3 DEF View, NoTx
<1>5. ~Ended(p)
  BY DEF At, Ended
<1>. QED
  BY <1>3, <1>4, <1>5 DEF Discipline, RowsOK, Settled, Versions

JobOf(by, op, entity, create, todo) ==
    [do |-> op, by |-> by, todo |-> todo, entity |-> entity, create |-> create, walk |-> <<>>]

LEMMA Begun ==
    ASSUME Discipline, NEW p \in Requests, NEW by, NEW op, NEW entity, NEW create, NEW todo, NEW s,
           Start(p, by, op, entity, create, todo),
           stmt' = [stmt EXCEPT ![p] = s], UNCHANGED <<rows, tx>>,
           JobOK(p, JobOf(by, op, entity, create, todo)),
           StmtOK(p, JobOf(by, op, entity, create, todo), s),
           todo # <<>>, "begin" \notin Steps(todo), Steps(todo) \cap {"check_in_use", "find_window"} # {} => s = NoStmt
    PROVE  Discipline' /\ Grows(p)
<1>. DEFINE j == JobOf(by, op, entity, create, todo)
<1>1. job' = [job EXCEPT ![p] = j] /\ UNCHANGED shown
  BY DEF Start, JobOf
<1>2. j.todo = todo /\ j.todo # <<>>
  BY DEF JobOf
<1>3. tx[p] = NoTx /\ ~Ended(p)
  BY AtBegin DEF Start
<1>4. Ids(tx[p].adds) = {}
  <2>1. NoTx.adds = {}
    BY DEF NoTx
  <2>. QED
    BY <1>3, <2>1 DEF Ids
<1>5. /\ Steps(j.todo) \cap {"begin", "check_in_use"} # {} => tx[p] = NoTx /\ s = NoStmt
      /\ "find_window" \in Steps(j.todo) => tx[p] = NoTx /\ s.do \in {"none", "failed"}
  BY <1>2, <1>3 DEF NoStmt
<1>. HIDE DEF j
<1>. QED
  BY <1>1, <1>2, <1>3, <1>4, <1>5, JobStep DEF j

LEMMA SeqOfItself ==
    /\ <<>> \in Seq({<<>>[i] : i \in 1 .. Len(<<>>)})
    /\ \A x : <<x>> \in Seq({<<x>>[i] : i \in 1 .. Len(<<x>>)})
    /\ \A x, y : <<x, y>> \in Seq({<<x, y>>[i] : i \in 1 .. Len(<<x, y>>)})
<1>1. ASSUME NEW x PROVE <<x>> \in Seq({<<x>>[i] : i \in 1 .. Len(<<x>>)})
  <2>1. {<<x>>[i] : i \in 1 .. Len(<<x>>)} = {x}
    OBVIOUS
  <2>. QED
    BY <2>1
<1>2. ASSUME NEW x, NEW y PROVE <<x, y>> \in Seq({<<x, y>>[i] : i \in 1 .. Len(<<x, y>>)})
  <2>1. {<<x, y>>[i] : i \in 1 .. Len(<<x, y>>)} = {x, y}
    OBVIOUS
  <2>. QED
    BY <2>1
<1>. QED
  BY <1>1, <1>2

LEMMA NothingToDo ==
    ASSUME NEW r, NEW j
    PROVE  StmtOK(r, j, NoStmt)
<1>1. NoStmt.do = "none"
  BY DEF NoStmt
<1>. QED
  BY <1>1 DEF StmtOK

LEMMA BegunPlain ==
    ASSUME Discipline, NEW p \in Requests, NEW by, NEW op, NEW entity, NEW create, NEW todo, NEW s,
           Start(p, by, op, entity, create, todo),
           stmt' = [stmt EXCEPT ![p] = s], UNCHANGED <<rows, tx>>,
           by = Nobody \/ WellFormed(by),
           Plain(todo, create), create \in Seq({create[i] : i \in 1 .. Len(create)}),
           IsAdmin(by) /\ "commit" \in Steps(todo) =>
              \/ todo = <<"commit">>
              \/ op = "deactivate_template" /\ todo = <<"mark_stale", "commit">>,
           Creates(p, JobOf(by, op, entity, create, todo)),
           Holds(p, JobOf(by, op, entity, create, todo)),
           StmtOK(p, JobOf(by, op, entity, create, todo), s),
           Steps(todo) \cap {"check_in_use", "find_window"} # {} => s = NoStmt
    PROVE  Discipline' /\ Grows(p)
<1>. DEFINE j == JobOf(by, op, entity, create, todo)
<1>1. /\ j = [do |-> j.do, by |-> j.by, todo |-> j.todo,
              entity |-> j.entity, create |-> j.create, walk |-> j.walk]
      /\ j.do = op /\ j.by = by /\ j.todo = todo /\ j.create = create
  BY DEF JobOf
<1>. HIDE DEF j
<1>2. IsJob(j)
  BY <1>1 DEF IsJob, Plain
<1>3. Steps(todo) \cap IngestSteps = {} /\ Steps(todo) \cap PageSteps = {}
  BY DEF Plain, Special
<1>4. "begin" \notin Steps(todo) /\ "retire" \notin Steps(todo)
  BY DEF Plain, Special
<1>5. Script(j)
  BY <1>1, <1>3, <1>4 DEF Script, Plain
<1>6. JobOK(p, j)
  BY <1>2, <1>5 DEF JobOK, j
<1>. QED
  BY <1>4, <1>6, Begun DEF j, Plain

\* A request that has read what it answers.
LEMMA BegunRead ==
    ASSUME Discipline, NEW p \in Requests, NEW by, NEW op, NEW entity, NEW a \in {"commit", "close"},
           Begin(p, by, op, entity, <<>>, <<a>>),
           by = Nobody \/ WellFormed(by),
           Tenant(by) /\ "org" \in DOMAIN entity => entity.org \in {by.org, SuperOrg}
    PROVE  Discipline' /\ Grows(p)
<1>. DEFINE todo == <<a>>
            j    == JobOf(by, op, entity, <<>>, todo)
<1>1. Plain(todo, <<>>) /\ Steps(todo) = {a}
  BY PlainOne DEF Late
<1>2. j.todo = todo /\ j.by = by /\ j.entity = entity /\ j.create = <<>>
  BY DEF JobOf
<1>3. IsAdmin(by) /\ "commit" \in Steps(todo) => todo = <<"commit">>
  BY <1>1
<1>4. Start(p, by, op, entity, <<>>, todo) /\ UNCHANGED <<rows, tx, stmt>>
  BY DEF Begin, dbVars
<1>. HIDE DEF todo, j
<1>5. ToCreate(j) = {} /\ Creates(p, j)
  BY <1>1, <1>2 DEF Creates, ToCreate
<1>6. Holds(p, j)
  BY <1>1, <1>2 DEF Holds
<1>7. stmt' = [stmt EXCEPT ![p] = NoStmt]
  <2>1. stmt[p] = NoStmt
    BY <1>4, AtBegin DEF Start
  <2>. QED
    BY <1>4, <2>1 DEF Discipline, Shapes
<1>. QED
  BY <1>1, <1>3, <1>4, <1>5, <1>6, <1>7, NothingToDo, BegunPlain, SeqOfItself DEF j

\* A request that inserts one row.
LEMMA BegunInsert ==
    ASSUME Discipline, NEW p \in Requests, NEW by, NEW op, NEW entity, NEW x,
           NEW b \in {"commit", Logging, "close"},
           Begin(p, by, op, entity, <<x>>, <<"insert", b>>),
           by = Nobody \/ WellFormed(by), IsAdmin(by) => b = Logging,
           Tenant(by) /\ "org" \in DOMAIN entity => entity.org \in {by.org, SuperOrg},
           NewRow(p, by, x), Table(x) # "user"
    PROVE  Discipline' /\ Grows(p)
<1>. DEFINE todo == <<"insert", b>>
            j    == JobOf(by, op, entity, <<x>>, todo)
<1>1. Plain(todo, <<x>>) /\ Steps(todo) = {"insert", b}
  BY PlainInsert DEF Late
<1>2. j.todo = todo /\ j.by = by /\ j.entity = entity /\ j.create = <<x>>
  BY DEF JobOf
<1>3. IsAdmin(by) => "commit" \notin Steps(todo)
  BY <1>1 DEF Logging
<1>4. Start(p, by, op, entity, <<x>>, todo) /\ UNCHANGED <<rows, tx, stmt>>
  BY DEF Begin, dbVars
<1>. HIDE DEF todo, j
<1>5. Creates(p, j)
  <2>1. Len(j.create) = 1 /\ j.create[1] = x
    BY <1>2
  <2>2. ToCreate(j) = {x}
    BY <1>1, <1>2, <2>1 DEF ToCreate
  <2>. QED
    BY <1>2, <2>1, <2>2 DEF Creates
<1>6. Holds(p, j)
  BY <1>1, <1>2 DEF Holds, Logging
<1>7. stmt' = [stmt EXCEPT ![p] = NoStmt]
  <2>1. stmt[p] = NoStmt
    BY <1>4, AtBegin DEF Start
  <2>. QED
    BY <1>4, <2>1 DEF Discipline, Shapes
<1>. QED
  BY <1>1, <1>3, <1>4, <1>5, <1>6, <1>7, NothingToDo, BegunPlain, SeqOfItself DEF j, Logging

LEMMA Permission ==
    ASSUME NEW by, WellFormed(by), Tenant(by), NEW org
    PROVE  /\ MayMutate(by, org) => org = by.org /\ org # SuperOrg /\ by.role = "admin"
           /\ MayChange(by, org) => org = by.org /\ by.role = "admin"
BY DEF WellFormed, Tenant, IsAdmin, IsSuperadmin, MayMutate, MayChange, InOrganization

LEMMA AdminsAreAdmins ==
    ASSUME NEW by \in Admins
    PROVE  WellFormed(by) /\ IsAdmin(by)
BY AdminsAssumption

\* An entity that differs from its row in columns an UPDATE may set.
LEMMA EditOf ==
    ASSUME Discipline, NEW x \in rows, Table(x) \in Editable, NEW e, DOMAIN e = DOMAIN x,
           \A c \in DOMAIN x \ Mutable[Table(x)] : e[c] = x[c],
           NEW by, Tenant(by) => x.org = by.org /\ by.role = "admin"
    PROVE  /\ Edited(by, e)
           /\ e.id = x.id /\ Table(e) = Table(x) /\ e.org = x.org
           /\ "org" \in DOMAIN e
           /\ \A y \in Versions : y.id = e.id => Agree(y, e) /\ y.org = e.org
           /\ Settled(e.id)
<1>1. IsRow(x) /\ Settled(x.id) /\ x \in Versions
  BY DEF Discipline, RowsOK, Versions
<1>2. Table(x) \in Tables /\ DOMAIN x = Columns[Table(x)] /\ Table(x) \in OrgTables
  BY <1>1, OrgTableNames DEF IsRow, Tables, Editable
<1>3. {"id", "org"} \subseteq Columns[Table(x)] \ Mutable[Table(x)]
  BY <1>2, FrozenColumns DEF Frozen
<1>4. e.id = x.id /\ e.org = x.org /\ Table(e) = Table(x)
  BY <1>2, <1>3 DEF Table
<1>5. Table(x) = "template" => e.version = x.version
  BY <1>2, FrozenColumns DEF Frozen
<1>6. IsRow(e)
  BY <1>1, <1>2, <1>4, <1>5 DEF IsRow, Editable
<1>7. Agree(x, e)
  BY <1>2 DEF Agree, Frozen
<1>8. ASSUME NEW y \in Versions, y.id = e.id PROVE Agree(y, e) /\ y.org = e.org
  <2>1. Agree(x, y)
    BY <1>1, <1>4, <1>8 DEF Discipline, RowsOK
  <2>2. Table(y) = Table(x)
    BY <1>4, <1>8 DEF Table
  <2>3. Agree(y, e)
    BY <1>7, <2>1, <2>2 DEF Agree
  <2>4. "org" \in Frozen(Table(y))
    BY <1>2, <2>2, FrozenColumns
  <2>. QED
    BY <2>3, <2>4 DEF Agree
<1>. QED
  BY <1>1, <1>2, <1>3, <1>4, <1>6, <1>8 DEF Edited

\* A request that edits a row.
LEMMA BegunEdit ==
    ASSUME Discipline, NEW p \in Requests, NEW by \in Admins, NEW op, NEW e, NEW todo,
           Begin(p, by, op, e, <<>>, todo), Plain(todo, <<>>),
           Steps(todo) \subseteq {"flush", "mark_stale", "clear", "walk", Logging},
           Edited(by, e), Tenant(by) => e.org = by.org,
           "mark_stale" \in Steps(todo) =>
              /\ \A y \in Versions : y.id = e.id => y.org = e.org
              /\ Tenant(by) => e.org # SuperOrg
    PROVE  Discipline' /\ Grows(p)
<1>. DEFINE j == JobOf(by, op, e, <<>>, todo)
<1>2. j.todo = todo /\ j.by = by /\ j.entity = e /\ j.create = <<>>
  BY DEF JobOf
<1>3. "commit" \notin Steps(todo) /\ "insert" \notin Steps(todo) /\ "check_in_use" \notin Steps(todo)
  BY DEF Logging
<1>4. Start(p, by, op, e, <<>>, todo) /\ UNCHANGED <<rows, tx, stmt>>
  BY DEF Begin, dbVars
<1>. HIDE DEF j
<1>5. ToCreate(j) = {} /\ Creates(p, j)
  BY <1>2, <1>3 DEF Creates, ToCreate
<1>6. Holds(p, j)
  BY <1>2, <1>3, AdminsAreAdmins DEF Holds, Logging, Edited, Table
<1>7. stmt' = [stmt EXCEPT ![p] = NoStmt]
  <2>1. stmt[p] = NoStmt
    BY <1>4, AtBegin DEF Start
  <2>. QED
    BY <1>4, <2>1 DEF Discipline, Shapes
<1>. QED
  BY <1>3, <1>4, <1>5, <1>6, <1>7, NothingToDo, BegunPlain, SeqOfItself, AdminsAreAdmins DEF j

\* A request that edits a row and replaces its children.
LEMMA BegunReplace ==
    ASSUME Discipline, NEW p \in Requests, NEW by \in Admins, NEW op, NEW e, NEW x,
           Begin(p, by, op, e, <<x>>, <<"flush", "clear", "insert", Logging>>),
           Edited(by, e), Tenant(by) => e.org = by.org,
           NewRow(p, by, x), Table(x) # "user"
    PROVE  Discipline' /\ Grows(p)
<1>. DEFINE todo == <<"flush", "clear", "insert", Logging>>
            j    == JobOf(by, op, e, <<x>>, todo)
<1>1. Plain(todo, <<x>>) /\ Steps(todo) = {"flush", "clear", "insert", Logging}
  BY PlainReplace
<1>2. j.todo = todo /\ j.by = by /\ j.entity = e /\ j.create = <<x>>
  BY DEF JobOf
<1>4. Start(p, by, op, e, <<x>>, todo) /\ UNCHANGED <<rows, tx, stmt>>
  BY DEF Begin, dbVars
<1>. HIDE DEF todo, j
<1>3. "commit" \notin Steps(todo) /\ "check_in_use" \notin Steps(todo)
  BY <1>1 DEF Logging
<1>5. Creates(p, j)
  <2>1. Len(j.create) = 1 /\ j.create[1] = x
    BY <1>2
  <2>2. ToCreate(j) = {x}
    BY <1>1, <1>2, <2>1 DEF ToCreate
  <2>. QED
    BY <1>2, <2>1, <2>2 DEF Creates
<1>6. Holds(p, j)
  BY <1>1, <1>2, <1>3, AdminsAreAdmins DEF Holds, Logging
<1>7. stmt' = [stmt EXCEPT ![p] = NoStmt]
  <2>1. stmt[p] = NoStmt
    BY <1>4, AtBegin DEF Start
  <2>. QED
    BY <1>4, <2>1 DEF Discipline, Shapes
<1>. QED
  BY <1>1, <1>3, <1>4, <1>5, <1>6, <1>7, NothingToDo, BegunPlain, SeqOfItself, AdminsAreAdmins DEF j

\* A request that inserts a row and another one that goes with it.
LEMMA BegunInserts ==
    ASSUME Discipline, NEW p \in Requests, NEW by, NEW op, NEW e, NEW x, NEW y,
           NEW todo \in {<<"insert", "insert", Logging>>, <<"insert", "clear", "insert", Logging>>},
           Begin(p, by, op, e, <<x, y>>, todo),
           by = Nobody \/ WellFormed(by),
           Tenant(by) /\ "org" \in DOMAIN e => e.org \in {by.org, SuperOrg},
           NewRow(p, by, x), NewRow(p, by, y), x.id # y.id,
           Table(x) = "user" => IsRecordOf(y, x), Table(y) # "user"
    PROVE  Discipline' /\ Grows(p)
<1>. DEFINE j == JobOf(by, op, e, <<x, y>>, todo)
<1>1. Plain(todo, <<x, y>>) /\ Steps(todo) \subseteq {"insert", "clear", Logging} /\ "insert" \in Steps(todo)
  BY PlainInserts
<1>2. j.todo = todo /\ j.by = by /\ j.entity = e /\ j.create = <<x, y>>
  BY DEF JobOf
<1>3. "commit" \notin Steps(todo) /\ "check_in_use" \notin Steps(todo)
  BY <1>1 DEF Logging
<1>4. Start(p, by, op, e, <<x, y>>, todo) /\ UNCHANGED <<rows, tx, stmt>>
  BY DEF Begin, dbVars
<1>. HIDE DEF j
<1>5. Creates(p, j)
  <2>1. Len(j.create) = 2 /\ j.create[1] = x /\ j.create[2] = y
    BY <1>2
  <2>2. ToCreate(j) = {x, y}
    BY <1>1, <1>2, <2>1 DEF ToCreate
  <2>3. \A i \in 1 .. Len(j.create) : Table(j.create[i]) = "user" =>
           \E k \in (i + 1) .. Len(j.create) : IsRecordOf(j.create[k], j.create[i])
    <3>. SUFFICES ASSUME NEW i \in 1 .. Len(j.create), Table(j.create[i]) = "user"
                  PROVE  \E k \in (i + 1) .. Len(j.create) : IsRecordOf(j.create[k], j.create[i])
      OBVIOUS
    <3>1. i = 1 /\ 2 \in (i + 1) .. Len(j.create)
      BY <2>1
    <3>. QED
      BY <2>1, <3>1
  <2>4. \A i, k \in 1 .. Len(j.create) : i # k => j.create[i].id # j.create[k].id
    BY <2>1
  <2>. QED
    BY <1>2, <2>2, <2>3, <2>4 DEF Creates
<1>6. Holds(p, j)
  BY <1>1, <1>2, <1>3 DEF Holds, Logging
<1>7. stmt' = [stmt EXCEPT ![p] = NoStmt]
  <2>1. stmt[p] = NoStmt
    BY <1>4, AtBegin DEF Start
  <2>. QED
    BY <1>4, <2>1 DEF Discipline, Shapes
<1>8. <<x, y>> \in Seq({<<x, y>>[i] : i \in 1 .. Len(<<x, y>>)})
  BY SeqOfItself
<1>9. StmtOK(p, j, NoStmt)
  BY NothingToDo
<1>10. Plain(todo, <<x, y>>)
  BY <1>1
<1>. QED
  BY <1>3, <1>4, <1>5, <1>6, <1>7, <1>8, <1>9, <1>10, BegunPlain DEF j

\* A row with the columns of its table is one its request may insert.
LEMMA NewOrgRow ==
    ASSUME NEW p \in Requests, NEW by, Tenant(by) => by.role = "admin",
           NEW t \in Tables \ {"audit", "risk", "event", "user", "admin", "candidate", "token", "submission",
                             "deck", "roadmap"},
           NEW x, x.id = <<t, p>>, DOMAIN x = Columns[t],
           t \in OrgTables => x.org = by.org,
           t = "override" => IsBase(x.base),
           t = "mapping" => x.window[1] = "window",
           t = "template" => x.version = 1
    PROVE  NewRow(p, by, x)
<1>1. Table(x) = t /\ x.id[2] = p
  BY DEF Table
<1>2. p # "none"
  BY NamesAssumption
<1>3. IsRow(x)
  BY <1>1, <1>2 DEF IsRow, Tables
<1>4. t = "template" => HasEarlierVersions(x)
  BY DEF HasEarlierVersions
<1>. QED
  BY <1>1, <1>3, <1>4 DEF NewRow, Personal

LEMMA TemplateRow ==
    ASSUME NEW p \in Requests, NEW by, Tenant(by) => by.role = "admin", NEW name, NEW text
    PROVE  /\ NewRow(p, by, NewTemplate(p, by, name, text))
           /\ NewTemplate(p, by, name, text).id = <<"template", p>>
<1>. DEFINE x == NewTemplate(p, by, name, text)
<1>1. x.id = <<"template", p>> /\ DOMAIN x = Columns["template"]
  BY DEF NewTemplate, Columns, TemplateColumns
<1>2. "template" \in Tables \ {"audit", "risk", "event", "user", "admin", "candidate", "token", "submission",
                             "deck", "roadmap"}
  BY TableNames
<1>3. "template" \in OrgTables => x.org = by.org
  BY DEF NewTemplate
<1>4. x.version = 1
  BY DEF NewTemplate
<1>. HIDE DEF x
<1>. QED
  BY <1>1, <1>2, <1>3, <1>4, NewOrgRow DEF x

LEMMA OverrideRow ==
    ASSUME NEW p \in Requests, NEW by, Tenant(by) => by.role = "admin", NEW y, NEW text, IsBase(y.id)
    PROVE  /\ NewRow(p, by, NewOverride(p, by, y, text))
           /\ NewOverride(p, by, y, text).id = <<"override", p>>
<1>. DEFINE x == NewOverride(p, by, y, text)
<1>1. x.id = <<"override", p>> /\ DOMAIN x = Columns["override"]
  BY DEF NewOverride, Columns, OverrideColumns
<1>2. "override" \in Tables \ {"audit", "risk", "event", "user", "admin", "candidate", "token", "submission",
                             "deck", "roadmap"}
  BY TableNames
<1>3. "override" \in OrgTables => x.org = by.org
  BY DEF NewOverride
<1>4. x.base = y.id
  BY DEF NewOverride
<1>. HIDE DEF x
<1>. QED
  BY <1>1, <1>2, <1>3, <1>4, NewOrgRow DEF x

LEMMA RubricRow ==
    ASSUME NEW p \in Requests, NEW by, Tenant(by) => by.role = "admin", NEW name, NEW text
    PROVE  /\ NewRow(p, by, NewRubric(p, by, name, text))
           /\ NewRubric(p, by, name, text).id = <<"rubric", p>>
<1>. DEFINE x == NewRubric(p, by, name, text)
<1>1. x.id = <<"rubric", p>> /\ DOMAIN x = Columns["rubric"]
  BY DEF NewRubric, Columns, RubricColumns
<1>2. "rubric" \in Tables \ {"audit", "risk", "event", "user", "admin", "candidate", "token", "submission",
                             "deck", "roadmap"}
  BY TableNames
<1>3. "rubric" \in OrgTables => x.org = by.org
  BY DEF NewRubric
<1>. HIDE DEF x
<1>. QED
  BY <1>1, <1>2, <1>3, NewOrgRow DEF x

LEMMA DimensionsRow ==
    ASSUME NEW p \in Requests, NEW by, Tenant(by) => by.role = "admin", NEW rubric
    PROVE  /\ NewRow(p, by, NewDimensions(p, rubric))
           /\ NewDimensions(p, rubric).id = <<"dimension", p>>
<1>. DEFINE x == NewDimensions(p, rubric)
<1>1. x.id = <<"dimension", p>> /\ DOMAIN x = Columns["dimension"]
  BY DEF NewDimensions, Columns, DimensionColumns
<1>2. "dimension" \in Tables \ {"audit", "risk", "event", "user", "admin", "candidate", "token", "submission",
                             "deck", "roadmap"}
  BY TableNames
<1>3. "dimension" \in OrgTables => x.org = by.org
  BY OrgTableNames DEF NewDimensions
<1>. HIDE DEF x
<1>. QED
  BY <1>1, <1>2, <1>3, NewOrgRow DEF x

LEMMA WindowRow ==
    ASSUME NEW p \in Requests, NEW by, Tenant(by) => by.role = "admin", NEW text
    PROVE  /\ NewRow(p, by, NewWindow(p, by, text))
           /\ NewWindow(p, by, text).id = <<"window", p>>
<1>. DEFINE x == NewWindow(p, by, text)
<1>1. x.id = <<"window", p>> /\ DOMAIN x = Columns["window"]
  BY DEF NewWindow, Columns, WindowColumns
<1>2. "window" \in Tables \ {"audit", "risk", "event", "user", "admin", "candidate", "token", "submission",
                             "deck", "roadmap"}
  BY TableNames
<1>3. "window" \in OrgTables => x.org = by.org
  BY DEF NewWindow
<1>. HIDE DEF x
<1>. QED
  BY <1>1, <1>2, <1>3, NewOrgRow DEF x

LEMMA MappingRow ==
    ASSUME NEW p \in Requests, NEW by, Tenant(by) => by.role = "admin", NEW window, NEW role, NEW t, window[1] = "window"
    PROVE  /\ NewRow(p, by, NewMapping(p, window, role, t))
           /\ NewMapping(p, window, role, t).id = <<"mapping", p>>
<1>. DEFINE x == NewMapping(p, window, role, t)
<1>1. x.id = <<"mapping", p>> /\ DOMAIN x = Columns["mapping"]
  BY DEF NewMapping, Columns, MappingColumns
<1>2. "mapping" \in Tables \ {"audit", "risk", "event", "user", "admin", "candidate", "token", "submission",
                             "deck", "roadmap"}
  BY TableNames
<1>3. "mapping" \in OrgTables => x.org = by.org
  BY OrgTableNames DEF NewMapping
<1>4. x.window = window
  BY DEF NewMapping
<1>. HIDE DEF x
<1>. QED
  BY <1>1, <1>2, <1>3, <1>4, NewOrgRow DEF x

LEMMA RoleRow ==
    ASSUME NEW p \in Requests, NEW by, Tenant(by) => by.role = "admin", NEW name
    PROVE  /\ NewRow(p, by, NewNamedRole(p, by, name))
           /\ NewNamedRole(p, by, name).id = <<"role", p>>
<1>. DEFINE x == NewNamedRole(p, by, name)
<1>1. x.id = <<"role", p>> /\ DOMAIN x = Columns["role"]
  BY DEF NewNamedRole, Columns, RoleColumns
<1>2. "role" \in Tables \ {"audit", "risk", "event", "user", "admin", "candidate", "token", "submission",
                             "deck", "roadmap"}
  BY TableNames
<1>3. "role" \in OrgTables => x.org = by.org
  BY DEF NewNamedRole
<1>. HIDE DEF x
<1>. QED
  BY <1>1, <1>2, <1>3, NewOrgRow DEF x

LEMMA TopicRow ==
    ASSUME NEW p \in Requests, NEW by, Tenant(by) => by.role = "admin", NEW name, NEW parent
    PROVE  /\ NewRow(p, by, NewTopic(p, by, name, parent))
           /\ NewTopic(p, by, name, parent).id = <<"topic", p>>
<1>. DEFINE x == NewTopic(p, by, name, parent)
<1>1. x.id = <<"topic", p>> /\ DOMAIN x = Columns["topic"]
  BY DEF NewTopic, Columns, TopicColumns
<1>2. "topic" \in Tables \ {"audit", "risk", "event", "user", "admin", "candidate", "token", "submission",
                             "deck", "roadmap"}
  BY TableNames
<1>3. "topic" \in OrgTables => x.org = by.org
  BY DEF NewTopic
<1>. HIDE DEF x
<1>. QED
  BY <1>1, <1>2, <1>3, NewOrgRow DEF x

LEMMA CodingTopicRow ==
    ASSUME NEW p \in Requests, NEW by, Tenant(by) => by.role = "admin", NEW name, NEW parent
    PROVE  /\ NewRow(p, by, NewCodingTopic(p, by, name, parent))
           /\ NewCodingTopic(p, by, name, parent).id = <<"coding_topic", p>>
<1>. DEFINE x == NewCodingTopic(p, by, name, parent)
<1>1. x.id = <<"coding_topic", p>> /\ DOMAIN x = Columns["coding_topic"]
  BY DEF NewCodingTopic, Columns, CodingTopicColumns
<1>2. "coding_topic" \in Tables \ {"audit", "risk", "event", "user", "admin", "candidate", "token", "submission",
                             "deck", "roadmap"}
  BY TableNames
<1>3. "coding_topic" \in OrgTables => x.org = by.org
  BY DEF NewCodingTopic
<1>. HIDE DEF x
<1>. QED
  BY <1>1, <1>2, <1>3, NewOrgRow DEF x

LEMMA QuestionRow ==
    ASSUME NEW p \in Requests, NEW by, Tenant(by) => by.role = "admin", NEW text
    PROVE  /\ NewRow(p, by, NewQuestion(p, by, text))
           /\ NewQuestion(p, by, text).id = <<"question", p>>
<1>. DEFINE x == NewQuestion(p, by, text)
<1>1. x.id = <<"question", p>> /\ DOMAIN x = Columns["question"]
  BY DEF NewQuestion, Columns, QuestionColumns
<1>2. "question" \in Tables \ {"audit", "risk", "event", "user", "admin", "candidate", "token", "submission",
                             "deck", "roadmap"}
  BY TableNames
<1>3. "question" \in OrgTables => x.org = by.org
  BY DEF NewQuestion
<1>. HIDE DEF x
<1>. QED
  BY <1>1, <1>2, <1>3, NewOrgRow DEF x

LEMMA ProblemRow ==
    ASSUME NEW p \in Requests, NEW by, Tenant(by) => by.role = "admin", NEW text
    PROVE  /\ NewRow(p, by, NewProblem(p, by, text))
           /\ NewProblem(p, by, text).id = <<"problem", p>>
<1>. DEFINE x == NewProblem(p, by, text)
<1>1. x.id = <<"problem", p>> /\ DOMAIN x = Columns["problem"]
  BY DEF NewProblem, Columns, ProblemColumns
<1>2. "problem" \in Tables \ {"audit", "risk", "event", "user", "admin", "candidate", "token", "submission",
                             "deck", "roadmap"}
  BY TableNames
<1>3. "problem" \in OrgTables => x.org = by.org
  BY DEF NewProblem
<1>. HIDE DEF x
<1>. QED
  BY <1>1, <1>2, <1>3, NewOrgRow DEF x

LEMMA ReadBegins ==
    ASSUME Discipline, NEW p \in Requests, NEW op, NEW S, Read(p, op, S)
    PROVE  Discipline' /\ Grows(p)
<1>1. PICK by \in Admins, x \in S : Visible(by, x) /\ Begin(p, by, op, x, <<>>, <<"commit">>)
  BY DEF Read
<1>2. Tenant(by) => x.org \in {by.org, SuperOrg}
  BY <1>1 DEF Visible, Tenant
<1>. QED
  BY <1>1, <1>2, BegunRead, AdminsAreAdmins


\* An edit by an administrator who may change the row.
LEMMA ServeEdit ==
    ASSUME Discipline, NEW p \in Requests, NEW op, NEW todo, NEW x \in rows, Table(x) \in Editable,
           NEW e, DOMAIN e = DOMAIN x, \A c \in DOMAIN x \ Mutable[Table(x)] : e[c] = x[c],
           Serve(p, op, x.org, e, <<>>, todo), Plain(todo, <<>>),
           Steps(todo) \subseteq {"flush", "mark_stale", "clear", "walk", Logging}
    PROVE  Discipline' /\ Grows(p)
<1>1. PICK by \in Admins : MayMutate(by, x.org) /\ Begin(p, by, op, e, <<>>, todo)
  BY DEF Serve
<1>2. Tenant(by) => x.org = by.org /\ by.role = "admin" /\ x.org # SuperOrg
  BY <1>1, AdminsAreAdmins, Permission
<1>3. Edited(by, e) /\ e.org = x.org /\ \A y \in Versions : y.id = e.id => y.org = e.org
  BY <1>2, EditOf
<1>. QED
  BY <1>1, <1>2, <1>3, BegunEdit

\* The same request when there is nothing to write.
LEMMA ServeNothing ==
    ASSUME Discipline, NEW p \in Requests, NEW op, NEW x \in rows, Table(x) \in Editable,
           NEW e, DOMAIN e = DOMAIN x, \A c \in DOMAIN x \ Mutable[Table(x)] : e[c] = x[c],
           Serve(p, op, x.org, e, <<>>, <<"commit">>)
    PROVE  Discipline' /\ Grows(p)
<1>1. PICK by \in Admins : MayMutate(by, x.org) /\ Begin(p, by, op, e, <<>>, <<"commit">>)
  BY DEF Serve
<1>2. Tenant(by) => x.org = by.org /\ by.role = "admin"
  BY <1>1, AdminsAreAdmins, Permission
<1>3. e.org = x.org
  BY <1>2, EditOf
<1>. QED
  BY <1>1, <1>2, <1>3, BegunRead, AdminsAreAdmins

\* An INSERT by an administrator who may make it.
LEMMA AdminInsert ==
    ASSUME Discipline, NEW p \in Requests, NEW op, NEW by \in Admins, NEW x,
           Begin(p, by, op, x, <<x>>, <<"insert", Logging>>),
           Tenant(by) => by.role = "admin", NewRow(p, by, x), x.org = by.org, Table(x) # "user"
    PROVE  Discipline' /\ Grows(p)
BY AdminsAreAdmins, BegunInsert

LEMMA EditScripts ==
    /\ Plain(<<"flush", Logging>>, <<>>)
    /\ Plain(<<"flush", "mark_stale", Logging>>, <<>>)
    /\ Plain(<<"flush", "clear", Logging>>, <<>>)
    /\ Plain(<<"walk", "flush", Logging>>, <<>>)
    /\ Steps(<<"flush", Logging>>) = {"flush", Logging}
    /\ Steps(<<"flush", "mark_stale", Logging>>) = {"flush", "mark_stale", Logging}
    /\ Steps(<<"flush", "clear", Logging>>) = {"flush", "clear", Logging}
    /\ Steps(<<"walk", "flush", Logging>>) = {"walk", "flush", Logging}
<1>1. {"flush", "mark_stale", "clear", "walk"} \subseteq Early \ {"insert"} /\ Logging \in Late
  BY DEF Early, Late
<1>. QED
  BY <1>1, PlainTwo, PlainThree

\* The administration's content.
LEMMA TemplateBegins ==
    ASSUME Discipline, NEW p \in Requests, At(p, "begin"),
           \/ ReadTemplate(p) \/ CreateTemplate(p) \/ UpdateTemplate(p)
           \/ ActivateTemplate(p) \/ DeactivateTemplate(p)
    PROVE  Discipline' /\ Grows(p)
<1>0. View(p) = rows
  BY AtBegin
<1>. DEFINE Goal == Discipline' /\ Grows(p)
<1>1. ASSUME CreateTemplate(p) PROVE Goal
  <2>1. PICK by \in Admins, name \in Names, text \in Texts :
           /\ MayMutate(by, by.org)
           /\ Begin(p, by, "create_template", NewTemplate(p, by, name, text),
                    <<NewTemplate(p, by, name, text)>>, <<"insert", Logging>>)
    BY <1>1 DEF CreateTemplate, Logging
  <2>. DEFINE x == NewTemplate(p, by, name, text)
  <2>2. Tenant(by) => by.role = "admin"
    BY <2>1, AdminsAreAdmins, Permission
  <2>3. NewRow(p, by, x) /\ x.id = <<"template", p>> /\ x.org = by.org
    BY <2>2, TemplateRow DEF NewTemplate
  <2>. HIDE DEF x
  <2>4. Table(x) # "user"
    BY <2>3 DEF Table
  <2>. QED
    BY <2>1, <2>2, <2>3, <2>4, AdminInsert DEF x
<1>2. ASSUME UpdateTemplate(p) PROVE Goal
  <2>1. PICK t \in Templates(p), text \in Texts :
           Serve(p, "update_template", t.org, [t EXCEPT !.text = text], <<>>, <<"check_in_use">>)
    BY <1>2 DEF UpdateTemplate
  <2>. DEFINE e == [t EXCEPT !.text = text]
  <2>2. PICK by \in Admins : /\ MayMutate(by, t.org)
                             /\ Begin(p, by, "update_template", e, <<>>, <<"check_in_use">>)
    BY <2>1 DEF Serve
  <2>3. Tenant(by) => t.org = by.org /\ by.role = "admin"
    BY <2>2, AdminsAreAdmins, Permission
  <2>4. t \in rows /\ Table(t) = "template"
    BY <1>0 DEF Templates, From
  <2>5. DOMAIN e = DOMAIN t /\ \A c \in DOMAIN t \ Mutable[Table(t)] : e[c] = t[c]
    BY <2>4 DEF Mutable
  <2>. HIDE DEF e
  <2>6. Edited(by, e) /\ Table(e) = "template" /\ e.org = t.org /\ "org" \in DOMAIN e
    BY <2>3, <2>4, <2>5, EditOf DEF Editable
  <2>. DEFINE todo == <<"check_in_use">>
              j    == JobOf(by, "update_template", e, <<>>, todo)
  <2>7. Plain(todo, <<>>) /\ Steps(todo) = {"check_in_use"}
    BY PlainOne DEF Late
  <2>8. j.todo = todo /\ j.by = by /\ j.entity = e /\ j.create = <<>>
    BY DEF JobOf
  <2>9. Start(p, by, "update_template", e, <<>>, todo) /\ UNCHANGED <<rows, tx, stmt>>
    BY <2>2 DEF Begin, dbVars
  <2>10. todo = <<"check_in_use">>
    OBVIOUS
  <2>. HIDE DEF todo, j
  <2>11. ToCreate(j) = {} /\ Creates(p, j)
    BY <2>7, <2>8 DEF Creates, ToCreate
  <2>12. Holds(p, j)
    BY <2>3, <2>6, <2>7, <2>8, <2>10 DEF Holds
  <2>13. stmt' = [stmt EXCEPT ![p] = NoStmt]
    <3>1. stmt[p] = NoStmt
      BY AtBegin
    <3>. QED
      BY <2>9, <3>1 DEF Discipline, Shapes
  <2>14. "commit" \notin Steps(todo)
    BY <2>7
  <2>. QED
    BY <2>7, <2>9, <2>11, <2>12, <2>13, <2>14, NothingToDo, BegunPlain, SeqOfItself, AdminsAreAdmins
    DEF j
<1>3. ASSUME ActivateTemplate(p) PROVE Goal
  <2>1. PICK t \in Templates(p) :
           Serve(p, "activate_template", t.org, [t EXCEPT !.active = TRUE], <<>>,
                 IF t.active THEN <<"commit">> ELSE <<"flush", Logging>>)
    BY <1>3 DEF ActivateTemplate, Logging
  <2>. DEFINE e == [t EXCEPT !.active = TRUE]
  <2>2. t \in rows /\ Table(t) = "template"
    BY <1>0 DEF Templates, From
  <2>3. DOMAIN e = DOMAIN t /\ \A c \in DOMAIN t \ Mutable[Table(t)] : e[c] = t[c]
    BY <2>2 DEF Mutable
  <2>. HIDE DEF e
  <2>4. CASE t.active
    <3>1. Serve(p, "activate_template", t.org, e, <<>>, <<"commit">>)
      BY <2>1, <2>4 DEF e
    <3>. QED
      BY <3>1, <2>2, <2>3, ServeNothing DEF Editable
  <2>5. CASE ~t.active
    <3>1. Serve(p, "activate_template", t.org, e, <<>>, <<"flush", Logging>>)
      BY <2>1, <2>5 DEF e
    <3>. QED
      BY <3>1, <2>2, <2>3, ServeEdit, EditScripts DEF Editable
  <2>. QED
    BY <2>4, <2>5
<1>4. ASSUME DeactivateTemplate(p) PROVE Goal
  <2>1. PICK t \in Templates(p) :
           Serve(p, "deactivate_template", t.org, [t EXCEPT !.active = FALSE], <<>>,
                 IF t.active THEN <<"flush", "mark_stale", Logging>>
                             ELSE <<"mark_stale", "commit">>)
    BY <1>4 DEF DeactivateTemplate, Logging
  <2>. DEFINE e == [t EXCEPT !.active = FALSE]
  <2>2. t \in rows /\ Table(t) = "template"
    BY <1>0 DEF Templates, From
  <2>3. DOMAIN e = DOMAIN t /\ \A c \in DOMAIN t \ Mutable[Table(t)] : e[c] = t[c]
    BY <2>2 DEF Mutable
  <2>. HIDE DEF e
  <2>4. CASE t.active
    <3>1. Serve(p, "deactivate_template", t.org, e, <<>>, <<"flush", "mark_stale", Logging>>)
      BY <2>1, <2>4 DEF e
    <3>. QED
      BY <3>1, <2>2, <2>3, ServeEdit, EditScripts DEF Editable
  <2>5. CASE ~t.active
    <3>. DEFINE op == "deactivate_template"
                todo == <<"mark_stale", "commit">>
                J(by) == JobOf(by, op, e, <<>>, todo)
    <3>1. PICK by \in Admins : MayMutate(by, t.org) /\ Begin(p, by, op, e, <<>>, todo)
      BY <2>1, <2>5 DEF Serve, e
    <3>2. Tenant(by) => t.org = by.org /\ by.role = "admin" /\ t.org # SuperOrg
      BY <3>1, AdminsAreAdmins, Permission
    <3>3. /\ Edited(by, e) /\ e.org = t.org /\ "org" \in DOMAIN e
          /\ e.id[1] = "template" /\ \A y \in Versions : y.id = e.id => y.org = e.org
      BY <2>2, <2>3, <3>2, EditOf DEF Editable, Table
    <3>4. Plain(todo, <<>>) /\ Steps(todo) = {"mark_stale", "commit"}
      BY PlainTwo DEF Early, Late
    <3>5. J(by).todo = todo /\ J(by).by = by /\ J(by).entity = e /\ J(by).create = <<>>
      BY DEF JobOf
    <3>6. Start(p, by, op, e, <<>>, todo) /\ UNCHANGED <<rows, tx, stmt>>
      BY <3>1 DEF Begin, dbVars
    <3>7. op = "deactivate_template" /\ todo = <<"mark_stale", "commit">>
      OBVIOUS
    <3>. HIDE DEF todo, op, J
    <3>8. ToCreate(J(by)) = {} /\ Creates(p, J(by))
      BY <3>4, <3>5 DEF Creates, ToCreate
    <3>9. Holds(p, J(by))
      BY <3>2, <3>3, <3>4, <3>5 DEF Holds, Edited, Editable
    <3>10. stmt' = [stmt EXCEPT ![p] = NoStmt]
      <4>1. stmt[p] = NoStmt
        BY AtBegin
      <4>. QED
        BY <3>6, <4>1 DEF Discipline, Shapes
    <3>11. "check_in_use" \notin Steps(todo)
      BY <3>4
    <3>. QED
      BY <3>4, <3>6, <3>7, <3>8, <3>9, <3>10, <3>11, NothingToDo, BegunPlain, SeqOfItself,
         AdminsAreAdmins DEF J
  <2>. QED
    BY <2>4, <2>5
<1>. QED
  BY <1>1, <1>2, <1>3, <1>4, ReadBegins DEF ReadTemplate

\* A request that deletes a row.
LEMMA BegunDelete ==
    ASSUME Discipline, NEW p \in Requests, NEW by \in Admins, NEW op, NEW x \in rows,
           Table(x) \in {"override", "window"}, x.org = by.org \/ ~Tenant(by),
           Begin(p, by, op, x, <<>>, <<"delete", Logging>>)
    PROVE  Discipline' /\ Grows(p)
<1>. DEFINE todo == <<"delete", Logging>>
            j    == JobOf(by, op, x, <<>>, todo)
<1>1. Plain(todo, <<>>) /\ Steps(todo) = {"delete", Logging}
  BY PlainTwo DEF Early, Late
<1>2. j.todo = todo /\ j.by = by /\ j.entity = x /\ j.create = <<>>
  BY DEF JobOf
<1>3. Start(p, by, op, x, <<>>, todo) /\ UNCHANGED <<rows, tx, stmt>>
  BY DEF Begin, dbVars
<1>. HIDE DEF todo, j
<1>4. "commit" \notin Steps(todo) /\ "check_in_use" \notin Steps(todo) /\ "insert" \notin Steps(todo)
  BY <1>1 DEF Logging
<1>5. ToCreate(j) = {} /\ Creates(p, j)
  BY <1>2, <1>4 DEF Creates, ToCreate
<1>6. Settled(x.id) /\ x.id[1] \in {"override", "window"}
  BY DEF Discipline, RowsOK, Table
<1>7. Holds(p, j)
  BY <1>1, <1>2, <1>4, <1>6 DEF Holds, Logging
<1>8. stmt' = [stmt EXCEPT ![p] = NoStmt]
  <2>1. stmt[p] = NoStmt
    BY <1>3, AtBegin DEF Start
  <2>. QED
    BY <1>3, <2>1 DEF Discipline, Shapes
<1>. QED
  BY <1>1, <1>3, <1>4, <1>5, <1>7, <1>8, NothingToDo, BegunPlain, SeqOfItself, AdminsAreAdmins DEF j

\* An override of base content, of a template or of a question.
LEMMA CreateOverrideBegins ==
    ASSUME Discipline, NEW p \in Requests, NEW op, NEW by \in Admins, NEW y \in rows, NEW text,
           Table(y) \in {"template", "question"}, MayOverride(by, y),
           Begin(p, by, op, NewOverride(p, by, y, text), <<NewOverride(p, by, y, text)>>,
                 <<"insert", Logging>>)
    PROVE  Discipline' /\ Grows(p)
<1>. DEFINE x == NewOverride(p, by, y, text)
<1>1. Tenant(by) => by.role = "admin"
  BY AdminsAreAdmins, Permission DEF MayOverride
<1>2. IsBase(y.id)
  BY DEF IsBase, MayOverride, Table
<1>3. NewRow(p, by, x) /\ x.id = <<"override", p>> /\ x.org = by.org
  BY <1>1, <1>2, OverrideRow DEF NewOverride
<1>. HIDE DEF x
<1>4. Table(x) # "user"
  BY <1>3 DEF Table
<1>. QED
  BY <1>1, <1>3, <1>4, AdminInsert DEF x

LEMMA OverrideBegins ==
    ASSUME Discipline, NEW p \in Requests, At(p, "begin"),
           ReadOverride(p) \/ CreateOverride(p) \/ UpdateOverride(p) \/ DeleteOverride(p)
    PROVE  Discipline' /\ Grows(p)
<1>0. View(p) = rows
  BY AtBegin
<1>. DEFINE Goal == Discipline' /\ Grows(p)
<1>1. ASSUME ReadOverride(p) PROVE Goal
  <2>1. PICK by \in Admins, t \in Templates(p) :
           /\ t.org = SuperOrg
           /\ Begin(p, by, "get_override", Effective(p, by, t), <<>>, <<"commit">>)
    BY <1>1 DEF ReadOverride
  <2>2. t \in rows /\ Table(t) = "template"
    BY <1>0 DEF Templates, From
  <2>3. DOMAIN t = Columns["template"]
    BY <2>2 DEF Discipline, RowsOK, IsRow
  <2>4. Effective(p, by, t).org = SuperOrg
    BY <2>1 DEF Effective
  <2>. QED
    BY <2>1, <2>4, BegunRead, AdminsAreAdmins
<1>2. ASSUME CreateOverride(p) PROVE Goal
  <2>1. PICK by \in Admins, t \in Templates(p), text \in Texts :
           /\ MayOverride(by, t)
           /\ Begin(p, by, "create_override", NewOverride(p, by, t, text),
                    <<NewOverride(p, by, t, text)>>, <<"insert", Logging>>)
    BY <1>2 DEF CreateOverride, Logging
  <2>2. t \in rows /\ Table(t) = "template"
    BY <1>0 DEF Templates, From
  <2>. QED
    BY <2>1, <2>2, CreateOverrideBegins
<1>3. ASSUME UpdateOverride(p) PROVE Goal
  <2>1. PICK by \in Admins, o \in From("override", View(p)), text \in Texts :
           /\ o.org = by.org /\ MayChange(by, by.org)
           /\ Begin(p, by, "update_override", [o EXCEPT !.text = text], <<>>, <<"flush", Logging>>)
    BY <1>3 DEF UpdateOverride, Logging
  <2>. DEFINE e == [o EXCEPT !.text = text]
  <2>2. o \in rows /\ Table(o) = "override"
    BY <1>0 DEF From
  <2>3. DOMAIN e = DOMAIN o /\ \A c \in DOMAIN o \ Mutable[Table(o)] : e[c] = o[c]
    BY <2>2 DEF Mutable
  <2>. HIDE DEF e
  <2>4. Tenant(by) => o.org = by.org /\ by.role = "admin"
    BY <2>1, AdminsAreAdmins, Permission
  <2>5. Edited(by, e) /\ e.org = o.org
    BY <2>2, <2>3, <2>4, EditOf DEF Editable
  <2>6. "mark_stale" \notin Steps(<<"flush", Logging>>)
    BY EditScripts DEF Logging
  <2>. QED
    BY <2>1, <2>4, <2>5, <2>6, EditScripts, BegunEdit DEF e
<1>4. ASSUME DeleteOverride(p) PROVE Goal
  <2>1. PICK by \in Admins, o \in From("override", View(p)) :
           /\ o.org = by.org
           /\ Begin(p, by, "delete_override", o, <<>>, <<"delete", Logging>>)
    BY <1>4 DEF DeleteOverride, Logging
  <2>. QED
    BY <1>0, <2>1, BegunDelete DEF From
<1>. QED
  BY <1>1, <1>2, <1>3, <1>4

LEMMA RubricBegins ==
    ASSUME Discipline, NEW p \in Requests, At(p, "begin"),
           ReadRubric(p) \/ CreateRubric(p) \/ UpdateRubric(p) \/ DeactivateRubric(p)
    PROVE  Discipline' /\ Grows(p)
<1>0. View(p) = rows
  BY AtBegin
<1>. DEFINE Goal == Discipline' /\ Grows(p)
<1>1. ASSUME CreateRubric(p) PROVE Goal
  <2>1. PICK by \in Admins, name \in Names, text \in Texts :
           LET new == NewRubric(p, by, name, text)
           IN  /\ MayMutate(by, by.org)
               /\ \/ Begin(p, by, "create_rubric", new, <<new>>, <<"insert", Logging>>)
                  \/ Begin(p, by, "create_rubric", new, <<new, NewDimensions(p, new.id)>>,
                           <<"insert", "clear", "insert", Logging>>)
    BY <1>1 DEF CreateRubric, Logging
  <2>. DEFINE x == NewRubric(p, by, name, text)
              y == NewDimensions(p, x.id)
  <2>2. Tenant(by) => by.role = "admin"
    BY <2>1, AdminsAreAdmins, Permission
  <2>3. NewRow(p, by, x) /\ x.id = <<"rubric", p>> /\ x.org = by.org
    BY <2>2, RubricRow DEF NewRubric
  <2>4. NewRow(p, by, y) /\ y.id = <<"dimension", p>>
    BY <2>2, DimensionsRow
  <2>5. \/ Begin(p, by, "create_rubric", x, <<x>>, <<"insert", Logging>>)
        \/ Begin(p, by, "create_rubric", x, <<x, y>>, <<"insert", "clear", "insert", Logging>>)
    BY <2>1
  <2>. HIDE DEF x, y
  <2>6. Table(x) # "user" /\ Table(y) # "user" /\ x.id # y.id
    BY <2>3, <2>4 DEF Table
  <2>7. CASE Begin(p, by, "create_rubric", x, <<x>>, <<"insert", Logging>>)
    BY <2>2, <2>3, <2>6, <2>7, AdminInsert
  <2>8. CASE Begin(p, by, "create_rubric", x, <<x, y>>, <<"insert", "clear", "insert", Logging>>)
    BY <2>3, <2>4, <2>6, <2>8, BegunInserts, AdminsAreAdmins
  <2>. QED
    BY <2>5, <2>7, <2>8
<1>2. ASSUME UpdateRubric(p) PROVE Goal
  <2>1. PICK b \in RubricsIn(p), text \in Texts :
           LET e == [b EXCEPT !.text = text]
           IN  \/ Serve(p, "update_rubric", b.org, e, <<>>, <<"flush", Logging>>)
               \/ Serve(p, "update_rubric", b.org, e, <<>>, <<"flush", "clear", Logging>>)
               \/ Serve(p, "update_rubric", b.org, e, <<NewDimensions(p, b.id)>>,
                        <<"flush", "clear", "insert", Logging>>)
    BY <1>2 DEF UpdateRubric, Logging
  <2>. DEFINE e == [b EXCEPT !.text = text]
              y == NewDimensions(p, b.id)
  <2>2. b \in rows /\ Table(b) = "rubric"
    BY <1>0 DEF RubricsIn, From
  <2>3. DOMAIN e = DOMAIN b /\ \A c \in DOMAIN b \ Mutable[Table(b)] : e[c] = b[c]
    BY <2>2 DEF Mutable
  <2>4. \/ Serve(p, "update_rubric", b.org, e, <<>>, <<"flush", Logging>>)
        \/ Serve(p, "update_rubric", b.org, e, <<>>, <<"flush", "clear", Logging>>)
        \/ Serve(p, "update_rubric", b.org, e, <<y>>, <<"flush", "clear", "insert", Logging>>)
    BY <2>1
  <2>. HIDE DEF e, y
  <2>5. CASE Serve(p, "update_rubric", b.org, e, <<>>, <<"flush", Logging>>)
    BY <2>2, <2>3, <2>5, ServeEdit, EditScripts DEF Editable
  <2>6. CASE Serve(p, "update_rubric", b.org, e, <<>>, <<"flush", "clear", Logging>>)
    BY <2>2, <2>3, <2>6, ServeEdit, EditScripts DEF Editable
  <2>7. CASE Serve(p, "update_rubric", b.org, e, <<y>>, <<"flush", "clear", "insert", Logging>>)
    <3>1. PICK by \in Admins : /\ MayMutate(by, b.org)
                               /\ Begin(p, by, "update_rubric", e, <<y>>,
                                        <<"flush", "clear", "insert", Logging>>)
      BY <2>7 DEF Serve
    <3>2. Tenant(by) => b.org = by.org /\ by.role = "admin"
      BY <3>1, AdminsAreAdmins, Permission
    <3>3. Edited(by, e) /\ e.org = b.org
      BY <2>2, <2>3, <3>2, EditOf DEF Editable
    <3>4. NewRow(p, by, y) /\ Table(y) # "user"
      BY <3>2, DimensionsRow DEF Table, y
    <3>. QED
      BY <3>1, <3>2, <3>3, <3>4, BegunReplace
  <2>. QED
    BY <2>4, <2>5, <2>6, <2>7
<1>3. ASSUME DeactivateRubric(p) PROVE Goal
  <2>1. PICK b \in RubricsIn(p) :
           Serve(p, "deactivate_rubric", b.org, [b EXCEPT !.active = FALSE], <<>>,
                 IF b.active THEN <<"flush", "mark_stale", Logging>> ELSE <<"commit">>)
    BY <1>3 DEF DeactivateRubric, Logging
  <2>. DEFINE e == [b EXCEPT !.active = FALSE]
  <2>2. b \in rows /\ Table(b) = "rubric"
    BY <1>0 DEF RubricsIn, From
  <2>3. DOMAIN e = DOMAIN b /\ \A c \in DOMAIN b \ Mutable[Table(b)] : e[c] = b[c]
    BY <2>2 DEF Mutable
  <2>. HIDE DEF e
  <2>4. CASE b.active
    <3>1. Serve(p, "deactivate_rubric", b.org, e, <<>>, <<"flush", "mark_stale", Logging>>)
      BY <2>1, <2>4 DEF e
    <3>. QED
      BY <3>1, <2>2, <2>3, ServeEdit, EditScripts DEF Editable
  <2>5. CASE ~b.active
    <3>1. Serve(p, "deactivate_rubric", b.org, e, <<>>, <<"commit">>)
      BY <2>1, <2>5 DEF e
    <3>. QED
      BY <3>1, <2>2, <2>3, ServeNothing DEF Editable
  <2>. QED
    BY <2>4, <2>5
<1>. QED
  BY <1>1, <1>2, <1>3, ReadBegins DEF ReadRubric

LEMMA WindowBegins ==
    ASSUME Discipline, NEW p \in Requests, At(p, "begin"),
           ReadWindow(p) \/ CreateWindow(p) \/ UpdateWindow(p) \/ ArchiveWindow(p)
    PROVE  Discipline' /\ Grows(p)
<1>0. View(p) = rows
  BY AtBegin
<1>. DEFINE Goal == Discipline' /\ Grows(p)
<1>1. ASSUME ReadWindow(p) PROVE Goal
  <2>1. PICK by \in Admins, w \in Windows(p) :
           /\ IsSuperadmin(by) \/ w.org = by.org
           /\ Begin(p, by, "get_window", w, <<>>, <<"commit">>)
    BY <1>1 DEF ReadWindow
  <2>. QED
    BY <2>1, BegunRead, AdminsAreAdmins DEF Tenant
<1>2. ASSUME CreateWindow(p) PROVE Goal
  <2>1. PICK by \in Admins, t \in Mappable(p), role \in Roles, text \in Texts :
           LET w == NewWindow(p, by, text)
           IN  /\ MayChange(by, by.org)
               /\ Begin(p, by, "create_window", w, <<w, NewMapping(p, w.id, role, t)>>,
                        <<"insert", "clear", "insert", Logging>>)
    BY <1>2 DEF CreateWindow, Logging
  <2>. DEFINE x == NewWindow(p, by, text)
              y == NewMapping(p, x.id, role, t)
  <2>2. Tenant(by) => by.role = "admin"
    BY <2>1, AdminsAreAdmins, Permission
  <2>3. NewRow(p, by, x) /\ x.id = <<"window", p>> /\ x.org = by.org
    BY <2>2, WindowRow DEF NewWindow
  <2>. HIDE DEF x
  <2>4. NewRow(p, by, y) /\ y.id = <<"mapping", p>>
    BY <2>2, <2>3, MappingRow
  <2>5. Begin(p, by, "create_window", x, <<x, y>>, <<"insert", "clear", "insert", Logging>>)
    BY <2>1 DEF x
  <2>. HIDE DEF y
  <2>6. Table(x) # "user" /\ Table(y) # "user" /\ x.id # y.id
    BY <2>3, <2>4 DEF Table
  <2>. QED
    BY <2>3, <2>4, <2>5, <2>6, BegunInserts, AdminsAreAdmins
<1>3. ASSUME UpdateWindow(p) PROVE Goal
  <2>1. PICK by \in Admins, w \in Windows(p), text \in Texts :
           LET e == [w EXCEPT !.text = text]
           IN  /\ MayChange(by, w.org)
               /\ \/ Begin(p, by, "update_window", e, <<>>, <<"flush", Logging>>)
                  \/ \E t \in Mappable(p), role \in Roles :
                        Begin(p, by, "update_window", e, <<NewMapping(p, w.id, role, t)>>,
                              <<"flush", "clear", "insert", Logging>>)
    BY <1>3 DEF UpdateWindow, Logging
  <2>. DEFINE e == [w EXCEPT !.text = text]
  <2>2. w \in rows /\ Table(w) = "window"
    BY <1>0 DEF Windows, From
  <2>3. DOMAIN e = DOMAIN w /\ \A c \in DOMAIN w \ Mutable[Table(w)] : e[c] = w[c]
    BY <2>2 DEF Mutable
  <2>4. \/ Begin(p, by, "update_window", e, <<>>, <<"flush", Logging>>)
        \/ \E t \in Mappable(p), role \in Roles :
              Begin(p, by, "update_window", e, <<NewMapping(p, w.id, role, t)>>,
                    <<"flush", "clear", "insert", Logging>>)
    BY <2>1
  <2>. HIDE DEF e
  <2>5. Tenant(by) => w.org = by.org /\ by.role = "admin"
    BY <2>1, AdminsAreAdmins, Permission
  <2>6. Edited(by, e) /\ e.org = w.org
    BY <2>2, <2>3, <2>5, EditOf DEF Editable
  <2>7. CASE Begin(p, by, "update_window", e, <<>>, <<"flush", Logging>>)
    <3>1. "mark_stale" \notin Steps(<<"flush", Logging>>)
      BY EditScripts DEF Logging
    <3>. QED
      BY <2>5, <2>6, <2>7, <3>1, EditScripts, BegunEdit
  <2>8. ASSUME NEW t \in Mappable(p), NEW role \in Roles,
               Begin(p, by, "update_window", e, <<NewMapping(p, w.id, role, t)>>,
                     <<"flush", "clear", "insert", Logging>>)
        PROVE  Goal
    <3>. DEFINE y == NewMapping(p, w.id, role, t)
    <3>1. w.id[1] = "window"
      BY <2>2 DEF Table
    <3>2. NewRow(p, by, y) /\ y.id = <<"mapping", p>>
      BY <2>5, <3>1, MappingRow
    <3>. HIDE DEF y
    <3>3. Table(y) # "user"
      BY <3>2 DEF Table
    <3>. QED
      BY <2>5, <2>6, <2>8, <3>2, <3>3, BegunReplace DEF y
  <2>. QED
    BY <2>4, <2>7, <2>8
<1>4. ASSUME ArchiveWindow(p) PROVE Goal
  <2>1. PICK by \in Admins, w \in Windows(p) :
           /\ MayChange(by, w.org)
           /\ Begin(p, by, "archive_window", w, <<>>, <<"delete", Logging>>)
    BY <1>4 DEF ArchiveWindow, Logging
  <2>2. Tenant(by) => w.org = by.org
    BY <2>1, AdminsAreAdmins, Permission
  <2>3. w \in rows /\ Table(w) = "window"
    BY <1>0 DEF Windows, From
  <2>. QED
    BY <2>1, <2>2, <2>3, BegunDelete
<1>. QED
  BY <1>1, <1>2, <1>3, <1>4

LEMMA CreateBegins ==
    ASSUME Discipline, NEW p \in Requests, NEW op, NEW by \in Admins, NEW x, Create(p, op, by, x),
           (Tenant(by) => by.role = "admin") => NewRow(p, by, x), x.org = by.org, Table(x) # "user"
    PROVE  Discipline' /\ Grows(p)
<1>1. MayMutate(by, by.org) /\ Begin(p, by, op, x, <<x>>, <<"insert", Logging>>)
  BY DEF Create, Logging
<1>2. Tenant(by) => by.role = "admin"
  BY <1>1, AdminsAreAdmins, Permission
<1>. QED
  BY <1>1, <1>2, AdminInsert

\* The rest of the administration's services.
LEMMA CatalogBegins ==
    ASSUME Discipline, NEW p \in Requests, At(p, "begin"), CatalogBegin(p)
    PROVE  Discipline' /\ Grows(p)
<1>0. View(p) = rows
  BY AtBegin
<1>. DEFINE Goal == Discipline' /\ Grows(p)
<1>1. ASSUME CreateRole(p) PROVE Goal
  <2>1. PICK by \in Admins, name \in Names : Create(p, "create_role", by, NewNamedRole(p, by, name))
    BY <1>1 DEF CreateRole
  <2>. DEFINE x == NewNamedRole(p, by, name)
  <2>2. (Tenant(by) => by.role = "admin") => NewRow(p, by, x)
    BY RoleRow
  <2>3. x.org = by.org /\ Table(x) # "user"
    BY DEF NewNamedRole, Table
  <2>. QED
    BY <2>1, <2>2, <2>3, CreateBegins
<1>2. ASSUME UpdateRole(p) PROVE Goal
  <2>1. PICK x \in RolesIn(p), name \in Names :
           Serve(p, "update_role", x.org, [x EXCEPT !.name = name], <<>>, <<"flush", Logging>>)
    BY <1>2 DEF UpdateRole, Logging
  <2>. DEFINE e == [x EXCEPT !.name = name]
  <2>2. x \in rows /\ Table(x) = "role"
    BY <1>0 DEF RolesIn, From
  <2>3. DOMAIN e = DOMAIN x /\ \A c \in DOMAIN x \ Mutable[Table(x)] : e[c] = x[c]
    BY <2>2 DEF Mutable
  <2>. HIDE DEF e
  <2>. QED
    BY <2>1, <2>2, <2>3, ServeEdit, EditScripts DEF Editable, e
<1>3. ASSUME CreateTopic(p) PROVE Goal
  <2>1. PICK by \in Admins, name \in Names, parent \in {None} \cup Ids(TopicsIn(p)) :
           Create(p, "create_topic", by, NewTopic(p, by, name, parent))
    BY <1>3 DEF CreateTopic
  <2>. DEFINE x == NewTopic(p, by, name, parent)
  <2>2. (Tenant(by) => by.role = "admin") => NewRow(p, by, x)
    BY TopicRow
  <2>3. x.org = by.org /\ Table(x) # "user"
    BY DEF NewTopic, Table
  <2>. QED
    BY <2>1, <2>2, <2>3, CreateBegins
<1>4. ASSUME UpdateTopic(p) PROVE Goal
  <2>1. PICK x \in TopicsIn(p), name \in Names, parent \in {None} \cup Ids(TopicsIn(p)) :
           Serve(p, "update_topic", x.org, [x EXCEPT !.name = name, !.parent = parent], <<>>,
                 IF parent \in {None, x.parent} THEN <<"flush", Logging>>
                 ELSE <<"walk", "flush", Logging>>)
    BY <1>4 DEF UpdateTopic, Logging
  <2>. DEFINE e == [x EXCEPT !.name = name, !.parent = parent]
  <2>2. x \in rows /\ Table(x) = "topic"
    BY <1>0 DEF TopicsIn, From
  <2>3. DOMAIN e = DOMAIN x /\ \A c \in DOMAIN x \ Mutable[Table(x)] : e[c] = x[c]
    <3>1. Mutable[Table(x)] = {"name", "parent"}
      BY <2>2 DEF Mutable
    <3>2. DOMAIN e = DOMAIN x /\ \A c \in DOMAIN x \ {"name", "parent"} : e[c] = x[c]
      OBVIOUS
    <3>. QED
      BY <3>1, <3>2
  <2>. HIDE DEF e
  <2>4. CASE parent \in {None, x.parent}
    <3>1. Serve(p, "update_topic", x.org, e, <<>>, <<"flush", Logging>>)
      BY <2>1, <2>4 DEF e
    <3>. QED
      BY <2>2, <2>3, <3>1, ServeEdit, EditScripts DEF Editable
  <2>5. CASE parent \notin {None, x.parent}
    <3>1. Serve(p, "update_topic", x.org, e, <<>>, <<"walk", "flush", Logging>>)
      BY <2>1, <2>5 DEF e
    <3>. QED
      BY <2>2, <2>3, <3>1, ServeEdit, EditScripts DEF Editable
  <2>. QED
    BY <2>4, <2>5
<1>5. ASSUME CreateCodingTopic(p) PROVE Goal
  <2>1. PICK by \in Admins, name \in Names, parent \in {None} \cup Ids(CodingTopics(p)) :
           Create(p, "create_coding_topic", by, NewCodingTopic(p, by, name, parent))
    BY <1>5 DEF CreateCodingTopic
  <2>. DEFINE x == NewCodingTopic(p, by, name, parent)
  <2>2. (Tenant(by) => by.role = "admin") => NewRow(p, by, x)
    BY CodingTopicRow
  <2>3. x.org = by.org /\ Table(x) # "user"
    BY DEF NewCodingTopic, Table
  <2>. QED
    BY <2>1, <2>2, <2>3, CreateBegins
<1>6. ASSUME CreateQuestion(p) PROVE Goal
  <2>1. PICK by \in Admins, text \in Texts :
           Create(p, "create_question", by, NewQuestion(p, by, text))
    BY <1>6 DEF CreateQuestion
  <2>. DEFINE x == NewQuestion(p, by, text)
  <2>2. (Tenant(by) => by.role = "admin") => NewRow(p, by, x)
    BY QuestionRow
  <2>3. x.org = by.org /\ Table(x) # "user"
    BY DEF NewQuestion, Table
  <2>. QED
    BY <2>1, <2>2, <2>3, CreateBegins
<1>7. ASSUME UpdateQuestion(p) PROVE Goal
  <2>1. PICK x \in Questions(p), text \in Texts :
           Serve(p, "update_question", x.org, [x EXCEPT !.text = text], <<>>, <<"flush", Logging>>)
    BY <1>7 DEF UpdateQuestion, Logging
  <2>. DEFINE e == [x EXCEPT !.text = text]
  <2>2. x \in rows /\ Table(x) = "question"
    BY <1>0 DEF Questions, From
  <2>3. DOMAIN e = DOMAIN x /\ \A c \in DOMAIN x \ Mutable[Table(x)] : e[c] = x[c]
    BY <2>2 DEF Mutable
  <2>. HIDE DEF e
  <2>. QED
    BY <2>1, <2>2, <2>3, ServeEdit, EditScripts DEF Editable, e
<1>8. ASSUME CreateQuestionOverride(p) PROVE Goal
  <2>1. PICK by \in Admins, x \in Questions(p), text \in Texts :
           /\ MayOverride(by, x)
           /\ Begin(p, by, "create_question_override", NewOverride(p, by, x, text),
                    <<NewOverride(p, by, x, text)>>, <<"insert", Logging>>)
    BY <1>8 DEF CreateQuestionOverride, Logging
  <2>2. x \in rows /\ Table(x) = "question"
    BY <1>0 DEF Questions, From
  <2>. QED
    BY <2>1, <2>2, CreateOverrideBegins
<1>9. ASSUME CreateProblem(p) PROVE Goal
  <2>1. PICK by \in Admins, text \in Texts :
           Create(p, "create_problem", by, NewProblem(p, by, text))
    BY <1>9 DEF CreateProblem
  <2>. DEFINE x == NewProblem(p, by, text)
  <2>2. (Tenant(by) => by.role = "admin") => NewRow(p, by, x)
    BY ProblemRow
  <2>3. x.org = by.org /\ Table(x) # "user"
    BY DEF NewProblem, Table
  <2>. QED
    BY <2>1, <2>2, <2>3, CreateBegins
<1>10. ASSUME UpdateProblem(p) PROVE Goal
  <2>1. PICK x \in Problems(p), text \in Texts :
           Serve(p, "update_problem", x.org, [x EXCEPT !.text = text], <<>>, <<"flush", Logging>>)
    BY <1>10 DEF UpdateProblem, Logging
  <2>. DEFINE e == [x EXCEPT !.text = text]
  <2>2. x \in rows /\ Table(x) = "problem"
    BY <1>0 DEF Problems, From
  <2>3. DOMAIN e = DOMAIN x /\ \A c \in DOMAIN x \ Mutable[Table(x)] : e[c] = x[c]
    BY <2>2 DEF Mutable
  <2>. HIDE DEF e
  <2>. QED
    BY <2>1, <2>2, <2>3, ServeEdit, EditScripts DEF Editable, e
<1>. QED
  BY <1>1, <1>2, <1>3, <1>4, <1>5, <1>6, <1>7, <1>8, <1>9, <1>10, ReadBegins
  DEF CatalogBegin, ReadRole, ReadTopic, ReadCodingTopic, ReadQuestion, ReadProblem

-----------------------------------------------------------------------------
(***************************************************************************)
(* What a candidate begins.                                                *)
(***************************************************************************)
LEMMA CandidateIsNoTenant == ~Tenant(Candidate) /\ ~IsAdmin(Candidate) /\ WellFormed(Candidate)
BY CandidateAssumption DEF Tenant

LEMMA ColumnsChanged ==
    ASSUME NEW x, NEW e, NEW C, \A c \in DOMAIN x \ C : e[c] = x[c]
    PROVE  /\ DOMAIN Changed(e, x) \subseteq C
           /\ \A c \in DOMAIN Changed(e, x) : Changed(e, x)[c] = e[c]
BY DEF Changed

\* The UPDATE of one row that is not a tenant's, or not for one of its administrators.
LEMMA OneRowUpdated ==
    ASSUME NEW p, NEW j, NEW id, ~Tenant(j.by) \/ id[1] \notin OrgTables, NEW cols, id[1] \in Tables, Mutable[id[1]] # {},
           DOMAIN cols \subseteq Mutable[id[1]], Known(p, id),
           id[1] = "token" => "revoked" \in DOMAIN cols /\ cols.revoked = TRUE,
           id[1] \in Personal => "active" \notin DOMAIN cols
    PROVE  StmtOK(p, j, UpdateRow(id, cols)) /\ StmtOK(p, j, Update({id}, cols))
<1>1. ASSUME NEW s \in {UpdateRow(id, cols), Update({id}, cols)} PROVE StmtOK(p, j, s)
  <2>1. s.do = "update" /\ s.ids = {id} /\ s.cols = cols
    BY DEF UpdateRow, Update
  <2>2. Updates(p, j, s)
    BY <2>1 DEF Updates, Table
  <2>. QED
    BY <2>1, <2>2 DEF StmtOK
<1>. QED
  BY <1>1

\* A request without a row to insert, for a caller who is no administrator.
LEMMA BegunFor ==
    ASSUME Discipline, NEW p \in Requests, NEW by, NEW op, NEW entity, NEW todo, NEW s,
           Start(p, by, op, entity, <<>>, todo),
           stmt' = [stmt EXCEPT ![p] = s], UNCHANGED <<rows, tx>>,
           by = Nobody \/ WellFormed(by), IsAdmin(by) => "commit" \notin Steps(todo),
           Tenant(by) /\ "org" \in DOMAIN entity => entity.org \in {by.org, SuperOrg},
           Plain(todo, <<>>),
           Steps(todo) \subseteq {"commit", Logging, "close", "raise", "find_window", "revoke_all",
                                  "write_profile"},
           "find_window" \in Steps(todo) =>
              <<entity.id, entity.text>> \in shown /\ ~IsAdmin(by) /\ todo = <<"find_window">> /\ s = NoStmt,
           "write_profile" \in Steps(todo) =>
              entity.id[1] = "candidate" /\ Known(p, entity.id) /\ op = "update_profile",
           StmtOK(p, JobOf(by, op, entity, <<>>, todo), s)
    PROVE  Discipline' /\ Grows(p)
<1>. DEFINE j == JobOf(by, op, entity, <<>>, todo)
<1>1. j.todo = todo /\ j.by = by /\ j.entity = entity /\ j.create = <<>> /\ j.do = op
  BY DEF JobOf
<1>. HIDE DEF j
<1>2. /\ "insert" \notin Steps(todo) /\ "flush" \notin Steps(todo) /\ "check_in_use" \notin Steps(todo)
      /\ "mark_stale" \notin Steps(todo) /\ "delete" \notin Steps(todo)
      /\ "save_text" \notin Steps(todo) /\ "save_analysis" \notin Steps(todo)
  BY DEF Logging
<1>3. ToCreate(j) = {} /\ Creates(p, j)
  BY <1>1, <1>2 DEF Creates, ToCreate
<1>4. Holds(p, j)
  BY <1>1, <1>2 DEF Holds
<1>. QED
  BY <1>2, <1>3, <1>4, BegunPlain, SeqOfItself DEF j

\* The retirement of a deck or a roadmap and the INSERT of the next one.
LEMMA PersonalRow ==
    ASSUME NEW p \in Requests, NEW table \in Personal, NEW topic
    PROVE  LET x == NewPersonal(table, p, topic)
           IN  NewRow(p, Candidate, x) /\ x.id = <<table, p>>
<1>. DEFINE x == NewPersonal(table, p, topic)
<1>1. x.id = <<table, p>> /\ x.active = TRUE /\ DOMAIN x = PersonalColumns
  BY DEF NewPersonal, PersonalColumns
<1>2. DOMAIN x = Columns[table] /\ table \in Tables
  BY <1>1, TableNames DEF Personal, Columns
<1>. HIDE DEF x
<1>3. Table(x) = table /\ x.id[2] = p /\ p # "none"
  BY <1>1, NamesAssumption DEF Table
<1>4. IsRow(x)
  BY <1>1, <1>2, <1>3 DEF IsRow, Tables, Personal
<1>5. NewRow(p, Candidate, x)
  BY <1>1, <1>3, <1>4, CandidateIsNoTenant DEF NewRow, Personal
<1>. QED
  BY <1>1, <1>5 DEF x

LEMMA RetireScripts ==
    /\ \A x : Matches(<<"retire", "insert", "commit">>, <<x>>)
    /\ \A x, y : Matches(<<"insert", "retire", "insert", "commit">>, <<x, y>>)
    /\ Steps(<<"retire", "insert", "commit">>) = {"retire", "insert", "commit"}
    /\ Steps(<<"insert", "retire", "insert", "commit">>) = {"retire", "insert", "commit"}
    /\ <<"retire", "insert", "commit">> \in Seq(StepNames)
    /\ <<"insert", "retire", "insert", "commit">> \in Seq(StepNames)
<1>1. {"insert", "retire", "commit"} \subseteq StepNames
  BY DEF StepNames, LastSteps
<1>2. ASSUME NEW x PROVE Matches(<<"retire", "insert", "commit">>, <<x>>)
  <2>. DEFINE todo == <<"retire", "insert", "commit">>
  <2>1. Len(todo) = 3 /\ todo[1] = "retire" /\ todo[2] = "insert" /\ todo[3] = "commit"
    OBVIOUS
  <2>. HIDE DEF todo
  <2>2. \A l \in 1 .. Len(todo) : todo[l] = "insert" <=> l = 2
    BY <2>1
  <2>3. 2 \in 1 .. Len(todo)
    BY <2>1
  <2>4. Matches(todo, <<x>>)
    BY <2>2, <2>3, OneRowMatches
  <2>. QED
    BY <2>4 DEF todo
<1>3. ASSUME NEW x, NEW y PROVE Matches(<<"insert", "retire", "insert", "commit">>, <<x, y>>)
  <2>. DEFINE todo == <<"insert", "retire", "insert", "commit">>
  <2>1. Len(todo) = 4 /\ todo[1] = "insert" /\ todo[2] = "retire" /\ todo[3] = "insert" /\ todo[4] = "commit"
    OBVIOUS
  <2>. HIDE DEF todo
  <2>2. \A l \in 1 .. Len(todo) : todo[l] = "insert" <=> l \in {1, 3}
    BY <2>1
  <2>3. 1 \in 1 .. Len(todo) /\ 3 \in 1 .. Len(todo) /\ 1 < 3
    BY <2>1
  <2>4. Matches(todo, <<x, y>>)
    BY <2>2, <2>3, TwoRowsMatch
  <2>. QED
    BY <2>4 DEF todo
<1>4. Steps(<<"retire", "insert", "commit">>) = {"retire", "insert", "commit"}
  BY DEF Steps
<1>5. Steps(<<"insert", "retire", "insert", "commit">>) = {"retire", "insert", "commit"}
  BY DEF Steps
<1>. QED
  BY <1>1, <1>2, <1>3, <1>4, <1>5, TupleOf3, TupleOf4

\* The two scripts that retire.
LEMMA BegunRetire ==
    ASSUME Discipline, NEW p \in Requests, NEW op, NEW create, NEW todo,
           Begin(p, Candidate, op, <<>>, create, todo),
           \/ /\ todo = <<"retire", "insert", "commit">>
              /\ \E x : create = <<x>> /\ NewRow(p, Candidate, x) /\ Table(x) \in Personal
           \/ /\ todo = <<"insert", "retire", "insert", "commit">>
              /\ \E x, y : /\ create = <<x, y>> /\ NewRow(p, Candidate, x) /\ NewRow(p, Candidate, y)
                           /\ x.id # y.id /\ Table(y) \in Personal /\ Table(x) # "user"
    PROVE  Discipline' /\ Grows(p)
<1>. DEFINE j == JobOf(Candidate, op, <<>>, create, todo)
<1>1. /\ j = [do |-> j.do, by |-> j.by, todo |-> j.todo,
              entity |-> j.entity, create |-> j.create, walk |-> j.walk]
      /\ j.do = op /\ j.by = Candidate /\ j.todo = todo /\ j.create = create /\ j.entity = <<>>
  BY DEF JobOf
<1>2. Start(p, Candidate, op, <<>>, create, todo) /\ UNCHANGED <<rows, tx, stmt>>
  BY DEF Begin, dbVars
<1>. HIDE DEF j
<1>3. Steps(todo) = {"retire", "insert", "commit"} /\ Matches(todo, create) /\ todo \in Seq(StepNames)
  BY RetireScripts
<1>4. /\ todo # <<>> /\ todo[Len(todo)] = "commit"
      /\ \A i \in 1 .. Len(todo) : todo[i] \in LastSteps => i = Len(todo)
  <2>1. CASE todo = <<"retire", "insert", "commit">>
    <3>1. Len(todo) = 3 /\ todo[1] = "retire" /\ todo[2] = "insert" /\ todo[3] = "commit"
      BY <2>1
    <3>. QED
      BY <3>1, EmptySeq DEF LastSteps
  <2>2. CASE todo = <<"insert", "retire", "insert", "commit">>
    <3>1. Len(todo) = 4 /\ todo[1] = "insert" /\ todo[2] = "retire" /\ todo[3] = "insert" /\ todo[4] = "commit"
      BY <2>2
    <3>. QED
      BY <3>1, EmptySeq DEF LastSteps
  <2>. QED
    BY <2>1, <2>2
<1>5. create \in Seq({create[i] : i \in 1 .. Len(create)})
  BY SeqOfItself
<1>6. IsJob(j)
  BY <1>1, <1>3, <1>5, CandidateIsNoTenant DEF IsJob
<1>7. create[Len(create)].id[1] \in Personal
  <2>1. CASE \E x : create = <<x>> /\ Table(x) \in Personal
    BY <2>1 DEF Table
  <2>2. CASE \E x, y : create = <<x, y>> /\ Table(y) \in Personal
    BY <2>2 DEF Table
  <2>. QED
    BY <2>1, <2>2
<1>8. Script(j)
  <2>1. Steps(todo) \cap IngestSteps = {} /\ Steps(todo) \cap PageSteps = {} /\ "begin" \notin Steps(todo)
    BY <1>3 DEF IngestSteps, PageSteps
  <2>2. "commit" \in FinalSteps
    BY DEF FinalSteps, LastSteps
  <2>. QED
    BY <1>1, <1>3, <1>4, <1>7, <2>1, <2>2, CandidateIsNoTenant DEF Script
<1>9. Creates(p, j)
  <2>1. ASSUME NEW x, create = <<x>>, NewRow(p, Candidate, x), Table(x) \in Personal
        PROVE  Creates(p, j)
    <3>1. Len(j.create) = 1 /\ j.create[1] = x
      BY <1>1, <2>1
    <3>2. ToCreate(j) = {x}
      BY <1>1, <1>3, <3>1 DEF ToCreate
    <3>3. Table(x) # "user"
      BY <2>1 DEF Personal
    <3>. QED
      BY <1>1, <2>1, <3>1, <3>2, <3>3 DEF Creates
  <2>2. ASSUME NEW x, NEW y, create = <<x, y>>, NewRow(p, Candidate, x), NewRow(p, Candidate, y),
               x.id # y.id, Table(y) \in Personal, Table(x) # "user"
        PROVE  Creates(p, j)
    <3>1. Len(j.create) = 2 /\ j.create[1] = x /\ j.create[2] = y
      BY <1>1, <2>2
    <3>2. ToCreate(j) = {x, y}
      BY <1>1, <1>3, <3>1 DEF ToCreate
    <3>3. Table(y) # "user"
      BY <2>2 DEF Personal
    <3>4. \A i \in 1 .. Len(j.create) : Table(j.create[i]) # "user"
      BY <2>2, <3>1, <3>3
    <3>. QED
      BY <1>1, <2>2, <3>1, <3>2, <3>4 DEF Creates
  <2>. QED
    BY <2>1, <2>2
<1>10. Holds(p, j)
  BY <1>1, <1>3, CandidateIsNoTenant DEF Holds
<1>11. stmt' = [stmt EXCEPT ![p] = NoStmt]
  <2>1. stmt[p] = NoStmt
    BY <1>2, AtBegin DEF Start
  <2>. QED
    BY <1>2, <2>1 DEF Discipline, Shapes
<1>12. "begin" \notin Steps(todo)
  BY <1>3
<1>. QED
  BY <1>2, <1>4, <1>6, <1>8, <1>9, <1>10, <1>11, <1>12, Begun, NothingToDo DEF JobOK, j

LEMMA CandidateBegins ==
    ASSUME Discipline, NEW p \in Requests, At(p, "begin"), CandidateBegin(p)
    PROVE  Discipline' /\ Grows(p)
<1>0. View(p) = rows /\ \A x \in rows : IsRow(x) /\ Settled(x.id)
  BY AtBegin
<1>. DEFINE Goal == Discipline' /\ Grows(p)
<1>1. ASSUME StartPractice(p) PROVE Goal
  <2>1. PICK t \in From("template", View(p)) :
           t.active /\ Begin(p, Candidate, "start_practice", t, <<>>, <<"find_window">>)
    BY <1>1 DEF StartPractice
  <2>2. <<t.id, t.text>> \in shown
    <3>1. t \in From("template", rows)
      BY <1>0
    <3>2. <<t.id, t.text>> \in Offered(rows)
      BY <2>1, <3>1 DEF Offered
    <3>. QED
      BY <3>2 DEF Discipline, RowsOK
  <2>3. Plain(<<"find_window">>, <<>>) /\ Steps(<<"find_window">>) = {"find_window"}
    BY PlainOne DEF Late
  <2>4. /\ Start(p, Candidate, "start_practice", t, <<>>, <<"find_window">>)
        /\ UNCHANGED <<rows, tx>> /\ stmt' = [stmt EXCEPT ![p] = NoStmt]
    <3>1. stmt[p] = NoStmt
      BY AtBegin
    <3>. QED
      BY <2>1, <3>1 DEF Begin, dbVars, Discipline, Shapes
  <2>. QED
    BY <2>2, <2>3, <2>4, BegunFor, NothingToDo, CandidateIsNoTenant
<1>2. ASSUME GenerateDeck(p) PROVE Goal
  <2>1. PICK topic \in Topics :
           \/ Begin(p, Candidate, "generate_deck", <<>>, <<>>, <<"commit">>)
           \/ Begin(p, Candidate, "generate_deck", <<>>, <<NewPersonal("deck", p, topic)>>,
                    <<"retire", "insert", "commit">>)
           \/ \E org \in GenerationOrgs(p) :
                 Begin(p, Candidate, "generate_deck", <<>>,
                       <<NewQuestionFor(p, topic, org), NewPersonal("deck", p, topic)>>,
                       <<"insert", "retire", "insert", "commit">>)
    BY <1>2 DEF GenerateDeck
  <2>. DEFINE d == NewPersonal("deck", p, topic)
  <2>2. NewRow(p, Candidate, d) /\ d.id = <<"deck", p>>
    BY PersonalRow DEF Personal
  <2>. HIDE DEF d
  <2>3. Table(d) \in Personal
    BY <2>2 DEF Table, Personal
  <2>4. CASE Begin(p, Candidate, "generate_deck", <<>>, <<>>, <<"commit">>)
    BY <2>4, BegunRead, CandidateIsNoTenant
  <2>5. CASE Begin(p, Candidate, "generate_deck", <<>>, <<d>>, <<"retire", "insert", "commit">>)
    BY <2>2, <2>3, <2>5, BegunRetire
  <2>6. ASSUME NEW org \in GenerationOrgs(p),
               Begin(p, Candidate, "generate_deck", <<>>, <<NewQuestionFor(p, topic, org), d>>,
                     <<"insert", "retire", "insert", "commit">>)
        PROVE  Goal
    <3>. DEFINE q == NewQuestionFor(p, topic, org)
    <3>1. q.id = <<"question", p>> /\ DOMAIN q = Columns["question"]
      BY DEF NewQuestionFor, Columns, QuestionColumns
    <3>. HIDE DEF q
    <3>2. Table(q) = "question" /\ q.id[2] = p /\ p # "none" /\ q.id # d.id
      BY <2>2, <3>1, NamesAssumption DEF Table
    <3>3. IsRow(q)
      BY <3>1, <3>2, TableNames DEF IsRow, Tables
    <3>4. NewRow(p, Candidate, q)
      BY <3>2, <3>3, CandidateIsNoTenant DEF NewRow, Personal
    <3>5. Table(q) # "user"
      BY <3>2
    <3>6. Begin(p, Candidate, "generate_deck", <<>>, <<q, d>>, <<"insert", "retire", "insert", "commit">>)
      BY <2>6 DEF q
    <3>. QED
      BY <2>2, <2>3, <3>2, <3>4, <3>5, <3>6, BegunRetire
  <2>. QED
    BY <2>1, <2>4, <2>5, <2>6 DEF d
<1>3. ASSUME GenerateRoadmap(p) PROVE Goal
  <2>1. PICK topic \in Topics :
           Begin(p, Candidate, "generate_roadmap", <<>>, <<NewPersonal("roadmap", p, topic)>>,
                 <<"retire", "insert", "commit">>)
    BY <1>3 DEF GenerateRoadmap
  <2>. DEFINE d == NewPersonal("roadmap", p, topic)
  <2>2. NewRow(p, Candidate, d) /\ d.id = <<"roadmap", p>>
    BY PersonalRow DEF Personal
  <2>. HIDE DEF d
  <2>3. Table(d) \in Personal
    BY <2>2 DEF Table, Personal
  <2>. QED
    BY <2>1, <2>2, <2>3, BegunRetire DEF d
<1>4. ASSUME NEW op, NEW x \in rows, Table(x) \in Personal, NEW done, NEW reached,
             Progress(p, op, x, done, reached)
      PROVE  Goal
  <2>. DEFINE new == [x EXCEPT !.done = done, !.reached = reached]
              s   == IF new = x THEN NoStmt ELSE UpdateRow(x.id, Changed(new, x))
              j   == JobOf(Candidate, op, x, <<>>, <<"commit">>)
  <2>1. /\ Start(p, Candidate, op, x, <<>>, <<"commit">>)
        /\ stmt' = [stmt EXCEPT ![p] = s] /\ UNCHANGED <<rows, tx>>
    BY <1>4 DEF Progress, Issue
  <2>2. Plain(<<"commit">>, <<>>) /\ Steps(<<"commit">>) = {"commit"}
    BY PlainOne DEF Late
  <2>3. DOMAIN Changed(new, x) \subseteq {"done", "reached"}
    <3>1. \A c \in DOMAIN x \ {"done", "reached"} : new[c] = x[c]
      OBVIOUS
    <3>. QED
      BY <3>1, ColumnsChanged
  <2>4. j.by = Candidate
    BY DEF JobOf
  <2>5. StmtOK(p, j, s)
    <3>1. x.id[1] \in Personal /\ Known(p, x.id)
      BY <1>0, <1>4 DEF Table, Known, Settled
    <3>2. x.id[1] \in Tables /\ Mutable[x.id[1]] = {"active", "done", "reached"} /\ x.id[1] # "token"
      BY <3>1, TableNames DEF Personal, Mutable
    <3>3. StmtOK(p, j, UpdateRow(x.id, Changed(new, x)))
      <4>. HIDE DEF j, new
      <4>1. DOMAIN Changed(new, x) \subseteq Mutable[x.id[1]] /\ "active" \notin DOMAIN Changed(new, x)
        BY <2>3, <3>2
      <4>2. ~Tenant(j.by) /\ Mutable[x.id[1]] # {}
        BY <2>4, <3>2, CandidateIsNoTenant
      <4>. QED
        BY <3>1, <3>2, <4>1, <4>2, OneRowUpdated
    <3>. QED
      BY <3>3, NothingToDo
  <2>. HIDE DEF s
  <2>. QED
    BY <2>1, <2>2, <2>5, BegunFor, CandidateIsNoTenant
<1>5. ASSUME UpdateDeckProgress(p) PROVE Goal
  <2>1. PICK x \in From("deck", View(p)) :
           \E done, reached : Progress(p, "update_deck_progress", x, done, reached)
    BY <1>5 DEF UpdateDeckProgress
  <2>. QED
    BY <1>0, <1>4, <2>1 DEF From, Personal
<1>6. ASSUME UpdateRoadmapProgress(p) PROVE Goal
  <2>1. PICK x \in From("roadmap", View(p)) :
           \E done, reached : Progress(p, "update_roadmap_progress", x, done, reached)
    BY <1>6 DEF UpdateRoadmapProgress
  <2>. QED
    BY <1>0, <1>4, <2>1 DEF From, Personal
<1>. QED
  BY <1>1, <1>2, <1>3, <1>5, <1>6 DEF CandidateBegin

\* The scripts of pages.
LEMMA PageScripts ==
    ASSUME NEW a \in PageSteps, NEW b \in PageSteps
    PROVE  /\ <<a, "close">> \in Seq(StepNames) /\ <<a, b, "close">> \in Seq(StepNames)
           /\ Len(<<a, "close">>) = 2 /\ Len(<<a, b, "close">>) = 3
           /\ Steps(<<a, "close">>) = {a, "close"} /\ Steps(<<a, b, "close">>) = {a, b, "close"}
           /\ \A i \in 1 .. 2 : <<a, "close">>[i] \in LastSteps => i = 2
           /\ \A i \in 1 .. 3 : <<a, b, "close">>[i] \in LastSteps => i = 3
           /\ <<a, "close">>[2] = "close" /\ <<a, b, "close">>[3] = "close"
           /\ a # "insert" /\ b # "insert"
<1>1. a \in StepNames /\ b \in StepNames /\ "close" \in StepNames
  BY DEF StepNames, LastSteps
<1>2. a \notin LastSteps /\ b \notin LastSteps /\ a # "insert" /\ b # "insert"
  BY DEF PageSteps, LastSteps
<1>3. Steps(<<a, "close">>) = {a, "close"} /\ Steps(<<a, b, "close">>) = {a, b, "close"}
  BY DEF Steps
<1>4. \A i \in 1 .. 2 : <<a, "close">>[i] \in LastSteps => i = 2
  BY <1>2
<1>5. \A i \in 1 .. 3 : <<a, b, "close">>[i] \in LastSteps => i = 3
  BY <1>2
<1>. QED
  BY <1>1, <1>2, <1>3, <1>4, <1>5, TupleOf2, TupleOf3

LEMMA BegunPage ==
    ASSUME Discipline, NEW p \in Requests, NEW by, NEW op, NEW entity,
           NEW a \in PageSteps, NEW b \in PageSteps, NEW todo \in {<<a, "close">>, <<a, b, "close">>},
           Begin(p, by, op, entity, <<>>, todo), by = Nobody \/ WellFormed(by), ~Tenant(by)
    PROVE  Discipline' /\ Grows(p)
<1>. DEFINE j == JobOf(by, op, entity, <<>>, todo)
<1>1. /\ j = [do |-> j.do, by |-> j.by, todo |-> j.todo,
              entity |-> j.entity, create |-> j.create, walk |-> j.walk]
      /\ j.do = op /\ j.by = by /\ j.todo = todo /\ j.create = <<>> /\ j.entity = entity
  BY DEF JobOf
<1>2. Start(p, by, op, entity, <<>>, todo) /\ UNCHANGED <<rows, tx, stmt>>
  BY DEF Begin, dbVars
<1>. HIDE DEF j
<1>3. /\ todo \in Seq(StepNames) /\ todo # <<>> /\ Steps(todo) \subseteq {a, b, "close"}
      /\ \A i \in 1 .. Len(todo) : todo[i] \in LastSteps => i = Len(todo)
      /\ todo[Len(todo)] = "close" /\ "insert" \notin Steps(todo)
  <2>1. CASE todo = <<a, "close">>
    <3>1. Len(todo) = 2 /\ Steps(todo) = {a, "close"} /\ todo \in Seq(StepNames)
      BY <2>1, PageScripts
    <3>2. todo[2] = "close" /\ a # "insert"
      BY <2>1, PageScripts
    <3>3. \A i \in 1 .. 2 : todo[i] \in LastSteps => i = 2
      BY <2>1, PageScripts
    <3>. QED
      BY <3>1, <3>2, <3>3, EmptySeq
  <2>2. CASE todo = <<a, b, "close">>
    <3>1. Len(todo) = 3 /\ Steps(todo) = {a, b, "close"} /\ todo \in Seq(StepNames)
      BY <2>2, PageScripts
    <3>2. todo[3] = "close" /\ a # "insert" /\ b # "insert"
      BY <2>2, PageScripts
    <3>3. \A i \in 1 .. 3 : todo[i] \in LastSteps => i = 3
      BY <2>2, PageScripts
    <3>. QED
      BY <3>1, <3>2, <3>3, EmptySeq
  <2>. QED
    BY <2>1, <2>2
<1>4. Steps(todo) \subseteq PageSteps \cup {"close"}
  BY <1>3
<1>5. /\ Steps(todo) \cap IngestSteps = {}
      /\ Steps(todo) \cap {"begin", "retire", "commit", "flush", "check_in_use", "mark_stale", "delete",
                           "find_window", "write_profile", "save_text", "save_analysis"} = {}
  BY <1>4 DEF PageSteps, IngestSteps
<1>6. IsJob(j)
  BY <1>1, <1>3, SeqOfItself DEF IsJob
<1>7. Script(j)
  <2>1. "close" \in FinalSteps
    BY DEF FinalSteps, LastSteps
  <2>2. Matches(todo, <<>>)
    BY <1>3, NoRowsMatch
  <2>. QED
    BY <1>1, <1>3, <1>4, <1>5, <2>1, <2>2 DEF Script
<1>8. ToCreate(j) = {} /\ Creates(p, j)
  BY <1>1, <1>3 DEF Creates, ToCreate
<1>9. Holds(p, j)
  BY <1>1, <1>5 DEF Holds
<1>10. stmt' = [stmt EXCEPT ![p] = NoStmt]
  <2>1. stmt[p] = NoStmt
    BY <1>2, AtBegin DEF Start
  <2>. QED
    BY <1>2, <2>1 DEF Discipline, Shapes
<1>. QED
  BY <1>2, <1>3, <1>5, <1>6, <1>7, <1>8, <1>9, <1>10, Begun, NothingToDo DEF JobOK, j

LEMMA PageBegins ==
    ASSUME Discipline, NEW p \in Requests, PageBegin(p)
    PROVE  Discipline' /\ Grows(p)
<1>. DEFINE Goal == Discipline' /\ Grows(p)
<1>1. ASSUME NEW op, NEW S, Page(p, op, S) PROVE Goal
  <2>1. PICK x \in S : Begin(p, Candidate, op, x, <<>>, <<"close">>)
    BY <1>1 DEF Page
  <2>. QED
    BY <2>1, BegunRead, CandidateIsNoTenant
<1>2. ASSUME ListWindows(p) PROVE Goal
  <2>1. PICK e : \/ Begin(p, Candidate, "list_windows", e, <<>>, <<"close">>)
                 \/ Begin(p, Candidate, "list_windows", e, <<>>,
                          <<"read_windows", "read_mappings", "close">>)
    BY <1>2 DEF ListWindows
  <2>2. "read_windows" \in PageSteps /\ "read_mappings" \in PageSteps
    BY DEF PageSteps
  <2>. QED
    BY <2>1, <2>2, BegunRead, BegunPage, CandidateIsNoTenant
<1>3. ASSUME GetSubmission(p) PROVE Goal
  <2>1. PICK e : Begin(p, Candidate, "get_submission", e, <<>>,
                       <<"read_its_window", "read_its_template", "close">>)
    BY <1>3 DEF GetSubmission
  <2>2. "read_its_window" \in PageSteps /\ "read_its_template" \in PageSteps
    BY DEF PageSteps
  <2>. QED
    BY <2>1, <2>2, BegunPage, CandidateIsNoTenant
<1>4. ASSUME ListQuestions(p) PROVE Goal
  <2>1. PICK e : Begin(p, Candidate, "list_questions", e, <<>>, <<"read_problems", "close">>)
    BY <1>4 DEF ListQuestions
  <2>2. "read_problems" \in PageSteps
    BY DEF PageSteps
  <2>. QED
    BY <2>1, <2>2, BegunPage, CandidateIsNoTenant
<1>. QED
  BY <1>1, <1>2, <1>3, <1>4 DEF PageBegin, ListSubmissions, ListTemplates, GetActiveDeck, GetDeck,
     ListDecks, GetActiveRoadmap, ListRoadmaps

\* A row that a candidate or nobody in particular inserts.
LEMMA OwnRow ==
    ASSUME NEW p \in Requests, NEW by, ~Tenant(by), NEW t \in {"insight", "resume", "token", "settings"},
           NEW x, x.id = <<t, p>> \/ (t = "settings" /\ x.id = SettingsId), DOMAIN x = Columns[t],
           t = "token" => x.user[1] = "user"
    PROVE  NewRow(p, by, x) /\ Table(x) = t
<1>1. SettingsId = <<"settings", Candidate.candidate>> /\ Candidate.candidate # "none"
  BY CandidateAssumption DEF SettingsId, WellFormed, IsAdmin
<1>2. Table(x) = t /\ x.id[2] # "none" /\ (x.id[2] = p \/ x.id = SettingsId)
  BY <1>1, NamesAssumption DEF Table
<1>3. IsRow(x)
  BY <1>2, TableNames DEF IsRow, Tables
<1>. QED
  BY <1>2, <1>3 DEF NewRow, Personal

\* The profile, the settings, the insights and the resumes.
LEMMA ProfileBegins ==
    ASSUME Discipline, NEW p \in Requests, At(p, "begin"), ProfileBegin(p)
    PROVE  Discipline' /\ Grows(p)
<1>0. /\ View(p) = rows /\ stmt[p] = NoStmt
      /\ \A x \in rows : IsRow(x) /\ Settled(x.id) /\ (Table(x) = "candidate" => Settled(x.user))
  BY AtBegin DEF Discipline, RowsOK
<1>. DEFINE Goal == Discipline' /\ Grows(p)
<1>a. Plain(<<"commit">>, <<>>) /\ Steps(<<"commit">>) = {"commit"}
  BY PlainOne DEF Late
<1>1. ASSUME GetProfile(p) PROVE Goal
  BY <1>1, BegunRead, CandidateIsNoTenant DEF GetProfile
<1>2. ASSUME UpdateProfile(p) PROVE Goal
  <2>1. PICK c \in OwnProfile(p), name \in Field, bio \in Field, skills \in SUBSET Skills :
           /\ Start(p, Candidate, "update_profile", NewDocument(c, skills, bio), <<>>,
                    <<"write_profile", "commit">>)
           /\ Issue(p, IF name = NoValue THEN NoStmt ELSE Update({c.user}, [name |-> name]))
           /\ UNCHANGED <<rows, tx>>
    BY <1>2 DEF UpdateProfile
  <2>. DEFINE e == NewDocument(c, skills, bio)
              todo == <<"write_profile", "commit">>
              s == IF name = NoValue THEN NoStmt ELSE Update({c.user}, [name |-> name])
              j == JobOf(Candidate, "update_profile", e, <<>>, todo)
  <2>2. c \in rows /\ Table(c) = "candidate"
    BY <1>0 DEF OwnProfile, From
  <2>3. DOMAIN c = CandidateColumns
    BY <1>0, <2>2 DEF IsRow, Columns
  <2>4. e.id = c.id
    BY <2>3 DEF NewDocument, CandidateColumns
  <2>5. c.user[1] = "user" /\ Known(p, c.user) /\ c.id[1] = "candidate" /\ Known(p, c.id)
    BY <1>0, <2>2 DEF IsRow, Settled, Known, Table
  <2>6. Plain(todo, <<>>) /\ Steps(todo) = {"write_profile", "commit"}
    BY PlainTwo DEF Early, Late
  <2>7. j.by = Candidate
    BY DEF JobOf
  <2>8. StmtOK(p, j, s)
    <3>. HIDE DEF j
    <3>1. "user" \in Tables /\ Mutable["user"] = {"name", "secret", "version", "seen"} /\ "user" \notin Personal
      BY TableNames DEF Mutable, Personal
    <3>2. DOMAIN [name |-> name] \subseteq Mutable["user"] /\ Mutable["user"] # {}
      BY <3>1
    <3>3. StmtOK(p, j, Update({c.user}, [name |-> name]))
      BY <2>5, <2>7, <3>1, <3>2, OneRowUpdated, CandidateIsNoTenant
    <3>. QED
      BY <3>3, NothingToDo
  <2>9. Start(p, Candidate, "update_profile", e, <<>>, todo) /\ stmt' = [stmt EXCEPT ![p] = s]
    BY <2>1 DEF Issue
  <2>. HIDE DEF e, s, todo
  <2>. QED
    BY <2>1, <2>4, <2>5, <2>6, <2>8, <2>9, BegunFor, CandidateIsNoTenant
<1>3. ASSUME GetSettings(p) PROVE Goal
  <2>1. CASE \E x \in OwnSettings(p) : Begin(p, Candidate, "get_settings", x, <<>>, <<"close">>)
    BY <2>1, BegunRead, CandidateIsNoTenant
  <2>2. CASE Begin(p, Candidate, "get_settings", DefaultSettings, <<DefaultSettings>>, <<"insert", "close">>)
    <3>1. DefaultSettings.id = SettingsId /\ DOMAIN DefaultSettings = Columns["settings"]
      BY DEF DefaultSettings, Columns, SettingsColumns
    <3>2. NewRow(p, Candidate, DefaultSettings) /\ Table(DefaultSettings) = "settings"
      BY <3>1, OwnRow, CandidateIsNoTenant
    <3>. QED
      BY <2>2, <3>2, BegunInsert, CandidateIsNoTenant
  <2>. QED
    BY <1>3, <2>1, <2>2 DEF GetSettings
<1>4. ASSUME UpdateSettings(p) PROVE Goal
  <2>1. PICK notify, privacy :
        \/ \E x \in OwnSettings(p) :
              LET new == MergedSettings(x, notify, privacy)
              IN  /\ Start(p, Candidate, "update_settings", new, <<>>, <<"commit">>)
                  /\ Issue(p, IF new = x THEN NoStmt ELSE UpdateRow(x.id, Changed(new, x)))
                  /\ UNCHANGED <<rows, tx>>
        \/ LET new == MergedSettings(EmptySettings, notify, privacy)
           IN  Begin(p, Candidate, "update_settings", new, <<new>>, <<"insert", "commit">>)
    BY <1>4 DEF UpdateSettings
  <2>2. ASSUME NEW x \in OwnSettings(p),
               LET new == MergedSettings(x, notify, privacy)
               IN  /\ Start(p, Candidate, "update_settings", new, <<>>, <<"commit">>)
                   /\ Issue(p, IF new = x THEN NoStmt ELSE UpdateRow(x.id, Changed(new, x)))
                   /\ UNCHANGED <<rows, tx>>
        PROVE  Goal
    <3>. DEFINE new == MergedSettings(x, notify, privacy)
                s == IF new = x THEN NoStmt ELSE UpdateRow(x.id, Changed(new, x))
                j == JobOf(Candidate, "update_settings", new, <<>>, <<"commit">>)
    <3>1. x \in rows /\ x.id[1] = "settings"
      BY <1>0 DEF OwnSettings, SettingsId
    <3>2. Known(p, x.id)
      BY <1>0, <3>1 DEF Known, Settled
    <3>3. DOMAIN Changed(new, x) \subseteq {"notify", "privacy"}
      <4>1. \A c \in DOMAIN x \ {"notify", "privacy"} : new[c] = x[c]
        BY DEF MergedSettings
      <4>. QED
        BY <4>1, ColumnsChanged
    <3>4. j.by = Candidate
      BY DEF JobOf
    <3>5. StmtOK(p, j, s)
      <4>. HIDE DEF j, new
      <4>1. "settings" \in Tables /\ Mutable["settings"] = {"notify", "privacy"} /\ "settings" \notin Personal
        BY TableNames DEF Mutable, Personal
      <4>2. Mutable["settings"] # {}
        BY <4>1
      <4>3. StmtOK(p, j, UpdateRow(x.id, Changed(new, x)))
        BY <3>1, <3>2, <3>3, <3>4, <4>1, <4>2, OneRowUpdated, CandidateIsNoTenant
      <4>. QED
        BY <4>3, NothingToDo
    <3>6. /\ Start(p, Candidate, "update_settings", new, <<>>, <<"commit">>)
          /\ stmt' = [stmt EXCEPT ![p] = s] /\ UNCHANGED <<rows, tx>>
      BY <2>2 DEF Issue
    <3>. HIDE DEF new, s
    <3>. QED
      BY <1>a, <3>5, <3>6, BegunFor, CandidateIsNoTenant
  <2>3. CASE LET new == MergedSettings(EmptySettings, notify, privacy)
             IN  Begin(p, Candidate, "update_settings", new, <<new>>, <<"insert", "commit">>)
    <3>. DEFINE new == MergedSettings(EmptySettings, notify, privacy)
    <3>1. new.id = SettingsId /\ DOMAIN new = Columns["settings"]
      BY DEF MergedSettings, EmptySettings, Columns, SettingsColumns
    <3>2. Begin(p, Candidate, "update_settings", new, <<new>>, <<"insert", "commit">>)
      BY <2>3
    <3>. HIDE DEF new
    <3>3. NewRow(p, Candidate, new) /\ Table(new) = "settings"
      BY <3>1, OwnRow, CandidateIsNoTenant
    <3>. QED
      BY <3>2, <3>3, BegunInsert, CandidateIsNoTenant
  <2>. QED
    BY <2>1, <2>2, <2>3
<1>5. ASSUME GenerateInsights(p) PROVE Goal
  <2>1. PICK topic \in Topics :
        \/ \E x : Begin(p, Candidate, "generate_insights", x, <<>>, <<"commit">>)
        \/ Begin(p, Candidate, "generate_insights", <<>>, <<NewInsights(p, topic)>>, <<"insert", "commit">>)
    BY <1>5 DEF GenerateInsights
  <2>. DEFINE x == NewInsights(p, topic)
  <2>2. x.id = <<"insight", p>> /\ DOMAIN x = Columns["insight"]
    BY DEF NewInsights, Columns, InsightColumns
  <2>. HIDE DEF x
  <2>3. NewRow(p, Candidate, x) /\ Table(x) = "insight"
    BY <2>2, OwnRow, CandidateIsNoTenant
  <2>4. CASE Begin(p, Candidate, "generate_insights", <<>>, <<x>>, <<"insert", "commit">>)
    BY <2>3, <2>4, BegunInsert, CandidateIsNoTenant
  <2>. QED
    BY <2>1, <2>4, BegunRead, CandidateIsNoTenant DEF x
<1>6. ASSUME ListResumes(p) PROVE Goal
  BY <1>6, BegunRead, CandidateIsNoTenant DEF ListResumes
<1>7. ASSUME UploadResume(p) PROVE Goal
  <2>. DEFINE x == NewResume(p)
  <2>1. x.id = <<"resume", p>> /\ DOMAIN x = Columns["resume"]
    BY DEF NewResume, Columns, ResumeColumns
  <2>2. \A outcome : [x EXCEPT !.parsed = outcome].id = x.id
    BY DEF NewResume
  <2>3. \/ Begin(p, Candidate, "upload_resume", x, <<x>>, <<"insert", "commit">>)
        \/ \E outcome, todo :
              /\ todo \in {<<"insert", "save_text", "commit">>,
                           <<"insert", "save_text", "save_analysis", "commit">>}
              /\ Begin(p, Candidate, "upload_resume", [x EXCEPT !.parsed = outcome], <<x>>, todo)
    <3>1. <<"insert", "save_text">> \o <<"save_analysis", "commit">>
             = <<"insert", "save_text", "save_analysis", "commit">>
      BY Joined
    <3>2. <<"insert", "save_text">> \o <<"commit">> = <<"insert", "save_text", "commit">>
      BY Joined
    <3>. QED
      BY <1>7, <3>1, <3>2 DEF UploadResume
  <2>. HIDE DEF x
  <2>4. NewRow(p, Candidate, x) /\ Table(x) = "resume"
    BY <2>1, OwnRow, CandidateIsNoTenant
  <2>5. ASSUME NEW outcome, NEW todo \in {<<"insert", "save_text", "commit">>,
                                          <<"insert", "save_text", "save_analysis", "commit">>},
               Begin(p, Candidate, "upload_resume", [x EXCEPT !.parsed = outcome], <<x>>, todo)
        PROVE  Goal
    <3>. DEFINE e == [x EXCEPT !.parsed = outcome]
                j == JobOf(Candidate, "upload_resume", e, <<x>>, todo)
    <3>1. /\ Plain(todo, <<x>>) /\ Steps(todo) \subseteq {"insert", "save_text", "save_analysis", "commit"}
          /\ "insert" \in Steps(todo)
      BY PlainUpload
    <3>2. j.todo = todo /\ j.by = Candidate /\ j.entity = e /\ j.create = <<x>> /\ e.id = <<"resume", p>>
      BY <2>1, <2>2 DEF JobOf
    <3>3. Start(p, Candidate, "upload_resume", e, <<x>>, todo) /\ UNCHANGED <<rows, tx, stmt>>
      BY <2>5 DEF Begin, dbVars
    <3>. HIDE DEF e, j
    <3>4. Creates(p, j)
      <4>1. Len(j.create) = 1 /\ j.create[1] = x
        BY <3>2
      <4>2. ToCreate(j) = {x}
        BY <3>1, <3>2, <4>1 DEF ToCreate
      <4>3. NewRow(p, j.by, x) /\ Table(x) # "user"
        BY <2>4, <3>2
      <4>4. \A i, k \in 1 .. Len(j.create) : i # k => j.create[i].id # j.create[k].id
        BY <4>1
      <4>5. \A i \in 1 .. Len(j.create) : Table(j.create[i]) # "user"
        BY <4>1, <4>3
      <4>. QED
        BY <4>2, <4>3, <4>4, <4>5 DEF Creates
    <3>5. Holds(p, j)
      BY <3>1, <3>2, CandidateIsNoTenant DEF Holds
    <3>6. stmt' = [stmt EXCEPT ![p] = NoStmt]
      BY <1>0, <3>3 DEF Discipline, Shapes
    <3>7. "check_in_use" \notin Steps(todo)
      BY <3>1
    <3>8. <<x>> \in Seq({<<x>>[i] : i \in 1 .. Len(<<x>>)})
      BY SeqOfItself
    <3>. QED
      BY <3>1, <3>3, <3>4, <3>5, <3>6, <3>7, <3>8, NothingToDo, BegunPlain, CandidateIsNoTenant DEF j
  <2>6. CASE Begin(p, Candidate, "upload_resume", x, <<x>>, <<"insert", "commit">>)
    BY <2>4, <2>6, BegunInsert, CandidateIsNoTenant
  <2>. QED
    BY <2>3, <2>5, <2>6
<1>. QED
  BY <1>1, <1>2, <1>3, <1>4, <1>5, <1>6, <1>7 DEF ProfileBegin

-----------------------------------------------------------------------------
(***************************************************************************)
(* Accounts and proctoring.                                                *)
(***************************************************************************)
LEMMA NobodyIsNoTenant == ~Tenant(Nobody) /\ ~IsAdmin(Nobody)
BY DEF Tenant, IsAdmin, Nobody

\* A user with the record of its account.
LEMMA RegisterBegins ==
    ASSUME Discipline, NEW p \in Requests, NEW op, NEW u, NEW a, Register(p, op, u, a),
           u.id = <<"user", p>>, u.type \in {"admin", "candidate"}, DOMAIN u = Columns["user"],
           a.id = <<u.type, p>>, DOMAIN a = Columns[u.type], a.user = <<"user", p>>,
           u.type = "admin" => a.org # "none" /\ a.role \in {"superadmin", "admin", "read_only"}
    PROVE  Discipline' /\ Grows(p)
<1>1. Begin(p, Nobody, op, u, <<u, a>>, <<"insert", "insert", Logging>>)
  BY DEF Register, Logging
<1>2. Table(u) = "user" /\ Table(a) = u.type /\ u.id[2] = p /\ a.id[2] = p /\ p # "none"
  BY NamesAssumption DEF Table
<1>3. IsRow(u) /\ IsRow(a)
  BY <1>2, TableNames DEF IsRow, Tables
<1>4. NewRow(p, Nobody, u) /\ NewRow(p, Nobody, a)
  BY <1>2, <1>3, NobodyIsNoTenant DEF NewRow, Personal
<1>5. IsRecordOf(a, u)
  BY <1>2 DEF IsRecordOf
<1>6. u.id # a.id /\ Table(a) # "user"
  BY <1>2
<1>7. ~("org" \in DOMAIN u)
  BY DEF Columns, UserColumns
<1>. QED
  BY <1>1, <1>4, <1>5, <1>6, <1>7, BegunInserts, NobodyIsNoTenant

\* A token that is inserted, with an UPDATE of another row.
LEMMA TokenBegins ==
    ASSUME Discipline, NEW p \in Requests, NEW op, NEW entity, NEW u \in rows, Table(u) = "user",
           NEW s, NEW x, x = NewToken(p, u),
           Start(p, Nobody, op, entity, <<x>>, <<"insert", Logging>>),
           stmt' = [stmt EXCEPT ![p] = s], UNCHANGED <<rows, tx>>,
           \A j : j.by = Nobody => StmtOK(p, j, s)
    PROVE  Discipline' /\ Grows(p)
<1>. DEFINE todo == <<"insert", Logging>>
            j    == JobOf(Nobody, op, entity, <<x>>, todo)
<1>1. Plain(todo, <<x>>) /\ Steps(todo) = {"insert", Logging}
  BY PlainInsert DEF Late
<1>2. j.todo = todo /\ j.by = Nobody /\ j.entity = entity /\ j.create = <<x>>
  BY DEF JobOf
<1>3. /\ "check_in_use" \notin Steps(todo) /\ "find_window" \notin Steps(todo)
      /\ Start(p, Nobody, op, entity, <<x>>, todo)
  BY <1>1 DEF Logging
<1>. HIDE DEF todo, j
<1>4. NewRow(p, Nobody, x) /\ Table(x) = "token"
  <2>1. x.id = <<"token", p>> /\ DOMAIN x = Columns["token"] /\ x.user = u.id
    BY DEF NewToken, Columns, TokenColumns
  <2>2. u.id[1] = "user"
    BY DEF Table
  <2>. QED
    BY <2>1, <2>2, OwnRow, NobodyIsNoTenant
<1>5. Creates(p, j)
  <2>1. Len(j.create) = 1 /\ j.create[1] = x
    BY <1>2
  <2>2. ToCreate(j) = {x}
    BY <1>1, <1>2, <2>1 DEF ToCreate
  <2>3. \A i, k \in 1 .. Len(j.create) : i # k => j.create[i].id # j.create[k].id
    BY <2>1
  <2>4. \A i \in 1 .. Len(j.create) : Table(j.create[i]) # "user"
    BY <1>4, <2>1
  <2>. QED
    BY <1>2, <1>4, <2>2, <2>3, <2>4 DEF Creates
<1>6. Holds(p, j)
  BY <1>1, <1>2, NobodyIsNoTenant DEF Holds, Logging
<1>7. <<x>> \in Seq({<<x>>[i] : i \in 1 .. Len(<<x>>)})
  BY SeqOfItself
<1>8. StmtOK(p, j, s)
  BY <1>2
<1>. QED
  BY <1>1, <1>3, <1>5, <1>6, <1>7, <1>8, BegunPlain, NobodyIsNoTenant DEF j

\* The rows a request finds.
LEMMA WhatIsSeen ==
    ASSUME Discipline, NEW p \in Requests, NEW x \in View(p)
    PROVE  IsRow(x) /\ Known(p, x.id) /\ x \in Versions /\ DOMAIN x = Columns[Table(x)] /\ Table(x) \in Tables
<1>1. TxOK(p)
  BY DEF Discipline
<1>2. CASE x \in rows
  BY <1>2 DEF Discipline, RowsOK, Settled, Known, Versions, IsRow, Tables
<1>3. CASE x \in tx[p].adds
  BY <1>1, <1>3 DEF TxOK, Versions, IsRow, Tables
<1>. QED
  BY <1>2, <1>3 DEF View

\* The bulk UPDATE that retires the tokens of a user.
LEMMA Revocation ==
    ASSUME Discipline, NEW p \in Requests, NEW u, NEW j
    PROVE  StmtOK(p, j, RevokeAllOf(u, p))
<1>. DEFINE s == RevokeAllOf(u, p)
<1>1. /\ s.do = "update" /\ s.cols = [revoked |-> TRUE]
      /\ s.ids = Ids({k \in TokensOf(u, p) : ~k.revoked})
  BY DEF RevokeAllOf, Update
<1>2. \A id \in s.ids : id[1] = "token" /\ Known(p, id)
  <2>1. \A k \in TokensOf(u, p) : k \in View(p) /\ k.id[1] = "token"
    BY DEF TokensOf, From, Table
  <2>2. \A k \in View(p) : Known(p, k.id)
    BY WhatIsSeen
  <2>. QED
    BY <1>1, <2>1, <2>2 DEF Ids
<1>. HIDE DEF s
<1>3. "token" \in Tables /\ Mutable["token"] = {"revoked"} /\ "token" \notin Personal /\ "token" \notin OrgTables
  BY TableNames, OrgTableNames DEF Mutable, Personal
<1>4. DOMAIN s.cols = {"revoked"} /\ s.cols.revoked = TRUE
  BY <1>1
<1>5. \A id \in s.ids : /\ id[1] \in Tables /\ Mutable[id[1]] # {} /\ DOMAIN s.cols \subseteq Mutable[id[1]]
                        /\ Known(p, id) /\ id[1] \notin Personal /\ id[1] \notin OrgTables
  BY <1>2, <1>3, <1>4
<1>6. Updates(p, j, s)
  BY <1>1, <1>4, <1>5 DEF Updates, Table
<1>. QED
  BY <1>1, <1>6 DEF StmtOK, s

\* What a caller's identity is made of.
LEMMA CallerIsKnown ==
    ASSUME Discipline, NEW p \in Requests, View(p) = rows, NEW u \in rows, NEW by \in CallerOf(u, p)
    PROVE  WellFormed(by)
<1>1. PICK x \in RecordsOf(u, p) : by = IdentityOf(AccessToken(u, x))
  BY DEF CallerOf
<1>2. x \in rows /\ Table(x) = u.type /\ IsRow(x) /\ x.id[1] = u.type
  BY DEF RecordsOf, From, Table, Discipline, RowsOK
<1>3. CASE u.type = "admin"
  <2>1. x.org # "none" /\ x.role \in {"superadmin", "admin", "read_only"}
    BY <1>2, <1>3 DEF IsRow
  <2>2. by = [type |-> "admin", org |-> x.org, role |-> x.role, candidate |-> "none"]
    BY <1>1, <1>3, <2>1 DEF IdentityOf, AccessToken, AdminIdentity
  <2>. QED
    BY <2>1, <2>2 DEF WellFormed
<1>4. CASE u.type # "admin"
  <2>1. x.id[2] # "none"
    BY <1>2 DEF IsRow
  <2>2. by = [type |-> "candidate", org |-> "none", role |-> "none", candidate |-> x.id[2]]
    BY <1>1, <1>4, <2>1 DEF IdentityOf, AccessToken, CandidateIdentity
  <2>. QED
    BY <2>1, <2>2 DEF WellFormed
<1>. QED
  BY <1>3, <1>4

LEMMA AccountBegins ==
    ASSUME Discipline, NEW p \in Requests, At(p, "begin"), AccountBegin(p)
    PROVE  Discipline' /\ Grows(p)
<1>0. View(p) = rows /\ \A x \in rows : IsRow(x) /\ Known(p, x.id) /\ DOMAIN x = Columns[Table(x)]
  BY AtBegin DEF IsRow, Known, Settled
<1>a. /\ "user" \in Tables /\ "token" \in Tables /\ "user" \notin OrgTables /\ "token" \notin OrgTables
      /\ "user" \notin Personal /\ "token" \notin Personal
      /\ Mutable["user"] = {"name", "secret", "version", "seen"} /\ Mutable["token"] = {"revoked"}
      /\ ~("org" \in Columns["user"]) /\ ~("org" \in Columns["token"])
  BY TableNames, OrgTableNames DEF Personal, Mutable, OrgTables
<1>b. \A k \in From("token", View(p)) : k \in rows /\ Table(k) = "token" /\ k.id[1] = "token"
  BY <1>0 DEF From, Table
<1>c. \A u \in Users(p) : u \in rows /\ Table(u) = "user" /\ u.id[1] = "user"
  BY <1>0 DEF Users, From, Table
<1>t. \A k \in From("token", View(p)) : \A j :
        StmtOK(p, j, UpdateRow(k.id, [revoked |-> TRUE]))
  <2>. TAKE k \in From("token", View(p))
  <2>. TAKE j
  <2>. DEFINE cols == [revoked |-> TRUE]
  <2>1. DOMAIN cols = {"revoked"} /\ cols.revoked = TRUE
    OBVIOUS
  <2>. HIDE DEF cols
  <2>2. k.id[1] = "token" /\ Known(p, k.id)
    BY <1>0, <1>b
  <2>3. StmtOK(p, j, UpdateRow(k.id, cols))
    BY <1>a, <2>1, <2>2, OneRowUpdated
  <2>. QED
    BY <2>3 DEF cols
<1>1. ASSUME RegisterAdmin(p) PROVE Discipline' /\ Grows(p)
  <2>1. PICK form \in AdminRegistrations :
          Register(p, "register_admin", NewUser(p, "admin", form), NewAdmin(p, form))
    BY <1>1 DEF RegisterAdmin
  <2>. DEFINE u == NewUser(p, "admin", form)
              a == NewAdmin(p, form)
  <2>2. u.id = <<"user", p>> /\ u.type = "admin" /\ DOMAIN u = Columns["user"]
    BY DEF NewUser, Columns, UserColumns
  <2>3. a.id = <<"admin", p>> /\ DOMAIN a = Columns["admin"] /\ a.user = <<"user", p>>
    BY DEF NewAdmin, Columns, AdminColumns
  <2>4. a.org # "none" /\ a.role \in {"superadmin", "admin", "read_only"}
    BY OrganizationsAssumption DEF NewAdmin, AdminRegistrations
  <2>. HIDE DEF u, a
  <2>5. Register(p, "register_admin", u, a)
    BY <2>1 DEF u, a
  <2>. QED
    BY <2>2, <2>3, <2>4, <2>5, RegisterBegins
<1>2. ASSUME RegisterCandidate(p) PROVE Discipline' /\ Grows(p)
  <2>1. PICK form \in CandidateRegistrations :
          Register(p, "register_candidate", NewUser(p, "candidate", form), NewCandidate(p, form))
    BY <1>2 DEF RegisterCandidate
  <2>. DEFINE u == NewUser(p, "candidate", form)
              a == NewCandidate(p, form)
  <2>2. u.id = <<"user", p>> /\ u.type = "candidate" /\ DOMAIN u = Columns["user"]
    BY DEF NewUser, Columns, UserColumns
  <2>3. a.id = <<"candidate", p>> /\ DOMAIN a = Columns["candidate"] /\ a.user = <<"user", p>>
    BY DEF NewCandidate, Columns, CandidateColumns
  <2>. HIDE DEF u, a
  <2>5. Register(p, "register_candidate", u, a)
    BY <2>1 DEF u, a
  <2>. QED
    BY <2>2, <2>3, <2>5, RegisterBegins
<1>3. ASSUME Login(p) PROVE Discipline' /\ Grows(p)
  <2>1. PICK u \in Users(p) :
          /\ Start(p, Nobody, "login", u, <<NewToken(p, u)>>, <<"insert", Logging>>)
          /\ Issue(p, UpdateRow(u.id, [seen |-> <<p>>])) /\ UNCHANGED <<rows, tx>>
    BY <1>3 DEF Login, Logging
  <2>. DEFINE cols == [seen |-> <<p>>]
  <2>2. DOMAIN cols = {"seen"}
    OBVIOUS
  <2>3. stmt' = [stmt EXCEPT ![p] = UpdateRow(u.id, cols)]
    BY <2>1 DEF Issue
  <2>. HIDE DEF cols
  <2>4. u.id[1] = "user" /\ Known(p, u.id) /\ u \in rows /\ Table(u) = "user"
    BY <1>0, <1>c
  <2>5. \A j : StmtOK(p, j, UpdateRow(u.id, cols))
    BY <1>a, <2>2, <2>4, OneRowUpdated
  <2>. QED
    BY <2>1, <2>3, <2>4, <2>5, TokenBegins
<1>4. ASSUME RefreshToken(p) PROVE Discipline' /\ Grows(p)
  <2>1. PICK k \in From("token", View(p)), u \in Users(p) : Rotate(p, u, k)
    BY <1>4 DEF RefreshToken
  <2>2. /\ Start(p, Nobody, "refresh_token", k, <<NewToken(p, u)>>, <<"insert", Logging>>)
        /\ stmt' = [stmt EXCEPT ![p] = UpdateRow(k.id, [revoked |-> TRUE])] /\ UNCHANGED <<rows, tx>>
    BY <2>1 DEF Rotate, Logging, Issue
  <2>3. \A j : StmtOK(p, j, UpdateRow(k.id, [revoked |-> TRUE]))
    BY <1>t
  <2>. QED
    BY <1>c, <2>2, <2>3, TokenBegins
<1>5. ASSUME RefreshReused(p) PROVE Discipline' /\ Grows(p)
  <2>1. PICK k \in From("token", View(p)) :
          /\ Start(p, Nobody, "refresh_token", k, <<>>, <<"raise">>)
          /\ stmt' = [stmt EXCEPT ![p] = RevokeAllOf(k.user, p)] /\ UNCHANGED <<rows, tx>>
    BY <1>5 DEF RefreshReused, Issue
  <2>2. \A j : StmtOK(p, j, RevokeAllOf(k.user, p))
    BY <1>0, Revocation
  <2>3. Plain(<<"raise">>, <<>>) /\ Steps(<<"raise">>) = {"raise"}
    BY PlainOne DEF Late
  <2>. QED
    BY <2>1, <2>2, <2>3, BegunFor, NobodyIsNoTenant
<1>6. ASSUME Logout(p) PROVE Discipline' /\ Grows(p)
  <2>1. PICK k \in From("token", View(p)) :
          \/ Begin(p, Nobody, "logout", k, <<>>, <<"commit">>)
          \/ /\ Start(p, Nobody, "logout", k, <<>>, <<Logging>>)
             /\ stmt' = [stmt EXCEPT ![p] = UpdateRow(k.id, [revoked |-> TRUE])] /\ UNCHANGED <<rows, tx>>
    BY <1>6 DEF Logout, Issue, Logging
  <2>2. CASE Begin(p, Nobody, "logout", k, <<>>, <<"commit">>)
    BY <2>2, BegunRead, NobodyIsNoTenant
  <2>3. \A j : StmtOK(p, j, UpdateRow(k.id, [revoked |-> TRUE]))
    BY <1>t
  <2>4. Plain(<<Logging>>, <<>>) /\ Steps(<<Logging>>) = {Logging}
    BY PlainOne DEF Late
  <2>5. CASE /\ Start(p, Nobody, "logout", k, <<>>, <<Logging>>)
             /\ stmt' = [stmt EXCEPT ![p] = UpdateRow(k.id, [revoked |-> TRUE])] /\ UNCHANGED <<rows, tx>>
    <3>1. "find_window" # Logging /\ "write_profile" # Logging
      BY DEF Logging
    <3>. QED
      BY <2>3, <2>4, <2>5, <3>1, BegunFor, NobodyIsNoTenant
  <2>. QED
    BY <2>1, <2>2, <2>5
<1>7. ASSUME ChangePassword(p) PROVE Discipline' /\ Grows(p)
  <2>1. PICK u \in Users(p), new \in Secrets : \E by \in CallerOf(u, p) :
          /\ Start(p, by, "change_password", u, <<>>, <<"revoke_all", Logging>>)
          /\ stmt' = [stmt EXCEPT ![p] = UpdateRow(u.id, [secret |-> new, version |-> u.version + 1])]
          /\ UNCHANGED <<rows, tx>>
    BY <1>7 DEF ChangePassword, Issue, Logging
  <2>2. PICK by \in CallerOf(u, p) :
          /\ Start(p, by, "change_password", u, <<>>, <<"revoke_all", Logging>>)
          /\ stmt' = [stmt EXCEPT ![p] = UpdateRow(u.id, [secret |-> new, version |-> u.version + 1])]
          /\ UNCHANGED <<rows, tx>>
    BY <2>1
  <2>. DEFINE cols == [secret |-> new, version |-> u.version + 1]
  <2>3. DOMAIN cols = {"secret", "version"}
    OBVIOUS
  <2>. HIDE DEF cols
  <2>4. u.id[1] = "user" /\ Known(p, u.id) /\ u \in rows /\ ~("org" \in DOMAIN u)
    BY <1>0, <1>a, <1>c
  <2>5. \A j : StmtOK(p, j, UpdateRow(u.id, cols))
    BY <1>a, <2>3, <2>4, OneRowUpdated
  <2>6. WellFormed(by)
    BY <1>0, <2>4, CallerIsKnown
  <2>7. Plain(<<"revoke_all", Logging>>, <<>>) /\ Steps(<<"revoke_all", Logging>>) = {"revoke_all", Logging}
    BY PlainTwo DEF Early, Late
  <2>8. stmt' = [stmt EXCEPT ![p] = UpdateRow(u.id, cols)]
    BY <2>2 DEF cols
  <2>9. "commit" # Logging /\ "find_window" # Logging /\ "write_profile" # Logging
    BY DEF Logging
  <2>. QED
    BY <2>2, <2>4, <2>5, <2>6, <2>7, <2>8, <2>9, BegunFor
<1>8. ASSUME GetMe(p) PROVE Discipline' /\ Grows(p)
  <2>1. PICK u \in Users(p) : \E by \in CallerOf(u, p) : Begin(p, by, "get_me", u, <<>>, <<"close">>)
    BY <1>8 DEF GetMe
  <2>2. PICK by \in CallerOf(u, p) : Begin(p, by, "get_me", u, <<>>, <<"close">>)
    BY <2>1
  <2>3. u \in rows /\ ~("org" \in DOMAIN u)
    BY <1>0, <1>a, <1>c
  <2>4. WellFormed(by)
    BY <1>0, <2>3, CallerIsKnown
  <2>. QED
    BY <2>2, <2>3, <2>4, BegunRead
<1>. QED
  BY <1>1, <1>2, <1>3, <1>4, <1>5, <1>6, <1>7, <1>8 DEF AccountBegin

\* The UPDATE that writes the risk of some events.
LEMMA RiskWritten ==
    ASSUME NEW p, NEW j, NEW S
    PROVE  StmtOK(p, j, Update({RiskId}, RiskOf(S)))
<1>. DEFINE cols == RiskOf(S)
<1>1. DOMAIN cols = {"counted", "total", "flagged"}
  BY DEF RiskOf
<1>2. RiskId[1] = "risk" /\ RiskId[2] = "S1"
  BY DEF RiskId
<1>3. Known(p, RiskId)
  BY <1>2, NamesAssumption DEF Known
<1>4. "risk" \in Tables /\ "risk" \notin OrgTables /\ "risk" \notin Personal
      /\ Mutable["risk"] = {"counted", "total", "flagged"}
  BY TableNames, OrgTableNames DEF Mutable, Personal
<1>. HIDE DEF cols
<1>5. StmtOK(p, j, Update({RiskId}, cols))
  BY <1>1, <1>2, <1>3, <1>4, OneRowUpdated
<1>. QED
  BY <1>5 DEF cols

\* A request that has events to take.
LEMMA TakingEvents ==
    ASSUME NEW p, NEW j, NEW a \in IngestSteps, IsJob(j), j.todo = <<a>>, ~IsAdmin(j.by),
           j.create \in Seq([kind : DOMAIN Rules, time : Int]) \ {<<>>}
    PROVE  JobOK(p, j) /\ Steps(j.todo) = {a} /\ ToCreate(j) = {}
<1>1. Len(j.todo) = 1 /\ j.todo[1] = a
  BY TupleOf1
<1>2. Steps(j.todo) = {a}
  BY <1>1 DEF Steps
<1>3. /\ a \in FinalSteps /\ a \notin LastSteps /\ a \notin PageSteps /\ a # "retire" /\ a # "begin"
      /\ a # "insert" /\ a # "commit"
      /\ a \notin {"flush", "check_in_use", "mark_stale", "delete", "find_window", "write_profile",
                   "save_text", "save_analysis"}
  BY DEF IngestSteps, FinalSteps, LastSteps, PageSteps
<1>4. Script(j)
  BY <1>1, <1>2, <1>3 DEF Script
<1>5. ToCreate(j) = {}
  BY <1>2, <1>3 DEF ToCreate
<1>6. Creates(p, j)
  BY <1>2, <1>3, <1>5 DEF Creates
<1>7. Holds(p, j)
  BY <1>2, <1>3 DEF Holds, Tenant
<1>. QED
  BY <1>2, <1>4, <1>5, <1>6, <1>7 DEF JobOK

LEMMA ItsOwnElements ==
    ASSUME NEW S, NEW c \in Seq(S)
    PROVE  c \in Seq({c[i] : i \in 1 .. Len(c)})
<1>1. c \in [1 .. Len(c) -> S] /\ Len(c) \in Nat
  OBVIOUS
<1>. QED
  BY <1>1

LEMMA ProctoringBegins ==
    ASSUME Discipline, NEW p \in Requests, At(p, "begin"), ProctoringBegin(p)
    PROVE  Discipline' /\ Grows(p)
<1>c. Plain(<<"commit">>, <<>>) /\ Steps(<<"commit">>) = {"commit"}
      /\ Plain(<<"close">>, <<>>) /\ Steps(<<"close">>) = {"close"}
  BY PlainOne DEF Late
<1>1. ASSUME Ingest(p) PROVE Discipline' /\ Grows(p)
  <2>1. PICK batch \in Batches :
          Begin(p, Nobody, "ingest", [before |-> Ids(Events(p))], batch, <<"take_event">>)
    BY <1>1 DEF Ingest
  <2>. DEFINE e == [before |-> Ids(Events(p))]
              todo == <<"take_event">>
              j == JobOf(Nobody, "ingest", e, batch, todo)
  <2>2. /\ Start(p, Nobody, "ingest", e, batch, todo) /\ UNCHANGED <<rows, tx>> /\ stmt' = stmt
    BY <2>1 DEF Begin, dbVars
  <2>3. /\ j.todo = todo /\ j.by = Nobody /\ j.create = batch
        /\ j = [do |-> j.do, by |-> j.by, todo |-> j.todo, entity |-> j.entity,
                create |-> j.create, walk |-> j.walk]
    BY DEF JobOf
  <2>4. todo \in Seq(StepNames) /\ todo # <<>>
    BY TupleOf1 DEF StepNames, IngestSteps
  <2>5. batch \in Seq([kind : DOMAIN Rules, time : Int]) \ {<<>>}
    BY ProctoringAssumption
  <2>6. batch \in Seq({batch[i] : i \in 1 .. Len(batch)})
    BY <2>5, ItsOwnElements
  <2>. HIDE DEF e, j
  <2>7. IsJob(j)
    BY <2>3, <2>4, <2>6 DEF IsJob
  <2>8. JobOK(p, j) /\ Steps(todo) = {"take_event"}
    BY <2>3, <2>5, <2>7, TakingEvents, NobodyIsNoTenant DEF IngestSteps
  <2>9. stmt' = [stmt EXCEPT ![p] = NoStmt]
    BY <2>2, AtBegin DEF Discipline, Shapes
  <2>. HIDE DEF todo
  <2>. QED
    BY <2>2, <2>4, <2>8, <2>9, Begun, NothingToDo DEF j
<1>2. ASSUME GetRisk(p) PROVE Discipline' /\ Grows(p)
  <2>1. /\ Start(p, Nobody, "get_risk", [before |-> Ids(Events(p))], <<>>, <<"close">>)
        /\ stmt' = [stmt EXCEPT ![p] = Update({RiskId}, RiskOf(Events(p)))] /\ UNCHANGED <<rows, tx>>
    BY <1>2 DEF GetRisk, Compute, Issue
  <2>2. \A j : StmtOK(p, j, Update({RiskId}, RiskOf(Events(p))))
    BY RiskWritten
  <2>. QED
    BY <2>1, <2>2, <1>c, BegunFor, NobodyIsNoTenant
<1>3. ASSUME Recompute(p) PROVE Discipline' /\ Grows(p)
  <2>1. /\ Start(p, Nobody, "recompute", [before |-> Ids(Events(p))], <<>>, <<"commit">>)
        /\ stmt' = [stmt EXCEPT ![p] = Update({RiskId}, RiskOf(Events(p)))] /\ UNCHANGED <<rows, tx>>
    BY <1>3 DEF Recompute, Compute, Issue
  <2>2. \A j : StmtOK(p, j, Update({RiskId}, RiskOf(Events(p))))
    BY RiskWritten
  <2>. QED
    BY <2>1, <2>2, <1>c, BegunFor, NobodyIsNoTenant
<1>4. ASSUME ListEvents(p) PROVE Discipline' /\ Grows(p)
  BY <1>4, BegunRead, NobodyIsNoTenant DEF ListEvents
<1>5. ASSUME ReviewQueue(p) PROVE Discipline' /\ Grows(p)
  <2>1. Begin(p, Nobody, "review_queue", <<>>, <<>>, <<"list_flagged", "count_events", "close">>)
    BY <1>5 DEF ReviewQueue
  <2>. DEFINE a == "list_flagged"
              b == "count_events"
  <2>2. a \in PageSteps /\ b \in PageSteps
    BY DEF PageSteps
  <2>. QED
    BY <2>1, <2>2, BegunPage, NobodyIsNoTenant
<1>. QED
  BY <1>1, <1>2, <1>3, <1>4, <1>5 DEF ProctoringBegin

\* Whatever a request begins, it begins disciplined.
LEMMA CallBegins ==
    ASSUME Discipline, NEW p \in Requests, Call(p) \/ ProctoringBegin(p)
    PROVE  Discipline' /\ Grows(p)
<1>1. ASSUME ProctoringBegin(p) PROVE At(p, "begin")
  BY <1>1 DEF ProctoringBegin, Ingest, GetRisk, Recompute, ListEvents, ReviewQueue, Begin, Start
<1>2. ASSUME At(p, "begin"), AdminBegin(p) PROVE Discipline' /\ Grows(p)
  BY <1>2, TemplateBegins, OverrideBegins, RubricBegins, WindowBegins DEF AdminBegin
<1>. QED
  BY <1>1, <1>2, CatalogBegins, CandidateBegins, ProfileBegins, PageBegins, AccountBegins,
     ProctoringBegins DEF Call

-----------------------------------------------------------------------------
(***************************************************************************)
(* The later steps of a request.                                           *)
(***************************************************************************)
\* The job of p with its next step behind it.
Passed(p, e, w) ==
    [do |-> job[p].do, by |-> job[p].by, todo |-> Tail(job[p].todo),
     entity |-> e, create |-> job[p].create, walk |-> w]

\* What comes after a step that is neither final nor an INSERT.
LEMMA ScriptGoesOn ==
    ASSUME NEW j, NEW k, IsJob(j), Script(j), j.todo # <<>>,
           Head(j.todo) \notin FinalSteps \cup {"insert"},
           k.do = j.do, k.by = j.by, k.todo = Tail(j.todo), k.create = j.create
    PROVE  /\ Script(k) /\ k.todo # <<>>
           /\ Steps(k.todo) \subseteq Steps(j.todo)
           /\ Steps(j.todo) \subseteq Steps(k.todo) \cup {Head(j.todo)}
           /\ "begin" \notin Steps(k.todo)
           /\ Len(j.todo) > 1
<1>. DEFINE t == j.todo
            u == k.todo
<1>1. /\ t \in Seq(StepNames) /\ u \in Seq(StepNames) /\ Len(u) = Len(t) - 1
      /\ \A i \in 1 .. Len(u) : u[i] = t[i + 1]
      /\ Steps(u) \subseteq Steps(t) /\ Head(t) = t[1] /\ Head(t) \in Steps(t)
  BY TailSteps DEF IsJob
<1>2. t[Len(t)] \in FinalSteps /\ Len(t) > 1
  <2>1. t[Len(t)] \in FinalSteps
    BY DEF Script
  <2>2. Len(t) \in Nat /\ Len(t) # 0 /\ Len(t) # 1
    BY <1>1, <2>1
  <2>. QED
    BY <2>1, <2>2
<1>. HIDE DEF t, u
<1>3. u # <<>> /\ u[Len(u)] = t[Len(t)]
  <2>1. Len(u) >= 1 /\ Len(t) \in Nat
    BY <1>1, <1>2
  <2>. QED
    BY <1>1, <2>1
<1>4. Steps(t) \subseteq Steps(u) \cup {Head(t)}
  <2>. SUFFICES ASSUME NEW i \in 1 .. Len(t), i # 1 PROVE t[i] \in Steps(u)
    BY <1>1 DEF Steps
  <2>1. i - 1 \in 1 .. Len(u) /\ u[i - 1] = t[(i - 1) + 1]
    BY <1>1
  <2>2. (i - 1) + 1 = i
    OBVIOUS
  <2>. QED
    BY <2>1, <2>2 DEF Steps
<1>5. "begin" \notin Steps(t)
  <2>. SUFFICES ASSUME "begin" \in Steps(t) PROVE FALSE
    OBVIOUS
  <2>1. j = NewJob
    BY DEF Script, t
  <2>2. t = <<"begin">>
    BY <2>1 DEF NewJob, t
  <2>. QED
    BY <1>2, <2>2
<1>6. Steps(t) \cap IngestSteps = {} /\ Matches(t, j.create)
  BY <1>2 DEF Script, t
<1>7. Matches(u, k.create)
  <2>. DEFINE c == j.create
  <2>1. Len(c) <= 2
    BY <1>6 DEF Matches
  <2>2. ASSUME Len(c) = 0 PROVE \A i \in 1 .. Len(u) : u[i] # "insert"
    <3>1. \A i \in 1 .. Len(t) : t[i] # "insert"
      BY <1>6, <2>2 DEF Matches
    <3>. QED
      BY <1>1, <3>1
  <2>3. ASSUME Len(c) = 1
        PROVE  \E i \in 1 .. Len(u) : \A m \in 1 .. Len(u) : u[m] = "insert" <=> m = i
    <3>1. PICK i \in 1 .. Len(t) : \A m \in 1 .. Len(t) : t[m] = "insert" <=> m = i
      BY <1>6, <2>3 DEF Matches
    <3>2. i # 1
      BY <1>1, <3>1 DEF t
    <3>3. i - 1 \in 1 .. Len(u)
      BY <1>1, <3>2
    <3>4. \A m \in 1 .. Len(u) : u[m] = "insert" <=> m = i - 1
      BY <1>1, <3>1
    <3>. QED
      BY <3>3, <3>4
  <2>4. ASSUME Len(c) = 2
        PROVE  \E i, n \in 1 .. Len(u) : i < n /\ \A m \in 1 .. Len(u) : u[m] = "insert" <=> m \in {i, n}
    <3>1. PICK i \in 1 .. Len(t), n \in 1 .. Len(t) :
             i < n /\ \A m \in 1 .. Len(t) : t[m] = "insert" <=> m \in {i, n}
      BY <1>6, <2>4 DEF Matches
    <3>2. i # 1
      BY <1>1, <3>1 DEF t
    <3>3. i - 1 \in 1 .. Len(u) /\ n - 1 \in 1 .. Len(u) /\ i - 1 < n - 1
      BY <1>1, <3>1, <3>2
    <3>4. \A m \in 1 .. Len(u) : u[m] = "insert" <=> m \in {i - 1, n - 1}
      BY <1>1, <3>1
    <3>. QED
      BY <3>3, <3>4
  <2>. QED
    BY <2>1, <2>2, <2>3, <2>4 DEF Matches
<1>8. "retire" \notin Steps(u)
  <2>. SUFFICES ASSUME "retire" \in Steps(u) PROVE FALSE
    OBVIOUS
  <2>1. t = <<"retire", "insert", "commit">> \/ t = <<"insert", "retire", "insert", "commit">>
    BY <1>1 DEF Script, t
  <2>2. t = <<"retire", "insert", "commit">>
    BY <1>1, <2>1 DEF t
  <2>3. u = <<"insert", "commit">>
    BY <2>2 DEF t, u
  <2>4. Steps(u) = {"insert", "commit"}
    BY <2>3, PlainInsert DEF Late
  <2>. QED
    BY <2>4
<1>9. IsAdmin(k.by) /\ "commit" \in Steps(u) =>
          \/ u = <<"commit">>
          \/ k.do = "deactivate_template" /\ u = <<"mark_stale", "commit">>
  <2>. SUFFICES ASSUME IsAdmin(k.by), "commit" \in Steps(u) PROVE u = <<"commit">>
    OBVIOUS
  <2>1. t = <<"commit">> \/ t = <<"mark_stale", "commit">>
    BY <1>1 DEF Script, t
  <2>2. t = <<"mark_stale", "commit">>
    BY <1>2, <2>1
  <2>. QED
    BY <2>2 DEF t, u
<1>10. \A i \in 1 .. Len(u) : u[i] \in LastSteps => i = Len(u)
  <2>. SUFFICES ASSUME NEW i \in 1 .. Len(u), u[i] \in LastSteps PROVE i = Len(u)
    OBVIOUS
  <2>1. i + 1 \in 1 .. Len(t) /\ t[i + 1] \in LastSteps
    BY <1>1
  <2>2. i + 1 = Len(t)
    BY <2>1 DEF Script, t
  <2>. QED
    BY <1>1, <2>2
<1>11. Steps(u) \cap PageSteps # {} => Steps(u) \subseteq PageSteps \cup {"close"} /\ ~Tenant(k.by)
  BY <1>1 DEF Script, t
<1>12. Script(k)
  <2>1. "begin" \notin Steps(u) /\ Steps(u) \cap IngestSteps = {} /\ u[Len(u)] \in FinalSteps
    BY <1>1, <1>2, <1>3, <1>5, <1>6
  <2>. QED
    BY <1>7, <1>8, <1>9, <1>10, <1>11, <2>1 DEF Script, u
<1>. QED
  BY <1>1, <1>2, <1>3, <1>4, <1>5, <1>12 DEF t, u

\* A step that is behind p, whatever statement it has issued.
LEMMA PassStep ==
    ASSUME Discipline, NEW p \in Requests, NEW e, NEW w, NEW s, ~Ended(p),
           Head(job[p].todo) \notin FinalSteps \cup {"insert"},
           e = job[p].entity \/ Head(job[p].todo) \in PageSteps,
           job' = [job EXCEPT ![p] = Passed(p, e, w)], stmt' = [stmt EXCEPT ![p] = s],
           UNCHANGED <<rows, tx, shown>>,
           ToCreate(Passed(p, e, w)) = ToCreate(job[p]) => StmtOK(p, Passed(p, e, w), s),
           s.do # "insert"
    PROVE  Discipline' /\ Grows(p)
<1>. DEFINE j == job[p]
            k == Passed(p, e, w)
<1>1. JobOK(p, j) /\ Unused(p)
  BY DEF Discipline
<1>2. /\ k = [do |-> k.do, by |-> k.by, todo |-> k.todo, entity |-> k.entity,
              create |-> k.create, walk |-> k.walk]
      /\ k.do = j.do /\ k.by = j.by /\ k.todo = Tail(j.todo) /\ k.create = j.create /\ k.entity = e
  BY DEF Passed
<1>. HIDE DEF k
<1>3. j.todo # <<>> /\ IsJob(j) /\ Script(j)
  BY <1>1 DEF Ended, JobOK
<1>4. /\ Script(k) /\ k.todo # <<>>
      /\ Steps(k.todo) \subseteq Steps(j.todo)
      /\ Steps(j.todo) \subseteq Steps(k.todo) \cup {Head(j.todo)}
      /\ "begin" \notin Steps(k.todo) /\ Len(j.todo) > 1
  BY <1>2, <1>3, ScriptGoesOn
<1>5. IsJob(k)
  <2>1. k.todo \in Seq(StepNames)
    BY <1>2, <1>3, TailSteps DEF IsJob
  <2>. QED
    BY <1>2, <1>3, <2>1 DEF IsJob
<1>6. ToCreate(k) = ToCreate(j) /\ ("insert" \in Steps(k.todo) <=> "insert" \in Steps(j.todo))
  BY <1>2, <1>4 DEF ToCreate
<1>7. Creates(p, k)
  BY <1>1, <1>2, <1>6 DEF JobOK, Creates
<1>f. "find_window" \notin Steps(k.todo)
  <2>. SUFFICES ASSUME "find_window" \in Steps(j.todo) PROVE FALSE
    BY <1>4
  <2>1. j.todo = <<"find_window">>
    BY <1>1 DEF JobOK, Holds
  <2>. QED
    BY <1>4, <2>1
<1>8. "check_in_use" \notin Steps(k.todo)
  <2>. SUFFICES ASSUME "check_in_use" \in Steps(j.todo) PROVE FALSE
    BY <1>4
  <2>1. j.todo = <<"check_in_use">>
    BY <1>1 DEF JobOK, Holds
  <2>. QED
    BY <1>4, <2>1
<1>9. Holds(p, k)
  <2>1. CASE e = j.entity
    BY <1>1, <1>2, <1>4, <1>8, <1>f, <2>1 DEF JobOK, Holds
  <2>2. CASE Head(j.todo) \in PageSteps
    <3>1. Head(j.todo) \in Steps(j.todo)
      BY <1>3, TailSteps DEF IsJob
    <3>2. Steps(j.todo) \subseteq PageSteps \cup {"close"} /\ ~Tenant(j.by)
      BY <1>3, <2>2, <3>1 DEF Script
    <3>. QED
      BY <1>2, <1>4, <3>2 DEF Holds, PageSteps
  <2>. QED
    BY <2>1, <2>2
<1>10. JobOK(p, k)
  BY <1>4, <1>5, <1>7, <1>9 DEF JobOK
<1>11. \A x \in ToCreate(k) : x.id = SettingsId \/ x.id \notin Ids(tx[p].adds)
  BY <1>1, <1>6 DEF Unused
<1>12. StmtOK(p, k, s)
  BY <1>6 DEF k
<1>. QED
  BY <1>4, <1>8, <1>f, <1>10, <1>11, <1>12, JobStep DEF k

LEMMA JobRecord ==
    ASSUME NEW j, NEW u,
           j = [do |-> j.do, by |-> j.by, todo |-> j.todo,
                entity |-> j.entity, create |-> j.create, walk |-> j.walk]
    PROVE  /\ [j EXCEPT !.todo = u] = [do |-> j.do, by |-> j.by, todo |-> u, entity |-> j.entity,
                                       create |-> j.create, walk |-> j.walk]
           /\ [j EXCEPT !.walk = u] = [do |-> j.do, by |-> j.by, todo |-> j.todo, entity |-> j.entity,
                                       create |-> j.create, walk |-> u]
           /\ [j EXCEPT !.entity = u] = [do |-> j.do, by |-> j.by, todo |-> j.todo, entity |-> u,
                                         create |-> j.create, walk |-> j.walk]
           /\ [j EXCEPT !.create = u] = [do |-> j.do, by |-> j.by, todo |-> j.todo, entity |-> j.entity,
                                         create |-> u, walk |-> j.walk]
<1>. DEFINE d == j.do
            b == j.by
            t == j.todo
            e == j.entity
            c == j.create
            w == j.walk
<1>1. j = [do |-> d, by |-> b, todo |-> t, entity |-> e, create |-> c, walk |-> w]
  OBVIOUS
<1>. HIDE DEF d, b, t, e, c, w
<1>2. /\ [j EXCEPT !.todo = u] = [do |-> d, by |-> b, todo |-> u, entity |-> e, create |-> c, walk |-> w]
      /\ [j EXCEPT !.walk = u] = [do |-> d, by |-> b, todo |-> t, entity |-> e, create |-> c, walk |-> u]
      /\ [j EXCEPT !.entity = u] = [do |-> d, by |-> b, todo |-> t, entity |-> u, create |-> c, walk |-> w]
      /\ [j EXCEPT !.create = u] = [do |-> d, by |-> b, todo |-> t, entity |-> e, create |-> u, walk |-> w]
  BY <1>1
<1>. QED
  BY <1>2 DEF d, b, t, e, c, w

LEMMA PassIsPassed ==
    ASSUME Discipline, NEW p \in Requests, Pass(p)
    PROVE  job' = [job EXCEPT ![p] = Passed(p, job[p].entity, job[p].walk)]
<1>1. job[p] = [do |-> job[p].do, by |-> job[p].by, todo |-> job[p].todo, entity |-> job[p].entity,
                create |-> job[p].create, walk |-> job[p].walk]
  BY DEF Discipline, JobOK, IsJob
<1>2. [job[p] EXCEPT !.todo = Tail(job[p].todo)] = Passed(p, job[p].entity, job[p].walk)
  BY <1>1, JobRecord DEF Passed
<1>3. job' = [job EXCEPT ![p] = [job[p] EXCEPT !.todo = Tail(job[p].todo)]]
  BY DEF Pass
<1>. QED
  BY <1>2, <1>3

LEMMA HeadOfJob ==
    ASSUME Discipline, NEW p \in Requests, NEW a, At(p, a)
    PROVE  /\ ~Ended(p) /\ stmt[p] = NoStmt /\ a \in Steps(job[p].todo) /\ Head(job[p].todo) = a
           /\ JobOK(p, job[p]) /\ TxOK(p) /\ Unused(p)
           /\ a \in LastSteps => Steps(job[p].todo) = {a} /\ Len(job[p].todo) = 1
           /\ a # "begin" => "begin" \notin Steps(job[p].todo)
           /\ a # "check_in_use" => "check_in_use" \notin Steps(job[p].todo)
           /\ a # "find_window" => "find_window" \notin Steps(job[p].todo)
<1>1. JobOK(p, job[p]) /\ TxOK(p) /\ Unused(p)
  BY DEF Discipline
<1>2. ~Ended(p) /\ stmt[p] = NoStmt /\ a \in Steps(job[p].todo) /\ Head(job[p].todo) = a
      /\ job[p].todo[1] = a /\ 1 \in 1 .. Len(job[p].todo)
  BY <1>1, TailSteps DEF At, Ended, JobOK, IsJob
<1>3. a \in LastSteps => Len(job[p].todo) = 1
  BY <1>1, <1>2 DEF JobOK, Script
<1>4. a \in LastSteps => Steps(job[p].todo) = {a}
  BY <1>2, <1>3 DEF Steps
<1>5. "begin" \in Steps(job[p].todo) => a = "begin"
  BY <1>1, <1>2 DEF JobOK, Script, NewJob
<1>6. "check_in_use" \in Steps(job[p].todo) => a = "check_in_use"
  <2>. SUFFICES ASSUME "check_in_use" \in Steps(job[p].todo) PROVE a = "check_in_use"
    OBVIOUS
  <2>1. job[p].todo = <<"check_in_use">>
    BY <1>1 DEF JobOK, Holds
  <2>. QED
    BY <1>2, <2>1
<1>7. "find_window" \in Steps(job[p].todo) => a = "find_window"
  <2>. SUFFICES ASSUME "find_window" \in Steps(job[p].todo) PROVE a = "find_window"
    OBVIOUS
  <2>1. job[p].todo = <<"find_window">>
    BY <1>1 DEF JobOK, Holds
  <2>. QED
    BY <1>2, <2>1
<1>. QED
  BY <1>1, <1>2, <1>3, <1>4, <1>5, <1>6, <1>7

\* A step that fails a statement.
LEMMA FailStep ==
    ASSUME Discipline, NEW p \in Requests, ~Ended(p),
           Steps(job[p].todo) \cap {"begin", "check_in_use"} = {},
           Fail(p), UNCHANGED <<job, shown>>
    PROVE  Discipline' /\ Grows(p)
<1>1. JobOK(p, job[p]) /\ Unused(p) /\ Shapes
  BY DEF Discipline
<1>2. job' = [job EXCEPT ![p] = job[p]] /\ stmt' = [stmt EXCEPT ![p] = Failed] /\ UNCHANGED <<rows, tx>>
  BY <1>1 DEF Fail, Issue, Shapes
<1>3. StmtOK(p, job[p], Failed) /\ Failed.do # "insert"
  BY DEF StmtOK, Failed
<1>4. "find_window" \in Steps(job[p].todo) => tx[p] = NoTx /\ Failed.do \in {"none", "failed"}
  BY DEF Discipline, TxOK, Failed
<1>. QED
  BY <1>1, <1>2, <1>3, <1>4, JobStep DEF Unused, Ended

LEMMA FlushStep ==
    ASSUME Discipline, NEW p \in Requests, Flush(p)
    PROVE  Discipline' /\ Grows(p)
<1>1. /\ At(p, "flush") /\ Pass(p) /\ UNCHANGED <<rows, tx, shown>>
  BY DEF Flush
<1>. DEFINE entity == job[p].entity
            row    == {x \in View(p) : x.id = entity.id}
            k      == Passed(p, job[p].entity, job[p].walk)
<1>2. Edited(job[p].by, entity)
  BY <1>1, HeadOfJob DEF JobOK, Holds
<1>3. k.by = job[p].by
  BY DEF Passed
<1>4. ASSUME NEW x \in row PROVE StmtOK(p, k, UpdateRow(x.id, Changed(entity, x)))
  <2>1. /\ IsRow(x) /\ Known(p, x.id) /\ x \in Versions /\ x.id = entity.id
        /\ DOMAIN x = Columns[Table(x)] /\ Table(x) \in Tables
    BY WhatIsSeen
  <2>2. Table(x) \in Editable /\ Agree(x, entity)
    BY <1>2, <2>1 DEF Edited, Table
  <2>. DEFINE cols == Changed(entity, x)
              t    == Table(x)
              s    == UpdateRow(x.id, cols)
  <2>3. DOMAIN cols \subseteq Mutable[t]
    <3>1. \A c \in DOMAIN x \ Mutable[t] : entity[c] = x[c]
      BY <2>1, <2>2 DEF Agree, Frozen
    <3>. QED
      BY <3>1, ColumnsChanged
  <2>4. /\ t \in Tables /\ t # "token" /\ t \notin Personal /\ t \in OrgTables
        /\ Mutable[t] # {} /\ x.id[1] = t
    <3>1. t \in Editable
      BY <2>2
    <3>. HIDE DEF t
    <3>2. t \in Tables /\ t # "token" /\ t \notin Personal /\ t \in OrgTables
      BY <3>1, TableNames, OrgTableNames DEF Editable, Personal
    <3>3. Mutable[t] # {}
      <4>1. "text" \in Mutable[t] \/ "name" \in Mutable[t]
        BY <3>1 DEF Editable, Mutable
      <4>. QED
        BY <4>1
    <3>4. x.id[1] = t
      BY DEF t, Table
    <3>. QED
      BY <3>2, <3>3, <3>4
  <2>5. s.do = "update" /\ s.ids = {x.id} /\ s.cols = cols
    BY DEF UpdateRow
  <2>. HIDE DEF cols, t, s, k
  <2>6. ASSUME Tenant(k.by), NEW y \in Versions, y.id \in s.ids
        PROVE  y.org = k.by.org /\ k.by.role = "admin"
    <3>1. Agree(y, entity) /\ Table(y) = t /\ entity.org = k.by.org /\ k.by.role = "admin"
      BY <1>2, <1>3, <2>1, <2>4, <2>5, <2>6 DEF Edited, Table
    <3>2. "org" \in Frozen(t)
      BY <2>4, FrozenColumns
    <3>. QED
      BY <3>1, <3>2 DEF Agree
  <2>7. Updates(p, k, s)
    BY <2>1, <2>3, <2>4, <2>5, <2>6 DEF Updates
  <2>8. StmtOK(p, k, s)
    BY <2>5, <2>7 DEF StmtOK
  <2>. QED
    BY <2>8 DEF s, cols
<1>5. \E s : stmt' = [stmt EXCEPT ![p] = s] /\ StmtOK(p, k, s) /\ s.do # "insert"
  <2>1. StmtOK(p, k, NoStmt) /\ NoStmt.do # "insert" /\ StmtOK(p, k, Failed) /\ Failed.do # "insert"
    BY DEF StmtOK, NoStmt, Failed
  <2>2. \/ Issue(p, NoStmt) \/ Issue(p, Failed)
        \/ \E x \in row : Issue(p, UpdateRow(x.id, Changed(entity, x)))
    BY DEF Flush
  <2>3. \A x \in row : UpdateRow(x.id, Changed(entity, x)).do # "insert"
    BY DEF UpdateRow
  <2>. HIDE DEF k, row, entity
  <2>. QED
    BY <1>4, <2>1, <2>2, <2>3 DEF Issue
<1>. HIDE DEF k
<1>6. "flush" \notin FinalSteps \cup {"insert"}
  BY DEF FinalSteps, LastSteps, IngestSteps
<1>7. PICK s : stmt' = [stmt EXCEPT ![p] = s] /\ StmtOK(p, k, s) /\ s.do # "insert"
  BY <1>5
<1>8. ~Ended(p) /\ Head(job[p].todo) = "flush"
  BY <1>1, HeadOfJob
<1>9. job' = [job EXCEPT ![p] = Passed(p, job[p].entity, job[p].walk)]
  BY <1>1, PassIsPassed
<1>. QED
  BY <1>1, <1>6, <1>7, <1>8, <1>9, PassStep DEF k

\* A step that issues a statement.
LEMMA StatementStep ==
    ASSUME Discipline, NEW p \in Requests, NEW a, At(p, a), a \notin FinalSteps \cup {"insert"},
           NEW s, Issue(p, s), Pass(p), UNCHANGED <<rows, tx, shown>>, s.do # "insert",
           \A k : k.by = job[p].by /\ ToCreate(k) = ToCreate(job[p]) => StmtOK(p, k, s)
    PROVE  Discipline' /\ Grows(p)
<1>. DEFINE k == Passed(p, job[p].entity, job[p].walk)
<1>1. ~Ended(p) /\ Head(job[p].todo) = a
  BY HeadOfJob
<1>2. job' = [job EXCEPT ![p] = k]
  BY PassIsPassed
<1>3. k.by = job[p].by
  BY DEF Passed
<1>4. stmt' = [stmt EXCEPT ![p] = s]
  BY DEF Issue
<1>. HIDE DEF k
<1>5. ToCreate(k) = ToCreate(job[p]) => StmtOK(p, k, s)
  BY <1>3
<1>. QED
  BY <1>1, <1>2, <1>4, <1>5, PassStep DEF k

LEMMA MarkStaleStep ==
    ASSUME Discipline, NEW p \in Requests, MarkStale(p)
    PROVE  Discipline' /\ Grows(p)
<1>. DEFINE e == job[p].entity
            O == {x \in Overrides(p, e.id) : x.active}
            s == Update(Ids(O), [active |-> FALSE])
<1>1. At(p, "mark_stale") /\ Pass(p) /\ UNCHANGED <<rows, tx, shown>> /\ Issue(p, s)
  BY DEF MarkStale
<1>2. s.do = "update" /\ s.ids = Ids(O) /\ s.cols = [active |-> FALSE]
  BY DEF Update
<1>3. /\ \A y \in Versions : y.id = e.id => y.org = e.org
      /\ Tenant(job[p].by) => e.org # SuperOrg
  BY <1>1, HeadOfJob DEF JobOK, Holds
<1>4. \A x \in O : x \in View(p) /\ Table(x) = "override" /\ x.base = e.id
  BY DEF Overrides, From
<1>. HIDE DEF e, O, s
<1>5. ASSUME Tenant(job[p].by) PROVE O = {}
  <2>. SUFFICES ASSUME NEW x \in O PROVE FALSE
    OBVIOUS
  <2>1. x \in Versions /\ Table(x) = "override" /\ x.base = e.id
    BY <1>4, WhatIsSeen
  <2>2. IsBase(x.base)
    BY <2>1 DEF Discipline, RowsOK
  <2>3. PICK y \in rows : y.id = e.id /\ y.org = SuperOrg
    BY <2>1, <2>2 DEF IsBase
  <2>. QED
    BY <1>3, <1>5, <2>3 DEF Versions
<1>6. \A id \in s.ids : id[1] = "override" /\ Known(p, id)
  <2>1. \A x \in O : x.id[1] = "override" /\ Known(p, x.id)
    BY <1>4, WhatIsSeen DEF Table
  <2>. QED
    BY <1>2, <2>1 DEF Ids
<1>7. "override" \in Tables /\ Mutable["override"] = {"text", "active"} /\ "override" \notin Personal
  BY TableNames DEF Mutable, Personal
<1>8. DOMAIN s.cols = {"active"}
  BY <1>2
<1>9. ASSUME NEW k, k.by = job[p].by, ToCreate(k) = ToCreate(job[p])
      PROVE  StmtOK(p, k, s)
  <2>1. Tenant(k.by) => s.ids = {}
    BY <1>2, <1>5, <1>9 DEF Ids
  <2>2. \A id \in s.ids :
          /\ id[1] \in Tables /\ Mutable[id[1]] # {} /\ DOMAIN s.cols \subseteq Mutable[id[1]]
          /\ Known(p, id) /\ id[1] # "token" /\ id[1] \notin Personal
    BY <1>6, <1>7, <1>8
  <2>3. Updates(p, k, s)
    BY <1>2, <2>1, <2>2 DEF Updates
  <2>. QED
    BY <1>2, <2>3 DEF StmtOK
<1>10. "mark_stale" \notin FinalSteps \cup {"insert"}
  BY DEF FinalSteps, LastSteps, IngestSteps
<1>. QED
  BY <1>1, <1>2, <1>9, <1>10, StatementStep

LEMMA ClearStep ==
    ASSUME Discipline, NEW p \in Requests, ClearChildren(p)
    PROVE  Discipline' /\ Grows(p)
<1>. DEFINE C == ChildrenOf(p, job[p].entity.id)
            s == Delete(Ids(C), FALSE)
<1>1. At(p, "clear") /\ Pass(p) /\ UNCHANGED <<rows, tx, shown>> /\ Issue(p, s)
  BY DEF ClearChildren
<1>2. s.do = "delete" /\ s.ids = Ids(C)
  BY DEF Delete
<1>3. \A x \in C : x \in View(p) /\ x.id[1] \in {"dimension", "mapping"}
  BY DEF ChildrenOf, From, Table
<1>. HIDE DEF C, s
<1>4. \A id \in s.ids : id[1] \in Deletable /\ Known(p, id)
  BY <1>2, <1>3, WhatIsSeen DEF Ids, Deletable
<1>5. \A k : StmtOK(p, k, s)
  BY <1>2, <1>4 DEF StmtOK
<1>6. "clear" \notin FinalSteps \cup {"insert"}
  BY DEF FinalSteps, LastSteps, IngestSteps
<1>. QED
  BY <1>1, <1>2, <1>5, <1>6, StatementStep

LEMMA DeleteStep ==
    ASSUME Discipline, NEW p \in Requests, DeleteEntity(p)
    PROVE  Discipline' /\ Grows(p)
<1>. DEFINE s == Delete({job[p].entity.id}, Table(job[p].entity) = "override")
<1>1. At(p, "delete") /\ Pass(p) /\ UNCHANGED <<rows, tx, shown>> /\ Issue(p, s)
  BY DEF DeleteEntity
<1>2. s.do = "delete" /\ s.ids = {job[p].entity.id}
  BY DEF Delete
<1>3. job[p].entity.id[1] \in {"override", "window"} /\ Settled(job[p].entity.id)
  BY <1>1, HeadOfJob DEF JobOK, Holds
<1>. HIDE DEF s
<1>4. \A id \in s.ids : id[1] \in Deletable /\ Known(p, id)
  BY <1>2, <1>3 DEF Deletable, Settled, Known
<1>5. \A k : StmtOK(p, k, s)
  BY <1>2, <1>4 DEF StmtOK
<1>6. "delete" \notin FinalSteps \cup {"insert"}
  BY DEF FinalSteps, LastSteps, IngestSteps
<1>. QED
  BY <1>1, <1>2, <1>5, <1>6, StatementStep

LEMMA RetireStep ==
    ASSUME Discipline, NEW p \in Requests, Retire(p)
    PROVE  Discipline' /\ Grows(p)
<1>. DEFINE j == job[p]
            x == Head(j.create)
            A == ActiveIn(Table(x), p)
            s == Update(Ids(A), [active |-> FALSE])
<1>1. At(p, "retire") /\ Pass(p) /\ UNCHANGED <<rows, tx, shown>> /\ Issue(p, s)
  BY DEF Retire
<1>2. s.do = "update" /\ s.ids = Ids(A) /\ s.cols = [active |-> FALSE]
  BY DEF Update
<1>3. j.todo = <<"retire", "insert", "commit">> /\ Steps(j.todo) = {"retire", "insert", "commit"}
      /\ Matches(j.todo, j.create) /\ j.create[Len(j.create)].id[1] \in Personal /\ IsJob(j)
  <2>1. JobOK(p, j) /\ "retire" \in Steps(j.todo) /\ Head(j.todo) = "retire"
    BY <1>1, HeadOfJob
  <2>2. /\ j.todo \in {<<"retire", "insert", "commit">>, <<"insert", "retire", "insert", "commit">>}
        /\ j.create[Len(j.create)].id[1] \in Personal
    BY <2>1 DEF JobOK, Script
  <2>3. j.todo = <<"retire", "insert", "commit">>
    BY <2>1, <2>2
  <2>4. Steps(j.todo) = {"retire", "insert", "commit"}
    BY <2>3, RetireScripts
  <2>5. Steps(j.todo) \cap IngestSteps = {}
    BY <2>4 DEF IngestSteps
  <2>. QED
    BY <2>1, <2>2, <2>3, <2>4, <2>5 DEF JobOK, Script
<1>4. Len(j.create) = 1
  <2>1. Len(j.todo) = 3 /\ j.todo[1] = "retire" /\ j.todo[2] = "insert" /\ j.todo[3] = "commit"
    BY <1>3
  <2>2. Len(j.create) \in Nat /\ Len(j.create) <= 2
    BY <1>3 DEF Matches, IsJob
  <2>3. Len(j.create) # 0
    BY <1>3, <2>1 DEF Matches
  <2>4. Len(j.create) # 2
    <3>. SUFFICES ASSUME Len(j.create) = 2 PROVE FALSE
      OBVIOUS
    <3>1. PICK i \in 1 .. 3, n \in 1 .. 3 : i < n /\ \A m \in 1 .. 3 : j.todo[m] = "insert" <=> m \in {i, n}
      BY <1>3, <2>1 DEF Matches
    <3>. QED
      BY <2>1, <3>1
  <2>. DEFINE n == Len(j.create)
  <2>5. n \in Nat /\ n <= 2 /\ n # 0 /\ n # 2
    BY <2>2, <2>3, <2>4
  <2>. HIDE DEF n
  <2>6. n = 1
    BY <2>5
  <2>. QED
    BY <2>6 DEF n
<1>5. x = j.create[1] /\ Table(x) \in Personal /\ x \in ToCreate(j)
  <2>1. x = j.create[1] /\ 1 \in 1 .. Len(j.create)
    BY <1>3, <1>4 DEF IsJob
  <2>. QED
    BY <1>3, <1>4, <2>1 DEF Table, ToCreate
<1>. DEFINE t == Table(x)
<1>6. \A y \in A : y \in View(p) /\ y.id[1] = t
  BY DEF ActiveIn, From, Table
<1>7. x \in ToCreate(j) /\ Table(x) = t /\ t \in Personal
  BY <1>5
<1>. HIDE DEF A, s, x, t
<1>8. \A id \in s.ids : id[1] = t /\ Known(p, id)
  BY <1>2, <1>6, WhatIsSeen DEF Ids
<1>9. t \in Tables /\ "active" \in Mutable[t] /\ t # "token" /\ t \notin OrgTables
  BY <1>7, TableNames, OrgTableNames DEF Personal, Mutable
<1>10. DOMAIN s.cols = {"active"} /\ s.cols.active = FALSE
  BY <1>2
<1>11. ASSUME NEW k, k.by = job[p].by, ToCreate(k) = ToCreate(job[p])
      PROVE  StmtOK(p, k, s)
  <2>1. \A id \in s.ids :
          /\ id[1] \in Tables /\ Mutable[id[1]] # {} /\ DOMAIN s.cols \subseteq Mutable[id[1]]
          /\ Known(p, id) /\ id[1] # "token" /\ id[1] \notin OrgTables
          /\ s.cols.active = FALSE /\ \E y \in ToCreate(k) : Table(y) = id[1]
    BY <1>7, <1>8, <1>9, <1>10, <1>11
  <2>2. Updates(p, k, s)
    BY <1>2, <2>1 DEF Updates, Table
  <2>. QED
    BY <1>2, <2>2 DEF StmtOK
<1>12. "retire" \notin FinalSteps \cup {"insert"}
  BY DEF FinalSteps, LastSteps, IngestSteps
<1>. QED
  BY <1>1, <1>2, <1>11, <1>12, StatementStep

LEMMA RevokeAllStep ==
    ASSUME Discipline, NEW p \in Requests, RevokeAll(p)
    PROVE  Discipline' /\ Grows(p)
<1>. DEFINE s == RevokeAllOf(job[p].entity.id, p)
<1>1. At(p, "revoke_all") /\ Pass(p) /\ UNCHANGED <<rows, tx, shown>> /\ Issue(p, s)
  BY DEF RevokeAll
<1>2. s.do # "insert"
  BY DEF RevokeAllOf, Update
<1>3. \A k : StmtOK(p, k, s)
  BY Revocation
<1>. HIDE DEF s
<1>4. "revoke_all" \notin FinalSteps \cup {"insert"}
  BY DEF FinalSteps, LastSteps, IngestSteps
<1>. QED
  BY <1>1, <1>2, <1>3, <1>4, StatementStep

LEMMA WriteProfileStep ==
    ASSUME Discipline, NEW p \in Requests, WriteProfile(p)
    PROVE  Discipline' /\ Grows(p)
<1>. DEFINE c    == job[p].entity
            cols == [skills |-> c.skills, bio |-> c.bio]
            s    == UpdateRow(c.id, cols)
<1>1. At(p, "write_profile") /\ Pass(p) /\ UNCHANGED <<rows, tx, shown>> /\ Issue(p, s)
  BY DEF WriteProfile
<1>2. s.do # "insert"
  BY DEF UpdateRow
<1>3. c.id[1] = "candidate" /\ Known(p, c.id)
  BY <1>1, HeadOfJob DEF JobOK, Holds
<1>4. DOMAIN cols = {"skills", "bio"}
  OBVIOUS
<1>5. "candidate" \in Tables /\ "candidate" \notin OrgTables /\ "candidate" \notin Personal
      /\ Mutable["candidate"] = {"skills", "bio"}
  BY TableNames, OrgTableNames DEF Mutable, Personal
<1>. HIDE DEF cols, c
<1>6. \A k : StmtOK(p, k, s)
  BY <1>3, <1>4, <1>5, OneRowUpdated
<1>. HIDE DEF s
<1>7. "write_profile" \notin FinalSteps \cup {"insert"}
  BY DEF FinalSteps, LastSteps, IngestSteps
<1>. QED
  BY <1>1, <1>2, <1>6, <1>7, StatementStep

LEMMA ResumeStep ==
    ASSUME Discipline, NEW p \in Requests, SaveText(p) \/ SaveAnalysis(p)
    PROVE  Discipline' /\ Grows(p)
<1>1. PICK a \in {"save_text", "save_analysis"}, cols \in {[parsed |-> job[p].entity.parsed], [analysed |-> "success"]} :
        /\ At(p, a) /\ Pass(p) /\ UNCHANGED <<rows, tx, shown>>
        /\ Issue(p, UpdateRow(job[p].entity.id, cols))
  BY DEF SaveText, SaveAnalysis
<1>. DEFINE id == job[p].entity.id
            s  == UpdateRow(id, cols)
<1>2. s.do # "insert"
  BY DEF UpdateRow
<1>3. id[1] = "resume" /\ Known(p, id)
  <2>1. id = <<"resume", p>>
    BY <1>1, HeadOfJob DEF JobOK, Holds
  <2>. QED
    BY <2>1 DEF Known
<1>4. DOMAIN cols \subseteq {"parsed", "analysed"}
  OBVIOUS
<1>5. "resume" \in Tables /\ "resume" \notin OrgTables /\ "resume" \notin Personal
      /\ Mutable["resume"] = {"parsed", "analysed"}
  BY TableNames, OrgTableNames DEF Mutable, Personal
<1>6. Issue(p, s)
  BY <1>1
<1>. HIDE DEF id
<1>7. \A k : StmtOK(p, k, s)
  BY <1>3, <1>4, <1>5, OneRowUpdated
<1>. HIDE DEF s
<1>8. a \notin FinalSteps \cup {"insert"}
  BY DEF FinalSteps, LastSteps, IngestSteps
<1>. QED
  BY <1>1, <1>2, <1>6, <1>7, <1>8, StatementStep

LEMMA RaiseStep ==
    ASSUME Discipline, NEW p \in Requests, Raise(p)
    PROVE  Discipline' /\ Grows(p)
<1>1. At(p, "raise") /\ Fail(p) /\ UNCHANGED <<job, shown>>
  BY DEF Raise
<1>2. ~Ended(p) /\ Steps(job[p].todo) \cap {"begin", "check_in_use"} = {}
  BY <1>1, HeadOfJob
<1>. QED
  BY <1>1, <1>2, FailStep

\* A read: no statement is issued, only the job goes on.
LEMMA ReadStep ==
    ASSUME Discipline, NEW p \in Requests, NEW a, At(p, a), a \notin FinalSteps \cup {"insert"},
           NEW e, e = job[p].entity \/ a \in PageSteps,
           job' = [job EXCEPT ![p] = Passed(p, e, job[p].walk)], UNCHANGED <<rows, tx, stmt, shown>>
    PROVE  Discipline' /\ Grows(p)
<1>1. ~Ended(p) /\ Head(job[p].todo) = a /\ stmt[p] = NoStmt
  BY HeadOfJob
<1>2. stmt' = [stmt EXCEPT ![p] = NoStmt]
  BY <1>1 DEF Discipline, Shapes
<1>3. StmtOK(p, Passed(p, e, job[p].walk), NoStmt) /\ NoStmt.do # "insert"
  BY NothingToDo DEF NoStmt
<1>. QED
  BY <1>1, <1>2, <1>3, PassStep

\* The two ways a read changes the entity.
LEMMA EntityRead ==
    ASSUME Discipline, NEW p \in Requests, NEW e,
           job' = [job EXCEPT ![p] = [[job[p] EXCEPT !.todo = Tail(job[p].todo)] EXCEPT !.entity = e]]
    PROVE  job' = [job EXCEPT ![p] = Passed(p, e, job[p].walk)]
<1>1. job[p] = [do |-> job[p].do, by |-> job[p].by, todo |-> job[p].todo, entity |-> job[p].entity,
                create |-> job[p].create, walk |-> job[p].walk]
  BY DEF Discipline, JobOK, IsJob
<1>. DEFINE k == [job[p] EXCEPT !.todo = Tail(job[p].todo)]
<1>2. k = [do |-> job[p].do, by |-> job[p].by, todo |-> Tail(job[p].todo), entity |-> job[p].entity,
           create |-> job[p].create, walk |-> job[p].walk]
  BY <1>1, JobRecord
<1>3. job' = [job EXCEPT ![p] = [k EXCEPT !.entity = e]]
  OBVIOUS
<1>. HIDE DEF k
<1>4. k.do = job[p].do /\ k.by = job[p].by /\ k.todo = Tail(job[p].todo) /\ k.create = job[p].create
      /\ k.walk = job[p].walk /\ k = [do |-> k.do, by |-> k.by, todo |-> k.todo, entity |-> k.entity,
                                      create |-> k.create, walk |-> k.walk]
  BY <1>2
<1>5. [k EXCEPT !.entity = e] = [do |-> k.do, by |-> k.by, todo |-> k.todo, entity |-> e,
                                create |-> k.create, walk |-> k.walk]
  BY <1>4, JobRecord
<1>6. [k EXCEPT !.entity = e] = Passed(p, e, job[p].walk)
  BY <1>4, <1>5 DEF Passed
<1>. QED
  BY <1>3, <1>6

\* A candidate's page, read on.
LEMMA ReadOnReads ==
    ASSUME Discipline, NEW p \in Requests, ReadOn(p)
    PROVE  \E a \in PageSteps : \E e :
              At(p, a) /\ job' = [job EXCEPT ![p] = Passed(p, e, job[p].walk)] /\ UNCHANGED <<rows, tx, stmt, shown>>
<1>. DEFINE t == Tail(job[p].todo)
            J(e) == [job EXCEPT ![p] = [[job[p] EXCEPT !.todo = t] EXCEPT !.entity = e]]
<1>1. \E a \in PageSteps : \E e : At(p, a) /\ job' = J(e) /\ UNCHANGED <<rows, tx, stmt, shown>>
  <2>a. /\ DOMAIN job = Requests /\ job = [r \in Requests |-> job[r]]
        /\ job[p] = [do |-> job[p].do, by |-> job[p].by, todo |-> job[p].todo, entity |-> job[p].entity,
                     create |-> job[p].create, walk |-> job[p].walk]
    BY DEF Discipline, Shapes, JobOK, IsJob
  <2>b. \A e : J(e) = [r \in Requests |-> IF r = p
                          THEN [[job[p] EXCEPT !.todo = t] EXCEPT !.entity = e] ELSE job[r]]
    BY <2>a
  <2>1. ASSUME ReadWindows(p) PROVE job' = J([job[p].entity EXCEPT !.windows = @ \cap Ids(From("window", View(p)))])
    BY <2>1, <2>a DEF ReadWindows
  <2>2. ASSUME ReadMappings(p)
        PROVE  job' = J([job[p].entity EXCEPT !.mappings = Ids(MappingsOf(p, job[p].entity.windows))])
    BY <2>2, <2>a DEF ReadMappings
  <2>3. ASSUME ReadReferred(p) PROVE \E e : job' = J(e)
    <3>. DEFINE s  == job[p].entity.submission
                id == IF At(p, "read_its_window") THEN s.window ELSE s.template
    <3>1. job' = [job EXCEPT ![p].todo = Tail(@),
                             ![p].entity.found = @ \cup {x \in {id} : id \in Ids(View(p))}]
      BY <2>3 DEF ReadReferred
    <3>. HIDE DEF s, id
    <3>2. job' = J([job[p].entity EXCEPT !.found = @ \cup {x \in {id} : id \in Ids(View(p))}])
      BY <3>1, <2>a
    <3>. QED
      BY <3>2
  <2>4. ASSUME ReadProblems(p)
        PROVE  job' = J([job[p].entity EXCEPT !.listed = @ \cup Ids(From("problem", View(p)))])
    BY <2>4, <2>a DEF ReadProblems
  <2>5. \E a \in PageSteps : At(p, a) /\ UNCHANGED <<rows, tx, stmt, shown>>
    BY DEF ReadOn, ReadWindows, ReadMappings, ReadReferred, ReadProblems, PageSteps, dbVars
  <2>6. \E e : job' = J(e)
    <3>. HIDE DEF J
    <3>. QED
      BY <2>1, <2>2, <2>3, <2>4 DEF ReadOn
  <2>. HIDE DEF J
  <2>. QED
    BY <2>5, <2>6
<1>a. PICK a \in PageSteps : \E e : At(p, a) /\ job' = J(e) /\ UNCHANGED <<rows, tx, stmt, shown>>
  BY <1>1
<1>2. PICK e : At(p, a) /\ job' = J(e) /\ UNCHANGED <<rows, tx, stmt, shown>>
  BY <1>a
<1>3. job' = [job EXCEPT ![p] = Passed(p, e, job[p].walk)]
  BY <1>2, EntityRead
<1>. QED
  BY <1>2, <1>3

LEMMA PageStepsRead ==
    ASSUME NEW a \in PageSteps
    PROVE  a \notin FinalSteps \cup {"insert", "mark_stale"}
BY DEF FinalSteps, LastSteps, IngestSteps, PageSteps

LEMMA ReadOnStep ==
    ASSUME Discipline, NEW p \in Requests, ReadOn(p)
    PROVE  Discipline' /\ Grows(p)
BY ReadOnReads, PageStepsRead, ReadStep

LEMMA WalkStep ==
    ASSUME Discipline, NEW p \in Requests, WalkUp(p)
    PROVE  Discipline' /\ Grows(p)
<1>1. PICK x \in TopicsIn(p) : job' = [job EXCEPT ![p].walk = Append(@, x.parent)]
  BY DEF WalkUp
<1>2. At(p, "walk") /\ UNCHANGED <<rows, tx, stmt, shown>>
  BY DEF WalkUp, dbVars
<1>. DEFINE j == job[p]
            w == Append(j.walk, x.parent)
            k == [do |-> j.do, by |-> j.by, todo |-> j.todo, entity |-> j.entity,
                  create |-> j.create, walk |-> w]
<1>3. JobOK(p, j) /\ ~Ended(p) /\ stmt[p] = NoStmt /\ "begin" \notin Steps(j.todo)
      /\ "check_in_use" \notin Steps(j.todo) /\ "find_window" \notin Steps(j.todo) /\ Unused(p)
  BY <1>2, HeadOfJob
<1>4. job' = [job EXCEPT ![p] = k]
  <2>1. job[p] = [do |-> job[p].do, by |-> job[p].by, todo |-> job[p].todo, entity |-> job[p].entity,
                  create |-> job[p].create, walk |-> job[p].walk]
    BY <1>3 DEF JobOK, IsJob
  <2>2. [job[p] EXCEPT !.walk = w] = k
    BY <2>1, JobRecord
  <2>3. job' = [job EXCEPT ![p] = [job[p] EXCEPT !.walk = w]]
    BY <1>1
  <2>. QED
    BY <2>2, <2>3
<1>5. /\ k = [do |-> k.do, by |-> k.by, todo |-> k.todo, entity |-> k.entity,
              create |-> k.create, walk |-> k.walk]
      /\ k.do = j.do /\ k.by = j.by /\ k.todo = j.todo /\ k.create = j.create /\ k.entity = j.entity
  OBVIOUS
<1>. HIDE DEF k, j
<1>6. IsJob(k)
  BY <1>3, <1>5 DEF JobOK, IsJob
<1>7. Script(k)
  BY <1>3, <1>5 DEF JobOK, Script
<1>8. ToCreate(k) = ToCreate(j) /\ Creates(p, k)
  BY <1>3, <1>5 DEF JobOK, Creates, ToCreate
<1>9. Holds(p, k)
  BY <1>3, <1>5 DEF JobOK, Holds
<1>10. stmt' = [stmt EXCEPT ![p] = NoStmt]
  BY <1>2, <1>3 DEF Discipline, Shapes
<1>11. \A x1 \in ToCreate(k) : x1.id = SettingsId \/ x1.id \notin Ids(tx[p].adds)
  BY <1>3, <1>8 DEF Unused, j
<1>12. k.todo # <<>> /\ Steps(k.todo) \cap {"begin", "check_in_use", "find_window"} = {}
  BY <1>3, <1>5 DEF Ended, j
<1>13. NoStmt.do # "insert"
  BY DEF NoStmt
<1>. QED
  BY <1>2, <1>3, <1>4, <1>6, <1>7, <1>8, <1>9, <1>10, <1>11, <1>12, <1>13, NothingToDo, JobStep DEF JobOK

LEMMA CycleStep ==
    ASSUME Discipline, NEW p \in Requests, CheckTopicCycle(p), ~Rollback(p)
    PROVE  Discipline' /\ Grows(p)
<1>1. At(p, "walk") /\ Pass(p) /\ UNCHANGED <<rows, tx, stmt, shown>>
  BY DEF CheckTopicCycle, dbVars
<1>2. "walk" \notin FinalSteps \cup {"insert"}
  BY DEF FinalSteps, LastSteps, IngestSteps
<1>. QED
  BY <1>1, <1>2, PassIsPassed, ReadStep

\* The jobs that have an INSERT behind them.
LEMMA ScriptAfterInsert ==
    ASSUME NEW j, NEW k, IsJob(j), Script(j), j.todo # <<>>, Head(j.todo) = "insert",
           k.do = j.do, k.by = j.by, k.todo = Tail(j.todo), k.create = Tail(j.create)
    PROVE  /\ Script(k) /\ k.todo # <<>>
           /\ Steps(k.todo) \subseteq Steps(j.todo)
           /\ "begin" \notin Steps(k.todo)
           /\ Len(j.todo) > 1
           /\ Len(j.create) \in {1, 2} /\ Len(k.create) = Len(j.create) - 1
           /\ Head(j.create) = j.create[1]
           /\ \A i \in 1 .. Len(k.create) : k.create[i] = j.create[i + 1]
           /\ Len(j.create) = 2 => "insert" \in Steps(k.todo)
<1>. DEFINE t == j.todo
            u == k.todo
            c == j.create
            d == k.create
<1>1. /\ t \in Seq(StepNames) /\ u \in Seq(StepNames) /\ Len(u) = Len(t) - 1
      /\ \A i \in 1 .. Len(u) : u[i] = t[i + 1]
      /\ Steps(u) \subseteq Steps(t) /\ t[1] = "insert" /\ "insert" \in Steps(t)
  BY TailSteps DEF IsJob
<1>2. t[Len(t)] \in FinalSteps /\ Len(t) > 1
  <2>1. t[Len(t)] \in FinalSteps
    BY DEF Script
  <2>2. "insert" \notin FinalSteps
    BY DEF FinalSteps, LastSteps, IngestSteps
  <2>. DEFINE m == Len(t)
  <2>3. m \in Nat /\ m # 0 /\ m # 1
    BY <1>1, <2>1, <2>2
  <2>. HIDE DEF m
  <2>4. m > 1
    BY <2>3
  <2>. QED
    BY <2>1, <2>4 DEF m
<1>3. Steps(t) \cap IngestSteps = {} /\ Matches(t, c)
  BY <1>2 DEF Script
<1>4. Len(c) \in Nat /\ Len(c) <= 2 /\ c \in Seq({c[i] : i \in 1 .. Len(c)})
  BY <1>3 DEF Matches, IsJob
<1>5. Len(c) # 0
  BY <1>1, <1>2, <1>3 DEF Matches
<1>6. /\ Len(d) = Len(c) - 1 /\ Head(c) = c[1]
      /\ \A i \in 1 .. Len(d) : d[i] = c[i + 1]
  BY <1>4, <1>5
<1>. HIDE DEF t, u, c, d
<1>7. Len(c) \in {1, 2}
  <2>. DEFINE m == Len(c)
  <2>1. m \in Nat /\ m <= 2 /\ m # 0
    BY <1>4, <1>5
  <2>. HIDE DEF m
  <2>2. m \in {1, 2}
    BY <2>1
  <2>. QED
    BY <2>2 DEF m
<1>8. u # <<>> /\ u[Len(u)] = t[Len(t)]
  <2>1. Len(u) >= 1 /\ Len(t) \in Nat
    BY <1>1, <1>2
  <2>. QED
    BY <1>1, <2>1
<1>9. "begin" \notin Steps(t)
  <2>. SUFFICES ASSUME "begin" \in Steps(t) PROVE FALSE
    OBVIOUS
  <2>1. j = NewJob
    BY DEF Script, t
  <2>2. t = <<"begin">>
    BY <2>1 DEF NewJob, t
  <2>. QED
    BY <1>2, <2>2
<1>10. /\ Len(c) = 1 => \A m \in 1 .. Len(u) : u[m] # "insert"
       /\ Len(c) = 2 => \E n \in 1 .. Len(u) : \A m \in 1 .. Len(u) : u[m] = "insert" <=> m = n
  <2>1. ASSUME Len(c) = 1 PROVE \A m \in 1 .. Len(u) : u[m] # "insert"
    <3>1. PICK i \in 1 .. Len(t) : \A m \in 1 .. Len(t) : t[m] = "insert" <=> m = i
      BY <1>3, <2>1 DEF Matches
    <3>2. i = 1
      BY <1>1, <1>2, <3>1
    <3>. SUFFICES ASSUME NEW m \in 1 .. Len(u) PROVE u[m] # "insert"
      OBVIOUS
    <3>3. m + 1 \in 1 .. Len(t) /\ m + 1 # 1 /\ u[m] = t[m + 1]
      BY <1>1
    <3>. QED
      BY <3>1, <3>2, <3>3
  <2>2. ASSUME Len(c) = 2
        PROVE  \E n \in 1 .. Len(u) : \A m \in 1 .. Len(u) : u[m] = "insert" <=> m = n
    <3>1. PICK i \in 1 .. Len(t), n \in 1 .. Len(t) :
             i < n /\ \A m \in 1 .. Len(t) : t[m] = "insert" <=> m \in {i, n}
      BY <1>3, <2>2 DEF Matches
    <3>2. i = 1
      BY <1>1, <1>2, <3>1
    <3>3. n - 1 \in 1 .. Len(u)
      BY <1>1, <3>1, <3>2
    <3>4. \A m \in 1 .. Len(u) : u[m] = "insert" <=> m = n - 1
      BY <1>1, <3>1, <3>2
    <3>. QED
      BY <3>3, <3>4
  <2>. QED
    BY <2>1, <2>2
<1>11. Matches(u, d)
  <2>1. CASE Len(c) = 1
    <3>1. Len(d) = 0
      BY <1>6, <2>1
    <3>. QED
      BY <1>10, <2>1, <3>1 DEF Matches
  <2>2. CASE Len(c) = 2
    <3>1. Len(d) = 1
      BY <1>6, <2>2
    <3>. QED
      BY <1>10, <2>2, <3>1 DEF Matches
  <2>. QED
    BY <1>7, <2>1, <2>2
<1>12. ASSUME "retire" \in Steps(u)
       PROVE  /\ u \in {<<"retire", "insert", "commit">>, <<"insert", "retire", "insert", "commit">>}
              /\ d[Len(d)].id[1] \in Personal
  <2>1. /\ t = <<"retire", "insert", "commit">> \/ t = <<"insert", "retire", "insert", "commit">>
        /\ c[Len(c)].id[1] \in Personal
    BY <1>1, <1>12 DEF Script, t, c
  <2>2. t = <<"insert", "retire", "insert", "commit">>
    BY <1>1, <2>1
  <2>3. u = <<"retire", "insert", "commit">>
    BY <2>2 DEF t, u
  <2>4. Len(c) # 1
    <3>1. u[2] = "insert" /\ Len(u) = 3
      BY <2>3
    <3>. QED
      BY <1>10, <3>1
  <2>5. d[Len(d)] = c[Len(c)]
    <3>1. Len(c) = 2 /\ Len(d) = 1
      BY <1>6, <1>7, <2>4
    <3>. QED
      BY <1>6, <3>1
  <2>. QED
    BY <2>1, <2>3, <2>5
<1>13. ~(IsAdmin(k.by) /\ "commit" \in Steps(u))
  <2>. SUFFICES ASSUME IsAdmin(k.by), "commit" \in Steps(u) PROVE FALSE
    OBVIOUS
  <2>1. t = <<"commit">> \/ t = <<"mark_stale", "commit">>
    BY <1>1 DEF Script, t
  <2>. QED
    BY <1>1, <2>1
<1>14. \A i \in 1 .. Len(u) : u[i] \in LastSteps => i = Len(u)
  <2>. SUFFICES ASSUME NEW i \in 1 .. Len(u), u[i] \in LastSteps PROVE i = Len(u)
    OBVIOUS
  <2>1. i + 1 \in 1 .. Len(t) /\ t[i + 1] \in LastSteps
    BY <1>1
  <2>2. i + 1 = Len(t)
    BY <2>1 DEF Script, t
  <2>. QED
    BY <1>1, <2>2
<1>15. Steps(u) \cap PageSteps # {} => Steps(u) \subseteq PageSteps \cup {"close"} /\ ~Tenant(k.by)
  BY <1>1 DEF Script, t
<1>16. Script(k)
  <2>1. "begin" \notin Steps(u) /\ Steps(u) \cap IngestSteps = {} /\ u[Len(u)] \in FinalSteps
    BY <1>1, <1>2, <1>3, <1>8, <1>9
  <2>. QED
    BY <1>11, <1>12, <1>13, <1>14, <1>15, <2>1 DEF Script, u, d
<1>17. Len(c) = 2 => "insert" \in Steps(u)
  BY <1>10 DEF Steps
<1>. QED
  BY <1>1, <1>2, <1>6, <1>7, <1>8, <1>9, <1>16, <1>17 DEF t, u, c, d

LEMMA InsertStep ==
    ASSUME Discipline, NEW p \in Requests, InsertNext(p)
    PROVE  Discipline' /\ Grows(p)
<1>1. /\ At(p, "insert") /\ UNCHANGED <<rows, tx, shown>> /\ Issue(p, Insert(Head(job[p].create)))
      /\ job' = [job EXCEPT ![p].todo = Tail(@), ![p].create = Tail(@)]
  BY DEF InsertNext
<1>. DEFINE j == job[p]
            k == [do |-> j.do, by |-> j.by, todo |-> Tail(j.todo), entity |-> j.entity,
                  create |-> Tail(j.create), walk |-> j.walk]
            x == j.create[1]
            s == Insert(x)
<1>2. JobOK(p, j) /\ ~Ended(p) /\ "check_in_use" \notin Steps(j.todo) /\ Unused(p)
      /\ "find_window" \notin Steps(j.todo)
      /\ Head(j.todo) = "insert" /\ "insert" \in Steps(j.todo)
  BY <1>1, HeadOfJob
<1>3. job' = [job EXCEPT ![p] = k]
  <2>1. /\ DOMAIN job = Requests /\ job = [r \in Requests |-> job[r]]
        /\ job[p] = [do |-> job[p].do, by |-> job[p].by, todo |-> job[p].todo, entity |-> job[p].entity,
                     create |-> job[p].create, walk |-> job[p].walk]
    BY DEF Discipline, Shapes, JobOK, IsJob
  <2>. DEFINE h == [job[p] EXCEPT !.todo = Tail(job[p].todo)]
  <2>2. h = [do |-> j.do, by |-> j.by, todo |-> Tail(j.todo), entity |-> j.entity,
             create |-> j.create, walk |-> j.walk]
    BY <2>1, JobRecord
  <2>3. job' = [job EXCEPT ![p] = [h EXCEPT !.create = Tail(j.create)]]
    BY <1>1, <2>1
  <2>. HIDE DEF h
  <2>4. /\ h.do = j.do /\ h.by = j.by /\ h.todo = Tail(j.todo) /\ h.entity = j.entity /\ h.walk = j.walk
        /\ h = [do |-> h.do, by |-> h.by, todo |-> h.todo, entity |-> h.entity,
                create |-> h.create, walk |-> h.walk]
    BY <2>2
  <2>5. [h EXCEPT !.create = Tail(j.create)] =
            [do |-> h.do, by |-> h.by, todo |-> h.todo, entity |-> h.entity,
             create |-> Tail(j.create), walk |-> h.walk]
    BY <2>4, JobRecord
  <2>6. [h EXCEPT !.create = Tail(j.create)] = k
    BY <2>4, <2>5
  <2>. QED
    BY <2>3, <2>6
<1>4. /\ k = [do |-> k.do, by |-> k.by, todo |-> k.todo, entity |-> k.entity,
              create |-> k.create, walk |-> k.walk]
      /\ k.do = j.do /\ k.by = j.by /\ k.todo = Tail(j.todo) /\ k.create = Tail(j.create)
      /\ k.entity = j.entity
  OBVIOUS
<1>. HIDE DEF k
<1>5. j.todo # <<>> /\ IsJob(j) /\ Script(j) /\ Creates(p, j) /\ Holds(p, j)
  BY <1>2 DEF Ended, JobOK
<1>6. /\ Script(k) /\ k.todo # <<>>
      /\ Steps(k.todo) \subseteq Steps(j.todo)
      /\ "begin" \notin Steps(k.todo)
      /\ Len(j.create) \in {1, 2} /\ Len(k.create) = Len(j.create) - 1
      /\ Head(j.create) = x
      /\ \A i \in 1 .. Len(k.create) : k.create[i] = j.create[i + 1]
      /\ Len(j.create) = 2 => "insert" \in Steps(k.todo)
  BY <1>2, <1>4, <1>5, ScriptAfterInsert
<1>. HIDE DEF j
<1>7. IsJob(k)
  <2>1. k.todo \in Seq(StepNames)
    BY <1>4, <1>5, TailSteps DEF IsJob
  <2>2. k.create \in Seq({k.create[i] : i \in 1 .. Len(k.create)})
    <3>1. k.create \in Seq({j.create[i] : i \in 1 .. Len(j.create)})
      <4>. DEFINE c == j.create
                  S == {j.create[i] : i \in 1 .. Len(j.create)}
      <4>1. c \in Seq(S) /\ Len(c) \in {1, 2}
        BY <1>5, <1>6 DEF IsJob
      <4>. HIDE DEF c, S
      <4>2. Tail(c) \in Seq(S)
        BY <4>1
      <4>. QED
        BY <1>4, <4>2 DEF c, S
    <3>. QED
      BY <3>1, ItsOwnElements
  <2>. QED
    BY <1>4, <1>5, <2>1, <2>2 DEF IsJob
<1>8. /\ ToCreate(k) \subseteq ToCreate(j)
      /\ x \in ToCreate(j)
      /\ \A y \in ToCreate(k) : y.id # x.id
  <2>1. ToCreate(j) = {j.create[i] : i \in 1 .. Len(j.create)} /\ 1 \in 1 .. Len(j.create)
    BY <1>2, <1>6 DEF ToCreate, j
  <2>2. \A y \in ToCreate(k) : \E i \in 2 .. Len(j.create) : y = j.create[i]
    BY <1>6 DEF ToCreate
  <2>3. \A i, m \in 1 .. Len(j.create) : i # m => j.create[i].id # j.create[m].id
    BY <1>2, <1>5 DEF Creates, j
  <2>. QED
    BY <2>1, <2>2, <2>3
<1>9. Creates(p, k)
  <2>1. \A y \in ToCreate(k) : NewRow(p, k.by, y)
    BY <1>4, <1>5, <1>8 DEF Creates
  <2>2. \A i, m \in 1 .. Len(k.create) : i # m => k.create[i].id # k.create[m].id
    BY <1>6
  <2>3. ASSUME NEW i \in 1 .. Len(k.create), Table(k.create[i]) = "user"
        PROVE  \E m \in (i + 1) .. Len(k.create) : IsRecordOf(k.create[m], k.create[i])
    <3>1. i + 1 \in 1 .. Len(j.create) /\ k.create[i] = j.create[i + 1] /\ i + 1 = 2
      BY <1>6
    <3>2. PICK m \in (i + 1 + 1) .. Len(j.create) : IsRecordOf(j.create[m], j.create[i + 1])
      BY <1>2, <1>5, <2>3, <3>1 DEF Creates, j
    <3>. QED
      BY <1>6, <3>1, <3>2
  <2>. QED
    BY <2>1, <2>2, <2>3 DEF Creates
<1>10. Holds(p, k)
  BY <1>2, <1>4, <1>5, <1>6 DEF Holds, j
<1>11. s.do = "insert" /\ s.new = x /\ stmt' = [stmt EXCEPT ![p] = s]
  BY <1>1, <1>6 DEF Insert, Issue, j
<1>12. StmtOK(p, k, s)
  <2>1. NewRow(p, k.by, x)
    BY <1>4, <1>5, <1>8 DEF Creates
  <2>2. ASSUME Table(x) = "user" PROVE \E a \in ToCreate(k) : IsRecordOf(a, x)
    <3>1. PICK m \in (1 + 1) .. Len(j.create) : IsRecordOf(j.create[m], j.create[1])
      BY <1>2, <1>5, <1>6, <2>2 DEF Creates, j
    <3>2. m = 2 /\ Len(j.create) = 2
      BY <1>6, <3>1
    <3>3. 1 \in 1 .. Len(k.create) /\ k.create[1] = j.create[2]
      BY <1>6, <3>2
    <3>. QED
      BY <1>6, <3>1, <3>2, <3>3 DEF ToCreate
  <2>. QED
    BY <1>8, <1>11, <2>1, <2>2 DEF StmtOK
<1>13. \A y \in ToCreate(k) : y.id = SettingsId \/ y.id \notin Ids(tx[p].adds)
  BY <1>2, <1>8 DEF Unused, j
<1>14. s.new.id[1] \in {"settings", "event"} \/ s.new.id \notin Ids(tx[p].adds)
  <2>1. x.id = SettingsId \/ x.id \notin Ids(tx[p].adds)
    BY <1>2, <1>8 DEF Unused, j
  <2>. QED
    BY <1>11, <2>1 DEF SettingsId
<1>15. Steps(k.todo) \cap {"begin", "check_in_use", "find_window"} = {}
  BY <1>2, <1>6 DEF j
<1>16. JobOK(p, k)
  BY <1>6, <1>7, <1>9, <1>10 DEF JobOK
<1>. HIDE DEF s
<1>. QED
  BY <1>1, <1>2, <1>3, <1>6, <1>11, <1>12, <1>13, <1>14, <1>15, <1>16, JobStep

\* A set of numbers that holds all smaller ones is an interval.
LEMMA Contiguous ==
    ASSUME NEW V, V \subseteq Nat \ {0}, IsFiniteSet(V), \A v \in V : 1 .. v \subseteq V
    PROVE  V = 1 .. Cardinality(V) /\ Cardinality(V) \in Nat
<1>. DEFINE N == Cardinality(V)
<1>1. N \in Nat
  BY FS_CardinalityType
<1>2. ASSUME NEW v \in V PROVE v \in 1 .. N
  <2>1. v \in Nat /\ v >= 1
    OBVIOUS
  <2>2. Cardinality(1 .. v) = v
    <3>1. Cardinality(1 .. v) = IF 1 > v THEN 0 ELSE v - 1 + 1
      BY <2>1, FS_Interval
    <3>. QED
      BY <2>1, <3>1
  <2>3. 1 .. v \in SUBSET V
    OBVIOUS
  <2>4. Cardinality(1 .. v) <= N
    BY <2>3, FS_Subset
  <2>. HIDE DEF N
  <2>. QED
    BY <1>1, <2>1, <2>2, <2>4
<1>3. IsFiniteSet(1 .. N) /\ Cardinality(1 .. N) = N
  <2>1. IsFiniteSet(1 .. N) /\ Cardinality(1 .. N) = IF 1 > N THEN 0 ELSE N - 1 + 1
    BY <1>1, FS_Interval
  <2>. HIDE DEF N
  <2>. QED
    BY <1>1, <2>1
<1>4. V \in SUBSET (1 .. N)
  BY <1>2
<1>5. 1 .. N = V
  BY <1>3, <1>4, FS_Subset
<1>. QED
  BY <1>1, <1>5

\* The versions of a template that are stored, and the latest of them.
LEMMA Latest ==
    ASSUME Discipline, NEW p \in Requests, View(p) = rows, NEW t \in rows, Table(t) = "template"
    PROVE  LET n == LatestVersion(p, t)
           IN  /\ n \in Nat
               /\ \A v \in 1 .. n : \E y \in rows :
                     Table(y) = "template" /\ y.name = t.name /\ y.org = t.org /\ y.version = v
<1>. DEFINE T == {y \in From("template", rows) : y.name = t.name /\ y.org = t.org}
            f == [y \in T |-> y.version]
            V == {y.version : y \in T}
            N == Cardinality(V)
<1>1. IsFiniteSet(T)
  <2>1. IsFiniteSet(rows) /\ T \in SUBSET rows
    BY DEF Discipline, RowsOK, From
  <2>. QED
    BY <2>1, FS_Subset
<1>2. IsFiniteSet(V)
  <2>1. f \in Surjection(T, V)
    BY DEF Surjection
  <2>. QED
    BY <1>1, <2>1, FS_Surjection
<1>3. V \subseteq Nat \ {0}
  BY DEF Discipline, RowsOK, IsRow, From
<1>4. ASSUME NEW v \in V PROVE 1 .. v \subseteq V
  <2>1. PICK y \in T : y.version = v
    OBVIOUS
  <2>2. HasEarlierVersions(y)
    BY DEF Discipline, RowsOK, Versions, From
  <2>. SUFFICES ASSUME NEW w \in 1 .. v PROVE w \in V
    OBVIOUS
  <2>3. CASE w = v
    BY <2>3
  <2>4. CASE w # v
    <3>1. v \in Nat \ {0}
      BY <1>3
    <3>2. w \in 1 .. (y.version - 1)
      BY <2>1, <2>4, <3>1
    <3>3. PICK z \in rows : Table(z) = "template" /\ z.name = y.name /\ z.org = y.org /\ z.version = w
      BY <2>2, <3>2 DEF HasEarlierVersions
    <3>. QED
      BY <3>3 DEF From
  <2>. QED
    BY <2>3, <2>4
<1>5. V = 1 .. N /\ N \in Nat
  BY <1>2, <1>3, <1>4, Contiguous
<1>6. t \in T
  BY DEF From
<1>7. LatestVersion(p, t) = CHOOSE v \in V : \A w \in V : w <= v
  BY DEF LatestVersion, Templates
<1>. HIDE DEF N
<1>8. V # {}
  BY <1>6
<1>. HIDE DEF V
<1>9. N \in V /\ \A w \in V : w <= N
  BY <1>5, <1>8
<1>10. \A v \in V : (\A w \in V : w <= v) => v = N
  BY <1>5, <1>9
<1>11. LatestVersion(p, t) = N
  BY <1>7, <1>9, <1>10
<1>12. \A v \in V : \E y \in T : y.version = v
  BY DEF V
<1>. QED
  BY <1>5, <1>11, <1>12 DEF From

\* A job that goes on with a plain script.
LEMMA PlainJob ==
    ASSUME NEW j, Plain(j.todo, j.create),
           j = [do |-> j.do, by |-> j.by, todo |-> j.todo,
                entity |-> j.entity, create |-> j.create, walk |-> j.walk],
           j.by = Nobody \/ WellFormed(j.by),
           j.create \in Seq({j.create[i] : i \in 1 .. Len(j.create)}),
           IsAdmin(j.by) => "commit" \notin Steps(j.todo)
    PROVE  IsJob(j) /\ Script(j) /\ Steps(j.todo) \cap Special = {} /\ j.todo # <<>>
<1>1. IsJob(j)
  BY DEF IsJob, Plain
<1>2. Steps(j.todo) \cap IngestSteps = {} /\ Steps(j.todo) \cap PageSteps = {}
  BY DEF Plain, Special
<1>3. "begin" \notin Steps(j.todo) /\ "retire" \notin Steps(j.todo)
  BY DEF Plain, Special
<1>4. Script(j)
  BY <1>2, <1>3 DEF Script, Plain
<1>. QED
  BY <1>1, <1>4 DEF Plain

\* A job whose read has decided how it goes on.
LEMMA Replanned ==
    ASSUME Discipline, NEW p \in Requests, NEW a, At(p, a), a # "begin",
           NEW create, NEW todo, Plain(todo, create),
           job' = [job EXCEPT ![p].create = create, ![p].todo = todo],
           UNCHANGED <<rows, tx, stmt, shown>>,
           create \in Seq({create[i] : i \in 1 .. Len(create)}),
           IsAdmin(job[p].by) => "commit" \notin Steps(todo),
           Steps(todo) \subseteq {"insert", "flush", "commit", Logging},
           "flush" \in Steps(todo) => Edited(job[p].by, job[p].entity),
           "insert" \in Steps(todo) =>
              \E x : /\ create = <<x>> /\ NewRow(p, job[p].by, x) /\ Table(x) # "user"
                     /\ x.id \notin Ids(tx[p].adds)
    PROVE  Discipline' /\ Grows(p)
<1>. DEFINE j == job[p]
            k == [do |-> j.do, by |-> j.by, todo |-> todo, entity |-> j.entity,
                  create |-> create, walk |-> j.walk]
<1>1. JobOK(p, j) /\ ~Ended(p) /\ stmt[p] = NoStmt
  BY HeadOfJob
<1>2. job' = [job EXCEPT ![p] = k]
  <2>1. /\ DOMAIN job = Requests /\ job = [r \in Requests |-> job[r]]
        /\ job[p] = [do |-> job[p].do, by |-> job[p].by, todo |-> job[p].todo, entity |-> job[p].entity,
                     create |-> job[p].create, walk |-> job[p].walk]
    BY DEF Discipline, Shapes, JobOK, IsJob
  <2>. DEFINE h == [job[p] EXCEPT !.create = create]
  <2>2. h = [do |-> j.do, by |-> j.by, todo |-> j.todo, entity |-> j.entity,
             create |-> create, walk |-> j.walk]
    BY <2>1, JobRecord
  <2>3. job' = [job EXCEPT ![p] = [h EXCEPT !.todo = todo]]
    BY <2>1
  <2>. HIDE DEF h
  <2>4. /\ h.do = j.do /\ h.by = j.by /\ h.create = create /\ h.entity = j.entity /\ h.walk = j.walk
        /\ h = [do |-> h.do, by |-> h.by, todo |-> h.todo, entity |-> h.entity,
                create |-> h.create, walk |-> h.walk]
    BY <2>2
  <2>5. [h EXCEPT !.todo = todo] =
            [do |-> h.do, by |-> h.by, todo |-> todo, entity |-> h.entity,
             create |-> h.create, walk |-> h.walk]
    BY <2>4, JobRecord
  <2>6. [h EXCEPT !.todo = todo] = k
    BY <2>4, <2>5
  <2>. QED
    BY <2>3, <2>6
<1>3. /\ k = [do |-> k.do, by |-> k.by, todo |-> k.todo, entity |-> k.entity,
              create |-> k.create, walk |-> k.walk]
      /\ k.do = j.do /\ k.by = j.by /\ k.todo = todo /\ k.create = create /\ k.entity = j.entity
  OBVIOUS
<1>. HIDE DEF k
<1>4. IsJob(k) /\ Script(k) /\ Steps(k.todo) \cap Special = {} /\ k.todo # <<>>
  <2>1. j.by = Nobody \/ WellFormed(j.by)
    BY <1>1 DEF JobOK, IsJob
  <2>. QED
    BY <1>3, <2>1, PlainJob
<1>5. Creates(p, k) /\ \A x \in ToCreate(k) : x.id \notin Ids(tx[p].adds)
  <2>1. CASE "insert" \in Steps(todo)
    <3>1. PICK x : /\ create = <<x>> /\ NewRow(p, j.by, x) /\ Table(x) # "user"
                   /\ x.id \notin Ids(tx[p].adds)
      BY <2>1
    <3>2. Len(create) = 1 /\ create[1] = x
      BY <3>1
    <3>3. ToCreate(k) = {x}
      BY <1>3, <2>1, <3>2 DEF ToCreate
    <3>. QED
      BY <1>3, <3>1, <3>2, <3>3 DEF Creates
  <2>2. CASE "insert" \notin Steps(todo)
    BY <1>3, <2>2 DEF Creates, ToCreate
  <2>. QED
    BY <2>1, <2>2
<1>6. Holds(p, k)
  BY <1>1, <1>3 DEF JobOK, Holds, Logging
<1>7. Steps(k.todo) \cap {"begin", "check_in_use", "find_window"} = {}
  BY <1>3 DEF Logging
<1>8. stmt' = [stmt EXCEPT ![p] = NoStmt] /\ NoStmt.do # "insert"
  BY <1>1 DEF Discipline, Shapes, NoStmt
<1>9. JobOK(p, k)
  BY <1>4, <1>5, <1>6 DEF JobOK
<1>. QED
  BY <1>1, <1>2, <1>4, <1>5, <1>7, <1>8, <1>9, NothingToDo, JobStep

LEMMA CheckInUseStep ==
    ASSUME Discipline, NEW p \in Requests, CheckInUse(p)
    PROVE  Discipline' /\ Grows(p)
<1>. DEFINE t == job[p].entity
            n == LatestVersion(p, t)
            x == NewVersion(p, t, n + 1)
            inUse == \E s \in From("submission", View(p)) : s.template = t.id
<1>1. /\ At(p, "check_in_use") /\ UNCHANGED <<rows, tx, stmt, shown>>
      /\ job' = [job EXCEPT ![p].create = IF inUse THEN <<x>> ELSE <<>>,
                            ![p].todo = <<IF inUse THEN "insert" ELSE "flush", Logging>>]
  BY DEF CheckInUse, dbVars, Logging
<1>2. /\ "check_in_use" \in Steps(job[p].todo) /\ JobOK(p, job[p]) /\ TxOK(p)
  BY <1>1, HeadOfJob
<1>3. Edited(job[p].by, t) /\ Table(t) = "template"
  BY <1>2 DEF JobOK, Holds
<1>4. tx[p] = NoTx
  BY <1>2 DEF TxOK
<1>5. View(p) = rows /\ Ids(tx[p].adds) = {}
  <2>1. NoTx.adds = {} /\ NoTx.gone = {}
    BY DEF NoTx
  <2>. QED
    BY <1>4, <2>1 DEF View, Ids
<1>6. PICK y \in rows : y.id = t.id
  BY <1>3 DEF Edited
<1>7. Table(y) = "template" /\ y.name = t.name /\ y.org = t.org
  <2>1. Agree(y, t) /\ Table(y) = "template"
    BY <1>3, <1>6 DEF Edited, Versions, Table
  <2>. QED
    BY <2>1, FrozenColumns DEF Agree
<1>8. LatestVersion(p, y) = n
  BY <1>7 DEF LatestVersion
<1>9. /\ n \in Nat
      /\ \A v \in 1 .. n : \E z \in rows :
            Table(z) = "template" /\ z.name = t.name /\ z.org = t.org /\ z.version = v
  BY <1>5, <1>7, <1>8, Latest
<1>10. /\ DOMAIN t = Columns["template"] /\ "id" \in DOMAIN t /\ "version" \in DOMAIN t
       /\ Table(t) \in Tables
  BY <1>3 DEF Edited, IsRow, Columns, TemplateColumns, Tables
<1>. HIDE DEF n
<1>11. /\ x.id = <<"template", p>> /\ DOMAIN x = Columns["template"] /\ x.version = n + 1
       /\ x.name = t.name /\ x.org = t.org
  BY <1>10 DEF NewVersion, Columns, TemplateColumns
<1>. HIDE DEF x
<1>12. Table(x) = "template" /\ p # "none" /\ x.id[2] = p
  BY <1>11, NamesAssumption DEF Table
<1>13. IsRow(x)
  BY <1>9, <1>10, <1>11, <1>12, TableNames DEF IsRow, Tables
<1>14. HasEarlierVersions(x)
  <2>1. \A v \in 1 .. ((n + 1) - 1) : v \in 1 .. n
    BY <1>9
  <2>. QED
    BY <1>9, <1>11, <2>1 DEF HasEarlierVersions
<1>15. NewRow(p, job[p].by, x)
  BY <1>3, <1>11, <1>12, <1>13, <1>14 DEF NewRow, Edited, Personal
<1>. HIDE DEF inUse
<1>16. CASE inUse
  <2>1. Plain(<<"insert", Logging>>, <<x>>) /\ Steps(<<"insert", Logging>>) = {"insert", Logging}
    BY PlainInsert DEF Late
  <2>2. job' = [job EXCEPT ![p].create = <<x>>, ![p].todo = <<"insert", Logging>>]
    BY <1>1, <1>16
  <2>3. "flush" # Logging /\ "commit" # Logging
    BY DEF Logging
  <2>4. <<x>> \in Seq({<<x>>[i] : i \in 1 .. Len(<<x>>)})
    BY SeqOfItself
  <2>. DEFINE todo == <<"insert", Logging>>
              create == <<x>>
  <2>5. \E z : create = <<z>> /\ NewRow(p, job[p].by, z) /\ Table(z) # "user" /\ z.id \notin Ids(tx[p].adds)
    BY <1>5, <1>12, <1>15
  <2>. HIDE DEF todo, create
  <2>. QED
    BY <1>1, <2>1, <2>2, <2>3, <2>4, <2>5, Replanned DEF todo, create
<1>17. CASE ~inUse
  <2>1. Plain(<<"flush", Logging>>, <<>>) /\ Steps(<<"flush", Logging>>) = {"flush", Logging}
    BY EditScripts
  <2>2. job' = [job EXCEPT ![p].create = <<>>, ![p].todo = <<"flush", Logging>>]
    BY <1>1, <1>17
  <2>3. "insert" # Logging /\ "commit" # Logging
    BY DEF Logging
  <2>4. <<>> \in Seq({<<>>[i] : i \in 1 .. Len(<<>>)})
    BY SeqOfItself
  <2>. DEFINE todo == <<"flush", Logging>>
              create == <<>>
  <2>. HIDE DEF todo, create
  <2>. QED
    BY <1>1, <1>3, <2>1, <2>2, <2>3, <2>4, Replanned DEF todo, create
<1>. QED
  BY <1>16, <1>17

LEMMA FindWindowStep ==
    ASSUME Discipline, NEW p \in Requests, FindWindow(p)
    PROVE  Discipline' /\ Grows(p)
<1>. DEFINE e == job[p].entity
            X(w) == [id |-> <<"submission", p>>, window |-> w.id, template |-> e.id, text |-> e.text]
<1>1. At(p, "find_window") /\ UNCHANGED shown
  BY DEF FindWindow
<1>2. /\ "find_window" \in Steps(job[p].todo) /\ JobOK(p, job[p]) /\ TxOK(p) /\ ~Ended(p)
      /\ Steps(job[p].todo) \cap {"begin", "check_in_use"} = {}
  BY <1>1, HeadOfJob
<1>3. <<e.id, e.text>> \in shown /\ ~IsAdmin(job[p].by)
  BY <1>2 DEF JobOK, Holds
<1>4. CASE Fail(p) /\ UNCHANGED job
  BY <1>1, <1>2, <1>4, FailStep
<1>5. CASE ~(Fail(p) /\ UNCHANGED job)
  <2>1. PICK w \in From("window", View(p)) :
          /\ job' = [job EXCEPT ![p].create = <<X(w)>>, ![p].todo = <<"insert", "commit">>]
          /\ UNCHANGED dbVars
    BY <1>5 DEF FindWindow
  <2>. DEFINE x == X(w)
  <2>2. /\ x.id = <<"submission", p>> /\ DOMAIN x = Columns["submission"] /\ x.window = w.id
        /\ x.template = e.id /\ x.text = e.text
    BY DEF Columns
  <2>3. w.id[1] = "window"
    BY DEF From, Table
  <2>4. job' = [job EXCEPT ![p].create = <<x>>, ![p].todo = <<"insert", "commit">>]
    BY <2>1
  <2>. HIDE DEF x, e
  <2>5. Table(x) = "submission" /\ p # "none" /\ x.id[2] = p
    BY <2>2, NamesAssumption DEF Table
  <2>6. IsRow(x)
    BY <2>2, <2>3, <2>5, TableNames DEF IsRow, Tables
  <2>7. NewRow(p, job[p].by, x)
    BY <1>3, <2>2, <2>5, <2>6 DEF NewRow, Tenant, Personal
  <2>8. x.id \notin Ids(tx[p].adds)
    <3>1. tx[p] = NoTx /\ NoTx.adds = {}
      BY <1>2 DEF TxOK, NoTx
    <3>. QED
      BY <3>1 DEF Ids
  <2>9. Plain(<<"insert", "commit">>, <<x>>) /\ Steps(<<"insert", "commit">>) = {"insert", "commit"}
    BY PlainInsert DEF Late
  <2>10. <<x>> \in Seq({<<x>>[i] : i \in 1 .. Len(<<x>>)})
    BY SeqOfItself
  <2>. DEFINE todo == <<"insert", "commit">>
              create == <<x>>
  <2>11. \E z : create = <<z>> /\ NewRow(p, job[p].by, z) /\ Table(z) # "user" /\ z.id \notin Ids(tx[p].adds)
    BY <2>5, <2>7, <2>8
  <2>12. UNCHANGED <<rows, tx, stmt, shown>>
    BY <1>1, <2>1 DEF dbVars
  <2>. HIDE DEF todo, create
  <2>. QED
    BY <1>1, <1>3, <2>4, <2>9, <2>10, <2>11, <2>12, Replanned DEF todo, create
<1>. QED
  BY <1>4, <1>5

-----------------------------------------------------------------------------
(***************************************************************************)
(* The steps of proctoring.                                                *)
(***************************************************************************)
\* A batch goes on: with the same event, with the next one, or with the commit.
LEMMA IngestGoesOn ==
    ASSUME Discipline, NEW p \in Requests, NEW a \in IngestSteps, At(p, a),
           NEW k, k.do = job[p].do, k.by = job[p].by, k.entity = job[p].entity,
           k = [do |-> k.do, by |-> k.by, todo |-> k.todo,
                entity |-> k.entity, create |-> k.create, walk |-> k.walk],
           \/ k.create = job[p].create /\ k.todo \in {<<"record">>, <<"compute">>}
           \/ k.create = Tail(job[p].create) /\ k.todo = ThenNext(p)
    PROVE  JobOK(p, k) /\ ToCreate(k) = {} /\ k.todo # <<>>
           /\ Steps(k.todo) \cap {"begin", "check_in_use", "find_window"} = {}
<1>. DEFINE c == job[p].create
            S == [kind : DOMAIN Rules, time : Int]
<1>1. JobOK(p, job[p]) /\ a \in Steps(job[p].todo)
  BY HeadOfJob
<1>2. c \in Seq(S) \ {<<>>} /\ ~IsAdmin(job[p].by) /\ (k.by = Nobody \/ WellFormed(k.by))
  BY <1>1 DEF JobOK, Script, IsJob
<1>3. \A b \in IngestSteps : <<b>> \in Seq(StepNames) /\ <<b>> # <<>>
  BY TupleOf1 DEF StepNames
<1>4. ASSUME NEW b \in IngestSteps, k.todo = <<b>>, k.create \in Seq(S) \ {<<>>}
      PROVE  JobOK(p, k) /\ ToCreate(k) = {} /\ k.todo # <<>>
             /\ Steps(k.todo) \cap {"begin", "check_in_use", "find_window"} = {}
  <2>1. k.create \in Seq({k.create[i] : i \in 1 .. Len(k.create)})
    BY <1>4, ItsOwnElements
  <2>2. IsJob(k)
    BY <1>2, <1>3, <1>4, <2>1 DEF IsJob
  <2>3. JobOK(p, k) /\ Steps(k.todo) = {b} /\ ToCreate(k) = {}
    BY <1>2, <1>4, <2>2, TakingEvents
  <2>. QED
    BY <1>3, <1>4, <2>3 DEF IngestSteps
<1>5. CASE k.create = c /\ k.todo \in {<<"record">>, <<"compute">>}
  BY <1>2, <1>4, <1>5 DEF IngestSteps
<1>6. CASE k.create = Tail(c) /\ k.todo = ThenNext(p)
  <2>1. Tail(c) \in Seq(S) /\ Len(c) \in Nat /\ Len(c) >= 1 /\ Len(Tail(c)) = Len(c) - 1
    BY <1>2
  <2>2. CASE Len(c) = 1
    <3>1. k.todo = <<"commit">>
      BY <1>6, <2>2 DEF ThenNext
    <3>2. k.create = <<>>
      BY <1>6, <2>1, <2>2
    <3>3. Plain(k.todo, k.create) /\ Steps(k.todo) = {"commit"}
      BY <3>1, <3>2, PlainOne DEF Late
    <3>4. k.create \in Seq({k.create[i] : i \in 1 .. Len(k.create)})
      BY <3>2, SeqOfItself
    <3>5. IsJob(k) /\ Script(k) /\ k.todo # <<>>
      BY <1>2, <3>3, <3>4, PlainJob
    <3>6. ToCreate(k) = {} /\ Creates(p, k)
      BY <3>3 DEF ToCreate, Creates
    <3>7. Holds(p, k)
      BY <1>2, <3>3 DEF Holds, Tenant
    <3>. QED
      BY <3>3, <3>5, <3>6, <3>7 DEF JobOK
  <2>3. CASE Len(c) # 1
    <3>1. k.todo = <<"take_event">> /\ "take_event" \in IngestSteps
      BY <1>6, <2>3 DEF ThenNext, IngestSteps
    <3>2. Tail(c) # <<>>
      <4>. DEFINE d == Tail(c)
                  m == Len(c)
      <4>1. d \in Seq(S) /\ Len(d) = m - 1 /\ m \in Nat /\ m >= 1 /\ m # 1
        BY <2>1, <2>3
      <4>. HIDE DEF d, m
      <4>2. Len(d) # 0
        BY <4>1
      <4>3. d # <<>>
        BY <4>2
      <4>. QED
        BY <4>3 DEF d
    <3>. QED
      BY <1>4, <1>6, <2>1, <3>1, <3>2
  <2>. QED
    BY <2>2, <2>3
<1>. QED
  BY <1>5, <1>6

\* The rows that events are stored as.
LEMMA EventRow ==
    ASSUME NEW p \in Requests, NEW e, NEW n
    PROVE  /\ NewEventRow(p, NewEvent(p, e, n)) /\ Table(NewEvent(p, e, n)) = "event"
           /\ NewEvent(p, e, n).id[1] = "event"
<1>. DEFINE x == NewEvent(p, e, n)
<1>1. x.id = <<"event", p, n>> /\ DOMAIN x = Columns["event"]
  BY DEF NewEvent, Columns, EventColumns
<1>. HIDE DEF x
<1>2. Table(x) = "event" /\ x.id[2] = p /\ p # "none" /\ x.id[1] = "event"
  BY <1>1, NamesAssumption DEF Table
<1>3. IsRow(x)
  BY <1>1, <1>2, TableNames DEF IsRow, Tables
<1>4. NewEventRow(p, x)
  BY <1>2, <1>3 DEF NewEventRow
<1>. QED
  BY <1>2, <1>4 DEF x

LEMMA IngestStep ==
    ASSUME Discipline, NEW p \in Requests,
           IgnoreDuplicate(p) \/ StoreEvent(p) \/ RecordFingerprint(p) \/ ComputeRisk(p)
    PROVE  Discipline' /\ Grows(p)
<1>. DEFINE j == job[p]
            Shifted(t) == [do |-> j.do, by |-> j.by, todo |-> t, entity |-> j.entity,
                           create |-> Tail(j.create), walk |-> j.walk]
            Going(t)   == [do |-> j.do, by |-> j.by, todo |-> t, entity |-> j.entity,
                           create |-> j.create, walk |-> j.walk]
<1>a. /\ DOMAIN job = Requests /\ job = [r \in Requests |-> job[r]]
      /\ j = [do |-> j.do, by |-> j.by, todo |-> j.todo, entity |-> j.entity,
              create |-> j.create, walk |-> j.walk]
  BY DEF Discipline, Shapes, JobOK, IsJob
<1>b. \A t : [j EXCEPT !.todo = t] = Going(t)
  BY <1>a, JobRecord
<1>c. \A t : job' = [job EXCEPT ![p].create = Tail(@), ![p].todo = t] => job' = [job EXCEPT ![p] = Shifted(t)]
  <2>. SUFFICES ASSUME NEW t, job' = [job EXCEPT ![p].create = Tail(@), ![p].todo = t]
                PROVE  job' = [job EXCEPT ![p] = Shifted(t)]
    OBVIOUS
  <2>. DEFINE h == [j EXCEPT !.create = Tail(j.create)]
  <2>1. h = [do |-> j.do, by |-> j.by, todo |-> j.todo, entity |-> j.entity,
             create |-> Tail(j.create), walk |-> j.walk]
    BY <1>a, JobRecord
  <2>2. job' = [job EXCEPT ![p] = [h EXCEPT !.todo = t]]
    BY <1>a
  <2>. HIDE DEF h
  <2>3. /\ h.do = j.do /\ h.by = j.by /\ h.create = Tail(j.create) /\ h.entity = j.entity /\ h.walk = j.walk
        /\ h = [do |-> h.do, by |-> h.by, todo |-> h.todo, entity |-> h.entity,
                create |-> h.create, walk |-> h.walk]
    BY <2>1
  <2>4. [h EXCEPT !.todo = t] = [do |-> h.do, by |-> h.by, todo |-> t, entity |-> h.entity,
                                 create |-> h.create, walk |-> h.walk]
    BY <2>3, JobRecord
  <2>5. [h EXCEPT !.todo = t] = Shifted(t)
    BY <2>3, <2>4
  <2>. QED
    BY <2>2, <2>5
<1>d. \A t : /\ Shifted(t).do = j.do /\ Shifted(t).by = j.by /\ Shifted(t).todo = t
             /\ Shifted(t).entity = j.entity /\ Shifted(t).create = Tail(j.create)
             /\ Shifted(t).walk = j.walk
             /\ Going(t).do = j.do /\ Going(t).by = j.by /\ Going(t).todo = t
             /\ Going(t).entity = j.entity /\ Going(t).create = j.create
             /\ Going(t).walk = j.walk
  OBVIOUS
<1>e. \A t : /\ Shifted(t) = [do |-> Shifted(t).do, by |-> Shifted(t).by, todo |-> Shifted(t).todo,
                 entity |-> Shifted(t).entity, create |-> Shifted(t).create, walk |-> Shifted(t).walk]
             /\ Going(t) = [do |-> Going(t).do, by |-> Going(t).by, todo |-> Going(t).todo,
                 entity |-> Going(t).entity, create |-> Going(t).create, walk |-> Going(t).walk]
  BY <1>d
<1>1. PICK a \in IngestSteps : At(p, a)
  BY DEF IgnoreDuplicate, StoreEvent, RecordFingerprint, ComputeRisk, IngestSteps
<1>2. ~Ended(p) /\ stmt[p] = NoStmt /\ DOMAIN stmt = Requests /\ ~IsAdmin(j.by)
  <2>1. a \in Steps(j.todo) /\ JobOK(p, j) /\ ~Ended(p) /\ stmt[p] = NoStmt
    BY <1>1, HeadOfJob
  <2>2. ~IsAdmin(j.by)
    BY <2>1 DEF JobOK, Script
  <2>. QED
    BY <2>1, <2>2 DEF Discipline, Shapes
<1>3. UNCHANGED <<rows, tx, shown>>
  BY DEF IgnoreDuplicate, StoreEvent, RecordFingerprint, ComputeRisk, dbVars
<1>4. NoStmt.do # "insert"
  BY DEF NoStmt
<1>. HIDE DEF Shifted, Going
\* The two shapes of a step: what is next, with a statement.
<1>5. ASSUME NEW k, k \in {Shifted(ThenNext(p)), Going(<<"record">>), Going(<<"compute">>)},
             job' = [job EXCEPT ![p] = k],
             NEW s, stmt' = [stmt EXCEPT ![p] = s], StmtOK(p, k, s),
             s.do = "insert" => s.new.id[1] \in {"settings", "event"}
      PROVE  Discipline' /\ Grows(p)
  <2>1. /\ k.do = job[p].do /\ k.by = job[p].by /\ k.entity = job[p].entity
        /\ k = [do |-> k.do, by |-> k.by, todo |-> k.todo,
                entity |-> k.entity, create |-> k.create, walk |-> k.walk]
        /\ \/ k.create = job[p].create /\ k.todo \in {<<"record">>, <<"compute">>}
           \/ k.create = Tail(job[p].create) /\ k.todo = ThenNext(p)
    BY <1>5, <1>d, <1>e
  <2>2. JobOK(p, k) /\ ToCreate(k) = {} /\ k.todo # <<>>
        /\ Steps(k.todo) \cap {"begin", "check_in_use", "find_window"} = {}
    BY <1>1, <2>1, IngestGoesOn
  <2>. QED
    BY <1>2, <1>3, <1>5, <2>2, JobStep
<1>6. CASE IgnoreDuplicate(p)
  <2>1. job' = [job EXCEPT ![p] = Shifted(ThenNext(p))] /\ UNCHANGED stmt
    BY <1>6, <1>c DEF IgnoreDuplicate, dbVars
  <2>2. stmt' = [stmt EXCEPT ![p] = NoStmt]
    BY <1>2, <2>1 DEF Discipline, Shapes
  <2>. QED
    BY <1>4, <1>5, <2>1, <2>2, NothingToDo
<1>7. CASE StoreEvent(p)
  <2>. DEFINE e == Head(job[p].create)
              n == Len(job[p].create)
              s == Insert(NewEvent(p, e, n))
              k == Going(<<"record">>)
  <2>1. job' = [job EXCEPT ![p] = k] /\ stmt' = [stmt EXCEPT ![p] = s] /\ At(p, "take_event")
    BY <1>7, <1>b DEF StoreEvent, Issue
  <2>2. s.do = "insert" /\ s.new = NewEvent(p, e, n)
    BY DEF Insert
  <2>. HIDE DEF s, k, e, n
  <2>3. k.by = j.by
    BY <1>d DEF k
  <2>4. ToCreate(k) = {}
    <3>1. Steps(k.todo) = {"record"}
      BY <1>d, TupleOf1 DEF k, Steps
    <3>. QED
      BY <3>1 DEF ToCreate
  <2>5. NewEventRow(p, s.new) /\ Table(s.new) = "event" /\ s.new.id[1] = "event"
    BY <1>2, <2>2, <2>3, EventRow
  <2>6. StmtOK(p, k, s)
    BY <2>2, <2>4, <2>5 DEF StmtOK
  <2>. QED
    BY <1>5, <2>1, <2>2, <2>5, <2>6 DEF k
<1>8. CASE RecordFingerprint(p)
  <2>1. job' = [job EXCEPT ![p] = Going(<<"compute">>)] /\ UNCHANGED stmt
    BY <1>8, <1>b DEF RecordFingerprint, dbVars
  <2>2. stmt' = [stmt EXCEPT ![p] = NoStmt]
    BY <1>2, <2>1 DEF Discipline, Shapes
  <2>. QED
    BY <1>4, <1>5, <2>1, <2>2, NothingToDo
<1>9. CASE ComputeRisk(p)
  <2>. DEFINE s == Update({RiskId}, RiskOf(Events(p)))
  <2>1. job' = [job EXCEPT ![p] = Shifted(ThenNext(p))] /\ stmt' = [stmt EXCEPT ![p] = s]
    BY <1>9, <1>c DEF ComputeRisk, Compute, Issue
  <2>2. s.do # "insert"
    BY DEF Update
  <2>3. \A k : StmtOK(p, k, s)
    BY RiskWritten
  <2>. HIDE DEF s
  <2>. QED
    BY <1>5, <2>1, <2>2, <2>3
<1>. QED
  BY <1>6, <1>7, <1>8, <1>9

LEMMA QueueReads ==
    ASSUME Discipline, NEW p \in Requests, ListFlagged(p) \/ CountEvents(p)
    PROVE  \E a \in PageSteps : \E e :
              At(p, a) /\ job' = [job EXCEPT ![p] = Passed(p, e, job[p].walk)] /\ UNCHANGED <<rows, tx, stmt, shown>>
<1>. DEFINE t == Tail(job[p].todo)
            J(e) == [job EXCEPT ![p] = [[job[p] EXCEPT !.todo = t] EXCEPT !.entity = e]]
<1>a. /\ DOMAIN job = Requests /\ job = [r \in Requests |-> job[r]]
      /\ job[p] = [do |-> job[p].do, by |-> job[p].by, todo |-> job[p].todo, entity |-> job[p].entity,
                   create |-> job[p].create, walk |-> job[p].walk]
  BY DEF Discipline, Shapes, JobOK, IsJob
<1>b. \A e : [[job[p] EXCEPT !.entity = e] EXCEPT !.todo = t] = [[job[p] EXCEPT !.todo = t] EXCEPT !.entity = e]
  BY <1>a
<1>c. \A e : job' = [job EXCEPT ![p].entity = e, ![p].todo = Tail(@)] => job' = J(e)
  BY <1>a, <1>b
<1>1. \E e : job' = J(e)
  <2>1. ASSUME ListFlagged(p) PROVE \E e : job' = [job EXCEPT ![p].entity = e, ![p].todo = Tail(@)]
    BY <2>1 DEF ListFlagged
  <2>2. ASSUME CountEvents(p) PROVE \E e : job' = [job EXCEPT ![p].entity = e, ![p].todo = Tail(@)]
    <3>1. job' = [job EXCEPT ![p].entity = [counted |-> {<<x.id, Cardinality(Events(p))>> : x \in job[p].entity.flagged}],
                             ![p].todo = Tail(@)]
      BY <2>2, <1>a DEF CountEvents
    <3>. QED
      BY <3>1
  <2>. HIDE DEF J
  <2>. QED
    BY <1>c, <2>1, <2>2
<1>2. \E a \in PageSteps : At(p, a) /\ UNCHANGED <<rows, tx, stmt, shown>>
  BY DEF ListFlagged, CountEvents, PageSteps, dbVars
<1>3. PICK e : job' = J(e)
  BY <1>1
<1>4. PICK a \in PageSteps : At(p, a) /\ UNCHANGED <<rows, tx, stmt, shown>>
  BY <1>2
<1>5. job' = [job EXCEPT ![p] = Passed(p, e, job[p].walk)]
  BY <1>3, EntityRead
<1>. QED
  BY <1>4, <1>5

LEMMA QueueStep ==
    ASSUME Discipline, NEW p \in Requests, ListFlagged(p) \/ CountEvents(p)
    PROVE  Discipline' /\ Grows(p)
BY QueueReads, PageStepsRead, ReadStep

-----------------------------------------------------------------------------
(***************************************************************************)
(* What statements do.                                                     *)
(***************************************************************************)
\* p's row versions that may stand beside all others.
Fits(p, x) ==
    /\ IsRow(x) /\ Known(p, x.id) /\ Table(x) # "audit"
    /\ Table(x) = "candidate" => Known(p, x.user)
    /\ \A y \in Versions : y.id = x.id => Agree(x, y) /\ Agree(y, x)
    /\ Agree(x, x)
    /\ \/ \E y \in Versions : y.id = x.id /\ Agree(y, x)
       \/ x.id[2] = p
       \/ Table(x) = "settings"
    /\ Table(x) = "override" => IsBase(x.base)
    /\ Table(x) = "submission" => <<x.template, x.text>> \in shown
    /\ Table(x) = "template" => HasEarlierVersions(x)

LEMMA Executing ==
    ASSUME Discipline, NEW p \in Requests, stmt[p].do \in {"insert", "update", "delete"}
    PROVE  /\ ~Ended(p) /\ Steps(job[p].todo) \cap {"begin", "check_in_use", "find_window"} = {}
           /\ \A x \in rows : x.id[2] # p
           /\ \A q \in Requests \ {p} : \A x \in tx[q].adds : x.id[2] # p
           /\ \A q \in Requests \ {p} : \A x \in tx[q].adds : Table(x) = "candidate" => x.user[2] # p
           /\ \A x \in rows : Table(x) = "candidate" => x.user[2] # p
<1>1. stmt[p] # NoStmt
  BY DEF NoStmt
<1>2. ~Ended(p) /\ Steps(job[p].todo) \cap {"begin", "check_in_use", "find_window"} = {}
  <2>1. Ended(p) \/ Steps(job[p].todo) \cap {"begin", "check_in_use"} # {} => stmt[p] = NoStmt
    BY DEF Discipline, TxOK
  <2>2. "find_window" \in Steps(job[p].todo) => stmt[p].do \in {"none", "failed"}
    BY DEF Discipline, TxOK
  <2>. QED
    BY <1>1, <2>1, <2>2
<1>3. \A x \in rows : x.id[2] # p /\ (Table(x) = "candidate" => x.user[2] # p)
  BY <1>2 DEF Discipline, RowsOK, Settled
<1>4. ASSUME NEW q \in Requests \ {p}, NEW x \in tx[q].adds
      PROVE  x.id[2] # p /\ (Table(x) = "candidate" => x.user[2] # p)
  <2>1. TxOK(q)
    BY DEF Discipline
  <2>2. Known(q, x.id) /\ (Table(x) = "candidate" => Known(q, x.user))
    BY <2>1 DEF TxOK
  <2>. QED
    BY <1>2, <2>2 DEF Known
<1>. QED
  BY <1>2, <1>3, <1>4

LEMMA WriteStep ==
    ASSUME Discipline, NEW p \in Requests, stmt[p].do \in {"insert", "update", "delete"},
           NEW removed, NEW added, NEW s,
           Write(p, removed, added), Issue(p, s), UNCHANGED <<rows, job, shown>>,
           IsFiniteSet(added), \A x \in added : Fits(p, x),
           \A x, y \in added : x.id = y.id => Agree(x, y),
           \A id \in removed : /\ id[1] \in Tables /\ (id[1] \in Deletable \/ Mutable[id[1]] # {})
                               /\ id[1] \in Deletable \/ id \in Ids(added),
           \A x \in ToCreate(job[p]) : x.id = SettingsId \/ x.id \notin Ids(added),
           s.do \in {"none", "delete"}, StmtOK(p, job[p], s)
    PROVE  Discipline' /\ Grows(p)
<1>1. Shapes /\ RowsOK /\ JobOK(p, job[p]) /\ TxOK(p) /\ Unused(p)
  BY DEF Discipline
<1>2. /\ stmt'[p] = s /\ job' = job
      /\ tx'[p] = [adds |-> {x \in tx[p].adds : x.id \notin removed} \cup added,
                   gone |-> tx[p].gone \cup removed]
      /\ \A r \in Requests : r # p => job'[r] = job[r] /\ stmt'[r] = stmt[r] /\ tx'[r] = tx[r]
  BY <1>1 DEF Shapes, Write, Issue
<1>3. ~Ended(p) /\ Steps(job[p].todo) \cap {"begin", "check_in_use", "find_window"} = {}
  BY Executing
<1>4. Shapes'
  BY <1>1 DEF Shapes, Write, Issue
<1>5. \A y \in Versions' : y \in Versions \/ y \in added
  BY <1>2 DEF Versions
<1>6. \A x \in Versions : Agree(x, x)
  BY DEF Agree
<1>7. Grows(p)
  <2>1. \A q : Ended(q)' <=> Ended(q)
    BY <1>2 DEF Ended
  <2>2. \A y \in Versions' :
          \/ \E x \in Versions : x.id = y.id /\ Agree(x, y)
          \/ y.id[2] = p /\ ~Ended(p)
          \/ Table(y) = "settings"
    BY <1>3, <1>5, <1>6 DEF Fits
  <2>3. \A y \in rows : \E z \in rows' : z.id = y.id /\ Agree(z, y)
    BY <1>6 DEF Versions
  <2>. QED
    BY <2>1, <2>2, <2>3 DEF Grows
<1>8. /\ \A id : IsBase(id)' <=> IsBase(id)
      /\ \A x : HasEarlierVersions(x)' <=> HasEarlierVersions(x)
      /\ \A r, id : Known(r, id)' <=> Known(r, id)
      /\ \A id : Settled(id)' <=> Settled(id)
  BY <1>2 DEF IsBase, HasEarlierVersions, Known, Settled, Ended
<1>9. RowsOK'
  <2>1. \A x, y \in Versions' : x.id = y.id => Agree(x, y)
    <3>. SUFFICES ASSUME NEW x \in Versions', NEW y \in Versions', x.id = y.id PROVE Agree(x, y)
      OBVIOUS
    <3>1. CASE x \in Versions /\ y \in Versions
      BY <1>1, <3>1 DEF RowsOK
    <3>2. CASE x \in added /\ y \in Versions
      BY <3>2 DEF Fits
    <3>3. CASE x \in Versions /\ y \in added
      BY <3>3 DEF Fits
    <3>4. CASE x \in added /\ y \in added
      BY <3>4 DEF Fits
    <3>. QED
      BY <1>5, <3>1, <3>2, <3>3, <3>4
  <2>2. \A o \in Versions' : Table(o) = "override" => IsBase(o.base)'
    BY <1>1, <1>5, <1>8 DEF RowsOK, Fits
  <2>3. \A o \in Versions' : Table(o) = "submission" => <<o.template, o.text>> \in shown'
    BY <1>1, <1>5 DEF RowsOK, Fits
  <2>4. \A o \in Versions' : Table(o) = "template" => HasEarlierVersions(o)'
    BY <1>1, <1>5, <1>8 DEF RowsOK, Fits
  <2>. QED
    BY <1>1, <1>8, <2>1, <2>2, <2>3, <2>4 DEF RowsOK
<1>10. JobOK(p, job[p])'
  BY <1>1, <1>2, <1>7, JobStays
<1>11. StmtOK(p, job[p], stmt[p])'
  BY <1>2, <1>8 DEF StmtOK
<1>12. TxOK(p)'
  <2>. DEFINE adds == {x \in tx[p].adds : x.id \notin removed} \cup added
  <2>1. tx'[p] = [adds |-> adds, gone |-> tx[p].gone \cup removed]
    BY <1>2
  <2>2. \A x \in adds : /\ IsRow(x) /\ Known(p, x.id)' /\ Table(x) # "audit"
                        /\ Table(x) = "candidate" => Known(p, x.user)'
    BY <1>1, <1>8 DEF TxOK, Fits
  <2>3. IsFiniteSet(adds)
    <3>1. IsFiniteSet({x \in tx[p].adds : x.id \notin removed})
      BY <1>1, FS_Subset DEF TxOK
    <3>. QED
      BY <3>1, FS_Union
  <2>4. ASSUME NEW id \in tx[p].gone \cup removed
        PROVE  /\ id[1] \in Tables /\ (id[1] \in Deletable \/ Mutable[id[1]] # {})
               /\ id[1] \in Deletable \/ \E x \in adds : x.id = id
    <3>1. CASE id \in removed
      BY <3>1 DEF Ids
    <3>2. CASE id \in tx[p].gone /\ id \notin removed
      BY <1>1, <3>2 DEF TxOK
    <3>. QED
      BY <3>1, <3>2
  <2>5. ~Ended(p)' /\ job'[p] = job[p]
    BY <1>2, <1>3 DEF Ended
  <2>. HIDE DEF adds
  <2>. QED
    BY <1>3, <2>1, <2>2, <2>3, <2>4, <2>5 DEF TxOK
<1>13. Unused(p)'
  BY <1>1, <1>2 DEF Unused, Ids
<1>. QED
  BY <1>4, <1>7, <1>9, <1>10, <1>11, <1>12, <1>13, <1>2, OthersStay DEF Discipline

\* The version an UPDATE makes of a row.
LEMMA AssignedRow ==
    ASSUME NEW y, IsRow(y), NEW cols, DOMAIN cols \subseteq Mutable[Table(y)],
           Table(y) \in Personal /\ "active" \in DOMAIN cols => cols.active = FALSE
    PROVE  LET x == Assigned(y, cols)
           IN  /\ IsRow(x) /\ x.id = y.id /\ Table(x) = Table(y)
               /\ Agree(x, y) /\ Agree(y, x)
               /\ \A c \in Columns[Table(y)] : x[c] = IF c \in DOMAIN cols THEN cols[c] ELSE y[c]
<1>. DEFINE x == Assigned(y, cols)
            t == Table(y)
<1>1. t \in Tables /\ DOMAIN y = Columns[t]
  BY DEF IsRow, Tables
<1>2. DOMAIN x = Columns[t] /\ \A c \in Columns[t] : x[c] = IF c \in DOMAIN cols THEN cols[c] ELSE y[c]
  BY <1>1 DEF Assigned
<1>3. x.id = y.id /\ Table(x) = t
  BY <1>1, <1>2, MutableColumns DEF Table
<1>4. Agree(x, y) /\ Agree(y, x)
  BY <1>2, <1>3 DEF Agree, Frozen
<1>5. \A c \in Columns[t] : c \notin Mutable[t] => x[c] = y[c]
  BY <1>2
<1>. HIDE DEF x
<1>6. /\ t = "template" => "version" \in Columns[t] \ Mutable[t]
      /\ t \in {"mapping", "submission"} => "window" \in Columns[t] \ Mutable[t]
      /\ t \in {"admin", "candidate", "token"} => "user" \in Columns[t] \ Mutable[t]
      /\ t = "user" => "type" \in Columns[t] \ Mutable[t]
      /\ t = "admin" => "org" \in Columns[t] \ Mutable[t] /\ "role" \in Columns[t] \ Mutable[t]
      /\ t \in Personal => "active" \in Columns[t]
  BY DEF Columns, Mutable, TemplateColumns, MappingColumns, AdminColumns, CandidateColumns,
     TokenColumns, UserColumns, PersonalColumns, Personal
<1>7. t \in Personal => x.active \in BOOLEAN
  BY <1>2, <1>6 DEF IsRow, Personal
<1>8. IsRow(x)
  <2>1. /\ t = "template" => x.version \in Nat \ {0}
        /\ t \in {"mapping", "submission"} => x.window[1] = "window"
        /\ t \in {"admin", "candidate", "token"} => x.user[1] = "user"
        /\ t = "user" => x.type \in {"admin", "candidate"}
        /\ t = "admin" => x.org # "none" /\ x.role \in {"superadmin", "admin", "read_only"}
    BY <1>5, <1>6 DEF IsRow
  <2>2. x.id[2] # "none"
    BY <1>3 DEF IsRow
  <2>. QED
    BY <1>1, <1>2, <1>3, <1>7, <2>1, <2>2 DEF IsRow, Tables, Personal
<1>. QED
  BY <1>2, <1>3, <1>4, <1>8 DEF x

LEMMA VersionsAgree ==
    ASSUME Discipline, NEW x \in Versions, NEW y \in Versions, x.id = y.id
    PROVE  Agree(x, y) /\ Agree(y, x) /\ Table(x) = Table(y)
BY DEF Discipline, RowsOK, Table

LEMMA ViewIsFinite ==
    ASSUME Discipline, NEW p \in Requests
    PROVE  IsFiniteSet(View(p))
<1>1. IsFiniteSet(rows) /\ IsFiniteSet(tx[p].adds)
  BY DEF Discipline, RowsOK, TxOK
<1>2. IsFiniteSet({x \in rows : x.id \notin tx[p].gone})
  BY <1>1, FS_Subset
<1>. QED
  BY <1>1, <1>2, FS_Union DEF View

\* What an UPDATE makes may stand beside all other versions.
LEMMA UpdateFits ==
    ASSUME Discipline, NEW p \in Requests, stmt[p].do = "update", NEW y \in View(p), y.id \in stmt[p].ids
    PROVE  LET x == Assigned(y, stmt[p].cols)
           IN  /\ Fits(p, x) /\ x.id = y.id /\ Table(x) = Table(y) /\ Agree(x, y) /\ Agree(y, x)
               /\ y.id[1] \in Tables /\ Mutable[y.id[1]] # {}
<1>. DEFINE cols == stmt[p].cols
            x == Assigned(y, cols)
<1>1. Updates(p, job[p], stmt[p])
  BY DEF Discipline, StmtOK
<1>2. /\ y.id[1] \in Tables /\ Mutable[y.id[1]] # {} /\ DOMAIN cols \subseteq Mutable[y.id[1]]
      /\ y.id[1] \in Personal /\ "active" \in DOMAIN cols => cols.active = FALSE
  BY <1>1 DEF Updates
<1>3. IsRow(y) /\ Known(p, y.id) /\ y \in Versions
  BY WhatIsSeen
<1>4. IsRow(x) /\ x.id = y.id /\ Table(x) = Table(y) /\ Agree(x, y) /\ Agree(y, x)
  BY <1>2, <1>3, AssignedRow DEF Table
<1>. HIDE DEF x, cols
<1>5. Table(x) \notin {"audit", "submission"}
  BY <1>2, <1>4 DEF Mutable, Table
<1>6. Table(y) = "candidate" => Known(p, y.user)
  <2>1. CASE y \in rows
    BY <2>1 DEF Discipline, RowsOK, Settled, Known
  <2>2. CASE y \in tx[p].adds
    BY <2>2 DEF Discipline, TxOK
  <2>. QED
    BY <2>1, <2>2 DEF View
<1>7. Table(x) = "candidate" => Known(p, x.user)
  BY <1>4, <1>6, FrozenColumns DEF Agree
<1>8. ASSUME NEW z \in Versions, z.id = x.id PROVE Agree(x, z) /\ Agree(z, x)
  <2>1. Agree(y, z) /\ Agree(z, y) /\ Table(z) = Table(y)
    BY <1>3, <1>4, <1>8, VersionsAgree
  <2>. QED
    BY <1>4, <2>1 DEF Agree
<1>9. Table(x) = "override" => IsBase(x.base)
  <2>1. Table(y) = "override" => IsBase(y.base)
    BY <1>3 DEF Discipline, RowsOK
  <2>. QED
    BY <1>4, <2>1, FrozenColumns DEF Agree
<1>10. Table(x) = "template" => HasEarlierVersions(x)
  <2>1. Table(y) = "template" => HasEarlierVersions(y)
    BY <1>3 DEF Discipline, RowsOK
  <2>2. Table(y) = "template" => y.name = x.name /\ y.org = x.org /\ y.version = x.version
    BY <1>4, FrozenColumns DEF Agree
  <2>. QED
    BY <1>4, <2>1, <2>2 DEF HasEarlierVersions
<1>11. Known(p, x.id)
  BY <1>3, <1>4
<1>12. Agree(x, x)
  BY DEF Agree
<1>13. Fits(p, x)
  BY <1>3, <1>4, <1>5, <1>7, <1>8, <1>9, <1>10, <1>11, <1>12 DEF Fits
<1>. QED
  BY <1>2, <1>4, <1>13 DEF x, cols

LEMMA ExecUpdateStep ==
    ASSUME Discipline, NEW p \in Requests, ExecUpdate(p), UNCHANGED <<job, shown>>
    PROVE  Discipline' /\ Grows(p)
<1>1. stmt[p].do = "update"
  BY DEF ExecUpdate
<1>2. ~Ended(p) /\ Steps(job[p].todo) \cap {"begin", "check_in_use", "find_window"} = {}
  BY <1>1, Executing
<1>3. CASE Fail(p)
  BY <1>2, <1>3, FailStep
<1>. DEFINE new == NewVersions(p)
<1>4. CASE Write(p, Ids(new), new) /\ Issue(p, NoStmt) /\ UNCHANGED rows
  <2>1. \A x \in new : \E y \in View(p) : y.id \in stmt[p].ids /\ x = Assigned(y, stmt[p].cols)
    BY DEF NewVersions
  <2>2. \A x \in new : \E y \in View(p) :
            /\ Fits(p, x) /\ x.id = y.id /\ Table(x) = Table(y) /\ Agree(x, y) /\ Agree(y, x)
            /\ y.id[1] \in Tables /\ Mutable[y.id[1]] # {}
    BY <1>1, <2>1, UpdateFits
  <2>3. IsFiniteSet(new)
    <3>1. IsFiniteSet({y \in View(p) : y.id \in stmt[p].ids})
      BY ViewIsFinite, FS_Subset
    <3>. QED
      <4>. DEFINE found == {y \in View(p) : y.id \in stmt[p].ids}
                  f == [y \in found |-> Assigned(y, stmt[p].cols)]
      <4>1. f \in Surjection(found, new)
        BY DEF Surjection, NewVersions
      <4>. QED
        BY <3>1, <4>1, FS_Surjection
  <2>. HIDE DEF new
  <2>4. ASSUME NEW x \in new, NEW z \in new, x.id = z.id PROVE Agree(x, z)
    <3>1. PICK y \in View(p) : x.id = y.id /\ Table(x) = Table(y) /\ Agree(x, y)
      BY <2>2
    <3>2. PICK w \in View(p) : z.id = w.id /\ Table(z) = Table(w) /\ Agree(w, z)
      BY <2>2
    <3>3. Agree(y, w)
      BY <2>4, <3>1, <3>2, WhatIsSeen, VersionsAgree
    <3>. QED
      BY <2>4, <3>1, <3>2, <3>3 DEF Agree, Table
  <2>5. \A id \in Ids(new) : /\ id[1] \in Tables /\ (id[1] \in Deletable \/ Mutable[id[1]] # {})
                             /\ id[1] \in Deletable \/ id \in Ids(new)
    BY <2>2 DEF Ids
  <2>6. ASSUME NEW x \in ToCreate(job[p]), x.id # SettingsId PROVE x.id \notin Ids(new)
    <3>1. x.id[2] = p
      BY <2>6 DEF Discipline, JobOK, Creates, NewRow
    <3>2. x.id \notin Ids(tx[p].adds)
      BY <2>6 DEF Discipline, Unused
    <3>3. \A y \in View(p) : y.id # x.id
      BY <1>1, <3>1, <3>2, Executing DEF View, Ids
    <3>. QED
      BY <2>2, <3>3 DEF Ids
  <2>7. NoStmt.do \in {"none", "delete"} /\ StmtOK(p, job[p], NoStmt)
    BY DEF NoStmt, StmtOK
  <2>8. \A x \in new : Fits(p, x)
    BY <2>2
  <2>. QED
    BY <1>1, <1>4, <2>3, <2>4, <2>5, <2>6, <2>7, <2>8, WriteStep
<1>. QED
  BY <1>3, <1>4 DEF ExecUpdate

LEMMA ExecDeleteStep ==
    ASSUME Discipline, NEW p \in Requests, ExecDelete(p), UNCHANGED <<job, shown>>
    PROVE  Discipline' /\ Grows(p)
<1>1. stmt[p].do = "delete"
  BY DEF ExecDelete
<1>2. ~Ended(p) /\ Steps(job[p].todo) \cap {"begin", "check_in_use", "find_window"} = {}
  BY <1>1, Executing
<1>3. CASE Fail(p)
  BY <1>2, <1>3, FailStep
<1>. DEFINE hit == Ids({x \in View(p) : x.id \in stmt[p].ids})
            children == {x \in View(p) : Parents(x) \cap hit # {}}
            s == IF children = {} THEN NoStmt ELSE Delete(Ids(children), FALSE)
<1>4. CASE Write(p, hit, {}) /\ Issue(p, s) /\ UNCHANGED rows
  <2>1. \A id \in hit : id[1] \in Deletable
    BY <1>1 DEF Ids, Discipline, StmtOK
  <2>2. \A id \in hit : id[1] \in Tables
    BY <2>1, TableNames DEF Deletable
  <2>3. s.do \in {"none", "delete"} /\ StmtOK(p, job[p], s)
    <3>1. CASE children = {}
      BY <3>1 DEF NoStmt, StmtOK
    <3>2. CASE children # {}
      <4>1. \A x \in children : Table(x) \in {"mapping", "submission"} /\ Known(p, x.id)
        BY WhatIsSeen DEF Parents
      <4>2. \A id \in Ids(children) : id[1] \in Deletable /\ Known(p, id)
        BY <4>1 DEF Ids, Table, Deletable
      <4>. HIDE DEF children
      <4>3. s.do = "delete" /\ s.ids = Ids(children)
        BY <3>2 DEF Delete
      <4>. QED
        BY <4>2, <4>3 DEF StmtOK
    <3>. QED
      BY <3>1, <3>2
  <2>. HIDE DEF hit, s
  <2>4. Ids({}) = {} /\ IsFiniteSet({})
    BY FS_EmptySet DEF Ids
  <2>. QED
    BY <1>1, <1>4, <2>1, <2>2, <2>3, <2>4, WriteStep
<1>. QED
  BY <1>3, <1>4 DEF ExecDelete

LEMMA SettingsAreNobodys == Table([id |-> SettingsId]) = "settings" /\ SettingsId[1] = "settings" /\ SettingsId[2] \notin Requests
BY NamesAssumption DEF SettingsId, Table

\* What an INSERT that is not refused adds may stand beside all other versions.
LEMMA InsertFits ==
    ASSUME Discipline, NEW p \in Requests, stmt[p].do = "insert",
           \A y \in View(p) : KeyOf(y) # KeyOf(stmt[p].new)
    PROVE  Fits(p, stmt[p].new)
<1>. DEFINE x == stmt[p].new
<1>1. NewRow(p, job[p].by, x) \/ NewEventRow(p, x)
  BY DEF Discipline, StmtOK
<1>2. IsRow(x) /\ (x.id[2] = p \/ x.id = SettingsId) /\ Table(x) # "audit"
  BY <1>1 DEF NewRow, NewEventRow
<1>3. Known(p, x.id)
  BY <1>2, SettingsAreNobodys DEF Known
<1>4. Table(x) = "candidate" => Known(p, x.user)
  BY <1>1 DEF NewRow, NewEventRow, Known
<1>5. x.id[2] = p \/ Table(x) = "settings"
  BY <1>2, SettingsAreNobodys DEF Table
<1>6. ASSUME NEW y \in Versions, y.id = x.id PROVE Agree(x, y) /\ Agree(y, x)
  <2>1. CASE Table(x) = "settings"
    BY <1>6, <2>1, FrozenColumns DEF Agree, Table
  <2>2. CASE x.id[2] = p /\ Table(x) # "settings"
    <3>1. y \in tx[p].adds
      BY <1>6, <2>2, Executing DEF Versions
    <3>2. Table(x) = "event"
      BY <1>6, <2>2, <3>1 DEF Discipline, Unused, Ids, Table
    <3>3. KeyOf(x) = x.id /\ KeyOf(y) = y.id
      BY <1>6, <3>2 DEF KeyOf, Table
    <3>. QED
      BY <1>6, <3>1, <3>3 DEF View
  <2>. QED
    BY <1>5, <2>1, <2>2
<1>7. Agree(x, x)
  BY DEF Agree
<1>8. /\ Table(x) = "override" => IsBase(x.base)
      /\ Table(x) = "submission" => <<x.template, x.text>> \in shown
      /\ Table(x) = "template" => HasEarlierVersions(x)
  BY <1>1 DEF NewRow, NewEventRow
<1>. QED
  BY <1>2, <1>3, <1>4, <1>5, <1>6, <1>7, <1>8 DEF Fits

LEMMA ExecInsertStep ==
    ASSUME Discipline, NEW p \in Requests, ExecInsert(p), UNCHANGED <<job, shown>>
    PROVE  Discipline' /\ Grows(p)
<1>1. stmt[p].do = "insert"
  BY DEF ExecInsert
<1>2. ~Ended(p) /\ Steps(job[p].todo) \cap {"begin", "check_in_use", "find_window"} = {}
  BY <1>1, Executing
<1>3. CASE Fail(p)
  BY <1>2, <1>3, FailStep
<1>. DEFINE x == stmt[p].new
<1>4. CASE /\ \A y \in View(p) : KeyOf(y) # KeyOf(x)
           /\ Write(p, {}, {x}) /\ Issue(p, NoStmt) /\ UNCHANGED rows
  <2>1. Fits(p, x)
    BY <1>1, <1>4, InsertFits
  <2>2. \A z \in ToCreate(job[p]) : z.id # x.id
    BY <1>1 DEF Discipline, StmtOK
  <2>3. NoStmt.do \in {"none", "delete"} /\ StmtOK(p, job[p], NoStmt)
    BY DEF NoStmt, StmtOK
  <2>4. IsFiniteSet({x}) /\ Agree(x, x)
    BY FS_Singleton DEF Agree
  <2>5. \A z \in ToCreate(job[p]) : z.id = SettingsId \/ z.id \notin Ids({x})
    BY <2>2 DEF Ids
  <2>6. \A z \in {x} : Fits(p, z) /\ \A w \in {x} : Agree(z, w)
    BY <2>1, <2>4
  <2>7. /\ Write(p, {}, {x}) /\ Issue(p, NoStmt) /\ UNCHANGED <<rows, job, shown>>
    BY <1>4
  <2>. DEFINE added == {x}
  <2>8. /\ IsFiniteSet(added)
        /\ \A z \in ToCreate(job[p]) : z.id = SettingsId \/ z.id \notin Ids(added)
        /\ \A z \in added : Fits(p, z)
        /\ \A z, w \in added : z.id = w.id => Agree(z, w)
    BY <2>4, <2>5, <2>6
  <2>9. Write(p, {}, added)
    BY <1>4
  <2>. HIDE DEF added
  <2>. QED
    BY <1>1, <2>3, <2>7, <2>8, <2>9, WriteStep
<1>. QED
  BY <1>3, <1>4 DEF ExecInsert

LEMMA DeadlockStep ==
    ASSUME Discipline, NEW p \in Requests, BreakDeadlock(p), UNCHANGED <<job, shown>>
    PROVE  Discipline' /\ Grows(p)
<1>1. PICK q \in Requests : Blocks(q, p)
  BY DEF BreakDeadlock
<1>2. stmt[p].do \in {"insert", "update", "delete"}
  BY <1>1 DEF Blocks
<1>3. ~Ended(p) /\ Steps(job[p].todo) \cap {"begin", "check_in_use", "find_window"} = {}
  BY <1>2, Executing
<1>. QED
  BY <1>3, FailStep DEF BreakDeadlock

-----------------------------------------------------------------------------
(***************************************************************************)
(* How a request ends.                                                     *)
(***************************************************************************)
Done(p) == [NewJob EXCEPT !.do = job[p].do, !.todo = <<>>]

LEMMA DoneIsOver ==
    ASSUME NEW p \in Requests
    PROVE  /\ Done(p) = [do |-> job[p].do, by |-> Nobody, todo |-> <<>>,
                         entity |-> <<>>, create |-> <<>>, walk |-> <<>>]
           /\ Done(p).by = Nobody /\ Done(p).todo = <<>> /\ Done(p).create = <<>>
           /\ Done(p).entity = <<>> /\ Done(p).do = job[p].do
           /\ Steps(Done(p).todo) = {} /\ ToCreate(Done(p)) = {}
           /\ JobOK(p, Done(p))
<1>. DEFINE j == Done(p)
<1>1. j = [do |-> job[p].do, by |-> Nobody, todo |-> <<>>,
           entity |-> <<>>, create |-> <<>>, walk |-> <<>>]
  <2>. DEFINE d == job[p].do
  <2>1. Done(p) = [[NewJob EXCEPT !.do = d] EXCEPT !.todo = <<>>]
    BY DEF Done
  <2>. HIDE DEF d
  <2>2. [NewJob EXCEPT !.do = d] = [do |-> d, by |-> Nobody, todo |-> <<"begin">>,
                                    entity |-> <<>>, create |-> <<>>, walk |-> <<>>]
    BY DEF NewJob
  <2>. DEFINE k == [NewJob EXCEPT !.do = d]
  <2>3. /\ k = [do |-> k.do, by |-> k.by, todo |-> k.todo,
                entity |-> k.entity, create |-> k.create, walk |-> k.walk]
        /\ k.do = d /\ k.by = Nobody /\ k.entity = <<>> /\ k.create = <<>> /\ k.walk = <<>>
    BY <2>2
  <2>. HIDE DEF k
  <2>4. [k EXCEPT !.todo = <<>>] = [do |-> d, by |-> Nobody, todo |-> <<>>,
                                    entity |-> <<>>, create |-> <<>>, walk |-> <<>>]
    BY <2>3, JobRecord
  <2>. QED
    BY <2>1, <2>4 DEF d, k
<1>2. j.by = Nobody /\ j.todo = <<>> /\ j.create = <<>> /\ j.entity = <<>> /\ j.do = job[p].do
  BY <1>1
<1>3. j = [do |-> j.do, by |-> j.by, todo |-> j.todo, entity |-> j.entity, create |-> j.create, walk |-> j.walk]
  BY <1>1
<1>. HIDE DEF j
<1>4. /\ j.create \in Seq({j.create[i] : i \in 1 .. Len(j.create)})
      /\ Len(j.create) = 0 /\ Len(j.todo) = 0 /\ j.todo \in Seq(StepNames)
  BY <1>2
<1>5. Steps(j.todo) = {} /\ ToCreate(j) = {}
  BY <1>4 DEF Steps, ToCreate
<1>6. IsJob(j)
  BY <1>2, <1>3, <1>4 DEF IsJob
<1>7. Script(j)
  <2>1. Matches(j.todo, j.create)
    BY <1>4 DEF Matches
  <2>. QED
    BY <1>2, <1>4, <1>5, <2>1, NobodyIsNoTenant DEF Script
<1>8. Creates(p, j)
  BY <1>5 DEF Creates
<1>9. Holds(p, j)
  BY <1>2, <1>5, NobodyIsNoTenant DEF Holds
<1>10. JobOK(p, j)
  BY <1>6, <1>7, <1>8, <1>9 DEF JobOK
<1>. QED
  BY <1>1, <1>2, <1>5, <1>10 DEF j

LEMMA EndStep ==
    ASSUME Discipline, NEW p \in Requests, Grows(p), RowsOK', End(p),
           tx' = [tx EXCEPT ![p] = NoTx], stmt' = [stmt EXCEPT ![p] = NoStmt]
    PROVE  Discipline' /\ Ended(p)'
<1>1. Shapes
  BY DEF Discipline
<1>2. job' = [job EXCEPT ![p] = Done(p)]
  BY DEF End, Done
<1>3. /\ job'[p] = Done(p) /\ stmt'[p] = NoStmt /\ tx'[p] = NoTx
      /\ \A r \in Requests : r # p => job'[r] = job[r] /\ stmt'[r] = stmt[r] /\ tx'[r] = tx[r]
  BY <1>1, <1>2 DEF Shapes
<1>4. Shapes'
  BY <1>1, <1>2 DEF Shapes
<1>5. JobOK(p, job[p])'
  <2>1. \A j : JobOK(p, j) => JobOK(p, j)'
    BY JobStays
  <2>2. JobOK(p, Done(p))
    BY DoneIsOver
  <2>3. PICK k : k = Done(p)
    OBVIOUS
  <2>4. JobOK(p, k)'
    BY <2>1, <2>2, <2>3
  <2>. QED
    BY <1>3, <2>3, <2>4
<1>6. StmtOK(p, job[p], stmt[p])'
  BY <1>3 DEF StmtOK, NoStmt
<1>7. Steps(job'[p].todo) = {} /\ ToCreate(job'[p]) = {} /\ job'[p].todo = <<>>
  BY <1>3, DoneIsOver
<1>8. TxOK(p)'
  <2>1. NoTx.adds = {} /\ NoTx.gone = {} /\ NoTx = [adds |-> {}, gone |-> {}]
    BY DEF NoTx
  <2>2. IsFiniteSet({})
    BY FS_EmptySet
  <2>. QED
    BY <1>3, <1>7, <2>1, <2>2 DEF TxOK
<1>9. Unused(p)'
  BY <1>3, <1>7 DEF Unused, NoStmt, ToCreate
<1>10. Ended(p)'
  BY <1>7 DEF Ended
<1>. QED
  BY <1>3, <1>4, <1>5, <1>6, <1>8, <1>9, <1>10, OthersStay DEF Discipline

\* What a request that is still at work has not put among the rows.
LEMMA NotYet ==
    ASSUME Discipline, NEW p \in Requests, ~Ended(p)
    PROVE  /\ \A x \in rows : x.id[2] # p
           /\ \A q \in Requests \ {p} : \A x \in tx[q].adds : x.id[2] # p
<1>1. \A x \in rows : x.id[2] # p
  BY DEF Discipline, RowsOK, Settled
<1>2. ASSUME NEW q \in Requests \ {p}, NEW x \in tx[q].adds PROVE x.id[2] # p
  <2>1. TxOK(q)
    BY DEF Discipline
  <2>. QED
    BY <2>1 DEF TxOK, Known
<1>. QED
  BY <1>1, <1>2

LEMMA RollbackStep ==
    ASSUME Discipline, NEW p \in Requests, Rollback(p)
    PROVE  Discipline' /\ Grows(p)
<1>1. /\ Shapes /\ RowsOK /\ End(p) /\ UNCHANGED <<rows, shown>>
      /\ tx' = [tx EXCEPT ![p] = NoTx] /\ stmt' = [stmt EXCEPT ![p] = NoStmt]
  BY DEF Discipline, Rollback, RollbackTx, Issue
<1>2. job' = [job EXCEPT ![p] = Done(p)]
  BY <1>1 DEF End, Done
<1>3. /\ job'[p] = Done(p) /\ tx'[p] = NoTx
      /\ \A r \in Requests : r # p => job'[r] = job[r] /\ tx'[r] = tx[r]
  BY <1>1, <1>2 DEF Shapes
<1>4. \A q \in Requests : Ended(q) => Ended(q)'
  BY <1>3, DoneIsOver DEF Ended
<1>5. NoTx.adds = {}
  BY DEF NoTx
<1>6. Versions' \subseteq Versions
  BY <1>1, <1>3, <1>5 DEF Versions
<1>7. Grows(p)
  <2>1. \A x : Agree(x, x)
    BY DEF Agree
  <2>. QED
    BY <1>1, <1>4, <1>6, <2>1 DEF Grows
<1>8. RowsOK'
  <2>1. \A id : IsBase(id) => IsBase(id)'
    BY <1>7, BaseStays
  <2>2. \A x : HasEarlierVersions(x) => HasEarlierVersions(x)'
    BY <1>7, EarlierVersionsStay
  <2>3. \A id : Settled(id) => Settled(id)'
    BY <1>7, KnownStays
  <2>4. \A x, y \in Versions' : x.id = y.id => Agree(x, y)
    BY <1>1, <1>6 DEF RowsOK
  <2>5. \A o \in Versions' : Table(o) = "override" => IsBase(o.base)'
    BY <1>1, <1>6, <2>1 DEF RowsOK
  <2>6. \A o \in Versions' : Table(o) = "submission" => <<o.template, o.text>> \in shown'
    BY <1>1, <1>6 DEF RowsOK
  <2>7. \A o \in Versions' : Table(o) = "template" => HasEarlierVersions(o)'
    BY <1>1, <1>6, <2>2 DEF RowsOK
  <2>. QED
    BY <1>1, <2>3, <2>4, <2>5, <2>6, <2>7 DEF RowsOK
<1>. QED
  BY <1>1, <1>7, <1>8, EndStep

LEMMA AuditRowIsNew ==
    ASSUME Discipline, NEW p \in Requests, ~Ended(p)
    PROVE  LET a == AuditRow(p)
           IN  /\ IsRow(a) /\ a.id = <<"audit", p>> /\ Table(a) = "audit" /\ a.id[2] = p
               /\ \A y \in Versions : y.id # a.id
               /\ a.action = job[p].do
<1>. DEFINE a == AuditRow(p)
<1>1. a.id = <<"audit", p>> /\ DOMAIN a = {"id", "action", "about"} /\ a.action = job[p].do
  BY DEF AuditRow
<1>. HIDE DEF a
<1>2. Table(a) = "audit" /\ a.id[2] = p
  BY <1>1 DEF Table
<1>3. IsRow(a)
  BY <1>1, <1>2, NamesAssumption, TableNames DEF IsRow, Tables, Columns, AuditColumns, Table
<1>4. ASSUME NEW y \in Versions PROVE y.id # a.id
  <2>1. CASE y \in tx[p].adds
    <3>1. Table(y) # "audit"
      BY <2>1 DEF Discipline, TxOK
    <3>. QED
      BY <1>2, <3>1 DEF Table
  <2>2. CASE y \notin tx[p].adds
    BY <1>2, <2>2, NotYet DEF Versions
  <2>. QED
    BY <2>1, <2>2
<1>. QED
  BY <1>1, <1>2, <1>3, <1>4 DEF a

LEMMA CommitStep ==
    ASSUME Discipline, NEW p \in Requests, Commit(p)
    PROVE  Discipline' /\ Grows(p)
<1>. DEFINE added == IF At(p, "commit") THEN {} ELSE {AuditRow(p)}
<1>1. /\ Shapes /\ RowsOK /\ TxOK(p) /\ End(p) /\ UNCHANGED stmt /\ stmt[p] = NoStmt
      /\ rows' = View(p) \cup added
      /\ tx' = [tx EXCEPT ![p] = NoTx] /\ shown' = shown \cup Offered(rows')
  BY DEF Discipline, Commit, CommitTx
<1>2. job' = [job EXCEPT ![p] = Done(p)] /\ stmt' = [stmt EXCEPT ![p] = NoStmt]
  BY <1>1 DEF End, Done, Shapes
<1>3. /\ job'[p] = Done(p) /\ tx'[p] = NoTx
      /\ \A r \in Requests : r # p => job'[r] = job[r] /\ tx'[r] = tx[r]
  BY <1>1, <1>2 DEF Shapes
<1>4. ~Ended(p) /\ Ended(p)' /\ \A q \in Requests : Ended(q) => Ended(q)'
  BY <1>3, DoneIsOver DEF Ended, Commit, At
<1>5. NoTx.adds = {}
  BY DEF NoTx
<1>6. \A x \in added : IsRow(x) /\ x.id = <<"audit", p>> /\ Table(x) = "audit" /\ x.id[2] = p /\ \A y \in Versions : y.id # x.id
  BY <1>4, AuditRowIsNew
<1>7. IsFiniteSet(added) /\ \A x, y \in added : x = y
  BY FS_EmptySet, FS_Singleton
<1>. HIDE DEF added
<1>8. View(p) \subseteq Versions
  BY DEF View, Versions
<1>9. Versions' \subseteq Versions \cup added
  BY <1>1, <1>3, <1>5, <1>8 DEF Versions
<1>10. \A x : Agree(x, x)
  BY DEF Agree
<1>11. Grows(p)
  <2>1. ASSUME NEW y \in rows, Table(y) \notin Deletable PROVE \E z \in rows' : z.id = y.id /\ Agree(z, y)
    <3>1. CASE y.id \notin tx[p].gone
      BY <1>1, <1>10, <3>1 DEF View
    <3>2. CASE y.id \in tx[p].gone
      <4>1. PICK x \in tx[p].adds : x.id = y.id
        BY <1>1, <2>1, <3>2 DEF TxOK, Table
      <4>2. Agree(x, y)
        BY <1>1, <4>1 DEF RowsOK, Versions
      <4>. QED
        BY <1>1, <4>1, <4>2 DEF View
    <3>. QED
      BY <3>1, <3>2
  <2>2. \A y \in Versions' : (\E x \in Versions : x.id = y.id /\ Agree(x, y)) \/ (y.id[2] = p /\ ~Ended(p))
    BY <1>4, <1>6, <1>9, <1>10
  <2>. QED
    BY <1>1, <1>4, <2>1, <2>2 DEF Grows
<1>12. RowsOK'
  <2>1. \A id : IsBase(id) => IsBase(id)'
    BY <1>11, BaseStays
  <2>2. \A x : HasEarlierVersions(x) => HasEarlierVersions(x)'
    BY <1>11, EarlierVersionsStay
  <2>3. ASSUME NEW x \in rows'
        PROVE  IsRow(x) /\ Settled(x.id)' /\ (Table(x) = "candidate" => Settled(x.user)')
    <3>1. CASE x \in rows
      BY <1>1, <1>11, <3>1, KnownStays DEF RowsOK
    <3>2. CASE x \in tx[p].adds
      <4>1. IsRow(x) /\ Known(p, x.id) /\ (Table(x) = "candidate" => Known(p, x.user))
        BY <1>1, <3>2 DEF TxOK
      <4>. QED
        BY <1>4, <4>1 DEF Known, Settled
    <3>3. CASE x \in added
      BY <1>4, <1>6, <3>3 DEF Settled
    <3>. QED
      BY <1>1, <3>1, <3>2, <3>3 DEF View
  <2>4. \A x, y \in Versions' : x.id = y.id => Agree(x, y)
    <3>. SUFFICES ASSUME NEW x \in Versions', NEW y \in Versions', x.id = y.id PROVE Agree(x, y)
      OBVIOUS
    <3>1. CASE x \in Versions /\ y \in Versions
      BY <1>1, <3>1 DEF RowsOK
    <3>2. CASE x \in added \/ y \in added
      BY <1>6, <1>7, <1>9, <1>10, <3>2
    <3>. QED
      BY <1>9, <3>1, <3>2
  <2>5. \A o \in Versions' : Table(o) = "override" => IsBase(o.base)'
    BY <1>1, <1>6, <1>9, <2>1 DEF RowsOK
  <2>6. \A o \in Versions' : Table(o) = "submission" => <<o.template, o.text>> \in shown'
    BY <1>1, <1>6, <1>9 DEF RowsOK
  <2>7. \A o \in Versions' : Table(o) = "template" => HasEarlierVersions(o)'
    BY <1>1, <1>6, <1>9, <2>2 DEF RowsOK
  <2>8. IsFiniteSet(rows')
    BY <1>1, <1>7, ViewIsFinite, FS_Union
  <2>9. Offered(rows)' \subseteq shown'
    <3>1. Offered(rows') = Offered(rows)'
      BY DEF Offered, From, Table
    <3>. QED
      BY <1>1, <3>1
  <2>. QED
    BY <2>3, <2>4, <2>5, <2>6, <2>7, <2>8, <2>9 DEF RowsOK
<1>. QED
  BY <1>1, <1>2, <1>11, <1>12, EndStep

-----------------------------------------------------------------------------
(***************************************************************************)
(* The discipline is kept.                                                 *)
(***************************************************************************)
LEMMA FirstJob == JobOK("none", NewJob) /\ \A p \in Requests : JobOK(p, NewJob)
<1>1. /\ NewJob = [do |-> "none", by |-> Nobody, todo |-> <<"begin">>,
                   entity |-> <<>>, create |-> <<>>, walk |-> <<>>]
      /\ NewJob.by = Nobody /\ NewJob.todo = <<"begin">> /\ NewJob.create = <<>> /\ NewJob.entity = <<>>
  BY DEF NewJob
<1>2. NewJob = [do |-> NewJob.do, by |-> NewJob.by, todo |-> NewJob.todo, entity |-> NewJob.entity,
                create |-> NewJob.create, walk |-> NewJob.walk]
  BY <1>1
<1>3. /\ Steps(NewJob.todo) = {"begin"} /\ Len(NewJob.todo) = 1 /\ NewJob.todo[1] = "begin"
      /\ NewJob.todo \in Seq(StepNames)
  BY <1>1, TupleOf1 DEF Steps, StepNames
<1>4. Len(NewJob.create) = 0 /\ NewJob.create \in Seq({NewJob.create[i] : i \in 1 .. Len(NewJob.create)})
  BY <1>1
<1>5. IsJob(NewJob)
  BY <1>1, <1>2, <1>3, <1>4 DEF IsJob
<1>6. Script(NewJob)
  <2>1. Matches(NewJob.todo, NewJob.create)
    BY <1>3, <1>4 DEF Matches
  <2>2. NewJob.todo # <<>> /\ NewJob.todo[Len(NewJob.todo)] \in FinalSteps
    BY <1>3 DEF FinalSteps
  <2>3. \A i \in 1 .. Len(NewJob.todo) : NewJob.todo[i] \notin LastSteps
    BY <1>3 DEF LastSteps
  <2>4. Steps(NewJob.todo) \cap IngestSteps = {} /\ Steps(NewJob.todo) \cap PageSteps = {}
    BY <1>3 DEF IngestSteps, PageSteps
  <2>. QED
    BY <1>1, <1>3, <2>1, <2>2, <2>3, <2>4, NobodyIsNoTenant DEF Script
<1>7. \A p : Creates(p, NewJob) /\ Holds(p, NewJob)
  BY <1>1, <1>3, NobodyIsNoTenant DEF Creates, Holds, ToCreate
<1>. QED
  BY <1>5, <1>6, <1>7 DEF JobOK

LEMMA InitialVersions ==
    ASSUME NEW w \in Workloads, NEW t \in w.rows, Table(t) = "template",
           NEW v \in 1 .. (t.version - 1)
    PROVE  \E y \in w.rows : Table(y) = "template" /\ y.name = t.name /\ y.org = t.org /\ y.version = v
<1>. DEFINE S == {x \in From("template", w.rows) : x.name = t.name /\ x.org = t.org}
<1>1. IsFiniteSet(w.rows) /\ HasAllVersions(w.rows) /\ IsRow(t)
  BY WorkloadsAssumption
<1>2. t.version \in Nat
  BY <1>1 DEF IsRow
<1>3. Cardinality(S) \in Nat
  <2>1. IsFiniteSet(S)
    BY <1>1, FS_Subset DEF From
  <2>. QED
    BY <2>1, FS_CardinalityType
<1>4. {x.version : x \in S} = 1 .. Cardinality(S)
  BY <1>1 DEF HasAllVersions, From
<1>5. t \in S
  BY DEF From
<1>. DEFINE n == Cardinality(S)
<1>6. t.version \in 1 .. n
  BY <1>4, <1>5
<1>7. v \in 1 .. n
  <2>1. n \in Nat
    BY <1>3
  <2>. HIDE DEF n
  <2>. QED
    BY <1>2, <1>6, <2>1
<1>. QED
  BY <1>4, <1>7 DEF From

LEMMA InitDiscipline == Init => Discipline
<1>. SUFFICES ASSUME Init PROVE Discipline
  OBVIOUS
<1>1. PICK w \in Workloads : rows = w.rows /\ shown = Offered(w.rows)
  BY DEF Init
<1>2. /\ tx = [r \in Requests |-> NoTx] /\ stmt = [r \in Requests |-> NoStmt]
      /\ job = [r \in Requests |-> NewJob]
  BY DEF Init
<1>3. /\ IsFiniteSet(rows) /\ KeysAreUnique(rows) /\ OverridesBase(rows)
      /\ \A x \in rows : IsRow(x)
      /\ \A s \in From("submission", rows) : <<s.template, s.text>> \in shown
  BY <1>1, WorkloadsAssumption
<1>4. \A r \in Requests : tx[r].adds = {} /\ tx[r].gone = {}
  BY <1>2 DEF NoTx
<1>5. Versions = rows
  BY <1>4 DEF Versions
<1>6. RowsOK
  <2>1. \A x \in rows : Settled(x.id) /\ (Table(x) = "candidate" => Settled(x.user))
    BY <1>1, NamesAssumption DEF Settled
  <2>2. \A x, y \in rows : x.id = y.id => Agree(x, y)
    BY <1>3 DEF KeysAreUnique, Agree
  <2>3. \A o \in rows : Table(o) = "override" => IsBase(o.base)
    BY <1>3 DEF OverridesBase, IsBase, From
  <2>4. \A s \in rows : Table(s) = "submission" => <<s.template, s.text>> \in shown
    BY <1>3 DEF From
  <2>5. \A t \in rows : Table(t) = "template" => HasEarlierVersions(t)
    BY <1>1, InitialVersions DEF HasEarlierVersions
  <2>6. Offered(rows) \subseteq shown
    BY <1>1
  <2>. QED
    BY <1>3, <1>5, <2>1, <2>2, <2>3, <2>4, <2>5, <2>6 DEF RowsOK
<1>7. Shapes
  BY <1>2 DEF Shapes
<1>8. ASSUME NEW r \in Requests
      PROVE  JobOK(r, job[r]) /\ StmtOK(r, job[r], stmt[r]) /\ TxOK(r) /\ Unused(r)
  <2>1. job[r] = NewJob /\ stmt[r] = NoStmt /\ tx[r] = NoTx
    BY <1>2
  <2>2. JobOK(r, job[r]) /\ Steps(job[r].todo) = {"begin"}
    BY <2>1, FirstJob, TupleOf1 DEF NewJob, Steps
  <2>3. StmtOK(r, job[r], stmt[r])
    BY <2>1 DEF StmtOK, NoStmt
  <2>4. TxOK(r)
    <3>1. tx[r] = [adds |-> tx[r].adds, gone |-> tx[r].gone]
      BY <2>1 DEF NoTx
    <3>2. IsFiniteSet({})
      BY FS_EmptySet
    <3>. QED
      BY <1>4, <2>1, <2>2, <3>1, <3>2 DEF TxOK
  <2>5. Unused(r)
    BY <2>1, <2>2 DEF Unused, ToCreate, NoStmt
  <2>. QED
    BY <2>2, <2>3, <2>4, <2>5
<1>. QED
  BY <1>6, <1>7, <1>8 DEF Discipline

LEMMA RequestKeeps ==
    ASSUME Discipline, NEW p \in Requests,
           Call(p) \/ Abandon(p) \/ ProctoringBegin(p) \/ RequestStep(p)
    PROVE  Discipline' /\ Grows(p)
<1>1. CASE Call(p) \/ ProctoringBegin(p)
  BY <1>1, CallBegins
<1>2. CASE Abandon(p) \/ CloseSession(p) \/ EndFailed(p)
  BY <1>2, RollbackStep DEF Abandon, CloseSession, EndFailed
<1>3. CASE Execute(p)
  BY <1>3, ExecUpdateStep, ExecDeleteStep, ExecInsertStep, DeadlockStep DEF Execute
<1>4. CASE SharedStep(p)
  BY <1>4, FlushStep, MarkStaleStep, ClearStep, InsertStep, DeleteStep DEF SharedStep
<1>5. CASE OwnStep(p)
  BY <1>5, RetireStep, RevokeAllStep, RaiseStep, WriteProfileStep, ResumeStep DEF OwnStep
<1>6. CASE LaterRead(p)
  <2>1. CASE CheckTopicCycle(p)
    BY <2>1, CycleStep, RollbackStep
  <2>2. CASE CheckInUse(p) \/ WalkUp(p) \/ FindWindow(p) \/ ReadOn(p)
    BY <2>2, CheckInUseStep, WalkStep, FindWindowStep, ReadOnStep
  <2>. QED
    BY <1>6, <2>1, <2>2 DEF LaterRead
<1>7. CASE Commit(p)
  BY <1>7, CommitStep
<1>8. CASE ProctoringStep(p)
  BY <1>8, IngestStep, QueueStep DEF ProctoringStep
<1>. QED
  BY <1>1, <1>2, <1>3, <1>4, <1>5, <1>6, <1>7, <1>8 DEF RequestStep, GoOn

LEMMA DisciplineUnchanged ==
    ASSUME Discipline, UNCHANGED allVars
    PROVE  Discipline'
<1>1. UNCHANGED <<rows, tx, stmt, workload, job, shown>>
  BY DEF allVars, vars
<1>2. Versions' = Versions
  BY <1>1 DEF Versions
<1>3. \A id : /\ (IsBase(id)' <=> IsBase(id)) /\ (Settled(id)' <=> Settled(id))
              /\ \A r : Known(r, id)' <=> Known(r, id)
  BY <1>1 DEF IsBase, Settled, Known, Ended
<1>4. \A x : HasEarlierVersions(x)' <=> HasEarlierVersions(x)
  BY <1>1 DEF HasEarlierVersions
<1>5. \A r, by, x : NewRow(r, by, x)' <=> NewRow(r, by, x)
  BY <1>1, <1>3, <1>4 DEF NewRow
<1>6. \A by, e : Edited(by, e)' <=> Edited(by, e)
  BY <1>1, <1>2, <1>3 DEF Edited
<1>7. RowsOK'
  BY <1>1, <1>2, <1>3, <1>4 DEF Discipline, RowsOK
<1>8. \A r, j : JobOK(r, j) => JobOK(r, j)'
  <2>1. \A r, j : Creates(r, j) => Creates(r, j)'
    BY <1>5 DEF Creates
  <2>2. \A r, j : Holds(r, j) => Holds(r, j)'
    BY <1>1, <1>2, <1>3, <1>6 DEF Holds
  <2>. QED
    BY <2>1, <2>2 DEF JobOK
<1>9. \A r, j, s : StmtOK(r, j, s) => StmtOK(r, j, s)'
  <2>1. \A r, j, s : Updates(r, j, s) => Updates(r, j, s)'
    BY <1>2, <1>3 DEF Updates
  <2>. QED
    BY <1>3, <1>5, <2>1 DEF StmtOK
<1>10. ASSUME NEW r \in Requests
       PROVE  JobOK(r, job[r])' /\ StmtOK(r, job[r], stmt[r])' /\ TxOK(r)' /\ Unused(r)'
  <2>1. JobOK(r, job[r]) /\ StmtOK(r, job[r], stmt[r]) /\ TxOK(r) /\ Unused(r)
    BY DEF Discipline
  <2>2. TxOK(r)' /\ Unused(r)'
    BY <1>1, <1>3, <2>1 DEF TxOK, Unused, Ended
  <2>3. JobOK(r, job[r])' /\ StmtOK(r, job[r], stmt[r])'
    BY <1>1, <1>8, <1>9, <2>1
  <2>. QED
    BY <2>2, <2>3
<1>. QED
  BY <1>1, <1>7, <1>10 DEF Discipline, Shapes

LEMMA NextDiscipline == Discipline /\ [Next]_allVars => Discipline'
BY RequestKeeps, DisciplineUnchanged DEF Next, AllEnded

\* Whatever a request has read, it holds and creates only what its caller may
\* write, in the steps of its operation, and commits only what its table admits.
THEOREM EveryRequestIsDisciplined == Spec => []Discipline
BY InitDiscipline, NextDiscipline, PTL DEF Spec
================================================================================
