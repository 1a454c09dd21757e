-------------------------- MODULE ContentSystemProofs --------------------------
(***************************************************************************)
(* Theorems of ContentSystem: what the tables promise together, that no    *)
(* tenant's administrator writes another tenant's rows, that changes are   *)
(* logged, that a retired token stays retired, that a lone update keeps a  *)
(* profile's skills and that a risk counts what was stored, for any number *)
(* of requests and any rows they begin with.                               *)
(*                                                                         *)
(* Given the discipline of each request, a step is of one of seven kinds:  *)
(* it plans, it is refused, it updates, removes or adds row versions, it   *)
(* commits or rolls back.  Each layer (tenants, keys, references, current  *)
(* rows, accounts, causes, skills, risks) is an invariant of those kinds.  *)
(***************************************************************************)
EXTENDS ContentRequestProofs

-----------------------------------------------------------------------------
(***************************************************************************)
(* The layers above it.                                                    *)
(***************************************************************************)
\* TenantsAreSeparate, of what is written.
OwnRows ==
    \A r \in Requests : Tenant(job[r].by) =>
        \A x \in tx[r].adds : Table(x) \in OrgTables =>
            x.org = job[r].by.org /\ job[r].by.role = "admin"

\* A token that a request has changed is a token it has retired.
OnlyRetired ==
    \A r \in Requests : \A x \in tx[r].adds :
        Table(x) = "token" /\ x.id \in tx[r].gone => x.revoked = TRUE

\* An administrator's request that commits without a log entry has written
\* nothing, or has marked overrides stale.
Unlogged(r) == IsAdmin(job[r].by) /\ "commit" \in Steps(job[r].todo)
QuietUnlessLogged ==
    \A r \in Requests : Unlogged(r) =>
        \/ tx[r] = NoTx /\ stmt[r].do \in {"none", "failed"} /\ job[r].todo = <<"commit">>
        \/ /\ job[r].do = "deactivate_template"
           /\ \A x \in tx[r].adds : Table(x) = "override"
           /\ \A id \in tx[r].gone : id[1] = "override"
           /\ stmt[r].do \in {"none", "failed", "update"}
           /\ stmt[r].do = "update" => \A id \in stmt[r].ids : id[1] = "override"

\* Row locks and keys: what is undecided stays apart from everything else.
Apart(x, y) == x.id # y.id /\ KeyOf(x) # KeyOf(y)
Isolated ==
    /\ KeysAreUnique(rows)
    /\ \A r \in Requests : KeysAreUnique(tx[r].adds)
    /\ \A r \in Requests : \A x \in tx[r].adds, y \in rows : y.id \notin tx[r].gone => Apart(x, y)
    /\ \A q, r \in Requests : q # r =>
          /\ tx[q].gone \cap tx[r].gone = {}
          /\ \A x \in tx[q].adds, y \in tx[r].adds : Apart(x, y)

\* A row whose parent is gone is about to go, or the whole transaction is.
Doomed(r, x) == stmt[r].do = "failed" \/ (stmt[r].do = "delete" /\ x.id \in stmt[r].ids)
Referred ==
    /\ ParentsExist(rows)
    /\ \A r \in Requests : \A x \in View(r) : Parents(x) \subseteq Ids(View(r)) \/ Doomed(r, x)
    /\ \A q, r \in Requests : q # r => \A x \in tx[q].adds : Parents(x) \cap Deleted(r) = {}

\* What r has written and is still to write.
Inserting(s) == IF s.do = "insert" THEN {s.new} ELSE {}
Product(r)   == tx[r].adds \cup Inserting(stmt[r]) \cup ToCreate(job[r])

Renewed(r, table) == \E x \in Product(r) : Table(x) = table /\ x.active = TRUE
ActiveStays ==
    /\ \A t \in Personal : From(t, rows) # {} => \E x \in From(t, rows) : x.active = TRUE
    /\ \A r \in Requests : \A id \in tx[r].gone \cup Ids(tx[r].adds) :
          id \in Ids(rows) \/ id[2] = r \/ id = SettingsId
    /\ \A r \in Requests : stmt[r].do # "failed" =>
          /\ \A y \in rows : Table(y) \in Personal /\ y.active = TRUE /\ y.id \in tx[r].gone
                => Renewed(r, Table(y))
          /\ \A x \in tx[r].adds : Table(x) \in Personal => Renewed(r, Table(x)) \/ x.id \in Ids(rows)

Recorded ==
    /\ \A u \in From("user", rows) : \E a \in rows : IsRecordOf(a, u)
    /\ \A r \in Requests : stmt[r].do # "failed" =>
          \A u \in From("user", Product(r)) : \E a \in rows \cup Product(r) : IsRecordOf(a, u)

\* The events that matter for the rule of e.
Alike(e, S) ==
    {x \in From("event", S) \ {e} :
        x.kind = e.kind /\ (\/ Clusters[e.kind].condition = "consecutive"
                           \/ x.time \in (e.time - Clusters[e.kind].window) .. e.time)}
HasCause(e, S) ==
    e.weight > Rules[e.kind].weight =>
        e.kind \in DOMAIN Clusters /\ Clusters[e.kind].threshold <= Cardinality(Alike(e, S))
Caused ==
    /\ \A e \in From("event", rows) : HasCause(e, rows)
    /\ \A r \in Requests : \A e \in From("event", tx[r].adds \cup Inserting(stmt[r])) :
          HasCause(e, rows \cup tx[r].adds)

\* A profile loses no skill to what a request writes, unless two update it.
Contested ==
    \E p, q \in Requests : p # q /\ job[p].do = "update_profile" /\ job[q].do = "update_profile"
PutsSkills(s) == s.do = "update" /\ "skills" \in DOMAIN s.cols
KeepsSkills(r) ==
    /\ "write_profile" \in Steps(job[r].todo) =>
          \A y \in rows : y.id = job[r].entity.id => y.skills \subseteq job[r].entity.skills
    /\ PutsSkills(stmt[r]) =>
          \A y \in rows : y.id \in stmt[r].ids => y.skills \subseteq stmt[r].cols.skills
    /\ \A x \in From("candidate", tx[r].adds), y \in rows : y.id = x.id => y.skills \subseteq x.skills
LeavesSkills(r) ==
    /\ ~PutsSkills(stmt[r])
    /\ \A x \in From("candidate", tx[r].adds), y \in rows : y.id = x.id => y.skills = x.skills
ToUpdateProfile == {<<"write_profile", "commit">>, <<"commit">>, <<>>}
SkillsStay ==
    \A r \in Requests :
        /\ job[r].do = "update_profile" => job[r].todo \in ToUpdateProfile
        /\ Contested \/ KeepsSkills(r)
        /\ job[r].do = "update_profile" \/ LeavesSkills(r)

\* A request that sums up the risk counts the events it began with, and its own.
Sums(r) == job[r].do \in {"ingest", "recompute"} /\ ~Ended(r)
Counts(r, counted) ==
    /\ job[r].entity.before \cup Ids(From("event", tx[r].adds)) \subseteq counted
    /\ counted \subseteq Ids(From("event", rows \cup tx[r].adds))
ToCompute(r) == Steps(job[r].todo) \cap {"record", "compute"} # {} \/ stmt[r].do # "none"
Counted(r) ==
    /\ Steps(job[r].todo) \subseteq IngestSteps \cup {"commit"}
    /\ job[r].entity.before \subseteq Ids(From("event", rows))
    /\ tx[r].gone \subseteq {RiskId}
    /\ \A x \in tx[r].adds : Table(x) \in {"event", "risk"}
    /\ stmt[r].do \in {"none", "failed", "insert", "update"}
    /\ stmt[r].do = "insert" => Table(stmt[r].new) = "event" /\ job[r].todo = <<"record">>
    /\ stmt[r].do = "update" =>
          stmt[r].ids = {RiskId} /\ "counted" \in DOMAIN stmt[r].cols /\ Counts(r, stmt[r].cols.counted)
    /\ \/ ToCompute(r) \/ tx[r].adds = {}
       \/ \A x \in From("risk", View(r)) : x \in tx[r].adds /\ Counts(r, x.counted)
RiskCounts ==
    /\ \A x \in From("risk", Versions) : x.id = RiskId
    /\ \A r \in Requests : Sums(r) => Counted(r)

-----------------------------------------------------------------------------
(***************************************************************************)
(* The kinds of steps, for the layers above the discipline.                *)
(***************************************************************************)
\* A step that writes nothing yet: a call, a read, or a statement that is issued.
Plans(p) ==
    /\ ~Ended(p) /\ stmt[p] = NoStmt
    /\ UNCHANGED <<rows, tx, shown>>
    /\ \A q \in Requests : q # p => job'[q] = job[q] /\ stmt'[q] = stmt[q]
    /\ \/ tx[p] = NoTx
       \/ job'[p].by = job[p].by /\ job'[p].do = job[p].do
    /\ ToCreate(job[p]) \subseteq ToCreate(job'[p]) \cup Inserting(stmt'[p])
    /\ Unlogged(p)' => \/ tx[p] = NoTx /\ stmt'[p] = NoStmt
                       \/ MarkStale(p)
    /\ stmt'[p].do = "insert" /\ Table(stmt'[p].new) = "event" => StoreEvent(p)

\* A statement that is refused, and one that writes.
Stops(p) == Fail(p) /\ UNCHANGED <<job, shown>> /\ ~Ended(p)

\* The call of an operation that has only read so far.
Opens(p) ==
    /\ At(p, "begin") /\ UNCHANGED <<rows, tx, stmt, shown>>
    /\ \A q \in Requests : q # p => job'[q] = job[q]

LEMMA BeginOpens ==
    ASSUME Shapes, NEW p \in Requests, NEW by, NEW op, NEW e, NEW create, NEW todo,
           Begin(p, by, op, e, create, todo)
    PROVE  Opens(p)
BY DEF Begin, Start, Opens, dbVars, Shapes

LEMMA AdminOpens ==
    ASSUME Shapes, NEW p \in Requests, AdminBegin(p)
    PROVE  Opens(p)
<1>1. ASSUME NEW op, NEW org, NEW e, NEW create, NEW todo, Serve(p, op, org, e, create, todo) PROVE Opens(p)
  BY <1>1, BeginOpens DEF Serve
<1>2. ASSUME NEW op, NEW S, Read(p, op, S) PROVE Opens(p)
  BY <1>2, BeginOpens DEF Read
<1>3. ReadTemplate(p) \/ CreateTemplate(p) \/ UpdateTemplate(p) => Opens(p)
  BY <1>1, <1>2, BeginOpens DEF ReadTemplate, CreateTemplate, UpdateTemplate
<1>4. ActivateTemplate(p) \/ DeactivateTemplate(p) => Opens(p)
  BY <1>1 DEF ActivateTemplate, DeactivateTemplate
<1>5. ReadOverride(p) \/ CreateOverride(p) => Opens(p)
  BY BeginOpens DEF ReadOverride, CreateOverride
<1>6. UpdateOverride(p) \/ DeleteOverride(p) => Opens(p)
  BY BeginOpens DEF UpdateOverride, DeleteOverride
<1>7. ReadRubric(p) \/ CreateRubric(p) => Opens(p)
  BY <1>2, BeginOpens DEF ReadRubric, CreateRubric
<1>8. UpdateRubric(p) \/ DeactivateRubric(p) => Opens(p)
  BY <1>1 DEF UpdateRubric, DeactivateRubric
<1>9. ReadWindow(p) \/ CreateWindow(p) => Opens(p)
  BY BeginOpens DEF ReadWindow, CreateWindow
<1>10. UpdateWindow(p) \/ ArchiveWindow(p) => Opens(p)
  BY BeginOpens DEF UpdateWindow, ArchiveWindow
<1>. QED
  BY <1>3, <1>4, <1>5, <1>6, <1>7, <1>8, <1>9, <1>10 DEF AdminBegin

LEMMA CatalogOpens ==
    ASSUME Shapes, NEW p \in Requests, CatalogBegin(p)
    PROVE  Opens(p)
<1>1. ASSUME NEW op, NEW org, NEW e, NEW create, NEW todo, Serve(p, op, org, e, create, todo) PROVE Opens(p)
  BY <1>1, BeginOpens DEF Serve
<1>2. ASSUME NEW op, NEW S, Read(p, op, S) PROVE Opens(p)
  BY <1>2, BeginOpens DEF Read
<1>3. ASSUME NEW op, NEW by, NEW new, Create(p, op, by, new) PROVE Opens(p)
  BY <1>3, BeginOpens DEF Create
<1>4. ReadRole(p) \/ CreateRole(p) \/ UpdateRole(p) => Opens(p)
  BY <1>1, <1>2, <1>3 DEF ReadRole, CreateRole, UpdateRole
<1>5. ReadTopic(p) \/ CreateTopic(p) \/ UpdateTopic(p) => Opens(p)
  BY <1>1, <1>2, <1>3 DEF ReadTopic, CreateTopic, UpdateTopic
<1>6. ReadCodingTopic(p) \/ CreateCodingTopic(p) => Opens(p)
  BY <1>2, <1>3 DEF ReadCodingTopic, CreateCodingTopic
<1>7. ReadQuestion(p) \/ CreateQuestion(p) \/ UpdateQuestion(p) => Opens(p)
  BY <1>1, <1>2, <1>3 DEF ReadQuestion, CreateQuestion, UpdateQuestion
<1>8. CreateQuestionOverride(p) => Opens(p)
  BY BeginOpens DEF CreateQuestionOverride
<1>9. ReadProblem(p) \/ CreateProblem(p) \/ UpdateProblem(p) => Opens(p)
  BY <1>1, <1>2, <1>3 DEF ReadProblem, CreateProblem, UpdateProblem
<1>. QED
  BY <1>4, <1>5, <1>6, <1>7, <1>8, <1>9 DEF CatalogBegin

\* The first plan of a request, with nothing written yet.
LEMMA FirstPlan ==
    ASSUME Discipline, NEW p \in Requests, ~Ended(p), stmt[p] = NoStmt, tx[p] = NoTx,
           "insert" \notin Steps(job[p].todo),
           UNCHANGED <<rows, tx, shown>>, \A q \in Requests : q # p => job'[q] = job[q],
           NEW s, stmt' = [stmt EXCEPT ![p] = s], s.do # "insert",
           Unlogged(p)' => s = NoStmt
    PROVE  Plans(p)
<1>1. stmt'[p] = s /\ \A q \in Requests : q # p => stmt'[q] = stmt[q]
  BY DEF Discipline, Shapes
<1>2. ToCreate(job[p]) = {}
  BY DEF ToCreate
<1>. QED
  BY <1>1, <1>2 DEF Plans

LEMMA OpensPlans ==
    ASSUME Discipline, NEW p \in Requests, Opens(p)
    PROVE  Plans(p)
<1>1. job[p] = NewJob /\ tx[p] = NoTx /\ stmt[p] = NoStmt /\ ~Ended(p)
  BY AtBegin DEF Opens
<1>2. Steps(NewJob.todo) = {"begin"}
  BY TupleOf1 DEF NewJob, Steps
<1>3. stmt' = [stmt EXCEPT ![p] = NoStmt] /\ NoStmt.do # "insert"
  BY <1>1 DEF Opens, Discipline, Shapes, NoStmt
<1>. QED
  BY <1>1, <1>2, <1>3, FirstPlan DEF Opens

\* A call that issues a statement at once.
LEMMA StartPlans ==
    ASSUME Discipline, NEW p \in Requests, NEW by, NEW op, NEW e, NEW create, NEW todo, NEW s,
           Start(p, by, op, e, create, todo), Issue(p, s), UNCHANGED <<rows, tx>>, s.do # "insert",
           IsAdmin(by) => "commit" \notin Steps(todo)
    PROVE  Plans(p)
<1>1. job[p] = NewJob /\ tx[p] = NoTx /\ stmt[p] = NoStmt /\ ~Ended(p)
  BY AtBegin DEF Start
<1>2. Steps(NewJob.todo) = {"begin"}
  BY TupleOf1 DEF NewJob, Steps
<1>. DEFINE k == JobOf(by, op, e, create, todo)
<1>3. job' = [job EXCEPT ![p] = k] /\ UNCHANGED shown
  BY DEF Start, JobOf
<1>4. k.by = by /\ k.todo = todo
  BY DEF JobOf
<1>. HIDE DEF k
<1>5. job'[p] = k /\ \A q \in Requests : q # p => job'[q] = job[q]
  BY <1>3 DEF Discipline, Shapes
<1>6. ~Unlogged(p)'
  BY <1>4, <1>5 DEF Unlogged
<1>7. stmt' = [stmt EXCEPT ![p] = s]
  BY DEF Issue
<1>. QED
  BY <1>1, <1>2, <1>3, <1>5, <1>6, <1>7, FirstPlan

LEMMA NotAnInsert ==
    /\ NoStmt.do = "none" /\ Failed.do = "failed"
    /\ \A ids, cols : Update(ids, cols).do = "update"
    /\ \A id, cols : UpdateRow(id, cols).do = "update"
    /\ \A ids, must : Delete(ids, must).do = "delete"
BY DEF NoStmt, Failed, Update, UpdateRow, Delete

LEMMA CandidatePlans ==
    ASSUME Discipline, NEW p \in Requests, CandidateBegin(p) \/ ProfileBegin(p) \/ PageBegin(p)
    PROVE  Plans(p)
<1>. DEFINE Opened == Opens(p)
<1>1. Shapes /\ ~IsAdmin(Candidate)
  BY CandidateIsNoTenant DEF Discipline
<1>2. StartPractice(p) \/ GenerateDeck(p) \/ GenerateRoadmap(p) => Opens(p)
  BY <1>1, BeginOpens DEF StartPractice, GenerateDeck, GenerateRoadmap
<1>3. ASSUME NEW op, NEW x, NEW done, NEW reached, Progress(p, op, x, done, reached) PROVE Plans(p)
  BY <1>1, <1>3, StartPlans, NotAnInsert DEF Progress
<1>4. UpdateDeckProgress(p) \/ UpdateRoadmapProgress(p) => Plans(p)
  BY <1>3 DEF UpdateDeckProgress, UpdateRoadmapProgress
<1>5. GetProfile(p) \/ GetSettings(p) \/ GenerateInsights(p) \/ ListResumes(p) \/ UploadResume(p) => Opens(p)
  BY <1>1, BeginOpens DEF GetProfile, GetSettings, GenerateInsights, ListResumes, UploadResume
<1>6. UpdateProfile(p) => Plans(p)
  BY <1>1, StartPlans, NotAnInsert DEF UpdateProfile
<1>7. UpdateSettings(p) => Plans(p) \/ Opens(p)
  <2>. SUFFICES ASSUME UpdateSettings(p) PROVE Plans(p) \/ Opens(p)
    OBVIOUS
  <2>1. PICK notify \in Preferences, privacy \in Preferences :
        \/ \E x \in OwnSettings(p) :
              LET new == MergedSettings(x, notify, privacy)
              IN  /\ Start(p, Candidate, "update_settings", new, <<>>, <<"commit">>)
                  /\ Issue(p, IF new = x THEN NoStmt ELSE UpdateRow(x.id, Changed(new, x)))
                  /\ UNCHANGED <<rows, tx>>
        \/ LET new == MergedSettings(EmptySettings, notify, privacy)
           IN  /\ OwnSettings(p) = {}
               /\ Begin(p, Candidate, "update_settings", new, <<new>>, <<"insert", "commit">>)
    BY DEF UpdateSettings
  <2>. QED
    BY <1>1, <2>1, StartPlans, BeginOpens, NotAnInsert
<1>8. ASSUME NEW op, NEW S, Page(p, op, S) PROVE Opens(p)
  BY <1>1, <1>8, BeginOpens DEF Page
<1>9. PageBegin(p) => Opens(p)
  <2>1. ListWindows(p) \/ GetSubmission(p) \/ ListQuestions(p) => Opens(p)
    BY <1>1, BeginOpens DEF ListWindows, GetSubmission, ListQuestions
  <2>2. ListSubmissions(p) \/ ListTemplates(p) \/ GetActiveDeck(p) \/ GetDeck(p) \/ ListDecks(p)
        \/ GetActiveRoadmap(p) \/ ListRoadmaps(p) => Opens(p)
    BY <1>8 DEF ListSubmissions, ListTemplates, GetActiveDeck, GetDeck, ListDecks,
       GetActiveRoadmap, ListRoadmaps
  <2>. QED
    BY <2>1, <2>2 DEF PageBegin
<1>. QED
  BY <1>2, <1>4, <1>5, <1>6, <1>7, <1>9, OpensPlans DEF CandidateBegin, ProfileBegin

LEMMA AccountPlans ==
    ASSUME Discipline, NEW p \in Requests, AccountBegin(p)
    PROVE  Plans(p)
<1>1. Shapes /\ ~IsAdmin(Nobody)
  BY NobodyIsNoTenant DEF Discipline
<1>2. RegisterAdmin(p) \/ RegisterCandidate(p) => Opens(p)
  BY <1>1, BeginOpens DEF RegisterAdmin, RegisterCandidate, Register
<1>3. Login(p) \/ RefreshToken(p) => Plans(p)
  BY <1>1, StartPlans, NotAnInsert DEF Login, RefreshToken, Rotate
<1>4. RefreshReused(p) => Plans(p)
  BY <1>1, StartPlans, NotAnInsert DEF RefreshReused, RevokeAllOf
<1>5. Logout(p) => Plans(p) \/ Opens(p)
  BY <1>1, StartPlans, BeginOpens, NotAnInsert DEF Logout
<1>6. ChangePassword(p) => Plans(p)
  <2>. SUFFICES ASSUME ChangePassword(p) PROVE Plans(p)
    OBVIOUS
  <2>1. PICK u \in Users(p), new \in Secrets : \E by \in CallerOf(u, p) :
            /\ Start(p, by, "change_password", u, <<>>, <<"revoke_all", "log_and_commit">>)
            /\ Issue(p, UpdateRow(u.id, [secret |-> new, version |-> u.version + 1]))
            /\ UNCHANGED <<rows, tx>>
    BY DEF ChangePassword
  <2>. DEFINE todo == <<"revoke_all", "log_and_commit">>
              s == UpdateRow(u.id, [secret |-> new, version |-> u.version + 1])
  <2>2. PICK by : /\ Start(p, by, "change_password", u, <<>>, todo)
                  /\ Issue(p, s) /\ UNCHANGED <<rows, tx>>
    BY <2>1
  <2>3. "commit" \notin Steps(todo) /\ s.do # "insert"
    BY TupleOf2, NotAnInsert DEF Steps
  <2>. HIDE DEF todo, s
  <2>. QED
    BY <2>2, <2>3, StartPlans
<1>7. GetMe(p) => Opens(p)
  BY <1>1, BeginOpens DEF GetMe
<1>. QED
  BY <1>2, <1>3, <1>4, <1>5, <1>6, <1>7, OpensPlans DEF AccountBegin

LEMMA ProctoringPlans ==
    ASSUME Discipline, NEW p \in Requests, ProctoringBegin(p)
    PROVE  Plans(p)
<1>1. Shapes /\ ~IsAdmin(Nobody)
  BY NobodyIsNoTenant DEF Discipline
<1>2. Ingest(p) \/ ListEvents(p) \/ ReviewQueue(p) => Opens(p)
  BY <1>1, BeginOpens DEF Ingest, ListEvents, ReviewQueue
<1>3. GetRisk(p) \/ Recompute(p) => Plans(p)
  BY <1>1, StartPlans, NotAnInsert DEF GetRisk, Recompute, Compute
<1>. QED
  BY <1>2, <1>3, OpensPlans DEF ProctoringBegin

\* A later step that is neither final nor an INSERT, with its statement.
LEMMA PassPlans ==
    ASSUME Discipline, NEW p \in Requests, NEW a, At(p, a), a \notin FinalSteps \cup {"insert"},
           NEW e, NEW w, job' = [job EXCEPT ![p] = Passed(p, e, w)],
           NEW s, stmt' = [stmt EXCEPT ![p] = s], s.do # "insert", UNCHANGED <<rows, tx, shown>>,
           a = "mark_stale" => MarkStale(p)
    PROVE  Plans(p)
<1>. DEFINE j == job[p]
            k == Passed(p, e, w)
<1>1. ~Ended(p) /\ stmt[p] = NoStmt /\ Head(j.todo) = a /\ JobOK(p, j) /\ j.todo # <<>> /\ j.todo[1] = a
  <2>1. ~Ended(p) /\ stmt[p] = NoStmt /\ Head(j.todo) = a /\ JobOK(p, j) /\ j.todo # <<>>
    BY HeadOfJob DEF At
  <2>. QED
    BY <2>1, TailSteps DEF JobOK, IsJob
<1>2. k.do = j.do /\ k.by = j.by /\ k.todo = Tail(j.todo) /\ k.create = j.create
  BY DEF Passed
<1>3. /\ job'[p] = k /\ stmt'[p] = s
      /\ \A q \in Requests : q # p => job'[q] = job[q] /\ stmt'[q] = stmt[q]
  BY DEF Discipline, Shapes
<1>. HIDE DEF k, j
<1>4. /\ Steps(k.todo) \subseteq Steps(j.todo)
      /\ Steps(j.todo) \subseteq Steps(k.todo) \cup {a}
  BY <1>1, <1>2, ScriptGoesOn DEF JobOK
<1>5. ToCreate(j) \subseteq ToCreate(k)
  BY <1>2, <1>4 DEF ToCreate
<1>6. Unlogged(p)' => a = "mark_stale"
  <2>. SUFFICES ASSUME Unlogged(p)' PROVE a = "mark_stale"
    OBVIOUS
  <2>1. IsAdmin(j.by) /\ "commit" \in Steps(j.todo)
    BY <1>2, <1>3, <1>4 DEF Unlogged
  <2>2. j.todo = <<"commit">> \/ j.todo = <<"mark_stale", "commit">>
    BY <1>1, <2>1 DEF JobOK, Script
  <2>3. a # "commit"
    BY DEF FinalSteps, LastSteps
  <2>. QED
    BY <1>1, <2>2, <2>3
<1>. QED
  BY <1>1, <1>2, <1>3, <1>5, <1>6 DEF Plans, j

LEMMA StatementPlans ==
    ASSUME Discipline, NEW p \in Requests, NEW a, At(p, a), a \notin FinalSteps \cup {"insert"},
           NEW s, Issue(p, s), s.do # "insert", Pass(p), UNCHANGED <<rows, tx, shown>>,
           a = "mark_stale" => MarkStale(p)
    PROVE  Plans(p)
BY PassIsPassed, PassPlans DEF Issue

LEMMA ReadPlans ==
    ASSUME Discipline, NEW p \in Requests, NEW a, At(p, a), a \notin FinalSteps \cup {"insert", "mark_stale"},
           NEW e, NEW w, job' = [job EXCEPT ![p] = Passed(p, e, w)], UNCHANGED <<rows, tx, stmt, shown>>
    PROVE  Plans(p)
<1>1. stmt' = [stmt EXCEPT ![p] = NoStmt]
  BY HeadOfJob DEF Discipline, Shapes
<1>. QED
  BY <1>1, PassPlans, NotAnInsert

LEMMA EarlySteps ==
    {"flush", "mark_stale", "clear", "delete", "retire", "revoke_all", "write_profile", "save_text",
     "save_analysis", "walk"} \cap (FinalSteps \cup {"insert"}) = {}
BY DEF FinalSteps, LastSteps, IngestSteps

LEMMA FlushPlans ==
    ASSUME Discipline, NEW p \in Requests, Flush(p)
    PROVE  Plans(p)
<1>1. /\ At(p, "flush") /\ Pass(p) /\ UNCHANGED <<rows, tx, shown>>
      /\ \E s : Issue(p, s) /\ s.do # "insert"
  BY NotAnInsert DEF Flush
<1>2. PICK s : Issue(p, s) /\ s.do # "insert"
  BY <1>1
<1>. QED
  BY <1>1, <1>2, EarlySteps, StatementPlans

LEMMA OwnPlans ==
    ASSUME Discipline, NEW p \in Requests,
           \/ MarkStale(p) \/ ClearChildren(p) \/ DeleteEntity(p) \/ Retire(p) \/ RevokeAll(p)
           \/ WriteProfile(p) \/ SaveText(p) \/ SaveAnalysis(p)
    PROVE  Plans(p)
<1>. DEFINE Ready(a, s) == At(p, a) /\ Issue(p, s) /\ s.do # "insert" /\ Pass(p) /\ UNCHANGED <<rows, tx, shown>>
<1>1. ASSUME NEW a \in {"flush", "mark_stale", "clear", "delete", "retire", "revoke_all", "write_profile",
                        "save_text", "save_analysis"},
             NEW s, Ready(a, s), a = "mark_stale" => MarkStale(p)
      PROVE  Plans(p)
  BY <1>1, EarlySteps, StatementPlans
<1>2. CASE MarkStale(p)
  <2>1. \E s : Ready("mark_stale", s)
    BY <1>2, NotAnInsert DEF MarkStale
  <2>. HIDE DEF Ready
  <2>. QED
    BY <1>1, <1>2, <2>1
<1>3. CASE ClearChildren(p)
  <2>1. \E s : Ready("clear", s)
    BY <1>3, NotAnInsert DEF ClearChildren
  <2>. HIDE DEF Ready
  <2>. QED
    BY <1>1, <2>1
<1>4. CASE DeleteEntity(p)
  <2>1. \E s : Ready("delete", s)
    BY <1>4, NotAnInsert DEF DeleteEntity
  <2>. HIDE DEF Ready
  <2>. QED
    BY <1>1, <2>1
<1>5. CASE Retire(p)
  <2>1. \E s : Ready("retire", s)
    BY <1>5, NotAnInsert DEF Retire
  <2>. HIDE DEF Ready
  <2>. QED
    BY <1>1, <2>1
<1>6. CASE RevokeAll(p)
  <2>1. \E s : Ready("revoke_all", s)
    BY <1>6, NotAnInsert DEF RevokeAll, RevokeAllOf
  <2>. HIDE DEF Ready
  <2>. QED
    BY <1>1, <2>1
<1>7. CASE WriteProfile(p)
  <2>1. \E s : Ready("write_profile", s)
    BY <1>7, NotAnInsert DEF WriteProfile
  <2>. HIDE DEF Ready
  <2>. QED
    BY <1>1, <2>1
<1>8. CASE SaveText(p)
  <2>1. \E s : Ready("save_text", s)
    BY <1>8, NotAnInsert DEF SaveText
  <2>. HIDE DEF Ready
  <2>. QED
    BY <1>1, <2>1
<1>9. CASE SaveAnalysis(p)
  <2>1. \E s : Ready("save_analysis", s)
    BY <1>9, NotAnInsert DEF SaveAnalysis
  <2>. HIDE DEF Ready
  <2>. QED
    BY <1>1, <2>1
<1>. QED
  BY <1>2, <1>3, <1>4, <1>5, <1>6, <1>7, <1>8, <1>9

\* A request keeps its record when two fields of it change.
LEMMA TwoFields ==
    ASSUME Discipline, NEW p \in Requests, NEW c, NEW t,
           job' = [job EXCEPT ![p].create = c, ![p].todo = t]
           \/ job' = [job EXCEPT ![p].todo = t, ![p].create = c]
    PROVE  job' = [job EXCEPT ![p] = [do |-> job[p].do, by |-> job[p].by, todo |-> t,
                                      entity |-> job[p].entity, create |-> c, walk |-> job[p].walk]]
<1>. DEFINE j == job[p]
            k == [do |-> j.do, by |-> j.by, todo |-> t, entity |-> j.entity, create |-> c, walk |-> j.walk]
            g == [j EXCEPT !.create = c]
            h == [j EXCEPT !.todo = t]
<1>1. /\ DOMAIN job = Requests
      /\ j = [do |-> j.do, by |-> j.by, todo |-> j.todo, entity |-> j.entity,
              create |-> j.create, walk |-> j.walk]
  BY DEF Discipline, Shapes, JobOK, IsJob
<1>2. /\ g = [do |-> j.do, by |-> j.by, todo |-> j.todo, entity |-> j.entity, create |-> c, walk |-> j.walk]
      /\ h = [do |-> j.do, by |-> j.by, todo |-> t, entity |-> j.entity, create |-> j.create, walk |-> j.walk]
  BY <1>1, JobRecord
<1>3. job' = [job EXCEPT ![p] = [g EXCEPT !.todo = t]] \/ job' = [job EXCEPT ![p] = [h EXCEPT !.create = c]]
  BY <1>1
<1>. HIDE DEF g, h
<1>4. /\ g.do = j.do /\ g.by = j.by /\ g.entity = j.entity /\ g.create = c /\ g.walk = j.walk
      /\ g = [do |-> g.do, by |-> g.by, todo |-> g.todo, entity |-> g.entity, create |-> g.create, walk |-> g.walk]
      /\ h.do = j.do /\ h.by = j.by /\ h.entity = j.entity /\ h.todo = t /\ h.walk = j.walk
      /\ h = [do |-> h.do, by |-> h.by, todo |-> h.todo, entity |-> h.entity, create |-> h.create, walk |-> h.walk]
  BY <1>2
<1>5. [g EXCEPT !.todo = t] = [do |-> g.do, by |-> g.by, todo |-> t, entity |-> g.entity,
                               create |-> g.create, walk |-> g.walk]
  BY <1>4, JobRecord
<1>6. [h EXCEPT !.create = c] = [do |-> h.do, by |-> h.by, todo |-> h.todo, entity |-> h.entity,
                                 create |-> c, walk |-> h.walk]
  BY <1>4, JobRecord
<1>7. [g EXCEPT !.todo = t] = k /\ [h EXCEPT !.create = c] = k
  BY <1>4, <1>5, <1>6
<1>. QED
  BY <1>3, <1>7

LEMMA InsertPlans ==
    ASSUME Discipline, NEW p \in Requests, InsertNext(p)
    PROVE  Plans(p)
<1>. DEFINE j == job[p]
            c == Tail(j.create)
            t == Tail(j.todo)
            x == Head(j.create)
            k == [do |-> j.do, by |-> j.by, todo |-> t, entity |-> j.entity, create |-> c, walk |-> j.walk]
            s == Insert(x)
<1>1. /\ At(p, "insert") /\ UNCHANGED <<rows, tx, shown>> /\ Issue(p, Insert(Head(job[p].create)))
      /\ job' = [job EXCEPT ![p].todo = Tail(@), ![p].create = Tail(@)]
  BY DEF InsertNext
<1>2. JobOK(p, j) /\ ~Ended(p) /\ stmt[p] = NoStmt /\ "insert" \in Steps(j.todo) /\ j.todo # <<>>
      /\ j.todo[1] = "insert"
  <2>1. JobOK(p, j) /\ ~Ended(p) /\ stmt[p] = NoStmt /\ "insert" \in Steps(j.todo) /\ j.todo # <<>>
        /\ Head(j.todo) = "insert"
    BY <1>1, HeadOfJob DEF At
  <2>. QED
    BY <2>1, TailSteps DEF JobOK, IsJob
<1>3. job' = [job EXCEPT ![p] = k]
  <2>1. job' = [job EXCEPT ![p].todo = t, ![p].create = c]
    <3>1. DOMAIN job = Requests /\ j = [do |-> j.do, by |-> j.by, todo |-> j.todo, entity |-> j.entity,
              create |-> j.create, walk |-> j.walk]
      BY DEF Discipline, Shapes, JobOK, IsJob
    <3>. QED
      BY <1>1, <3>1
  <2>. HIDE DEF c, t
  <2>. QED
    BY <2>1, TwoFields
<1>4. k.do = j.do /\ k.by = j.by /\ k.todo = t /\ k.create = c
  OBVIOUS
<1>5. /\ stmt'[p] = s /\ job'[p] = k
      /\ \A q \in Requests : q # p => job'[q] = job[q] /\ stmt'[q] = stmt[q]
  <2>1. stmt' = [stmt EXCEPT ![p] = s]
    BY <1>1 DEF Issue
  <2>. HIDE DEF s, k
  <2>. QED
    BY <1>3, <2>1 DEF Discipline, Shapes
<1>6. s.do = "insert" /\ s.new = x
  BY DEF Insert
<1>7. x \in ToCreate(j)
  <2>1. Steps(j.todo) \cap IngestSteps = {}
    <3>. SUFFICES ASSUME Steps(j.todo) \cap IngestSteps # {} PROVE FALSE
      OBVIOUS
    <3>1. Len(j.todo) = 1
      BY <1>2 DEF JobOK, Script
    <3>2. Steps(j.todo) = {"insert"}
      BY <1>2, <3>1 DEF Steps
    <3>. QED
      BY <3>2 DEF IngestSteps
  <2>2. Matches(j.todo, j.create)
    BY <1>2, <2>1 DEF JobOK, Script
  <2>3. Len(j.create) # 0 /\ Len(j.create) \in Nat
    BY <1>2, <2>2 DEF Matches, Steps, JobOK, IsJob
  <2>4. x = j.create[1] /\ 1 \in 1 .. Len(j.create)
    BY <1>2, <2>3 DEF JobOK, IsJob
  <2>. QED
    BY <1>2, <2>4 DEF ToCreate
<1>8. NewRow(p, j.by, x)
  BY <1>2, <1>7 DEF JobOK, Creates
<1>9. ToCreate(j) \subseteq ToCreate(k) \cup {x}
  <2>. SUFFICES ASSUME NEW i \in 1 .. Len(j.create), j.create[i] # x PROVE j.create[i] \in ToCreate(k)
    BY DEF ToCreate
  <2>1. j.create \in Seq({j.create[m] : m \in 1 .. Len(j.create)}) /\ Len(j.create) \in Nat
    BY <1>2 DEF JobOK, IsJob
  <2>. DEFINE d == j.create
              n == Len(d)
              S == {d[m] : m \in 1 .. Len(d)}
  <2>a. d \in Seq(S) /\ n \in Nat /\ i \in 1 .. n
    BY <2>1
  <2>. HIDE DEF d, S
  <2>b. d # <<>> /\ Head(d) = d[1] /\ Len(Tail(d)) = n - 1 /\ \A m \in 1 .. Len(Tail(d)) : Tail(d)[m] = d[m + 1]
    BY <2>a
  <2>2. i # 1 /\ i \in 2 .. n
    BY <2>a, <2>b DEF d
  <2>c. i - 1 \in 1 .. (n - 1) /\ (i - 1) + 1 = i
    BY <2>a, <2>2
  <2>3. i - 1 \in 1 .. Len(c) /\ c[i - 1] = j.create[i]
    BY <2>b, <2>c DEF d
  <2>4. "insert" \in Steps(t)
    <3>1. Steps(j.todo) \cap IngestSteps = {}
      <4>. SUFFICES ASSUME Steps(j.todo) \cap IngestSteps # {} PROVE FALSE
        OBVIOUS
      <4>1. Len(j.todo) = 1
        BY <1>2 DEF JobOK, Script
      <4>2. Steps(j.todo) = {"insert"}
        BY <1>2, <4>1 DEF Steps
      <4>. QED
        BY <4>2 DEF IngestSteps
    <3>2. Matches(j.todo, j.create)
      BY <1>2, <3>1 DEF JobOK, Script
    <3>3. n = 2
      <4>1. n <= 2
        BY <3>2 DEF Matches, d
      <4>. HIDE DEF n
      <4>. QED
        BY <2>a, <2>2, <4>1
    <3>4. PICK a, b \in 1 .. Len(j.todo) : a < b /\ j.todo[b] = "insert"
      BY <3>2, <3>3 DEF Matches, d
    <3>5. /\ Len(t) = Len(j.todo) - 1
          /\ \A m \in 1 .. Len(t) : t[m] = j.todo[m + 1]
      BY <1>2, TailSteps DEF JobOK, IsJob
    <3>6. Len(j.todo) \in Nat
      BY <1>2 DEF JobOK, IsJob
    <3>7. b - 1 \in 1 .. Len(t) /\ t[b - 1] = "insert"
      BY <3>4, <3>5, <3>6
    <3>. QED
      BY <3>7 DEF Steps
  <2>. HIDE DEF c, t
  <2>. QED
    BY <1>4, <2>3, <2>4 DEF ToCreate
<1>. HIDE DEF k, s
<1>10. ToCreate(j) \subseteq ToCreate(job'[p]) \cup Inserting(stmt'[p])
  BY <1>5, <1>6, <1>9 DEF Inserting
<1>11. Table(stmt'[p].new) # "event"
  BY <1>5, <1>6, <1>8 DEF NewRow
<1>12. ~Unlogged(p)'
  <2>. SUFFICES ASSUME Unlogged(p)' PROVE FALSE
    OBVIOUS
  <2>1. IsAdmin(j.by) /\ "commit" \in Steps(t)
    BY <1>4, <1>5 DEF Unlogged
  <2>2. Steps(t) \subseteq Steps(j.todo)
    BY <1>2, TailSteps DEF JobOK, IsJob
  <2>3. j.todo = <<"commit">> \/ j.todo = <<"mark_stale", "commit">>
    BY <1>2, <2>1, <2>2 DEF JobOK, Script
  <2>. QED
    BY <1>2, <2>3
<1>. QED
  BY <1>1, <1>2, <1>4, <1>5, <1>10, <1>11, <1>12 DEF Plans

LEMMA LaterReadPlans ==
    ASSUME Discipline, NEW p \in Requests, LaterRead(p) \/ ListFlagged(p) \/ CountEvents(p)
    PROVE  Plans(p) \/ Stops(p) \/ Rollback(p)
<1>. DEFINE j == job[p]
<1>1. CASE ReadOn(p) \/ ListFlagged(p) \/ CountEvents(p)
  <2>1. PICK a \in PageSteps : \E e :
           At(p, a) /\ job' = [job EXCEPT ![p] = Passed(p, e, job[p].walk)] /\ UNCHANGED <<rows, tx, stmt, shown>>
    BY <1>1, ReadOnReads, QueueReads
  <2>. QED
    BY <2>1, PageStepsRead, ReadPlans
<1>2. CASE CheckTopicCycle(p)
  <2>1. CASE Pass(p) /\ UNCHANGED <<dbVars, shown>>
    <3>1. At(p, "walk") /\ UNCHANGED <<rows, tx, stmt, shown>> /\ "walk" # "mark_stale"
      BY <1>2, <2>1 DEF CheckTopicCycle, dbVars
    <3>. QED
      BY <2>1, <3>1, EarlySteps, PassIsPassed, ReadPlans
  <2>. QED
    BY <1>2, <2>1 DEF CheckTopicCycle
<1>3. CASE WalkUp(p)
  <2>1. PICK x \in TopicsIn(p) : job' = [job EXCEPT ![p].walk = Append(@, x.parent)]
    BY <1>3 DEF WalkUp
  <2>2. At(p, "walk") /\ UNCHANGED <<rows, tx, stmt, shown>>
    BY <1>3 DEF WalkUp, dbVars
  <2>. DEFINE k == [j EXCEPT !.walk = Append(j.walk, x.parent)]
  <2>3. job' = [job EXCEPT ![p] = k]
    BY <2>1
  <2>4. j = [do |-> j.do, by |-> j.by, todo |-> j.todo, entity |-> j.entity,
             create |-> j.create, walk |-> j.walk]
    BY DEF Discipline, JobOK, IsJob
  <2>5. k = [do |-> j.do, by |-> j.by, todo |-> j.todo, entity |-> j.entity,
             create |-> j.create, walk |-> Append(j.walk, x.parent)]
    BY <2>4, JobRecord
  <2>6. k.do = j.do /\ k.by = j.by /\ k.todo = j.todo /\ k.create = j.create
    BY <2>5
  <2>. HIDE DEF k
  <2>7. /\ job'[p] = k /\ \A q \in Requests : q # p => job'[q] = job[q]
        /\ stmt'[p] = NoStmt /\ ~Ended(p) /\ stmt[p] = NoStmt /\ JobOK(p, j) /\ Head(j.todo) = "walk"
    BY <2>2, <2>3, HeadOfJob DEF Discipline, Shapes
  <2>8. ToCreate(k) = ToCreate(j)
    BY <2>6 DEF ToCreate
  <2>9. ~Unlogged(p)'
    <3>. SUFFICES ASSUME Unlogged(p)' PROVE FALSE
      OBVIOUS
    <3>1. IsAdmin(j.by) /\ "commit" \in Steps(j.todo)
      BY <2>6, <2>7 DEF Unlogged
    <3>2. j.todo = <<"commit">> \/ j.todo = <<"mark_stale", "commit">>
      BY <2>7, <3>1 DEF JobOK, Script
    <3>. QED
      BY <2>7, <3>2
  <2>. QED
    BY <2>2, <2>6, <2>7, <2>8, <2>9, NotAnInsert DEF Plans
<1>4. CASE CheckInUse(p)
  <2>1. PICK c, t : job' = [job EXCEPT ![p].create = c, ![p].todo = t]
    BY <1>4 DEF CheckInUse
  <2>2. At(p, "check_in_use") /\ UNCHANGED <<rows, tx, stmt, shown>>
    BY <1>4 DEF CheckInUse, dbVars
  <2>3. JobOK(p, j) /\ TxOK(p) /\ ~Ended(p) /\ stmt[p] = NoStmt /\ "check_in_use" \in Steps(j.todo)
    BY <2>2, HeadOfJob
  <2>4. tx[p] = NoTx
    BY <2>3 DEF TxOK
  <2>5. "insert" \notin Steps(j.todo)
    BY <2>3, TupleOf1 DEF JobOK, Holds, Steps
  <2>6. \A q \in Requests : q # p => job'[q] = job[q]
    BY <2>1, TwoFields DEF Discipline, Shapes
  <2>7. stmt' = [stmt EXCEPT ![p] = NoStmt]
    BY <2>2, <2>3 DEF Discipline, Shapes
  <2>. QED
    BY <2>2, <2>3, <2>4, <2>5, <2>6, <2>7, NotAnInsert, FirstPlan
<1>5. CASE FindWindow(p)
  <2>1. At(p, "find_window") /\ UNCHANGED shown
    BY <1>5 DEF FindWindow
  <2>2. JobOK(p, j) /\ TxOK(p) /\ ~Ended(p) /\ stmt[p] = NoStmt /\ "find_window" \in Steps(j.todo)
    BY <2>1, HeadOfJob
  <2>3. CASE Fail(p) /\ UNCHANGED job
    BY <2>1, <2>2, <2>3 DEF Stops
  <2>4. CASE ~(Fail(p) /\ UNCHANGED job)
    <3>1. PICK c, t : job' = [job EXCEPT ![p].create = c, ![p].todo = t] /\ UNCHANGED dbVars
      BY <1>5, <2>4 DEF FindWindow
    <3>2. UNCHANGED <<rows, tx, stmt, shown>>
      BY <2>1, <3>1 DEF dbVars
    <3>3. tx[p] = NoTx
      BY <2>2 DEF TxOK
    <3>4. "insert" \notin Steps(j.todo)
      BY <2>2, TupleOf1 DEF JobOK, Holds, Steps
    <3>5. \A q \in Requests : q # p => job'[q] = job[q]
      BY <3>1, TwoFields DEF Discipline, Shapes
    <3>6. stmt' = [stmt EXCEPT ![p] = NoStmt]
      BY <2>2, <3>2 DEF Discipline, Shapes
    <3>. QED
      BY <2>2, <3>2, <3>3, <3>4, <3>5, <3>6, NotAnInsert, FirstPlan
  <2>. QED
    BY <2>3, <2>4
<1>. QED
  BY <1>1, <1>2, <1>3, <1>4, <1>5 DEF LaterRead

LEMMA IngestPlans ==
    ASSUME Discipline, NEW p \in Requests,
           IgnoreDuplicate(p) \/ StoreEvent(p) \/ RecordFingerprint(p) \/ ComputeRisk(p)
    PROVE  Plans(p)
<1>. DEFINE j == job[p]
<1>1. PICK a \in IngestSteps : At(p, a)
  BY DEF IgnoreDuplicate, StoreEvent, RecordFingerprint, ComputeRisk, IngestSteps
<1>2. ~Ended(p) /\ stmt[p] = NoStmt /\ JobOK(p, j) /\ a \in Steps(j.todo)
  BY <1>1, HeadOfJob
<1>3. Len(j.todo) = 1 /\ ~IsAdmin(j.by)
  BY <1>2 DEF JobOK, Script
<1>4. ToCreate(j) = {}
  <2>1. "insert" \notin Steps(j.todo)
    BY <1>2, <1>3 DEF Steps, IngestSteps
  <2>. QED
    BY <2>1 DEF ToCreate
<1>5. PICK c, t : \/ job' = [job EXCEPT ![p].create = c, ![p].todo = t]
                  \/ job' = [job EXCEPT ![p].todo = t]
  BY DEF IgnoreDuplicate, StoreEvent, RecordFingerprint, ComputeRisk
<1>6. /\ job'[p].by = j.by /\ job'[p].do = j.do
      /\ \A q \in Requests : q # p => job'[q] = job[q]
  <2>1. CASE job' = [job EXCEPT ![p].create = c, ![p].todo = t]
    <3>. DEFINE k == [do |-> j.do, by |-> j.by, todo |-> t, entity |-> j.entity, create |-> c, walk |-> j.walk]
    <3>1. job' = [job EXCEPT ![p] = k]
      BY <2>1, TwoFields
    <3>2. k.by = j.by /\ k.do = j.do
      OBVIOUS
    <3>. HIDE DEF k
    <3>. QED
      BY <3>1, <3>2 DEF Discipline, Shapes
  <2>2. CASE job' = [job EXCEPT ![p].todo = t]
    <3>. DEFINE k == [j EXCEPT !.todo = t]
    <3>1. job' = [job EXCEPT ![p] = k]
      BY <2>2
    <3>2. k = [do |-> j.do, by |-> j.by, todo |-> t, entity |-> j.entity, create |-> j.create, walk |-> j.walk]
      <4>1. j = [do |-> j.do, by |-> j.by, todo |-> j.todo, entity |-> j.entity,
                 create |-> j.create, walk |-> j.walk]
        BY DEF Discipline, JobOK, IsJob
      <4>. QED
        BY <4>1, JobRecord
    <3>3. k.by = j.by /\ k.do = j.do
      BY <3>2
    <3>. HIDE DEF k
    <3>. QED
      BY <3>1, <3>3 DEF Discipline, Shapes
  <2>. QED
    BY <1>5, <2>1, <2>2
<1>7. UNCHANGED <<rows, tx, shown>>
  BY DEF IgnoreDuplicate, StoreEvent, RecordFingerprint, ComputeRisk, dbVars
<1>8. \E s : Issue(p, s) /\ (StoreEvent(p) \/ s.do # "insert")
  <2>1. CASE UNCHANGED stmt
    <3>1. stmt' = [stmt EXCEPT ![p] = NoStmt]
      BY <1>2, <2>1 DEF Discipline, Shapes
    <3>. QED
      BY <3>1, NotAnInsert DEF Issue
  <2>2. CASE StoreEvent(p)
    BY <2>2 DEF StoreEvent
  <2>3. CASE ComputeRisk(p)
    BY <2>3, NotAnInsert DEF ComputeRisk, Compute
  <2>. QED
    BY <2>1, <2>2, <2>3 DEF IgnoreDuplicate, RecordFingerprint, dbVars
<1>9. PICK s : Issue(p, s) /\ (StoreEvent(p) \/ s.do # "insert")
  BY <1>8
<1>10. stmt'[p] = s /\ \A q \in Requests : q # p => stmt'[q] = stmt[q]
  BY <1>9 DEF Discipline, Shapes, Issue
<1>11. ~Unlogged(p)'
  BY <1>3, <1>6 DEF Unlogged
<1>. QED
  BY <1>2, <1>4, <1>6, <1>7, <1>9, <1>10, <1>11 DEF Plans

-----------------------------------------------------------------------------
\* p's statement writes: what stands for the rows of removed is added.
Writes(p, removed, added, s) ==
    /\ Free(p) /\ Write(p, removed, added) /\ Issue(p, s) /\ UNCHANGED <<rows, job, shown>>

Updated(p) ==
    /\ stmt[p].do = "update"
    /\ \A x \in NewVersions(p), y \in View(p) : ~SameKey(x, y)
    /\ Writes(p, Ids(NewVersions(p)), NewVersions(p), NoStmt)

Hit(p)      == Ids({x \in View(p) : x.id \in stmt[p].ids})
Children(p) == {x \in View(p) : Parents(x) \cap Hit(p) # {}}
Removed(p) ==
    /\ stmt[p].do = "delete"
    /\ Writes(p, Hit(p), {}, IF Children(p) = {} THEN NoStmt ELSE Delete(Ids(Children(p)), FALSE))

Added(p) ==
    /\ stmt[p].do = "insert"
    /\ Parents(stmt[p].new) \subseteq Ids(View(p))
    /\ \A y \in View(p) : KeyOf(y) # KeyOf(stmt[p].new)
    /\ Writes(p, {}, {stmt[p].new}, NoStmt)

LEMMA KindsOfSteps ==
    ASSUME Discipline, NEW p \in Requests,
           Call(p) \/ Abandon(p) \/ ProctoringBegin(p) \/ RequestStep(p)
    PROVE  Plans(p) \/ Stops(p) \/ Updated(p) \/ Removed(p) \/ Added(p) \/ Commit(p) \/ Rollback(p)
<1>1. CASE Call(p) \/ ProctoringBegin(p)
  <2>1. Shapes
    BY DEF Discipline
  <2>. QED
    BY <1>1, <2>1, AdminOpens, CatalogOpens, OpensPlans, CandidatePlans, AccountPlans, ProctoringPlans DEF Call
<1>2. CASE Abandon(p) \/ CloseSession(p) \/ EndFailed(p)
  BY <1>2 DEF Abandon, CloseSession, EndFailed
<1>3. CASE Execute(p)
  <2>1. stmt[p].do \in {"insert", "update", "delete"} => ~Ended(p)
    BY Executing
  <2>2. Free(p) => ~Ended(p)
    BY <2>1 DEF Free
  <2>3. CASE ExecUpdate(p)
    BY <1>3, <2>2, <2>3 DEF ExecUpdate, Execute, Stops, Updated, Writes
  <2>4. CASE ExecDelete(p)
    BY <1>3, <2>2, <2>4 DEF ExecDelete, Execute, Stops, Removed, Writes, Hit, Children
  <2>5. CASE ExecInsert(p)
    BY <1>3, <2>2, <2>5 DEF ExecInsert, Execute, Stops, Added, Writes
  <2>6. CASE BreakDeadlock(p)
    <3>1. stmt[p].do \in {"insert", "update", "delete"}
      BY <2>6 DEF BreakDeadlock, Blocks
    <3>. QED
      BY <1>3, <2>1, <2>6, <3>1 DEF BreakDeadlock, Execute, Stops
  <2>. QED
    BY <1>3, <2>3, <2>4, <2>5, <2>6 DEF Execute
<1>4. CASE SharedStep(p)
  BY <1>4, FlushPlans, OwnPlans, InsertPlans DEF SharedStep
<1>5. CASE OwnStep(p)
  <2>1. CASE Raise(p)
    BY <2>1, HeadOfJob DEF Raise, Stops
  <2>. QED
    BY <1>5, <2>1, OwnPlans DEF OwnStep
<1>6. CASE LaterRead(p)
  BY <1>6, LaterReadPlans
<1>7. CASE ProctoringStep(p)
  BY <1>7, LaterReadPlans, IngestPlans DEF ProctoringStep
<1>. QED
  BY <1>1, <1>2, <1>3, <1>4, <1>5, <1>6, <1>7 DEF RequestStep, GoOn

-----------------------------------------------------------------------------
(***************************************************************************)
(* What the kinds of steps change.                                         *)
(***************************************************************************)
\* All that a step of p leaves alone.
OnlyOf(p) ==
    \A q \in Requests : q # p => job'[q] = job[q] /\ stmt'[q] = stmt[q] /\ tx'[q] = tx[q]

LEMMA PlansChange ==
    ASSUME NEW p \in Requests, Plans(p)
    PROVE  OnlyOf(p) /\ tx'[p] = tx[p] /\ UNCHANGED rows
BY DEF Plans, OnlyOf

LEMMA StopsChange ==
    ASSUME Discipline, NEW p \in Requests, Stops(p)
    PROVE  OnlyOf(p) /\ tx'[p] = tx[p] /\ job'[p] = job[p] /\ stmt'[p].do = "failed" /\ UNCHANGED rows
BY NotAnInsert DEF Stops, Fail, Issue, OnlyOf, Discipline, Shapes

LEMMA WritesChange ==
    ASSUME Discipline, NEW p \in Requests, NEW removed, NEW added, NEW s, Writes(p, removed, added, s)
    PROVE  /\ OnlyOf(p) /\ job'[p] = job[p] /\ stmt'[p] = s /\ UNCHANGED rows
           /\ tx'[p].adds = {x \in tx[p].adds : x.id \notin removed} \cup added
           /\ tx'[p].gone = tx[p].gone \cup removed
           /\ \A q \in Requests : ~Blocks(q, p)
BY DEF Writes, Write, Issue, Free, OnlyOf, Discipline, Shapes

LEMMA UpdatedChange ==
    ASSUME Discipline, NEW p \in Requests, Updated(p)
    PROVE  /\ OnlyOf(p) /\ job'[p] = job[p] /\ stmt'[p] = NoStmt /\ UNCHANGED rows
           /\ tx'[p].adds = {x \in tx[p].adds : x.id \notin Ids(NewVersions(p))} \cup NewVersions(p)
           /\ tx'[p].gone = tx[p].gone \cup Ids(NewVersions(p))
           /\ stmt[p].do = "update" /\ \A q \in Requests : ~Blocks(q, p)
           /\ \A x \in NewVersions(p), y \in View(p) : ~SameKey(x, y)
<1>. DEFINE new == NewVersions(p)
            ids == Ids(NewVersions(p))
<1>1. Writes(p, ids, new, NoStmt)
  BY DEF Updated
<1>2. stmt[p].do = "update" /\ \A x \in NewVersions(p), y \in View(p) : ~SameKey(x, y)
  BY DEF Updated
<1>. HIDE DEF ids, new
<1>3. /\ OnlyOf(p) /\ job'[p] = job[p] /\ stmt'[p] = NoStmt /\ UNCHANGED rows
      /\ tx'[p].adds = {x \in tx[p].adds : x.id \notin ids} \cup new
      /\ tx'[p].gone = tx[p].gone \cup ids
      /\ \A q \in Requests : ~Blocks(q, p)
  BY <1>1, WritesChange
<1>. QED
  BY <1>2, <1>3 DEF ids, new

LEMMA RemovedChange ==
    ASSUME Discipline, NEW p \in Requests, Removed(p)
    PROVE  /\ OnlyOf(p) /\ job'[p] = job[p] /\ UNCHANGED rows
           /\ stmt'[p] = IF Children(p) = {} THEN NoStmt ELSE Delete(Ids(Children(p)), FALSE)
           /\ tx'[p].adds = {x \in tx[p].adds : x.id \notin Hit(p)}
           /\ tx'[p].gone = tx[p].gone \cup Hit(p)
           /\ stmt[p].do = "delete" /\ \A q \in Requests : ~Blocks(q, p)
<1>. DEFINE hit == Hit(p)
            s == IF Children(p) = {} THEN NoStmt ELSE Delete(Ids(Children(p)), FALSE)
            none == {}
<1>1. Writes(p, hit, none, s)
  BY DEF Removed
<1>2. stmt[p].do = "delete" /\ none = {}
  BY DEF Removed
<1>. HIDE DEF hit, s, none
<1>3. /\ OnlyOf(p) /\ job'[p] = job[p] /\ stmt'[p] = s /\ UNCHANGED rows
      /\ tx'[p].adds = {x \in tx[p].adds : x.id \notin hit} \cup none
      /\ tx'[p].gone = tx[p].gone \cup hit
      /\ \A q \in Requests : ~Blocks(q, p)
  BY <1>1, WritesChange
<1>. QED
  BY <1>2, <1>3 DEF hit, s

LEMMA AddedChange ==
    ASSUME Discipline, NEW p \in Requests, Added(p)
    PROVE  /\ OnlyOf(p) /\ job'[p] = job[p] /\ stmt'[p] = NoStmt /\ UNCHANGED rows
           /\ tx'[p].adds = tx[p].adds \cup {stmt[p].new}
           /\ tx'[p].gone = tx[p].gone
           /\ stmt[p].do = "insert" /\ \A q \in Requests : ~Blocks(q, p)
           /\ Parents(stmt[p].new) \subseteq Ids(View(p))
           /\ \A y \in View(p) : KeyOf(y) # KeyOf(stmt[p].new)
<1>. DEFINE none == {}
            added == {stmt[p].new}
<1>1. Writes(p, none, added, NoStmt)
  BY DEF Added
<1>2. /\ stmt[p].do = "insert" /\ none = {} /\ Parents(stmt[p].new) \subseteq Ids(View(p))
      /\ \A y \in View(p) : KeyOf(y) # KeyOf(stmt[p].new)
  BY DEF Added
<1>. HIDE DEF none, added
<1>3. /\ OnlyOf(p) /\ job'[p] = job[p] /\ stmt'[p] = NoStmt /\ UNCHANGED rows
      /\ tx'[p].adds = {x \in tx[p].adds : x.id \notin none} \cup added
      /\ tx'[p].gone = tx[p].gone \cup none
      /\ \A q \in Requests : ~Blocks(q, p)
  BY <1>1, WritesChange
<1>. QED
  BY <1>2, <1>3 DEF added

LEMMA EndsChange ==
    ASSUME Discipline, NEW p \in Requests, Commit(p) \/ Rollback(p)
    PROVE  /\ OnlyOf(p) /\ job'[p] = Done(p) /\ stmt'[p] = NoStmt /\ tx'[p].adds = {} /\ tx'[p].gone = {}
           /\ tx'[p] = NoTx /\ job'[p].by = Nobody /\ ToCreate(job'[p]) = {}
<1>1. Shapes
  BY DEF Discipline
<1>2. job' = [job EXCEPT ![p] = Done(p)] /\ tx' = [tx EXCEPT ![p] = NoTx]
  BY DEF Commit, CommitTx, Rollback, RollbackTx, End, Done
<1>3. stmt'[p] = NoStmt /\ \A q \in Requests : q # p => stmt'[q] = stmt[q]
  BY <1>1 DEF Commit, CommitTx, Rollback, RollbackTx, Issue, Shapes
<1>4. NoTx.adds = {} /\ NoTx.gone = {}
  BY DEF NoTx
<1>. QED
  BY <1>1, <1>2, <1>3, <1>4, DoneIsOver DEF OnlyOf, Shapes

\* What p commits.
LEMMA CommitChange ==
    ASSUME Discipline, NEW p \in Requests, Commit(p)
    PROVE  /\ ~Ended(p) /\ stmt[p] = NoStmt /\ ToCreate(job[p]) = {}
           /\ \E added : /\ rows' = View(p) \cup added
                         /\ \A x \in added : /\ IsRow(x) /\ x.id = <<"audit", p>> /\ Table(x) = "audit"
                                             /\ \A y \in Versions : y.id # x.id
                         /\ \A x, y \in added : x = y
<1>1. PICK a \in {"commit", "log_and_commit"} : At(p, a)
  BY DEF Commit
<1>2. ~Ended(p) /\ stmt[p] = NoStmt /\ Steps(job[p].todo) = {a}
  BY <1>1, HeadOfJob DEF LastSteps
<1>3. ToCreate(job[p]) = {}
  BY <1>2 DEF ToCreate
<1>. DEFINE added == IF At(p, "commit") THEN {} ELSE {AuditRow(p)}
<1>4. rows' = View(p) \cup added
  BY DEF Commit, CommitTx
<1>5. \A x \in added : IsRow(x) /\ x.id = <<"audit", p>> /\ Table(x) = "audit" /\ \A y \in Versions : y.id # x.id
  BY <1>2, AuditRowIsNew
<1>6. \A x, y \in added : x = y
  OBVIOUS
<1>. QED
  BY <1>2, <1>3, <1>4, <1>5, <1>6

LEMMA RollbackChange ==
    ASSUME NEW p \in Requests, Rollback(p)
    PROVE  UNCHANGED rows
BY DEF Rollback, RollbackTx

\* Where the version an UPDATE makes comes from.
LEMMA NewVersionsOf ==
    ASSUME Discipline, NEW p \in Requests, stmt[p].do = "update", NEW x \in NewVersions(p)
    PROVE  \E y \in View(p) :
              /\ y.id \in stmt[p].ids /\ x = Assigned(y, stmt[p].cols)
              /\ x.id = y.id /\ Table(x) = Table(y) /\ Agree(x, y) /\ Agree(y, x)
              /\ IsRow(y) /\ IsRow(x) /\ y \in Versions /\ x.id \in stmt[p].ids
              /\ Table(x) \in Tables /\ Mutable[Table(x)] # {}
              /\ DOMAIN stmt[p].cols \subseteq Mutable[Table(x)]
              /\ \A c \in Columns[Table(y)] :
                    x[c] = IF c \in DOMAIN stmt[p].cols THEN stmt[p].cols[c] ELSE y[c]
<1>1. PICK y \in View(p) : y.id \in stmt[p].ids /\ x = Assigned(y, stmt[p].cols)
  BY DEF NewVersions
<1>2. /\ Fits(p, x) /\ x.id = y.id /\ Table(x) = Table(y) /\ Agree(x, y) /\ Agree(y, x)
      /\ Table(y) \in Tables /\ Mutable[Table(y)] # {}
  BY <1>1, UpdateFits DEF Table
<1>3. IsRow(y) /\ y \in Versions
  BY WhatIsSeen
<1>4. Updates(p, job[p], stmt[p])
  BY DEF Discipline, StmtOK
<1>5. /\ DOMAIN stmt[p].cols \subseteq Mutable[Table(y)]
      /\ Table(y) \in Personal /\ "active" \in DOMAIN stmt[p].cols => stmt[p].cols.active = FALSE
  BY <1>1, <1>4 DEF Updates, Table
<1>. DEFINE cols == stmt[p].cols
            n == Assigned(y, cols)
<1>6. \A c \in Columns[Table(y)] : n[c] = IF c \in DOMAIN cols THEN cols[c] ELSE y[c]
  <2>. HIDE DEF cols, n
  <2>1. DOMAIN cols \subseteq Mutable[Table(y)]
    BY <1>5 DEF cols
  <2>2. Table(y) \in Personal /\ "active" \in DOMAIN cols => cols.active = FALSE
    BY <1>5 DEF cols
  <2>. QED
    BY <1>3, <2>1, <2>2, AssignedRow DEF n
<1>. QED
  BY <1>1, <1>2, <1>3, <1>5, <1>6 DEF Fits

-----------------------------------------------------------------------------
(***************************************************************************)
(* Tenants.                                                                *)
(***************************************************************************)
LEMMA OwnRowsStay ==
    ASSUME Discipline, OwnRows, NEW p \in Requests,
           Plans(p) \/ Stops(p) \/ Updated(p) \/ Removed(p) \/ Added(p) \/ Commit(p) \/ Rollback(p)
    PROVE  OwnRows'
<1>. DEFINE Own(by, S) == Tenant(by) => \A x \in S : Table(x) \in OrgTables => x.org = by.org /\ by.role = "admin"
<1>0. Own(job[p].by, tx[p].adds)
  BY DEF OwnRows
<1>. SUFFICES OnlyOf(p) /\ Own(job'[p].by, tx'[p].adds)
  BY DEF OwnRows, OnlyOf
<1>1. CASE Plans(p)
  <2>1. CASE tx[p] = NoTx
    <3>1. NoTx.adds = {}
      BY DEF NoTx
    <3>. QED
      BY <1>1, <2>1, <3>1, PlansChange
  <2>2. CASE job'[p].by = job[p].by
    BY <1>0, <1>1, <2>2, PlansChange
  <2>. QED
    BY <1>1, <2>1, <2>2 DEF Plans
<1>2. CASE Stops(p)
  BY <1>0, <1>2, StopsChange
<1>3. CASE Updated(p)
  <2>1. /\ OnlyOf(p) /\ job'[p] = job[p]
        /\ tx'[p].adds = {x \in tx[p].adds : x.id \notin Ids(NewVersions(p))} \cup NewVersions(p)
    BY <1>3, UpdatedChange
  <2>2. ASSUME Tenant(job[p].by), NEW x \in NewVersions(p), Table(x) \in OrgTables
        PROVE  x.org = job[p].by.org /\ job[p].by.role = "admin"
    <3>0. stmt[p].do = "update"
      BY <1>3 DEF Updated
    <3>1. PICK y \in View(p) : /\ y.id \in stmt[p].ids /\ Table(x) = Table(y) /\ Agree(x, y) /\ y \in Versions
                               /\ Table(x) \in Tables
      BY <3>0, NewVersionsOf
    <3>2. Updates(p, job[p], stmt[p])
      BY <3>0 DEF Discipline, StmtOK
    <3>3. y.org = job[p].by.org /\ job[p].by.role = "admin"
      BY <2>2, <3>1, <3>2 DEF Updates
    <3>4. x.org = y.org
      BY <2>2, <3>1, FrozenColumns DEF Agree
    <3>. QED
      BY <3>3, <3>4
  <2>. QED
    BY <1>0, <2>1, <2>2
<1>4. CASE Removed(p)
  <2>1. OnlyOf(p) /\ job'[p] = job[p] /\ tx'[p].adds \subseteq tx[p].adds
    BY <1>4, RemovedChange
  <2>. QED
    BY <1>0, <2>1
<1>5. CASE Added(p)
  <2>1. OnlyOf(p) /\ job'[p] = job[p] /\ tx'[p].adds \subseteq tx[p].adds \cup {stmt[p].new}
    BY <1>5, AddedChange
  <2>2. NewRow(p, job[p].by, stmt[p].new) \/ NewEventRow(p, stmt[p].new)
    BY <1>5 DEF Added, Discipline, StmtOK
  <2>3. Own(job[p].by, {stmt[p].new})
    BY <2>2, OrgTableNames DEF NewRow, NewEventRow
  <2>. QED
    BY <1>0, <2>1, <2>3
<1>6. CASE Commit(p) \/ Rollback(p)
  BY <1>6, EndsChange
<1>. QED
  BY <1>1, <1>2, <1>3, <1>4, <1>5, <1>6

-----------------------------------------------------------------------------
(***************************************************************************)
(* Retired tokens.                                                         *)
(***************************************************************************)
LEMMA TokensAreKept == "token" \notin Deletable /\ "revoked" \in Columns["token"] /\ "token" \notin {"settings", "event"}
BY DEF Deletable, Columns, TokenColumns

LEMMA OnlyRetiredStays ==
    ASSUME Discipline, OnlyRetired, NEW p \in Requests,
           Plans(p) \/ Stops(p) \/ Updated(p) \/ Removed(p) \/ Added(p) \/ Commit(p) \/ Rollback(p)
    PROVE  OnlyRetired'
<1>. DEFINE Retired(t) == \A x \in t.adds : Table(x) = "token" /\ x.id \in t.gone => x.revoked = TRUE
<1>0. Retired(tx[p])
  BY DEF OnlyRetired
<1>. SUFFICES OnlyOf(p) /\ Retired(tx'[p])
  BY DEF OnlyRetired, OnlyOf
<1>1. CASE Plans(p) \/ Stops(p)
  BY <1>0, <1>1, PlansChange, StopsChange
<1>2. CASE Updated(p)
  <2>0. stmt[p].do = "update"
    BY <1>2 DEF Updated
  <2>1. /\ OnlyOf(p) /\ tx'[p].gone = tx[p].gone \cup Ids(NewVersions(p))
        /\ tx'[p].adds = {x \in tx[p].adds : x.id \notin Ids(NewVersions(p))} \cup NewVersions(p)
    BY <1>2, UpdatedChange
  <2>2. ASSUME NEW x \in NewVersions(p), Table(x) = "token" PROVE x.revoked = TRUE
    <3>1. PICK y \in View(p) :
             /\ Table(x) = Table(y) /\ x.id \in stmt[p].ids
             /\ \A c \in Columns[Table(y)] :
                   x[c] = IF c \in DOMAIN stmt[p].cols THEN stmt[p].cols[c] ELSE y[c]
      BY <2>0, NewVersionsOf
    <3>2. Updates(p, job[p], stmt[p])
      BY <2>0 DEF Discipline, StmtOK
    <3>3. "revoked" \in DOMAIN stmt[p].cols /\ stmt[p].cols["revoked"] = TRUE
      BY <2>2, <3>1, <3>2 DEF Updates, Table
    <3>. QED
      BY <2>2, <3>1, <3>3, TokensAreKept
  <2>. QED
    BY <1>0, <2>1, <2>2
<1>3. CASE Removed(p)
  <2>1. /\ OnlyOf(p) /\ tx'[p].gone = tx[p].gone \cup Hit(p)
        /\ tx'[p].adds = {x \in tx[p].adds : x.id \notin Hit(p)}
    BY <1>3, RemovedChange
  <2>. QED
    BY <1>0, <2>1
<1>4. CASE Added(p)
  <2>. DEFINE n == stmt[p].new
  <2>1. /\ OnlyOf(p) /\ tx'[p].gone = tx[p].gone
        /\ tx'[p].adds \subseteq tx[p].adds \cup {n}
    BY <1>4, AddedChange
  <2>2. Table(n) = "token" => n.id \notin tx[p].gone
    <3>. SUFFICES ASSUME Table(n) = "token", n.id \in tx[p].gone PROVE FALSE
      OBVIOUS
    <3>1. TxOK(p) /\ Unused(p)
      BY DEF Discipline
    <3>2. n.id \in Ids(tx[p].adds)
      BY <3>1, TokensAreKept DEF TxOK, Table, Ids
    <3>. QED
      BY <1>4, <3>1, <3>2, TokensAreKept DEF Added, Unused, Table
  <2>. QED
    BY <1>0, <2>1, <2>2
<1>5. CASE Commit(p) \/ Rollback(p)
  BY <1>5, EndsChange
<1>. QED
  BY <1>1, <1>2, <1>3, <1>4, <1>5

\* The tokens a step finds retired.
LEMMA RetiredStayRetired ==
    ASSUME Discipline, OnlyRetired, NEW p \in Requests,
           Plans(p) \/ Stops(p) \/ Updated(p) \/ Removed(p) \/ Added(p) \/ Commit(p) \/ Rollback(p),
           NEW k \in From("token", rows), k.revoked
    PROVE  \E l \in From("token", rows') : l.id = k.id /\ l.revoked
<1>1. CASE UNCHANGED rows
  BY <1>1
<1>2. CASE Commit(p)
  <2>1. View(p) \subseteq rows'
    BY <1>2, CommitChange
  <2>2. CASE k.id \notin tx[p].gone
    BY <2>1, <2>2 DEF View, From
  <2>3. CASE k.id \in tx[p].gone
    <3>1. TxOK(p) /\ Table(k) = "token" /\ Table(k) = k.id[1]
      BY DEF Discipline, From, Table
    <3>2. PICK x \in tx[p].adds : x.id = k.id
      BY <2>3, <3>1, TokensAreKept DEF TxOK
    <3>3. Table(x) = "token" /\ x.revoked = TRUE
      BY <2>3, <3>1, <3>2 DEF OnlyRetired, Table
    <3>. QED
      BY <2>1, <3>2, <3>3 DEF View, From
  <2>. QED
    BY <2>2, <2>3
<1>3. Plans(p) \/ Stops(p) \/ Updated(p) \/ Removed(p) \/ Added(p) \/ Rollback(p) => UNCHANGED rows
  BY RollbackChange DEF Plans, Stops, Fail, Updated, Removed, Added, Writes
<1>. QED
  BY <1>1, <1>2, <1>3

-----------------------------------------------------------------------------
(***************************************************************************)
(* From the layers to the properties.                                      *)
(***************************************************************************)
Kinds(p) == Plans(p) \/ Stops(p) \/ Updated(p) \/ Removed(p) \/ Added(p) \/ Commit(p) \/ Rollback(p)

LEMMA EveryStep ==
    ASSUME Discipline, [Next]_allVars
    PROVE  (\E p \in Requests : Kinds(p)) \/ UNCHANGED allVars
<1>1. ASSUME NEW p \in Requests, Call(p) \/ Abandon(p) \/ ProctoringBegin(p) \/ RequestStep(p)
      PROVE  Kinds(p)
  BY <1>1, KindsOfSteps DEF Kinds
<1>. QED
  BY <1>1 DEF Next, AllEnded

LEMMA NothingMoves == UNCHANGED allVars => UNCHANGED <<rows, tx, stmt, workload, job, shown>>
BY DEF allVars, vars

\* Before any call.
LEMMA Beginning ==
    ASSUME Init
    PROVE  /\ \E w \in Workloads : rows = w.rows
           /\ \A r \in Requests : /\ tx[r] = NoTx /\ tx[r].adds = {} /\ tx[r].gone = {}
                                  /\ stmt[r] = NoStmt /\ stmt[r].do = "none"
                                  /\ job[r].by = Nobody /\ ToCreate(job[r]) = {}
                                  /\ Inserting(stmt[r]) = {} /\ Product(r) = {}
                                  /\ View(r) = rows
<1>1. NoTx.adds = {} /\ NoTx.gone = {} /\ NoStmt.do = "none"
  BY DEF NoTx, NoStmt
<1>2. NewJob.by = Nobody /\ NewJob.todo = <<"begin">>
  BY DEF NewJob
<1>3. ToCreate(NewJob) = {}
  <2>. DEFINE t == <<"begin">>
  <2>1. Len(t) = 1 /\ t[1] = "begin"
    OBVIOUS
  <2>. HIDE DEF t
  <2>2. Steps(t) = {"begin"}
    BY <2>1 DEF Steps
  <2>3. "insert" \notin Steps(NewJob.todo)
    BY <1>2, <2>2 DEF t
  <2>. QED
    BY <2>3 DEF ToCreate
<1>4. Inserting(NoStmt) = {}
  BY <1>1 DEF Inserting
<1>5. ASSUME NEW r \in Requests PROVE tx[r] = NoTx /\ stmt[r] = NoStmt /\ job[r] = NewJob
  BY DEF Init
<1>6. \A r \in Requests : /\ tx[r].adds = {} /\ tx[r].gone = {} /\ stmt[r].do = "none"
                          /\ job[r].by = Nobody /\ ToCreate(job[r]) = {} /\ Inserting(stmt[r]) = {}
  BY <1>1, <1>2, <1>3, <1>4, <1>5
<1>7. \A r \in Requests : Product(r) = {} /\ View(r) = rows
  BY <1>6 DEF Product, View
<1>. QED
  BY <1>5, <1>6, <1>7 DEF Init

LEMMA OwnRowsAlways == Spec => [](Discipline /\ OwnRows)
<1>1. Init => Discipline /\ OwnRows
  BY InitDiscipline, Beginning DEF OwnRows
<1>2. Discipline /\ OwnRows /\ [Next]_allVars => Discipline' /\ OwnRows'
  <2>. SUFFICES ASSUME Discipline, OwnRows, [Next]_allVars PROVE OwnRows'
    BY NextDiscipline
  <2>1. ASSUME UNCHANGED allVars PROVE OwnRows'
    BY <2>1, NothingMoves DEF OwnRows
  <2>2. ASSUME NEW p \in Requests, Kinds(p) PROVE OwnRows'
    BY <2>2, OwnRowsStay DEF Kinds
  <2>. QED
    BY <2>1, <2>2, EveryStep
<1>. QED
  BY <1>1, <1>2, PTL DEF Spec

\* No administrator's request writes a row of an organization it does not act
\* for, and none holds an entity of another tenant.
THEOREM TenantsAreAlwaysSeparate == Spec => []TenantsAreSeparate
<1>1. Discipline /\ OwnRows => TenantsAreSeparate
  <2>. SUFFICES ASSUME Discipline, OwnRows, NEW r \in Requests, Tenant(job[r].by)
                PROVE  /\ \A x \in tx[r].adds : "org" \in DOMAIN x =>
                             x.org = job[r].by.org /\ job[r].by.role = "admin"
                       /\ "org" \in DOMAIN job[r].entity =>
                             job[r].entity.org \in {job[r].by.org, SuperOrg}
    BY DEF TenantsAreSeparate, Tenant
  <2>1. JobOK(r, job[r]) /\ TxOK(r)
    BY DEF Discipline
  <2>2. "org" \in DOMAIN job[r].entity => job[r].entity.org \in {job[r].by.org, SuperOrg}
    BY <2>1 DEF JobOK, Holds
  <2>3. ASSUME NEW x \in tx[r].adds, "org" \in DOMAIN x
        PROVE  x.org = job[r].by.org /\ job[r].by.role = "admin"
    <3>1. IsRow(x)
      BY <2>1 DEF TxOK
    <3>2. Table(x) \in OrgTables
      BY <2>3, <3>1 DEF IsRow, OrgTables, Tables
    <3>. QED
      BY <3>2 DEF OwnRows
  <2>. QED
    BY <2>2, <2>3
<1>. QED
  BY <1>1, OwnRowsAlways, PTL

LEMMA OnlyRetiredAlways == Spec => [](Discipline /\ OnlyRetired)
<1>1. Init => Discipline /\ OnlyRetired
  BY InitDiscipline, Beginning DEF OnlyRetired
<1>2. Discipline /\ OnlyRetired /\ [Next]_allVars => Discipline' /\ OnlyRetired'
  <2>. SUFFICES ASSUME Discipline, OnlyRetired, [Next]_allVars PROVE OnlyRetired'
    BY NextDiscipline
  <2>1. ASSUME UNCHANGED allVars PROVE OnlyRetired'
    BY <2>1, NothingMoves DEF OnlyRetired
  <2>2. ASSUME NEW p \in Requests, Kinds(p) PROVE OnlyRetired'
    BY <2>2, OnlyRetiredStays DEF Kinds
  <2>. QED
    BY <2>1, <2>2, EveryStep
<1>. QED
  BY <1>1, <1>2, PTL DEF Spec

\* A refresh token that is stored as retired stays retired, whichever requests
\* read it before.
THEOREM RetiredTokensStayRetired == Spec => RevokedStays
<1>1. Discipline /\ OnlyRetired /\ [Next]_allVars =>
        [\A k \in From("token", rows) :
            k.revoked => \E l \in From("token", rows') : l.id = k.id /\ l.revoked]_allVars
  <2>. SUFFICES ASSUME Discipline, OnlyRetired, [Next]_allVars, ~UNCHANGED allVars,
                       NEW k \in From("token", rows), k.revoked
                PROVE  \E l \in From("token", rows') : l.id = k.id /\ l.revoked
    OBVIOUS
  <2>1. PICK p \in Requests : Kinds(p)
    BY EveryStep
  <2>. QED
    BY <2>1, RetiredStayRetired DEF Kinds
<1>. QED
  BY <1>1, OnlyRetiredAlways, PTL DEF Spec, RevokedStays

-----------------------------------------------------------------------------
(***************************************************************************)
(* Keys.                                                                   *)
(***************************************************************************)
\* A key names its table.
LEMMA KeyNamesTable ==
    ASSUME NEW x
    PROVE  KeyOf(x)[1] = Table(x)
<1>1. x.id[1] = Table(x)
  BY DEF Table
<1>2. CASE Table(x) = "template"
  BY <1>2 DEF KeyOf
<1>3. CASE Table(x) \in {"rubric", "role", "topic"}
  BY <1>3 DEF KeyOf
<1>4. CASE Table(x) = "coding_topic" /\ x.parent # None
  BY <1>4 DEF KeyOf
<1>5. CASE Table(x) = "override"
  BY <1>5 DEF KeyOf
<1>6. CASE Table(x) = "mapping"
  BY <1>6 DEF KeyOf
<1>7. CASE Table(x) \in {"deck", "roadmap"} /\ x.active
  BY <1>7 DEF KeyOf
<1>8. CASE Table(x) = "user"
  BY <1>8 DEF KeyOf
<1>9. CASE Table(x) \in {"admin", "candidate"}
  BY <1>9 DEF KeyOf
<1>10. CASE /\ Table(x) \notin {"template", "rubric", "role", "topic", "override", "mapping", "user", "admin", "candidate"}
            /\ ~(Table(x) = "coding_topic" /\ x.parent # None)
            /\ ~(Table(x) \in {"deck", "roadmap"} /\ x.active)
  <2>1. KeyOf(x) = x.id
    BY <1>10 DEF KeyOf
  <2>. QED
    BY <1>1, <2>1
<1>. QED
  BY <1>2, <1>3, <1>4, <1>5, <1>6, <1>7, <1>8, <1>9, <1>10

\* Tables whose only key is the id.
LEMMA KeyIsId ==
    ASSUME NEW x,
           \/ Table(x) \in {"audit", "settings", "event"}
           \/ Table(x) \in Personal /\ x.active = FALSE
    PROVE  KeyOf(x) = x.id
BY DEF KeyOf, Personal

\* A key does not depend on what else changes of a row.
LEMMA SameColumnsSameKey ==
    ASSUME NEW x, NEW y, IsRow(x), IsRow(y), x.id = y.id,
           \A c \in Columns[Table(y)] : c \notin {"revoked", "active"} => x[c] = y[c],
           Table(y) \in Personal => x.active = y.active
    PROVE  KeyOf(x) = KeyOf(y)
<1>1. Table(x) = Table(y) /\ Table(y) \in Tables
  BY DEF Table, IsRow, Tables
<1>2. CASE Table(y) = "template"
  <2>1. {"org", "name", "version"} \subseteq Columns["template"]
    BY DEF Columns, TemplateColumns
  <2>2. x.org = y.org /\ x.name = y.name /\ x.version = y.version
    BY <1>2, <2>1
  <2>. QED
    BY <1>1, <1>2, <2>2 DEF KeyOf
<1>3. CASE Table(y) \in {"rubric", "role", "topic"}
  <2>1. {"org", "name"} \subseteq Columns[Table(y)]
    BY <1>3 DEF Columns, RubricColumns, RoleColumns, TopicColumns
  <2>2. x.org = y.org /\ x.name = y.name
    BY <2>1
  <2>. QED
    BY <1>1, <1>3, <2>2 DEF KeyOf
<1>4. CASE Table(y) = "coding_topic"
  <2>1. {"org", "name", "parent"} \subseteq Columns["coding_topic"]
    BY DEF Columns, CodingTopicColumns
  <2>2. x.org = y.org /\ x.name = y.name /\ x.parent = y.parent
    BY <1>4, <2>1
  <2>3. CASE y.parent # None
    BY <1>1, <1>4, <2>2, <2>3 DEF KeyOf
  <2>4. CASE y.parent = None
    <3>1. KeyOf(x) = x.id /\ KeyOf(y) = y.id
      BY <1>1, <1>4, <2>2, <2>4 DEF KeyOf
    <3>. QED
      BY <3>1
  <2>. QED
    BY <2>3, <2>4
<1>5. CASE Table(y) = "override"
  <2>1. {"org", "base"} \subseteq Columns["override"]
    BY DEF Columns, OverrideColumns
  <2>2. x.org = y.org /\ x.base = y.base
    BY <1>5, <2>1
  <2>. QED
    BY <1>1, <1>5, <2>2 DEF KeyOf
<1>6. CASE Table(y) = "mapping"
  <2>1. {"window", "role", "template"} \subseteq Columns["mapping"]
    BY DEF Columns, MappingColumns
  <2>2. x.window = y.window /\ x.role = y.role /\ x.template = y.template
    BY <1>6, <2>1
  <2>. QED
    BY <1>1, <1>6, <2>2 DEF KeyOf
<1>7. CASE Table(y) = "user"
  <2>1. "email" \in Columns["user"]
    BY DEF Columns, UserColumns
  <2>. QED
    BY <1>1, <1>7, <2>1 DEF KeyOf
<1>8. CASE Table(y) \in {"admin", "candidate"}
  <2>1. "user" \in Columns[Table(y)]
    BY <1>8 DEF Columns, AdminColumns, CandidateColumns
  <2>2. x.user = y.user
    BY <2>1
  <2>. QED
    BY <1>1, <1>8, <2>2 DEF KeyOf
<1>9. CASE Table(y) \in Personal
  <2>1. x.active = y.active /\ y.active \in BOOLEAN
    BY <1>9 DEF IsRow, Personal
  <2>2. CASE y.active = TRUE
    BY <1>1, <1>9, <2>1, <2>2 DEF KeyOf, Personal
  <2>3. CASE y.active = FALSE
    BY <1>1, <1>9, <2>1, <2>3, KeyIsId
  <2>. QED
    BY <2>1, <2>2, <2>3
<1>10. CASE Table(y) \notin {"template", "rubric", "role", "topic", "coding_topic", "override", "mapping",
                             "user", "admin", "candidate"} \cup Personal
  <2>1. KeyOf(x) = x.id /\ KeyOf(y) = y.id
    BY <1>1, <1>10 DEF KeyOf, Personal
  <2>. QED
    BY <2>1
<1>. QED
  BY <1>2, <1>3, <1>4, <1>5, <1>6, <1>7, <1>8, <1>9, <1>10

\* What a transaction sees has no key twice.
LEMMA ViewKeys ==
    ASSUME Isolated, NEW p \in Requests
    PROVE  \A x, y \in View(p) : x # y => Apart(x, y)
BY DEF Isolated, View, KeysAreUnique, Apart

LEMMA IsolatedWrites ==
    ASSUME Isolated, NEW p \in Requests, OnlyOf(p), UNCHANGED rows, NEW removed, NEW added,
           tx'[p].adds = {x \in tx[p].adds : x.id \notin removed} \cup added,
           tx'[p].gone = tx[p].gone \cup removed,
           \A x, y \in added : x # y => Apart(x, y),
           \A x \in added, y \in View(p) : y.id \notin removed => Apart(x, y),
           \A q \in Requests \ {p} : /\ removed \cap tx[q].gone = {}
                                     /\ \A x \in added, y \in tx[q].adds : Apart(x, y)
    PROVE  Isolated'
<1>0. \A x, y : Apart(x, y) => Apart(y, x)
  BY DEF Apart
<1>1. KeysAreUnique(rows')
  BY DEF Isolated
<1>2. ASSUME NEW r \in Requests PROVE \A x, y \in tx'[r].adds : x # y => Apart(x, y)
  <2>1. \A x, y \in tx[r].adds : x # y => Apart(x, y)
    BY DEF Isolated, KeysAreUnique, Apart
  <2>2. CASE r # p
    BY <2>1, <2>2 DEF OnlyOf
  <2>3. CASE r = p
    <3>1. \A x \in tx[p].adds : x \in View(p)
      BY DEF View
    <3>. QED
      BY <1>0, <2>1, <2>3, <3>1
  <2>. QED
    BY <2>2, <2>3
<1>3. ASSUME NEW r \in Requests, NEW x \in tx'[r].adds, NEW y \in rows', y.id \notin tx'[r].gone
      PROVE  Apart(x, y)
  <2>1. CASE r # p
    BY <1>3, <2>1 DEF OnlyOf, Isolated
  <2>2. CASE r = p /\ x \in tx[p].adds
    BY <1>3, <2>2 DEF Isolated
  <2>3. CASE r = p /\ x \in added
    <3>1. y \in View(p) /\ y.id \notin removed
      BY <1>3, <2>3 DEF View
    <3>. QED
      BY <2>3, <3>1
  <2>. QED
    BY <1>3, <2>1, <2>2, <2>3
<1>4. ASSUME NEW q \in Requests, NEW r \in Requests, q # r
      PROVE  /\ tx'[q].gone \cap tx'[r].gone = {}
             /\ \A x \in tx'[q].adds, y \in tx'[r].adds : Apart(x, y)
  <2>1. tx[q].gone \cap tx[r].gone = {} /\ \A x \in tx[q].adds, y \in tx[r].adds : Apart(x, y)
    BY <1>4 DEF Isolated
  <2>2. CASE q = p
    <3>1. tx'[r] = tx[r] /\ r \in Requests \ {p}
      BY <1>4, <2>2 DEF OnlyOf
    <3>. QED
      BY <2>1, <2>2, <3>1
  <2>3. CASE r = p
    <3>1. tx'[q] = tx[q] /\ q \in Requests \ {p}
      BY <1>4, <2>3 DEF OnlyOf
    <3>. QED
      BY <1>0, <2>1, <2>3, <3>1
  <2>4. CASE q # p /\ r # p
    BY <2>1, <2>4 DEF OnlyOf
  <2>. QED
    BY <2>2, <2>3, <2>4
<1>5. \A x, y : Apart(x, y)' <=> Apart(x, y)
  BY DEF Apart
<1>. QED
  BY <1>1, <1>2, <1>3, <1>4, <1>5 DEF Isolated, KeysAreUnique, Apart

LEMMA IsolatedUpdated ==
    ASSUME Discipline, Isolated, NEW p \in Requests, Updated(p)
    PROVE  Isolated'
<1>. DEFINE N == NewVersions(p)
            ids == Ids(N)
            cols == stmt[p].cols
<1>1. /\ OnlyOf(p) /\ UNCHANGED rows
      /\ tx'[p].adds = {x \in tx[p].adds : x.id \notin ids} \cup N
      /\ tx'[p].gone = tx[p].gone \cup ids
      /\ stmt[p].do = "update" /\ \A q \in Requests : ~Blocks(q, p)
      /\ \A x \in N, y \in View(p) : ~SameKey(x, y)
  BY UpdatedChange
<1>2. \A x \in N : x.id \in ids
  BY DEF Ids
<1>3. ASSUME NEW x \in N
      PROVE  \E y \in View(p) : /\ y.id \in stmt[p].ids /\ x = Assigned(y, cols) /\ x.id = y.id
                                /\ IsRow(x) /\ IsRow(y) /\ Table(x) = Table(y)
                                /\ DOMAIN cols \subseteq Mutable[Table(x)]
                                /\ \A c \in Columns[Table(y)] :
                                      x[c] = IF c \in DOMAIN cols THEN cols[c] ELSE y[c]
  BY <1>1, <1>3, NewVersionsOf
<1>4. ids \subseteq stmt[p].ids
  BY <1>3 DEF Ids
<1>5. Updates(p, job[p], stmt[p])
  BY <1>1 DEF Discipline, StmtOK
<1>. HIDE DEF N, ids, cols
<1>6. ASSUME NEW x \in N, NEW y \in N, x # y PROVE Apart(x, y)
  <2>1. PICK x0 \in View(p) :
           /\ x0.id \in stmt[p].ids /\ x = Assigned(x0, cols) /\ x.id = x0.id
           /\ IsRow(x) /\ IsRow(x0) /\ Table(x) = Table(x0) /\ DOMAIN cols \subseteq Mutable[Table(x)]
           /\ \A c \in Columns[Table(x0)] : x[c] = IF c \in DOMAIN cols THEN cols[c] ELSE x0[c]
    BY <1>3
  <2>2. PICK y0 \in View(p) :
           /\ y0.id \in stmt[p].ids /\ y = Assigned(y0, cols) /\ y.id = y0.id
           /\ IsRow(y) /\ IsRow(y0) /\ Table(y) = Table(y0) /\ DOMAIN cols \subseteq Mutable[Table(y)]
           /\ \A c \in Columns[Table(y0)] : y[c] = IF c \in DOMAIN cols THEN cols[c] ELSE y0[c]
    BY <1>3
  <2>3. x0 # y0
    BY <1>6, <2>1, <2>2
  <2>4. x0.id # y0.id /\ KeyOf(x0) # KeyOf(y0)
    BY <2>3, ViewKeys DEF Apart
  <2>5. KeyOf(x)[1] = Table(x) /\ KeyOf(y)[1] = Table(y) /\ x.id[1] = Table(x) /\ y.id[1] = Table(y)
    BY KeyNamesTable DEF Table
  <2>6. CASE \A id, other \in stmt[p].ids : id = other
    BY <2>1, <2>2, <2>4, <2>6
  <2>7. CASE cols = [active |-> FALSE]
    <3>1. /\ DOMAIN cols = {"active"} /\ cols.active = FALSE /\ cols["active"] = FALSE
      BY <2>7
    <3>2. "active" \in Columns["deck"] /\ "active" \in Columns["roadmap"]
      BY DEF Columns, PersonalColumns
    <3>3. Table(x) \in Personal => KeyOf(x) = x.id
      BY <2>1, <3>1, <3>2, KeyIsId DEF Personal
    <3>4. Table(y) \in Personal => KeyOf(y) = y.id
      BY <2>2, <3>1, <3>2, KeyIsId DEF Personal
    <3>5. Table(x) \notin Personal => KeyOf(x) = KeyOf(x0)
      BY <2>1, <3>1, SameColumnsSameKey
    <3>6. Table(y) \notin Personal => KeyOf(y) = KeyOf(y0)
      BY <2>2, <3>1, SameColumnsSameKey
    <3>. QED
      BY <2>1, <2>2, <2>4, <2>5, <3>3, <3>4, <3>5, <3>6 DEF Apart
  <2>8. CASE cols = [revoked |-> TRUE]
    <3>1. DOMAIN cols = {"revoked"}
      BY <2>8
    <3>2. "active" \in Columns["deck"] /\ "active" \in Columns["roadmap"]
      BY DEF Columns, PersonalColumns
    <3>3. KeyOf(x) = KeyOf(x0)
      BY <2>1, <3>1, <3>2, SameColumnsSameKey DEF Personal
    <3>4. KeyOf(y) = KeyOf(y0)
      BY <2>2, <3>1, <3>2, SameColumnsSameKey DEF Personal
    <3>. QED
      BY <2>1, <2>2, <2>4, <3>3, <3>4 DEF Apart
  <2>. QED
    BY <1>5, <2>6, <2>7, <2>8 DEF Updates, cols
<1>7. ASSUME NEW x \in N, NEW y \in View(p), y.id \notin ids PROVE Apart(x, y)
  BY <1>1, <1>2, <1>7 DEF SameKey, Apart
<1>8. ASSUME NEW q \in Requests \ {p}
      PROVE  ids \cap tx[q].gone = {} /\ \A x \in N, y \in tx[q].adds : Apart(x, y)
  <2>1. /\ stmt[p].ids \cap tx[q].gone = {}
        /\ \A y \in Undecided(q), x \in N : ~SameKey(y, x)
    BY <1>1 DEF Blocks, N
  <2>2. ASSUME NEW x \in N, NEW y \in tx[q].adds PROVE Apart(x, y)
    <3>1. PICK x0 \in View(p) : x0.id \in stmt[p].ids /\ x.id = x0.id
      BY <1>3
    <3>4. Apart(y, x0)
      <4>1. \A u, v : Apart(u, v) => Apart(v, u)
        BY DEF Apart
      <4>2. CASE x0 \in tx[p].adds
        BY <4>2 DEF Isolated
      <4>3. CASE x0 \in rows
        BY <2>1, <3>1, <4>3 DEF Isolated
      <4>. QED
        BY <4>2, <4>3 DEF View
    <3>5. y \in Undecided(q)
      BY DEF Undecided
    <3>. QED
      BY <2>1, <3>1, <3>4, <3>5 DEF SameKey, Apart
  <2>. QED
    BY <1>4, <2>1, <2>2
<1>. QED
  BY <1>1, <1>6, <1>7, <1>8, IsolatedWrites

LEMMA IsolatedRemoved ==
    ASSUME Discipline, Isolated, NEW p \in Requests, Removed(p)
    PROVE  Isolated'
<1>. DEFINE hit == Hit(p)
            none == {}
<1>1. /\ OnlyOf(p) /\ UNCHANGED rows
      /\ tx'[p].adds = {x \in tx[p].adds : x.id \notin hit} \cup none
      /\ tx'[p].gone = tx[p].gone \cup hit
      /\ stmt[p].do = "delete" /\ \A q \in Requests : ~Blocks(q, p)
  BY RemovedChange
<1>2. hit \subseteq stmt[p].ids
  BY DEF Hit, Ids
<1>3. \A q \in Requests \ {p} : hit \cap tx[q].gone = {}
  BY <1>1, <1>2 DEF Blocks
<1>4. /\ \A x, y \in none : x # y => Apart(x, y)
      /\ \A x \in none, y \in View(p) : y.id \notin hit => Apart(x, y)
      /\ \A q \in Requests \ {p} : /\ hit \cap tx[q].gone = {}
                                   /\ \A x \in none, y \in tx[q].adds : Apart(x, y)
  BY <1>3
<1>5. /\ OnlyOf(p) /\ UNCHANGED rows
      /\ tx'[p].adds = {x \in tx[p].adds : x.id \notin hit} \cup none
      /\ tx'[p].gone = tx[p].gone \cup hit
  BY <1>1
<1>. HIDE DEF hit, none
<1>. QED
  BY <1>4, <1>5, IsolatedWrites

LEMMA IsolatedAdded ==
    ASSUME Discipline, Isolated, NEW p \in Requests, Added(p)
    PROVE  Isolated'
<1>. DEFINE n == stmt[p].new
            added == {n}
            none == {}
<1>1. /\ OnlyOf(p) /\ UNCHANGED rows
      /\ tx'[p].adds = {x \in tx[p].adds : x.id \notin none} \cup added
      /\ tx'[p].gone = tx[p].gone \cup none
      /\ stmt[p].do = "insert" /\ \A q \in Requests : ~Blocks(q, p)
      /\ \A y \in View(p) : KeyOf(y) # KeyOf(n)
  BY AddedChange
<1>2. none = {} /\ added = {n}
  OBVIOUS
<1>3. n.id[2] = p \/ Table(n) \in {"settings", "event"}
  <2>1. NewRow(p, job[p].by, n) \/ NewEventRow(p, n)
    BY <1>1 DEF Discipline, StmtOK
  <2>. QED
    BY <2>1, SettingsAreNobodys DEF NewRow, NewEventRow, Table
<1>4. Table(n) \in {"settings", "event"} => KeyOf(n) = n.id
  BY KeyIsId
<1>5. ASSUME NEW y, KeyOf(y) # KeyOf(n), Table(n) \in {"settings", "event"} PROVE y.id # n.id
  <2>1. y.id = n.id => Table(y) = Table(n)
    BY DEF Table
  <2>2. Table(y) = Table(n) => KeyOf(y) = y.id
    BY <1>5, KeyIsId
  <2>. QED
    BY <1>4, <1>5, <2>1, <2>2
<1>6. Unused(p) /\ ~Ended(p)
  BY <1>1, Executing DEF Discipline
<1>7. ASSUME NEW y \in View(p) PROVE Apart(n, y)
  <2>1. CASE Table(n) \in {"settings", "event"}
    BY <1>1, <1>5, <2>1 DEF Apart
  <2>2. CASE Table(n) \notin {"settings", "event"}
    <3>1. n.id \notin Ids(tx[p].adds)
      BY <1>1, <1>6, <2>2 DEF Unused, Table
    <3>2. y.id # n.id
      BY <1>3, <1>6, <2>2, <3>1, NotYet DEF View, Ids
    <3>. QED
      BY <1>1, <3>2 DEF Apart
  <2>. QED
    BY <2>1, <2>2
<1>8. ASSUME NEW q \in Requests \ {p}, NEW y \in tx[q].adds PROVE Apart(n, y)
  <2>1. KeyOf(y) # KeyOf(n)
    BY <1>1 DEF Blocks, Undecided
  <2>2. CASE Table(n) \in {"settings", "event"}
    BY <1>5, <2>1, <2>2 DEF Apart
  <2>3. CASE Table(n) \notin {"settings", "event"}
    <3>1. y.id # n.id
      BY <1>3, <1>6, <2>3, NotYet
    <3>. QED
      BY <2>1, <3>1 DEF Apart
  <2>. QED
    BY <2>2, <2>3
<1>9. /\ \A x, y \in added : x # y => Apart(x, y)
      /\ \A x \in added, y \in View(p) : y.id \notin none => Apart(x, y)
      /\ \A q \in Requests \ {p} : /\ none \cap tx[q].gone = {}
                                   /\ \A x \in added, y \in tx[q].adds : Apart(x, y)
  BY <1>7, <1>8
<1>. HIDE DEF n, added, none
<1>. QED
  BY <1>1, <1>9, IsolatedWrites

LEMMA IsolatedEnds ==
    ASSUME Discipline, Isolated, NEW p \in Requests, Commit(p) \/ Rollback(p)
    PROVE  Isolated'
<1>1. OnlyOf(p) /\ tx'[p].adds = {} /\ tx'[p].gone = {}
  BY EndsChange
<1>2. PICK added : /\ rows' = rows \/ rows' = View(p) \cup added
                   /\ \A x \in added : /\ x.id = <<"audit", p>> /\ Table(x) = "audit"
                                       /\ \A y \in Versions : y.id # x.id
                   /\ \A x, y \in added : x = y
  <2>1. CASE Commit(p)
    BY <2>1, CommitChange
  <2>2. CASE Rollback(p)
    <3>. DEFINE none == {}
    <3>1. rows' = rows
      BY <2>2, RollbackChange
    <3>2. none = {}
      OBVIOUS
    <3>. HIDE DEF none
    <3>. QED
      BY <3>1, <3>2
  <2>. QED
    BY <2>1, <2>2
<1>3. ASSUME NEW x \in added, NEW y \in Versions PROVE Apart(x, y)
  <2>1. x.id # y.id /\ KeyOf(x) = x.id
    BY <1>2, <1>3, KeyIsId
  <2>2. Table(y) = "audit" => KeyOf(y) = y.id
    BY KeyIsId
  <2>3. Table(y) # "audit" => KeyOf(y) # KeyOf(x)
    BY <1>2, KeyNamesTable
  <2>. QED
    BY <2>1, <2>2, <2>3 DEF Apart
<1>4. View(p) \subseteq Versions /\ \A q \in Requests : tx[q].adds \subseteq Versions
  BY DEF View, Versions
<1>5. \A x, y : Apart(x, y) => Apart(y, x)
  BY DEF Apart
<1>6. \A x, y \in rows' : x # y => Apart(x, y)
  <2>1. CASE rows' = rows
    BY <2>1 DEF Isolated, KeysAreUnique, Apart
  <2>2. CASE rows' = View(p) \cup added
    <3>1. \A x, y \in View(p) : x # y => Apart(x, y)
      BY ViewKeys
    <3>. QED
      BY <1>2, <1>3, <1>4, <1>5, <2>2, <3>1
  <2>. QED
    BY <1>2, <2>1, <2>2
<1>7. ASSUME NEW r \in Requests, NEW x \in tx'[r].adds, NEW y \in rows', y.id \notin tx'[r].gone
      PROVE  Apart(x, y)
  <2>1. r # p /\ tx'[r] = tx[r]
    BY <1>1 DEF OnlyOf
  <2>2. CASE y \in rows
    BY <1>7, <2>1, <2>2 DEF Isolated
  <2>3. CASE y \in tx[p].adds
    BY <2>1, <2>3 DEF Isolated
  <2>4. CASE y \in added
    BY <1>3, <1>4, <1>5, <2>1, <2>4
  <2>. QED
    BY <1>2, <2>2, <2>3, <2>4 DEF View
<1>8. ASSUME NEW q \in Requests, NEW r \in Requests, q # r
      PROVE  /\ tx'[q].gone \cap tx'[r].gone = {}
             /\ \A x \in tx'[q].adds, y \in tx'[r].adds : Apart(x, y)
  <2>1. tx[q].gone \cap tx[r].gone = {} /\ \A x \in tx[q].adds, y \in tx[r].adds : Apart(x, y)
    BY <1>8 DEF Isolated
  <2>. QED
    BY <1>1, <2>1 DEF OnlyOf
<1>9. ASSUME NEW r \in Requests PROVE \A x, y \in tx'[r].adds : x # y => Apart(x, y)
  <2>1. \A x, y \in tx[r].adds : x # y => Apart(x, y)
    BY DEF Isolated, KeysAreUnique, Apart
  <2>. QED
    BY <1>1, <2>1 DEF OnlyOf
<1>10. \A x, y : Apart(x, y)' <=> Apart(x, y)
  BY DEF Apart
<1>. QED
  BY <1>6, <1>7, <1>8, <1>9, <1>10 DEF Isolated, KeysAreUnique, Apart

LEMMA IsolatedStays ==
    ASSUME Discipline, Isolated, NEW p \in Requests, Kinds(p)
    PROVE  Isolated'
<1>1. CASE Plans(p) \/ Stops(p)
  <2>1. OnlyOf(p) /\ tx'[p] = tx[p] /\ UNCHANGED rows
    BY <1>1, PlansChange, StopsChange
  <2>2. \A r \in Requests : tx'[r] = tx[r]
    BY <2>1 DEF OnlyOf
  <2>3. \A x, y : Apart(x, y)' <=> Apart(x, y)
    BY DEF Apart
  <2>. QED
    BY <2>1, <2>2, <2>3 DEF Isolated, KeysAreUnique, Apart
<1>. QED
  BY <1>1, IsolatedUpdated, IsolatedRemoved, IsolatedAdded, IsolatedEnds DEF Kinds

LEMMA IsolatedAlways == Spec => [](Discipline /\ Isolated)
<1>1. Init => Discipline /\ Isolated
  <2>. SUFFICES ASSUME Init PROVE Isolated
    BY InitDiscipline
  <2>1. KeysAreUnique(rows)
    BY Beginning, WorkloadsAssumption
  <2>. QED
    BY <2>1, Beginning DEF Isolated, KeysAreUnique
<1>2. Discipline /\ Isolated /\ [Next]_allVars => Discipline' /\ Isolated'
  <2>. SUFFICES ASSUME Discipline, Isolated, [Next]_allVars PROVE Isolated'
    BY NextDiscipline
  <2>1. ASSUME UNCHANGED allVars PROVE Isolated'
    BY <2>1, NothingMoves DEF Isolated, KeysAreUnique, Apart
  <2>2. ASSUME NEW p \in Requests, Kinds(p) PROVE Isolated'
    BY <2>2, IsolatedStays
  <2>. QED
    BY <2>1, <2>2, EveryStep
<1>. QED
  BY <1>1, <1>2, PTL DEF Spec

-----------------------------------------------------------------------------
(***************************************************************************)
(* References.                                                             *)
(***************************************************************************)
LEMMA WithoutParents ==
    ASSUME NEW x, Table(x) \notin {"mapping", "submission"}
    PROVE  Parents(x) = {}
BY DEF Parents

LEMMA ReferredUpdated ==
    ASSUME Discipline, Referred, NEW p \in Requests, Updated(p)
    PROVE  Referred'
<1>. DEFINE N == NewVersions(p)
            ids == Ids(N)
<1>1. /\ OnlyOf(p) /\ UNCHANGED rows /\ stmt[p].do = "update" /\ stmt'[p] = NoStmt
      /\ tx'[p].adds = {x \in tx[p].adds : x.id \notin ids} \cup N
      /\ tx'[p].gone = tx[p].gone \cup ids
  BY UpdatedChange
<1>2. \A x \in N : Parents(x) = {} /\ \E y \in View(p) : x.id = y.id
  <2>. SUFFICES ASSUME NEW x \in N PROVE Parents(x) = {} /\ \E y \in View(p) : x.id = y.id
    OBVIOUS
  <2>1. Table(x) \in Tables /\ Mutable[Table(x)] # {} /\ \E y \in View(p) : x.id = y.id
    BY <1>1, NewVersionsOf
  <2>2. Table(x) \notin {"mapping", "submission"}
    BY <2>1 DEF Mutable
  <2>. QED
    BY <2>1, <2>2, WithoutParents
<1>3. \A i : i \in ids <=> \E x \in N : x.id = i
  BY DEF Ids
<1>. HIDE DEF N, ids
<1>4. View(p)' = {x \in View(p) : x.id \notin ids} \cup N
  BY <1>1, <1>3 DEF View
<1>5. Ids(View(p)) \subseteq Ids(View(p)')
  BY <1>3, <1>4 DEF Ids
<1>6. Deleted(p)' \subseteq Deleted(p)
  BY <1>1, <1>3 DEF Deleted, Ids
<1>7. ASSUME NEW r \in Requests, NEW x \in View(r)' PROVE Parents(x) \subseteq Ids(View(r)') \/ Doomed(r, x)'
  <2>1. CASE r # p
    BY <1>1, <1>7, <2>1 DEF Referred, OnlyOf, View, Doomed, Ids
  <2>2. CASE r = p
    <3>1. CASE x \in N
      BY <1>2, <3>1
    <3>2. CASE x \in View(p)
      <4>1. Parents(x) \subseteq Ids(View(p))
        BY <1>1, <3>2 DEF Referred, Doomed
      <4>. QED
        BY <1>5, <2>2, <4>1
    <3>. QED
      BY <1>4, <1>7, <2>2, <3>1, <3>2
  <2>. QED
    BY <2>1, <2>2
<1>8. ASSUME NEW q \in Requests, NEW r \in Requests, q # r, NEW x \in tx'[q].adds
      PROVE  Parents(x) \cap Deleted(r)' = {}
  <2>1. Deleted(r)' \subseteq Deleted(r)
    BY <1>1, <1>6 DEF OnlyOf, Deleted
  <2>2. x \in tx[q].adds \/ Parents(x) = {}
    BY <1>1, <1>2, <1>8 DEF OnlyOf
  <2>. QED
    BY <1>8, <2>1, <2>2 DEF Referred
<1>. QED
  BY <1>1, <1>7, <1>8 DEF Referred, ParentsExist, Parents, Ids

LEMMA ReferredRemoved ==
    ASSUME Discipline, Referred, NEW p \in Requests, Removed(p)
    PROVE  Referred'
<1>. DEFINE hit == Hit(p)
            C == Children(p)
<1>1. /\ OnlyOf(p) /\ UNCHANGED rows /\ stmt[p].do = "delete"
      /\ stmt'[p] = IF C = {} THEN NoStmt ELSE Delete(Ids(C), FALSE)
      /\ tx'[p].adds = {x \in tx[p].adds : x.id \notin hit}
      /\ tx'[p].gone = tx[p].gone \cup hit
      /\ \A q \in Requests : ~Blocks(q, p)
  BY RemovedChange
<1>2. /\ hit \subseteq stmt[p].ids
      /\ \A x \in View(p) : x.id \in stmt[p].ids => x.id \in hit
  BY DEF Hit, Ids
<1>3. C = {x \in View(p) : Parents(x) \cap hit # {}}
  BY DEF Children
<1>4. ASSUME NEW q \in Requests, q # p, NEW x \in tx[q].adds PROVE Parents(x) \cap hit = {}
  BY <1>1, <1>2, <1>4 DEF Blocks
<1>. HIDE DEF hit, C
<1>5. View(p)' = {x \in View(p) : x.id \notin hit}
  BY <1>1 DEF View
<1>6. \A i \in Ids(View(p)) : i \notin hit => i \in Ids(View(p)')
  BY <1>5 DEF Ids
<1>7. Deleted(p)' \subseteq Deleted(p) \cup hit
  BY <1>1 DEF Deleted, Ids
<1>8. ASSUME NEW r \in Requests, NEW x \in View(r)' PROVE Parents(x) \subseteq Ids(View(r)') \/ Doomed(r, x)'
  <2>1. CASE r # p
    BY <1>1, <1>8, <2>1 DEF Referred, OnlyOf, View, Doomed, Ids
  <2>2. CASE r = p
    <3>0. x \in View(p) /\ x.id \notin hit
      BY <1>5, <1>8, <2>2
    <3>1. Parents(x) \subseteq Ids(View(p))
      BY <1>1, <1>2, <3>0 DEF Referred, Doomed
    <3>2. CASE Parents(x) \cap hit = {}
      BY <1>6, <2>2, <3>1, <3>2
    <3>3. CASE Parents(x) \cap hit # {}
      <4>1. x \in C
        BY <1>3, <3>0, <3>3
      <4>2. stmt'[p] = Delete(Ids(C), FALSE) /\ x.id \in Ids(C)
        BY <1>1, <4>1 DEF Ids
      <4>. QED
        BY <2>2, <4>2 DEF Doomed, Delete
    <3>. QED
      BY <3>2, <3>3
  <2>. QED
    BY <2>1, <2>2
<1>9. ASSUME NEW q \in Requests, NEW r \in Requests, q # r, NEW x \in tx'[q].adds
      PROVE  Parents(x) \cap Deleted(r)' = {}
  <2>1. x \in tx[q].adds
    BY <1>1, <1>9 DEF OnlyOf
  <2>2. CASE r # p
    <3>1. Deleted(r)' = Deleted(r)
      BY <1>1, <2>2 DEF OnlyOf, Deleted
    <3>. QED
      BY <1>9, <2>1, <3>1 DEF Referred
  <2>3. CASE r = p
    BY <1>4, <1>7, <1>9, <2>1, <2>3 DEF Referred
  <2>. QED
    BY <2>2, <2>3
<1>. QED
  BY <1>1, <1>8, <1>9 DEF Referred, ParentsExist, Parents, Ids

LEMMA ReferredAdded ==
    ASSUME Discipline, Referred, NEW p \in Requests, Added(p)
    PROVE  Referred'
<1>. DEFINE n == stmt[p].new
<1>1. /\ OnlyOf(p) /\ UNCHANGED rows /\ stmt[p].do = "insert"
      /\ tx'[p].adds = tx[p].adds \cup {n} /\ tx'[p].gone = tx[p].gone
      /\ Parents(n) \subseteq Ids(View(p)) /\ \A q \in Requests : ~Blocks(q, p)
  BY AddedChange
<1>2. \A q \in Requests : q # p => Parents(n) \cap Deleted(q) = {}
  BY <1>1 DEF Blocks
<1>. HIDE DEF n
<1>3. View(p)' = View(p) \cup {n}
  BY <1>1 DEF View
<1>4. Ids(View(p)) \subseteq Ids(View(p)') /\ Deleted(p)' \subseteq Deleted(p)
  BY <1>1, <1>3 DEF Ids, Deleted
<1>5. ASSUME NEW r \in Requests, NEW x \in View(r)' PROVE Parents(x) \subseteq Ids(View(r)') \/ Doomed(r, x)'
  <2>1. CASE r # p
    BY <1>1, <1>5, <2>1 DEF Referred, OnlyOf, View, Doomed, Ids
  <2>2. CASE r = p
    <3>1. x \in View(p) => Parents(x) \subseteq Ids(View(p))
      BY <1>1 DEF Referred, Doomed
    <3>. QED
      BY <1>1, <1>3, <1>4, <1>5, <2>2, <3>1
  <2>. QED
    BY <2>1, <2>2
<1>6. ASSUME NEW q \in Requests, NEW r \in Requests, q # r, NEW x \in tx'[q].adds
      PROVE  Parents(x) \cap Deleted(r)' = {}
  <2>1. Deleted(r)' \subseteq Deleted(r)
    BY <1>1, <1>4 DEF OnlyOf, Deleted
  <2>2. x \in tx[q].adds \/ (q = p /\ x = n)
    BY <1>1, <1>6 DEF OnlyOf
  <2>. QED
    BY <1>2, <1>6, <2>1, <2>2 DEF Referred
<1>. QED
  BY <1>1, <1>5, <1>6 DEF Referred, ParentsExist, Parents, Ids

LEMMA ReferredCommitted ==
    ASSUME Discipline, Referred, NEW p \in Requests, Commit(p)
    PROVE  Referred'
<1>1. /\ OnlyOf(p) /\ tx'[p].adds = {} /\ tx'[p].gone = {} /\ stmt[p] = NoStmt /\ stmt'[p] = NoStmt
  BY EndsChange, CommitChange
<1>2. PICK added : rows' = View(p) \cup added /\ \A x \in added : Table(x) = "audit"
  BY CommitChange
<1>3. \A x \in added : Parents(x) = {}
  BY <1>2, WithoutParents
<1>4. NoStmt.do = "none"
  BY DEF NoStmt
<1>5. \A x \in View(p) : Parents(x) \subseteq Ids(View(p))
  BY <1>1, <1>4 DEF Referred, Doomed
<1>6. Ids(View(p)) \subseteq Ids(rows')
  BY <1>2 DEF Ids
<1>7. ParentsExist(rows')
  BY <1>2, <1>3, <1>5, <1>6 DEF ParentsExist
<1>8. ASSUME NEW r \in Requests, NEW x \in View(r)' PROVE Parents(x) \subseteq Ids(View(r)') \/ Doomed(r, x)'
  <2>1. CASE r = p
    <3>1. View(p)' = rows'
      BY <1>1 DEF View
    <3>. QED
      BY <1>7, <1>8, <2>1, <3>1 DEF ParentsExist
  <2>2. CASE r # p
    <3>1. tx'[r] = tx[r] /\ stmt'[r] = stmt[r]
      BY <1>1, <2>2 DEF OnlyOf
    <3>. SUFFICES ASSUME ~Doomed(r, x), NEW i \in Parents(x) PROVE i \in Ids(View(r)')
      BY <3>1 DEF Doomed
    <3>2. i \in Ids(tx[r].adds) => i \in Ids(View(r)')
      BY <3>1 DEF View, Ids
    <3>3. i \in Ids(rows') /\ i \notin tx[r].gone => i \in Ids(View(r)')
      BY <3>1 DEF View, Ids
    <3>4. i \in Ids(View(r)) => i \in Ids(tx[r].adds) \/ i \notin tx[r].gone
      BY DEF View, Ids
    <3>5. CASE x \in tx[r].adds
      <4>1. i \in Ids(View(r))
        BY <3>5 DEF Referred, View
      <4>2. i \notin Deleted(p)
        BY <2>2, <3>5 DEF Referred
      <4>3. i \in Ids(rows) \/ i \in Ids(tx[r].adds)
        BY <4>1 DEF View, Ids
      <4>4. i \in Ids(rows) => i \in Ids(View(p))
        BY <4>2 DEF View, Ids, Deleted
      <4>. QED
        BY <1>6, <3>2, <3>3, <3>4, <4>1, <4>3, <4>4
    <3>6. CASE x \in View(p) /\ x \in rows /\ x.id \notin tx[r].gone
      <4>1. i \in Ids(View(r))
        BY <3>6 DEF Referred, View
      <4>2. i \in Ids(rows')
        BY <1>5, <1>6, <3>6
      <4>. QED
        BY <3>2, <3>3, <3>4, <4>1, <4>2
    <3>7. CASE x \in tx[p].adds
      <4>1. i \notin Deleted(r)
        BY <2>2, <3>7 DEF Referred
      <4>2. i \in Ids(rows')
        BY <1>5, <1>6, <3>7 DEF View
      <4>. QED
        BY <3>2, <3>3, <4>1, <4>2 DEF Deleted
    <3>8. x \in tx[r].adds \/ (x \in rows' /\ x.id \notin tx[r].gone)
      BY <1>8, <3>1 DEF View
    <3>. QED
      BY <1>2, <1>3, <3>5, <3>6, <3>7, <3>8 DEF View
  <2>. QED
    BY <2>1, <2>2
<1>9. ASSUME NEW q \in Requests, NEW r \in Requests, q # r, NEW x \in tx'[q].adds
      PROVE  Parents(x) \cap Deleted(r)' = {}
  <2>1. q # p /\ x \in tx[q].adds
    BY <1>1, <1>9 DEF OnlyOf
  <2>2. CASE r = p
    BY <1>1, <2>2 DEF Deleted
  <2>3. CASE r # p
    BY <1>1, <1>9, <2>1, <2>3 DEF Referred, OnlyOf, Deleted, Ids
  <2>. QED
    BY <2>2, <2>3
<1>. QED
  BY <1>7, <1>8, <1>9 DEF Referred

LEMMA ReferredRolledBack ==
    ASSUME Discipline, Referred, NEW p \in Requests, Rollback(p)
    PROVE  Referred'
<1>1. OnlyOf(p) /\ tx'[p].adds = {} /\ tx'[p].gone = {} /\ rows' = rows
  BY EndsChange, RollbackChange
<1>2. View(p)' = rows
  BY <1>1 DEF View
<1>3. ASSUME NEW r \in Requests, NEW x \in View(r)' PROVE Parents(x) \subseteq Ids(View(r)') \/ Doomed(r, x)'
  <2>1. CASE r # p
    BY <1>1, <1>3, <2>1 DEF Referred, OnlyOf, View, Doomed, Ids
  <2>2. CASE r = p
    BY <1>2, <1>3, <2>2 DEF Referred, ParentsExist
  <2>. QED
    BY <2>1, <2>2
<1>4. ASSUME NEW q \in Requests, NEW r \in Requests, q # r, NEW x \in tx'[q].adds
      PROVE  Parents(x) \cap Deleted(r)' = {}
  BY <1>1, <1>4 DEF Referred, OnlyOf, Deleted, Ids
<1>. QED
  BY <1>1, <1>3, <1>4 DEF Referred, ParentsExist, Parents, Ids

LEMMA ReferredStays ==
    ASSUME Discipline, Referred, NEW p \in Requests, Kinds(p)
    PROVE  Referred'
<1>1. CASE Plans(p) \/ Stops(p)
  <2>1. OnlyOf(p) /\ tx'[p] = tx[p] /\ UNCHANGED rows
    BY <1>1, PlansChange, StopsChange
  <2>2. \A r \in Requests : tx'[r] = tx[r] /\ View(r)' = View(r) /\ Deleted(r)' = Deleted(r)
    BY <2>1 DEF OnlyOf, View, Deleted, Ids
  <2>3. ASSUME NEW r \in Requests, NEW x, Doomed(r, x) PROVE Doomed(r, x)'
    <3>1. CASE r # p
      BY <2>1, <2>3, <3>1 DEF OnlyOf, Doomed
    <3>2. CASE r = p /\ Plans(p)
      <4>1. stmt[p].do = "none"
        BY <3>2 DEF Plans, NoStmt
      <4>. QED
        BY <2>3, <3>2, <4>1 DEF Doomed
    <3>3. CASE r = p /\ Stops(p)
      BY <3>3, StopsChange DEF Doomed
    <3>. QED
      BY <1>1, <3>1, <3>2, <3>3
  <2>. QED
    BY <2>1, <2>2, <2>3 DEF Referred, ParentsExist, Parents, Ids
<1>. QED
  BY <1>1, ReferredUpdated, ReferredRemoved, ReferredAdded, ReferredCommitted, ReferredRolledBack DEF Kinds

LEMMA ReferredAlways == Spec => [](Discipline /\ Referred)
<1>1. Init => Discipline /\ Referred
  <2>. SUFFICES ASSUME Init PROVE Referred
    BY InitDiscipline
  <2>1. ParentsExist(rows)
    BY Beginning, WorkloadsAssumption
  <2>. QED
    BY <2>1, Beginning DEF Referred, ParentsExist
<1>2. Discipline /\ Referred /\ [Next]_allVars => Discipline' /\ Referred'
  <2>. SUFFICES ASSUME Discipline, Referred, [Next]_allVars PROVE Referred'
    BY NextDiscipline
  <2>1. ASSUME UNCHANGED allVars PROVE Referred'
    BY <2>1, NothingMoves DEF Referred, ParentsExist, Parents, Ids, View, Deleted, Doomed
  <2>2. ASSUME NEW p \in Requests, Kinds(p) PROVE Referred'
    BY <2>2, ReferredStays
  <2>. QED
    BY <2>1, <2>2, EveryStep
<1>. QED
  BY <1>1, <1>2, PTL DEF Spec

\* Whatever statements waited for, every committed row has the columns of its
\* table, no unique index holds a key twice and no foreign key dangles.
THEOREM ContentTypesAreCorrect == Spec => []TypeOK
<1>1. Discipline /\ Isolated /\ Referred => TypeOK
  <2>. SUFFICES ASSUME Discipline, Isolated, Referred PROVE TypeOK
    OBVIOUS
  <2>1. (\A x \in rows : IsRow(x)) /\ KeysAreUnique(rows) /\ ParentsExist(rows)
    BY DEF Discipline, RowsOK, Isolated, Referred
  <2>2. ASSUME NEW r \in Requests
        PROVE  /\ tx[r].adds # {} \/ tx[r].gone # {} => ~Ended(r)
               /\ job[r].by = Nobody \/ WellFormed(job[r].by)
    <3>1. JobOK(r, job[r]) /\ TxOK(r)
      BY DEF Discipline
    <3>2. NoTx.adds = {} /\ NoTx.gone = {}
      BY DEF NoTx
    <3>3. Ended(r) => tx[r] = NoTx
      BY <3>1 DEF TxOK
    <3>. QED
      BY <3>1, <3>2, <3>3 DEF JobOK, IsJob
  <2>. QED
    BY <2>1, <2>2 DEF TypeOK
<1>. QED
  BY <1>1, IsolatedAlways, ReferredAlways, PTL

\* What a practice submission froze was committed, and active, at some moment.
THEOREM SnapshotsWereOffered == Spec => []SnapshotWasOffered
<1>1. Discipline => SnapshotWasOffered
  BY DEF Discipline, RowsOK, SnapshotWasOffered, Versions, From
<1>. QED
  BY <1>1, EveryRequestIsDisciplined, PTL

\* An override stands on base content that is there.
THEOREM OverridesAlwaysCoverBase == Spec => []OverridesCoverBase
<1>1. Discipline => OverridesCoverBase
  BY DEF Discipline, RowsOK, OverridesCoverBase, OverridesBase, IsBase, Versions, From
<1>. QED
  BY <1>1, EveryRequestIsDisciplined, PTL

\* Versions of a template have no gap: each is made from the latest before it,
\* and the unique key refuses the second of two edits of one version.
LEMMA AllVersionsAreThere ==
    ASSUME Discipline, Isolated
    PROVE  HasAllVersions(rows)
<1>. SUFFICES ASSUME NEW t \in From("template", rows)
              PROVE  {x.version : x \in {y \in From("template", rows) : y.name = t.name /\ y.org = t.org}}
                       = 1 .. Cardinality({y \in From("template", rows) : y.name = t.name /\ y.org = t.org})
  BY DEF HasAllVersions
<1>. DEFINE T == {y \in From("template", rows) : y.name = t.name /\ y.org = t.org}
            f == [y \in T |-> y.version]
            V == {y.version : y \in T}
<1>1. IsFiniteSet(T)
  <2>1. IsFiniteSet(rows) /\ T \in SUBSET rows
    BY DEF Discipline, RowsOK, From
  <2>. QED
    BY <2>1, FS_Subset
<1>2. f \in Surjection(T, V)
  BY DEF Surjection
<1>3. ASSUME NEW x \in T, NEW y \in T, x.version = y.version PROVE x = y
  <2>1. KeyOf(x) = <<"template", x.org, x.name, x.version>> /\ KeyOf(y) = <<"template", y.org, y.name, y.version>>
    BY DEF KeyOf, From
  <2>2. KeyOf(x) = KeyOf(y) /\ x \in rows /\ y \in rows
    BY <1>3, <2>1 DEF From
  <2>. QED
    BY <2>2 DEF Isolated, KeysAreUnique
<1>4. f \in Injection(T, V)
  BY <1>3 DEF Injection, IsInjective
<1>5. IsFiniteSet(V) /\ Cardinality(V) = Cardinality(T)
  <2>. HIDE DEF T, V, f
  <2>. QED
    BY <1>1, <1>2, <1>4, FS_Surjection
<1>6. V \subseteq Nat \ {0}
  BY DEF Discipline, RowsOK, IsRow, From
<1>7. ASSUME NEW v \in V PROVE 1 .. v \subseteq V
  <2>1. PICK y \in T : y.version = v
    OBVIOUS
  <2>2. HasEarlierVersions(y)
    BY DEF Discipline, RowsOK, Versions, From
  <2>. SUFFICES ASSUME NEW w \in 1 .. v PROVE w \in V
    OBVIOUS
  <2>3. CASE w = v
    BY <2>3
  <2>4. CASE w # v
    <3>1. v \in Nat \ {0}
      BY <1>6
    <3>2. w \in 1 .. (y.version - 1)
      BY <2>1, <2>4, <3>1
    <3>3. PICK z \in rows : Table(z) = "template" /\ z.name = y.name /\ z.org = y.org /\ z.version = w
      BY <2>2, <3>2 DEF HasEarlierVersions
    <3>. QED
      BY <3>3 DEF From
  <2>. QED
    BY <2>3, <2>4
<1>8. V = 1 .. Cardinality(V)
  <2>. HIDE DEF V
  <2>. QED
    BY <1>5, <1>6, <1>7, Contiguous
<1>. QED
  BY <1>5, <1>8

\* Two edits that see the same latest version of a template do not both become
\* its next version, and no version is left out.
THEOREM VersionsAreAlwaysContiguous == Spec => []VersionsAreContiguous
<1>1. Discipline /\ Isolated => VersionsAreContiguous
  BY AllVersionsAreThere DEF VersionsAreContiguous
<1>. QED
  BY <1>1, IsolatedAlways, PTL

-----------------------------------------------------------------------------
(***************************************************************************)
(* The active deck and roadmap.                                            *)
(***************************************************************************)
LEMMA PersonalTables ==
    /\ \A t \in Personal : t \in Tables /\ t \notin Deletable /\ t \notin {"audit", "settings", "event", "user"}
    /\ "active" \in Columns["deck"] /\ "active" \in Columns["roadmap"]
BY TableNames DEF Personal, Deletable, Columns, PersonalColumns

LEMMA ActiveUpdated ==
    ASSUME Discipline, ActiveStays, NEW p \in Requests, Updated(p)
    PROVE  ActiveStays'
<1>. DEFINE N == NewVersions(p)
            ids == Ids(N)
            cols == stmt[p].cols
<1>1. /\ OnlyOf(p) /\ UNCHANGED rows /\ stmt[p].do = "update" /\ stmt'[p] = NoStmt /\ job'[p] = job[p]
      /\ tx'[p].adds = {x \in tx[p].adds : x.id \notin ids} \cup N
      /\ tx'[p].gone = tx[p].gone \cup ids
  BY UpdatedChange
<1>2. ASSUME NEW x \in N
      PROVE  \E y \in View(p) : /\ y.id \in stmt[p].ids /\ x = Assigned(y, cols) /\ x.id = y.id
                                /\ Table(x) = Table(y)
                                /\ \A c \in Columns[Table(y)] :
                                      x[c] = IF c \in DOMAIN cols THEN cols[c] ELSE y[c]
  BY <1>1, <1>2, NewVersionsOf
<1>3. \A y \in View(p) : y.id \in stmt[p].ids => Assigned(y, cols) \in N
  BY DEF NewVersions
<1>4. \A i : i \in ids <=> \E x \in N : x.id = i
  BY DEF Ids
<1>5. Updates(p, job[p], stmt[p]) /\ JobOK(p, job[p])
  BY <1>1 DEF Discipline, StmtOK
<1>6. Inserting(stmt[p]) = {} /\ Inserting(stmt'[p]) = {}
  BY <1>1, NotAnInsert DEF Inserting
<1>7. ToCreate(job'[p]) = ToCreate(job[p]) /\ ToCreate(job[p]) \subseteq Product(p)'
  BY <1>1 DEF Product
<1>8. tx'[p].adds \subseteq Product(p)'
  BY DEF Product
<1>9. ids \subseteq stmt[p].ids
  BY <1>2, <1>4
<1>. HIDE DEF N, ids, cols
\* An active row that is overwritten stays active, or its successor is still to come.
<1>10. ASSUME NEW y \in View(p), Table(y) \in Personal, y.active = TRUE, y.id \in ids
       PROVE  Renewed(p, Table(y))'
  <2>1. CASE "active" \in DOMAIN cols
    <3>1. PICK x \in ToCreate(job[p]) : Table(x) = Table(y)
      BY <1>5, <1>9, <1>10, <2>1 DEF Updates, Table, cols
    <3>2. x.active = TRUE
      BY <1>5, <1>10, <3>1 DEF JobOK, Creates, NewRow
    <3>. QED
      BY <1>7, <3>1, <3>2 DEF Renewed
  <2>2. CASE "active" \notin DOMAIN cols
    <3>1. Assigned(y, cols) \in N
      BY <1>3, <1>9, <1>10
    <3>2. PICK x \in N : x = Assigned(y, cols)
      BY <3>1
    <3>3. DOMAIN y = Columns[Table(y)] /\ "active" \in DOMAIN y
      BY <1>10, WhatIsSeen, PersonalTables DEF Personal
    <3>4. x.active = TRUE /\ x.id = y.id
      <4>1. x.active = y.active
        BY <2>2, <3>2, <3>3 DEF Assigned
      <4>2. PICK z \in View(p) : x = Assigned(z, cols) /\ x.id = z.id
        BY <1>2
      <4>3. "id" \in DOMAIN y /\ "id" \notin DOMAIN cols
        <5>1. Mutable[Table(y)] \subseteq Columns[Table(y)] /\ "id" \in Columns[Table(y)] /\ "id" \notin Mutable[Table(y)]
          BY <1>10, PersonalTables, MutableColumns
        <5>2. DOMAIN cols \subseteq Mutable[Table(y)]
          BY <1>5, <1>9, <1>10 DEF Updates, Table, cols
        <5>. QED
          BY <3>3, <5>1, <5>2
      <4>. QED
        BY <1>10, <3>2, <4>1, <4>3 DEF Assigned
    <3>5. x \in Product(p)' /\ Table(x) = Table(y)
      BY <1>1, <1>8, <3>4 DEF Table
    <3>. QED
      BY <3>4, <3>5 DEF Renewed
  <2>. QED
    BY <2>1, <2>2
<1>11. ASSUME NEW t \in Personal, Renewed(p, t) PROVE Renewed(p, t)'
  <2>1. PICK x \in Product(p) : Table(x) = t /\ x.active = TRUE
    BY <1>11 DEF Renewed
  <2>2. CASE x \in ToCreate(job[p])
    BY <1>7, <2>1, <2>2 DEF Renewed
  <2>3. CASE x \in tx[p].adds /\ x.id \notin ids
    <3>1. x \in Product(p)'
      BY <1>1, <1>8, <2>3
    <3>. QED
      BY <2>1, <3>1 DEF Renewed
  <2>4. CASE x \in tx[p].adds /\ x.id \in ids
    BY <1>10, <2>1, <2>4 DEF View
  <2>. QED
    BY <1>6, <2>1, <2>2, <2>3, <2>4 DEF Product
<1>12. \A r \in Requests : r # p => /\ \A t : Renewed(r, t) => Renewed(r, t)'
                                   /\ tx'[r] = tx[r] /\ stmt'[r] = stmt[r]
  BY <1>1 DEF OnlyOf, Renewed, Product
<1>13. ASSUME NEW r \in Requests, NEW id \in tx'[r].gone \cup Ids(tx'[r].adds)
       PROVE  id \in Ids(rows') \/ id[2] = r \/ id = SettingsId
  <2>1. CASE r # p
    BY <1>1, <1>12, <1>13, <2>1 DEF ActiveStays
  <2>2. CASE r = p
    <3>1. id \in tx[p].gone \cup Ids(tx[p].adds) \/ \E y \in View(p) : y.id = id
      BY <1>1, <1>2, <1>4, <1>13, <2>2 DEF Ids
    <3>2. id \in tx[p].gone \cup Ids(tx[p].adds) \/ id \in Ids(rows)
      BY <3>1 DEF View, Ids
    <3>. QED
      BY <1>1, <2>2, <3>2 DEF ActiveStays
  <2>. QED
    BY <2>1, <2>2
<1>14. ASSUME NEW r \in Requests, stmt'[r].do # "failed", NEW y \in rows', Table(y) \in Personal,
              y.active = TRUE, y.id \in tx'[r].gone
       PROVE  Renewed(r, Table(y))'
  <2>1. CASE r # p
    BY <1>1, <1>12, <1>14, <2>1 DEF ActiveStays
  <2>2. CASE r = p /\ y.id \in tx[p].gone
    BY <1>1, <1>11, <1>14, <2>2 DEF ActiveStays
  <2>3. CASE r = p /\ y.id \notin tx[p].gone
    <3>1. y \in View(p) /\ y.id \in ids
      BY <1>1, <1>14, <2>3 DEF View
    <3>. QED
      BY <1>10, <1>14, <2>3, <3>1
  <2>. QED
    BY <2>1, <2>2, <2>3
<1>15. ASSUME NEW r \in Requests, stmt'[r].do # "failed", NEW x \in tx'[r].adds, Table(x) \in Personal
       PROVE  Renewed(r, Table(x))' \/ x.id \in Ids(rows')
  <2>1. CASE r # p
    BY <1>1, <1>12, <1>15, <2>1 DEF ActiveStays
  <2>2. CASE r = p /\ x \in tx[p].adds
    BY <1>1, <1>11, <1>15, <2>2 DEF ActiveStays
  <2>3. CASE r = p /\ x \in N
    <3>1. PICK y \in View(p) : x.id = y.id /\ Table(x) = Table(y)
      BY <1>2, <2>3
    <3>2. CASE y \in rows
      BY <1>1, <3>1, <3>2 DEF Ids
    <3>3. CASE y \in tx[p].adds
      BY <1>1, <1>11, <1>15, <2>3, <3>1, <3>3 DEF ActiveStays
    <3>. QED
      BY <3>2, <3>3 DEF View
  <2>. QED
    BY <1>1, <1>15, <2>1, <2>2, <2>3
<1>16. \A t \in Personal : From(t, rows') # {} => \E x \in From(t, rows') : x.active = TRUE
  BY <1>1 DEF ActiveStays
<1>. QED
  BY <1>13, <1>14, <1>15, <1>16 DEF ActiveStays, From, Ids, Table

\* Steps of p that only add to what p creates of decks and roadmaps.
LEMMA ActiveGoesOn ==
    ASSUME ActiveStays, NEW p \in Requests, OnlyOf(p), UNCHANGED rows, stmt[p].do # "failed",
           \A x \in Product(p) : Table(x) \in Personal => x \in Product(p)',
           \A id \in tx'[p].gone : id \in tx[p].gone \/ (id \in Ids(View(p)) /\ id[1] \notin Personal),
           \A x \in tx'[p].adds : \/ x \in tx[p].adds
                                  \/ /\ x.id[2] = p \/ x.id = SettingsId
                                     /\ Table(x) \in Personal => x.active = TRUE
    PROVE  ActiveStays'
<1>1. ASSUME NEW t \in Personal, Renewed(p, t) PROVE Renewed(p, t)'
  BY <1>1 DEF Renewed
<1>2. \A r \in Requests : r # p => /\ \A t : Renewed(r, t) => Renewed(r, t)'
                                  /\ tx'[r] = tx[r] /\ stmt'[r] = stmt[r]
  BY DEF OnlyOf, Renewed, Product
<1>3. ASSUME NEW r \in Requests, NEW id \in tx'[r].gone \cup Ids(tx'[r].adds)
      PROVE  id \in Ids(rows') \/ id[2] = r \/ id = SettingsId
  <2>1. CASE r # p
    BY <1>2, <1>3, <2>1 DEF ActiveStays
  <2>2. CASE r = p
    <3>1. \/ id \in tx[p].gone \cup Ids(tx[p].adds) \cup Ids(rows)
          \/ id[2] = p \/ id = SettingsId
      BY <1>3, <2>2 DEF Ids, View
    <3>. QED
      BY <2>2, <3>1 DEF ActiveStays
  <2>. QED
    BY <2>1, <2>2
<1>4. ASSUME NEW r \in Requests, stmt'[r].do # "failed", NEW y \in rows', Table(y) \in Personal,
             y.active = TRUE, y.id \in tx'[r].gone
      PROVE  Renewed(r, Table(y))'
  <2>1. CASE r # p
    BY <1>2, <1>4, <2>1 DEF ActiveStays
  <2>2. CASE r = p
    <3>1. y.id \in tx[p].gone
      BY <1>4, <2>2 DEF Table
    <3>. QED
      BY <1>1, <1>4, <2>2, <3>1 DEF ActiveStays
  <2>. QED
    BY <2>1, <2>2
<1>5. ASSUME NEW r \in Requests, stmt'[r].do # "failed", NEW x \in tx'[r].adds, Table(x) \in Personal
      PROVE  Renewed(r, Table(x))' \/ x.id \in Ids(rows')
  <2>1. CASE r # p
    BY <1>2, <1>5, <2>1 DEF ActiveStays
  <2>2. CASE r = p /\ x \in tx[p].adds
    BY <1>1, <1>5, <2>2 DEF ActiveStays
  <2>3. CASE r = p /\ x \notin tx[p].adds
    <3>1. x \in Product(p)' /\ x.active = TRUE
      BY <1>5, <2>3 DEF Product
    <3>. QED
      BY <2>3, <3>1 DEF Renewed
  <2>. QED
    BY <2>1, <2>2, <2>3
<1>6. \A t \in Personal : From(t, rows') # {} => \E x \in From(t, rows') : x.active = TRUE
  BY DEF ActiveStays
<1>. QED
  BY <1>3, <1>4, <1>5, <1>6 DEF ActiveStays, From, Ids, Table

LEMMA ActiveRemoved ==
    ASSUME Discipline, ActiveStays, NEW p \in Requests, Removed(p)
    PROVE  ActiveStays'
<1>. DEFINE hit == Hit(p)
            C == Children(p)
<1>1. /\ OnlyOf(p) /\ UNCHANGED rows /\ stmt[p].do = "delete" /\ job'[p] = job[p]
      /\ stmt'[p] = IF C = {} THEN NoStmt ELSE Delete(Ids(C), FALSE)
      /\ tx'[p].adds = {x \in tx[p].adds : x.id \notin hit}
      /\ tx'[p].gone = tx[p].gone \cup hit
  BY RemovedChange
<1>2. \A id \in hit : id \in Ids(View(p)) /\ id[1] \notin Personal
  <2>1. \A id \in stmt[p].ids : id[1] \in Deletable
    BY <1>1 DEF Discipline, StmtOK
  <2>. QED
    BY <2>1, PersonalTables DEF Hit, Ids
<1>. HIDE DEF hit, C
<1>3. Inserting(stmt[p]) = {} /\ ToCreate(job'[p]) = ToCreate(job[p])
  BY <1>1 DEF Inserting
<1>4. ASSUME NEW x \in Product(p), Table(x) \in Personal PROVE x \in Product(p)'
  BY <1>1, <1>2, <1>3, <1>4 DEF Product, Table
<1>5. \A id \in tx'[p].gone : id \in tx[p].gone \/ (id \in Ids(View(p)) /\ id[1] \notin Personal)
  BY <1>1, <1>2
<1>6. \A x \in tx'[p].adds : x \in tx[p].adds
  BY <1>1
<1>. QED
  BY <1>1, <1>4, <1>5, <1>6, ActiveGoesOn

LEMMA ActiveAdded ==
    ASSUME Discipline, ActiveStays, NEW p \in Requests, Added(p)
    PROVE  ActiveStays'
<1>. DEFINE n == stmt[p].new
<1>1. /\ OnlyOf(p) /\ UNCHANGED rows /\ stmt[p].do = "insert" /\ job'[p] = job[p] /\ stmt'[p] = NoStmt
      /\ tx'[p].adds = tx[p].adds \cup {n} /\ tx'[p].gone = tx[p].gone
  BY AddedChange
<1>2. NewRow(p, job[p].by, n) \/ NewEventRow(p, n)
  BY <1>1 DEF Discipline, StmtOK
<1>3. /\ n.id[2] = p \/ n.id = SettingsId
      /\ Table(n) \in Personal => n.active = TRUE
  BY <1>2, PersonalTables DEF NewRow, NewEventRow
<1>4. Inserting(stmt[p]) = {n} /\ ToCreate(job'[p]) = ToCreate(job[p])
  BY <1>1 DEF Inserting
<1>. HIDE DEF n
<1>5. \A x \in Product(p) : x \in Product(p)'
  BY <1>1, <1>4 DEF Product
<1>6. \A x \in tx'[p].adds : \/ x \in tx[p].adds
                             \/ /\ x.id[2] = p \/ x.id = SettingsId
                                /\ Table(x) \in Personal => x.active = TRUE
  BY <1>1, <1>3
<1>. QED
  BY <1>1, <1>5, <1>6, ActiveGoesOn

LEMMA ActivePlanned ==
    ASSUME Discipline, ActiveStays, NEW p \in Requests, Plans(p)
    PROVE  ActiveStays'
<1>1. OnlyOf(p) /\ tx'[p] = tx[p] /\ UNCHANGED rows /\ stmt[p] = NoStmt
  BY PlansChange DEF Plans
<1>2. stmt[p].do # "failed" /\ Inserting(stmt[p]) = {}
  BY <1>1, NotAnInsert DEF Inserting
<1>3. \A x \in Product(p) : x \in Product(p)'
  BY <1>1, <1>2 DEF Plans, Product
<1>. QED
  BY <1>1, <1>2, <1>3, ActiveGoesOn

LEMMA ActiveStopped ==
    ASSUME Discipline, ActiveStays, NEW p \in Requests, Stops(p)
    PROVE  ActiveStays'
<1>1. /\ OnlyOf(p) /\ tx'[p] = tx[p] /\ UNCHANGED rows /\ stmt'[p].do = "failed"
  BY StopsChange
<1>2. \A r \in Requests : r # p => /\ \A t : Renewed(r, t) => Renewed(r, t)'
                                  /\ tx'[r] = tx[r] /\ stmt'[r] = stmt[r]
  BY <1>1 DEF OnlyOf, Renewed, Product
<1>. QED
  BY <1>1, <1>2 DEF ActiveStays, From, Ids, Table

LEMMA ActiveCommitted ==
    ASSUME Discipline, Isolated, ActiveStays, NEW p \in Requests, Commit(p)
    PROVE  ActiveStays'
<1>1. /\ OnlyOf(p) /\ tx'[p].adds = {} /\ tx'[p].gone = {} /\ stmt[p] = NoStmt /\ ToCreate(job[p]) = {}
  BY EndsChange, CommitChange
<1>2. PICK added : rows' = View(p) \cup added /\ \A x \in added : Table(x) = "audit"
  BY CommitChange
<1>3. stmt[p].do # "failed" /\ Inserting(stmt[p]) = {}
  BY <1>1, NotAnInsert DEF Inserting
<1>4. Product(p) = tx[p].adds
  BY <1>1, <1>3 DEF Product
<1>5. tx[p].adds \subseteq rows' /\ \A y \in rows : y.id \notin tx[p].gone => y \in rows'
  BY <1>2 DEF View
<1>6. ASSUME NEW t \in Personal, Renewed(p, t) PROVE \E x \in From(t, rows') : x.active = TRUE
  BY <1>4, <1>5, <1>6 DEF Renewed, From
<1>7. ASSUME NEW t \in Personal, From(t, rows') # {} PROVE \E x \in From(t, rows') : x.active = TRUE
  <2>1. CASE From(t, rows) # {}
    <3>1. PICK y \in rows : Table(y) = t /\ y.active = TRUE
      BY <2>1 DEF ActiveStays, From
    <3>2. CASE y.id \notin tx[p].gone
      BY <1>5, <3>1, <3>2 DEF From
    <3>3. CASE y.id \in tx[p].gone
      BY <1>3, <1>6, <3>1, <3>3 DEF ActiveStays
    <3>. QED
      BY <3>2, <3>3
  <2>2. CASE From(t, rows) = {}
    <3>1. PICK x \in tx[p].adds : Table(x) = t
      BY <1>2, <1>7, <2>2, PersonalTables DEF From, View
    <3>2. x.id \notin Ids(rows)
      BY <2>2, <3>1 DEF From, Ids, Table
    <3>. QED
      BY <1>3, <1>6, <3>1, <3>2 DEF ActiveStays
  <2>. QED
    BY <2>1, <2>2
\* What another request has locked or written is not what p has deleted or added.
<1>8. ASSUME NEW r \in Requests, r # p, NEW id \in tx[r].gone \cup Ids(tx[r].adds), id \in Ids(rows)
      PROVE  id \in Ids(rows')
  <2>1. PICK y \in rows : y.id = id
    BY <1>8 DEF Ids
  <2>2. id \in tx[r].gone
    <3>. SUFFICES ASSUME id \notin tx[r].gone PROVE FALSE
      OBVIOUS
    <3>1. PICK x \in tx[r].adds : x.id = id
      BY <1>8 DEF Ids
    <3>2. Apart(x, y)
      BY <2>1 DEF Isolated
    <3>. QED
      BY <2>1, <3>1, <3>2 DEF Apart
  <2>3. id \notin tx[p].gone
    BY <1>8, <2>2 DEF Isolated
  <2>. QED
    BY <1>5, <2>1, <2>3 DEF Ids
<1>9. \A r \in Requests : r # p => /\ \A t : Renewed(r, t) => Renewed(r, t)'
                                  /\ tx'[r] = tx[r] /\ stmt'[r] = stmt[r]
  BY <1>1 DEF OnlyOf, Renewed, Product
<1>10. ASSUME NEW r \in Requests, NEW id \in tx'[r].gone \cup Ids(tx'[r].adds)
       PROVE  id \in Ids(rows') \/ id[2] = r \/ id = SettingsId
  <2>1. r # p
    BY <1>1, <1>10 DEF Ids
  <2>2. id \in tx[r].gone \cup Ids(tx[r].adds)
    BY <1>9, <1>10, <2>1
  <2>3. id \in Ids(rows) \/ id[2] = r \/ id = SettingsId
    BY <2>2 DEF ActiveStays
  <2>. QED
    BY <1>8, <2>1, <2>2, <2>3
<1>11. ASSUME NEW r \in Requests, stmt'[r].do # "failed", NEW y \in rows', Table(y) \in Personal,
              y.active = TRUE, y.id \in tx'[r].gone
       PROVE  Renewed(r, Table(y))'
  <2>1. r # p /\ tx'[r] = tx[r] /\ stmt'[r] = stmt[r]
    BY <1>1, <1>9, <1>11
  <2>2. y \in rows \/ y \in tx[p].adds
    BY <1>2, <1>11, PersonalTables DEF View
  <2>3. CASE y \in rows
    BY <1>9, <1>11, <2>1, <2>3 DEF ActiveStays
  <2>4. CASE y \in tx[p].adds /\ y \notin rows
    <3>1. y.id # SettingsId
      BY <1>11, PersonalTables, SettingsAreNobodys DEF Table
    <3>2. y.id \in Ids(rows) \/ y.id[2] = p
      BY <2>4, <3>1 DEF ActiveStays, Ids
    <3>3. y.id \in Ids(rows) \/ y.id[2] = r
      BY <1>11, <2>1, <3>1 DEF ActiveStays
    <3>4. PICK z \in rows : z.id = y.id
      BY <2>1, <3>2, <3>3 DEF Ids
    <3>5. y.id \notin tx[p].gone
      BY <1>11, <2>1 DEF Isolated
    <3>6. Apart(y, z)
      BY <2>4, <3>4, <3>5 DEF Isolated
    <3>. QED
      BY <3>4, <3>6 DEF Apart
  <2>. QED
    BY <2>2, <2>3, <2>4
<1>12. ASSUME NEW r \in Requests, stmt'[r].do # "failed", NEW x \in tx'[r].adds, Table(x) \in Personal
       PROVE  Renewed(r, Table(x))' \/ x.id \in Ids(rows')
  <2>1. r # p /\ tx'[r] = tx[r] /\ stmt'[r] = stmt[r]
    BY <1>1, <1>9, <1>12
  <2>2. Renewed(r, Table(x)) \/ x.id \in Ids(rows)
    BY <1>12, <2>1 DEF ActiveStays
  <2>3. x.id \in Ids(tx[r].adds)
    BY <1>12, <2>1 DEF Ids
  <2>. QED
    BY <1>8, <1>9, <2>1, <2>2, <2>3
<1>. QED
  BY <1>7, <1>10, <1>11, <1>12 DEF ActiveStays, From, Ids, Table

LEMMA ActiveRolledBack ==
    ASSUME Discipline, ActiveStays, NEW p \in Requests, Rollback(p)
    PROVE  ActiveStays'
<1>1. /\ OnlyOf(p) /\ rows' = rows /\ tx'[p].adds = {} /\ tx'[p].gone = {}
  BY EndsChange, RollbackChange
<1>2. \A r \in Requests : r # p => /\ \A t : Renewed(r, t) => Renewed(r, t)'
                                  /\ tx'[r] = tx[r] /\ stmt'[r] = stmt[r]
  BY <1>1 DEF OnlyOf, Renewed, Product
<1>. QED
  BY <1>1, <1>2 DEF ActiveStays, From, Ids, Table

LEMMA ActiveAlways == Spec => [](Discipline /\ Isolated /\ ActiveStays)
<1>1. Init => ActiveStays
  <2>. SUFFICES ASSUME Init PROVE ActiveStays
    OBVIOUS
  <2>1. PICK w \in Workloads : rows = w.rows
    BY Beginning
  <2>2. HasOneActive(rows) /\ \A x \in rows : IsRow(x)
    BY <2>1, WorkloadsAssumption
  <2>3. ASSUME NEW t \in Personal, From(t, rows) # {} PROVE \E x \in From(t, rows) : x.active = TRUE
    <3>1. Cardinality({x \in From(t, rows) : x.active}) = 1
      BY <2>2, <2>3 DEF HasOneActive, Personal
    <3>2. {x \in From(t, rows) : x.active} # {}
      BY <3>1, FS_EmptySet
    <3>. QED
      BY <2>2, <2>3, <3>2 DEF IsRow, From, Personal
  <2>. QED
    BY <2>3, Beginning DEF ActiveStays, Ids
<1>2. Discipline /\ Isolated /\ ActiveStays /\ [Next]_allVars => ActiveStays'
  <2>. SUFFICES ASSUME Discipline, Isolated, ActiveStays, [Next]_allVars PROVE ActiveStays'
    OBVIOUS
  <2>1. ASSUME UNCHANGED allVars PROVE ActiveStays'
    BY <2>1, NothingMoves DEF ActiveStays, Renewed, Product, From, Ids, Table
  <2>2. ASSUME NEW p \in Requests, Kinds(p) PROVE ActiveStays'
    BY <2>2, ActivePlanned, ActiveStopped, ActiveUpdated, ActiveRemoved, ActiveAdded,
       ActiveCommitted, ActiveRolledBack DEF Kinds
  <2>. QED
    BY <2>1, <2>2, EveryStep
<1>. QED
  BY <1>1, <1>2, IsolatedAlways, PTL DEF Spec

\* A candidate who has had an active deck or roadmap has exactly one, however
\* many requests retire and generate them at once.
THEOREM ExactlyOneIsActive == Spec => []OneActive
<1>1. Discipline /\ Isolated /\ ActiveStays => OneActive
  <2>. SUFFICES ASSUME Discipline, Isolated, ActiveStays, NEW t \in Personal, From(t, rows) # {}
                PROVE  Cardinality({x \in From(t, rows) : x.active}) = 1
    BY DEF OneActive, HasOneActive, Personal
  <2>1. PICK x \in From(t, rows) : x.active = TRUE
    BY DEF ActiveStays
  <2>2. ASSUME NEW y \in From(t, rows), y.active PROVE y = x
    <3>1. KeyOf(y) = <<t, "active">> /\ KeyOf(x) = <<t, "active">>
      BY <2>1, <2>2 DEF KeyOf, From, Personal
    <3>. QED
      BY <3>1 DEF Isolated, KeysAreUnique, From
  <2>3. {y \in From(t, rows) : y.active} = {x}
    BY <2>1, <2>2
  <2>. QED
    BY <2>3, FS_Singleton
<1>. QED
  BY <1>1, ActiveAlways, PTL

-----------------------------------------------------------------------------
(***************************************************************************)
(* The records of accounts.                                                *)
(***************************************************************************)
LEMMA ProductRows ==
    ASSUME Discipline, NEW p \in Requests, NEW x \in Product(p)
    PROVE  IsRow(x)
<1>1. TxOK(p) /\ StmtOK(p, job[p], stmt[p]) /\ JobOK(p, job[p])
  BY DEF Discipline
<1>2. CASE x \in tx[p].adds
  BY <1>1, <1>2 DEF TxOK
<1>3. CASE x \in Inserting(stmt[p])
  BY <1>1, <1>3 DEF Inserting, StmtOK, NewRow, NewEventRow
<1>4. CASE x \in ToCreate(job[p])
  BY <1>1, <1>4 DEF JobOK, Creates, NewRow
<1>. QED
  BY <1>2, <1>3, <1>4 DEF Product

\* Versions of a user, and of its record, belong together like any others.
LEMMA RecordsAgree ==
    ASSUME NEW u, NEW v, NEW a, NEW b, IsRow(u), Table(u) = "user", IsRecordOf(a, u),
           u.id = v.id, a.id = b.id, Agree(u, v), Agree(a, b)
    PROVE  IsRecordOf(b, v)
<1>1. Table(b) = Table(a) /\ Table(a) = u.type /\ a.user = u.id
  BY DEF IsRecordOf, Table
<1>2. Table(a) \in {"admin", "candidate"}
  BY <1>1 DEF IsRow
<1>3. "type" \in Frozen("user") /\ "user" \in Frozen("admin") /\ "user" \in Frozen("candidate")
  BY DEF Frozen, Columns, Mutable, UserColumns, AdminColumns, CandidateColumns
<1>4. u.type = v.type /\ a.user = b.user
  BY <1>1, <1>2, <1>3 DEF Agree
<1>. QED
  BY <1>1, <1>4 DEF IsRecordOf

LEMMA RecordTables ==
    ASSUME NEW u, NEW a, IsRow(u), Table(u) = "user", IsRecordOf(a, u)
    PROVE  Table(a) \notin Deletable
BY DEF IsRow, IsRecordOf, Deletable

LEMMA AgreeWithItself == \A x : Agree(x, x)
BY DEF Agree

\* Steps of p that write no users, and lose no record.
LEMMA RecordedGoesOn ==
    ASSUME Discipline, Recorded, NEW p \in Requests, OnlyOf(p), UNCHANGED rows, stmt[p].do # "failed",
           \A u \in From("user", Product(p)') :
              \/ \E v \in rows \cup Product(p) : v.id = u.id /\ Agree(v, u)
              \/ \E a \in Product(p)' : IsRecordOf(a, u),
           \A a \in Product(p) : Table(a) \notin Deletable =>
              \E b \in Product(p)' : a.id = b.id /\ Agree(a, b)
    PROVE  Recorded'
<1>1. \A r \in Requests : r # p => Product(r)' = Product(r) /\ stmt'[r] = stmt[r]
  BY DEF OnlyOf, Product
<1>2. ASSUME NEW u \in From("user", Product(p)') PROVE \E b \in rows' \cup Product(p)' : IsRecordOf(b, u)
  <2>1. CASE \E a \in Product(p)' : IsRecordOf(a, u)
    BY <2>1
  <2>2. CASE \E v \in rows \cup Product(p) : v.id = u.id /\ Agree(v, u)
    <3>1. PICK v \in rows \cup Product(p) : v.id = u.id /\ Agree(v, u)
      BY <2>2
    <3>2. IsRow(v) /\ Table(v) = "user"
      BY <1>2, <3>1, ProductRows DEF From, Table, Discipline, RowsOK
    <3>3. PICK a \in rows \cup Product(p) : IsRecordOf(a, v)
      BY <3>1, <3>2 DEF Recorded, From
    <3>4. CASE a \in rows
      BY <3>1, <3>2, <3>3, <3>4, RecordsAgree, AgreeWithItself
    <3>5. CASE a \in Product(p)
      <4>1. PICK b \in Product(p)' : a.id = b.id /\ Agree(a, b)
        BY <3>2, <3>3, <3>5, RecordTables
      <4>. QED
        BY <3>1, <3>2, <3>3, <4>1, RecordsAgree
    <3>. QED
      BY <3>3, <3>4, <3>5
  <2>. QED
    BY <1>2, <2>1, <2>2
<1>3. \A r \in Requests : r # p /\ stmt'[r].do # "failed" =>
         \A u \in From("user", Product(r)') : \E a \in rows' \cup Product(r)' : IsRecordOf(a, u)
  BY <1>1 DEF Recorded
<1>4. \A u \in From("user", rows') : \E a \in rows' : IsRecordOf(a, u)
  BY DEF Recorded
<1>. QED
  BY <1>2, <1>3, <1>4 DEF Recorded, From, Table, IsRecordOf

LEMMA RecordedPlanned ==
    ASSUME Discipline, Discipline', Recorded, NEW p \in Requests, Plans(p)
    PROVE  Recorded'
<1>1. OnlyOf(p) /\ tx'[p] = tx[p] /\ UNCHANGED rows /\ stmt[p] = NoStmt
  BY PlansChange DEF Plans
<1>2. stmt[p].do # "failed" /\ Inserting(stmt[p]) = {}
  BY <1>1, NotAnInsert DEF Inserting
<1>3. \A x \in Product(p) : x \in Product(p)'
  BY <1>1, <1>2 DEF Plans, Product
<1>4. StmtOK(p, job[p], stmt[p])' /\ JobOK(p, job[p])'
  BY DEF Discipline
<1>a. stmt'[p].do = "insert" /\ Table(stmt'[p].new) = "user" =>
         \E a \in ToCreate(job'[p]) : IsRecordOf(a, stmt'[p].new)
  BY <1>4 DEF StmtOK, Table, ToCreate, IsRecordOf
<1>b. "insert" \in Steps(job'[p].todo) =>
         \A i \in 1 .. Len(job'[p].create) : Table(job'[p].create[i]) = "user" =>
            \E k \in (i + 1) .. Len(job'[p].create) : IsRecordOf(job'[p].create[k], job'[p].create[i])
  BY <1>4 DEF JobOK, Creates, Table, IsRecordOf
<1>5. ASSUME NEW u \in From("user", Product(p)'), u \notin Product(p)
      PROVE  \E a \in Product(p)' : IsRecordOf(a, u)
  <2>1. CASE u \in Inserting(stmt'[p])
    <3>1. \E a \in ToCreate(job'[p]) : IsRecordOf(a, u)
      BY <1>a, <1>5, <2>1 DEF Inserting, From
    <3>. QED
      BY <3>1 DEF Product
  <2>2. CASE u \in ToCreate(job'[p])
    <3>. DEFINE j == job'[p]
    <3>1. PICK i \in 1 .. Len(j.create) : u = j.create[i] /\ "insert" \in Steps(j.todo)
      BY <2>2 DEF ToCreate
    <3>2. PICK k \in (i + 1) .. Len(j.create) : IsRecordOf(j.create[k], u)
      BY <1>b, <1>5, <3>1 DEF From
    <3>3. k \in 1 .. Len(j.create)
      BY <3>1, <3>2
    <3>4. j.create[k] \in ToCreate(j)
      BY <3>1, <3>3 DEF ToCreate
    <3>. QED
      BY <3>2, <3>4 DEF Product
  <2>3. u \in tx'[p].adds \cup Inserting(stmt'[p]) \cup ToCreate(job'[p])
    BY <1>5 DEF From, Product
  <2>. QED
    BY <1>1, <1>5, <2>1, <2>2, <2>3 DEF Product
<1>6. ASSUME NEW u \in From("user", Product(p)')
      PROVE  \/ \E v \in rows \cup Product(p) : v.id = u.id /\ Agree(v, u)
             \/ \E a \in Product(p)' : IsRecordOf(a, u)
  BY <1>5, <1>6, AgreeWithItself
<1>7. \A a \in Product(p) : \E b \in Product(p)' : a.id = b.id /\ Agree(a, b)
  BY <1>3, AgreeWithItself
<1>. QED
  BY <1>1, <1>2, <1>6, <1>7, RecordedGoesOn

LEMMA RecordedUpdated ==
    ASSUME Discipline, Recorded, NEW p \in Requests, Updated(p)
    PROVE  Recorded'
<1>. DEFINE N == NewVersions(p)
            ids == Ids(N)
<1>1. /\ OnlyOf(p) /\ UNCHANGED rows /\ stmt[p].do = "update" /\ stmt'[p] = NoStmt /\ job'[p] = job[p]
      /\ tx'[p].adds = {x \in tx[p].adds : x.id \notin ids} \cup N
  BY UpdatedChange
<1>2. \A x \in N : \E y \in View(p) : x.id = y.id /\ Agree(y, x)
  BY <1>1, NewVersionsOf
<1>3. ASSUME NEW y \in View(p), y.id \in ids PROVE \E x \in N : x.id = y.id /\ Agree(y, x)
  <2>1. PICK z \in N : z.id = y.id
    BY <1>3 DEF Ids
  <2>2. z.id \in stmt[p].ids
    BY <1>1, NewVersionsOf
  <2>. DEFINE n == Assigned(y, stmt[p].cols)
  <2>3. n \in N
    BY <2>1, <2>2 DEF NewVersions
  <2>4. n.id = y.id /\ Agree(y, n)
    BY <1>1, <2>1, <2>2, UpdateFits
  <2>. QED
    BY <2>3, <2>4
<1>. HIDE DEF N, ids
<1>4. Inserting(stmt[p]) = {} /\ Inserting(stmt'[p]) = {} /\ stmt[p].do # "failed"
  BY <1>1, NotAnInsert DEF Inserting
<1>5. Product(p) = tx[p].adds \cup ToCreate(job[p]) /\ Product(p)' = tx'[p].adds \cup ToCreate(job[p])
  BY <1>1, <1>4 DEF Product
<1>6. \A u \in Product(p)' : \E v \in rows \cup Product(p) : v.id = u.id /\ Agree(v, u)
  BY <1>1, <1>2, <1>5, AgreeWithItself DEF View
<1>7. \A a \in Product(p) : \E b \in Product(p)' : a.id = b.id /\ Agree(a, b)
  BY <1>1, <1>3, <1>5, AgreeWithItself DEF View
<1>8. From("user", Product(p)') \subseteq Product(p)'
  BY DEF From
<1>. QED
  BY <1>1, <1>4, <1>6, <1>7, <1>8, RecordedGoesOn

LEMMA RecordedRemoved ==
    ASSUME Discipline, Recorded, NEW p \in Requests, Removed(p)
    PROVE  Recorded'
<1>. DEFINE hit == Hit(p)
            C == Children(p)
<1>1. /\ OnlyOf(p) /\ UNCHANGED rows /\ stmt[p].do = "delete" /\ job'[p] = job[p]
      /\ stmt'[p] = IF C = {} THEN NoStmt ELSE Delete(Ids(C), FALSE)
      /\ tx'[p].adds = {x \in tx[p].adds : x.id \notin hit}
  BY RemovedChange
<1>2. \A id \in hit : id[1] \in Deletable
  BY <1>1 DEF Discipline, StmtOK, Hit, Ids
<1>. HIDE DEF hit, C
<1>3. Inserting(stmt[p]) = {} /\ Inserting(stmt'[p]) = {} /\ stmt[p].do # "failed"
  BY <1>1, NotAnInsert DEF Inserting
<1>4. Product(p) = tx[p].adds \cup ToCreate(job[p]) /\ Product(p)' = tx'[p].adds \cup ToCreate(job[p])
  BY <1>1, <1>3 DEF Product
<1>5. \A u \in From("user", Product(p)') : \E v \in rows \cup Product(p) : v.id = u.id /\ Agree(v, u)
  BY <1>1, <1>4, AgreeWithItself DEF From
<1>6. \A a \in Product(p) : Table(a) \notin Deletable => \E b \in Product(p)' : a.id = b.id /\ Agree(a, b)
  BY <1>1, <1>2, <1>4, AgreeWithItself DEF Table
<1>. QED
  BY <1>1, <1>3, <1>5, <1>6, RecordedGoesOn

LEMMA RecordedAdded ==
    ASSUME Discipline, Recorded, NEW p \in Requests, Added(p)
    PROVE  Recorded'
<1>. DEFINE n == stmt[p].new
<1>1. /\ OnlyOf(p) /\ UNCHANGED rows /\ stmt[p].do = "insert" /\ job'[p] = job[p] /\ stmt'[p] = NoStmt
      /\ tx'[p].adds = tx[p].adds \cup {n}
  BY AddedChange
<1>2. Inserting(stmt[p]) = {n} /\ Inserting(stmt'[p]) = {}
  BY <1>1, NotAnInsert DEF Inserting
<1>. HIDE DEF n
<1>3. Product(p)' = Product(p)
  BY <1>1, <1>2 DEF Product
<1>4. \A u \in From("user", Product(p)') : \E v \in rows \cup Product(p) : v.id = u.id /\ Agree(v, u)
  BY <1>3, AgreeWithItself DEF From
<1>5. \A a \in Product(p) : \E b \in Product(p)' : a.id = b.id /\ Agree(a, b)
  BY <1>3, AgreeWithItself
<1>. QED
  BY <1>1, <1>4, <1>5, RecordedGoesOn

LEMMA RecordedStopped ==
    ASSUME Discipline, Recorded, NEW p \in Requests, Stops(p)
    PROVE  Recorded'
<1>1. OnlyOf(p) /\ UNCHANGED rows /\ stmt'[p].do = "failed"
  BY StopsChange
<1>2. \A r \in Requests : r # p => Product(r)' = Product(r) /\ stmt'[r] = stmt[r]
  BY <1>1 DEF OnlyOf, Product
<1>. QED
  BY <1>1, <1>2 DEF Recorded, From, Table, IsRecordOf

LEMMA RecordedEnds ==
    ASSUME Discipline, Recorded, NEW p \in Requests, Commit(p) \/ Rollback(p)
    PROVE  Recorded'
<1>1. OnlyOf(p) /\ tx'[p].adds = {} /\ stmt'[p] = NoStmt /\ ToCreate(job'[p]) = {}
  BY EndsChange
<1>2. Product(p)' = {}
  BY <1>1, NotAnInsert DEF Product, Inserting
<1>3. \A r \in Requests : r # p => Product(r)' = Product(r) /\ stmt'[r] = stmt[r]
  BY <1>1 DEF OnlyOf, Product
\* No record is lost with the rows p commits.
<1>4. ASSUME NEW a \in rows, Table(a) \notin Deletable PROVE \E b \in rows' : a.id = b.id /\ Agree(a, b)
  <2>1. CASE Rollback(p)
    BY <2>1, RollbackChange, AgreeWithItself
  <2>2. CASE Commit(p)
    <3>1. View(p) \subseteq rows'
      BY <2>2, CommitChange
    <3>2. CASE a.id \notin tx[p].gone
      BY <3>1, <3>2, AgreeWithItself DEF View
    <3>3. CASE a.id \in tx[p].gone
      <4>1. TxOK(p)
        BY DEF Discipline
      <4>2. PICK x \in tx[p].adds : x.id = a.id
        BY <1>4, <3>3, <4>1 DEF TxOK, Table
      <4>3. x \in Versions /\ a \in Versions /\ x \in View(p)
        BY DEF Versions, View
      <4>. QED
        BY <3>1, <4>2, <4>3, VersionsAgree
    <3>. QED
      BY <3>2, <3>3
  <2>. QED
    BY <2>1, <2>2
<1>5. ASSUME NEW u, IsRow(u), Table(u) = "user", NEW a \in rows, IsRecordOf(a, u)
      PROVE  \E b \in rows' : IsRecordOf(b, u)
  <2>1. PICK b \in rows' : a.id = b.id /\ Agree(a, b)
    BY <1>4, <1>5, RecordTables
  <2>. QED
    BY <1>5, <2>1, RecordsAgree, AgreeWithItself
<1>6. ASSUME NEW r \in Requests, r # p, stmt'[r].do # "failed", NEW u \in From("user", Product(r))
      PROVE  \E a \in rows' \cup Product(r) : IsRecordOf(a, u)
  <2>1. IsRow(u) /\ Table(u) = "user"
    BY <1>6, ProductRows DEF From
  <2>2. \E a \in rows \cup Product(r) : IsRecordOf(a, u)
    BY <1>3, <1>6 DEF Recorded
  <2>. QED
    BY <1>5, <2>1, <2>2
<1>7. ASSUME NEW u \in From("user", rows') PROVE \E b \in rows' : IsRecordOf(b, u)
  <2>1. CASE u \in rows
    <3>1. IsRow(u) /\ Table(u) = "user" /\ \E a \in rows : IsRecordOf(a, u)
      BY <1>7, <2>1 DEF Recorded, From, Discipline, RowsOK
    <3>. QED
      BY <1>5, <3>1
  <2>2. CASE u \notin rows
    <3>0. Commit(p)
      BY <1>7, <2>2, RollbackChange DEF From
    <3>1. /\ stmt[p] = NoStmt /\ ToCreate(job[p]) = {} /\ View(p) \subseteq rows'
          /\ u \in View(p) \/ Table(u) = "audit"
      BY <1>7, <3>0, CommitChange DEF From
    <3>2. u \in tx[p].adds
      BY <1>7, <2>2, <3>1 DEF View, From
    <3>3. Product(p) = tx[p].adds /\ stmt[p].do # "failed"
      BY <3>1, NotAnInsert DEF Product, Inserting
    <3>4. IsRow(u) /\ Table(u) = "user" /\ \E a \in rows \cup tx[p].adds : IsRecordOf(a, u)
      BY <1>7, <3>2, <3>3, ProductRows DEF Recorded, From
    <3>. QED
      BY <1>5, <3>1, <3>4 DEF View
  <2>. QED
    BY <2>1, <2>2
<1>8. From("user", {}) = {}
  BY DEF From
<1>. QED
  BY <1>2, <1>3, <1>6, <1>7, <1>8 DEF Recorded, From, Table, IsRecordOf

LEMMA RecordedAlways == Spec => [](Discipline /\ Isolated /\ Recorded)
<1>1. Init => Recorded
  <2>. SUFFICES ASSUME Init PROVE Recorded
    OBVIOUS
  <2>1. PICK w \in Workloads : rows = w.rows
    BY Beginning
  <2>2. HasWholeAccounts(rows)
    BY <2>1, WorkloadsAssumption
  <2>3. ASSUME NEW u \in From("user", rows) PROVE \E a \in rows : IsRecordOf(a, u)
    <3>1. Cardinality({x \in From(u.type, rows) : x.user = u.id}) = 1
      BY <2>2 DEF HasWholeAccounts
    <3>2. {x \in From(u.type, rows) : x.user = u.id} # {}
      BY <3>1, FS_EmptySet
    <3>. QED
      BY <3>2 DEF From, IsRecordOf
  <2>4. From("user", {}) = {}
    BY DEF From
  <2>. QED
    BY <2>3, <2>4, Beginning DEF Recorded
<1>2. Discipline /\ Isolated /\ Recorded /\ [Next]_allVars => Recorded'
  <2>. SUFFICES ASSUME Discipline, Isolated, Recorded, [Next]_allVars PROVE Recorded'
    OBVIOUS
  <2>1. ASSUME UNCHANGED allVars PROVE Recorded'
    BY <2>1, NothingMoves DEF Recorded, Product, From, Table, IsRecordOf
  <2>2. ASSUME NEW p \in Requests, Kinds(p) PROVE Recorded'
    BY <2>2, NextDiscipline, RecordedPlanned, RecordedStopped, RecordedUpdated, RecordedRemoved,
       RecordedAdded, RecordedEnds DEF Kinds
  <2>. QED
    BY <2>1, <2>2, EveryStep
<1>. QED
  BY <1>1, <1>2, IsolatedAlways, PTL DEF Spec

\* Every user has exactly one record of its type: registration commits both or
\* neither, and the unique key of the record keeps a second one out.
THEOREM AccountsAreAlwaysWhole == Spec => []AccountsAreWhole
<1>1. Discipline /\ Isolated /\ Recorded => AccountsAreWhole
  <2>. SUFFICES ASSUME Discipline, Isolated, Recorded, NEW u \in From("user", rows)
                PROVE  Cardinality({x \in From(u.type, rows) : x.user = u.id}) = 1
    BY DEF AccountsAreWhole, HasWholeAccounts
  <2>1. PICK a \in rows : Table(a) = u.type /\ a.user = u.id
    BY DEF Recorded, IsRecordOf
  <2>2. u.type \in {"admin", "candidate"}
    BY DEF Discipline, RowsOK, IsRow, From
  <2>3. ASSUME NEW x \in From(u.type, rows), x.user = u.id PROVE x = a
    <3>1. KeyOf(x) = <<u.type, u.id>> /\ KeyOf(a) = <<u.type, u.id>>
      BY <2>1, <2>2, <2>3 DEF KeyOf, From
    <3>. QED
      BY <3>1 DEF Isolated, KeysAreUnique, From
  <2>4. {x \in From(u.type, rows) : x.user = u.id} = {a}
    BY <2>1, <2>3 DEF From
  <2>. QED
    BY <2>4, FS_Singleton
<1>. QED
  BY <1>1, RecordedAlways, PTL

-----------------------------------------------------------------------------
(***************************************************************************)
(* The log of what administrators change.                                  *)
(***************************************************************************)
\* p has written nothing, or only overrides of a template it deactivates.
WritesNothing(p)  == tx[p] = NoTx /\ stmt[p].do \in {"none", "failed"} /\ job[p].todo = <<"commit">>
WritesOverrides(p) ==
    /\ job[p].do = "deactivate_template"
    /\ \A x \in tx[p].adds : Table(x) = "override"
    /\ \A id \in tx[p].gone : id[1] = "override"
    /\ stmt[p].do \in {"none", "failed", "update"}
    /\ stmt[p].do = "update" => \A id \in stmt[p].ids : id[1] = "override"

LEMMA MarksAndCommits ==
    /\ Head(<<"commit">>) = "commit"
    /\ \A t : t = <<"mark_stale", "commit">> => "commit" \in Steps(t)
<1>1. Head(<<"commit">>) = "commit"
  OBVIOUS
<1>2. ASSUME NEW t, t = <<"mark_stale", "commit">> PROVE "commit" \in Steps(t)
  <2>1. t[2] = "commit" /\ Len(t) = 2
    BY <1>2
  <2>2. 2 \in 1 .. Len(t)
    BY <2>1
  <2>. QED
    BY <2>1, <2>2 DEF Steps
<1>. QED
  BY <1>1, <1>2

LEMMA QuietPlanned ==
    ASSUME Discipline, Discipline', QuietUnlessLogged, NEW p \in Requests, Plans(p), Unlogged(p)'
    PROVE  WritesNothing(p)' \/ WritesOverrides(p)'
<1>1. tx'[p] = tx[p] /\ stmt[p] = NoStmt
  BY PlansChange DEF Plans
<1>2. \/ job'[p].todo = <<"commit">>
      \/ job'[p].do = "deactivate_template" /\ job'[p].todo = <<"mark_stale", "commit">>
  <2>1. JobOK(p, job[p])'
    BY DEF Discipline
  <2>. QED
    BY <2>1 DEF JobOK, Script, Unlogged, IsAdmin, Steps
<1>3. CASE tx[p] = NoTx /\ stmt'[p] = NoStmt
  <2>1. stmt'[p].do = "none" /\ NoTx.adds = {} /\ NoTx.gone = {}
    BY <1>3, NotAnInsert DEF NoTx
  <2>2. CASE job'[p].todo = <<"commit">>
    BY <1>1, <1>3, <2>1, <2>2 DEF WritesNothing, NoTx
  <2>3. CASE job'[p].do = "deactivate_template"
    BY <1>1, <1>3, <2>1, <2>3 DEF WritesOverrides
  <2>. QED
    BY <1>2, <2>2, <2>3
<1>4. CASE MarkStale(p)
  <2>1. /\ At(p, "mark_stale") /\ Pass(p)
        /\ Issue(p, Update(Ids({x \in Overrides(p, job[p].entity.id) : x.active}), [active |-> FALSE]))
    BY <1>4 DEF MarkStale
  <2>2. /\ Head(job[p].todo) = "mark_stale" /\ job[p].todo # <<>> /\ JobOK(p, job[p])
    BY <2>1, HeadOfJob DEF At
  <2>3. DOMAIN job = Requests /\ DOMAIN stmt = Requests
    BY DEF Discipline, Shapes
  <2>4. job'[p] = Passed(p, job[p].entity, job[p].walk)
    BY <2>1, <2>3, PassIsPassed
  <2>5. job'[p].by = job[p].by /\ job'[p].do = job[p].do /\ job'[p].todo = Tail(job[p].todo)
    BY <2>4 DEF Passed
  <2>6. Unlogged(p)
    <3>1. "commit" \in Steps(Tail(job[p].todo)) /\ IsAdmin(job[p].by)
      BY <2>5 DEF Unlogged, IsAdmin, Steps
    <3>2. Steps(Tail(job[p].todo)) \subseteq Steps(job[p].todo)
      BY <2>2, TailSteps DEF JobOK, IsJob
    <3>. QED
      BY <3>1, <3>2 DEF Unlogged
  <2>7. job[p].todo # <<"commit">>
    BY <2>2, MarksAndCommits
  <2>8. WritesOverrides(p)
    BY <2>6, <2>7 DEF QuietUnlessLogged, WritesOverrides
  <2>. DEFINE ids == Ids({x \in Overrides(p, job[p].entity.id) : x.active})
              s == Update(ids, [active |-> FALSE])
  <2>9. \A id \in ids : id[1] = "override"
    BY DEF Ids, Overrides, From, Table
  <2>10. stmt'[p] = s
    BY <2>1, <2>3 DEF Issue
  <2>11. s.do = "update" /\ s.ids = ids
    BY DEF Update
  <2>. HIDE DEF ids, s
  <2>. QED
    BY <1>1, <2>5, <2>8, <2>9, <2>10, <2>11 DEF WritesOverrides, Table
<1>. QED
  BY <1>3, <1>4 DEF Plans

LEMMA QuietStays ==
    ASSUME Discipline, Discipline', QuietUnlessLogged, NEW p \in Requests, Kinds(p)
    PROVE  QuietUnlessLogged'
<1>. SUFFICES OnlyOf(p) /\ (Unlogged(p)' => WritesNothing(p)' \/ WritesOverrides(p)')
  BY DEF OnlyOf, QuietUnlessLogged, Unlogged, WritesNothing, WritesOverrides, IsAdmin, Steps, Table
<1>0. Unlogged(p) => WritesNothing(p) \/ WritesOverrides(p)
  BY DEF QuietUnlessLogged, WritesNothing, WritesOverrides
<1>1. CASE Plans(p)
  BY <1>1, PlansChange, QuietPlanned
<1>2. CASE Stops(p)
  <2>1. OnlyOf(p) /\ tx'[p] = tx[p] /\ job'[p] = job[p] /\ stmt'[p].do = "failed"
    BY <1>2, StopsChange
  <2>. QED
    BY <1>0, <2>1 DEF Unlogged, WritesNothing, WritesOverrides, IsAdmin, Steps, Table, NoTx
<1>3. CASE Updated(p)
  <2>. DEFINE N == NewVersions(p)
              ids == Ids(N)
  <2>1. /\ OnlyOf(p) /\ job'[p] = job[p] /\ stmt[p].do = "update" /\ stmt'[p] = NoStmt
        /\ tx'[p].adds = {x \in tx[p].adds : x.id \notin ids} \cup N
        /\ tx'[p].gone = tx[p].gone \cup ids
    BY <1>3, UpdatedChange
  <2>2. \A x \in N : x.id \in stmt[p].ids
    BY <2>1, NewVersionsOf
  <2>3. ids \subseteq stmt[p].ids
    BY <2>2 DEF Ids
  <2>. HIDE DEF N, ids
  <2>4. Unlogged(p)' => WritesOverrides(p)
    BY <1>0, <2>1 DEF Unlogged, WritesNothing, IsAdmin, Steps
  <2>5. WritesOverrides(p) => WritesOverrides(p)'
    BY <2>1, <2>2, <2>3, NotAnInsert DEF WritesOverrides, Table
  <2>. QED
    BY <2>1, <2>4, <2>5
<1>4. CASE Removed(p)
  <2>1. OnlyOf(p) /\ job'[p] = job[p] /\ stmt[p].do = "delete"
    BY <1>4, RemovedChange
  <2>. QED
    BY <1>0, <2>1 DEF Unlogged, WritesNothing, WritesOverrides, IsAdmin, Steps
<1>5. CASE Added(p)
  <2>1. OnlyOf(p) /\ job'[p] = job[p] /\ stmt[p].do = "insert"
    BY <1>5, AddedChange
  <2>. QED
    BY <1>0, <2>1 DEF Unlogged, WritesNothing, WritesOverrides, IsAdmin, Steps
<1>6. CASE Commit(p) \/ Rollback(p)
  <2>1. OnlyOf(p) /\ job'[p].by = Nobody
    BY <1>6, EndsChange
  <2>2. ~Unlogged(p)'
    BY <2>1 DEF Unlogged, IsAdmin, Nobody
  <2>. QED
    BY <2>1, <2>2
<1>. QED
  BY <1>1, <1>2, <1>3, <1>4, <1>5, <1>6 DEF Kinds

LEMMA QuietAlways == Spec => [](Discipline /\ QuietUnlessLogged)
<1>1. Init => Discipline /\ QuietUnlessLogged
  BY InitDiscipline, Beginning, NobodyIsNoTenant DEF QuietUnlessLogged, Unlogged
<1>2. Discipline /\ QuietUnlessLogged /\ [Next]_allVars => Discipline' /\ QuietUnlessLogged'
  <2>. SUFFICES ASSUME Discipline, QuietUnlessLogged, [Next]_allVars PROVE QuietUnlessLogged'
    BY NextDiscipline
  <2>1. ASSUME UNCHANGED allVars PROVE QuietUnlessLogged'
    BY <2>1, NothingMoves DEF QuietUnlessLogged, Unlogged, IsAdmin, Steps, Table
  <2>2. ASSUME NEW p \in Requests, Kinds(p) PROVE QuietUnlessLogged'
    BY <2>2, NextDiscipline, QuietStays
  <2>. QED
    BY <2>1, <2>2, EveryStep
<1>. QED
  BY <1>1, <1>2, PTL DEF Spec

\* What an administrator's request commits comes with the log entry that names
\* it; the one operation that logs nothing changes no template.
LEMMA CommitIsLogged ==
    ASSUME Discipline, QuietUnlessLogged, NEW p \in Requests, Commit(p), rows' # rows, IsAdmin(job[p].by)
    PROVE  \/ \E x \in From("audit", rows') : x.id = <<"audit", p>> /\ x.action = job[p].do
           \/ /\ job[p].do = "deactivate_template"
              /\ From("template", rows') = From("template", rows)
<1>1. CASE At(p, "commit")
  <2>1. rows' = View(p)
    BY <1>1 DEF Commit, CommitTx
  <2>2. Unlogged(p)
    BY <1>1, HeadOfJob DEF Unlogged
  <2>3. tx[p] # NoTx
    <3>1. NoTx.adds = {} /\ NoTx.gone = {}
      BY DEF NoTx
    <3>. QED
      BY <2>1, <3>1 DEF View
  <2>4. WritesOverrides(p)
    BY <2>2, <2>3 DEF QuietUnlessLogged, WritesOverrides
  <2>5. From("template", View(p)) = From("template", rows)
    BY <2>4 DEF WritesOverrides, From, View, Table
  <2>. QED
    BY <2>1, <2>4, <2>5 DEF WritesOverrides
<1>2. CASE ~At(p, "commit")
  <2>. DEFINE a == AuditRow(p)
  <2>1. a \in rows'
    BY <1>2 DEF Commit, CommitTx
  <2>2. ~Ended(p)
    BY CommitChange
  <2>3. a.id = <<"audit", p>> /\ Table(a) = "audit" /\ a.action = job[p].do
    BY <2>2, AuditRowIsNew
  <2>. HIDE DEF a
  <2>. QED
    BY <2>1, <2>3 DEF From
<1>. QED
  BY <1>1, <1>2

\* No administrator's change of content is committed without its log entry.
THEOREM ChangesAreAlwaysLogged == Spec => ChangesAreLogged
<1>1. Discipline /\ QuietUnlessLogged /\ [Next]_allVars =>
        [\A r \in Requests :
            /\ job'[r] # job[r] /\ rows' # rows /\ IsAdmin(job[r].by)
            => \/ \E x \in From("audit", rows') : x.id = <<"audit", r>> /\ x.action = job[r].do
               \/ /\ job[r].do = "deactivate_template"
                  /\ From("template", rows') = From("template", rows)]_allVars
  <2>. SUFFICES ASSUME Discipline, QuietUnlessLogged, [Next]_allVars, ~UNCHANGED allVars,
                       NEW r \in Requests, job'[r] # job[r], rows' # rows, IsAdmin(job[r].by)
                PROVE  \/ \E x \in From("audit", rows') : x.id = <<"audit", r>> /\ x.action = job[r].do
                       \/ /\ job[r].do = "deactivate_template"
                          /\ From("template", rows') = From("template", rows)
    OBVIOUS
  <2>1. PICK p \in Requests : Kinds(p)
    BY EveryStep
  <2>2. Commit(p)
    BY <2>1, PlansChange, StopsChange, UpdatedChange, RemovedChange, AddedChange, RollbackChange DEF Kinds
  <2>3. p = r
    BY <2>2, EndsChange DEF OnlyOf
  <2>. QED
    BY <2>2, <2>3, CommitIsLogged
<1>. QED
  BY <1>1, QuietAlways, PTL DEF Spec, ChangesAreLogged

-----------------------------------------------------------------------------
(***************************************************************************)
(* Events and what escalates them.                                         *)
(***************************************************************************)
LEMMA EventsAreKept == "event" \notin Deletable /\ Mutable["event"] = {}
BY DEF Deletable, Mutable

\* No request changes or deletes a stored event, so it sees them all.
LEMMA EventsSeen ==
    ASSUME Discipline, NEW p \in Requests
    PROVE  /\ From("event", View(p)) = From("event", rows \cup tx[p].adds)
           /\ \A id \in tx[p].gone : id[1] # "event"
<1>1. TxOK(p)
  BY DEF Discipline
<1>2. \A id \in tx[p].gone : id[1] # "event"
  BY <1>1, EventsAreKept DEF TxOK
<1>3. From("event", View(p)) = From("event", rows \cup tx[p].adds)
  BY <1>2 DEF From, View, Table
<1>. QED
  BY <1>2, <1>3

\* An event loses no cause by what is stored besides.
LEMMA CausesStay ==
    ASSUME NEW e, NEW S, NEW T, From("event", S) \subseteq From("event", T), IsFiniteSet(T), HasCause(e, S)
    PROVE  HasCause(e, T)
<1>. SUFFICES ASSUME e.kind \in DOMAIN Clusters, Clusters[e.kind].threshold <= Cardinality(Alike(e, S))
              PROVE  Clusters[e.kind].threshold <= Cardinality(Alike(e, T))
  BY DEF HasCause
<1>. DEFINE A == Alike(e, S)
            B == Alike(e, T)
            m == Cardinality(A)
            n == Cardinality(B)
<1>1. A \subseteq B /\ B \subseteq T
  BY DEF Alike, From
<1>. HIDE DEF A, B
<1>2. IsFiniteSet(B) /\ IsFiniteSet(A) /\ m <= n
  <2>1. IsFiniteSet(B)
    BY <1>1, FS_Subset
  <2>. QED
    BY <1>1, <2>1, FS_Subset
<1>3. m \in Nat /\ n \in Nat
  BY <1>2, FS_CardinalityType
<1>4. Clusters[e.kind].threshold \in Nat /\ Clusters[e.kind].threshold <= m
  BY ProctoringAssumption DEF A
<1>. HIDE DEF m, n
<1>5. Clusters[e.kind].threshold <= n
  BY <1>2, <1>3, <1>4
<1>. QED
  BY <1>5 DEF n, B

\* The rule that escalates a new event finds its cause among what is there.
LEMMA EscalatedWithCause ==
    ASSUME Discipline, NEW p \in Requests, NEW f, NEW n, f.kind \in DOMAIN Rules,
           NEW e, e = NewEvent(p, f, n), e \notin rows \cup tx[p].adds
    PROVE  HasCause(e, rows \cup tx[p].adds)
<1>. DEFINE S == rows \cup tx[p].adds
<1>1. /\ e.kind = f.kind /\ e.time = f.time
      /\ e.weight = ApplyRules(p, f).weight
  BY DEF NewEvent
<1>2. CASE ~Clustered(p, f)
  <2>1. e.weight = Rules[e.kind].weight /\ Rules[e.kind].weight \in Nat
    BY <1>1, <1>2, ProctoringAssumption DEF ApplyRules
  <2>2. ~(e.weight > Rules[e.kind].weight)
    BY <2>1
  <2>. QED
    BY <2>2 DEF HasCause
<1>3. CASE Clustered(p, f)
  <2>. DEFINE c == Clusters[f.kind]
              E == From("event", S)
              W == {x \in OfKind(p, f.kind) : x.time \in (f.time - c.window) .. f.time}
  <2>1. f.kind \in DOMAIN Clusters /\ c.condition \in {"count_in_window", "consecutive"} /\ c.threshold \in Nat
    BY <1>3, ProctoringAssumption DEF Clustered
  <2>2. Events(p) = E /\ e \notin E
    BY EventsSeen DEF Events, From
  <2>. HIDE DEF S, E
  <2>3. OfKind(p, f.kind) = {x \in E \ {e} : x.kind = f.kind}
    BY <2>2 DEF OfKind
  <2>4. CASE c.condition = "consecutive"
    <3>1. Alike(e, S) = OfKind(p, f.kind)
      BY <1>1, <2>3, <2>4 DEF Alike, E
    <3>. DEFINE k == Cardinality(OfKind(p, f.kind))
    <3>2. k >= c.threshold
      BY <1>3, <2>4 DEF Clustered
    <3>3. IsFiniteSet(OfKind(p, f.kind))
      <4>1. OfKind(p, f.kind) \subseteq View(p)
        BY DEF OfKind, Events, From
      <4>. QED
        BY <4>1, ViewIsFinite, FS_Subset
    <3>4. k \in Nat
      BY <3>3, FS_CardinalityType
    <3>. HIDE DEF k
    <3>5. c.threshold <= k
      BY <2>1, <3>2, <3>4
    <3>. QED
      BY <1>1, <2>1, <3>1, <3>5 DEF HasCause, k, S
  <2>5. CASE c.condition = "count_in_window"
    <3>1. Alike(e, S) = W
      BY <1>1, <2>3, <2>5 DEF Alike, E
    <3>. DEFINE k == Cardinality(W)
    <3>2. k >= c.threshold
      BY <1>3, <2>5 DEF Clustered
    <3>3. IsFiniteSet(W)
      <4>1. W \subseteq View(p)
        BY DEF OfKind, Events, From
      <4>. HIDE DEF W
      <4>. QED
        BY <4>1, ViewIsFinite, FS_Subset
    <3>4. k \in Nat
      BY <3>3, FS_CardinalityType
    <3>. HIDE DEF k, W
    <3>5. c.threshold <= k
      BY <2>1, <3>2, <3>4
    <3>. QED
      BY <1>1, <2>1, <3>1, <3>5 DEF HasCause, k, S
  <2>. QED
    BY <2>1, <2>4, <2>5
<1>. QED
  BY <1>2, <1>3

\* An event a request is about to store has its cause.
LEMMA StoredWithCause ==
    ASSUME Discipline, Caused, NEW p \in Requests, StoreEvent(p)
    PROVE  HasCause(stmt'[p].new, rows \cup tx[p].adds)
<1>. DEFINE c == job[p].create
            f == Head(c)
            n == Len(c)
            e == NewEvent(p, f, n)
<1>1. At(p, "take_event") /\ stmt'[p] = Insert(e) /\ p \in DOMAIN stmt
  BY DEF StoreEvent, Issue, Discipline, Shapes
<1>2. stmt'[p].new = e /\ Table(e) = "event"
  BY <1>1, EventRow DEF Insert
<1>3. f.kind \in DOMAIN Rules
  <2>1. JobOK(p, job[p]) /\ "take_event" \in Steps(job[p].todo)
    BY <1>1, HeadOfJob
  <2>2. c \in Seq([kind : DOMAIN Rules, time : Int]) \ {<<>>}
    BY <2>1 DEF JobOK, Script, IngestSteps
  <2>3. f \in [kind : DOMAIN Rules, time : Int]
    <3>. DEFINE S == [kind : DOMAIN Rules, time : Int]
    <3>1. c \in Seq(S) /\ c # <<>>
      BY <2>2
    <3>. HIDE DEF S, c
    <3>2. Head(c) \in S
      BY <3>1
    <3>. QED
      BY <3>2 DEF S
  <2>. QED
    BY <2>3
<1>. HIDE DEF c, f, n, e
<1>4. CASE e \notin rows \cup tx[p].adds
  BY <1>2, <1>3, <1>4, EscalatedWithCause DEF e
<1>5. CASE e \in tx[p].adds
  BY <1>2, <1>5 DEF Caused, From
<1>6. CASE e \in rows
  <2>1. HasCause(e, rows)
    BY <1>2, <1>6 DEF Caused, From
  <2>. DEFINE T == rows \cup tx[p].adds
  <2>2. IsFiniteSet(rows) /\ IsFiniteSet(tx[p].adds)
    BY DEF Discipline, RowsOK, TxOK
  <2>3. IsFiniteSet(T) /\ From("event", rows) \subseteq From("event", T)
    BY <2>2, FS_Union DEF From
  <2>. HIDE DEF T
  <2>4. HasCause(e, T)
    BY <2>1, <2>3, CausesStay
  <2>. QED
    BY <1>2, <2>4 DEF T
<1>. QED
  BY <1>4, <1>5, <1>6

\* What r has written and is about to write has its cause.
CauseOf(r) ==
    \A e \in From("event", tx[r].adds \cup Inserting(stmt[r])) : HasCause(e, rows \cup tx[r].adds)

LEMMA CausesGrow ==
    ASSUME Discipline', NEW r \in Requests, NEW e, HasCause(e, rows \cup tx[r].adds),
           From("event", rows \cup tx[r].adds) \subseteq From("event", (rows \cup tx[r].adds)')
    PROVE  HasCause(e, (rows \cup tx[r].adds)')
<1>. DEFINE T == (rows \cup tx[r].adds)'
            S == rows \cup tx[r].adds
<1>1. IsFiniteSet(rows') /\ IsFiniteSet(tx'[r].adds)
  BY DEF Discipline, RowsOK, TxOK
<1>2. IsFiniteSet(T)
  BY <1>1, FS_Union
<1>3. HasCause(e, S) /\ From("event", S) \subseteq From("event", T)
  OBVIOUS
<1>. HIDE DEF T, S
<1>4. HasCause(e, T)
  BY <1>2, <1>3, CausesStay
<1>. QED
  BY <1>4 DEF T

LEMMA CausedStays ==
    ASSUME Discipline, Discipline', Caused, NEW p \in Requests, Kinds(p)
    PROVE  Caused'
<1>. SUFFICES /\ \A e \in From("event", rows') : HasCause(e, rows')
              /\ \A r \in Requests : \A e \in From("event", (tx[r].adds \cup Inserting(stmt[r]))') :
                    HasCause(e, (rows \cup tx[r].adds)')
  BY DEF Caused
<1>0. OnlyOf(p)
  BY PlansChange, StopsChange, UpdatedChange, RemovedChange, AddedChange, EndsChange DEF Kinds
<1>1. \A r \in Requests : CauseOf(r)
  BY DEF Caused, CauseOf
\* The stored events.
<1>2. /\ From("event", rows) \subseteq From("event", rows')
      /\ \A e \in From("event", rows') : HasCause(e, rows')
  <2>1. CASE UNCHANGED rows
    BY <2>1 DEF Caused
  <2>2. CASE Commit(p)
    <3>1. PICK added : rows' = View(p) \cup added /\ \A x \in added : Table(x) = "audit"
      BY <2>2, CommitChange
    <3>2. From("event", rows') = From("event", View(p))
      BY <3>1 DEF From
    <3>3. From("event", rows') = From("event", rows \cup tx[p].adds)
      BY <3>2, EventsSeen
    <3>. DEFINE S == rows \cup tx[p].adds
    <3>4. IsFiniteSet(rows')
      BY DEF Discipline, RowsOK
    <3>5. \A e \in From("event", S) : HasCause(e, S)
      <4>1. ASSUME NEW e \in From("event", rows) PROVE HasCause(e, S)
        <5>1. HasCause(e, rows) /\ IsFiniteSet(rows) /\ IsFiniteSet(tx[p].adds)
          BY <4>1 DEF Caused, Discipline, RowsOK, TxOK
        <5>2. IsFiniteSet(S) /\ From("event", rows) \subseteq From("event", S)
          BY <5>1, FS_Union DEF From
        <5>. HIDE DEF S
        <5>. QED
          BY <5>1, <5>2, CausesStay
      <4>2. ASSUME NEW e \in From("event", tx[p].adds) PROVE HasCause(e, S)
        BY <4>2 DEF Caused, From
      <4>. QED
        BY <4>1, <4>2 DEF From
    <3>6. From("event", S) = From("event", rows') /\ From("event", rows) \subseteq From("event", S)
      BY <3>3 DEF From
    <3>. HIDE DEF S
    <3>7. ASSUME NEW e \in From("event", rows') PROVE HasCause(e, rows')
      BY <3>4, <3>5, <3>6, <3>7, CausesStay
    <3>. QED
      BY <3>6, <3>7
  <2>3. Commit(p) \/ UNCHANGED rows
    BY PlansChange, StopsChange, UpdatedChange, RemovedChange, AddedChange, RollbackChange DEF Kinds
  <2>. QED
    BY <2>1, <2>2, <2>3
\* The others write what they wrote.
<1>3. ASSUME NEW r \in Requests, r # p, NEW e \in From("event", (tx[r].adds \cup Inserting(stmt[r]))')
      PROVE  HasCause(e, (rows \cup tx[r].adds)')
  <2>1. tx'[r] = tx[r] /\ stmt'[r] = stmt[r]
    BY <1>0, <1>3 DEF OnlyOf
  <2>2. e \in From("event", tx[r].adds \cup Inserting(stmt[r]))
    BY <1>3, <2>1 DEF Inserting
  <2>3. HasCause(e, rows \cup tx[r].adds)
    BY <1>1, <2>2 DEF CauseOf
  <2>4. From("event", rows \cup tx[r].adds) \subseteq From("event", (rows \cup tx[r].adds)')
    BY <1>2, <2>1 DEF From
  <2>. QED
    BY <1>3, <2>3, <2>4, CausesGrow
\* What p writes.
<1>4. ASSUME NEW e \in From("event", (tx[p].adds \cup Inserting(stmt[p]))')
      PROVE  HasCause(e, (rows \cup tx[p].adds)')
  <2>. DEFINE old == From("event", tx[p].adds \cup Inserting(stmt[p]))
              S == rows \cup tx[p].adds
              T == (rows \cup tx[p].adds)'
  <2>0. \A x \in old : HasCause(x, S)
    BY <1>1 DEF CauseOf
  <2>1. CASE Commit(p) \/ Rollback(p)
    <3>1. tx'[p].adds = {} /\ Inserting(stmt'[p]) = {}
      BY <2>1, EndsChange, NotAnInsert DEF Inserting
    <3>. QED
      BY <1>4, <3>1 DEF From, Inserting
  <2>2. CASE Plans(p)
    <3>1. T = S /\ tx'[p] = tx[p]
      BY <2>2, PlansChange
    <3>2. CASE e \in old
      BY <2>0, <3>1, <3>2
    <3>3. CASE e \notin old
      <4>1. stmt'[p].do = "insert" /\ e = stmt'[p].new /\ Table(e) = "event"
        BY <1>4, <3>1, <3>3 DEF From, Inserting
      <4>2. StoreEvent(p)
        BY <2>2, <4>1 DEF Plans
      <4>. QED
        BY <3>1, <4>1, <4>2, StoredWithCause
    <3>. QED
      BY <3>2, <3>3
  <2>3. CASE Stops(p)
    <3>1. UNCHANGED rows /\ tx'[p] = tx[p] /\ Inserting(stmt'[p]) = {}
      BY <2>3, StopsChange DEF Inserting
    <3>. QED
      BY <1>4, <2>0, <3>1 DEF From, Inserting
  <2>4. CASE Updated(p) \/ Removed(p) \/ Added(p)
    <3>1. From("event", S) \subseteq From("event", T) /\ e \in old
      <4>1. CASE Added(p)
        <5>1. /\ UNCHANGED rows /\ tx'[p].adds = tx[p].adds \cup {stmt[p].new} /\ stmt'[p] = NoStmt
              /\ stmt[p].do = "insert"
          BY <4>1, AddedChange
        <5>2. Inserting(stmt'[p]) = {} /\ Inserting(stmt[p]) = {stmt[p].new}
          BY <5>1, NotAnInsert DEF Inserting
        <5>. QED
          BY <1>4, <5>1, <5>2 DEF From, Inserting
      <4>2. CASE Updated(p)
        <5>. DEFINE N == NewVersions(p)
                    ids == Ids(N)
        <5>1. /\ UNCHANGED rows /\ stmt'[p] = NoStmt /\ stmt[p].do = "update"
              /\ tx'[p].adds = {x \in tx[p].adds : x.id \notin ids} \cup N
          BY <4>2, UpdatedChange
        <5>2. \A x \in N : x.id[1] # "event"
          BY <5>1, NewVersionsOf, EventsAreKept DEF Table
        <5>3. \A id \in ids : id[1] # "event"
          BY <5>2 DEF Ids
        <5>. HIDE DEF N, ids
        <5>4. Inserting(stmt'[p]) = {}
          BY <5>1, NotAnInsert DEF Inserting
        <5>. QED
          BY <1>4, <5>1, <5>2, <5>3, <5>4 DEF From, Table, Inserting
      <4>3. CASE Removed(p)
        <5>1. /\ UNCHANGED rows /\ stmt[p].do = "delete"
              /\ stmt'[p] = IF Children(p) = {} THEN NoStmt ELSE Delete(Ids(Children(p)), FALSE)
              /\ tx'[p].adds = {x \in tx[p].adds : x.id \notin Hit(p)}
              /\ tx'[p].gone = tx[p].gone \cup Hit(p)
          BY <4>3, RemovedChange
        <5>2. \A id \in Hit(p) : id[1] # "event"
          <6>1. \A id \in tx'[p].gone : id[1] # "event"
            <7>1. TxOK(p)'
              BY DEF Discipline
            <7>. QED
              BY <7>1, EventsAreKept DEF TxOK
          <6>. QED
            BY <5>1, <6>1
        <5>3. Inserting(stmt'[p]) = {}
          BY <5>1, NotAnInsert DEF Inserting
        <5>. QED
          BY <1>4, <5>1, <5>2, <5>3 DEF From, Table, Inserting
      <4>. QED
        BY <2>4, <4>1, <4>2, <4>3
    <3>. QED
      BY <2>0, <3>1, CausesGrow
  <2>. QED
    BY <2>1, <2>2, <2>3, <2>4 DEF Kinds
<1>. QED
  BY <1>2, <1>3, <1>4

\* What the assumption on the workloads says of an event is its cause.
LEMMA CauseCounted ==
    ASSUME NEW S, NEW e \in From("event", S)
    PROVE  (e.weight > Rules[e.kind].weight =>
              LET c == Clusters[e.kind]
                  alike == {x \in From("event", S) \ {e} : x.kind = e.kind}
              IN  /\ e.kind \in DOMAIN Clusters
                  /\ c.threshold <= IF c.condition = "consecutive" THEN Cardinality(alike)
                                    ELSE Cardinality({x \in alike : x.time \in (e.time - c.window) .. e.time}))
           <=> HasCause(e, S)
<1>. DEFINE c == Clusters[e.kind]
            alike == {x \in From("event", S) \ {e} : x.kind = e.kind}
            near == {x \in alike : x.time \in (e.time - c.window) .. e.time}
<1>1. CASE c.condition = "consecutive"
  <2>1. Alike(e, S) = alike
    BY <1>1 DEF Alike
  <2>. HIDE DEF alike
  <2>. QED
    BY <1>1, <2>1 DEF HasCause, alike
<1>2. CASE c.condition # "consecutive"
  <2>1. Alike(e, S) = near
    BY <1>2 DEF Alike
  <2>. HIDE DEF near
  <2>. QED
    BY <1>2, <2>1 DEF HasCause, near
<1>. QED
  BY <1>1, <1>2

LEMMA CausesCounted ==
    ASSUME NEW S
    PROVE  HasCauses(S) <=> \A e \in From("event", S) : HasCause(e, S)
<1>1. HasCauses(S) => \A e \in From("event", S) : HasCause(e, S)
  <2>. SUFFICES ASSUME HasCauses(S), NEW e \in From("event", S) PROVE HasCause(e, S)
    OBVIOUS
  <2>. QED
    BY CauseCounted DEF HasCauses
<1>2. (\A e \in From("event", S) : HasCause(e, S)) => HasCauses(S)
  <2>. SUFFICES ASSUME \A e \in From("event", S) : HasCause(e, S) PROVE HasCauses(S)
    OBVIOUS
  <2>1. ASSUME NEW e \in From("event", S)
        PROVE  e.weight > Rules[e.kind].weight =>
              LET c == Clusters[e.kind]
                  alike == {x \in From("event", S) \ {e} : x.kind = e.kind}
              IN  /\ e.kind \in DOMAIN Clusters
                  /\ c.threshold <= IF c.condition = "consecutive" THEN Cardinality(alike)
                                    ELSE Cardinality({x \in alike : x.time \in (e.time - c.window) .. e.time})
    BY <2>1, CauseCounted
  <2>. QED
    BY <2>1 DEF HasCauses
<1>. QED
  BY <1>1, <1>2

LEMMA CausedAlways == Spec => [](Discipline /\ Caused)
<1>1. Init => Discipline /\ Caused
  <2>. SUFFICES ASSUME Init PROVE Caused
    BY InitDiscipline
  <2>1. PICK w \in Workloads : rows = w.rows
    BY Beginning
  <2>2. HasCauses(rows)
    BY <2>1, WorkloadsAssumption
  <2>3. \A r \in Requests : tx[r].adds = {} /\ Inserting(stmt[r]) = {}
    BY Beginning
  <2>. QED
    BY <2>2, <2>3, CausesCounted DEF Caused, From
<1>2. Discipline /\ Caused /\ [Next]_allVars => Discipline' /\ Caused'
  <2>. SUFFICES ASSUME Discipline, Caused, [Next]_allVars PROVE Caused'
    BY NextDiscipline
  <2>1. ASSUME UNCHANGED allVars PROVE Caused'
    BY <2>1, NothingMoves DEF Caused, From, Inserting
  <2>2. ASSUME NEW p \in Requests, Kinds(p) PROVE Caused'
    BY <2>2, NextDiscipline, CausedStays
  <2>. QED
    BY <2>1, <2>2, EveryStep
<1>. QED
  BY <1>1, <1>2, PTL DEF Spec

\* A stored event that was escalated has the stored events its rule asks for,
\* though the requests that stored them read and wrote at the same time.
THEOREM EscalationsHaveCauses == Spec => []EscalationHasCause
<1>1. Discipline /\ Caused => EscalationHasCause
  BY CausesCounted DEF EscalationHasCause, Caused
<1>. QED
  BY <1>1, CausedAlways, PTL

\* What the committed tables promise together holds after any requests.
THEOREM TablesAreAlwaysConsistent == Spec => []TablesAreConsistent
<1>1. /\ TypeOK /\ OneActive /\ VersionsAreContiguous /\ SnapshotWasOffered
      /\ AccountsAreWhole /\ EscalationHasCause /\ OverridesCoverBase
      => TablesAreConsistent
  BY DEF TablesAreConsistent
<1>. QED
  BY <1>1, ContentTypesAreCorrect, ExactlyOneIsActive, VersionsAreAlwaysContiguous,
     SnapshotsWereOffered, AccountsAreAlwaysWhole, EscalationsHaveCauses, OverridesAlwaysCoverBase, PTL

-----------------------------------------------------------------------------
(***************************************************************************)
(* Which operation a request is of, for profiles and risks.                *)
(***************************************************************************)
Traced   == {"ingest", "recompute", "update_profile"}
Named(p) == At(p, "begin") /\ job'[p].do \notin Traced /\ ~PutsSkills(stmt'[p])
Moves(p) == Call(p) \/ Abandon(p) \/ ProctoringBegin(p) \/ RequestStep(p)

LEMMA WithoutSkills ==
    /\ ~PutsSkills(NoStmt) /\ ~PutsSkills(Failed)
    /\ \A ids, must : ~PutsSkills(Delete(ids, must))
    /\ \A x : ~PutsSkills(Insert(x))
    /\ \A ids, cols : "skills" \notin DOMAIN cols => ~PutsSkills(Update(ids, cols))
    /\ \A id, cols : "skills" \notin DOMAIN cols => ~PutsSkills(UpdateRow(id, cols))
BY DEF PutsSkills, NoStmt, Failed, Delete, Insert, Update, UpdateRow

\* The ORM's UPDATE of a row that is no profile.
LEMMA ChangedSkills ==
    ASSUME NEW x, NEW new, IsRow(x), Table(x) # "candidate"
    PROVE  "skills" \notin DOMAIN Changed(new, x)
<1>1. "skills" \notin Columns[Table(x)]
  <2>1. Table(x) \in Tables
    BY DEF IsRow, Tables
  <2>. HIDE DEF Tables
  <2>2. \A t \in Tables : t # "candidate" => "skills" \notin Columns[t]
    BY TableNames DEF Columns, Mutable, TemplateColumns, OverrideColumns, RubricColumns,
       DimensionColumns, WindowColumns, MappingColumns, RoleColumns, TopicColumns, CodingTopicColumns,
       QuestionColumns, ProblemColumns, AuditColumns, PersonalColumns, InsightColumns, UserColumns,
       AdminColumns, CandidateColumns, TokenColumns, SettingsColumns, ResumeColumns, EventColumns,
       RiskColumns
  <2>. QED
    BY <2>1, <2>2
<1>. QED
  BY <1>1 DEF Changed, IsRow

LEMMA StartNamed ==
    ASSUME Shapes, NEW p \in Requests, NEW by, NEW op, op \notin Traced, NEW e, NEW create, NEW todo,
           NEW s, Issue(p, s), ~PutsSkills(s), Start(p, by, op, e, create, todo)
    PROVE  Named(p)
BY DEF Start, Named, Shapes, Issue

LEMMA BeginNamed ==
    ASSUME Shapes, NEW p \in Requests, NEW by, NEW op, op \notin Traced, NEW e, NEW create, NEW todo,
           Begin(p, by, op, e, create, todo)
    PROVE  Named(p)
<1>1. stmt[p] = NoStmt /\ UNCHANGED stmt
  BY DEF Begin, Start, At, dbVars
<1>2. Issue(p, NoStmt)
  BY <1>1 DEF Issue, Shapes
<1>. QED
  BY <1>2, StartNamed, WithoutSkills DEF Begin

LEMMA AdminNamed ==
    ASSUME Shapes, NEW p \in Requests, AdminBegin(p)
    PROVE  Named(p)
<1>1. ASSUME NEW op, op \notin Traced, NEW org, NEW e, NEW create, NEW todo, Serve(p, op, org, e, create, todo) PROVE Named(p)
  BY <1>1, BeginNamed DEF Serve
<1>2. ASSUME NEW op, op \notin Traced, NEW S, Read(p, op, S) PROVE Named(p)
  BY <1>2, BeginNamed DEF Read
<1>3. ReadTemplate(p) \/ CreateTemplate(p) \/ UpdateTemplate(p) => Named(p)
  BY <1>1, <1>2, BeginNamed DEF Traced, ReadTemplate, CreateTemplate, UpdateTemplate
<1>4. ActivateTemplate(p) \/ DeactivateTemplate(p) => Named(p)
  BY <1>1 DEF Traced, ActivateTemplate, DeactivateTemplate
<1>5. ReadOverride(p) \/ CreateOverride(p) => Named(p)
  BY BeginNamed DEF Traced, ReadOverride, CreateOverride
<1>6. UpdateOverride(p) \/ DeleteOverride(p) => Named(p)
  BY BeginNamed DEF Traced, UpdateOverride, DeleteOverride
<1>7. ReadRubric(p) \/ CreateRubric(p) => Named(p)
  BY <1>2, BeginNamed DEF Traced, ReadRubric, CreateRubric
<1>8. UpdateRubric(p) \/ DeactivateRubric(p) => Named(p)
  BY <1>1 DEF Traced, UpdateRubric, DeactivateRubric
<1>9. ReadWindow(p) \/ CreateWindow(p) => Named(p)
  BY BeginNamed DEF Traced, ReadWindow, CreateWindow
<1>10. UpdateWindow(p) \/ ArchiveWindow(p) => Named(p)
  BY BeginNamed DEF Traced, UpdateWindow, ArchiveWindow
<1>. QED
  BY <1>3, <1>4, <1>5, <1>6, <1>7, <1>8, <1>9, <1>10 DEF AdminBegin

LEMMA CatalogNamed ==
    ASSUME Shapes, NEW p \in Requests, CatalogBegin(p)
    PROVE  Named(p)
<1>1. ASSUME NEW op, op \notin Traced, NEW org, NEW e, NEW create, NEW todo, Serve(p, op, org, e, create, todo) PROVE Named(p)
  BY <1>1, BeginNamed DEF Serve
<1>2. ASSUME NEW op, op \notin Traced, NEW S, Read(p, op, S) PROVE Named(p)
  BY <1>2, BeginNamed DEF Read
<1>3. ASSUME NEW op, op \notin Traced, NEW by, NEW new, Create(p, op, by, new) PROVE Named(p)
  BY <1>3, BeginNamed DEF Create
<1>4. ReadRole(p) \/ CreateRole(p) \/ UpdateRole(p) => Named(p)
  BY <1>1, <1>2, <1>3 DEF Traced, ReadRole, CreateRole, UpdateRole
<1>5. ReadTopic(p) \/ CreateTopic(p) \/ UpdateTopic(p) => Named(p)
  BY <1>1, <1>2, <1>3 DEF Traced, ReadTopic, CreateTopic, UpdateTopic
<1>6. ReadCodingTopic(p) \/ CreateCodingTopic(p) => Named(p)
  BY <1>2, <1>3 DEF Traced, ReadCodingTopic, CreateCodingTopic
<1>7. ReadQuestion(p) \/ CreateQuestion(p) \/ UpdateQuestion(p) => Named(p)
  BY <1>1, <1>2, <1>3 DEF Traced, ReadQuestion, CreateQuestion, UpdateQuestion
<1>8. CreateQuestionOverride(p) => Named(p)
  BY BeginNamed DEF Traced, CreateQuestionOverride
<1>9. ReadProblem(p) \/ CreateProblem(p) \/ UpdateProblem(p) => Named(p)
  BY <1>1, <1>2, <1>3 DEF Traced, ReadProblem, CreateProblem, UpdateProblem
<1>. QED
  BY <1>4, <1>5, <1>6, <1>7, <1>8, <1>9 DEF CatalogBegin

LEMMA CandidateNamed ==
    ASSUME Discipline, NEW p \in Requests, CandidateBegin(p) \/ ProfileBegin(p) \/ PageBegin(p)
    PROVE  Named(p) \/ UpdateProfile(p)
<1>0. Shapes
  BY DEF Discipline
<1>1. StartPractice(p) \/ GenerateDeck(p) \/ GenerateRoadmap(p) => Named(p)
  BY <1>0, BeginNamed DEF StartPractice, GenerateDeck, GenerateRoadmap, Traced
<1>2. ASSUME NEW op, op \notin Traced, NEW x \in View(p), Table(x) \in Personal, NEW done, NEW reached,
             Progress(p, op, x, done, reached)
      PROVE  Named(p)
  <2>. DEFINE new == [x EXCEPT !.done = done, !.reached = reached]
              s == IF new = x THEN NoStmt ELSE UpdateRow(x.id, Changed(new, x))
  <2>1. Start(p, Candidate, op, x, <<>>, <<"commit">>) /\ Issue(p, s)
    BY <1>2 DEF Progress
  <2>. HIDE DEF new
  <2>2. "skills" \notin DOMAIN Changed(new, x)
    BY <1>2, WhatIsSeen, ChangedSkills DEF Personal
  <2>3. ~PutsSkills(s)
    BY <2>2, WithoutSkills
  <2>. HIDE DEF s
  <2>. QED
    BY <1>0, <1>2, <2>1, <2>3, StartNamed
<1>3. UpdateDeckProgress(p) \/ UpdateRoadmapProgress(p) => Named(p)
  BY <1>2 DEF UpdateDeckProgress, UpdateRoadmapProgress, Traced, From, Personal
<1>4. GetProfile(p) \/ GetSettings(p) \/ GenerateInsights(p) \/ ListResumes(p) \/ UploadResume(p) => Named(p)
  BY <1>0, BeginNamed DEF GetProfile, GetSettings, GenerateInsights, ListResumes, UploadResume, Traced
<1>5. UpdateSettings(p) => Named(p)
  <2>. SUFFICES ASSUME UpdateSettings(p) PROVE Named(p)
    OBVIOUS
  <2>1. PICK notify \in Preferences, privacy \in Preferences :
        \/ \E x \in OwnSettings(p) :
              LET new == MergedSettings(x, notify, privacy)
              IN  /\ Start(p, Candidate, "update_settings", new, <<>>, <<"commit">>)
                  /\ Issue(p, IF new = x THEN NoStmt ELSE UpdateRow(x.id, Changed(new, x)))
                  /\ UNCHANGED <<rows, tx>>
        \/ LET new == MergedSettings(EmptySettings, notify, privacy)
           IN  /\ OwnSettings(p) = {}
               /\ Begin(p, Candidate, "update_settings", new, <<new>>, <<"insert", "commit">>)
    BY DEF UpdateSettings
  <2>2. ASSUME NEW x \in OwnSettings(p), NEW new, NEW s, s = IF new = x THEN NoStmt ELSE UpdateRow(x.id, Changed(new, x)),
               Start(p, Candidate, "update_settings", new, <<>>, <<"commit">>), Issue(p, s)
        PROVE  Named(p)
    <3>1. x \in View(p) /\ x.id = SettingsId
      BY DEF OwnSettings
    <3>2. "skills" \notin DOMAIN Changed(new, x)
      BY <3>1, WhatIsSeen, ChangedSkills DEF SettingsId, Table
    <3>3. ~PutsSkills(s)
      BY <2>2, <3>2, WithoutSkills
    <3>. QED
      BY <1>0, <2>2, <3>3, StartNamed DEF Traced
  <2>. QED
    BY <1>0, <2>1, <2>2, BeginNamed DEF Traced
<1>6. ASSUME NEW op, op \notin Traced, NEW S, Page(p, op, S) PROVE Named(p)
  BY <1>0, <1>6, BeginNamed DEF Page
<1>7. ListWindows(p) \/ GetSubmission(p) \/ ListQuestions(p) => Named(p)
  BY <1>0, BeginNamed DEF ListWindows, GetSubmission, ListQuestions, Traced
<1>8. ListSubmissions(p) \/ ListTemplates(p) \/ GetActiveDeck(p) \/ GetDeck(p) \/ ListDecks(p)
      \/ GetActiveRoadmap(p) \/ ListRoadmaps(p) => Named(p)
  BY <1>6 DEF ListSubmissions, ListTemplates, GetActiveDeck, GetDeck, ListDecks,
     GetActiveRoadmap, ListRoadmaps, Traced
<1>. QED
  BY <1>1, <1>3, <1>4, <1>5, <1>7, <1>8 DEF CandidateBegin, ProfileBegin, PageBegin

LEMMA AccountNamed ==
    ASSUME Shapes, NEW p \in Requests, AccountBegin(p)
    PROVE  Named(p)
<1>1. RegisterAdmin(p) \/ RegisterCandidate(p) => Named(p)
  BY BeginNamed DEF RegisterAdmin, RegisterCandidate, Register, Traced
<1>2. ASSUME NEW id, NEW cols, "skills" \notin DOMAIN cols, Issue(p, UpdateRow(id, cols)) \/ Issue(p, Update(id, cols)),
             NEW op, op \notin Traced, NEW by, NEW e, NEW create, NEW todo, Start(p, by, op, e, create, todo)
      PROVE  Named(p)
  BY <1>2, StartNamed, WithoutSkills
<1>3. Login(p) => Named(p)
  <2>. SUFFICES ASSUME NEW form \in LoginForms, NEW u \in Users(p),
                       Start(p, Nobody, "login", u, <<NewToken(p, u)>>, <<"insert", "log_and_commit">>),
                       Issue(p, UpdateRow(u.id, [seen |-> <<p>>]))
                PROVE  Named(p)
    BY DEF Login
  <2>. QED
    BY <1>2 DEF Traced
<1>4. RefreshToken(p) => Named(p)
  BY <1>2 DEF RefreshToken, Rotate, Traced
<1>5. RefreshReused(p) => Named(p)
  BY <1>2 DEF RefreshReused, RevokeAllOf, Traced
<1>6. Logout(p) => Named(p)
  BY <1>2, BeginNamed DEF Logout, Traced
<1>7. ChangePassword(p) => Named(p)
  <2>. SUFFICES ASSUME NEW u \in Users(p), NEW new, NEW by,
                       Start(p, by, "change_password", u, <<>>, <<"revoke_all", "log_and_commit">>),
                       Issue(p, UpdateRow(u.id, [secret |-> new, version |-> u.version + 1]))
                PROVE  Named(p)
    BY DEF ChangePassword
  <2>. DEFINE cols == [secret |-> new, version |-> u.version + 1]
  <2>1. "skills" \notin DOMAIN cols
    OBVIOUS
  <2>. HIDE DEF cols
  <2>. QED
    BY <1>2, <2>1 DEF Traced, cols
<1>8. GetMe(p) => Named(p)
  BY BeginNamed DEF GetMe, Traced
<1>. QED
  BY <1>1, <1>3, <1>4, <1>5, <1>6, <1>7, <1>8 DEF AccountBegin

LEMMA RiskColumnsSet == \A S : DOMAIN RiskOf(S) = {"counted", "total", "flagged"}
BY DEF RiskOf

LEMMA CallsNamed ==
    ASSUME Discipline, NEW p \in Requests, Call(p) \/ ProctoringBegin(p)
    PROVE  Named(p) \/ UpdateProfile(p) \/ Ingest(p) \/ Recompute(p)
<1>0. Shapes
  BY DEF Discipline
<1>1. ListEvents(p) \/ ReviewQueue(p) => Named(p)
  BY <1>0, BeginNamed DEF ListEvents, ReviewQueue, Traced
<1>2. GetRisk(p) => Named(p)
  BY <1>0, StartNamed, WithoutSkills, RiskColumnsSet DEF GetRisk, Compute, Traced
<1>. QED
  BY <1>0, <1>1, <1>2, AdminNamed, CatalogNamed, CandidateNamed, AccountNamed DEF Call, ProctoringBegin

\* A later step of an operation that has to do with neither.
OtherSteps == StepNames \ (IngestSteps \cup LastSteps \cup {"begin", "write_profile"})
Elsewhere(p) ==
    /\ job'[p].do = job[p].do /\ ~PutsSkills(stmt'[p])
    /\ \E a \in OtherSteps : At(p, a)

LEMMA StepsElsewhere ==
    PageSteps \cup {"check_in_use", "find_window", "flush", "mark_stale", "clear", "insert", "delete",
                    "walk", "retire", "revoke_all", "save_text", "save_analysis"} \subseteq OtherSteps
BY DEF OtherSteps, StepNames, PageSteps, IngestSteps, LastSteps

LEMMA PassedElsewhere ==
    ASSUME Discipline, NEW p \in Requests, NEW a \in OtherSteps, At(p, a),
           NEW e, NEW w, job' = [job EXCEPT ![p] = Passed(p, e, w)],
           NEW s, Issue(p, s), ~PutsSkills(s)
    PROVE  Elsewhere(p)
<1>1. Passed(p, e, w).do = job[p].do
  BY DEF Passed
<1>2. job'[p].do = job[p].do
  BY <1>1 DEF Discipline, Shapes
<1>3. stmt'[p] = s
  BY DEF Issue, Discipline, Shapes
<1>. QED
  BY <1>2, <1>3 DEF Elsewhere

LEMMA SharedElsewhere ==
    ASSUME Discipline, NEW p \in Requests,
           \/ Flush(p) \/ MarkStale(p) \/ ClearChildren(p) \/ DeleteEntity(p)
           \/ Retire(p) \/ RevokeAll(p) \/ SaveText(p) \/ SaveAnalysis(p)
    PROVE  Elsewhere(p)
<1>1. ASSUME NEW a \in OtherSteps, At(p, a), Pass(p), NEW s, Issue(p, s), ~PutsSkills(s)
      PROVE  Elsewhere(p)
  BY <1>1, PassIsPassed, PassedElsewhere
<1>2. ASSUME NEW a \in OtherSteps, At(p, a), Pass(p), NEW id, NEW cols, "skills" \notin DOMAIN cols,
             Issue(p, UpdateRow(id, cols)) \/ Issue(p, Update(id, cols))
      PROVE  Elsewhere(p)
  BY <1>1, <1>2, WithoutSkills
<1>3. CASE Flush(p)
  <2>. DEFINE e == job[p].entity
  <2>1. At(p, "flush") /\ Pass(p)
    BY <1>3 DEF Flush
  <2>2. Edited(job[p].by, e)
    BY <2>1, HeadOfJob DEF JobOK, Holds
  <2>3. \E s : Issue(p, s) /\ ~PutsSkills(s)
    <3>1. CASE {x \in View(p) : x.id = e.id} = {}
      BY <1>3, <3>1, WithoutSkills DEF Flush
    <3>2. ASSUME NEW x \in View(p), x.id = e.id,
                 Issue(p, IF e = x THEN NoStmt ELSE UpdateRow(x.id, Changed(e, x)))
          PROVE  \E s : Issue(p, s) /\ ~PutsSkills(s)
      <4>1. IsRow(x) /\ Table(x) # "candidate"
        BY <2>2, <3>2, WhatIsSeen DEF Edited, Editable, Table
      <4>. HIDE DEF e
      <4>2. "skills" \notin DOMAIN Changed(e, x)
        BY <4>1, ChangedSkills
      <4>. QED
        BY <3>2, <4>2, WithoutSkills
    <3>. QED
      BY <1>3, <3>1, <3>2 DEF Flush
  <2>. QED
    BY <1>1, <2>1, <2>3, StepsElsewhere
<1>4. CASE MarkStale(p)
  BY <1>2, <1>4, StepsElsewhere DEF MarkStale
<1>5. CASE ClearChildren(p) \/ DeleteEntity(p)
  BY <1>1, <1>5, StepsElsewhere, WithoutSkills DEF ClearChildren, DeleteEntity
<1>6. CASE Retire(p)
  BY <1>2, <1>6, StepsElsewhere DEF Retire
<1>7. CASE RevokeAll(p)
  BY <1>2, <1>7, StepsElsewhere DEF RevokeAll, RevokeAllOf
<1>8. CASE SaveText(p)
  BY <1>2, <1>8, StepsElsewhere DEF SaveText
<1>9. CASE SaveAnalysis(p)
  BY <1>2, <1>9, StepsElsewhere DEF SaveAnalysis
<1>. QED
  BY <1>3, <1>4, <1>5, <1>6, <1>7, <1>8, <1>9

\* A step that sets two fields of the record of p.
LEMMA TwoFieldsElsewhere ==
    ASSUME Discipline, NEW p \in Requests, NEW a \in OtherSteps, At(p, a), NEW c, NEW t,
           job' = [job EXCEPT ![p].create = c, ![p].todo = t]
           \/ job' = [job EXCEPT ![p].todo = t, ![p].create = c],
           NEW s, stmt'[p] = s, ~PutsSkills(s)
    PROVE  Elsewhere(p)
<1>. DEFINE k == [do |-> job[p].do, by |-> job[p].by, todo |-> t,
                  entity |-> job[p].entity, create |-> c, walk |-> job[p].walk]
<1>1. job' = [job EXCEPT ![p] = k]
  BY TwoFields
<1>2. k.do = job[p].do
  OBVIOUS
<1>. HIDE DEF k
<1>3. job'[p].do = job[p].do
  BY <1>1, <1>2 DEF Discipline, Shapes
<1>. QED
  BY <1>3 DEF Elsewhere

LEMMA InsertElsewhere ==
    ASSUME Discipline, NEW p \in Requests, InsertNext(p)
    PROVE  Elsewhere(p)
<1>. DEFINE j == job[p]
            c == Tail(j.create)
            t == Tail(j.todo)
            s == Insert(Head(j.create))
<1>1. /\ At(p, "insert") /\ Issue(p, s)
      /\ job' = [job EXCEPT ![p].todo = Tail(@), ![p].create = Tail(@)]
  BY DEF InsertNext
<1>2. job' = [job EXCEPT ![p].todo = t, ![p].create = c]
  <2>1. DOMAIN job = Requests /\ j = [do |-> j.do, by |-> j.by, todo |-> j.todo, entity |-> j.entity,
            create |-> j.create, walk |-> j.walk]
    BY DEF Discipline, Shapes, JobOK, IsJob
  <2>. QED
    BY <1>1, <2>1
<1>3. ~PutsSkills(s)
  BY WithoutSkills
<1>. HIDE DEF c, t, s
<1>4. stmt'[p] = s
  BY <1>1 DEF Issue, Discipline, Shapes
<1>. QED
  BY <1>1, <1>2, <1>3, <1>4, StepsElsewhere, TwoFieldsElsewhere

LEMMA LaterReadElsewhere ==
    ASSUME Discipline, NEW p \in Requests, LaterRead(p) \/ ListFlagged(p) \/ CountEvents(p)
    PROVE  Elsewhere(p) \/ Stops(p) \/ Rollback(p)
<1>. DEFINE j == job[p]
<1>0. ASSUME NEW a, At(p, a), UNCHANGED stmt
      PROVE  stmt'[p] = NoStmt /\ Issue(p, NoStmt)
  <2>1. stmt[p] = NoStmt
    BY <1>0 DEF At
  <2>. QED
    BY <1>0, <2>1 DEF Issue, Discipline, Shapes
<1>1. CASE ReadOn(p) \/ ListFlagged(p) \/ CountEvents(p)
  <2>1. PICK a \in PageSteps : \E e :
           At(p, a) /\ job' = [job EXCEPT ![p] = Passed(p, e, job[p].walk)] /\ UNCHANGED <<rows, tx, stmt, shown>>
    BY <1>1, ReadOnReads, QueueReads
  <2>. QED
    BY <1>0, <2>1, StepsElsewhere, PassedElsewhere, WithoutSkills
<1>2. CASE CheckTopicCycle(p)
  <2>1. CASE Pass(p) /\ UNCHANGED <<dbVars, shown>>
    <3>1. At(p, "walk") /\ UNCHANGED stmt
      BY <1>2, <2>1 DEF CheckTopicCycle, dbVars
    <3>. QED
      BY <1>0, <2>1, <3>1, PassIsPassed, StepsElsewhere, PassedElsewhere, WithoutSkills
  <2>. QED
    BY <1>2, <2>1 DEF CheckTopicCycle
<1>3. CASE WalkUp(p)
  <2>1. PICK x \in TopicsIn(p) : job' = [job EXCEPT ![p].walk = Append(@, x.parent)]
    BY <1>3 DEF WalkUp
  <2>2. At(p, "walk") /\ UNCHANGED stmt
    BY <1>3 DEF WalkUp, dbVars
  <2>. DEFINE k == [j EXCEPT !.walk = Append(j.walk, x.parent)]
  <2>3. job' = [job EXCEPT ![p] = k]
    BY <2>1
  <2>4. k.do = j.do
    <3>1. j = [do |-> j.do, by |-> j.by, todo |-> j.todo, entity |-> j.entity,
               create |-> j.create, walk |-> j.walk]
      BY DEF Discipline, JobOK, IsJob
    <3>2. k = [do |-> j.do, by |-> j.by, todo |-> j.todo, entity |-> j.entity,
               create |-> j.create, walk |-> Append(j.walk, x.parent)]
      BY <3>1, JobRecord
    <3>. QED
      BY <3>2
  <2>. HIDE DEF k
  <2>5. job'[p].do = j.do
    BY <2>3, <2>4 DEF Discipline, Shapes
  <2>. QED
    BY <1>0, <2>2, <2>5, StepsElsewhere, WithoutSkills DEF Elsewhere
<1>4. CASE CheckInUse(p)
  <2>1. PICK c, t : job' = [job EXCEPT ![p].create = c, ![p].todo = t]
    BY <1>4 DEF CheckInUse
  <2>2. At(p, "check_in_use") /\ UNCHANGED stmt
    BY <1>4 DEF CheckInUse, dbVars
  <2>. QED
    BY <1>0, <2>1, <2>2, StepsElsewhere, TwoFieldsElsewhere, WithoutSkills
<1>5. CASE FindWindow(p)
  <2>1. At(p, "find_window") /\ UNCHANGED shown
    BY <1>5 DEF FindWindow
  <2>2. ~Ended(p)
    BY <2>1, HeadOfJob
  <2>3. CASE Fail(p) /\ UNCHANGED job
    BY <2>1, <2>2, <2>3 DEF Stops
  <2>4. CASE ~(Fail(p) /\ UNCHANGED job)
    <3>1. PICK c, t : job' = [job EXCEPT ![p].create = c, ![p].todo = t] /\ UNCHANGED dbVars
      BY <1>5, <2>4 DEF FindWindow
    <3>2. UNCHANGED stmt
      BY <3>1 DEF dbVars
    <3>. QED
      BY <1>0, <2>1, <3>1, <3>2, StepsElsewhere, TwoFieldsElsewhere, WithoutSkills
  <2>. QED
    BY <2>3, <2>4
<1>. QED
  BY <1>1, <1>2, <1>3, <1>4, <1>5 DEF LaterRead

\* What a step of p is to profiles and risks.
Ingests(p) == IgnoreDuplicate(p) \/ StoreEvent(p) \/ RecordFingerprint(p) \/ ComputeRisk(p)
Traces(p) ==
    \/ Named(p) \/ UpdateProfile(p) \/ Ingest(p) \/ Recompute(p)
    \/ WriteProfile(p) \/ Ingests(p) \/ Elsewhere(p)

LEMMA PlansTrace ==
    ASSUME Discipline, NEW p \in Requests, Moves(p)
    PROVE  \/ Plans(p) /\ Traces(p)
           \/ Stops(p) \/ Updated(p) \/ Removed(p) \/ Added(p) \/ Commit(p) \/ Rollback(p)
<1>1. CASE Call(p) \/ ProctoringBegin(p)
  BY <1>1, CallsNamed, KindsOfSteps DEF Traces
<1>2. CASE Abandon(p) \/ CloseSession(p) \/ EndFailed(p) \/ Commit(p)
  BY <1>2 DEF Abandon, CloseSession, EndFailed
<1>3. CASE Execute(p)
  <2>1. stmt[p] # NoStmt
    <3>1. stmt[p].do \in {"insert", "update", "delete"}
      BY <1>3 DEF Execute, ExecUpdate, ExecDelete, ExecInsert, BreakDeadlock, Free, Blocks
    <3>. QED
      BY <3>1, NotAnInsert
  <2>2. ~Plans(p)
    BY <2>1 DEF Plans
  <2>3. RequestStep(p) \/ ~RequestStep(p)
    OBVIOUS
  <2>. QED
    BY <1>3, <2>2, KindsOfSteps DEF Moves, RequestStep, GoOn
<1>4. CASE SharedStep(p)
  BY <1>4, SharedElsewhere, InsertElsewhere, FlushPlans, OwnPlans, InsertPlans DEF SharedStep, Traces
<1>5. CASE OwnStep(p)
  <2>1. CASE Raise(p)
    BY <2>1, HeadOfJob DEF Raise, Stops
  <2>. QED
    BY <1>5, <2>1, OwnPlans, SharedElsewhere DEF OwnStep, Traces
<1>6. CASE LaterRead(p) \/ ListFlagged(p) \/ CountEvents(p)
  BY <1>6, LaterReadPlans, LaterReadElsewhere DEF Traces
<1>7. CASE Ingests(p)
  BY <1>7, IngestPlans DEF Ingests, Traces
<1>. QED
  BY <1>1, <1>2, <1>3, <1>4, <1>5, <1>6, <1>7 DEF Moves, RequestStep, GoOn, ProctoringStep, Ingests

\* The record of a request that ingests keeps what it began with.
LEMMA IngestsGoOn ==
    ASSUME Discipline, NEW p \in Requests, Ingests(p)
    PROVE  /\ job'[p].do = job[p].do /\ job'[p].entity = job[p].entity
           /\ StoreEvent(p) => job'[p].todo = <<"record">>
           /\ RecordFingerprint(p) => job'[p].todo = <<"compute">>
           /\ IgnoreDuplicate(p) \/ ComputeRisk(p) => job'[p].todo = ThenNext(p)
<1>. DEFINE j == job[p]
<1>0. /\ DOMAIN job = Requests
      /\ j = [do |-> j.do, by |-> j.by, todo |-> j.todo, entity |-> j.entity,
              create |-> j.create, walk |-> j.walk]
  BY DEF Discipline, Shapes, JobOK, IsJob
<1>1. ASSUME NEW t, job' = [job EXCEPT ![p].todo = t]
      PROVE  job'[p].do = j.do /\ job'[p].entity = j.entity /\ job'[p].todo = t
  <2>. DEFINE k == [j EXCEPT !.todo = t]
  <2>1. job' = [job EXCEPT ![p] = k]
    BY <1>1
  <2>2. k = [do |-> j.do, by |-> j.by, todo |-> t, entity |-> j.entity, create |-> j.create, walk |-> j.walk]
    BY <1>0, JobRecord
  <2>3. k.do = j.do /\ k.entity = j.entity /\ k.todo = t
    BY <2>2
  <2>. HIDE DEF k
  <2>. QED
    BY <1>0, <2>1, <2>3
<1>2. ASSUME NEW c, NEW t, job' = [job EXCEPT ![p].create = c, ![p].todo = t]
      PROVE  job'[p].do = j.do /\ job'[p].entity = j.entity /\ job'[p].todo = t
  <2>. DEFINE k == [do |-> j.do, by |-> j.by, todo |-> t, entity |-> j.entity, create |-> c, walk |-> j.walk]
  <2>1. job' = [job EXCEPT ![p] = k]
    BY <1>2, TwoFields
  <2>2. k.do = j.do /\ k.entity = j.entity /\ k.todo = t
    OBVIOUS
  <2>. HIDE DEF k
  <2>. QED
    BY <1>0, <2>1, <2>2
<1>3. StoreEvent(p) => job'[p].do = j.do /\ job'[p].entity = j.entity /\ job'[p].todo = <<"record">>
  BY <1>1 DEF StoreEvent
<1>4. RecordFingerprint(p) => job'[p].do = j.do /\ job'[p].entity = j.entity /\ job'[p].todo = <<"compute">>
  BY <1>1 DEF RecordFingerprint
<1>5. IgnoreDuplicate(p) \/ ComputeRisk(p) =>
         job'[p].do = j.do /\ job'[p].entity = j.entity /\ job'[p].todo = ThenNext(p)
  <2>. DEFINE c == Tail(j.create)
              t == ThenNext(p)
  <2>1. IgnoreDuplicate(p) \/ ComputeRisk(p) => job' = [job EXCEPT ![p].create = c, ![p].todo = t]
    BY <1>0 DEF IgnoreDuplicate, ComputeRisk
  <2>. HIDE DEF c, t
  <2>. QED
    BY <1>2, <2>1 DEF t
<1>. QED
  BY <1>3, <1>4, <1>5 DEF Ingests

-----------------------------------------------------------------------------
(***************************************************************************)
(* Skills.                                                                 *)
(***************************************************************************)
LEMMA UpdateScripts ==
    /\ Steps(<<"write_profile", "commit">>) = {"write_profile", "commit"}
    /\ Steps(<<"commit">>) = {"commit"} /\ Steps(<<>>) = {}
    /\ Tail(<<"write_profile", "commit">>) = <<"commit">>
    /\ <<"commit">> # <<>> /\ Head(<<"commit">>) = "commit"
    /\ <<"write_profile", "commit">> # <<>> /\ Head(<<"write_profile", "commit">>) = "write_profile"
<1>1. Steps(<<"write_profile", "commit">>) = {"write_profile", "commit"}
  BY TupleOf2 DEF Steps
<1>2. Steps(<<"commit">>) = {"commit"}
  BY TupleOf1 DEF Steps
<1>3. Steps(<<>>) = {}
  BY DEF Steps
<1>. QED
  BY <1>1, <1>2, <1>3

\* A request that updates a profile is at one of its two steps.
LEMMA AtItsStep ==
    ASSUME Discipline, SkillsStay, NEW p \in Requests, job[p].do = "update_profile", NEW a, At(p, a)
    PROVE  \/ a = "write_profile" /\ job[p].todo = <<"write_profile", "commit">>
           \/ a = "commit" /\ job[p].todo = <<"commit">>
BY UpdateScripts DEF SkillsStay, ToUpdateProfile, At

\* What a step of p leaves of the others.
LEMMA SkillsOfOthers ==
    ASSUME Discipline, Discipline', Isolated, ActiveStays, SkillsStay, NEW p \in Requests, OnlyOf(p),
           UNCHANGED rows \/ Commit(p), NEW r \in Requests, r # p
    PROVE  /\ job'[r] = job[r] /\ stmt'[r] = stmt[r] /\ tx'[r] = tx[r]
           /\ job[r].do = "update_profile" \/ LeavesSkills(r)'
           /\ KeepsSkills(r) /\ (job[r].do # "update_profile" \/ job[p].do # "update_profile") => KeepsSkills(r)'
<1>1. job'[r] = job[r] /\ stmt'[r] = stmt[r] /\ tx'[r] = tx[r]
  BY DEF OnlyOf
<1>2. CASE UNCHANGED rows
  BY <1>1, <1>2 DEF SkillsStay, KeepsSkills, LeavesSkills
<1>3. CASE Commit(p)
  <2>1. PICK added : rows' = View(p) \cup added /\ \A x \in added : Table(x) = "audit"
    BY <1>3, CommitChange
  <2>2. ~Ended(p) /\ TxOK(p) /\ TxOK(r) /\ JobOK(r, job[r]) /\ StmtOK(r, job[r], stmt[r])
    BY <1>3, CommitChange DEF Discipline
\* A row that r has written is not p's.
  <2>3. ASSUME NEW x \in From("candidate", tx[r].adds), NEW y \in rows', y.id = x.id
        PROVE  y \in rows
    <3>1. y \notin added
      BY <2>1, <2>3 DEF From, Table
    <3>2. y \notin tx[p].adds
      BY <2>3 DEF Isolated, Apart, From
    <3>. QED
      BY <2>1, <3>1, <3>2 DEF View
\* Nor does p write skills that are not there.
  <2>4. ASSUME job[p].do # "update_profile", NEW y \in rows', y.id[1] = "candidate", Known(r, y.id)
        PROVE  \E z \in rows : z.id = y.id /\ z.skills = y.skills
    <3>1. y \in rows \/ y \in tx[p].adds
      BY <2>1, <2>4 DEF View, Table
    <3>2. CASE y \in tx[p].adds
      <4>1. y.id \in Ids(rows) \/ y.id[2] = p \/ y.id = SettingsId
        BY <3>2 DEF ActiveStays, Ids
      <4>2. y.id[2] # p
        BY <2>2, <2>4 DEF Known
      <4>3. y.id # SettingsId
        BY <2>4 DEF SettingsId
      <4>4. PICK z \in rows : z.id = y.id
        BY <4>1, <4>2, <4>3 DEF Ids
      <4>5. z.skills = y.skills
        BY <2>4, <3>2, <4>4 DEF SkillsStay, LeavesSkills, From, Table
      <4>. QED
        BY <4>4, <4>5
    <3>. QED
      BY <3>1, <3>2
  <2>5. job[r].do = "update_profile" \/ LeavesSkills(r)'
    BY <1>1, <2>3 DEF SkillsStay, LeavesSkills
  <2>6. ASSUME KeepsSkills(r), job[r].do # "update_profile" \/ job[p].do # "update_profile"
        PROVE  KeepsSkills(r)'
    <3>1. ASSUME "write_profile" \in Steps(job[r].todo), NEW y \in rows', y.id = job[r].entity.id
          PROVE  y.skills \subseteq job[r].entity.skills
      <4>1. y.id[1] = "candidate" /\ Known(r, y.id) /\ job[r].do = "update_profile"
        BY <2>2, <3>1 DEF JobOK, Holds
      <4>2. PICK z \in rows : z.id = y.id /\ z.skills = y.skills
        BY <2>4, <2>6, <4>1
      <4>. QED
        BY <2>6, <3>1, <4>2 DEF KeepsSkills
    <3>2. ASSUME PutsSkills(stmt[r]), NEW y \in rows', y.id \in stmt[r].ids
          PROVE  y.skills \subseteq stmt[r].cols.skills
      <4>1. Updates(r, job[r], stmt[r])
        BY <2>2, <3>2 DEF StmtOK, PutsSkills
      <4>2. y.id[1] \in Tables /\ "skills" \in Mutable[y.id[1]] /\ Known(r, y.id)
        BY <3>2, <4>1 DEF Updates, PutsSkills
      <4>3. y.id[1] = "candidate"
        <5>1. \A t \in Tables : "skills" \in Mutable[t] => t = "candidate"
          BY TableNames DEF Mutable
        <5>. QED
          BY <4>2, <5>1
      <4>4. job[r].do = "update_profile"
        BY <3>2 DEF SkillsStay, LeavesSkills
      <4>5. PICK z \in rows : z.id = y.id /\ z.skills = y.skills
        BY <2>4, <2>6, <4>2, <4>3, <4>4
      <4>. QED
        BY <2>6, <3>2, <4>5 DEF KeepsSkills
    <3>3. ASSUME NEW x \in From("candidate", tx[r].adds), NEW y \in rows', y.id = x.id
          PROVE  y.skills \subseteq x.skills
      BY <2>3, <2>6, <3>3 DEF KeepsSkills
    <3>. QED
      BY <1>1, <3>1, <3>2, <3>3 DEF KeepsSkills
  <2>. QED
    BY <1>1, <2>5, <2>6
<1>. QED
  BY <1>2, <1>3

\* Two that update a profile stay two.
LEMMA ContestedStays ==
    ASSUME Discipline, NEW p \in Requests, OnlyOf(p),
           At(p, "begin") \/ job'[p].do = job[p].do, Contested
    PROVE  Contested'
<1>1. PICK r, q \in Requests : r # q /\ job[r].do = "update_profile" /\ job[q].do = "update_profile"
  BY DEF Contested
<1>2. At(p, "begin") => job[p].do = "none"
  BY AtBegin DEF NewJob
<1>3. job'[r].do = job[r].do /\ job'[q].do = job[q].do
  BY <1>1, <1>2 DEF OnlyOf
<1>. QED
  BY <1>1, <1>3 DEF Contested

\* What p's own step makes of its record and its rows.
OwnSkills(p) ==
    /\ job'[p].do = "update_profile" => job'[p].todo \in ToUpdateProfile
    /\ Contested \/ KeepsSkills(p)'
    /\ job'[p].do = "update_profile" \/ LeavesSkills(p)'

LEMMA SkillsByStep ==
    ASSUME Discipline, Discipline', Isolated, ActiveStays, SkillsStay, NEW p \in Requests, OnlyOf(p),
           UNCHANGED rows \/ Commit(p),
           At(p, "begin") \/ job'[p].do = job[p].do,
           OwnSkills(p)
    PROVE  SkillsStay'
<1>. SUFFICES ASSUME NEW r \in Requests
              PROVE  /\ job'[r].do = "update_profile" => job'[r].todo \in ToUpdateProfile
                     /\ Contested' \/ KeepsSkills(r)'
                     /\ job'[r].do = "update_profile" \/ LeavesSkills(r)'
  BY DEF SkillsStay, ToUpdateProfile
<1>1. Contested => Contested'
  BY ContestedStays
<1>2. CASE r = p
  BY <1>1, <1>2 DEF OwnSkills
<1>3. CASE r # p
  <2>1. /\ job'[r] = job[r] /\ stmt'[r] = stmt[r] /\ tx'[r] = tx[r]
        /\ job[r].do = "update_profile" \/ LeavesSkills(r)'
        /\ KeepsSkills(r) /\ (job[r].do # "update_profile" \/ job[p].do # "update_profile") => KeepsSkills(r)'
    BY <1>3, SkillsOfOthers
  <2>2. Contested \/ KeepsSkills(r)
    BY DEF SkillsStay
  <2>3. Contested \/ job[r].do # "update_profile" \/ job[p].do # "update_profile"
    BY <1>3 DEF Contested
  <2>. QED
    BY <1>1, <2>1, <2>2, <2>3 DEF SkillsStay
<1>. QED
  BY <1>2, <1>3

\* A step of p that is no profile's.
LEMMA OtherOperations ==
    ASSUME Discipline', SkillsStay, NEW p \in Requests, tx'[p] = tx[p], UNCHANGED rows,
           job'[p].do # "update_profile", ~PutsSkills(stmt'[p]),
           tx[p] = NoTx \/ job[p].do # "update_profile"
    PROVE  OwnSkills(p)
<1>1. "write_profile" \notin Steps(job'[p].todo)
  <2>1. JobOK(p, job[p])'
    BY DEF Discipline
  <2>. QED
    BY <2>1 DEF JobOK, Holds
<1>2. \A x \in From("candidate", tx[p].adds), y \in rows : y.id = x.id => y.skills = x.skills
  BY DEF SkillsStay, LeavesSkills, NoTx, From
<1>. QED
  BY <1>1, <1>2 DEF OwnSkills, KeepsSkills, LeavesSkills

LEMMA SkillsPlanned ==
    ASSUME Discipline, Discipline', Isolated, SkillsStay, NEW p \in Requests, Plans(p), Traces(p)
    PROVE  OwnSkills(p) /\ (At(p, "begin") \/ job'[p].do = job[p].do)
<1>0. OnlyOf(p) /\ tx'[p] = tx[p] /\ UNCHANGED rows /\ Shapes
  BY PlansChange DEF Discipline
<1>1. At(p, "begin") => tx[p] = NoTx /\ View(p) = rows
  BY AtBegin
<1>2. Contested \/ KeepsSkills(p)
  BY DEF SkillsStay
<1>3. CASE Elsewhere(p)
  <2>1. job[p].do # "update_profile"
    BY <1>3, AtItsStep DEF Elsewhere, OtherSteps, LastSteps
  <2>. QED
    BY <1>0, <1>3, <2>1, OtherOperations DEF Elsewhere
<1>4. CASE Ingests(p)
  <2>1. PICK a \in IngestSteps : At(p, a)
    BY <1>4 DEF Ingests, IgnoreDuplicate, StoreEvent, RecordFingerprint, ComputeRisk, IngestSteps
  <2>2. job[p].do # "update_profile"
    BY <2>1, AtItsStep DEF IngestSteps
  <2>3. job'[p].do = job[p].do
    BY <1>4, IngestsGoOn
  <2>4. ~PutsSkills(stmt'[p])
    <3>1. stmt[p] = NoStmt
      BY DEF Plans
    <3>. QED
      BY <1>0, <1>4, <3>1, WithoutSkills, RiskColumnsSet
         DEF Ingests, IgnoreDuplicate, StoreEvent, RecordFingerprint, ComputeRisk, Compute, Issue, dbVars, Shapes
  <2>. QED
    BY <1>0, <2>2, <2>3, <2>4, OtherOperations
<1>5. CASE Named(p)
  BY <1>0, <1>1, <1>5, OtherOperations DEF Named, Traced
<1>6. CASE Ingest(p) \/ Recompute(p)
  <2>1. PICK op, e, create, todo : op \in {"ingest", "recompute"} /\ Start(p, Nobody, op, e, create, todo)
    BY <1>6 DEF Ingest, Recompute, Begin
  <2>2. At(p, "begin") /\ job'[p].do = op /\ op \in {"ingest", "recompute"} /\ stmt[p] = NoStmt
    BY <2>1, <1>0 DEF Start, At, Shapes
  <2>3. ~PutsSkills(stmt'[p])
    BY <1>0, <1>6, <2>2, WithoutSkills, RiskColumnsSet DEF Ingest, Recompute, Begin, Compute, Issue, dbVars, Shapes
  <2>. QED
    BY <1>0, <1>1, <2>2, <2>3, OtherOperations
<1>7. CASE WriteProfile(p)
  <2>. DEFINE e == job[p].entity
              s == UpdateRow(e.id, [skills |-> e.skills, bio |-> e.bio])
  <2>1. At(p, "write_profile") /\ Pass(p) /\ Issue(p, s)
    BY <1>7 DEF WriteProfile
  <2>2. job[p].do = "update_profile" /\ "write_profile" \in Steps(job[p].todo)
    BY <2>1, HeadOfJob DEF JobOK, Holds
  <2>3. job[p].todo = <<"write_profile", "commit">>
    BY <2>1, <2>2, AtItsStep
  <2>4. /\ Passed(p, e, job[p].walk).do = job[p].do
        /\ Passed(p, e, job[p].walk).todo = <<"commit">>
    BY <2>3, UpdateScripts DEF Passed
  <2>5. job'[p].do = job[p].do /\ job'[p].todo = <<"commit">>
    BY <1>0, <2>1, <2>4, PassIsPassed DEF Shapes
  <2>6. stmt'[p] = s /\ s.ids = {e.id} /\ s.cols.skills = e.skills
    BY <1>0, <2>1 DEF Issue, Shapes, UpdateRow
  <2>. HIDE DEF e, s
  <2>7. KeepsSkills(p) => KeepsSkills(p)'
    <3>1. "write_profile" \notin Steps(job'[p].todo)
      BY <2>5, UpdateScripts
    <3>. QED
      BY <1>0, <2>2, <2>6, <3>1 DEF KeepsSkills, e
  <2>. QED
    BY <1>2, <2>2, <2>5, <2>7 DEF OwnSkills, ToUpdateProfile
<1>8. CASE UpdateProfile(p)
  <2>1. PICK c \in OwnProfile(p), name \in Field, bio \in Field, skills \in SUBSET Skills :
           /\ Start(p, Candidate, "update_profile", NewDocument(c, skills, bio), <<>>,
                    <<"write_profile", "commit">>)
           /\ Issue(p, IF name = NoValue THEN NoStmt ELSE Update({c.user}, [name |-> name]))
    BY <1>8 DEF UpdateProfile
  <2>. DEFINE e == NewDocument(c, skills, bio)
              s == IF name = NoValue THEN NoStmt ELSE Update({c.user}, [name |-> name])
              t == <<"write_profile", "commit">>
  <2>2. At(p, "begin") /\ Start(p, Candidate, "update_profile", e, <<>>, t) /\ Issue(p, s)
    BY <2>1 DEF Start
  <2>3. ~PutsSkills(s)
    BY WithoutSkills
  <2>4. c \in rows /\ Table(c) = "candidate" /\ IsRow(c)
    BY <1>1, <2>2, WhatIsSeen DEF OwnProfile, From
  <2>5. e.id = c.id /\ c.skills \subseteq e.skills
    <3>1. DOMAIN c = CandidateColumns
      BY <2>4 DEF IsRow, Columns
    <3>. QED
      BY <3>1 DEF NewDocument, MergedSkills, CandidateColumns
  <2>. HIDE DEF e, s, t
  <2>6. job'[p].do = "update_profile" /\ job'[p].todo = t /\ job'[p].entity = e /\ stmt'[p] = s
    BY <1>0, <2>2 DEF Start, Issue, Shapes
  <2>7. \A y \in rows : y.id = e.id => y.skills \subseteq e.skills
    BY <2>4, <2>5 DEF Isolated, KeysAreUnique
  <2>8. tx'[p].adds = {}
    BY <1>0, <1>1, <2>2 DEF NoTx
  <2>9. KeepsSkills(p)'
    BY <1>0, <2>3, <2>6, <2>7, <2>8 DEF KeepsSkills, From
  <2>. QED
    BY <2>2, <2>6, <2>9 DEF OwnSkills, ToUpdateProfile, t
<1>. QED
  BY <1>3, <1>4, <1>5, <1>6, <1>7, <1>8 DEF Traces

\* What p writes when its statement is executed.
LEMMA SkillsUpdated ==
    ASSUME Discipline, Isolated, SkillsStay, NEW p \in Requests, Updated(p)
    PROVE  OwnSkills(p)
<1>1. /\ job'[p] = job[p] /\ stmt'[p] = NoStmt /\ UNCHANGED rows /\ stmt[p].do = "update"
      /\ tx'[p].adds = {x \in tx[p].adds : x.id \notin Ids(NewVersions(p))} \cup NewVersions(p)
  BY UpdatedChange
<1>2. ASSUME NEW x \in NewVersions(p), Table(x) = "candidate", NEW z \in rows, z.id = x.id
      PROVE  /\ PutsSkills(stmt[p]) /\ KeepsSkills(p) => z.skills \subseteq x.skills
             /\ ~PutsSkills(stmt[p]) /\ KeepsSkills(p) => z.skills \subseteq x.skills
             /\ ~PutsSkills(stmt[p]) /\ LeavesSkills(p) => z.skills = x.skills
  <2>1. PICK y \in View(p) :
           /\ y.id = x.id /\ x.id \in stmt[p].ids /\ Table(y) = "candidate"
           /\ \A c \in Columns[Table(y)] :
                 x[c] = IF c \in DOMAIN stmt[p].cols THEN stmt[p].cols[c] ELSE y[c]
    BY <1>1, <1>2, NewVersionsOf
  <2>2. "skills" \in Columns[Table(y)]
    BY <2>1 DEF Columns, CandidateColumns
  <2>3. x.skills = IF "skills" \in DOMAIN stmt[p].cols THEN stmt[p].cols.skills ELSE y.skills
    BY <2>1, <2>2
  <2>4. y \in rows => y = z
    BY <1>2, <2>1 DEF Isolated, KeysAreUnique
  <2>5. y \in rows \/ y \in From("candidate", tx[p].adds)
    BY <2>1 DEF View, From
  <2>. QED
    BY <1>1, <1>2, <2>1, <2>3, <2>4, <2>5 DEF PutsSkills, KeepsSkills, LeavesSkills
<1>3. Contested \/ KeepsSkills(p)
  BY DEF SkillsStay
<1>4. KeepsSkills(p) => KeepsSkills(p)'
  BY <1>1, <1>2, WithoutSkills DEF KeepsSkills, From
<1>5. LeavesSkills(p) => LeavesSkills(p)'
  BY <1>1, <1>2, WithoutSkills DEF LeavesSkills, From
<1>. QED
  BY <1>1, <1>3, <1>4, <1>5 DEF OwnSkills, SkillsStay

LEMMA SkillsWritten ==
    ASSUME Discipline, SkillsStay, NEW p \in Requests, Stops(p) \/ Removed(p) \/ Added(p)
    PROVE  OwnSkills(p) /\ job'[p] = job[p] /\ UNCHANGED rows
<1>1. job'[p] = job[p] /\ UNCHANGED rows /\ ~PutsSkills(stmt'[p])
  <2>1. CASE Stops(p)
    BY <2>1, StopsChange DEF PutsSkills
  <2>2. CASE Removed(p)
    <3>1. stmt'[p] = IF Children(p) = {} THEN NoStmt ELSE Delete(Ids(Children(p)), FALSE)
      BY <2>2, RemovedChange
    <3>2. ~PutsSkills(stmt'[p])
      BY <3>1, WithoutSkills
    <3>. QED
      BY <2>2, <3>2, RemovedChange
  <2>3. CASE Added(p)
    BY <2>3, AddedChange, WithoutSkills
  <2>. QED
    BY <2>1, <2>2, <2>3
<1>2. ASSUME NEW x \in From("candidate", tx'[p].adds), NEW y \in rows, y.id = x.id
      PROVE  x \in From("candidate", tx[p].adds)
  <2>1. CASE Stops(p)
    BY <1>2, <2>1, StopsChange
  <2>2. CASE Removed(p)
    BY <1>2, <2>2, RemovedChange DEF From
  <2>3. CASE Added(p)
    <3>1. stmt[p].do = "insert" /\ tx'[p].adds = tx[p].adds \cup {stmt[p].new}
      BY <2>3, AddedChange
    <3>2. \A z \in rows : z.id[2] # p
      BY <3>1, Executing
    <3>3. StmtOK(p, job[p], stmt[p])
      BY DEF Discipline
    <3>4. stmt[p].new.id[2] = p \/ stmt[p].new.id = SettingsId
      BY <3>1, <3>3 DEF StmtOK, NewRow, NewEventRow
    <3>5. x # stmt[p].new
      BY <1>2, <3>2, <3>4 DEF From, Table, SettingsId
    <3>. QED
      BY <1>2, <3>1, <3>5 DEF From
  <2>. QED
    BY <2>1, <2>2, <2>3
<1>3. KeepsSkills(p) => KeepsSkills(p)'
  BY <1>1, <1>2 DEF KeepsSkills
<1>4. LeavesSkills(p) => LeavesSkills(p)'
  BY <1>1, <1>2 DEF LeavesSkills
<1>. QED
  BY <1>1, <1>3, <1>4 DEF OwnSkills, SkillsStay

LEMMA SkillsEnd ==
    ASSUME Discipline, NEW p \in Requests, Commit(p) \/ Rollback(p)
    PROVE  OwnSkills(p) /\ job'[p].do = job[p].do
<1>1. job'[p] = Done(p) /\ stmt'[p] = NoStmt /\ tx'[p].adds = {}
  BY EndsChange
<1>2. Done(p).do = job[p].do /\ Done(p).todo = <<>>
  BY DoneIsOver
<1>. QED
  BY <1>1, <1>2, WithoutSkills, UpdateScripts DEF OwnSkills, KeepsSkills, LeavesSkills, From, ToUpdateProfile

LEMMA SkillsStayOn ==
    ASSUME Discipline, Discipline', Isolated, ActiveStays, SkillsStay, NEW p \in Requests, Moves(p)
    PROVE  SkillsStay'
<1>1. CASE Plans(p) /\ Traces(p)
  BY <1>1, PlansChange, SkillsPlanned, SkillsByStep
<1>2. CASE Updated(p)
  BY <1>2, UpdatedChange, SkillsUpdated, SkillsByStep
<1>3. CASE Stops(p) \/ Removed(p) \/ Added(p)
  BY <1>3, StopsChange, RemovedChange, AddedChange, SkillsWritten, SkillsByStep
<1>4. CASE Commit(p) \/ Rollback(p)
  BY <1>4, EndsChange, RollbackChange, SkillsEnd, SkillsByStep
<1>. QED
  BY <1>1, <1>2, <1>3, <1>4, PlansTrace

\* Every step is some request's.
LEMMA EveryMove ==
    ASSUME [Next]_allVars
    PROVE  (\E p \in Requests : Moves(p)) \/ UNCHANGED allVars
BY DEF Next, AllEnded, Moves

LEMMA SkillsAlways == Spec => [](Discipline /\ Isolated /\ ActiveStays /\ SkillsStay)
<1>1. Init => SkillsStay
  <2>. SUFFICES ASSUME Init PROVE SkillsStay
    OBVIOUS
  <2>1. \A r \in Requests : tx[r].adds = {} /\ stmt[r] = NoStmt /\ job[r].do = "none" /\ job[r].todo = <<"begin">>
    <3>1. \A r \in Requests : tx[r].adds = {} /\ stmt[r] = NoStmt
      BY Beginning
    <3>2. \A r \in Requests : job[r] = NewJob
      BY DEF Init
    <3>3. NewJob.do = "none" /\ NewJob.todo = <<"begin">>
      BY DEF NewJob
    <3>. QED
      BY <3>1, <3>2, <3>3
  <2>2. Steps(<<"begin">>) = {"begin"}
    BY TupleOf1 DEF Steps
  <2>3. \A r \in Requests : "write_profile" \notin Steps(job[r].todo)
    BY <2>1, <2>2
  <2>. QED
    BY <2>1, <2>3, WithoutSkills DEF SkillsStay, KeepsSkills, LeavesSkills, From
<1>2. Discipline /\ Isolated /\ ActiveStays /\ SkillsStay /\ [Next]_allVars => SkillsStay'
  <2>. SUFFICES ASSUME Discipline, Isolated, ActiveStays, SkillsStay, [Next]_allVars PROVE SkillsStay'
    OBVIOUS
  <2>1. ASSUME UNCHANGED allVars PROVE SkillsStay'
    BY <2>1, NothingMoves DEF SkillsStay, KeepsSkills, LeavesSkills, Contested
  <2>. QED
    BY <2>1, NextDiscipline, SkillsStayOn, EveryMove
<1>. QED
  BY <1>1, <1>2, ActiveAlways, PTL DEF Spec

\* An update of a profile loses no skill of it, while no second request updates
\* a profile: the document is written back whole, as it was read and merged.
THEOREM LoneUpdatesKeepSkills == Spec => LoneUpdateKeepsSkills
<1>1. ASSUME Discipline, SkillsStay, [Next]_allVars, ~Contested, NEW c \in From("candidate", rows)
      PROVE  \E d \in From("candidate", rows') : d.id = c.id /\ c.skills \subseteq d.skills
  <2>1. CASE UNCHANGED rows
    BY <2>1
  <2>2. ASSUME NEW p \in Requests, Commit(p)
        PROVE  \E d \in From("candidate", rows') : d.id = c.id /\ c.skills \subseteq d.skills
    <3>1. View(p) \subseteq rows'
      BY <1>1, <2>2, CommitChange
    <3>2. CASE c.id \notin tx[p].gone
      BY <3>1, <3>2 DEF View, From
    <3>3. CASE c.id \in tx[p].gone
      <4>1. TxOK(p)
        BY <1>1 DEF Discipline
      <4>2. c.id[1] = "candidate" /\ "candidate" \notin Deletable
        BY DEF From, Table, Deletable
      <4>3. PICK x \in tx[p].adds : x.id = c.id
        BY <3>3, <4>1, <4>2 DEF TxOK
      <4>4. x \in From("candidate", tx[p].adds) /\ x \in rows'
        BY <3>1, <4>2, <4>3 DEF From, Table, View
      <4>5. c.skills \subseteq x.skills
        BY <1>1, <4>3, <4>4 DEF SkillsStay, KeepsSkills, From
      <4>. QED
        BY <4>3, <4>4, <4>5 DEF From
    <3>. QED
      BY <3>2, <3>3
  <2>3. UNCHANGED rows \/ \E p \in Requests : Commit(p)
    BY <1>1, EveryStep, NothingMoves, PlansChange, StopsChange, UpdatedChange, RemovedChange, AddedChange,
       RollbackChange DEF Kinds
  <2>. QED
    BY <2>1, <2>2, <2>3
<1>2. Discipline /\ SkillsStay /\ [Next]_allVars =>
         [\/ \A c \in From("candidate", rows) :
                \E d \in From("candidate", rows') : d.id = c.id /\ c.skills \subseteq d.skills
          \/ Contested]_allVars
  BY <1>1
<1>. QED
  BY <1>2, SkillsAlways, PTL DEF Spec, LoneUpdateKeepsSkills, Contested

-----------------------------------------------------------------------------
(***************************************************************************)
(* Risks.                                                                  *)
(***************************************************************************)
LEMMA RiskIsNobodys == RiskId # SettingsId /\ RiskId[1] = "risk" /\ RiskId[2] \notin Requests
BY NamesAssumption DEF RiskId, SettingsId

\* What a commit adds to the rows is what the request saw, and its log entry.
LEMMA EventsGrow ==
    ASSUME Discipline, NEW p \in Requests, UNCHANGED rows \/ Commit(p)
    PROVE  From("event", rows) \subseteq From("event", rows')
<1>1. CASE Commit(p)
  <2>1. PICK added : rows' = View(p) \cup added
    BY <1>1, CommitChange
  <2>2. From("event", rows) \subseteq From("event", View(p))
    BY EventsSeen DEF From
  <2>. QED
    BY <2>1, <2>2 DEF From
<1>. QED
  BY <1>1

\* No row of risks is new.
LEMMA RisksWereThere ==
    ASSUME Discipline, ActiveStays, RiskCounts, NEW p \in Requests, UNCHANGED rows \/ Commit(p),
           NEW x \in From("risk", rows')
    PROVE  x.id = RiskId /\ RiskId \in Ids(rows)
<1>1. CASE UNCHANGED rows
  BY <1>1 DEF RiskCounts, From, Ids, Versions
<1>2. CASE Commit(p)
  <2>1. PICK added : rows' = View(p) \cup added /\ \A y \in added : Table(y) = "audit"
    BY <1>2, CommitChange
  <2>2. x \in rows \/ x \in tx[p].adds
    BY <2>1 DEF From, View
  <2>3. x.id = RiskId
    BY <2>2 DEF RiskCounts, Versions, From
  <2>4. CASE x \in tx[p].adds
    BY <2>3, <2>4, RiskIsNobodys DEF ActiveStays, Ids
  <2>. QED
    BY <2>2, <2>3, <2>4 DEF Ids
<1>. QED
  BY <1>1, <1>2

\* What a step of p leaves of the others.
LEMMA CountedStays ==
    ASSUME Discipline, Isolated, ActiveStays, RiskCounts, NEW p \in Requests, OnlyOf(p),
           UNCHANGED rows \/ Commit(p), NEW r \in Requests, r # p, Sums(r)'
    PROVE  Counted(r)'
<1>1. job'[r] = job[r] /\ stmt'[r] = stmt[r] /\ tx'[r] = tx[r] /\ Sums(r)
  BY DEF OnlyOf, Sums, Ended
<1>2. Counted(r)
  BY <1>1 DEF RiskCounts
<1>3. From("event", rows) \subseteq From("event", rows')
  BY EventsGrow
<1>4. ASSUME NEW counted, Counts(r, counted)
      PROVE  Counts(r, counted)'
  BY <1>1, <1>3, <1>4 DEF Counts, From, Ids
<1>5. ASSUME \A x \in From("risk", View(r)) : x \in tx[r].adds /\ Counts(r, x.counted)
      PROVE  \A x \in From("risk", View(r)') : x \in tx'[r].adds /\ Counts(r, x.counted)'
  <2>. SUFFICES ASSUME NEW x \in From("risk", View(r)')
                PROVE  x \in tx[r].adds /\ Counts(r, x.counted)'
    BY <1>1
  <2>1. CASE x \in tx[r].adds
    BY <1>4, <1>5, <2>1 DEF From, View
  <2>2. CASE x \notin tx[r].adds
    <3>1. x \in From("risk", rows') /\ x.id \notin tx[r].gone
      BY <1>1, <2>2 DEF From, View
    <3>2. x.id = RiskId /\ RiskId \in Ids(rows)
      BY <3>1, RisksWereThere
    <3>3. PICK y \in rows : y.id = RiskId
      BY <3>2 DEF Ids
    <3>4. y \in From("risk", View(r))
      BY <3>1, <3>2, <3>3, RiskIsNobodys DEF From, View, Table
    <3>5. y \in tx[r].adds
      BY <1>5, <3>4
    <3>. QED
      BY <3>1, <3>2, <3>3, <3>5 DEF Isolated, Apart
  <2>. QED
    BY <2>1, <2>2
<1>6. ToCompute(r) => ToCompute(r)'
  BY <1>1 DEF ToCompute
<1>7. job[r].entity.before \subseteq Ids(From("event", rows'))
  BY <1>2, <1>3 DEF Counted, Ids
<1>. QED
  BY <1>1, <1>2, <1>4, <1>5, <1>6, <1>7 DEF Counted

\* What p's own step makes of its sum.
LEMMA RiskByStep ==
    ASSUME Discipline, Isolated, ActiveStays, RiskCounts, NEW p \in Requests, OnlyOf(p),
           UNCHANGED rows \/ Commit(p), \A x \in From("risk", tx'[p].adds) : x.id = RiskId,
           Sums(p)' => Counted(p)'
    PROVE  RiskCounts'
<1>1. ASSUME NEW x \in From("risk", Versions') PROVE x.id = RiskId
  <2>1. CASE x \in From("risk", rows')
    BY <2>1, RisksWereThere
  <2>2. CASE \E q \in Requests : x \in tx'[q].adds
    <3>1. PICK q \in Requests : x \in tx'[q].adds
      BY <2>2
    <3>2. CASE q = p
      BY <3>1, <3>2, <1>1 DEF From
    <3>3. CASE q # p
      <4>1. x \in From("risk", Versions)
        BY <1>1, <3>1, <3>3 DEF OnlyOf, From, Versions
      <4>. QED
        BY <4>1 DEF RiskCounts
    <3>. QED
      BY <3>2, <3>3
  <2>. QED
    BY <1>1, <2>1, <2>2 DEF Versions, From
<1>2. \A r \in Requests : Sums(r)' => Counted(r)'
  BY CountedStays
<1>. QED
  BY <1>1, <1>2 DEF RiskCounts

LEMMA IngestScripts ==
    /\ Steps(<<"take_event">>) = {"take_event"} /\ Steps(<<"record">>) = {"record"}
    /\ Steps(<<"compute">>) = {"compute"} /\ Steps(<<"commit">>) = {"commit"}
    /\ \A r : ThenNext(r) \in {<<"commit">>, <<"take_event">>}
BY TupleOf1 DEF Steps, ThenNext

\* The columns of the risk that p computes count all it sees.
LEMMA RiskOfWhatIsSeen ==
    ASSUME Discipline, NEW p \in Requests, job[p].entity.before \subseteq Ids(From("event", rows))
    PROVE  Counts(p, Ids(Events(p)))
<1>1. From("event", View(p)) = From("event", rows \cup tx[p].adds)
  BY EventsSeen
<1>. QED
  BY <1>1 DEF Counts, Events, Ids, From

LEMMA RiskPlanned ==
    ASSUME Discipline, Discipline', RiskCounts, NEW p \in Requests, Plans(p), Traces(p), Sums(p)'
    PROVE  Counted(p)'
<1>0. OnlyOf(p) /\ tx'[p] = tx[p] /\ UNCHANGED rows /\ Shapes /\ stmt[p] = NoStmt
  BY PlansChange DEF Discipline, Plans
<1>1. At(p, "begin") => tx[p] = NoTx /\ View(p) = rows
  BY AtBegin
<1>2. NoTx.adds = {} /\ NoTx.gone = {} /\ NoStmt.do = "none"
  BY DEF NoTx, NoStmt
<1>3. CASE Named(p) \/ UpdateProfile(p)
  <2>1. job'[p].do \notin {"ingest", "recompute"}
    <3>1. CASE UpdateProfile(p)
      <4>1. PICK e, t : Start(p, Candidate, "update_profile", e, <<>>, t)
        BY <3>1 DEF UpdateProfile
      <4>. QED
        BY <1>0, <4>1 DEF Start, Shapes
    <3>. QED
      BY <1>3, <3>1 DEF Named, Traced
  <2>. QED
    BY <2>1 DEF Sums
<1>4. ASSUME NEW a, At(p, a), job'[p].do = job[p].do
      PROVE  Counted(p) /\ a \in IngestSteps \cup {"commit"}
  <2>1. ~Ended(p) /\ a \in Steps(job[p].todo)
    BY <1>4, HeadOfJob
  <2>2. Sums(p)
    BY <1>4, <2>1 DEF Sums
  <2>. QED
    BY <2>1, <2>2 DEF RiskCounts, Counted
<1>5. CASE Elsewhere(p) \/ WriteProfile(p)
  <2>1. PICK a \in {"write_profile"} \cup OtherSteps : At(p, a)
    BY <1>5 DEF Elsewhere, WriteProfile
  <2>2. job'[p].do = job[p].do
    <3>1. CASE WriteProfile(p)
      <4>1. Pass(p)
        BY <3>1 DEF WriteProfile
      <4>2. Passed(p, job[p].entity, job[p].walk).do = job[p].do
        BY DEF Passed
      <4>. QED
        BY <1>0, <4>1, <4>2, PassIsPassed DEF Shapes
    <3>. QED
      BY <1>5, <3>1 DEF Elsewhere
  <2>3. a \in IngestSteps \cup {"commit"}
    BY <1>4, <2>1, <2>2
  <2>. QED
    BY <2>1, <2>3 DEF OtherSteps, LastSteps, IngestSteps
<1>6. CASE Ingest(p)
  <2>1. PICK batch : Begin(p, Nobody, "ingest", [before |-> Ids(Events(p))], batch, <<"take_event">>)
    BY <1>6 DEF Ingest
  <2>2. At(p, "begin") /\ stmt'[p] = NoStmt
        /\ job'[p].entity.before = Ids(Events(p)) /\ job'[p].todo = <<"take_event">>
    BY <1>0, <2>1 DEF Begin, Start, dbVars, Shapes
  <2>3. tx'[p].adds = {} /\ tx'[p].gone = {} /\ Events(p) = From("event", rows)
    BY <1>0, <1>1, <1>2, <2>2 DEF Events
  <2>. QED
    BY <1>0, <1>2, <2>2, <2>3, IngestScripts DEF Counted, IngestSteps
<1>7. CASE Recompute(p)
  <2>1. Start(p, Nobody, "recompute", [before |-> Ids(Events(p))], <<>>, <<"commit">>)
        /\ Issue(p, Update({RiskId}, RiskOf(Events(p))))
    BY <1>7 DEF Recompute, Compute
  <2>. DEFINE c == RiskOf(Events(p))
  <2>2. At(p, "begin") /\ stmt'[p] = Update({RiskId}, c)
        /\ job'[p].entity.before = Ids(Events(p)) /\ job'[p].todo = <<"commit">>
    BY <1>0, <2>1 DEF Start, Issue, Shapes
  <2>3. tx'[p].adds = {} /\ tx'[p].gone = {} /\ Events(p) = From("event", rows)
    BY <1>0, <1>1, <1>2, <2>2 DEF Events
  <2>4. c.counted = Ids(Events(p)) /\ "counted" \in DOMAIN c
    BY DEF RiskOf
  <2>. HIDE DEF c
  <2>5. /\ stmt'[p].do = "update" /\ stmt'[p].ids = {RiskId} /\ stmt'[p].cols = c
    BY <2>2 DEF Update
  <2>6. Counts(p, stmt[p].cols.counted)'
    BY <1>0, <2>2, <2>3, <2>4, <2>5 DEF Counts, Ids, From
  <2>. QED
    BY <1>0, <2>2, <2>3, <2>4, <2>5, <2>6, IngestScripts DEF Counted, ToCompute
<1>8. CASE Ingests(p)
  <2>1. /\ job'[p].do = job[p].do /\ job'[p].entity = job[p].entity
        /\ StoreEvent(p) => job'[p].todo = <<"record">>
        /\ RecordFingerprint(p) => job'[p].todo = <<"compute">>
        /\ IgnoreDuplicate(p) \/ ComputeRisk(p) => job'[p].todo = ThenNext(p)
    BY <1>8, IngestsGoOn
  <2>2. PICK a \in IngestSteps : /\ At(p, a)
                                 /\ IgnoreDuplicate(p) => a = "take_event"
    BY <1>8 DEF Ingests, IgnoreDuplicate, StoreEvent, RecordFingerprint, ComputeRisk, IngestSteps
  <2>3. Counted(p)
    BY <1>4, <2>1, <2>2
  <2>4. job'[p].entity.before \subseteq Ids(From("event", rows'))
    BY <1>0, <2>1, <2>3 DEF Counted
  <2>5. CASE StoreEvent(p)
    <3>. DEFINE x == NewEvent(p, Head(job[p].create), Len(job[p].create))
    <3>1. stmt'[p] = Insert(x)
      BY <1>0, <2>5 DEF StoreEvent, Issue, Shapes
    <3>2. Table(x) = "event"
      BY DEF NewEvent, Table
    <3>. HIDE DEF x
    <3>3. stmt'[p].do = "insert" /\ stmt'[p].new = x
      BY <3>1 DEF Insert
    <3>. QED
      BY <1>0, <2>1, <2>3, <2>4, <2>5, <3>2, <3>3, IngestScripts DEF Counted, ToCompute, IngestSteps
  <2>6. CASE RecordFingerprint(p)
    <3>1. stmt'[p] = NoStmt
      BY <1>0, <2>6 DEF RecordFingerprint, dbVars
    <3>. QED
      BY <1>0, <1>2, <2>1, <2>3, <2>4, <2>6, <3>1, IngestScripts DEF Counted, ToCompute, IngestSteps
  <2>7. CASE ComputeRisk(p)
    <3>. DEFINE c == RiskOf(Events(p))
    <3>1. stmt'[p] = Update({RiskId}, c)
      BY <1>0, <2>7 DEF ComputeRisk, Compute, Issue, Shapes
    <3>2. c.counted = Ids(Events(p)) /\ "counted" \in DOMAIN c
      BY DEF RiskOf
    <3>. HIDE DEF c
    <3>3. /\ stmt'[p].do = "update" /\ stmt'[p].ids = {RiskId} /\ stmt'[p].cols = c
      BY <3>1 DEF Update
    <3>4. Counts(p, Ids(Events(p)))
      BY <2>3, RiskOfWhatIsSeen DEF Counted
    <3>5. Counts(p, stmt[p].cols.counted)'
      BY <1>0, <2>1, <3>2, <3>3, <3>4 DEF Counts
    <3>6. Steps(job'[p].todo) \subseteq IngestSteps \cup {"commit"}
      BY <2>1, <2>7, IngestScripts DEF IngestSteps
    <3>. QED
      BY <1>0, <2>1, <2>3, <2>4, <3>2, <3>3, <3>5, <3>6 DEF Counted, ToCompute
  <2>8. CASE IgnoreDuplicate(p)
    <3>1. stmt'[p] = NoStmt
      BY <1>0, <2>8 DEF IgnoreDuplicate, dbVars
    <3>2. Steps(job'[p].todo) \subseteq IngestSteps \cup {"commit"}
      BY <2>1, <2>8, IngestScripts DEF IngestSteps
    <3>3. Steps(job[p].todo) = {"take_event"}
      <4>1. "take_event" \in Steps(job[p].todo) /\ Script(job[p])
        BY <2>2, <2>8, HeadOfJob DEF JobOK
      <4>2. Len(job[p].todo) = 1
        BY <4>1 DEF Script, IngestSteps
      <4>. QED
        BY <4>1, <4>2 DEF Steps
    <3>4. ~ToCompute(p)
      BY <1>0, <1>2, <3>3 DEF ToCompute
    <3>5. \/ tx[p].adds = {}
          \/ \A x \in From("risk", View(p)) : x \in tx[p].adds /\ Counts(p, x.counted)
      BY <2>3, <3>4 DEF Counted
    <3>6. \/ tx'[p].adds = {}
          \/ \A x \in From("risk", View(p)') : x \in tx'[p].adds /\ Counts(p, x.counted)'
      BY <1>0, <2>1, <3>5 DEF Counts, View
    <3>. QED
      BY <1>0, <1>2, <2>1, <2>3, <2>4, <3>1, <3>2, <3>6 DEF Counted
  <2>. QED
    BY <1>8, <2>5, <2>6, <2>7, <2>8 DEF Ingests
<1>. QED
  BY <1>3, <1>5, <1>6, <1>7, <1>8 DEF Traces

\* The risk that p writes is what it has computed.
LEMMA RiskUpdated ==
    ASSUME Discipline, RiskCounts, NEW p \in Requests, Updated(p)
    PROVE  /\ \A x \in From("risk", tx'[p].adds) : x.id = RiskId
           /\ Sums(p)' => Counted(p)'
<1>. DEFINE N == NewVersions(p)
<1>1. /\ job'[p] = job[p] /\ stmt'[p] = NoStmt /\ UNCHANGED rows /\ stmt[p].do = "update"
      /\ tx'[p].adds = {x \in tx[p].adds : x.id \notin Ids(N)} \cup N
      /\ tx'[p].gone = tx[p].gone \cup Ids(N)
  BY UpdatedChange
<1>2. ASSUME NEW x \in N
      PROVE  \E y \in View(p) : /\ y.id = x.id /\ x.id \in stmt[p].ids /\ Table(x) = Table(y) /\ y \in Versions
                                /\ \A c \in Columns[Table(y)] :
                                      x[c] = IF c \in DOMAIN stmt[p].cols THEN stmt[p].cols[c] ELSE y[c]
  BY <1>1, <1>2, NewVersionsOf
<1>3. \A y \in View(p) : y.id \in stmt[p].ids => y.id \in Ids(N)
  <2>. SUFFICES ASSUME NEW y \in View(p), y.id \in stmt[p].ids PROVE y.id \in Ids(N)
    OBVIOUS
  <2>1. Assigned(y, stmt[p].cols) \in N /\ Assigned(y, stmt[p].cols).id = y.id
    BY <1>1, UpdateFits DEF NewVersions
  <2>. HIDE DEF N
  <2>. QED
    BY <2>1 DEF Ids
<1>. HIDE DEF N
<1>4. \A x \in From("risk", tx'[p].adds) : x.id = RiskId
  BY <1>1, <1>2 DEF RiskCounts, Versions, From
<1>5. ASSUME Sums(p)' PROVE Counted(p)'
  <2>1. Sums(p)
    BY <1>1, <1>5 DEF Sums, Ended
  <2>2. Counted(p)
    BY <2>1 DEF RiskCounts
  <2>3. stmt[p].ids = {RiskId} /\ "counted" \in DOMAIN stmt[p].cols /\ Counts(p, stmt[p].cols.counted)
    BY <1>1, <2>2 DEF Counted
  <2>4. \A x \in N : x.id = RiskId /\ Table(x) = "risk" /\ x.counted = stmt[p].cols.counted
    <3>. SUFFICES ASSUME NEW x \in N PROVE x.id = RiskId /\ Table(x) = "risk" /\ x.counted = stmt[p].cols.counted
      OBVIOUS
    <3>1. x.id = RiskId
      BY <1>2, <2>3
    <3>2. Table(x) = "risk"
      BY <3>1, RiskIsNobodys DEF Table
    <3>3. "counted" \in Columns["risk"]
      BY DEF Columns, RiskColumns
    <3>4. x.counted = stmt[p].cols.counted
      BY <1>2, <2>3, <3>2, <3>3
    <3>. QED
      BY <3>1, <3>2, <3>4
  <2>5. From("event", tx'[p].adds) = From("event", tx[p].adds)
    BY <1>1, <2>4, RiskIsNobodys DEF From, Table, Ids
  <2>6. From("event", (rows \cup tx[p].adds)') = From("event", rows \cup tx[p].adds)
    BY <1>1, <2>5 DEF From
  <2>7. Counts(p, stmt[p].cols.counted) => \A x \in N : Counts(p, x.counted)'
    BY <1>1, <2>4, <2>5, <2>6 DEF Counts
  <2>8. ASSUME NEW x \in From("risk", View(p)')
        PROVE  x \in tx'[p].adds /\ Counts(p, x.counted)'
    <3>1. x.id = RiskId
      <4>1. x \in rows \/ x \in tx'[p].adds
        BY <1>1, <2>8 DEF View, From
      <4>. QED
        BY <1>4, <2>8, <4>1 DEF RiskCounts, Versions, From
    <3>2. x \in N
      <4>1. CASE x \in tx'[p].adds
        <5>1. x \notin N => x \in tx[p].adds /\ x.id \notin Ids(N)
          BY <1>1, <4>1
        <5>. QED
          BY <1>3, <2>3, <3>1, <5>1 DEF View
      <4>2. CASE x \notin tx'[p].adds
        <5>1. x \in rows /\ x.id \notin tx[p].gone /\ x.id \notin Ids(N)
          BY <1>1, <2>8, <4>2 DEF View, From
        <5>. QED
          BY <1>3, <2>3, <3>1, <5>1 DEF View
      <4>. QED
        BY <4>1, <4>2
    <3>. QED
      BY <1>1, <2>3, <2>7, <3>2
  <2>9. /\ tx'[p].gone \subseteq {RiskId}
        /\ \A x \in tx'[p].adds : Table(x) \in {"event", "risk"}
    BY <1>1, <2>2, <2>4 DEF Counted, Ids
  <2>. QED
    BY <1>1, <2>2, <2>8, <2>9, NotAnInsert DEF Counted
<1>. QED
  BY <1>4, <1>5

LEMMA RiskStopped ==
    ASSUME Discipline, RiskCounts, NEW p \in Requests, Stops(p)
    PROVE  /\ \A x \in From("risk", tx'[p].adds) : x.id = RiskId
           /\ Sums(p)' => Counted(p)'
<1>1. job'[p] = job[p] /\ tx'[p] = tx[p] /\ stmt'[p].do = "failed" /\ UNCHANGED rows
  BY StopsChange
<1>2. Sums(p)' => Sums(p) /\ Counted(p)
  BY <1>1 DEF Sums, Ended, RiskCounts
<1>3. \A x \in From("risk", tx[p].adds) : x.id = RiskId
  BY DEF RiskCounts, Versions, From
<1>. QED
  BY <1>1, <1>2, <1>3 DEF Counted, ToCompute

LEMMA RiskRemoved ==
    ASSUME Discipline, RiskCounts, NEW p \in Requests, Removed(p)
    PROVE  /\ \A x \in From("risk", tx'[p].adds) : x.id = RiskId
           /\ Sums(p)' => Counted(p)'
<1>1. job'[p] = job[p] /\ stmt[p].do = "delete" /\ tx'[p].adds \subseteq tx[p].adds
  BY RemovedChange
<1>2. Sums(p)' => Sums(p) /\ Counted(p)
  BY <1>1 DEF Sums, Ended, RiskCounts
<1>3. \A x \in From("risk", tx[p].adds) : x.id = RiskId
  BY DEF RiskCounts, Versions, From
<1>. QED
  BY <1>1, <1>2, <1>3 DEF Counted, From

LEMMA RiskAdded ==
    ASSUME Discipline, RiskCounts, NEW p \in Requests, Added(p)
    PROVE  /\ \A x \in From("risk", tx'[p].adds) : x.id = RiskId
           /\ Sums(p)' => Counted(p)'
<1>1. /\ job'[p] = job[p] /\ UNCHANGED rows
      /\ stmt[p].do = "insert" /\ tx'[p].adds = tx[p].adds \cup {stmt[p].new} /\ tx'[p].gone = tx[p].gone
      /\ stmt'[p] = NoStmt
  BY AddedChange
<1>2. Sums(p)' => Sums(p) /\ Counted(p)
  BY <1>1 DEF Sums, Ended, RiskCounts
<1>3. \A x \in From("risk", tx[p].adds) : x.id = RiskId
  BY DEF RiskCounts, Versions, From
<1>4. StmtOK(p, job[p], stmt[p])
  BY DEF Discipline
<1>5. Table(stmt[p].new) # "risk"
  BY <1>1, <1>4 DEF StmtOK, NewRow, NewEventRow
<1>6. ASSUME Sums(p)' PROVE Counted(p)'
  <2>1. Counted(p) /\ Table(stmt[p].new) = "event" /\ job[p].todo = <<"record">>
    BY <1>2, <1>1, <1>6 DEF Counted
  <2>2. ToCompute(p)'
    BY <1>1, <2>1, IngestScripts DEF ToCompute
  <2>. QED
    BY <1>1, <2>1, <2>2, NotAnInsert DEF Counted
<1>. QED
  BY <1>1, <1>3, <1>5, <1>6 DEF From

LEMMA RiskCountsOn ==
    ASSUME Discipline, Discipline', Isolated, ActiveStays, RiskCounts, NEW p \in Requests, Moves(p)
    PROVE  RiskCounts'
<1>1. CASE Plans(p) /\ Traces(p)
  <2>1. OnlyOf(p) /\ tx'[p] = tx[p] /\ UNCHANGED rows
    BY <1>1, PlansChange
  <2>2. \A x \in From("risk", tx'[p].adds) : x.id = RiskId
    BY <2>1 DEF RiskCounts, Versions, From
  <2>. QED
    BY <1>1, <2>1, <2>2, RiskPlanned, RiskByStep
<1>2. CASE Updated(p)
  BY <1>2, UpdatedChange, RiskUpdated, RiskByStep
<1>3. CASE Stops(p) \/ Removed(p) \/ Added(p)
  <2>1. OnlyOf(p) /\ UNCHANGED rows
    BY <1>3, StopsChange, RemovedChange, AddedChange
  <2>2. \A x \in From("risk", tx'[p].adds) : x.id = RiskId
    <3>1. CASE Stops(p)
      BY <3>1, RiskStopped
    <3>2. CASE Removed(p)
      BY <3>2, RiskRemoved
    <3>3. CASE Added(p)
      BY <3>3, RiskAdded
    <3>. QED
      BY <1>3, <3>1, <3>2, <3>3
  <2>3. Sums(p)' => Counted(p)'
    <3>1. CASE Stops(p)
      BY <3>1, RiskStopped
    <3>2. CASE Removed(p)
      BY <3>2, RiskRemoved
    <3>3. CASE Added(p)
      BY <3>3, RiskAdded
    <3>. QED
      BY <1>3, <3>1, <3>2, <3>3
  <2>. QED
    BY <2>1, <2>2, <2>3, RiskByStep
<1>4. CASE Commit(p) \/ Rollback(p)
  <2>1. OnlyOf(p) /\ job'[p] = Done(p) /\ tx'[p].adds = {} /\ (UNCHANGED rows \/ Commit(p))
    BY <1>4, EndsChange, RollbackChange
  <2>2. ~Sums(p)'
    BY <2>1, DoneIsOver DEF Sums, Ended
  <2>3. \A x \in From("risk", tx'[p].adds) : x.id = RiskId
    BY <2>1 DEF From
  <2>. QED
    BY <2>1, <2>2, <2>3, RiskByStep
<1>. QED
  BY <1>1, <1>2, <1>3, <1>4, PlansTrace

LEMMA RiskAlways == Spec => [](Discipline /\ RiskCounts)
<1>1. Init => RiskCounts
  <2>. SUFFICES ASSUME Init PROVE RiskCounts
    OBVIOUS
  <2>1. PICK w \in Workloads : rows = w.rows
    BY Beginning
  <2>2. \A r \in Requests : tx[r].adds = {}
    BY Beginning
  <2>3. \A r \in Requests : job[r].do = "none"
    BY DEF Init, NewJob
  <2>4. Versions = rows
    BY <2>2 DEF Versions
  <2>. QED
    BY <2>1, <2>3, <2>4, WorkloadsAssumption DEF RiskCounts, Sums
<1>2. Discipline /\ Isolated /\ ActiveStays /\ RiskCounts /\ [Next]_allVars => RiskCounts'
  <2>. SUFFICES ASSUME Discipline, Isolated, ActiveStays, RiskCounts, [Next]_allVars PROVE RiskCounts'
    OBVIOUS
  <2>1. ASSUME UNCHANGED allVars PROVE RiskCounts'
    <3>1. UNCHANGED <<rows, tx, stmt, job>>
      BY <2>1, NothingMoves
    <3>2. \A r \in Requests : (Sums(r)' => Sums(r)) /\ (Counted(r) => Counted(r)')
      <4>. SUFFICES ASSUME NEW r \in Requests PROVE (Sums(r)' => Sums(r)) /\ (Counted(r) => Counted(r)')
        OBVIOUS
      <4>1. (Sums(r)' <=> Sums(r)) /\ (ToCompute(r)' <=> ToCompute(r)) /\ View(r)' = View(r)
        BY <3>1 DEF Sums, Ended, ToCompute, View
      <4>2. \A c : Counts(r, c) => Counts(r, c)'
        BY <3>1 DEF Counts
      <4>. QED
        BY <3>1, <4>1, <4>2 DEF Counted
    <3>. QED
      BY <3>1, <3>2 DEF RiskCounts, Versions
  <2>. QED
    BY <2>1, NextDiscipline, RiskCountsOn, EveryMove
<1>. QED
  BY <1>1, <1>2, ActiveAlways, PTL DEF Spec

\* A risk that is committed counts the events its request began with and those
\* it has stored itself, and none that is not stored.
THEOREM RisksAreOfTheirTime == Spec => RiskIsOfItsTime
<1>1. ASSUME Discipline, RiskCounts, [Next]_allVars, NEW r \in Requests, job'[r] # job[r], rows' # rows,
             job[r].do \in {"ingest", "recompute"}, NEW x \in From("risk", rows')
      PROVE  /\ job[r].entity.before \cup Ids(From("event", tx[r].adds)) \subseteq x.counted
             /\ x.counted \subseteq Ids(From("event", rows'))
  <2>1. PICK p \in Requests : Commit(p)
    BY <1>1, EveryStep, NothingMoves, PlansChange, StopsChange, UpdatedChange, RemovedChange, AddedChange,
       RollbackChange DEF Kinds
  <2>2. r = p
    BY <1>1, <2>1, EndsChange DEF OnlyOf
  <2>3. ~Ended(r) /\ stmt[r] = NoStmt
    BY <1>1, <2>1, <2>2, CommitChange
  <2>4. Counted(r)
    BY <1>1, <2>3 DEF Sums, RiskCounts
  <2>5. PICK a \in {"commit", "log_and_commit"} : At(r, a)
    BY <2>1, <2>2 DEF Commit
  <2>6. Steps(job[r].todo) = {a}
    BY <1>1, <2>5, HeadOfJob DEF LastSteps
  <2>7. At(r, "commit") /\ ~ToCompute(r)
    BY <2>3, <2>4, <2>5, <2>6, NotAnInsert DEF Counted, IngestSteps, ToCompute
  <2>8. rows' = View(r)
    BY <2>1, <2>2, <2>7 DEF Commit, CommitTx
  <2>9. tx[r].adds # {}
    <3>. SUFFICES ASSUME tx[r].adds = {} PROVE FALSE
      OBVIOUS
    <3>1. TxOK(r)
      BY <1>1 DEF Discipline
    <3>2. tx[r].gone = {}
      BY <2>4, <3>1, RiskIsNobodys DEF Counted, TxOK, Deletable
    <3>3. rows' = rows
      BY <2>8, <3>2 DEF View
    <3>. QED
      BY <1>1, <3>3
  <2>10. x \in tx[r].adds /\ Counts(r, x.counted)
    BY <1>1, <2>4, <2>7, <2>8, <2>9 DEF Counted
  <2>11. From("event", rows') = From("event", rows \cup tx[r].adds)
    BY <1>1, <2>8, EventsSeen
  <2>. QED
    BY <2>10, <2>11 DEF Counts
<1>2. Discipline /\ RiskCounts /\ [Next]_allVars =>
         [\A r \in Requests :
            /\ job'[r] # job[r] /\ rows' # rows /\ job[r].do \in {"ingest", "recompute"}
            => \A x \in From("risk", rows') :
                  /\ job[r].entity.before \cup Ids(From("event", tx[r].adds)) \subseteq x.counted
                  /\ x.counted \subseteq Ids(From("event", rows'))]_allVars
  BY <1>1
<1>. QED
  BY <1>2, RiskAlways, PTL DEF Spec, RiskIsOfItsTime
================================================================================
