---------------------------- MODULE ContentSystem ----------------------------
(***************************************************************************)
(* Administrators, a candidate and people who log in, working on the same  *)
(* tables at the same time: each request runs one operation of             *)
(* AdminContent, CandidatePractice, CandidateProfile, Accounts or          *)
(* Proctoring, over the rows and locks of ContentDb.                       *)
(***************************************************************************)
EXTENDS AdminContent, CandidateProfile, Proctoring

CONSTANTS Workloads   \* what earlier requests have committed, and the operations called on it

-----------------------------------------------------------------------------
(***************************************************************************)
(* What a set of rows promises.                                            *)
(***************************************************************************)
TemplateColumns    == {"id", "org", "name", "version", "text", "active"}
OverrideColumns    == {"id", "org", "base", "text", "active"}
RubricColumns      == {"id", "org", "name", "text", "active"}
DimensionColumns   == {"id", "rubric"}
WindowColumns      == {"id", "org", "text"}
MappingColumns     == {"id", "window", "role", "template"}
RoleColumns        == {"id", "org", "name"}
TopicColumns       == {"id", "org", "name", "parent"}
CodingTopicColumns == {"id", "org", "name", "parent"}
QuestionColumns    == {"id", "org", "text"}
ProblemColumns     == {"id", "org", "text"}
AuditColumns       == {"id", "action", "about"}
PersonalColumns    == {"id", "topic", "active", "done", "reached"}
InsightColumns     == {"id", "topic"}
UserColumns        == {"id", "email", "name", "type", "active", "secret", "version", "seen"}
AdminColumns       == {"id", "user", "org", "role"}
CandidateColumns   == {"id", "user", "skills", "bio"}
TokenColumns       == {"id", "user", "revoked"}
SettingsColumns    == {"id", "notify", "privacy"}
ResumeColumns      == {"id", "parsed", "analysed"}
EventColumns       == {"id", "kind", "time", "severity", "weight"}
RiskColumns        == {"id", "counted", "total", "flagged"}

Columns == [template     |-> TemplateColumns,
            override     |-> OverrideColumns,
            rubric       |-> RubricColumns,
            dimension    |-> DimensionColumns,
            window       |-> WindowColumns,
            mapping      |-> MappingColumns,
            role         |-> RoleColumns,
            topic        |-> TopicColumns,
            coding_topic |-> CodingTopicColumns,
            question     |-> QuestionColumns,
            problem      |-> ProblemColumns,
            audit        |-> AuditColumns,
            submission   |-> {"id", "window", "template", "text"},
            deck         |-> PersonalColumns,
            roadmap      |-> PersonalColumns,
            insight      |-> InsightColumns,
            user         |-> UserColumns,
            admin        |-> AdminColumns,
            candidate    |-> CandidateColumns,
            token        |-> TokenColumns,
            settings     |-> SettingsColumns,
            resume       |-> ResumeColumns,
            event        |-> EventColumns,
            risk         |-> RiskColumns]

\* A row has the columns of its table, with values some request can have put there.
IsRow(x) ==
    /\ Table(x) \in DOMAIN Columns
    /\ DOMAIN x = Columns[Table(x)]
    /\ x.id[2] # "none"
    /\ Table(x) = "template" => x.version \in Nat \ {0}
    /\ Table(x) \in {"mapping", "submission"} => x.window[1] = "window"
    /\ Table(x) \in {"deck", "roadmap"} => x.active \in BOOLEAN
    /\ Table(x) \in {"admin", "candidate", "token"} => x.user[1] = "user"
    /\ Table(x) = "user" => x.type \in {"admin", "candidate"}
    /\ Table(x) = "admin" => x.org # "none" /\ x.role \in {"superadmin", "admin", "read_only"}

HasOneActive(S) ==
    \A table \in {"deck", "roadmap"} :
        From(table, S) # {} => Cardinality({x \in From(table, S) : x.active}) = 1

HasAllVersions(S) ==
    \A t \in From("template", S) :
        LET versions == {x \in From("template", S) : x.name = t.name /\ x.org = t.org}
        IN  {x.version : x \in versions} = 1 .. Cardinality(versions)

HasWholeAccounts(S) ==
    \A u \in From("user", S) : Cardinality({x \in From(u.type, S) : x.user = u.id}) = 1

HasCauses(S) ==
    \A e \in From("event", S) :
        e.weight > Rules[e.kind].weight =>
            LET c == Clusters[e.kind]
                alike == {x \in From("event", S) \ {e} : x.kind = e.kind}
            IN  /\ e.kind \in DOMAIN Clusters
                /\ c.threshold <= IF c.condition = "consecutive" THEN Cardinality(alike)
                                  ELSE Cardinality({x \in alike : x.time \in (e.time - c.window) .. e.time})

OverridesBase(S) ==
    \A o \in From("override", S) :
        o.base[1] \in {"template", "question"} /\ \E x \in S : x.id = o.base /\ x.org = SuperOrg

\* Earlier requests have kept what every request keeps.
ASSUME WorkloadsAssumption ==
    \A w \in Workloads :
        /\ IsFiniteSet(w.rows)
        /\ \A x \in w.rows : IsRow(x)
        /\ KeysAreUnique(w.rows) /\ ParentsExist(w.rows)
        /\ HasOneActive(w.rows) /\ HasAllVersions(w.rows) /\ HasWholeAccounts(w.rows)
        /\ HasCauses(w.rows) /\ OverridesBase(w.rows)
        /\ \A s \in From("submission", w.rows) : <<s.template, s.text>> \in Offered(w.rows)
        /\ \A x \in From("risk", w.rows) : x.id = RiskId

\* The rows a request creates are named after it, so nothing else is.
ASSUME NamesAssumption ==
    /\ "none" \notin Requests /\ "S1" \notin Requests /\ Candidate.candidate \notin Requests
    /\ \A w \in Workloads : \A x \in w.rows :
          x.id[2] \notin Requests /\ (Table(x) = "candidate" => x.user[2] \notin Requests)

-----------------------------------------------------------------------------
Init ==
    /\ \E w \in Workloads :
          /\ rows = w.rows
          /\ workload = w.operations
          /\ shown = Offered(w.rows)
    /\ ProctoringInit
    /\ tx = [r \in Requests |-> NoTx]
    /\ stmt = [r \in Requests |-> NoStmt]
    /\ job = [r \in Requests |-> NewJob]

Execute(r) ==
    /\ ExecUpdate(r) \/ ExecDelete(r) \/ ExecInsert(r) \/ BreakDeadlock(r)
    /\ UNCHANGED <<workload, job, shown>>

\* The statements every kind of operation is made of.
SharedStep(r) == Flush(r) \/ MarkStale(r) \/ ClearChildren(r) \/ InsertNext(r) \/ DeleteEntity(r)

\* The later statements of one operation.
OwnStep(r) == Retire(r) \/ RevokeAll(r) \/ Raise(r) \/ WriteProfile(r) \/ SaveText(r) \/ SaveAnalysis(r)

\* The later reads of an operation.
LaterRead(r) ==
    CheckInUse(r) \/ WalkUp(r) \/ CheckTopicCycle(r) \/ FindWindow(r) \/ ReadOn(r)

GoOn(r) ==
    \/ Execute(r) \/ SharedStep(r) \/ OwnStep(r) \/ LaterRead(r)
    \/ Commit(r) \/ CloseSession(r) \/ EndFailed(r)

Call(r) ==
    /\ At(r, "begin")
    /\ \/ AdminBegin(r) \/ CatalogBegin(r)
       \/ CandidateBegin(r) \/ ProfileBegin(r) \/ PageBegin(r)
       \/ AccountBegin(r)

allVars == <<vars, redis>>

AllEnded == (\A r \in Requests : Ended(r)) /\ UNCHANGED allVars

RequestStep(r) == (GoOn(r) /\ UNCHANGED redis) \/ ProctoringStep(r)

Next ==
    \/ \E r \in Requests :
          \/ (Call(r) \/ Abandon(r)) /\ UNCHANGED redis
          \/ ProctoringBegin(r)
          \/ RequestStep(r)
    \/ AllEnded

\* While some request that was called can go on, some request does: the thread
\* pool and the database do not stop.  Which one is left open, and no client
\* has to call.
Fairness == WF_allVars(\E r \in Requests : RequestStep(r))

Spec == Init /\ [][Next]_allVars /\ Fairness
-----------------------------------------------------------------------------
(***************************************************************************)
(* Properties.                                                             *)
(***************************************************************************)
\* The committed rows have the columns of their table, no unique index holds a
\* key twice and no foreign key dangles, whatever the requests have waited for.
TypeOK ==
    /\ \A x \in rows : IsRow(x)
    /\ KeysAreUnique(rows)
    /\ ParentsExist(rows)
    /\ \A r \in Requests : tx[r].adds # {} \/ tx[r].gone # {} => ~Ended(r)
    /\ \A r \in Requests : job[r].by = Nobody \/ WellFormed(job[r].by)

\* A candidate who has had an active deck or roadmap always has exactly one,
\* however many requests retire and generate them at once.
OneActive == HasOneActive(rows)

\* Versions of a template are numbered without gaps: two edits that see the
\* same latest version do not both become a version.
VersionsAreContiguous == HasAllVersions(rows)

\* What a practice submission froze was offered at some moment: a committed
\* content of its template, at a time the template was active.
SnapshotWasOffered ==
    \A s \in From("submission", rows) : <<s.template, s.text>> \in shown

\* A request writes only rows of the organization its administrator acts for,
\* and holds no entity of another tenant; base content is the superadmin's.
TenantsAreSeparate ==
    \A r \in Requests :
        LET by == job[r].by
        IN  IsAdmin(by) /\ ~IsSuperadmin(by) =>
               /\ \A x \in tx[r].adds : "org" \in DOMAIN x => x.org = by.org /\ by.role = "admin"
               /\ "org" \in DOMAIN job[r].entity => job[r].entity.org \in {by.org, SuperOrg}

\* A change of content commits with the log entry that names it; only the
\* overrides of a template that was inactive already go stale without one.
ChangesAreLogged ==
    [][\A r \in Requests :
          /\ job'[r] # job[r] /\ rows' # rows /\ IsAdmin(job[r].by)
          => \/ \E x \in From("audit", rows') : x.id = <<"audit", r>> /\ x.action = job[r].do
             \/ /\ job[r].do = "deactivate_template"
                /\ From("template", rows') = From("template", rows)]_allVars

\* The ancestors of a topic end, unless two requests moved topics at the same
\* time: one request, however slow its walk, closes no cycle.
RootedTopics(S) ==
    LET above[n \in Nat, ids \in SUBSET Ids(From("topic", S))] ==
            IF n = 0 THEN ids
            ELSE above[n - 1, {x.parent : x \in {y \in From("topic", S) : y.id \in ids}} \ {None}]
    IN  above[Cardinality(From("topic", S)), Ids(From("topic", S))] = {}

OneMoverClosesNoCycle ==
    \/ RootedTopics(rows)
    \/ \E p, q \in Requests : p # q /\ job[p].do = "update_topic" /\ job[q].do = "update_topic"

\* Each user has exactly one record of its type, which login and /me take for
\* granted: without it they answer an infrastructure error for ever.
AccountsAreWhole == HasWholeAccounts(rows)

\* A stored event that was escalated has the stored events before it that its
\* rule asks for, whichever requests stored them.
EscalationHasCause == HasCauses(rows)

\* An override covers base content that is there, and no other organization's.
OverridesCoverBase == OverridesBase(rows)

\* What the committed tables promise together, however many requests wrote them.
TablesAreConsistent ==
    /\ TypeOK /\ OneActive /\ VersionsAreContiguous
    /\ SnapshotWasOffered /\ AccountsAreWhole /\ EscalationHasCause /\ OverridesCoverBase

\* A refresh token that was retired stays retired, though a rotation that read
\* it before writes it after a logout or a change of the password.
RevokedStays ==
    [][\A k \in From("token", rows) :
          k.revoked => \E l \in From("token", rows') : l.id = k.id /\ l.revoked]_allVars

\* A profile loses no skill, unless two requests update it: the document that
\* is written back whole is the one that was read.
LoneUpdateKeepsSkills ==
    [][\/ \A c \in From("candidate", rows) :
              \E d \in From("candidate", rows') : d.id = c.id /\ c.skills \subseteq d.skills
       \/ \E p, q \in Requests :
              p # q /\ job[p].do = "update_profile" /\ job[q].do = "update_profile"]_allVars

\* A risk that is written counts every event that was stored when its request
\* began, those the request stores itself, and no event that is not stored.
RiskIsOfItsTime ==
    [][\A r \in Requests :
          /\ job'[r] # job[r] /\ rows' # rows /\ job[r].do \in {"ingest", "recompute"}
          => \A x \in From("risk", rows') :
                /\ job[r].entity.before \cup Ids(From("event", tx[r].adds)) \subseteq x.counted
                /\ x.counted \subseteq Ids(From("event", rows'))]_allVars

\* Every request that is called ends: a lock it waits for is released or the
\* cycle is broken.
Called(r)    == job[r].todo # <<"begin">>
RequestsEnd  == \A r \in Requests : Called(r) ~> Ended(r)
-----------------------------------------------------------------------------
(***************************************************************************)
(* What the code says of itself and does not keep.                         *)
(***************************************************************************)
\* RubricService: the weights of a rubric's dimensions sum to 1, so a rubric
\* never has the dimensions of two calls.
WeightsSumToOne ==
    \A b \in From("rubric", rows) :
        Cardinality({d \in From("dimension", rows) : d.rubric = b.id}) <= 1

\* archive_window refuses a window that submissions refer to, so no submission
\* is ever deleted with it.
SubmissionsSurvive ==
    [][\A s \in From("submission", rows) : s.id \in Ids(rows')]_allVars
=============================================================================
