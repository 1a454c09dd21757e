----------------------------- MODULE AdminContent -----------------------------
(***************************************************************************)
(* The administration's services: templates and their tenant overrides,    *)
(* rubrics with their dimensions, submission windows with their mappings.  *)
(* Each action is the first read of an operation, with the steps           *)
(* (ContentRequest) it goes on with; CheckInUse is update_template's       *)
(* second read.                                                            *)
(***************************************************************************)
EXTENDS ContentRequest

CONSTANTS Admins,  \* identities of administrators
          Names,   \* names of templates, rubrics, roles and topics
          Texts,   \* contents a template, an override, a rubric or a window can have
          Roles    \* roles a window can be open for

ASSUME AdminsAssumption == \A by \in Admins : IsAdmin(by) /\ WellFormed(by)

\* The operations the routes hand to the services.
TemplateRequests == {"get_template", "create_template", "update_template",
                     "activate_template", "deactivate_template"}
OverrideRequests == {"create_override", "get_override", "update_override", "delete_override"}
RubricRequests   == {"get_rubric", "create_rubric", "update_rubric", "deactivate_rubric"}
WindowRequests   == {"get_window", "create_window", "update_window", "archive_window"}

\* Rows a request creates are named after it.
NewTemplate(r, by, name, text) ==
    [id |-> <<"template", r>>, org |-> by.org, name |-> name, version |-> 1,
     text |-> text, active |-> TRUE]
NewVersion(r, t, version) == [t EXCEPT !.id = <<"template", r>>, !.version = version]
NewOverride(r, by, x, text) ==
    [id |-> <<"override", r>>, org |-> by.org, base |-> x.id, text |-> text, active |-> TRUE]
NewRubric(r, by, name, text) ==
    [id |-> <<"rubric", r>>, org |-> by.org, name |-> name, text |-> text, active |-> TRUE]
\* One row stands for the list of dimensions of one call, whose weights
\* _validate_dimension_weights has found to sum to 1.
NewDimensions(r, rubric)   == [id |-> <<"dimension", r>>, rubric |-> rubric]
NewWindow(r, by, text)     == [id |-> <<"window", r>>, org |-> by.org, text |-> text]
NewMapping(r, window, role, t) ==
    [id |-> <<"mapping", r>>, window |-> window, role |-> role, template |-> t.id]

Templates(r)       == From("template", View(r))
RubricsIn(r)       == From("rubric", View(r))
Windows(r)         == From("window", View(r))
\* _validate_mappings: a mapping names an active template.
Mappable(r)        == {t \in Templates(r) : t.active}

\* exists_with_name, asked before a create; the unique index decides.
NameTaken(r, table, org, name) == \E x \in From(table, View(r)) : x.org = org /\ x.name = name

\* An operation of an administrator who may do it.
Serve(r, op, org, entity, create, todo) ==
    \E by \in Admins : MayMutate(by, org) /\ Begin(r, by, op, entity, create, todo)

\* get_* of a row, and list_*, which finds no more.
Read(r, op, S) ==
    \E by \in Admins, x \in S : Visible(by, x) /\ Begin(r, by, op, x, <<>>, <<"commit">>)

(***************************************************************************)
(* Templates.                                                              *)
(***************************************************************************)
ReadTemplate(r) == Read(r, "get_template", Templates(r))

CreateTemplate(r) ==
    \E by \in Admins, name \in Names, text \in Texts :
        LET new == NewTemplate(r, by, name, text)
        IN  /\ MayMutate(by, by.org)
            /\ ~NameTaken(r, "template", by.org, name)
            /\ Begin(r, by, "create_template", new, <<new>>, <<"insert", "log_and_commit">>)

\* Requests that keep the template's name.
UpdateTemplate(r) ==
    \E t \in Templates(r), text \in Texts :
        Serve(r, "update_template", t.org, [t EXCEPT !.text = text], <<>>, <<"check_in_use">>)

LatestVersion(r, t) ==
    LET versions == {x.version : x \in {y \in Templates(r) : y.name = t.name /\ y.org = t.org}}
    IN  CHOOSE v \in versions : \A w \in versions : w <= v

\* Mutant: the increment of create_new_version is counted again.
CheckInUseTwice(r) ==
    /\ At(r, "check_in_use")
    /\ LET t     == job[r].entity
           inUse == \E s \in From("submission", View(r)) : s.template = t.id
       IN  job' = [job EXCEPT
              ![r].create = IF inUse THEN <<NewVersion(r, t, LatestVersion(r, t) + 2)>> ELSE <<>>,
              ![r].todo = <<IF inUse THEN "insert" ELSE "flush", "log_and_commit">>]
    /\ UNCHANGED <<dbVars, workload, shown>>

\* A template that a submission refers to gets a new version, the others are
\* edited in place.
CheckInUse(r) ==
    /\ At(r, "check_in_use")
    /\ LET t     == job[r].entity
           inUse == \E s \in From("submission", View(r)) : s.template = t.id
       IN  job' = [job EXCEPT
              ![r].create = IF inUse THEN <<NewVersion(r, t, LatestVersion(r, t) + 1)>> ELSE <<>>,
              ![r].todo = <<IF inUse THEN "insert" ELSE "flush", "log_and_commit">>]
    /\ UNCHANGED <<dbVars, workload, shown>>

\* activate_template.
ActivateTemplate(r) ==
    \E t \in Templates(r) :
        Serve(r, "activate_template", t.org, [t EXCEPT !.active = TRUE], <<>>,
              IF t.active THEN <<"commit">> ELSE <<"flush", "log_and_commit">>)

\* deactivate_template marks the overrides stale, also of an inactive template,
\* and then without a log entry.
DeactivateTemplate(r) ==
    \E t \in Templates(r) :
        Serve(r, "deactivate_template", t.org, [t EXCEPT !.active = FALSE], <<>>,
              IF t.active THEN <<"flush", "mark_stale", "log_and_commit">>
                          ELSE <<"mark_stale", "commit">>)

(***************************************************************************)
(* Overrides of base content, one per organization.                        *)
(***************************************************************************)
OverrideBy(r, by, x) == {o \in Overrides(r, x.id) : o.org = by.org}

\* get_effective_template: an organization's active override covers the base.
Effective(r, by, x) ==
    LET own == {o \in OverrideBy(r, by, x) : o.active}
    IN  IF x.org # SuperOrg \/ own = {} THEN x
        ELSE [x EXCEPT !.text = (CHOOSE o \in own : TRUE).text]

\* get_template_override: not found when the template is read as it is.
ReadOverride(r) ==
    \E by \in Admins, t \in Templates(r) :
        /\ \E o \in OverrideBy(r, by, t) : t.org = SuperOrg /\ o.active
        /\ Begin(r, by, "get_override", Effective(r, by, t), <<>>, <<"commit">>)

CreateOverride(r) ==
    \E by \in Admins, t \in Templates(r), text \in Texts :
        LET new == NewOverride(r, by, t, text)
        IN  /\ MayOverride(by, t)
            /\ OverrideBy(r, by, t) = {}
            /\ Begin(r, by, "create_override", new, <<new>>, <<"insert", "log_and_commit">>)

UpdateOverride(r) ==
    \E by \in Admins, o \in From("override", View(r)), text \in Texts :
        /\ o.org = by.org /\ MayChange(by, by.org)
        /\ Begin(r, by, "update_override", [o EXCEPT !.text = text], <<>>,
                 <<"flush", "log_and_commit">>)

DeleteOverride(r) ==
    \E by \in Admins, o \in From("override", View(r)) :
        /\ o.org = by.org /\ MayChange(by, by.org)
        /\ Begin(r, by, "delete_override", o, <<>>, <<"delete", "log_and_commit">>)

(***************************************************************************)
(* Rubrics.                                                                *)
(***************************************************************************)
ReadRubric(r) == Read(r, "get_rubric", RubricsIn(r))

\* Without dimensions, or with a list of them.
CreateRubric(r) ==
    \E by \in Admins, name \in Names, text \in Texts :
        LET new == NewRubric(r, by, name, text)
        IN  /\ MayMutate(by, by.org)
            /\ ~NameTaken(r, "rubric", by.org, name)
            /\ \/ Begin(r, by, "create_rubric", new, <<new>>, <<"insert", "log_and_commit">>)
               \/ Begin(r, by, "create_rubric", new, <<new, NewDimensions(r, new.id)>>,
                        <<"insert", "clear", "insert", "log_and_commit">>)

\* dimensions: not given, an empty list (which passes the validation), or a list.
UpdateRubric(r) ==
    \E b \in RubricsIn(r), text \in Texts :
        LET serve(create, todo) ==
                Serve(r, "update_rubric", b.org, [b EXCEPT !.text = text], create, todo)
        IN  \/ serve(<<>>, <<"flush", "log_and_commit">>)
            \/ serve(<<>>, <<"flush", "clear", "log_and_commit">>)
            \/ serve(<<NewDimensions(r, b.id)>>, <<"flush", "clear", "insert", "log_and_commit">>)

DeactivateRubric(r) ==
    \E b \in RubricsIn(r) :
        Serve(r, "deactivate_rubric", b.org, [b EXCEPT !.active = FALSE], <<>>,
              IF b.active THEN <<"flush", "mark_stale", "log_and_commit">> ELSE <<"commit">>)

(***************************************************************************)
(* Submission windows: never base content.                                 *)
(***************************************************************************)
ReadWindow(r) ==
    \E by \in Admins, w \in Windows(r) :
        /\ IsSuperadmin(by) \/ w.org = by.org
        /\ Begin(r, by, "get_window", w, <<>>, <<"commit">>)

CreateWindow(r) ==
    \E by \in Admins, t \in Mappable(r), role \in Roles, text \in Texts :
        LET w == NewWindow(r, by, text)
        IN  /\ MayChange(by, by.org)
            /\ Begin(r, by, "create_window", w, <<w, NewMapping(r, w.id, role, t)>>,
                     <<"insert", "clear", "insert", "log_and_commit">>)

UpdateWindow(r) ==
    \E by \in Admins, w \in Windows(r), text \in Texts :
        LET new == [w EXCEPT !.text = text]
        IN  /\ MayChange(by, w.org)
            /\ \/ Begin(r, by, "update_window", new, <<>>, <<"flush", "log_and_commit">>)
               \/ \E t \in Mappable(r), role \in Roles :
                     Begin(r, by, "update_window", new, <<NewMapping(r, w.id, role, t)>>,
                           <<"flush", "clear", "insert", "log_and_commit">>)

\* archive_window: refused while a submission refers to the window.
ArchiveWindow(r) ==
    \E by \in Admins, w \in Windows(r) :
        /\ MayChange(by, w.org)
        /\ \A s \in From("submission", View(r)) : s.window # w.id
        /\ Begin(r, by, "archive_window", w, <<>>, <<"delete", "log_and_commit">>)

AdminBegin(r) ==
    \/ ReadTemplate(r) \/ CreateTemplate(r) \/ UpdateTemplate(r)
    \/ ActivateTemplate(r) \/ DeactivateTemplate(r)
    \/ ReadOverride(r) \/ CreateOverride(r) \/ UpdateOverride(r) \/ DeleteOverride(r)
    \/ ReadRubric(r) \/ CreateRubric(r) \/ UpdateRubric(r) \/ DeactivateRubric(r)
    \/ ReadWindow(r) \/ CreateWindow(r) \/ UpdateWindow(r) \/ ArchiveWindow(r)

-----------------------------------------------------------------------------
(***************************************************************************)
(* The rest of the administration's services: roles, topics and coding     *)
(* topics, questions with their overrides, coding problems.                *)
(***************************************************************************)
CONSTANTS MaxAncestorDepth   \* MAX_ANCESTOR_DEPTH of the walk over a topic's ancestors

RoleRequests     == {"get_role", "create_role", "update_role"}
TopicRequests    == {"get_topic", "create_topic", "update_topic",
                     "get_coding_topic", "create_coding_topic"}
QuestionRequests == {"get_question", "create_question", "update_question",
                     "create_question_override"}
ProblemRequests  == {"get_problem", "create_problem", "update_problem"}

NewNamedRole(r, by, name) == [id |-> <<"role", r>>, org |-> by.org, name |-> name]
NewTopic(r, by, name, parent) ==
    [id |-> <<"topic", r>>, org |-> by.org, name |-> name, parent |-> parent]
NewCodingTopic(r, by, name, parent) ==
    [id |-> <<"coding_topic", r>>, org |-> by.org, name |-> name, parent |-> parent]
NewQuestion(r, by, text) == [id |-> <<"question", r>>, org |-> by.org, text |-> text]
NewProblem(r, by, text)  == [id |-> <<"problem", r>>, org |-> by.org, text |-> text]

RolesIn(r)      == From("role", View(r))
TopicsIn(r)     == From("topic", View(r))
CodingTopics(r) == From("coding_topic", View(r))
Questions(r)    == From("question", View(r))
Problems(r)     == From("problem", View(r))

\* An INSERT of one row by an administrator who may make it.
Create(r, op, by, new) ==
    /\ MayMutate(by, by.org)
    /\ Begin(r, by, op, new, <<new>>, <<"insert", "log_and_commit">>)

(***************************************************************************)
(* Roles.                                                                  *)
(***************************************************************************)
ReadRole(r) == Read(r, "get_role", RolesIn(r))

CreateRole(r) ==
    \E by \in Admins, name \in Names :
        /\ ~NameTaken(r, "role", by.org, name)
        /\ Create(r, "create_role", by, NewNamedRole(r, by, name))

UpdateRole(r) ==
    \E x \in RolesIn(r), name \in Names :
        /\ name # x.name => ~NameTaken(r, "role", x.org, name)
        /\ Serve(r, "update_role", x.org, [x EXCEPT !.name = name], <<>>,
                 <<"flush", "log_and_commit">>)

(***************************************************************************)
(* Topics.  A new topic has no children, so only update_topic can close a  *)
(* cycle; it walks up from the new parent, one SELECT per ancestor.        *)
(***************************************************************************)
ReadTopic(r) == Read(r, "get_topic", TopicsIn(r))

CreateTopic(r) ==
    \E by \in Admins, name \in Names, parent \in {None} \cup Ids(TopicsIn(r)) :
        /\ ~NameTaken(r, "topic", by.org, name)
        /\ Create(r, "create_topic", by, NewTopic(r, by, name, parent))

\* A new name is not looked up: the unique index refuses it.
UpdateTopic(r) ==
    \E x \in TopicsIn(r), name \in Names, parent \in {None} \cup Ids(TopicsIn(r)) :
        /\ x.id # parent
        /\ Serve(r, "update_topic", x.org, [x EXCEPT !.name = name, !.parent = parent], <<>>,
                 IF parent \in {None, x.parent} THEN <<"flush", "log_and_commit">>
                 ELSE <<"walk", "flush", "log_and_commit">>)

\* get_topic_ancestors: the parents of walk's ids, the next one read now.
Ancestors(r) == {job[r].walk[n] : n \in 1 .. Len(job[r].walk)}
LastPassed(r) == IF job[r].walk = <<>> THEN job[r].entity.parent ELSE job[r].walk[Len(job[r].walk)]

WalkUp(r) ==
    /\ At(r, "walk")
    /\ Len(job[r].walk) < MaxAncestorDepth
    /\ \E x \in TopicsIn(r) :
          /\ x.id = LastPassed(r) /\ x.parent # None
          /\ job' = [job EXCEPT ![r].walk = Append(@, x.parent)]
    /\ UNCHANGED <<dbVars, workload, shown>>

WalkIsOver(r) ==
    \/ Len(job[r].walk) = MaxAncestorDepth
    \/ \A x \in TopicsIn(r) : x.id = LastPassed(r) => x.parent = None

\* Mutant: the last ancestor is not compared.
CheckTopicCycleShort(r) ==
    /\ At(r, "walk") /\ WalkIsOver(r)
    /\ IF job[r].entity.id \in {job[r].walk[n] : n \in 1 .. Len(job[r].walk) - 1}
       THEN Rollback(r)
       ELSE Pass(r) /\ UNCHANGED <<dbVars, workload, shown>>

\* _check_topic_cycle.
CheckTopicCycle(r) ==
    /\ At(r, "walk") /\ WalkIsOver(r)
    /\ IF job[r].entity.id \in Ancestors(r)
       THEN Rollback(r)
       ELSE Pass(r) /\ UNCHANGED <<dbVars, workload, shown>>

ReadCodingTopic(r) == Read(r, "get_coding_topic", CodingTopics(r))

\* The walk over the ancestors finds nothing to refuse: the topic has no id yet.
CreateCodingTopic(r) ==
    \E by \in Admins, name \in Names, parent \in {None} \cup Ids(CodingTopics(r)) :
        Create(r, "create_coding_topic", by, NewCodingTopic(r, by, name, parent))

(***************************************************************************)
(* Questions and coding problems.                                          *)
(***************************************************************************)
ReadQuestion(r) == Read(r, "get_question", Questions(r))

CreateQuestion(r) ==
    \E by \in Admins, text \in Texts :
        Create(r, "create_question", by, NewQuestion(r, by, text))

\* Also delete_question, which changes is_active.
UpdateQuestion(r) ==
    \E x \in Questions(r), text \in Texts :
        Serve(r, "update_question", x.org, [x EXCEPT !.text = text], <<>>,
              <<"flush", "log_and_commit">>)

CreateQuestionOverride(r) ==
    \E by \in Admins, x \in Questions(r), text \in Texts :
        LET new == NewOverride(r, by, x, text)
        IN  /\ MayOverride(by, x)
            /\ OverrideBy(r, by, x) = {}
            /\ Begin(r, by, "create_question_override", new, <<new>>,
                     <<"insert", "log_and_commit">>)

ReadProblem(r) == Read(r, "get_problem", Problems(r))

CreateProblem(r) ==
    \E by \in Admins, text \in Texts :
        Create(r, "create_problem", by, NewProblem(r, by, text))

UpdateProblem(r) ==
    \E x \in Problems(r), text \in Texts :
        Serve(r, "update_problem", x.org, [x EXCEPT !.text = text], <<>>,
              <<"flush", "log_and_commit">>)

CatalogBegin(r) ==
    \/ ReadRole(r) \/ CreateRole(r) \/ UpdateRole(r)
    \/ ReadTopic(r) \/ CreateTopic(r) \/ UpdateTopic(r)
    \/ ReadCodingTopic(r) \/ CreateCodingTopic(r)
    \/ ReadQuestion(r) \/ CreateQuestion(r) \/ UpdateQuestion(r) \/ CreateQuestionOverride(r)
    \/ ReadProblem(r) \/ CreateProblem(r) \/ UpdateProblem(r)
=============================================================================
