--------------------------- MODULE MCContentSystem ---------------------------
(***************************************************************************)
(* Two requests at a time, on small databases: a template with two versions, *)
(* the first in use by a submission, the second inactive and never         *)
(* offered, with windows; a rubric; a deck and a roadmap; roles; a chain   *)
(* of topics; a base question and a tenant's problem; a candidate's and an *)
(* administrator's account with tokens; nothing at all.  Each comes with   *)
(* the operations that meet on it.                                         *)
(***************************************************************************)
EXTENDS ContentSystem

CONSTANTS r1, r2

MCRequests  == {r1, r2}
MCAdmins    == {AdminIdentity("base", "superadmin"), AdminIdentity("acme", "admin"),
                AdminIdentity("acme", "read_only")}
MCCandidate == CandidateIdentity("C1")
MCNames     == {"n", "m"}
MCTexts     == {"a", "b"}
MCRoles     == {"engineer"}
MCTopics    == {"go", "sql"}

T1 == <<"template", "T1">>
T2 == <<"template", "T2">>
R1 == <<"rubric", "R1">>
W1 == <<"window", "W1">>
W2 == <<"window", "W2">>
P1 == <<"topic", "P1">>
P2 == <<"topic", "P2">>
P3 == <<"topic", "P3">>

Templates0 ==
    { [id |-> T1, org |-> "base", name |-> "n", version |-> 1, text |-> "a", active |-> TRUE],
      [id |-> T2, org |-> "base", name |-> "n", version |-> 2, text |-> "b", active |-> FALSE],
      [id |-> <<"override", "O1">>, org |-> "acme", base |-> T2, text |-> "a", active |-> TRUE],
      [id |-> W1, org |-> "acme", text |-> "a"],
      [id |-> <<"mapping", "M1">>, window |-> W1, role |-> "engineer", template |-> T1],
      [id |-> <<"submission", "S1">>, window |-> W1, template |-> T1, text |-> "a"],
      [id |-> W2, org |-> "acme", text |-> "a"],
      [id |-> <<"mapping", "M2">>, window |-> W2, role |-> "engineer", template |-> T2] }

Rubrics0 ==
    { [id |-> R1, org |-> "base", name |-> "n", text |-> "a", active |-> TRUE],
      [id |-> <<"dimension", "D1">>, rubric |-> R1] }

Personal0 ==
    { [id |-> <<"deck", "K1">>, topic |-> "go", active |-> TRUE, done |-> {}, reached |-> 0],
      [id |-> <<"roadmap", "P1">>, topic |-> "go", active |-> TRUE, done |-> {}, reached |-> 1] }

Roles0 ==
    { [id |-> <<"role", "R1">>, org |-> "base", name |-> "n"],
      [id |-> <<"role", "R2">>, org |-> "acme", name |-> "n"] }

Topics0 ==
    { [id |-> P1, org |-> "base", name |-> "n", parent |-> None],
      [id |-> P2, org |-> "base", name |-> "m", parent |-> P1],
      [id |-> P3, org |-> "acme", name |-> "n", parent |-> P2] }

Questions0 ==
    { [id |-> <<"question", "Q1">>, org |-> "base", text |-> "a"],
      [id |-> <<"problem", "B1">>, org |-> "acme", text |-> "a"] }

Accounts0 ==
    { [id |-> <<"user", "U1">>, email |-> "x", name |-> "n", type |-> "candidate",
       active |-> TRUE, secret |-> "p", version |-> 1, seen |-> None],
      [id |-> <<"candidate", "C1">>, user |-> <<"user", "U1">>, skills |-> {"go"}, bio |-> "n"],
      [id |-> <<"token", "K1">>, user |-> <<"user", "U1">>, revoked |-> FALSE],
      [id |-> <<"token", "K2">>, user |-> <<"user", "U1">>, revoked |-> TRUE],
      [id |-> <<"user", "U2">>, email |-> "y", name |-> "n", type |-> "admin",
       active |-> TRUE, secret |-> "p", version |-> 1, seen |-> None],
      [id |-> <<"admin", "A2">>, user |-> <<"user", "U2">>, org |-> "acme", role |-> "admin"] }

MCFold    == [e \in {"x", "y", "z", "Z"} |-> IF e = "Z" THEN "z" ELSE e]
MCSkills  == {"go", "sql"}
MCOptions == {"email"}

Risk0 ==
    { [id |-> <<"event", "E1">>, kind |-> "face_absent", time |-> 1, severity |-> "medium", weight |-> 15],
      [id |-> <<"event", "E2">>, kind |-> "tab_switch", time |-> 1, severity |-> "low", weight |-> 5],
      [id |-> <<"risk", "S1">>, counted |-> {<<"event", "E1">>, <<"event", "E2">>},
       total |-> 20, flagged |-> FALSE] }

MCRules == [k \in {"face_absent", "tab_switch", "device_change"} |->
               CASE k = "face_absent" -> [severity |-> "medium", weight |-> 15]
                 [] k = "tab_switch"  -> [severity |-> "low", weight |-> 5]
                 [] OTHER             -> [severity |-> "low", weight |-> 10]]
MCClusters ==
    [k \in {"face_absent", "tab_switch"} |->
        IF k = "face_absent"
        THEN [condition |-> "consecutive", threshold |-> 2, window |-> 0, severity |-> "high", factor |-> 2]
        ELSE [condition |-> "count_in_window", threshold |-> 2, window |-> 1, severity |-> "medium", factor |-> 2]]

Event(kind, time) == [kind |-> kind, time |-> time]
MCBatches ==
    { <<Event("face_absent", 2)>>,
      <<Event("tab_switch", 2), Event("tab_switch", 2)>>,
      <<Event("device_change", 2), Event("face_absent", 2)>> }

TemplateEdits == TemplateRequests \ {"get_template", "create_template"}

On(S, operations) == [rows |-> S, operations |-> operations]

MCWorkloads ==
    { On(Templates0, TemplateRequests \cup OverrideRequests),
      On(Templates0, TemplateEdits \cup WindowRequests \cup PracticeRequests),
      On(Rubrics0, RubricRequests),
      On(Templates0, {"update_window", "archive_window"} \cup WindowPages),
      On(Templates0 \cup Questions0,
         {"deactivate_template", "create_question", "create_problem"} \cup PracticePages),
      On(Personal0, DeckRequests \cup RoadmapRequests),
      On(Personal0, {"generate_deck", "generate_roadmap"} \cup DeckPages \cup RoadmapPages),
      On(Questions0 \cup Personal0, {"generate_deck"}),
      On(Roles0, RoleRequests),
      On(Topics0, TopicRequests),
      On(Questions0, QuestionRequests \cup ProblemRequests),
      On(Accounts0, AccountRequests),
      On(Accounts0, ProfileRequests),
      On({}, SettingsRequests),
      On({}, InsightRequests \cup ResumeRequests),
      On(Risk0, ProctoringRequests) }
=============================================================================
