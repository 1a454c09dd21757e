--------------------------- MODULE CandidatePractice ---------------------------
(***************************************************************************)
(* What a candidate's requests write: the submission of a practice         *)
(* session, the active flashcard deck and the active career roadmap, and   *)
(* the progress on both.  The repository is CandidateQueryRepository; its  *)
(* updates hold the ORM row they have read, so they write what differs     *)
(* from that one read.                                                     *)
(***************************************************************************)
EXTENDS ContentRequest

CONSTANTS Candidate, \* the identity of the candidate
          Topics,    \* what a deck or a roadmap is generated for
          MaxDone,   \* cards of a deck, levels of a roadmap
          GlobalTexts   \* contents of windows whose scope is global

ASSUME CandidateAssumption == ~IsAdmin(Candidate) /\ WellFormed(Candidate)

PracticeRequests == {"start_practice"}
DeckRequests     == {"generate_deck", "update_deck_progress"}
RoadmapRequests  == {"generate_roadmap", "update_roadmap_progress"}

(***************************************************************************)
(* start_practice.                                                         *)
(***************************************************************************)
\* Mutant: the template is read without its is_active filter.
StartPracticeAny(r) ==
    \E t \in From("template", View(r)) :
        Begin(r, Candidate, "start_practice", t, <<>>, <<"find_window">>)

StartPractice(r) ==
    \E t \in From("template", View(r)) :
        t.active /\ Begin(r, Candidate, "start_practice", t, <<>>, <<"find_window">>)

\* The practice window is read after the template (no window: ValueError); the
\* snapshot is built from the template as it was read.
FindWindow(r) ==
    /\ At(r, "find_window")
    /\ LET windows == From("window", View(r))
       IN  \/ windows = {} /\ Fail(r) /\ UNCHANGED job
          \/ \E w \in windows :
                /\ job' = [job EXCEPT
                      ![r].create = <<[id |-> <<"submission", r>>, window |-> w.id,
                                       template |-> job[r].entity.id, text |-> job[r].entity.text]>>,
                      ![r].todo = <<"insert", "commit">>]
                /\ UNCHANGED dbVars
    /\ UNCHANGED <<workload, shown>>

(***************************************************************************)
(* Decks and roadmaps: the active one is retired by a bulk UPDATE and the  *)
(* generated one is inserted.                                              *)
(***************************************************************************)
NewPersonal(table, r, topic) ==
    [id |-> <<table, r>>, topic |-> topic, active |-> TRUE, done |-> {},
     reached |-> IF table = "roadmap" THEN 1 ELSE 0]

ActiveIn(table, r) == {x \in From(table, View(r)) : x.active}

\* A question that is generated belongs to the organization of a window the
\* candidate has a submission for, or to the base.
GenerationOrgs(r) ==
    LET own == {w \in From("window", View(r)) :
                    \E s \in From("submission", View(r)) : s.window = w.id}
    IN  IF own = {} THEN {SuperOrg} ELSE {w.org : w \in own}

NewQuestionFor(r, topic, org) == [id |-> <<"question", r>>, org |-> org, text |-> topic]

\* The active deck is answered again when it is of the kind asked for and the
\* client allows it; otherwise a deck is made of the questions there are, or of
\* questions generated and inserted for it.
GenerateDeck(r) ==
    \E topic \in Topics :
        \/ /\ \E x \in ActiveIn("deck", r) : x.topic = topic
           /\ Begin(r, Candidate, "generate_deck", <<>>, <<>>, <<"commit">>)
        \/ /\ From("question", View(r)) # {}
           /\ Begin(r, Candidate, "generate_deck", <<>>, <<NewPersonal("deck", r, topic)>>,
                    <<"retire", "insert", "commit">>)
        \/ /\ From("question", View(r)) = {}
           /\ \E org \in GenerationOrgs(r) :
                 Begin(r, Candidate, "generate_deck", <<>>,
                       <<NewQuestionFor(r, topic, org), NewPersonal("deck", r, topic)>>,
                       <<"insert", "retire", "insert", "commit">>)

GenerateRoadmap(r) ==
    \E topic \in Topics :
        Begin(r, Candidate, "generate_roadmap", <<>>, <<NewPersonal("roadmap", r, topic)>>,
              <<"retire", "insert", "commit">>)

Retire(r) ==
    /\ At(r, "retire")
    /\ Issue(r, Update(Ids(ActiveIn(Table(Head(job[r].create)), r)), [active |-> FALSE]))
    /\ Pass(r)
    /\ UNCHANGED <<rows, tx, workload, shown>>

\* Both columns are assigned; the flush writes those that differ from the row.
Progress(r, op, x, done, reached) ==
    LET new == [x EXCEPT !.done = done, !.reached = reached]
    IN  /\ Start(r, Candidate, op, x, <<>>, <<"commit">>)
        /\ Issue(r, IF new = x THEN NoStmt ELSE UpdateRow(x.id, Changed(new, x)))
        /\ UNCHANGED <<rows, tx>>

UpdateDeckProgress(r) ==
    \E x \in From("deck", View(r)), mastered \in SUBSET (1 .. MaxDone) :
        Progress(r, "update_deck_progress", x, mastered, (Cardinality(mastered) * 100) \div MaxDone)

\* current_level is the client's, or the one after the highest completed level.
UpdateRoadmapProgress(r) ==
    \E x \in From("roadmap", View(r)), levels \in SUBSET (1 .. MaxDone), level \in 1 .. MaxDone :
        Progress(r, "update_roadmap_progress", x, levels, level)

CandidateBegin(r) ==
    \/ StartPractice(r) \/ GenerateDeck(r) \/ GenerateRoadmap(r)
    \/ UpdateDeckProgress(r) \/ UpdateRoadmapProgress(r)

-----------------------------------------------------------------------------
(***************************************************************************)
(* What a candidate's pages read.  A page that needs several tables reads  *)
(* them in statements of their own, each with a snapshot of its own, on a  *)
(* session that is closed without a commit.                                *)
(***************************************************************************)
WindowPages   == {"list_windows", "list_submissions", "get_submission"}
PracticePages == {"list_templates", "list_questions"}
DeckPages     == {"get_active_deck", "get_deck", "list_decks"}
RoadmapPages  == {"get_active_roadmap", "list_roadmaps"}

Submissions(r) == From("submission", View(r))

\* One page of one statement.
Page(r, op, S) == \E x \in S : Begin(r, Candidate, op, x, <<>>, <<"close">>)

(***************************************************************************)
(* Windows: first the ids of those that have a mapping and are global or   *)
(* have a submission of the candidate, then their rows, then the mappings. *)
(***************************************************************************)
MappingsOf(r, ids) == {m \in From("mapping", View(r)) : m.window \in ids}

VisibleWindows(r) ==
    {w \in From("window", View(r)) :
        /\ MappingsOf(r, {w.id}) # {}
        /\ w.text \in GlobalTexts \/ \E s \in Submissions(r) : s.window = w.id}

ListWindows(r) ==
    Begin(r, Candidate, "list_windows", [windows |-> Ids(VisibleWindows(r)), mappings |-> {}], <<>>,
          IF VisibleWindows(r) = {} THEN <<"close">>
                                    ELSE <<"read_windows", "read_mappings", "close">>)

\* A window deleted since its id was read is left out.
ReadWindows(r) ==
    /\ At(r, "read_windows")
    /\ job' = [job EXCEPT ![r].todo = Tail(@),
                          ![r].entity.windows = @ \cap Ids(From("window", View(r)))]
    /\ UNCHANGED <<dbVars, workload, shown>>

ReadMappings(r) ==
    /\ At(r, "read_mappings")
    /\ job' = [job EXCEPT ![r].todo = Tail(@),
                          ![r].entity.mappings = Ids(MappingsOf(r, job[r].entity.windows))]
    /\ UNCHANGED <<dbVars, workload, shown>>

(***************************************************************************)
(* Submissions: the list is one joined statement; the detail reads the     *)
(* submission, then its window, then its template, each by its id.         *)
(***************************************************************************)
ListSubmissions(r) == Page(r, "list_submissions", Submissions(r))

GetSubmission(r) ==
    \E s \in Submissions(r) :
        Begin(r, Candidate, "get_submission", [submission |-> s, found |-> {}], <<>>,
              <<"read_its_window", "read_its_template", "close">>)

ReadReferred(r) ==
    /\ At(r, "read_its_window") \/ At(r, "read_its_template")
    /\ LET s  == job[r].entity.submission
           id == IF At(r, "read_its_window") THEN s.window ELSE s.template
       IN  job' = [job EXCEPT ![r].todo = Tail(@),
                              ![r].entity.found = @ \cup {x \in {id} : id \in Ids(View(r))}]
    /\ UNCHANGED <<dbVars, workload, shown>>

(***************************************************************************)
(* Practice: templates, questions with problems, decks and roadmaps.       *)
(***************************************************************************)
ListTemplates(r) == Page(r, "list_templates", {t \in From("template", View(r)) : t.active})

ListQuestions(r) ==
    Begin(r, Candidate, "list_questions", [listed |-> Ids(From("question", View(r)))], <<>>,
          <<"read_problems", "close">>)

ReadProblems(r) ==
    /\ At(r, "read_problems")
    /\ job' = [job EXCEPT ![r].todo = Tail(@),
                          ![r].entity.listed = @ \cup Ids(From("problem", View(r)))]
    /\ UNCHANGED <<dbVars, workload, shown>>

GetActiveDeck(r)    == Page(r, "get_active_deck", ActiveIn("deck", r))
GetDeck(r)          == Page(r, "get_deck", From("deck", View(r)))
ListDecks(r)        == Page(r, "list_decks", From("deck", View(r)))
GetActiveRoadmap(r) == Page(r, "get_active_roadmap", ActiveIn("roadmap", r))
ListRoadmaps(r)     == Page(r, "list_roadmaps", From("roadmap", View(r)))

ReadOn(r) == ReadWindows(r) \/ ReadMappings(r) \/ ReadReferred(r) \/ ReadProblems(r)

PageBegin(r) ==
    \/ ListWindows(r) \/ ListSubmissions(r) \/ GetSubmission(r)
    \/ ListTemplates(r) \/ ListQuestions(r)
    \/ GetActiveDeck(r) \/ GetDeck(r) \/ ListDecks(r)
    \/ GetActiveRoadmap(r) \/ ListRoadmaps(r)
=============================================================================
