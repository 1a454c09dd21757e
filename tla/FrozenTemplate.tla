--------------------------- MODULE FrozenTemplate ---------------------------
(***************************************************************************)
(* The template snapshot of a submission: how a practice session freezes   *)
(* it (CandidateRepository._build_practice_snapshot), how it is validated  *)
(* and read (question_sequencer.py), and the progress the REST API         *)
(* computes from it (InterviewQueryRepository.get_section_progress).       *)
(*                                                                         *)
(* A template is a sequence of enabled sections [key, count]; a snapshot   *)
(* is [sections, total], a section [name, ids].                            *)
(***************************************************************************)
EXTENDS Integers, Sequences, SequencesExt, FiniteSetsExt

CONSTANTS
    Topical,        \* active questions of the configured topics
    Behavioral,     \* active behavioral questions that are no presets
    Technical,      \* active technical questions
    Presets         \* the self-introduction presets, behavioral questions too

-----------------------------------------------------------------------------
(* Freezing.                                                               *)

\* ORDER BY RANDOM() LIMIT n: any n rows of the pool, each once.
Sampled(pool, n) ==
    LET k == IF n <= Cardinality(pool) THEN n ELSE Cardinality(pool) IN
    {s \in [1..k -> pool] : IsInjective(s)}

Skipped == {"resume_analysis", "complexity_analysis", "coding_round",
            "self_introduction"}

\* _sample_self_introduction_question_ids: any behavioral question if no preset
\* has been imported.
IntroPool == IF Presets # {} THEN Presets ELSE Behavioral

PoolOf(key) ==
    CASE key = "self_introduction" -> IntroPool
      [] key = "topics_assessment" -> Topical
      [] key = "behavioral" -> Behavioral
      [] OTHER -> Technical

\* A count of 0 is replaced by a default in two of the sections.
CountOf(entry) ==
    CASE entry.count > 0 -> entry.count
      [] entry.key = "behavioral" -> 3
      [] entry.key = "self_introduction" -> 1
      [] OTHER -> 0

\* The self-introduction comes first wherever the template has it.
Ordered(template) ==
    SelectSeq(template, LAMBDA e : e.key = "self_introduction")
        \o SelectSeq(template, LAMBDA e : e.key \notin Skipped)

TotalOf(sections) ==
    FoldSeq(LAMBDA s, n : n + Len(s.ids), 0, sections)

SectionsOf(entries) ==
    {q \in [DOMAIN entries -> UNION {Sampled(PoolOf(entries[i].key),
                                             CountOf(entries[i])) :
                                     i \in DOMAIN entries}] :
        \A i \in DOMAIN entries :
            q[i] \in Sampled(PoolOf(entries[i].key), CountOf(entries[i]))}

\* Every snapshot _build_practice_snapshot may return for a template.  Each
\* section is sampled on its own and may repeat a question of another; one that
\* got no question is left out.
BuildPracticeSnapshot(template) ==
    LET entries == Ordered(template)
        named(q) == [i \in DOMAIN entries |->
                        [name |-> entries[i].key, ids |-> q[i]]]
        kept(q) == SelectSeq(named(q), LAMBDA s : s.ids # <<>>)
    IN {[sections |-> kept(q), total |-> TotalOf(kept(q))] :
            q \in SectionsOf(entries)}

-----------------------------------------------------------------------------
(* Validating and sequencing.                                              *)

\* TemplateSnapshot: the total is that of the sections, and there is a question.
ValidateTemplateSnapshot(snap) ==
    /\ snap.sections # <<>>
    /\ snap.total \in Nat \ {0}
    /\ snap.total = TotalOf(snap.sections)

Before(snap, i) == TotalOf(SubSeq(snap.sections, 1, i - 1))

\* get_section_for_sequence: the section that holds a 0-based position.
SectionAt(snap, current) ==
    Min({i \in DOMAIN snap.sections :
            Before(snap, i) + Len(snap.sections[i].ids) > current})

\* Mutation: the position inside a section ignores the sections before it.
ResolveFromStartOfSection(snap, current) ==
    IF current >= snap.total
    THEN {}
    ELSE LET section == snap.sections[SectionAt(snap, current)] IN
         {[question |-> section.ids[(current % Len(section.ids)) + 1],
           sequence |-> current + 1,
           section |-> section.name,
           final |-> current = snap.total - 1]}

\* resolve_next_question: the question after "current" answered ones, if any.
ResolveNextQuestion(snap, current) ==
    IF current >= snap.total
    THEN {}
    ELSE LET i == SectionAt(snap, current)
             section == snap.sections[i] IN
         {[question |-> section.ids[current - Before(snap, i) + 1],
           sequence |-> current + 1,
           section |-> section.name,
           final |-> current = snap.total - 1]}

-----------------------------------------------------------------------------
(* get_section_progress.                                                   *)

\* Mutation: the answers to coding problems are not counted.
AnsweredQuestionsOnly(exchanges) ==
    {exchanges[n].question : n \in DOMAIN exchanges} \ {0}

\* The questions and the coding problems of the exchanges, as one set of ids.
Answered(exchanges) ==
    ({exchanges[n].question : n \in DOMAIN exchanges}
        \cup {exchanges[n].problem : n \in DOMAIN exchanges}) \ {0}

SectionProgress(section, exchanges) ==
    [name |-> section.name,
     total |-> Len(section.ids),
     answered |-> Cardinality({j \in DOMAIN section.ids :
                                  section.ids[j] \in Answered(exchanges)})]

GetSectionProgress(snap, exchanges) ==
    [i \in DOMAIN snap.sections |->
        SectionProgress(snap.sections[i], exchanges)]

\* The overall figure adds the sections up.
TotalAnswered(snap, exchanges) ==
    FoldSeq(LAMBDA p, n : n + p.answered, 0,
            GetSectionProgress(snap, exchanges))
=============================================================================
