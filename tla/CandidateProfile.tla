---------------------------- MODULE CandidateProfile ----------------------------
(***************************************************************************)
(* What a candidate keeps: the profile (users.name and the JSON document   *)
(* profile_metadata), the settings, the market insights and the resumes.   *)
(* A JSON document is read, changed in memory and written back whole.      *)
(***************************************************************************)
EXTENDS CandidatePractice, Accounts

CONSTANTS Options   \* keys of a preference document

ProfileRequests  == {"get_profile", "update_profile"}
SettingsRequests == {"get_settings", "update_settings"}
InsightRequests  == {"generate_insights"}
ResumeRequests   == {"list_resumes", "upload_resume"}

\* A field a request leaves out keeps its value; "m" stands for a new one.
NoValue == "none"
Field   == {NoValue, "m"}
Preferences == UNION {[keys -> BOOLEAN] : keys \in SUBSET Options}

SettingsId    == <<"settings", Candidate.candidate>>
OwnProfile(r) == From("candidate", View(r))
OwnSettings(r) == {x \in View(r) : x.id = SettingsId}

(***************************************************************************)
(* The profile.  The name is written by a bulk UPDATE of its own; then the *)
(* document as it was read, with the request's fields put in and its       *)
(* skills merged, is written back: flag_modified makes it an UPDATE even   *)
(* when nothing changed.                                                   *)
(***************************************************************************)
GetProfile(r) ==
    \E c \in OwnProfile(r) : Begin(r, Candidate, "get_profile", c, <<>>, <<"close">>)

\* Mutant: the skills are assigned like the other fields.
AssignedSkills(old, new) == IF new = {} THEN old ELSE new

MergedSkills(old, new) == old \cup new

NewDocument(c, skills, bio) ==
    [c EXCEPT !.skills = MergedSkills(@, skills), !.bio = IF bio = NoValue THEN @ ELSE bio]

UpdateProfile(r) ==
    \E c \in OwnProfile(r), name \in Field, bio \in Field, skills \in SUBSET Skills :
        /\ Start(r, Candidate, "update_profile", NewDocument(c, skills, bio), <<>>,
                 <<"write_profile", "commit">>)
        /\ Issue(r, IF name = NoValue THEN NoStmt ELSE Update({c.user}, [name |-> name]))
        /\ UNCHANGED <<rows, tx>>

WriteProfile(r) ==
    /\ At(r, "write_profile")
    /\ LET c == job[r].entity
       IN  Issue(r, UpdateRow(c.id, [skills |-> c.skills, bio |-> c.bio]))
    /\ Pass(r)
    /\ UNCHANGED <<rows, tx, workload, shown>>

(***************************************************************************)
(* The settings, one row per candidate, inserted by whoever misses it.     *)
(***************************************************************************)
DefaultSettings ==
    [id |-> SettingsId, notify |-> [o \in Options |-> TRUE], privacy |-> [o \in Options |-> TRUE]]
EmptySettings == [id |-> SettingsId, notify |-> <<>>, privacy |-> <<>>]

\* The row of defaults is inserted on a session that is never committed.
GetSettings(r) ==
    \/ \E x \in OwnSettings(r) : Begin(r, Candidate, "get_settings", x, <<>>, <<"close">>)
    \/ /\ OwnSettings(r) = {}
       /\ Begin(r, Candidate, "get_settings", DefaultSettings, <<DefaultSettings>>,
                <<"insert", "close">>)

MergedSettings(x, notify, privacy) ==
    [x EXCEPT !.notify = notify @@ @, !.privacy = privacy @@ @]

UpdateSettings(r) ==
    \E notify, privacy \in Preferences :
        \/ \E x \in OwnSettings(r) :
              LET new == MergedSettings(x, notify, privacy)
              IN  /\ Start(r, Candidate, "update_settings", new, <<>>, <<"commit">>)
                  /\ Issue(r, IF new = x THEN NoStmt ELSE UpdateRow(x.id, Changed(new, x)))
                  /\ UNCHANGED <<rows, tx>>
        \/ LET new == MergedSettings(EmptySettings, notify, privacy)
           IN  /\ OwnSettings(r) = {}
               /\ Begin(r, Candidate, "update_settings", new, <<new>>, <<"insert", "commit">>)

(***************************************************************************)
(* Market insights: the latest run for the topic is answered again when    *)
(* the client allows it; otherwise one is generated, or the request fails. *)
(***************************************************************************)
NewInsights(r, topic) == [id |-> <<"insight", r>>, topic |-> topic]

CachedInsights(r, topic) == {x \in From("insight", View(r)) : x.topic = topic}

GenerateInsights(r) ==
    \E topic \in Topics :
        \/ \E x \in CachedInsights(r, topic) :
              Begin(r, Candidate, "generate_insights", x, <<>>, <<"commit">>)
        \/ Begin(r, Candidate, "generate_insights", <<>>, <<NewInsights(r, topic)>>,
                 <<"insert", "commit">>)

(***************************************************************************)
(* Resumes: the file is stored, its row inserted, then the parsed text and *)
(* the analysis are written, all in one transaction.  The analysis is the  *)
(* provider's or a heuristic one; it does not fail.                        *)
(***************************************************************************)
NewResume(r) == [id |-> <<"resume", r>>, parsed |-> "pending", analysed |-> "pending"]

\* What _parse_and_extract_resume makes of the file.
Parsed == {"success", "failed"}

ListResumes(r) ==
    \E x \in From("resume", View(r)) :
        Begin(r, Candidate, "list_resumes", x, <<>>, <<"close">>)

\* With parsing switched off only the row is inserted; without a text there is
\* nothing to analyse.
UploadResume(r) ==
    \/ Begin(r, Candidate, "upload_resume", NewResume(r), <<NewResume(r)>>, <<"insert", "commit">>)
    \/ \E outcome \in Parsed :
          Begin(r, Candidate, "upload_resume", [NewResume(r) EXCEPT !.parsed = outcome],
                <<NewResume(r)>>,
                <<"insert", "save_text">> \o
                IF outcome = "success" THEN <<"save_analysis", "commit">> ELSE <<"commit">>)

SaveText(r) ==
    /\ At(r, "save_text")
    /\ Issue(r, UpdateRow(job[r].entity.id, [parsed |-> job[r].entity.parsed]))
    /\ Pass(r)
    /\ UNCHANGED <<rows, tx, workload, shown>>

SaveAnalysis(r) ==
    /\ At(r, "save_analysis")
    /\ Issue(r, UpdateRow(job[r].entity.id, [analysed |-> "success"]))
    /\ Pass(r)
    /\ UNCHANGED <<rows, tx, workload, shown>>

ProfileBegin(r) ==
    \/ GetProfile(r) \/ UpdateProfile(r) \/ GetSettings(r) \/ UpdateSettings(r)
    \/ GenerateInsights(r) \/ ListResumes(r) \/ UploadResume(r)
=============================================================================
