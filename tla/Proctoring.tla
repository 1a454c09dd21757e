------------------------------ MODULE Proctoring ------------------------------
(***************************************************************************)
(* Proctoring: events of a submission are weighted by rules, stored, and   *)
(* summed up in the risk columns of the submission's row.  One request     *)
(* runs on one transaction; Redis, which remembers the fingerprints of     *)
(* events and the last risk computed, does not take part in it.            *)
(*                                                                         *)
(* An error of the UPDATE of the risk is swallowed, but PostgreSQL then    *)
(* turns the COMMIT into a rollback: the request is abandoned, whatever it *)
(* answers.                                                                *)
(***************************************************************************)
EXTENDS ContentRequest, FiniteSetsExt

CONSTANTS Rules,      \* kind -> [severity, weight] (DEFAULT_RULES, weights times ten)
          Clusters,   \* kind -> [condition, threshold, window, severity, factor], for some kinds
          FlagAt,     \* moderate_to_high
          RiskCap,    \* max_cap
          Batches     \* sequences of [kind, time] a client sends for its submission

ASSUME ProctoringAssumption ==
    /\ DOMAIN Clusters \subseteq DOMAIN Rules
    /\ \A k \in DOMAIN Rules : Rules[k].weight \in Nat
    /\ \A k \in DOMAIN Clusters : /\ Clusters[k].condition \in {"count_in_window", "consecutive"}
                                  /\ Clusters[k].threshold \in Nat
    /\ Batches \subseteq Seq([kind : DOMAIN Rules, time : Int]) \ {<<>>}

VARIABLES redis   \* redis.seen: fingerprints, redis.cached: the events of the last risk

ProctoringRequests == {"ingest", "get_risk", "recompute", "list_events", "review_queue"}

RiskId    == <<"risk", "S1">>
Events(r) == From("event", View(r))

(***************************************************************************)
(* The rules.                                                              *)
(***************************************************************************)
OfKind(r, kind) == {x \in Events(r) : x.kind = kind}

\* Events of a window up to this one's time, or the latest, as many as matter.
Clustered(r, e) ==
    /\ e.kind \in DOMAIN Clusters
    /\ LET c == Clusters[e.kind]
       IN  CASE c.condition = "count_in_window" ->
                  Cardinality({x \in OfKind(r, e.kind) : x.time \in (e.time - c.window) .. e.time})
                     >= c.threshold
             [] c.condition = "consecutive" -> Cardinality(OfKind(r, e.kind)) >= c.threshold

\* Mutant: the cluster is taken to include the event itself.
ApplyRulesEarly(r, e) ==
    IF /\ e.kind \in DOMAIN Clusters
       /\ Cardinality(OfKind(r, e.kind)) + 1 >= Clusters[e.kind].threshold
    THEN [severity |-> Clusters[e.kind].severity,
          weight   |-> Rules[e.kind].weight * Clusters[e.kind].factor]
    ELSE Rules[e.kind]

ApplyRules(r, e) ==
    IF Clustered(r, e)
    THEN [severity |-> Clusters[e.kind].severity,
          weight   |-> Rules[e.kind].weight * Clusters[e.kind].factor]
    ELSE Rules[e.kind]

NewEvent(r, e, n) ==
    [id |-> <<"event", r, n>>, kind |-> e.kind, time |-> e.time,
     severity |-> ApplyRules(r, e).severity, weight |-> ApplyRules(r, e).weight]

TotalRisk(S) ==
    LET total == MapThenSumSet(LAMBDA x : x.weight, S)
    IN  IF total > RiskCap THEN RiskCap ELSE total

\* What compute_risk_score makes of the events its SELECT finds.
RiskOf(S) == [counted |-> Ids(S), total |-> TotalRisk(S), flagged |-> TotalRisk(S) >= FlagAt]

\* Mutant: the risk service reads on a session of its own.
ComputeElsewhere(r) ==
    /\ Issue(r, Update({RiskId}, RiskOf(From("event", rows))))
    /\ redis' \in {redis, [redis EXCEPT !.cached = Ids(From("event", rows))]}

\* compute: the cache is written before the row, and does without Redis.
Compute(r) ==
    /\ Issue(r, Update({RiskId}, RiskOf(Events(r))))
    /\ redis' \in {redis, [redis EXCEPT !.cached = Ids(Events(r))]}

(***************************************************************************)
(* Ingestion: the events of a batch one after the other.  Without Redis,   *)
(* and five minutes later, no fingerprint is found.                        *)
(***************************************************************************)
Fingerprint(e) == <<e.kind, e.time>>
ThenNext(r)    == IF Len(job[r].create) = 1 THEN <<"commit">> ELSE <<"take_event">>

Ingest(r) ==
    \E batch \in Batches :
        /\ Begin(r, Nobody, "ingest", [before |-> Ids(Events(r))], batch, <<"take_event">>)
        /\ UNCHANGED redis

IgnoreDuplicate(r) ==
    /\ At(r, "take_event")
    /\ Fingerprint(Head(job[r].create)) \in redis.seen
    /\ job' = [job EXCEPT ![r].create = Tail(@), ![r].todo = ThenNext(r)]
    /\ UNCHANGED <<dbVars, workload, shown, redis>>

StoreEvent(r) ==
    /\ At(r, "take_event")
    /\ Issue(r, Insert(NewEvent(r, Head(job[r].create), Len(job[r].create))))
    /\ job' = [job EXCEPT ![r].todo = <<"record">>]
    /\ UNCHANGED <<rows, tx, workload, shown, redis>>

RecordFingerprint(r) ==
    /\ At(r, "record")
    /\ redis' \in {redis, [redis EXCEPT !.seen = @ \cup {Fingerprint(Head(job[r].create))}]}
    /\ job' = [job EXCEPT ![r].todo = <<"compute">>]
    /\ UNCHANGED <<dbVars, workload, shown>>

ComputeRisk(r) ==
    /\ At(r, "compute")
    /\ Compute(r)
    /\ job' = [job EXCEPT ![r].create = Tail(@), ![r].todo = ThenNext(r)]
    /\ UNCHANGED <<rows, tx, workload, shown>>

(***************************************************************************)
(* The risk on request.  get_risk_score computes it on a session that is   *)
(* closed without a commit, so only its cache stays.                       *)
(***************************************************************************)
GetRisk(r) ==
    /\ Start(r, Nobody, "get_risk", [before |-> Ids(Events(r))], <<>>, <<"close">>)
    /\ Compute(r)
    /\ UNCHANGED <<rows, tx>>

Recompute(r) ==
    /\ Start(r, Nobody, "recompute", [before |-> Ids(Events(r))], <<>>, <<"commit">>)
    /\ Compute(r)
    /\ UNCHANGED <<rows, tx>>

ListEvents(r) ==
    /\ Begin(r, Nobody, "list_events", [listed |-> Ids(Events(r))], <<>>, <<"close">>)
    /\ UNCHANGED redis

\* The flagged submissions are counted, listed, and their events counted, in
\* statements of their own.
ReviewQueue(r) ==
    /\ Begin(r, Nobody, "review_queue", <<>>, <<>>, <<"list_flagged", "count_events", "close">>)
    /\ UNCHANGED redis

ListFlagged(r) ==
    /\ At(r, "list_flagged")
    /\ job' = [job EXCEPT ![r].entity = [flagged |-> {x \in From("risk", View(r)) : x.flagged}],
                          ![r].todo = Tail(@)]
    /\ UNCHANGED <<dbVars, workload, shown, redis>>

CountEvents(r) ==
    /\ At(r, "count_events")
    /\ job' = [job EXCEPT ![r].entity = [counted |-> {<<x.id, Cardinality(Events(r))>> : x \in @.flagged}],
                          ![r].todo = Tail(@)]
    /\ UNCHANGED <<dbVars, workload, shown, redis>>

ProctoringBegin(r) == Ingest(r) \/ GetRisk(r) \/ Recompute(r) \/ ListEvents(r) \/ ReviewQueue(r)

ProctoringStep(r) ==
    \/ IgnoreDuplicate(r) \/ StoreEvent(r) \/ RecordFingerprint(r) \/ ComputeRisk(r)
    \/ ListFlagged(r) \/ CountEvents(r)

ProctoringInit == redis = [seen |-> {}, cached |-> {}]
=============================================================================
