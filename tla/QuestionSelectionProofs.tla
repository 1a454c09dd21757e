---------------------- MODULE QuestionSelectionProofs ----------------------
(***************************************************************************)
(* Proofs about QuestionSelection, for any number of submissions and       *)
(* questions, any similarity between them and any limits: that no question *)
(* is asked twice, and that a selection fails only when the stores have    *)
(* nothing left to ask.                                                    *)
(*                                                                         *)
(* Neither is inductive.  What a selection has found must not have been    *)
(* asked until it is answered; and what a selection that fails relies on   *)
(* was seen many steps before, when the widest search was judged, so the   *)
(* invariant remembers that search: WidestSearch says that there is a set  *)
(* the search returned of which all that has been judged was too similar.  *)
(***************************************************************************)
EXTENDS QuestionSelection, FiniteSetTheorems, SequenceTheorems, TLAPS

Exchange == [id : Questions \cup {None}, difficulty : Levels]

Places == {"idle", "search", "call", "static", "filter", "generate", "failed"}

Selection == [at : Places, stage : 1 .. 8, target : Levels,
              left : SUBSET Questions, found : Questions \cup {None},
              tries : 0 .. MaxRetries, blind : BOOLEAN]

Types ==
    /\ breaker \in Breakers
    /\ up \in BOOLEAN
    /\ cache \in [Keys -> (SUBSET Questions) \cup {None}]
    /\ asked \in [Submissions -> Seq(Exchange)]
    /\ sel \in [Submissions -> Selection]
    /\ \A s \in Submissions : Len(asked[s]) <= Count[s]

(* The place of a selection tells its stage.                               *)
StageOfPlace(s) ==
    /\ sel[s].at \in {"search", "call", "static", "filter"}
           => sel[s].stage \in Searches
    /\ sel[s].at = "generate" => sel[s].stage \in 7 .. 8
    /\ sel[s].at \in {"search", "call", "static"} => ~sel[s].blind
    /\ sel[s].at = "filter" /\ sel[s].blind => sel[s].stage = 6

(* Only a section that is not complete asks for a question.                *)
RoomLeft(s) == At(s, "idle") \/ Len(asked[s]) < Count[s]

FoundIsNew(s) ==
    At(s, "filter") /\ sel[s].found # None => sel[s].found \notin AskedIds(s)

Both == Indexed \cap Static

Alike(s, q) == q \in Embedded /\ TooSimilar(s, q, RelaxedSimilar)

(* S is what the widest search returned: all that both stores have, or as  *)
(* many as it returns at most.                                             *)
Widest(s, S) ==
    /\ S \subseteq Indexed \cup Static
    /\ S \cap AskedIds(s) = {}
    /\ \/ Both \ AskedIds(s) \subseteq S
       \/ Cardinality(S) = TopK[6]

WidestSearch(s) ==
    At(s, "filter") /\ sel[s].stage = 6 /\ ~sel[s].blind /\ sel[s].found = None
        => \E S \in SUBSET Questions :
              /\ Widest(s, S)
              /\ sel[s].left \subseteq S
              /\ \A q \in S \ sel[s].left : Alike(s, q)

AlikeOnes(s) ==
    {q \in (Indexed \cup Static) \cap Embedded :
        /\ q \notin AskedIds(s)
        /\ TooSimilar(s, q, RelaxedSimilar)}

Exhausted(s) ==
    \/ Both \ AskedIds(s) \subseteq AlikeOnes(s)
    \/ Cardinality(AlikeOnes(s)) >= TopK[6]

ExhaustedAfterwards(s) ==
    sel[s].at \in {"generate", "failed"} /\ ~sel[s].blind => Exhausted(s)

SelectionInv ==
    /\ Types
    /\ NeverAskedTwice
    /\ \A s \in Submissions :
          /\ StageOfPlace(s)
          /\ RoomLeft(s)
          /\ FoundIsNew(s)
          /\ WidestSearch(s)
          /\ ExhaustedAfterwards(s)

-----------------------------------------------------------------------------
(* Facts about the constants and the operators                             *)

(* The stages by their numbers.                                            *)
LEMMA StageFacts ==
    /\ Len(Stages) = 8
    /\ DOMAIN Stages = 1 .. 8
    /\ \A n \in 1 .. 8 : Stages[n] = "relaxed_similarity" <=> n = 6
<1>1. Len(Stages) = 8 /\ DOMAIN Stages = 1 .. 8
  BY DEF Stages
<1>2. /\ Stages[1] = "primary" /\ Stages[2] = "easy" /\ Stages[3] = "medium"
      /\ Stages[4] = "hard" /\ Stages[5] = "relaxed_topic"
      /\ Stages[6] = "relaxed_similarity" /\ Stages[7] = "llm_generation"
      /\ Stages[8] = "generic_fallback"
  BY DEF Stages
<1>3. ASSUME NEW n \in 1 .. 8
      PROVE  Stages[n] = "relaxed_similarity" <=> n = 6
  <2>1. n \in {1, 2, 3, 4, 5, 6, 7, 8}
    OBVIOUS
  <2> QED BY <1>2, <2>1
<1> QED BY <1>1, <1>3

(* Whatever is recorded, a breaker is a breaker.                           *)
LEMMA BreakerTypes ==
    ASSUME NEW b \in Breakers
    PROVE  /\ Probed(b) \in Breakers
           /\ RecordSuccess(b) \in Breakers
           /\ RecordFailure(b) \in Breakers
<1>1. /\ b.state \in BreakerStates /\ b.failures \in 0 .. FailureThreshold
      /\ b.successes \in 0 .. SuccessThreshold - 1 /\ b.elapsed \in BOOLEAN
  BY DEF Breakers
<1>2. /\ FailureThreshold \in Nat \ {0} /\ SuccessThreshold \in Nat \ {0}
  BY BreakerAssumption
<1>3. Probed(b) \in Breakers
  <2>1. CASE b.state = "open" /\ b.elapsed
    <3> DEFINE p == [b EXCEPT !.state = "half_open", !.successes = 0]
    <3>1. p \in Breakers
      <4>1. 0 \in 0 .. SuccessThreshold - 1
        BY <1>2
      <4> QED BY <4>1 DEF Breakers, BreakerStates
    <3> QED BY <2>1, <3>1 DEF Probed
  <2>2. CASE ~(b.state = "open" /\ b.elapsed)
    BY <2>2 DEF Probed
  <2> QED BY <2>1, <2>2
<1>4. RecordSuccess(b) \in Breakers
  BY <1>1, <1>2 DEF RecordSuccess, Breakers, BreakerStates, NewBreaker
<1>5. RecordFailure(b) \in Breakers
  BY <1>1, <1>2 DEF RecordFailure, Breakers, BreakerStates
<1> QED BY <1>3, <1>4, <1>5

(* What a store returns is part of its matches: all, or top_k of them.     *)
LEMMA LimitedFacts ==
    ASSUME NEW s \in Submissions, NEW S, NEW R \in Limited(s, S)
    PROVE  /\ R \subseteq S
           /\ R = S \/ Cardinality(R) = TopK[sel[s].stage]
BY DEF Limited, kSubset

(* All that the invariant says of one submission.                          *)
Distinct(s) ==
    \A i, j \in DOMAIN asked[s] :
        i # j /\ asked[s][i].id = asked[s][j].id => asked[s][i].id = None

Part(s) ==
    /\ Len(asked[s]) <= Count[s]
    /\ Distinct(s)
    /\ StageOfPlace(s)
    /\ RoomLeft(s)
    /\ FoundIsNew(s)
    /\ WidestSearch(s)
    /\ ExhaustedAfterwards(s)

LEMMA PartOfInv ==
    ASSUME SelectionInv, NEW s \in Submissions
    PROVE  Part(s)
BY DEF SelectionInv, Types, NeverAskedTwice, Distinct, Part

(* What does not touch the history and the selection of s leaves its part. *)
LEMMA PartFrame ==
    ASSUME NEW s \in Submissions, Part(s),
           sel'[s] = sel[s], asked'[s] = asked[s]
    PROVE  Part(s)'
<1>1. AskedIds(s)' = AskedIds(s)
  BY DEF AskedIds
<1>2. \A q : Alike(s, q)' <=> Alike(s, q)
  BY <1>1 DEF Alike, TooSimilar
<1>3. AlikeOnes(s)' = AlikeOnes(s)
  BY <1>1 DEF AlikeOnes, TooSimilar
<1>4. \A S : Widest(s, S)' <=> Widest(s, S)
  BY <1>1 DEF Widest
<1>5. (Len(asked[s]) <= Count[s])' /\ Distinct(s)' /\ StageOfPlace(s)' /\ RoomLeft(s)'
  BY DEF Part, Distinct, StageOfPlace, RoomLeft, At
<1>6. FoundIsNew(s)'
  BY <1>1 DEF Part, FoundIsNew, At
<1>7. WidestSearch(s)'
  BY <1>2, <1>4 DEF Part, WidestSearch, At
<1>8. ExhaustedAfterwards(s)'
  BY <1>1, <1>3 DEF Part, ExhaustedAfterwards, Exhausted
<1> QED BY <1>5, <1>6, <1>7, <1>8 DEF Part

(* A step of s that keeps the types and the part of s keeps the invariant. *)
LEMMA StepOfOne ==
    ASSUME SelectionInv, NEW s \in Submissions,
           breaker' \in Breakers, up' \in BOOLEAN,
           cache' \in [Keys -> (SUBSET Questions) \cup {None}],
           asked' \in [Submissions -> Seq(Exchange)],
           sel' \in [Submissions -> Selection],
           \A x \in Submissions \ {s} : sel'[x] = sel[x] /\ asked'[x] = asked[x],
           Part(s)'
    PROVE  SelectionInv'
<1>1. ASSUME NEW x \in Submissions
      PROVE  Part(x)'
  <2>1. CASE x = s
    BY <2>1
  <2>2. CASE x # s
    BY <2>2, PartOfInv, PartFrame
  <2> QED BY <2>1, <2>2
<1>2. Types'
  BY <1>1 DEF Types, Part
<1>3. NeverAskedTwice'
  BY <1>1 DEF NeverAskedTwice, Part, Distinct
<1> QED BY <1>1, <1>2, <1>3 DEF SelectionInv, Part

(* A step of s that asks nothing: what has to be shown is about sel[s].    *)
LEMMA QuietStep ==
    ASSUME SelectionInv, NEW s \in Submissions, NEW r \in Selection,
           breaker' \in Breakers, up' = up,
           cache' \in [Keys -> (SUBSET Questions) \cup {None}],
           asked' = asked, sel' = [sel EXCEPT ![s] = r],
           ~At(s, "idle") \/ r.at = "idle" \/ Len(asked[s]) < Count[s],
           StageOfPlace(s)', FoundIsNew(s)', WidestSearch(s)',
           ExhaustedAfterwards(s)'
    PROVE  SelectionInv'
<1>1. /\ sel \in [Submissions -> Selection] /\ up \in BOOLEAN
      /\ asked \in [Submissions -> Seq(Exchange)]
      /\ Part(s)
  BY PartOfInv DEF SelectionInv, Types
<1>2. Part(s)'
  <2>1. RoomLeft(s)'
    BY <1>1 DEF Part, RoomLeft, At
  <2> QED BY <1>1, <2>1 DEF Part, Distinct
<1>3. sel' \in [Submissions -> Selection]
  BY <1>1
<1>4. \A x \in Submissions \ {s} : sel'[x] = sel[x] /\ asked'[x] = asked[x]
  BY <1>1
<1> QED BY <1>1, <1>2, <1>3, <1>4, StepOfOne

(* A selection by its fields.                                              *)
LEMMA Fields ==
    ASSUME SelectionInv, NEW s \in Submissions
    PROVE  /\ sel \in [Submissions -> Selection]
           /\ sel[s] \in Selection
           /\ sel[s].at \in Places /\ sel[s].stage \in 1 .. 8
           /\ sel[s].target \in Levels /\ sel[s].left \subseteq Questions
           /\ sel[s].found \in Questions \cup {None}
           /\ sel[s].tries \in 0 .. MaxRetries /\ sel[s].blind \in BOOLEAN
BY DEF SelectionInv, Types, Selection

LEMMA IdleIsASelection == Idle \in Selection
<1>1. Start \in Levels /\ 0 \in 0 .. MaxRetries
  BY SelectionAssumption
<1> QED BY <1>1 DEF Idle, Selection, Places

(* A selection that begins or is over owes nothing yet.                    *)
LEMMA FreshStep ==
    ASSUME SelectionInv, NEW s \in Submissions, NEW r \in Selection,
           breaker' \in Breakers, up' = up, cache' = cache, asked' = asked,
           sel' = [sel EXCEPT ![s] = r],
           ~At(s, "idle") \/ r.at = "idle" \/ Len(asked[s]) < Count[s],
           ~r.blind, r.stage \in Searches,
           r.at \in {"idle", "search", "call", "static"}
    PROVE  SelectionInv'
<1>1. sel'[s] = r
  BY Fields
<1>2. StageOfPlace(s)' /\ FoundIsNew(s)' /\ WidestSearch(s)' /\ ExhaustedAfterwards(s)'
  BY <1>1 DEF StageOfPlace, FoundIsNew, WidestSearch, ExhaustedAfterwards, At
<1>3. cache' \in [Keys -> (SUBSET Questions) \cup {None}]
  BY DEF SelectionInv, Types
<1> QED BY <1>2, <1>3, QuietStep

(* Where a selection stands among the searches, it is not blind.           *)
LEMMA Searching ==
    ASSUME SelectionInv, NEW s \in Submissions,
           sel[s].at \in {"search", "call", "static"}
    PROVE  ~sel[s].blind /\ sel[s].stage \in Searches
BY DEF SelectionInv, StageOfPlace

LEMMA GotoIsASelection ==
    ASSUME SelectionInv, NEW s \in Submissions, NEW p \in Places, Goto(s, p)
    PROVE  \E r \in Selection :
              /\ sel' = [sel EXCEPT ![s] = r]
              /\ r.at = p /\ r.stage = sel[s].stage /\ r.blind = sel[s].blind
              /\ r.found = sel[s].found /\ r.left = sel[s].left
<1>1. PICK r : r = [sel[s] EXCEPT !.at = p]
  OBVIOUS
<1>2. /\ r.at = p /\ r.stage = sel[s].stage /\ r.blind = sel[s].blind
      /\ r.found = sel[s].found /\ r.left = sel[s].left
  BY <1>1, Fields DEF Selection
<1>3. r \in Selection
  BY <1>1, Fields DEF Selection
<1>4. sel' = [sel EXCEPT ![s] = r]
  BY <1>1 DEF Goto
<1> QED BY <1>2, <1>3, <1>4

LEMMA BeginStep ==
    ASSUME SelectionInv, NEW s \in Submissions, Begin(s)
    PROVE  SelectionInv'
<1>1. PICK score \in Scores \cup {None} :
          sel' = [sel EXCEPT ![s] = [Idle EXCEPT !.at = "search",
                                                 !.target = Target(s, score)]]
  BY DEF Begin
<1>2. PICK r : r = [Idle EXCEPT !.at = "search", !.target = Target(s, score)]
  OBVIOUS
<1>3. Target(s, score) \in Levels
  <2>1. CASE Strategy[s] = "adaptive" /\ asked[s] # <<>> /\ score # None
    <3>1. asked[s] \in Seq(Exchange)
      BY DEF SelectionInv, Types
    <3>2. asked[s][Len(asked[s])] \in Exchange
      <4>1. Len(asked[s]) \in 1 .. Len(asked[s])
        BY <2>1, <3>1, EmptySeq, LenProperties
      <4> QED BY <3>1, <4>1, ElementOfSeq
    <3>3. asked[s][Len(asked[s])].difficulty \in 1 .. 3
      BY <3>2 DEF Exchange, Levels
    <3>4. \A d \in 1 .. 3 : Adapted(d, score) \in 1 .. 3
      BY DEF Adapted
    <3> QED BY <2>1, <3>3, <3>4 DEF Target, Levels
  <2>2. CASE ~(Strategy[s] = "adaptive" /\ asked[s] # <<>> /\ score # None)
    BY <2>2, SelectionAssumption DEF Target
  <2> QED BY <2>1, <2>2
<1>4. r.at = "search" /\ r.stage \in Searches /\ ~r.blind
  BY <1>2 DEF Idle, Searches
<1>5. r \in Selection
  <2>1. Idle \in Selection
    BY IdleIsASelection
  <2> QED BY <1>2, <1>3, <2>1 DEF Selection, Places
<1>6. breaker' \in Breakers /\ up' = up /\ cache' = cache /\ asked' = asked
  BY DEF Begin, SelectionInv, Types
<1>7. sel' = [sel EXCEPT ![s] = r]
  BY <1>1, <1>2
<1> QED BY <1>4, <1>5, <1>6, <1>7, FreshStep DEF Begin

LEMMA GateStep ==
    ASSUME SelectionInv, NEW s \in Submissions, Gate(s)
    PROVE  SelectionInv'
<1>1. PICK p \in {"static", "call"} : Goto(s, p)
  BY DEF Gate
<1>2. PICK r \in Selection :
          /\ sel' = [sel EXCEPT ![s] = r]
          /\ r.at = p /\ r.stage = sel[s].stage /\ r.blind = sel[s].blind
  BY <1>1, GotoIsASelection DEF Places
<1>3. ~r.blind /\ r.stage \in Searches
  BY <1>2, Searching DEF Gate, At
<1>4. breaker' \in Breakers
  BY BreakerTypes DEF Gate, SelectionInv, Types
<1> QED BY <1>1, <1>2, <1>3, <1>4, FreshStep DEF Gate, At

LEMMA SearchFailsStep ==
    ASSUME SelectionInv, NEW s \in Submissions, SearchFails(s)
    PROVE  SelectionInv'
<1>2. PICK r \in Selection :
          /\ sel' = [sel EXCEPT ![s] = r]
          /\ r.at = "static" /\ r.stage = sel[s].stage /\ r.blind = sel[s].blind
  BY GotoIsASelection DEF Places, SearchFails
<1>3. ~r.blind /\ r.stage \in Searches
  BY <1>2, Searching DEF SearchFails, At
<1>4. breaker' \in Breakers
  BY BreakerTypes DEF SearchFails, SelectionInv, Types
<1> QED BY <1>2, <1>3, <1>4, FreshStep DEF SearchFails, At

LEMMA GiveUpStep ==
    ASSUME SelectionInv, NEW s \in Submissions, GiveUp(s)
    PROVE  SelectionInv'
<1>1. /\ Idle \in Selection /\ Idle.at = "idle" /\ Idle.stage \in Searches
      /\ ~Idle.blind
  BY IdleIsASelection DEF Idle, Searches
<1>2. breaker' \in Breakers
  BY DEF GiveUp, SelectionInv, Types
<1> QED BY <1>1, <1>2, FreshStep DEF GiveUp

-----------------------------------------------------------------------------
(* The searches and the judging of their candidates                        *)

(* Candidates come to the filter: all of them are still to be judged.      *)
LEMMA CandidatesStep ==
    ASSUME SelectionInv, NEW s \in Submissions, NEW S \in SUBSET Questions,
           sel[s].at \in {"search", "call", "static"}, Candidates(s, S),
           breaker' \in Breakers, up' = up, asked' = asked,
           cache' \in [Keys -> (SUBSET Questions) \cup {None}],
           sel[s].stage = 6 => Widest(s, S)
    PROVE  SelectionInv'
<1>1. PICK r : r = [sel[s] EXCEPT !.at = "filter", !.left = S, !.found = None]
  OBVIOUS
<1>2. /\ r.at = "filter" /\ r.left = S /\ r.found = None
      /\ r.stage = sel[s].stage /\ r.blind = sel[s].blind
  BY <1>1, Fields DEF Selection
<1>3. r \in Selection
  BY <1>1, Fields DEF Selection, Places
<1>4. sel' = [sel EXCEPT ![s] = r]
  BY <1>1, Fields DEF Candidates
<1>5. sel'[s] = r
  BY <1>4, Fields
<1>6. ~r.blind /\ r.stage \in Searches
  BY <1>2, Searching
<1>7. StageOfPlace(s)' /\ FoundIsNew(s)' /\ ExhaustedAfterwards(s)'
  BY <1>2, <1>5, <1>6 DEF StageOfPlace, FoundIsNew, ExhaustedAfterwards, At
<1>8. WidestSearch(s)'
  <2>1. Widest(s, S)' <=> Widest(s, S)
    BY DEF Widest, AskedIds
  <2> QED BY <1>2, <1>5, <2>1 DEF WidestSearch
<1> QED BY <1>3, <1>4, <1>7, <1>8, QuietStep DEF At

LEMMA CacheHitStep ==
    ASSUME SelectionInv, NEW s \in Submissions, CacheHit(s)
    PROVE  SelectionInv'
<1>1. /\ sel[s].at = "search" /\ sel[s].stage = 1
      /\ Candidates(s, cache[CacheKey(s)]) /\ cache[CacheKey(s)] # None
  BY DEF CacheHit, At, Semantic
<1>2. CacheKey(s) \in Keys
  <2>1. sel[s].target \in Levels
    BY Fields
  <2>2. Wanted(s) = sel[s].target
    BY <1>1 DEF Wanted
  <2> QED BY <2>1, <2>2 DEF CacheKey, Keys
<1>3. /\ cache[CacheKey(s)] \in SUBSET Questions
      /\ breaker' \in Breakers
      /\ cache' \in [Keys -> (SUBSET Questions) \cup {None}]
  BY <1>1, <1>2 DEF CacheHit, SelectionInv, Types
<1> QED BY <1>1, <1>3, CandidatesStep DEF CacheHit

(* The widest search takes every difficulty and every topic, and its       *)
(* answer is therefore as wide as the invariant says.                      *)
LEMMA WidestOfMatches ==
    ASSUME SelectionInv, NEW s \in Submissions, sel[s].stage = 6,
           NEW M \in {QdrantMatches(s), StaticMatches(s)},
           NEW S \in Limited(s, M)
    PROVE  Widest(s, S)
<1>1. Wanted(s) = None
  BY DEF Wanted
<1>2. \A X : X \subseteq Questions => OfDifficulty(X, Wanted(s)) = X
  BY <1>1 DEF OfDifficulty
<1>3. ~Semantic(s)
  BY DEF Semantic
<1>4. Indexed \subseteq Questions /\ Static \subseteq Questions
  BY SelectionAssumption
<1>5. QdrantMatches(s) = Indexed \ AskedIds(s)
  BY <1>2, <1>3, <1>4 DEF QdrantMatches
<1>6. StaticMatches(s) = Static \ AskedIds(s)
  BY <1>2, <1>4 DEF StaticMatches
<1>7. S \subseteq M /\ (S = M \/ Cardinality(S) = TopK[6])
  BY LimitedFacts
<1> QED BY <1>5, <1>6, <1>7 DEF Widest, Both

(* What the stores return are questions.                                   *)
LEMMA MatchesAreQuestions ==
    ASSUME NEW s \in Submissions,
           NEW M \in {QdrantMatches(s), StaticMatches(s)},
           NEW S \in Limited(s, M)
    PROVE  S \in SUBSET Questions
<1>1. Indexed \subseteq Questions /\ Static \subseteq Questions
  BY SelectionAssumption
<1>2. M \subseteq Questions
  BY <1>1 DEF QdrantMatches, StaticMatches, OfDifficulty
<1> QED BY <1>2, LimitedFacts

LEMMA FoundStep ==
    ASSUME SelectionInv, NEW s \in Submissions, Found(s)
    PROVE  SelectionInv'
<1>1. PICK S \in Limited(s, QdrantMatches(s)) :
          /\ Candidates(s, S)
          /\ \/ Semantic(s) /\ cache' = [cache EXCEPT ![CacheKey(s)] = S]
             \/ UNCHANGED cache
  BY DEF Found
<1>2. S \in SUBSET Questions
  BY MatchesAreQuestions
<1>3. cache' \in [Keys -> (SUBSET Questions) \cup {None}]
  BY <1>1, <1>2 DEF SelectionInv, Types
<1>4. sel[s].stage = 6 => Widest(s, S)
  BY WidestOfMatches
<1>5. breaker' \in Breakers
  BY BreakerTypes DEF Found, SelectionInv, Types
<1> QED BY <1>1, <1>2, <1>3, <1>4, <1>5, CandidatesStep DEF Found, At

LEMMA StaticFallbackStep ==
    ASSUME SelectionInv, NEW s \in Submissions, StaticFallback(s)
    PROVE  SelectionInv'
<1>1. PICK S \in Limited(s, StaticMatches(s)) : Candidates(s, S)
  BY DEF StaticFallback
<1>2. S \in SUBSET Questions
  BY MatchesAreQuestions
<1>3. sel[s].stage = 6 => Widest(s, S)
  BY WidestOfMatches
<1>4. /\ breaker' \in Breakers
      /\ cache' \in [Keys -> (SUBSET Questions) \cup {None}]
  BY DEF StaticFallback, SelectionInv, Types
<1> QED BY <1>1, <1>2, <1>3, <1>4, CandidatesStep DEF StaticFallback, At

(* A database that fails makes the widest search blind.                    *)
LEMMA StaticFailsStep ==
    ASSUME SelectionInv, NEW s \in Submissions, StaticFails(s)
    PROVE  SelectionInv'
<1> DEFINE b == Stages[sel[s].stage] = "relaxed_similarity"
<1>1. PICK r : r = [sel[s] EXCEPT !.at = "filter", !.left = {},
                                  !.found = None, !.blind = b]
  OBVIOUS
<1>2. /\ r.at = "filter" /\ r.left = {} /\ r.found = None
      /\ r.stage = sel[s].stage /\ r.blind = b
  BY <1>1, Fields DEF Selection
<1>3. r \in Selection
  BY <1>1, Fields DEF Selection, Places
<1>4. sel' = [sel EXCEPT ![s] = r]
  BY <1>1, Fields DEF StaticFails
<1>5. sel'[s] = r
  BY <1>4, Fields
<1>6. r.stage \in Searches /\ (r.blind <=> r.stage = 6)
  <2>1. sel[s].stage \in Searches
    BY Searching DEF StaticFails, At
  <2>2. sel[s].stage \in 1 .. 8
    BY Fields
  <2>3. b <=> sel[s].stage = 6
    BY <2>2, StageFacts
  <2> QED BY <1>2, <2>1, <2>3
<1>7. StageOfPlace(s)' /\ FoundIsNew(s)' /\ ExhaustedAfterwards(s)' /\ WidestSearch(s)'
  BY <1>2, <1>5, <1>6
     DEF StageOfPlace, FoundIsNew, ExhaustedAfterwards, WidestSearch, At
<1>8. /\ breaker' \in Breakers
      /\ cache' \in [Keys -> (SUBSET Questions) \cup {None}]
  BY DEF StaticFails, SelectionInv, Types
<1> QED BY <1>3, <1>4, <1>7, <1>8, QuietStep DEF StaticFails, At

(* A candidate is judged: it is taken when it is no repetition, and of the *)
(* widest search it stays out only when it is too similar.                 *)
LEMMA JudgeStep ==
    ASSUME SelectionInv, NEW s \in Submissions, NEW q \in Questions,
           NEW known \in BOOLEAN, known => q \in Embedded,
           At(s, "filter"), q \in sel[s].left, Judge(s, q, known),
           breaker' \in Breakers, up' = up, cache' = cache, asked' = asked
    PROVE  SelectionInv'
<1> DEFINE f == IF sel[s].found = None
                   /\ ~Repetition(s, q, known, Threshold(s))
                THEN q ELSE sel[s].found
           l == sel[s].left \ {q}
<1>1. PICK r : r = [sel[s] EXCEPT !.left = l, !.found = f]
  OBVIOUS
<1>2. /\ r.at = "filter" /\ r.left = l /\ r.found = f
      /\ r.stage = sel[s].stage /\ r.blind = sel[s].blind
  BY <1>1, Fields DEF Selection, At
<1>3. r \in Selection
  <2>1. f \in Questions \cup {None} /\ l \in SUBSET Questions
    BY Fields
  <2> HIDE DEF f, l
  <2> QED BY <1>1, <2>1, Fields DEF Selection
<1>4. sel' = [sel EXCEPT ![s] = r]
  BY <1>1, Fields DEF Judge
<1>5. sel'[s] = r
  BY <1>4, Fields
<1>6. StageOfPlace(s)'
  BY <1>2, <1>5 DEF SelectionInv, StageOfPlace, At
<1>7. AskedIds(s)' = AskedIds(s)
  BY DEF AskedIds
<1>8. FoundIsNew(s)'
  <2>1. f # None => f \notin AskedIds(s)
    BY DEF SelectionInv, FoundIsNew, At, Repetition, IsExactMatch
  <2> HIDE DEF f, l
  <2> QED BY <1>2, <1>5, <1>7, <2>1 DEF FoundIsNew, At
<1>9. ExhaustedAfterwards(s)'
  BY <1>2, <1>5 DEF ExhaustedAfterwards
<1>10. WidestSearch(s)'
  <2> SUFFICES ASSUME sel[s].stage = 6, ~sel[s].blind, f = None
               PROVE  \E S \in SUBSET Questions :
                         /\ Widest(s, S)
                         /\ l \subseteq S
                         /\ \A x \in S \ l : Alike(s, x)
    <3>1. \A S : Widest(s, S)' <=> Widest(s, S)
      BY <1>7 DEF Widest
    <3>2. \A x : Alike(s, x)' <=> Alike(s, x)
      BY <1>7 DEF Alike, TooSimilar
    <3> HIDE DEF f, l
    <3> QED BY <1>2, <1>5, <3>1, <3>2 DEF WidestSearch
  <2>1. sel[s].found = None /\ Repetition(s, q, known, Threshold(s))
    BY SelectionAssumption
  <2>2. PICK S \in SUBSET Questions :
            /\ Widest(s, S)
            /\ sel[s].left \subseteq S
            /\ \A x \in S \ sel[s].left : Alike(s, x)
    BY <2>1 DEF SelectionInv, WidestSearch
  <2>3. Threshold(s) = RelaxedSimilar
    BY StageFacts DEF Threshold
  <2>4. q \notin AskedIds(s)
    BY <2>2 DEF Widest
  <2>5. Alike(s, q)
    BY <2>1, <2>3, <2>4 DEF Repetition, IsExactMatch, Alike
  <2> QED BY <2>2, <2>5
<1>11. cache' \in [Keys -> (SUBSET Questions) \cup {None}]
  BY DEF SelectionInv, Types
<1> QED BY <1>3, <1>4, <1>6, <1>8, <1>9, <1>10, <1>11, QuietStep DEF At

LEMMA JudgeNextStep ==
    ASSUME SelectionInv, NEW s \in Submissions, NEW q \in Questions,
           JudgeNext(s, q)
    PROVE  SelectionInv'
<1>1. PICK known \in BOOLEAN : Judge(s, q, known) /\ (known => q \in Embedded)
  BY DEF JudgeNext
<1>2. breaker' \in Breakers
  BY BreakerTypes DEF JudgeNext, SelectionInv, Types
<1> QED BY <1>1, <1>2, JudgeStep DEF JudgeNext

-----------------------------------------------------------------------------
(* The ladder of fallbacks, and what is asked                              *)

(* When the widest search is judged to the end and nothing was found, all  *)
(* it returned is too similar.                                             *)
LEMMA JudgedOut ==
    ASSUME SelectionInv, NEW s \in Submissions, At(s, "filter"),
           sel[s].stage = 6, ~sel[s].blind, sel[s].found = None,
           sel[s].left = {}
    PROVE  Exhausted(s)
<1>1. PICK S \in SUBSET Questions :
          /\ Widest(s, S)
          /\ \A q \in S : Alike(s, q)
  BY DEF SelectionInv, WidestSearch
<1>2. S \subseteq AlikeOnes(s)
  BY <1>1 DEF Widest, AlikeOnes, Alike
<1>3. CASE Both \ AskedIds(s) \subseteq S
  BY <1>2, <1>3 DEF Exhausted
<1>4. CASE Cardinality(S) = TopK[6]
  <2>1. IsFiniteSet(AlikeOnes(s))
    <3>1. AlikeOnes(s) \subseteq Questions
      BY SelectionAssumption DEF AlikeOnes
    <3> QED BY <3>1, SelectionAssumption, FS_Subset
  <2>2. Cardinality(S) <= Cardinality(AlikeOnes(s))
    BY <1>2, <2>1, FS_Subset
  <2>3. /\ Cardinality(S) \in Nat /\ Cardinality(AlikeOnes(s)) \in Nat
    BY <1>2, <2>1, FS_Subset, FS_CardinalityType
  <2> QED BY <1>4, <2>2, <2>3 DEF Exhausted
<1> QED BY <1>1, <1>3, <1>4 DEF Widest

LEMMA NextStageStep ==
    ASSUME SelectionInv, NEW s \in Submissions, NextStage(s),
           At(s, "filter") \/ At(s, "generate"),
           At(s, "filter") => sel[s].left = {} /\ sel[s].found = None,
           breaker' \in Breakers, up' = up, cache' = cache, asked' = asked
    PROVE  SelectionInv'
<1> DEFINE n == sel[s].stage + 1
           st == IF n <= 8 THEN n ELSE sel[s].stage
           pl == IF n \in Searches THEN "search"
                 ELSE IF n <= 8 THEN "generate" ELSE "failed"
<1>1. PICK r : r = [sel[s] EXCEPT !.stage = st, !.tries = 0, !.at = pl]
  OBVIOUS
<1>2. /\ r.at = pl /\ r.stage = st /\ r.found = sel[s].found
      /\ r.left = sel[s].left /\ r.blind = sel[s].blind
  BY <1>1, Fields DEF Selection
<1>3. st \in 1 .. 8 /\ pl \in {"search", "generate", "failed"}
      /\ (pl = "search" => st \in Searches)
  BY Fields DEF Searches
<1>4. r \in Selection
  <2>1. 0 \in 0 .. MaxRetries
    BY SelectionAssumption
  <2> HIDE DEF n, st, pl
  <2> QED BY <1>1, <1>3, <2>1, Fields DEF Selection, Places
<1>5. sel' = [sel EXCEPT ![s] = r]
  BY <1>1, StageFacts, Fields DEF NextStage
<1>6. sel'[s] = r
  BY <1>5, Fields
<1>7. At(s, "filter") => sel[s].stage \in Searches /\ (sel[s].blind => sel[s].stage = 6)
  BY DEF SelectionInv, StageOfPlace, At
<1>8. ~At(s, "filter") => At(s, "generate") /\ sel[s].stage \in 7 .. 8
  BY DEF SelectionInv, StageOfPlace, At
<1>9. /\ pl = "search" => ~sel[s].blind
      /\ pl = "generate" => st \in 7 .. 8
  BY <1>7, <1>8, Fields DEF Searches
<1>10. pl # "search" /\ ~sel[s].blind => Exhausted(s)
  <2>1. CASE At(s, "filter")
    <3>1. pl # "search" => sel[s].stage = 6
      BY <1>7, <2>1 DEF Searches
    <3> QED BY <2>1, <3>1, JudgedOut
  <2>2. CASE At(s, "generate")
    BY <2>2 DEF SelectionInv, ExhaustedAfterwards, At
  <2> QED BY <2>1, <2>2
<1> HIDE DEF n, st, pl
<1>11. StageOfPlace(s)' /\ FoundIsNew(s)' /\ WidestSearch(s)'
  BY <1>2, <1>3, <1>6, <1>9 DEF StageOfPlace, FoundIsNew, WidestSearch, At
<1>12. ExhaustedAfterwards(s)'
  <2>1. Exhausted(s)' <=> Exhausted(s)
    BY DEF Exhausted, AlikeOnes, TooSimilar, AskedIds
  <2> QED BY <1>2, <1>3, <1>6, <1>10, <2>1 DEF ExhaustedAfterwards
<1>13. cache' \in [Keys -> (SUBSET Questions) \cup {None}]
  BY DEF SelectionInv, Types
<1> QED BY <1>4, <1>5, <1>11, <1>12, <1>13, QuietStep DEF At

LEMMA FallbackStep ==
    ASSUME SelectionInv, NEW s \in Submissions, Fallback(s)
    PROVE  SelectionInv'
<1>1. breaker' \in Breakers
  BY DEF Fallback, SelectionInv, Types
<1> QED BY <1>1, NextStageStep DEF Fallback

LEMMA GenericQuestionStep ==
    ASSUME SelectionInv, NEW s \in Submissions, GenericQuestion(s)
    PROVE  SelectionInv'
<1>1. breaker' \in Breakers
  BY DEF GenericQuestion, SelectionInv, Types
<1> QED BY <1>1, NextStageStep DEF GenericQuestion, At

LEMMA AttemptFailsStep ==
    ASSUME SelectionInv, NEW s \in Submissions, AttemptFails(s)
    PROVE  SelectionInv'
<1>1. PICK n \in {sel[s].tries + 1, MaxRetries} :
          sel' = [sel EXCEPT ![s].tries = n]
  BY DEF AttemptFails
<1>2. PICK r : r = [sel[s] EXCEPT !.tries = n]
  OBVIOUS
<1>3. /\ r.at = "generate" /\ r.stage = sel[s].stage /\ r.blind = sel[s].blind
  BY <1>2, Fields DEF Selection, AttemptFails, At
<1>4. n \in 0 .. MaxRetries
  BY Fields, SelectionAssumption DEF AttemptFails
<1>5. r \in Selection
  BY <1>2, <1>4, Fields DEF Selection
<1>6. sel' = [sel EXCEPT ![s] = r] /\ sel'[s] = r
  BY <1>1, <1>2, Fields
<1>7. StageOfPlace(s)' /\ FoundIsNew(s)' /\ WidestSearch(s)'
  BY <1>3, <1>6 DEF SelectionInv, StageOfPlace, FoundIsNew, WidestSearch,
                    AttemptFails, At
<1>8. ExhaustedAfterwards(s)'
  <2>1. Exhausted(s)' <=> Exhausted(s)
    BY DEF Exhausted, AlikeOnes, TooSimilar, AskedIds, AttemptFails
  <2> QED BY <1>3, <1>6, <2>1 DEF SelectionInv, ExhaustedAfterwards,
                                  AttemptFails, At
<1>9. /\ breaker' \in Breakers
      /\ cache' \in [Keys -> (SUBSET Questions) \cup {None}]
  BY DEF AttemptFails, SelectionInv, Types
<1> QED BY <1>5, <1>6, <1>7, <1>8, <1>9, QuietStep DEF AttemptFails, At

(* A question that is new, or was generated, goes at the end of the        *)
(* history.                                                                *)
LEMMA AnsweredStep ==
    ASSUME SelectionInv, NEW s \in Submissions,
           NEW id \in Questions \cup {None}, NEW d \in Levels,
           id # None => id \notin AskedIds(s), Len(asked[s]) < Count[s],
           Answered(s, id, d),
           breaker' \in Breakers, up' = up, cache' = cache
    PROVE  SelectionInv'
<1> DEFINE e == [id |-> id, difficulty |-> d]
           h == Append(asked[s], e)
<1>1. /\ asked \in [Submissions -> Seq(Exchange)]
      /\ asked[s] \in Seq(Exchange) /\ Count[s] \in Nat
  BY SelectionAssumption DEF SelectionInv, Types
<1>2. e \in Exchange
  BY DEF Exchange
<1>3. /\ h \in Seq(Exchange)
      /\ Len(h) = Len(asked[s]) + 1
      /\ DOMAIN h = 1 .. Len(asked[s]) + 1
      /\ \A i \in 1 .. Len(asked[s]) : h[i] = asked[s][i]
      /\ h[Len(asked[s]) + 1] = e
  BY <1>1, <1>2, AppendProperties, LenProperties
<1>4. DOMAIN asked[s] = 1 .. Len(asked[s]) /\ Len(asked[s]) \in Nat
  BY <1>1, LenProperties
<1>5. asked' = [asked EXCEPT ![s] = h] /\ sel' = [sel EXCEPT ![s] = Idle]
  BY DEF Answered
<1>6. e.id = id
  OBVIOUS
<1> HIDE DEF e, h
<1>7. /\ asked' \in [Submissions -> Seq(Exchange)]
      /\ sel' \in [Submissions -> Selection]
      /\ \A x \in Submissions \ {s} : sel'[x] = sel[x] /\ asked'[x] = asked[x]
      /\ asked'[s] = h /\ sel'[s] = Idle
  BY <1>1, <1>3, <1>5, Fields, IdleIsASelection
<1>8. Len(h) <= Count[s]
  BY <1>1, <1>3, <1>4
<1>9. Distinct(s)'
  <2> SUFFICES ASSUME NEW i \in DOMAIN h, NEW j \in DOMAIN h, i # j,
                      h[i].id = h[j].id
               PROVE  h[i].id = None
    BY <1>7 DEF Distinct
  <2>1. CASE i \in DOMAIN asked[s] /\ j \in DOMAIN asked[s]
    BY <1>3, <1>4, <2>1, PartOfInv DEF Part, Distinct
  <2>2. CASE i \in DOMAIN asked[s] /\ j \notin DOMAIN asked[s]
    <3>1. h[j] = e /\ h[i] = asked[s][i]
      BY <1>3, <1>4, <2>2
    <3> QED BY <1>6, <2>2, <3>1 DEF AskedIds
  <2>3. CASE i \notin DOMAIN asked[s] /\ j \in DOMAIN asked[s]
    <3>1. h[i] = e /\ h[j] = asked[s][j]
      BY <1>3, <1>4, <2>3
    <3> QED BY <1>6, <2>3, <3>1 DEF AskedIds
  <2>4. CASE i \notin DOMAIN asked[s] /\ j \notin DOMAIN asked[s]
    BY <1>3, <1>4, <2>4
  <2> QED BY <2>1, <2>2, <2>3, <2>4
<1>10. /\ StageOfPlace(s)' /\ RoomLeft(s)' /\ FoundIsNew(s)'
       /\ WidestSearch(s)' /\ ExhaustedAfterwards(s)'
  BY <1>7 DEF StageOfPlace, RoomLeft, FoundIsNew, WidestSearch,
              ExhaustedAfterwards, At, Idle
<1>11. Part(s)'
  BY <1>7, <1>8, <1>9, <1>10 DEF Part
<1>12. /\ cache' \in [Keys -> (SUBSET Questions) \cup {None}]
       /\ up' \in BOOLEAN
  BY DEF SelectionInv, Types
<1> QED BY <1>7, <1>11, <1>12, StepOfOne

LEMMA SelectStep ==
    ASSUME SelectionInv, NEW s \in Submissions, Select(s)
    PROVE  SelectionInv'
<1> DEFINE q == sel[s].found
<1>1. q \in Questions /\ q \notin AskedIds(s)
  BY Fields DEF Select, SelectionInv, FoundIsNew
<1>2. Difficulty[q] \in Levels
  BY <1>1, SelectionAssumption
<1>3. Len(asked[s]) < Count[s]
  BY DEF Select, SelectionInv, RoomLeft, At
<1>4. Answered(s, q, Difficulty[q]) /\ up' = up /\ cache' = cache
  BY DEF Select
<1>5. breaker' \in Breakers
  BY DEF Select, SelectionInv, Types
<1> QED BY <1>1, <1>2, <1>3, <1>4, <1>5, AnsweredStep

LEMMA GeneratedStep ==
    ASSUME SelectionInv, NEW s \in Submissions, Generated(s)
    PROVE  SelectionInv'
<1>1. sel[s].target \in Levels
  BY Fields
<1>2. Len(asked[s]) < Count[s]
  BY DEF Generated, SelectionInv, RoomLeft, At
<1>3. Answered(s, None, sel[s].target) /\ up' = up /\ cache' = cache
  BY DEF Generated
<1>4. breaker' \in Breakers
  BY DEF Generated, SelectionInv, Types
<1> QED BY <1>1, <1>2, <1>3, <1>4, AnsweredStep

LEMMA NextInterviewStep ==
    ASSUME SelectionInv, NEW s \in Submissions, NextInterview(s)
    PROVE  SelectionInv'
<1>1. /\ asked \in [Submissions -> Seq(Exchange)] /\ Count[s] \in Nat
      /\ asked' = [asked EXCEPT ![s] = <<>>] /\ sel' = sel
  BY SelectionAssumption DEF NextInterview, SelectionInv, Types
<1>2. <<>> \in Seq(Exchange) /\ Len(<<>>) = 0 /\ DOMAIN <<>> = {}
  BY EmptySeq
<1>3. /\ asked' \in [Submissions -> Seq(Exchange)] /\ asked'[s] = <<>>
      /\ \A x \in Submissions \ {s} : sel'[x] = sel[x] /\ asked'[x] = asked[x]
  BY <1>1, <1>2
<1>4. Len(asked'[s]) <= Count[s] /\ Distinct(s)'
  BY <1>1, <1>2, <1>3 DEF Distinct
<1>5. /\ StageOfPlace(s)' /\ RoomLeft(s)' /\ FoundIsNew(s)'
      /\ WidestSearch(s)' /\ ExhaustedAfterwards(s)'
  BY <1>1 DEF NextInterview, StageOfPlace, RoomLeft, FoundIsNew, WidestSearch,
              ExhaustedAfterwards, At
<1>6. Part(s)'
  BY <1>4, <1>5 DEF Part
<1>7. /\ breaker' \in Breakers /\ up' \in BOOLEAN
      /\ cache' \in [Keys -> (SUBSET Questions) \cup {None}]
      /\ sel' \in [Submissions -> Selection]
  BY <1>1 DEF NextInterview, SelectionInv, Types
<1> QED BY <1>3, <1>6, <1>7, StepOfOne

-----------------------------------------------------------------------------
(* The theorems                                                            *)

(* What happens around the selections touches none of them.                *)
LEMMA AroundStep ==
    ASSUME SelectionInv, asked' = asked, sel' = sel,
           breaker' \in Breakers, up' \in BOOLEAN,
           cache' \in [Keys -> (SUBSET Questions) \cup {None}]
    PROVE  SelectionInv'
<1>1. ASSUME NEW x \in Submissions
      PROVE  Part(x)'
  BY PartOfInv, PartFrame
<1>2. Types'
  BY DEF SelectionInv, Types
<1>3. NeverAskedTwice'
  BY <1>1 DEF NeverAskedTwice, Part, Distinct
<1> QED BY <1>1, <1>2, <1>3 DEF SelectionInv, Part

LEMMA InitHolds == Init => SelectionInv
<1> SUFFICES ASSUME Init PROVE SelectionInv
  OBVIOUS
<1>1. /\ <<>> \in Seq(Exchange) /\ Len(<<>>) = 0 /\ DOMAIN <<>> = {}
      /\ Idle \in Selection
  BY EmptySeq, IdleIsASelection
<1>2. NewBreaker \in Breakers
  BY BreakerAssumption DEF NewBreaker, Breakers, BreakerStates
<1>3. \A s \in Submissions : asked[s] = <<>> /\ sel[s] = Idle
  BY DEF Init
<1>4. \A s \in Submissions : Count[s] \in Nat
  BY SelectionAssumption
<1>5. Types
  BY <1>1, <1>2, <1>3, <1>4 DEF Init, Types
<1>6. NeverAskedTwice
  BY <1>1, <1>3 DEF NeverAskedTwice
<1>7. ASSUME NEW s \in Submissions
      PROVE  /\ StageOfPlace(s) /\ RoomLeft(s) /\ FoundIsNew(s)
             /\ WidestSearch(s) /\ ExhaustedAfterwards(s)
  BY <1>3 DEF StageOfPlace, RoomLeft, FoundIsNew, WidestSearch,
              ExhaustedAfterwards, At, Idle
<1> QED BY <1>5, <1>6, <1>7 DEF SelectionInv

LEMMA NextHolds == SelectionInv /\ [Next]_vars => SelectionInv'
<1> SUFFICES ASSUME SelectionInv, [Next]_vars PROVE SelectionInv'
  OBVIOUS
<1>1. ASSUME NEW s \in Submissions, Step(s)
      PROVE  SelectionInv'
  BY <1>1, BeginStep, CacheHitStep, GateStep, FoundStep, SearchFailsStep,
     StaticFallbackStep, StaticFailsStep, JudgeNextStep, SelectStep,
     FallbackStep, GeneratedStep, AttemptFailsStep, GenericQuestionStep,
     GiveUpStep, NextInterviewStep DEF Step
<1>2. CASE QdrantChanges
  BY <1>2, AroundStep DEF QdrantChanges, SelectionInv, Types
<1>3. ASSUME NEW k \in Keys, CacheExpires(k)
      PROVE  SelectionInv'
  BY <1>3, AroundStep DEF CacheExpires, SelectionInv, Types
<1>4. CASE BreakerTimeout
  <2>1. breaker' \in Breakers
    BY <1>4 DEF BreakerTimeout, SelectionInv, Types, Breakers
  <2> QED BY <1>4, <2>1, AroundStep DEF BreakerTimeout, SelectionInv, Types
<1>5. CASE UNCHANGED vars
  BY <1>5, AroundStep DEF vars, SelectionInv, Types
<1> QED BY <1>1, <1>2, <1>3, <1>4, <1>5 DEF Next

(* SelectionInv holds of every reachable state of the selections, whatever *)
(* becomes of Qdrant, the cache, the breaker, the database and the LLM.    *)
THEOREM SelectionInvariance == Spec => []SelectionInv
<1> QED BY InitHolds, NextHolds, PTL DEF Spec

(* The types of the selections, of the breaker and of the cache: TypeOK.   *)
THEOREM SelectionTypes == Spec => []TypeOK
<1>1. SelectionInv => TypeOK
  <2> SUFFICES ASSUME SelectionInv, NEW s \in Submissions
               PROVE  /\ Len(asked[s]) <= Count[s]
                      /\ \A i \in DOMAIN asked[s] :
                            /\ asked[s][i].id \in Questions \cup {None}
                            /\ asked[s][i].difficulty \in Levels
                      /\ sel[s].stage \in DOMAIN Stages
                      /\ sel[s].target \in Levels
                      /\ sel[s].left \subseteq Questions
                      /\ sel[s].found \in Questions \cup {None}
                      /\ sel[s].tries \in 0 .. MaxRetries
    BY DEF SelectionInv, Types, TypeOK
  <2>1. asked[s] \in Seq(Exchange) /\ Len(asked[s]) <= Count[s]
    BY DEF SelectionInv, Types
  <2>2. ASSUME NEW i \in DOMAIN asked[s]
        PROVE  /\ asked[s][i].id \in Questions \cup {None}
               /\ asked[s][i].difficulty \in Levels
    <3>1. asked[s][i] \in Exchange
      BY <2>1, <2>2, LenProperties, ElementOfSeq
    <3> QED BY <3>1 DEF Exchange
  <2> QED BY <2>1, <2>2, Fields, StageFacts
<1> QED BY <1>1, SelectionInvariance, PTL

(* No question is asked twice in an interview: NeverAskedTwice, for any    *)
(* number of submissions that share breaker and cache.                     *)
THEOREM NothingIsAskedTwice == Spec => []NeverAskedTwice
<1>1. SelectionInv => NeverAskedTwice
  BY DEF SelectionInv
<1> QED BY <1>1, SelectionInvariance, PTL

(* A selection gives up only when the stores have nothing left to ask, or  *)
(* the widest search was limited or found the database failing:            *)
(* FailsOnlyWhenExhausted, for any similarities and any top_k.             *)
THEOREM FailuresAreExhaustive == Spec => []FailsOnlyWhenExhausted
<1>1. SelectionInv => FailsOnlyWhenExhausted
  <2> SUFFICES ASSUME SelectionInv, NEW s \in Submissions,
                      At(s, "failed"), ~sel[s].blind
               PROVE  Exhausted(s)
    BY DEF FailsOnlyWhenExhausted, Exhausted, AlikeOnes, Both
  <2> QED BY DEF SelectionInv, ExhaustedAfterwards, At
<1> QED BY <1>1, SelectionInvariance, PTL
=============================================================================
