---------------------------- MODULE CodeVerdict ----------------------------
(***************************************************************************)
(* What submitting code promises, seen through committed data: the first   *)
(* code that arrives for an exchange is the one that is judged, and it is  *)
(* judged once, status, score and results of its tests together.           *)
(***************************************************************************)
CONSTANTS
    Exchange,   \* coding exchanges
    Request,    \* submissions of code, each one for one exchange
    NoRequest,
    NoScore,
    Untested    \* the results of a code that has not been judged

VARIABLES
    source,     \* the request whose code counts, per exchange
    verdict,    \* "pending" or final; "none" before there is code
    score,
    outcomes    \* results of the tests

cvVars == <<source, verdict, score, outcomes>>

FinalVerdicts == {"passed", "failed", "error", "timeout", "memory_exceeded"}

Init ==
    /\ source = [x \in Exchange |-> NoRequest]
    /\ verdict = [x \in Exchange |-> "none"]
    /\ score = [x \in Exchange |-> NoScore]
    /\ outcomes = [x \in Exchange |-> Untested]

Accept(x) ==
    /\ verdict[x] = "none"
    /\ \E r \in Request : source' = [source EXCEPT ![x] = r]
    /\ verdict' = [verdict EXCEPT ![x] = "pending"]
    /\ UNCHANGED <<score, outcomes>>

Judge(x) ==
    /\ verdict[x] = "pending"
    /\ \E v \in FinalVerdicts : verdict' = [verdict EXCEPT ![x] = v]
    /\ \A y \in Exchange \ {x} : score'[y] = score[y] /\ outcomes'[y] = outcomes[y]
    /\ UNCHANGED source

Next == \E x \in Exchange : Accept(x) \/ Judge(x)

Spec == Init /\ [][Next]_cvVars
=============================================================================
