--------------------------- MODULE CircuitBreaker ---------------------------
(***************************************************************************)
(* The circuit breaker in front of Qdrant, shared by every request of a    *)
(* process (src/app/question/retrieval/domain/circuit_breaker.py).  Each   *)
(* method holds the lock of the breaker throughout, so it is one function  *)
(* of its state here.  The clock is kept as the one fact that is asked of  *)
(* it, and only of an open breaker: whether timeout_duration has passed    *)
(* since the last failure.  Successes are counted in half-open only, which *)
(* starts from none, and failures up to the threshold.                     *)
(***************************************************************************)
EXTENDS Naturals

CONSTANTS FailureThreshold, SuccessThreshold

ASSUME BreakerAssumption ==
    /\ FailureThreshold \in Nat \ {0}
    /\ SuccessThreshold \in Nat \ {0}

BreakerStates == {"closed", "open", "half_open"}

Breakers == [state : BreakerStates, failures : 0 .. FailureThreshold,
             successes : 0 .. SuccessThreshold - 1, elapsed : BOOLEAN]

NewBreaker == [state |-> "closed", failures |-> 0, successes |-> 0,
               elapsed |-> TRUE]

(* Mutation: an open breaker never lets a probe through.                   *)
NoProbe(b) == b

(* is_open also moves an open breaker to half-open when its time is up.    *)
Probed(b) == IF b.state = "open" /\ b.elapsed
             THEN [b EXCEPT !.state = "half_open", !.successes = 0]
             ELSE b

IsOpen(b) == Probed(b).state = "open"

(* A success while open is not counted: the call was begun before.         *)
RecordSuccess(b) ==
    CASE b.state = "half_open" /\ b.successes + 1 < SuccessThreshold ->
            [b EXCEPT !.successes = @ + 1]
      [] b.state = "open" -> b
      [] OTHER -> NewBreaker

RecordFailure(b) ==
    LET n == b.failures + 1
    IN  IF b.state = "closed" /\ n < FailureThreshold
        THEN [b EXCEPT !.failures = n]
        ELSE [state |-> "open", failures |-> FailureThreshold,
              successes |-> 0, elapsed |-> FALSE]

=============================================================================
