------------------------ MODULE SubmissionLifecycle ------------------------
(***************************************************************************)
(* What the interview module promises about one submission, seen through   *)
(* committed data only: a one-way status and a count of answered questions *)
(* that advances one by one.                                               *)
(***************************************************************************)
EXTENDS Naturals

CONSTANT TotalQuestions

VARIABLES status, answered

Init == status = "pending" /\ answered = 0

Begin == status = "pending" /\ status' = "in_progress" /\ UNCHANGED answered

\* The candidate, or the last answer, completes; time expires.
Close ==
    /\ status = "in_progress"
    /\ status' \in {"completed", "expired"}
    /\ UNCHANGED answered

Cancel ==
    /\ status \in {"pending", "in_progress"}
    /\ status' = "cancelled"
    /\ UNCHANGED answered

Review ==
    /\ status \in {"completed", "expired", "cancelled"}
    /\ status' = "reviewed"
    /\ UNCHANGED answered

\* One more answer.  It may land after the interview has been closed, but never
\* before it has begun, and the last one closes an interview that is open.
Answer ==
    /\ status # "pending"
    /\ answered < TotalQuestions
    /\ answered' = answered + 1
    /\ status' = IF answered' = TotalQuestions /\ status = "in_progress"
                 THEN "completed" ELSE status

Next == Begin \/ Close \/ Cancel \/ Review \/ Answer

Spec == Init /\ [][Next]_<<status, answered>>
=============================================================================
