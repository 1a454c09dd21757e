---------------------- MODULE MCInterviewEvaluation ----------------------
(***************************************************************************)
(* InterviewEvaluation for TLC: requests are interchangeable.              *)
(***************************************************************************)
EXTENDS InterviewEvaluation, TLC

Symmetry == Permutations(Worker \ {Thread})
=============================================================================
