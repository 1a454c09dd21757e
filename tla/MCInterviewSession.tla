------------------------ MODULE MCInterviewSession ------------------------
(***************************************************************************)
(* InterviewSession for TLC: requests are interchangeable.                 *)
(***************************************************************************)
EXTENDS InterviewSession, TLC

Symmetry == Permutations(Txn)
=============================================================================
