-------------------------- MODULE MCCodeExecution --------------------------
(***************************************************************************)
(* CodeExecution for TLC: two candidates' clicks and one for another       *)
(* problem, test cases of which one can be given a limit the sandbox       *)
(* refuses, and programs that end in every way.                            *)
(***************************************************************************)
EXTENDS CodeExecution

CONSTANTS r1, r2, r3, x1, x2

\* Two clicks for the same exchange.
MCExchangeOf == [r \in Request |-> IF r = r3 THEN x2 ELSE x1]

MCLanguage == [r \in Request |-> IF r = r1 THEN "cpp" ELSE "python3"]

\* One problem has a test that is out of the sandbox's range.
MCTimeLimit == [x \in Exchange |-> IF x = x1 THEN <<2000, 1000>> ELSE <<2000, 40000>>]

MCWeight == <<1, 2>>

Program(compiles, ms, exit, stdout) ==
    [compiles |-> compiles, ms |-> ms, exit |-> exit, stdout |-> stdout]

MCPrograms ==
    {Program(TRUE, 400, 0, "expected"), Program(TRUE, 400, 0, "other"),
     Program(TRUE, 2500, 0, "expected"), Program(TRUE, 99000, 0, "expected"), Program(TRUE, 400, 137, "other"),
     Program(FALSE, 0, 0, "other")}
=============================================================================
