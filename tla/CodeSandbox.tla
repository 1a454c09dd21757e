---------------------------- MODULE CodeSandbox ----------------------------
(***************************************************************************)
(* One program in one container: the limits SandboxExecutor derives from   *)
(* the request, what docker run, timeout(1) and time(1) report, and the    *)
(* test status ExecutionService makes of it.  Text is reduced to what is   *)
(* compared: stdout is "expected" or "other".                              *)
(***************************************************************************)
EXTENDS Integers

NoTimeOutput == -2      \* time(1) did not get to print its report

Languages == {"cpp", "java", "python3"}

Compiled(lang) == lang \in {"cpp", "java"}

TestStatuses ==
    {"passed", "failed", "timeout", "memory_exceeded", "runtime_error"}

\* What SandboxExecutionRequest accepts; outside of it the constructor raises.
LimitAccepted(ms) == ms \in 100..30000

\* int(time_limit_seconds), the argument of timeout(1); 0 switches it off.
ShellSeconds(ms) == ms \div 1000

\* The limit of the whole docker run: compilation and start-up on top.
HardTimeout(lang, ms) == ms + (IF Compiled(lang) THEN 15000 ELSE 0) + 30000

\* A program, as far as the sandbox can tell programs apart: whether it compiles,
\* how long it runs, how it ends (an exit status, or 137 for the OOM killer) and
\* what it has printed by then.
IsProgram(p) ==
    /\ p.compiles \in BOOLEAN
    /\ p.ms \in Nat
    /\ p.exit \in 0..255
    /\ p.stdout \in {"expected", "other"}

DockerRun(hard, exit, time, marker, stdout, ms) ==
    [hard |-> hard, exit |-> exit, time |-> time, marker |-> marker,
     stdout |-> stdout, ms |-> ms]

\* The outcomes of run_container.  A program that the OOM killer ends may leave
\* time(1) alive, which reports exit status 0 for a child ended by a signal.
RunContainer(lang, limit, p) ==
    LET shell == 1000 * ShellSeconds(limit) IN
    {DockerRun(FALSE, -1, NoTimeOutput, FALSE, "other", 0)} \cup
    IF Compiled(lang) /\ ~p.compiles
    THEN {DockerRun(FALSE, 1, NoTimeOutput, TRUE, "other", 0)}
    ELSE IF shell > 0 /\ p.ms > shell
    THEN {DockerRun(FALSE, 124, NoTimeOutput, FALSE, p.stdout, 0)}
    ELSE IF p.ms > HardTimeout(lang, limit)
    THEN {DockerRun(TRUE, 124, NoTimeOutput, FALSE, "other", 0)}
    ELSE IF p.exit = 137
    THEN {DockerRun(FALSE, 137, NoTimeOutput, FALSE, p.stdout, 0),
          DockerRun(FALSE, 137, 0, FALSE, p.stdout, p.ms)}
    ELSE {DockerRun(FALSE, p.exit, p.exit, FALSE, p.stdout, p.ms)}

SandboxResult(exit, ms, timedOut, oom, compilation, stdout) ==
    [exit |-> exit, ms |-> ms, timedOut |-> timedOut, oom |-> oom,
     compilation |-> compilation, stdout |-> stdout]

IsCompilationError(lang, d) == Compiled(lang) /\ d.exit # 0 /\ d.marker

\* The exit status time(1) reports wins over the one of the container.
EffectiveExit(d) == IF d.time # NoTimeOutput THEN d.time ELSE d.exit

\* SandboxExecutor.execute after the container has ended.
SandboxExecute(lang, limit, d) ==
    IF d.hard
    THEN SandboxResult(124, limit, TRUE, FALSE, FALSE, "other")
    ELSE IF IsCompilationError(lang, d)
    THEN SandboxResult(d.exit, 0, FALSE, FALSE, TRUE, "other")
    ELSE LET exit == EffectiveExit(d) IN
         SandboxResult(exit, IF exit = 124 THEN limit ELSE d.ms,
                       exit = 124, exit = 137, FALSE, d.stdout)

\* _classify_test_case_result, and what precedes it for a compilation error.
Classify(s) ==
    IF s.compilation THEN "runtime_error"
    ELSE IF s.timedOut THEN "timeout"
    ELSE IF s.oom THEN "memory_exceeded"
    ELSE IF s.exit # 0 THEN "runtime_error"
    ELSE IF s.stdout # "expected" THEN "failed"
    ELSE "passed"

\* The results one test case can have: its status and its runtime.
TestOutcomes(lang, limit, programs) ==
    {LET s == SandboxExecute(lang, limit, d)
     IN  [status |-> Classify(s), ms |-> IF s.compilation THEN 0 ELSE s.ms] :
        d \in UNION {RunContainer(lang, limit, p) : p \in programs}}
    \cup {[status |-> "runtime_error", ms |-> 0]}   \* the sandbox raised
=============================================================================
