---------------------------- MODULE ComponentTask ----------------------------
(***************************************************************************)
(* The test task of one component: a Tekton task whose steps run the       *)
(* tests, sum up their JUnit file, write the task's message and set the    *)
(* exit code.  All steps but the last go on after a failure, so the colour *)
(* of the task is what the last one makes of the files it finds, or red if *)
(* Tekton's timeout stops the pod before.                                  *)
(*                                                                         *)
(* A "pytest" task has one runner, which makes up to three attempts within *)
(* one time limit.  The others ("golang", "playwright", "cypress") first   *)
(* prepare an env file, then run one command in the component's image.     *)
(* What happens to the DataScienceCluster meanwhile is in DscBaseline;     *)
(* here the comparison at the end finds drift or not.                      *)
(***************************************************************************)
EXTENDS Naturals, FiniteSets

CONSTANTS Tests,            \* test cases of the component
          StandIn,          \* the case a runner writes in their place
          RateNum, RateDen  \* minPassRateForSuccess

ASSUME TestsAssumption == IsFiniteSet(Tests) /\ StandIn \notin Tests
ASSUME RateAssumption == RateDen \in Nat /\ RateNum \in 1..RateDen

VARIABLES config,     \* the component in the catalog, and the plan
          at,         \* the step, or what its script does
          phase,      \* command of the pytest runner
          timed,      \* a limit is in force on the running command
          env,        \* the env file of the preparation
          raw,        \* how the tests ended
          file,       \* JUnit file of the component
          cases,      \* case -> what the JUnit file says of it
          trace,      \* test -> its last status on the console or in the
                      \*         results directory
          passedOnce, \* tests that passed in some attempt (history)
          exitFile,   \* <component>.component-test.exit
          output,     \* result of TEST_OUTPUT
          colour      \* of the task; all but "green" and "pending" are red

files == <<file, cases, exitFile>>
vars == <<config, at, phase, timed, env, raw, files, trace, passedOnce, output,
          colour>>

Kinds == {"pytest", "golang", "playwright", "cypress"}
Configs == [kind: Kinds, planned: BOOLEAN, limited: BOOLEAN, tolerant: BOOLEAN,
            rated: BOOLEAN]
Steps == {"run", "image", "phase", "running", "wrapup", "summary", "message",
          "finalize", "end"}
Phases == {"uv", "sync", "retry", "install", "pip"}
Exits == {"none", "ok", "failed", "infra", "plugin", "timeout"}

Marks == {"absent", "passed", "failed", "skipped"}
All == Tests \cup {StandIn}
Reports == [All -> Marks]
Runs == {r \in Reports : r[StandIn] = "absent"}
Blank == [t \in All |-> "absent"]
Made(mark) == [Blank EXCEPT ![StandIn] = mark]

Those(c, mark) == {t \in All : c[t] = mark}
Listed(c) == {t \in All : c[t] # "absent"}
\* What is left of r when files of it are lost
Parts(r) == {p \in Runs : \A t \in All : p[t] \in {"absent", r[t]}}
\* The statuses after r has been printed: the last one of a test counts
WrongOver(r, old) == [t \in Listed(r) |-> r[t]]
Over(r, old) == [t \in All |-> IF r[t] = "absent" THEN old[t] ELSE r[t]]

(***************************************************************************)
(* resolve_component_exit_codes: the exit code to record is 0 if no case   *)
(* failed, or enough passed; the step's own is 0 if one passed.            *)
(***************************************************************************)
WrongMeetsRate(c) == config.rated
MeetsRate(c) ==
    /\ config.rated /\ Listed(c) # {}
    /\ Cardinality(Those(c, "passed")) * RateDen >= RateNum * Cardinality(Listed(c))

Clean(c) == Those(c, "passed") # {} /\ Those(c, "failed") = {}
SkipOnly(c) == /\ Those(c, "passed") = {} /\ Those(c, "failed") = {}
               /\ Those(c, "skipped") # {}

StrictZero(f, c, zero) ==
    \/ f = "none" /\ zero
    \/ f = "report" /\ (Clean(c) \/ (~SkipOnly(c) /\ MeetsRate(c)))

WrongStepZero(f, c, zero) == f # "torn" /\ ~SkipOnly(c)
StepZero(f, c, zero) ==
    \/ f = "none" /\ zero
    \/ f = "report" /\ Those(c, "passed") # {}

Init ==
    /\ config \in Configs
    /\ at = "run" /\ phase = "uv" /\ timed = FALSE /\ env = "none" /\ raw = "none"
    /\ file = "none" /\ cases = Blank /\ exitFile = "missing"
    /\ trace = Blank /\ passedOnce = {}
    /\ output = "none" /\ colour = "pending"

\* The JUnit file is written, or written if there is none
Write(c) == file' = "report" /\ cases' = c
WriteIfNone(c) == IF file = "none" THEN Write(c) ELSE UNCHANGED <<file, cases>>
Tear == file' = "torn" /\ cases' = Blank
KeepFile == UNCHANGED <<file, cases>>

\* The tests have run as in r
Ran(r) == /\ trace' = Over(r, trace)
          /\ passedOnce' = passedOnce \cup Those(r, "passed")
NothingRan == UNCHANGED <<trace, passedOnce>>

Pytest == config.kind = "pytest"
AfterFirst == IF Pytest THEN "summary" ELSE "image"

(***************************************************************************)
(* The first step: run_component_pytest up to the tests, or the            *)
(* preparation of the env file, run_component_golang.                      *)
(***************************************************************************)
\* Too old a version, a cluster that does not answer, a component not ready, no
\* credentials: a stand-in instead of tests
TestsSkipped ==
    /\ at = "run" /\ config.planned
    /\ \E mark \in {"failed", "skipped"} : WriteIfNone(Made(mark))
    /\ exitFile' = "nonzero"
    /\ env' = IF Pytest THEN env ELSE "skip"
    /\ at' = AfterFirst
    /\ NothingRan /\ UNCHANGED <<config, phase, timed, raw, output, colour>>

\* The script fails, or finds its component not in the plan
RunnerFails ==
    /\ at = "run"
    /\ \/ KeepFile
       \/ config.planned /\ ~Pytest /\ WriteIfNone(Made("failed"))
    /\ at' = AfterFirst
    /\ NothingRan
    /\ UNCHANGED <<config, phase, timed, env, raw, exitFile, output, colour>>

StartTests ==
    /\ at = "run" /\ config.planned
    /\ \/ Pytest /\ at' = "phase" /\ phase' \in {"uv", "install"} /\ env' = env
       \/ ~Pytest /\ at' = "image" /\ env' = "run" /\ phase' = phase
    /\ NothingRan /\ UNCHANGED <<config, timed, raw, files, output, colour>>

(***************************************************************************)
(* run_single: uv run pytest; after an exit that is not about tests uv     *)
(* sync and once more; then pip.  All commands share one limit, whose rest *)
(* is read twice before a command starts: if it runs out between the two   *)
(* readings the command gets no limit at all.                              *)
(***************************************************************************)
Launch ==
    /\ at = "phase"
    /\ \/ /\ config.limited /\ phase # "uv"
          /\ at' = "wrapup" /\ raw' = "timeout" /\ timed' = timed
       \/ /\ at' = "running" /\ raw' = raw
          /\ CASE phase = "install" -> timed' = TRUE
               [] phase = "uv"      -> timed' = config.limited
               [] OTHER             -> timed' \in {config.limited, FALSE}
    /\ NothingRan /\ UNCHANGED <<config, phase, env, files, output, colour>>

Testing == at = "running" /\ (Pytest => phase \in {"uv", "retry", "pip"})

\* After an attempt of pytest
Retries(code) == /\ code = "infra"
                 /\ \/ phase = "uv"
                    \/ phase = "retry" /\ file' # "report"
AfterAttempt(code) ==
    IF Retries(code)
    THEN at' = "phase" /\ phase' = (IF phase = "uv" THEN "sync" ELSE "install")
    ELSE at' = "wrapup" /\ phase' = phase

\* pytest writes its JUnit file at the end of the session, if it gets there
AttemptEnds ==
    /\ Testing /\ Pytest
    /\ \E r \in Runs, code \in {"ok", "failed", "infra", "plugin"} :
        /\ \/ /\ code = "ok" /\ Listed(r) # {} /\ Those(r, "failed") = {}
              /\ Write(r)
           \/ /\ code = "failed" /\ Those(r, "failed") # {}
              /\ Write(r)
           \/ code \in {"infra", "plugin"} /\ \E p \in Parts(r) : Write(p)
           \/ code # "ok" /\ KeepFile
           \/ code = "plugin" /\ Tear
        /\ Ran(r)
        /\ raw' = code
        /\ AfterAttempt(code)
    /\ UNCHANGED <<config, timed, env, exitFile, output, colour>>

SyncEnds ==
    /\ at = "running" /\ Pytest /\ phase = "sync"
    /\ at' = "phase" /\ phase' = "retry"
    /\ NothingRan /\ UNCHANGED <<config, timed, env, raw, files, output, colour>>

InstallEnds ==
    /\ at = "running" /\ Pytest /\ phase = "install"
    /\ \/ at' = "phase" /\ phase' = "pip" /\ raw' = raw
       \/ at' = "wrapup" /\ phase' = phase /\ raw' = "infra"
    /\ NothingRan /\ UNCHANGED <<config, timed, env, files, output, colour>>

\* The command has exited but a child of it holds its output, which _run_with_tee
\* reads to the end whatever the limit; or, of an installation, what runs is one
\* of the two imports around pip, which have none
OutputHeld ==
    /\ at = "running" /\ Pytest /\ timed
    /\ timed' = FALSE
    /\ NothingRan /\ UNCHANGED <<config, at, phase, env, raw, files, output, colour>>

\* A session that is cut short may still write its file
SessionCut == \E r \in Runs : /\ Ran(r)
                              /\ \/ \E p \in Parts(r) : Write(p)
                                 \/ KeepFile
                                 \/ Tear

WrongAttemptTimesOut == timed /\ phase = "uv"
AttemptTimesOut == timed
PytestTimesOut ==
    /\ at = "running" /\ Pytest /\ AttemptTimesOut
    /\ \/ phase \in {"sync", "install"} /\ KeepFile /\ NothingRan
       \/ Testing /\ SessionCut
    /\ raw' = "timeout" /\ at' = "wrapup"
    /\ UNCHANGED <<config, phase, timed, env, exitFile, output, colour>>

(***************************************************************************)
(* After the tests: _ensure_failure_junit, and the code that is recorded.  *)
(* A file that holds cases is kept; else the statuses on the console, else *)
(* a stand-in, make one.  Of a torn file it depends on the tear.           *)
(***************************************************************************)
WrongHoldsCases == FALSE
HoldsCases == file = "report" /\ Listed(cases) # {}

EnsureJunit ==
    \/ raw = "ok" /\ KeepFile
    \/ raw # "ok" /\ (HoldsCases \/ file = "torn") /\ KeepFile
    \/ /\ raw # "ok" /\ ~HoldsCases
       /\ IF Listed(trace) # {} THEN Write(trace) ELSE WriteIfNone(Made("failed"))

RecordsZero == IF raw = "timeout" THEN config.tolerant
               ELSE StrictZero(file', cases', raw = "ok")

WrapUp ==
    /\ at = "wrapup"
    /\ EnsureJunit
    /\ exitFile' = IF RecordsZero THEN exitFile ELSE "nonzero"
    /\ at' = "summary"
    /\ NothingRan /\ UNCHANGED <<config, phase, timed, env, raw, output, colour>>

(***************************************************************************)
(* The component's image: the scripts of the golang and playwright tasks,  *)
(* run_component_cypress.                                                  *)
(***************************************************************************)
NoEnv ==
    /\ at = "image" /\ env = "none"
    /\ \/ config.kind # "cypress" /\ KeepFile
       \/ config.kind = "playwright" /\ Write(Made("failed"))
       \/ config.kind = "cypress" /\ WriteIfNone(Made("failed"))
    /\ at' = "summary"
    /\ NothingRan
    /\ UNCHANGED <<config, phase, timed, env, raw, exitFile, output, colour>>

NothingToRun ==
    /\ at = "image" /\ env = "skip"
    /\ at' = "summary"
    /\ NothingRan
    /\ UNCHANGED <<config, phase, timed, env, raw, files, output, colour>>

\* No kubeconfig, directory, dashboard or browser
CommandFails ==
    /\ at = "image" /\ env = "run"
    /\ \/ KeepFile
       \/ config.kind = "cypress" /\ WriteIfNone(Made("failed"))
    /\ at' = "summary"
    /\ NothingRan
    /\ UNCHANGED <<config, phase, timed, env, raw, exitFile, output, colour>>

StartCommand ==
    /\ at = "image" /\ env = "run"
    /\ at' = "running" /\ timed' = config.limited
    /\ NothingRan
    /\ UNCHANGED <<config, phase, env, raw, files, output, colour>>

\* The command is over.  The script copies the first JUnit file it finds, or
\* writes a stand-in if the command failed; the cypress runner merges what it
\* finds and writes none.
CommandOver(code) ==
    /\ \E r \in Runs :
        /\ Ran(r)
        /\ \/ \E p \in Parts(r) : Write(p)
           \/ config.kind # "cypress" /\ Tear
           \/ /\ config.kind # "cypress" /\ code # "ok"
              /\ Write(Made("failed"))
           \/ (config.kind = "cypress" \/ code = "ok") /\ KeepFile
    /\ raw' = code /\ at' = "summary"
    /\ UNCHANGED <<config, phase, timed, env, exitFile, output, colour>>

CommandEnds == /\ at = "running" /\ ~Pytest
               /\ \E code \in {"ok", "failed"} : CommandOver(code)
\* timeout sends one signal: a command that survives it goes on
CommandTimesOut == at = "running" /\ ~Pytest /\ timed /\ CommandOver("timeout")

\* The script itself is killed while it runs: the later steps find what is there
RunnerDies ==
    /\ at \in {"phase", "running", "wrapup"}
    /\ \/ Testing /\ Pytest /\ SessionCut
       \/ Testing /\ ~Pytest /\ KeepFile /\ \E r \in Runs : Ran(r)
       \/ ~Testing /\ KeepFile /\ NothingRan
    /\ at' = "summary"
    /\ UNCHANGED <<config, phase, timed, env, raw, exitFile, output, colour>>

(***************************************************************************)
(* summarize-component-results and write-konflux-task-summary: the second  *)
(* writes TEST_OUTPUT if the first did not.  For cypress both collect the  *)
(* reports if there is no JUnit file yet.                                  *)
(***************************************************************************)
WrongResult(f, c) ==
    IF f # "report" \/ Listed(c) = {} THEN "FAILURE"
    ELSE IF Those(c, "failed") = {} THEN "SUCCESS" ELSE "WARNING"
Result(f, c) ==
    IF f # "report" \/ Those(c, "passed") = {} THEN "FAILURE"
    ELSE IF Those(c, "failed") = {} THEN "SUCCESS" ELSE "WARNING"

Collect ==
    \/ KeepFile
    \/ /\ config.kind = "cypress" /\ config.planned /\ file = "none"
       /\ \E p \in Parts(trace) : Listed(p) # {} /\ Write(p)

\* The result is written, or the step fails on the way
Publish == Collect /\ output' \in {"none", Result(file', cases')}

Summarize ==
    /\ at = "summary"
    /\ Publish
    /\ at' = "message"
    /\ NothingRan /\ UNCHANGED <<config, phase, timed, env, raw, exitFile, colour>>

WriteMessage ==
    /\ at = "message"
    /\ IF output = "none" THEN Publish ELSE KeepFile /\ output' = output
    /\ at' = "finalize"
    /\ NothingRan /\ UNCHANGED <<config, phase, timed, env, raw, exitFile, colour>>

(***************************************************************************)
(* finalize-component-exit.  A missing exit file counts as a failure; the  *)
(* task of the pytest runner alone is shown TEST_OUTPUT.                   *)
(***************************************************************************)
Forced == Pytest /\ output = "FAILURE"

Finalize ==
    /\ at = "finalize"
    /\ LET zero == exitFile = "zero"
           step == StepZero(file, cases, zero) /\ ~Forced
           code == StrictZero(file, cases, zero) /\ ~Forced
       IN  \/ /\ ~config.planned
              /\ exitFile' = exitFile
              /\ colour' = IF zero THEN "green" ELSE "red"
           \/ /\ config.planned
              /\ exitFile' = IF code THEN "zero" ELSE "nonzero"
              /\ colour' = IF step THEN "green" ELSE "red"
           \/ /\ config.planned
              /\ exitFile' = "nonzero"
              /\ colour' = "drift"
    /\ at' = "end"
    /\ NothingRan
    /\ UNCHANGED <<config, phase, timed, env, raw, file, cases, output>>

\* The last step fails, or Tekton's timeout stops the pod
Stops ==
    /\ at' = "end" /\ colour' = "stopped"
    /\ NothingRan /\ UNCHANGED <<config, phase, timed, env, raw, files, output>>

FinalizeFails == at = "finalize" /\ Stops
PodTimesOut == at # "end" /\ Stops

TimesOut == PytestTimesOut \/ CommandTimesOut

Script ==
    \/ TestsSkipped
    \/ RunnerFails
    \/ StartTests
    \/ Launch
    \/ WrapUp
    \/ NoEnv
    \/ NothingToRun
    \/ CommandFails
    \/ StartCommand
    \/ Summarize
    \/ WriteMessage
    \/ Finalize
    \/ FinalizeFails

Next ==
    \/ Script
    \/ TimesOut
    \/ AttemptEnds
    \/ SyncEnds
    \/ InstallEnds
    \/ OutputHeld
    \/ CommandEnds
    \/ RunnerDies
    \/ PodTimesOut

\* Scripts go on by themselves, and _run_with_tee ends the command that it waits
\* for when the limit is over, by a kill in the end.  The tests need not end, the
\* signal of a timeout command need not end them, nor need Tekton stop the pod.
Spec == Init /\ [][Next]_vars /\ WF_vars(Script) /\ WF_vars(PytestTimesOut)

-----------------------------------------------------------------------------
TypeOK ==
    /\ config \in Configs
    /\ at \in Steps
    /\ phase \in Phases
    /\ timed \in BOOLEAN
    /\ env \in {"none", "skip", "run"}
    /\ raw \in Exits
    /\ file \in {"none", "torn", "report"}
    /\ cases \in Reports
    /\ trace \in Runs
    /\ passedOnce \subseteq Tests
    /\ exitFile \in {"missing", "zero", "nonzero"}
    /\ output \in {"none", "SUCCESS", "WARNING", "FAILURE"}
    /\ colour \in {"pending", "green", "red", "drift", "stopped"}

\* A green task has run a test that passed: none is green on a stand-in, a
\* skipped suite, a torn or an empty file, or on no file at all (the resolution
\* in finalize_component_task_exit.py of whatever the other steps left).
GreenHasPassed == colour = "green" => passedOnce # {}

\* The exit file and the colour, made of two results of one resolution, agree:
\* the file says 0 only of a green task, and then of a suite without a failed case
\* or with enough passed ones among all, skipped ones included
\* (resolve_component_exit_codes and what finalize makes of its two codes).
ZeroIsEarned ==
    exitFile = "zero" =>
        /\ colour = "green"
        /\ file = "report" /\ Those(cases, "passed") # {}
        /\ Those(cases, "failed") = {} \/ MeetsRate(cases)

\* The task is red exactly if its TEST_OUTPUT says FAILURE, though the two are
\* made by different steps of different files; but for drift and for a task that
\* was stopped (the comment at the end of finalize_component_task_exit.py).
BadgeIsColour ==
    colour \in {"green", "red"} /\ output # "none" =>
        (output = "FAILURE" <=> colour = "red")

\* What the JUnit file holds is replaced by the results of a later attempt only:
\* never by a stand-in, nor by what the console or a collection of reports makes
\* of the same tests (_ensure_failure_junit, write_single_failure_junit,
\* ensure_dashboard_cypress_junit_collected and the scripts).
ResultsAreKept ==
    [][Listed(cases) # {} =>
         cases' = cases \/ (Testing /\ cases'[StandIn] = "absent")]_vars

\* The task keeps the promise that the pipeline is modelled with.
Verdict == INSTANCE TestVerdict WITH
    status <- CASE colour = "pending" -> "pending"
                [] colour = "green"   -> "succeeded"
                [] OTHER              -> "failed",
    found  <- IF colour = "pending" THEN {}
              ELSE {k \in {"passed", "failed"} :
                      \/ k = "passed" /\ Those(cases, "passed") # {}
                      \/ k = "failed" /\ Those(cases, "failed") \cup Those(cases, "skipped") # {}}
KeepsPromise == Verdict!Spec

\* A task ends by itself, although no test need end, or it hangs for good in one
\* command: of a script in the component's image, or of the pytest runner without
\* a limit in force.  No attempt outlives the budget otherwise, whichever of the
\* commands that share it is running when it is used up
\* (_ComponentTestTimeoutBudget).
HangsOnlyWithoutLimit ==
    <>(at = "end") \/ <>[](at = "running" /\ (Pytest => ~timed))

\* The claim of run_component_pytest.py and of the README: a component of the
\* pytest runner that hit its time limit, and may not, is not green.
TimedOutIsNotGreen ==
    Pytest /\ raw = "timeout" /\ ~config.tolerant => colour # "green"
=============================================================================
