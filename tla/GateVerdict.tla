----------------------------- MODULE GateVerdict -----------------------------
(***************************************************************************)
(* One PipelineRun of rhoai-e2e, from the gate on the Enterprise Contract  *)
(* (conforma) runs of its snapshot to the check with which it publishes    *)
(* its results: which tasks run, which are skipped, and when the run is    *)
(* green.  Tekton is external: it skips a task whose when expression is    *)
(* false or that uses a result of a skipped task, goes on after a failed   *)
(* task only where the pipeline says onError: continue, and runs           *)
(* publish-results at the end.                                             *)
(*                                                                         *)
(* The tasks are taken in an order their runAfter allows; tasks that may   *)
(* run side by side (the extraction of the image and the cluster) share    *)
(* nothing this module keeps.  The three tasks of an ephemeral cluster and *)
(* the two of an external one are "cluster", the installations of the two  *)
(* products "install", the chain of test-* tasks "tests".                  *)
(***************************************************************************)
EXTENDS Naturals, FiniteSets

CONSTANTS Runs,         \* conforma PipelineRuns the snapshot may get
          Components,   \* components of the catalog, numbered in its order
          PollLimit     \* polls the conforma gate makes before its deadline

ASSUME RunsAssumption == IsFiniteSet(Runs)
ASSUME ComponentsAssumption == Components \subseteq Nat
ASSUME PollLimitAssumption == PollLimit \in Nat \ {0}

VARIABLES request,   \* the parameters of the run, and Tekton's skipping rule
          at,        \* the task whose turn it is
          state,     \* task -> what became of it
          test,      \* component -> what became of its test task
          decision,  \* why the conforma gate passed or skipped
          ec,        \* conforma run -> where it is
          polls,     \* polls made by the conforma gate
          plan,      \* the component test plan: "none" or "exported"
          chosen,    \* components with a true RUN_SMOKE_<id>
          cases,     \* source -> kinds of test case its JUnit files hold
          verdict    \* the colour of the PipelineRun

vars == <<request, at, state, test, decision, ec, polls, plan, chosen, cases,
          verdict>>

Gates == {"bvt", "smoke", "tier1"}
Tasks == {"parse", "conforma", "extract", "fbc", "cluster", "registry", "deps",
          "install", "verify", "prepare", "flags", "bvt", "tests", "finalize"}
\* Tasks without onError: continue
WrongHard == Tasks \ {"install", "fbc", "prepare", "tests", "finalize"}
Hard == Tasks \ {"fbc", "prepare", "tests", "finalize"}
Statuses == {"pending", "succeeded", "failed", "when", "unreachable"}
Executed == {"succeeded", "failed"}
Skipped == {"when", "unreachable"}
Passing == {"disabled", "passed"}
Skipping == {"old", "nosnapshot", "failed", "timeout"}
\* A skipped case is left out: among the basic verification tests it counts
\* like a passed one, elsewhere like a failed one.
CaseKinds == {"passed", "failed"}
Sources == {"bvt", "smoke", "structural"}

(***************************************************************************)
(* Parameters of a run.  A run of the structural tests alone is started by *)
(* the command line only, with no cluster and no gates.  A run that does   *)
(* not install has an external cluster or none, and does not wait for      *)
(* conforma whatever it is told.  strict says whether Tekton also skips    *)
(* what only runs after a task it skipped for a missing result.            *)
(***************************************************************************)
Requests ==
    {r \in [installs: BOOLEAN, cluster: BOOLEAN, deps: BOOLEAN,
            structural: BOOLEAN, structuralOnly: BOOLEAN, wait: BOOLEAN,
            snapshot: BOOLEAN, old: BOOLEAN, strict: BOOLEAN,
            gates: SUBSET Gates, components: SUBSET Components \ {{}}] :
        /\ r.structuralOnly => r.structural /\ r.gates = {}
        /\ r.installs => r.cluster
        /\ r.structural => r.installs
        /\ ~r.installs => r.wait /\ r.snapshot
        /\ r.old => r.snapshot /\ r.installs
        /\ r.deps => ~r.installs}

(***************************************************************************)
(* parse-pipeline-tests: the flags derived from the parameters.            *)
(***************************************************************************)
Selected == IF request.structuralOnly THEN {}
            ELSE IF request.gates = {} THEN {"bvt", "smoke"}
            ELSE request.gates
SnapshotOnly == ~request.cluster
RunBvt == "bvt" \in Selected
RunComponents == Selected \cap {"smoke", "tier1"} # {} /\ ~SnapshotOnly
RunDeps == /\ ~request.structuralOnly
           /\ request.installs \/ (RunComponents /\ request.deps)
RunFinalize == request.structuralOnly \/ RunComponents

Pass == decision \in Passing

\* The when expressions of each task
Wanted(t) ==
    \/ t \in {"parse", "conforma"}
    \/ t = "extract" /\ Pass
    \/ t = "fbc" /\ Pass /\ request.structural
    \/ /\ t = "cluster"
       /\ Pass /\ ~request.structuralOnly /\ ~SnapshotOnly
    \/ t = "registry" /\ Pass /\ RunDeps
    \/ t = "deps" /\ Pass
    \/ t = "install" /\ Pass /\ request.installs
    \/ t = "verify" /\ Pass /\ ~request.structuralOnly /\ ~SnapshotOnly
    \/ t = "prepare" /\ Pass
    \/ t = "flags" /\ Pass /\ (RunBvt \/ RunComponents)
    \/ t = "bvt" /\ Pass /\ RunBvt
    \/ t = "tests" /\ Pass /\ RunComponents /\ chosen # {}
    \/ t = "finalize" /\ Pass /\ RunFinalize

\* <<t, u>>: t uses a result of u
Uses == {<<"fbc", "extract">>, <<"deps", "registry">>, <<"install", "deps">>,
         <<"install", "extract">>, <<"verify", "extract">>,
         <<"prepare", "verify">>, <<"flags", "prepare">>,
         <<"bvt", "prepare">>, <<"tests", "flags">>, <<"tests", "prepare">>}

\* <<t, u>>: t runs after u (beyond the results it uses)
RunsAfter == {<<"cluster", "fbc">>, <<"registry", "cluster">>,
              <<"deps", "cluster">>, <<"install", "cluster">>,
              <<"install", "registry">>, <<"verify", "install">>,
              <<"verify", "cluster">>, <<"prepare", "install">>,
              <<"prepare", "cluster">>, <<"prepare", "deps">>,
              <<"flags", "install">>, <<"flags", "deps">>,
              <<"bvt", "flags">>, <<"tests", "bvt">>, <<"finalize", "fbc">>,
              <<"finalize", "prepare">>, <<"finalize", "bvt">>,
              <<"finalize", "tests">>}

\* Tekton skips t for what became of the tasks before it
Blocked(t) ==
    \E u \in Tasks : \/ <<t, u>> \in Uses /\ state[u] \in Skipped
                     \/ /\ request.strict
                        /\ <<t, u>> \in RunsAfter
                        /\ state[u] = "unreachable"

After == [t \in Tasks |->
    CASE t = "parse"    -> "conforma"
      [] t = "conforma" -> "extract"
      [] t = "extract"  -> "fbc"
      [] t = "fbc"      -> "cluster"
      [] t = "cluster"  -> "registry"
      [] t = "registry" -> "deps"
      [] t = "deps"     -> "install"
      [] t = "install"  -> "verify"
      [] t = "verify"   -> "prepare"
      [] t = "prepare"  -> "flags"
      [] t = "flags"    -> "bvt"
      [] t = "bvt"      -> "tests"
      [] t = "tests"    -> "finalize"
      [] OTHER          -> "publish"]

Init ==
    /\ request \in Requests
    /\ at = "parse"
    /\ state = [t \in Tasks |-> "pending"]
    /\ test = [c \in Components |-> "pending"]
    /\ decision = "none"
    /\ ec = [r \in Runs |-> "absent"]
    /\ polls = 0
    /\ plan = "none"
    /\ chosen = {}
    /\ cases = [s \in Sources |-> {}]
    /\ verdict = "none"

\* The task is over and the pipeline goes on
Close(t, status) == /\ state' = [state EXCEPT ![t] = status]
                    /\ at' = After[t]

\* A task without onError: continue fails: nothing more is started.  Without
\* the result of the conforma gate publish-results cannot start either.
Stop(t) ==
    /\ state' = [u \in Tasks |-> IF u = t THEN "failed"
                                 ELSE IF state[u] = "pending" THEN "unreachable"
                                 ELSE state[u]]
    /\ test' = [c \in Components |-> IF test[c] = "pending" THEN "unreachable"
                                     ELSE test[c]]
    /\ IF t \in {"parse", "conforma"}
       THEN at' = "end" /\ verdict' = "red"
       ELSE at' = "publish" /\ verdict' = verdict

Parse ==
    /\ at = "parse"
    /\ \/ Close("parse", "succeeded") /\ UNCHANGED <<test, verdict>>
       \/ Stop("parse")
    /\ UNCHANGED <<request, decision, ec, polls, plan, chosen, cases>>

(***************************************************************************)
(* wait-for-conforma.  A snapshot whose metadata cannot be read counts as  *)
(* recent enough.  A listing that failed and one that holds no conforma    *)
(* run, or one still running, only use up the time.                        *)
(***************************************************************************)
Decide(d) ==
    /\ decision' = d
    /\ polls' = 0
    /\ Close("conforma", "succeeded")
    /\ UNCHANGED <<request, test, ec, plan, chosen, cases, verdict>>

BelowMinimum == at = "conforma" /\ request.old /\ Decide("old")

NoSnapshot == /\ at = "conforma"
              /\ request.installs /\ request.wait /\ ~request.snapshot
              /\ Decide("nosnapshot")

Bypass == /\ at = "conforma"
          /\ ~request.wait \/ ~request.installs
          /\ Decide("disabled")

StartPolling ==
    /\ at = "conforma"
    /\ request.installs /\ request.wait /\ request.snapshot
    /\ at' = "polling"
    /\ UNCHANGED <<request, state, test, decision, ec, polls, plan, chosen,
                   cases, verdict>>

Finished == {r \in Runs : ec[r] \in {"passed", "failed"}}
Known == {r \in Runs : ec[r] # "absent"}
WrongConclusive == Finished # {}
Conclusive == Known # {} /\ Known = Finished

Evaluate ==
    /\ at = "polling" /\ polls < PollLimit /\ Conclusive
    /\ Decide(IF \E r \in Runs : ec[r] = "failed" THEN "failed" ELSE "passed")

WrongPollAgain ==
    /\ at = "polling"
    /\ polls' = polls + 1
    /\ UNCHANGED <<request, at, state, test, decision, ec, plan, chosen, cases,
                   verdict>>
PollAgain ==
    /\ at = "polling" /\ polls < PollLimit
    /\ polls' = polls + 1
    /\ UNCHANGED <<request, at, state, test, decision, ec, plan, chosen, cases,
                   verdict>>

WrongPollTimesOut == /\ at = "polling" /\ polls = PollLimit /\ Known # {}
                     /\ Decide("timeout")
PollTimesOut == at = "polling" /\ polls = PollLimit /\ Decide("timeout")

ConformaDies == /\ at \in {"conforma", "polling"}
                /\ Stop("conforma")
                /\ polls' = 0
                /\ UNCHANGED <<request, decision, ec, plan, chosen, cases>>

(***************************************************************************)
(* The integration service and the conforma pipelines (external), as far   *)
(* as the gate sees them: until it decides.                                *)
(***************************************************************************)
ConformaProgress ==
    /\ at = "polling"
    /\ \E r \in Runs :
        /\ \/ ec[r] = "absent" /\ ec' = [ec EXCEPT ![r] = "running"]
           \/ /\ ec[r] = "running"
              /\ \E s \in {"passed", "failed"} : ec' = [ec EXCEPT ![r] = s]
    /\ UNCHANGED <<request, at, state, test, decision, polls, plan, chosen,
                   cases, verdict>>

(***************************************************************************)
(* The tasks after the gate.                                               *)
(***************************************************************************)
Ready(t) == at = t /\ ~Blocked(t) /\ Wanted(t)

PassOver ==
    /\ \E t \in Tasks \ {"parse", "conforma", "tests"} :
        /\ at = t
        /\ \/ Blocked(t) /\ Close(t, "unreachable")
           \/ ~Blocked(t) /\ ~Wanted(t) /\ Close(t, "when")
    /\ UNCHANGED <<request, test, decision, ec, polls, plan, chosen, cases,
                   verdict>>

\* extract-fbcf-image, the cluster, the registry, the dependencies, the
\* operator and its verification: a failure ends the run
RunTask ==
    /\ \E t \in {"extract", "cluster", "registry", "deps", "install", "verify"} :
        /\ Ready(t)
        /\ \/ Close(t, "succeeded") /\ UNCHANGED <<test, verdict>>
           \/ Stop(t)
    /\ UNCHANGED <<request, decision, ec, polls, plan, chosen, cases>>

\* validate-fbc-structural: goes on after a failure; its JUnit files are under
\* the directory of all results
StructuralTests ==
    /\ Ready("fbc")
    /\ \E status \in Executed, found \in SUBSET CaseKinds :
        /\ Close("fbc", status)
        /\ cases' = [cases EXCEPT !["structural"] = found]
    /\ UNCHANGED <<request, test, decision, ec, polls, plan, chosen, verdict>>

\* opendatahub-tests-prepare: goes on after a failure, with the plan or without
Prepare ==
    /\ Ready("prepare")
    /\ \/ Close("prepare", "succeeded") /\ plan' = "exported"
       \/ Close("prepare", "failed") /\ plan' \in {"none", "exported"}
    /\ UNCHANGED <<request, test, decision, ec, polls, chosen, cases, verdict>>

\* resolve-component-run-flags: components the installed version is too old or
\* too new for are left out
ResolveFlags ==
    /\ Ready("flags") /\ plan = "exported"
    /\ \/ /\ Close("flags", "succeeded")
          /\ IF RunComponents THEN chosen' \in SUBSET request.components
             ELSE chosen' = {}
          /\ UNCHANGED <<test, verdict>>
       \/ Stop("flags") /\ chosen' = chosen
    /\ UNCHANGED <<request, decision, ec, polls, plan, cases>>

\* A result that the failed preparation has not written ends the run at once
InvalidReference ==
    /\ at = "flags" /\ ~Blocked("flags") /\ plan = "none"
    /\ at' = "end"
    /\ verdict' = "red"
    /\ UNCHANGED <<request, state, test, decision, ec, polls, plan, chosen, cases>>

\* The strict gate of the basic verification tests
WrongBvtAccepted(found) == "passed" \in found
BvtAccepted(found) == found # {} /\ "failed" \notin found

\* bvt-health-checks: must pass before a component is tested
Bvt ==
    /\ Ready("bvt")
    /\ \E found \in SUBSET CaseKinds :
        /\ cases' = [cases EXCEPT !["bvt"] = found]
        /\ \/ /\ BvtAccepted(found)
              /\ Close("bvt", "succeeded")
              /\ UNCHANGED <<test, verdict>>
           \/ Stop("bvt")
    /\ UNCHANGED <<request, decision, ec, polls, plan, chosen>>

\* One test-* task takes the step of TestVerdict, which ComponentTask implements:
\* green only if a test passed; the next component follows in any case
TestComponent ==
    /\ Ready("tests")
    /\ \E c \in chosen, status \in Executed, found \in SUBSET CaseKinds :
        /\ test[c] = "pending"
        /\ \A d \in chosen : d < c => test[d] # "pending"
        /\ status = "succeeded" => "passed" \in found
        /\ test' = [test EXCEPT ![c] = status]
        /\ cases' = [cases EXCEPT !["smoke"] = @ \cup found]
    /\ UNCHANGED <<request, at, state, decision, ec, polls, plan, chosen, verdict>>

\* The chain of the test-* tasks is over, or none of them is started
TestsOver ==
    /\ at = "tests"
    /\ \/ /\ Ready("tests") /\ \A c \in chosen : test[c] # "pending"
          /\ Close("tests", "succeeded")
          /\ test' = [c \in Components |-> IF c \in chosen THEN test[c] ELSE "when"]
       \/ /\ Blocked("tests")
          /\ Close("tests", "unreachable")
          /\ test' = [c \in Components |-> "unreachable"]
       \/ /\ ~Blocked("tests") /\ ~Wanted("tests")
          /\ Close("tests", "when")
          /\ test' = [c \in Components |-> "when"]
    /\ UNCHANGED <<request, decision, ec, polls, plan, chosen, cases, verdict>>

\* test-finalize: goes on after a failure
Finalize ==
    /\ Ready("finalize")
    /\ \/ Close("finalize", "failed")
       \/ /\ request.structuralOnly \/ "passed" \in cases["smoke"] \cup cases["structural"]
          /\ Close("finalize", "succeeded")
    /\ UNCHANGED <<request, test, decision, ec, polls, plan, chosen, cases,
                   verdict>>

(***************************************************************************)
(* publish-results.  The text of a gate counts the cases of the JUnit      *)
(* files its summary has read: for smoke all files below the directory of  *)
(* the results but those of the basic verification tests, so the           *)
(* structural ones too.  tier1 has no text.  Any text may be lost: the     *)
(* steps that write it go on after a failure.                              *)
(***************************************************************************)
Counted ==
    {g \in {"bvt", "smoke"} :
        \/ g = "bvt" /\ state["bvt"] \in Executed /\ cases["bvt"] # {}
        \/ /\ g = "smoke" /\ state["finalize"] \in Executed
           /\ cases["smoke"] \cup cases["structural"] # {}}

InstallTasks == IF request.installs THEN {"deps", "install"} ELSE {}

\* check-requested-gates-ran, with the gate texts it finds.  Each of its three
\* looks at the PipelineRun may fail: "seen" or "lost".
Intentional(known) == decision = "old" /\ known = "seen"
NotRun(listed) == {t \in InstallTasks : listed = "lost" \/ state[t] \notin Executed}
Blockers(listed) == {t \in InstallTasks : listed = "seen" /\ state[t] # "succeeded"}
WrongHollow(texts) == {g \in request.gates : g \notin texts /\ state["tests"] # "when"}
Hollow(texts) == {g \in request.gates : g \notin texts}

CheckFails(texts, known, listed, relisted) ==
    /\ ~request.structuralOnly /\ request.gates # {} /\ ~Intentional(known)
    /\ \/ decision \in Skipping
       \/ NotRun(listed) # {}
       \/ Hollow(texts) # {} /\ Blockers(relisted) = {}

HardFailure == \E t \in Hard : state[t] = "failed"

Publish ==
    /\ at = "publish"
    /\ at' = "end"
    /\ \/ verdict' = "red"
       \/ /\ ~HardFailure
          /\ \E texts \in SUBSET Counted, known, listed, relisted \in {"seen", "lost"} :
                ~CheckFails(texts, known, listed, relisted)
          /\ verdict' = "green"
    /\ UNCHANGED <<request, state, test, decision, ec, polls, plan, chosen, cases>>

Run ==
    \/ Parse
    \/ BelowMinimum
    \/ NoSnapshot
    \/ Bypass
    \/ StartPolling
    \/ Evaluate
    \/ PollAgain
    \/ PollTimesOut
    \/ PassOver
    \/ RunTask
    \/ StructuralTests
    \/ Prepare
    \/ ResolveFlags
    \/ InvalidReference
    \/ Bvt
    \/ TestComponent
    \/ TestsOver
    \/ Finalize
    \/ Publish

Next == Run \/ ConformaDies \/ ConformaProgress

\* A task's script goes on by itself and Tekton starts the next one; nothing is
\* assumed of the conforma pipelines, and no task need fail.
Spec == Init /\ [][Next]_vars /\ WF_vars(Run)

-----------------------------------------------------------------------------
TypeOK ==
    /\ request \in Requests
    /\ at \in Tasks \cup {"polling", "publish", "end"}
    /\ state \in [Tasks -> Statuses]
    /\ test \in [Components -> Statuses]
    /\ decision \in {"none"} \cup Passing \cup Skipping
    /\ ec \in [Runs -> {"absent", "running", "passed", "failed"}]
    /\ polls \in 0..PollLimit
    /\ plan \in {"none", "exported"}
    /\ chosen \subseteq request.components
    /\ cases \in [Sources -> SUBSET CaseKinds]
    /\ verdict \in {"none", "green", "red"}

\* No task is started for a snapshot that was found too old, had no conforma
\* run to wait for, or whose conforma runs did not all pass: when the gate
\* waited, every run it could see has passed and there is one
\* (evaluate_conforma_runs, and the when expressions of the pipeline).
TestedIsConforming ==
    \A t \in Tasks \ {"parse", "conforma"} :
        state[t] \in Executed =>
            \/ decision = "disabled" /\ (~request.wait \/ ~request.installs)
            \/ /\ decision = "passed"
               /\ Known # {}
               /\ \A r \in Known : ec[r] = "passed"

\* A component is tested only after the basic verification tests, if they are
\* requested, have run without a failed case, and only on what this run has
\* installed, if it installs (bvt-health-checks without onError: continue, and
\* the results each task takes from the one before).
BvtGuards ==
    \A c \in Components :
        test[c] \in Executed =>
            /\ RunBvt => state["bvt"] = "succeeded" /\ "failed" \notin cases["bvt"]
            /\ request.installs => state["install"] = "succeeded"
            /\ state["verify"] = "succeeded"

\* A green run that was asked for gates and to install has installed the
\* dependencies and the operator and has seen the operator ready, unless the
\* snapshot was below the minimum version (check-requested-gates-ran).
GreenMeansInstalled ==
    /\ verdict = "green" /\ request.gates # {} /\ request.installs
    /\ decision # "old"
    => \A t \in {"deps", "install", "verify"} : state[t] = "succeeded"

\* In a green run every requested gate has a test case of its own, unless the
\* snapshot was below the minimum version; of runs with structural tests this
\* is not said of the smoke gate (check-requested-gates-ran).
GreenMeansRan ==
    verdict = "green" /\ decision # "old" =>
        \A g \in request.gates :
            \/ g = "bvt" /\ state["bvt"] = "succeeded" /\ cases["bvt"] # {}
            \/ g = "smoke" /\ (request.structural \/ cases["smoke"] # {})

\* Every run ends, whatever the conforma runs do (poll_conforma_gate's deadline).
EveryRunEnds == <>(at = "end")

\* The claim of check_requested_gates_ran.py: a green run that was asked for the
\* smoke gate has started the tests of a component.
NoHollowSmoke ==
    verdict = "green" /\ decision # "old" /\ "smoke" \in request.gates =>
        \E c \in Components : test[c] \in Executed
=============================================================================
