# Verification project for odh-konflux-central

TLA+ models of the parts of this repository that have state, run concurrently or have
to survive failures, the TLC runs that check them on small instances, and theorems
about them proved with TLAPS for every instance.

| Directory entry | What it is |
| --- | --- |
| `EarlyGateWorld`, `CheckOngoingJobs`, `TriggerTestPipeline`, `MonitorJenkinsJob`, `EarlyGateTest` | the early gate test pipeline: environment, three tasks, their composition |
| `TestTicket` | abstract specification: what the bot's comments promise |
| `EarlyGateBuild` | group testing and the pipeline that builds the catalog of a group |
| `PushBuildMetadata`, `DigestStore` | the publisher of build metadata and the abstract store it implements |
| `ExternalCluster` | the wait for a shared cluster and the kubeconfig Secret of a command line |
| `OperatorInstall` | the installer and OLM on one cluster |
| `DscBaseline` | the component tasks that share one DataScienceCluster |
| `ComponentTask`, `TestVerdict` | the test task of a component, and the promise it keeps to the pipeline |
| `GateVerdict` | one rhoai-e2e pipeline: Conforma gate, skipped tasks, gates, colour |
| `MC*.tla`, `*.cfg` | instances for TLC |
| `*Proofs.tla` | theorems and proofs |

`PROJECT.json` relates every definition to the source lines it models, lists the hazards
of the code with the properties that watch them, and the findings.

## Inventory of the system

Most of the repository is declarative: Tekton pipelines, PipelineRuns and Konflux
resources. Program logic is in two places.

**The early gate** (`early-gate/`, bash steps of Tekton tasks). A pull request is built
and tested before it is merged.

| Component | State it keeps | Operations | What makes it correct |
| --- | --- | --- | --- |
| `early-gate-test-pipeline` | none of its own: the bot's comments on the pull request, which any number of executions share | start, resume, stop by failure, eviction, cancellation, timeout | every execution ends, and its verdict is on the pull request |
| `check-ongoing-jobs` | reads the comments | scan, group by correlation id, resolve a queue item, check a job's status, resume or start afresh | never resumes what has ended, never mixes two cycles |
| `trigger-test-pipeline` | posts the queue comment | dispatch a GitHub workflow, find its run, read the queue URL from its log | one Jenkins job per cycle, known by its comment |
| `monitor-jenkins-job` | posts job and completion comments, deletes intermediate ones | phase A (item to job), B (poll), C (summary), report, exit code | comment and exit code agree; completion only after the job's end |
| `push-build-metadata` | main branch and `build-meta/<digest>` branches of another repository | clone, push, force-push of a branch, merge, presence check, deletion | success means published; nobody unpublishes anybody |
| `resolve-group-configuration`, `check-group-config`, `generate-snapshot-for-group-testing` | read the leader's description and the tags that the pull requests' own pipelines move | which pull requests form a group, which images the snapshot takes, which repositories Jenkins is told of | the two readings agree; a row of the table tells what was taken |
| `early-gate-component-pipeline`, `prefetch-operand-manifests`, `post-build-complete-comment` | the catalog's tag, the comment | override operands and manifests, build, tag, validate, comment | the comment is true of the catalog; manifests fit images |
| `bundle-processor`, `fbc-processor`, operator pipeline | none | build images | - |

The executions interact only through comments, through the runs of two GitHub workflow
files (a dispatch answers nothing that names its run) and through Jenkins.

**rhoai-e2e** (`integration-tests/rhoai-e2e/`, Python steps of one long Tekton pipeline
and a command line). It installs the operator on a cluster and tests one component
after the other.

| Component | State it keeps | Operations | What makes it correct |
| --- | --- | --- | --- |
| shared external clusters | PipelineRuns of a namespace, kubeconfig Secrets | list active runs, wait, give up, upload and delete a Secret | two runs never use a cluster together; every wait ends |
| component tasks on one DataScienceCluster | the resource's `spec.components`, `.dsc-baseline.json`, marker files, drift files | prepare, capture, compare, restore, gate, blame | no component is tested on, or failed for, what another one left |
| install of the operator | Subscription, CSVs, unpack Jobs on the cluster; `INSTALL_STATUS` | reset, subscribe, wait for the unpack, recover (failure, stall, kick, CSV), wait for the CSV | reports the version it asked for; recoveries are bounded and leave a Subscription; the installer ends |
| Conforma gate | none | decide, or wait for another pipeline's runs | nothing is tested that does not conform; the wait is bounded |
| pipeline: flags, gates, `publish-results` | results of tasks, texts of gates | derive flags, skip tasks, sum up, check | a green run has installed and tested what it was asked for |
| component test task | JUnit file, exit files, `TEST_OUTPUT` | attempts, stand-ins, salvage, summary, exit code | green means that a test passed; results are not lost; the parts agree |
| dependencies, gateway, registry, orchestration, reports, command line | files of one run | oc calls in sequence, merge outputs, show state | - |

Remaining parts - pipelines of other integration tests, build pipelines, `gitops`,
`config`, `.github`, `utils` - are declarative or run once over files, and have no
behaviour to model.

Hard to test in this code, and so what the properties aim at: executions of one pull
request that overlap; comments deleted by one while another reads them; answers of
GitHub or of the cluster that are lost, late or somebody else's; a pod evicted between
two commands; retry loops with two bounds; pushes from stale clones; a wait without a
lock; an empty answer that stands for a failed read. `PROJECT.json` lists 40 at their
lines: those that a run watches, and two that the code lets happen; others of this kind
are described below under "Behaviours that no run states".

## How the models correspond to the code

### Early gate test

`EarlyGateWorld` declares the state. `run[r]` is a record of the shell variables of
execution `r` and the label it is at (`pc`); `comments[p]` the sequence of the bot's
comments on pull request `p`; `sent` the dispatches whose workflow run is not listed
yet; `jenkins`, `asked`, `summary` and `published` the external systems. A correlation
id, the workflow run dispatched under it, the queue item and the job are all named by
the execution that dispatched the trigger: the model has to tell *whose* they are, and
nothing else. `ongoing` is what the log of a monitor run said of a job when it was read,
which may be long before the script acts on it. `opened`, `lost` and `guessed` are history variables that the properties
mention and no action reads.

A step of a script that talks to GitHub and may fail, or that other executions can see
the effect of, is one action. `RunListed` gives a new workflow run to the executions
that wait for one of that file: that is "the newest run created since the dispatch",
which may be another execution's. `CheckOngoingJobs`, `TriggerTestPipeline` and
`MonitorJenkinsJob` hold the actions of the three tasks in the order of their scripts,
and `EarlyGateTest` composes them with `Start` and `Interrupt`.

The scripts run under `set -e`. Two helpers that fail end the script where the comment
beside the call says that it goes on (`UserLookupFails`, `PollNoStatus` in
`MonitorJenkinsJob`); the model follows the code. If the first of them fails behind the
completion comment, the exit code is 1 whatever that comment shows: `VerdictIsPublic` has
such a script end as `cut`, and says what remains true of it.

Left out: paging and the cap of 500 comments (an unseen cycle behaves as an abandoned
one), wording of comments, and ids that collide (the code takes the second of the clock).

### Builds of a group

In `EarlyGateBuild` a description is the sequence of urls under its heading, an image the
pull request and commit it was made of, `tag[m][c]` the commit in the tag
`odh-pr-<number>` of component `c`. `build[b]` is an execution of the component pipeline;
`list` is the resolved JSON in its order (the leader first, a later url of a repository
overwriting the number of an earlier one), and `rows` and `images` grow together, one look
at a tag (`skopeo inspect`) and one query of its digest and labels each, with pushes
between them. A failing look means the fallback, a refused description with a token means
"no section"; a call that fails under `set -e` is `Die`. `audit-snapshot` with the operator
in the snapshot ends the build (`blocked`, see below). `Prefetch` computes what the
overrides make of the operator's files; operator, bundle and catalog are built from these
alone and are no steps of their own. `apply-tags-fbc` and `validate-fbc` run side by side
and the comment follows both. `test` is one execution of the test pipeline, as far as it
reads the tag and the description, which `check-group-config` reads again, or takes for the
leader alone when the answer is empty: what Jenkins is told to test need not be what the
catalog holds. `urls` and `steady` are history.

Left out: texts, and the two component names that two repositories share in
`component_repo_map.json`.

### Build metadata

In `PushBuildMetadata` a commit is named by the run that made it and a branch is the set
of commits it contains, so a push is a fast-forward exactly when main is still the set
that was cloned. Every command of the script that reaches the remote is an action with
its outcomes: done, refused, or done and the answer lost. `DigestStore` is what the step
promises: a store that only grows, and success only for what is stored.

### Shared clusters

In `ExternalCluster` `phase[p]` is how far PipelineRun `p` is and `cli[p]` how far the
command line that created it. Listing the active runs and acting on the list are two
steps. `Holds` is the code's notion of an active run, `Matches` its notion of the same
cluster: by the source's name, by what the Secrets say, or by the mark a run carries. A
Secret that cannot be read narrows the matching, and output that is no list of runs counts
as an empty one. A run that is stopped is still `OnCluster` while its current task and its
`finally` tasks go on, but no longer an active one. `known[p]` is history: the runs that
`p`'s last listing had the means to recognise.

### Component tasks on one DataScienceCluster

`DscBaseline` has the managementState of every key on the cluster (`dsc`), the captured
`baseline`, the marker files, and the position of the task in turn. Tasks run one after
the other (`runAfter` of the previous one, `onError: continue`). Each `oc` read may
fail, which the code takes for an empty answer; each patch may fail; each call may time
out, and `dsc_install.fail` then ends the whole step. `Test` lets the tests change any
key. `touched` and `faults` are history. The model is of RHOAI 3.5 and
later, where models-as-a-service is a part of the key `aigateway`.

### Install of the operator

`OperatorInstall` is one run of `install_and_verify.py` from the reset to its
`INSTALL_STATUS`, and OLM beside it. `pc` is the place in the script, `clock` counts polls
of the current wait, `noJobs` and `stalled` are its timers (`Off` when not running), `used`
the recoveries made per kind; `sub`, `cond`, `current`, `job` and `csv` are the cluster,
and `raised` whether the OperatorGroups carry the annotations that prolong an unpack.
The unpack loop of `wait_subscription_bundle_unpacked` reads the Subscription, the Jobs
and the status once more in one turn, and OLM may move between any two of them. Any call
or sequence of calls may fail; an `oc` call that hangs is the end of the step
(`OcTimesOut`), Tekton's timeout the end of the task. Of the CSVs the model has the one
the Subscription leads to and one an earlier run left. What follows the CSV (gateway,
DataScienceCluster) is one step that succeeds or fails.

### Pipeline and gates

`GateVerdict` takes the tasks of the rhoai-e2e pipeline in an order that `runAfter`
allows. Tekton is external: a task whose `when` is false is skipped; a task that uses a
result of a skipped task is skipped as well; `onError: continue` lets nine tasks fail
without an end. Whether a task that only runs *after* one skipped for a missing result
is skipped too is `request.strict`, an input: both are checked. `request` holds the
parameters in the combinations that the command line and the PipelineRuns produce. The
Conforma gate is modelled poll by poll, with the conforma runs in progress beside it.
`cases` says which kinds of test case the JUnit files of a gate hold; the check of
`publish-results` reads the PipelineRun three times, and each look and each text may be
lost.

### Component test task

`ComponentTask` has the four kinds of runner. The pytest runner makes up to three attempts
in one time budget (uv, uv after a sync, pip); the others prepare an env file and run one
command. A report is the mark of every case; what a step writes over the JUnit file, and
what it salvages from the console or from a results directory (`trace`), is computed from
it. `timed` is whether a limit is in force on what runs: it is not for a command that started
without one, nor for one that has exited and left its output open to a child
(`OutputHeld`), as the runner reads that to the end. The exit code is resolved twice, by
the runner and by the last step, with
`StrictZero` and `StepZero`. Simplifications: a JUnit file is the set of the cases it
counts, so the rule of `component_junit.py` by which a suite that announces more tests than
it lists is counted by its attributes is left out; the console log is complete; the exit file
`component-test.exit` that golang, playwright and cypress share is left out, as the last
step never reads it; a component's files are found by its own prefix; collect-only mode,
the optional JUnit of the OGX platform and the placeholder of a pending runner are left
out; the minimum pass rate is above 0. `TestVerdict` is the promise: one end, a colour, the
kinds of cases left, and green only with a passed one. `GateVerdict!TestComponent` takes
exactly that step, so the two models fit together.

## Plan

Modelled in this order: the early gate test pipeline, build metadata, shared clusters, the
hygiene of the DataScienceCluster; then the install, the pipeline's gates and the
component task, which close the chain from a snapshot to a green run; then the builds of
a group, which close the chain from a description to the deployed catalog. What would be
next:

1. `GateVerdict` and `ComponentTask` in one module, with `DscBaseline`'s blame as the
   drift of the latter; today they meet in `TestVerdict`.
2. The safety half of the other liveness properties, as `StepsRunOut` of three modules has it:
   the deadlines and counters of the install, the turns of the pipeline, the limits of a
   component task.
3. `EarlyGateBuild` and `EarlyGateTest` in one module: the catalog that an execution
   deploys is the one that was tagged last, and today `test` stands for one execution.

## Runs and what they show

| Run | Instance | States | Shows |
| --- | --- | --- | --- |
| `SecondExecution` | one execution, alone or after one that left a running job, its comment and a workflow run not listed yet; loop bounds 2; every failure | 410,540 | types and loop bounds; the execution ends; its verdict is public; a verdict shown is its job's |
| `Overlap` | two executions of one pull request, one of them automatic, one attempt in phases A and B, any comment lost, no summary | 306,371 | correlation id, item and job stay together; `TestTicket` implemented |
| `GroupBuild` | two builds and a test, three repositories, five pull requests, two events or failed calls | 1,084,795 | the comment is true of the catalog; manifests fit images |
| `push_metadata` | three publishers, two of one digest, two merge attempts | 109,785 | success means published; nothing is unpublished; every run ends; `DigestStore` implemented |
| `SharedCluster` | three runs, Secrets of their own, one unreadable at times, two polls | 255,387 | no two runs on a cluster unless one is forced, was stopped or could not recognise the other; every wait ends |
| `DscHygiene` | four components of three kinds, four keys, every call failing or timing out | 168,304 | types; no inherited drift; no unfair blame |
| `OperatorInstall` | every limit 1, waits of 5 and 2 polls, two failed calls anywhere | 1,415,921 | the version reported is the wanted one; recoveries are bounded and leave a Subscription; the wait of a diagnostic run leaves all but the OperatorGroups alone; every install ends |
| `GateVerdict` | two components, two conforma runs, two polls, all parameters | 873,573 | nothing tested that does not conform or behind a red basic verification; green means installed and run; every run ends |
| `ComponentTask` | two tests and the stand-in, a rate of one half, all kinds and settings | 469,552 | green means a passed test; exit file, result and colour agree; results are kept; `TestVerdict` implemented; a task that does not end hangs where no limit of the runner is in force |

Three more runs check one claim of a comment or a document each, and find it violated
(see Findings). The long ones, of about two minutes, are
`GroupBuild`, `OperatorInstall` and `GateVerdict`.

Bounds, and why they are enough. Loop bounds of the scripts (20, 120, 10 attempts) are
constants; two or three attempts let an attempt fail, succeed after a failure, be the
last, and exhaust the consecutive-failure bound before the total one. `Overlap` gives
phases A and B one attempt each, and publishes no summary (`Outcomes` is empty): its
properties are about the order of two executions' steps on shared comments and not about
what a summary says, which `SecondExecution` covers. Two executions at once in surroundings
without a restriction have more than seven million states, which is out of TLC's reach
here; `SecondExecution` starts from what an earlier one may have left instead, so that a
run listed late, an older job's log and summary, a lost job comment and a stale answer all
occur, and the theorems are of any number of executions at once. Three publishers let one
act between the push and the merge of two that share a branch. Three runs let one wait
for a second that is seen by the third only through a Secret. Four components suffice
for drift to pass one task, be exempted in the next and be blamed on a later one;
`Enough` caps the fault counter at 2, as no property tells two faults from more.
In `GroupBuild` two builds let an
older one tag after a newer one; two components of the leader's repository let its images
be of two commits; the descriptions have no section, a second url of the leader's
repository, rejected urls beside a repository listed twice (the second time from a fork),
and the operator; one pull request has no image when the run starts and all others have theirs;
`MaxEvents` bounds pushes, edits and failed calls together, and two of
them are enough for a push between the two looks and a failed call beside it. Builds make their snapshots one at a time, as they only read for them, and
the two builds are symmetric. In `OperatorInstall` one recovery of each kind lets every
counter be exhausted while another one resets its timers, and five polls let all of them
happen in one wait. In `GateVerdict` the second conforma run is the one that appears late,
the second component the one that is not chosen. In `ComponentTask` two tests make a suite
that is partly passed, at exactly the rate and lost in part.
`CHECK_DEADLOCK FALSE` is set, but for `OperatorInstall`, because each of these systems may come to an end.

Environments. `Spec` of the early gate has no restriction, and what an execution tells the
pull request (`VerdictIsPublic`, `CompletionTellsItsJob`) is checked and proved there: a
script may take the run of another execution, or its own abandoned one listed late, read a
log that is out of date, and resume a cycle that is complete. Two properties do not
survive that. `QuietSpec` lets no workflow file be dispatched while a run of it is awaited
or unlisted, so that the newest run is the caller's own; nothing in the repository sees to
that, and `JobMatchesCorrelation` is to be read as what the scripts guarantee when no two
dispatches cross. `CalmSpec` adds `Answered`: Jenkins answers for its queue items as long as
it is asked, so that no job comes from a scan of earlier runs; comments may still be lost
and executions interrupted anywhere. The run `Overlap` takes `Quiet` and `Answered` as
action constraints. Both restrict the steps of `Next` and add none, so a violation found
there is a behaviour of the system.

Fairness. `WF_vars(Step(r))` in `EarlyGateTest` and `PushBuildMetadata`: a script whose
next command can run runs it, because its container runs until it exits; every wait in
it is bounded by attempts, and an attempt without an answer ends by timeout. Nothing is
assumed of GitHub, of Jenkins or of other executions: `EveryRunEnds` holds although they
may never answer. In `ExternalCluster` fairness is assumed of the polling task only
(`Poll`), whose container sleeps a bounded time between polls; no fairness makes another
run ever leave the cluster. `WF_vars(Step)` in `OperatorInstall` is the installer's own
script, whose calls have timeouts; OLM need do nothing, so `EveryInstallEnds` shows that
the deadlines end it. `WF_vars(Run)` in `GateVerdict` is Tekton starting the next task;
the conforma runs may stay running for ever. In `ComponentTask` scripts go on
(`WF_vars(Script)`), and the pytest runner ends a command it waits for when its limit is
over (`WF_vars(PytestTimesOut)`: SIGINT, SIGTERM and SIGKILL in turn, each with a limit of
its own). Nothing is assumed of the `timeout` command of the other kinds, which sends one
signal, of the tests, or of Tekton. So a task need not end by itself, and
`HangsOnlyWithoutLimit` says where it can hang instead.
`EarlyGateBuild` states no fairness: its properties are invariants.

## What is proved

Every theorem is of the specification with its constants arbitrary, under the named
assumptions of the module that declares them.

* `EarlyGateTestProofs`, for any number of executions, pull requests and attempts.
  `TypeCorrect`, by induction; the bound of the loops is in the
  type invariant and needs that every path that repeats counts an attempt.
  `VerdictPublic` and `CompletionTells` hold in every environment. The inductive
  invariant of the first (`VerdictInv`) adds that a completion comment is never deleted, and
  that an execution past its report has posted one that tells its verdict, or has lost one.
  The second needs that nobody but the trigger's own execution dispatches it, and once
  (`CallInv`, `OnceInv`), so that a job that has ended stays so, and that what an execution
  knows of a job's tests is what that job published (`TellInv`).
  `JobsMatch` holds under `QuietSpec` for any number of executions. It needs `QuietInv` (the
  run an execution sees is the one it dispatched, and no workflow file has two unlisted
  runs) and `MatchInv` (each variable and each comment of a cycle names the cycle's own item
  and job, guessed jobs excepted). `ActsChange` is the table, proved once, of which variables
  each action changes; the invariants' step lemmas cite it instead of the actions.
* `EarlyGateTestProofs!TicketImplemented`, the refinement of `TestTicket` under `CalmSpec`.
  A step of the abstract specification moves one ticket by one stage, so what has to be
  known is that no step of an execution takes back what the pull request shows, or shows
  it early. `CalmInv` adds to `DoneInv` (a job that has ended
  stays so, and a status or a completion comment names one that has) what is missing: which execution works on which
  cycle of which pull request (`CycleOf`, `AtHome`), that the job it has read has started
  (`Readied`), and that the queue comment of an execution's own cycle is shown until it
  posts the job comment, and then that one or the completion, unless one was lost
  (`Remains`). The tables `Display` and `ShownEffect` say what each
  action does to what is shown; every action then maps to a step or a stutter.
* `PushBuildMetadataProofs`: `TypeCorrect`, `SuccessPublished`, `NeverRecommitted`,
  `NeverUnpublished`, and `ImplementsTheStore`, the refinement of `DigestStore`. The
  inductive invariant (`IInv`) says that every clone is a past state of main
  (`ClonesAreOld`), that a digest branch holds a commit of that digest (`BranchesNamed`),
  and that what may be pushed and what is on main was committed on a clone without its
  digest (`PushersCommitted`, `MainCommitted`).
* `ExternalClusterProofs`: `TypeCorrect`, `OneAtATime`. The obvious invariant is not
  inductive: between a listing and the use of the cluster the list is old. What is kept
  (`OneClear`) is that of two runs whose last listings each had the means to recognise the
  other (`Mutual`) at most one is clear to go on; it holds because a run counts as active
  *before* it lists, so the later listing of the two finds the earlier one. No lock is needed
  for that. Runs that were stopped or forced are outside it, as the code's own notion of an
  active run is. `CliInv` keeps the command lines apart from the runs they have created.
* `DscBaselineProofs`: `TypeCorrect`, `NothingInherited`, `BlameIsFair`. The invariant
  (`HygieneInv`) follows the drift through a task, with one fault tolerated more after
  each comparison: up to the first one a task without a fault has no drift but what it
  has written itself, and after the comparison before the tests that still holds of a
  task with one fault, the exempted key aside. `ReconcileRepairs` and `FinalizeRepairs` state what
  the two comparisons achieve.

* `OperatorInstallProofs`: `TypeCorrect`, `SubscriptionCorrect`, `InstalledCorrect`,
  `RecreationsCorrect`, `ObservingCorrect`, for any limits, deadlines and number of failed
  calls. The last is about the unpack wait: with the diagnostic flag it deletes and applies
  nothing, and annotates OperatorGroups only as it begins, before the flag is read. That recreations stay within the sum of three limits needs that every recovery
  counts itself before it deletes; that SUCCESS has a Subscription needs where in the
  script the Subscription may be missing.
* `GateVerdictProofs`: `TypeCorrect`, `ConformingCorrect`, `GuardsCorrect`,
  `GreenInstalledCorrect`, `GreenRanCorrect`, for any components, conforma runs and
  deadline. The inductive invariant says which tasks may have ended at which turn
  (`Turn`), why a task was skipped or stopped (`Reasons`, `Stopped`), what the gate had
  seen when it decided (`Decided`), when tests start (`TestsAt`), that the texts fit the
  cases (`CasesFit`), and what a green verdict was made of.
* `ComponentTaskProofs`: `TypeCorrect`, `GreenHasPassedCorrect`, `ZeroIsEarnedCorrect`,
  `BadgeIsColourCorrect`, `ResultsAreKeptCorrect` and `Refinement` (of `TestVerdict`), for
  any tests and any minimum pass rate above 0. The invariant relates every passed case of
  the file or of the salvage to a test that passed in some attempt (`Earned`), and the
  exit file and the summary to the file they were made of (`Files`, `Ends`, `Shown`,
  `Unplanned`, `Coloured`, `Strict`); `RatePasses` is the arithmetic of the rate: a rate
  above 0 cannot be met without a passed case.

* `EarlyGateBuildProofs`: `TypeCorrect`, `CommentsAreTrue`, `ManifestsMatch`, for any
  builds, repositories, components, pull requests, descriptions and number of events. The assumptions are that a repository lists its components once
  and shares none with another, and that the leader's own pull request is one of those
  that exist. What a description resolves to is defined as a set of entries and taken in
  one of its orders, so that what is in the list can be proved without induction
  (`ListSound`: whole repositories, each under one number, for urls that were accepted).
  The rows follow the list (`SnapshotSound`); of a pull request that stayed at one commit
  there is one commit that its tags, its images and its manifests agree on (`SteadySound`,
  quantified over that commit, as the tags move on once the build no longer looks); and
  the catalog that is tested is one that a build has tagged (`TestSound`). That a nonempty set of places has a greatest one is proved from the
  well-foundedness of inclusion on finite sets.

Only model-checked: liveness (`EveryRunEnds`, `EveryWaitEnds`, `EveryInstallEnds`,
`HangsOnlyWithoutLimit`), which is beyond the prover. The safety half of three of these
properties is proved, as `StepsRunOut` in `EarlyGateTestProofs`, `PushBuildMetadataProofs`
and `ExternalClusterProofs`. `StepsLeft` counts what an execution has ahead: the labels after
its own, and for each attempt or poll left the steps it takes. It is bounded, each step that
the fairness condition speaks of uses one up (`CountsDown`), and no step of another
execution, of GitHub, of Jenkins or of a command line gives one back. That an execution which
has not ended can take a step is what TLC adds.

## Findings

Each is a run whose property quotes a comment or a document and which TLC finds violated.

* `ClaimPassedOnOwnJob`: two pull requests that dispatch at the same time: one takes the
  run of the other and passes on a job that did not test it.
* `ClaimNoHollowSmoke`: the cases of the structural tests are counted as those of the
  smoke gate, so a run whose components are all too new for the installed version is
  green without a component tested.
* `ClaimTimedOutIsNotGreen`: a component that hit its time limit after a first test had
  passed is recorded red by the runner and green by the last step of its task.

## Behaviours that no run states

What the models show, or their definitions say, besides; a few of them contradict a
comment, none is hidden by a property.

Early gate tests. An execution interrupted between its dispatch and its queue comment
leaves a job that a re-run cannot find. An execution that resumes from a queue comment
never replaces it. One that reads an old log may resume a cycle that another has completed,
and completes it again. Two helpers end `monitor-jenkins-job` under `set -e` where the comment
beside them says that it goes on: `get_current_user` (`monitor-jenkins-job.yaml:304`, whose
caller says at line 308 that errors are ignored) even behind a completion comment with
PASSED, so that the pipeline is red. The scan reads five pages of comments. Two executions of
one second share a correlation id.

Builds of a group. With `odh-operator-ci` in the snapshot the operator's build is skipped;
`resolve-operator-image` takes a result of the skipped task, so Tekton skips it and all
that follows, though the pipeline calls it "always runs -- merges build vs snapshot
paths". `early-gate-group-testing-design.md:407` has every error fall back to single-PR
mode; an unauthenticated `curl -f` that fails ends the script. An older build may tag its
catalog after a newer one; a catalog that fails validation is tagged all the same; either
can be tested. The description is read again when the catalog is tested: after an edit, or
an empty answer of the API (`check-group-config.yaml:51-56`), Jenkins is told of other
repositories than the catalog holds. The manifests of a pull request from a fork are not overridden, as its
label `git.url` names the fork; of a pull request one of whose images fell back to stable
they are those of whichever component is last. `post-build-complete-comment` finds the
repository of a row by the number alone, so two pull requests with one number share a link.

Shared clusters. Runs that wait for a cluster count as its users and hold each other up
until a deadline. A stopped run gives the cluster up although its current task and its
`finally` tasks, `collect-diagnostics` among them, go on there, though the code says
"Only one rhoai-e2e run at a time is allowed per external cluster"
(`external_kubeconfig.py:1218`). A listing whose output cannot be parsed
finds the cluster idle (`external_kubeconfig.py:1069`), and one that cannot read a Secret
does not recognise the runs of that Secret; in both cases the run goes on beside another.
A forced run asks nobody. The command
line of one run may delete the Secret that a pending run will read, and nobody looks again
at a Secret that was kept.

DataScienceCluster. A cluster preparation that fails captures the baseline with the keys it
failed to enable; the retry in the component's task enables them and the comparison on the
next line (`run_component_pytest.py:804`) patches them back to Removed. A probe that fails
once marks the preparation done. The marker of models-as-a-service outlives its
restoration. A second key's drift restores the exempted gateway key as well, and the
retired `llamastackoperator` is removed even where it is selected.

Install. The unpack wait ends at once for a Subscription that survived the reset with a
currentCSV and no condition. After the last kick the next look without a Job gives up at
once. The CSV wait of a diagnostic run deletes Jobs, and its unpack wait patches
every OperatorGroup (`install_and_verify.py:2068`). A Job whose first Pod failed counts
as failed. The reserve behind the unpack wait is shorter than what may follow it.

Gates. A conforma run that starts after the decision is not seen; one that failed and was
run again stays failed. A Snapshot whose metadata cannot be read counts as recent. `tier1`
has no text that could satisfy its gate; without `TEST_GATES` the check passes whatever
ran; tasks named `run-<gate>-tests` do not exist. `test-finalize` goes on after a failure,
so components whose tests all failed leave the run green.

Component tasks. The JUnit file found after the second attempt may be the first one's. Of
several files of a golang suite the first that is listed counts. A tolerated timeout is
recorded as 0 by writing no exit file, which the last step reads as a failure if the
report is a stand-in. Of the budget's last moment the rest is read twice, and a rest of 0
means no limit (`run_bvt_pytest.py:229`). A command that exits in time but leaves its
output open to a child holds the runner (`:275`), and one that survives the signal of
`timeout` holds the scripts in a component's image, until Tekton's timeout stops the pod.

## Not modelled, and why

Image builds, the processors of bundle and catalog, the registry of the cluster,
dependencies and gateway of an install, the orchestration of reports and the rest of the
command line keep no state that another actor reads, or are a sequence of calls and waits
on an external tool; a model of them would restate their code. They are most of the
lines of the repository, which is why the map covers a small share of them. Everything
declarative has no behaviour of its own. The waits for Ready conditions and the
preparation of databases, gateways and identity providers inside the modelled components
are left out: they change nothing that a property speaks of. The optional task that
triggers the test pipeline at the end of a build belongs to another repository.
