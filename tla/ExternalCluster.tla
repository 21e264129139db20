--------------------------- MODULE ExternalCluster ---------------------------
(***************************************************************************)
(* integration-tests/rhoai-e2e/k8s/external_kubeconfig.py: PipelineRuns    *)
(* that share physical external clusters.  There is no lock: a run whose   *)
(* external-cluster-ready task starts lists the PipelineRuns of its        *)
(* cluster until no other one is active.  A command line uploads the       *)
(* kubeconfig Secret of its run and deletes it when the run has ended.     *)
(***************************************************************************)
EXTENDS Naturals, FiniteSets

CONSTANTS Runs,       \* PipelineRuns, and the command lines that create them
          Sources,    \* CLUSTER_SOURCE values: names of kubeconfig Secrets
          Source,     \* Source[p]: the CLUSTER_SOURCE of run p
          Cluster,    \* Cluster[s]: the physical cluster Secret s leads to
          Akin,       \* <<s, t>>: the name of t suggests the cluster of s
          CliRuns,    \* runs created by a command line that uploads the Secret
          Marked,     \* runs that carry the cluster annotation and label
          Forced,     \* runs with FORCE_CLUSTER_RUN
          Flaky,      \* Secrets that cannot always be read
          MaxPolls    \* CLUSTER_IDLE_WAIT_SEC / CLUSTER_IDLE_POLL_SEC

ASSUME ClusterAssumption ==
  /\ Source \in [Runs -> Sources]
  /\ Akin \subseteq Sources \X Sources
  /\ CliRuns \subseteq Runs /\ Marked \subseteq Runs /\ Forced \subseteq Runs
  /\ Flaky \subseteq Sources
  /\ MaxPolls \in Nat \ {0}

VARIABLES phase,    \* phase[p]: how far PipelineRun p is
          cli,      \* cli[p]: how far the command line that created p is
          active,   \* active[p]: the answer to the last listing made for p
          polls,    \* polls[p]: polls that found the cluster busy
          known,    \* known[p]: the runs that the last listing of p's wait had
                    \* the means to recognise, a record the program does not keep
          secrets   \* kubeconfig Secrets that exist

vars == <<phase, cli, active, polls, known, secrets>>

\* pending: no TaskRun yet.  started: before external-cluster-ready.  listed:
\* between a listing and what follows from it.  using: the tasks after
\* external-cluster-ready, and the finally tasks.  failed: a task before that
\* failed, the finally tasks run.  stopping: somebody stopped a run that used
\* the cluster; the task that runs and the finally tasks go on.
Phases == {"none", "pending", "started", "waiting", "listed", "using", "failed", "stopping", "ended"}

TypeOK ==
  /\ phase \in [Runs -> Phases]
  /\ cli \in [Runs -> {"none", "uploaded", "watching", "listed", "exited", "detached"}]
  /\ active \in [Runs -> SUBSET Runs]
  /\ polls \in [Runs -> 0 .. MaxPolls - 1]
  /\ known \in [Runs -> SUBSET Runs]
  /\ secrets \subseteq Sources

Init ==
  /\ phase = [p \in Runs |-> "none"]
  /\ cli = [p \in Runs |-> "none"]
  /\ active = [p \in Runs |-> {}]
  /\ polls = [p \in Runs |-> 0]
  /\ known = [p \in Runs |-> {}]
  /\ secrets = {Source[p] : p \in Runs \ CliRuns}

Become(p, stage) == phase' = [phase EXCEPT ![p] = stage]

-----------------------------------------------------------------------------
(* Which PipelineRuns a run takes to be on its cluster.                    *)

\* Only a run that has the cluster counts.
WrongHolds(q) == phase[q] \in {"using", "failed"}

\* The run is not over, nobody stops it, and it has TaskRuns.
Holds(q) == phase[q] \in {"started", "waiting", "listed", "using", "failed"}

\* By the Secret's name; by the cluster that the metadata name, those of p's
\* Secret and those of q or of q's Secret; by the similarity of the names.
Matches(p, q, unread) ==
  \/ Source[p] = Source[q]
  \/ /\ Cluster[Source[p]] = Cluster[Source[q]]
     /\ Source[p] \notin unread
     /\ q \in Marked \/ Source[q] \notin unread
  \/ <<Source[p], Source[q]>> \in Akin

\* The runs a listing for p may have the means to recognise.  A Secret that does
\* not answer, or is gone, says nothing; output that is not a list of
\* PipelineRuns counts as an empty one.
Recognisable(p) ==
  {{}} \union {{q \in Runs \ {p} : Matches(p, q, (Sources \ secrets) \union unread)} :
                  unread \in SUBSET Flaky}

\* One listing of the PipelineRuns.
List(p, found) == active' = [active EXCEPT ![p] = {q \in found : Holds(q)}]

-----------------------------------------------------------------------------
(* A PipelineRun.                                                          *)

\* By the Integration Service, or by the command line once the Secret is up.
Create(p) ==
  /\ phase[p] = "none"
  /\ p \in CliRuns => cli[p] = "uploaded"
  /\ Become(p, "pending")
  /\ cli' = IF p \in CliRuns THEN [cli EXCEPT ![p] = "watching"] ELSE cli
  /\ UNCHANGED <<active, polls, known, secrets>>

Admit(p) ==
  /\ phase[p] = "pending"
  /\ Become(p, "started")
  /\ UNCHANGED <<cli, active, polls, known, secrets>>

\* external-cluster-ready starts.
Arrive(p) ==
  /\ phase[p] = "started"
  /\ Become(p, IF p \in Forced THEN "using" ELSE "waiting")
  /\ UNCHANGED <<cli, active, polls, known, secrets>>

ListForWait(p) ==
  /\ phase[p] = "waiting"
  /\ \E found \in Recognisable(p) :
        List(p, found) /\ known' = [known EXCEPT ![p] = found]
  /\ Become(p, "listed")
  /\ UNCHANGED <<cli, polls, secrets>>

\* No other run is active: the wait returns.
Proceed(p) ==
  /\ phase[p] = "listed" /\ active[p] = {}
  /\ Become(p, "using")
  /\ UNCHANGED <<cli, active, polls, known, secrets>>

\* Another one is: the next poll, or the deadline.
WrongBusy(p) ==
  /\ phase[p] = "listed" /\ active[p] # {}
  /\ Become(p, "waiting")
  /\ UNCHANGED <<cli, active, polls, known, secrets>>
WrongDeadline(p) ==
  /\ phase[p] = "listed" /\ active[p] # {}
  /\ IF polls[p] = MaxPolls
     THEN Become(p, "failed") /\ UNCHANGED polls
     ELSE Become(p, "waiting") /\ polls' = [polls EXCEPT ![p] = @ + 1]
  /\ UNCHANGED <<cli, active, known, secrets>>
Busy(p) ==
  /\ phase[p] = "listed" /\ active[p] # {}
  /\ IF polls[p] + 1 = MaxPolls
     THEN Become(p, "failed") /\ UNCHANGED polls
     ELSE Become(p, "waiting") /\ polls' = [polls EXCEPT ![p] = @ + 1]
  /\ UNCHANGED <<cli, active, known, secrets>>

\* A task fails before the run uses the cluster; the listing may be what fails.
Fail(p) ==
  /\ phase[p] \in {"started", "waiting"}
  /\ Become(p, "failed")
  /\ UNCHANGED <<cli, active, polls, known, secrets>>

\* StoppedRunFinally: no new task, those that run are not interrupted.
Stop(p) ==
  /\ phase[p] = "using"
  /\ Become(p, "stopping")
  /\ UNCHANGED <<cli, active, polls, known, secrets>>

\* The last task ends, or the run is cancelled before it uses the cluster.
End(p) ==
  /\ phase[p] \notin {"none", "ended"}
  /\ Become(p, "ended")
  /\ UNCHANGED <<cli, active, polls, known, secrets>>

-----------------------------------------------------------------------------
(* The command line that creates a PipelineRun.                            *)

Upload(p) ==
  /\ p \in CliRuns /\ cli[p] = "none"
  /\ secrets' = secrets \union {Source[p]}
  /\ cli' = [cli EXCEPT ![p] = "uploaded"]
  /\ UNCHANGED <<phase, active, polls, known>>

\* Ctrl-C, or the run stays pending too long.
Detach(p) ==
  /\ cli[p] = "watching"
  /\ cli' = [cli EXCEPT ![p] = "detached"]
  /\ UNCHANGED <<phase, active, polls, known, secrets>>

\* The run could not be created, or it has ended.
CleansUp(p) == cli[p] = "uploaded" \/ (cli[p] = "watching" /\ phase[p] = "ended")

ListForCleanup(p) ==
  /\ CleansUp(p)
  /\ \E found \in Recognisable(p) : List(p, found)
  /\ cli' = [cli EXCEPT ![p] = "listed"]
  /\ UNCHANGED <<phase, polls, known, secrets>>

\* The listing or the deletion fails.
CleanupFails(p) ==
  /\ CleansUp(p) \/ cli[p] = "listed"
  /\ cli' = [cli EXCEPT ![p] = "detached"]
  /\ UNCHANGED <<phase, active, polls, known, secrets>>

DeleteSecret(p) ==
  /\ cli[p] = "listed"
  /\ secrets' = IF active[p] = {} THEN secrets \ {Source[p]} ELSE secrets
  /\ cli' = [cli EXCEPT ![p] = "exited"]
  /\ UNCHANGED <<phase, active, polls, known>>

-----------------------------------------------------------------------------
Poll(p) == ListForWait(p) \/ Proceed(p) \/ Busy(p)

Next == \E p \in Runs :
  \/ Create(p) \/ Admit(p) \/ Arrive(p) \/ Poll(p) \/ Fail(p) \/ Stop(p) \/ End(p)
  \/ Upload(p) \/ Detach(p) \/ ListForCleanup(p) \/ CleanupFails(p) \/ DeleteSecret(p)

\* The waiting script is a loop that nothing blocks.
Fairness == \A p \in Runs : WF_vars(Poll(p))

Spec == Init /\ [][Next]_vars /\ Fairness

-----------------------------------------------------------------------------
(* Properties.                                                             *)

\* The tasks of the run may be at work on its cluster.
OnCluster(p) == phase[p] \in {"using", "stopping"}

\* Two runs are on a cluster together only if one of them is forced, or has been
\* stopped, or proceeded on a listing that had no means to recognise the other:
\* however old the answers are on which they proceeded, they never pass each
\* other by, for a run counts as active from before its own listing.
OneRunPerCluster ==
  \A p, q \in Runs \ Forced :
    p # q /\ OnCluster(p) /\ OnCluster(q) =>
      \/ "stopping" \in {phase[p], phase[q]}
      \/ q \notin known[p] \/ p \notin known[q]

\* A run that waits does not wait for ever, though runs that wait for the same
\* cluster hold each other up.
EveryWaitEnds == \A p \in Runs : phase[p] = "waiting" ~> phase[p] \notin {"waiting", "listed"}
=============================================================================
