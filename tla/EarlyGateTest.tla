--------------------------- MODULE EarlyGateTest ---------------------------
(***************************************************************************)
(* early-gate/early-gate-test-pipeline.yaml: executions of the test        *)
(* pipeline on several pull requests, any of which may overlap.  Each runs *)
(* check-ongoing-jobs, then either trigger-test-pipeline and monitor-fresh *)
(* or monitor-resume.                                                      *)
(***************************************************************************)
EXTENDS CheckOngoingJobs, TriggerTestPipeline, MonitorJenkinsJob

\* Someone comments /early-gate-test (or the bot does after a build).
\* check-prerequisites and check-group-config change nothing and may fail.
Start(r) ==
  /\ At(r, "idle")
  /\ Go(r, "scan") \/ Stop(r, "failed")
  /\ UNCHANGED <<comments, sent, world, history>>

\* The pod is evicted, the execution is cancelled, or a timeout expires.
Interrupt(r) ==
  /\ Active(r)
  /\ Stop(r, "interrupted")
  /\ UNCHANGED <<comments, sent, world, history>>

Step(r) == CheckStep(r) \/ TriggerStep(r) \/ MonitorStep(r)

Next ==
  \/ \E r \in Runs : Start(r) \/ Step(r) \/ Interrupt(r)
  \/ WorldNext

\* Every wait of a script is bounded by a number of attempts, each of which
\* ends: an execution that can take its next step takes it.
Fairness == \A r \in Runs : WF_vars(Step(r))

Spec == Init /\ [][Next]_vars /\ Fairness

-----------------------------------------------------------------------------
(* The system in calmer surroundings, each a restriction of the steps of   *)
(* Next.                                                                   *)

\* No workflow file is dispatched while a run of it is awaited or unlisted,
\* so the newest run is the caller's own.
Quiet ==
  \A d \in sent' \ sent :
     /\ \A e \in sent : File(e.kind) # File(d.kind)
     /\ Callers(File(d.kind)) = {}

\* Jenkins answers for its queue items as long as they are asked about, so no
\* job comes from a scan of earlier workflow runs.
Answered == UNCHANGED guessed

QuietSpec == Init /\ [][Next /\ Quiet]_vars
CalmSpec == Init /\ [][Next /\ Quiet /\ Answered]_vars

-----------------------------------------------------------------------------
(* Properties.                                                             *)

CommentsOf(p) == {comments[p][i] : i \in DOMAIN comments[p]}

CompleteOf(p, t) == {c \in CommentsOf(p) : c.kind = "complete" /\ c.corr = t}

\* Every execution that starts ends: the attempt counters of all loops
\* bound what lost dispatches, silent workflows and unfinished jobs can
\* make a script wait.  (Active(r) ~> ~Active(r), written so that TLC checks
\* it faster; none goes back to idle.)
EveryRunEnds == \A r \in Runs : []<>~Active(r)

\* The item and job an execution works on, and those its comments name, are
\* the ones triggered under its correlation id, through any interruption,
\* resumption and abandoned group; a job found by scanning earlier workflow
\* runs is the exception.
JobMatchesCorrelation ==
  /\ \A r \in Runs : run[r].item # None => run[r].item = run[r].group
  /\ \A r \in Runs : run[r].job # None /\ run[r].group \notin guessed => run[r].job = run[r].group
  /\ \A p \in PRs : \A c \in CommentsOf(p) :
       c.kind = "queue" \/ c.corr \notin guessed => c.ref = c.corr

\* A completion comment that shows PASSED or FAILED shows what the job it names
\* has published of itself, after that job ended: whichever execution posted
\* it, whosever logs it read on the way, and whatever an older job of the pull
\* request left behind.  So two executions that complete one cycle contradict
\* each other only on a job that ran no test.
CompletionTellsItsJob ==
  \A p \in PRs : \A c \in CommentsOf(p) : c.kind = "complete" /\ c.said # "warning" =>
    /\ jenkins[c.ref] \in Terminal
    /\ published[c.ref] \in {"zero", IF c.said = "passed" THEN "clean" ELSE "broken"}

\* What an execution tells the pull request and what its exit code says agree:
\* a completion comment of its cycle names its job and says what its tests
\* say, and exit 0 comes with PASSED or a warning, exit 1 with FAILED or a
\* warning, unless posting a comment of its cycle failed; it never passes
\* without a verdict.  The exit code of a script cut by get_current_user after
\* its completion comment is 1 whatever the comment shows.
VerdictIsPublic ==
  \A r \in Runs : run[r].pc \in {"passed", "failed", "cut"} =>
    /\ run[r].pc # "failed" => run[r].status # None
    /\ run[r].status # None /\ run[r].group \notin lost =>
         \E c \in CompleteOf(PROf[r], run[r].group) :
            /\ c.ref = run[r].job /\ c.said = Said(r)
            /\ run[r].pc # "cut" => c.said \in {run[r].pc, "warning"}

\* What a pull request shows of the cycle t.
Shown(t) == {c.kind : c \in {d \in CommentsOf(PROf[t]) : d.corr = t}}

TicketOf(t) ==
  LET shown == Shown(t)
  IN  CASE "complete" \in shown -> "complete"
        [] "complete" \notin shown /\ "job" \in shown -> "running"
        [] shown = {"queue"} -> "queued"
        [] shown = {} /\ t \in opened -> "silent"
        [] OTHER -> "none"

Ticket == INSTANCE TestTicket
            WITH Tickets <- Runs, job <- jenkins, ticket <- [t \in Runs |-> TicketOf(t)]

\* The comments posted, lost and deleted by overlapping executions follow the
\* Jenkins jobs as TestTicket promises.
ImplementsTicket == Ticket!Spec

-----------------------------------------------------------------------------
(* A claim of the documentation.                                            *)

\* "All comments within a single trigger cycle share the same correlation
\* ID, enabling ... lifecycle tracking": an execution that passes did so on
\* a job of its own pull request.
PassedOnOwnJob == \A r \in Runs : run[r].pc = "passed" => PROf[run[r].job] = PROf[r]
=============================================================================
