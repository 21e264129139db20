------------------------- MODULE MonitorJenkinsJob -------------------------
(***************************************************************************)
(* early-gate/tasks/monitor-jenkins-job.yaml: phase A resolves the queue   *)
(* item to a job, phase B polls the job to its end, phase C reads the test *)
(* summary, posts the completion comment and decides the exit code.        *)
(***************************************************************************)
EXTENDS EarlyGateWorld

-----------------------------------------------------------------------------
(* Phase A                                                                 *)

ResolveDispatch(r) == At(r, "resolve") /\ Dispatch(r, "queue", run[r].item)

\* for phase_a_attempt in $(seq 1 20): the loop goes on, or ends without a
\* job URL, which ends the script.
NextResolve(r, failures) ==
  Become(r,
    IF LastAttempt(run[r].tries, MaxResolve) THEN Dead(r, "failed") ELSE Again(r, failures))

\* The job URL is announced before the queue comment is deleted.
WrongJobKnown(r, t) == [To(r, "dropqueue") EXCEPT !.job = t]
JobKnown(r, t) == [To(r, "postjob") EXCEPT !.job = t]

\* The run found resolved an item to its job.
ResolveFound(r, t) ==
  /\ At(r, "resolve") /\ Watches(r, "queue", t)
  /\ jenkins[t] \in Started
  /\ Become(r, JobKnown(r, t))
  /\ UNCHANGED <<comments, sent, world, history>>

\* The run succeeded and its log has no job URL.
ResolveEmpty(r) ==
  /\ At(r, "resolve") /\ run[r].seen # None
  /\ NextResolve(r, 0)
  /\ UNCHANGED <<comments, sent, world, history>>

\* scan_previous_runs_for_job_url takes the job URL in the log of any recent
\* successful run: one asked about an item that has become a job may have
\* found it.
ScanPreviousRuns(r) ==
  \/ \E t \in asked :
       /\ jenkins[t] \in Started
       /\ Become(r, JobKnown(r, t))
       /\ guessed' = guessed \union {run[r].group}
  \/ Stop(r, "failed") /\ UNCHANGED guessed

\* check_queue_expired: the run found failed because Jenkins has forgotten
\* its item, which it does some time after the job started.
ResolveExpired(r, t) ==
  /\ At(r, "resolve") /\ Watches(r, "queue", t)
  /\ jenkins[t] \in Started
  /\ ScanPreviousRuns(r)
  /\ UNCHANGED <<comments, sent, world, opened, lost>>

\* The dispatch fails, no run is listed, or the run fails or times out.
ResolveFails(r) ==
  /\ At(r, "resolve")
  /\ IF run[r].fails + 1 >= MaxResolveFailures
     THEN ScanPreviousRuns(r)
     ELSE NextResolve(r, run[r].fails + 1) /\ UNCHANGED guessed
  /\ UNCHANGED <<comments, sent, world, opened, lost>>

\* post_pr_comment: a failure is a warning.
PostOrLose(r, c) ==
  \/ Post(PROf[r], c) /\ UNCHANGED lost
  \/ lost' = lost \union {run[r].group} /\ UNCHANGED comments

PostJobUrl(r) ==
  /\ At(r, "postjob")
  /\ PostOrLose(r, Mark("job", run[r].group, run[r].job, None))
  /\ Go(r, IF Deleting THEN "dropqueue" ELSE "poll")
  /\ UNCHANGED <<sent, world, opened, guessed>>

\* delete_comment_by_marker; a failure to list or to delete is ignored.
DropQueueComment(r) ==
  /\ At(r, "dropqueue")
  /\ DeleteMarked(PROf[r], "queue", run[r].item) \/ UNCHANGED comments
  /\ Go(r, "poll")
  /\ UNCHANGED <<sent, world, history>>

\* get_current_user fails inside delete_comment_by_marker (set -e): the script
\* ends with exit code 1, also when all that is left to do is to exit with
\* the code of a verdict that the completion comment shows.
UserLookupFails(r) ==
  /\ \/ At(r, "dropqueue") /\ Stop(r, "failed")
     \/ At(r, "dropjob") /\ Go(r, "cut")
  /\ UNCHANGED <<comments, sent, world, history>>

-----------------------------------------------------------------------------
(* Phase B                                                                 *)

PollDispatch(r) == At(r, "poll") /\ Dispatch(r, "job", run[r].job)

NextPoll(r, failures) ==
  Become(r,
    IF LastAttempt(run[r].tries, MaxPolls) THEN Dead(r, "failed") ELSE Again(r, failures))

\* The statuses at which phase B keeps polling.
InProgress(status) == status \notin Terminal

\* The log of the run found holds the status at the time the run asked.
PollOngoing(r, t) ==
  /\ At(r, "poll") /\ Watches(r, "job", t)
  /\ InProgress(jenkins[t]) \/ r \in ongoing
  /\ NextPoll(r, 0)
  /\ UNCHANGED <<comments, sent, world, history>>

PollEnded(r, t) ==
  /\ At(r, "poll") /\ Watches(r, "job", t)
  /\ ~InProgress(jenkins[t])
  /\ Become(r, [To(r, "summary") EXCEPT !.status = jenkins[t]])
  /\ UNCHANGED <<comments, sent, world, history>>

\* The run succeeded but its log holds no status: get_workflow_output returns
\* 1 and the assignment ends the script (set -e).
PollNoStatus(r) ==
  /\ At(r, "poll") /\ run[r].seen # None
  /\ Stop(r, "failed")
  /\ UNCHANGED <<comments, sent, world, history>>

PollFails(r) ==
  /\ At(r, "poll")
  /\ IF run[r].fails + 1 >= MaxPollFailures
     THEN Stop(r, "failed")
     ELSE NextPoll(r, run[r].fails + 1)
  /\ UNCHANGED <<comments, sent, world, history>>

-----------------------------------------------------------------------------
(* Phase C                                                                 *)

\* The summary of the pull request is the one of the job monitored.
WrongSummaryIsMine(r) == summary[PROf[r]] # None
SummaryIsMine(r) ==
  /\ summary[PROf[r]] # None
  /\ summary[PROf[r]].job = run[r].job

SummaryRead(r) ==
  /\ At(r, "summary")
  /\ SummaryIsMine(r)
  /\ Become(r, [To(r, "report") EXCEPT !.tests = summary[PROf[r]].tests])
  /\ UNCHANGED <<comments, sent, world, history>>

\* It is missing, stale or cannot be downloaded.
SummaryMissed(r) ==
  /\ At(r, "summary")
  /\ Become(r, IF LastAttempt(run[r].tries, MaxSummary) THEN To(r, "report") ELSE Again(r, 0))
  /\ UNCHANGED <<comments, sent, world, history>>

\* The status shown in the completion comment.
Said(r) ==
  CASE run[r].tests = None -> "warning"
    [] run[r].tests = "broken" -> "failed"
    [] run[r].tests = "zero" /\ run[r].status = "failure" -> "failed"
    [] OTHER -> "passed"

\* The exit code: a valid summary is authoritative, else the job's status.
WrongPasses(r) == run[r].status # "failure"
Passes(r) ==
  \/ run[r].tests = "clean"
  \/ run[r].tests \in {"zero", None} /\ run[r].status # "failure"

Exit(r) == IF Passes(r) THEN "passed" ELSE "failed"

Report(r) ==
  /\ At(r, "report")
  /\ PostOrLose(r, Mark("complete", run[r].group, run[r].job, Said(r)))
  /\ Go(r, IF Deleting THEN "dropjob" ELSE Exit(r))
  /\ UNCHANGED <<sent, world, opened, guessed>>

DropJobComment(r) ==
  /\ At(r, "dropjob")
  /\ DeleteMarked(PROf[r], "job", run[r].job) \/ UNCHANGED comments
  /\ Go(r, Exit(r))
  /\ UNCHANGED <<sent, world, history>>

MonitorStep(r) ==
  \/ ResolveDispatch(r) \/ ResolveEmpty(r) \/ ResolveFails(r)
  \/ PostJobUrl(r) \/ DropQueueComment(r) \/ UserLookupFails(r)
  \/ PollDispatch(r) \/ PollNoStatus(r) \/ PollFails(r)
  \/ SummaryRead(r) \/ SummaryMissed(r) \/ Report(r) \/ DropJobComment(r)
  \/ \E t \in Runs : \/ ResolveFound(r, t) \/ ResolveExpired(r, t)
                     \/ PollOngoing(r, t) \/ PollEnded(r, t)
=============================================================================
