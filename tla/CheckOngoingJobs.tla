-------------------------- MODULE CheckOngoingJobs --------------------------
(***************************************************************************)
(* early-gate/tasks/check-ongoing-jobs.yaml: decides from the bot's        *)
(* comments whether an execution resumes a Jenkins job or starts afresh.   *)
(***************************************************************************)
EXTENDS EarlyGateWorld

\* resume-from = none: trigger-test-pipeline runs, under a new correlation id.
WrongFreshState(r) == [To(r, "trigger") EXCEPT !.group = r, !.item = None]
FreshState(r) ==
  [To(r, "trigger") EXCEPT !.group = r, !.item = None, !.job = None]

\* The comments scanned: the newest one and those before it, up to the first
\* that carries another correlation id.
NewestGroup(p) ==
  LET c == comments[p]
  IN  {c[i] : i \in {i \in DOMAIN c : \A j \in i .. Len(c) : c[j].corr = c[Len(c)].corr}}

Marked(group, kind) == {c \in group : c.kind = kind}

\* A group that is complete, or has neither a queue nor a job comment, is
\* skipped.
Actionable(group) ==
  /\ Marked(group, "complete") = {}
  /\ Marked(group, "queue") \union Marked(group, "job") # {}

RefOf(group, kind) ==
  IF Marked(group, kind) = {} THEN None ELSE (CHOOSE c \in Marked(group, kind) : TRUE).ref

CorrOf(group) == (CHOOSE c \in group : TRUE).corr

\* An automatic execution never scans.
ForceFresh(r) ==
  /\ At(r, "scan") /\ r \in AutoRuns
  /\ Become(r, FreshState(r))
  /\ UNCHANGED <<comments, sent, world, history>>

\* The comments API fails (set -e).
ScanFails(r) ==
  /\ At(r, "scan") /\ r \notin AutoRuns
  /\ Stop(r, "failed")
  /\ UNCHANGED <<comments, sent, world, history>>

ScanComments(r) ==
  /\ At(r, "scan") /\ r \notin AutoRuns
  /\ LET group == NewestGroup(PROf[r])
     IN  Become(r,
           IF Actionable(group)
           THEN [run[r] EXCEPT
                   !.pc    = IF Marked(group, "job") = {} THEN "locate" ELSE "verify",
                   !.group = CorrOf(group),
                   !.item  = RefOf(group, "queue"),
                   !.job   = RefOf(group, "job")]
           ELSE FreshState(r))
  /\ UNCHANGED <<comments, sent, world, history>>

-----------------------------------------------------------------------------
(* dispatch_and_get_output                                                 *)

CheckDispatch(r) ==
  \/ At(r, "locate") /\ Dispatch(r, "queue", run[r].item)
  \/ At(r, "verify") /\ Dispatch(r, "job", run[r].job)

\* The dispatch fails, no run is listed in time, the run fails or times out,
\* or its log does not hold the output: the group is abandoned.
CheckFails(r) ==
  /\ At(r, "locate") \/ At(r, "verify")
  /\ Become(r, FreshState(r))
  /\ UNCHANGED <<comments, sent, world, history>>

\* The run found resolved an item to its job.
Located(r, t) ==
  /\ At(r, "locate") /\ Watches(r, "queue", t)
  /\ jenkins[t] \in Started
  /\ Become(r, [To(r, "verify") EXCEPT !.job = t])
  /\ UNCHANGED <<comments, sent, world, history>>

IsTerminalStatus(status) == status \in Terminal

\* The log of the run found reports a status that is not terminal, as it was
\* when the run asked: resume-from = job-url, and monitor-resume starts at
\* phase B, though the job may have ended and been reported since.
VerifiedOngoing(r, t) ==
  /\ At(r, "verify") /\ Watches(r, "job", t)
  /\ ~IsTerminalStatus(jenkins[t]) \/ r \in ongoing
  /\ Go(r, "poll")
  /\ UNCHANGED <<comments, sent, world, history>>

\* A terminal status abandons the group.
VerifiedEnded(r, t) ==
  /\ At(r, "verify") /\ Watches(r, "job", t)
  /\ IsTerminalStatus(jenkins[t])
  /\ Become(r, FreshState(r))
  /\ UNCHANGED <<comments, sent, world, history>>

CheckStep(r) ==
  \/ ForceFresh(r) \/ ScanFails(r) \/ ScanComments(r)
  \/ CheckDispatch(r) \/ CheckFails(r)
  \/ \E t \in Runs : Located(r, t) \/ VerifiedOngoing(r, t) \/ VerifiedEnded(r, t)
=============================================================================
