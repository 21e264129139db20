--------------------------- MODULE EarlyGateWorld ---------------------------
(***************************************************************************)
(* What the executions of early-gate-test-pipeline share, and the external *)
(* systems they talk to: the pull requests with the bot's comments, the    *)
(* GitHub workflows of the shared workflow repository, and Jenkins.        *)
(*                                                                         *)
(* A correlation id, the trigger workflow run dispatched under it, the     *)
(* Jenkins queue item of that run and the job the item becomes are all     *)
(* named by the execution that dispatched the trigger.                     *)
(*                                                                         *)
(* Here and in the modules that extend this one, a definition named        *)
(* Wrong... is a mistake the code could contain, and that a property must  *)
(* notice when it replaces the definition it precedes.  No action uses it. *)
(***************************************************************************)
EXTENDS Naturals, Sequences, FiniteSets

CONSTANTS Runs,                \* executions of the test pipeline
          PRs,                 \* pull requests
          PROf,                \* PROf[r]: the pull request of execution r
          AutoRuns,            \* executions whose sender is rhods-ci-bot
          Deleting,            \* delete-intermediate-comments
          Outcomes,            \* what a published summary may say
          None,                \* an empty shell variable
          MaxResolve,          \* 20: attempts of phase A
          MaxResolveFailures,  \* 5: consecutive failures of phase A
          MaxPolls,            \* 120: attempts of phase B
          MaxPollFailures,     \* 10: consecutive failures of phase B
          MaxSummary           \* 10: attempts of phase C

ASSUME WorldAssumption ==
  /\ PROf \in [Runs -> PRs]
  /\ AutoRuns \subseteq Runs
  /\ Deleting \in BOOLEAN
  /\ Outcomes \subseteq {"clean", "broken", "zero"}
  /\ None \notin Runs \union {"success", "failure", "clean", "broken", "zero"}
  /\ None \notin [kind : {"trigger", "queue", "job"}, ref : Runs]
  /\ None \notin [job : Runs, tests : Outcomes]
  /\ {MaxResolve, MaxResolveFailures, MaxPolls, MaxPollFailures, MaxSummary} \subseteq Nat \ {0}

VARIABLES run,        \* run[r]: the script variables and position of execution r
          comments,   \* comments[p]: the bot's comments on p, oldest first
          sent,       \* workflow dispatches whose run is not listed yet
          jenkins,    \* jenkins[t]: what became of the trigger dispatched by t
          asked,      \* items a run of the monitor workflow was dispatched for
          summary,    \* summary[p]: early-gate-test-summary.yaml of p, or None
          published,  \* published[t]: what the summary pushed by job t says, or None
          ongoing,    \* executions whose monitor run asked before the job had ended
          opened,     \* history: correlation ids whose queue comment was posted
          lost,       \* history: correlation ids with a comment that was not
          guessed     \* history: correlation ids whose job came from a scan

world   == <<jenkins, asked, summary, published, ongoing>>
history == <<opened, lost, guessed>>
vars    == <<run, comments, sent, world, history>>

MaybeRun == Runs \union {None}
Request  == [kind : {"trigger", "queue", "job"}, ref : Runs]
Labels   == {"idle", "scan", "locate", "verify", "trigger", "announce", "resolve", "postjob",
             "dropqueue", "poll", "summary", "report", "dropjob"}
Ended    == {"passed", "failed", "cut", "interrupted"}
Comment  == [kind : {"queue", "job", "complete"}, corr : Runs, ref : Runs,
             said : {"passed", "failed", "warning", None}]
RunState ==
  [pc     : Labels \union Ended,
   called : BOOLEAN,                         \* the workflow call at pc was dispatched
   seen   : Request \union {None},           \* RUN_ID: the newest run since then
   group  : MaybeRun,                        \* CORRELATION_ID
   item   : MaybeRun,                        \* QUEUE_URL
   job    : MaybeRun,                        \* JENKINS_JOB_URL
   tries  : Nat,                             \* attempts made by the loop at pc
   fails  : Nat,                             \* CONSECUTIVE_FAILURES
   status : {"success", "failure", None},    \* FINAL_STATUS
   tests  : Outcomes \union {None}]          \* the validated summary

LoopBound(pc) == CASE pc = "resolve" -> MaxResolve
                   [] pc = "poll"    -> MaxPolls
                   [] pc = "summary" -> MaxSummary
                   [] OTHER          -> 1

\* The types of the state, and that no loop goes past its last attempt.
TypeOK ==
  /\ run \in [Runs -> RunState]
  /\ comments \in [PRs -> Seq(Comment)]
  /\ sent \subseteq Request
  /\ jenkins \in [Runs -> {"absent", "queued", "running", "success", "failure"}]
  /\ asked \subseteq Runs /\ ongoing \subseteq Runs
  /\ published \in [Runs -> Outcomes \union {None}]
  /\ summary \in [PRs -> [job : Runs, tests : Outcomes] \union {None}]
  /\ opened \subseteq Runs /\ lost \subseteq Runs /\ guessed \subseteq Runs
  /\ \A r \in Runs : run[r].tries < LoopBound(run[r].pc)

Init ==
  /\ run = [r \in Runs |->
       [pc |-> "idle", called |-> FALSE, seen |-> None, group |-> None, item |-> None,
        job |-> None, tries |-> 0, fails |-> 0, status |-> None, tests |-> None]]
  /\ comments = [p \in PRs |-> <<>>]
  /\ sent = {}
  /\ jenkins = [t \in Runs |-> "absent"]
  /\ summary = [p \in PRs |-> None]
  /\ published = [t \in Runs |-> None]
  /\ asked = {} /\ ongoing = {}
  /\ opened = {} /\ lost = {} /\ guessed = {}

At(r, label) == run[r].pc = label
Active(r)    == run[r].pc \notin Ended \union {"idle"}
Become(r, state) == run' = [run EXCEPT ![r] = state]

\* The script goes on at another label, where loop counters start again.
To(r, label) ==
  [run[r] EXCEPT !.pc = label, !.called = FALSE, !.seen = None, !.tries = 0, !.fails = 0]
Go(r, label) == Become(r, To(r, label))

\* The attempt just made was the last of the loop.
WrongLastAttempt(tries, bound) == tries = bound
LastAttempt(tries, bound) == tries + 1 = bound

\* The loop goes on with another attempt.
WrongAgain(r, failures) ==
  [run[r] EXCEPT !.called = FALSE, !.seen = None, !.fails = failures]
Again(r, failures) ==
  [run[r] EXCEPT !.called = FALSE, !.seen = None, !.tries = @ + 1, !.fails = failures]

\* The script ends, and its variables with it.
Dead(r, label) ==
  [To(r, label) EXCEPT !.group = None, !.item = None, !.job = None, !.status = None, !.tests = None]
Stop(r, label) == Become(r, Dead(r, label))

-----------------------------------------------------------------------------
(* Comments of the bot on a pull request.                                  *)

Mark(kind, corr, ref, said) == [kind |-> kind, corr |-> corr, ref |-> ref, said |-> said]

Post(p, c) == comments' = [comments EXCEPT ![p] = Append(@, c)]

\* delete_comment_by_marker removes the oldest comment of that marker whose
\* embedded URL is ref; the correlation id is not compared.
Matching(p, kind, ref) ==
  {i \in DOMAIN comments[p] : comments[p][i].kind = kind /\ comments[p][i].ref = ref}

Without(s, i) == SubSeq(s, 1, i - 1) \o SubSeq(s, i + 1, Len(s))

DeleteMarked(p, kind, ref) ==
  \/ Matching(p, kind, ref) = {} /\ UNCHANGED comments
  \/ \E first \in Matching(p, kind, ref) :
       /\ \A i \in Matching(p, kind, ref) : first <= i
       /\ comments' = [comments EXCEPT ![p] = Without(@, first)]

-----------------------------------------------------------------------------
(* GitHub workflows.  A dispatch answers nothing that identifies its run:  *)
(* the caller takes the newest run of that workflow file that was created  *)
(* since it dispatched, which may be another execution's.                  *)

File(kind) == IF kind = "trigger" THEN "trigger-workflow" ELSE "monitor-workflow"

\* The executions that dispatched a run of the file and have no answer yet.
Callers(file) ==
  {p \in Runs : run[p].called /\ file = IF At(p, "trigger") THEN "trigger-workflow"
                                                             ELSE "monitor-workflow"}

\* The dispatch POST of execution r at its current label.
Dispatch(r, kind, ref) ==
  /\ ~run[r].called
  /\ sent' = sent \union {[kind |-> kind, ref |-> ref]}
  /\ Become(r, [run[r] EXCEPT !.called = TRUE])
  /\ UNCHANGED <<comments, world, history>>

\* The run execution r waits for: one of that kind, for that item or job.
Watches(r, kind, ref) == run[r].seen = [kind |-> kind, ref |-> ref]

Started == {"running", "success", "failure"}
Terminal == {"success", "failure"}

\* The run is created and listed.  Callers of its file that have no run yet
\* take it; one that has a run takes it too if it is still listing.  The run
\* of the trigger workflow queues a Jenkins item, or ends without one.  A run
\* of the monitor workflow asks Jenkins once, some time from now on: its log
\* may be read when the answer no longer holds, and a job that had not ended
\* when its run was created is one that the log may still call running.
RunListed(d) ==
  /\ d \in sent
  /\ sent' = sent \ {d}
  /\ \E takers \in SUBSET Callers(File(d.kind)) :
       /\ {p \in Callers(File(d.kind)) : run[p].seen = None} \subseteq takers
       /\ run' = [p \in Runs |-> IF p \in takers THEN [run[p] EXCEPT !.seen = d] ELSE run[p]]
       /\ ongoing' = {p \in ongoing \ takers : run[p].seen # None}
                     \union {p \in takers : d.kind = "job" /\ jenkins[d.ref] \notin Terminal}
  /\ \/ UNCHANGED jenkins
     \/ d.kind = "trigger" /\ jenkins' = [jenkins EXCEPT ![d.ref] = "queued"]
  /\ asked' = IF d.kind = "queue" THEN asked \union {d.ref} ELSE asked
  /\ UNCHANGED <<comments, summary, published, history>>

-----------------------------------------------------------------------------
(* Jenkins.                                                                *)

JobStarts(t) ==
  /\ jenkins[t] = "queued"
  /\ jenkins' = [jenkins EXCEPT ![t] = "running"]
  /\ UNCHANGED <<run, comments, sent, asked, summary, published, ongoing, history>>

JobEnds(t) ==
  /\ jenkins[t] = "running"
  /\ \E result \in Terminal : jenkins' = [jenkins EXCEPT ![t] = result]
  /\ UNCHANGED <<run, comments, sent, asked, summary, published, ongoing, history>>

\* A finished job overwrites the summary of the pull request it tested.
SummaryPublished(t) ==
  /\ jenkins[t] \in Terminal
  /\ published[t] = None
  /\ \E tests \in Outcomes :
       /\ published' = [published EXCEPT ![t] = tests]
       /\ summary' = [summary EXCEPT ![PROf[t]] = [job |-> t, tests |-> tests]]
  /\ UNCHANGED <<run, comments, sent, jenkins, asked, ongoing, history>>

WorldNext ==
  \/ \E d \in sent : RunListed(d)
  \/ \E t \in Runs : JobStarts(t) \/ JobEnds(t) \/ SummaryPublished(t)
=============================================================================
