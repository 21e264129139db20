------------------------ MODULE TriggerTestPipeline ------------------------
(***************************************************************************)
(* early-gate/tasks/trigger-test-pipeline.yaml: dispatches the trigger     *)
(* workflow once, waits for the run it takes for its own, reads the Jenkins *)
(* queue item from that run's log and announces it on the pull request.    *)
(***************************************************************************)
EXTENDS EarlyGateWorld

TriggerDispatch(r) == At(r, "trigger") /\ Dispatch(r, "trigger", r)

\* The dispatch fails (its answer may be lost after GitHub took it), no run
\* is listed in 30 polls, the run does not complete in 60, or its logs hold
\* no queue URL.
TriggerFails(r) ==
  /\ At(r, "trigger")
  /\ \/ UNCHANGED sent
     \/ /\ ~run[r].called
        /\ sent' = sent \union {[kind |-> "trigger", ref |-> r]}
  /\ Stop(r, "failed")
  /\ UNCHANGED <<comments, world, history>>

\* The run found completed, whatever its conclusion, and queued an item.
QueueUrlRead(r, t) ==
  /\ At(r, "trigger") /\ Watches(r, "trigger", t)
  /\ jenkins[t] \in {"queued"} \union Started
  /\ Become(r, [To(r, "announce") EXCEPT !.item = t])
  /\ UNCHANGED <<comments, sent, world, history>>

\* The queue-url comment is posted and the results are written.
Announce(r) ==
  /\ At(r, "announce")
  /\ Post(PROf[r], Mark("queue", run[r].group, run[r].item, None))
  /\ opened' = opened \union {run[r].group}
  /\ Go(r, "resolve")
  /\ UNCHANGED <<sent, world, lost, guessed>>

\* The POST fails, which ends the script; its answer may be lost after
\* GitHub created the comment.
AnnounceFails(r) ==
  /\ At(r, "announce")
  /\ \/ UNCHANGED <<comments, opened>>
     \/ /\ Post(PROf[r], Mark("queue", run[r].group, run[r].item, None))
        /\ opened' = opened \union {run[r].group}
  /\ Stop(r, "failed")
  /\ UNCHANGED <<sent, world, lost, guessed>>

TriggerStep(r) ==
  \/ TriggerDispatch(r) \/ TriggerFails(r) \/ (\E t \in Runs : QueueUrlRead(r, t))
  \/ Announce(r) \/ AnnounceFails(r)
=============================================================================
