--------------------------- MODULE OperatorInstall ---------------------------
(***************************************************************************)
(* integration-tests/rhoai-e2e/install: one run of install_and_verify.py   *)
(* on a cluster that may hold what an earlier run left.  It asks OLM for   *)
(* an operator by a Subscription, waits until OLM has unpacked the         *)
(* operator's bundle, and recovers what is stuck by deleting the           *)
(* Subscription, the operator's CSVs and the unpack Jobs and applying the  *)
(* manifest again.  Then it waits for the operator's CSV.  OLM runs beside *)
(* it, and any call of the cluster's API may fail.                         *)
(***************************************************************************)
EXTENDS Integers, FiniteSets

CONSTANTS Limit,        \* Limit[k]: recoveries of kind k
          UnpackTicks,  \* deadline_s of the unpack wait, in polls
          CsvTicks,     \* OPERATOR_CSV_WAIT_SEC, in polls
          KickAfter,    \* OLM_BUNDLE_UNPACK_NO_JOB_KICK_SEC, in polls
          StallAfter,   \* OLM_BUNDLE_UNPACK_STALL_SEC, in polls
          MaxOutages    \* calls, or sequences of calls, that fail in one run

Kinds == {"failure", "stall", "kick", "csv"}

ASSUME InstallAssumption ==
  /\ Limit \in [Kinds -> Nat]
  /\ UnpackTicks \in Nat /\ CsvTicks \in Nat
  /\ KickAfter \in Nat \ {0} /\ StallAfter \in Nat \ {0}
  /\ MaxOutages \in Nat

VARIABLES ephc,        \* the cluster is new: CLUSTER_SOURCE is EPHC
          diagnostic,  \* OLM_BUNDLE_UNPACK_DIAGNOSTIC_ONLY
          pc, status,  \* where the run is, its INSTALL_STATUS
          version,     \* the CSV whose version it reports
          want,        \* target_csv: the CSV that the Subscription leads to
          clock,       \* polls of the current wait
          noJobs,      \* polls since no_jobs_since
          stalled,     \* polls since stall_since
          seen,        \* last_updated_seen is still the status' lastUpdated
          used         \* used[k]: recoveries of kind k made

VARIABLES sub,         \* the Subscription exists
          cond,        \* its condition: BundleUnpacking or BundleUnpackFailed
          current,     \* its status.currentCSV
          job,         \* the Job that unpacks the operator's bundle
          csv,         \* csv[c]: the phase of ClusterServiceVersion c
          raised       \* the OperatorGroups are annotated with a longer timeout

\* What happened, read by no action.
VARIABLES outages,     \* calls that failed
          kept,        \* what the reset should have deleted and did not
          blind,       \* the CSV was looked for without the Subscription
          recreated    \* times the Subscription was deleted for a recovery

settings == <<ephc, diagnostic>>
timers == <<noJobs, stalled, seen>>
found == <<version, want, blind>>
workload == <<sub, cond, current, job, csv>>
cluster == <<workload, raised>>
history == <<kept, recreated>>
vars == <<settings, pc, status, found, clock, timers, used, cluster, history, outages>>

\* target is what this run's catalog offers, stale what an earlier run left.
CSVs == {"target", "stale"}
CsvPhases == {"absent", "Installing", "Succeeded", "Failed"}
Stages == {"reset", "catalog", "subscribe", "enter", "early", "look", "poll", "jobs",
           "count", "updated", "recheck", "verdict", "reapply", "reapplyEarly", "sleep",
           "installer", "csv", "csvTarget", "csvRead", "csvSleep", "post", "done"}
UnpackWait == {"early", "look", "poll", "jobs", "count", "updated", "recheck", "verdict",
               "reapply", "reapplyEarly", "sleep"}
Off == -1

TypeOK ==
  /\ ephc \in BOOLEAN /\ diagnostic \in BOOLEAN
  /\ pc \in Stages
  /\ status \in {"none", "FAILED", "SUCCESS"}
  /\ version \in CSVs \cup {"none"} /\ want \in CSVs \cup {"none"}
  /\ clock \in Nat /\ noJobs \in Nat \cup {Off} /\ stalled \in Nat \cup {Off}
  /\ seen \in BOOLEAN
  /\ used \in [Kinds -> Nat]
  /\ sub \in BOOLEAN
  /\ cond \in {"none", "unpacking", "expired", "broken"}
  /\ current \in CSVs \cup {"none"}
  /\ job \in {"none", "active", "churning", "failed", "done"}
  /\ csv \in [CSVs -> CsvPhases]
  /\ raised \in BOOLEAN
  /\ outages \in 0 .. MaxOutages
  /\ kept \in SUBSET {"sub", "csv"}
  /\ blind \in BOOLEAN
  /\ recreated \in Nat

Absent == [c \in CSVs |-> "absent"]

\* A new cluster, or one that an earlier run left as it found it, with its
\* operator installed, or in the middle of unpacking.
Init ==
  /\ ephc \in BOOLEAN /\ diagnostic \in BOOLEAN
  /\ \/ /\ sub = FALSE /\ cond = "none" /\ current = "none" /\ job = "none" /\ csv = Absent
     \/ /\ ~ephc /\ sub = TRUE /\ cond = "none" /\ current = "stale" /\ job = "done"
        /\ csv = [Absent EXCEPT !["stale"] = "Succeeded"]
     \/ /\ ~ephc /\ sub = TRUE /\ current = "none" /\ csv = Absent
        /\ \/ cond = "unpacking" /\ job = "active"
           \/ cond = "expired" /\ job = "failed"
  /\ raised = sub
  /\ pc = "reset" /\ status = "none" /\ version = "none" /\ want = "none"
  /\ clock = 0 /\ noJobs = Off /\ stalled = Off /\ seen = FALSE
  /\ used = [k \in Kinds |-> 0]
  /\ outages = 0 /\ kept = {} /\ blind = FALSE /\ recreated = 0

-----------------------------------------------------------------------------
(* Calls of the API.                                                       *)

\* oc_run: a call, or several in a row, that succeed or not.
Works == UNCHANGED outages
Breaks == outages < MaxOutages /\ outages' = outages + 1
Call(ok) == (ok /\ Works) \/ (~ok /\ Breaks)

\* fail: INSTALL_STATUS is FAILED and the step exits 1.
Fail == pc' = "done" /\ status' = "FAILED"
Go(stage) == pc' = stage /\ UNCHANGED status

Unpacking == sub /\ cond = "unpacking"
UnpackFailed == sub /\ cond \in {"expired", "broken"}

\* _bundle_unpack_failure_recoverable: the reason speaks of a deadline.
Recoverable == cond = "expired"

\* bundle_unpack_job_pod_churn_detected, of a Job that is still active.
Churning == job = "churning"

\* count_olm_bundle_unpack_jobs: a completed Job is not counted.
NoJobs == job \in {"none", "done"}

\* The status of a Subscription that is gone is read as an empty string.
WrongDeleteSubscription(lost) ==
  /\ sub' = (sub /\ lost)
  /\ cond' = IF lost THEN cond ELSE "empty"
  /\ current' = IF lost THEN current ELSE "empty"

\* The Subscription's status goes with it.
DeleteSubscription(lost) ==
  /\ sub' = (sub /\ lost)
  /\ cond' = IF lost THEN cond ELSE "none"
  /\ current' = IF lost THEN current ELSE "none"

DeleteCsvs(lost) == csv' = IF lost THEN csv ELSE Absent

\* delete_failed_olm_bundle_unpack_jobs(include_active) and, when purge,
\* delete_terminal_olm_bundle_unpack_jobs.
DeleteJobs(lost, purge) ==
  job' = IF lost \/ (job = "done" /\ ~purge) THEN job ELSE "none"

\* ensure_operatorgroup_bundle_unpack_annotations: a patch that fails is a
\* warning, and nothing takes the annotations away.
Annotate(ok) == raised' = (raised \/ ok)

-----------------------------------------------------------------------------
(* Before the unpack wait.                                                 *)

\* reset_stale_operator_install, not on a new cluster: no deletion is checked,
\* and a Subscription that is still there after two minutes is a warning.
Reset ==
  /\ pc = "reset"
  /\ \E lost \in SUBSET {"sub", "csv"} :
       IF ephc THEN UNCHANGED <<workload, outages, kept>>
       ELSE /\ Call(lost = {})
            /\ DeleteSubscription("sub" \in lost)
            /\ DeleteCsvs("csv" \in lost)
            /\ job' = IF job = "failed" THEN "none" ELSE job
            /\ kept' = lost
  /\ Go("catalog")
  /\ UNCHANGED <<settings, found, clock, timers, used, raised, recreated>>

\* The CatalogSource becomes READY and offers the requested stream, or not.
Catalog ==
  /\ pc = "catalog"
  /\ Go("subscribe") \/ Fail
  /\ UNCHANGED <<settings, found, clock, timers, used, cluster, history, outages>>

\* Completed unpack Jobs are deleted on a shared cluster, the manifest applied.
Subscribe ==
  /\ pc = "subscribe"
  /\ \/ \E patched \in BOOLEAN : Call(patched) /\ Annotate(patched)
        /\ sub' = TRUE /\ Go("enter")
     \/ Breaks /\ Fail /\ UNCHANGED <<sub, raised>>
  /\ job' = IF job = "done" /\ ~ephc THEN "none" ELSE job
  /\ UNCHANGED <<settings, found, clock, timers, used, cond, current, csv, history>>

-----------------------------------------------------------------------------
(* wait_subscription_bundle_unpacked.                                      *)

\* It recovers the same whoever asks.
WrongObserving(kind) == used[kind] < Limit[kind]
\* It counts no recovery.
WrongUncounted(kind) == ~diagnostic /\ Limit[kind] > 0

\* Observing only, it recovers nothing.
CanRecover(kind) == ~diagnostic /\ used[kind] < Limit[kind]

Exhausted(kind) == ~diagnostic /\ Limit[kind] > 0 /\ used[kind] >= Limit[kind]

\* recover_bundle_unpack_deadline_exceeded, then kick_subscription_bundle_unpack
\* up to the apply; for a kick of its own only the latter.  A stalled wait
\* deletes completed Jobs as well.
Recover(kind, stage) ==
  /\ used' = [used EXCEPT ![kind] = @ + 1]
  /\ \E lost \in SUBSET {"group", "sub", "csv", "job"} :
       /\ Call(lost = {})
       /\ DeleteSubscription("sub" \in lost)
       /\ DeleteCsvs("csv" \in lost)
       /\ DeleteJobs("job" \in lost, kind = "stall")
       /\ Annotate(kind # "kick" /\ "group" \notin lost)
  /\ noJobs' = Off /\ stalled' = Off /\ seen' = FALSE
  /\ recreated' = recreated + 1
  /\ Go(stage)

\* The apply is checked by nobody.
WrongReapply(from, stage) ==
  /\ pc = from
  /\ \E ok \in BOOLEAN : Call(ok) /\ Annotate(ok) /\ sub' = (sub \/ ok)
  /\ Go(stage)
  /\ UNCHANGED <<settings, found, clock, timers, used, cond, current, job, csv, history>>

\* ... and the apply, five seconds later, with the annotations after it.
Reapply(from, stage) ==
  /\ pc = from
  /\ \/ \E patched \in BOOLEAN : Call(patched) /\ Annotate(patched)
        /\ sub' = TRUE /\ Go(stage)
     \/ Breaks /\ Fail /\ UNCHANGED <<sub, raised>>
  /\ UNCHANGED <<settings, found, clock, timers, used, cond, current, job, csv, history>>

ReapplyEarly == Reapply("reapplyEarly", "look")
ReapplyLate == Reapply("reapply", "sleep")

\* The Subscription is there.  The OperatorGroups are annotated whatever
\* OLM_BUNDLE_UNPACK_DIAGNOSTIC_ONLY says, which is read after that.
EnterWait ==
  /\ pc = "enter"
  /\ \/ sub /\ \E patched \in BOOLEAN : Call(patched) /\ Annotate(patched)
        /\ Go("early")
     \/ \E ok \in BOOLEAN : (ok => ~sub) /\ Call(ok)
        /\ Fail /\ UNCHANGED raised
  /\ clock' = 0
  /\ UNCHANGED <<settings, found, timers, used, workload, history>>

\* A failure that is there already.
EarlyFailure ==
  /\ pc = "early"
  /\ \/ /\ UnpackFailed /\ ~diagnostic /\ Recoverable /\ CanRecover("failure")
        /\ Recover("failure", "reapplyEarly")
     \/ /\ UnpackFailed /\ ~diagnostic /\ ~(Recoverable /\ CanRecover("failure"))
        /\ Works /\ Fail
        /\ UNCHANGED <<timers, used, cluster, recreated>>
     \/ /\ UnpackFailed /\ diagnostic
        /\ Works /\ Go("poll")
        /\ UNCHANGED <<timers, used, cluster, recreated>>
     \/ /\ \E ok \in BOOLEAN : (ok => ~UnpackFailed) /\ Call(ok)
        /\ Go("look")
        /\ UNCHANGED <<timers, used, cluster, recreated>>
  /\ UNCHANGED <<settings, found, clock, kept>>

\* Nothing to wait for: not unpacking, not pending, resolved.  A failed read
\* is "not unpacking", a later one may still find a CSV.
Look ==
  /\ pc = "look"
  /\ \E ok \in BOOLEAN :
       /\ Call(ok)
       /\ \/ Go("poll") /\ (ok => cond # "none" \/ current = "none")
          \/ Go("installer") /\ current # "none" /\ (ok => cond = "none")
  /\ UNCHANGED <<settings, found, clock, timers, used, cluster, history>>

\* The top of the loop.
Poll ==
  /\ pc = "poll"
  /\ IF clock >= UnpackTicks THEN Fail /\ UNCHANGED outages
     ELSE \E ok \in BOOLEAN :
            Call(ok) /\ Go(IF ok /\ Unpacking THEN "jobs" ELSE "recheck")
  /\ UNCHANGED <<settings, found, clock, timers, used, cluster, history>>

\* A Job that goes through one Pod after the other.
ListJobs ==
  /\ pc = "jobs"
  /\ \/ /\ Churning /\ CanRecover("stall")
        /\ Recover("stall", "reapply")
     \/ /\ \E ok \in BOOLEAN : (ok => ~(Churning /\ CanRecover("stall"))) /\ Call(ok)
        /\ Go("count")
        /\ UNCHANGED <<timers, used, cluster, recreated>>
  /\ UNCHANGED <<settings, found, clock, kept>>

\* No Job that is not completed: after a while the Subscription is made again,
\* and after the last time the wait gives up when it sees that once more.
CountJobs ==
  /\ pc = "count"
  /\ \/ /\ Breaks /\ Go("sleep")
        /\ UNCHANGED <<timers, used, cluster, recreated>>
     \/ /\ ~NoJobs
        /\ Works /\ noJobs' = Off /\ Go("updated")
        /\ UNCHANGED <<stalled, seen, used, cluster, recreated>>
     \/ /\ NoJobs
        /\ noJobs >= KickAfter /\ CanRecover("kick")
        /\ Recover("kick", "reapply")
     \/ /\ NoJobs
        /\ ~(noJobs >= KickAfter /\ CanRecover("kick"))
        /\ Works
        /\ noJobs' = IF noJobs = Off THEN 0 ELSE noJobs
        /\ IF Exhausted("kick") THEN Fail ELSE Go("updated")
        /\ UNCHANGED <<stalled, seen, used, cluster, recreated>>
  /\ UNCHANGED <<settings, found, clock, kept>>

\* The status has, or has not, been written since the last look at it.
LastUpdated ==
  /\ pc = "updated"
  /\ \/ /\ \E ok \in BOOLEAN :
             (ok => ~(sub /\ seen)) /\ Call(ok) /\ seen' = (ok /\ sub)
        /\ stalled' = Off /\ Go("recheck")
        /\ UNCHANGED <<noJobs, used, cluster, recreated>>
     \/ /\ sub /\ seen /\ stalled < StallAfter
        /\ Works
        /\ stalled' = IF stalled = Off THEN 0 ELSE stalled
        /\ Go("recheck")
        /\ UNCHANGED <<noJobs, seen, used, cluster, recreated>>
     \/ /\ sub /\ seen /\ stalled >= StallAfter /\ CanRecover("stall")
        /\ Recover("stall", "reapply")
     \/ /\ sub /\ seen /\ stalled >= StallAfter /\ ~CanRecover("stall")
        /\ Works
        /\ stalled' = IF diagnostic THEN 0 ELSE stalled
        /\ IF Exhausted("stall") THEN Fail
           ELSE Go(IF diagnostic THEN "sleep" ELSE "recheck")
        /\ UNCHANGED <<noJobs, seen, used, cluster, recreated>>
  /\ UNCHANGED <<settings, found, clock, kept>>

\* A second read of the condition in the same turn.
Recheck ==
  /\ pc = "recheck"
  /\ \E ok \in BOOLEAN : Call(ok) /\ Go(IF ok /\ Unpacking THEN "sleep" ELSE "verdict")
  /\ UNCHANGED <<settings, found, clock, timers, used, cluster, history>>

\* Not unpacking: failed, or complete.
Verdict ==
  /\ pc = "verdict"
  /\ \/ /\ UnpackFailed /\ Recoverable /\ CanRecover("failure")
        /\ Recover("failure", "reapply")
     \/ /\ UnpackFailed /\ ~(Recoverable /\ CanRecover("failure"))
        /\ Works /\ Fail
        /\ UNCHANGED <<timers, used, cluster, recreated>>
     \/ /\ \E ok \in BOOLEAN : (ok => ~UnpackFailed) /\ Call(ok)
        /\ Go("installer")
        /\ UNCHANGED <<timers, used, cluster, recreated>>
  /\ UNCHANGED <<settings, found, clock, kept>>

Older(age) == IF age = Off THEN Off ELSE age + 1

\* The deadline moves with the recoveries.
WrongSleep ==
  /\ pc = "sleep"
  /\ clock' = IF recreated > 0 THEN clock ELSE clock + 1
  /\ noJobs' = Older(noJobs) /\ stalled' = Older(stalled)
  /\ Go("poll")
  /\ UNCHANGED <<settings, found, seen, used, cluster, history, outages>>

Sleep ==
  /\ pc = "sleep"
  /\ clock' = clock + 1
  /\ noJobs' = Older(noJobs) /\ stalled' = Older(stalled)
  /\ Go("poll")
  /\ UNCHANGED <<settings, found, seen, used, cluster, history, outages>>

-----------------------------------------------------------------------------
(* After it: install-operator.sh, wait_for_succeeded_csv_version and the   *)
(* DataScienceCluster.                                                     *)

\* A script that fails is a warning, one that takes too long an end.  The CSV
\* wait has a clock and a counter of its own.
Installer ==
  /\ pc = "installer"
  /\ Go("csv") \/ Fail
  /\ clock' = 0 /\ noJobs' = Off /\ stalled' = Off /\ seen' = FALSE
  /\ used' = [k \in Kinds |-> 0]
  /\ UNCHANGED <<settings, found, cluster, history, outages>>

\* A bundle that failed by its deadline loses its Jobs, the Subscription stays.
CsvPoll ==
  /\ pc = "csv"
  /\ \/ /\ clock >= CsvTicks /\ Fail
        /\ UNCHANGED <<used, job, outages>>
     \/ /\ clock < CsvTicks /\ sub /\ Recoverable /\ used["csv"] < Limit["csv"]
        /\ \E ok \in BOOLEAN : Call(ok) /\ DeleteJobs(~ok, FALSE)
        /\ used' = [used EXCEPT !["csv"] = @ + 1]
        /\ Go("csvSleep")
     \/ /\ clock < CsvTicks
        /\ \E ok \in BOOLEAN :
             /\ ok => ~(sub /\ Recoverable /\ used["csv"] < Limit["csv"])
             /\ Call(ok)
        /\ Go("csvTarget")
        /\ UNCHANGED <<used, job>>
  /\ UNCHANGED <<settings, found, clock, timers, sub, cond, current, csv, raised, history>>

\* Only a CSV that OLM already works on.
WrongAnswers(ok) ==
  IF ok /\ sub THEN {current}
  ELSE {"none"} \cup (IF sub THEN {current} ELSE {})

\* _subscription_target_csv: currentCSV, or else startingCSV, or else nothing.
Answers(ok) ==
  IF ok /\ sub THEN {IF current = "none" THEN "target" ELSE current}
  ELSE {"none"} \cup (IF sub THEN {"target", current} ELSE {})

CsvTarget ==
  /\ pc = "csvTarget"
  /\ \E ok \in BOOLEAN : Call(ok) /\ want' \in Answers(ok) /\ blind' = (blind \/ ~ok \/ ~sub)
  /\ Go("csvRead")
  /\ UNCHANGED <<settings, version, clock, timers, used, cluster, history>>

\* The CSV wanted, or without one any CSV of the operator.
Candidates == IF want = "none" THEN CSVs ELSE {want}

CsvRead ==
  /\ pc = "csvRead"
  /\ \/ \E c \in Candidates :
          /\ csv[c] = "Succeeded" /\ Works
          /\ version' = c /\ Go("post")
     \/ /\ \A c \in Candidates : csv[c] # "Succeeded"
        /\ \E c \in Candidates : csv[c] = "Failed"
        /\ Works /\ Fail /\ UNCHANGED version
     \/ /\ \E ok \in BOOLEAN :
             /\ ok => /\ \A c \in Candidates : csv[c] # "Succeeded"
                      /\ \E c \in Candidates : csv[c] # "Failed"
             /\ Call(ok)
        /\ Go("csvSleep") /\ UNCHANGED version
  /\ UNCHANGED <<settings, want, blind, clock, timers, used, cluster, history>>

CsvSleep ==
  /\ pc = "csvSleep"
  /\ clock' = clock + 1
  /\ Go("csv")
  /\ UNCHANGED <<settings, found, timers, used, cluster, history, outages>>

\* A DataScienceCluster that is not Ready matters to bvt and smoke.
PostInstall ==
  /\ pc = "post"
  /\ \/ pc' = "done" /\ status' = "SUCCESS"
     \/ Fail
  /\ UNCHANGED <<settings, found, clock, timers, used, cluster, history, outages>>

\* An oc call that does not return ends the run from anywhere.
OcTimesOut ==
  /\ pc \notin {"sleep", "csvSleep", "done"}
  /\ Breaks /\ Fail
  /\ UNCHANGED <<settings, found, clock, timers, used, cluster, history>>

\* Tekton ends the task.
TaskTimesOut ==
  /\ pc # "done"
  /\ pc' = "done"
  /\ UNCHANGED <<settings, status, found, clock, timers, used, cluster, history, outages>>

-----------------------------------------------------------------------------
(* OLM: it writes the Subscription's status, runs the unpack Job and       *)
(* installs the CSV.                                                       *)

Writes == seen' = FALSE /\ UNCHANGED <<noJobs, stalled>>

StartUnpack ==
  /\ sub /\ cond = "none" /\ current # "target"
  /\ cond' = "unpacking" /\ Writes
  /\ UNCHANGED <<sub, current, job, csv>>

StartJob ==
  /\ Unpacking /\ job = "none"
  /\ job' = "active"
  /\ UNCHANGED <<timers, sub, cond, current, csv>>

JobGoesOn ==
  /\ \/ job = "active" /\ job' \in {"done", "failed", "churning"}
     \/ job = "churning" /\ job' \in {"done", "failed"}
  /\ UNCHANGED <<timers, sub, cond, current, csv>>

UnpackFails ==
  /\ Unpacking
  /\ cond' \in {"expired", "broken"} /\ Writes
  /\ UNCHANGED <<sub, current, job, csv>>

\* After the bundle-unpack-min-retry-interval.
UnpackAgain ==
  /\ sub /\ cond = "expired"
  /\ cond' = "unpacking" /\ Writes
  /\ job' = IF job = "failed" THEN "none" ELSE job
  /\ UNCHANGED <<sub, current, csv>>

Resolve ==
  /\ Unpacking /\ job = "done"
  /\ cond' = "none" /\ current' = "target" /\ Writes
  /\ csv' = [csv EXCEPT !["target"] = "Installing"]
  /\ UNCHANGED <<sub, job>>

CsvGoesOn ==
  /\ \/ csv["target"] = "Installing" /\ \E p \in {"Succeeded", "Failed"} : csv' = [csv EXCEPT !["target"] = p]
     \/ csv["target"] = "Failed" /\ csv' = [csv EXCEPT !["target"] = "Installing"]
  /\ UNCHANGED <<timers, sub, cond, current, job>>

\* The status is written again with nothing new in it.
Refresh == seen /\ Writes /\ UNCHANGED workload

OLM ==
  /\ pc # "done"
  /\ \/ StartUnpack \/ StartJob \/ JobGoesOn \/ UnpackFails \/ UnpackAgain
     \/ Resolve \/ CsvGoesOn \/ Refresh
  /\ UNCHANGED <<settings, pc, status, found, clock, used, raised, history, outages>>

-----------------------------------------------------------------------------
Step ==
  \/ Reset \/ Catalog \/ Subscribe
  \/ EnterWait \/ EarlyFailure \/ ReapplyEarly \/ Look
  \/ Poll \/ ListJobs \/ CountJobs \/ LastUpdated \/ Recheck \/ Verdict
  \/ ReapplyLate \/ Sleep
  \/ Installer \/ CsvPoll \/ CsvTarget \/ CsvRead \/ CsvSleep \/ PostInstall
  \/ OcTimesOut

Ended == pc = "done" /\ UNCHANGED vars

Next == Step \/ TaskTimesOut \/ OLM \/ Ended

\* The process goes on by itself; OLM need not.
Spec == Init /\ [][Next]_vars /\ WF_vars(Step)

-----------------------------------------------------------------------------
(* Properties.                                                             *)

\* The version of an earlier run's CSV is reported only if that CSV survived
\* the reset and, besides, the earlier Subscription did or the CSV was looked
\* for without one: _subscription_target_csv before pick_succeeded_csv_version.
InstalledIsWanted ==
  version = "stale" => "csv" \in kept /\ ("sub" \in kept \/ blind)

\* A run that made the Subscription again never reports SUCCESS without one:
\* every kick's apply is checked (kick_subscription_bundle_unpack).
SuccessHasSubscription == status = "SUCCESS" => sub

\* However the recoveries for a failed, a stalled and a missing unpack take
\* turns, the Subscription is deleted at most as often as the three limits say.
RecreationsBounded ==
  recreated <= Limit["failure"] + Limit["stall"] + Limit["kick"]

\* Told to observe only, the unpack wait leaves the Subscription, the CSVs and
\* the Jobs alone; all that it changes in the cluster are the annotations of the
\* OperatorGroups, once, as it begins (wait_subscription_bundle_unpacked reads
\* olm_bundle_unpack_diagnostic_only after it has patched them).
ObservesOnly ==
  [][diagnostic /\ pc \in UnpackWait \cup {"enter"} /\ pc' # pc
        => UNCHANGED workload /\ (pc # "enter" => UNCHANGED raised)]_vars

\* The unpack wait, with its recoveries and resets of timers, ends, and so does
\* the run, whatever OLM does.
EveryInstallEnds == <>(pc = "done")
=============================================================================
