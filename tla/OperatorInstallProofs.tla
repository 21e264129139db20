------------------------ MODULE OperatorInstallProofs ------------------------
(* For every limit, every deadline and every number of failing calls: the  *)
(* types, what version an install reports, that its Subscription is there, *)
(* how often it is made again, and what a run that observes leaves alone.  *)
EXTENDS OperatorInstall, TLAPS

\* Calls that fail stay within their bound.
LEMMA CallFacts ==
  ASSUME TypeOK
  PROVE  /\ Works => outages' \in 0 .. MaxOutages
         /\ Breaks => outages' \in 0 .. MaxOutages
         /\ \A ok : Call(ok) => outages' \in 0 .. MaxOutages
BY InstallAssumption DEF TypeOK, Call, Works, Breaks

\* A recovery keeps the types of all that it writes.
LEMMA RecoverTypes ==
  ASSUME TypeOK, NEW kind \in Kinds, NEW stage \in Stages, Recover(kind, stage)
  PROVE  /\ used' \in [Kinds -> Nat] /\ outages' \in 0 .. MaxOutages
         /\ sub' \in BOOLEAN /\ cond' \in {"none", "unpacking", "expired", "broken"}
         /\ current' \in CSVs \cup {"none"}
         /\ csv' \in [CSVs -> CsvPhases] /\ raised' \in BOOLEAN
         /\ job' \in {"none", "active", "churning", "failed", "done"}
         /\ noJobs' = Off /\ stalled' = Off /\ seen' \in BOOLEAN
         /\ recreated' \in Nat /\ pc' = stage /\ UNCHANGED status
<1>1. PICK lost \in SUBSET {"group", "sub", "csv", "job"} :
        /\ Call(lost = {}) /\ DeleteSubscription("sub" \in lost)
        /\ DeleteCsvs("csv" \in lost) /\ DeleteJobs("job" \in lost, kind = "stall")
        /\ Annotate(kind # "kick" /\ "group" \notin lost)
  BY DEF Recover
<1>2. outages' \in 0 .. MaxOutages
  BY <1>1, CallFacts
<1>3. /\ sub' \in BOOLEAN /\ cond' \in {"none", "unpacking", "expired", "broken"}
      /\ current' \in CSVs \cup {"none"}
  BY <1>1 DEF DeleteSubscription, TypeOK
<1>4. csv' \in [CSVs -> CsvPhases]
  BY <1>1 DEF DeleteCsvs, Absent, CsvPhases, TypeOK
<1>5. job' \in {"none", "active", "churning", "failed", "done"}
  BY <1>1 DEF DeleteJobs, TypeOK
<1>6. used' \in [Kinds -> Nat]
  BY DEF Recover, TypeOK
<1>7. seen' \in BOOLEAN
  BY DEF Recover
<1>8. raised' \in BOOLEAN
  BY <1>1 DEF Annotate, TypeOK
<1> QED BY <1>2, <1>3, <1>4, <1>5, <1>6, <1>7, <1>8 DEF Recover, Go, TypeOK

\* Writing the status leaves the truth values truth values.
LEMMA WritesType == Writes => seen' \in BOOLEAN
BY DEF Writes

\* OLM keeps the types.
LEMMA OLMTypes == ASSUME TypeOK, OLM PROVE TypeOK'
<1> USE DEF Writes, timers, settings, found, history, CSVs, CsvPhases, Unpacking
<1> USE WritesType
<1>1. CASE StartUnpack
  BY <1>1 DEF OLM, StartUnpack, TypeOK
<1>2. CASE StartJob
  BY <1>2 DEF OLM, StartJob, TypeOK
<1>3. CASE JobGoesOn
  BY <1>3 DEF OLM, JobGoesOn, TypeOK
<1>4. CASE UnpackFails
  BY <1>4 DEF OLM, UnpackFails, TypeOK
<1>5. CASE UnpackAgain
  BY <1>5 DEF OLM, UnpackAgain, TypeOK
<1>6. CASE Resolve
  BY <1>6 DEF OLM, Resolve, TypeOK
<1>7. CASE CsvGoesOn
  BY <1>7 DEF OLM, CsvGoesOn, TypeOK
<1>8. CASE Refresh
  BY <1>8 DEF OLM, Refresh, workload, TypeOK
<1> QED BY <1>1, <1>2, <1>3, <1>4, <1>5, <1>6, <1>7, <1>8 DEF OLM

\* Every step of the run keeps the types.
LEMMA StepTypes == ASSUME TypeOK, Step PROVE TypeOK'
<1> USE DEF Go, Fail, timers, settings, found, workload, cluster, history, Annotate, Recoverable, Churning, NoJobs, Stages
<1>1. CASE Reset
  <2>1. PICK lost \in SUBSET {"sub", "csv"} :
          IF ephc THEN UNCHANGED <<workload, outages, kept>>
          ELSE /\ Call(lost = {}) /\ DeleteSubscription("sub" \in lost)
               /\ DeleteCsvs("csv" \in lost)
               /\ job' = IF job = "failed" THEN "none" ELSE job
               /\ kept' = lost
    BY <1>1 DEF Reset
  <2>2. outages' \in 0 .. MaxOutages /\ kept' \in SUBSET {"sub", "csv"}
    BY <2>1, CallFacts DEF TypeOK
  <2>3. csv' \in [CSVs -> CsvPhases]
    BY <2>1 DEF DeleteCsvs, Absent, CsvPhases, TypeOK
  <2>4. /\ sub' \in BOOLEAN /\ cond' \in {"none", "unpacking", "expired", "broken"}
        /\ current' \in CSVs \cup {"none"}
        /\ job' \in {"none", "active", "churning", "failed", "done"}
    BY <2>1 DEF DeleteSubscription, TypeOK
  <2> QED BY <1>1, <2>2, <2>3, <2>4 DEF Reset, TypeOK
<1>2. CASE Catalog
  BY <1>2 DEF Catalog, TypeOK
<1>3. CASE Subscribe
  <2>1. sub' \in BOOLEAN /\ raised' \in BOOLEAN
    BY <1>3 DEF Subscribe, TypeOK
  <2> QED BY <1>3, <2>1, CallFacts DEF Subscribe, TypeOK
<1>4. CASE EnterWait
  <2>1. raised' \in BOOLEAN
    BY <1>4 DEF EnterWait, TypeOK
  <2> QED BY <1>4, <2>1, CallFacts DEF EnterWait, TypeOK
<1>5. CASE EarlyFailure
  <2>1. CASE Recover("failure", "reapplyEarly")
    BY <1>5, <2>1, RecoverTypes DEF EarlyFailure, TypeOK, Kinds
  <2>2. CASE ~Recover("failure", "reapplyEarly")
    <3>1. outages' \in 0 .. MaxOutages
      BY <1>5, <2>2, CallFacts DEF EarlyFailure
    <3> QED BY <1>5, <2>2, <3>1 DEF EarlyFailure, TypeOK
  <2> QED BY <2>1, <2>2
<1>6. CASE ReapplyEarly
  <2>1. sub' \in BOOLEAN /\ raised' \in BOOLEAN
    BY <1>6 DEF ReapplyEarly, Reapply, TypeOK
  <2> QED BY <1>6, <2>1, CallFacts DEF ReapplyEarly, Reapply, TypeOK
<1>7. CASE Look
  BY <1>7, CallFacts DEF Look, TypeOK
<1>8. CASE Poll
  BY <1>8, CallFacts DEF Poll, TypeOK
<1>9. CASE ListJobs
  <2>1. CASE Recover("stall", "reapply")
    BY <1>9, <2>1, RecoverTypes DEF ListJobs, TypeOK, Kinds
  <2>2. CASE ~Recover("stall", "reapply")
    BY <1>9, <2>2, CallFacts DEF ListJobs, TypeOK
  <2> QED BY <2>1, <2>2
<1>10. CASE CountJobs
  <2>1. CASE Recover("kick", "reapply")
    BY <1>10, <2>1, RecoverTypes DEF CountJobs, TypeOK, Kinds
  <2>2. CASE ~Recover("kick", "reapply")
    <3>1. outages' \in 0 .. MaxOutages
      BY <1>10, <2>2, CallFacts DEF CountJobs
    <3> QED BY <1>10, <2>2, <3>1 DEF CountJobs, TypeOK
  <2> QED BY <2>1, <2>2
<1>11. CASE LastUpdated
  <2>1. CASE Recover("stall", "reapply")
    BY <1>11, <2>1, RecoverTypes DEF LastUpdated, TypeOK, Kinds
  <2>2. CASE ~Recover("stall", "reapply")
    <3>1. seen' \in BOOLEAN
      BY <1>11, <2>2 DEF LastUpdated, TypeOK
    <3>2. outages' \in 0 .. MaxOutages
      BY <1>11, <2>2, CallFacts DEF LastUpdated
    <3> QED BY <1>11, <2>2, <3>1, <3>2 DEF LastUpdated, TypeOK
  <2> QED BY <2>1, <2>2
<1>12. CASE Recheck
  BY <1>12, CallFacts DEF Recheck, TypeOK
<1>13. CASE Verdict
  <2>1. CASE Recover("failure", "reapply")
    BY <1>13, <2>1, RecoverTypes DEF Verdict, TypeOK, Kinds
  <2>2. CASE ~Recover("failure", "reapply")
    <3>1. outages' \in 0 .. MaxOutages
      BY <1>13, <2>2, CallFacts DEF Verdict
    <3> QED BY <1>13, <2>2, <3>1 DEF Verdict, TypeOK
  <2> QED BY <2>1, <2>2
<1>14. CASE ReapplyLate
  <2>1. sub' \in BOOLEAN /\ raised' \in BOOLEAN
    BY <1>14 DEF ReapplyLate, Reapply, TypeOK
  <2> QED BY <1>14, <2>1, CallFacts DEF ReapplyLate, Reapply, TypeOK
<1>15. CASE Sleep
  BY <1>15 DEF Sleep, Older, TypeOK, Off
<1>16. CASE Installer
  <2>1. seen' \in BOOLEAN
    BY <1>16 DEF Installer
  <2> QED BY <1>16, <2>1 DEF Installer, TypeOK
<1>17. CASE CsvPoll
  <2>1. job' \in {"none", "active", "churning", "failed", "done"} /\ used' \in [Kinds -> Nat]
    BY <1>17 DEF CsvPoll, DeleteJobs, TypeOK
  <2>2. outages' \in 0 .. MaxOutages
    BY <1>17, CallFacts DEF CsvPoll, TypeOK
  <2> QED BY <1>17, <2>1, <2>2 DEF CsvPoll, DeleteJobs, TypeOK
<1>18. CASE CsvTarget
  BY <1>18, CallFacts DEF CsvTarget, Answers, TypeOK, CSVs
<1>19. CASE CsvRead
  <2>1. outages' \in 0 .. MaxOutages
    BY <1>19, CallFacts DEF CsvRead
  <2>2. version' \in CSVs \cup {"none"}
    BY <1>19 DEF CsvRead, Candidates, TypeOK
  <2> QED BY <1>19, <2>1, <2>2 DEF CsvRead, TypeOK
<1>20. CASE CsvSleep
  BY <1>20 DEF CsvSleep, TypeOK
<1>21. CASE PostInstall
  BY <1>21 DEF PostInstall, TypeOK
<1>22. CASE OcTimesOut
  BY <1>22, CallFacts DEF OcTimesOut, TypeOK
<1> QED BY <1>1, <1>2, <1>3, <1>4, <1>5, <1>6, <1>7, <1>8, <1>9, <1>10, <1>11, <1>12, <1>13,
           <1>14, <1>15, <1>16, <1>17, <1>18, <1>19, <1>20, <1>21, <1>22 DEF Step

LEMMA TypeStep == ASSUME TypeOK, [Next]_vars PROVE TypeOK'
<1>1. CASE Step
  BY <1>1, StepTypes
<1>2. CASE TaskTimesOut
  BY <1>2 DEF TaskTimesOut, TypeOK, settings, found, timers, workload, cluster, history, Stages
<1>3. CASE OLM
  BY <1>3, OLMTypes
<1>4. CASE UNCHANGED vars
  BY <1>4 DEF vars, settings, found, timers, workload, cluster, history, TypeOK
<1> QED BY <1>1, <1>2, <1>3, <1>4 DEF Next, Ended

\* The variables of an install have their types, whatever OLM does and
\* whichever calls fail.
THEOREM TypeCorrect == Spec => []TypeOK
<1>1. ASSUME Init PROVE TypeOK
  <2>1. sub \in BOOLEAN /\ seen \in BOOLEAN /\ blind \in BOOLEAN
    BY <1>1 DEF Init
  <2>2. csv \in [CSVs -> CsvPhases]
    BY <1>1 DEF Init, Absent, CsvPhases
  <2>3. used \in [Kinds -> Nat] /\ outages \in 0 .. MaxOutages
    BY <1>1, InstallAssumption DEF Init
  <2> QED BY <1>1, <2>1, <2>2, <2>3 DEF Init, TypeOK, Stages, CSVs
<1> QED BY <1>1, TypeStep, PTL DEF Spec

-----------------------------------------------------------------------------
(* The Subscription is there whenever the run relies on it.                *)

Unsubscribed == {"reset", "catalog", "subscribe", "reapply", "reapplyEarly", "done"}

SubscriptionInv ==
  /\ pc \notin Unsubscribed => sub
  /\ status = "SUCCESS" => pc = "done" /\ sub

\* No step but a recovery and its apply touches the Subscription once it is made.
LEMMA SubscriptionStep ==
  ASSUME TypeOK, SubscriptionInv, [Next]_vars PROVE SubscriptionInv'
<1> USE DEF SubscriptionInv, Unsubscribed, Go, Fail, timers, settings, found, workload, cluster, history, Annotate, Recoverable, Churning, NoJobs
<1>1. CASE Reset
  BY <1>1 DEF Reset
<1>2. CASE Catalog
  BY <1>2 DEF Catalog
<1>3. CASE Subscribe
  BY <1>3 DEF Subscribe, TypeOK
<1>4. CASE EnterWait
  BY <1>4 DEF EnterWait
<1>5. CASE EarlyFailure
  <2>1. CASE Recover("failure", "reapplyEarly")
    BY <1>5, <2>1 DEF EarlyFailure, Recover
  <2>2. CASE ~Recover("failure", "reapplyEarly")
    BY <1>5, <2>2 DEF EarlyFailure
  <2> QED BY <2>1, <2>2
<1>6. CASE ReapplyEarly
  BY <1>6 DEF ReapplyEarly, Reapply
<1>7. CASE Look
  BY <1>7 DEF Look
<1>8. CASE Poll
  BY <1>8 DEF Poll
<1>9. CASE ListJobs
  <2>1. CASE Recover("stall", "reapply")
    BY <1>9, <2>1 DEF ListJobs, Recover
  <2>2. CASE ~Recover("stall", "reapply")
    BY <1>9, <2>2 DEF ListJobs
  <2> QED BY <2>1, <2>2
<1>10. CASE CountJobs
  <2>1. CASE Recover("kick", "reapply")
    BY <1>10, <2>1 DEF CountJobs, Recover
  <2>2. CASE ~Recover("kick", "reapply")
    BY <1>10, <2>2 DEF CountJobs
  <2> QED BY <2>1, <2>2
<1>11. CASE LastUpdated
  <2>1. CASE Recover("stall", "reapply")
    BY <1>11, <2>1 DEF LastUpdated, Recover
  <2>2. CASE ~Recover("stall", "reapply")
    BY <1>11, <2>2 DEF LastUpdated
  <2> QED BY <2>1, <2>2
<1>12. CASE Recheck
  BY <1>12 DEF Recheck
<1>13. CASE Verdict
  <2>1. CASE Recover("failure", "reapply")
    BY <1>13, <2>1 DEF Verdict, Recover
  <2>2. CASE ~Recover("failure", "reapply")
    BY <1>13, <2>2 DEF Verdict
  <2> QED BY <2>1, <2>2
<1>14. CASE ReapplyLate
  BY <1>14 DEF ReapplyLate, Reapply
<1>15. CASE Sleep
  BY <1>15 DEF Sleep
<1>16. CASE Installer
  BY <1>16 DEF Installer
<1>17. CASE CsvPoll
  BY <1>17 DEF CsvPoll
<1>18. CASE CsvTarget
  BY <1>18 DEF CsvTarget
<1>19. CASE CsvRead
  BY <1>19 DEF CsvRead
<1>20. CASE CsvSleep
  BY <1>20 DEF CsvSleep
<1>21. CASE PostInstall
  BY <1>21 DEF PostInstall
<1>22. CASE OcTimesOut
  BY <1>22 DEF OcTimesOut
<1>23. CASE TaskTimesOut
  BY <1>23 DEF TaskTimesOut
<1>24. CASE OLM
  BY <1>24 DEF OLM, StartUnpack, StartJob, JobGoesOn, UnpackFails, UnpackAgain, Resolve, CsvGoesOn, Refresh, Writes
<1>25. CASE UNCHANGED vars
  BY <1>25 DEF vars
<1> QED BY <1>1, <1>2, <1>3, <1>4, <1>5, <1>6, <1>7, <1>8, <1>9, <1>10, <1>11, <1>12, <1>13, <1>14, <1>15, <1>16, <1>17, <1>18, <1>19, <1>20, <1>21, <1>22, <1>23, <1>24, <1>25 DEF Next, Step, Ended

\* An install that reports SUCCESS has its Subscription, however often it was
\* deleted on the way.
THEOREM SubscriptionCorrect == Spec => []SuccessHasSubscription
<1>1. Init => SubscriptionInv
  BY DEF Init, SubscriptionInv, Unsubscribed
<1>2. SubscriptionInv => SuccessHasSubscription
  BY DEF SubscriptionInv, SuccessHasSubscription
<1>3. TypeOK /\ SubscriptionInv /\ [Next]_vars => SubscriptionInv'
  BY SubscriptionStep
<1> QED BY <1>1, <1>2, <1>3, TypeCorrect, PTL DEF Spec

-----------------------------------------------------------------------------
(* What is left of an earlier run.                                         *)

\* Behind the reset a CSV or a Subscription of an earlier run is one that the
\* reset did not delete; the CSV that is read is the target, or another if one
\* of the reasons of InstalledIsWanted is given.
StaleInv ==
  /\ pc = "reset" => version = "none" /\ (ephc => csv["stale"] = "absent" /\ current # "stale")
  /\ pc \notin {"reset", "done"} =>
       /\ csv["stale"] # "absent" => "csv" \in kept
       /\ current = "stale" => "sub" \in kept
       /\ pc = "csvRead" /\ want # "target" => "sub" \in kept \/ blind
  /\ InstalledIsWanted

\* A recovery leaves nothing stale that was not there.
LEMMA RecoverStale ==
  ASSUME TypeOK, NEW kind \in Kinds, NEW stage, Recover(kind, stage)
  PROVE  /\ csv'["stale"] # "absent" => csv["stale"] # "absent"
         /\ current' = "stale" => current = "stale"
         /\ pc' = stage
BY DEF Recover, DeleteSubscription, DeleteCsvs, Absent, Go, CSVs, TypeOK

LEMMA StaleStep ==
  ASSUME TypeOK, StaleInv, [Next]_vars PROVE StaleInv'
<1> USE DEF StaleInv, InstalledIsWanted, Go, Fail, timers, settings, found, workload, cluster, history, Annotate, Recoverable, Churning, NoJobs, Kinds
<1>1. CASE Reset
  BY <1>1 DEF Reset, DeleteSubscription, DeleteCsvs, Absent, CSVs, TypeOK
<1>2. CASE Catalog
  BY <1>2 DEF Catalog
<1>3. CASE Subscribe
  BY <1>3 DEF Subscribe
<1>4. CASE EnterWait
  BY <1>4 DEF EnterWait
<1>5. CASE EarlyFailure
  <2>1. CASE Recover("failure", "reapplyEarly")
    BY <1>5, <2>1, RecoverStale DEF EarlyFailure
  <2>2. CASE ~Recover("failure", "reapplyEarly")
    BY <1>5, <2>2 DEF EarlyFailure
  <2> QED BY <2>1, <2>2
<1>6. CASE ReapplyEarly
  BY <1>6 DEF ReapplyEarly, Reapply
<1>7. CASE Look
  BY <1>7 DEF Look
<1>8. CASE Poll
  BY <1>8 DEF Poll
<1>9. CASE ListJobs
  <2>1. CASE Recover("stall", "reapply")
    BY <1>9, <2>1, RecoverStale DEF ListJobs
  <2>2. CASE ~Recover("stall", "reapply")
    BY <1>9, <2>2 DEF ListJobs
  <2> QED BY <2>1, <2>2
<1>10. CASE CountJobs
  <2>1. CASE Recover("kick", "reapply")
    BY <1>10, <2>1, RecoverStale DEF CountJobs
  <2>2. CASE ~Recover("kick", "reapply")
    BY <1>10, <2>2 DEF CountJobs
  <2> QED BY <2>1, <2>2
<1>11. CASE LastUpdated
  <2>1. CASE Recover("stall", "reapply")
    BY <1>11, <2>1, RecoverStale DEF LastUpdated
  <2>2. CASE ~Recover("stall", "reapply")
    BY <1>11, <2>2 DEF LastUpdated
  <2> QED BY <2>1, <2>2
<1>12. CASE Recheck
  BY <1>12 DEF Recheck
<1>13. CASE Verdict
  <2>1. CASE Recover("failure", "reapply")
    BY <1>13, <2>1, RecoverStale DEF Verdict
  <2>2. CASE ~Recover("failure", "reapply")
    BY <1>13, <2>2 DEF Verdict
  <2> QED BY <2>1, <2>2
<1>14. CASE ReapplyLate
  BY <1>14 DEF ReapplyLate, Reapply
<1>15. CASE Sleep
  BY <1>15 DEF Sleep
<1>16. CASE Installer
  BY <1>16 DEF Installer
<1>17. CASE CsvPoll
  BY <1>17 DEF CsvPoll
<1>18. CASE CsvTarget
  <2>1. PICK ok \in BOOLEAN : want' \in Answers(ok) /\ blind' = (blind \/ ~ok \/ ~sub)
    BY <1>18 DEF CsvTarget
  <2>2. CASE ok /\ sub
    <3>1. want' # "target" => "sub" \in kept
      BY <1>18, <2>1, <2>2 DEF CsvTarget, Answers, TypeOK, CSVs
    <3>2. blind => blind'
      BY <2>1
    <3> QED BY <1>18, <3>1, <3>2 DEF CsvTarget
  <2>3. CASE ~ok \/ ~sub
    <3>1. blind'
      BY <2>1, <2>3
    <3> QED BY <1>18, <3>1 DEF CsvTarget
  <2> QED BY <2>2, <2>3
<1>19. CASE CsvRead
  BY <1>19 DEF CsvRead, Candidates
<1>20. CASE CsvSleep
  BY <1>20 DEF CsvSleep
<1>21. CASE PostInstall
  BY <1>21 DEF PostInstall
<1>22. CASE OcTimesOut
  BY <1>22 DEF OcTimesOut
<1>23. CASE TaskTimesOut
  BY <1>23 DEF TaskTimesOut
<1>24. CASE OLM
  BY <1>24 DEF OLM, StartUnpack, StartJob, JobGoesOn, UnpackFails, UnpackAgain, Resolve, CsvGoesOn, Refresh, Writes, TypeOK, CSVs
<1>25. CASE UNCHANGED vars
  BY <1>25 DEF vars
<1> QED BY <1>1, <1>2, <1>3, <1>4, <1>5, <1>6, <1>7, <1>8, <1>9, <1>10, <1>11, <1>12, <1>13, <1>14, <1>15, <1>16, <1>17, <1>18, <1>19, <1>20, <1>21, <1>22, <1>23, <1>24, <1>25 DEF Next, Step, Ended

\* The version of an earlier run's CSV is reported only where the reset failed
\* and a second thing failed with it.
THEOREM InstalledCorrect == Spec => []InstalledIsWanted
<1>1. ASSUME Init PROVE StaleInv
  <2>1. ephc => csv = Absent /\ current = "none"
    BY <1>1 DEF Init
  <2>2. pc = "reset" /\ version = "none"
    BY <1>1 DEF Init
  <2> QED BY <2>1, <2>2 DEF StaleInv, InstalledIsWanted, Absent, CSVs
<1>2. StaleInv => InstalledIsWanted
  BY DEF StaleInv, InstalledIsWanted
<1>3. TypeOK /\ StaleInv /\ [Next]_vars => StaleInv'
  BY StaleStep
<1> QED BY <1>1, <1>2, <1>3, TypeCorrect, PTL DEF Spec

-----------------------------------------------------------------------------
(* How often the Subscription is made again.                               *)

Before == Stages \ {"csv", "csvTarget", "csvRead", "csvSleep", "post", "done"}

Recreations == Limit["failure"] + Limit["stall"] + Limit["kick"]

\* Until the wait ends every recreation is counted by one of three counters,
\* each within its limit; observing, none is under way.
CountInv ==
  /\ \A k \in Kinds : used[k] <= Limit[k]
  /\ recreated <= Recreations
  /\ pc \in Before => recreated = used["failure"] + used["stall"] + used["kick"]
  /\ diagnostic => pc \notin {"reapply", "reapplyEarly"}

\* A recovery within its limit adds one to its counter and to the recreations.
LEMMA RecoverCount ==
  ASSUME TypeOK, CountInv, NEW kind \in Kinds \ {"csv"}, NEW stage \in Before,
         CanRecover(kind), Recover(kind, stage), pc \in Before, UNCHANGED settings
  PROVE  CountInv'
<1>1. used' = [used EXCEPT ![kind] = @ + 1] /\ recreated' = recreated + 1 /\ pc' = stage
  BY DEF Recover, Go
<1>2. used[kind] < Limit[kind] /\ ~diagnostic
  BY DEF CanRecover
<1>3. \A k \in Kinds : used[k] \in Nat /\ Limit[k] \in Nat
  BY InstallAssumption DEF TypeOK
<1>7. used' \in [Kinds -> Nat]
  BY <1>1 DEF TypeOK
<1>4. \A k \in Kinds : used'[k] <= Limit[k]
  BY <1>1, <1>2, <1>3 DEF CountInv, TypeOK
<1>5. recreated' = used'["failure"] + used'["stall"] + used'["kick"]
  BY <1>1, <1>3 DEF CountInv, TypeOK, Kinds
<1>6. recreated' <= Recreations
  BY <1>3, <1>4, <1>5, <1>7 DEF Recreations, Kinds
<1> QED BY <1>1, <1>2, <1>4, <1>5, <1>6 DEF CountInv, settings

LEMMA CountStep ==
  ASSUME TypeOK, CountInv, [Next]_vars PROVE CountInv'
<1> USE DEF Go, Fail, timers, settings, found, workload, cluster, history, Annotate, Recoverable, Churning, NoJobs, Before, Stages, Kinds
<1>1. CASE Reset
  BY <1>1 DEF CountInv, Reset
<1>2. CASE Catalog
  BY <1>2 DEF CountInv, Catalog
<1>3. CASE Subscribe
  BY <1>3 DEF CountInv, Subscribe
<1>4. CASE EnterWait
  BY <1>4 DEF CountInv, EnterWait
<1>5. CASE EarlyFailure
  <2>1. CASE Recover("failure", "reapplyEarly") /\ CanRecover("failure")
    BY <1>5, <2>1, RecoverCount DEF EarlyFailure
  <2>2. CASE ~(Recover("failure", "reapplyEarly") /\ CanRecover("failure"))
    BY <1>5, <2>2 DEF EarlyFailure, CountInv
  <2> QED BY <2>1, <2>2
<1>6. CASE ReapplyEarly
  BY <1>6 DEF CountInv, ReapplyEarly, Reapply
<1>7. CASE Look
  BY <1>7 DEF CountInv, Look
<1>8. CASE Poll
  BY <1>8 DEF CountInv, Poll
<1>9. CASE ListJobs
  <2>1. CASE Recover("stall", "reapply") /\ CanRecover("stall")
    BY <1>9, <2>1, RecoverCount DEF ListJobs
  <2>2. CASE ~(Recover("stall", "reapply") /\ CanRecover("stall"))
    BY <1>9, <2>2 DEF ListJobs, CountInv
  <2> QED BY <2>1, <2>2
<1>10. CASE CountJobs
  <2>1. CASE Recover("kick", "reapply") /\ CanRecover("kick")
    BY <1>10, <2>1, RecoverCount DEF CountJobs
  <2>2. CASE ~(Recover("kick", "reapply") /\ CanRecover("kick"))
    BY <1>10, <2>2 DEF CountJobs, CountInv
  <2> QED BY <2>1, <2>2
<1>11. CASE LastUpdated
  <2>1. CASE Recover("stall", "reapply") /\ CanRecover("stall")
    BY <1>11, <2>1, RecoverCount DEF LastUpdated
  <2>2. CASE ~(Recover("stall", "reapply") /\ CanRecover("stall"))
    BY <1>11, <2>2 DEF LastUpdated, CountInv
  <2> QED BY <2>1, <2>2
<1>12. CASE Recheck
  BY <1>12 DEF CountInv, Recheck
<1>13. CASE Verdict
  <2>1. CASE Recover("failure", "reapply") /\ CanRecover("failure")
    BY <1>13, <2>1, RecoverCount DEF Verdict
  <2>2. CASE ~(Recover("failure", "reapply") /\ CanRecover("failure"))
    BY <1>13, <2>2 DEF Verdict, CountInv
  <2> QED BY <2>1, <2>2
<1>14. CASE ReapplyLate
  BY <1>14 DEF CountInv, ReapplyLate, Reapply
<1>15. CASE Sleep
  BY <1>15 DEF CountInv, Sleep
<1>16. CASE Installer
  BY <1>16, InstallAssumption DEF CountInv, Installer, TypeOK
<1>17. CASE CsvPoll
  <2>1. \A k \in Kinds : used'[k] <= Limit[k]
    <3>1. UNCHANGED used \/ (used["csv"] < Limit["csv"] /\ used' = [used EXCEPT !["csv"] = @ + 1])
      BY <1>17 DEF CsvPoll
    <3> QED BY <3>1, InstallAssumption DEF CountInv, TypeOK
  <2> QED BY <1>17, <2>1 DEF CountInv, CsvPoll
<1>18. CASE CsvTarget
  BY <1>18 DEF CountInv, CsvTarget
<1>19. CASE CsvRead
  BY <1>19 DEF CountInv, CsvRead
<1>20. CASE CsvSleep
  BY <1>20 DEF CountInv, CsvSleep
<1>21. CASE PostInstall
  BY <1>21 DEF CountInv, PostInstall
<1>22. CASE OcTimesOut
  BY <1>22 DEF CountInv, OcTimesOut
<1>23. CASE TaskTimesOut
  BY <1>23 DEF CountInv, TaskTimesOut
<1>24. CASE OLM
  BY <1>24 DEF CountInv, OLM, StartUnpack, StartJob, JobGoesOn, UnpackFails, UnpackAgain, Resolve, CsvGoesOn, Refresh, Writes, TypeOK, CSVs
<1>25. CASE UNCHANGED vars
  BY <1>25 DEF CountInv, vars
<1> QED BY <1>1, <1>2, <1>3, <1>4, <1>5, <1>6, <1>7, <1>8, <1>9, <1>10, <1>11, <1>12, <1>13, <1>14, <1>15, <1>16, <1>17, <1>18, <1>19, <1>20, <1>21, <1>22, <1>23, <1>24, <1>25 DEF Next, Step, Ended

\* However the recoveries take turns, the Subscription is deleted at most as
\* often as their limits say.
THEOREM RecreationsCorrect == Spec => []RecreationsBounded
<1>1. Init => CountInv
  BY InstallAssumption DEF Init, CountInv, Before, Stages, Kinds, Recreations
<1>2. CountInv => RecreationsBounded
  BY DEF CountInv, RecreationsBounded, Recreations
<1>3. TypeOK /\ CountInv /\ [Next]_vars => CountInv'
  BY CountStep
<1> QED BY <1>1, <1>2, <1>3, TypeCorrect, PTL DEF Spec

\* A step of the wait that observes recovers nothing and applies nothing; the
\* one that enters the wait may annotate the OperatorGroups.
LEMMA ObservingStep ==
  ASSUME CountInv, [Next]_vars, diagnostic, pc \in UnpackWait \cup {"enter"}, pc' # pc
  PROVE  UNCHANGED workload /\ (pc # "enter" => UNCHANGED raised)
<1> USE DEF UnpackWait, Go, cluster
<1>1. ~CanRecover("failure") /\ ~CanRecover("stall") /\ ~CanRecover("kick")
  BY DEF CanRecover
<1>2. pc \notin {"reapply", "reapplyEarly"}
  BY DEF CountInv
<1>3. CASE EarlyFailure \/ ListJobs \/ CountJobs \/ LastUpdated \/ Verdict
  BY <1>1, <1>3 DEF EarlyFailure, ListJobs, CountJobs, LastUpdated, Verdict
<1>4. CASE Look \/ Poll \/ Recheck \/ Sleep \/ OcTimesOut \/ TaskTimesOut
  BY <1>4 DEF Look, Poll, Recheck, Sleep, OcTimesOut, TaskTimesOut
<1>5. CASE ReapplyEarly \/ ReapplyLate
  BY <1>2, <1>5 DEF ReapplyEarly, ReapplyLate, Reapply
<1>6. CASE Reset \/ Catalog \/ Subscribe
  BY <1>6 DEF Reset, Catalog, Subscribe
<1>7. CASE EnterWait
  BY <1>7 DEF EnterWait
<1>8. CASE Installer \/ CsvPoll \/ CsvTarget \/ CsvRead \/ CsvSleep \/ PostInstall
  BY <1>8 DEF Installer, CsvPoll, CsvTarget, CsvRead, CsvSleep, PostInstall
<1>9. CASE OLM \/ UNCHANGED vars
  BY <1>9 DEF OLM, vars
<1> QED BY <1>3, <1>4, <1>5, <1>6, <1>7, <1>8, <1>9 DEF Next, Step, Ended

\* Observing only, the unpack wait leaves the Subscription, the CSVs and the
\* Jobs alone, and once it has begun the OperatorGroups as well.
THEOREM ObservingCorrect == Spec => ObservesOnly
<1>1. Init => CountInv
  BY InstallAssumption DEF Init, CountInv, Before, Stages, Kinds, Recreations
<1>2. TypeOK /\ CountInv /\ [Next]_vars => CountInv'
  BY CountStep
<1>3. CountInv /\ [Next]_vars =>
        [diagnostic /\ pc \in UnpackWait \cup {"enter"} /\ pc' # pc
           => UNCHANGED workload /\ (pc # "enter" => UNCHANGED raised)]_vars
  BY ObservingStep
<1> QED BY <1>1, <1>2, <1>3, TypeCorrect, PTL DEF Spec, ObservesOnly
=============================================================================
