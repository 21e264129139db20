-------------------------- MODULE GateVerdictProofs --------------------------
(* For any number of conforma runs, of polls and of components: what was   *)
(* tested had passed the gate, components are tested after what guards     *)
(* them, and what a green run means.                                       *)
EXTENDS GateVerdict, TLAPS

-----------------------------------------------------------------------------
(* The types.                                                              *)

\* Closing a task and stopping at one keep the types.
LEMMA CloseTypes ==
  ASSUME TypeOK, NEW t \in Tasks, NEW s \in Statuses, Close(t, s)
  PROVE  /\ state' \in [Tasks -> Statuses]
         /\ at' \in Tasks \cup {"polling", "publish", "end"}
<1>1. state' \in [Tasks -> Statuses]
  BY DEF Close, TypeOK
<1>2. at' \in Tasks \cup {"polling", "publish", "end"}
  BY DEF Close, After, Tasks
<1> QED BY <1>1, <1>2

LEMMA StopTypes ==
  ASSUME TypeOK, NEW t \in Tasks, Stop(t)
  PROVE  /\ state' \in [Tasks -> Statuses]
         /\ test' \in [Components -> Statuses]
         /\ at' \in Tasks \cup {"polling", "publish", "end"}
         /\ verdict' \in {"none", "green", "red"}
BY DEF Stop, TypeOK, Statuses

LEMMA StatusFacts ==
  /\ {"pending", "succeeded", "failed", "when", "unreachable"} \subseteq Statuses
  /\ Executed \subseteq Statuses /\ Skipped \subseteq Statuses
BY DEF Statuses, Executed, Skipped

LEMMA TaskFacts ==
  {"parse", "conforma", "extract", "fbc", "cluster", "registry", "deps", "install",
   "verify", "prepare", "flags", "bvt", "tests", "finalize"} \subseteq Tasks
BY DEF Tasks

\* A decision of the conforma gate keeps the types.
LEMMA DecideTypes ==
  ASSUME TypeOK, NEW d \in Passing \cup Skipping, Decide(d)
  PROVE  TypeOK'
<1>1. /\ state' \in [Tasks -> Statuses]
      /\ at' \in Tasks \cup {"polling", "publish", "end"}
  BY CloseTypes, StatusFacts, TaskFacts DEF Decide
<1>2. polls' \in 0..PollLimit
  BY PollLimitAssumption DEF Decide
<1> QED BY <1>1, <1>2 DEF Decide, TypeOK

LEMMA TypesKept == ASSUME TypeOK, [Next]_vars PROVE TypeOK'
<1> USE StatusFacts, TaskFacts
<1>1. CASE Parse
  <2>1. CASE Close("parse", "succeeded") /\ UNCHANGED <<test, verdict>>
    BY <1>1, <2>1, CloseTypes DEF Parse, TypeOK
  <2>2. CASE Stop("parse")
    BY <1>1, <2>2, StopTypes DEF Parse, TypeOK
  <2> QED BY <1>1, <2>1, <2>2 DEF Parse
<1>2. CASE BelowMinimum \/ NoSnapshot \/ Bypass \/ PollTimesOut
  BY <1>2, DecideTypes DEF BelowMinimum, NoSnapshot, Bypass, PollTimesOut,
     Passing, Skipping
<1>3. CASE Evaluate
  BY <1>3, DecideTypes DEF Evaluate, Passing, Skipping
<1>4. CASE StartPolling
  BY <1>4 DEF StartPolling, TypeOK
<1>5. CASE PollAgain
  BY <1>5, PollLimitAssumption DEF PollAgain, TypeOK
<1>6. CASE ConformaDies
  <2>1. polls' \in 0..PollLimit
    BY <1>6, PollLimitAssumption DEF ConformaDies
  <2> QED BY <1>6, <2>1, StopTypes DEF ConformaDies, TypeOK
<1>7. CASE ConformaProgress
  BY <1>7 DEF ConformaProgress, TypeOK
<1>8. CASE PassOver
  <2>1. PICK t \in Tasks : Close(t, "unreachable") \/ Close(t, "when")
    BY <1>8 DEF PassOver
  <2> QED BY <1>8, <2>1, CloseTypes DEF PassOver, TypeOK
<1>9. CASE RunTask
  <2>1. PICK t \in Tasks : \/ Close(t, "succeeded") /\ UNCHANGED <<test, verdict>>
                           \/ Stop(t)
    BY <1>9 DEF RunTask
  <2>2. CASE Close(t, "succeeded") /\ UNCHANGED <<test, verdict>>
    BY <1>9, <2>2, CloseTypes DEF RunTask, TypeOK
  <2>3. CASE Stop(t)
    BY <1>9, <2>3, StopTypes DEF RunTask, TypeOK
  <2> QED BY <2>1, <2>2, <2>3
<1>10. CASE StructuralTests
  <2>1. PICK status \in Executed, found \in SUBSET CaseKinds :
          /\ Close("fbc", status)
          /\ cases' = [cases EXCEPT !["structural"] = found]
    BY <1>10 DEF StructuralTests
  <2>2. cases' \in [Sources -> SUBSET CaseKinds]
    BY <2>1 DEF TypeOK, Sources
  <2> QED BY <1>10, <2>1, <2>2, CloseTypes DEF StructuralTests, TypeOK
<1>11. CASE Prepare
  BY <1>11, CloseTypes DEF Prepare, TypeOK
<1>12. CASE ResolveFlags
  <2>1. chosen' \subseteq request.components
    BY <1>12 DEF ResolveFlags, TypeOK
  <2>2. CASE Close("flags", "succeeded") /\ UNCHANGED <<test, verdict>>
    BY <1>12, <2>1, <2>2, CloseTypes DEF ResolveFlags, TypeOK
  <2>3. CASE Stop("flags")
    BY <1>12, <2>1, <2>3, StopTypes DEF ResolveFlags, TypeOK
  <2> QED BY <1>12, <2>2, <2>3 DEF ResolveFlags
<1>13. CASE InvalidReference
  BY <1>13 DEF InvalidReference, TypeOK
<1>14. CASE Bvt
  <2>1. PICK found \in SUBSET CaseKinds :
          /\ cases' = [cases EXCEPT !["bvt"] = found]
          /\ \/ Close("bvt", "succeeded") /\ UNCHANGED <<test, verdict>>
             \/ Stop("bvt")
    BY <1>14 DEF Bvt
  <2>2. cases' \in [Sources -> SUBSET CaseKinds]
    BY <2>1 DEF TypeOK, Sources
  <2>3. CASE Close("bvt", "succeeded") /\ UNCHANGED <<test, verdict>>
    BY <1>14, <2>2, <2>3, CloseTypes DEF Bvt, TypeOK
  <2>4. CASE Stop("bvt")
    BY <1>14, <2>2, <2>4, StopTypes DEF Bvt, TypeOK
  <2> QED BY <2>1, <2>3, <2>4
<1>15. CASE TestComponent
  <2>1. PICK c \in chosen, status \in Executed, found \in SUBSET CaseKinds :
          /\ test' = [test EXCEPT ![c] = status]
          /\ cases' = [cases EXCEPT !["smoke"] = @ \cup found]
    BY <1>15 DEF TestComponent
  <2>2. cases' \in [Sources -> SUBSET CaseKinds]
    BY <2>1 DEF TypeOK, Sources
  <2>3. test' \in [Components -> Statuses]
    BY <2>1 DEF TypeOK
  <2> QED BY <1>15, <2>2, <2>3 DEF TestComponent, TypeOK
<1>16. CASE TestsOver
  <2>1. test' \in [Components -> Statuses]
    BY <1>16 DEF TestsOver, TypeOK
  <2>2. PICK s \in Statuses : Close("tests", s)
    BY <1>16 DEF TestsOver
  <2> QED BY <1>16, <2>1, <2>2, CloseTypes DEF TestsOver, TypeOK
<1>17. CASE Finalize
  <2>1. PICK s \in Statuses : Close("finalize", s)
    BY <1>17 DEF Finalize
  <2> QED BY <1>17, <2>1, CloseTypes DEF Finalize, TypeOK
<1>18. CASE Publish
  BY <1>18 DEF Publish, TypeOK
<1>19. CASE UNCHANGED vars
  BY <1>19 DEF vars, TypeOK
<1> QED BY <1>1, <1>2, <1>3, <1>4, <1>5, <1>6, <1>7, <1>8, <1>9, <1>10, <1>11,
           <1>12, <1>13, <1>14, <1>15, <1>16, <1>17, <1>18, <1>19 DEF Next, Run

LEMMA InitTypes == Init => TypeOK
<1> SUFFICES ASSUME Init PROVE TypeOK
  OBVIOUS
<1>1. polls \in 0..PollLimit
  BY PollLimitAssumption DEF Init
<1> QED BY <1>1 DEF Init, TypeOK, Statuses, Tasks, Sources

\* Every variable keeps its type.
THEOREM TypeCorrect == Spec => []TypeOK
<1> QED BY InitTypes, TypesKept, PTL DEF Spec

-----------------------------------------------------------------------------
(* The order of the tasks.                                                 *)

Rank(t) == CASE t = "parse"    -> 1
             [] t = "conforma" -> 2
             [] t = "polling"  -> 2
             [] t = "extract"  -> 3
             [] t = "fbc"      -> 4
             [] t = "cluster"  -> 5
             [] t = "registry" -> 6
             [] t = "deps"     -> 7
             [] t = "install"  -> 8
             [] t = "verify"   -> 9
             [] t = "prepare"  -> 10
             [] t = "flags"    -> 11
             [] t = "bvt"      -> 12
             [] t = "tests"    -> 13
             [] t = "finalize" -> 14
             [] OTHER          -> 15

LEMMA Ranks ==
  /\ Rank("parse") = 1 /\ Rank("conforma") = 2 /\ Rank("polling") = 2
  /\ Rank("extract") = 3 /\ Rank("fbc") = 4 /\ Rank("cluster") = 5
  /\ Rank("registry") = 6 /\ Rank("deps") = 7 /\ Rank("install") = 8
  /\ Rank("verify") = 9 /\ Rank("prepare") = 10 /\ Rank("flags") = 11
  /\ Rank("bvt") = 12 /\ Rank("tests") = 13 /\ Rank("finalize") = 14
  /\ Rank("publish") = 15
BY DEF Rank

LEMMA RankAfter == \A t \in Tasks : Rank(t) \in 1..14 /\ Rank(After[t]) = Rank(t) + 1
BY Ranks DEF Tasks, After

LEMMA RankInjective == \A t, u \in Tasks : Rank(t) = Rank(u) => t = u
BY Ranks DEF Tasks

IsTurn(t) == at = t \/ (at = "polling" /\ t = "conforma")

\* What is over is what comes before the task whose turn it is.
Turn == at # "end" => \A t \in Tasks : state[t] = "pending" <=> Rank(t) >= Rank(at)

\* A task that is over stays as it is.
Frozen == \A t \in Tasks : state[t] # "pending" => state'[t] = state[t]

LEMMA CloseTurn ==
  ASSUME TypeOK, Turn, NEW t \in Tasks, IsTurn(t),
         NEW s \in Statuses \ {"pending"}, Close(t, s)
  PROVE  Turn' /\ Frozen /\ state[t] = "pending"
<1>1. at # "end" /\ Rank(at) = Rank(t) /\ Rank(t) \in 1..14
  BY RankAfter, Ranks DEF IsTurn, Tasks
<1>2. state[t] = "pending"
  BY <1>1 DEF Turn
<1>3. \A u \in Tasks : state'[u] = IF u = t THEN s ELSE state[u]
  BY DEF Close, TypeOK
<1>4. Frozen
  BY <1>2, <1>3 DEF Frozen
<1>5. Rank(at') = Rank(t) + 1
  BY RankAfter DEF Close
<1>6. ASSUME NEW u \in Tasks PROVE state'[u] = "pending" <=> Rank(u) >= Rank(at')
  <2>1. Rank(u) \in 1..14
    BY RankAfter
  <2>2. state[u] = "pending" <=> Rank(u) >= Rank(t)
    BY <1>1 DEF Turn
  <2>3. Rank(u) = Rank(t) => u = t
    BY RankInjective
  <2> QED BY <1>1, <1>3, <1>5, <2>1, <2>2, <2>3
<1> QED BY <1>2, <1>4, <1>6 DEF Turn

LEMMA StopTurn ==
  ASSUME TypeOK, Turn, NEW t \in Tasks, IsTurn(t), Stop(t)
  PROVE  Turn' /\ Frozen /\ state[t] = "pending" /\ state'[t] = "failed"
<1>1. at # "end" /\ Rank(at) = Rank(t)
  BY RankAfter, Ranks DEF IsTurn, Tasks
<1>2. state[t] = "pending"
  BY <1>1, RankAfter DEF Turn
<1>3. \A u \in Tasks : state'[u] = IF u = t THEN "failed"
                                   ELSE IF state[u] = "pending" THEN "unreachable"
                                   ELSE state[u]
  BY DEF Stop
<1>4. Frozen
  BY <1>2, <1>3 DEF Frozen
<1>5. \A u \in Tasks : state'[u] # "pending"
  BY <1>3
<1>6. at' = "end" \/ at' = "publish"
  BY DEF Stop
<1>7. \A u \in Tasks : ~(Rank(u) >= 15)
  BY RankAfter
<1> QED BY <1>2, <1>3, <1>4, <1>5, <1>6, <1>7, Ranks DEF Turn

\* What a step does to the tasks, and why.
Moved ==
  \/ /\ state' = state
     /\ at' = at \/ (at = "conforma" /\ at' = "polling") \/ at' = "end"
  \/ \E t \in Tasks, s \in Statuses \ {"pending"} :
        /\ IsTurn(t) /\ Close(t, s)
        /\ s = "failed" => t \notin Hard
        /\ s \in Executed => t \in {"parse", "conforma"} \/ (Wanted(t) /\ ~Blocked(t))
        /\ s = "when" => ~Wanted(t)
        /\ s = "unreachable" => Blocked(t)
  \/ \E t \in Hard : /\ IsTurn(t) /\ Stop(t)
                     /\ t \in {"parse", "conforma"} \/ (Wanted(t) /\ ~Blocked(t))

LEMMA StatusKinds ==
  /\ Executed \subseteq Statuses \ {"pending"}
  /\ {"succeeded", "failed", "when", "unreachable"} \subseteq Statuses \ {"pending"}
  /\ "succeeded" \in Executed /\ "failed" \in Executed
  /\ "when" \notin Executed /\ "unreachable" \notin Executed
  /\ Executed \cap Skipped = {}
BY DEF Statuses, Executed, Skipped

LEMMA HardTasks ==
  /\ {"parse", "conforma", "extract", "cluster", "registry", "deps", "install",
      "verify", "flags", "bvt"} \subseteq Hard
  /\ Hard \subseteq Tasks
  /\ "fbc" \notin Hard /\ "prepare" \notin Hard /\ "finalize" \notin Hard
BY DEF Hard, Tasks

LEMMA StepMoves == ASSUME [Next]_vars PROVE Moved
<1> USE StatusKinds, HardTasks, TaskFacts
<1>1. CASE Parse
  BY <1>1 DEF Parse, Moved, IsTurn
<1>2. CASE BelowMinimum \/ NoSnapshot \/ Bypass \/ PollTimesOut
  BY <1>2 DEF BelowMinimum, NoSnapshot, Bypass, PollTimesOut, Decide, Moved, IsTurn
<1>3. CASE Evaluate
  BY <1>3 DEF Evaluate, Decide, Moved, IsTurn
<1>4. CASE StartPolling \/ PollAgain \/ ConformaProgress \/ InvalidReference
  BY <1>4 DEF StartPolling, PollAgain, ConformaProgress, InvalidReference, Moved
<1>5. CASE ConformaDies
  BY <1>5 DEF ConformaDies, Moved, IsTurn
<1>6. CASE PassOver
  BY <1>6 DEF PassOver, Moved, IsTurn
<1>7. CASE RunTask
  <2>1. PICK t \in {"extract", "cluster", "registry", "deps", "install", "verify"} :
          Ready(t) /\ (Close(t, "succeeded") \/ Stop(t))
    BY <1>7 DEF RunTask
  <2> QED BY <2>1 DEF Moved, IsTurn, Ready
<1>8. CASE StructuralTests
  BY <1>8 DEF StructuralTests, Moved, IsTurn, Ready
<1>9. CASE Prepare
  BY <1>9 DEF Prepare, Moved, IsTurn, Ready
<1>10. CASE ResolveFlags
  BY <1>10 DEF ResolveFlags, Moved, IsTurn, Ready
<1>11. CASE Bvt
  BY <1>11 DEF Bvt, Moved, IsTurn, Ready
<1>12. CASE TestComponent
  BY <1>12 DEF TestComponent, Moved
<1>13. CASE TestsOver
  BY <1>13 DEF TestsOver, Moved, IsTurn, Ready
<1>14. CASE Finalize
  BY <1>14 DEF Finalize, Moved, IsTurn, Ready
<1>15. CASE Publish
  BY <1>15 DEF Publish, Moved
<1>16. CASE UNCHANGED vars
  BY <1>16 DEF vars, Moved
<1> QED BY <1>1, <1>2, <1>3, <1>4, <1>5, <1>6, <1>7, <1>8, <1>9, <1>10, <1>11,
           <1>12, <1>13, <1>14, <1>15, <1>16 DEF Next, Run

LEMMA TurnKept == ASSUME TypeOK, Turn, Moved PROVE Turn' /\ Frozen
<1>1. CASE state' = state /\ at' = at
  BY <1>1 DEF Turn, Frozen
<1>2. CASE state' = state /\ at = "conforma" /\ at' = "polling"
  BY <1>2, Ranks DEF Turn, Frozen
<1>3. CASE state' = state /\ at' = "end"
  BY <1>3 DEF Turn, Frozen
<1>4. CASE \E t \in Tasks, s \in Statuses \ {"pending"} : IsTurn(t) /\ Close(t, s)
  BY <1>4, CloseTurn
<1>5. CASE \E t \in Hard : IsTurn(t) /\ Stop(t)
  BY <1>5, StopTurn, HardTasks
<1> QED BY <1>1, <1>2, <1>3, <1>4, <1>5 DEF Moved

-----------------------------------------------------------------------------
(* Why a task ran or did not.                                              *)

\* What a step leaves alone, by whose turn it is.
Kept == /\ request' = request
        /\ at \notin {"conforma", "polling"} => decision' = decision
        /\ at # "polling" => ec' = ec
        /\ at # "flags" => chosen' = chosen
        /\ at # "bvt" => cases'["bvt"] = cases["bvt"]
        /\ at # "fbc" => cases'["structural"] = cases["structural"]

LEMMA StepKeeps == ASSUME TypeOK, [Next]_vars PROVE Kept
<1> USE DEF Kept
<1>1. CASE Parse \/ StartPolling \/ PollAgain \/ ConformaDies
  BY <1>1 DEF Parse, StartPolling, PollAgain, ConformaDies
<1>2. CASE BelowMinimum \/ NoSnapshot \/ Bypass \/ PollTimesOut \/ Evaluate
  BY <1>2 DEF BelowMinimum, NoSnapshot, Bypass, PollTimesOut, Evaluate, Decide
<1>3. CASE ConformaProgress \/ PassOver \/ RunTask \/ Prepare \/ InvalidReference
  BY <1>3 DEF ConformaProgress, PassOver, RunTask, Prepare, InvalidReference
<1>4. CASE StructuralTests
  BY <1>4 DEF StructuralTests, Ready, TypeOK, Sources
<1>5. CASE ResolveFlags
  BY <1>5 DEF ResolveFlags, Ready
<1>6. CASE Bvt
  BY <1>6 DEF Bvt, Ready, TypeOK, Sources
<1>7. CASE TestComponent
  BY <1>7 DEF TestComponent, TypeOK, Sources
<1>8. CASE TestsOver \/ Finalize \/ Publish
  BY <1>8 DEF TestsOver, Finalize, Publish
<1>9. CASE UNCHANGED vars
  BY <1>9 DEF vars
<1> QED BY <1>1, <1>2, <1>3, <1>4, <1>5, <1>6, <1>7, <1>8, <1>9 DEF Next, Run

\* Nothing happens after the end.
LEMMA NothingAfterEnd == ASSUME at = "end", [Next]_vars PROVE UNCHANGED vars
<1>1. "end" \notin Tasks
  BY DEF Tasks
<1>2. ~Next
  BY <1>1 DEF Next, Run, Parse, BelowMinimum, NoSnapshot, Bypass, StartPolling,
     Evaluate, PollAgain, PollTimesOut, ConformaDies, ConformaProgress, PassOver,
     RunTask, StructuralTests, Prepare, ResolveFlags, InvalidReference, Bvt,
     TestComponent, TestsOver, Finalize, Publish, Ready
<1> QED BY <1>2

LEMMA WantedFacts ==
  /\ \A t \in Tasks \ {"parse", "conforma"} : Wanted(t) => Pass
  /\ Wanted("parse") /\ Wanted("conforma")
BY DEF Wanted, Tasks

LEMMA WantedStays ==
  ASSUME request' = request, NEW t \in Tasks,
         t \notin {"parse", "conforma"} => decision' = decision,
         t = "tests" => chosen' = chosen
  PROVE  Wanted(t)' <=> Wanted(t)
BY DEF Wanted, Pass, RunDeps, RunBvt, RunComponents, RunFinalize, Selected,
   SnapshotOnly, Tasks

\* Tasks are wanted, or not, for good once they are over.
LEMMA WantedSettled ==
  ASSUME TypeOK, Turn, Kept, at # "end", NEW t \in Tasks, state[t] # "pending"
  PROVE  Wanted(t)' <=> Wanted(t)
<1>1. ~(Rank(t) >= Rank(at)) /\ Rank(t) \in 1..14
  BY RankAfter DEF Turn
<1>2. t \notin {"parse", "conforma"} => at \notin {"conforma", "polling"}
  BY <1>1, Ranks DEF Tasks
<1>3. t = "tests" => at # "flags"
  BY <1>1, Ranks
<1> QED BY <1>2, <1>3, WantedStays DEF Kept

LEMMA EarlierTasks ==
  \A t, u \in Tasks : <<t, u>> \in Uses \cup RunsAfter => Rank(u) < Rank(t)
BY Ranks DEF Uses, RunsAfter, Tasks

\* A task that is over stays blocked, or not.
LEMMA BlockedSettled ==
  ASSUME Kept, Turn, Frozen, at # "end", NEW t \in Tasks,
         state[t] # "pending" \/ IsTurn(t)
  PROVE  Blocked(t)' <=> Blocked(t)
<1>1. Rank(at) \in 1..15 /\ Rank(t) <= Rank(at)
  <2>1. CASE IsTurn(t)
    BY <2>1, RankAfter, Ranks DEF IsTurn
  <2>2. CASE state[t] # "pending"
    <3>1. ~(Rank(t) >= Rank(at)) /\ Rank(t) \in 1..14
      BY <2>2, RankAfter DEF Turn
    <3>2. Rank(at) \in 1..15
      BY DEF Rank
    <3> QED BY <3>1, <3>2
  <2> QED BY <2>1, <2>2
<1>2. ASSUME NEW u \in Tasks, <<t, u>> \in Uses \cup RunsAfter
      PROVE  state'[u] = state[u]
  <2>1. Rank(u) < Rank(t) /\ Rank(u) \in 1..14 /\ Rank(t) \in 1..14
    BY <1>2, EarlierTasks, RankAfter
  <2>2. ~(Rank(u) >= Rank(at))
    BY <1>1, <2>1
  <2>3. state[u] # "pending"
    BY <2>2 DEF Turn
  <2> QED BY <2>3 DEF Frozen
<1> QED BY <1>2 DEF Blocked, Kept

Failed == \E h \in Hard : state[h] = "failed"

\* A task that ran was wanted and not blocked, and one that did not was not
\* wanted, or blocked, or came after a failure that ends the run.
Reasons == \A t \in Tasks :
    /\ state[t] \in Executed => t \in {"parse", "conforma"} \/ (Wanted(t) /\ ~Blocked(t))
    /\ state[t] = "when" => ~Wanted(t)
    /\ state[t] = "unreachable" => Blocked(t) \/ Failed

Stopped == Failed => at \in {"publish", "end"}

LEMMA ReasonsKept ==
  ASSUME TypeOK, Turn, Reasons, Kept, Moved, at # "end"
  PROVE  Reasons'
<1> USE StatusKinds
<1>1. Turn' /\ Frozen
  BY TurnKept
<1>2. Failed => Failed'
  BY <1>1, HardTasks DEF Failed, Frozen
<1>3. ASSUME NEW t \in Tasks, state[t] # "pending"
      PROVE  /\ state'[t] \in Executed => t \in {"parse", "conforma"} \/ (Wanted(t) /\ ~Blocked(t))'
             /\ state'[t] = "when" => ~Wanted(t)'
             /\ state'[t] = "unreachable" => Blocked(t)' \/ Failed'
  BY <1>1, <1>2, <1>3, WantedSettled, BlockedSettled DEF Reasons, Frozen
<1>4. ASSUME NEW t \in Tasks, IsTurn(t)
      PROVE  /\ t \notin {"parse", "conforma"} => (Wanted(t)' <=> Wanted(t))
             /\ t \in {"parse", "conforma"} => Wanted(t) /\ Wanted(t)'
             /\ Blocked(t)' <=> Blocked(t)
  <2>1. t \notin {"parse", "conforma"} => at = t
    BY <1>4 DEF IsTurn
  <2>2. t \notin {"parse", "conforma"} => (Wanted(t)' <=> Wanted(t))
    <3>1. SUFFICES ASSUME t \notin {"parse", "conforma"} PROVE Wanted(t)' <=> Wanted(t)
      OBVIOUS
    <3>2. at = t /\ at \notin {"conforma", "polling"}
      BY <2>1, <3>1 DEF Tasks
    <3>3. request' = request /\ decision' = decision /\ (t = "tests" => chosen' = chosen)
      BY <3>2 DEF Kept
    <3> QED BY <3>3, WantedStays
  <2>3. t \in {"parse", "conforma"} => Wanted(t) /\ Wanted(t)'
    BY DEF Wanted
  <2> QED BY <1>1, <1>4, <2>2, <2>3, BlockedSettled
<1>5. CASE state' = state
  <2>1. ASSUME NEW t \in Tasks, state[t] = "pending" PROVE state'[t] = "pending"
    BY <1>5, <2>1
  <2> QED BY <1>3, <2>1 DEF Reasons, Executed
<1>6. CASE \E t \in Tasks, s \in Statuses \ {"pending"} :
             /\ IsTurn(t) /\ Close(t, s)
             /\ s \in Executed => t \in {"parse", "conforma"} \/ (Wanted(t) /\ ~Blocked(t))
             /\ s = "when" => ~Wanted(t)
             /\ s = "unreachable" => Blocked(t)
  <2>1. PICK t \in Tasks, s \in Statuses \ {"pending"} :
             /\ IsTurn(t) /\ Close(t, s)
             /\ s \in Executed => t \in {"parse", "conforma"} \/ (Wanted(t) /\ ~Blocked(t))
             /\ s = "when" => ~Wanted(t)
             /\ s = "unreachable" => Blocked(t)
    BY <1>6
  <2>2. \A u \in Tasks : state'[u] = IF u = t THEN s ELSE state[u]
    BY <2>1 DEF Close, TypeOK
  <2>3. /\ s \in Executed => t \in {"parse", "conforma"} \/ (Wanted(t) /\ ~Blocked(t))'
        /\ s = "when" => ~Wanted(t)'
        /\ s = "unreachable" => Blocked(t)'
    BY <1>4, <2>1
  <2>4. ASSUME NEW u \in Tasks, u # t, state[u] = "pending" PROVE state'[u] = "pending"
    BY <2>2, <2>4
  <2> QED BY <1>3, <2>2, <2>3, <2>4 DEF Reasons, Executed
<1>7. CASE \E t \in Hard : /\ IsTurn(t) /\ Stop(t)
                           /\ t \in {"parse", "conforma"} \/ (Wanted(t) /\ ~Blocked(t))
  <2>1. PICK t \in Hard : /\ IsTurn(t) /\ Stop(t)
                          /\ t \in {"parse", "conforma"} \/ (Wanted(t) /\ ~Blocked(t))
    BY <1>7
  <2>2. \A u \in Tasks : state'[u] = IF u = t THEN "failed"
                                     ELSE IF state[u] = "pending" THEN "unreachable"
                                     ELSE state[u]
    BY <2>1 DEF Stop
  <2>3. Failed'
    BY <2>1, <2>2, HardTasks DEF Failed
  <2>4. t \in {"parse", "conforma"} \/ (Wanted(t) /\ ~Blocked(t))'
    BY <1>4, <2>1, HardTasks
  <2>5. ASSUME NEW u \in Tasks, u # t, state[u] = "pending"
        PROVE  state'[u] = "unreachable"
    BY <2>2, <2>5
  <2> QED BY <1>3, <2>2, <2>3, <2>4, <2>5 DEF Reasons, Executed
<1> QED BY <1>5, <1>6, <1>7 DEF Moved

LEMMA StoppedKept ==
  ASSUME TypeOK, Turn, Stopped, Moved, at # "end"
  PROVE  Stopped'
<1>1. CASE state' = state /\ (at' = at \/ (at = "conforma" /\ at' = "polling") \/ at' = "end")
  BY <1>1 DEF Stopped, Failed
<1>2. CASE \E t \in Hard : IsTurn(t) /\ Stop(t)
  BY <1>2 DEF Stop, Stopped
<1>3. CASE \E t \in Tasks, s \in Statuses \ {"pending"} :
             IsTurn(t) /\ Close(t, s) /\ (s = "failed" => t \notin Hard)
  <2>1. PICK t \in Tasks, s \in Statuses \ {"pending"} :
             IsTurn(t) /\ Close(t, s) /\ (s = "failed" => t \notin Hard)
    BY <1>3
  <2>2. at \notin {"publish", "end"}
    BY <2>1 DEF IsTurn, Tasks
  <2>3. ~Failed
    BY <2>2 DEF Stopped
  <2>4. \A u \in Tasks : state'[u] = IF u = t THEN s ELSE state[u]
    BY <2>1 DEF Close, TypeOK
  <2>5. ~Failed'
    BY <2>1, <2>3, <2>4, HardTasks DEF Failed
  <2> QED BY <2>5 DEF Stopped
<1> QED BY <1>1, <1>2, <1>3 DEF Moved

-----------------------------------------------------------------------------
(* What a task that ran says of those before it.                           *)

LEMMA BlockedBy ==
  /\ ~Blocked("extract")
  /\ Blocked("fbc") => state["extract"] \in Skipped
  /\ Blocked("cluster") => state["fbc"] = "unreachable"
  /\ Blocked("registry") => state["cluster"] = "unreachable"
  /\ Blocked("deps") => state["registry"] \in Skipped \/ state["cluster"] = "unreachable"
  /\ Blocked("install") => \/ state["deps"] \in Skipped \/ state["extract"] \in Skipped
                           \/ state["cluster"] = "unreachable"
                           \/ state["registry"] = "unreachable"
  /\ Blocked("verify") => \/ state["extract"] \in Skipped
                          \/ state["install"] = "unreachable"
                          \/ state["cluster"] = "unreachable"
  /\ Blocked("bvt") => state["prepare"] \in Skipped \/ state["flags"] = "unreachable"
BY DEF Blocked, Uses, RunsAfter

LEMMA BlockedIf ==
  /\ state["verify"] \in Skipped => Blocked("prepare")
  /\ state["prepare"] \in Skipped => Blocked("flags") /\ Blocked("tests")
  /\ state["flags"] \in Skipped => Blocked("tests")
BY DEF Blocked, Uses, Tasks

\* A run that installs and has not stopped has installed when it has verified.
LEMMA Installed ==
  ASSUME TypeOK, Reasons, ~Failed, Pass, request.installs, ~request.structuralOnly,
         \A t \in Tasks : Rank(t) <= 9 => state[t] # "pending"
  PROVE  \A t \in {"deps", "install", "verify"} : state[t] = "succeeded"
<1> USE TaskFacts, HardTasks, Ranks
<1>1. ASSUME NEW t \in Tasks, Rank(t) <= 9, Wanted(t), ~Blocked(t)
      PROVE  state[t] \in Executed
  BY <1>1 DEF Reasons, TypeOK, Statuses, Executed
<1>2. ASSUME NEW t \in Hard, Rank(t) <= 9, Wanted(t), ~Blocked(t)
      PROVE  state[t] = "succeeded"
  BY <1>1, <1>2 DEF Failed, Executed
<1>3. request \in Requests /\ request.cluster
  BY DEF TypeOK, Requests
<1>4. /\ Wanted("extract") /\ Wanted("cluster") /\ Wanted("registry")
      /\ Wanted("deps") /\ Wanted("install") /\ Wanted("verify")
  BY <1>3 DEF Wanted, SnapshotOnly, RunDeps
<1>5. state["extract"] = "succeeded"
  BY <1>2, <1>4, BlockedBy
<1>6. state["fbc"] # "unreachable"
  BY <1>5, BlockedBy DEF Reasons, Skipped
<1>7. state["cluster"] = "succeeded"
  BY <1>2, <1>4, <1>6, BlockedBy
<1>8. state["registry"] = "succeeded"
  BY <1>2, <1>4, <1>7, BlockedBy
<1>9. state["deps"] = "succeeded"
  BY <1>2, <1>4, <1>7, <1>8, BlockedBy DEF Skipped
<1>10. state["install"] = "succeeded"
  BY <1>2, <1>4, <1>5, <1>7, <1>8, <1>9, BlockedBy DEF Skipped
<1>11. state["verify"] = "succeeded"
  BY <1>2, <1>4, <1>5, <1>7, <1>10, BlockedBy DEF Skipped
<1> QED BY <1>9, <1>10, <1>11

-----------------------------------------------------------------------------
(* The conforma gate.                                                      *)

Undecided == {"parse", "conforma", "polling"}

Decided ==
  /\ at \in Undecided => decision = "none"
  /\ decision = "none" => at \in Undecided \cup {"end"}
  /\ decision = "disabled" => ~request.wait \/ ~request.installs
  /\ decision = "passed" => Known # {} /\ \A r \in Known : ec[r] = "passed"

\* After the gate the run does not come back to it.
LEMMA GateOver == ASSUME Moved, at \notin Undecided PROVE at' \notin Undecided
<1>1. ASSUME NEW t \in Tasks, IsTurn(t) PROVE After[t] \notin Undecided
  BY <1>1 DEF IsTurn, After, Tasks, Undecided
<1> QED BY <1>1 DEF Moved, Close, Stop, Undecided

LEMMA DecidedAt ==
  ASSUME TypeOK, Decided, [Next]_vars, at \in Undecided
  PROVE  Decided'
<1> USE DEF Undecided
<1>1. After["parse"] = "conforma" /\ After["conforma"] = "extract"
  BY DEF After, Tasks
<1>2. CASE Parse
  BY <1>1, <1>2 DEF Parse, Close, Stop, Decided
<1>3. CASE BelowMinimum \/ NoSnapshot \/ PollTimesOut
  BY <1>1, <1>3 DEF BelowMinimum, NoSnapshot, PollTimesOut, Decide, Close, Decided
<1>4. CASE Bypass
  BY <1>1, <1>4 DEF Bypass, Decide, Close, Decided
<1>5. CASE Evaluate
  <2>1. Known' = Known /\ ec' = ec
    BY <1>5 DEF Evaluate, Decide, Known
  <2>2. \A r \in Known : ec[r] # "failed" => ec[r] = "passed"
    BY <1>5 DEF Evaluate, Conclusive, Known, Finished
  <2>3. decision' = "passed" => Known # {} /\ \A r \in Known : ec[r] = "passed"
    BY <1>5, <2>2 DEF Evaluate, Decide, Conclusive, Known
  <2>4. decision' \in {"passed", "failed"} /\ at' = "extract"
    BY <1>1, <1>5 DEF Evaluate, Decide, Close
  <2> QED BY <2>1, <2>3, <2>4 DEF Decided
<1>6. CASE StartPolling \/ PollAgain \/ ConformaProgress
  BY <1>6 DEF StartPolling, PollAgain, ConformaProgress, Decided
<1>7. CASE ConformaDies
  BY <1>7 DEF ConformaDies, Stop, Decided
<1>8. CASE UNCHANGED vars
  BY <1>8 DEF vars, Decided, Known
<1>9. /\ ~PassOver /\ ~RunTask /\ ~StructuralTests /\ ~Prepare /\ ~ResolveFlags
      /\ ~InvalidReference /\ ~Bvt /\ ~TestComponent /\ ~TestsOver /\ ~Finalize
      /\ ~Publish
  BY DEF PassOver, RunTask, StructuralTests, Prepare, ResolveFlags,
     InvalidReference, Bvt, TestComponent, TestsOver, Finalize, Publish, Ready, Tasks
<1> QED BY <1>2, <1>3, <1>4, <1>5, <1>6, <1>7, <1>8, <1>9 DEF Next, Run

LEMMA DecidedKept ==
  ASSUME TypeOK, Decided, Kept, Moved, [Next]_vars
  PROVE  Decided'
<1>1. CASE at \in Undecided
  BY <1>1, DecidedAt
<1>2. CASE at \notin Undecided
  <2>1. /\ request' = request /\ decision' = decision /\ ec' = ec
        /\ at' \notin Undecided
    BY <1>2, GateOver DEF Kept, Undecided
  <2>2. decision = "none" => at = "end"
    BY <1>2 DEF Decided
  <2>3. at = "end" => at' = "end"
    BY NothingAfterEnd DEF vars
  <2> QED BY <2>1, <2>2, <2>3 DEF Decided, Known
<1> QED BY <1>1, <1>2

-----------------------------------------------------------------------------
(* The tests of the components.                                            *)

TestsAt == \A c \in Components :
             test[c] \in Executed => at \in {"tests", "finalize", "publish", "end"}

\* Only TestComponent tests.
LEMMA NewTest ==
  ASSUME TypeOK, [Next]_vars, NEW c \in Components,
         test'[c] \in Executed, test[c] \notin Executed
  PROVE  TestComponent
<1> USE DEF Executed
<1>1. \A t \in Tasks : Stop(t) => test'[c] = test[c] \/ test'[c] = "unreachable"
  BY DEF Stop
<1>2. CASE Parse
  BY <1>1, <1>2, TaskFacts DEF Parse
<1>3. CASE BelowMinimum \/ NoSnapshot \/ Bypass \/ PollTimesOut \/ Evaluate
  BY <1>3 DEF BelowMinimum, NoSnapshot, Bypass, PollTimesOut, Evaluate, Decide
<1>4. CASE StartPolling \/ PollAgain \/ ConformaProgress \/ PassOver
           \/ StructuralTests \/ Prepare \/ InvalidReference \/ Finalize \/ Publish
  BY <1>4 DEF StartPolling, PollAgain, ConformaProgress, PassOver, StructuralTests,
     Prepare, InvalidReference, Finalize, Publish
<1>5. CASE ConformaDies
  BY <1>1, <1>5, TaskFacts DEF ConformaDies
<1>6. CASE RunTask
  BY <1>1, <1>6, TaskFacts DEF RunTask
<1>7. CASE ResolveFlags
  BY <1>1, <1>7, TaskFacts DEF ResolveFlags
<1>8. CASE Bvt
  BY <1>1, <1>8, TaskFacts DEF Bvt
<1>9. CASE TestsOver
  BY <1>9 DEF TestsOver
<1>10. CASE UNCHANGED vars
  BY <1>10 DEF vars
<1> QED BY <1>2, <1>3, <1>4, <1>5, <1>6, <1>7, <1>8, <1>9, <1>10 DEF Next, Run

LEMMA TestsAtKept ==
  ASSUME TypeOK, TestsAt, Moved, [Next]_vars PROVE TestsAt'
<1> SUFFICES ASSUME NEW c \in Components, test'[c] \in Executed
             PROVE  at' \in {"tests", "finalize", "publish", "end"}
  BY DEF TestsAt
<1>1. CASE test[c] \notin Executed
  BY <1>1, NewTest DEF TestComponent, Ready
<1>2. CASE test[c] \in Executed
  <2>1. at \in {"tests", "finalize", "publish", "end"}
    BY <1>2 DEF TestsAt
  <2>2. After["tests"] = "finalize" /\ After["finalize"] = "publish"
    BY DEF After, Tasks
  <2> QED BY <2>1, <2>2 DEF Moved, IsTurn, Close, Stop, Tasks
<1> QED BY <1>1, <1>2

CasesFit == /\ state["bvt"] = "succeeded" => "failed" \notin cases["bvt"]
            /\ ~request.structural => cases["structural"] = {}

LEMMA CasesFitKept ==
  ASSUME TypeOK, Turn, CasesFit, Kept, Moved, [Next]_vars PROVE CasesFit'
<1>1. state'["bvt"] = "succeeded" => "failed" \notin cases'["bvt"]
  <2>1. CASE at = "bvt"
    <3>1. state["bvt"] = "pending"
      BY <2>1, TaskFacts, Ranks DEF Turn
    <3>2. CASE Bvt
      <4>1. PICK found \in SUBSET CaseKinds :
              /\ cases' = [cases EXCEPT !["bvt"] = found]
              /\ \/ BvtAccepted(found)
                 \/ Stop("bvt")
        BY <3>2 DEF Bvt
      <4>2. cases'["bvt"] = found
        BY <4>1 DEF TypeOK, Sources
      <4>3. Stop("bvt") => state'["bvt"] = "failed"
        BY TaskFacts DEF Stop
      <4> QED BY <4>1, <4>2, <4>3 DEF BvtAccepted
    <3>3. CASE PassOver
      BY <2>1, <3>3 DEF PassOver, Close, TypeOK
    <3>4. CASE UNCHANGED vars
      BY <3>1, <3>4 DEF vars
    <3>5. /\ ~Parse /\ ~BelowMinimum /\ ~NoSnapshot /\ ~Bypass /\ ~StartPolling
          /\ ~Evaluate /\ ~PollAgain /\ ~PollTimesOut /\ ~ConformaDies
          /\ ~ConformaProgress /\ ~RunTask /\ ~StructuralTests /\ ~Prepare
          /\ ~ResolveFlags /\ ~InvalidReference /\ ~TestComponent /\ ~TestsOver
          /\ ~Finalize /\ ~Publish
      BY <2>1 DEF Parse, BelowMinimum, NoSnapshot, Bypass, StartPolling, Evaluate,
         PollAgain, PollTimesOut, ConformaDies, ConformaProgress, RunTask,
         StructuralTests, Prepare, ResolveFlags, InvalidReference, TestComponent,
         TestsOver, Finalize, Publish, Ready
    <3> QED BY <3>2, <3>3, <3>4, <3>5 DEF Next, Run
  <2>2. CASE at # "bvt"
    <3>1. ASSUME state'["bvt"] = "succeeded" PROVE state["bvt"] = "succeeded"
      <4>1. CASE state' = state
        BY <3>1, <4>1
      <4>2. CASE \E t \in Tasks, s \in Statuses : IsTurn(t) /\ Close(t, s)
        BY <2>2, <3>1, <4>2 DEF IsTurn, Close, TypeOK
      <4>3. CASE \E t \in Hard : IsTurn(t) /\ Stop(t)
        BY <2>2, <3>1, <4>3, TaskFacts DEF IsTurn, Stop
      <4> QED BY <4>1, <4>2, <4>3 DEF Moved
    <3> QED BY <2>2, <3>1 DEF CasesFit, Kept
  <2> QED BY <2>1, <2>2
<1>2. ~request'.structural => cases'["structural"] = {}
  <2>1. CASE at = "fbc" /\ StructuralTests
    BY <2>1 DEF StructuralTests, Ready, Wanted, Kept
  <2>2. CASE at # "fbc"
    BY <2>2 DEF CasesFit, Kept
  <2>3. CASE at = "fbc" /\ (PassOver \/ UNCHANGED vars)
    BY <2>3 DEF PassOver, vars, CasesFit
  <2>4. ASSUME at = "fbc"
        PROVE  /\ ~Parse /\ ~BelowMinimum /\ ~NoSnapshot /\ ~Bypass /\ ~StartPolling
               /\ ~Evaluate /\ ~PollAgain /\ ~PollTimesOut /\ ~ConformaDies
               /\ ~ConformaProgress /\ ~RunTask /\ ~Bvt /\ ~Prepare
               /\ ~ResolveFlags /\ ~InvalidReference /\ ~TestComponent /\ ~TestsOver
               /\ ~Finalize /\ ~Publish
    BY <2>4 DEF Parse, BelowMinimum, NoSnapshot, Bypass, StartPolling, Evaluate,
       PollAgain, PollTimesOut, ConformaDies, ConformaProgress, RunTask, Bvt,
       Prepare, ResolveFlags, InvalidReference, TestComponent, TestsOver, Finalize,
       Publish, Ready
  <2> QED BY <2>1, <2>2, <2>3, <2>4 DEF Next, Run
<1> QED BY <1>1, <1>2 DEF CasesFit

LEMMA BvtGuardsKept ==
  ASSUME TypeOK, Turn, Reasons, Stopped, CasesFit, TestsAt, Kept, Moved,
         BvtGuards, [Next]_vars
  PROVE  BvtGuards'
<1> USE TaskFacts, Ranks, HardTasks
<1> SUFFICES ASSUME NEW c \in Components, test'[c] \in Executed
             PROVE  /\ RunBvt' => state'["bvt"] = "succeeded" /\ "failed" \notin cases'["bvt"]
                    /\ request'.installs => state'["install"] = "succeeded"
                    /\ state'["verify"] = "succeeded"
  BY DEF BvtGuards
<1>1. RunBvt' <=> RunBvt
  BY DEF RunBvt, Selected, Kept
<1>2. CASE test[c] \in Executed
  <2>1. CASE at = "end"
    BY <1>2, <2>1, NothingAfterEnd DEF vars, BvtGuards, RunBvt, Selected
  <2>2. CASE at # "end"
    <3>1. at \in {"tests", "finalize", "publish"}
      BY <1>2, <2>2 DEF TestsAt
    <3>2. \A t \in {"bvt", "install", "verify"} : state[t] # "pending"
      BY <2>2, <3>1 DEF Turn
    <3>3. \A t \in {"bvt", "install", "verify"} : state'[t] = state[t]
      BY <3>2, TurnKept DEF Frozen
    <3> QED BY <1>1, <1>2, <3>1, <3>3 DEF BvtGuards, Kept
  <2> QED BY <2>1, <2>2
<1>3. CASE test[c] \notin Executed
  <2>1. /\ at = "tests" /\ ~Blocked("tests") /\ Wanted("tests")
        /\ state' = state
    BY <1>3, NewTest DEF TestComponent, Ready
  <2>2. ~Failed
    BY <2>1 DEF Stopped
  <2>3. \A t \in Tasks : Rank(t) <= 12 => state[t] # "pending"
    BY <2>1, RankAfter DEF Turn
  <2>4. Pass /\ RunComponents
    BY <2>1 DEF Wanted
  <2>5. ~request.structuralOnly
    BY <2>4 DEF RunComponents, Selected
  <2>6. state["flags"] \notin Skipped /\ state["prepare"] \notin Skipped
    BY <2>1, BlockedIf
  <2>7. state["prepare"] \in Executed
    BY <2>3, <2>6 DEF TypeOK, Statuses, Executed, Skipped
  <2>8. state["verify"] = "succeeded"
    <3>1. state["verify"] \notin Skipped
      BY <2>7, BlockedIf, StatusKinds DEF Reasons
    <3>2. state["verify"] \in Executed
      BY <2>3, <3>1 DEF TypeOK, Statuses, Executed, Skipped
    <3> QED BY <2>2, <3>2 DEF Failed, Executed
  <2>9. request.installs => state["install"] = "succeeded"
    <3>1. \A t \in Tasks : Rank(t) <= 9 => state[t] # "pending"
      BY <2>3, RankAfter
    <3> QED BY <2>2, <2>4, <2>5, <3>1, Installed
  <2>10. RunBvt => state["bvt"] = "succeeded"
    <3>1. SUFFICES ASSUME RunBvt PROVE state["bvt"] = "succeeded"
      OBVIOUS
    <3>2. Wanted("bvt") /\ ~Blocked("bvt")
      BY <2>4, <2>6, <3>1, BlockedBy DEF Wanted, Skipped
    <3>3. state["bvt"] # "pending"
      BY <2>3
    <3>4. state["bvt"] \in Executed
      BY <2>2, <3>2, <3>3 DEF Reasons, TypeOK, Statuses, Executed
    <3> QED BY <2>2, <3>4 DEF Failed, Executed
  <2> QED BY <1>1, <2>1, <2>8, <2>9, <2>10 DEF CasesFit, Kept
<1> QED BY <1>2, <1>3

-----------------------------------------------------------------------------
(* The verdict.                                                            *)

Verdicts == at # "end" => verdict = "none"

LEMMA VerdictsKept ==
  ASSUME TypeOK, Verdicts, [Next]_vars
  PROVE  /\ Verdicts'
         /\ verdict' = "green" => verdict = "green" \/ Publish
<1> USE DEF Verdicts
<1>1. CASE at = "end"
  BY <1>1, NothingAfterEnd DEF vars
<1>2. CASE at # "end"
  <2>1. verdict = "none"
    BY <1>2
  <2>2. \A t \in Tasks : Stop(t) => (at' = "end" /\ verdict' = "red") \/ verdict' = "none"
    BY <2>1 DEF Stop
  <2>3. CASE Parse
    BY <2>1, <2>2, <2>3, TaskFacts DEF Parse
  <2>4. CASE BelowMinimum \/ NoSnapshot \/ Bypass \/ PollTimesOut \/ Evaluate
    BY <2>1, <2>4 DEF BelowMinimum, NoSnapshot, Bypass, PollTimesOut, Evaluate, Decide
  <2>5. CASE StartPolling \/ PollAgain \/ ConformaProgress \/ PassOver
             \/ StructuralTests \/ Prepare \/ InvalidReference \/ TestComponent
             \/ TestsOver \/ Finalize
    BY <2>1, <2>5 DEF StartPolling, PollAgain, ConformaProgress, PassOver,
       StructuralTests, Prepare, InvalidReference, TestComponent, TestsOver, Finalize
  <2>6. CASE ConformaDies
    BY <2>2, <2>6, TaskFacts DEF ConformaDies
  <2>7. CASE RunTask
    BY <2>1, <2>2, <2>7, TaskFacts DEF RunTask
  <2>8. CASE ResolveFlags
    BY <2>1, <2>2, <2>8, TaskFacts DEF ResolveFlags
  <2>9. CASE Bvt
    BY <2>1, <2>2, <2>9, TaskFacts DEF Bvt
  <2>10. CASE Publish
    BY <2>10 DEF Publish
  <2>11. CASE UNCHANGED vars
    BY <1>2, <2>1, <2>11 DEF vars
  <2> QED BY <2>3, <2>4, <2>5, <2>6, <2>7, <2>8, <2>9, <2>10, <2>11 DEF Next, Run
<1> QED BY <1>1, <1>2

\* The check of the publisher passes only if every requested gate was counted.
LEMMA CheckPassed ==
  ASSUME TypeOK, ~HardFailure, decision # "old", request.gates # {},
         NEW texts \in SUBSET Counted, NEW known \in {"seen", "lost"},
         NEW listed \in {"seen", "lost"}, NEW relisted \in {"seen", "lost"},
         ~CheckFails(texts, known, listed, relisted)
  PROVE  /\ decision \notin Skipping /\ ~request.structuralOnly
         /\ request.gates \subseteq texts
<1>1. ~request.structuralOnly
  BY DEF TypeOK, Requests
<1>2. ~Intentional(known)
  BY DEF Intentional
<1>3. /\ decision \notin Skipping /\ NotRun(listed) = {}
      /\ Hollow(texts) = {} \/ Blockers(relisted) # {}
  BY <1>1, <1>2 DEF CheckFails
<1>4. ASSUME NEW t \in InstallTasks PROVE state[t] = "succeeded"
  <2>1. t \in Hard /\ state[t] # "failed"
    BY HardTasks DEF InstallTasks, HardFailure
  <2> QED BY <1>3, <2>1 DEF NotRun, Executed
<1>5. Blockers(relisted) = {}
  BY <1>4 DEF Blockers
<1>6. Hollow(texts) = {}
  BY <1>3, <1>5
<1> QED BY <1>1, <1>3, <1>6 DEF Hollow

LEMMA GreenAt ==
  ASSUME TypeOK, Turn, Reasons, Decided, CasesFit, Kept, Publish, verdict' = "green"
  PROVE  GreenMeansInstalled' /\ GreenMeansRan'
<1> USE HardTasks, TaskFacts, Ranks
<1>1. ~HardFailure /\ at = "publish" /\ UNCHANGED <<request, state, decision, cases>>
  BY DEF Publish
<1>2. PICK texts \in SUBSET Counted, known, listed, relisted \in {"seen", "lost"} :
        ~CheckFails(texts, known, listed, relisted)
  BY DEF Publish
<1>3. SUFFICES ASSUME request.gates # {}, decision # "old"
               PROVE  GreenMeansInstalled' /\ GreenMeansRan'
  BY <1>1 DEF GreenMeansInstalled, GreenMeansRan
<1>4. /\ decision \notin Skipping /\ ~request.structuralOnly
      /\ request.gates \subseteq texts
  BY <1>1, <1>2, <1>3, CheckPassed
<1>5. Pass
  <2>1. decision # "none"
    BY <1>1 DEF Decided, Undecided
  <2> QED BY <1>4, <2>1 DEF Pass, TypeOK
<1>6. \A t \in Tasks : state[t] # "pending"
  BY <1>1, RankAfter DEF Turn
<1>7. ~Failed
  BY <1>1 DEF Failed, HardFailure
<1>8. request.installs => \A t \in {"deps", "install", "verify"} : state[t] = "succeeded"
  BY <1>4, <1>5, <1>6, <1>7, Installed
<1>9. GreenMeansInstalled'
  BY <1>1, <1>8 DEF GreenMeansInstalled
<1>10. ASSUME NEW g \in request.gates
       PROVE  \/ g = "bvt" /\ state["bvt"] = "succeeded" /\ cases["bvt"] # {}
              \/ g = "smoke" /\ (request.structural \/ cases["smoke"] # {})
  <2>1. g \in Counted
    BY <1>4
  <2>2. CASE g = "bvt"
    BY <1>7, <2>1, <2>2 DEF Counted, Executed, Failed
  <2>3. CASE g = "smoke"
    BY <2>1, <2>3 DEF Counted, CasesFit
  <2> QED BY <2>1, <2>2, <2>3 DEF Counted
<1> QED BY <1>1, <1>9, <1>10 DEF GreenMeansRan

-----------------------------------------------------------------------------
(* The invariant.                                                          *)

IInv == /\ TypeOK /\ Turn /\ Reasons /\ Stopped
        /\ Decided
        /\ TestsAt /\ CasesFit /\ BvtGuards
        /\ Verdicts /\ GreenMeansInstalled /\ GreenMeansRan

LEMMA InitHolds == Init => IInv
<1> SUFFICES ASSUME Init PROVE IInv
  OBVIOUS
<1>1. \A t \in Tasks : state[t] = "pending"
  BY DEF Init
<1>2. Turn
  BY <1>1, Ranks, RankAfter DEF Init, Turn
<1>3. Reasons
  BY <1>1 DEF Reasons, Executed
<1>4. Stopped
  BY <1>1, HardTasks DEF Stopped, Failed
<1>5. Decided
  BY DEF Init, Decided, Undecided
<1>6. TestsAt /\ BvtGuards
  BY DEF Init, TestsAt, BvtGuards, Executed
<1>7. CasesFit
  BY <1>1, TaskFacts DEF Init, CasesFit, Sources
<1>8. Verdicts /\ GreenMeansInstalled /\ GreenMeansRan
  BY DEF Init, Verdicts, GreenMeansInstalled, GreenMeansRan
<1> QED BY <1>2, <1>3, <1>4, <1>5, <1>6, <1>7, <1>8, InitTypes DEF IInv

LEMMA StepHolds == IInv /\ [Next]_vars => IInv'
<1> SUFFICES ASSUME IInv, [Next]_vars PROVE IInv'
  OBVIOUS
<1> USE DEF IInv
<1>1. TypeOK' /\ Moved /\ Kept
  BY TypesKept, StepMoves, StepKeeps
<1>2. Turn' /\ Frozen
  BY <1>1, TurnKept
<1>3. Reasons' /\ Stopped'
  <2>1. CASE at # "end"
    BY <1>1, <2>1, ReasonsKept, StoppedKept
  <2>2. CASE at = "end"
    <3>1. UNCHANGED vars
      BY <2>2, NothingAfterEnd
    <3>2. \A t \in Tasks : (Wanted(t)' <=> Wanted(t)) /\ (Blocked(t)' <=> Blocked(t))
      <4>1. \A t \in Tasks : Wanted(t)' <=> Wanted(t)
        BY <3>1, WantedStays DEF vars
      <4>2. \A t \in Tasks : Blocked(t)' <=> Blocked(t)
        BY <3>1 DEF vars, Blocked
      <4> QED BY <4>1, <4>2
    <3>3. Failed' <=> Failed
      BY <3>1 DEF vars, Failed
    <3> QED BY <3>1, <3>2, <3>3 DEF vars, Reasons, Stopped
  <2> QED BY <2>1, <2>2
<1>4. Decided'
  BY <1>1, DecidedKept
<1>5. TestsAt' /\ CasesFit' /\ BvtGuards'
  BY <1>1, TestsAtKept, CasesFitKept, BvtGuardsKept
<1>6. Verdicts' /\ (verdict' = "green" => verdict = "green" \/ Publish)
  BY VerdictsKept
<1>7. GreenMeansInstalled' /\ GreenMeansRan'
  <2>1. CASE verdict' # "green"
    BY <2>1 DEF GreenMeansInstalled, GreenMeansRan
  <2>2. CASE verdict' = "green" /\ Publish
    BY <1>1, <2>2, GreenAt
  <2>3. CASE verdict = "green"
    <3>1. UNCHANGED vars
      BY <2>3, NothingAfterEnd DEF Verdicts
    <3> QED BY <3>1 DEF vars, GreenMeansInstalled, GreenMeansRan
  <2> QED BY <1>6, <2>1, <2>2, <2>3
<1> QED BY <1>1, <1>2, <1>3, <1>4, <1>5, <1>6, <1>7

\* What is tested has passed its conforma runs, or is not held to them.
THEOREM ConformingCorrect == Spec => []TestedIsConforming
<1>1. IInv => TestedIsConforming
  <2> SUFFICES ASSUME IInv, NEW t \in Tasks \ {"parse", "conforma"}, state[t] \in Executed
               PROVE  \/ decision = "disabled" /\ (~request.wait \/ ~request.installs)
                      \/ /\ decision = "passed"
                         /\ Known # {}
                         /\ \A r \in Known : ec[r] = "passed"
    BY DEF TestedIsConforming
  <2>1. Pass
    BY WantedFacts DEF IInv, Reasons
  <2> QED BY <2>1 DEF IInv, Decided, Pass, Passing
<1> QED BY <1>1, InitHolds, StepHolds, PTL DEF Spec

\* Components are tested after what guards them.
THEOREM GuardsCorrect == Spec => []BvtGuards
<1>1. IInv => BvtGuards
  BY DEF IInv
<1> QED BY <1>1, InitHolds, StepHolds, PTL DEF Spec

\* A green run that installs has installed.
THEOREM GreenInstalledCorrect == Spec => []GreenMeansInstalled
<1>1. IInv => GreenMeansInstalled
  BY DEF IInv
<1> QED BY <1>1, InitHolds, StepHolds, PTL DEF Spec

\* A green run has a test case for each gate, as far as it can tell.
THEOREM GreenRanCorrect == Spec => []GreenMeansRan
<1>1. IInv => GreenMeansRan
  BY DEF IInv
<1> QED BY <1>1, InitHolds, StepHolds, PTL DEF Spec
=============================================================================
