------------------------- MODULE ComponentTaskProofs -------------------------
(***************************************************************************)
(* Proofs about ComponentTask, for every set of tests and every rate: its  *)
(* safety properties, and that it implements TestVerdict.                  *)
(***************************************************************************)
EXTENDS ComponentTask, FiniteSetTheorems, TLAPS

(***************************************************************************)
(* The operators on what a JUnit file says.                                *)
(***************************************************************************)
LEMMA BlankIsRun == Blank \in Runs /\ Blank \in Reports /\ Listed(Blank) = {}
                    /\ Those(Blank, "passed") = {}
  BY DEF Blank, Runs, Reports, Marks, All, Listed, Those

LEMMA MadeIsReport ==
  ASSUME NEW mark \in Marks, mark # "passed"
  PROVE  Made(mark) \in Reports /\ Those(Made(mark), "passed") = {}
  BY DEF Made, Blank, Reports, Marks, All, Those

LEMMA RunIsReport ==
  ASSUME NEW r \in Runs
  PROVE  r \in Reports /\ r[StandIn] = "absent"
  BY DEF Runs

LEMMA PartIsRun ==
  ASSUME NEW r \in Runs, NEW p \in Parts(r)
  PROVE  p \in Runs /\ Those(p, "passed") \subseteq Those(r, "passed")
  BY DEF Parts, Runs, Reports, Those, All

LEMMA OverIsRun ==
  ASSUME NEW r \in Runs, NEW old \in Runs
  PROVE  /\ Over(r, old) \in Runs
         /\ Those(Over(r, old), "passed")
              \subseteq Those(r, "passed") \cup Those(old, "passed")
  BY TestsAssumption DEF Over, Runs, Reports, Those, All, Marks

LEMMA PassedAreTests ==
  ASSUME NEW r \in Runs
  PROVE  Those(r, "passed") \subseteq Tests
  BY DEF Runs, Those, All

\* A rate that is met is not met by nothing: it is above 0.
LEMMA RatePasses ==
  ASSUME NEW c \in Reports, MeetsRate(c)
  PROVE  Those(c, "passed") # {}
<1>1. IsFiniteSet(All)
  BY TestsAssumption, FS_AddElement, FS_Union, FS_Singleton DEF All
<1>2. IsFiniteSet(Listed(c)) /\ Listed(c) # {}
  BY <1>1, FS_Subset DEF Listed, MeetsRate
<1>3. Cardinality(Listed(c)) \in Nat /\ Cardinality(Listed(c)) # 0
  BY <1>2, FS_CardinalityType, FS_EmptySet
<1>4. RateNum \in Nat /\ RateNum # 0 /\ RateDen \in Nat
  BY RateAssumption
<1>5. CASE Those(c, "passed") = {}
  <2>1. Cardinality(Those(c, "passed")) = 0
    BY <1>5, FS_EmptySet
  <2>2. 0 * RateDen >= RateNum * Cardinality(Listed(c))
    BY <2>1 DEF MeetsRate
  <2>3. RateNum * Cardinality(Listed(c)) # 0 /\ RateNum * Cardinality(Listed(c)) \in Nat
    BY <1>3, <1>4
  <2>4. 0 * RateDen = 0
    BY <1>4
  <2> QED BY <2>2, <2>3, <2>4
<1> QED BY <1>5

(***************************************************************************)
(* What a step writes.                                                     *)
(***************************************************************************)
FileTyped == file \in {"none", "torn", "report"} /\ cases \in Reports

LEMMA WriteTyped ==
  ASSUME NEW c \in Reports, Write(c)
  PROVE  FileTyped'
  BY DEF Write, FileTyped

LEMMA WriteIfNoneTyped ==
  ASSUME FileTyped, NEW c \in Reports, WriteIfNone(c)
  PROVE  FileTyped'
  BY WriteTyped DEF WriteIfNone, FileTyped

LEMMA TearTyped == Tear => FileTyped'
  BY BlankIsRun DEF Tear, FileTyped

LEMMA KeepTyped == FileTyped /\ KeepFile => FileTyped'
  BY DEF KeepFile, FileTyped

RanTyped == trace \in Runs /\ passedOnce \subseteq Tests

LEMMA RanKeepsType ==
  ASSUME RanTyped, NEW r \in Runs, Ran(r)
  PROVE  RanTyped'
  BY OverIsRun, PassedAreTests DEF RanTyped, Ran

LEMMA NothingRanKeepsType == RanTyped /\ NothingRan => RanTyped'
  BY DEF RanTyped, NothingRan

(***************************************************************************)
(* Types.                                                                  *)
(***************************************************************************)
LEMMA MarkTypes == {"failed", "skipped"} \subseteq Marks \ {"passed"}
  BY DEF Marks

LEMMA InitTyped == Init => TypeOK
<1> SUFFICES ASSUME Init PROVE TypeOK
  OBVIOUS
<1>1. timed \in BOOLEAN
  BY DEF Init
<1> QED BY <1>1, BlankIsRun DEF Init, TypeOK, Steps, Phases, Exits

\* The file after Publish, whatever Collect has done
LEMMA CollectKeepsType ==
  ASSUME FileTyped, trace \in Runs, Collect
  PROVE  FileTyped'
<1>1. CASE KeepFile
  BY <1>1, KeepTyped
<1>2. CASE \E p \in Parts(trace) : Listed(p) # {} /\ Write(p)
  BY <1>2, PartIsRun, RunIsReport, WriteTyped
<1> QED BY <1>1, <1>2 DEF Collect

LEMMA EnsureKeepsType ==
  ASSUME FileTyped, trace \in Runs, EnsureJunit
  PROVE  FileTyped'
<1>1. CASE KeepFile
  BY <1>1, KeepTyped
<1>2. CASE Write(trace)
  BY <1>2, RunIsReport, WriteTyped
<1>3. CASE WriteIfNone(Made("failed"))
  BY <1>3, MarkTypes, MadeIsReport, WriteIfNoneTyped
<1> QED BY <1>1, <1>2, <1>3 DEF EnsureJunit

LEMMA CommandKeepsType ==
  ASSUME TypeOK, NEW code \in {"ok", "failed", "timeout"}, CommandOver(code)
  PROVE  TypeOK'
<1> USE DEF TypeOK
<1>1. FileTyped /\ RanTyped
  BY DEF FileTyped, RanTyped
<1>2. PICK r \in Runs : CommandOver(code)!1!(r)
  BY DEF CommandOver
<1>3. RanTyped'
  BY <1>1, <1>2, RanKeepsType
<1>4. FileTyped'
  <2>1. CASE \E p \in Parts(r) : Write(p)
    BY <2>1, PartIsRun, RunIsReport, WriteTyped
  <2>2. CASE Write(Made("failed"))
    BY <2>2, MarkTypes, MadeIsReport, WriteTyped
  <2>3. CASE Tear
    BY <2>3, TearTyped
  <2>4. CASE KeepFile
    BY <2>4, <1>1, KeepTyped
  <2> QED BY <1>2, <2>1, <2>2, <2>3, <2>4
<1>5. timed' \in BOOLEAN
  BY DEF CommandOver
<1> QED BY <1>3, <1>4, <1>5 DEF CommandOver, FileTyped, RanTyped, Steps, Exits

LEMMA SessionCutTyped ==
  ASSUME FileTyped, RanTyped, SessionCut
  PROVE  FileTyped' /\ RanTyped'
  BY RanKeepsType, PartIsRun, RunIsReport, WriteTyped, KeepTyped, TearTyped DEF SessionCut

LEMMA NextTyped == TypeOK /\ [Next]_vars => TypeOK'
<1> SUFFICES ASSUME TypeOK, [Next]_vars PROVE TypeOK'
  OBVIOUS
<1> USE DEF TypeOK
<1>a. FileTyped /\ RanTyped
  BY DEF FileTyped, RanTyped
<1>1. CASE TestsSkipped
  <2>1. FileTyped'
    BY <1>a, <1>1, MarkTypes, MadeIsReport, WriteIfNoneTyped DEF TestsSkipped
  <2>2. timed' \in BOOLEAN
    BY <1>1 DEF TestsSkipped
  <2> QED BY <1>1, <2>1, <2>2, <1>a, NothingRanKeepsType
          DEF TestsSkipped, AfterFirst, FileTyped, RanTyped, Steps
<1>2. CASE RunnerFails
  <2>1. FileTyped'
    BY <1>a, <1>2, MarkTypes, MadeIsReport, WriteIfNoneTyped, KeepTyped DEF RunnerFails
  <2>2. timed' \in BOOLEAN
    BY <1>2 DEF RunnerFails
  <2> QED BY <1>2, <2>1, <2>2, <1>a, NothingRanKeepsType
          DEF RunnerFails, AfterFirst, FileTyped, RanTyped, Steps
<1>3. CASE StartTests
  <2>1. timed' \in BOOLEAN
    BY <1>3 DEF StartTests
  <2> QED BY <1>3, <2>1, <1>a, NothingRanKeepsType
          DEF StartTests, files, RanTyped, Steps, Phases
<1>4. CASE Launch
  <2>1. config.limited \in BOOLEAN
    BY DEF Configs
  <2>2. timed' \in BOOLEAN
    BY <1>4, <2>1 DEF Launch
  <2> QED BY <1>4, <2>2, <1>a, NothingRanKeepsType
          DEF Launch, files, RanTyped, Steps, Exits
<1>5. CASE AttemptEnds
  <2>1. PICK r \in Runs, code \in {"ok", "failed", "infra", "plugin"} :
           AttemptEnds!2!(r, code)
    BY <1>5 DEF AttemptEnds
  <2>2. RanTyped'
    BY <1>a, <2>1, RanKeepsType
  <2>3. FileTyped'
    BY <1>a, <2>1, PartIsRun, RunIsReport, WriteTyped, KeepTyped, TearTyped
  <2>4. timed' \in BOOLEAN
    BY <1>5 DEF AttemptEnds
  <2>5. at' \in Steps /\ phase' \in Phases
    BY <2>1 DEF AfterAttempt, Steps, Phases
  <2> QED BY <1>5, <2>1, <2>2, <2>3, <2>4, <2>5
          DEF AttemptEnds, FileTyped, RanTyped, Exits
<1>6. CASE SyncEnds
  <2>1. timed' \in BOOLEAN
    BY <1>6 DEF SyncEnds
  <2> QED BY <1>6, <2>1, <1>a, NothingRanKeepsType
          DEF SyncEnds, files, RanTyped, Steps, Phases
<1>7. CASE InstallEnds
  <2>1. timed' \in BOOLEAN
    BY <1>7 DEF InstallEnds
  <2> QED BY <1>7, <2>1, <1>a, NothingRanKeepsType
          DEF InstallEnds, files, RanTyped, Steps, Phases, Exits
<1>8. CASE PytestTimesOut
  <2>1. FileTyped' /\ RanTyped'
    <3>1. CASE KeepFile /\ NothingRan
      BY <1>a, <3>1, KeepTyped, NothingRanKeepsType
    <3>2. CASE SessionCut
      BY <1>a, <3>2, SessionCutTyped
    <3> QED BY <1>8, <3>1, <3>2 DEF PytestTimesOut
  <2>2. timed' \in BOOLEAN
    BY <1>8 DEF PytestTimesOut
  <2> QED BY <1>8, <2>1, <2>2 DEF PytestTimesOut, FileTyped, RanTyped, Steps, Exits
<1>9. CASE WrapUp
  <2>1. FileTyped'
    BY <1>a, <1>9, EnsureKeepsType DEF WrapUp
  <2>2. timed' \in BOOLEAN
    BY <1>9 DEF WrapUp
  <2>3. exitFile' \in {"missing", "zero", "nonzero"}
    BY <1>9 DEF WrapUp
  <2> QED BY <1>9, <2>1, <2>2, <2>3, <1>a, NothingRanKeepsType
          DEF WrapUp, FileTyped, RanTyped, Steps
<1>10. CASE NoEnv
  <2>1. FileTyped'
    BY <1>a, <1>10, MarkTypes, MadeIsReport, WriteTyped, WriteIfNoneTyped, KeepTyped
       DEF NoEnv
  <2>2. timed' \in BOOLEAN
    BY <1>10 DEF NoEnv
  <2> QED BY <1>10, <2>1, <2>2, <1>a, NothingRanKeepsType
          DEF NoEnv, FileTyped, RanTyped, Steps
<1>11. CASE NothingToRun
  <2>1. timed' \in BOOLEAN
    BY <1>11 DEF NothingToRun
  <2> QED BY <1>11, <2>1, <1>a, NothingRanKeepsType
          DEF NothingToRun, files, RanTyped, Steps
<1>12. CASE CommandFails
  <2>1. FileTyped'
    BY <1>a, <1>12, MarkTypes, MadeIsReport, WriteIfNoneTyped, KeepTyped
       DEF CommandFails
  <2>2. timed' \in BOOLEAN
    BY <1>12 DEF CommandFails
  <2> QED BY <1>12, <2>1, <2>2, <1>a, NothingRanKeepsType
          DEF CommandFails, FileTyped, RanTyped, Steps
<1>13. CASE StartCommand
  <2>1. config.limited \in BOOLEAN
    BY DEF Configs
  <2>2. timed' \in BOOLEAN
    BY <1>13, <2>1 DEF StartCommand
  <2> QED BY <1>13, <2>2, <1>a, NothingRanKeepsType
          DEF StartCommand, files, RanTyped, Steps
<1>14. CASE CommandEnds \/ CommandTimesOut
  BY <1>14, CommandKeepsType DEF CommandEnds, CommandTimesOut
<1>15. CASE RunnerDies
  <2>1. FileTyped' /\ RanTyped'
    BY <1>a, <1>15, SessionCutTyped, RanKeepsType, NothingRanKeepsType, KeepTyped
       DEF RunnerDies
  <2>2. timed' \in BOOLEAN
    BY <1>15 DEF RunnerDies
  <2> QED BY <1>15, <2>1, <2>2 DEF RunnerDies, FileTyped, RanTyped, Steps
<1>16. CASE Summarize \/ WriteMessage
  <2>1. FileTyped'
    BY <1>a, <1>16, CollectKeepsType, KeepTyped DEF Summarize, WriteMessage, Publish
  <2>2. timed' \in BOOLEAN
    BY <1>16 DEF Summarize, WriteMessage
  <2>3. output' \in {"none", "SUCCESS", "WARNING", "FAILURE"}
    BY <1>16 DEF Summarize, WriteMessage, Publish, Result
  <2> QED BY <1>16, <2>1, <2>2, <2>3, <1>a, NothingRanKeepsType
          DEF Summarize, WriteMessage, FileTyped, RanTyped, Steps
<1>17. CASE Finalize
  <2>1. timed' \in BOOLEAN
    BY <1>17 DEF Finalize
  <2>2. /\ exitFile' \in {"missing", "zero", "nonzero"}
        /\ colour' \in {"pending", "green", "red", "drift", "stopped"}
    BY <1>17 DEF Finalize
  <2> QED BY <1>17, <2>1, <2>2, <1>a, NothingRanKeepsType DEF Finalize, RanTyped, Steps
<1>18. CASE FinalizeFails \/ PodTimesOut
  <2>1. timed' \in BOOLEAN
    BY <1>18 DEF FinalizeFails, PodTimesOut, Stops
  <2> QED BY <1>18, <2>1, <1>a, NothingRanKeepsType
          DEF FinalizeFails, PodTimesOut, Stops, files, RanTyped, Steps
<1>19. CASE OutputHeld
  <2>1. timed' \in BOOLEAN
    BY <1>19 DEF OutputHeld
  <2> QED BY <1>19, <2>1, <1>a, NothingRanKeepsType DEF OutputHeld, files, RanTyped
<1>20. CASE UNCHANGED vars
  <2>1. timed' \in BOOLEAN
    BY <1>20 DEF vars
  <2> QED BY <1>20, <2>1 DEF vars, files
<1> QED BY <1>1, <1>2, <1>3, <1>4, <1>5, <1>6, <1>7, <1>8, <1>9, <1>10, <1>11, <1>12,
       <1>13, <1>14, <1>15, <1>16, <1>17, <1>18, <1>19, <1>20 DEF Next, Script, TimesOut

\* The variables keep their types.
THEOREM TypeCorrect == Spec => []TypeOK
  BY InitTyped, NextTyped, PTL DEF Spec

(***************************************************************************)
(* The inductive invariant.                                                *)
(***************************************************************************)
\* The files say "passed" of tests that have passed.
Earned ==
    Those(cases, "passed") \cup Those(trace, "passed") \subseteq passedOnce

\* When there is no JUnit file, and when only a stand-in may be in it.
Files ==
    /\ file # "report" => cases = Blank
    /\ at = "run" => file = "none" /\ env = "none"
    /\ at \in {"image", "running"} /\ env = "run" /\ ~Pytest => file = "none"
    /\ at = "image" /\ env = "none" => cases \in {Blank, Made("failed")}
    /\ at = "running" /\ ~Pytest => env = "run"
    /\ at = "phase" => Pytest

\* The colour is given at the end, and the exit file is no 0 before.
Ends ==
    /\ at = "end" <=> colour # "pending"
    /\ exitFile = "zero" => at = "end"

\* The published result is that of the JUnit file.
Shown ==
    /\ at \notin {"message", "finalize", "end"} => output = "none"
    /\ output # "none" => output = Result(file, cases)

\* A component that is not in the plan runs no test.
Unplanned ==
    ~config.planned => /\ at \notin {"phase", "running", "wrapup"}
                       /\ env # "run"
                       /\ Those(cases, "passed") = {}

\* A task that was finalized is green exactly if its JUnit file says passed.
Coloured ==
    /\ colour = "green" => file = "report" /\ Those(cases, "passed") # {}
    /\ colour = "red" => file # "report" \/ Those(cases, "passed") = {}

\* The exit file is 0 only of such a suite.
Strict ==
    exitFile = "zero" =>
        /\ colour = "green"
        /\ Those(cases, "failed") = {} \/ MeetsRate(cases)

IInv == Earned /\ Files /\ Ends /\ Shown /\ Unplanned /\ Coloured /\ Strict

LEMMA InitEstablishes == Init => IInv
<1> SUFFICES ASSUME Init PROVE IInv
  OBVIOUS
<1>1. Earned
  BY BlankIsRun DEF Init, Earned
<1>2. Files /\ Ends /\ Shown /\ Unplanned /\ Coloured /\ Strict
  BY BlankIsRun DEF Init, Files, Ends, Shown, Unplanned, Coloured, Strict
<1> QED BY <1>1, <1>2 DEF IInv

(***************************************************************************)
(* Earned                                                                  *)
(***************************************************************************)
LEMMA RanEarns ==
  ASSUME RanTyped, Earned, NEW r \in Runs, Ran(r)
  PROVE  /\ Those(r, "passed") \subseteq passedOnce'
         /\ Those(trace', "passed") \subseteq passedOnce'
         /\ passedOnce \subseteq passedOnce'
  BY OverIsRun DEF RanTyped, Earned, Ran

LEMMA WriteEarns ==
  ASSUME NEW c \in Reports, Write(c), Those(c, "passed") \subseteq passedOnce',
         Those(trace', "passed") \subseteq passedOnce'
  PROVE  Earned'
  BY DEF Write, Earned, Those

LEMMA StandInEarns ==
  ASSUME Earned, NothingRan,
         NEW mark \in {"failed", "skipped"},
         Write(Made(mark)) \/ WriteIfNone(Made(mark)) \/ KeepFile
  PROVE  Earned'
<1>1. Those(trace', "passed") = Those(trace, "passed") /\ passedOnce' = passedOnce
  BY DEF NothingRan
<1>2. CASE KeepFile
  BY <1>1, <1>2 DEF KeepFile, Earned, Those
<1>3. CASE Write(Made(mark))
  BY <1>1, <1>3, MarkTypes, MadeIsReport, WriteEarns DEF Earned
<1> QED BY <1>2, <1>3 DEF WriteIfNone, KeepFile

LEMMA KeptEarns ==
  ASSUME Earned, NothingRan, cases' = cases
  PROVE  Earned'
  BY DEF Earned, NothingRan, Those

\* After tests have run as in r, with a part of r, a stand-in, nothing or the
\* old cases in the file
LEMMA TestsEarn ==
  ASSUME RanTyped, Earned, NEW r \in Runs, Ran(r),
         \/ \E p \in Parts(r) : Write(p)
         \/ Write(r) \/ Write(Made("failed")) \/ KeepFile \/ Tear
  PROVE  Earned'
<1>1. /\ Those(r, "passed") \subseteq passedOnce'
      /\ Those(trace', "passed") \subseteq passedOnce'
      /\ passedOnce \subseteq passedOnce'
  BY RanEarns
<1>2. CASE \E p \in Parts(r) : Write(p)
  <2>1. PICK p \in Parts(r) : Write(p)
    BY <1>2
  <2>2. p \in Reports /\ Those(p, "passed") \subseteq passedOnce'
    BY <1>1, PartIsRun, RunIsReport
  <2> QED BY <1>1, <2>1, <2>2, WriteEarns
<1>3. CASE Write(r)
  BY <1>1, <1>3, RunIsReport, WriteEarns
<1>4. CASE Write(Made("failed"))
  BY <1>1, <1>4, MarkTypes, MadeIsReport, WriteEarns
<1>5. CASE KeepFile
  BY <1>1, <1>5 DEF KeepFile, Earned, Those
<1>6. CASE Tear
  <2>1. cases' = Blank
    BY <1>6 DEF Tear
  <2>2. Those(cases', "passed") = {}
    BY <2>1, BlankIsRun
  <2> QED BY <1>1, <2>2 DEF Earned, Those
<1> QED BY <1>2, <1>3, <1>4, <1>5, <1>6

LEMMA TraceEarns ==
  ASSUME RanTyped, Earned, NothingRan, NEW p \in Parts(trace), Write(p)
  PROVE  Earned'
<1>1. Those(p, "passed") \subseteq passedOnce /\ p \in Reports
  BY PartIsRun, RunIsReport DEF RanTyped, Earned
<1> QED BY <1>1, WriteEarns DEF NothingRan, Earned

LEMMA SalvageEarns ==
  ASSUME RanTyped, Earned, NothingRan, Write(trace)
  PROVE  Earned'
  BY RunIsReport, WriteEarns DEF RanTyped, Earned, NothingRan

LEMMA EarnedKept == TypeOK /\ Earned /\ [Next]_vars => Earned'
<1> SUFFICES ASSUME TypeOK, Earned, [Next]_vars PROVE Earned'
  OBVIOUS
<1>a. RanTyped
  BY DEF TypeOK, RanTyped
<1>1. CASE \/ TestsSkipped \/ RunnerFails \/ NoEnv \/ CommandFails
  BY <1>1, StandInEarns DEF TestsSkipped, RunnerFails, NoEnv, CommandFails
<1>2. CASE \/ StartTests \/ Launch \/ SyncEnds \/ InstallEnds \/ NothingToRun
           \/ OutputHeld \/ StartCommand \/ Finalize \/ FinalizeFails \/ PodTimesOut
  BY <1>2, KeptEarns DEF StartTests, OutputHeld, Launch, SyncEnds, InstallEnds, NothingToRun,
     StartCommand, Finalize, FinalizeFails, PodTimesOut, Stops, files
<1>3. CASE AttemptEnds
  BY <1>a, <1>3, TestsEarn DEF AttemptEnds
<1>4. CASE PytestTimesOut
  BY <1>a, <1>4, TestsEarn, KeptEarns DEF PytestTimesOut, SessionCut, KeepFile
<1>5. CASE WrapUp
  BY <1>a, <1>5, StandInEarns, SalvageEarns DEF WrapUp, EnsureJunit
<1>6. CASE CommandEnds \/ CommandTimesOut
  BY <1>a, <1>6, TestsEarn DEF CommandEnds, CommandTimesOut, CommandOver
<1>7. CASE RunnerDies
  BY <1>a, <1>7, TestsEarn, KeptEarns DEF RunnerDies, SessionCut, KeepFile
<1>8. CASE Summarize \/ WriteMessage
  BY <1>a, <1>8, StandInEarns, TraceEarns DEF Summarize, WriteMessage, Publish, Collect
<1>9. CASE UNCHANGED vars
  BY <1>9, KeptEarns DEF vars, files, NothingRan
<1> QED BY <1>1, <1>2, <1>3, <1>4, <1>5, <1>6, <1>7, <1>8, <1>9
       DEF Next, Script, TimesOut

(***************************************************************************)
(* Files                                                                   *)
(***************************************************************************)
Consistent == file # "report" => cases = Blank

LEMMA FilesStayConsistent ==
  /\ \A c : Write(c) => Consistent'
  /\ \A c : Consistent /\ WriteIfNone(c) => Consistent'
  /\ Tear => Consistent'
  /\ Consistent /\ KeepFile => Consistent'
<1>1. /\ \A c : Write(c) => Consistent'
      /\ Consistent /\ KeepFile => Consistent'
  BY DEF Write, KeepFile, Consistent
<1>2. \A c : Consistent /\ WriteIfNone(c) => Consistent'
  BY <1>1 DEF WriteIfNone, KeepFile
<1>3. Tear => Consistent'
  BY DEF Tear, Consistent, Blank
<1> QED BY <1>1, <1>2, <1>3

LEMMA ConsistentKept == Consistent /\ [Next]_vars => Consistent'
<1> SUFFICES ASSUME Consistent, [Next]_vars PROVE Consistent'
  OBVIOUS
<1> USE FilesStayConsistent
<1>1. CASE \/ TestsSkipped \/ RunnerFails \/ NoEnv \/ CommandFails
  BY <1>1 DEF TestsSkipped, RunnerFails, NoEnv, CommandFails
<1>2. CASE \/ StartTests \/ Launch \/ SyncEnds \/ InstallEnds \/ NothingToRun
           \/ OutputHeld \/ StartCommand \/ Finalize \/ FinalizeFails \/ PodTimesOut
           \/ UNCHANGED vars
  BY <1>2 DEF StartTests, OutputHeld, Launch, SyncEnds, InstallEnds, NothingToRun, StartCommand,
     Finalize, FinalizeFails, PodTimesOut, Stops, files, vars, KeepFile
<1>3. CASE AttemptEnds
  BY <1>3 DEF AttemptEnds
<1>4. CASE PytestTimesOut \/ RunnerDies
  BY <1>4 DEF PytestTimesOut, RunnerDies, SessionCut
<1>5. CASE WrapUp
  BY <1>5 DEF WrapUp, EnsureJunit
<1>6. CASE CommandEnds \/ CommandTimesOut
  BY <1>6 DEF CommandEnds, CommandTimesOut, CommandOver
<1>7. CASE Summarize \/ WriteMessage
  BY <1>7 DEF Summarize, WriteMessage, Publish, Collect
<1> QED BY <1>1, <1>2, <1>3, <1>4, <1>5, <1>6, <1>7 DEF Next, Script, TimesOut

LEMMA FilesKept == Files /\ [Next]_vars => Files'
<1> SUFFICES ASSUME Files, [Next]_vars PROVE Files'
  OBVIOUS
<1>a. Consistent'
  BY ConsistentKept DEF Files, Consistent
<1> USE DEF Files, Consistent, Pytest
<1>1. CASE TestsSkipped
  BY <1>a, <1>1 DEF TestsSkipped, AfterFirst
<1>2. CASE RunnerFails
  BY <1>a, <1>2 DEF RunnerFails, AfterFirst, WriteIfNone, Write, KeepFile
<1>3. CASE StartTests \/ StartCommand
  BY <1>a, <1>3 DEF StartTests, StartCommand, files
<1>4. CASE Launch \/ SyncEnds \/ InstallEnds \/ OutputHeld
  BY <1>a, <1>4 DEF Launch, SyncEnds, InstallEnds, OutputHeld, files
<1>5. CASE AttemptEnds
  BY <1>a, <1>5 DEF AttemptEnds, AfterAttempt
<1>6. CASE PytestTimesOut \/ WrapUp
  BY <1>a, <1>6 DEF PytestTimesOut, WrapUp
<1>7. CASE NoEnv \/ NothingToRun \/ CommandFails
  BY <1>a, <1>7 DEF NoEnv, NothingToRun, CommandFails
<1>8. CASE CommandEnds \/ CommandTimesOut \/ RunnerDies
  BY <1>a, <1>8 DEF CommandEnds, CommandTimesOut, CommandOver, RunnerDies
<1>9. CASE Summarize \/ WriteMessage \/ Finalize \/ FinalizeFails \/ PodTimesOut
  BY <1>a, <1>9 DEF Summarize, WriteMessage, Finalize, FinalizeFails, PodTimesOut, Stops
<1>10. CASE UNCHANGED vars
  BY <1>10 DEF vars, files
<1> QED BY <1>1, <1>2, <1>3, <1>4, <1>5, <1>6, <1>7, <1>8, <1>9, <1>10
       DEF Next, Script, TimesOut

(***************************************************************************)
(* Steps that do not end the task, and those that do.                      *)
(***************************************************************************)
\* The task goes on: its step changes, its colour and exit code do not become
\* final, and its component stays the same.
GoesOn == /\ at # "end" /\ at' # "end"
          /\ UNCHANGED <<config, colour>>
          /\ exitFile' \in {exitFile, "nonzero"}

LEMMA EveryStep ==
  ASSUME [Next]_vars
  PROVE  GoesOn \/ Finalize \/ FinalizeFails \/ PodTimesOut \/ UNCHANGED vars
<1>1. CASE \/ TestsSkipped \/ RunnerFails \/ StartTests \/ Launch \/ WrapUp
           \/ NoEnv \/ NothingToRun \/ CommandFails \/ StartCommand
  BY <1>1 DEF TestsSkipped, RunnerFails, StartTests, Launch, WrapUp, NoEnv,
     NothingToRun, CommandFails, StartCommand, GoesOn, AfterFirst, files
<1>2. CASE Summarize \/ WriteMessage \/ RunnerDies \/ SyncEnds \/ InstallEnds
           \/ OutputHeld
  BY <1>2 DEF Summarize, WriteMessage, RunnerDies, SyncEnds, InstallEnds, OutputHeld,
     GoesOn, files
<1>3. CASE AttemptEnds \/ PytestTimesOut \/ CommandEnds \/ CommandTimesOut
  BY <1>3 DEF AttemptEnds, AfterAttempt, Testing, PytestTimesOut, CommandEnds,
     CommandTimesOut, CommandOver, GoesOn
<1> QED BY <1>1, <1>2, <1>3 DEF Next, Script, TimesOut

LEMMA EndsKept == Ends /\ [Next]_vars => Ends'
<1> SUFFICES ASSUME Ends, [Next]_vars PROVE Ends'
  OBVIOUS
<1>1. CASE GoesOn
  BY <1>1 DEF GoesOn, Ends
<1>2. CASE Finalize
  BY <1>2 DEF Finalize, Ends
<1>3. CASE FinalizeFails \/ PodTimesOut
  BY <1>3 DEF FinalizeFails, PodTimesOut, Stops, files, Ends
<1>4. CASE UNCHANGED vars
  BY <1>4 DEF vars, files, Ends
<1> QED BY <1>1, <1>2, <1>3, <1>4, EveryStep

(***************************************************************************)
(* Shown                                                                   *)
(***************************************************************************)
LEMMA ShownKept == Shown /\ [Next]_vars => Shown'
<1> SUFFICES ASSUME Shown, [Next]_vars PROVE Shown'
  OBVIOUS
<1>1. CASE /\ at \notin {"message", "finalize", "end"}
           /\ output' = output
  BY <1>1 DEF Shown
<1>2. CASE Summarize \/ WriteMessage
  BY <1>2 DEF Summarize, WriteMessage, Publish, KeepFile, Shown, Result, Those
<1>3. CASE Finalize \/ FinalizeFails \/ PodTimesOut
  BY <1>3 DEF Finalize, FinalizeFails, PodTimesOut, Stops, files, Shown, Result, Those
<1>4. CASE UNCHANGED vars
  BY <1>4 DEF vars, files, Shown, Result, Those
<1>5. \/ /\ at \notin {"message", "finalize", "end"}
         /\ output' = output
      \/ Summarize \/ WriteMessage \/ Finalize \/ FinalizeFails \/ PodTimesOut
      \/ UNCHANGED vars
  BY DEF Next, Script, TimesOut, TestsSkipped, RunnerFails, StartTests, Launch, WrapUp,
     NoEnv, NothingToRun, CommandFails, StartCommand, RunnerDies, SyncEnds,
     InstallEnds, OutputHeld, AttemptEnds, PytestTimesOut, CommandEnds, CommandTimesOut,
     CommandOver, Testing
<1> QED BY <1>1, <1>2, <1>3, <1>4, <1>5

(***************************************************************************)
(* Unplanned                                                               *)
(***************************************************************************)
LEMMA UnplannedKept == Unplanned /\ [Next]_vars => Unplanned'
<1> SUFFICES ASSUME Unplanned, [Next]_vars, ~config'.planned PROVE Unplanned'
  BY DEF Unplanned
<1>a. config' = config
  BY EveryStep DEF GoesOn, Finalize, FinalizeFails, PodTimesOut, Stops, vars
<1>b. ~config.planned /\ at \notin {"phase", "running", "wrapup"} /\ env # "run"
      /\ Those(cases, "passed") = {}
  BY <1>a DEF Unplanned
<1>1. CASE RunnerFails \/ Finalize \/ FinalizeFails \/ PodTimesOut \/ NothingToRun
  BY <1>1, <1>b DEF RunnerFails, AfterFirst, Finalize, FinalizeFails, PodTimesOut,
     Stops, NothingToRun, KeepFile, files, Unplanned, Those
<1>2. CASE NoEnv
  <2>1. CASE cases' = cases
    BY <1>2, <2>1, <1>b DEF NoEnv, Unplanned, Those
  <2>2. CASE cases' = Made("failed")
    BY <1>2, <2>2, <1>b, MarkTypes, MadeIsReport DEF NoEnv, Unplanned, Those
  <2> QED BY <1>2, <2>1, <2>2 DEF NoEnv, KeepFile, WriteIfNone, Write
<1>3. CASE Summarize \/ WriteMessage
  <2>1. cases' = cases
    BY <1>3, <1>b DEF Summarize, WriteMessage, Publish, Collect, KeepFile
  <2> QED BY <1>3, <2>1, <1>b DEF Summarize, WriteMessage, Unplanned, Those
<1>4. CASE UNCHANGED vars
  BY <1>4, <1>b DEF vars, files, Unplanned, Those
<1> QED BY <1>1, <1>2, <1>3, <1>4, <1>b
       DEF Next, Script, TimesOut, TestsSkipped, StartTests, Launch, WrapUp,
           CommandFails, StartCommand, RunnerDies, SyncEnds, InstallEnds, OutputHeld,
           AttemptEnds, PytestTimesOut, CommandEnds, CommandTimesOut, CommandOver, Testing

(***************************************************************************)
(* Coloured and Strict: what finalize makes of the files.                  *)
(***************************************************************************)
LEMMA FinalizeColours ==
  ASSUME TypeOK, IInv, Finalize
  PROVE  Coloured' /\ Strict'
<1>1. exitFile # "zero" /\ file' = file /\ cases' = cases /\ config' = config
  BY DEF IInv, Ends, Finalize
<1>2. cases \in Reports
  BY DEF TypeOK
<1>3. StepZero(file, cases, FALSE) <=> file = "report" /\ Those(cases, "passed") # {}
  BY DEF StepZero
<1>4. Forced => file # "report" \/ Those(cases, "passed") = {}
  BY DEF IInv, Shown, Forced, Result
<1>5. StrictZero(file, cases, FALSE) =>
         /\ StepZero(file, cases, FALSE)
         /\ Those(cases, "failed") = {} \/ MeetsRate(cases)
  BY <1>2, <1>3, RatePasses DEF StrictZero, Clean
<1>6. CASE ~config.planned
  <2>1. colour' = "red" /\ exitFile' = exitFile
    BY <1>1, <1>6 DEF Finalize
  <2>2. Those(cases, "passed") = {}
    BY <1>6 DEF IInv, Unplanned
  <2> QED BY <1>1, <2>1, <2>2 DEF Coloured, Strict, Those
<1>7. CASE config.planned /\ colour' = "drift" /\ exitFile' = "nonzero"
  BY <1>7 DEF Coloured, Strict
<1>8. CASE /\ exitFile' = IF StrictZero(file, cases, FALSE) /\ ~Forced
                          THEN "zero" ELSE "nonzero"
           /\ colour' = IF StepZero(file, cases, FALSE) /\ ~Forced
                        THEN "green" ELSE "red"
  <2>1. Those(cases', "passed") = Those(cases, "passed")
    BY <1>1 DEF Those
  <2>2. Coloured'
    BY <1>1, <1>3, <1>4, <1>8, <2>1 DEF Coloured, Those
  <2>3. Strict'
    BY <1>1, <1>5, <1>8 DEF Strict, MeetsRate, Listed, Those
  <2> QED BY <2>2, <2>3
<1>9. (exitFile = "zero") = FALSE
  BY <1>1
<1> QED BY <1>6, <1>7, <1>8, <1>9 DEF Finalize

LEMMA ColouredKept == TypeOK /\ IInv /\ [Next]_vars => Coloured' /\ Strict'
<1> SUFFICES ASSUME TypeOK, IInv, [Next]_vars PROVE Coloured' /\ Strict'
  OBVIOUS
<1>1. CASE GoesOn
  BY <1>1 DEF GoesOn, IInv, Ends, Coloured, Strict
<1>2. CASE Finalize
  BY <1>2, FinalizeColours
<1>3. CASE FinalizeFails \/ PodTimesOut
  BY <1>3 DEF FinalizeFails, PodTimesOut, Stops, files, IInv, Ends, Coloured, Strict
<1>4. CASE UNCHANGED vars
  BY <1>4 DEF vars, files, IInv, Coloured, Strict, MeetsRate, Listed, Those
<1> QED BY <1>1, <1>2, <1>3, <1>4, EveryStep

LEMMA IInvKept == TypeOK /\ IInv /\ [Next]_vars => IInv'
  BY EarnedKept, FilesKept, EndsKept, ShownKept, UnplannedKept, ColouredKept DEF IInv

LEMMA Invariance == Spec => [](TypeOK /\ IInv)
  BY InitTyped, NextTyped, InitEstablishes, IInvKept, PTL DEF Spec

\* A green task has run a test that passed.
THEOREM GreenHasPassedCorrect == Spec => []GreenHasPassed
<1>1. IInv => GreenHasPassed
  BY DEF IInv, Coloured, Earned, GreenHasPassed
<1> QED BY <1>1, Invariance, PTL

\* The exit file is 0 only of a green task without a failed case, or with enough
\* passed ones.
THEOREM ZeroIsEarnedCorrect == Spec => []ZeroIsEarned
<1>1. IInv => ZeroIsEarned
  BY DEF IInv, Coloured, Strict, ZeroIsEarned
<1> QED BY <1>1, Invariance, PTL

\* The published result and the colour of a finalized task agree.
THEOREM BadgeIsColourCorrect == Spec => []BadgeIsColour
<1>1. IInv => BadgeIsColour
  BY DEF IInv, Coloured, Shown, Result, BadgeIsColour
<1> QED BY <1>1, Invariance, PTL

(***************************************************************************)
(* What the JUnit file holds is not lost.                                  *)
(***************************************************************************)
Replaced == Testing /\ cases'[StandIn] = "absent"

LEMMA StepKeepsResults ==
  ASSUME TypeOK, IInv, [Next]_vars, Listed(cases) # {}
  PROVE  cases' = cases \/ Replaced
<1>a. file = "report"
  BY BlankIsRun DEF IInv, Files
<1>b. \A c : WriteIfNone(c) => cases' = cases
  BY <1>a DEF WriteIfNone
<1>1. CASE TestsSkipped \/ RunnerFails \/ CommandFails
  BY <1>1, <1>b DEF TestsSkipped, RunnerFails, CommandFails, KeepFile
<1>2. CASE NoEnv
  <2>1. cases = Made("failed")
    BY <1>2, BlankIsRun DEF NoEnv, IInv, Files
  <2> QED BY <1>2, <1>b, <2>1 DEF NoEnv, KeepFile, Write
<1>3. CASE \/ StartTests \/ Launch \/ SyncEnds \/ InstallEnds \/ NothingToRun
           \/ OutputHeld \/ StartCommand \/ Finalize \/ FinalizeFails \/ PodTimesOut
           \/ UNCHANGED vars
  BY <1>3 DEF StartTests, OutputHeld, Launch, SyncEnds, InstallEnds, NothingToRun, StartCommand,
     Finalize, FinalizeFails, PodTimesOut, Stops, files, vars
<1>4. CASE AttemptEnds
  BY <1>4, PartIsRun, RunIsReport, BlankIsRun
     DEF AttemptEnds, Write, Tear, KeepFile, Replaced
<1>5. CASE PytestTimesOut \/ RunnerDies
  BY <1>5, PartIsRun, RunIsReport, BlankIsRun
     DEF PytestTimesOut, RunnerDies, SessionCut, Write, Tear, KeepFile, Replaced
<1>6. CASE WrapUp
  BY <1>6, <1>a DEF WrapUp, EnsureJunit, HoldsCases, KeepFile
<1>7. CASE CommandEnds \/ CommandTimesOut
  <2>1. file = "none"
    BY <1>7 DEF CommandEnds, CommandTimesOut, IInv, Files
  <2> QED BY <1>a, <2>1
<1>8. CASE Summarize \/ WriteMessage
  BY <1>8, <1>a DEF Summarize, WriteMessage, Publish, Collect, KeepFile
<1> QED BY <1>1, <1>2, <1>3, <1>4, <1>5, <1>6, <1>7, <1>8 DEF Next, Script, TimesOut

\* Only the results of a later attempt replace what the JUnit file holds.
THEOREM ResultsAreKeptCorrect == Spec => ResultsAreKept
<1>1. TypeOK /\ IInv /\ [Next]_vars =>
        [Listed(cases) # {} =>
           cases' = cases \/ (Testing /\ cases'[StandIn] = "absent")]_vars
  BY StepKeepsResults DEF Replaced
<1> QED BY <1>1, Invariance, PTL DEF Spec, ResultsAreKept

(***************************************************************************)
(* ComponentTask implements TestVerdict.                                   *)
(***************************************************************************)
Status == CASE colour = "pending" -> "pending"
            [] colour = "green"   -> "succeeded"
            [] OTHER              -> "failed"
Found == IF colour = "pending" THEN {}
         ELSE {k \in {"passed", "failed"} :
                 \/ k = "passed" /\ Those(cases, "passed") # {}
                 \/ k = "failed" /\ Those(cases, "failed") \cup Those(cases, "skipped") # {}}

LEMMA StepEndsOnce ==
  ASSUME TypeOK, IInv, IInv', [Next]_vars
  PROVE  Verdict!Next \/ (Status' = Status /\ Found' = Found)
<1>1. CASE GoesOn
  <2>1. colour = "pending" /\ colour' = "pending"
    BY <1>1 DEF GoesOn, IInv, Ends
  <2> QED BY <2>1 DEF Status, Found
<1>2. CASE Finalize \/ FinalizeFails \/ PodTimesOut
  <2>1. colour = "pending" /\ colour' # "pending"
    BY <1>2 DEF Finalize, FinalizeFails, PodTimesOut, Stops, IInv, Ends
  <2>2. Status' \in {"succeeded", "failed"} /\ Found' \in SUBSET {"passed", "failed"}
    BY <2>1 DEF Status, Found
  <2>3. Status' = "succeeded" => "passed" \in Found'
    BY <2>1 DEF IInv, Coloured, Status, Found
  <2>4. PICK c \in {"succeeded", "failed"}, k \in SUBSET {"passed", "failed"} :
           c = Status' /\ k = Found'
    BY <2>2
  <2>5. Verdict!End(c, k)
    BY <2>1, <2>3, <2>4 DEF Verdict!End, Status, Found
  <2> QED BY <2>5 DEF Verdict!Next, Verdict!CaseKinds
<1>3. CASE UNCHANGED vars
  BY <1>3 DEF vars, files, Status, Found, Those
<1> QED BY <1>1, <1>2, <1>3, EveryStep

\* Every behaviour of the task is one of the step that GateVerdict takes for it.
THEOREM Refinement == Spec => KeepsPromise
<1>1. Init => Verdict!Init
  BY DEF Init, Verdict!Init
<1>2. TypeOK /\ IInv /\ IInv' /\ [Next]_vars => [Verdict!Next]_<<Status, Found>>
  BY StepEndsOnce
<1> QED BY <1>1, <1>2, Invariance, PTL DEF Spec, KeepsPromise, Verdict!Spec, Status, Found
=============================================================================
