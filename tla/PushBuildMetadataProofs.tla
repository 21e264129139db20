---------------------- MODULE PushBuildMetadataProofs ----------------------
(***************************************************************************)
(* Proofs about the push-metadata step, for any number of runs, digests    *)
(* and retries.                                                            *)
(***************************************************************************)
EXTENDS PushBuildMetadata, Integers, TLAPS

\* Run r has made its commit, and its clone did not hold its digest.
Committed(r) == pc[r] # "clone" /\ DigestOf[r] \notin Dirs(base[r])

\* A clone is a past state of main, and main only grows.
ClonesAreOld == \A r \in Runs : base[r] \subseteq main

\* A digest branch holds a commit of that digest.
BranchesNamed ==
  \A d \in Digests : branch[d] # NoCommit =>
    /\ DigestOf[branch[d]] = d
    /\ Committed(branch[d])

\* What a run may still push was committed on a clone without its digest.
PushersCommitted ==
  \A r \in Runs : pc[r] \in {"push", "branch", "merge", "check"} => Committed(r)

MainCommitted == \A r \in main : Committed(r)

IInv ==
  /\ TypeOK
  /\ ClonesAreOld
  /\ BranchesNamed
  /\ PushersCommitted
  /\ MainCommitted
  /\ SuccessMeansPublished

-----------------------------------------------------------------------------
\* A larger set of commits holds more directories.
LEMMA DirsMonotone ==
  ASSUME NEW A, NEW B, A \subseteq B
  PROVE  Dirs(A) \subseteq Dirs(B)
BY DEF Dirs

\* The directories of a union are those of its parts.
LEMMA DirsUnion ==
  ASSUME NEW A, NEW B
  PROVE  Dirs(A \union B) = Dirs(A) \union Dirs(B)
BY DEF Dirs

LEMMA InitEstablishes == Init => IInv
BY PushAssumption DEF Init, IInv, TypeOK, Running, Finished, ClonesAreOld, BranchesNamed,
   PushersCommitted, MainCommitted, SuccessMeansPublished

-----------------------------------------------------------------------------
\* A merge takes a whole history to main, and with it the branch's digest.
LEMMA MergeGrows ==
  ASSUME IInv, NEW d \in Digests, branch[d] # NoCommit
  PROVE  /\ main \subseteq Merged(d)
         /\ Merged(d) \in SUBSET Runs
         /\ d \in Dirs(Merged(d))
         /\ \A r \in Merged(d) : Committed(r)
<1>1. branch[d] \in Runs
  BY DEF IInv, TypeOK
<1>2. base[branch[d]] \subseteq main /\ main \subseteq Runs
  BY <1>1 DEF IInv, TypeOK, ClonesAreOld
<1>3. DigestOf[branch[d]] = d /\ Committed(branch[d])
  BY DEF IInv, BranchesNamed
<1>4. d \in Dirs(Merged(d))
  BY <1>3 DEF Merged, Dirs
<1>5. \A r \in Merged(d) : Committed(r)
  BY <1>2, <1>3 DEF IInv, MainCommitted, Merged
<1> QED
  BY <1>1, <1>2, <1>4, <1>5 DEF Merged

\* A step that only moves a counter or the program counter of r, to a label
\* it may claim, and leaves main, clones and branches alone.
LEMMA LocalStep ==
  ASSUME IInv, NEW r \in Runs, NEW label,
         pc[r] # "clone",
         label \in Running \union Finished, label # "clone",
         label \in {"push", "branch", "merge", "check"} => Committed(r),
         label \in {"cleanup", "ok"} => DigestOf[r] \in Dirs(main),
         Goto(r, label), UNCHANGED <<main, branch, base>>,
         attempt' \in [Runs -> 0 .. MaxRetries]
  PROVE  IInv'
<1> USE DEF IInv, TypeOK, Goto
<1>1. \A q \in Runs : Committed(q) => Committed(q)'
  BY DEF Committed, Running, Finished
<1>2. TypeOK'
  OBVIOUS
<1>3. ClonesAreOld'
  BY DEF ClonesAreOld
<1>4. BranchesNamed'
  BY <1>1, PushAssumption DEF BranchesNamed
<1>5. PushersCommitted'
  BY <1>1 DEF PushersCommitted
<1>6. MainCommitted'
  BY <1>1 DEF MainCommitted
<1>7. SuccessMeansPublished'
  BY DEF SuccessMeansPublished, Dirs
<1> QED
  BY <1>2, <1>3, <1>4, <1>5, <1>6, <1>7

\* A step of r that publishes: main grows to commits made on clones without
\* their digest, and r moves on.
LEMMA PublishingStep ==
  ASSUME IInv, NEW r \in Runs, NEW label, NEW M \in SUBSET Runs,
         pc[r] # "clone", Committed(r),
         label \in Running \union Finished, label # "clone",
         main \subseteq M, \A q \in M : Committed(q),
         label \in {"cleanup", "ok"} => DigestOf[r] \in Dirs(M),
         main' = M, Goto(r, label), UNCHANGED <<branch, base, attempt>>
  PROVE  IInv'
<1> USE DEF IInv, TypeOK, Goto
<1>1. \A q \in Runs : Committed(q) => Committed(q)'
  BY DEF Committed, Running, Finished
<1>2. TypeOK'
  OBVIOUS
<1>3. ClonesAreOld'
  BY DEF ClonesAreOld
<1>4. BranchesNamed'
  BY <1>1, PushAssumption DEF BranchesNamed
<1>5. PushersCommitted'
  BY <1>1 DEF PushersCommitted
<1>6. MainCommitted'
  BY <1>1 DEF MainCommitted
<1>7. Dirs(main) \subseteq Dirs(main')
  BY DirsMonotone
<1>8. SuccessMeansPublished'
  BY <1>7 DEF SuccessMeansPublished
<1> QED
  BY <1>2, <1>3, <1>4, <1>5, <1>6, <1>8

-----------------------------------------------------------------------------
LEMMA CloneKeeps ==
  ASSUME IInv, NEW r \in Runs, CloneAndCommit(r)
  PROVE  IInv'
<1> USE DEF IInv, TypeOK, CloneAndCommit, Goto
<1>1. PICK label \in {"ok", "push", "failed"} :
        /\ pc' = [pc EXCEPT ![r] = label]
        /\ \/ label = "failed" /\ base' = base
           \/ base' = [base EXCEPT ![r] = main]
        /\ label = "ok" => DigestOf[r] \in Dirs(main)
        /\ label = "push" => DigestOf[r] \notin Dirs(main) /\ base' = [base EXCEPT ![r] = main]
  BY DEF AlreadyPresent
<1>2. r \notin main /\ \A d \in Digests : branch[d] # r
  BY PushAssumption DEF MainCommitted, BranchesNamed, Committed
<1>3. \A q \in Runs \ {r} : Committed(q) => Committed(q)'
  BY <1>1 DEF Committed, Dirs
<1>4. TypeOK'
  BY <1>1 DEF Running, Finished
<1>5. ClonesAreOld'
  BY <1>1 DEF ClonesAreOld
<1>6. BranchesNamed'
  BY <1>2, <1>3 DEF BranchesNamed
<1>7. PushersCommitted'
  BY <1>1, <1>3 DEF PushersCommitted, Committed, Dirs
<1>8. MainCommitted'
  BY <1>2, <1>3 DEF MainCommitted
<1>9. SuccessMeansPublished'
  BY <1>1 DEF SuccessMeansPublished, Dirs
<1> QED
  BY <1>4, <1>5, <1>6, <1>7, <1>8, <1>9

LEMMA PushKeeps ==
  ASSUME IInv, NEW r \in Runs, PushAccepted(r) \/ PushRefused(r)
  PROVE  IInv'
<1>1. pc[r] = "push" /\ Committed(r)
  BY DEF PushAccepted, PushRefused, IInv, PushersCommitted
<1>2. CASE PushAccepted(r)
  <2>1. main' = main \union {r} /\ DigestOf[r] \in Dirs(main \union {r})
    BY <1>2 DEF PushAccepted, FastForward, Pushed, Dirs
  <2>2. \A q \in main \union {r} : Committed(q)
    BY <1>1 DEF IInv, MainCommitted
  <2> QED
    BY <1>1, <1>2, <2>1, <2>2, PublishingStep
    DEF PushAccepted, IInv, TypeOK, Running, Finished
<1>3. CASE PushRefused(r)
  <2>1. main' = main \/ main' = main \union {r}
    BY <1>3 DEF PushRefused, FastForward, Pushed
  <2>2. \A q \in main' : Committed(q)
    BY <1>1, <2>1 DEF IInv, MainCommitted
  <2> QED
    BY <1>1, <1>3, <2>1, <2>2, PublishingStep
    DEF PushRefused, IInv, TypeOK, Running, Finished
<1> QED
  BY <1>2, <1>3

LEMMA PushBranchKeeps ==
  ASSUME IInv, NEW r \in Runs, PushBranch(r)
  PROVE  IInv'
<1>1. pc[r] = "branch" /\ Committed(r) /\ DigestOf[r] \in Digests
  BY PushAssumption DEF PushBranch, IInv, PushersCommitted
<1>2. CASE Goto(r, "failed") /\ UNCHANGED <<branch, attempt>>
  BY <1>1, <1>2, LocalStep DEF PushBranch, Running, Finished, IInv, TypeOK
<1>3. CASE /\ branch' = [branch EXCEPT ![DigestOf[r]] = r]
           /\ attempt' = [attempt EXCEPT ![r] = 1]
           /\ Goto(r, "merge")
  <2> USE <1>1, <1>3 DEF IInv, TypeOK, Goto
  <2>0. UNCHANGED <<main, base>>
    BY DEF PushBranch
  <2>1. \A q \in Runs : Committed(q) => Committed(q)'
    BY <2>0 DEF Committed
  <2>2. TypeOK'
    BY <2>0, PushAssumption DEF Running, Finished
  <2>3. ClonesAreOld'
    BY <2>0 DEF ClonesAreOld
  <2>4. BranchesNamed'
    BY <2>0, <2>1, PushAssumption DEF BranchesNamed
  <2>5. PushersCommitted'
    BY <2>1 DEF PushersCommitted
  <2>6. MainCommitted'
    BY <2>0, <2>1 DEF MainCommitted
  <2>7. SuccessMeansPublished'
    BY <2>0 DEF SuccessMeansPublished, Dirs
  <2> QED
    BY <2>2, <2>3, <2>4, <2>5, <2>6, <2>7
<1> QED
  BY <1>2, <1>3 DEF PushBranch

LEMMA MergeKeeps ==
  ASSUME IInv, NEW r \in Runs, MergeDone(r) \/ MergeUnclear(r) \/ MergeForbidden(r)
  PROVE  IInv'
<1>1. pc[r] = "merge" /\ Committed(r) /\ DigestOf[r] \in Digests
  BY PushAssumption DEF MergeDone, MergeUnclear, MergeForbidden, IInv, PushersCommitted
<1>2. CASE MergeDone(r)
  BY <1>1, <1>2, MergeGrows, PublishingStep DEF MergeDone, Running, Finished
<1>3. CASE MergeUnclear(r)
  <2>1. CASE UNCHANGED main
    BY <1>1, <1>3, <2>1, LocalStep DEF MergeUnclear, Running, Finished, IInv, TypeOK
  <2>2. CASE branch[DigestOf[r]] # NoCommit /\ main' = Merged(DigestOf[r])
    BY <1>1, <1>3, <2>2, MergeGrows, PublishingStep DEF MergeUnclear, Running, Finished
  <2> QED
    BY <1>3, <2>1, <2>2 DEF MergeUnclear
<1>4. CASE MergeForbidden(r)
  BY <1>1, <1>4, LocalStep DEF MergeForbidden, Running, Finished, IInv, TypeOK
<1> QED
  BY <1>2, <1>3, <1>4

LEMMA CheckKeeps ==
  ASSUME IInv, NEW r \in Runs, CheckPresent(r) \/ CheckAbsent(r)
  PROVE  IInv'
<1>1. pc[r] = "check" /\ Committed(r)
  BY DEF CheckPresent, CheckAbsent, IInv, PushersCommitted
<1>2. CASE CheckPresent(r)
  BY <1>1, <1>2, LocalStep
  DEF CheckPresent, DigestPresentOnMain, Running, Finished, IInv, TypeOK
<1>3. CASE CheckAbsent(r)
  <2>1. CASE LastAttempt(r)
    BY <1>1, <1>3, <2>1, LocalStep
    DEF CheckAbsent, Exhausted, Running, Finished, IInv, TypeOK
  <2>2. CASE ~LastAttempt(r)
    <3>1. attempt' \in [Runs -> 0 .. MaxRetries]
      BY <1>3, <2>2, PushAssumption DEF CheckAbsent, LastAttempt, NextAttempt, IInv, TypeOK
    <3> QED
      BY <1>1, <1>3, <2>2, <3>1, LocalStep DEF CheckAbsent, Running, Finished
  <2> QED
    BY <2>1, <2>2
<1> QED
  BY <1>2, <1>3

LEMMA DeleteBranchKeeps ==
  ASSUME IInv, NEW r \in Runs, DeleteBranch(r)
  PROVE  IInv'
<1> USE DEF IInv, TypeOK, DeleteBranch, Goto
<1>1. \A q \in Runs : Committed(q) => Committed(q)'
  BY DEF Committed
<1>2. \A d \in Digests : branch'[d] \in {branch[d], NoCommit}
  OBVIOUS
<1>3. TypeOK'
  BY DEF Running, Finished
<1>4. BranchesNamed'
  BY <1>1, <1>2 DEF BranchesNamed
<1>5. PushersCommitted' /\ MainCommitted' /\ ClonesAreOld'
  BY <1>1 DEF PushersCommitted, MainCommitted, ClonesAreOld
<1>6. SuccessMeansPublished'
  BY DEF SuccessMeansPublished, Dirs
<1> QED
  BY <1>3, <1>4, <1>5, <1>6

LEMMA InterruptKeeps ==
  ASSUME IInv, NEW r \in Runs, Interrupt(r)
  PROVE  IInv'
<1> USE DEF IInv, TypeOK, Interrupt, Goto
<1>1. \A q \in Runs : Committed(q) => Committed(q)'
  BY DEF Committed
<1>2. TypeOK' /\ ClonesAreOld'
  BY DEF Running, Finished, ClonesAreOld
<1>3. BranchesNamed' /\ PushersCommitted' /\ MainCommitted'
  BY <1>1, PushAssumption DEF BranchesNamed, PushersCommitted, MainCommitted
<1>4. SuccessMeansPublished'
  BY DEF SuccessMeansPublished, Dirs
<1> QED
  BY <1>2, <1>3, <1>4

\* IInv is inductive.
LEMMA StepKeeps == IInv /\ [Next]_vars => IInv'
<1> SUFFICES ASSUME IInv, [Next]_vars PROVE IInv'
  OBVIOUS
<1>1. CASE UNCHANGED vars
  BY <1>1 DEF vars, IInv, TypeOK, ClonesAreOld, BranchesNamed, PushersCommitted, MainCommitted,
     SuccessMeansPublished, Committed, Dirs
<1>2. ASSUME NEW r \in Runs, Step(r) PROVE IInv'
  BY <1>2, CloneKeeps, PushKeeps, PushBranchKeeps, MergeKeeps, CheckKeeps, DeleteBranchKeeps DEF Step
<1>3. ASSUME NEW r \in Runs, Interrupt(r) PROVE IInv'
  BY <1>3, InterruptKeeps
<1> QED
  BY <1>1, <1>2, <1>3 DEF Next

LEMMA Invariance == Spec => []IInv
BY InitEstablishes, StepKeeps, PTL DEF Spec

-----------------------------------------------------------------------------
\* The types of the step's state.
THEOREM TypeCorrect == Spec => []TypeOK
<1>1. IInv => TypeOK
  BY DEF IInv
<1> QED
  BY Invariance, <1>1, PTL

\* A run that exits 0 has its digest on main (publish_metadata's return 0).
THEOREM SuccessPublished == Spec => []SuccessMeansPublished
<1>1. IInv => SuccessMeansPublished
  BY DEF IInv
<1> QED
  BY Invariance, <1>1, PTL

\* A digest on main when a run clones is not committed again by that run.
THEOREM NeverRecommitted == Spec => []NoRecommit
<1>1. IInv => NoRecommit
  BY DEF IInv, MainCommitted, Committed, NoRecommit
<1> QED
  BY Invariance, <1>1, PTL

\* main never loses a commit.
LEMMA MainGrows ==
  ASSUME IInv, [Next]_vars
  PROVE  main \subseteq main'
<1>1. ASSUME NEW r \in Runs, Step(r) \/ Interrupt(r) PROVE main \subseteq main'
  BY <1>1 DEF Step, Interrupt, CloneAndCommit, PushAccepted, PushRefused, PushBranch, MergeDone,
     MergeUnclear, MergeForbidden, CheckPresent, CheckAbsent, DeleteBranch, FastForward, Pushed, Merged
<1> QED
  BY <1>1 DEF Next, vars

\* No run unpublishes what another one published.
THEOREM NeverUnpublished == Spec => NothingUnpublished
<1>1. IInv /\ [Next]_vars => [Dirs(main) \subseteq Dirs(main')]_vars
  BY MainGrows, DirsMonotone
<1> QED
  BY Invariance, <1>1, PTL DEF Spec, NothingUnpublished

-----------------------------------------------------------------------------
\* What a step of r does to the directories of main: nothing, or its own.
LEMMA DirsChange ==
  ASSUME IInv, NEW r \in Runs, Step(r) \/ Interrupt(r)
  PROVE  Dirs(main') = Dirs(main) \/ Dirs(main') = Dirs(main) \union {DigestOf[r]}
<1>1. CASE main' = main
  BY <1>1
<1>2. CASE main' = main \union {r}
  BY <1>2 DEF Dirs
<1>3. CASE branch[DigestOf[r]] # NoCommit /\ main' = Merged(DigestOf[r])
  <2>1. base[branch[DigestOf[r]]] \subseteq main /\ DigestOf[branch[DigestOf[r]]] = DigestOf[r]
    BY <1>3, PushAssumption DEF IInv, TypeOK, ClonesAreOld, BranchesNamed
  <2> QED
    BY <1>3, <2>1 DEF Merged, Dirs
<1> QED
  BY <1>1, <1>2, <1>3 DEF Step, Interrupt, CloneAndCommit, PushAccepted, PushRefused, PushBranch,
     MergeDone, MergeUnclear, MergeForbidden, CheckPresent, CheckAbsent, DeleteBranch, FastForward,
     Pushed

\* The step implements the store it promises: every step of the script is a
\* step of DigestStore or a stutter, under the mapping of PushBuildMetadata.
THEOREM ImplementsTheStore == Spec => ImplementsStore
<1> DEFINE v == [r \in Runs |-> IF pc[r] \in Running THEN "running" ELSE pc[r]]
<1>1. Init => Store!StoreInit
  BY PushAssumption DEF Init, Store!StoreInit, Dirs, Running
<1>2. IInv /\ IInv' /\ [Next]_vars => [Store!StoreNext]_(Store!storeVars)
  <2> SUFFICES ASSUME IInv, IInv', [Next]_vars
               PROVE  Store!StoreNext \/ UNCHANGED Store!storeVars
    OBVIOUS
  <2>1. CASE UNCHANGED vars
    BY <2>1 DEF vars, Store!storeVars, Dirs
  <2>2. ASSUME NEW r \in Runs, Step(r) \/ Interrupt(r)
        PROVE  Store!StoreNext \/ UNCHANGED Store!storeVars
    <3>1. PICK label \in Running \union Finished : Goto(r, label) /\ pc[r] \in Running
      BY <2>2 DEF Step, Interrupt, Goto, CloneAndCommit, PushAccepted, PushRefused, PushBranch,
         MergeDone, MergeUnclear, MergeForbidden, CheckPresent, CheckAbsent, DeleteBranch,
         Exhausted, Running, Finished
    <3>2. v[r] = "running" /\ v' = [v EXCEPT ![r] = IF label \in Running THEN "running" ELSE label]
      BY <3>1 DEF Goto, IInv, TypeOK
    <3>3. Dirs(main)' = Dirs(main) \/ Dirs(main)' = Dirs(main) \union {DigestOf[r]}
      BY <2>2, DirsChange DEF Dirs
    <3>4. CASE label \in Running
      <4>1. v' = v
        BY <3>2, <3>4 DEF Running
      <4> QED
        BY <3>3, <4>1 DEF Store!StoreNext, Store!Store, Store!storeVars
    <3>5. CASE label = "failed"
      <4>1. UNCHANGED main
        BY <2>2, <3>1, <3>5 DEF Step, Interrupt, Goto, CloneAndCommit, PushAccepted, PushRefused,
           PushBranch, MergeDone, MergeUnclear, MergeForbidden, CheckPresent, CheckAbsent,
           DeleteBranch, IInv, TypeOK
      <4> QED
        BY <3>2, <3>5, <4>1 DEF Store!StoreNext, Store!GiveUp, Running, Dirs
    <3>6. CASE label = "ok"
      <4>1. pc'[r] = "ok"
        BY <3>1, <3>6 DEF Goto, IInv, TypeOK
      <4>2. DigestOf[r] \in Dirs(main)'
        BY <4>1 DEF IInv, SuccessMeansPublished
      <4> QED
        BY <3>2, <3>3, <3>6, <4>2 DEF Store!StoreNext, Store!Succeed, Store!StoreAndSucceed, Running
    <3> QED
      BY <3>4, <3>5, <3>6 DEF Finished
  <2> QED
    BY <2>1, <2>2 DEF Next
<1> QED
  BY <1>1, <1>2, Invariance, PTL DEF ImplementsStore, Store!StoreSpec, Spec
-----------------------------------------------------------------------------
(* Why a run cannot go on for ever.                                        *)

\* The steps run r has ahead at most: two for each attempt left, and the
\* labels before and after the loop.
StepsLeft(r) ==
  CASE pc[r] = "clone"   -> 2 * MaxRetries + 4
    [] pc[r] = "push"    -> 2 * MaxRetries + 3
    [] pc[r] = "branch"  -> 2 * MaxRetries + 2
    [] pc[r] = "merge"   -> 2 * (MaxRetries - attempt[r]) + 3
    [] pc[r] = "check"   -> 2 * (MaxRetries - attempt[r]) + 2
    [] pc[r] = "cleanup" -> 1
    [] OTHER             -> 0

\* Every step of a run lowers its count, and no other run's step touches it.
CountsDown ==
  \A r \in Runs : StepsLeft(r)' <= StepsLeft(r) /\ (Step(r) => StepsLeft(r)' < StepsLeft(r))

LEMMA StepsLeftBounded ==
  ASSUME IInv, NEW r \in Runs
  PROVE  StepsLeft(r) \in 0 .. 2 * MaxRetries + 4
BY PushAssumption DEF IInv, TypeOK, StepsLeft, Running, Finished

LEMMA StepLowers ==
  ASSUME IInv, IInv', NEW r \in Runs, Step(r) \/ Interrupt(r)
  PROVE  /\ StepsLeft(r)' \in Int /\ StepsLeft(r)' < StepsLeft(r)
         /\ \A q \in Runs : q # r => StepsLeft(q)' = StepsLeft(q)
<1> USE PushAssumption DEF IInv, TypeOK, Goto, StepsLeft
<1>1. CASE CloneAndCommit(r) \/ PushAccepted(r) \/ PushRefused(r)
  BY <1>1 DEF CloneAndCommit, PushAccepted, PushRefused, Running, Finished
<1>2. CASE PushBranch(r)
  BY <1>2 DEF PushBranch, Running, Finished
<1>3. CASE MergeDone(r) \/ MergeUnclear(r) \/ MergeForbidden(r)
  BY <1>3 DEF MergeDone, MergeUnclear, MergeForbidden, Running, Finished
<1>4. CASE CheckPresent(r) \/ DeleteBranch(r)
  BY <1>4 DEF CheckPresent, DeleteBranch, Running, Finished
<1>6. CASE CheckAbsent(r)
  <2>1. \A q \in Runs : q # r => pc'[q] = pc[q] /\ attempt'[q] = attempt[q]
    BY <1>6 DEF CheckAbsent
  <2>2. CASE pc' = [pc EXCEPT ![r] = "failed"]
    BY <1>6, <2>1, <2>2 DEF CheckAbsent, Running, Finished
  <2>3. CASE attempt' = [attempt EXCEPT ![r] = @ + 1] /\ pc' = [pc EXCEPT ![r] = "merge"]
    <3>1. pc[r] = "check" /\ pc'[r] = "merge" /\ attempt'[r] = attempt[r] + 1
      BY <1>6, <2>3 DEF CheckAbsent
    <3>2. attempt[r] \in Nat /\ MaxRetries \in Nat
      OBVIOUS
    <3>3. StepsLeft(r) = 2 * (MaxRetries - attempt[r]) + 2
      BY <3>1
    <3>4. StepsLeft(r)' = 2 * (MaxRetries - (attempt[r] + 1)) + 3
      BY <3>1
    <3>5. StepsLeft(r)' \in Int /\ StepsLeft(r)' < StepsLeft(r)
      BY <3>2, <3>3, <3>4
    <3> QED BY <2>1, <3>5
  <2> QED BY <1>6, <2>2, <2>3 DEF CheckAbsent, Exhausted, NextAttempt
<1>5. CASE Interrupt(r)
  BY <1>5 DEF Interrupt, Running, Finished
<1> QED BY <1>1, <1>2, <1>3, <1>4, <1>5, <1>6 DEF Step

\* The safety half of EveryRunEnds: a run makes at most 2 * MaxRetries + 4
\* steps, however often other runs move main or force-push over its branch.
THEOREM StepsRunOut ==
  Spec => [](\A r \in Runs : StepsLeft(r) \in 0 .. 2 * MaxRetries + 4) /\ [][CountsDown]_vars
<1>1. IInv => \A r \in Runs : StepsLeft(r) \in 0 .. 2 * MaxRetries + 4
  BY StepsLeftBounded
<1>2. IInv /\ IInv' /\ [Next]_vars => [CountsDown]_vars
  <2> SUFFICES ASSUME IInv, IInv', NEW q \in Runs, Step(q) \/ Interrupt(q), NEW r \in Runs
               PROVE  /\ StepsLeft(r)' <= StepsLeft(r)
                      /\ Step(r) => StepsLeft(r)' < StepsLeft(r)
    BY DEF CountsDown, Next
  <2>1. StepsLeft(r) \in Int
    BY StepsLeftBounded, PushAssumption
  <2>2. Step(r) => StepsLeft(r)' < StepsLeft(r)
    BY StepLowers
  <2>3. StepsLeft(r)' <= StepsLeft(r)
    BY <2>1, StepLowers
  <2> QED BY <2>2, <2>3
<1> QED BY <1>1, <1>2, Invariance, PTL DEF Spec

=============================================================================
