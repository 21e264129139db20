------------------------ MODULE ExternalClusterProofs ------------------------
(* Types, and when two runs can be on a cluster together, for every set of  *)
(* runs, Secrets and clusters.                                              *)
EXTENDS ExternalCluster, Integers, TLAPS

\* A run that runs has been created, and only command lines act as such.
CliInv ==
  /\ \A p \in Runs \ CliRuns : cli[p] = "none"
  /\ \A p \in CliRuns : cli[p] \in {"none", "uploaded"} => phase[p] = "none"

\* The run is past the check, or nothing it reads will stop it.
Clear(p) == phase[p] = "using" \/ (phase[p] = "listed" /\ active[p] = {})

\* Each of the two had the means to recognise the other.
Mutual(p, q) == q \in known[p] /\ p \in known[q]

\* Of two runs that recognise each other at most one is clear.
OneClear ==
  \A p, q \in Runs \ Forced : p # q /\ Mutual(p, q) => ~(Clear(p) /\ Clear(q))

IInv == TypeOK /\ CliInv /\ OneClear

USE ClusterAssumption

-----------------------------------------------------------------------------
LEMMA InitIInv == Init => IInv
<1> SUFFICES ASSUME Init PROVE IInv
  OBVIOUS
<1> USE DEF Init
<1>1. TypeOK
  <2>1. secrets \subseteq Sources
    OBVIOUS
  <2>2. polls \in [Runs -> 0 .. MaxPolls - 1]
    OBVIOUS
  <2> QED BY <2>1, <2>2 DEF TypeOK, Phases
<1>2. CliInv
  BY DEF CliInv
<1>4. OneClear
  BY DEF OneClear, Clear
<1> QED BY <1>1, <1>2, <1>4 DEF IInv

-----------------------------------------------------------------------------
LEMMA TypeStep == TypeOK /\ [Next]_vars => TypeOK'
<1> SUFFICES ASSUME TypeOK, [Next]_vars PROVE TypeOK'
  OBVIOUS
<1> USE DEF TypeOK, Phases, Become
<1>1. CASE UNCHANGED vars
  BY <1>1 DEF vars
<1>2. ASSUME NEW p \in Runs, Create(p) PROVE TypeOK'
  BY <1>2 DEF Create
<1>3. ASSUME NEW p \in Runs, Admit(p) PROVE TypeOK'
  BY <1>3 DEF Admit
<1>4. ASSUME NEW p \in Runs, Arrive(p) PROVE TypeOK'
  BY <1>4 DEF Arrive
<1>5. ASSUME NEW p \in Runs, NEW found \in Recognisable(p)
      PROVE  /\ found \in SUBSET Runs
             /\ List(p, found) => active' \in [Runs -> SUBSET Runs]
  <2>1. found \in SUBSET Runs
    <3>1. \/ found = {}
          \/ \E unread \in SUBSET Flaky :
                found = {q \in Runs \ {p} : Matches(p, q, (Sources \ secrets) \union unread)}
      BY DEF Recognisable
    <3> QED BY <3>1
  <2> QED BY <2>1 DEF List
<1>6. ASSUME NEW p \in Runs, ListForWait(p) PROVE TypeOK'
  <2>1. PICK found \in Recognisable(p) : List(p, found) /\ known' = [known EXCEPT ![p] = found]
    BY <1>6 DEF ListForWait
  <2>2. active' \in [Runs -> SUBSET Runs] /\ known' \in [Runs -> SUBSET Runs]
    BY <1>5, <2>1
  <2> QED BY <1>6, <2>2 DEF ListForWait
<1>7. ASSUME NEW p \in Runs, Proceed(p) PROVE TypeOK'
  BY <1>7 DEF Proceed
<1>8. ASSUME NEW p \in Runs, Busy(p) PROVE TypeOK'
  <2>1. CASE polls[p] + 1 = MaxPolls
    BY <1>8, <2>1 DEF Busy
  <2>2. CASE polls[p] + 1 # MaxPolls
    <3>1. polls[p] \in 0 .. MaxPolls - 1 /\ polls[p] + 1 \in 0 .. MaxPolls - 1
      BY <2>2
    <3>2. polls' \in [Runs -> 0 .. MaxPolls - 1]
      BY <1>8, <2>2, <3>1 DEF Busy
    <3> QED BY <1>8, <2>2, <3>2 DEF Busy
  <2> QED BY <2>1, <2>2
<1>9. ASSUME NEW p \in Runs, Fail(p) PROVE TypeOK'
  BY <1>9 DEF Fail
<1>10. ASSUME NEW p \in Runs, Stop(p) PROVE TypeOK'
  BY <1>10 DEF Stop
<1>11. ASSUME NEW p \in Runs, End(p) PROVE TypeOK'
  BY <1>11 DEF End
<1>12. ASSUME NEW p \in Runs, Upload(p) PROVE TypeOK'
  BY <1>12 DEF Upload
<1>13. ASSUME NEW p \in Runs, Detach(p) PROVE TypeOK'
  BY <1>13 DEF Detach
<1>14. ASSUME NEW p \in Runs, ListForCleanup(p) PROVE TypeOK'
  BY <1>5, <1>14 DEF ListForCleanup
<1>15. ASSUME NEW p \in Runs, CleanupFails(p) PROVE TypeOK'
  BY <1>15 DEF CleanupFails
<1>16. ASSUME NEW p \in Runs, DeleteSecret(p) PROVE TypeOK'
  BY <1>16 DEF DeleteSecret
<1> HIDE DEF TypeOK
<1> QED BY <1>1, <1>2, <1>3, <1>4, <1>6, <1>7, <1>8, <1>9, <1>10, <1>11, <1>12,
           <1>13, <1>14, <1>15, <1>16 DEF Next, Poll

\* Runs, command lines and their listings stay within their types; a poll count
\* stays below the deadline.
THEOREM TypeCorrect == Spec => []TypeOK
<1>1. Init => TypeOK
  BY InitIInv DEF IInv
<1> QED BY <1>1, TypeStep, PTL DEF Spec

-----------------------------------------------------------------------------
LEMMA CliStep == TypeOK /\ CliInv /\ [Next]_vars => CliInv'
<1> SUFFICES ASSUME TypeOK, CliInv, [Next]_vars PROVE CliInv'
  OBVIOUS
<1> USE DEF TypeOK, CliInv, Become
<1>1. CASE UNCHANGED vars
  BY <1>1 DEF vars
<1>2. ASSUME NEW p \in Runs,
             \/ Admit(p) \/ Arrive(p) \/ ListForWait(p) \/ Proceed(p) \/ Busy(p)
             \/ Fail(p) \/ Stop(p) \/ End(p)
      PROVE  CliInv'
  <2>1. phase[p] # "none" /\ cli' = cli
    BY <1>2 DEF Admit, Arrive, ListForWait, Proceed, Busy, Fail, Stop, End
  <2>2. \A q \in Runs \ {p} : phase'[q] = phase[q]
    BY <1>2 DEF Admit, Arrive, ListForWait, Proceed, Busy, Fail, Stop, End
  <2> QED BY <2>1, <2>2
<1>3. ASSUME NEW p \in Runs, Create(p) PROVE CliInv'
  BY <1>3 DEF Create
<1>4. ASSUME NEW p \in Runs, Upload(p) PROVE CliInv'
  BY <1>4 DEF Upload
<1>5. ASSUME NEW p \in Runs,
             Detach(p) \/ ListForCleanup(p) \/ CleanupFails(p) \/ DeleteSecret(p)
      PROVE  CliInv'
  <2>1. cli[p] # "none" /\ phase' = phase
    BY <1>5 DEF Detach, ListForCleanup, CleanupFails, DeleteSecret, CleansUp
  <2>2. cli'[p] \in {"detached", "listed", "exited"}
    BY <1>5 DEF Detach, ListForCleanup, CleanupFails, DeleteSecret
  <2>3. \A q \in Runs \ {p} : cli'[q] = cli[q]
    BY <1>5 DEF Detach, ListForCleanup, CleanupFails, DeleteSecret
  <2> QED BY <2>1, <2>2, <2>3
<1> HIDE DEF CliInv, TypeOK
<1> QED BY <1>1, <1>2, <1>3, <1>4, <1>5 DEF Next, Poll

LEMMA ClearHolds == ASSUME NEW q, Clear(q) PROVE Holds(q)
BY DEF Clear, Holds

\* Only a run that lists, or a forced one, becomes clear: its listing is empty.
LEMMA BecomesClear ==
  ASSUME TypeOK, CliInv, [Next]_vars, NEW p \in Runs \ Forced,
         ~Clear(p), Clear(p)'
  PROVE  /\ \A q \in known'[p] : ~Holds(q)
         /\ \A q \in Runs \ {p} : /\ phase'[q] = phase[q] /\ active'[q] = active[q]
                                 /\ known'[q] = known[q]
<1> USE DEF TypeOK, Become
<1>1. CASE UNCHANGED vars
  BY <1>1 DEF vars, Clear
<1>2. ASSUME NEW r \in Runs,
             \/ Create(r) \/ Admit(r) \/ Arrive(r) \/ Proceed(r) \/ Busy(r)
             \/ Fail(r) \/ Stop(r) \/ End(r)
      PROVE  FALSE
  <2>1. active' = active /\ \A q \in Runs \ {r} : phase'[q] = phase[q]
    BY <1>2 DEF Create, Admit, Arrive, Proceed, Busy, Fail, Stop, End
  <2>2. CASE p # r
    BY <2>1, <2>2 DEF Clear
  <2>3. CASE p = r
    <3>1. Proceed(r) => Clear(r)
      BY DEF Proceed, Clear
    <3>2. ~Proceed(r) => phase'[r] \notin {"using", "listed"}
      BY <1>2, <2>3 DEF Create, Admit, Arrive, Busy, Fail, Stop, End
    <3> QED BY <2>3, <3>1, <3>2 DEF Clear
  <2> QED BY <2>2, <2>3
<1>3. ASSUME NEW r \in Runs, Upload(r) \/ Detach(r) \/ CleanupFails(r) \/ DeleteSecret(r)
      PROVE  FALSE
  <2>1. phase' = phase /\ active' = active
    BY <1>3 DEF Upload, Detach, CleanupFails, DeleteSecret
  <2> QED BY <2>1 DEF Clear
<1>4. ASSUME NEW r \in Runs, ListForCleanup(r) PROVE FALSE
  <2>1. phase' = phase /\ \A q \in Runs \ {r} : active'[q] = active[q]
    BY <1>4 DEF ListForCleanup, List
  <2>2. phase[r] \in {"none", "ended"}
    BY <1>4 DEF ListForCleanup, CleansUp, CliInv
  <2>3. CASE p # r
    BY <2>1, <2>3 DEF Clear
  <2>4. CASE p = r
    BY <2>1, <2>2, <2>4 DEF Clear
  <2> QED BY <2>3, <2>4
<1>5. ASSUME NEW r \in Runs, ListForWait(r)
      PROVE  /\ \A q \in known'[p] : ~Holds(q)
             /\ \A q \in Runs \ {p} : /\ phase'[q] = phase[q] /\ active'[q] = active[q]
                                     /\ known'[q] = known[q]
  <2>1. PICK found \in Recognisable(r) : List(r, found) /\ known' = [known EXCEPT ![r] = found]
    BY <1>5 DEF ListForWait
  <2>2. \A q \in Runs \ {r} : /\ phase'[q] = phase[q] /\ active'[q] = active[q]
                              /\ known'[q] = known[q]
    BY <1>5, <2>1 DEF ListForWait, List
  <2>3. p = r
    BY <2>2 DEF Clear
  <2>4. phase'[p] = "listed" /\ active'[p] = {}
    BY <1>5, <2>3 DEF ListForWait, Clear
  <2>5. known'[p] = found /\ active'[p] = {q \in found : Holds(q)}
    BY <2>1, <2>3 DEF List
  <2> QED BY <2>2, <2>3, <2>4, <2>5
<1> HIDE DEF TypeOK, Become
<1> QED BY <1>1, <1>2, <1>3, <1>4, <1>5 DEF Next, Poll

\* A run that was clear and is so again has not listed for its wait meanwhile.
LEMMA StaysKnown ==
  ASSUME TypeOK, [Next]_vars, NEW p \in Runs, Clear(p)
  PROVE  known'[p] = known[p]
<1>1. ASSUME NEW r \in Runs, ListForWait(r) PROVE known'[p] = known[p]
  BY <1>1 DEF ListForWait, TypeOK, Clear
<1> QED BY <1>1 DEF Next, vars, Poll, Create, Admit, Arrive, Proceed, Busy, Fail, Stop, End,
                    Upload, Detach, ListForCleanup, CleanupFails, DeleteSecret

LEMMA ClearStep == IInv /\ [Next]_vars => OneClear'
<1> SUFFICES ASSUME IInv, [Next]_vars, NEW p \in Runs \ Forced, NEW q \in Runs \ Forced,
                    p # q, Mutual(p, q)', Clear(p)', Clear(q)'
             PROVE  FALSE
  BY DEF OneClear
<1>1. CASE ~Clear(p)
  <2>1. ~Holds(q) /\ phase'[q] = phase[q] /\ active'[q] = active[q]
    BY <1>1, BecomesClear DEF IInv, Mutual
  <2> QED BY <2>1, ClearHolds DEF Clear
<1>2. CASE ~Clear(q)
  <2>1. ~Holds(p) /\ phase'[p] = phase[p] /\ active'[p] = active[p]
    BY <1>2, BecomesClear DEF IInv, Mutual
  <2> QED BY <2>1, ClearHolds DEF Clear
<1>3. CASE Clear(p) /\ Clear(q)
  <2>1. Mutual(p, q)
    BY <1>3, StaysKnown DEF IInv, Mutual
  <2> QED BY <1>3, <2>1 DEF IInv, OneClear
<1> QED BY <1>1, <1>2, <1>3

\* Two runs are on a cluster together only if one is forced, or was stopped, or
\* proceeded on a listing that could not recognise the other: for every number
\* of runs, however their listings interleave, whatever cannot be read and
\* whichever Secrets the command lines upload and delete meanwhile.
THEOREM OneAtATime == Spec => []OneRunPerCluster
<1>1. IInv /\ [Next]_vars => IInv'
  BY TypeStep, CliStep, ClearStep DEF IInv
<1>2. IInv => OneRunPerCluster
  BY DEF IInv, OneClear, Mutual, Clear, OnCluster, OneRunPerCluster
<1> QED BY InitIInv, <1>1, <1>2, PTL DEF Spec
-----------------------------------------------------------------------------
(* Why a wait for a cluster ends.                                          *)

\* The steps a PipelineRun has ahead at most; each poll of its wait that finds
\* the cluster busy takes two, the listing and what follows from it.
StepsLeft(p) ==
  CASE phase[p] = "none"     -> 2 * MaxPolls + 6
    [] phase[p] = "pending"  -> 2 * MaxPolls + 5
    [] phase[p] = "started"  -> 2 * MaxPolls + 4
    [] phase[p] = "waiting"  -> 2 * (MaxPolls - polls[p]) + 3
    [] phase[p] = "listed"   -> 2 * (MaxPolls - polls[p]) + 2
    [] phase[p] \in {"using", "failed"} -> 2
    [] phase[p] = "stopping" -> 1
    [] OTHER                 -> 0

\* Neither other runs nor a command line give a run a step back, and each of
\* the polling task's own lowers its count.
CountsDown ==
  \A p \in Runs : StepsLeft(p)' <= StepsLeft(p) /\ (Poll(p) => StepsLeft(p)' < StepsLeft(p))

LEMMA StepsLeftBounded ==
  ASSUME TypeOK, NEW p \in Runs
  PROVE  StepsLeft(p) \in 0 .. 2 * MaxPolls + 6
BY ClusterAssumption DEF TypeOK, Phases, StepsLeft

\* A run that changes its phase has fewer steps ahead.
LEMMA PhaseLowers ==
  ASSUME TypeOK, TypeOK', NEW p \in Runs,
         Create(p) \/ Admit(p) \/ Arrive(p) \/ Poll(p) \/ Fail(p) \/ Stop(p) \/ End(p)
  PROVE  /\ StepsLeft(p)' \in Int /\ StepsLeft(p)' < StepsLeft(p)
         /\ \A q \in Runs : q # p => StepsLeft(q)' = StepsLeft(q)
<1> USE ClusterAssumption DEF TypeOK, Become, StepsLeft
<1>1. CASE Create(p) \/ Admit(p) \/ Fail(p) \/ Stop(p)
  BY <1>1 DEF Create, Admit, Fail, Stop, Phases
<1>2. CASE Arrive(p)
  BY <1>2 DEF Arrive, Phases
<1>3. CASE End(p)
  BY <1>3 DEF End, Phases
<1>4. CASE ListForWait(p) \/ Proceed(p)
  BY <1>4 DEF ListForWait, Proceed, Phases
<1>5. CASE Busy(p)
  <2>1. \A q \in Runs : q # p => phase'[q] = phase[q] /\ polls'[q] = polls[q]
    BY <1>5 DEF Busy
  <2>2. CASE phase' = [phase EXCEPT ![p] = "failed"]
    BY <1>5, <2>1, <2>2 DEF Busy, Phases
  <2>3. CASE phase' = [phase EXCEPT ![p] = "waiting"] /\ polls' = [polls EXCEPT ![p] = @ + 1]
    <3>1. phase[p] = "listed" /\ phase'[p] = "waiting" /\ polls'[p] = polls[p] + 1
      BY <1>5, <2>3 DEF Busy
    <3>2. polls[p] \in Nat /\ MaxPolls \in Nat
      OBVIOUS
    <3>3. StepsLeft(p) = 2 * (MaxPolls - polls[p]) + 2
      BY <3>1
    <3>4. StepsLeft(p)' = 2 * (MaxPolls - (polls[p] + 1)) + 3
      BY <3>1
    <3>5. StepsLeft(p)' \in Int /\ StepsLeft(p)' < StepsLeft(p)
      BY <3>2, <3>3, <3>4
    <3> QED BY <2>1, <3>5
  <2> QED BY <1>5, <2>2, <2>3 DEF Busy
<1> QED BY <1>1, <1>2, <1>3, <1>4, <1>5 DEF Poll

\* The safety half of EveryWaitEnds: a wait takes at most two steps for each of
\* its polls, however long other runs keep the cluster and however many of
\* them arrive meanwhile.
THEOREM StepsRunOut ==
  Spec => [](\A p \in Runs : StepsLeft(p) \in 0 .. 2 * MaxPolls + 6) /\ [][CountsDown]_vars
<1>1. Init => TypeOK
  BY InitIInv DEF IInv
<1>2. TypeOK => \A p \in Runs : StepsLeft(p) \in 0 .. 2 * MaxPolls + 6
  BY StepsLeftBounded
<1>3. TypeOK /\ TypeOK' /\ [Next]_vars => [CountsDown]_vars
  <2> SUFFICES ASSUME TypeOK, TypeOK', Next, NEW p \in Runs
               PROVE  /\ StepsLeft(p)' <= StepsLeft(p)
                      /\ Poll(p) => StepsLeft(p)' < StepsLeft(p)
    BY DEF CountsDown
  <2>1. StepsLeft(p) \in Int
    BY StepsLeftBounded, ClusterAssumption
  <2>2. Poll(p) => StepsLeft(p)' < StepsLeft(p)
    BY PhaseLowers
  <2>3. PICK q \in Runs :
          \/ Create(q) \/ Admit(q) \/ Arrive(q) \/ Poll(q) \/ Fail(q) \/ Stop(q) \/ End(q)
          \/ Upload(q) \/ Detach(q) \/ ListForCleanup(q) \/ CleanupFails(q) \/ DeleteSecret(q)
    BY DEF Next
  <2>4. UNCHANGED <<phase, polls>> => StepsLeft(p)' = StepsLeft(p)
    BY DEF StepsLeft
  <2>5. CASE Create(q) \/ Admit(q) \/ Arrive(q) \/ Poll(q) \/ Fail(q) \/ Stop(q) \/ End(q)
    BY <2>1, <2>5, PhaseLowers
  <2>6. StepsLeft(p)' <= StepsLeft(p)
    BY <2>1, <2>3, <2>4, <2>5 DEF Upload, Detach, ListForCleanup, CleanupFails, DeleteSecret
  <2> QED BY <2>2, <2>6
<1> QED BY <1>1, <1>2, <1>3, TypeStep, PTL DEF Spec

=============================================================================
