-------------------------- MODULE DscBaselineProofs --------------------------
(* For every chain of components, every map of their keys and every order  *)
(* of failures: the types, and that a component's tests and its verdict do *)
(* not inherit what another component left on the cluster.                 *)
EXTENDS DscBaseline, TLAPS

Pcs == {"probe", "gateway", "enable", "begin", "refresh", "prepare", "reconcile",
        "gate", "testing", "tested", "skipped", "done"}

\* The component in turn is one of the selected ones.
LEMMA CurrentSelected == TypeOK => Current \in Selected
BY ChainAssumption DEF TypeOK, Current, Selected

\* Enabling and disabling keys gives a state of the resource again, and changes
\* no key but those named.
LEMMA PatchFacts ==
  ASSUME NEW s \in [Keys -> States], NEW K
  PROVE  /\ Enable(s, K) \in [Keys -> States] /\ Disable(s, K) \in [Keys -> States]
         /\ \A k \in Keys : k \notin K => Enable(s, K)[k] = s[k] /\ Disable(s, K)[k] = s[k]
BY DEF Enable, Disable, States

\* What the components want, and what is stale for them, are keys.
LEMMA KeyFacts == /\ Wanted \subseteq Keys /\ StaleKeys \subseteq Keys
                  /\ \A c \in Selected : Owns[c] \subseteq Keys /\ AIGateway \notin Owns[c]
<1>1. \A c \in Selected : Owns[c] \subseteq Keys
  BY ComponentAssumption
<1>2. \A c \in Selected : Owns[c] \subseteq Wanted
  BY DEF Wanted
<1>3. Wanted \subseteq Keys
  BY <1>1 DEF Wanted
<1> QED BY <1>1, <1>2, <1>3, KeyAssumption DEF StaleKeys

\* The gateway's key and the keys a task may patch are keys.
LEMMA OwnKeyFacts ==
  ASSUME TypeOK
  PROVE  GatewayKeys \subseteq Keys /\ OwnKeys(Current) \subseteq Keys
BY CurrentSelected, KeyFacts, KeyAssumption DEF GatewayKeys, OwnKeys

\* A fault more, or as many as before, stays within the bound.
LEMMA FaultFacts == \A n \in 0..Enough : AddFault(n) \in 0..Enough /\ AddFault(n) > 0
BY DEF AddFault, Enough

\* A step of any task keeps the types.
LEMMA TypeStep == TypeOK /\ [Next]_vars => TypeOK'
<1> SUFFICES ASSUME TypeOK, [Next]_vars PROVE TypeOK'
  OBVIOUS
<1> USE CurrentSelected, KeyFacts, OwnKeyFacts, FaultFacts, KeyAssumption, ChainAssumption
<1>1. CASE SkipPreparation
  BY <1>1 DEF SkipPreparation, TaskVars, TypeOK
<1>2. CASE ProbeSucceeds
  BY <1>2 DEF ProbeSucceeds, TaskVars, TypeOK
<1>3. CASE PrepareGateway
  <2>1. dsc' \in [Keys -> States]
    BY <1>3, PatchFacts DEF PrepareGateway, TypeOK
  <2> QED BY <1>3, <2>1 DEF PrepareGateway, TaskVars, TypeOK
<1>4. CASE PrepareComponents
  <2>1. dsc' \in [Keys -> States]
    BY <1>4, PatchFacts DEF PrepareComponents, TypeOK
  <2> QED BY <1>4, <2>1 DEF PrepareComponents, TaskVars, TypeOK
<1>5. CASE PreparationDies
  <2>1. dsc' \in [Keys -> States]
    <3>1. PICK patched, gateway, removed : dsc' = Disable(Enable(dsc, patched \union gateway), removed)
      BY <1>5 DEF PreparationDies
    <3>2. Enable(dsc, patched \union gateway) \in [Keys -> States]
      BY PatchFacts DEF TypeOK
    <3> QED BY <3>1, <3>2, PatchFacts
  <2> QED BY <1>5, <2>1 DEF PreparationDies, TaskVars, TypeOK
<1>6. CASE Begin
  BY <1>6 DEF Begin, GivesUp, TypeOK
<1>7. CASE RefreshMaas
  <2>1. dsc' \in [Keys -> States]
    BY <1>7, PatchFacts DEF RefreshMaas, TypeOK
  <2> QED BY <1>7, <2>1 DEF RefreshMaas, GivesUp, TypeOK
<1>8. CASE PrepareOwn
  <2>1. dsc' \in [Keys -> States]
    <3>1. PICK patched, removed : dsc' = Enable(Disable(dsc, removed), patched)
      BY <1>8 DEF PrepareOwn
    <3>2. Disable(dsc, removed) \in [Keys -> States]
      BY PatchFacts DEF TypeOK
    <3> QED BY <3>1, <3>2, PatchFacts
  <2>2. touched' \subseteq Keys
    BY <1>8 DEF PrepareOwn, TypeOK
  <2> QED BY <1>8, <2>1, <2>2 DEF PrepareOwn, TypeOK
<1>9. CASE Reconcile
  <2>1. dsc' \in [Keys -> States]
    BY <1>9 DEF Reconcile, Restore, RestoresBefore, DriftForRestore, Drifted, StaleReads, TypeOK
  <2>2. faults' \in 0..Enough
    BY <1>9 DEF Reconcile, TypeOK
  <2> QED BY <1>9, <2>1, <2>2 DEF Reconcile, TypeOK
<1>10. CASE Gate
  BY <1>10 DEF Gate, GivesUp, TypeOK
<1>11. CASE Test
  <2>1. \A k \in Keys : (CHOOSE s \in States : s # dsc[k]) \in States
    BY DEF States
  <2>2. dsc' \in [Keys -> States]
    BY <1>11, <2>1 DEF Test, TypeOK
  <2> QED BY <1>11, <2>2 DEF Test, TypeOK
<1>12. CASE RunnerDies
  BY <1>12 DEF RunnerDies, GivesUp, TypeOK
<1>13. CASE Finalize
  <2>1. dsc' \in [Keys -> States]
    BY <1>13 DEF Finalize, Restore, RestoresAfter, Drifted, StaleReads, TypeOK
  <2>2. blamed' \in [Selected -> SUBSET Keys]
    BY <1>13 DEF Finalize, Attributable, TypeOK
  <2>3. at' \in 1..Len(Chain) /\ pc' \in Pcs /\ touched' = {} /\ faults' \in 0..Enough
    <3>1. NextTask(0) \/ NextTask(1)
      BY <1>13 DEF Finalize
    <3> QED BY <3>1 DEF NextTask, Enough, Pcs, TypeOK
  <2> QED BY <1>13, <2>1, <2>2, <2>3 DEF Finalize, Pcs, TypeOK
<1>14. CASE TaskTimesOut
  <2>1. at' \in 1..Len(Chain) /\ pc' \in Pcs /\ touched' = {} /\ faults' \in 0..Enough
    BY <1>14 DEF TaskTimesOut, NextTask, Enough, Pcs, TypeOK
  <2> QED BY <1>14, <2>1 DEF TaskTimesOut, Pcs, TypeOK
<1>15. CASE UNCHANGED vars
  BY <1>15 DEF vars, TypeOK, Current
<1> QED
  BY <1>1, <1>2, <1>3, <1>4, <1>5, <1>6, <1>7, <1>8, <1>9, <1>10, <1>11, <1>12, <1>13,
     <1>14, <1>15 DEF Next

\* In every reachable state the variables have their types.
THEOREM TypeCorrect == Spec => []TypeOK
<1>1. Init => TypeOK
  <2>1. Len(Chain) \in Nat /\ 1 \in 1..Len(Chain)
    BY ChainAssumption
  <2> SUFFICES ASSUME Init PROVE TypeOK
    OBVIOUS
  <2>2. blamed \in [Selected -> SUBSET Keys]
    BY DEF Init
  <2>3. faults \in 0..Enough /\ at \in 1..Len(Chain)
    BY <2>1 DEF Init, Enough
  <2> QED BY <2>2, <2>3 DEF Init, TypeOK
<1> QED BY <1>1, TypeStep, PTL DEF Spec

-----------------------------------------------------------------------------
(* No inherited drift.                                                     *)

\* There is no baseline before the preparation is over; then a task that follows
\* a faultless hygiene finds on the cluster nothing but the baseline and what it
\* writes itself, and its own comparison makes up for one fault.
HygieneInv ==
  /\ pc \in {"probe", "gateway", "enable"} => baseline = None /\ faults = 0
  /\ baseline # None =>
       /\ pc \in {"begin", "refresh", "prepare", "reconcile"} /\ faults = 0 => Drift \subseteq touched
       /\ pc = "gate" /\ faults <= 1 => Drift \subseteq touched \union Exempt(Current)
       /\ pc \in {"testing", "tested"} /\ faults <= Tolerated(Current) =>
            Drift \subseteq touched \union Exempt(Current)

\* The comparison before the tests leaves no drift but the exempted key, unless it
\* or its patch failed.
LEMMA ReconcileRepairs ==
  ASSUME TypeOK, Reconcile, baseline # None
  PROVE  \/ Drift' \subseteq Exempt(Current)
         \/ /\ faults' = AddFault(faults)
            /\ Drift' \subseteq Drift
<1> USE DEF Reconcile
<1>1. CASE UNCHANGED dsc /\ faults' = AddFault(faults)
  BY <1>1 DEF Drift
<1>2. ASSUME NEW readable \in BOOLEAN, NEW patched \in BOOLEAN, NEW stale \in StaleReads,
             Restore(RestoresBefore(Current, Drifted(readable), stale), patched),
             faults' = IF readable /\ (RestoresBefore(Current, Drifted(readable), stale) => patched)
                       THEN faults ELSE AddFault(faults)
      PROVE \/ Drift' \subseteq Exempt(Current)
            \/ faults' = AddFault(faults) /\ Drift' \subseteq Drift
  <2> DEFINE restores == RestoresBefore(Current, Drifted(readable), stale)
  <2>1. CASE restores /\ patched
    BY <1>2, <2>1 DEF Restore, Drift
  <2>2. CASE ~(restores /\ patched)
    <3>1. dsc' = dsc /\ Drift' = Drift
      BY <1>2, <2>2 DEF Restore, Drift
    <3>2. CASE readable /\ ~restores
      BY <3>1, <3>2 DEF Drifted, RestoresBefore, DriftForRestore, Exempt
    <3>3. CASE ~(readable /\ ~restores)
      BY <1>2, <2>2, <3>1, <3>3
    <3> QED BY <3>2, <3>3
  <2> QED BY <2>1, <2>2
<1> QED BY <1>1, <1>2

\* A hygiene without fault at the end of a task leaves no drift.
LEMMA FinalizeRepairs ==
  ASSUME TypeOK, Finalize, baseline # None, faults' = 0
  PROVE  Drift' = {}
<1>1. PICK readable \in BOOLEAN, patched \in BOOLEAN, stale \in StaleReads :
        /\ Restore(RestoresAfter(Drifted(readable), stale), patched)
        /\ readable /\ (RestoresAfter(Drifted(readable), stale) => patched)
  BY DEF Finalize, NextTask
<1>2. CASE RestoresAfter(Drifted(readable), stale)
  BY <1>1, <1>2 DEF Restore, Drift, Finalize
<1>3. CASE ~RestoresAfter(Drifted(readable), stale)
  BY <1>1, <1>3 DEF Restore, RestoresAfter, Drifted, Drift, Finalize
<1> QED BY <1>2, <1>3

\* Every step keeps it.
LEMMA HygieneStep == TypeOK /\ HygieneInv /\ [Next]_vars => HygieneInv'
<1> SUFFICES ASSUME TypeOK, HygieneInv, [Next]_vars PROVE HygieneInv'
  OBVIOUS
<1>a. faults \in 0..2
  BY DEF TypeOK, Enough
<1>b. AddFault(faults) > 0 /\ AddFault(faults) >= faults /\ (AddFault(faults) <= 1 => faults = 0)
  BY <1>a DEF AddFault, Enough
<1>c. Tolerated(Current) \in {0, 1}
  BY DEF Tolerated
<1>1. CASE SkipPreparation \/ ProbeSucceeds \/ PrepareGateway \/ PreparationDies
  BY <1>1 DEF SkipPreparation, ProbeSucceeds, PrepareGateway, PreparationDies, TaskVars, HygieneInv
<1>2. CASE PrepareComponents
  <2>1. baseline' # None => Drift' = {}
    BY <1>2 DEF PrepareComponents, Drift
  <2> QED BY <1>2, <2>1 DEF PrepareComponents, TaskVars, HygieneInv
<1>3. CASE Begin
  <2>1. Drift' = Drift /\ baseline' = baseline /\ touched' = touched /\ Current' = Current
    BY <1>3 DEF Begin, Drift, Current
  <2>2. \/ pc' = "skipped"
        \/ pc' \in {"refresh", "prepare"} /\ faults' = faults
        \/ pc' = "testing" /\ faults' = faults /\ ~Hygienic(Current)
    BY <1>3, ComponentAssumption DEF Begin, GivesUp, Hygienic
  <2>3. Drift = Drift' /\ Tolerated(Current)' = Tolerated(Current)
    BY <2>1 DEF Tolerated, Hygienic
  <2>4. baseline # None /\ faults = 0 => Drift \subseteq touched
    BY <1>3 DEF Begin, HygieneInv
  <2>5. pc' = "testing" /\ faults' <= Tolerated(Current) => faults = 0
    BY <1>a, <2>2 DEF Tolerated
  <2> QED BY <2>1, <2>2, <2>3, <2>4, <2>5 DEF HygieneInv
<1>4. CASE RefreshMaas
  <2>1. PICK K : touched' = touched \union K /\ dsc' = Enable(dsc, K)
    BY <1>4 DEF RefreshMaas
  <2>2. \A k \in Keys : k \notin K => dsc'[k] = dsc[k]
    BY <2>1, PatchFacts DEF TypeOK
  <2>3. Drift \subseteq touched => Drift' \subseteq touched'
    BY <1>4, <2>1, <2>2 DEF RefreshMaas, Drift
  <2> QED BY <1>4, <2>3 DEF RefreshMaas, GivesUp, HygieneInv
<1>5. CASE PrepareOwn
  <2>1. PICK patched, removed : /\ touched' = touched \union patched \union removed
                                /\ dsc' = Enable(Disable(dsc, removed), patched)
    BY <1>5 DEF PrepareOwn
  <2>2. \A k \in Keys : k \notin patched \union removed => dsc'[k] = dsc[k]
    BY <2>1, PatchFacts DEF TypeOK
  <2>3. Drift \subseteq touched => Drift' \subseteq touched'
    BY <1>5, <2>1, <2>2 DEF PrepareOwn, Drift
  <2> QED BY <1>5, <2>3 DEF PrepareOwn, HygieneInv
<1>6. CASE Reconcile
  <2>1. /\ baseline' = baseline /\ touched' = touched /\ Current' = Current
        /\ pc = "reconcile" /\ pc' = "gate"
    BY <1>6 DEF Reconcile, Current
  <2>2. ASSUME baseline # None, faults' <= 1 PROVE Drift' \subseteq touched \union Exempt(Current)
    BY <1>6, <1>b, <2>1, <2>2, ReconcileRepairs DEF HygieneInv
  <2> QED BY <2>1, <2>2 DEF HygieneInv, Exempt
<1>7. CASE Gate
  <2>1. /\ Drift' = Drift /\ baseline' = baseline /\ touched' = touched /\ Current' = Current
        /\ pc = "gate" /\ pc' \in {"skipped", "testing"} /\ faults <= faults'
    BY <1>7, <1>a, <1>b DEF Gate, GivesUp, Drift, Current
  <2>2. faults' \in Nat
    BY <1>7, FaultFacts DEF Gate, TypeOK, Enough
  <2> QED BY <1>a, <1>c, <2>1, <2>2 DEF HygieneInv, Tolerated, Exempt, Hygienic
<1>8. CASE Test
  <2>1. PICK changed \in SUBSET Keys : /\ touched' = touched \union changed
                                       /\ \A k \in Keys : k \notin changed => dsc'[k] = dsc[k]
    BY <1>8 DEF Test
  <2>2. Drift \subseteq touched \union Exempt(Current) => Drift' \subseteq touched' \union Exempt(Current)
    BY <1>8, <2>1 DEF Test, Drift
  <2> QED BY <1>8, <2>2 DEF Test, HygieneInv, Tolerated, Exempt, Hygienic, Current
<1>9. CASE RunnerDies
  BY <1>9 DEF RunnerDies, GivesUp, HygieneInv
<1>10. CASE Finalize
  <2>1. baseline' = baseline /\ pc' \in {"begin", "done"}
    BY <1>10 DEF Finalize, NextTask
  <2>2. baseline # None /\ faults' = 0 => Drift' = {}
    BY <1>10, FinalizeRepairs
  <2> QED BY <2>1, <2>2 DEF HygieneInv
<1>11. CASE TaskTimesOut
  BY <1>11 DEF TaskTimesOut, NextTask, HygieneInv
<1>12. CASE UNCHANGED vars
  BY <1>12 DEF vars, HygieneInv, Drift, Exempt, Tolerated, Hygienic, Current
<1> QED BY <1>1, <1>2, <1>3, <1>4, <1>5, <1>6, <1>7, <1>8, <1>9, <1>10, <1>11, <1>12 DEF Next

\* Both invariants together.
LEMMA Hygiene == Spec => [](TypeOK /\ HygieneInv)
<1>1. Init => HygieneInv
  BY DEF Init, HygieneInv
<1> QED BY <1>1, TypeCorrect, HygieneStep, PTL DEF Spec

\* A component's tests start from the baseline, but for what their own task has
\* written: the hygiene of two tasks in a row has to fail for less.
THEOREM NothingInherited == Spec => []NoInheritedDrift
<1>1. HygieneInv => NoInheritedDrift
  BY DEF HygieneInv, NoInheritedDrift
<1> QED BY <1>1, Hygiene, PTL

\* A component is failed only for keys that its own task has written.
THEOREM BlameIsFair == Spec => BlamedForOwnDrift
<1> DEFINE Fair == pc = "tested" /\ faults <= Tolerated(Current) =>
                     blamed'[Current] \subseteq touched \union blamed[Current]
<1>1. TypeOK /\ HygieneInv /\ [Next]_vars => [Fair]_vars
  <2> SUFFICES ASSUME TypeOK, HygieneInv, Next, pc = "tested", faults <= Tolerated(Current)
               PROVE  blamed'[Current] \subseteq touched \union blamed[Current]
    OBVIOUS
  <2>1. Finalize \/ blamed' = blamed
    BY DEF Next, SkipPreparation, ProbeSucceeds, PrepareGateway, PrepareComponents, PreparationDies,
       Begin, RefreshMaas, PrepareOwn, Reconcile, Gate, Test, RunnerDies, TaskTimesOut
  <2>2. CASE Finalize /\ blamed' # blamed
    <3>1. PICK readable \in BOOLEAN :
            blamed' = [blamed EXCEPT ![Current] = Attributable(Current, Drifted(readable))]
      BY <2>2 DEF Finalize
    <3>2. blamed'[Current] = Attributable(Current, Drifted(readable))
      BY <3>1, CurrentSelected DEF TypeOK
    <3>3. Drifted(readable) \subseteq touched \union Exempt(Current)
      BY DEF HygieneInv, Drifted
    <3> QED BY <3>2, <3>3, KeyFacts, CurrentSelected DEF Attributable, Exempt
  <2> QED BY <2>1, <2>2
<1> QED BY <1>1, Hygiene, PTL DEF Spec, BlamedForOwnDrift
=============================================================================
