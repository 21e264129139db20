---------------------------- MODULE DscBaseline ----------------------------
(* The chain of component test tasks on one cluster and the single         *)
(* DataScienceCluster resource (DSC) they share: its preparation for the   *)
(* selected components, the baseline captured from it, and the hygiene     *)
(* with which every task puts it back.                                     *)
(*                                                                         *)
(* One step per command that may fail on its own: an `oc` read that fails  *)
(* is read as an empty answer, a patch that fails leaves the resource, and *)
(* an `oc` call that times out ends the step it is in (dsc_install.fail    *)
(* raises SystemExit, which no `except Exception` holds).  A definition named *)
(* Wrong... is a mistake the code could contain.                           *)
EXTENDS Naturals, Sequences

CONSTANTS
  Chain,        \* the selected components, in the order of their tasks
  Keys,         \* the keys of the DSC's spec.components
  Owns,         \* Owns[c]: the keys the install policy maps c to
  Pytest,       \* the components the pytest runner runs; the golang one runs the rest
  Maas,         \* the components that need models-as-a-service
  Billing,      \* the one of them that enables it again in its own task
  AIGateway,    \* the key that holds modelsAsAService
  Ogx,          \* the component whose preparation removes the retired key
  OgxKey,       \* the key it owns, which goes when no component wants it
  Deferred,     \* the keys the installation of this version leaves Removed
  Retired,      \* the key every preparation sets Removed (llamastackoperator)
  FailFast,     \* FAIL_FAST_DISABLED_COMPONENT
  None

States == {"Managed", "Removed"}
Selected == {Chain[i] : i \in 1..Len(Chain)}
Wanted == UNION {Owns[c] : c \in Selected}

\* stale_removed_dsc_keys_for_smoke
StaleKeys == ((Deferred \union {OgxKey}) \ Wanted) \union {Retired}

ASSUME ChainAssumption == Chain \in Seq(Selected) /\ Len(Chain) > 0
ASSUME ComponentAssumption ==
  /\ Owns \in [Selected -> SUBSET Keys]
  /\ Pytest \subseteq Selected /\ Maas \subseteq Pytest
ASSUME KeyAssumption ==
  /\ {AIGateway, Retired, OgxKey} \subseteq Keys /\ Deferred \subseteq Keys
  /\ AIGateway \notin Wanted \union StaleKeys
ASSUME FlagAssumption == FailFast \in BOOLEAN
ASSUME NoneAssumption == None \notin [Keys -> States]

VARIABLES
  dsc,        \* managementState of every key on the cluster
  baseline,   \* .dsc-baseline.json: None, or the states it holds
  markers,    \* the marker files of this pipeline run
  at,         \* the task in turn, an index of Chain
  pc,         \* the next step of that task
  touched,    \* the keys this task has written, in its steps or its tests
  faults,     \* failed hygiene steps since the last tests, at most Enough
  blamed      \* .dsc-drift-<component>.json: the keys a component failed for

vars == <<dsc, baseline, markers, at, pc, touched, faults, blamed>>

\* A bound: no property tells two failures from more.
Enough == 2
AddFault(n) == IF n < Enough THEN n + 1 ELSE n

Current == Chain[at]

-----------------------------------------------------------------------------
(* What the hygiene reads.                                                 *)

\* The keys whose state differs from the baseline.
Drift == {k \in Keys : dsc[k] # baseline[k]}

\* check_dsc_drift: it reports none when either side could not be read.
Drifted(readable) == IF baseline = None \/ ~readable THEN {} ELSE Drift

\* check_baseline_managed_ready_stale: any of the keys the baseline manages may
\* have a Ready condition that is not True, or that cannot be read.
StaleReads ==
  IF baseline = None THEN {{}}
  ELSE SUBSET {k \in Keys \ {AIGateway} : baseline[k] = "Managed"}

\* filter_drifts_for_component
WrongAttributable(c, drift) == drift
Attributable(c, drift) == drift \intersect Owns[c]

\* _baseline_drifts_for_restore
DriftForRestore(c, drift) ==
  IF c \in Maas /\ dsc[AIGateway] = "Managed" THEN drift \ {AIGateway} ELSE drift

\* reconcile_baseline_dsc_before_component: whether it patches the baseline back.
RestoresBefore(c, drift, stale) ==
  \/ DriftForRestore(c, drift) # {}
  \/ drift = {} /\ stale # {}

WrongRestoresAfter(drift, stale) == Attributable(Current, drift) # {} \/ stale # {}
RestoresAfter(drift, stale) == drift # {} \/ stale # {}

\* restore_dsc_from_baseline: the merge patch carries the whole baseline, if there
\* is one.
WrongRestore(restores, patched) == dsc' = IF restores /\ patched THEN baseline ELSE dsc
Restore(restores, patched) ==
  dsc' = IF restores /\ patched /\ baseline # None THEN baseline ELSE dsc

Enable(s, on) == [k \in Keys |-> IF k \in on THEN "Managed" ELSE s[k]]
Disable(s, off) == [k \in Keys |-> IF k \in off THEN "Removed" ELSE s[k]]

-----------------------------------------------------------------------------
(* The preparation of the cluster for all the components.                  *)

Init ==
  /\ dsc \in [Keys -> States] /\ \A k \in Deferred : dsc[k] = "Removed"
  /\ baseline = None /\ markers = {}
  /\ at = 1 /\ pc = "probe"
  /\ touched = {} /\ faults = 0
  /\ blamed = [c \in Selected |-> {}]

TaskVars == <<at, touched, faults, blamed>>

\* The probe for the DSC's type finds none, or fails: the preparation is left to
\* a later step, returns success, and is marked done.
SkipPreparation ==
  /\ pc = "probe"
  /\ markers' = markers \union {"prep"}
  /\ pc' = "begin"
  /\ UNCHANGED <<dsc, baseline, TaskVars>>

ProbeSucceeds ==
  /\ pc = "probe"
  /\ pc' = IF Maas = {} THEN "enable" ELSE "gateway"
  /\ UNCHANGED <<dsc, baseline, markers, TaskVars>>

\* try_prepare_maas_smoke enables modelsAsAService and then marks it done, and marks
\* it also when it does not find the resource; an error before or after either of
\* them is marked as a failure.
PrepareGateway ==
  /\ pc = "gateway"
  /\ \E enabled, marked, failed \in BOOLEAN :
       /\ enabled /\ ~marked => failed
       /\ dsc' = Enable(dsc, IF enabled THEN {AIGateway} ELSE {})
       /\ markers' = markers \union (IF marked THEN {"mas"} ELSE {})
                              \union (IF failed THEN {"https-failed"} ELSE {})
  /\ pc' = "enable"
  /\ UNCHANGED <<baseline, TaskVars>>

\* The keys the per-component loop may patch besides: the MaaS preparation is
\* tried again for each component that needs it, unless it is marked failed.
GatewayKeys == IF Maas = {} \/ "https-failed" \in markers THEN {} ELSE {AIGateway}

\* The wanted keys are patched in one batch, then component by component where
\* the batch failed; keys that are stale for this selection are removed, before
\* and after.  The baseline is captured however much of that succeeded; the
\* marker is written only when every component's preparation did.  A batch that
\* does not find the resource patches nothing and counts as applied.
PrepareComponents ==
  /\ pc = "enable"
  /\ \E patched \in SUBSET Wanted, gateway \in SUBSET GatewayKeys,
        removed \in SUBSET StaleKeys, ok, marked \in BOOLEAN :
       /\ ok => patched \in {Wanted, {}} /\ "https-failed" \notin markers
       /\ marked => GatewayKeys # {}
       /\ dsc' = Disable(Enable(dsc, patched \union gateway), removed)
       /\ baseline' \in {dsc', None}
       /\ markers' = markers \union (IF ok THEN {"prep"} ELSE {})
                              \union (IF marked THEN {"mas"} ELSE {})
  /\ pc' = "begin"
  /\ UNCHANGED TaskVars

\* A call times out and the preparation step ends where it is.
PreparationDies ==
  /\ pc \in {"probe", "gateway", "enable"}
  /\ \E patched \in SUBSET (IF pc = "enable" THEN Wanted ELSE {}),
        gateway \in SUBSET (IF pc = "probe" THEN {} ELSE GatewayKeys),
        removed \in SUBSET (IF pc = "enable" THEN StaleKeys ELSE {}) :
       dsc' = Disable(Enable(dsc, patched \union gateway), removed)
  /\ pc' = "begin"
  /\ UNCHANGED <<baseline, markers, TaskVars>>

-----------------------------------------------------------------------------
(* One component's task.                                                   *)

\* The runner compares the DSC with the baseline before its tests.
Hygienic(c) == c \in Pytest \/ FailFast

\* The runner of a component is over without having run its tests.
GivesUp == pc' = "skipped"

\* cluster_smoke_infra_blocked_reason at the start.  The golang runner prepares and
\* reconciles only under FAIL_FAST_DISABLED_COMPONENT.
Begin ==
  /\ pc = "begin"
  /\ \/ /\ GivesUp
        /\ faults' = AddFault(faults)
     \/ /\ pc' = CASE Current \in Maas -> "refresh"
                   [] Current \notin Maas /\ Hygienic(Current) -> "prepare"
                   [] OTHER -> "testing"
        /\ UNCHANGED faults
  /\ UNCHANGED <<dsc, baseline, markers, at, touched, blamed>>

\* refresh_maas_smoke_before_pytest: unless that is marked done, it enables
\* modelsAsAService and marks it; a definite failure ends the runner, another one
\* does not.
RefreshMaas ==
  /\ pc = "refresh"
  /\ \E enabled, marked, goesOn \in BOOLEAN :
       /\ enabled \/ marked => {"https-failed", "mas"} \intersect markers = {}
       /\ goesOn => "https-failed" \notin markers
       /\ dsc' = Enable(dsc, IF enabled THEN {AIGateway} ELSE {})
       /\ touched' = touched \union (IF enabled THEN {AIGateway} ELSE {})
       /\ markers' = markers \union (IF marked THEN {"mas"} ELSE {})
       /\ IF goesOn THEN pc' = "prepare" ELSE GivesUp
  /\ UNCHANGED <<baseline, at, faults, blamed>>

\* The keys this task may patch in prepare_component_for_smoke: after the cluster's
\* preparation only those of a component that needs models-as-a-service.
OwnKeys(c) ==
  IF "prep" \in markers
  THEN (IF c \in Maas THEN Owns[c] ELSE {}) \union (IF c = Billing THEN {AIGateway} ELSE {})
  ELSE Owns[c] \union (IF c \in Maas THEN GatewayKeys ELSE {})

\* prepare_component_for_smoke: it warns and goes on whatever failed.  The
\* component ogx removes the retired key first.
PrepareOwn ==
  /\ pc = "prepare"
  /\ \E patched \in SUBSET OwnKeys(Current), marked \in BOOLEAN,
        removed \in SUBSET (IF "prep" \in markers \/ Current # Ogx THEN {} ELSE {Retired}) :
       /\ marked => "prep" \notin markers /\ Current \in Maas /\ GatewayKeys # {}
       /\ dsc' = Enable(Disable(dsc, removed), patched)
       /\ touched' = touched \union patched \union removed
       /\ markers' = markers \union (IF marked THEN {"mas"} ELSE {})
  /\ pc' = "reconcile"
  /\ UNCHANGED <<baseline, at, faults, blamed>>

\* reconcile_baseline_dsc_before_component: nothing when the API is unreachable;
\* else compare, and patch the whole baseline back.
Reconcile ==
  /\ pc = "reconcile"
  /\ \/ /\ UNCHANGED dsc
        /\ faults' = AddFault(faults)
     \/ \E readable, patched \in BOOLEAN, stale \in StaleReads :
          LET restores == RestoresBefore(Current, Drifted(readable), stale)
          IN  /\ Restore(restores, patched)
              /\ faults' = IF readable /\ (restores => patched)
                           THEN faults ELSE AddFault(faults)
  /\ pc' = "gate"
  /\ UNCHANGED <<baseline, markers, at, touched, blamed>>

\* smoke_component_dsc_disabled: the keys it looks at.
NeededBy(c) == Owns[c] \union (IF c \in Maas THEN {AIGateway} ELSE {})

\* The API is probed again, and with FAIL_FAST_DISABLED_COMPONENT the component's
\* keys and its Ready condition: with a key seen Removed the tests are not run.
Gate ==
  /\ pc = "gate"
  /\ \/ /\ GivesUp
        /\ UNCHANGED faults
     \/ \E readable \in BOOLEAN :
          /\ FailFast /\ readable => \A k \in NeededBy(Current) : dsc[k] = "Managed"
          /\ faults' = IF readable THEN faults ELSE AddFault(faults)
          /\ pc' = "testing"
  /\ UNCHANGED <<dsc, baseline, markers, at, touched, blamed>>

\* The component's tests, which may leave any key changed.
Test ==
  /\ pc = "testing"
  /\ \E changed \in SUBSET Keys :
       /\ dsc' = [k \in Keys |-> IF k \notin changed THEN dsc[k]
                                 ELSE CHOOSE s \in States : s # dsc[k]]
       /\ touched' = touched \union changed
  /\ pc' = "tested"
  /\ UNCHANGED <<baseline, markers, at, faults, blamed>>

\* A call of the runner times out: its step ends, and the next one goes on.
RunnerDies ==
  /\ pc \in {"refresh", "prepare", "reconcile", "gate"}
  /\ GivesUp
  /\ faults' = AddFault(faults)
  /\ UNCHANGED <<dsc, baseline, markers, at, touched, blamed>>

NextTask(failed) ==
  /\ at' = IF at = Len(Chain) THEN at ELSE at + 1
  /\ pc' = IF at = Len(Chain) THEN "done" ELSE "begin"
  /\ touched' = {} /\ faults' = failed

\* finalize_component_dsc_hygiene: compare, patch back, and blame the component
\* for the keys it owns.  A call that times out ends the step after any of its
\* patches but before the marker.
Finalize ==
  /\ pc \in {"tested", "skipped"}
  /\ \/ \E readable, patched \in BOOLEAN, stale \in StaleReads :
          LET restores == RestoresAfter(Drifted(readable), stale)
          IN  /\ Restore(restores, patched)
              /\ blamed' = [blamed EXCEPT ![Current] = Attributable(Current, Drifted(readable))]
              /\ NextTask(IF readable /\ (restores => patched) THEN 0 ELSE 1)
     \/ /\ \E patched \in BOOLEAN : Restore(TRUE, patched)
        /\ UNCHANGED blamed
        /\ NextTask(1)
  /\ UNCHANGED <<baseline, markers>>

\* The task's timeout ends it wherever it is.
TaskTimesOut ==
  /\ pc \in {"begin", "refresh", "prepare", "reconcile", "gate", "testing", "tested", "skipped"}
  /\ NextTask(1)
  /\ UNCHANGED <<dsc, baseline, markers, blamed>>

Next ==
  \/ SkipPreparation \/ ProbeSucceeds \/ PrepareGateway \/ PrepareComponents
  \/ PreparationDies
  \/ Begin \/ RefreshMaas \/ PrepareOwn \/ Reconcile \/ Gate \/ Test
  \/ RunnerDies \/ Finalize \/ TaskTimesOut

Spec == Init /\ [][Next]_vars

-----------------------------------------------------------------------------
(* Properties.                                                             *)

\* The variables keep their types; the fault counter stays within its bound.
TypeOK ==
  /\ dsc \in [Keys -> States] /\ baseline \in [Keys -> States] \union {None}
  /\ markers \subseteq {"prep", "mas", "https-failed"}
  /\ at \in 1..Len(Chain)
  /\ pc \in {"probe", "gateway", "enable", "begin", "refresh", "prepare", "reconcile",
             "gate", "testing", "tested", "skipped", "done"}
  /\ touched \subseteq Keys
  /\ faults \in 0..Enough
  /\ blamed \in [Selected -> SUBSET Keys]

\* The failed hygiene steps a component's tests are protected from: its runner
\* compares once more what the task before it left.
Tolerated(c) == IF Hygienic(c) THEN 1 ELSE 0

\* The key a component's tests may find changed all the same.
Exempt(c) == IF c \in Maas THEN {AIGateway} ELSE {}

\* The components' tests start from the baseline ("restores before the next task",
\* dsc_baseline.py): unless the hygiene between two tasks failed twice, a key that
\* differs from it was written by this task itself, the gateway of
\* models-as-a-service excepted for the components that need it.
NoInheritedDrift ==
  pc = "testing" /\ baseline # None /\ faults <= Tolerated(Current) =>
    Drift \subseteq touched \union Exempt(Current)

\* "fails-on-drift (when attributable)": within the same tolerance, a component
\* whose tests were run is failed only for keys that its own task has written, never
\* for what a task before it left behind.
BlamedForOwnDrift ==
  [][pc = "tested" /\ faults <= Tolerated(Current) =>
       blamed'[Current] \subseteq touched \union blamed[Current]]_vars

=============================================================================
