---------------------------- MODULE DigestStore ----------------------------
(***************************************************************************)
(* What early-gate/tasks/push-build-metadata.yaml promises its caller: the *)
(* store of operator manifests only grows, and a publisher that reports    *)
(* success has its digest in the store by then.                            *)
(***************************************************************************)
CONSTANTS Publishers,   \* the push-metadata steps
          Digest,       \* the operator image digests
          Target        \* Target[p]: the digest p publishes

VARIABLES stored,       \* the digests on the main branch
          verdict       \* verdict[p]: "running", "ok" or "failed"

storeVars == <<stored, verdict>>

StoreInit ==
  /\ stored \in SUBSET Digest
  /\ verdict = [p \in Publishers |-> "running"]

\* A publisher's digest reaches the store, whether or not it learns of it.
Store(p) ==
  /\ stored' = stored \union {Target[p]}
  /\ UNCHANGED verdict

\* Success is reported only for a digest that is stored.
Succeed(p) ==
  /\ verdict[p] = "running"
  /\ Target[p] \in stored
  /\ verdict' = [verdict EXCEPT ![p] = "ok"]
  /\ UNCHANGED stored

\* The push that the remote accepts stores and reports at once.
StoreAndSucceed(p) ==
  /\ verdict[p] = "running"
  /\ stored' = stored \union {Target[p]}
  /\ verdict' = [verdict EXCEPT ![p] = "ok"]

\* Failure promises nothing: the digest may or may not be stored.
GiveUp(p) ==
  /\ verdict[p] = "running"
  /\ verdict' = [verdict EXCEPT ![p] = "failed"]
  /\ UNCHANGED stored

StoreNext ==
  \E p \in Publishers : Store(p) \/ Succeed(p) \/ StoreAndSucceed(p) \/ GiveUp(p)

StoreSpec == StoreInit /\ [][StoreNext]_storeVars
=============================================================================
