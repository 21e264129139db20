------------------------- MODULE PushBuildMetadata -------------------------
(***************************************************************************)
(* The push-metadata step of early-gate/tasks/push-build-metadata.yaml.    *)
(* Concurrent build pipelines publish a directory named by an operator     *)
(* image digest to the main branch of odh-build-metadata, with no lock:    *)
(* each clones main once, commits, tries a plain push and, when main has   *)
(* moved, force-pushes the branch build-meta/<digest> and asks GitHub to   *)
(* merge it.  Runs that publish the same digest share that branch.         *)
(*                                                                         *)
(* A commit is named by the run that made it; a branch is the set of the   *)
(* commits it contains, so a push is a fast-forward exactly when main is   *)
(* still the set the run cloned.  The files under a digest are determined  *)
(* by the digest, hence two commits of one digest never conflict.          *)
(***************************************************************************)
EXTENDS Naturals, FiniteSets

CONSTANTS Runs,         \* executions of the step
          Digests,      \* operator image digests
          DigestOf,     \* DigestOf[r]: OUTPUT_IMAGE_DIGEST of run r
          MaxRetries,   \* max_retries, 10 in the code
          NoCommit      \* the value of a branch that does not exist

ASSUME PushAssumption ==
  /\ DigestOf \in [Runs -> Digests]
  /\ MaxRetries \in Nat \ {0}
  /\ NoCommit \notin Runs

VARIABLES main,      \* commits reachable from origin/main
          branch,    \* branch[d]: head commit of build-meta/<d>
          base,      \* base[r]: main as run r cloned it
          attempt,   \* attempt[r]: the merge attempt run r is in
          pc         \* pc[r]: where run r is in the script

vars == <<main, branch, base, attempt, pc>>

Running  == {"clone", "push", "branch", "merge", "check", "cleanup"}
Finished == {"ok", "failed"}

Dirs(commits) == {DigestOf[r] : r \in commits}

Goto(r, label) == pc' = [pc EXCEPT ![r] = label]

TypeOK ==
  /\ main \in SUBSET Runs
  /\ branch \in [Digests -> Runs \union {NoCommit}]
  /\ base \in [Runs -> SUBSET Runs]
  /\ attempt \in [Runs -> 0 .. MaxRetries]
  /\ pc \in [Runs -> Running \union Finished]

Init ==
  /\ main = {}
  /\ branch = [d \in Digests |-> NoCommit]
  /\ base = [r \in Runs |-> {}]
  /\ attempt = [r \in Runs |-> 0]
  /\ pc = [r \in Runs |-> "clone"]

-----------------------------------------------------------------------------
(* The decisions of the script.  The definitions that start with "Wrong"   *)
(* are the mistakes the runs must notice; no action uses them.             *)

\* git diff --cached is empty and the directory is in the clone.
AlreadyPresent(r) == DigestOf[r] \in Dirs(main)

\* The remote takes a push of HEAD:main only as a fast-forward.
WrongFastForward(r) == TRUE
FastForward(r) == main = base[r]

\* main after such a push: the history of the commit pushed.
Pushed(r) == base[r] \union {r}

\* What GitHub does to main when it merges the branch of digest d.
Merged(d) == main \union base[branch[d]] \union {branch[d]}

\* [ "$attempt" -eq "$max_retries" ]
WrongLastAttempt(r) == attempt[r] > MaxRetries
LastAttempt(r) == attempt[r] = MaxRetries

\* attempt++
WrongNextAttempt(r) == attempt[r]
NextAttempt(r) == attempt[r] + 1

\* Where the script goes when the last attempt did not publish.
WrongExhausted == "ok"
Exhausted == "failed"

\* [ "$code" = "200" ] of digest_present_on_main
WrongDigestPresentOnMain(r) == branch[DigestOf[r]] # NoCommit
DigestPresentOnMain(r) == DigestOf[r] \in Dirs(main)

-----------------------------------------------------------------------------
\* git fetch --depth=1 origin main, copy, git add: nothing to commit when the
\* directory is in the clone.  A failing git command ends the script (set -e).
CloneAndCommit(r) ==
  /\ pc[r] = "clone"
  /\ \/ /\ base' = [base EXCEPT ![r] = main]
        /\ IF AlreadyPresent(r) THEN Goto(r, "ok") ELSE Goto(r, "push")
     \/ Goto(r, "failed") /\ UNCHANGED base
  /\ UNCHANGED <<main, branch, attempt>>

\* git push origin HEAD:main is accepted and acknowledged.
PushAccepted(r) ==
  /\ pc[r] = "push"
  /\ FastForward(r)
  /\ main' = Pushed(r)
  /\ Goto(r, "ok")
  /\ UNCHANGED <<branch, base, attempt>>

\* The push is rejected or fails on the way; when it was a fast-forward, the
\* remote may have applied it and the answer been lost.
PushRefused(r) ==
  /\ pc[r] = "push"
  /\ \/ UNCHANGED main
     \/ FastForward(r) /\ main' = Pushed(r)
  /\ Goto(r, "branch")
  /\ UNCHANGED <<branch, base, attempt>>

\* git push --force origin HEAD:refs/heads/build-meta/<digest>, not guarded.
PushBranch(r) ==
  /\ pc[r] = "branch"
  /\ \/ /\ branch' = [branch EXCEPT ![DigestOf[r]] = r]
        /\ attempt' = [attempt EXCEPT ![r] = 1]
        /\ Goto(r, "merge")
     \/ Goto(r, "failed") /\ UNCHANGED <<branch, attempt>>
  /\ UNCHANGED <<main, base>>

\* POST /merges answers 201 or 204.
MergeDone(r) ==
  /\ pc[r] = "merge"
  /\ branch[DigestOf[r]] # NoCommit
  /\ main' = Merged(DigestOf[r])
  /\ Goto(r, "cleanup")
  /\ UNCHANGED <<branch, base, attempt>>

\* It answers 404 (no such branch), 409, 5xx, or the answer is lost (000),
\* in which case the merge may have been made.
MergeUnclear(r) ==
  /\ pc[r] = "merge"
  /\ \/ UNCHANGED main
     \/ branch[DigestOf[r]] # NoCommit /\ main' = Merged(DigestOf[r])
  /\ Goto(r, "check")
  /\ UNCHANGED <<branch, base, attempt>>

\* It answers 401 or 403.
MergeForbidden(r) ==
  /\ pc[r] = "merge"
  /\ Goto(r, "failed")
  /\ UNCHANGED <<main, branch, base, attempt>>

\* digest_present_on_main answers 200.
CheckPresent(r) ==
  /\ pc[r] = "check"
  /\ DigestPresentOnMain(r)
  /\ Goto(r, "cleanup")
  /\ UNCHANGED <<main, branch, base, attempt>>

\* It answers 404, or fails: retry until max_retries attempts were made.
CheckAbsent(r) ==
  /\ pc[r] = "check"
  /\ IF LastAttempt(r)
     THEN Goto(r, Exhausted) /\ UNCHANGED attempt
     ELSE /\ attempt' = [attempt EXCEPT ![r] = NextAttempt(r)]
          /\ Goto(r, "merge")
  /\ UNCHANGED <<main, branch, base>>

\* git push origin ":refs/heads/build-meta/<digest>" || true
DeleteBranch(r) ==
  /\ pc[r] = "cleanup"
  /\ \/ branch' = [branch EXCEPT ![DigestOf[r]] = NoCommit]
     \/ UNCHANGED branch
  /\ Goto(r, "ok")
  /\ UNCHANGED <<main, base, attempt>>

\* The pod is evicted or the task times out between two commands.
Interrupt(r) ==
  /\ pc[r] \in Running
  /\ Goto(r, "failed")
  /\ UNCHANGED <<main, branch, base, attempt>>

Step(r) ==
  \/ CloneAndCommit(r) \/ PushAccepted(r) \/ PushRefused(r) \/ PushBranch(r)
  \/ MergeDone(r) \/ MergeUnclear(r) \/ MergeForbidden(r)
  \/ CheckPresent(r) \/ CheckAbsent(r) \/ DeleteBranch(r)

Next == \E r \in Runs : Step(r) \/ Interrupt(r)

\* The container runs until its script ends.
Spec == Init /\ [][Next]_vars /\ \A r \in Runs : WF_vars(Step(r))

-----------------------------------------------------------------------------
\* A step that exited 0 left its digest on main, whichever of the five ways
\* out it took and whatever other runs did to main or to the shared branch.
SuccessMeansPublished ==
  \A r \in Runs : pc[r] \in {"cleanup", "ok"} => DigestOf[r] \in Dirs(main)

\* No run takes another run's digest off main: neither the push from a stale
\* clone nor the merge of a branch another run force-pushed over.
NothingUnpublished == [][Dirs(main) \subseteq Dirs(main')]_vars

\* A digest already on main when a run clones it is not committed again.
NoRecommit ==
  \A r \in main : DigestOf[r] \notin Dirs(base[r])

\* Every run ends: the retry loop is bounded.
EveryRunEnds == \A r \in Runs : <>(pc[r] \in Finished)

\* The step implements the store it promises.
Store == INSTANCE DigestStore
           WITH Publishers <- Runs, Digest <- Digests, Target <- DigestOf,
                stored <- Dirs(main),
                verdict <- [r \in Runs |-> IF pc[r] \in Running THEN "running" ELSE pc[r]]

ImplementsStore == Store!StoreSpec
=============================================================================
