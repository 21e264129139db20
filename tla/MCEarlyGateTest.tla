-------------------------- MODULE MCEarlyGateTest --------------------------
(* Small instances of EarlyGateTest for TLC.                               *)
EXTENDS EarlyGateTest, TLC

CONSTANTS r1, r2, p1, p2

TwoRuns == {r1, r2}
SecondRun == {r2}
OnePR == {p1}
TwoPRs == {p1, p2}
AllOnP1 == [r \in Runs |-> p1]
OnePREach == (r1 :> p1) @@ (r2 :> p2)

-----------------------------------------------------------------------------
(* Execution r1 comes to a pull request on which r2 is over, by one of two *)
(* ways that Spec allows.                                                  *)

NotStarted ==
  [pc |-> "idle", called |-> FALSE, seen |-> None, group |-> None, item |-> None,
   job |-> None, tries |-> 0, fails |-> 0, status |-> None, tests |-> None]

\* r2 failed in check-prerequisites and left nothing.
LeftNothing ==
  /\ run = (r1 :> NotStarted) @@ (r2 :> [NotStarted EXCEPT !.pc = "failed"])
  /\ comments = [p \in PRs |-> <<>>]
  /\ sent = {}
  /\ jenkins = [t \in Runs |-> "absent"]
  /\ asked = {} /\ opened = {}

\* r2 was interrupted in phase B: its job runs, its job comment is there, and
\* the last run it asked for is not listed yet.
LeftAJob ==
  /\ run = (r1 :> NotStarted) @@ (r2 :> [NotStarted EXCEPT !.pc = "interrupted"])
  /\ comments = [p \in PRs |-> <<Mark("job", r2, r2, None)>>]
  /\ sent = {[kind |-> "job", ref |-> r2]}
  /\ jenkins = (r1 :> "absent") @@ (r2 :> "running")
  /\ asked = {r2} /\ opened = {r2}

After ==
  /\ LeftNothing \/ LeftAJob
  /\ summary = [p \in PRs |-> None]
  /\ published = [t \in Runs |-> None]
  /\ ongoing = {} /\ lost = {} /\ guessed = {}

AfterSpec == After /\ [][Next]_vars /\ Fairness
=============================================================================
