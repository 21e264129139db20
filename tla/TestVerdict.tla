----------------------------- MODULE TestVerdict -----------------------------
(***************************************************************************)
(* What the test task of one component promises the pipeline: it ends      *)
(* once, with a colour and the kinds of test cases its JUnit file holds,   *)
(* and it is green only if a case passed.  The action TestComponent of     *)
(* GateVerdict takes this step for each component; ComponentTask is the    *)
(* task itself.                                                            *)
(***************************************************************************)
VARIABLES status,  \* of the task
          found    \* kinds of test case it leaves

CaseKinds == {"passed", "failed"}

Init == status = "pending" /\ found = {}

End(colour, kinds) ==
    /\ status = "pending"
    /\ colour = "succeeded" => "passed" \in kinds
    /\ status' = colour
    /\ found' = kinds

Next == \E colour \in {"succeeded", "failed"}, kinds \in SUBSET CaseKinds :
            End(colour, kinds)

Spec == Init /\ [][Next]_<<status, found>>
=============================================================================
