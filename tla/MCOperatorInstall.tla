-------------------------- MODULE MCOperatorInstall --------------------------
(* One recovery of each kind, a kick and a stall after two polls.          *)
EXTENDS OperatorInstall

LimitValue == [k \in Kinds |-> 1]
=============================================================================
