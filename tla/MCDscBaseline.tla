--------------------------- MODULE MCDscBaseline ---------------------------
(* Components of the RHOAI 3.5 catalogue in the order of their tasks:       *)
(* model_server and maas_billing, which need models-as-a-service; ogx,      *)
(* whose key the installation leaves Removed; dashboard_cypress, which the  *)
(* golang runner runs and which owns the key of the first two as well.      *)
EXTENDS DscBaseline, TLC

MCChain == <<"model_server", "maas_billing", "ogx", "dashboard_cypress">>
MCOwns == [c \in Selected |-> IF c = "ogx" THEN {"ogx"} ELSE {"kserve"}]
=============================================================================
