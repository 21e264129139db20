SPECIFICATION Spec
CONSTANTS
  Chain <- MCChain
  Owns <- MCOwns
  Keys = {"ogx", "kserve", "aigateway", "llamastackoperator"}
  Pytest = {"model_server", "maas_billing", "ogx"}
  Maas = {"model_server", "maas_billing"}
  Billing = "maas_billing"
  AIGateway = "aigateway"
  Ogx = "ogx"
  OgxKey = "ogx"
  Deferred = {"ogx", "llamastackoperator"}
  Retired = "llamastackoperator"
  FailFast = FALSE
  None = None
INVARIANTS TypeOK NoInheritedDrift
PROPERTY BlamedForOwnDrift
CHECK_DEADLOCK FALSE
