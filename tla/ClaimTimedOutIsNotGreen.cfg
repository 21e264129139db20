SPECIFICATION Spec
CONSTANTS
  Tests = {t1, t2}
  StandIn = s
  RateNum = 1
  RateDen = 2
CHECK_DEADLOCK FALSE
INVARIANT TimedOutIsNotGreen
