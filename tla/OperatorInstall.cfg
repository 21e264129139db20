SPECIFICATION Spec
CONSTANTS
  Limit <- LimitValue
  UnpackTicks = 5
  CsvTicks = 2
  KickAfter = 2
  StallAfter = 2
  MaxOutages = 2
INVARIANTS
  TypeOK
  InstalledIsWanted
  SuccessHasSubscription
  RecreationsBounded
PROPERTIES
  ObservesOnly
  EveryInstallEnds
