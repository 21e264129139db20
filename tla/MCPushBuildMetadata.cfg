SPECIFICATION Spec
CONSTANTS
  r1 = r1
  r2 = r2
  r3 = r3
  d1 = d1
  d2 = d2
  Runs <- MCRuns
  Digests <- MCDigests
  DigestOf <- MCDigestOf
  MaxRetries = 2
  NoCommit = NoCommit
INVARIANTS TypeOK SuccessMeansPublished
PROPERTIES NothingUnpublished EveryRunEnds ImplementsStore
CHECK_DEADLOCK FALSE
