SPECIFICATION RetentionFairSpec
CONSTANTS
  r1 = r1
  r2 = r2
  c1 = c1
  c2 = c2
  Relay = {r1, r2}
  Consumer = {c1, c2}
  Entry <- OneEntry
  Handles <- AllHandle
  Build <- SkewedBuild
  BatchSize = 2
  MaxAttempts = 2
  Lease = 3
  RetryBase = 1
  RetryMax = 2
  Budget = 1
  Slack = 1
  MaxLosses = 1
  PublishedRetention = 1
  LedgerRetention = 2
  PruneBatch = 1
  MaxBatches = 2
INVARIANTS
  TypeOK
  LeaseExclusive
  NoSilentAttempt
  LedgerSound
  EffectsWithinAttempts
  PublishedWasHandled
  YoungEntryKeepsLedger
PROPERTIES
  EveryEntrySettles
  DeliverySpec
