SPECIFICATION Spec
CONSTANTS
  a1 = a1
  a2 = a2
  b = b
  w = w
  x = x
  noop = noop
  d = d
  t1 = t1
  t2 = t2
  t3 = t3
  s1 = s1
  s2 = s2
  NoShard = NoShard
  Commands = {a1, a2, x, d}
  Aggregates = {t1, t2, t3}
  Shards = {s1, s2}
  AggregateOf <- MCAggregateOf
  ShardOf <- MCShardOf
  Batchable <- MCBatchable
  Outcomes <- MCOutcomes
  Deletions <- MCDeletions
  NoOps <- MCNoOps
  MaxBatch = 3
  MaxDispatches = 4
  MaxCrashes = 1
INVARIANTS
  TypeOK ModelTracksLog DecidedOnFreshModel PerAggregateFIFO AnsweredIsVisible
  AtMostOnce
  ReceiptsTellTheLog
PROPERTIES
  VerdictIsFinal
\* The bound on dispatches leaves the system with nothing to do.
CHECK_DEADLOCK FALSE
