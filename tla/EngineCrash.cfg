SPECIFICATION FairSpec
CONSTANTS
  a1 = a1
  a2 = a2
  b = b
  w = w
  x = x
  noop = noop
  d = d
  t1 = t1
  t2 = t2
  t3 = t3
  s1 = s1
  s2 = s2
  NoShard = NoShard
  Commands = {a1, b, x, noop}
  Aggregates = {t1, t2, t3}
  Shards = {s1, s2}
  AggregateOf <- MCAggregateOf
  ShardOf <- MCShardOf
  Batchable <- MCBatchable
  Outcomes <- MCOutcomes
  Deletions <- MCDeletions
  NoOps <- MCNoOps
  MaxBatch = 2
  MaxDispatches = 3
  MaxCrashes = 2
INVARIANTS
  AnswersAreDurable
PROPERTIES
  ImplementsCommandLog
  EveryDispatchAnswered
\* The bound on dispatches leaves the system with nothing to do.
CHECK_DEADLOCK FALSE
