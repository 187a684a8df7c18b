SPECIFICATION Spec
CONSTANTS
  TIMEOUT = 1
  MAX_FWD_QUERIES = 2
  ID_MAX = 2
  REPEAT_WINDOW = 1
  Servers = {"s1", "s2"}
  Queries <- MCQueries
  Configs <- MCConfigs
  Clock <- MCClock
INVARIANTS
  TypeOK
  DistinctNewIds
  OneRecordPerQuestion
  PoolBounded
  NewIdAvailable
  SourcesWaiting
  MemorySafe
PROPERTIES
  AnswersOnlyWaiting
  KeptUntilTimeout
  ImplementsBroker
