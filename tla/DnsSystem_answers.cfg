SPECIFICATION SysSpec
CONSTANTS
  Queries <- SharedQuestion
  Servers = {"s1", "s2"}
  Configs <- SysConfigs
  Clock <- SysClock
  MAX_FWD_QUERIES = 1
  ID_MAX = 1
  TIMEOUT = 2
  REPEAT_WINDOW = 1
  RETRY = 1
  MAX_SENDS = 2
  MAX_LOSS = 1
INVARIANT OneAnswerPerTry
PROPERTY AnsweredUnlessLost
CHECK_DEADLOCK FALSE
