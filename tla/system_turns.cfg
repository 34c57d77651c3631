\* Two windows, a restart of the broker, a cap that can be reached.
SPECIFICATION SysFairSpec
CONSTANTS
  w1 = w1
  w2 = w2
  s1 = s1
  None = None
  Wrappers = {w1, w2}
  Sessions = {s1}
  Session <- OneSession
  Resumers = {w2}
  Cap = 1
  MaxTurns = 1
  MaxTyped = 1
  Pipelined = TRUE
  SpawnMayFail = TRUE
  MaxRestarts = 1
INVARIANTS TurnsKept
PROPERTIES RelayFollowsChild
CHECK_DEADLOCK FALSE
