\* Three windows on one session, one of them resuming it, and a single slot.
SPECIFICATION FairSpec
CONSTANTS
  w1 = w1
  w2 = w2
  w3 = w3
  s1 = s1
  None = None
  Wrappers = {w1, w2, w3}
  Sessions = {s1}
  Session <- OneSession
  Resumers = {w3}
  Cap = 1
  MaxTurns = 1
  Pipelined = FALSE
  SpawnMayFail = TRUE
  MaxRestarts = 1
INVARIANTS ChildrenHeld
PROPERTIES RefusedOnlyWhenFull FinishTurn ResumeAfterFlush DrainEnds KeepsPromise
CHECK_DEADLOCK FALSE
