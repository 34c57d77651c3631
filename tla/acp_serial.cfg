\* One turn at a time, with a session to load, a meta to fetch, a Stop and a reset.
SPECIFICATION Spec
CONSTANTS
  MaxSends = 3
  MaxChildren = 3
  MaxInterrupts = 1
  MaxResets = 1
  Overlap = FALSE
  CanLoad = TRUE
  PriorWork = TRUE
  Orchestrator = TRUE
  SavedAtBoot = TRUE
INVARIANTS TurnsInSession
PROPERTIES SuccessorSpared
CHECK_DEADLOCK FALSE
