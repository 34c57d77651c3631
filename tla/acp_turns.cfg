\* Overlapping turns, failures everywhere, one reset.
SPECIFICATION FairSpec
CONSTANTS
  MaxSends = 3
  MaxChildren = 2
  MaxInterrupts = 0
  MaxResets = 1
  Overlap = TRUE
  CanLoad = TRUE
  PriorWork = TRUE
  Orchestrator = TRUE
  SavedAtBoot = TRUE
INVARIANTS EachAnswered
PROPERTIES WaitsEnd
CHECK_DEADLOCK FALSE
