\* One turn at a time, the first import, and starts that fail.
SPECIFICATION FairSpec
CONSTANTS
  MaxSends = 4
  MaxQueries = 3
  MaxInterrupts = 0
  MaxResets = 2
  Overlap = FALSE
  Imported = FALSE
  StartMayFail = TRUE
  PriorWork = TRUE
  SavedAtBoot = FALSE
INVARIANTS SlotExact
PROPERTIES WaitsEnd
CHECK_DEADLOCK FALSE
