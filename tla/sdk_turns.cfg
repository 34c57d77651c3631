\* Turns, steering, a Stop, two resets and deaths of the query, the SDK module already loaded.
SPECIFICATION Spec
CONSTANTS
  MaxSends = 4
  MaxQueries = 4
  MaxInterrupts = 1
  MaxResets = 2
  Overlap = TRUE
  Imported = TRUE
  StartMayFail = FALSE
  PriorWork = TRUE
  SavedAtBoot = FALSE
INVARIANTS OneConversation
CHECK_DEADLOCK FALSE
