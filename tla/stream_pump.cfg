\* A pump and a tab, reconnections, a small cap and a restart.
SPECIFICATION FairSpec
CONSTANTS
  Pumps = {p1}
  Tabs = {t1}
  Sizes = {1, 3}
  MaxBytes = 2
  MaxEntries = 3
  MaxConns = 3
  MaxBoots = 2
  DeadOnArrival = FALSE
INVARIANTS BufferExact NothingMissed
PROPERTIES InOrder DeadReaped
CHECK_DEADLOCK FALSE
