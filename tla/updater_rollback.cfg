\* One caller, and a sound release whose runtime twice answers too late.
SPECIFICATION UpdaterSpec
CONSTANTS
  Jobs = {"j1"}
  MaxFaults = 2
INVARIANTS StampsExact
CHECK_DEADLOCK FALSE
