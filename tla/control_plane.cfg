\* The control API against children, the watcher and an editor of the file.
SPECIFICATION Spec
CONSTANTS
  Calls = {c1, c2}
  Ports = {p4000}
  NoPort = NoPort
  MaxProcs = 3
  Paths <- SomePaths
  AppPorts = {p3000, p3001}
  BadPort = BadPort
  MaxEdits = 1
  MaxOps = 3
INVARIANTS AppHeld RoutesHonest
PROPERTIES Converges
CHECK_DEADLOCK FALSE
