\* Two of whatever contends in each service, one of each fault.
SPECIFICATION Spec
CONSTANTS
  Ticks = {t1, t2}
  Cli = Cli
  Codes = {a, b}
  Texts = {u}
  Empty = Empty
  NoFile = NoFile
  None = None
  MaxEdits = 2
  MaxFailures = 1
  Reports = {tick, end}
  MaxTurns = 2
  MaxMetaFailures = 1
  SideTurns = {u1, u2}
  MaxEngines = 2
  MaxStarts = 2
  MaxResets = 1
  Messages = {m1, m2}
  Followed = {m1, m2}
  Tracked = {m1}
  NoTurn = NoTurn
  Calls = {c1}
  MaxSends = 2
  MaxIds = 3
  MaxText = 2
  MaxAnews = 1
  NoSeedFile = NoSeedFile
  TornFile = TornFile
  MaxSlots = 4
  MaxRuns = 2
  MaxMishaps = 1
INVARIANTS ChatWhole SeedsSafe
PROPERTIES  MetaTrue SideChatsKept CallersAnswered
CHECK_DEADLOCK FALSE
