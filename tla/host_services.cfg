\* Each service of the machine with the smallest numbers that let its steps
\* overlap: two of whatever contends, one or two of each fault.
SPECIFICATION Spec
CONSTANTS
  Detached = {d1, d2}
  Streamed = {s1}
  MaxConcurrent = 1
  MaxChunks <- MCMaxChunks
  Conns = {k1}
  Requests = {q1}
  Programs = {agent, shell}
  Gone = Gone
  MaxMoves = 1
  MaxKeys = 1
  Saves = {timer, hook}
  Hooks = {hook}
  PostStart = PostStart
  NoSave = NoSave
  MaxLayouts = 2
  MaxLosses = 1
  Switches = {w1, w2}
  Surfaces = {zed, vscode}
  NoSurface = NoSurface
  MaxTroubles = 2
  IdleTicks = 2
  MaxChildDeaths = 2
  MaxOpens = 2
  MaxReplaced = 1
  Jobs = {"j1", "j2"}
  MaxFaults = 1
  MaxHops = 4
  Uploads = {p1, p2}
  Autopaste = {p1, p2}
  MaxSize = 1
  NoImage = NoImage
  MaxOutages = 2
  MaxServiceDeaths = 1
  MaxExits = 2
  MaxBakes = 3
  MaxPrunes = 1
  MaxRefusals = 1
  Targets = {dev, prod}
  Keep = 0
INVARIANTS UpdateHonest DoorsSafe UploadsApart
PROPERTIES RunsConclude TerminalsKept LayoutSurvives SurfaceAsChosen BrowserServes UpdateLands ModesHonest ImagesBoot
CHECK_DEADLOCK FALSE
