SPECIFICATION Spec
CONSTANTS
  Pipelines = {p1}
  Agents = {a1}
  Workers = {w1}
  Requests = {r1, r2}
  NoAgent = NoAgent
  NoPipeline = NoPipeline
  MaxBuilds = 2
  MaxRev = 1
  MaxFaults = 0
  MaxDrops = 0
  MaxSessions = 1
  ScanLimit = 20
  Labels = {}
  Has <- NoLabels
  Asks <- AskNothing
  Flaky = {}
  Toggled = {a1}
  Deletable = {p1}
  Maintainable = TRUE
  p2 = p2
  a1 = a1
SYMMETRY Symmetry
INVARIANTS TypeOK SingleRun
PROPERTIES SlotsSpec
