SPECIFICATION FairSpec
CONSTANTS
  Pipelines = {p1}
  Agents = {a1}
  Workers = {w1}
  Requests = {r1}
  NoAgent = NoAgent
  NoPipeline = NoPipeline
  MaxBuilds = 1
  MaxRev = 1
  MaxFaults = 1
  MaxDrops = 0
  MaxSessions = 1
  ScanLimit = 20
  Labels = {}
  Has <- NoLabels
  Asks <- AskNothing
  Flaky = {}
  Toggled = {}
  Deletable = {}
  Maintainable = FALSE
  p2 = p2
  a1 = a1
PROPERTIES ServedDespiteCrash
