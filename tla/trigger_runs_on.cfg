SPECIFICATION Spec
CONSTANTS
  Pipelines = {p1, p2}
  Agents = {a1, a2}
  Workers = {w1, w2}
  Requests = {r1}
  NoAgent = NoAgent
  NoPipeline = NoPipeline
  MaxBuilds = 2
  MaxRev = 1
  MaxFaults = 0
  MaxDrops = 0
  MaxSessions = 1
  ScanLimit = 20
  Labels = {l1}
  Has <- OneLabelled
  Asks <- OneAsks
  Flaky = {}
  Toggled = {}
  Deletable = {}
  Maintainable = FALSE
  p2 = p2
  a1 = a1
INVARIANTS RoutedByYaml
