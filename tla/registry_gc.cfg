SPECIFICATION RegistrySpec
CONSTANTS
  Repos = {r1}
  Tags = {t1}
  Manifests = {m1, m2}
  Clients = {c1}
  Holders = {}
  UploadIds = {u1}
  Chunks = {x}
  MaxChunks = 2
  LayersOf <- TheLayer
  ConfigOf <- TheConfigs
  NoFile = NoFile
  m1 = m1
  x = x
PROPERTIES CollectsOnlyGarbage
CHECK_DEADLOCK FALSE
