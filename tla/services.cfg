SPECIFICATION ServicesSpec
CONSTANTS
  Repos = {r1}
  Tags = {t1}
  Manifests = {m1}
  Clients = {c1}
  Holders = {c1}
  UploadIds = {u1}
  Chunks = {x}
  MaxChunks = 2
  LayersOf <- TheLayer
  ConfigOf <- TheConfigs
  NoFile = NoFile
  m1 = m1
  x = x
  Browsers = {b1, b2}
  MaxTickets = 2
  Passkeys = {p1}
  MaxFailures = 1
  CodesPerSet = 1
  Pause = 1
  Lifetime <- OneStepEach
  MaxNow = 1
  MaxSecrets = 1
  MaxSets = 2
  MaxCount = 1
  Nobody = Nobody
  NoTicket = NoTicket
  Users = {alice, bob}
  Roles = {role1}
  Projects = {project1}
  Everywhere = Everywhere
  MaxRequests = 4
  NoUser = NoUser
  Slots = {2}
  Keep = 1
  MaxBackups = 3
  MaxEdits = 1
  MaxClock = 3
  MaxJobs = 2
  MaxDeaths = 1
  NoFileThere = NoFileThere
  Deliveries = {d1}
  Listening = {h1, h2}
  PerMinute = 2
  Retention = 1
  MaxPosts = 3
  MaxRotations = 1
  NoDelivery = NoDelivery
  Branches = {main}
  Destinations = {chat}
  Blocks <- TheBlocks
  MaxBuilds = 2
  MaxNews = 1
  TableCount = 8
  RowKeys <- TheRowKeys
  TableOf <- TheTableOf
  Refers <- TheRefers
  Released = {1, 3, 5, 7}
  UserTable = 1
  PasskeyTable = 2
  RoleTable = 3
  UserRoleTable = 4
  AgentTable = 7
  ServerState = {setting}
  NewKey = new
  AdminName = AdminName
  Values = {name1, name2, AdminName}
  NoValue = NoValue
  Contents <- TheContents
  Missing = Missing
  user1 = user1
  user2 = user2
  passkey1 = passkey1
  passkey2 = passkey2
  role = role
  grant = grant
  new = new
  project = project
  child = child
  pipeline = pipeline
  agent = agent
  setting = setting
  name1 = name1
  name2 = name2
  Remote = {x1, x2, x3}
  PageSize = 2
  Limits = {1, 2, 3}
  MaxChanges = 1
  NoLimit = NoLimit
  Askers = {k1, k2, k3}
  Credentials = {s1, s2}
  NoCredential = NoCredential
  NoConnection = NoConnection
  NoAsker = NoAsker
INVARIANTS ServicesTypeOK StoredBlobIsItsDigest
  TicketBuysOneSession  TriesAreBounded
   AnAdministratorRemains
  OneAtATime RestoreCanBeUndone SlotIsServedOnce
   NotLockedOut RestoredIsTheBackup
  LabelsAreDistinct   DuplicateWasDone
  UntouchedIsListed VerdictIsOnCredential  ToldThroughOneEvent
PROPERTIES QuietRestore NewsInOrder
CHECK_DEADLOCK FALSE
