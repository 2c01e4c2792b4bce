SPECIFICATION Spec
CONSTANTS
  None = None
  anon = anon
  p1 = p1
  p2 = p2
  t1 = t1
  c1 = c1
  c2 = c2
  th1 = th1
  th2 = th2
  r1 = r1
  x1 = x1
  absent = absent
  broken = broken
  d1 = d1
  d2 = d2
  u1 = u1
  u2 = u2
  o1 = o1
  o2 = o2
  k1 = k1
  k2 = k2
  b1 = b1
  b2 = b2
  EngineWorker = {d1, d2}
  EngineRun = {r1}
  EngineTask = {o1, o2}
  EngineLease = {k1, k2}
  EngineAttemptLimits = {0, 2}
  EngineLeaseTtl = 1
  EngineRetryDelay = 1
  EngineMaxSlices = 2
  EngineMaxStall = 1
  EngineMaxCrashes = 1
  GateCall = {k1, k2}
  GateSetups <- Registrations
  GateStores = {{"audit", "approval"}, {}}
  AuditBody = {b1, b2}
  AuditMaxEntries = 3
  AuditMaxDamage = 2
  AuditMaxAnchors = 2
  RouterOrg = {o1, o2}
  RouterDecision = {d1, d2}
  RouterWrite = {u1, u2}
  RouterTexts = {1}
  RouterMaxBundles = 1
  AccessCall = {k1, k2}
  AccessPrincipal = {p1, p2, anon}
  AccessAnonymous = anon
  AccessTeam = {t1}
  AccessClaw = {c1, c2}
  AccessThread = {th1, th2}
  AccessRun = {r1}
  AccessStray = {x1}
  AccessSetup <- Deployments
  ChannelBot = {"default"}
  ChannelOwn = "default"
  ChannelKey = {"default", "sales"}
  ChannelMalformed = {"a/b"}
  ChannelHook = {b1}
  ChannelBotToken = {"x"}
  ChannelUserToken = {"y"}
  ChannelRegistrar = {u1, u2}
  ChannelRequest = {k1}
  StorageId = {o1}
  StorageCall = {k1, k2, d1}
  StorageBackends = {"memory", "sqlite", "returning", "mysql", "prisma", "mongodb"}
  StorageInputs <- MCStorageInputs
  StorageStored <- StoredRows
  StorageNull = None
  StorageAbsent = absent
  StorageMaxTurns = 2
  SecretCall = {k1, k2}
  SecretCaller <- Callers
  SecretName = {"sales"}
  SecretMaster = "MASTER"
  SecretValue = {b1, b2}
  SecretListed <- Providers
  SecretEnvironments <- Environments
  SecretMasterKeys = {"m1", "m2"}
  SecretMaxRows = 3
  SecretMaxRestarts = 1
  SecretMaxCalls = 3
  SecretAbsent = absent
  SecretDown = broken
  RegistryActor = {d1, d2}
  RegistryTool = {c1, c2}
  RegistryBase = {r1}
  RegistryDocuments <- Uploads
  RegistryOverrides <- Overridden
  RegistryMaxBegun = 3
  RegistryMalformed = broken
  RegistryThrew = x1
  RecordingActor = {d1, d2}
  RecordingOwn = r1
  RecordingOthers = {x1}
  RecordingText = {b1, b2}
  RecordingMaxBegun = 3
  WhereNull = None
  WhereAbsent = absent
  WhereNumeric = {"count"}
  WhereInputs <- MCWhereInputs
  PolicyAbsent = absent
  PolicyInputs <- MCPolicyInputs
  OpenApiAbsent = absent
  OpenApiMalformed = broken
  OpenApiInputs <- MCOpenApiInputs
SYMMETRY Symmetry
CHECK_DEADLOCK FALSE
INVARIANTS CallsPassTheGates VerdictIsSound AccessIsAsGranted BotsAreKeptApart OneTaker ResolvesToTheNearest SurfaceIsAsRegistered HistoryIsWhatHappened  FloorHolds CallsAreTheOperations
PROPERTIES LateClaimsKeepLeases SealedStay QuietDecisionsAreCurrent
