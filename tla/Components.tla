------------------------------- MODULE Components -------------------------------
(***************************************************************************)
(* Components side by side: each behaviour is one of one component, which  *)
(* part names, and the variables of the others are off. A component        *)
(* without steps of its own is a function: it is given any of its inputs.  *)
(***************************************************************************)
EXTENDS Naturals, Sequences, FiniteSets

CONSTANTS
  None,
  EngineWorker, EngineRun, EngineTask, EngineLease, EngineAttemptLimits,
  EngineLeaseTtl, EngineRetryDelay, EngineMaxSlices, EngineMaxStall, EngineMaxCrashes,
  GateCall, GateSetups, GateStores,
  AuditBody, AuditMaxEntries, AuditMaxDamage, AuditMaxAnchors,
  RouterOrg, RouterDecision, RouterWrite, RouterTexts, RouterMaxBundles,
  AccessCall, AccessPrincipal, AccessAnonymous, AccessTeam, AccessClaw, AccessThread,
  AccessRun, AccessStray, AccessSetup,
  ChannelBot, ChannelOwn, ChannelKey, ChannelMalformed, ChannelHook, ChannelBotToken,
  ChannelUserToken, ChannelRegistrar, ChannelRequest,
  StorageId, StorageCall, StorageBackends, StorageInputs, StorageStored, StorageNull,
  StorageAbsent, StorageMaxTurns,
  SecretCall, SecretCaller, SecretName, SecretMaster, SecretValue, SecretListed,
  SecretEnvironments, SecretMasterKeys, SecretMaxRows, SecretMaxRestarts,
  SecretMaxCalls, SecretAbsent, SecretDown,
  RegistryActor, RegistryTool, RegistryBase, RegistryDocuments, RegistryOverrides,
  RegistryMaxBegun, RegistryMalformed, RegistryThrew,
  RecordingActor, RecordingOwn, RecordingOthers, RecordingText, RecordingMaxBegun,
  WhereNull, WhereAbsent, WhereNumeric, WhereInputs,
  PolicyAbsent, PolicyInputs,
  OpenApiAbsent, OpenApiMalformed, OpenApiInputs

VARIABLES
  part,   \* the component of this behaviour
  given,  \* what is given to a component that is a function of it
  engineRun, engineTask, engineLease, runEvents, workerPc, claimTs, expiredLeases,
  candidates, heldLease, lostLease, runOutcome, heartbeat, workerCrashes, setup,
  boundary, before, after, sealed, kinds, call, trail, parked, log, anchors, appended,
  damage, rows, changes, cache, builds, decision, write, contested, config, claw,
  thread, grants, held, pc, apiCall, calls, scopeChanges, seen, steady, registration,
  registrar, secret, memo, request, tokensGiven, contestedHooks, backend, table,
  storageCalls, transaction, turns, takers, dropped, secretRows, environment,
  masterKey, secretCalls, restarts, began, register, contestedKeys, tools, specs,
  overlay, registryChanges, actor, begun, last, wanted, overlapped, unsure, toolCall,
  results, messages, checkpoints, approval, runParked, invocation, invoked, lastEnded,
  ran, besides

Off == 0

-----------------------------------------------------------------------------
Engine == INSTANCE SqlEngine WITH
  Worker <- EngineWorker, Run <- EngineRun, Task <- EngineTask, Lease <- EngineLease,
  AttemptLimits <- EngineAttemptLimits, LeaseTtl <- EngineLeaseTtl,
  RetryDelay <- EngineRetryDelay, MaxSlices <- EngineMaxSlices,
  MaxStall <- EngineMaxStall, MaxCrashes <- EngineMaxCrashes, run <- engineRun,
  task <- engineTask, lease <- engineLease, events <- runEvents, pc <- workerPc,
  ts <- claimTs, scan <- expiredLeases, cand <- candidates, held <- heldLease,
  lost <- lostLease, outcome <- runOutcome, beat <- heartbeat, crashes <- workerCrashes

EngineVars == <<engineRun, engineTask, engineLease, runEvents, workerPc, claimTs,
  expiredLeases, candidates, heldLease, lostLease, runOutcome, heartbeat,
  workerCrashes>>
EngineOff ==
  /\ engineRun = Off /\ engineTask = Off /\ engineLease = Off /\ runEvents = Off
  /\ workerPc = Off /\ claimTs = Off /\ expiredLeases = Off /\ candidates = Off
  /\ heldLease = Off /\ lostLease = Off /\ runOutcome = Off /\ heartbeat = Off
  /\ workerCrashes = Off

ASSUME EngineEngineAssumption == Engine!EngineAssumption

-----------------------------------------------------------------------------
Gates_ == INSTANCE Gates WITH
  Call <- GateCall, Setups <- GateSetups, Stores <- GateStores

Gates_Vars == <<setup, boundary, before, after, sealed, kinds, call, trail, parked>>
Gates_Off ==
  /\ setup = Off /\ boundary = Off /\ before = Off /\ after = Off
  /\ sealed = Off /\ kinds = Off /\ call = Off /\ trail = Off
  /\ parked = Off

ASSUME Gates_GatesAssumption == Gates_!GatesAssumption

-----------------------------------------------------------------------------
Audit == INSTANCE AuditChain WITH
  Body <- AuditBody, MaxEntries <- AuditMaxEntries, MaxDamage <- AuditMaxDamage,
  MaxAnchors <- AuditMaxAnchors

AuditVars == <<log, anchors, appended, damage>>
AuditOff == log = Off /\ anchors = Off /\ appended = Off /\ damage = Off

-----------------------------------------------------------------------------
Router == INSTANCE PolicyRouter WITH
  Org <- RouterOrg, Decision <- RouterDecision, Write <- RouterWrite,
  Texts <- RouterTexts, MaxBundles <- RouterMaxBundles

RouterVars == <<rows, changes, cache, builds, decision, write, contested>>
RouterOff ==
  /\ rows = Off /\ changes = Off /\ cache = Off /\ builds = Off
  /\ decision = Off /\ write = Off /\ contested = Off

ASSUME RouterRouterAssumption == Router!RouterAssumption

-----------------------------------------------------------------------------
Access == INSTANCE ApiAccess WITH
  Call <- AccessCall, Principal <- AccessPrincipal, Anonymous <- AccessAnonymous,
  Team <- AccessTeam, Claw <- AccessClaw, Thread <- AccessThread, Run <- AccessRun,
  Stray <- AccessStray, Setup <- AccessSetup, call <- apiCall, changes <- scopeChanges

AccessVars == <<config, claw, thread, grants, held, pc, apiCall, calls, scopeChanges,
  seen, steady>>
AccessOff ==
  /\ config = Off /\ claw = Off /\ thread = Off /\ grants = Off
  /\ held = Off /\ pc = Off /\ apiCall = Off /\ calls = Off
  /\ scopeChanges = Off /\ seen = Off /\ steady = Off

ASSUME AccessAccessAssumption == Access!AccessAssumption

-----------------------------------------------------------------------------
Channels == INSTANCE ChannelEndpoints WITH
  Bot <- ChannelBot, Own <- ChannelOwn, Key <- ChannelKey,
  Malformed <- ChannelMalformed, Hook <- ChannelHook, BotToken <- ChannelBotToken,
  UserToken <- ChannelUserToken, Registrar <- ChannelRegistrar,
  Request <- ChannelRequest, given <- tokensGiven, contested <- contestedHooks

ChannelsVars == <<registration, registrar, secret, memo, request, tokensGiven,
  contestedHooks>>
ChannelsOff ==
  /\ registration = Off /\ registrar = Off /\ secret = Off /\ memo = Off
  /\ request = Off /\ tokensGiven = Off /\ contestedHooks = Off

ASSUME ChannelsChannelAssumption == Channels!ChannelAssumption

-----------------------------------------------------------------------------
Storage == INSTANCE StorageAdapters WITH
  Id <- StorageId, Call <- StorageCall, Backends <- StorageBackends,
  Inputs <- StorageInputs, Stored <- StorageStored, Null <- StorageNull,
  Absent <- StorageAbsent, MaxTurns <- StorageMaxTurns, calls <- storageCalls

StorageVars == <<backend, table, storageCalls, transaction, turns, takers, dropped>>
StorageOff ==
  /\ backend = Off /\ table = Off /\ storageCalls = Off /\ transaction = Off
  /\ turns = Off /\ takers = Off /\ dropped = Off

ASSUME StorageStorageAssumption == Storage!StorageAssumption

-----------------------------------------------------------------------------
Secrets == INSTANCE StoredSecrets WITH
  Call <- SecretCall, Caller <- SecretCaller, Name <- SecretName,
  Master <- SecretMaster, Value <- SecretValue, Listed <- SecretListed,
  Environments <- SecretEnvironments, MasterKeys <- SecretMasterKeys,
  MaxRows <- SecretMaxRows, MaxRestarts <- SecretMaxRestarts,
  MaxCalls <- SecretMaxCalls, Absent <- SecretAbsent, Down <- SecretDown,
  rows <- secretRows, key <- masterKey, calls <- secretCalls, contested <- contestedKeys

SecretsVars == <<secretRows, environment, masterKey, secretCalls, restarts, began,
  register, contestedKeys>>
SecretsOff ==
  /\ secretRows = Off /\ environment = Off /\ masterKey = Off /\ secretCalls = Off
  /\ restarts = Off /\ began = Off /\ register = Off /\ contestedKeys = Off

ASSUME SecretsSecretsAssumption == Secrets!SecretsAssumption

-----------------------------------------------------------------------------
Registry == INSTANCE SpecRegistry WITH
  Actor <- RegistryActor, Tool <- RegistryTool, Base <- RegistryBase,
  Documents <- RegistryDocuments, Overrides <- RegistryOverrides,
  MaxBegun <- RegistryMaxBegun, Malformed <- RegistryMalformed, Threw <- RegistryThrew,
  changes <- registryChanges, contested <- overlapped

RegistryVars == <<tools, specs, overlay, registryChanges, actor, begun, last, wanted,
  overlapped, unsure>>
RegistryOff ==
  /\ tools = Off /\ specs = Off /\ overlay = Off /\ registryChanges = Off
  /\ actor = Off /\ begun = Off /\ last = Off /\ wanted = Off
  /\ overlapped = Off /\ unsure = Off

ASSUME RegistryRegistryAssumption == Registry!RegistryAssumption

-----------------------------------------------------------------------------
Recording == INSTANCE RecordingSink WITH
  Actor <- RecordingActor, Own <- RecordingOwn, Others <- RecordingOthers,
  Text <- RecordingText, MaxBegun <- RecordingMaxBegun, call <- toolCall,
  parked <- runParked, actor <- invocation, begun <- invoked, last <- lastEnded,
  contested <- besides

RecordingVars == <<toolCall, results, messages, checkpoints, approval, runParked,
  invocation, invoked, lastEnded, ran, besides>>
RecordingOff ==
  /\ toolCall = Off /\ results = Off /\ messages = Off /\ checkpoints = Off
  /\ approval = Off /\ runParked = Off /\ invocation = Off /\ invoked = Off
  /\ lastEnded = Off /\ ran = Off /\ besides = Off

ASSUME RecordingRecordingAssumption == Recording!RecordingAssumption

-----------------------------------------------------------------------------
Where == INSTANCE StorageWhere WITH
  Null <- WhereNull, Absent <- WhereAbsent, Numeric <- WhereNumeric

ASSUME WhereWhereAssumption == Where!WhereAssumption

ASSUME WhereInputsAssumption == \A x \in WhereInputs : Where!IsGiven(x)

-----------------------------------------------------------------------------
Policy == INSTANCE Policies WITH
  Absent <- PolicyAbsent

ASSUME PolicyInputsAssumption == \A x \in PolicyInputs : Policy!IsGiven(x)

-----------------------------------------------------------------------------
OpenApi == INSTANCE OpenApiTools WITH
  Absent <- OpenApiAbsent, Malformed <- OpenApiMalformed

ASSUME OpenApiInputsAssumption == \A x \in OpenApiInputs : OpenApi!IsGiven(x)

-----------------------------------------------------------------------------
Init ==
  \/ /\ part = "engine" /\ Engine!Init /\ given = Off
     /\ Gates_Off /\ AuditOff /\ RouterOff /\ AccessOff /\ ChannelsOff
     /\ StorageOff /\ SecretsOff /\ RegistryOff /\ RecordingOff
  \/ /\ part = "gates" /\ Gates_!Init /\ given = Off
     /\ EngineOff /\ AuditOff /\ RouterOff /\ AccessOff /\ ChannelsOff
     /\ StorageOff /\ SecretsOff /\ RegistryOff /\ RecordingOff
  \/ /\ part = "audit" /\ Audit!Init /\ given = Off
     /\ EngineOff /\ Gates_Off /\ RouterOff /\ AccessOff /\ ChannelsOff
     /\ StorageOff /\ SecretsOff /\ RegistryOff /\ RecordingOff
  \/ /\ part = "router" /\ Router!Init /\ given = Off
     /\ EngineOff /\ Gates_Off /\ AuditOff /\ AccessOff /\ ChannelsOff
     /\ StorageOff /\ SecretsOff /\ RegistryOff /\ RecordingOff
  \/ /\ part = "access" /\ Access!Init /\ given = Off
     /\ EngineOff /\ Gates_Off /\ AuditOff /\ RouterOff /\ ChannelsOff
     /\ StorageOff /\ SecretsOff /\ RegistryOff /\ RecordingOff
  \/ /\ part = "channels" /\ Channels!Init /\ given = Off
     /\ EngineOff /\ Gates_Off /\ AuditOff /\ RouterOff /\ AccessOff
     /\ StorageOff /\ SecretsOff /\ RegistryOff /\ RecordingOff
  \/ /\ part = "storage" /\ Storage!Init /\ given = Off
     /\ EngineOff /\ Gates_Off /\ AuditOff /\ RouterOff /\ AccessOff
     /\ ChannelsOff /\ SecretsOff /\ RegistryOff /\ RecordingOff
  \/ /\ part = "secrets" /\ Secrets!Init /\ given = Off
     /\ EngineOff /\ Gates_Off /\ AuditOff /\ RouterOff /\ AccessOff
     /\ ChannelsOff /\ StorageOff /\ RegistryOff /\ RecordingOff
  \/ /\ part = "registry" /\ Registry!Init /\ given = Off
     /\ EngineOff /\ Gates_Off /\ AuditOff /\ RouterOff /\ AccessOff
     /\ ChannelsOff /\ StorageOff /\ SecretsOff /\ RecordingOff
  \/ /\ part = "recording" /\ Recording!Init /\ given = Off
     /\ EngineOff /\ Gates_Off /\ AuditOff /\ RouterOff /\ AccessOff
     /\ ChannelsOff /\ StorageOff /\ SecretsOff /\ RegistryOff
  \/ /\ part = "where" /\ given \in WhereInputs
     /\ EngineOff /\ Gates_Off /\ AuditOff /\ RouterOff /\ AccessOff
     /\ ChannelsOff /\ StorageOff /\ SecretsOff /\ RegistryOff /\ RecordingOff
  \/ /\ part = "policies" /\ given \in PolicyInputs
     /\ EngineOff /\ Gates_Off /\ AuditOff /\ RouterOff /\ AccessOff
     /\ ChannelsOff /\ StorageOff /\ SecretsOff /\ RegistryOff /\ RecordingOff
  \/ /\ part = "openapi" /\ given \in OpenApiInputs
     /\ EngineOff /\ Gates_Off /\ AuditOff /\ RouterOff /\ AccessOff
     /\ ChannelsOff /\ StorageOff /\ SecretsOff /\ RegistryOff /\ RecordingOff

Next ==
  \/ /\ part = "engine" /\ Engine!Next
     /\ UNCHANGED <<part, given, Gates_Vars, AuditVars, RouterVars, AccessVars,
                    ChannelsVars, StorageVars, SecretsVars, RegistryVars,
                    RecordingVars>>
  \/ /\ part = "gates" /\ Gates_!Next
     /\ UNCHANGED <<part, given, EngineVars, AuditVars, RouterVars, AccessVars,
                    ChannelsVars, StorageVars, SecretsVars, RegistryVars,
                    RecordingVars>>
  \/ /\ part = "audit" /\ Audit!Next
     /\ UNCHANGED <<part, given, EngineVars, Gates_Vars, RouterVars, AccessVars,
                    ChannelsVars, StorageVars, SecretsVars, RegistryVars,
                    RecordingVars>>
  \/ /\ part = "router" /\ Router!Next
     /\ UNCHANGED <<part, given, EngineVars, Gates_Vars, AuditVars, AccessVars,
                    ChannelsVars, StorageVars, SecretsVars, RegistryVars,
                    RecordingVars>>
  \/ /\ part = "access" /\ Access!Next
     /\ UNCHANGED <<part, given, EngineVars, Gates_Vars, AuditVars, RouterVars,
                    ChannelsVars, StorageVars, SecretsVars, RegistryVars,
                    RecordingVars>>
  \/ /\ part = "channels" /\ Channels!Next
     /\ UNCHANGED <<part, given, EngineVars, Gates_Vars, AuditVars, RouterVars,
                    AccessVars, StorageVars, SecretsVars, RegistryVars, RecordingVars>>
  \/ /\ part = "storage" /\ Storage!Next
     /\ UNCHANGED <<part, given, EngineVars, Gates_Vars, AuditVars, RouterVars,
                    AccessVars, ChannelsVars, SecretsVars, RegistryVars, RecordingVars>>
  \/ /\ part = "secrets" /\ Secrets!Next
     /\ UNCHANGED <<part, given, EngineVars, Gates_Vars, AuditVars, RouterVars,
                    AccessVars, ChannelsVars, StorageVars, RegistryVars, RecordingVars>>
  \/ /\ part = "registry" /\ Registry!Next
     /\ UNCHANGED <<part, given, EngineVars, Gates_Vars, AuditVars, RouterVars,
                    AccessVars, ChannelsVars, StorageVars, SecretsVars, RecordingVars>>
  \/ /\ part = "recording" /\ Recording!Next
     /\ UNCHANGED <<part, given, EngineVars, Gates_Vars, AuditVars, RouterVars,
                    AccessVars, ChannelsVars, StorageVars, SecretsVars, RegistryVars>>

vars == <<part, given, EngineVars, Gates_Vars, AuditVars, RouterVars, AccessVars,
          ChannelsVars, StorageVars, SecretsVars, RegistryVars, RecordingVars>>

Spec == Init /\ [][Next]_vars

-----------------------------------------------------------------------------
\* A claim that outlives its lease doubles neither a lease nor a slice, and no zombie ends the
\* lease of another worker (SqlEngine).
LateClaimsKeepLeases == [][part = "engine" => Engine!ExclusiveLease /\ Engine!OneLiveTask /\ Engine!HolderStep]_vars

\* What runs was let through by every gate, and who gets an answer left its traces (Gates).
CallsPassTheGates == part = "gates" => Gates_!TypeOK /\ Gates_!RunsPastEveryGate /\ Gates_!AnsweredIsRecorded

\* A sealed gate cannot be removed, replaced or passed (Gates).
SealedStay == [][part = "gates" => Gates_!KeepsSealed]_vars

\* What the verification of the audit log says can be relied on (AuditChain).
VerdictIsSound == part = "audit" => Audit!VerdictIsSound

\* A decision that no write disturbs is decided by the rows there are (PolicyRouter).
QuietDecisionsAreCurrent == [][part = "router" => Router!TypeOK /\ Router!DecidesByTheRows]_vars

\* A call that is let through was entitled to by something that held while it was decided, and a
\* caller whose access held all that time is not denied (ApiAccess).
AccessIsAsGranted == part = "access" => Access!TypeOK /\ Access!PermittedHadAccess /\ Access!SteadyAccessIsHonoured

\* A hook names one bot, and a bot answers as itself (ChannelEndpoints).
BotsAreKeptApart == part = "channels" => Channels!TypeOK /\ Channels!OneOwnerPerHook /\ Channels!AnswersAsItself

\* A row that is free is taken by one caller (StorageAdapters).
OneTaker == part = "storage" => Storage!TypeOK /\ Storage!OneTaker

\* A credential is the caller's own, as it was saved last (StoredSecrets).
ResolvesToTheNearest == part = "secrets" => Secrets!TypeOK /\ Secrets!ResolvesToTheNearest

\* What a registration leaves is its document, and the actions are those of the document and
\* the overlay (SpecRegistry).
SurfaceIsAsRegistered == part = "registry" => Registry!TypeOK /\ Registry!RegistrationIsTheSurface /\ Registry!ActionsAreTheSurface

\* The history of a run is what happened (RecordingSink).
HistoryIsWhatHappened == part = "recording" => Recording!TypeOK /\ Recording!HistoryIsWhatHappened

\* A where selects the same rows on every adapter (StorageWhere).
StoresSelectAlike == part = "where" => Where!StoresSelectAlike(given)

\* The floor cannot be passed, whatever slices the plugins bring (Policies).
FloorHolds == part = "policies" => Policy!FloorHolds(given)

\* What a call of a tool sends is the operation that was registered (OpenApiTools).
CallsAreTheOperations == part = "openapi" => OpenApi!CallsAreTheOperations(given)
================================================================================
