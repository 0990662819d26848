\* An edit to a provider that is not supported, or from it, with one fault
\* of any kind that an event announces.
SPECIFICATION Spec

CONSTANTS
  a = a
  b = b
  c = c
  d = d
  NoHash = NoHash
  Hashes <- ThreeHashes
  Specs <- OneProvider
  Defaults <- Filled
  Places <- AllPlaces
  NoPlace = NoPlace
  Environments <- KnownEnvironments
  Existing <- Nothing
  RunNameLength = 12
  HashDigits = 1
  JobTTLSuccess = 0
  JobTTLDestroy = 0
  Int32Half = 1024
  MaxGen = 2
  MaxLives = 1
  MaxWs = 2
  MaxTicks = 0
  BackoffLimit = 1
  ImportID = 0
  UniqueNames = TRUE
  Faults = {"crash", "scalr", "reject", "vanish", "pod"}
  MaxFaults = 1
  WebhookOn = FALSE
  MayDelete = FALSE
  MaxLag = 1

INVARIANT QuietIsSettled
INVARIANT StatusNamesCreatedJobs
INVARIANT ReadyNamesWorkspace
PROPERTY WorkspaceRemembered

\* Users may stop and the cluster comes to rest.
CHECK_DEADLOCK FALSE
