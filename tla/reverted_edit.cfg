\* An edit that is taken back before the job started for it is recorded.
SPECIFICATION Spec

CONSTANTS
  a = a
  b = b
  c = c
  d = d
  NoHash = NoHash
  Hashes <- TwoHashes
  Specs <- TwoModules
  Defaults <- Filled
  Places <- AllPlaces
  NoPlace = NoPlace
  Environments <- KnownEnvironments
  Existing <- Nothing
  RunNameLength = 12
  HashDigits = 1
  JobTTLSuccess = 0
  JobTTLDestroy = 0
  Int32Half = 1024
  MaxGen = 3
  MaxLives = 1
  MaxWs = 1
  MaxTicks = 0
  BackoffLimit = 1
  ImportID = 0
  UniqueNames = TRUE
  Faults = {}
  MaxFaults = 0
  WebhookOn = FALSE
  MayDelete = FALSE
  MaxLag = 1

INVARIANT LastHashIsLastRun

\* Users may stop and the cluster comes to rest.
CHECK_DEADLOCK FALSE
