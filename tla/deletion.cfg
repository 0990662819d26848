\* Liveness of deletion, when the informer can win its race, with a restart,
\* a pod that fails, a git secret that is missing for a while, a job that is
\* refused or a failed call to Scalr, where the imported workspace is.
SPECIFICATION RacingSpec

CONSTANTS
  a = a
  b = b
  c = c
  d = d
  NoHash = NoHash
  Hashes <- OneHash
  Specs <- OneModule
  Defaults <- Filled
  Places <- AllPlaces
  NoPlace = NoPlace
  Environments <- KnownEnvironments
  Existing <- OneThere
  RunNameLength = 12
  HashDigits = 1
  JobTTLSuccess = 900
  JobTTLDestroy <- Negative
  Int32Half = 1024
  MaxGen = 1
  MaxLives = 1
  MaxWs = 1
  MaxTicks = 0
  BackoffLimit = 0
  ImportID = 1
  UniqueNames = TRUE
  Faults = {"crash", "secret", "pod", "reject", "scalr"}
  MaxFaults = 1
  WebhookOn = FALSE
  MayDelete = TRUE
  MaxLag = 1

INVARIANT TypeOK
INVARIANT QuietOrFailed
PROPERTY FinalizerHeldUntilDestroy
 
PROPERTY DeletionCompletes

\* Users may stop and the cluster comes to rest.
CHECK_DEADLOCK FALSE
