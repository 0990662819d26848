\* Edits between a module applied once and one applied at an interval, under
\* a name so long that all jobs share one, with a restart; the workspace is
\* imported.
SPECIFICATION FairSpec

CONSTANTS
  a = a
  b = b
  c = c
  d = d
  NoHash = NoHash
  Hashes <- TwoHashes
  Specs <- Schedules
  Defaults <- Filled
  Places <- AllPlaces
  NoPlace = NoPlace
  Environments <- KnownEnvironments
  Existing <- OneThere
  RunNameLength = 57
  HashDigits = 1
  JobTTLSuccess = 0
  JobTTLDestroy = 0
  Int32Half = 1024
  MaxGen = 2
  MaxLives = 1
  MaxWs = 1
  MaxTicks = 1
  BackoffLimit = 1
  ImportID = 1
  UniqueNames = TRUE
  Faults = {"crash"}
  MaxFaults = 1
  WebhookOn = FALSE
  MayDelete = FALSE
  MaxLag = 1

INVARIANT QuietIsSettled
INVARIANT LastHashIsLastRun
PROPERTY LastSpecApplied

\* Users may stop and the cluster comes to rest.
CHECK_DEADLOCK FALSE
