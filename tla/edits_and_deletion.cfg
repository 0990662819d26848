\* One edit and a deletion, at any point of each other; the edit moves the
\* workspace to where another's is, or leaves engine and backend out.
\* The name is the longest a run can have and be deleted.
SPECIFICATION Spec

CONSTANTS
  a = a
  b = b
  c = c
  d = d
  NoHash = NoHash
  Hashes <- FourHashes
  Specs <- Moves
  Defaults <- Filled
  Places <- AllPlaces
  NoPlace = NoPlace
  Environments <- KnownEnvironments
  Existing <- Taken
  RunNameLength = 55
  HashDigits = 1
  JobTTLSuccess = 0
  JobTTLDestroy = 0
  Int32Half = 1024
  MaxGen = 2
  MaxLives = 1
  MaxWs = 3
  MaxTicks = 0
  BackoffLimit = 1
  ImportID = 0
  UniqueNames = TRUE
  Faults = {}
  MaxFaults = 0
  WebhookOn = FALSE
  MayDelete = TRUE
  MaxLag = 1

INVARIANT QuietIsSettled
PROPERTY NoApplyAfterDestroy
PROPERTY KeepsPromise
PROPERTY WorkspaceAwaitsDestroy
PROPERTY DeletesOwnWorkspaces

\* Users may stop and the cluster comes to rest.
CHECK_DEADLOCK FALSE
