\* One call over two handles; Created = 0, Expires = 2.
CONSTANTS
  Handles <- MCHandles
  MaxRequested = 2
  MaxAvailable = 2
  NoJwe = NoJwe
  RawRequests <- MCRawRequests
  Answers <- MCAnswers
  RequestId = "r1"
  Created = 0
  Expires = 2
  Accounts <- MCAccounts
  Caller <- MCCaller
  Manifests <- MCManifests
  MaxPuts = 2
SPECIFICATION DiscoverySpec
INVARIANTS
  ListedKeysAreAccepted
  OwnManifestIsListed
  TypeOK
  RenderingNeverFails
  OutputPartitionsRequest
  
PROPERTIES
  ValuesBoundToDecision
\* A call ends: refused, rendered, or never answered.
CHECK_DEADLOCK FALSE
