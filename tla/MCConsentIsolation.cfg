CONSTANTS
  r1 = r1
  p1 = p1
  p2 = p2
  podA = podA
  podB = podB
  phone = phone
  tablet = tablet
  alice = alice
  k1 = k1
  k2 = k2
  NoJwe = NoJwe
  NoBody = NoBody
  NoDevice = NoDevice
  NoCopy = NoCopy
  Handles = {"name"}
  MaxRequested = 1
  MaxAvailable = 1
  Requests = {r1, r2}
  Posts = {p1}
  Pods = {podA, podB}
  Devices = {phone, other, tablet}
  Accounts = {alice, bob}
  SigningKeys = {k1, k2}
  Asked <- MCAsked
  Owner <- IsolationOwner
  Holder <- IsolationHolder
  PodOf <- IsolationPodOf
  FirstKey <- IsolationFirstKey
  Timeout = 1
  TTL = 1
  Horizon = 1
  r2 = r2
  bob = bob
  other = other
  Bodies <- IsolationBodies
  Budget <- Relinking
SPECIFICATION FairSpec
INVARIANT ReleaseAuthorised
PROPERTIES
  CallsEnd
  PostsEnd
CHECK_DEADLOCK FALSE
