CONSTANTS
  r1 = r1
  p1 = p1
  p2 = p2
  podA = podA
  podB = podB
  phone = phone
  tablet = tablet
  alice = alice
  k1 = k1
  k2 = k2
  NoJwe = NoJwe
  NoBody = NoBody
  NoDevice = NoDevice
  NoCopy = NoCopy
  Handles = {"name"}
  MaxRequested = 1
  MaxAvailable = 1
  Requests = {r1}
  Posts = {p1, p2}
  Pods = {podA, podB}
  Devices = {phone}
  Accounts = {alice}
  SigningKeys = {k1, k2}
  Asked <- MCAsked
  Owner <- MCOwner
  Holder <- MCHolder
  PodOf <- MCPodOf
  FirstKey <- MCFirstKey
  Timeout = 1
  TTL = 2
  Horizon = 3
  Bodies <- PhoneBodies
  Budget <- CallTrouble
SPECIFICATION Spec
INVARIANTS
  TypeOK
  SettledOnce
  AnswerIsOnRecord
  AckedDecisionStands
  CallerGoneMeansSettled
PROPERTIES
  ImplementsConsent
CHECK_DEADLOCK FALSE
