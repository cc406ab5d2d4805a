CONSTANTS
  p1 = p1
  p2 = p2
  x1 = x1
  podA = podA
  podB = podB
  phone = phone
  alice = alice
  bob = bob
  c1 = c1
  c2 = c2
  k1 = k1
  k2 = k2
  NoBody = NoBody
  NoDevice = NoDevice
  NoCopy = NoCopy
  Puts = {p1, p2}
  Disables = {x1}
  Pods = {podA, podB}
  Devices = {phone}
  Accounts = {alice, bob}
  Keys = {k1, k2}
  Challenges = {c1, c2}
  IssuedTo <- MCIssuedTo
  PodOf <- MCPodOf
  Bodies <- MCBodies
  Lifetime = 2
  Horizon = 3
  Budget <- MCBudget
SPECIFICATION Spec
PROPERTIES
  DisablingOnlyDisables
CHECK_DEADLOCK FALSE
