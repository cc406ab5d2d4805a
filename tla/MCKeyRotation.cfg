CONSTANTS
  podA = podA
  podB = podB
  podC = podC
  r1 = r1
  NoPod = NoPod
  Pods = {podA, podB, podC}
  FirstPods = {podA, podB}
  Requests = {r1}
  Timeout = 2
  CosmosTtl = 2
  Grace = 1
  Latency = 1
  LastVersion = 2
  LastCreation = 4
  Horizon = 9
SPECIFICATION Spec
INVARIANTS
  TypeOK
  DisclosureKeyStands
  OfferedKeysEnabled
CHECK_DEADLOCK FALSE
