CONSTANTS
  Tenants <- MCTenants
  Interruptions = 2
  Reuse = 3
  MinReuse = 2
  MaxAge = 4
  SendTime = 1
SPECIFICATION RolloutSpec
INVARIANTS
  EndsClosed
  NoOldTokenSent
  RolloutTypeOK
  RequiredPermissionsExist
  LeastPrivilege
  AmbiguityPublishesNothing
  MixedSettingsTrustNobodyElse
  FinishedWorks
  ProbePredictsServer
PROPERTIES
  RegistrationsKept
  RenewedSparingly
  RerunCompletes
