CONSTANTS
  MAX_TUNNEL_COUNT = 3
  LocalIps = {"n3"}
  Info <- MCInfo
  NoRow = NoRow
  MAX_UE_COUNT = 2
  MAX_PDUS_PER_UE = 1
  MAX_DRB_PER_UE = 2
  CucpIds <- MCCucpIds
  Ids = {0, 1, 33}
  DrbIds = {1}
  F1uIp = "n3"
  SetupReqs <- AllSetups
  ModifyReqs <- AllModifies
  ReleaseIds <- UeIds
  RoutedIps <- MCRoutedIps
SPECIFICATION Spec
INVARIANTS
  TypeOK
PROPERTIES
  SetupOnlyAdds
CHECK_DEADLOCK FALSE
