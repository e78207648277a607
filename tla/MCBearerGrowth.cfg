CONSTANTS
  MAX_TUNNEL_COUNT = 4
  LocalIps = {"n3", "f1u"}
  Info <- MCInfo
  NoRow = NoRow
  MAX_UE_COUNT = 3
  MAX_PDUS_PER_UE = 2
  MAX_DRB_PER_UE = 2
  CucpIds <- MCCucpIds
  Ids = {0, 1}
  DrbIds = {1, 32}
  F1uIp = "f1u"
  SetupReqs <- GrowthSetups
  ModifyReqs <- GrowthModifies
  ReleaseIds = {}
  RoutedIps <- MCRoutedIps
SPECIFICATION Spec
INVARIANTS
  UeHashSound
  DrbsSound
  GrantsLive
PROPERTIES
  RowsAnnounced
  TunnelsKept
  OthersKept
CHECK_DEADLOCK FALSE
