CONSTANTS
  MAX_UE_COUNT = 5
  MAX_TUNNEL_COUNT = 10
  Requests <- MCRequests
  LastUeId = 7
  NoRow = NoRow
  NoKey = NoKey
SPECIFICATION Spec
INVARIANTS
  RowForEveryId
  Announced
  RefusedOnlyWhenFull
CHECK_DEADLOCK FALSE
