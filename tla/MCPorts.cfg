SPECIFICATION Spec
CONSTANTS
  LinkNames <- TwoLinks
  KniLinks <- KnisOnOne
  Ids = {0, 1}
  MAX_LINK_COUNT = 2
  MAX_KNI_PORTS = 2
CONSTRAINT TakenOnce
INVARIANTS
  LinkFollowsPorts
  CarrierHonest
CHECK_DEADLOCK FALSE
PROPERTIES
  RequestsAnswered
  PacketsRead
