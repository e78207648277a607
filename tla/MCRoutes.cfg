SPECIFICATION Spec
CONSTANTS
  PFM_ROUTE_LPM_MAX_ENTRIES = 2
  Threads = {main, worker}
  Adder = main
  WIDTH = 2
  Gateways = {g1, g2}
  NoGateway = NoGateway
  NoKey = NoKey
INVARIANTS
  RulesLeadToRows
  ReadsOwnRoute
  MapperSound
CHECK_DEADLOCK FALSE
