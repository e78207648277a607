CONSTANTS
  MAX_TUNNEL_COUNT = 3
  LocalIps = {n3, f1u}
  Info = {a}
  NoRow = NoRow
  Absent = Absent
SPECIFICATION Spec
PROPERTIES
  RemovalFreesKey
