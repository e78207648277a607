CONSTANTS
  MAX_TUNNEL_COUNT = 3
  LocalIps = {f1u}
  Info = {a, b}
  NoRow = NoRow
  Absent = Absent
SPECIFICATION Spec
CONSTRAINT Kept
INVARIANTS
  TypeOK
  KeyMatchesRow
  NoRowLeak
  UniqueNewKeys
PROPERTIES
  CommittedRowsFrozen
  ImplementsStore
