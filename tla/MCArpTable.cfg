CONSTANTS
  PFM_ARP_TABLE_ENTRIES = 2
  Ips = {x, y, z}
  Macs = {m, n}
  Workers = {w1}
  NoPos = NoPos
  NoIp = NoIp
  NoMac = NoMac
SPECIFICATION Spec
INVARIANTS
  TypeOK
  TableSound
  CleanReads
PROPERTIES
  AskedFirst
  SilentForgotten
