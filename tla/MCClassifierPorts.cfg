SPECIFICATION Spec
CONSTANTS
  Links = {0, 1}
  Configured <- ThreePorts
  Ips = {"NGu0", "NGu1", "F1u0"}
  UdpPorts = {2152}
  Broadcast = "255.255.255.255"
  NotUdp = 0
  RX_BURST_SIZE = 3
  NoKni = NoKni
INVARIANTS
  OthersToOwnPort
CHECK_DEADLOCK FALSE
