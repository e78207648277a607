SPECIFICATION ProgramSpec
CONSTANTS
  Workers = {4, 5}
INVARIANTS
  ExitStatus
  ArpMapperSound
PROPERTIES
  ShutdownExits
CHECK_DEADLOCK FALSE
