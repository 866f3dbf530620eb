SPECIFICATION FairSpec
CONSTANTS
  Port = {p1, p2}
  NoPort = NoPort
  Slot = {c1, c2}
  Loop = loop
  Remote = {p2}
  MaxQ = 2
  MaxBlocks = 2
  MaxReq = 1
  MaxMsgs = 3
  Env = {"block", "ind", "bye"}
INVARIANTS TypeOK InOrder NothingLost QueueIsTended BusyIsRemembered DepartureIsKnown NoStray
PROPERTIES BusyResumes GoneDisconnects
