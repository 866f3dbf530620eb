SPECIFICATION Spec
CONSTANTS
  Port = {p1, p2}
  NoPort = NoPort
  Slot = {c1, c2}
  Loop = loop
  Remote = {}
  MaxQ = 1
  MaxBlocks = 1
  MaxReq = 1
  MaxMsgs = 0
  Env = {"block", "reject"}
INVARIANTS NoStray
