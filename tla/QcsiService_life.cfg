SPECIFICATION Spec
CONSTANTS
  Port = {p1, p2}
  NoPort = NoPort
  Slot = {c1, c2}
  Loop = loop
  Remote = {}
  MaxQ = 1
  MaxBlocks = 0
  MaxReq = 2
  MaxMsgs = 1
  Env = {"ind", "broadcast", "del", "refuse", "reject", "malformed",
         "encode_err", "send_err", "reset", "unregister", "reuse"}
INVARIANTS TxnsOwned
 
SYMMETRY Symmetry
