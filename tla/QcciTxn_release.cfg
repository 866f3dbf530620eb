SPECIFICATION Spec
CONSTANTS
  SyncTxn = {s1}
  AsyncTxn = {a1}
  Data = data
  Releaser = releaser
  NoTxn = NoTxn
  MaxBlocks = 1
  Env = {"release", "busy", "transport_err", "delete", "timeout", "mismatch", "encode_err"}
INVARIANTS NothingForgotten
PROPERTIES NoStrayWrite ImplementsCalls
