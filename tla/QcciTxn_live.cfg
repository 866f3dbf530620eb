SPECIFICATION FairSpec
CONSTANTS
  SyncTxn = {s1}
  AsyncTxn = {a1}
  Data = data
  Releaser = releaser
  NoTxn = NoTxn
  MaxBlocks = 1
  Env = {"death", "busy", "service_err", "register"}
INVARIANTS ErrorReportedOnce CompletedOnce
PROPERTIES  AsyncSettles
