SPECIFICATION Spec
CONSTANTS
  SyncTxn = {s1}
  AsyncTxn = {}
  Data = data
  Releaser = releaser
  NoTxn = NoTxn
  MaxBlocks = 0
  Env = {"death"}
INVARIANT SyncFreedByCaller
