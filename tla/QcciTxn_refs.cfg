SPECIFICATION Spec
CONSTANTS
  SyncTxn = {s1}
  AsyncTxn = {a1, a2}
  Data = data
  Releaser = releaser
  NoTxn = NoTxn
  MaxBlocks = 1
  Env = {"busy", "timeout", "delete"}
SYMMETRY Symmetry
INVARIANTS TypeOK RefExact NoUseAfterFree SyncOkIsFilled FifoWire QueueIsTended
