SPECIFICATION Spec
CONSTANTS
  Step = 2
  NoItem = NoItem
  LocalNode = n0
  RemoteNode = {}
  Port = {1, 3}
  Service = {1, 2}
  Instance = {1, 2}
  Env = {}
  MaxInbox = 2
  MaxLookups = 2
INVARIANTS TypeOK ObserverView
