SPECIFICATION Spec
CONSTANTS
  Step = 2
  NoItem = NoItem
  LocalNode = n0
  RemoteNode = {r1}
  Port = {1, 3}
  Service = {1}
  Instance = {1}
  Env = {"repeat"}
  MaxInbox = 2
  MaxLookups = 0
PROPERTY PortRemoved
