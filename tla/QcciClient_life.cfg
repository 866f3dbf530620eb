SPECIFICATION FairSpec
CONSTANTS
  Thread = {t1}
  Server = {s1, s2, x}
  Wanted = {s1, s2}
  Mortal = {s1}
  MaxClid = 3
  Env = {"timeout","open_err","alloc_err","call"}
INVARIANTS TypeOK CountsAreHolders UsesAreLive  
PROPERTIES  ReleaseReturns
