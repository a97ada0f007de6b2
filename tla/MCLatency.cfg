SPECIFICATION FairSpec
CONSTANTS
  a = a b = b i1 = i1 i2 = i2
  Others = {a, b}
  Lists <- TwoLists
  ProbeIDs = {i1, i2}
  MaxConns = 2
  Interval = 1
  Timeout = 1
  None = None
INVARIANT TypeOK
PROPERTIES RoundTripsGenuine ProbesEnd NobodyStarves
