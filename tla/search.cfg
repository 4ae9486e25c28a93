SPECIFICATION FairSpec
CONSTANTS
  Calls = {c1, c2}
  jk = jk
  rt = rt
  q1 = q1
  q2 = q2
  q3 = q3
  blank = blank
  Aggregators = {jk}
  Site = rt
  Queries = {q1, q2, q3, blank}
  Blank = blank
  Listing <- TwoListings
  Attempts = 2
  MaxEntries = 2
  TTL = 1
  Setups <- FourSetups
  MaxTime = 1
INVARIANTS TypeOK MergeComplete 
PROPERTIES CacheKeeps SearchEnds
CHECK_DEADLOCK FALSE
