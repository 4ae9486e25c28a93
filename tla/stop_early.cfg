SPECIFICATION Spec
CONSTANTS
  Daemons = {d1}
  Files = {}
  NoFile = nofile
  Full = 2
  Stops = {s1}
  Attaches = {}
  Nobody = nobody
  Attempts = 2
  Scenes <- Commands
INVARIANTS StopMeansSaved
CHECK_DEADLOCK FALSE
