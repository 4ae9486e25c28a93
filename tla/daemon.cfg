SPECIFICATION FairSpec
CONSTANTS
  Daemons = {d1, d2}
  Files = {f1}
  NoFile = nofile
  Full = 2
  Stops = {s1}
  Attaches = {a1}
  Nobody = nobody
  Attempts = 2
  Scenes <- Apart
INVARIANTS LiveSocket  LeavesNothing 
PROPERTIES FileTaken
CHECK_DEADLOCK FALSE
