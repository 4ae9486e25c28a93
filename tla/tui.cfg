SPECIFICATION FairSpec
CONSTANTS
  ta = ta
  tb = tb
  tc = tc
  tv = tv
  Ids = {ta, tb, tc}
  NoID = NoID
  NoLabel = NoLabel
  Labels <- OneLabel
  NameRank <- Ranks
  Reach <- Names
  FileLen <- Lengths
  ListRows = 1
  MaxText = 2
  Scenes <- AllScenes
INVARIANTS CursorInSight DetailBelongs
PROPERTIES FindAnswersQuery MarksStayInSight AddedInSight CatchesUp 
CHECK_DEADLOCK FALSE
