SPECIFICATION Spec
CONSTANTS
  Requests <- MCRequests
  PageTexts <- MCTexts
  Characters = {"a", "b", "-"}
  Letters = {"a", "b"}
  MaxTerms = 2
  MaxTermLen = 3
  MaxTextLen = 5
  Percent = 66
  MaxChunks = 3
  MaxSide = 3
  MaxPixels = 6
  MaxDepth = 2
  MaxObjects = 3
  MaxExpanded = 4
  MaxPages = 2
  None = None
INVARIANTS TypeOK AcceptedIsPermitted RefusedForCause MatchIsSimilarity
CHECK_DEADLOCK FALSE
