SPECIFICATION FairSpec
CONSTANTS
  MaxRuns = 2
  MaxClicks = 4
  MaxResults = 2
  Results = {"data"}
  Ends = {"OK", "ERROR"}
INVARIANTS
  ThreadIsOwned
  ButtonTellsTruth
  ErrorNotMasked
PROPERTIES
  QuietAfterStop
  PipeSpec
  GuiNeverFreezes
  EndReachesButton
