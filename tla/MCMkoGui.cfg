SPECIFICATION FairSpec
CONSTANTS
  MaxRuns = 2
  MaxClicks = 4
  MaxItems = 2
INVARIANTS
  ThreadIsOwned
  StopIsNoError
  ButtonTellsTruth
PROPERTIES
  GuiNeverFreezes
  ErrorReachesButton
