CONSTANTS
  Calls = {c1}
  MaxItems = 3
SPECIFICATION FairSpec
PROPERTIES
  PipeSpec
  EndIsDelivered
  CancelEndsCall
  LeavesNothing
  StopCompletes
