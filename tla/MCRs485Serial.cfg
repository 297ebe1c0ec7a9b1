SPECIFICATION FairSpec
CONSTANTS
  h1 = h1
  h2 = h2
  Handlers = {h1, h2}
  NoHandler = NoHandler
  MaxResults = 1
  Callers = "serial"
  Results = {"data"}
  Statuses = {"OK", "UNAVAILABLE", "INTERNAL"}
INVARIANTS
  NoFault
  ReturnsClean
  WaitingCallIsFed
PROPERTIES
  PipeSpec
  CancelEndsCall
  DriverLossEndsCall
  EverythingDelivered
