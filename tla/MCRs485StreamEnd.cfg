SPECIFICATION FairSpec
CONSTANTS
  h1 = h1
  Handlers = {h1}
  NoHandler = NoHandler
  MaxResults = 1
  Callers = "serial"
  Results = {"data", "driver_error"}
  Statuses = {"OK", "UNAVAILABLE", "INTERNAL"}
PROPERTY StreamEndEndsCall
