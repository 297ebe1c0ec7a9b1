SPECIFICATION FairSpec
CONSTANTS
  h1 = h1
  h2 = h2
  Handlers = {h1, h2}
  NoHandler = NoHandler
  MaxResults = 0
  Callers = "many"
  Results = {"data"}
  Statuses = {"UNAVAILABLE", "INTERNAL"}
INVARIANT AtMostOnce
PROPERTY AllCancelledReturn
