SPECIFICATION SendingSpec
CONSTANTS
  h1 = h1
  h2 = h2
  Handlers = {h1, h2}
  NoHandler = NoHandler
  MaxResults = 1
  Callers = "one_client"
  Results = {"data"}
  Statuses = {"UNAVAILABLE"}
PROPERTY SubscriberReceives
