CONSTANTS
  Calls = {c1}
  MaxItems = 1
SPECIFICATION FairSpec
INVARIANT DriverLossIsUnavailable
