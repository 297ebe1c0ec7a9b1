SPECIFICATION TabFairSpec
CONSTANTS
  Absent = Absent
  Calls = {c1}
  Requests <- MCRequests
  Refusals = {"REJECTED", "DEADLINE_EXCEEDED", "UNIMPLEMENTED", "INVALID_ARGUMENT", "INTERNAL"}
  Tables = {"ConfigureExchange", "WriteOuSubaddress", "SendRawOuData"}
  TableSize = 2
  Numbers <- MCNumbers
  Cells <- MCCells
  Disks <- MCDisks
  Uint32 = 64
  MaxEdits = 3
  MaxPressed = 1
INVARIANTS
  OuInputIsChecked
  ToldTheTruth
  DriverIsHeard
  Apart
PROPERTIES
  CallReturns
  OkIsWhatWasShown
  SavedIsLoaded
