SPECIFICATION FairSpec
CONSTANTS
  word = word
  Absent = Absent
  NoFile = NoFile
  Tabs = {g1}
  Others = {c1}
  Channels = {0, 1}
  Texts <- MCTexts
  Files = {f1}
  Contents <- MCContents
  RawRequests <- MCRawRequests
  OddAnswers <- MCOddAnswers
  MaxFaults = 1
  MaxEdits = 2
INVARIANTS
  FailureIsTrue
  OncePerPress
PROPERTIES
  SentIsTrue
  PressReturns
