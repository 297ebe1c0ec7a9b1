SPECIFICATION Spec
CONSTANTS
  PkuCount = 3
  RkCount = 3
  MaxUint32 = 4
  MaxFaults = 1
  MaxPieces = 2
  Tabs = {g1}
  Others = {c1}
  Plain <- MCPlain
  Macs <- MCMacs
  Addresses <- MCAddresses
  Awkward <- MCAwkward
  NotNumbers <- MCNotNumbers
  Informations <- MCInformations
  RkInputs <- MCRkInputs
  Selections <- MCSelections
  Commands <- MCCommands
  Modes = {0}
  Factory = Factory
  Garbage = Garbage
  Empty = Empty
  Op = Op
  d1 = d1
  d2 = d2
  m1 = m1
  a1 = a1
  a59 = a59
  junk = junk
INVARIANT
  RkIsInMemory
