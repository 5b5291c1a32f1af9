SPECIFICATION Spec
CONSTANTS
  long = long
  short = short
  empty = empty
  Ids = {a}
  Puts = {long, short, empty}
  Gets = {g}
  Size <- MCSize
  Hole = hole
  NoPut = nobody
  MaxFaults = 2
INVARIANTS
  TypeOK
  ReadsWhatWasPut
  MetadataMarksComplete
CHECK_DEADLOCK FALSE
