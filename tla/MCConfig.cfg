SPECIFICATION Spec
CONSTANTS
  absent = absent
  Absent = absent
  Documents <- MCDocuments
INVARIANTS
  AcceptedCanRun
