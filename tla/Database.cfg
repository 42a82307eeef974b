\* Two processes on the file of any release, two deaths, backup and restore.
SPECIFICATION Spec
CONSTANTS
  Processes = {p1, p2}
  OverlapFrom = 6
  MaxRows = 2
  MaxCrashes = 2
SYMMETRY Interchangeable
INVARIANTS
  StartsSucceed
  
  RowsKept
