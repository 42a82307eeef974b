\* Stars change, writes and requests fail, the process dies at any moment of a sync.
SPECIFICATION StarSpec
CONSTANTS
  Users = {u1, u2, u3}
  MaxTime = 4
  TicksPerDay = 2
  MaxFailures = 2
INVARIANTS
  NeverAbovePeak
PROPERTIES
  
  RequestsStop
