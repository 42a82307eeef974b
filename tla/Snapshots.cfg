\* Two referrers over three days, four runs of serve and fetch; days and runs are
\* bounded, so behaviours end.
SPECIFICATION Spec
CONSTANTS
  Items = {google, hn}
  Serve = serve
  Fetch = fetch
  MaxDay = 3
  MaxCount = 2
  MaxRuns = 4
INVARIANTS
  DeltasAgree
PROPERTIES
  HistoryKept
CHECK_DEADLOCK FALSE
