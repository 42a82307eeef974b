\* Two syncs over two days; requests read between any two of their commits.
SPECIFICATION Spec
CONSTANTS
  Reports = {{}, {1, 2}, {1, 3}, {1, 2, 3}}
  FirstDay = 2
  LastDay = 3
  TicksPerDay = 2
  MaxSyncs = 2
  Asked = {"views"}
INVARIANTS
  StoredIsLatestAnswer
  ChartIsConfirmed
  QuietRequestExact
