\* Up to four repositories on pages of three, seven days with weeks of two.
SPECIFICATION ReportSpec
CONSTANTS
  IntMax = 15
  DefaultPerPage = 2
  MaxPerPage = 3
  Week = 2
  Month = 3
  EligibleWindow = 3
  StuckMinimum = 3
  MaxRepos = 4
  MaxTraffic = 2
  LastDay = 7
  MaxFleet = 7
INVARIANTS
  PagesPartition
  H2HFair
  WindowsAgree
  
  FreezeReported
