\* Two repositories, one of them a fork that only a pin brings; three commands.
SPECIFICATION Spec
CONSTANTS
  mine = mine
  fork = fork
  Repos = {mine, fork}
  Forks = {fork}
  Filter <- OwnRepos
  CollectPrivate = TRUE
  ReportPrivate = FALSE
  Unfetched = unfetched
  NoRow = no_row
  FeaturedBefore <- TwoFeatured
  MaxCommands = 3
  MaxMoves = 1
  MaxRuns = 1
INVARIANTS
  
  
  
  ShowcaseOrdered
