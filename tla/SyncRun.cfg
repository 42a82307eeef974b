\* Four repositories, two workers, a sample of two names; the context may be
\* cancelled, which no caller does today but the pool is written for.
SPECIFICATION FairSpec
CONSTANTS
  NumRepos = 4
  NumWorkers = 2
  MaxNames = 2
  Reportable = {1, 2, 3}
  Cancellable = TRUE
INVARIANTS
  EachRepoOnce
  FailuresAccounted
PROPERTIES
  RunReturns
