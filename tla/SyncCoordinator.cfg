\* Two clients and the scheduler compete for mu, one background goroutine at a time.
SPECIFICATION FairSpec
CONSTANTS
  Scheduler = scheduler
  Handlers = {h1, h2}
  Routines = {g1}
  Repos = {r1}
  SyncOnStartup = TRUE
  RunErrors = {"failed repos"}
  NoOne = NoOne
INVARIANTS AtMostOneRun StatusTruthful LastErrorOfLastRun
PROPERTIES SyncsRecur ImplementsAbstractLive
