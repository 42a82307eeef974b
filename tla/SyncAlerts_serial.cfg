\* Only the scheduler starts runs, so callbacks do not overlap: rules of every mode.
SPECIFICATION FairAlertSpec
CONSTANTS
  Scheduler = scheduler
  Handlers = {}
  Routines = {}
  Repos = {}
  SyncOnStartup = TRUE
  RunErrors = {"failed repos"}
  NoOne = no_one
  Rules <- SerialRules
  Senders = {"slack"}
  MaxDay = 2
  MaxConsec = 2
INVARIANTS
  ConsecutiveExact
  OncePerDay

  
