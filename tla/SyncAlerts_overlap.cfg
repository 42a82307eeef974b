\* A run by POST and a run of the scheduler: their callbacks may overlap.
SPECIFICATION AlertSpec
CONSTANTS
  Scheduler = scheduler
  Handlers = {h1}
  Routines = {g1}
  Repos = {}
  SyncOnStartup = FALSE
  RunErrors = {"failed repos"}
  NoOne = no_one
  Rules <- OneRung
  Senders = {"slack"}
  MaxDay = 1
  MaxConsec = 1
INVARIANTS
  StampedMeansDelivered

  
