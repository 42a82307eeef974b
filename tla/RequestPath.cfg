\* Two requests at a time, the cleanup, one crash or failed write.
SPECIFICATION Spec
CONSTANTS
  h1 = h1
  h2 = h2
  a = a
  lo = lo
  Handlers = {h1, h2}
  IPs = {a, lo}
  Loopback = {lo}
  Configs <- ServerConfigs
  Locales = {"en", "es"}
  DefaultLocale = "en"
  NoOne = no_one
  NoIP = no_ip
  NoHeader = no_header
  Garbage = garbage
  Burst = 1
  Rate = 1
  MaxIdle = 2
  Patience = 1
  SessionTTL = 2
  MaxTime = 4
  MaxFailures = 1
SYMMETRY Interchangeable
INVARIANTS
  LimitHolds
  ServedIsSaved
PROPERTIES
  SessionWindow
