\* Three users, pages of one star, two calls, a webhook before a mail server.
SPECIFICATION Spec
CONSTANTS
  Users = {u1, u2, u3}
  PageSize = 1
  MaxAttempts = 3
  PostAttempts = 2
  SinkTypes <- TwoSinks
  MaxChanges = 3
  MaxCalls = 2
INVARIANTS
  PagesAreWhole
  FanOutTruthful
PROPERTIES
  NoRetryAfterShutdown
  CallsReturn
CHECK_DEADLOCK FALSE
