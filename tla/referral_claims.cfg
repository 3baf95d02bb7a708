CONSTANTS
  a = a
  b = b
  c = c
  none = none
  w = w
  r1 = r1
  r2 = r2
  r3 = r3
  r4 = r4
  r5 = r5
  Users = {a, b, c}
  NoUser = none
  MaxRewards = 1
  MaxDepth = 2
  RequireActivity = TRUE
  FirstConfig <- Bonus
  Batch = 2
  Requests = {r1, r2, r3}
  Worker = w
  Ops = {"claim", "complete", "recover"}
SPECIFICATION FairSpec
INVARIANTS WelcomeOnce
PROPERTY ReferrerIsForLife PendingCompletes
CHECK_DEADLOCK FALSE
