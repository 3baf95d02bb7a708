CONSTANTS
  a = a
  b = b
  c = c
  none = none
  w = w
  r1 = r1
  r2 = r2
  r3 = r3
  r4 = r4
  r5 = r5
  Users = {a, b, c}
  NoUser = none
  MaxRewards = 1
  MaxDepth = 2
  RequireActivity = FALSE
  FirstConfig <- NoBonus
  Batch = 1
  Requests = {r1, r2, r3, r4}
  Worker = w
  Ops = {"claim", "complete", "config", "rollback", "serial"}
SPECIFICATION Spec
SYMMETRY Symmetry
INVARIANTS RewardsCapped NoCycle RecordedMeansPaid
CHECK_DEADLOCK FALSE
