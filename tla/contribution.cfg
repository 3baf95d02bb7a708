CONSTANTS
  a = a
  b = b
  m = m
  r1 = r1
  r2 = r2
  r3 = r3
  Users = {a, b, m}
  Author = a
  Admins = {m}
  Comments = {"c1", "c2", "c3"}
  Departing = {a, b}
  MaxText = 3
  Wording <- MCWording
  MaxDay = 2
  Requests = {r1, r2, r3}
  Calls <- AllCalls
  FirstStatus = {"NONE", "DRAFT", "APPROVED"}
SPECIFICATION FairSpec
INVARIANTS ScoreIsVotes ScreenedBeforeReview RepliesAreFlat
PROPERTY PurgedAfterCountdown ExpiredIsPurged
CHECK_DEADLOCK FALSE
