CONSTANTS
  a = a
  b = b
  none = none
  r1 = r1
  r2 = r2
  r3 = r3
  Users = {a, b}
  FirstAdmins = {a}
  NoUser = none
  MaxDay = 3
  MaxDays = 1
  Requests = {r1, r2, r3}
  Calls <- AllCalls
SPECIFICATION FairSpec
INVARIANTS TierWithinGrants FriendsAreWilling
PROPERTY ExpiredVipEnds PurgedWhenDue BanHolds
CHECK_DEADLOCK FALSE
