CONSTANTS
  a = a
  b = b
  c = c
  r1 = r1
  r2 = r2
  r3 = r3
  x1 = x1
  x2 = x2
  k = k
  none = none
  Users = {a, b, c}
  Criteria = "top_3"
  MaxWinners = 0
  Ranking <- MCRanking
  RewardRequests = {r1, r2, r3}
  Ops = {"complete", "distribute", "rollback"}
  Requests = {r1, r2}
  Addresses = {a, b}
  Templates <- MCTemplates
  Keys = {k}
  NoKey = none
  Fates = {{"sent", "bounced"}}
  Exposed = {r1}
  MaxFaults = 1
  Rows = {x1, x2}
  Platforms = {"ANDROID", "IOS"}
  KeyedMails <- Alert
  Known = {a}
  FirstSuppressed = {{a}}
  FirstConfig <- Automatic
  Configs <- AnyConfig
  Calls <- TesterOps
SPECIFICATION BackOfficeSpec
INVARIANTS ClaimsCounted PaidPerClaim HistoryTruthful InvitedWasMailed
PROPERTY UnsubscribeAcked
CHECK_DEADLOCK FALSE
