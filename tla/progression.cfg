CONSTANTS
  r1 = r1
  r2 = r2
  r3 = r3
  Requests = {r1, r2, r3}
  Calls <- AllCalls
  Amounts = {0, 2}
  MaxDay = 2
  Thresholds <- MCThresholds
  CoinsUpTo <- MCCoinsUpTo
  GameCoinsUpTo <- MCGameCoinsUpTo
  Milestones = {2}
  Economies <- MCEconomies
  Gifts = {1}
  BadgeTarget = 2
  BadgeXp = 1
SPECIFICATION Spec
SYMMETRY Symmetry
INVARIANTS XpExplained StreakTruthful PaidPerKey LevelPaidOnce
CHECK_DEADLOCK FALSE
