CONSTANTS
  a = a
  b = b
  c = c
  none = none
  r1 = r1
  r2 = r2
  r3 = r3
  r4 = r4
  r5 = r5
  r6 = r6
  Users = {a, b}
  NoUser = none
  MaxParticipants = 1
  EnableWaitlist = FALSE
  WaitlistCapacity = 0
  OpenAccess = TRUE
  Deadline = 1
  FirstStatus = "SCHEDULED"
  AdminStatuses = {"SCHEDULED", "PUBLISHED", "CANCELLED"}
  Requests = {r1, r2, r3}
  Ops = {"participate", "progress", "status", "clock", "cron"}
  Serial = FALSE
SPECIFICATION FairSpec
INVARIANTS CounterMatches
PROPERTY ScheduledStarts
CHECK_DEADLOCK FALSE
