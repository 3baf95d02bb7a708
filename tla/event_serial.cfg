CONSTANTS
  a = a
  b = b
  c = c
  none = none
  r1 = r1
  r2 = r2
  r3 = r3
  r4 = r4
  r5 = r5
  r6 = r6
  Users = {a, b, c}
  NoUser = none
  MaxParticipants = 1
  EnableWaitlist = TRUE
  WaitlistCapacity = 1
  OpenAccess = FALSE
  Deadline = 1
  FirstStatus = "PUBLISHED"
  AdminStatuses = {"ACTIVE"}
  Requests = {r1, r2, r3, r4, r5, r6}
  Ops = {"participate", "cancel", "adminCancel", "delete"}
  Serial = TRUE
SPECIFICATION Spec
SYMMETRY Symmetry
PROPERTY HistoryIsKept ImplementsSeatAllocation
CHECK_DEADLOCK FALSE
