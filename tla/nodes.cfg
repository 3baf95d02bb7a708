CONSTANTS
  n1 = n1
  n2 = n2
  p1 = p1
  s1 = s1
  s2 = s2
  none = none
  Nodes = {n1, n2}
  MaxOutages = 1
  MaxCuts = 1
  LongOutages = TRUE
  SubErrors = TRUE
  MaxCrashes = 1
  Servers = {n1, n2}
  Users = {p1}
  NoUser = none
  Sockets = {s1, s2}
  Places <- EitherNode
  MaxFaults = 1
SPECIFICATION NodesSpec
INVARIANT AbsentIsWatched
PROPERTY DueIsDone
CHECK_DEADLOCK FALSE
