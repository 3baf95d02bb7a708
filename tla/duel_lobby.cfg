CONSTANTS
  h = h
  a = a
  b = b
  c = c
  none = none
  r1 = r1
  r2 = r2
  r3 = r3
  r4 = r4
  r5 = r5
  NoUser = none
  Host = h
  Users = {h, a, b}
  Opponent = none
  DeckAuthor = none
  MaxPlayers = 3
  TotalQuestions = 2
  Themes = {"ALL", "HIST"}
  Requests = {r1, r2, r3}
  Ops = {"join", "start", "decline", "leave", "kick", "toggle", "state", "theme", "delegate"}
SPECIFICATION Spec
SYMMETRY Symmetry
INVARIANTS OneStart LockIsKept
PROPERTY SweepSparesStartedGames
CHECK_DEADLOCK FALSE
