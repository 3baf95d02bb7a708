CONSTANTS
  h = h
  a = a
  b = b
  c = c
  none = none
  r1 = r1
  r2 = r2
  r3 = r3
  r4 = r4
  r5 = r5
  NoUser = none
  Host = h
  Users = {h, a, b}
  Opponent = a
  DeckAuthor = none
  MaxPlayers = 3
  TotalQuestions = 2
  Themes = {"ALL"}
  Requests = {r1, r2, r3}
  Ops = {"join", "start", "decline", "leave", "state", "kick"}
SPECIFICATION FairSpec
INVARIANTS DuelPrivate
PROPERTY LapsedLobbyCloses
CHECK_DEADLOCK FALSE
