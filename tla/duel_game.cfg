CONSTANTS
  h = h
  a = a
  b = b
  c = c
  none = none
  r1 = r1
  r2 = r2
  r3 = r3
  r4 = r4
  r5 = r5
  NoUser = none
  Host = h
  Users = {h, a, b}
  Opponent = none
  DeckAuthor = none
  MaxPlayers = 3
  TotalQuestions = 2
  Themes = {"ALL"}
  Requests = {r1, r2, r3}
  Ops = {"answer", "leave", "kick", "advance", "timeout", "start"}
SPECIFICATION GameSpec
SYMMETRY Symmetry
INVARIANTS NoCreditWithoutAnswer PaidWhenOver SurvivorWins LastAnswerConcludes
CHECK_DEADLOCK FALSE
