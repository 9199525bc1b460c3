SPECIFICATION MCSpec
CONSTANTS
  w1 = w1  p1 = p1  p2 = p2  p3 = p3  p4 = p4
  OpIds <- AttemptTokens
  Workers = {w1}
  MaxAttempts = 2
  BatchLimit = 1
  MaxGen = 2
  MaxTokens = 2
  JobAttempts = 2
  Players = {p1, p2, p3, p4}
  Deals <- TwoDeals
  MinPlayers = 4
  Suspects = {p1, p2}
  Leads = {p3}
  Leavers = {p3}
  MaxRounds = 2
  MaxGames = 2
  Nobody = Nobody
INVARIANTS TypesOK NothingStranded PreviewIsServed PreviewIsCurrent
  DeletedLeavesNothing UndecidedGoesOn ChoicesAreFresh HostIsHere
PROPERTIES SettledIsFinal
CHECK_DEADLOCK FALSE
