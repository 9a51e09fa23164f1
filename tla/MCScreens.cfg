CONSTANTS
  Accounts <- MCAccounts
  Idle = Idle
  Enrolments = {e1, e2}
  MaxAsks = 4
  MaxPresses = 3
  Nothing = Nothing
  Documents <- MCDocuments
  FirstRoom = 4
  NextRoom = 6
SPECIFICATION Spec
CHECK_DEADLOCK FALSE
INVARIANTS
  NewestBalanceStands
  TwiceOnlyAfterALostAnswer
  PagesHold
PROPERTIES
  PagesOpenWhole
  RefusedOnlyForNews
