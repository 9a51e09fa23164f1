CONSTANTS
  w1 = w1
  w2 = w2
  Users = {ada}
  Roles = {clerk}
  Codenames = {pay}
  Workers = {w1, w2}
  MaxVersion = 3
  Nobody = Nobody
  Miss = Miss
CHECK_DEADLOCK FALSE
SPECIFICATION Spec
SYMMETRY WorkersAreAlike
INVARIANT StartingFromOneIsSafe
