CONSTANTS
  w1 = w1
  w2 = w2
  Students = {sam, lee}
  Courses = {c1}
  Workers = {w1, w2}
  Prices = {1}
  Capacities = {1}
  NewStatuses = {"SUSPENDED"}
  NewCourseStatuses = {"ACTIVE", "ARCHIVED"}
  MaxEnrollments = 2
  MaxLost = 1
  Uncapped = Uncapped
  Null = Null
CHECK_DEADLOCK FALSE
SPECIFICATION Spec
SYMMETRY WorkersAreAlike
INVARIANT SeatsWithinCapacity
