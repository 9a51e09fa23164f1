CONSTANTS
  w1 = w1
  w2 = w2
  Students = {sam}
  Courses = {c1}
  Workers = {w1, w2}
  Prices = {1, 2}
  Capacities = {1}
  NewStatuses = {"ACTIVE", "CANCELLED"}
  NewCourseStatuses = {"ACTIVE", "ARCHIVED"}
  MaxEnrollments = 2
  MaxLost = 1
  Uncapped = Uncapped
  Null = Null
CHECK_DEADLOCK FALSE
SPECIFICATION Spec
SYMMETRY WorkersAreAlike
INVARIANTS
  TypeOK
  OneLiveEnrollment
  ArchivedWhileDated
  StatusesAreOnRecord
PROPERTY IsPlaceRegister
