SPECIFICATION Spec
CONSTANTS
  Users <- MCUsers
  Enrollments <- MCEnrollments
  Workers <- MCWorkers
  Amounts = {1}
  Grants <- MCGrants
  StudentOf <- MCStudentOf
  Price <- MCPrice
  MaxId = 2
  MaxAlarms = 1
  Null = Null
  desk = desk
  admin = admin
  e1 = e1
  w1 = w1
  w2 = w2
SYMMETRY WorkersAreAlike
CHECK_DEADLOCK FALSE
INVARIANT CommittedPaymentIsAudited
