SPECIFICATION Spec
CONSTANTS
  r1 = r1
  r2 = r2
  r3 = r3
  u1 = u1
  admin = admin
  p1 = p1
  p2 = p2
  None = None
  Requests <- MCRequests
  Emails = {e1, e2}
  Passwords = {p1, p2}
  Identities = {i1}
  Old = {u1}
  Admin = admin
  Prefix <- MCPrefix
  MaxLoginAttempts = 1
  MaxResetAttempts = 2
  MaxRestarts = 1
SYMMETRY MCSymmetry
INVARIANTS LockoutBounded NewPasswordStands OrphansOnlyIfOverlapping PasswordlessLinked
PROPERTY TokenNotReused
CHECK_DEADLOCK FALSE
