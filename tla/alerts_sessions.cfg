SPECIFICATION Spec
CONSTANTS
  p1 = p1
  p2 = p2
  m1 = m1
  m2 = m2
  s1 = s1
  s2 = s2
  Phones = {p1}
  Members = {m1, m2}
  Sessions = {s1, s2}
  MemberOf <- TwoSessions
  Tokens = {k1, k2}
  Ops = {o1}
  Batch = 1
  MaxAttempts = 1
  MaxTurns = 2
  MaxLate = 0
INVARIANTS
  AlertsBelong
PROPERTIES
  GoodRegistrationsStay
  AlertedOnce
