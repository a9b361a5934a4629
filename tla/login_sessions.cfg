SPECIFICATION Spec
CONSTANTS
  s1 = s1
  s2 = s2
  s3 = s3
  Browsers = {b1}
  SignIns = {s1, s2, s3}
  AppSignIns = {s2}
  Handoffs = {h1}
  Sessions = {p1, p2, p3}
  Consents = {c1, c2}
  GoogleIds = {g1, g2}
  Requests = {r1, r2}
SYMMETRY Symmetry
INVARIANTS
  TypeOK
  IssuedOnce
  ExchangedOnce
  RevokedHasNothing
PROPERTIES
  CalledUnderSession
