CONSTANTS
  Codes = {c1, c2}
  Tokens = {t1}
  Creds = {k1, k2}
  Verifiers = {v1, v2}
  Redirects = {u1, u2}
  NoRedirect = NoRedirect
  Exchanges = {x1}
  Lookups = {}
  Absent = Absent
  CodeTTL = 0
  TokenTTL = 0
  MaxTime = 0
  p1 = p1
  p2 = p2
  v1 = v1
  v2 = v2
  u1 = u1
  u2 = u2
  Pages = {p1, p2}
  Asking <- AskedBy
  Scripted = {p1}
  Posts = {s1, s2}
  k1 = k1
  k2 = k2
  right = right
  Valid = {right}
  InstanceOf <- InstanceOfCreds
SPECIFICATION PageSpec
INVARIANTS
  RedirectIsOwn
  TokenIsVerified
  TokenMatchesFlow
PROPERTIES
  HonestClientServed
  ImplementsPassingGrant
  PageMovesOn
