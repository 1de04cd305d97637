CONSTANTS
  Codes = {c1}
  Tokens = {t1, t2}
  Creds = {k1}
  Verifiers = {v1}
  Redirects = {u1}
  NoRedirect = NoRedirect
  Exchanges = {x1, x2}
  Lookups = {l1}
  Absent = Absent
  CodeTTL = 1
  TokenTTL = 1
  MaxTime = 3
SPECIFICATION Spec
INVARIANTS
  LiveTokenHonoured
  LiveCodeHonoured
PROPERTIES
  ImplementsGrant
  ExpiredEntriesGo
