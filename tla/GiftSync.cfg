CONSTANTS
  c1 = c1
  c2 = c2
  k1 = k1
  k2 = k2
  k3 = k3
  Clients = {c1, c2}
  Gifts = {1}
  Cids = {k1, k2}
  Home <- MCHome
  Start <- MCNew
  None = None
  Kept = 5
  Patience = 1
  Hasty = TRUE
  MaxActs = 2
  MaxFaults = 1
  MaxReloads = 0
  MaxEvents = 2
SPECIFICATION Spec
INVARIANTS TypeOK OneCopy CopiesSigned AnsweredOnce
PROPERTIES Replicated
