CONSTANTS
  c1 = c1
  c2 = c2
  k1 = k1
  k2 = k2
  k3 = k3
  Clients = {c1, c2}
  Gifts = {1}
  Cids = {k1, k2, k3}
  Home <- MCHome
  Start <- MCApart
  None = None
  Kept = 5
  Patience = 1
  Hasty = TRUE
  MaxActs = 1
  MaxFaults = 1
  MaxReloads = 1
  MaxEvents = 1
SPECIFICATION FairSpec
PROPERTIES Quiet Converges
