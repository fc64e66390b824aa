CONSTANTS
  Tabs = {t1, t2}
  Gifts = {h}
  Clones = {}
  There = {}
  Refusable = {}
  Timeout = 2
  MaxClock = 2
  MaxSeq = 3
  Reloads = TRUE
  Syncs = TRUE
  Losses = TRUE
  Changes = FALSE
SPECIFICATION Spec
INVARIANTS StoreTrue OneWait
SYMMETRY Symmetry
