CONSTANTS
  Tabs = {t1}
  Gifts = {r}
  Clones = {c1, c2}
  There = {r}
  Refusable = {}
  Timeout = 2
  MaxClock = 1
  MaxSeq = 3
  Reloads = TRUE
  Syncs = FALSE
  Losses = TRUE
  Changes = FALSE
SPECIFICATION Spec
INVARIANTS TypeOK StoreTrue CloneTrue AnswerFits OneWait
SYMMETRY Symmetry
