CONSTANTS
  Tabs = {t1}
  Gifts = {h, r}
  Clones = {}
  There = {r}
  Refusable = {}
  Timeout = 2
  MaxClock = 1
  MaxSeq = 3
  Reloads = TRUE
  Syncs = FALSE
  Losses = TRUE
  Changes = TRUE
SPECIFICATION FairSpec
PROPERTIES EveryActionEnds CreateAnswered
