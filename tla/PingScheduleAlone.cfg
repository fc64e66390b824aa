CONSTANTS
  Sessions = {s1}
  Second = 4
  Keep = 2
  Delay = 1
  Offline = 20
  Old = 32
  Hold = 12
  FirstCycle = 12
  MaxCycle = 16
  Losses = FALSE
  Reloads = FALSE
SPECIFICATION FairSpec
INVARIANTS TypeOK
 
