CONSTANTS
  Sessions = {s1, s2}
  Second = 2
  Keep = 1
  Delay = 1
  Offline = 8
  Old = 12
  Hold = 4
  FirstCycle = 6
  MaxCycle = 6
  Losses = TRUE
  Reloads = TRUE
SPECIFICATION Spec
INVARIANTS WithinTwoCycles
