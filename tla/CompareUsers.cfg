CONSTANTS
  a = a
  b = b
  ann = ann
  bob = bob
  Servers = {a, b}
  Pingers = {a}
  Persons = {ann, bob}
  Early <- MCEarly
  Online = {bob}
  Batch = 1
  MaxInfo <- MCMaxInfo
  MaxLosses = 1
SPECIFICATION FairSpec
CHECK_DEADLOCK FALSE
PROPERTIES EarlyMatched LateMatched ChangeArrives
INVARIANTS TypeOK SamePerson PseudoAgrees NotStuck
