CONSTANTS
  g1 = g1
  giver = giver
  receiver = receiver
  stranger = stranger
  a = a
  b = b
  Gifts = {g1}
  Users = {giver, receiver, stranger}
  KnownUsers = {giver, receiver, stranger}
  FriendsOf <- MCFriendsOf
  ClientSha = {a, b}
  Workers = {w1, w2}
  Batches <- MCBatches
  NoSignature = NoSignature
  Idle = Idle
SPECIFICATION Spec
INVARIANTS TypeOK CreatorKept
PROPERTIES Sha256Readonly
