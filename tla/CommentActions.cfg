CONSTANTS
  c1 = c1
  author = author
  owner = owner
  other = other
  far = far
  here = here
  elsewhere = elsewhere
  a = a
  b = b
  Comments = {c1}
  Users = {author, owner, other, far}
  KnownUsers = {author, owner, other}
  GiftsHere = {here}
  GiftsElsewhere = {elsewhere}
  GiftSignature <- MCGiftSignature
  ClientSha = {a, b}
  Workers = {w1, w2}
  Batches <- MCCrossing
  NoSignature = NoSignature
  NoGift = NoGift
  Idle = Idle
SPECIFICATION Spec
INVARIANTS TypeOK CreatorKept CreatorDecides
PROPERTIES Sha256Readonly
