---------------------------- MODULE GiftActions ----------------------------
(* Gift.verify_gifts (src/app/models/gift.rb), the part that signs gifts of  *)
(* this server.  Every ping is handled by one of several worker processes.   *)
(* A worker reads the rows of all gifts in the request with one query, then  *)
(* checks the items of the request one by one against the rows IT READ and   *)
(* writes one column per item.  There is no lock and no transaction around   *)
(* the two, so other workers write between them.                             *)
EXTENDS Sequences

CONSTANTS
  Gifts,          \* gift ids
  Users,          \* user ids a request can name
  KnownUsers,     \* those with a row in the users table
  FriendsOf,      \* FriendsOf[u]: users that are friends of login user u (friend <= 2), u included
  ClientSha,      \* sha256 values calculated by clients
  Workers,        \* server processes
  Batches,        \* the requests: sequences of items
  NoSignature,    \* null
  Idle            \* marks a worker without a request

Actions == {"create", "verify", "accept", "delete"}
Sha     == ClientSha \union {NoSignature}

Item == [gid : Gifts, action : Actions, login : Users,
         sha256 : ClientSha, sha256_accepted : Sha, sha256_deleted : Sha,
         givers : SUBSET Users, receivers : SUBSET Users]

\* A server signature is a hash over the client's one, the direction and the users.
\* Every signature names both lists; the gift signature covers the creators' one only.
Signatures == [sha : ClientSha, direction : {"giver", "receiver"},
               givers : SUBSET Users, receivers : SUBSET Users]

ASSUME BatchesAssumption == Batches \subseteq Seq(Item) \ {<<>>}
ASSUME NoSignatureAssumption == NoSignature \notin Signatures /\ NoSignature \notin ClientSha
ASSUME IdleAssumption == Idle \notin Seq(Item)

VARIABLES
  row,            \* the gifts table
  batch,          \* batch[w]: items worker w has still to handle, or Idle
  seen,           \* seen[w]: the gifts hash of worker w, row as it was read
  granted         \* granted: items answered with verified_at_server true

vars == <<row, batch, seen, granted>>

Columns == {"sha256", "sha256_accepted", "sha256_deleted"}
NoRow   == [c \in Columns |-> NoSignature]
Rows    == [Columns -> Signatures \union {NoSignature}]

Init ==
  /\ row = [g \in Gifts |-> NoRow]
  /\ batch = [w \in Workers |-> Idle]
  /\ seen = [w \in Workers |-> [g \in Gifts |-> NoRow]]
  /\ granted = {}

----------------------------------------------------------------------------
\* The checks, in the order of the code.  i is an item, r the row seen.

Named(sha) == sha # NoSignature

WellFormed(i) ==
  /\ i.givers \union i.receivers # {}
  /\ i.action = "create" => i.givers = {} \/ i.receivers = {}
  /\ i.action = "accept" => i.givers # {} /\ i.receivers # {}
  /\ Named(i.sha256_accepted) => i.action # "create" /\ i.givers # {} /\ i.receivers # {}
  /\ i.action = "accept" => Named(i.sha256_accepted)
  /\ Named(i.sha256_deleted) => i.action \in {"verify", "delete"}
  /\ i.action = "delete" => Named(i.sha256_deleted)

FromFriend(i) ==
  /\ i.givers \union i.receivers \subseteq KnownUsers
  /\ (i.givers \union i.receivers) \intersect FriendsOf[i.login] # {}

Exists(r) == r["sha256"] # NoSignature

GiverSha(i)    == [sha |-> i.sha256, direction |-> "giver", givers |-> i.givers, receivers |-> {}]
ReceiverSha(i) == [sha |-> i.sha256, direction |-> "receiver", givers |-> {}, receivers |-> i.receivers]

GiverMatchAnyCreate(i, r) ==
  i.givers # {} /\ (r["sha256"] = GiverSha(i) \/ i.action = "create")
\* Who created the gift follows from which of the two signatures matches the stored one.
GiverMatch(i, r) ==
  i.givers # {} /\ (r["sha256"] = GiverSha(i) \/ (i.action = "create" /\ ~Exists(r)))
ReceiverMatch(i, r) ==
  i.receivers # {} /\ (r["sha256"] = ReceiverSha(i) \/ (i.action = "create" /\ ~Exists(r)))
Direction(i, r) == IF ReceiverMatch(i, r) THEN "receiver" ELSE "giver"

Sha256(i, r) == IF Direction(i, r) = "receiver" THEN ReceiverSha(i) ELSE GiverSha(i)
ExtendedByGiver(i, r, sha) ==
  [sha |-> sha, direction |-> "giver", givers |-> i.givers, receivers |-> i.receivers]
Extended(i, r, sha) ==
  [sha |-> sha, direction |-> Direction(i, r), givers |-> i.givers, receivers |-> i.receivers]

AcceptedOkAgain(i, r) ==
  IF Named(i.sha256_accepted)
  THEN /\ i.action = "accept" => r["sha256_deleted"] = NoSignature
       /\ r["sha256_accepted"] = Extended(i, r, i.sha256_accepted) \/ i.action = "accept"
  ELSE ~(i.action = "delete" /\ r["sha256_accepted"] # NoSignature)
AcceptedOkDeleted(i, r) ==
  IF Named(i.sha256_accepted)
  THEN \/ r["sha256_accepted"] = Extended(i, r, i.sha256_accepted)
       \/ r["sha256_accepted"] = NoSignature /\ i.action = "accept"
  ELSE ~(i.action = "delete" /\ r["sha256_accepted"] # NoSignature)
AcceptedOk(i, r) ==
  IF Named(i.sha256_accepted)
  THEN /\ i.action = "accept" => r["sha256_deleted"] = NoSignature
       /\ \/ r["sha256_accepted"] = Extended(i, r, i.sha256_accepted)
          \/ r["sha256_accepted"] = NoSignature /\ i.action = "accept"
  ELSE ~(i.action = "delete" /\ r["sha256_accepted"] # NoSignature)

DeletedOkAgain(i, r) ==
  Named(i.sha256_deleted) =>
    /\ r["sha256_accepted"] # NoSignature => Named(i.sha256_accepted)
    /\ r["sha256_deleted"] = Extended(i, r, i.sha256_deleted) \/ i.action = "delete"
DeletedOk(i, r) ==
  Named(i.sha256_deleted) =>
    /\ r["sha256_accepted"] # NoSignature => Named(i.sha256_accepted)
    /\ \/ r["sha256_deleted"] = Extended(i, r, i.sha256_deleted)
       \/ r["sha256_deleted"] = NoSignature /\ i.action = "delete"

Valid(i, r) ==
  /\ WellFormed(i)
  /\ FromFriend(i)
  /\ i.action # "create" => Exists(r)
  /\ GiverMatch(i, r) \/ ReceiverMatch(i, r)
  /\ AcceptedOk(i, r)
  /\ DeletedOk(i, r)

----------------------------------------------------------------------------
Busy(w)    == batch[w] # Idle
Current(w) == Head(batch[w])
Seen(w)    == seen[w][Current(w).gid]

Valid1(w, action) == Busy(w) /\ Current(w).action = action /\ Valid(Current(w), Seen(w))

\* One query reads the rows of every gift in the request.
Read(w) ==
  /\ ~Busy(w)
  /\ \E b \in Batches : batch' = [batch EXCEPT ![w] = b]
  /\ seen' = [seen EXCEPT ![w] = row]
  /\ UNCHANGED <<row, granted>>

AnswerLast(w) == batch' = [batch EXCEPT ![w] = Tail(batch[w])]
\* One item is answered: the next one, or the worker is free.
Answer(w) == batch' = [batch EXCEPT ![w] = IF Tail(batch[w]) = <<>> THEN Idle ELSE Tail(batch[w])]

Grant(w) == Answer(w) /\ granted' = granted \union {Current(w)}

\* A write touches one column of one row.
Write(table, g, column, s) == [table EXCEPT ![g] = [table[g] EXCEPT ![column] = s]]

\* save! and update_attribute write the column only if it changes in the object in memory.
Save(w, column, s) ==
  row' = IF Seen(w)[column] = s THEN row ELSE Write(row, Current(w).gid, column, s)

Update(w, column, s) ==
  /\ Save(w, column, s)
  /\ seen' = [seen EXCEPT ![w] = Write(seen[w], Current(w).gid, column, s)]

\* Gift.new when the gift was not seen, else the same signature again.  A new gift is not
\* added to the gifts hash: a later item of the request still does not see it.
Create(w) ==
  /\ Valid1(w, "create")
  /\ Exists(Seen(w)) \/ ~Exists(row[Current(w).gid])
  /\ Save(w, "sha256", Sha256(Current(w), Seen(w)))
  /\ Grant(w)
  /\ UNCHANGED seen

\* gid is unique: another worker created the gift after it was looked up.  save! raises
\* and the rest of the request is not handled.
CreateConflict(w) ==
  /\ Valid1(w, "create")
  /\ ~Exists(Seen(w)) /\ Exists(row[Current(w).gid])
  /\ batch' = [batch EXCEPT ![w] = Idle]
  /\ UNCHANGED <<row, seen, granted>>

Verify(w) ==
  /\ Valid1(w, "verify")
  /\ Grant(w)
  /\ UNCHANGED <<row, seen>>

Accept(w) ==
  /\ Valid1(w, "accept")
  /\ Update(w, "sha256_accepted", Extended(Current(w), Seen(w), Current(w).sha256_accepted))
  /\ Grant(w)

Delete(w) ==
  /\ Valid1(w, "delete")
  /\ Update(w, "sha256_deleted", Extended(Current(w), Seen(w), Current(w).sha256_deleted))
  /\ Grant(w)

\* An item that fails a check is answered with verified_at_server false.
Reject(w) ==
  /\ Busy(w) /\ ~Valid(Current(w), Seen(w))
  /\ Answer(w)
  /\ UNCHANGED <<row, seen, granted>>

Next == \E w \in Workers :
  Read(w) \/ Create(w) \/ CreateConflict(w) \/ Verify(w) \/ Accept(w) \/ Delete(w) \/ Reject(w)

Spec == Init /\ [][Next]_vars

----------------------------------------------------------------------------
\* The table, the requests being handled and the objects in memory are what they should be.
TypeOK ==
  /\ row \in [Gifts -> Rows]
  /\ batch \in [Workers -> (Seq(Item) \ {<<>>}) \union {Idle}]
  /\ seen \in [Workers -> [Gifts -> Rows]]
  /\ granted \subseteq Item

\* The sha256 signature of a gift, once stored, never changes (gift.rb:22 "readonly"),
\* although every create writes it and several workers create the same gift at once.
Sha256Readonly ==
  [][\A g \in Gifts : Exists(row[g]) => row'[g]["sha256"] = row[g]["sha256"]]_vars

\* The signature of the closed deal and the signature of the deletion name as creator
\* (direction and users) whoever the sha256 signature names: nobody accepts or deletes
\* a gift under another creator, in whatever order workers read and write.
SameCreator(s, t) ==
  /\ t.direction = s.direction
  /\ IF s.direction = "giver" THEN t.givers = s.givers ELSE t.receivers = s.receivers
CreatorKept ==
  \A g \in Gifts : \A c \in {"sha256_accepted", "sha256_deleted"} :
    row[g][c] # NoSignature => Exists(row[g]) /\ SameCreator(row[g]["sha256"], row[g][c])

\* What an item that was answered with true has put in the table is still there.
Holds(i, r) ==
  /\ i.action \in {"create", "verify", "accept", "delete"} =>
       r["sha256"] \in {GiverSha(i), ReceiverSha(i)}
  /\ i.action = "accept" => r["sha256_accepted"] # NoSignature /\ r["sha256_accepted"].sha = i.sha256_accepted
  /\ i.action = "delete" => r["sha256_deleted"] # NoSignature /\ r["sha256_deleted"].sha = i.sha256_deleted
GrantedHolds == \A i \in granted : Holds(i, row[i.gid])

\* The deletion of a gift whose deal is closed names the giver and the receiver of the deal,
\* so that the deletion cannot be signed for other users than the deal (gift.rb:726,752).
DeletedDeal ==
  \A g \in Gifts : row[g]["sha256_accepted"] # NoSignature /\ row[g]["sha256_deleted"] # NoSignature =>
    /\ row[g]["sha256_deleted"].givers = row[g]["sha256_accepted"].givers
    /\ row[g]["sha256_deleted"].receivers = row[g]["sha256_accepted"].receivers

\* The promise of the table, for one worker at a time.
Record == INSTANCE GiftRecord
RecordSpec == Record!Spec
============================================================================
