--------------------------- MODULE CommentActions ---------------------------
(* Comment.verify_comments (src/app/models/comment.rb), the part that signs   *)
(* comments of this server: new ones, decisions about deal proposals (cancel,  *)
(* accept, reject) and deletions.  As in GiftActions a worker checks the items *)
(* of a request against the rows it has read before.  A decision about a gift  *)
(* of another server first becomes a question to that server; the item is      *)
(* repeated when the answer comes (src/app/models/server.rb, 1924-2114).       *)
(* An exception loses the answers of the whole request, not what it has done. *)
EXTENDS Integers, Sequences

CONSTANTS
  Comments,       \* comment ids
  Users,          \* user ids a request can name
  KnownUsers,     \* those with a row in the users table of this server
  GiftsHere,      \* gifts of this server
  GiftsElsewhere, \* gifts of other servers
  GiftSignature,  \* GiftSignature[g]: what the server of gift g has stored in column sha256
  ClientSha,      \* sha256 values calculated by clients
  Workers,        \* server processes
  Batches,        \* the requests: sequences of items (one with the same seq twice is refused at once)
  NoSignature,    \* null
  NoGift,         \* an item without gift hash
  Idle            \* marks a worker without a request

Actions == {"create", "verify", "cancel", "accept", "reject", "delete"}
Sha     == ClientSha \union {NoSignature}
Gifts   == GiftsHere \union GiftsElsewhere

GiftHash == [gid : Gifts, sha256 : ClientSha, givers : SUBSET Users, receivers : SUBSET Users]

\* logins are the users of the session, actors is new_deal_action_by_user_ids.
Item == [seq : Int, cid : Comments, action : Actions, logins : SUBSET KnownUsers,
         users : SUBSET Users, actors : SUBSET Users,
         sha256 : ClientSha, sha256_action : Sha, sha256_deleted : Sha,
         gift : GiftHash \union {NoGift}]
Items == UNION {{b[n] : n \in DOMAIN b} : b \in Batches}

\* All three server signatures of a comment name its creators.
Signatures     == [sha : ClientSha, users : SUBSET Users]
GiftSignatures == [sha : ClientSha, direction : {"giver", "receiver"}, users : SUBSET Users]

ASSUME BatchesAssumption == Batches \subseteq Seq(Item) \ {<<>>}
ASSUME SeqAssumption ==
  \A request \in Batches : \A m, n \in DOMAIN request : request[m].seq = request[n].seq => m = n
ASSUME GiftSignatureAssumption == GiftSignature \in [Gifts -> GiftSignatures \union {NoSignature}]
ASSUME NoSignatureAssumption ==
  NoSignature \notin Signatures /\ NoSignature \notin GiftSignatures /\ NoSignature \notin ClientSha
ASSUME IdleAssumption == Idle \notin Seq(Item)

VARIABLES
  row,            \* the comments table
  batch,          \* batch[w]: items worker w has still to handle, or Idle
  seen,           \* seen[w]: the comments hash of worker w, row as it was read
  answers,        \* answers[w]: items of the request that will be answered with true
  questions,      \* questions[w]: items whose question is sent when the request is handled
  granted,        \* items answered with verified_at_server true
  asked           \* asked[i]: the rows of verify_comments and verify_gifts for item i, found by
                  \* its JSON text, seq included: no two items differ in their logins only

vars == <<row, batch, seen, answers, questions, granted, asked>>

Columns == {"sha256", "sha256_action", "sha256_deleted"}
NoRow   == [c \in Columns |-> NoSignature]
Rows    == [Columns -> Signatures \union {NoSignature}]
Asked   == {"none", "saved", "sent", "false", "giver", "receiver"}

Init ==
  /\ row = [c \in Comments |-> NoRow]
  /\ batch = [w \in Workers |-> Idle]
  /\ seen = [w \in Workers |-> [c \in Comments |-> NoRow]]
  /\ answers = [w \in Workers |-> {}]
  /\ questions = [w \in Workers |-> {}]
  /\ granted = {}
  /\ asked = [i \in Items |-> "none"]

----------------------------------------------------------------------------
\* The checks.  i is an item, r the row seen.

Named(sha) == sha # NoSignature
Exists(r)  == Named(r["sha256"])

Decides(i)  == i.action \in {"cancel", "accept", "reject"}
OnGift(i)   == i.action \in {"accept", "reject"}
\* comment_and_login_user_ids
Logged(i)   == i.users \intersect i.logins
\* gift_hash_required: otherwise a gift hash is ignored.
NeedsGift(i) == OnGift(i) \/ (i.action = "delete" /\ Logged(i) = {})
Elsewhere(i) == i.gift.gid \in GiftsElsewhere

WellFormedUnsigned(i) ==
  /\ i.seq >= 0
  /\ i.users # {}
  /\ Decides(i) => Named(i.sha256_action) /\ i.actors # {}
  /\ i.action = "create" => ~Named(i.sha256_action) /\ i.actors = {}
  /\ Named(i.sha256_action) <=> i.actors # {}
  /\ Named(i.sha256_deleted) => i.action \in {"verify", "delete"}
WellFormed(i) ==
  /\ i.seq >= 0
  /\ i.users # {}
  /\ Decides(i) => Named(i.sha256_action) /\ i.actors # {}
  /\ i.action = "create" => ~Named(i.sha256_action) /\ i.actors = {}
  /\ Named(i.sha256_action) <=> i.actors # {}
  /\ Named(i.sha256_deleted) => i.action \in {"verify", "delete"}
  /\ i.action = "delete" => Named(i.sha256_deleted)

MayAct(i) ==
  /\ i.users \union i.actors \subseteq KnownUsers
  /\ i.action = "create" => i.users \subseteq i.logins
  /\ i.action = "cancel" => Logged(i) \intersect i.actors # {}

\* Users of a gift of another server may be unknown here.
GiftFormed(i) ==
  NeedsGift(i) =>
    /\ i.gift # NoGift
    /\ i.gift.givers \union i.gift.receivers # {}
    /\ OnGift(i) => i.gift.givers = {} \/ i.gift.receivers = {}
    /\ Elsewhere(i) \/ i.gift.givers \union i.gift.receivers \subseteq KnownUsers

Complete(i) == WellFormed(i) /\ MayAct(i) /\ GiftFormed(i)

\* giver_receiver_is_login_user
Party(i) == (i.gift.givers \union i.gift.receivers) \intersect i.logins # {}

Creators(gift, direction) == IF direction = "giver" THEN gift.givers ELSE gift.receivers

\* The direction under which the gift hash has the signature that is stored.
Directions(gift) ==
  {d \in {"giver", "receiver"} :
     /\ Creators(gift, d) # {}
     /\ GiftSignature[gift.gid] = [sha |-> gift.sha256, direction |-> d, users |-> Creators(gift, d)]}

GiftAllows(i) ==
  \E d \in Directions(i.gift) :
    OnGift(i) => Creators(i.gift, d) \intersect i.logins \intersect i.actors # {}

AnswerAllowsFalse(i) ==
  /\ asked[i] \in {"false", "giver", "receiver"}
  /\ OnGift(i) => Creators(i.gift, asked[i]) \intersect i.logins # {}
\* The actors are not compared once more when the gift is elsewhere (todo in line 806).
AnswerAllows(i) ==
  /\ asked[i] \in {"giver", "receiver"}
  /\ OnGift(i) => Creators(i.gift, asked[i]) \intersect i.logins # {}

Authorized(i) ==
  /\ Complete(i)
  /\ NeedsGift(i) => Party(i) /\ IF Elsewhere(i) THEN AnswerAllows(i) ELSE GiftAllows(i)

\* The gift is elsewhere, and its server has not been asked.
Asks(i) == Complete(i) /\ NeedsGift(i) /\ Party(i) /\ Elsewhere(i) /\ asked[i] = "none"

Signature(i, sha) == [sha |-> sha, users |-> i.users]

MatchesDecision(i, r) ==
  IF Exists(r) THEN r["sha256"] = Signature(i, i.sha256) \/ Decides(i) ELSE i.action = "create"
Matches(i, r) ==
  IF Exists(r) THEN r["sha256"] = Signature(i, i.sha256) ELSE i.action = "create"

ActionOkAgain(i, r) ==
  IF Named(i.sha256_action)
  THEN /\ ~Decides(i) => r["sha256_action"] = Signature(i, i.sha256_action)
       /\ Decides(i) => ~Named(r["sha256_deleted"])
  ELSE i.action = "delete" => ~Named(r["sha256_action"])
ActionOkDeleted(i, r) ==
  IF Named(i.sha256_action)
  THEN \/ r["sha256_action"] = Signature(i, i.sha256_action)
       \/ Decides(i) /\ ~Named(r["sha256_action"])
  ELSE i.action = "delete" => ~Named(r["sha256_action"])
\* A signature in the request must be the stored one, or become the stored one.
ActionOk(i, r) ==
  IF Named(i.sha256_action)
  THEN /\ \/ r["sha256_action"] = Signature(i, i.sha256_action)
          \/ Decides(i) /\ ~Named(r["sha256_action"])
       /\ Decides(i) => ~Named(r["sha256_deleted"])
  ELSE i.action = "delete" => ~Named(r["sha256_action"])

DeletedOk(i, r) ==
  Named(i.sha256_deleted) =>
    /\ i.action # "delete" => Named(r["sha256_deleted"])
    /\ Named(r["sha256_action"]) => Named(i.sha256_action)

\* A deletion that differs from the stored one is answered with an error, but not left out.
DeletedMatches(i, r) ==
  Named(i.sha256_deleted) =>
    \/ r["sha256_deleted"] = Signature(i, i.sha256_deleted)
    \/ i.action = "delete" /\ ~Named(r["sha256_deleted"])

Valid(i, r) == Authorized(i) /\ Matches(i, r) /\ ActionOk(i, r) /\ DeletedOk(i, r)

----------------------------------------------------------------------------
Busy(w)    == batch[w] # Idle
Current(w) == Head(batch[w])
Seen(w)    == seen[w][Current(w).cid]

Valid1(w, actions) == Busy(w) /\ Current(w).action \in actions /\ Valid(Current(w), Seen(w))

\* A worker takes a request: one query reads the rows of all its comments.
Begin(w, b) ==
  /\ ~Busy(w)
  /\ batch' = [batch EXCEPT ![w] = b]
  /\ seen' = [seen EXCEPT ![w] = row]
  /\ UNCHANGED <<row, answers, questions, granted>>

Read(w) == \E b \in Batches : Begin(w, b) /\ UNCHANGED asked

\* The answer of the gift's server comes: it is saved, and the item is handled once more.
ReceiveGiftAnswer(w) ==
  \E i \in {j \in Items : asked[j] = "sent"} : \E answer \in Directions(i.gift) \union {"false"} :
    /\ Begin(w, <<i>>)
    /\ asked' = [asked EXCEPT ![i] = answer]

\* One item is handled with a positive answer (if a = {Current(w)}) or a question (if q is).
\* After the last one the response goes out, and the questions are sent.
Answer(w, a, q) ==
  LET last == Tail(batch[w]) = <<>>
      toAnswer == answers[w] \union a
      toAsk == questions[w] \union q
  IN /\ batch' = [batch EXCEPT ![w] = IF last THEN Idle ELSE Tail(batch[w])]
     /\ answers' = [answers EXCEPT ![w] = IF last THEN {} ELSE toAnswer]
     /\ questions' = [questions EXCEPT ![w] = IF last THEN {} ELSE toAsk]
     /\ granted' = IF last THEN granted \union toAnswer ELSE granted
     /\ asked' = [i \in Items |->
                    IF last /\ i \in toAsk THEN "sent" ELSE IF i \in q THEN "saved" ELSE asked[i]]

Grant(w) == Answer(w, {Current(w)}, {})

\* An exception ends the request: it is answered with an error only, no question is sent.
Abort(w) ==
  /\ batch' = [batch EXCEPT ![w] = Idle]
  /\ answers' = [answers EXCEPT ![w] = {}]
  /\ questions' = [questions EXCEPT ![w] = {}]
  /\ UNCHANGED <<granted, asked>>

Write(table, c, column, s) == [table EXCEPT ![c] = [table[c] EXCEPT ![column] = s]]

\* update_attribute writes the column only if it changes in the object in memory.
Update(w, column, s) ==
  /\ row' = IF Seen(w)[column] = s THEN row ELSE Write(row, Current(w).cid, column, s)
  /\ seen' = [seen EXCEPT ![w] = Write(seen[w], Current(w).cid, column, s)]

CreateTwice(w) ==
  /\ Valid1(w, {"create"})
  /\ ~Exists(Seen(w))
  /\ row' = Write(row, Current(w).cid, "sha256", Signature(Current(w), Current(w).sha256))
  /\ Grant(w)
  /\ UNCHANGED seen
Create(w) ==
  /\ Valid1(w, {"create"})
  /\ ~Exists(Seen(w)) /\ ~Exists(row[Current(w).cid])
  /\ row' = Write(row, Current(w).cid, "sha256", Signature(Current(w), Current(w).sha256))
  /\ Grant(w)
  /\ UNCHANGED seen

Verify(w) ==
  /\ Valid1(w, {"verify"})
  /\ DeletedMatches(Current(w), Seen(w))
  /\ Grant(w)
  /\ UNCHANGED <<row, seen>>

\* cancel, accept and reject
Decide(w) ==
  /\ Valid1(w, {"cancel", "accept", "reject"})
  /\ Update(w, "sha256_action", Signature(Current(w), Current(w).sha256_action))
  /\ Grant(w)

\* A second, different deletion is written too: the second answer to its seq raises afterwards.
Delete(w) ==
  /\ Valid1(w, {"delete"})
  /\ Update(w, "sha256_deleted", Signature(Current(w), Current(w).sha256_deleted))
  /\ IF DeletedMatches(Current(w), Seen(w)) THEN Grant(w) ELSE Abort(w)

Ask(w) ==
  /\ Busy(w) /\ Asks(Current(w))
  /\ Answer(w, {}, {Current(w)})
  /\ UNCHANGED <<row, seen>>

\* A deletion by somebody who has to do with neither comment nor gift: the error message is
\* built with an undefined name.
Outsider(i) == i.action = "delete" /\ Complete(i) /\ NeedsGift(i) /\ ~Party(i)

\* A create of a comment that is there: found before (c is nil) or not (cid is unique).
Again(w) == Valid1(w, {"create"}) /\ (Exists(Seen(w)) \/ Exists(row[Current(w).cid]))

\* A deletion signature to verify is wrong: the item is answered twice.
WrongDeletion(w) == Valid1(w, {"verify"}) /\ ~DeletedMatches(Current(w), Seen(w))

Raise(w) ==
  /\ Busy(w)
  /\ Outsider(Current(w)) \/ Again(w) \/ WrongDeletion(w)
  /\ Abort(w)
  /\ UNCHANGED <<row, seen>>

\* An item that fails a check is answered with verified_at_server false.
Refuse(w) ==
  /\ Busy(w)
  /\ ~Valid(Current(w), Seen(w)) /\ ~Asks(Current(w)) /\ ~Outsider(Current(w))
  /\ Answer(w, {}, {})
  /\ UNCHANGED <<row, seen>>

Next == \E w \in Workers :
  \/ Read(w) \/ ReceiveGiftAnswer(w)
  \/ Create(w) \/ Verify(w) \/ Decide(w) \/ Delete(w) \/ Ask(w) \/ Raise(w) \/ Refuse(w)

Spec == Init /\ [][Next]_vars

----------------------------------------------------------------------------
\* The tables, the requests being handled and the objects in memory are what they should be;
\* a question is in one request, until it is sent or forgotten.
TypeOK ==
  /\ row \in [Comments -> Rows]
  /\ batch \in [Workers -> (Seq(Items) \ {<<>>}) \union {Idle}]
  /\ seen \in [Workers -> [Comments -> Rows]]
  /\ answers \in [Workers -> SUBSET Items]
  /\ questions \in [Workers -> SUBSET Items]
  /\ granted \subseteq Items
  /\ asked \in [Items -> Asked]

\* A decision and a deletion are signed for the users that created the comment, whose
\* signature never changes, however many workers handle requests about it.
CreatorKept ==
  \A c \in Comments : \A column \in {"sha256_action", "sha256_deleted"} :
    Named(row[c][column]) => Exists(row[c]) /\ row[c][column].users = row[c]["sha256"].users

Sha256Readonly ==
  [][\A c \in Comments : Exists(row[c]) => row'[c]["sha256"] = row[c]["sha256"]]_vars

\* A proposal is cancelled by a creator of the proposal, and accepted or rejected by a creator
\* of the gift as the gift's server knows it, also when that server had to be asked
\* (comment.rb:774-780).
CreatorDecides ==
  \A i \in granted :
    /\ i.action = "cancel" => row[i.cid]["sha256"].users \intersect i.logins # {}
    /\ OnGift(i) =>
         /\ Named(GiftSignature[i.gift.gid])
         /\ GiftSignature[i.gift.gid].users \intersect i.logins # {}

\* comment.rb:1169: of a cancel, an accept and a reject that cross each other only one is
\* granted, once or again.
OneDecision ==
  \A i, j \in granted : Decides(i) /\ Decides(j) /\ i.cid = j.cid => i.sha256_action = j.sha256_action

\* What has been answered with true is so in the table and stays so.  Of a deletion only this, that
\* one is stored: a later one overwrites the signature (line 1248 has no next, see Delete), and
\* neither this property nor RecordSpec notices it.
GrantedHolds ==
  \A i \in granted :
    /\ row[i.cid]["sha256"] = Signature(i, i.sha256)
    /\ Named(i.sha256_action) => row[i.cid]["sha256_action"] = Signature(i, i.sha256_action)
    /\ Named(i.sha256_deleted) => Named(row[i.cid]["sha256_deleted"])

\* The promise of the table, for one worker at a time: a comment is signed once, decided once
\* and not after its deletion, and its deletion is not undone.  Delete may change the signature of
\* the deletion, which the record shows as a mark only.
Shown == [c \in Comments |->
            [sha256 |-> row[c]["sha256"],
             sha256_accepted |-> row[c]["sha256_action"],
             sha256_deleted |-> IF Named(row[c]["sha256_deleted"]) THEN row[c]["sha256"] ELSE NoSignature]]
Record == INSTANCE GiftRecord WITH Gifts <- Comments, row <- Shown
RecordSpec == Record!Spec
============================================================================
