------------------------------ MODULE GiftSync ------------------------------
(* Gifts and comments of two clients of one server are synchronised with     *)
(* messages the clients exchange through the server, in their pings           *)
(* (src/app/assets/javascripts/gofreerev-06-angular-giftservice.js).  After a *)
(* page load each client sends a checksum of its gifts; the other one answers *)
(* with one checksum per gift, the first asks for gifts it lacks, sends those *)
(* the other lacks, and compares the rest by comment.  Changes made later are *)
(* pushed.  A client runs to completion between two pings: while one still    *)
(* has messages in an inbox, nothing else happens.                            *)
EXTENDS Integers, FiniteSetsExt, SequencesExt

CONSTANTS
  Clients,        \* two
  Gifts,          \* gift ids, all of one mutual friend; gifts arrays are sorted by gid
  Cids,           \* comment ids
  Home,           \* Home[k]: the gift comment k is created for
  Start,          \* Start[c][g]: the comments client c has at first, or None
  None,           \* null
  Kept,           \* messages in the sent folder (5 in the code)
  Patience,       \* passes over a message that waits for verifications (30 in the code)
  Hasty,          \* two users_sha256 messages can come within a minute
  MaxActs, MaxFaults, MaxReloads, MaxEvents   \* bounds, the last one on all of them together

ASSUME ClientsAssumption == IsFiniteSet(Clients) /\ Cardinality(Clients) = 2
ASSUME IdsAssumption == Gifts \subseteq Nat /\ IsFiniteSet(Gifts) /\ Home \in [Cids -> Gifts]
ASSUME StartAssumption ==
  \A c \in Clients, g \in Gifts :
    Start[c][g] # None =>
      /\ Start[c][g] \in Seq([cid : {k \in Cids : Home[k] = g}, v : 1..3])
      /\ \A i, j \in DOMAIN Start[c][g] : i # j => Start[c][g][i].cid # Start[c][g][j].cid
ASSUME BoundsAssumption == Patience \in Nat /\ Kept \in Nat \ {0} /\ Hasty \in BOOLEAN

VARIABLES
  gift,           \* gift[c][g]: the gifts array, and the actions that wait for an answer
  contact,        \* what c knows of the other: 0 nothing, 1 the mailbox, 2 the public key too
  box,            \* box[c]: the mailbox for the other client
  mid,            \* the last mid a client used
  ping,           \* the ping of a client, on its way
  store,          \* store[c]: messages for client c on the server
  signed,         \* what the server has signed: version and by whom
  acts, faults, reloads,
  lost            \* history: a message is lost for good, refused or given up

vars == <<gift, contact, box, mid, ping, store, signed, acts, faults, reloads, lost>>

\* A user, a fault or a page load may still interfere.
More == acts + faults + reloads < MaxEvents

Peer(c) == CHOOSE d \in Clients : d # c

Nothing == [here |-> FALSE, gone |-> "no", comments |-> <<>>]
EmptyBox == [inbox |-> <<>>, read |-> <<>>, outbox |-> <<>>, sending |-> <<>>, sent |-> <<>>,
             closed |-> {}, sendG |-> {}, sendC |-> {}, askC |-> {}]
NoPing == [stage |-> "idle", mail |-> <<>>, own |-> {}, gone |-> {}]

\* A comment as it is loaded: only then is its sha256 calculated.
Loaded(o) == [o EXCEPT !.h = o.v]
New(k, v) == [cid |-> k, v |-> v, h |-> 0, act |-> "no"]

\* The versions of a comment that clients have.
Versions(k) == {n.v : n \in {n \in UNION {Range(gift[c][g].comments) : c \in Clients, g \in Gifts} : n.cid = k}}

Init ==
  /\ gift = [c \in Clients |-> [g \in Gifts |->
       IF Start[c][g] = None THEN Nothing
       ELSE [Nothing EXCEPT !.here = TRUE,
                            !.comments = [i \in DOMAIN Start[c][g] |-> Loaded(New(Start[c][g][i].cid, Start[c][g][i].v))]]]]
  /\ signed = [k \in Cids |-> [by |-> None, v |-> Max({0} \union Versions(k))]]
  /\ contact = [c \in Clients |-> 0]
  /\ box = [c \in Clients |-> EmptyBox]
  /\ mid = [c \in Clients |-> 0]
  /\ ping = [c \in Clients |-> NoPing]
  /\ store = [c \in Clients |-> <<>>]
  /\ acts = 0 /\ faults = 0 /\ reloads = 0 /\ lost = FALSE

----------------------------------------------------------------------------
\* Gifts, their copies in messages, and checksums.

\* F of the value of v; the numbers of S in order; the elements of a sequence that pass a test.
With(v, F(_))      == CHOOSE r \in {F(x) : x \in {v}} : TRUE
InOrder(S)         == [i \in 1..Cardinality(S) |-> CHOOSE n \in S : Cardinality({m \in S : m < n}) = i - 1]
Sorted(S)          == With(S, LAMBDA T : InOrder(T))
At(s, I)           == With(Sorted(I), LAMBDA at : [i \in DOMAIN at |-> s[at[i]]])
Picked(s, Test(_)) == With(s, LAMBDA r : At(r, {i \in DOMAIN r : Test(r[i])}))

Cs(x)      == Range(x.comments)
Held(x)    == {o.cid : o \in Cs(x)}
The(x, k)  == CHOOSE o \in Cs(x) : o.cid = k
Part(x)    == IF x.gone = "done" THEN 1 ELSE 0

\* make_gift_clone, make_comment_clone: actions that the server has not answered are left out.
CopiesPending(x, ks) ==
  With(Picked(x.comments, LAMBDA o : o.cid \in ks),
       LAMBDA s : [i \in DOMAIN s |-> [cid |-> s[i].cid, v |-> IF s[i].act = "decide" THEN s[i].v + 1 ELSE s[i].v]])
Copies(x, ks) ==
  With(ks, LAMBDA l : With(Picked(x.comments, LAMBDA o : o.cid \in l),
                           LAMBDA s : [i \in DOMAIN s |-> [cid |-> s[i].cid, v |-> s[i].v]]))
Clone(g, x, ks) == [gid |-> g, part |-> Part(x), comments |-> Copies(x, ks)]
Whole(c, gs)    == [i \in 1..Cardinality(gs) |-> Clone(Sorted(gs)[i], gift[c][Sorted(gs)[i]], Cids)]

\* gift_sha256_for_client: null as long as a comment is not created; the order of the comments counts.
Sum(x) ==
  IF \A o \in Cs(x) : o.v > 0
  THEN [part |-> Part(x), comments |-> [i \in DOMAIN x.comments |-> [cid |-> x.comments[i].cid, v |-> x.comments[i].v]]]
  ELSE None
CloneSum(k) == [part |-> k.part, comments |-> k.comments]

Here(c)    == {g \in Gifts : gift[c][g].here}
Sums(c)    == [g \in Here(c) |-> Sum(gift[c][g])]
Known(c)   == {g \in Here(c) : Sum(gift[c][g]) # None}


----------------------------------------------------------------------------
\* Messages.  A sync_gifts message carries sub messages, and those carry the mids.

Message(type, m, req, body) == [type |-> type, mid |-> m, req |-> req, body |-> body]
Item(type, body)            == <<[type |-> type, body |-> body]>>
Sync(c, req, items) ==
  Message("sync_gifts", 0, req, [i \in DOMAIN items |-> Message(items[i].type, mid[c] + i, 0, items[i].body)])
SendItem(clones) ==
  IF clones = <<>> THEN <<>>
  ELSE Item("send_gifts", [gifts |-> clones, asked |-> {}, ok |-> {}, count |-> 0])

\* The message c handles has been answered.
Replied(b, m) == m.mid \in b.closed \/ \E o \in Range(b.outbox) : o.req = m.mid

\* move_previous_message: the message m is an answer to is closed.
IsRequest(o, m, types) == o.mid = m.req /\ o.type \in types
Expected(b, m, types)  == \E o \in Range(b.sent) \union Range(b.outbox) : IsRequest(o, m, types)
MovedKept(b, m, types) ==
  [b EXCEPT !.closed = @ \union ({o.req : o \in {o \in Range(b.sent) \union Range(b.outbox) : IsRequest(o, m, types)}} \ {0})]
Moved(b, m, types) ==
  LET in == IF \E o \in Range(b.sent) : IsRequest(o, m, types) THEN b.sent ELSE b.outbox
      rest == Picked(in, LAMBDA o : ~IsRequest(o, m, types))
      closed == b.closed \union ({o.req : o \in {o \in Range(in) : IsRequest(o, m, types)}} \ {0})
  IN  IF in = b.sent THEN [b EXCEPT !.sent = rest, !.closed = closed]
                     ELSE [b EXCEPT !.outbox = rest, !.closed = closed]

\* messages_sent: the parts of a sync_gifts message are kept, and the last messages only.
Keep(sent, m) ==
  LET brief == [type |-> m.type, mid |-> m.mid, req |-> m.req]
      s == sent \o IF m.type = "sync_gifts"
                   THEN [i \in DOMAIN m.body |-> [type |-> m.body[i].type, mid |-> m.body[i].mid, req |-> 0]]
                   ELSE <<brief>>
  IN  IF Len(s) > Kept THEN Tail(s) ELSE s
Sent(b) ==
  LET kept[n \in 0..Len(b.sending)] == IF n = 0 THEN b.sent ELSE Keep(kept[n - 1], b.sending[n])
  IN  [b EXCEPT !.sent = kept[Len(b.sending)], !.sending = <<>>]

----------------------------------------------------------------------------
\* The ping.

Calm == \A c \in Clients : box[c].inbox = <<>>

\* gids_and_cids_to_messages: changes that were confirmed, and requests for comments that were refused.
PushedGifts(c) ==
  LET gs == Here(c) \intersect box[c].sendG
  IN  SendItem([i \in 1..Cardinality(gs) |-> Clone(Sorted(gs)[i], gift[c][Sorted(gs)[i]], {})])
Pushed(c) ==
  LET x(g) == gift[c][g]
      gs == {g \in Here(c) : g \in box[c].sendG \/ Held(x(g)) \intersect box[c].sendC # {}}
      clones == [i \in 1..Cardinality(gs) |-> Clone(Sorted(gs)[i], x(Sorted(gs)[i]), box[c].sendC)]
      cids == box[c].askC \intersect UNION {Held(x(g)) : g \in Here(c)}
  IN  SendItem(clones) \o IF cids = {} THEN <<>> ELSE Item("request_comments", cids)

\* send_messages.  The body of a users_sha256 message in the outbox says that it was sent before:
\* its users have been replaced then, and it no longer fits its schema.
Out(c) ==
  IF contact[c] < 2 THEN <<>>
  ELSE Picked(box[c].outbox \o IF Pushed(c) = <<>> THEN <<>> ELSE <<Sync(c, 0, Pushed(c))>>,
              LAMBDA m : m.type # "users_sha256" \/ ~m.body)
Wire(c) == [i \in DOMAIN Out(c) |-> IF Out(c)[i].type = "users_sha256" THEN [Out(c)[i] EXCEPT !.body = Sums(c)] ELSE Out(c)[i]]
Sending(c) == [i \in DOMAIN Out(c) |-> IF Out(c)[i].type = "users_sha256" THEN [Out(c)[i] EXCEPT !.body = TRUE] ELSE Out(c)[i]]
Built(c) ==
  IF contact[c] < 2 THEN box[c]
  ELSE [box[c] EXCEPT !.sending = Sending(c), !.outbox = <<>>, !.sendG = {}, !.sendC = {}, !.askC = {}]
Used(c) == [mid EXCEPT ![c] = @ + IF contact[c] < 2 THEN 0 ELSE Len(Pushed(c))]

\* Own actions, sent until they are answered.  An accept keeps waiting when it has been answered.
Own(c)     == {o \in UNION {Cs(gift[c][g]) : g \in Gifts} : o.v = 0 \/ o.act # "no"}
Signed(c)  ==
  [k \in Cids |->
     IF \E o \in Own(c) : o.cid = k /\ signed[k].v = o.v
     THEN [v |-> signed[k].v + 1, by |-> c] ELSE signed[k]]
\* Comment.verify_comments raises when a create is repeated.  By then deletions of gifts have been
\* handled, and those own actions that come earlier in the request (its order is left open).
Raises(c)     == \E o \in Own(c) : o.v = 0 /\ signed[o.cid].v > 0
Stored(c, ks) == [k \in Cids |-> IF k \in ks THEN Signed(c)[k] ELSE signed[k]]
Gone(c)       == {g \in Here(c) : gift[c][g].gone = "asked"}

Ping(c) ==
  /\ Calm
  /\ ping[c].stage = "idle"
  /\ box' = [box EXCEPT ![c] = Built(c)]
  /\ mid' = Used(c)
  /\ IF Raises(c)
     THEN /\ ping' = [ping EXCEPT ![c] = [NoPing EXCEPT !.stage = "failed", !.gone = Gone(c)]]
          /\ store' = store
          /\ \E ks \in SUBSET Cids : signed' = Stored(c, ks)
     ELSE /\ ping' = [ping EXCEPT ![c] =
               [stage |-> "sent", mail |-> store[c],
                own |-> {[cid |-> o.cid, ok |-> Signed(c)[o.cid].by = c] : o \in Own(c)},
                gone |-> Gone(c)]]
          /\ store' = [store EXCEPT ![c] = <<>>, ![Peer(c)] = @ \o Wire(c)]
          /\ signed' = Signed(c)
  /\ UNCHANGED <<gift, contact, acts, faults, reloads, lost>>

\* messages_not_sent, after the request or its response is lost.
AgainKept(b) == [b EXCEPT !.outbox = @ \o b.sending]
Again(b)   == [b EXCEPT !.outbox = @ \o b.sending, !.sending = <<>>]
Forgets(b) == \E m \in Range(b.sending) : m.type = "users_sha256"
Lost(c) ==
  /\ Calm /\ faults < MaxFaults /\ More
  /\ ping[c].stage = "idle"
  /\ box' = [box EXCEPT ![c] = Again(Built(c))]
  /\ mid' = Used(c)
  /\ lost' = (lost \/ Forgets(Built(c)))
  /\ faults' = faults + 1
  /\ UNCHANGED <<gift, contact, ping, store, signed, acts, reloads>>
Fail(c) ==
  /\ Calm /\ faults < MaxFaults /\ More
  /\ ping[c].stage # "idle"
  /\ box' = [box EXCEPT ![c] = Again(@)]
  /\ lost' = (lost \/ Forgets(box[c]) \/ ping[c].mail # <<>>)
  /\ ping' = [ping EXCEPT ![c] = NoPing]
  /\ faults' = faults + 1
  /\ UNCHANGED <<gift, contact, mid, store, signed, acts, reloads>>

\* The server rejects a ping that is too early; the client goes on as if all had been sent.
Early(c) ==
  /\ Calm /\ faults < MaxFaults /\ More
  /\ ping[c].stage = "idle"
  /\ box' = [box EXCEPT ![c] = [Sent(Built(c)) EXCEPT !.inbox = @ \o box[c].read, !.read = <<>>]]
  /\ mid' = Used(c)
  /\ lost' = (lost \/ Out(c) # <<>>)
  /\ faults' = faults + 1
  /\ UNCHANGED <<gift, contact, ping, store, signed, acts, reloads>>

\* verify_gifts_response, verify_comments_response.
Settled(o, own) ==
  IF o.act = "accept" \/ o.cid \notin {a.cid : a \in own} THEN o
  ELSE IF o.v = 0 \/ [cid |-> o.cid, ok |-> TRUE] \in own THEN [o EXCEPT !.v = @ + 1, !.act = "no"]
  ELSE [o EXCEPT !.act = "no"]
Answered(x, g, p) ==
  [x EXCEPT !.comments = [i \in DOMAIN x.comments |-> Settled(x.comments[i], p.own)],
            !.gone = IF g \in p.gone THEN "done" ELSE @]
Verified(m, answers) == [m EXCEPT !.body.ok = @ \union (m.body.asked \intersect answers)]

\* A rescued exception is an answer too: what was done before it, no verification of comments, no
\* messages.  The own messages, which the server has not looked at, are taken for sent.
Response(c) ==
  /\ Calm
  /\ ping[c].stage # "idle"
  /\ \E prompt \in BOOLEAN :
       LET p == ping[c]
           b == box[c]
           settled == {a \in p.own : \E o \in Own(c) : o.cid = a.cid /\ o.act # "accept"}
           hello == IF contact[c] = 0 THEN <<Message("users_sha256", mid[c] + 1, 0, FALSE)>> ELSE <<>>
           answers == IF ~prompt THEN {} ELSE IF p.stage = "failed" THEN Gifts ELSE Gifts \union Cids
           read == [i \in DOMAIN b.read |-> Verified(b.read[i], answers)]
       IN  /\ prompt \/ (b.read # <<>> /\ faults < MaxFaults /\ More)
           /\ faults' = IF prompt THEN faults ELSE faults + 1
           /\ gift' = [gift EXCEPT ![c] = [g \in Gifts |-> Answered(gift[c][g], g, p)]]
           /\ contact' = [contact EXCEPT ![c] = IF @ < 2 THEN @ + 1 ELSE 2]
           /\ mid' = [mid EXCEPT ![c] = @ + Len(hello)]
           /\ box' = [box EXCEPT ![c] =
                [Sent(b) EXCEPT !.outbox = @ \o hello,
                                !.inbox = (IF contact[c] = 0 THEN <<>> ELSE p.mail) \o read, !.read = <<>>,
                                !.sendG = @ \union p.gone,
                                !.sendC = @ \union {a.cid : a \in {a \in settled : a.ok}},
                                !.askC = @ \union {a.cid : a \in {a \in settled : ~a.ok}}]]
  /\ lost' = (lost \/ (contact[c] = 0 /\ ping[c].mail # <<>>) \/ (ping[c].stage = "failed" /\ box[c].sending # <<>>))
  /\ ping' = [ping EXCEPT ![c] = NoPing]
  /\ UNCHANGED <<store, signed, acts, reloads>>

----------------------------------------------------------------------------
\* What a user does, and a page load.

Create(c, k) ==
  LET x == gift[c][Home[k]]
  IN  /\ Calm /\ acts < MaxActs /\ More
      /\ x.here /\ x.gone = "no"
      /\ \A d \in Clients : k \notin Held(gift[d][Home[k]])
      /\ gift' = [gift EXCEPT ![c][Home[k]].comments = Append(@, New(k, 0))]
      /\ acts' = acts + 1
      /\ UNCHANGED <<contact, box, mid, ping, store, signed, faults, reloads, lost>>

\* decide: cancel or reject, or delete; after it, delete.  What the server does with the second one
\* of two deletions of a comment (it takes that one instead) is in CommentActions, and left out here.
Deletable(k) ==
  /\ signed[k].v = 2
  /\ \A d \in Clients : \A o \in Cs(gift[d][Home[k]]) : o.cid = k /\ o.v = 2 => o.act = "no"
Act(c, k, action) ==
  LET x == gift[c][Home[k]]
  IN  /\ Calm /\ acts < MaxActs /\ More
      /\ k \in Held(x) /\ x.gone = "no" /\ The(x, k).act = "no"
      /\ The(x, k).v = 1 \/ (The(x, k).v = 2 /\ action = "decide" /\ Deletable(k))
      /\ gift' = [gift EXCEPT ![c][Home[k]].comments =
                    [i \in DOMAIN @ |-> IF @[i].cid = k THEN [@[i] EXCEPT !.act = action] ELSE @[i]]]
      /\ acts' = acts + 1
      /\ UNCHANGED <<contact, box, mid, ping, store, signed, faults, reloads, lost>>

Delete(c, g) ==
  /\ Calm /\ acts < MaxActs /\ More
  /\ gift[c][g].here /\ gift[c][g].gone = "no"
  /\ gift' = [gift EXCEPT ![c][g].gone = "asked"]
  /\ acts' = acts + 1
  /\ UNCHANGED <<contact, box, mid, ping, store, signed, faults, reloads, lost>>

\* load_gifts: mailboxes are lost, deletions are repeated.
Reloaded(x) == [x EXCEPT !.comments = [i \in DOMAIN @ |-> Loaded(@[i])], !.gone = IF @ = "no" THEN "no" ELSE "asked"]
Reload(c) ==
  /\ Calm /\ reloads < MaxReloads /\ More
  /\ gift' = [gift EXCEPT ![c] = [g \in Gifts |-> Reloaded(@[g])]]
  /\ contact' = [contact EXCEPT ![c] = 0]
  /\ box' = [box EXCEPT ![c] = EmptyBox]
  /\ ping' = [ping EXCEPT ![c] = NoPing]
  /\ reloads' = reloads + 1
  /\ UNCHANGED <<mid, store, signed, acts, faults, lost>>

----------------------------------------------------------------------------
\* process_messages, one message of the inbox in each step.

\* The mailbox of c without the message, an answer added to its outbox.
Rest(c)         == [box[c] EXCEPT !.inbox = Tail(@)]
Post(b, m)      == [b EXCEPT !.outbox = Append(@, m)]
Moves(c, b, n, fails) ==
  /\ box' = [box EXCEPT ![c] = b]
  /\ mid' = [mid EXCEPT ![c] = @ + n]
  /\ lost' = (lost \/ fails)
  /\ UNCHANGED <<contact, ping, store, signed, acts, faults, reloads>>
Handled(c, b, n) == Moves(c, b, n, FALSE)
Handles(c, type) == box[c].inbox # <<>> /\ Head(box[c].inbox).type = type
Answer(c, b, m, items) == Handled(c, Post(b, Sync(c, m.mid, items)), Len(items))
Error(c, b, m)         == Moves(c, Post(b, Message("error", mid[c] + 1, m.mid, <<>>)), 1, TRUE)

\* receive_message_users_sha256.  The answer is refused when one was given within a minute.
HandleUsers(c) ==
  LET m == Head(box[c].inbox)
      b == Rest(c)
      sums == [g \in Known(c) |-> Sum(gift[c][g])]
  IN  /\ Handles(c, "users_sha256")
      /\ IF Replied(b, m) \/ m.body = Sums(c) THEN Handled(c, b, 0)
         ELSE Handled(c, Post(b, Message("gifts_sha256", mid[c] + 1, m.mid, sums)), 1)
      /\ UNCHANGED gift
RefuseUsers(c) ==
  LET m == Head(box[c].inbox)
      b == Rest(c)
      before == \E o \in Range(b.outbox) \union Range(b.sent) : o.type = "gifts_sha256"
  IN  /\ Handles(c, "users_sha256")
      /\ Hasty /\ before /\ ~Replied(b, m) /\ m.body # Sums(c)
      /\ Error(c, b, m)
      /\ UNCHANGED gift

\* receive_message_gifts_sha256.
HandleGifts(c) ==
  LET m == Head(box[c].inbox)
      theirs == DOMAIN m.body
      differ == {g \in Known(c) \intersect theirs : Sum(gift[c][g]) # m.body[g]}
      check == [g \in differ |-> [sum |-> Sum(gift[c][g]), list |-> None]]
      items == SendItem(Whole(c, Known(c) \ theirs))
               \o (IF theirs \subseteq Known(c) THEN <<>> ELSE Item("request_gifts", theirs \ Known(c)))
               \o (IF differ = {} THEN <<>> ELSE Item("check_gifts", check))
      b == Moved(Rest(c), m, {"users_sha256"})
  IN  /\ Handles(c, "gifts_sha256")
      /\ IF Replied(Rest(c), m) \/ ~Expected(Rest(c), m, {"users_sha256"}) THEN Handled(c, Rest(c), 0)
         ELSE IF items = <<>> THEN Handled(c, b, 0) ELSE Answer(c, b, m, items)
      /\ UNCHANGED gift

\* receive_message_sync_gifts: the sub messages go to the end of the inbox.
Answerable == {"gifts_sha256", "send_gifts", "request_gifts", "check_gifts", "request_comments"}
HandleSync(c) ==
  LET m == Head(box[c].inbox)
      b == IF m.req = 0 THEN Rest(c) ELSE Moved(Rest(c), m, Answerable)
  IN  /\ Handles(c, "sync_gifts")
      /\ IF m.req # 0 /\ ~Expected(Rest(c), m, Answerable) THEN Handled(c, Rest(c), 0)
         ELSE Handled(c, [b EXCEPT !.inbox = @ \o m.body], 0)
      /\ UNCHANGED gift

\* receive_message_error.
HandleError(c) ==
  LET m == Head(box[c].inbox)
      b == Rest(c)
      types == Answerable \union {"users_sha256"}
  IN  /\ Handles(c, "error")
      /\ Handled(c, IF \E o \in Range(b.sent) : IsRequest(o, m, types) THEN Moved(b, m, types) ELSE b, 0)
      /\ UNCHANGED gift

\* A copy with a comment that is not created does not fit the schema: the whole answer is an error.
Fits(clones) == \A i \in DOMAIN clones : \A n \in Range(clones[i].comments) : n.v > 0
AnswerGifts(c, m, clones) ==
  IF clones # <<>> /\ Fits(clones) THEN Answer(c, Rest(c), m, SendItem(clones)) ELSE Error(c, Rest(c), m)

\* receive_message_request_gifts.
HandleRequestGifts(c) ==
  LET m == Head(box[c].inbox)
  IN  /\ Handles(c, "request_gifts")
      /\ AnswerGifts(c, m, Whole(c, m.body \intersect Here(c)))
      /\ UNCHANGED gift

\* receive_message_request_comms.
HandleRequestComments(c) ==
  LET m == Head(box[c].inbox)
      found(g) == {o.cid : o \in {o \in Cs(gift[c][g]) : o.v > 0 /\ o.cid \in m.body}}
      gs == {g \in Here(c) : found(g) # {}}
  IN  /\ Handles(c, "request_comments")
      /\ AnswerGifts(c, m, [i \in 1..Cardinality(gs) |-> Clone(Sorted(gs)[i], gift[c][Sorted(gs)[i]], found(Sorted(gs)[i]))])
      /\ UNCHANGED gift

\* receive_message_check_gifts.  Without a list of comments in the message, one is returned;
\* with it, comments whose checksum differs are sent and unknown ones are asked for.
HandleCheck(c) ==
  LET m == Head(box[c].inbox)
      x(g) == gift[c][g]
      samePart(g) == Sum(x(g)) # None /\ Part(x(g)) = m.body[g].sum.part
      sameComments(g) == Sum(x(g)) # None /\ Sum(x(g)).comments = m.body[g].sum.comments
      gs == {g \in DOMAIN m.body \intersect Here(c) : ~samePart(g) \/ ~sameComments(g)}
      differ == {g \in gs : ~sameComments(g)}
      lists == [g \in differ |-> [sum |-> Sum(x(g)), list |-> [k \in Held(x(g)) |-> The(x(g), k).h]]]
      news(g) == IF g \in differ
                 THEN {k \in Held(x(g)) : k \notin DOMAIN m.body[g].list \/ m.body[g].list[k] # The(x(g), k).h}
                 ELSE {}
      send == {g \in gs : ~samePart(g) \/ news(g) # {}}
      clones == [i \in 1..Cardinality(send) |-> Clone(Sorted(send)[i], x(Sorted(send)[i]), news(Sorted(send)[i]))]
      ask == UNION {DOMAIN m.body[g].list \ Held(x(g)) : g \in differ}
  IN  /\ Handles(c, "check_gifts")
      /\ IF \E g \in differ : m.body[g].list = None
         THEN IF \E g \in differ : Sum(x(g)) = None THEN Error(c, Rest(c), m)
              ELSE Answer(c, Rest(c), m, Item("check_gifts", lists))
         ELSE IF ~Fits(clones) THEN Error(c, Rest(c), m)
              ELSE Answer(c, Rest(c), m, SendItem(clones) \o IF ask = {} THEN <<>> ELSE Item("request_comments", ask))
      /\ UNCHANGED gift

----------------------------------------------------------------------------
\* receive_message_send_gifts.  s is the body of the message, k one of its gifts, x the own gift.

Late(s)       == s.count > Patience
Pending(s, i) == i \notin s.ok /\ ~(i \in s.asked /\ Late(s))

\* Comments that differ from the own ones must be verified.
Fresh(x, k) == {n \in Range(k.comments) : ~\E o \in Cs(x) : o.cid = n.cid /\ o.v = n.v /\ o.act = "no"}
Busy(x, k)  == \E n \in Fresh(x, k), o \in Cs(x) : o.cid = n.cid /\ o.act # "no"

\* How far the handling of a gift gets.  fails: the code uses a variable that does not exist.
Reached(s, k, x) ==
  CASE x.gone # "no"                                           -> "waits"
    [] x.here /\ Sum(x) = CloneSum(k)                          -> "same"
    [] x.here /\ Sum(x) # None /\ Part(x) = k.part             -> "comments"
    [] Pending(s, k.gid)                                       -> "asks"
    [] k.gid \notin s.ok                                       -> "late"
    [] x.here /\ Sum(x) # None /\ Sum(x).comments = k.comments -> "fails"
    [] OTHER                                                   -> "comments"
AsksGifts(s, k, x) == IF Reached(s, k, x) = "asks" THEN {k.gid} ELSE {}
Asks(s, k, x) ==
  CASE Reached(s, k, x) = "asks"     -> {k.gid}
    [] Reached(s, k, x) = "comments" -> {n.cid : n \in Fresh(x, k)}
    [] OTHER                         -> {}
Waits(s, k, x) ==
  \/ Reached(s, k, x) \in {"waits", "asks"}
  \/ Reached(s, k, x) = "comments" /\ (Busy(x, k) \/ \E n \in Fresh(x, k) : Pending(s, n.cid))

\* Known comments that are verified are merged; unknown ones are added as they were created.
NewerOther(o, k, s) == {n \in Range(k.comments) : n.cid = o.cid /\ n.v # o.v /\ o.act = "no" /\ n.cid \in s.ok}
Newer(o, k, s) == {n \in Range(k.comments) : n.cid = o.cid /\ n.v > o.v /\ o.act = "no" /\ n.cid \in s.ok}
Updated(o, new) == IF new = {} THEN o ELSE [o EXCEPT !.v = (CHOOSE n \in new : TRUE).v]
MergedTwice(x, k, s) ==
  LET new == Picked(k.comments, LAMBDA n : n.cid \in s.ok)
  IN  [x EXCEPT !.here = TRUE, !.comments = @ \o [i \in DOMAIN new |-> New(new[i].cid, 1)]]
Merged(x, k, s) ==
  LET new == Picked(k.comments, LAMBDA n : n.cid \in s.ok \ Held(x))
  IN  [x EXCEPT !.here = TRUE,
                !.comments = [i \in DOMAIN @ |-> Updated(@[i], Newer(@[i], k, s))]
                             \o [i \in DOMAIN new |-> New(new[i].cid, 1)]]
\* The other client has not got the own decision.
Older(x, k, s) == {n.cid : n \in {n \in Range(k.comments) : n.cid \in s.ok /\ n.cid \in Held(x) /\ The(x, n.cid).v > n.v}}

\* receive_message_send_gifts.  That an own comment whose readonly fields differ waits for the own
\* action (5855-5912) is in Busy, which waits for it in any case, and in Newer.  The counter
\* show_no_comments, whose update raises (6004), is left out.
HandleSend(c) ==
  LET m == Head(box[c].inbox)
      s == [m.body EXCEPT !.count = IF @ > Patience THEN @ ELSE @ + 1]
      x(k) == gift[c][k.gid]
      fails == {i \in DOMAIN s.gifts : Reached(s, s.gifts[i], x(s.gifts[i])) = "fails"}
      done == {s.gifts[i] : i \in {i \in DOMAIN s.gifts : \A j \in fails : i < j}}
      wait == \E k \in done : Waits(s, k, x(k))
      merge == {k \in done : Reached(s, k, x(k)) = "comments" /\ (x(k).here \/ ~Waits(s, k, x(k)))}
      back == {k \in merge : Older(x(k), k, s) # {}}
      clone(g) == Clone(g, gift'[c][g], UNION {Older(x(k), k, s) : k \in {k \in back : k.gid = g}})
      gs == {k.gid : k \in back}
      waiting == [m EXCEPT !.body = [s EXCEPT !.asked = @ \union UNION {Asks(s, k, x(k)) : k \in done}]]
      late == \E k \in done : Reached(s, k, x(k)) = "late"
      lateComments == \E k \in merge : \E n \in Fresh(x(k), k) : n.cid \notin s.ok
  IN  /\ Handles(c, "send_gifts")
      /\ gift' = [gift EXCEPT ![c] = [g \in Gifts |->
           IF \E k \in merge : k.gid = g THEN Merged(@[g], CHOOSE k \in merge : k.gid = g, s) ELSE @[g]]]
      /\ IF fails # {} THEN Error(c, Rest(c), m)
         ELSE IF wait THEN Handled(c, [Rest(c) EXCEPT !.read = Append(@, waiting)], 0)
         ELSE LET items == SendItem([i \in 1..Cardinality(gs) |-> clone(Sorted(gs)[i])])
              IN  Moves(c, IF gs # {} \/ late THEN Post(Rest(c), Sync(c, m.mid, items)) ELSE Rest(c),
                        Len(items), late \/ lateComments)

----------------------------------------------------------------------------
User(c) ==
  \/ \E k \in Cids : Create(c, k) \/ \E action \in {"decide", "accept"} : Act(c, k, action)
  \/ \E g \in Gifts : Delete(c, g)
Handle(c) ==
  \/ HandleUsers(c) \/ RefuseUsers(c) \/ HandleGifts(c) \/ HandleSync(c) \/ HandleError(c)
  \/ HandleRequestGifts(c) \/ HandleRequestComments(c) \/ HandleCheck(c) \/ HandleSend(c)

Next == \E c \in Clients :
  \/ Ping(c) \/ Response(c) \/ Handle(c)
  \/ Lost(c) \/ Fail(c) \/ Early(c) \/ Reload(c) \/ User(c)

\* The timer of a page starts a ping after each answer and messages are handled at once, so that each
\* client goes on running; it is strong fairness because a step of one client can be disabled
\* while the other one handles messages.
Runs(c)  == Ping(c) \/ Response(c) \/ Handle(c)
Fairness == \A c \in Clients : SF_vars(Runs(c))

Spec     == Init /\ [][Next]_vars
FairSpec == Spec /\ Fairness

----------------------------------------------------------------------------
\* The gifts array and the server's records have their types, a client that knows nothing of the
\* other has an empty mailbox, and what waits or is asked for is in the array.
Comment == {o \in [cid : Cids, v : 0..3, h : 0..3, act : {"no", "decide", "accept"}] : o.act # "no" => o.v \in 1..2}
Types   == Answerable \union {"users_sha256", "sync_gifts", "error"}
TypeOK ==
  /\ \A c \in Clients, g \in Gifts :
       /\ gift[c][g].here \in BOOLEAN /\ gift[c][g].gone \in {"no", "asked", "done"}
       /\ Cs(gift[c][g]) \subseteq Comment
       /\ ~gift[c][g].here => gift[c][g] = Nothing
  /\ \A k \in Cids : signed[k].v \in 0..3 /\ signed[k].by \in Clients \union {None}
  /\ contact \in [Clients -> 0..2]
  /\ \A c \in Clients :
       /\ contact[c] = 0 => box[c] = EmptyBox
       /\ ping[c].stage \in {"idle", "sent", "failed"}
       /\ ping[c].stage = "idle" => ping[c] = NoPing /\ box[c].sending = <<>>
       /\ LET s == store[c] \o ping[c].mail \o box[c].inbox \o box[c].outbox \o box[c].sending
          IN  \A i \in DOMAIN s : s[i].type \in Types /\ s[i].mid \in 0..mid[c] + mid[Peer(c)]
       /\ \A o \in Range(box[c].sent) : o.type \in Types
       /\ box[c].sendG \subseteq Here(c) /\ box[c].sendC \union box[c].askC \subseteq Cids
       /\ \A m \in Range(box[c].read) : m.type = "send_gifts" /\ m.body.count \in 1..Patience + 1

\* However copies of a gift are sent, resent and answered, a client has one copy of each comment, in
\* the gift it was created for: insert and merge in receive_message_send_gifts.
OneCopy ==
  \A c \in Clients, g \in Gifts :
    LET s == gift[c][g].comments
    IN  \A i, j \in DOMAIN s : Home[s[i].cid] = g /\ (i # j => s[i].cid # s[j].cid)

\* The messages to and from c, and what the copies in a message say.
Traffic(c)    == store[c] \o ping[c].mail \o box[c].inbox \o box[c].read \o box[c].outbox \o box[c].sending
OnlySigned(m) ==
  m.type = "send_gifts" =>
    \A k \in Range(m.body.gifts) : \A n \in Range(k.comments) : n.v \in 1..signed[n.cid].v

\* Every copy on its way is signed, so that no verification is refused: make_comment_clone leaves out
\* actions without an answer, and the schema refuses comments that are not created.
CopiesSigned ==
  \A c \in Clients : \A i \in DOMAIN Traffic(c) :
    LET m == Traffic(c)[i]
    IN  IF m.type = "sync_gifts" THEN \A j \in DOMAIN m.body : OnlySigned(m.body[j]) ELSE OnlySigned(m)

\* Unless a ping is lost and its messages are sent again, a client answers a message once, and what the
\* other has answered is not answered again: the checks for doublets and move_previous_message.
Replies(c) == box[c].outbox \o box[c].sending \o box[c].sent
AnsweredOnce ==
  faults = 0 => \A c \in Clients : LET s == Replies(c)
    IN  \A i, j \in DOMAIN s :
          s[i].req # 0 => s[i].req \notin box[c].closed /\ (i # j => s[i].req # s[j].req)

\* Copies of a comment only move forward, and a client has no version that the server has not
\* signed, whatever messages are lost, sent twice or late: verification before each merge.
R == INSTANCE Replicas WITH
       signed <- [k \in Cids |-> signed[k].v],
       copy <- [c \in Clients |-> [k \in Cids |->
                 IF k \in Held(gift[c][Home[k]]) THEN The(gift[c][Home[k]], k).v ELSE 0]]
Replicated == R!Spec

\* Clients come to rest: in the end no message waits or travels, except copies of a gift with an
\* action that is never taken out of the buffer (the wait passes of receive_message_send_gifts).
Sticky(c) == \E g \in Gifts : gift[c][g].gone # "no" \/ \E o \in Cs(gift[c][g]) : o.act # "no"
Quiet == <>[](\A c \in Clients :
  ~Raises(c) => /\ box[c].outbox = <<>> /\ store[c] = <<>>
                /\ box[c].inbox \o box[c].read # <<>> => Sticky(c))

\* Clients agree in the end unless a message is lost for good: both have the same gifts and comments,
\* and the newest version of those both had when their pages were loaded.
Agree(c, d, g) ==
  gift[c][g].here =>
    /\ gift[d][g].here /\ Held(gift[c][g]) = Held(gift[d][g])
    /\ \A o \in Cs(gift[c][g]), p \in Cs(gift[d][g]) :
         o.cid = p.cid /\ o.h > 0 /\ p.h > 0 => o.v = p.v
Converges == <>[]((\A c \in Clients : ~Raises(c) /\ ~Sticky(c)) /\ ~lost
  => \A c, d \in Clients, g \in Gifts : Agree(c, d, g))
=============================================================================
