--------------------------- MODULE CompareUsers ---------------------------
(* Two servers find out which of their users are the same people, without    *)
(* telling each other who they are.  A ping carries the sha256 signatures of  *)
(* some users under pseudo user ids; the other server answers with a          *)
(* signature when it has the same user.  A match is verified by the server    *)
(* that asked; the other one only notes the pseudo id.  So that both verify,  *)
(* the pinged server asks too: in its response, and is answered in the next   *)
(* ping.  When the profile of a user changes the signature changes, and the   *)
(* pseudo id tells whose signature it was.                                    *)
EXTENDS Integers, FiniteSets, FiniteSetsExt, SequencesExt

CONSTANTS
  Servers,        \* two servers
  Pingers,        \* the servers that run the ping loop
  Persons,        \* people with an account on one of the servers, or both
  Early,          \* Early[s]: those who have one from the beginning, in the order they came
  Online,         \* those with an open tab of their own on every server they have an account on
  Batch,          \* users compared in a message (10 in the code)
  MaxInfo,        \* bound: MaxInfo[x]: profile changes
  MaxLosses       \* bound: pings that get lost

ASSUME ServersAssumption == IsFiniteSet(Servers) /\ Cardinality(Servers) = 2 /\ Pingers \subseteq Servers
ASSUME PersonsAssumption == (\A s \in Servers : Early[s] \in Seq(Persons) /\ IsInjective(Early[s]))
                            /\ Online \subseteq Persons /\ IsFiniteSet(Persons)
ASSUME BoundsAssumption == Batch \in Nat \ {0} /\ MaxInfo \in [Persons -> Nat] /\ MaxLosses \in Nat

VARIABLES
  db,             \* db[s]: the tables of a server
  ping,           \* ping[s]: the ping s has sent, on its way
  profile,        \* profile[x]: version of the profile at the login provider
  clock,          \* the last sha256_updated_at
  losses,         \* pings lost so far
  missed          \* those of whose change the other server may not hear

vars == <<db, ping, profile, clock, losses, missed>>

Other(s) == CHOOSE o \in Servers : o # s

\* users: id 0 without an account; info: the profile the signature is made of; at:
\* sha256_updated_at; pending: remote_sha256_update_info, the profile is to be downloaded.
NoUser == [id |-> 0, info |-> 0, at |-> 0, pending |-> FALSE]
\* server_users: pseudo, remote: the ids under which this and the other server asked for the
\* user; remoteAt: the changed signature received; sent: sha256_message_sent_at, lately.
NoMatch == [verified |-> FALSE, pseudo |-> 0, remote |-> 0, remoteAt |-> 0, sent |-> FALSE]

\* requests: server_user_requests.  A positive id is a question of this server in a response,
\* a negative one a question of the other server, to be answered in the next ping.
\* tabs: those whose tabs on the other server are in the pings table.
Init ==
  /\ db = [s \in Servers |->
       [user |-> [x \in Persons |-> IF x \in Range(Early[s])
                    THEN [NoUser EXCEPT !.id = CHOOSE i \in DOMAIN Early[s] : Early[s][i] = x] ELSE NoUser],
        match |-> [x \in Persons |-> NoMatch], checked |-> 0, changed |-> 0, requests |-> {}, next |-> 0,
        mail |-> <<>>, tabs |-> {}, stuck |-> FALSE]]
  /\ ping = [s \in Servers |-> [stage |-> "idle", msgs |-> <<>>, asked |-> {}]]
  /\ profile = [x \in Persons |-> 0]
  /\ clock = 0 /\ losses = 0 /\ missed = {}

\* F of the value of v.
With(v, F(_)) == CHOOSE r \in {F(x) : x \in {v}} : TRUE

----------------------------------------------------------------------------
\* Signatures.

\* calc_sha256 with the secret of the other server, which compares it with its own column:
\* equal when the profiles are.  In messages a set, empty for nil.
Signature(d, x) == {[who |-> x, info |-> d.user[x].info]}
Has(d, x)       == d.user[x].id > 0
Matches(d, sig) == {x \in Persons : Has(d, x) /\ Signature(d, x) = sig}

Verified(d, x) == d.match[x].verified
\* What a server says of a user in online and sha256 messages; not in the code: without the
\* pseudo id, or with the time of the other server.
NoPseudo(d, x)  == [sig |-> Signature(d, x), at |-> d.user[x].at]
OtherTime(d, x) == [sig |-> Signature(d, x), pseudo |-> d.match[x].remote, at |-> d.match[x].remoteAt]
Described(d, x) == [sig |-> Signature(d, x), pseudo |-> d.match[x].remote, at |-> d.user[x].at]
Mailed(d, type, users) == [d EXCEPT !.mail = Append(@, [type |-> type, users |-> users])]

\* Not in the code: users of whom only this server knows that they are the same.
AnySignature(d, g) == Matches(d, g.sig)

\* from_sha256s_to_user_ids: by signature or else by pseudo id, verified users only.  For a
\* valid signature the marks in server_users are cleared, but the row is not saved.
BySignature(d, g) == {x \in Matches(d, g.sig) : Verified(d, x)}
ByPseudo(d, g)    == {x \in Persons : Verified(d, x) /\ d.match[x].pseudo = g.pseudo}

\* The changed signatures of user x that are newer than the one here.
Newer(d, users, x) ==
  {g \in users : /\ BySignature(d, g) = {} /\ x \in ByPseudo(d, g)
                 /\ g.at > d.match[x].remoteAt /\ g.at > d.user[x].at}

\* An older signature here is to be renewed.  A newer one stays: the row with the time of the
\* other one is not saved.  receive_sha256_changed_message looks every user up by pseudo id once
\* more and reads the timestamp of what it finds, nil or not.
ReceiveSha256(d, users) ==
  LET valid == UNION {BySignature(d, g) : g \in users} IN
  [d EXCEPT
     !.match = [x \in Persons |-> IF Newer(d, users, x) = {} THEN @[x]
                  ELSE [@[x] EXCEPT !.remoteAt = Max({g.at : g \in Newer(d, users, x)})]],
     !.user = [x \in Persons |-> IF Newer(d, users, x) # {} THEN [@[x] EXCEPT !.pending = TRUE]
                 ELSE IF x \in valid THEN [@[x] EXCEPT !.pending = FALSE] ELSE @[x]],
     !.stuck = \E x \in valid : \A g \in users : g.pseudo # d.match[x].pseudo]

\* receive_online_users_message: the tabs of users with a valid signature.  The time of one
\* that has changed comes as a string here, and is compared with a number.
ReceiveOnline(d, users) ==
  LET valid == UNION {BySignature(d, g) : g \in users} IN
  [d EXCEPT !.tabs = valid,
            !.user = [y \in Persons |-> IF y \in valid THEN [@[y] EXCEPT !.pending = FALSE] ELSE @[y]],
            !.stuck = \E g \in users : BySignature(d, g) = {} /\ ByPseudo(d, g) # {}]

----------------------------------------------------------------------------
\* The users message.

\* Users with a higher id than those that have been compared, lowest first; if there are
\* less than a batch also those whose signature changed, at the oldest times.
NewUsers(d) ==
  LET new == {x \in Persons : d.user[x].id > d.checked}
  IN {x \in new : Cardinality({y \in new : d.user[y].id < d.user[x].id}) < Batch}
ChangedUsers(d) ==
  LET changed == {x \in Persons \ NewUsers(d) : d.user[x].at > d.changed}
  IN {x \in changed : Cardinality(NewUsers(d)) + Cardinality({y \in changed : d.user[y].at < d.user[x].at}) < Batch}
Asked(d) == NewUsers(d) \union ChangedUsers(d)

\* A changed user keeps the pseudo id of its match, any other gets the next one; not in the
\* code: a changed user gets one too.
Fresh(d)       == {x \in Asked(d) : x \in NewUsers(d) \/ d.match[x].pseudo = 0}
AlwaysNewId(d, x) == d.next + Cardinality({y \in Asked(d) : d.user[y].id <= d.user[x].id})
PseudoId(d, x) == IF x \in Fresh(d) THEN d.next + Cardinality({y \in Fresh(d) : d.user[y].id <= d.user[x].id})
                  ELSE d.match[x].pseudo
Questions(d)   == {[id |-> PseudoId(d, x), who |-> x] : x \in Asked(d)}

\* Not in the code: pseudo ids given twice; users taken for compared when the question is put.
SameIdsAgain(d) == [d EXCEPT !.changed = Max({@} \union {d.user[x].at : x \in ChangedUsers(d)})]
CheckedWhenAsked(d) ==
  [d EXCEPT !.next = @ + Cardinality(Fresh(d)),
            !.checked = Max({@} \union {d.user[x].id : x \in NewUsers(d)}),
            !.changed = Max({@} \union {d.user[x].at : x \in ChangedUsers(d)})]

\* last_changed_user_sha256_at is moved when the question is put, not when it is answered.
AfterQuestions(d) ==
  [d EXCEPT !.next = @ + Cardinality(Fresh(d)),
            !.changed = Max({@} \union {d.user[x].at : x \in ChangedUsers(d)})]

\* A signature is looked up for the other server; a match is noted with its pseudo id.
Noted(d, asked) ==
  [d EXCEPT !.match = [x \in Persons |->
     LET ids == {u.id : u \in {v \in asked : x \in Matches(d, v.sig)}}
     IN IF ids = {} THEN @[x] ELSE [@[x] EXCEPT !.remote = CHOOSE i \in ids : TRUE]]]
Answered(d, asked, sign) ==
  {[id |-> sign * u.id, sig |-> IF Matches(d, u.sig) = {} THEN {} ELSE u.sig] : u \in asked}

\* Questions of this server with the answer: a signature that is right verifies the user and
\* counts as a changed one (update_sha256), unless the match is old.
Confirmed(d, q, answers) == \E u \in answers : u.id = q.id /\ u.sig = Signature(d, q.who)
OldMatch(d, q)  == Verified(d, q.who) /\ d.match[q.who].pseudo = q.id
Compared(d, questions, answers, now) ==
  LET asked == {q \in questions : \E u \in answers : u.id = q.id}
      done  == {q \in asked : Confirmed(d, q, answers) /\ ~OldMatch(d, q)}
      hit(x) == {q \in done : q.who = x}
  IN [d EXCEPT
       !.match = [x \in Persons |-> IF hit(x) = {} THEN @[x]
                    ELSE [@[x] EXCEPT !.verified = TRUE, !.pseudo = (CHOOSE q \in hit(x) : TRUE).id]],
       !.user = [x \in Persons |-> IF hit(x) = {} THEN @[x] ELSE [@[x] EXCEPT !.at = now, !.pending = FALSE]],
       !.checked = Max({@} \union {d.user[q.who].id : q \in asked})]

\* create_compare_users_message: the answers to the response before, then questions.
UsersRequest(d) ==
  LET waiting == {[id |-> -r.id, sig |-> r.sig] : r \in {q \in d.requests : q.id < 0}}
      asked   == Questions(d)
  IN [d     |-> [AfterQuestions(Noted(d, waiting)) EXCEPT !.requests = {r \in @ : r.id > 0}],
      asked |-> asked,
      users |-> Answered(d, waiting, -1) \union {[id |-> q.id, sig |-> Signature(d, q.who)] : q \in asked}]

\* receive_compare_users_message in the server that pinged: answers to its questions, and
\* questions it keeps.  Two questions with one id: neither is kept when they differ.
ReceiveUsersResponse(d, users, asked, now) ==
  LET theirs == {u \in users : u.id < 0}
      buffered(u) == {r \in d.requests : r.id = u.id}
  IN [Compared(d, asked, {u \in users : u.id > 0}, now) EXCEPT !.requests =
        {r \in @ : \A u \in theirs : r.id = u.id => r.sig = u.sig}
          \union {[id |-> u.id, sig |-> u.sig, who |-> {}] : u \in {v \in theirs : buffered(v) = {}}}]

\* ... and in the server that was pinged, which always responds.
Replied(d, theirs) ==
  Mailed(
    [AfterQuestions(d) EXCEPT !.requests = {[id |-> q.id, sig |-> {}, who |-> {q.who}] : q \in Questions(d)}],
    "users",
    Answered(d, theirs, 1) \union {[id |-> -q.id, sig |-> Signature(d, q.who)] : q \in Questions(d)})
ReceiveUsersRequest(d, users, now) ==
  LET theirs  == {u \in users : u.id > 0}
      answers == {[id |-> -u.id, sig |-> u.sig] : u \in users \ theirs}
      mine    == {[id |-> r.id, who |-> CHOOSE x \in r.who : TRUE] : r \in {q \in d.requests : q.id > 0}}
  IN With(Noted(d, theirs), LAMBDA e : With(Compared(e, mine, answers, now), LAMBDA f : Replied(f, theirs)))

----------------------------------------------------------------------------
\* Message.receive_messages.

OnlineUsers(d) == {Described(d, x) : x \in {y \in Online : Verified(d, y)}}
WithOnline(d)  == IF OnlineUsers(d) = {} THEN d ELSE Mailed(d, "online", OnlineUsers(d))

\* A message that raises an exception is not removed, and no later one is read.  The model
\* says no more of the server then.
ReceiveResponse(d, m, asked, now) ==
  IF d.stuck THEN d
  ELSE CASE m.type = "users"  -> ReceiveUsersResponse(d, m.users, asked, now)
         [] m.type = "online" -> ReceiveOnline(d, m.users)
         [] m.type = "sha256" -> ReceiveSha256(d, m.users)
ReceiveRequest(d, m, now) ==
  IF d.stuck THEN d
  ELSE CASE m.type = "users"  -> ReceiveUsersRequest(d, m.users, now)
         [] m.type = "online" -> WithOnline(ReceiveOnline(d, m.users))
         [] m.type = "sha256" -> ReceiveSha256(d, m.users)

\* The other server is told of changed signatures, again after two minutes (again).
ToTell(d, again) ==
  {x \in Persons : /\ Verified(d, x) /\ d.match[x].remote # 0 /\ d.match[x].remoteAt # 0
                   /\ ~d.match[x].sent \/ x \in again}
Told(d, X) ==
  IF X = {} THEN d
  ELSE [Mailed(d, "sha256", {Described(d, x) : x \in X}) EXCEPT
          !.match = [x \in Persons |-> IF x \in X THEN [@[x] EXCEPT !.sent = TRUE] ELSE @[x]]]

\* What a server makes of the messages it gets, in their order.
ReadRequests(d, msgs, now) ==
  LET read[i \in 0..Len(msgs)] ==
        IF i = 0 THEN d ELSE With(read[i - 1], LAMBDA e : ReceiveRequest(e, msgs[i], now))
  IN read[Len(msgs)]
ReadResponses(d, msgs, asked, now) ==
  LET read[i \in 0..Len(msgs)] ==
        IF i = 0 THEN d ELSE With(read[i - 1], LAMBDA e : ReceiveResponse(e, msgs[i], asked, now))
  IN read[Len(msgs)]

\* One answer to each type of message, also to those that did not come.
Came(msgs, type) == \E i \in DOMAIN msgs : msgs[i].type = type
UsersToo(d, msgs, now) == IF Came(msgs, "users") THEN d ELSE ReceiveUsersRequest(d, {}, now)
OnlineToo(d, msgs)     == IF Came(msgs, "online") THEN d ELSE WithOnline(d)
Served(d, msgs, again, now) ==
  With(ReadRequests(d, msgs, now), LAMBDA e :
    IF e.stuck THEN e
    ELSE With(With(Told(e, ToTell(e, again)), LAMBDA f : UsersToo(f, msgs, now)), LAMBDA f : OnlineToo(f, msgs)))
Read(d, msgs, asked, again, now) ==
  With(ReadResponses(d, msgs, asked, now), LAMBDA e : IF e.stuck THEN e ELSE Told(e, ToTell(e, again)))

----------------------------------------------------------------------------
Ticked == clock' = IF \E s \in Servers, x \in Persons : db'[s].user[x].at > clock THEN clock + 1 ELSE clock

\* Server.ping: the messages that wait, a users message and the online users.
SendPing(s) ==
  /\ s \in Pingers /\ ping[s].stage = "idle"
  /\ \E r \in {UsersRequest(db[s])} :
       LET d == WithOnline(IF r.users = {} THEN r.d ELSE Mailed(r.d, "users", r.users)) IN
       /\ ping' = [ping EXCEPT ![s] = [stage |-> "request", msgs |-> d.mail, asked |-> r.asked]]
       /\ db' = [db EXCEPT ![s] = [d EXCEPT !.mail = <<>>]]
  /\ UNCHANGED <<profile, clock, losses, missed>>

\* util_controller.ping: what is in the mailbox for the caller is returned.
HandlePing(s) ==
  LET o == Other(s) IN
  /\ ping[s].stage = "request"
  /\ \E again \in SUBSET {x \in Persons : db[o].match[x].sent} :
       \E d \in {Served(db[o], ping[s].msgs, again, clock + 1)} :
         /\ db' = [db EXCEPT ![o] = IF d.stuck THEN d ELSE [d EXCEPT !.mail = <<>>]]
         /\ ping' = [ping EXCEPT ![s].stage = "response", ![s].msgs = IF d.stuck THEN <<>> ELSE d.mail]
  /\ Ticked
  /\ UNCHANGED <<profile, losses, missed>>

ReceivePing(s) ==
  /\ ping[s].stage = "response"
  /\ \E again \in SUBSET {x \in Persons : db[s].match[x].sent} :
       db' = [db EXCEPT ![s] = Read(db[s], ping[s].msgs, ping[s].asked, again, clock + 1)]
  /\ ping' = [ping EXCEPT ![s] = [stage |-> "idle", msgs |-> <<>>, asked |-> {}]]
  /\ Ticked
  /\ UNCHANGED <<profile, losses, missed>>

\* No connection, an error status or an invalid response.
LosePing(s) ==
  /\ ping[s].stage \in {"request", "response"} /\ losses < MaxLosses
  /\ losses' = losses + 1
  /\ ping' = [ping EXCEPT ![s] = [stage |-> "idle", msgs |-> <<>>, asked |-> {}]]
  /\ UNCHANGED <<db, profile, clock, missed>>

----------------------------------------------------------------------------
\* The users of the servers.

ChangeProfile(x) ==
  /\ profile[x] < MaxInfo[x]
  /\ profile' = [profile EXCEPT ![x] = @ + 1]
  /\ UNCHANGED <<db, ping, clock, losses, missed>>

\* The first login on a server.
SignUp(s, x) ==
  /\ ~Has(db[s], x) /\ x \notin Range(Early[s])
  /\ db' = [db EXCEPT ![s].user[x] =
       [NoUser EXCEPT !.id = 1 + Max({db[s].user[y].id : y \in Persons}), !.info = profile[x]]]
  /\ UNCHANGED <<ping, profile, clock, losses, missed>>

\* update_sha256 when a friend list is downloaded: the other server is told at once.
Download(s, x) ==
  LET d == [db[s] EXCEPT !.user[x].info = profile[x], !.user[x].at = clock + 1, !.user[x].pending = FALSE] IN
  /\ Has(db[s], x) /\ db[s].user[x].info # profile[x]
  /\ db' = [db EXCEPT ![s] = IF Verified(d, x) THEN Told(d, {x}) ELSE d]
  /\ clock' = clock + 1
  /\ UNCHANGED <<ping, profile, losses, missed>>

\* find_or_create_user: the same without a timestamp and without a message.
LogIn(s, x) ==
  /\ Has(db[s], x) /\ db[s].user[x].info # profile[x]
  /\ db' = [db EXCEPT ![s].user[x].info = profile[x]]
  /\ missed' = missed \union {x}
  /\ UNCHANGED <<ping, profile, clock, losses>>

\* check_changed_remote_sha256: none of the friends has done it in time.
GiveUp(s, x) ==
  /\ db[s].user[x].pending
  /\ db' = [db EXCEPT ![s].user[x].pending = FALSE]
  /\ missed' = missed \union {x}
  /\ UNCHANGED <<ping, profile, clock, losses>>

PingNext(s) == SendPing(s) \/ HandlePing(s) \/ ReceivePing(s) \/ LosePing(s)
UserNext(s, x) == SignUp(s, x) \/ Download(s, x) \/ LogIn(s, x) \/ GiveUp(s, x)

Next ==
  \/ \E s \in Servers : PingNext(s)
  \/ \E s \in Servers, x \in Persons : UserNext(s, x)
  \/ \E x \in Persons : ChangeProfile(x)

Spec == Init /\ [][Next]_vars
FairSpec ==
  /\ Spec
  /\ \A s \in Pingers : WF_vars(SendPing(s) \/ HandlePing(s) \/ ReceivePing(s))
  /\ WF_vars(\E s \in Servers, x \in Persons : db[s].user[x].pending /\ Download(s, x))

----------------------------------------------------------------------------
MessageUsers(m) == CASE m.type = "users" -> [id : Int, sig : SUBSET [who : Persons, info : Nat]]
                     [] m.type \in {"online", "sha256"} ->
                          [sig : SUBSET [who : Persons, info : Nat], pseudo : Nat, at : Nat]

\* Every state is made of the values described above, and questions keep to their side: only
\* the server itself knows about whom it asked.
TypeOK ==
  /\ profile \in [Persons -> Nat] /\ clock \in Nat /\ losses \in 0..MaxLosses /\ missed \subseteq Persons
  /\ \A s \in Servers :
       /\ ping[s].stage \in {"idle", "request", "response"}
       /\ ping[s].asked \subseteq [id : Nat \ {0}, who : Persons]
       /\ \A m \in Range(ping[s].msgs) \union Range(db[s].mail) : m.users \subseteq MessageUsers(m)
       /\ db[s].user \in [Persons -> [id : Nat, info : Nat, at : 0..clock, pending : BOOLEAN]]
       /\ db[s].match \in [Persons -> [verified : BOOLEAN, pseudo : Nat, remote : Nat, remoteAt : 0..clock, sent : BOOLEAN]]
       /\ \A r \in db[s].requests : r.id # 0 /\ Cardinality(r.who) = IF r.id > 0 THEN 1 ELSE 0
       /\ db[s].tabs \subseteq Persons /\ db[s].stuck \in BOOLEAN

\* A pseudo id means the same person on both servers, whatever pings were lost: what one of
\* them says of a user must never be taken for somebody else (server_users, the ids of
\* Sequence.next_pseudo_user_id).
SamePerson ==
  \A s \in Servers, x, y \in Persons :
    db[s].match[x].pseudo # 0 /\ db[s].match[x].pseudo = db[Other(s)].match[y].remote => x = y

\* The pseudo id under which a server has verified a user is the one the other server has
\* noted for the user, or they could not tell each other of a change.
PseudoAgrees ==
  \A s \in Servers, x \in Persons :
    Verified(db[s], x) => db[Other(s)].match[x].remote = db[s].match[x].pseudo

\* As long as users who are online keep their profiles, no message raises an exception, which
\* would leave it, and all that come after it, in the mailbox (receive_sha256_changed_message
\* reads a timestamp of what it looks up by pseudo id; Message.receive_messages).
NotStuck == \A s \in Servers : ~db[s].stuck

Both(x)    == \A s \in Servers : Verified(db[s], x)
Renewed(x) == \E s \in Servers : db[s].user[x].info # 0
OnBoth     == {x \in Persons : \A s \in Servers : x \in Range(Early[s])}

\* Users the two servers have had from the beginning are in the end verified by both, unless
\* the profile changes meanwhile, with pings that get lost (compare users messages).
EarlyMatched == \A x \in OnBoth : <>(Both(x) \/ Renewed(x))

\* A user who comes to the second server later is in the end verified by at least one of them
\* (last_checked_user_id, moved only by an answer).
LateMatched ==
  \A x \in Persons \ OnBoth :
    (\A s \in Servers : Has(db[s], x)) ~> (Renewed(x) \/ \E s \in Servers : Verified(db[s], x))

Same(x) == \A s, t \in Servers : db[s].user[x].info = db[t].user[x].info

Agreed(x) == Both(x) /\ Same(x) /\ \A s \in Servers : ping[s].stage = "idle" /\ db[s].mail = <<>>

\* When the servers have agreed on a user and no more pings are lost, every change of the
\* profile that one of them downloads is downloaded by the other as well, unless a login or a
\* friend who does not come keeps it from that (update_sha256, the sha256 changed messages
\* and their repetition, and the comparison of signatures, which goes on meanwhile).
ChangeArrives ==
  \A x \in {y \in Persons : MaxInfo[y] > 0} : [](Agreed(x) /\ losses = MaxLosses => <>[](x \in missed \/ Same(x)))
===========================================================================
