---------------------------- MODULE VerifyGifts ----------------------------
(* Gift actions from the browser to the servers and back.  A browser tab     *)
(* keeps gifts in memory and in a localStorage it shares with the other tabs. *)
(* Its actions wait in a buffer for the next ping.  Actions on gifts of this  *)
(* server are answered in the ping and are sent again until they are          *)
(* (positive seq).  Actions on gifts of another server are sent once          *)
(* (negative seq): this server forwards them and hands out the answer in a    *)
(* later ping.                                                                *)
EXTENDS Integers, FiniteSets, SequencesExt

CONSTANTS
  Tabs,           \* browser tabs with the same login, one sid each
  Gifts,          \* gift ids
  Clones,         \* copies of gifts that arrive from other clients, per tab
  There,          \* the gifts of the other server; the others belong to this one
  Refusable,      \* gifts whose users may be logged out: their actions can be refused
  Timeout,        \* ping responses without an answer before a remote action fails (35 in the code)
  MaxClock,       \* bound: deletions
  MaxSeq,         \* bound: sequence numbers of the localStorage
  Reloads, Syncs, Losses, Changes   \* switches: what a run lets happen

ASSUME GiftsAssumption == Gifts \intersect Clones = {} /\ There \subseteq Gifts /\ IsFiniteSet(Gifts \union Clones)
ASSUME BoundsAssumption == Timeout \in Nat \ {0} /\ MaxClock \in Nat /\ MaxSeq \in Nat
ASSUME SwitchAssumption == {Reloads, Syncs, Losses, Changes} \subseteq BOOLEAN

VARIABLES
  store,          \* localStorage: the gifts
  seqLS,          \* localStorage: last sequence number
  clock,          \* timestamp of the last deletion
  obj,            \* obj[t][o]: gift objects in memory, gifts array and clones
  buffer,         \* verify_gifts: objects for the next request
  pending,        \* verify_gifts_seq_to_gifts: actions that wait for an answer
  oldSeq,         \* verify_gifts_old_remote_seq: seqLS when the tab was loaded
  ping,           \* the ping of a tab, on its way
  row,            \* row[g]: the gift in the table of its server
  vg,             \* verify_gifts table: remote actions of this server's clients
  wire,           \* messages between the servers
  blocked         \* a message this server fails to process is the first in its mailbox

client == <<store, seqLS, clock, obj, buffer, pending, oldSeq>>
server == <<row, vg, wire, blocked>>
vars   == <<client, ping, server>>

Actions == {"create", "verify", "delete"}
Objects == Gifts \union Clones
Stamps  == 0..MaxClock                 \* deleted_at_client, 0 when the gift is not deleted

NoStore == [saved |-> FALSE, created |-> FALSE, del |-> 0, deleted |-> FALSE]
NoObj   == [here |-> FALSE, gid |-> CHOOSE g \in Gifts : TRUE, known |-> FALSE, created |-> FALSE, del |-> 0,
            deleted |-> FALSE, at |-> "none", seq |-> 0, verified |-> "none"]
NoPing  == [stage |-> "idle", items |-> {}, answers |-> {}]

\* A gift read from localStorage.  known: its key is in gid_to_seq, so that it can be saved.
Loaded(g, known) ==
  [NoObj EXCEPT !.here = TRUE, !.gid = g, !.known = known, !.created = store[g].created,
                !.del = store[g].del, !.deleted = store[g].deleted]

Init ==
  /\ store = [g \in Gifts |-> IF g \in There THEN [NoStore EXCEPT !.saved = TRUE, !.created = TRUE] ELSE NoStore]
  /\ seqLS = 0 /\ clock = 0
  /\ obj = [t \in Tabs |-> [o \in Objects |-> IF o \in There THEN Loaded(o, TRUE) ELSE NoObj]]
  /\ buffer = [t \in Tabs |-> {}]
  /\ pending = [t \in Tabs |-> {}]
  /\ oldSeq = [t \in Tabs |-> 0]
  /\ ping = [t \in Tabs |-> NoPing]
  /\ row = [g \in Gifts |-> [created |-> g \in There, del |-> 0]]
  /\ vg = {} /\ wire = {} /\ blocked = FALSE

----------------------------------------------------------------------------
\* Gift objects.

\* refresh_gift: other tabs may have changed the gift.  deleted_at_server is not refreshed.
Refreshed(o) ==
  IF o.known THEN [o EXCEPT !.created = store[o.gid].created, !.del = store[o.gid].del] ELSE o

\* save_gift writes the whole gift, and nothing when the gift is not in gid_to_seq.
Saved(s, o) ==
  IF o.known
  THEN [s EXCEPT ![o.gid] = [saved |-> TRUE, created |-> o.created, del |-> o.del, deleted |-> o.deleted]]
  ELSE s

\* verify_gifts_add: the checks before the one on verify_gift_at (at).
MayAdd(o, action) ==
  /\ action # "create" => o.created
  /\ action = "create" => ~o.created
  /\ action = "delete" => o.del # 0 /\ ~o.deleted
  /\ action = "verify" => o.verified = "none"
CanAddTwice(o, action) == MayAdd(o, action)
CanAdd(o, action) == MayAdd(o, action) /\ o.at = "none"

\* The request of an object, without seq; also the key of a pending action.
Key(o) == [gid |-> o.gid, action |-> o.at, del |-> o.del]
Local(k) == k.action = "create" \/ k.gid \notin There

\* The bound on sequence numbers limits what users start, never what the code does.
Room == seqLS + Cardinality(UNION {{<<t, o>> : o \in buffer[t]} : t \in Tabs}) < MaxSeq
SetObj(t, o, v) == obj' = [obj EXCEPT ![t][o] = v]
Enqueue(t, o) == buffer' = [buffer EXCEPT ![t] = buffer[t] \union {o}]

----------------------------------------------------------------------------
\* The user.

CreateGift(t, g) ==
  /\ g \notin There /\ ~store[g].saved
  /\ Room
  /\ LET new == [NoObj EXCEPT !.here = TRUE, !.gid = g, !.known = TRUE] IN
     /\ store' = Saved(store, new)
     /\ SetObj(t, g, [new EXCEPT !.at = "create"])
  /\ seqLS' = seqLS + 1
  /\ Enqueue(t, g)
  /\ UNCHANGED <<clock, pending, oldSeq, ping, server>>

\* A click on a gift always refreshes it first; when it is deleted it only disappears.
RefreshGift(t, g) ==
  /\ obj[t][g].here
  /\ SetObj(t, g, Refreshed(obj[t][g]))
  /\ UNCHANGED <<store, seqLS, clock, buffer, pending, oldSeq, ping, server>>

\* The gift is marked and saved before verify_gifts_add is called.  An action that already
\* waits is not added again, an error takes the mark back.
DeleteGift(t, g) ==
  LET o      == Refreshed(obj[t][g])
      marked == [o EXCEPT !.del = clock + 1]
  IN
  /\ obj[t][g].here /\ o.del = 0
  /\ clock < MaxClock /\ Room
  /\ clock' = clock + 1
  /\ \/ /\ CanAdd(marked, "delete")
        /\ SetObj(t, g, [marked EXCEPT !.at = "delete"])
        /\ store' = Saved(store, marked)
        /\ Enqueue(t, g)
     \/ /\ MayAdd(marked, "delete") /\ marked.at = "delete"
        /\ SetObj(t, g, marked)
        /\ store' = Saved(store, marked)
        /\ UNCHANGED buffer
     \/ /\ ~MayAdd(marked, "delete") \/ marked.at \notin {"none", "delete"}
        /\ SetObj(t, g, o)
        /\ store' = Saved(store, o)
        /\ UNCHANGED buffer
  /\ UNCHANGED <<seqLS, pending, oldSeq, ping, server>>

\* A gift in a send_gifts message: its signature is checked before it is merged, whatever the
\* other client claims.
ReceiveClone(t, c, g) ==
  /\ c \in Clones /\ ~obj[t][c].here
  /\ Room
  /\ \E d \in Stamps :
       SetObj(t, c, [NoObj EXCEPT !.here = TRUE, !.gid = g, !.created = TRUE, !.del = d, !.at = "verify"])
  /\ Enqueue(t, c)
  /\ UNCHANGED <<store, seqLS, clock, pending, oldSeq, ping, server>>

\* The answer is used and the copy dropped.
UseClone(t, c) ==
  /\ c \in Clones /\ obj[t][c].here /\ obj[t][c].verified # "none"
  /\ SetObj(t, c, NoObj)
  /\ UNCHANGED <<store, seqLS, clock, buffer, pending, oldSeq, ping, server>>

\* The message with the copy has waited long enough for the other server: the copy is taken out
\* of its pending action, and the action with its last copy.
GiveUpClone(t, c) ==
  /\ c \in Clones /\ obj[t][c].seq < 0 /\ obj[t][c].verified = "none"
  /\ SetObj(t, c, NoObj)
  /\ pending' = [pending EXCEPT ![t] =
       {[e EXCEPT !.objs = e.objs \ {c}] : e \in {f \in pending[t] : f.objs # {c}}}]
  /\ UNCHANGED <<store, seqLS, clock, buffer, oldSeq, ping, server>>

\* load_gifts on a page load: what was waiting is forgotten, deleted_at_server is removed,
\* and create and delete actions without an answer are added again - for gifts of this server.
Reload(t) ==
  /\ Reloads /\ ping[t] = NoPing
  /\ store' = [g \in Gifts |-> [store[g] EXCEPT !.deleted = FALSE]]
  /\ LET again(g) == IF ~store[g].created THEN "create"
                     ELSE IF g \notin There /\ store[g].del # 0 THEN "delete" ELSE "none"
         saved    == {g \in Gifts : store[g].saved}
     IN /\ obj' = [obj EXCEPT ![t] = [o \in Objects |->
                     IF o \in saved THEN [Loaded(o, TRUE) EXCEPT !.deleted = FALSE, !.at = again(o)] ELSE NoObj]]
        /\ buffer' = [buffer EXCEPT ![t] = {g \in saved : again(g) # "none"}]
  /\ pending' = [pending EXCEPT ![t] = {}]
  /\ oldSeq' = [oldSeq EXCEPT ![t] = seqLS]
  /\ UNCHANGED <<seqLS, clock, ping, server>>

\* sync_gifts, when the server has told of another tab: gifts created there appear here, but
\* gid_to_seq is not extended.
Sync(t) ==
  /\ Syncs
  /\ obj' = [obj EXCEPT ![t] = [o \in Objects |->
       IF o \in Clones \/ ~store[o].saved THEN obj[t][o]
       ELSE IF obj[t][o].here
            THEN [obj[t][o] EXCEPT !.created = store[o].created, !.del = store[o].del]
            ELSE Loaded(o, obj[t][o].known)]]
  /\ UNCHANGED <<store, seqLS, clock, buffer, pending, oldSeq, ping, server>>

----------------------------------------------------------------------------
\* The ping of a tab.

Entry(t, k) == {e \in pending[t] : e.key = k}
Has(t, seq) == \E e \in pending[t] : e.seq = seq
Max0(S)     == CHOOSE m \in S \union {0} : \A n \in S \union {0} : n <= m

\* The i-th number get_next_seq returns, negative; it is saved in localStorage.
RemoteSeqRestarted(i) == -i
RemoteSeq(i) == -(seqLS + i)

\* Waiting local actions are sent with every ping, remote ones once.
SentOnce(e, new) == e \in new
Sent(e, new) == e.seq > 0 \/ e \in new

\* verify_gifts_request: equal actions share one entry; new local actions are numbered after
\* the waiting ones, new remote ones from the localStorage sequence.
SendPing(t) ==
  LET todo   == {o \in buffer[t] : obj[t][o].verified = "none" /\ obj[t][o].seq = 0}
      objs(k) == {o \in todo : Key(obj[t][o]) = k}
      keys   == {Key(obj[t][o]) : o \in todo}
      fresh  == {k \in keys : Entry(t, k) = {}}
      locals == SetToSeq({k \in fresh : Local(k)})
      remotes == SetToSeq({k \in fresh : ~Local(k)})
      last   == Max0({e.seq : e \in pending[t]})
      new    == {[seq |-> last + i, key |-> locals[i], objs |-> objs(locals[i]), count |-> 0] : i \in DOMAIN locals}
                  \union {[seq |-> RemoteSeq(i), key |-> remotes[i], objs |-> objs(remotes[i]), count |-> 0] : i \in DOMAIN remotes}
      joined == {[e EXCEPT !.objs = e.objs \union objs(e.key)] : e \in pending[t]}
      seqOf(k) == (CHOOSE e \in new \union joined : e.key = k).seq
  IN
  /\ ping[t] = NoPing
  /\ seqLS' = seqLS + Len(remotes)
  /\ pending' = [pending EXCEPT ![t] = joined \union new]
  /\ buffer' = [buffer EXCEPT ![t] = {}]
  /\ obj' = [obj EXCEPT ![t] = [o \in Objects |->
       IF o \in todo THEN [obj[t][o] EXCEPT !.seq = seqOf(Key(obj[t][o]))] ELSE obj[t][o]]]
  /\ ping' = [ping EXCEPT ![t] = [stage |-> "request", answers |-> {},
       items |-> {[seq |-> e.seq, key |-> e.key] : e \in {f \in joined \union new : Sent(f, new)}}]]
  /\ UNCHANGED <<store, clock, oldSeq, server>>

\* What a server answers: see GiftActions for the checks in full.
AcceptsAnyDelete(k, r) ==
  k.action # "create" => r.created /\ (k.action = "verify" => k.del \in {0, r.del})
Accepts(k, r) ==
  CASE k.action = "create" -> TRUE
    [] k.action = "verify" -> r.created /\ k.del \in {0, r.del}
    [] k.action = "delete" -> r.created /\ r.del \in {0, k.del}
Applied(k, r) ==
  CASE k.action = "create" -> [r EXCEPT !.created = TRUE]
    [] k.action = "verify" -> r
    [] k.action = "delete" -> [r EXCEPT !.del = k.del]

Ready(t) == {v \in vg : v.tab = t /\ v.ok # "none"}
Answers(S) == {[seq |-> v.seq, gid |-> v.key.gid, ok |-> v.ok = "true"] : v \in S}

\* Gift.verify_gifts: local items are checked and done, remote ones get a row in
\* verify_gifts, and the answers of the other server that are there are read.
HandlePing(t) ==
  LET local  == {i \in ping[t].items : i.seq > 0}
      remote == ping[t].items \ local
  IN
  /\ ping[t].stage = "request"
  /\ \E refused \in SUBSET {i \in local : i.key.gid \in Refusable} :
       LET asked   == local \ refused
           \* the row a delete earlier in the same request has changed
           seen(i) == LET dels == {j \in asked : /\ j.seq < i.seq /\ j.key.gid = i.key.gid /\ j.key.action = "delete"
                                                 /\ Accepts(j.key, row[j.key.gid])}
                      IN IF dels = {} THEN row[i.key.gid] ELSE Applied((CHOOSE j \in dels : TRUE).key, row[i.key.gid])
           good    == {i \in asked : Accepts(i.key, seen(i))}
       IN
       /\ row' = [g \in Gifts |->
            LET mine == {i \in good : i.key.gid = g /\ i.key.action # "verify"}
            IN IF mine = {} THEN row[g] ELSE Applied((CHOOSE i \in mine : TRUE).key, row[g])]
       /\ ping' = [ping EXCEPT ![t] = [stage |-> "read", items |-> ping[t].items,
            answers |-> Answers(Ready(t))
              \union {[seq |-> i.seq, gid |-> i.key.gid, ok |-> i \in good] : i \in local}]]
  /\ vg' = vg \union {[tab |-> t, seq |-> i.seq, key |-> i.key, ok |-> "none"] : i \in remote}
  /\ UNCHANGED <<client, wire, blocked>>

\* Then the answered rows are deleted with one query, if any were read, and the messages to
\* the other server are stored.
FinishPing(t) ==
  LET remote == {i \in ping[t].items : i.seq < 0}
      read   == {a \in ping[t].answers : a.seq < 0}
  IN
  /\ ping[t].stage = "read"
  /\ vg' = IF read = {} THEN vg ELSE vg \ Ready(t)
  /\ wire' = wire \union {[type |-> "request", tab |-> t, seq |-> i.seq, key |-> i.key, ok |-> "none"] : i \in remote}
  /\ ping' = [ping EXCEPT ![t] = [stage |-> "response", items |-> {}, answers |-> ping[t].answers]]
  /\ UNCHANGED <<client, row, blocked>>

\* "Ping too early": nothing is handled, and the client gets no answer.
RejectPing(t) ==
  /\ ping[t].stage = "request"
  /\ ping' = [ping EXCEPT ![t] = [stage |-> "rejected", items |-> {}, answers |-> {}]]
  /\ UNCHANGED <<client, server>>

\* No connection, a server error or an invalid response: the tab sends a new ping.
LosePing(t) ==
  /\ Losses
  /\ ping[t].stage \in {"request", "response", "rejected"}
  /\ ping' = [ping EXCEPT ![t] = NoPing]
  /\ UNCHANGED <<client, server>>

----------------------------------------------------------------------------
\* The answers in the tab.

\* An answer nothing waits for is ignored when the tab was loaded after the question.
\* Any other one makes the tab drop the whole response.
Unknown(t) == {a \in ping[t].answers : ~Has(t, a.seq)}
Invalid(t) == {a \in Unknown(t) : a.seq > 0 \/ -a.seq > oldSeq[t]}

Outcome(o, e, ok) ==
  LET changed == Key(o) # e.key IN
  CASE changed /\ o.at # e.key.action                     -> "skip"
    [] changed /\ o.at = e.key.action                     -> "again"
    [] ~changed /\ o.at = "verify"                        -> "verified"
    [] ~changed /\ o.at = "create" /\ ~ok                 -> "refused"
    [] ~changed /\ o.at = "create" /\ ok                  ->
         IF o.created THEN "skip" ELSE IF Refreshed(o).created THEN "elsewhere" ELSE "created"
    [] ~changed /\ o.at = "delete"                        ->
         IF o.deleted THEN "skip" ELSE IF ok THEN "deleted" ELSE "undeleted"

\* An object whose request has changed meanwhile is added again, if verify_gifts_add agrees.
Reset(o) == [o EXCEPT !.at = "none", !.seq = 0]
Requeues(o, e) == CanAdd(Reset(o), e.key.action)

\* In "elsewhere" another tab had the answer first.  In "deleted" and "undeleted" the
\* object keeps verify_gift_at and verify_gift_action: the code clears verify_comment_at.
After(o, e, ok) ==
  LET r == Refreshed(o) IN
  CASE Outcome(o, e, ok) = "skip"      -> o
    [] Outcome(o, e, ok) = "again"     -> IF Requeues(o, e) THEN [Reset(o) EXCEPT !.at = e.key.action] ELSE Reset(o)
    [] Outcome(o, e, ok) = "verified"  -> [o EXCEPT !.verified = IF ok THEN "true" ELSE "false"]
    [] Outcome(o, e, ok) = "refused"   -> [NoObj EXCEPT !.known = o.known]
    [] Outcome(o, e, ok) = "elsewhere" -> r
    [] Outcome(o, e, ok) = "created"   -> [Reset(r) EXCEPT !.created = TRUE]
    [] Outcome(o, e, ok) = "deleted"   -> [r EXCEPT !.deleted = TRUE, !.seq = 0]
    [] Outcome(o, e, ok) = "undeleted" -> [o EXCEPT !.del = 0, !.seq = 0]

\* What an action is told.  A timeout is an answer that is not true.
OkUnlessFalse(A, e) == \A a \in A : a.seq = e.seq => a.ok
Ok(A, e) == \E a \in A : a.seq = e.seq /\ a.ok
TimedOutLocal(e) == e.seq > 0 /\ e.count = Timeout
TimedOut(e) == e.count = Timeout

CountedOnce(e, A) == IF e.seq > 0 \/ \E a \in A : a.seq = e.seq THEN e ELSE [e EXCEPT !.count = 1]
Counted(e, A) == IF e.seq > 0 \/ \E a \in A : a.seq = e.seq THEN e ELSE [e EXCEPT !.count = e.count + 1]

\* verify_gifts_response: a remote action without an answer for Timeout responses fails.
ReceiveResponse(t) ==
  LET A        == ping[t].answers
      got(e)   == \E a \in A : a.seq = e.seq
      counted  == {Counted(e, A) : e \in pending[t]}
      done     == {e \in counted : got(e) \/ TimedOut(e)}
      entryOf(o) == {e \in done : o \in e.objs}
      the(o)   == CHOOSE e \in entryOf(o) : TRUE
      touched  == {o \in Objects : entryOf(o) # {}}
      out(o)   == Outcome(obj[t][o], the(o), Ok(A, the(o)))
      after(o) == After(obj[t][o], the(o), Ok(A, the(o)))
      saves    == {o \in touched : out(o) \in {"created", "deleted", "undeleted"} /\ after(o).known}
      again    == {o \in touched : out(o) = "again" /\ Requeues(obj[t][o], the(o))}
  IN
  /\ ping[t].stage \in {"response", "rejected"}
  /\ ping' = [ping EXCEPT ![t] = NoPing]
  /\ IF Invalid(t) # {}
     THEN UNCHANGED <<store, obj, buffer, pending>>
     ELSE /\ pending' = [pending EXCEPT ![t] = counted \ done]
          /\ obj' = [obj EXCEPT ![t] = [o \in Objects |-> IF o \in touched THEN after(o) ELSE obj[t][o]]]
          /\ store' = [g \in Gifts |-> IF g \in saves THEN Saved(store, after(g))[g] ELSE store[g]]
          /\ buffer' = [buffer EXCEPT ![t] = buffer[t] \union again]
  /\ UNCHANGED <<seqLS, clock, oldSeq, server>>

----------------------------------------------------------------------------
\* The servers.

\* The other server handles a request.  When it has learnt that a user's sha256 signature has
\* changed it answers that instead.
ServerHandle(m) ==
  /\ m \in wire /\ m.type = "request"
  /\ \E ok \in {"true", "false", "changed"} :
       LET r == row[m.key.gid] IN
       /\ ok = "true" => Accepts(m.key, r)
       /\ ok = "false" => ~Accepts(m.key, r) \/ m.key.gid \in Refusable
       /\ ok = "changed" => Changes
       /\ row' = [row EXCEPT ![m.key.gid] = IF ok = "true" THEN Applied(m.key, r) ELSE r]
       /\ wire' = (wire \ {m}) \union {[m EXCEPT !.type = "answer", !.ok = ok]}
  /\ UNCHANGED <<client, ping, vg, blocked>>

\* The answer is put in the row of the question.  A "changed" answer has no
\* verified_at_server; the row is not valid without it, save! raises, the message is not
\* removed, and every later message waits behind it.
ReceiveAnswer(m) ==
  /\ m \in wire /\ m.type = "answer" /\ ~blocked
  /\ IF m.ok = "changed"
     THEN blocked' = TRUE /\ UNCHANGED <<vg, wire>>
     ELSE /\ vg' = {IF v.tab = m.tab /\ v.seq = m.seq THEN [v EXCEPT !.ok = m.ok] ELSE v : v \in vg}
          /\ wire' = wire \ {m}
          /\ UNCHANGED blocked
  /\ UNCHANGED <<client, ping, row>>

\* Messages are removed when they are put into a ping between the servers.
LoseMessage(m) ==
  /\ Losses /\ m \in wire /\ ~(blocked /\ m.ok = "changed")
  /\ wire' = wire \ {m}
  /\ UNCHANGED <<client, ping, row, vg, blocked>>

UserNext(t) ==
  \/ \E g \in Gifts : CreateGift(t, g) \/ RefreshGift(t, g) \/ DeleteGift(t, g)
  \/ \E c \in Clones, g \in Gifts : ReceiveClone(t, c, g)
  \/ \E c \in Clones : UseClone(t, c) \/ GiveUpClone(t, c)
  \/ Reload(t) \/ Sync(t)
PingNext(t) == SendPing(t) \/ HandlePing(t) \/ FinishPing(t) \/ RejectPing(t) \/ LosePing(t) \/ ReceiveResponse(t)
WireNext == \E m \in wire : ServerHandle(m) \/ ReceiveAnswer(m) \/ LoseMessage(m)

Next == WireNext \/ \E t \in Tabs : UserNext(t) \/ PingNext(t)

Spec == Init /\ [][Next]_vars

\* The ping loop starts again after every answer and every error (navcontroller 66, 130), and
\* "Ping too early" cannot be said to a tab that waits for its interval.  The servers ping
\* each other as long as they run.
PingFair(t) ==
  /\ WF_vars(SendPing(t)) /\ SF_vars(HandlePing(t)) /\ WF_vars(FinishPing(t)) /\ WF_vars(ReceiveResponse(t))
  /\ SF_vars(ping[t].stage = "response" /\ ReceiveResponse(t))
WireFair == SF_vars(\E m \in wire : ServerHandle(m)) /\ SF_vars(\E m \in wire : ReceiveAnswer(m))
FairSpec == Spec /\ WireFair /\ \A t \in Tabs : PingFair(t)

----------------------------------------------------------------------------
Keys == [gid : Gifts, action : Actions, del : Stamps]
Oks  == {"none", "true", "false", "changed"}
ObjType == [here : BOOLEAN, gid : Gifts, known : BOOLEAN, created : BOOLEAN, del : Stamps, deleted : BOOLEAN,
            at : Actions \union {"none"}, seq : Int, verified : {"none", "true", "false"}]

\* Types of the tab, ping and server state.  Sequence numbers have no bound here: MaxSeq limits
\* what users start, and an action that is added again takes a new number.
TypeOK ==
  /\ store \in [Gifts -> [saved : BOOLEAN, created : BOOLEAN, del : Stamps, deleted : BOOLEAN]]
  /\ seqLS \in Nat /\ clock \in Stamps
  /\ obj \in [Tabs -> [Objects -> ObjType]]
  /\ buffer \in [Tabs -> SUBSET Objects]
  /\ \A t \in Tabs : pending[t] \subseteq [seq : Int, key : Keys, objs : SUBSET Objects, count : 0..Timeout]
  /\ oldSeq \in [Tabs -> 0..seqLS]
  /\ \A t \in Tabs : /\ ping[t].stage \in {"idle", "request", "read", "response", "rejected"}
                     /\ ping[t].items \subseteq [seq : Int, key : Keys]
                     /\ ping[t].answers \subseteq [seq : Int, gid : Gifts, ok : BOOLEAN]
  /\ row \in [Gifts -> [created : BOOLEAN, del : Stamps]]
  /\ vg \subseteq [tab : Tabs, seq : Int, key : Keys, ok : Oks]
  /\ wire \subseteq [type : {"request", "answer"}, tab : Tabs, seq : Int, key : Keys, ok : Oks]
  /\ blocked \in BOOLEAN

\* What localStorage says the server has confirmed is so: created_at_server, and
\* deleted_at_server with the timestamp of the deletion - through lost responses, reloads,
\* other tabs, timeouts and answers of deletions that were given up.
StoreTrue ==
  \A g \in Gifts :
    /\ store[g].created => row[g].created
    /\ store[g].deleted /\ store[g].del # 0 => row[g].del = store[g].del

\* A copy is merged into the gifts when the answer was true: the gift is at its server as the
\* copy says.  The answer belongs to this copy and not to an earlier question with its seq.
CloneTrue ==
  \A t \in Tabs, c \in Clones :
    obj[t][c].verified = "true" =>
      row[obj[t][c].gid].created /\ obj[t][c].del \in {0, row[obj[t][c].gid].del}

\* A gift waits once: in the buffer or in one pending action that has its seq.
Waiting(t, o) == o \in buffer[t] \/ \E e \in pending[t] : o \in e.objs
OneWait ==
  \A t \in Tabs :
    /\ \A o \in Objects : Waiting(t, o) => obj[t][o].at # "none"
    /\ \A e \in pending[t] : \A o \in e.objs : o \notin buffer[t] /\ obj[t][o].seq = e.seq
    /\ \A e, f \in pending[t] : e # f => e.seq # f.seq /\ e.key # f.key

\* An answer on its way answers the question that waits under its seq, also after a page
\* load has forgotten earlier questions.
AnswerFits ==
  \A t \in Tabs : \A e \in pending[t] :
    /\ \A v \in vg \union wire : v.tab = t /\ v.seq = e.seq => v.key = e.key
    /\ \A a \in ping[t].answers : a.seq = e.seq => a.gid = e.key.gid

\* Every action ends: local ones are sent until they are answered, remote ones time out.  A gift that
\* only keeps its mark (at) after a delete has been answered (2443) does not wait in this sense.
EveryActionEnds == \A t \in Tabs, o \in Objects : Waiting(t, o) ~> ~Waiting(t, o)

\* A gift saved in localStorage gets its server signature, in spite of lost pings and reloads.
CreateAnswered == \A g \in Gifts : store[g].saved ~> store[g].created

=============================================================================
