----------------------- MODULE VerifyGiftsTrueProofs ------------------------
(* Proofs that what a tab takes from the answers is true, for any number of   *)
(* tabs, gifts and copies: a copy of a gift is merged only when its server    *)
(* has the gift as the copy says, and what the localStorage says of creations *)
(* and deletions is in the table of the server.                               *)
EXTENDS VerifyGiftsWaitProofs

RowType ==
  /\ row = [g \in Gifts |-> row[g]]
  /\ \A g \in Gifts : row[g] = [created |-> row[g].created, del |-> row[g].del]

KeyType == \A t \in Tabs : \A q \in Question(t) : q.key.gid \in Gifts /\ q.key.action \in Actions

\* The server has the gift that k asks about as k says.  A deletion without a timestamp says nothing.
Vouched(k) ==
  /\ row[k.gid].created
  /\ k.action = "verify" => k.del \in {0, row[k.gid].del}
  /\ k.action = "delete" /\ k.del # 0 => row[k.gid].del = k.del

\* An answer that is true stays true, wherever it is.
AnswersVouched ==
  /\ \A v \in vg \union wire : v.ok = "true" => Vouched(v.key)
  /\ \A t \in Tabs : \A a \in ping[t].answers, q \in Question(t) : a.ok /\ a.seq = q.seq => Vouched(q.key)

\* A request changes a gift once.
OneChange ==
  \A t \in Tabs : \A i, j \in ping[t].items :
    i.key.gid = j.key.gid /\ i.key.action # "verify" /\ j.key.action # "verify" => i = j

ClonesVouched ==
  \A t \in Tabs, c \in Clones :
    obj[t][c].verified = "true" =>
      /\ obj[t][c].gid \in Gifts
      /\ row[obj[t][c].gid].created /\ obj[t][c].del \in {0, row[obj[t][c].gid].del}

CloneInv == WaitInv /\ RowType /\ KeyType /\ AnswersVouched /\ OneChange /\ ClonesVouched

----------------------------------------------------------------------------
\* What has been created stays, and a deletion keeps its timestamp.
RowsGrow ==
  \A g \in Gifts : /\ row[g].created => row'[g].created
                   /\ row[g].del # 0 => row'[g].del = row[g].del

LEMMA VouchedStays ==
  ASSUME RowsGrow, NEW k, k.gid \in Gifts, Vouched(k)
  PROVE  Vouched(k)'
  BY DEF RowsGrow, Vouched

LEMMA AppliedGrows ==
  ASSUME NEW k, NEW r, k.action \in Actions, r = [created |-> r.created, del |-> r.del], Accepts(k, r)
  PROVE  /\ Applied(k, r) = [created |-> Applied(k, r).created, del |-> Applied(k, r).del]
         /\ r.created => Applied(k, r).created
         /\ r.del # 0 => Applied(k, r).del = r.del
         /\ Applied(k, r).created
         /\ k.action = "verify" => k.del \in {0, Applied(k, r).del}
         /\ Applied(k, r).del = IF k.action = "delete" THEN k.del ELSE r.del
<1>1. CASE k.action = "create"
  <2>1. Applied(k, r) = [r EXCEPT !.created = TRUE]
    BY <1>1 DEF Applied
  <2>2. Applied(k, r) = [created |-> TRUE, del |-> r.del]
    BY <2>1
  <2>. QED
    BY <1>1, <2>2
<1>2. CASE k.action = "verify"
  <2>1. Applied(k, r) = r /\ r.created /\ k.del \in {0, r.del}
    BY <1>2 DEF Applied, Accepts
  <2>. QED
    BY <1>2, <2>1, Zenon
<1>3. CASE k.action = "delete"
  <2>1. Applied(k, r) = [r EXCEPT !.del = k.del] /\ r.del \in {0, k.del} /\ r.created
    BY <1>3 DEF Applied, Accepts
  <2>2. Applied(k, r) = [created |-> r.created, del |-> k.del]
    BY <2>1
  <2>. QED
    BY <1>3, <2>1, <2>2
<1>. QED
  BY <1>1, <1>2, <1>3 DEF Actions

\* A step that asks nothing new, and answers with true only what is so.
TellsTrue ==
  /\ NothingNew
  /\ \A t \in Tabs : ping'[t].items \subseteq ping[t].items
  /\ \A v \in vg' \union wire' : v.ok = "true" => Vouched(v.key)' \/ \E w \in vg \union wire : w.ok = "true" /\ w.key = v.key
  /\ \A t \in Tabs : \A a \in ping'[t].answers :
       a.ok => a \in ping[t].answers \/ \E q \in Question(t) : a.seq = q.seq /\ Vouched(q.key)'

CopiesTrue ==
  \A t \in Tabs, c \in Clones :
    obj'[t][c].verified = "true" =>
      \/ obj'[t][c] = obj[t][c]
      \/ obj'[t][c].gid \in Gifts /\ row'[obj'[t][c].gid].created /\ obj'[t][c].del \in {0, row'[obj'[t][c].gid].del}

LEMMA CopiesVouched ==
  ASSUME ClonesVouched, RowsGrow, CopiesTrue
  PROVE  ClonesVouched'
<1>. SUFFICES ASSUME NEW t \in Tabs, NEW c \in Clones, obj'[t][c].verified = "true"
              PROVE  /\ obj'[t][c].gid \in Gifts
                     /\ row'[obj'[t][c].gid].created /\ obj'[t][c].del \in {0, row'[obj'[t][c].gid].del}
  BY DEF ClonesVouched
<1>1. CASE obj'[t][c] = obj[t][c]
  <2>1. /\ obj[t][c].gid \in Gifts
        /\ row[obj[t][c].gid].created /\ obj[t][c].del \in {0, row[obj[t][c].gid].del}
    BY <1>1 DEF ClonesVouched
  <2>2. /\ row'[obj[t][c].gid].created
        /\ row[obj[t][c].gid].del # 0 => row'[obj[t][c].gid].del = row[obj[t][c].gid].del
    BY <2>1 DEF RowsGrow
  <2>. QED
    BY <1>1, <2>1, <2>2
<1>2. CASE obj'[t][c] # obj[t][c]
  BY <1>2 DEF CopiesTrue
<1>. QED
  BY <1>1, <1>2

LEMMA TrueStays ==
  ASSUME CloneInv, WaitInv', RowType', RowsGrow, TellsTrue, CopiesTrue
  PROVE  CloneInv'
<1>. USE DEF TellsTrue
<1>1. KeyType'
  <2>. SUFFICES ASSUME NEW t \in Tabs, NEW p \in Question(t)'
                PROVE  p.key.gid \in Gifts /\ p.key.action \in Actions
    BY DEF KeyType
  <2>1. PICK q \in Question(t) : p.key = q.key
    BY DEF NothingNew
  <2>. QED
    BY <2>1 DEF CloneInv, KeyType
<1>2. \A v \in vg' \union wire' : v.ok = "true" => Vouched(v.key)'
  <2>. SUFFICES ASSUME NEW v \in vg' \union wire', v.ok = "true"
                PROVE  Vouched(v.key)'
    OBVIOUS
  <2>1. CASE \E w \in vg \union wire : w.ok = "true" /\ w.key = v.key
    <3>1. PICK w \in vg \union wire : w.ok = "true" /\ w.key = v.key
      BY <2>1
    <3>2. w.tab \in Tabs /\ w \in Question(w.tab)
      BY TracesAsked DEF CloneInv, WaitInv, Question, Traces
    <3>. DEFINE k == v.key
    <3>3. k.gid \in Gifts /\ Vouched(k)
      BY <3>1, <3>2 DEF CloneInv, KeyType, AnswersVouched
    <3>. HIDE DEF k
    <3>4. Vouched(k)'
      BY <3>3, VouchedStays
    <3>. QED
      BY <3>4 DEF k
  <2>. QED
    BY <2>1
<1>3. \A t \in Tabs : \A a \in ping'[t].answers, p \in Question(t)' : a.ok /\ a.seq = p.seq => Vouched(p.key)'
  <2>. SUFFICES ASSUME NEW t \in Tabs, NEW a \in ping'[t].answers, NEW p \in Question(t)', a.ok, a.seq = p.seq
                PROVE  Vouched(p.key)'
    OBVIOUS
  <2>1. PICK x \in Question(t) : p.seq = x.seq /\ p.key = x.key
    BY DEF NothingNew
  <2>. PICK k : k = x.key
    OBVIOUS
  <2>2. k.gid \in Gifts
    BY DEF CloneInv, KeyType
  <2>3. CASE a \in ping[t].answers
    <3>1. Vouched(k)
      BY <2>1, <2>3 DEF CloneInv, AnswersVouched
    <3>2. Vouched(k)'
      BY <2>2, <3>1, VouchedStays
    <3>. QED
      BY <2>1, <3>2
  <2>4. CASE \E q \in Question(t) : a.seq = q.seq /\ Vouched(q.key)'
    <3>1. PICK q \in Question(t) : a.seq = q.seq /\ Vouched(q.key)'
      BY <2>4
    <3>2. q.seq = x.seq /\ OneKey
      BY <2>1, <3>1 DEF CloneInv, WaitInv, AnswerInv
    <3>3. q.key = x.key
      BY <3>2 DEF OneKey
    <3>. QED
      BY <2>1, <3>1, <3>3
  <2>. QED
    BY <2>3, <2>4
<1>4. AnswersVouched'
  BY <1>2, <1>3 DEF AnswersVouched
<1>5. OneChange'
  BY DEF CloneInv, OneChange
<1>. QED
  BY <1>1, <1>4, <1>5, CopiesVouched DEF CloneInv

----------------------------------------------------------------------------
\* The steps.

\* Steps that leave the servers, the pings and their answers alone.
LEMMA NothingTold ==
  ASSUME CloneInv, WaitInv', NothingNew, UNCHANGED <<row, vg, wire, ping>>, CopiesTrue
  PROVE  CloneInv'
<1>1. RowType' /\ RowsGrow
  BY DEF CloneInv, RowType, RowsGrow
<1>2. TellsTrue
  BY DEF TellsTrue
<1>. QED
  BY <1>1, <1>2, TrueStays

LEMMA UserTrue ==
  ASSUME CloneInv, WaitInv', NEW t \in Tabs, UserNext(t)
  PROVE  CloneInv'
<1>. USE DEF client, server
<1>0. /\ obj \in [Tabs -> [Objects -> Shape]]
      /\ Clones \subseteq Objects /\ Gifts \subseteq Objects /\ \A g \in Gifts : g \notin Clones
  BY GiftsAssumption DEF CloneInv, WaitInv, ObjectType, Objects
<1>1. NothingNew
  BY UserStep DEF CloneInv, WaitInv
<1>2. UNCHANGED <<row, vg, wire, ping>>
  BY DEF UserNext, CreateGift, RefreshGift, DeleteGift, ReceiveClone, UseClone, GiveUpClone, Reload, Sync
<1>3. ASSUME NEW o \in Objects, NEW v, v.verified # "true", SetObj(t, o, v)
      PROVE  CopiesTrue
  BY <1>0, <1>3 DEF SetObj, CopiesTrue
<1>4. ASSUME NEW g \in Gifts, NEW v, SetObj(t, g, v)
      PROVE  CopiesTrue
  BY <1>0, <1>4 DEF SetObj, CopiesTrue
<1>5. ASSUME NEW g \in Gifts, CreateGift(t, g) \/ RefreshGift(t, g) \/ DeleteGift(t, g)
      PROVE  CopiesTrue
  <2>1. \E v : SetObj(t, g, v)
    BY <1>5 DEF CreateGift, RefreshGift, DeleteGift
  <2>. QED
    BY <1>4, <2>1
<1>6. ASSUME NEW c \in Clones, NEW g \in Gifts, ReceiveClone(t, c, g)
      PROVE  CopiesTrue
  <2>1. PICK d \in Stamps : SetObj(t, c, NewClone(g, d))
    BY <1>6 DEF ReceiveClone, NewClone
  <2>2. NewClone(g, d).verified = "none"
    BY BoundsAssumption, NewCloneShape DEF Stamps
  <2>. QED
    BY <1>0, <1>3, <2>1, <2>2
<1>7. ASSUME NEW c \in Clones, UseClone(t, c) \/ GiveUpClone(t, c)
      PROVE  CopiesTrue
  <2>1. SetObj(t, c, NoObj)
    BY <1>7 DEF UseClone, GiveUpClone
  <2>. QED
    BY <1>0, <1>3, <2>1, NoObjShape
<1>8. ASSUME Reload(t) PROVE CopiesTrue
  <2>. DEFINE again(g) == IF ~store[g].created THEN "create"
                          ELSE IF g \notin There /\ store[g].del # 0 THEN "delete" ELSE "none"
              saved == {g \in Gifts : store[g].saved}
              fresh(o) == [Loaded(o, TRUE) EXCEPT !.deleted = FALSE, !.at = again(o)]
              objs == [o \in Objects |-> IF o \in saved THEN fresh(o) ELSE NoObj]
  <2>1. obj' = [obj EXCEPT ![t] = objs]
    BY <1>8 DEF Reload
  <2>2. \A c \in Clones : objs[c] = NoObj
    BY <1>0
  <2>. HIDE DEF objs
  <2>. QED
    BY <1>0, <2>1, <2>2, NoObjShape DEF CopiesTrue
<1>9. ASSUME Sync(t) PROVE CopiesTrue
  <2>. DEFINE new(o) == IF o \in Clones \/ ~store[o].saved THEN obj[t][o]
                        ELSE IF obj[t][o].here
                             THEN [obj[t][o] EXCEPT !.created = store[o].created, !.del = store[o].del]
                             ELSE Loaded(o, obj[t][o].known)
              objs == [o \in Objects |-> new(o)]
  <2>1. obj' = [obj EXCEPT ![t] = objs]
    BY <1>9 DEF Sync
  <2>2. \A c \in Clones : objs[c] = obj[t][c]
    BY <1>0
  <2>. HIDE DEF objs
  <2>. QED
    BY <1>0, <2>1, <2>2 DEF CopiesTrue
<1>10. CopiesTrue
  BY <1>5, <1>6, <1>7, <1>8, <1>9 DEF UserNext
<1>. QED
  BY <1>1, <1>2, <1>10, NothingTold

\* The other server handles one request.
LEMMA ServerFields ==
  ASSUME CloneInv, NEW m \in wire, ServerHandle(m)
  PROVE  /\ RowType' /\ RowsGrow
         /\ \A g \in Gifts : \/ row'[g].del = row[g].del
                             \/ m.key.action = "delete" /\ m.key.gid = g /\ row'[g].del = m.key.del
         /\ \E ok : /\ wire' = (wire \ {m}) \union {[m EXCEPT !.type = "answer", !.ok = ok]}
                    /\ ok = "true" => Vouched(m.key)'
<1>1. m.key.gid \in Gifts /\ m.key.action \in Actions
  <2>1. m.tab \in Tabs /\ m \in Question(m.tab)
    BY TracesAsked DEF CloneInv, WaitInv, Question, Traces
  <2>. QED
    BY <2>1 DEF CloneInv, KeyType
<1>2. PICK ok : /\ ok = "true" => Accepts(m.key, row[m.key.gid])
                /\ row' = [row EXCEPT ![m.key.gid] = IF ok = "true" THEN Applied(m.key, row[m.key.gid])
                                                     ELSE row[m.key.gid]]
                /\ wire' = (wire \ {m}) \union {[m EXCEPT !.type = "answer", !.ok = ok]}
  BY DEF ServerHandle
<1>. DEFINE k == m.key
            r == row[k.gid]
<1>3. r = [created |-> r.created, del |-> r.del] /\ k.gid \in Gifts /\ k.action \in Actions
  BY <1>1 DEF CloneInv, RowType
<1>. PICK s : s = IF ok = "true" THEN Applied(k, r) ELSE r
  OBVIOUS
<1>4. row' = [row EXCEPT ![k.gid] = s] /\ (ok = "true" => Accepts(k, r))
  BY <1>2
<1>. HIDE DEF k
<1>5. /\ s = [created |-> s.created, del |-> s.del]
      /\ r.created => s.created
      /\ r.del # 0 => s.del = r.del
      /\ ok = "true" => s.created
      /\ ok = "true" /\ k.action = "verify" => k.del \in {0, s.del}
      /\ ok = "true" /\ k.action = "delete" => s.del = k.del
      /\ k.action # "delete" \/ ok # "true" => s.del = r.del
  <2>1. CASE ok = "true"
    <3>1. Accepts(k, r) /\ s = Applied(k, r)
      BY <1>4, <2>1
    <3>. HIDE DEF r
    <3>2. /\ Applied(k, r) = [created |-> Applied(k, r).created, del |-> Applied(k, r).del]
          /\ r.created => Applied(k, r).created
          /\ r.del # 0 => Applied(k, r).del = r.del
          /\ Applied(k, r).created
          /\ k.action = "verify" => k.del \in {0, Applied(k, r).del}
          /\ Applied(k, r).del = IF k.action = "delete" THEN k.del ELSE r.del
      BY <1>3, <3>1, AppliedGrows
    <3>. QED
      BY <3>1, <3>2, Zenon
  <2>2. CASE ok # "true"
    BY <1>3, <2>2
  <2>. QED
    BY <2>1, <2>2
<1>6. row' = [g \in Gifts |-> IF g = k.gid THEN s ELSE row[g]]
  <2>. DEFINE rows == row
  <2>1. rows = [g \in Gifts |-> rows[g]] /\ row' = [rows EXCEPT ![k.gid] = s]
    BY <1>4 DEF CloneInv, RowType
  <2>2. row' = [g \in Gifts |-> IF g = k.gid THEN s ELSE rows[g]]
    <3>. HIDE DEF rows
    <3>. QED
      BY <2>1
  <2>. QED
    BY <2>2
<1>7. RowType'
  <2>1. \A g \in Gifts : row'[g] = [created |-> row'[g].created, del |-> row'[g].del]
    <3>. TAKE g \in Gifts
    <3>1. CASE g = k.gid
      BY <1>5, <1>6, <3>1
    <3>2. CASE g # k.gid
      <4>1. row'[g] = row[g] /\ row[g] = [created |-> row[g].created, del |-> row[g].del]
        BY <1>6, <3>2 DEF CloneInv, RowType
      <4>. QED
        BY <4>1, Zenon
    <3>. QED
      BY <3>1, <3>2
  <2>2. row' = [g \in Gifts |-> row'[g]]
    BY <1>6
  <2>. QED
    BY <2>1, <2>2 DEF RowType
<1>8. RowsGrow
  BY <1>5, <1>6 DEF RowsGrow
<1>9. ok = "true" => Vouched(k)'
  <2>1. row'[k.gid] = s
    BY <1>3, <1>6
  <2>. QED
    BY <1>5, <2>1 DEF Vouched
<1>10. \A g \in Gifts : row'[g].del = row[g].del \/ (k.action = "delete" /\ k.gid = g /\ row'[g].del = k.del)
  <2>. TAKE g \in Gifts
  <2>1. CASE g # k.gid
    BY <1>6, <2>1
  <2>2. CASE g = k.gid
    <3>1. row'[g] = s /\ (s.del = r.del \/ (k.action = "delete" /\ s.del = k.del))
      BY <1>5, <1>6, <2>2
    <3>. QED
      BY <2>2, <3>1
  <2>. QED
    BY <2>1, <2>2
<1>. QED
  BY <1>2, <1>7, <1>8, <1>9, <1>10 DEF k

\* The other server answers with true what is so once it has handled the request.
LEMMA WireTrue ==
  ASSUME CloneInv, WaitInv', WireNext
  PROVE  CloneInv'
<1>. USE DEF client, server
<1>1. PICK m \in wire : ServerHandle(m) \/ ReceiveAnswer(m) \/ LoseMessage(m)
  BY DEF WireNext
<1>2. NothingNew
  BY WireStep DEF CloneInv, WaitInv
<1>3. ping' = ping /\ obj' = obj
  BY <1>1 DEF ServerHandle, ReceiveAnswer, LoseMessage
<1>4. CopiesTrue
  BY <1>3 DEF CopiesTrue
<1>5. /\ m.key.gid \in Gifts /\ m.key.action \in Actions
      /\ m = [type |-> m.type, tab |-> m.tab, seq |-> m.seq, key |-> m.key, ok |-> m.ok]
  <2>1. m.tab \in Tabs /\ m \in Question(m.tab)
    BY TracesAsked DEF CloneInv, WaitInv, Question, Traces
  <2>. QED
    BY <2>1, TracesAsked DEF CloneInv, KeyType, WaitInv
<1>6. CASE ServerHandle(m)
  <2>1. vg' = vg
    BY <1>6 DEF ServerHandle
  <2>2. PICK ok : /\ wire' = (wire \ {m}) \union {[m EXCEPT !.type = "answer", !.ok = ok]}
                  /\ ok = "true" => Vouched(m.key)'
    BY <1>6, ServerFields
  <2>3. RowType' /\ RowsGrow
    BY <1>6, ServerFields
  <2>4. \A v \in wire' : v \in wire \/ (v.ok = ok /\ v.key = m.key)
    <3>. DEFINE n == [m EXCEPT !.type = "answer"]
    <3>1. [m EXCEPT !.type = "answer", !.ok = ok] = [n EXCEPT !.ok = ok]
      OBVIOUS
    <3>2. n = [type |-> "answer", tab |-> m.tab, seq |-> m.seq, key |-> m.key, ok |-> m.ok]
      BY <1>5
    <3>. HIDE DEF n
    <3>3. [n EXCEPT !.ok = ok].ok = ok /\ [n EXCEPT !.ok = ok].key = m.key
      BY <3>2
    <3>. QED
      BY <2>2, <3>1, <3>3
  <2>5. TellsTrue
    BY <1>2, <1>3, <2>1, <2>2, <2>4 DEF TellsTrue
  <2>. QED
    BY <1>4, <2>3, <2>5, TrueStays
<1>7. CASE ReceiveAnswer(m) \/ LoseMessage(m)
  <2>1. row' = row /\ wire' \subseteq wire
    BY <1>7 DEF ReceiveAnswer, LoseMessage
  <2>2. \A v \in vg' : v \in vg \/ \E w \in vg : v.key = w.key /\ v.ok = m.ok /\ w.seq = m.seq /\ w.tab = m.tab
    <3>1. CASE vg' = vg
      BY <3>1
    <3>2. CASE vg' = {IF v.tab = m.tab /\ v.seq = m.seq THEN [v EXCEPT !.ok = m.ok] ELSE v : v \in vg}
      <4>. TAKE v \in vg'
      <4>1. PICK w \in vg : v = IF w.tab = m.tab /\ w.seq = m.seq THEN [w EXCEPT !.ok = m.ok] ELSE w
        BY <3>2
      <4>2. w = [tab |-> w.tab, seq |-> w.seq, key |-> w.key, ok |-> w.ok]
        BY TracesAsked DEF CloneInv, WaitInv
      <4>3. [w EXCEPT !.ok = m.ok].key = w.key /\ [w EXCEPT !.ok = m.ok].ok = m.ok
        BY <4>2
      <4>. QED
        BY <4>1, <4>3
    <3>. QED
      BY <1>7, <3>1, <3>2 DEF ReceiveAnswer, LoseMessage
  <2>3. \A w \in vg : w.seq = m.seq /\ w.tab = m.tab => w.key = m.key
    <3>. TAKE w \in vg
    <3>1. OneKey /\ m.tab \in Tabs /\ m \in Question(m.tab) /\ (w.tab = m.tab => w \in Question(m.tab))
      BY TracesAsked DEF CloneInv, WaitInv, AnswerInv, Question, Traces
    <3>. QED
      BY <3>1 DEF OneKey
  <2>4. RowType' /\ RowsGrow
    BY <2>1 DEF CloneInv, RowType, RowsGrow
  <2>5. \A v \in vg' \union wire' : v.ok = "true" => \E w \in vg \union wire : w.ok = "true" /\ w.key = v.key
    BY <2>1, <2>2, <2>3
  <2>6. TellsTrue
    BY <1>2, <1>3, <2>5 DEF TellsTrue
  <2>. QED
    BY <1>4, <2>4, <2>6, TrueStays
<1>. QED
  BY <1>1, <1>6, <1>7

\* What one ping does to the rows, and its answers.
LocalAnswer(i, ok) ==
  /\ ok => Vouched(i.key)'
  /\ i.key.action = "delete" => IF ok THEN Accepts(i.key, row[i.key.gid])
                                ELSE i.key.gid \in Refusable \/ ~Accepts(i.key, row[i.key.gid])

LEMMA HandleFields ==
  ASSUME CloneInv, NEW t \in Tabs, HandlePing(t)
  PROVE  /\ RowType' /\ RowsGrow
         /\ \A g \in Gifts : \/ row'[g].del = row[g].del
                             \/ \E i \in ping[t].items : i.key.action = "delete" /\ i.key.gid = g /\ row'[g].del = i.key.del
         /\ ping'[t].items = ping[t].items /\ \A u \in Tabs \ {t} : ping'[u] = ping[u]
         /\ \A a \in ping'[t].answers :
              \/ \E v \in Ready(t) : a.seq = v.seq /\ a.ok = (v.ok = "true")
              \/ \E i \in ping[t].items : i.seq > 0 /\ a.seq = i.seq /\ LocalAnswer(i, a.ok)
<1>. USE DEF client, server
<1>. DEFINE local  == {i \in ping[t].items : i.seq > 0}
            remote == ping[t].items \ local
            asked(refused)   == local \ refused
            dels(refused, i) == {j \in asked(refused) : /\ j.seq < i.seq /\ j.key.gid = i.key.gid /\ j.key.action = "delete"
                                                        /\ Accepts(j.key, row[j.key.gid])}
            seen(refused, i) == IF dels(refused, i) = {} THEN row[i.key.gid]
                                ELSE Applied((CHOOSE j \in dels(refused, i) : TRUE).key, row[i.key.gid])
            goodOf(refused)  == {i \in asked(refused) : Accepts(i.key, seen(refused, i))}
            rows(good) == [g \in Gifts |->
              LET mine == {i \in good : i.key.gid = g /\ i.key.action # "verify"}
              IN IF mine = {} THEN row[g] ELSE Applied((CHOOSE i \in mine : TRUE).key, row[g])]
            told(good) == [stage |-> "read", items |-> ping[t].items,
              answers |-> Answers(Ready(t))
                \union {[seq |-> i.seq, gid |-> i.key.gid, ok |-> i \in good] : i \in local}]
<1>1. \E refused \in SUBSET {i \in local : i.key.gid \in Refusable} :
        row' = rows(goodOf(refused)) /\ ping' = [ping EXCEPT ![t] = told(goodOf(refused))]
  BY DEF HandlePing
<1>2. /\ \A i \in ping[t].items : i \in Question(t) /\ i.seq \in Int /\ i.key.gid \in Gifts /\ i.key.action \in Actions
      /\ \A i, j \in ping[t].items :
           i.key.gid = j.key.gid /\ i.key.action # "verify" /\ j.key.action # "verify" => i = j
  <2>1. \A i \in ping[t].items : i \in Question(t)
    BY DEF Question
  <2>. QED
    BY <2>1 DEF CloneInv, WaitInv, AnswerInv, SeqsTaken, KeyType, OneChange
<1>3. PICK refused \in SUBSET {i \in local : i.key.gid \in Refusable} :
               row' = rows(goodOf(refused)) /\ ping' = [ping EXCEPT ![t] = told(goodOf(refused))]
  BY <1>1
<1>. DEFINE good == goodOf(refused)
            D(i) == dels(refused, i)
            s(i) == seen(refused, i)
<1>4. \A i \in good : i \in ping[t].items /\ i.seq > 0 /\ Accepts(i.key, s(i))
  OBVIOUS
<1>5. \A i \in good : /\ D(i) = {} => s(i) = row[i.key.gid]
                      /\ D(i) # {} => \E j \in D(i) : s(i) = Applied(j.key, row[i.key.gid])
  OBVIOUS
<1>6. \A i : \A j \in D(i) : /\ j \in ping[t].items /\ j \in asked(refused) /\ j.seq < i.seq
                             /\ j.key.gid = i.key.gid /\ j.key.action = "delete"
                             /\ Accepts(j.key, row[j.key.gid])
  OBVIOUS
<1>7. \A i \in ping[t].items : i.key.action # "verify" => D(i) = {}
  <2>. SUFFICES ASSUME NEW i \in ping[t].items, i.key.action # "verify", NEW j \in D(i)
                PROVE  FALSE
    OBVIOUS
  <2>1. j \in ping[t].items /\ j.seq < i.seq /\ j.key.gid = i.key.gid /\ j.key.action = "delete"
    BY <1>6
  <2>2. i = j
    BY <1>2, <2>1
  <2>. QED
    BY <1>2, <2>1, <2>2
<1>8. \A i : \A j \in D(i) : j \in good
  <2>. TAKE i
  <2>. TAKE j \in D(i)
  <2>1. /\ j \in ping[t].items /\ j \in asked(refused) /\ j.key.action = "delete"
        /\ Accepts(j.key, row[j.key.gid])
    BY <1>6
  <2>2. dels(refused, j) = {}
    BY <1>7, <2>1
  <2>3. seen(refused, j) = row[j.key.gid]
    BY <2>2
  <2>. HIDE DEF asked, seen
  <2>. QED
    BY <2>1, <2>3
<1>. DEFINE mine(g) == {i \in good : i.key.gid = g /\ i.key.action # "verify"}
<1>9. \A g \in Gifts : \/ mine(g) = {} /\ row'[g] = row[g]
                       \/ \E j \in mine(g) : row'[g] = Applied(j.key, row[g])
  <2>. HIDE DEF goodOf
  <2>1. \A g \in Gifts : row'[g] = IF mine(g) = {} THEN row[g] ELSE Applied((CHOOSE i \in mine(g) : TRUE).key, row[g])
    BY <1>3
  <2>. HIDE DEF mine
  <2>. QED
    BY <2>1
<1>10. row' = [g \in Gifts |-> row'[g]]
  <2>. HIDE DEF goodOf
  <2>. QED
    BY <1>3
<1>. DEFINE A == Answers(Ready(t))
                   \union {[seq |-> i.seq, gid |-> i.key.gid, ok |-> i \in good] : i \in local}
<1>11. /\ ping'[t].items = ping[t].items /\ ping'[t].answers = A
       /\ \A u \in Tabs \ {t} : ping'[u] = ping[u]
  <2>. DEFINE pings == ping
              X == told(good)
  <2>1. X.items = ping[t].items /\ X.answers = A
    <3>. HIDE DEF goodOf
    <3>. QED
      OBVIOUS
  <2>2. pings = [u \in Tabs |-> pings[u]] /\ ping' = [pings EXCEPT ![t] = X]
    BY <1>3 DEF CloneInv, WaitInv, AnswerInv, QuestionType
  <2>3. ping'[t] = X /\ \A u \in Tabs \ {t} : ping'[u] = pings[u]
    <3>. HIDE DEF pings, X
    <3>. QED
      BY <2>2
  <2>. HIDE DEF X
  <2>. QED
    BY <2>1, <2>3
<1>12. \A a \in A : \/ \E v \in Ready(t) : a.seq = v.seq /\ a.ok = (v.ok = "true")
                    \/ \E i \in local : a.seq = i.seq /\ a.ok = (i \in good)
  <2>. HIDE DEF good, local
  <2>. QED
    BY DEF Answers
<1>13. \A i \in local : i \in ping[t].items /\ i.seq > 0
  OBVIOUS
<1>14. \A i \in local : D(i) = {} => (i \in good <=> i \notin refused /\ Accepts(i.key, row[i.key.gid]))
  <2>. TAKE i \in local
  <2>. HAVE D(i) = {}
  <2>1. s(i) = row[i.key.gid]
    OBVIOUS
  <2>2. i \in good <=> i \in asked(refused) /\ Accepts(i.key, s(i))
    OBVIOUS
  <2>. HIDE DEF s, good, goodOf
  <2>. QED
    BY <2>1, <2>2
<1>. HIDE DEF good, goodOf, D, s, A, local, remote
<1>15. \A j \in good : j.key.action # "verify" =>
         /\ Accepts(j.key, row[j.key.gid]) /\ j.key.gid \in Gifts /\ j.key.action \in Actions
         /\ mine(j.key.gid) = {j} /\ row'[j.key.gid] = Applied(j.key, row[j.key.gid])
  <2>. TAKE j \in good
  <2>. HAVE j.key.action # "verify"
  <2>1. Accepts(j.key, row[j.key.gid]) /\ j.key.gid \in Gifts /\ j.key.action \in Actions
    BY <1>2, <1>4, <1>5, <1>7
  <2>2. j \in mine(j.key.gid) /\ \A i \in mine(j.key.gid) : i = j
    BY <1>2, <1>4
  <2>3. mine(j.key.gid) = {j}
    BY <2>2
  <2>. HIDE DEF mine
  <2>. QED
    BY <1>9, <2>1, <2>3
<1>16. \A g \in Gifts : row'[g] = row[g] \/ \E j \in good : j.key.action # "verify" /\ j.key.gid = g
  BY <1>9
<1>. HIDE DEF mine
<1>17. \A g \in Gifts : /\ row'[g] = [created |-> row'[g].created, del |-> row'[g].del]
                        /\ row[g].created => row'[g].created
                        /\ row[g].del # 0 => row'[g].del = row[g].del
  <2>. TAKE g \in Gifts
  <2>. PICK r : r = row[g]
    OBVIOUS
  <2>1. r = [created |-> r.created, del |-> r.del]
    BY DEF CloneInv, RowType
  <2>2. CASE row'[g] = r
    BY <2>1, <2>2, Zenon
  <2>3. CASE \E j \in good : j.key.action # "verify" /\ j.key.gid = g
    <3>1. PICK j \in good : j.key.action # "verify" /\ j.key.gid = g
      BY <2>3
    <3>. PICK k : k = j.key
      OBVIOUS
    <3>2. Accepts(k, r) /\ k.action \in Actions /\ row'[g] = Applied(k, r)
      BY <1>15, <3>1
    <3>3. /\ Applied(k, r) = [created |-> Applied(k, r).created, del |-> Applied(k, r).del]
          /\ r.created => Applied(k, r).created
          /\ r.del # 0 => Applied(k, r).del = r.del
      BY <2>1, <3>2, AppliedGrows
    <3>. QED
      BY <3>2, <3>3, Zenon
  <2>. QED
    BY <1>16, <2>2, <2>3
<1>18. RowType' /\ RowsGrow
  BY <1>10, <1>17 DEF RowType, RowsGrow
<1>19. \A i \in good : Vouched(i.key)'
  <2>. TAKE i \in good
  <2>. PICK k : k = i.key
    OBVIOUS
  <2>1. k.gid \in Gifts /\ Accepts(k, s(i)) /\ k.action \in Actions
    BY <1>2, <1>4
  <2>2. CASE k.action # "verify"
    <3>. PICK r : r = row[k.gid]
      OBVIOUS
    <3>1. r = [created |-> r.created, del |-> r.del]
      BY <2>1 DEF CloneInv, RowType
    <3>2. Accepts(k, r) /\ row'[k.gid] = Applied(k, r)
      BY <1>15, <2>2
    <3>3. Applied(k, r).created /\ (k.action = "delete" => Applied(k, r).del = k.del)
      BY <2>1, <3>1, <3>2, AppliedGrows
    <3>. QED
      BY <2>2, <3>2, <3>3 DEF Vouched
  <2>3. CASE k.action = "verify"
    <3>1. s(i).created /\ k.del \in {0, s(i).del}
      BY <2>1, <2>3 DEF Accepts
    <3>2. CASE D(i) = {}
      <4>1. s(i) = row[k.gid]
        BY <1>5, <3>2
      <4>2. Vouched(k)
        BY <2>3, <3>1, <4>1 DEF Vouched
      <4>. QED
        BY <1>18, <2>1, <4>2, VouchedStays
    <3>3. CASE D(i) # {}
      <4>1. PICK j \in D(i) : s(i) = Applied(j.key, row[k.gid])
        BY <1>5, <3>3
      <4>2. j \in good /\ j.key.gid = k.gid /\ j.key.action # "verify"
        BY <1>6, <1>8
      <4>3. row'[k.gid] = s(i)
        BY <1>15, <4>1, <4>2
      <4>. QED
        BY <2>3, <3>1, <4>3 DEF Vouched
    <3>. QED
      BY <3>2, <3>3
  <2>. QED
    BY <2>2, <2>3
<1>20. \A i \in local : LocalAnswer(i, i \in good)
  <2>. TAKE i \in local
  <2>1. i.key.action = "delete" => D(i) = {}
    BY <1>7, <1>13
  <2>2. i \in refused => i.key.gid \in Refusable
    OBVIOUS
  <2>3. i.key.action = "delete" => (i \in good <=> i \notin refused /\ Accepts(i.key, row[i.key.gid]))
    BY <1>14, <2>1
  <2>4. i \in good => Vouched(i.key)'
    BY <1>19
  <2>. QED
    BY <2>2, <2>3, <2>4 DEF LocalAnswer
<1>21. \A a \in A : \/ \E v \in Ready(t) : a.seq = v.seq /\ a.ok = (v.ok = "true")
                    \/ \E i \in ping[t].items : i.seq > 0 /\ a.seq = i.seq /\ LocalAnswer(i, a.ok)
  <2>. TAKE a \in A
  <2>1. CASE \E i \in local : a.seq = i.seq /\ a.ok = (i \in good)
    <3>1. PICK i \in local : a.seq = i.seq /\ a.ok = (i \in good)
      BY <2>1
    <3>2. LocalAnswer(i, a.ok)
      BY <1>20, <3>1
    <3>. QED
      BY <1>13, <3>1, <3>2
  <2>. QED
    BY <1>12, <2>1
<1>22. \A g \in Gifts : \/ row'[g].del = row[g].del
                        \/ \E i \in ping[t].items : i.key.action = "delete" /\ i.key.gid = g /\ row'[g].del = i.key.del
  <2>. TAKE g \in Gifts
  <2>1. CASE row'[g] = row[g]
    BY <2>1
  <2>2. CASE \E j \in good : j.key.action # "verify" /\ j.key.gid = g
    <3>1. PICK j \in good : j.key.action # "verify" /\ j.key.gid = g
      BY <2>2
    <3>. PICK k : k = j.key
      OBVIOUS
    <3>. PICK r : r = row[g]
      OBVIOUS
    <3>2. Accepts(k, r) /\ k.action \in Actions /\ row'[g] = Applied(k, r)
      BY <1>15, <3>1
    <3>3. r = [created |-> r.created, del |-> r.del]
      BY DEF CloneInv, RowType
    <3>4. Applied(k, r).del = IF k.action = "delete" THEN k.del ELSE r.del
      BY <3>2, <3>3, AppliedGrows
    <3>5. row'[g].del = r.del \/ (k.action = "delete" /\ row'[g].del = k.del)
      BY <3>2, <3>4
    <3>. QED
      BY <1>4, <3>1, <3>5
  <2>. QED
    BY <1>16, <2>1, <2>2
<1>. QED
  BY <1>11, <1>18, <1>21, <1>22

\* A request creates or deletes a gift once, and what it is told to verify it sees as this leaves it.
LEMMA HandleTrue ==
  ASSUME CloneInv, WaitInv', NEW t \in Tabs, HandlePing(t)
  PROVE  CloneInv'
<1>. USE DEF client, server
<1>1. /\ UNCHANGED <<wire, obj>>
      /\ \A v \in vg' : v \in vg \/ v.ok = "none"
  BY DEF HandlePing
<1>2. /\ RowType' /\ RowsGrow
      /\ ping'[t].items = ping[t].items /\ \A u \in Tabs \ {t} : ping'[u] = ping[u]
      /\ \A a \in ping'[t].answers :
           \/ \E v \in Ready(t) : a.seq = v.seq /\ a.ok = (v.ok = "true")
           \/ \E i \in ping[t].items : i.seq > 0 /\ a.seq = i.seq /\ LocalAnswer(i, a.ok)
  BY HandleFields
<1>3. \A a \in ping'[t].answers : a.ok => \E q \in Question(t) : a.seq = q.seq /\ Vouched(q.key)'
  <2>. SUFFICES ASSUME NEW a \in ping'[t].answers, a.ok
                PROVE  \E q \in Question(t) : a.seq = q.seq /\ Vouched(q.key)'
    OBVIOUS
  <2>1. CASE \E v \in Ready(t) : a.seq = v.seq /\ a.ok = (v.ok = "true")
    <3>1. PICK v \in Ready(t) : a.seq = v.seq /\ v.ok = "true"
      BY <2>1
    <3>2. v \in Question(t) /\ v \in vg
      BY DEF Ready, Question, Traces
    <3>. PICK k : k = v.key
      OBVIOUS
    <3>3. k.gid \in Gifts /\ Vouched(k)
      BY <3>1, <3>2 DEF CloneInv, KeyType, AnswersVouched
    <3>4. Vouched(k)'
      BY <1>2, <3>3, VouchedStays
    <3>. QED
      BY <3>1, <3>2, <3>4
  <2>2. CASE \E i \in ping[t].items : i.seq > 0 /\ a.seq = i.seq /\ LocalAnswer(i, a.ok)
    <3>1. PICK i \in ping[t].items : a.seq = i.seq /\ LocalAnswer(i, a.ok)
      BY <2>2
    <3>2. i \in Question(t)
      BY DEF Question
    <3>. QED
      BY <3>1, <3>2 DEF LocalAnswer
  <2>. QED
    BY <1>2, <2>1, <2>2
<1>4. NothingNew
  BY PingStep DEF CloneInv, WaitInv
<1>5. CopiesTrue
  BY <1>1 DEF CopiesTrue
<1>6. TellsTrue
  <2>1. \A u \in Tabs : ping'[u].items \subseteq ping[u].items
    BY <1>2
  <2>2. \A v \in vg' \union wire' : v.ok = "true" => v \in vg \union wire
    BY <1>1
  <2>3. \A u \in Tabs : \A a \in ping'[u].answers :
          a.ok => a \in ping[u].answers \/ \E q \in Question(u) : a.seq = q.seq /\ Vouched(q.key)'
    <3>. TAKE u \in Tabs
    <3>1. CASE u = t
      BY <1>3, <3>1
    <3>2. CASE u # t
      BY <1>2, <3>2
    <3>. QED
      BY <3>1, <3>2
  <2>. QED
    BY <1>4, <2>1, <2>2, <2>3 DEF TellsTrue
<1>. QED
  BY <1>2, <1>5, <1>6, TrueStays

\* Rows that are read leave, questions go on, and nothing new is told.
LEMMA LeaveTrue ==
  ASSUME CloneInv, WaitInv', NEW t \in Tabs, FinishPing(t) \/ RejectPing(t) \/ LosePing(t)
  PROVE  CloneInv'
<1>. USE DEF client, server
<1>1. /\ row' = row /\ obj' = obj /\ vg' \subseteq vg
      /\ \A m \in wire' : m \in wire \/ m.ok = "none"
  BY DEF FinishPing, RejectPing, LosePing
<1>2. \E X : ping' = [ping EXCEPT ![t] = X] /\ X.items = {} /\ X.answers \subseteq ping[t].answers
  <2>. DEFINE Y(s, S) == [stage |-> s, items |-> {}, answers |-> S]
  <2>1. \E s : \E S \in SUBSET ping[t].answers : ping' = [ping EXCEPT ![t] = Y(s, S)]
    <3>1. CASE FinishPing(t)
      <4>1. ping' = [ping EXCEPT ![t] = Y("response", ping[t].answers)]
        BY <3>1 DEF FinishPing
      <4>. HIDE DEF Y
      <4>. QED
        BY <4>1
    <3>2. CASE RejectPing(t) \/ LosePing(t)
      <4>1. \E s : ping' = [ping EXCEPT ![t] = Y(s, {})]
        BY <3>2 DEF RejectPing, LosePing, NoPing
      <4>. HIDE DEF Y
      <4>. QED
        BY <4>1
    <3>. QED
      BY <3>1, <3>2
  <2>2. PICK s, S : S \subseteq ping[t].answers /\ ping' = [ping EXCEPT ![t] = Y(s, S)]
    BY <2>1
  <2>3. Y(s, S).items = {} /\ Y(s, S).answers = S
    OBVIOUS
  <2>. HIDE DEF Y
  <2>. QED
    BY <2>2, <2>3
<1>3. PICK X : ping' = [ping EXCEPT ![t] = X] /\ X.items = {} /\ X.answers \subseteq ping[t].answers
  BY <1>2
<1>4. \A u \in Tabs : ping'[u].items \subseteq ping[u].items /\ ping'[u].answers \subseteq ping[u].answers
  <2>. DEFINE pings == ping
  <2>1. pings = [u \in Tabs |-> pings[u]] /\ ping' = [pings EXCEPT ![t] = X]
    BY <1>3 DEF CloneInv, WaitInv, AnswerInv, QuestionType
  <2>2. ping'[t] = X /\ \A u \in Tabs \ {t} : ping'[u] = pings[u]
    <3>. HIDE DEF pings
    <3>. QED
      BY <2>1
  <2>. QED
    BY <1>3, <2>2
<1>5. NothingNew
  BY PingStep DEF CloneInv, WaitInv
<1>6. RowType' /\ RowsGrow /\ CopiesTrue
  BY <1>1 DEF CloneInv, RowType, RowsGrow, CopiesTrue
<1>7. TellsTrue
  BY <1>1, <1>4, <1>5 DEF TellsTrue
<1>. QED
  BY <1>6, <1>7, TrueStays

\* A copy gets the verdict true from an answer to the question it still asks.
LEMMA ResponseTrue ==
  ASSUME CloneInv, WaitInv', NEW t \in Tabs, ReceiveResponse(t)
  PROVE  CloneInv'
<1>. USE DEF client, server
<1>. DEFINE
       A        == ping[t].answers
       got(e)   == \E a \in A : a.seq = e.seq
       counted  == {Counted(e, A) : e \in pending[t]}
       done     == {e \in counted : got(e) \/ TimedOut(e)}
       entryOf(o) == {e \in done : o \in e.objs}
       the(o)   == CHOOSE e \in entryOf(o) : TRUE
       touched  == {o \in Objects : entryOf(o) # {}}
       after(o) == After(obj[t][o], the(o), Ok(A, the(o)))
       objs     == [o \in Objects |-> IF o \in touched THEN after(o) ELSE obj[t][o]]
<1>1. UNCHANGED <<row, vg, wire>> /\ ping' = [ping EXCEPT ![t] = NoPing]
  BY DEF ReceiveResponse
<1>2. obj' = obj \/ obj' = [obj EXCEPT ![t] = objs]
  BY DEF ReceiveResponse
<1>3. \A o \in touched : the(o) \in counted /\ o \in the(o).objs /\ o \in Objects /\ Ok(A, the(o)) \in BOOLEAN
  BY DEF Ok
<1>4. \A e \in counted : \E f \in pending[t] : e.seq = f.seq /\ e.key = f.key /\ e.objs = f.objs
  <2>. TAKE e \in counted
  <2>1. PICK f \in pending[t] : e = Counted(f, A)
    OBVIOUS
  <2>2. e = f \/ e = [f EXCEPT !.count = f.count + 1]
    BY <2>1 DEF Counted
  <2>3. f = [seq |-> f.seq, key |-> f.key, objs |-> f.objs, count |-> f.count]
    BY TabKeeps DEF CloneInv, WaitInv
  <2>4. e = f \/ e = [seq |-> f.seq, key |-> f.key, objs |-> f.objs, count |-> f.count + 1]
    BY <2>2, <2>3
  <2>. QED
    BY <2>4
<1>. DEFINE True(x) == x.gid \in Gifts /\ row[x.gid].created /\ x.del \in {0, row[x.gid].del}
<1>5. \A o \in touched : after(o).verified = "true" => True(after(o))
  <2>. HIDE DEF counted, the, touched
  <2>. SUFFICES ASSUME NEW o \in touched, after(o).verified = "true"
                PROVE  True(after(o))
    OBVIOUS
  <2>. PICK e : e = the(o)
    OBVIOUS
  <2>. PICK x : x = obj[t][o]
    OBVIOUS
  <2>. PICK ok : ok = Ok(A, e)
    OBVIOUS
  <2>1. e \in counted /\ o \in e.objs /\ o \in Objects /\ ok \in BOOLEAN
    BY <1>3
  <2>2. PICK f \in pending[t] : e.seq = f.seq /\ e.key = f.key /\ e.objs = f.objs
    BY <1>4, <2>1
  <2>3. EntryFits(t, f) /\ Sound(o, x) /\ ObjectType /\ x \in Shape
    BY <2>1 DEF CloneInv, WaitInv, TabInv, ObjectType
  <2>4. /\ x.at # "none" /\ x.here /\ x.gid \in Gifts /\ x.verified = "none"
        /\ e.key.action \in Actions
    BY <2>1, <2>2, <2>3 DEF EntryFits, AsksFor, Sound
  <2>. PICK y : y = After(x, e, ok)
    OBVIOUS
  <2>5. y.verified = "true"
    OBVIOUS
  <2>6. /\ x.at = "verify" /\ Key(x) = e.key
        /\ y.verified = (IF ok THEN "true" ELSE "false")
        /\ y.gid = x.gid /\ y.del = x.del
    BY <2>1, <2>3, <2>4, <2>5, AfterShape
  <2>7. \E a \in A : a.seq = f.seq /\ a.ok
    <3>1. ok
      BY <2>5, <2>6
    <3>. QED
      BY <2>2, <3>1 DEF Ok
  <2>8. f \in Question(t)
    BY DEF Question
  <2>9. Vouched(f.key)
    BY <2>7, <2>8 DEF CloneInv, AnswersVouched
  <2>10. f.key.action = "verify" /\ f.key.gid = x.gid /\ f.key.del = x.del
    BY <2>2, <2>6 DEF Key
  <2>11. row[x.gid].created /\ x.del \in {0, row[x.gid].del}
    BY <2>9, <2>10 DEF Vouched
  <2>12. True(y)
    BY <2>4, <2>6, <2>11
  <2>. HIDE DEF True
  <2>. QED
    BY <2>12
<1>6. CopiesTrue
  <2>1. CASE obj' = obj
    BY <2>1 DEF CopiesTrue
  <2>2. CASE obj' = [obj EXCEPT ![t] = objs]
    <3>1. \A o \in Objects : objs[o] = obj[t][o] \/ (objs[o].verified = "true" => True(objs[o]))
      <4>. HIDE DEF True, touched, after
      <4>. QED
        BY <1>5
    <3>. HIDE DEF objs
    <3>2. obj \in [Tabs -> [Objects -> Shape]] /\ Clones \subseteq Objects
      BY DEF CloneInv, WaitInv, ObjectType, Objects
    <3>3. obj'[t] = objs /\ \A u \in Tabs \ {t} : obj'[u] = obj[u]
      BY <2>2, <3>2
    <3>. QED
      BY <1>1, <3>1, <3>2, <3>3 DEF CopiesTrue
  <2>. QED
    BY <1>2, <2>1, <2>2
<1>7. \A u \in Tabs : ping'[u].items \subseteq ping[u].items /\ ping'[u].answers \subseteq ping[u].answers
  <2>. DEFINE pings == ping
  <2>1. pings = [u \in Tabs |-> pings[u]] /\ ping' = [pings EXCEPT ![t] = NoPing]
    BY <1>1 DEF CloneInv, WaitInv, AnswerInv, QuestionType
  <2>2. ping'[t] = NoPing /\ \A u \in Tabs \ {t} : ping'[u] = pings[u]
    <3>. HIDE DEF pings
    <3>. QED
      BY <2>1
  <2>. QED
    BY <2>2 DEF NoPing
<1>8. NothingNew
  BY PingStep DEF CloneInv, WaitInv
<1>9. RowType' /\ RowsGrow
  BY <1>1 DEF CloneInv, RowType, RowsGrow
<1>10. TellsTrue
  BY <1>1, <1>7, <1>8 DEF TellsTrue
<1>. QED
  BY <1>6, <1>9, <1>10, TrueStays

\* The questions of a new request are those of the waiting actions; only one of them can be about
\* the gift object itself.
LEMMA SendTrue ==
  ASSUME CloneInv, WaitInv', NEW t \in Tabs, SendPing(t)
  PROVE  CloneInv'
<1>. USE DEF client, server
<1>. DEFINE
       todo    == {o \in buffer[t] : obj[t][o].verified = "none" /\ obj[t][o].seq = 0}
       objs(k) == {o \in todo : Key(obj[t][o]) = k}
       keys    == {Key(obj[t][o]) : o \in todo}
       fresh   == {k \in keys : Entry(t, k) = {}}
       locals  == SetToSeq({k \in fresh : Local(k)})
       remotes == SetToSeq({k \in fresh : ~Local(k)})
       last    == Max0({e.seq : e \in pending[t]})
       new     == {[seq |-> last + i, key |-> locals[i], objs |-> objs(locals[i]), count |-> 0] : i \in DOMAIN locals}
                    \union {[seq |-> RemoteSeq(i), key |-> remotes[i], objs |-> objs(remotes[i]), count |-> 0] : i \in DOMAIN remotes}
       joined  == {[e EXCEPT !.objs = e.objs \union objs(e.key)] : e \in pending[t]}
       seqOf(k) == (CHOOSE e \in new \union joined : e.key = k).seq
       after   == [o \in Objects |-> IF o \in todo THEN [obj[t][o] EXCEPT !.seq = seqOf(Key(obj[t][o]))] ELSE obj[t][o]]
       items   == {[seq |-> e.seq, key |-> e.key] : e \in {f \in joined \union new : Sent(f, new)}}
       X       == [stage |-> "request", answers |-> {}, items |-> items]
<1>1. /\ obj' = [obj EXCEPT ![t] = after]
      /\ pending' = [pending EXCEPT ![t] = joined \union new]
      /\ ping' = [ping EXCEPT ![t] = X]
      /\ UNCHANGED <<row, vg, wire>>
  BY DEF SendPing
<1>2. \A o \in Objects : after[o].verified = "true" => after[o] = obj[t][o]
  <2>. SUFFICES ASSUME NEW o \in Objects, o \in todo
                PROVE  after[o].verified = "none"
    OBVIOUS
  <2>1. obj[t][o] \in Shape /\ obj[t][o].verified = "none"
    BY DEF CloneInv, WaitInv, ObjectType
  <2>2. after[o] = [obj[t][o] EXCEPT !.seq = seqOf(Key(obj[t][o]))]
    OBVIOUS
  <2>. HIDE DEF after, seqOf
  <2>. QED
    BY <2>1, <2>2 DEF Shape
<1>. HIDE DEF after, joined, new
<1>3. \A i \in items : i = [seq |-> i.seq, key |-> i.key] /\ \E e \in joined \union new : i.seq = e.seq /\ i.key = e.key
  OBVIOUS
<1>4. X.items = items /\ X.answers = {}
  OBVIOUS
<1>. HIDE DEF items, X
<1>5. CopiesTrue
  <2>1. obj \in [Tabs -> [Objects -> Shape]] /\ Clones \subseteq Objects
    BY DEF CloneInv, WaitInv, ObjectType, Objects
  <2>. QED
    BY <1>1, <1>2, <2>1 DEF CopiesTrue
<1>6. /\ pending'[t] = joined \union new /\ ping'[t] = X
      /\ \A u \in Tabs \ {t} : pending'[u] = pending[u] /\ ping'[u] = ping[u]
  <2>. DEFINE pendings == pending
              pings    == ping
              P == joined \union new
  <2>1. /\ pendings = [u \in Tabs |-> pendings[u]] /\ pending' = [pendings EXCEPT ![t] = P]
        /\ pings = [u \in Tabs |-> pings[u]] /\ ping' = [pings EXCEPT ![t] = X]
    BY <1>1 DEF CloneInv, WaitInv, AnswerInv, QuestionType
  <2>2. /\ pending'[t] = P /\ ping'[t] = X
        /\ \A u \in Tabs \ {t} : pending'[u] = pendings[u] /\ ping'[u] = pings[u]
    <3>. HIDE DEF pendings, pings, P
    <3>. QED
      BY <2>1
  <2>. QED
    BY <2>2
<1>7. \A i \in ping'[t].items : i = [seq |-> i.seq, key |-> i.key] /\ \E e \in pending'[t] : i.seq = e.seq /\ i.key = e.key
  BY <1>3, <1>4, <1>6
<1>8. \A u \in Tabs : Traces(u)' = Traces(u)
  BY <1>1 DEF Traces
<1>9. \A e \in pending'[t] : e.key.gid \in Gifts /\ e.key.action \in Actions
  <2>. TAKE e \in pending'[t]
  <2>1. EntryFits(t, e)' /\ \A o \in Objects : Sound(o, obj[t][o])'
    BY DEF WaitInv, TabInv
  <2>2. e.key.action \in Actions /\ e.objs # {} /\ e.objs \subseteq Objects
    BY <2>1 DEF EntryFits
  <2>3. PICK o \in e.objs : o \in Objects
    BY <2>2
  <2>4. obj'[t][o].here /\ obj'[t][o].gid = e.key.gid
    BY <2>1 DEF EntryFits, AsksFor
  <2>5. obj'[t][o].gid \in Gifts
    BY <2>1, <2>3, <2>4 DEF Sound
  <2>. QED
    BY <2>2, <2>4, <2>5
<1>10. KeyType'
  <2>. SUFFICES ASSUME NEW u \in Tabs, NEW q \in Question(u)'
                PROVE  q.key.gid \in Gifts /\ q.key.action \in Actions
    BY DEF KeyType
  <2>1. CASE q \in Traces(u)'
    BY <1>8, <2>1 DEF CloneInv, KeyType, Question
  <2>2. CASE u # t /\ q \in pending'[u] \union ping'[u].items
    BY <1>6, <2>2 DEF CloneInv, KeyType, Question
  <2>3. CASE u = t /\ q \in pending'[u] \union ping'[u].items
    BY <1>7, <1>9, <2>3
  <2>. QED
    BY <2>1, <2>2, <2>3 DEF Question
<1>11. \A u \in Tabs : \A a \in ping'[u].answers, q \in Question(u)' : a \in ping[u].answers /\ q \in Question(u)
  BY <1>4, <1>6, <1>8 DEF Question
<1>12. AnswersVouched'
  <2>1. \A k : Vouched(k)' = Vouched(k)
    BY <1>1 DEF Vouched
  <2>2. \A v \in vg' \union wire' : v.ok = "true" => Vouched(v.key)'
    BY <1>1, <2>1 DEF CloneInv, AnswersVouched
  <2>3. \A u \in Tabs : \A a \in ping'[u].answers, q \in Question(u)' : a.ok /\ a.seq = q.seq => Vouched(q.key)'
    BY <1>11, <2>1 DEF CloneInv, AnswersVouched
  <2>. QED
    BY <2>2, <2>3 DEF AnswersVouched
<1>13. \A d, e \in pending'[t] :
         d.key.gid = e.key.gid /\ d.key.action # "verify" /\ e.key.action # "verify" => d.seq = e.seq /\ d.key = e.key
  <2>1. \A e \in pending'[t] : e.key.action # "verify" => obj'[t][e.key.gid].seq = e.seq
    <3>. TAKE e \in pending'[t]
    <3>. HAVE e.key.action # "verify"
    <3>1. EntryFits(t, e)' /\ \A o \in Objects : Sound(o, obj[t][o])'
      BY DEF WaitInv, TabInv
    <3>2. PICK o \in e.objs : o \in Objects /\ o \in Gifts
      BY <3>1 DEF EntryFits
    <3>3. obj'[t][o].here /\ obj'[t][o].gid = e.key.gid /\ obj'[t][o].seq = e.seq
      BY <3>1 DEF EntryFits, AsksFor
    <3>4. obj'[t][o].gid = o
      BY <3>1, <3>2, <3>3 DEF Sound
    <3>. QED
      BY <3>3, <3>4
  <2>2. \A d, e \in pending'[t] : d.seq = e.seq => d.key = e.key
    BY DEF WaitInv, AnswerInv, OneKey, Question
  <2>. QED
    BY <2>1, <2>2
<1>14. OneChange'
  <2>. SUFFICES ASSUME NEW u \in Tabs, NEW i \in ping'[u].items, NEW j \in ping'[u].items,
                       i.key.gid = j.key.gid, i.key.action # "verify", j.key.action # "verify"
                PROVE  i = j
    BY DEF OneChange
  <2>1. CASE u # t
    BY <1>6, <2>1 DEF CloneInv, OneChange
  <2>2. CASE u = t
    <3>1. i.seq = j.seq /\ i.key = j.key
      BY <1>7, <1>13, <2>2
    <3>2. i = [seq |-> i.seq, key |-> i.key] /\ j = [seq |-> j.seq, key |-> j.key]
      BY <1>7, <2>2
    <3>. QED
      BY <3>1, <3>2, Zenon
  <2>. QED
    BY <2>1, <2>2
<1>15. RowType' /\ RowsGrow
  BY <1>1 DEF CloneInv, RowType, RowsGrow
<1>. QED
  BY <1>5, <1>10, <1>12, <1>14, <1>15, CopiesVouched DEF CloneInv

LEMMA CloneInit ==
  ASSUME Init
  PROVE  CloneInv
<1>1. WaitInv
  BY WaitInit
<1>2. /\ row = [g \in Gifts |-> [created |-> g \in There, del |-> 0]]
      /\ vg = {} /\ wire = {}
      /\ \A t \in Tabs : pending[t] = {} /\ ping[t] = NoPing
      /\ obj = [t \in Tabs |-> [o \in Objects |-> IF o \in There THEN Loaded(o, TRUE) ELSE NoObj]]
  BY DEF Init
<1>3. RowType
  <2>1. \A g \in Gifts : row[g] = [created |-> g \in There, del |-> 0]
    BY <1>2
  <2>2. \A g \in Gifts : row[g] = [created |-> row[g].created, del |-> row[g].del]
    <3>. TAKE g \in Gifts
    <3>. PICK b : b = (g \in There)
      OBVIOUS
    <3>1. row[g] = [created |-> b, del |-> 0]
      BY <2>1, Zenon
    <3>. QED
      BY <3>1, Zenon
  <2>3. row = [g \in Gifts |-> row[g]]
    BY <1>2
  <2>. QED
    BY <2>2, <2>3 DEF RowType
<1>4. \A t \in Tabs : Question(t) = {} /\ ping[t].items = {} /\ ping[t].answers = {}
  BY <1>2 DEF Question, Traces, NoPing
<1>5. KeyType /\ AnswersVouched /\ OneChange
  BY <1>2, <1>4 DEF KeyType, AnswersVouched, OneChange
<1>6. ClonesVouched
  <2>1. \A t \in Tabs, c \in Clones : obj[t][c] = NoObj
    BY <1>2, GiftsAssumption DEF Objects
  <2>. QED
    BY <2>1, NoObjShape DEF ClonesVouched
<1>. QED
  BY <1>1, <1>3, <1>5, <1>6 DEF CloneInv

LEMMA CloneStep ==
  ASSUME CloneInv, [Next]_vars
  PROVE  CloneInv'
<1>0. WaitInv'
  BY WaitStep DEF CloneInv
<1>1. CASE WireNext
  BY <1>0, <1>1, WireTrue
<1>2. ASSUME NEW t \in Tabs, UserNext(t) PROVE CloneInv'
  BY <1>0, <1>2, UserTrue
<1>3. ASSUME NEW t \in Tabs, PingNext(t) PROVE CloneInv'
  BY <1>0, <1>3, SendTrue, HandleTrue, LeaveTrue, ResponseTrue DEF PingNext
<1>4. CASE UNCHANGED vars
  <2>1. /\ UNCHANGED <<obj, pending, ping, row, vg, wire>>
    BY <1>4 DEF vars, client, server
  <2>2. NothingNew /\ CopiesTrue
    BY <2>1 DEF NothingNew, CopiesTrue, Question, Traces
  <2>. QED
    BY <1>0, <2>1, <2>2, NothingTold
<1>. QED
  BY <1>1, <1>2, <1>3, <1>4 DEF Next

\* A copy is merged only when its server has the gift, deleted when the copy says so: its
\* answer is the answer to its question, was true when it was given, and has stayed so, whatever
\* was asked before with the same seq and whatever other requests have done.
THEOREM CopiesAreTrue == Spec => []CloneTrue
<1>1. Init => CloneInv
  BY CloneInit
<1>2. CloneInv /\ [Next]_vars => CloneInv'
  BY CloneStep
<1>3. CloneInv => CloneTrue
  BY DEF CloneInv, ClonesVouched, CloneTrue
<1>. QED
  BY <1>1, <1>2, <1>3, PTL DEF Spec

----------------------------------------------------------------------------
\* What the localStorage says of a gift.

\* What a saved gift z and a gift object x say of a creation, when the server has the row r; the
\* timestamps given out until now are 1..c.
SavedOk(z, r, c) == (z.created => r.created) /\ z.del \in 0..c /\ (~z.saved => z.del = 0)
GiftOk(x, r, c)  ==
  /\ x.created \/ x.at = "delete" => r.created
  /\ x.at = "create" => ~x.deleted
  /\ x.del \in 0..c
GiftsTrue ==
  \A g \in Gifts : /\ row[g].del \in 0..clock /\ SavedOk(store[g], row[g], clock)
                   /\ \A t \in Tabs : GiftOk(obj[t][g], row[g], clock)

\* Questions of this server have positive numbers and do not time out, and only what is created
\* is deleted.
QuestionOk(q) ==
  /\ q.seq > 0 <=> Local(q.key)
  /\ q.key.action = "delete" => row[q.key.gid].created /\ q.key.del \in 0..clock
QuestionsTrue == \A t \in Tabs : \A q \in Question(t) : QuestionOk(q)
LocalsWait    == \A t \in Tabs : \A e \in pending[t] : e.seq > 0 => e.count = 0

\* A gift that waits for an answer keeps its action.
KindKept == \A t \in Tabs, g \in Gifts : \A e \in pending[t] : g \in e.objs => obj[t][g].at = e.key.action

BaseInv == CloneInv /\ GiftsTrue /\ QuestionsTrue /\ LocalsWait /\ KindKept

\* Only one tab can be about to delete g.  A deletion of a sure gift is refused only because of
\* another one.
Alone(g) == g \in There \/ \A t, u \in Tabs : t = u
Sure(g)  == Alone(g) \/ g \notin Refusable

\* The timestamps of a deletion that a tab is going to save.
Deleting(t, g) == obj[t][g].known /\ obj[t][g].at = "delete" /\ Waiting(t, g)
Entries(t, g)  == {e \in pending[t] : g \in e.objs /\ e.key.action = "delete"}
DelsOf(t, g)   == {obj[t][g].del} \union {e.key.del : e \in Entries(t, g)}

\* It is the one in the localStorage, unless neither of them will ever be confirmed.
Fits(g, d) == (d = store[g].del /\ d # 0) \/ (~Alone(g) /\ row[g].del \notin {0, d, store[g].del})

StoredFits(g)  == store[g].deleted /\ store[g].del # 0 => row[g].del = store[g].del
WaitingFits(g) == \A t \in Tabs : Deleting(t, g) => \A d \in DelsOf(t, g) : Fits(g, d)
OneDeletes(g)  == Alone(g) => \A t, u \in Tabs : Deleting(t, g) /\ Deleting(u, g) => t = u
AnswersFit(g)  ==
  ~Alone(g) => \A t \in Tabs : \A a \in ping[t].answers, e \in Entries(t, g) :
    a.seq = e.seq => IF a.ok THEN obj[t][g].known => e.key.del # 0 ELSE row[g].del \notin {0, e.key.del}
DeletesFit(g) == StoredFits(g) /\ WaitingFits(g) /\ OneDeletes(g) /\ AnswersFit(g)

StoreInv == BaseInv /\ \A g \in Gifts : Sure(g) => DeletesFit(g)

----------------------------------------------------------------------------
\* What the operators do to the fields the localStorage has.

LEMMA NoObjFields ==
  /\ ~NoObj.known /\ ~NoObj.created /\ NoObj.del = 0 /\ ~NoObj.deleted /\ NoObj.at = "none"
  BY DEF NoObj

LEMMA ResetFields ==
  ASSUME NEW x \in Shape
  PROVE  /\ Reset(x).known = x.known /\ Reset(x).created = x.created
         /\ Reset(x).del = x.del /\ Reset(x).deleted = x.deleted
<1>. DEFINE y == [x EXCEPT !.at = "none"]
<1>1. Reset(x) = [y EXCEPT !.seq = 0]
  BY DEF Reset, Shape
<1>2. y \in Shape /\ y.known = x.known /\ y.created = x.created /\ y.del = x.del /\ y.deleted = x.deleted
  BY DEF Shape, Actions
<1>. HIDE DEF y
<1>. QED
  BY <1>1, <1>2 DEF Shape

LEMMA RefreshedFields ==
  ASSUME ObjectType, NEW x \in Shape, x.known => x.gid \in Gifts
  PROVE  /\ Refreshed(x).known = x.known /\ Refreshed(x).deleted = x.deleted
         /\ IF x.known THEN Refreshed(x).created = store[x.gid].created /\ Refreshed(x).del = store[x.gid].del
            ELSE Refreshed(x) = x
<1>1. CASE ~x.known
  BY <1>1 DEF Refreshed
<1>2. CASE x.known
  <2>1. store[x.gid].created \in BOOLEAN /\ store[x.gid].del \in Nat
    BY <1>2 DEF ObjectType, StoreShape
  <2>. DEFINE y == [x EXCEPT !.created = store[x.gid].created]
  <2>2. Refreshed(x) = [y EXCEPT !.del = store[x.gid].del]
    BY <1>2 DEF Refreshed, Shape
  <2>3. y \in Shape /\ y.known = x.known /\ y.deleted = x.deleted /\ y.created = store[x.gid].created
    BY <2>1 DEF Shape
  <2>. HIDE DEF y
  <2>4. [y EXCEPT !.del = store[x.gid].del].known = y.known /\ [y EXCEPT !.del = store[x.gid].del].deleted = y.deleted
        /\ [y EXCEPT !.del = store[x.gid].del].created = y.created /\ [y EXCEPT !.del = store[x.gid].del].del = store[x.gid].del
    BY <2>1, <2>3 DEF Shape
  <2>. QED
    BY <1>2, <2>2, <2>3, <2>4
<1>. QED
  BY <1>1, <1>2 DEF Shape

LEMMA LoadedFields ==
  ASSUME store \in [Gifts -> StoreShape], NEW g \in Gifts, NEW known \in BOOLEAN
  PROVE  /\ Loaded(g, known).known = known /\ Loaded(g, known).created = store[g].created
         /\ Loaded(g, known).del = store[g].del /\ Loaded(g, known).deleted = store[g].deleted
<1>1. store[g].created \in BOOLEAN /\ store[g].del \in Nat /\ store[g].deleted \in BOOLEAN
  BY DEF StoreShape
<1>. DEFINE a == [NoObj EXCEPT !.here = TRUE]
            b == [a EXCEPT !.gid = g]
            c == [b EXCEPT !.known = known]
            d == [c EXCEPT !.created = store[g].created]
            e == [d EXCEPT !.del = store[g].del]
<1>2. Loaded(g, known) = [e EXCEPT !.deleted = store[g].deleted]
  BY DEF Loaded
<1>3. a \in Shape
  BY NoObjShape DEF Shape
<1>. HIDE DEF a
<1>4. b \in Shape
  BY <1>3 DEF Shape
<1>. HIDE DEF b
<1>5. c \in Shape /\ c.known = known
  BY <1>4 DEF Shape
<1>. HIDE DEF c
<1>6. d \in Shape /\ d.known = known /\ d.created = store[g].created
  BY <1>1, <1>5 DEF Shape
<1>. HIDE DEF d
<1>7. e \in Shape /\ e.known = known /\ e.created = store[g].created /\ e.del = store[g].del
  BY <1>1, <1>6 DEF Shape
<1>. HIDE DEF e
<1>. QED
  BY <1>1, <1>2, <1>7 DEF Shape

LEMMA NewGiftFields ==
  ASSUME NEW g \in Gifts
  PROVE  ~NewGift(g).created /\ NewGift(g).del = 0 /\ ~NewGift(g).deleted
<1>. DEFINE a == [NoObj EXCEPT !.here = TRUE]
            b == [a EXCEPT !.gid = g]
<1>1. NewGift(g) = [b EXCEPT !.known = TRUE]
  BY DEF NewGift
<1>2. a \in Shape /\ ~a.created /\ a.del = 0 /\ ~a.deleted
  BY NoObjShape, NoObjFields DEF Shape
<1>. HIDE DEF a
<1>3. b \in Shape /\ ~b.created /\ b.del = 0 /\ ~b.deleted
  BY <1>2 DEF Shape
<1>. HIDE DEF b
<1>. QED
  BY <1>1, <1>3 DEF Shape

\* Saving writes one gift, and nothing when it is not known.
LEMMA SavedFields ==
  ASSUME NEW s \in [Gifts -> StoreShape], NEW x \in Shape, NEW g \in Gifts
  PROVE  /\ x.known /\ x.gid = g =>
              /\ Saved(s, x)[g].saved /\ Saved(s, x)[g].created = x.created
              /\ Saved(s, x)[g].del = x.del /\ Saved(s, x)[g].deleted = x.deleted
         /\ ~x.known \/ x.gid # g => Saved(s, x)[g] = s[g]
  BY DEF Saved

LEMMA AfterFields ==
  ASSUME ObjectType, NEW x \in Shape, NEW e, NEW ok \in BOOLEAN,
         x.at \in {"create", "delete"}, x.gid \in Gifts, e.key.action \in Actions, NEW y, y = After(x, e, ok)
  PROVE  /\ y.known = x.known
         /\ \/ y = x /\ Outcome(x, e, ok) = "skip"
            \/ /\ Outcome(x, e, ok) = "again"
               /\ y.created = x.created /\ y.del = x.del /\ y.deleted = x.deleted /\ y.at \in {"none", x.at}
            \/ /\ Outcome(x, e, ok) = "refused" /\ x.at = "create"
               /\ ~y.created /\ y.del = 0 /\ ~y.deleted /\ y.at = "none"
            \/ Outcome(x, e, ok) = "elsewhere" /\ x.at = "create" /\ y = Refreshed(x)
            \/ /\ Outcome(x, e, ok) = "created" /\ x.at = "create" /\ Key(x) = e.key /\ ok
               /\ y.gid = x.gid /\ y.at = "none"
               /\ y.created /\ y.del = Refreshed(x).del /\ y.deleted = x.deleted
            \/ /\ Outcome(x, e, ok) = "deleted" /\ x.at = "delete" /\ Key(x) = e.key /\ ok
               /\ y.gid = x.gid /\ y.at = "delete"
               /\ y.created = Refreshed(x).created /\ y.del = Refreshed(x).del /\ y.deleted
            \/ /\ Outcome(x, e, ok) = "undeleted" /\ x.at = "delete" /\ Key(x) = e.key /\ ~ok /\ ~x.deleted
               /\ y.gid = x.gid /\ y.at = "delete"
               /\ y.created = x.created /\ y.del = 0 /\ ~y.deleted
<1>. DEFINE out == Outcome(x, e, ok)
            r   == Refreshed(x)
<1>1. x.at \in Actions /\ x.at # "verify"
  BY DEF Actions
<1>2. /\ r \in Shape /\ r.at = x.at /\ r.gid = x.gid
      /\ r.known = x.known /\ r.deleted = x.deleted
  BY RefreshedShape, RefreshedFields
<1>. HIDE DEF r
<1>3. CASE Key(x) # e.key /\ x.at # e.key.action
  <2>1. out = "skip"
    BY <1>3 DEF Outcome
  <2>2. y = x
    BY <2>1, Zenon DEF After
  <2>. QED
    BY <2>1, <2>2
<1>4. CASE Key(x) # e.key /\ x.at = e.key.action
  <2>. DEFINE z == Reset(x)
  <2>1. out = "again"
    BY <1>4 DEF Outcome
  <2>2. y = IF Requeues(x, e) THEN [z EXCEPT !.at = x.at] ELSE z
    BY <1>4, <2>1 DEF After
  <2>3. /\ z \in Shape /\ z.at = "none"
        /\ z.known = x.known /\ z.created = x.created /\ z.del = x.del /\ z.deleted = x.deleted
    BY ResetShape, ResetFields
  <2>. HIDE DEF z
  <2>4. /\ [z EXCEPT !.at = x.at].at = x.at /\ [z EXCEPT !.at = x.at].known = z.known
        /\ [z EXCEPT !.at = x.at].created = z.created
        /\ [z EXCEPT !.at = x.at].del = z.del /\ [z EXCEPT !.at = x.at].deleted = z.deleted
    BY <1>1, <2>3 DEF Shape
  <2>. HIDE DEF out
  <2>5. CASE Requeues(x, e)
    <3>1. y = [z EXCEPT !.at = x.at]
      BY <2>2, <2>5
    <3>2. y.at = x.at /\ y.known = x.known /\ y.created = x.created /\ y.del = x.del /\ y.deleted = x.deleted
      BY <2>3, <2>4, <3>1
    <3>. QED
      BY <2>1, <3>2 DEF out
  <2>6. CASE ~Requeues(x, e)
    <3>1. y = z
      BY <2>2, <2>6
    <3>. QED
      BY <2>1, <2>3, <3>1 DEF out
  <2>. QED
    BY <2>5, <2>6
<1>5. CASE Key(x) = e.key /\ x.at = "create" /\ ~ok
  <2>1. out = "refused"
    BY <1>5 DEF Outcome
  <2>2. y = [NoObj EXCEPT !.known = x.known]
    BY <2>1 DEF After
  <2>3. y.known = x.known /\ ~y.created /\ y.del = 0 /\ ~y.deleted /\ y.at = "none"
    BY <2>2, NoObjShape, NoObjFields DEF Shape
  <2>. QED
    BY <1>5, <2>1, <2>3
<1>6. CASE Key(x) = e.key /\ x.at = "create" /\ ok
  <2>1. out = IF x.created THEN "skip" ELSE IF r.created THEN "elsewhere" ELSE "created"
    BY <1>6 DEF Outcome, r
  <2>2. CASE x.created
    <3>1. out = "skip"
      BY <2>1, <2>2
    <3>2. y = x
      BY <3>1, Zenon DEF After
    <3>. QED
      BY <3>1, <3>2
  <2>3. CASE ~x.created /\ r.created
    <3>1. out = "elsewhere"
      BY <2>1, <2>3
    <3>2. y = r
      BY <3>1 DEF After, r
    <3>. QED
      BY <1>2, <1>6, <3>1, <3>2 DEF r
  <2>4. CASE ~x.created /\ ~r.created
    <3>1. out = "created"
      BY <2>1, <2>4
    <3>. DEFINE z == Reset(r)
    <3>2. y = [z EXCEPT !.created = TRUE]
      BY <3>1 DEF After, r
    <3>3. z \in Shape /\ z.at = "none" /\ z.known = x.known /\ z.del = r.del /\ z.deleted = x.deleted /\ z.gid = x.gid
      BY <1>2, ResetShape, ResetFields
    <3>. HIDE DEF z
    <3>4. y.at = "none" /\ y.known = x.known /\ y.created /\ y.del = r.del /\ y.deleted = x.deleted /\ y.gid = x.gid
      BY <3>2, <3>3 DEF Shape
    <3>. QED
      BY <1>6, <3>1, <3>4 DEF r
  <2>. QED
    BY <2>2, <2>3, <2>4
<1>7. CASE Key(x) = e.key /\ x.at = "delete"
  <2>1. out = IF x.deleted THEN "skip" ELSE IF ok THEN "deleted" ELSE "undeleted"
    BY <1>7 DEF Outcome
  <2>2. CASE x.deleted
    <3>1. out = "skip"
      BY <2>1, <2>2
    <3>2. y = x
      BY <3>1, Zenon DEF After
    <3>. QED
      BY <3>1, <3>2
  <2>3. CASE ~x.deleted /\ ok
    <3>1. out = "deleted"
      BY <2>1, <2>3
    <3>. DEFINE z == [r EXCEPT !.deleted = TRUE]
    <3>2. y = [z EXCEPT !.seq = 0]
      BY <1>2, <3>1 DEF After, r, Shape
    <3>3. /\ z \in Shape /\ z.at = "delete" /\ z.known = x.known /\ z.created = r.created
          /\ z.del = r.del /\ z.deleted /\ z.gid = x.gid
      BY <1>2, <1>7 DEF Shape
    <3>. HIDE DEF z
    <3>4. /\ y.at = "delete" /\ y.known = x.known /\ y.created = r.created
          /\ y.del = r.del /\ y.deleted /\ y.gid = x.gid
      BY <3>2, <3>3 DEF Shape
    <3>. QED
      BY <1>7, <2>3, <3>1, <3>4 DEF r
  <2>4. CASE ~x.deleted /\ ~ok
    <3>1. out = "undeleted"
      BY <2>1, <2>4
    <3>. DEFINE z == [x EXCEPT !.del = 0]
    <3>2. y = [z EXCEPT !.seq = 0]
      BY <3>1 DEF After, Shape
    <3>3. /\ z \in Shape /\ z.at = "delete" /\ z.known = x.known /\ z.created = x.created
          /\ z.del = 0 /\ ~z.deleted /\ z.gid = x.gid
      BY <1>7, <2>4 DEF Shape
    <3>. HIDE DEF z
    <3>4. /\ y.at = "delete" /\ y.known = x.known /\ y.created = x.created
          /\ y.del = 0 /\ ~y.deleted /\ y.gid = x.gid
      BY <3>2, <3>3 DEF Shape
    <3>. QED
      BY <1>7, <2>4, <3>1, <3>4
  <2>. QED
    BY <2>2, <2>3, <2>4
<1>. QED
  BY <1>3, <1>4, <1>5, <1>6, <1>7

----------------------------------------------------------------------------
\* What the steps do to a gift of a tab.

\* The tables of the tabs: a step writes one of them.
LEMMA TabWritten ==
  ASSUME NEW f, f = [u \in Tabs |-> f[u]], NEW t \in Tabs, NEW X, NEW h, h = [f EXCEPT ![t] = X]
  PROVE  h[t] = X /\ \A u \in Tabs \ {t} : h[u] = f[u]
  OBVIOUS

LEMMA GiftOf ==
  ASSUME WaitInv, NEW t \in Tabs, NEW g \in Gifts
  PROVE  /\ g \in Objects /\ g \notin Clones
         /\ obj[t][g] \in Shape /\ store[g] \in StoreShape /\ ObjectType
         /\ obj[t][g].at \in {"none", "create", "delete"}
         /\ obj[t][g].known => obj[t][g].gid \in Gifts
         /\ obj[t][g].here => obj[t][g].gid = g /\ store[g].saved
         /\ Waiting(t, g) => /\ obj[t][g].here /\ obj[t][g].at \in {"create", "delete"}
                             /\ obj[t][g].verified = "none"
         /\ \A e \in pending[t] : g \in e.objs =>
              g \notin buffer[t] /\ e.seq = obj[t][g].seq /\ e.key.gid = g /\ e.key.action \in Actions
<1>1. g \in Objects /\ g \notin Clones
  BY GiftsAssumption DEF Objects
<1>2. obj[t][g] \in Shape /\ store[g] \in StoreShape /\ ObjectType
  BY <1>1 DEF WaitInv, ObjectType
<1>3. Sound(g, obj[t][g]) /\ (\A o \in buffer[t] : Queued(obj[t][o])) /\ \A e \in pending[t] : EntryFits(t, e)
  BY <1>1 DEF WaitInv, TabInv
<1>. PICK x : x = obj[t][g]
  OBVIOUS
<1>4. x.at \in {"none", "create", "delete"}
  <2>1. x.at # "verify" /\ x.at \in Actions \union {"none"}
    BY <1>2, <1>3 DEF Sound, Shape
  <2>. QED
    BY <2>1 DEF Actions
<1>5. \A e \in pending[t] : g \in e.objs => g \notin buffer[t] /\ AsksFor(x, e) /\ e.key.action \in Actions
  BY <1>3 DEF EntryFits
<1>6. Waiting(t, g) => x.here /\ x.at # "none" /\ x.verified = "none"
  BY <1>3, <1>5 DEF Waiting, Queued, AsksFor
<1>7. x.here => x.gid = g /\ store[g].saved
  BY <1>3 DEF Sound
<1>8. x.known => x.gid \in Gifts
  BY <1>3 DEF Sound
<1>. QED
  BY <1>1, <1>2, <1>4, <1>5, <1>6, <1>7, <1>8 DEF AsksFor

\* A gift asks for one thing.
LEMMA OneQuestion ==
  ASSUME WaitInv, NEW t \in Tabs, NEW g \in Gifts, NEW e \in pending[t], NEW f \in pending[t], g \in e.objs, g \in f.objs
  PROVE  e = f
<1>1. e.seq = f.seq
  BY GiftOf
<1>2. e \in Question(t) /\ f \in Question(t) /\ OneKey
  BY DEF Question, WaitInv, AnswerInv
<1>3. e.key = f.key
  BY <1>1, <1>2 DEF OneKey
<1>. QED
  BY <1>3 DEF WaitInv, TabInv, OneEntry

\* What is left of the pending actions was there before.
Left(t) ==
  \A e \in pending'[t] : \E f \in pending[t] : /\ e.seq = f.seq /\ e.key = f.key /\ e.objs \subseteq f.objs
                                               /\ e.seq > 0 => e.count = f.count

\* A gift that got no answer, and one that was answered or waited too long.
Untouched(t, g) ==
  /\ obj'[t][g] = obj[t][g] /\ store'[g] = store[g]
  /\ g \in buffer'[t] => g \in buffer[t]

Answered(t, g, f, e, ok) ==
  /\ f \in pending[t] /\ g \in f.objs /\ e.key = f.key
  /\ (\E a \in ping[t].answers : a.seq = f.seq) \/ (f.seq > 0 => f.count = Timeout)
  /\ ok = Ok(ping[t].answers, f)
  /\ obj'[t][g] = After(obj[t][g], e, ok)
  /\ store'[g] = IF Outcome(obj[t][g], e, ok) \in {"created", "deleted", "undeleted"} /\ obj'[t][g].known
                 THEN Saved(store, obj'[t][g])[g] ELSE store[g]
  /\ g \in buffer'[t] => Outcome(obj[t][g], e, ok) = "again"
  /\ \A d \in pending'[t] : g \notin d.objs

LEMMA ResponseFields ==
  ASSUME WaitInv, NEW t \in Tabs, ReceiveResponse(t)
  PROVE  /\ Left(t)
         /\ \A g \in Gifts : Untouched(t, g) \/ \E f, e : \E ok \in BOOLEAN : Answered(t, g, f, e, ok)
         /\ \A u \in Tabs \ {t} : obj'[u] = obj[u] /\ buffer'[u] = buffer[u] /\ pending'[u] = pending[u]
<1>. USE DEF client, server
<1>. DEFINE
       A        == ping[t].answers
       got(e)   == \E a \in A : a.seq = e.seq
       counted  == {Counted(e, A) : e \in pending[t]}
       done     == {e \in counted : got(e) \/ TimedOut(e)}
       entryOf(o) == {e \in done : o \in e.objs}
       the(o)   == CHOOSE e \in entryOf(o) : TRUE
       touched  == {o \in Objects : entryOf(o) # {}}
       out(o)   == Outcome(obj[t][o], the(o), Ok(A, the(o)))
       after(o) == After(obj[t][o], the(o), Ok(A, the(o)))
       saves    == {o \in touched : out(o) \in {"created", "deleted", "undeleted"} /\ after(o).known}
       again    == {o \in touched : out(o) = "again" /\ Requeues(obj[t][o], the(o))}
       objs     == [o \in Objects |-> IF o \in touched THEN after(o) ELSE obj[t][o]]
<1>0. /\ pending = [u \in Tabs |-> pending[u]] /\ buffer = [u \in Tabs |-> buffer[u]]
      /\ obj = [u \in Tabs |-> obj[u]]
      /\ \A e \in pending[t] : e = [seq |-> e.seq, key |-> e.key, objs |-> e.objs, count |-> e.count]
  BY DEF WaitInv, ObjectType, AnswerInv, QuestionType
<1>1. CASE Invalid(t) # {}
  <2>1. UNCHANGED <<store, obj, buffer, pending>>
    BY <1>1 DEF ReceiveResponse
  <2>. QED
    BY <2>1 DEF Left, Untouched
<1>2. CASE Invalid(t) = {}
  <2>1. /\ pending' = [pending EXCEPT ![t] = counted \ done]
        /\ obj' = [obj EXCEPT ![t] = objs]
        /\ store' = [g \in Gifts |-> IF g \in saves THEN Saved(store, after(g))[g] ELSE store[g]]
        /\ buffer' = [buffer EXCEPT ![t] = buffer[t] \union again]
    BY <1>2 DEF ReceiveResponse
  <2>2. \A e \in counted : \E f \in pending[t] :
          /\ e = Counted(f, A) /\ e.seq = f.seq /\ e.key = f.key /\ e.objs = f.objs
          /\ e.seq > 0 => e.count = f.count
    <3>. TAKE e \in counted
    <3>1. PICK f \in pending[t] : e = Counted(f, A)
      OBVIOUS
    <3>2. e = IF f.seq > 0 \/ got(f) THEN f ELSE [f EXCEPT !.count = f.count + 1]
      BY <3>1 DEF Counted
    <3>3. e = f \/ (~(f.seq > 0) /\ e = [seq |-> f.seq, key |-> f.key, objs |-> f.objs, count |-> f.count + 1])
      BY <1>0, <3>2
    <3>. QED
      BY <3>1, <3>3
  <2>3. \A o \in touched : the(o) \in done /\ o \in the(o).objs /\ o \in Objects
    OBVIOUS
  <2>4. \A e \in done : e \in counted /\ (got(e) \/ TimedOut(e))
    OBVIOUS
  <2>5. \A d \in done : \A o \in d.objs : o \in Objects => o \in touched
    OBVIOUS
  <2>6. \A o \in Objects : /\ o \in touched => objs[o] = after(o)
                           /\ o \notin touched => objs[o] = obj[t][o]
    OBVIOUS
  <2>7. \A e : Ok(A, e) \in BOOLEAN
    BY DEF Ok
  <2>8. \A g \in Gifts : g \in saves <=> g \in touched /\ out(g) \in {"created", "deleted", "undeleted"} /\ after(g).known
    OBVIOUS
  <2>9. \A o \in again : o \in touched /\ out(o) = "again"
    OBVIOUS
  <2>. HIDE DEF counted, done, entryOf, the, touched, saves, again, objs, A
  <2>10. /\ obj'[t] = objs /\ pending'[t] = counted \ done /\ buffer'[t] = buffer[t] \union again
         /\ \A u \in Tabs \ {t} : obj'[u] = obj[u] /\ buffer'[u] = buffer[u] /\ pending'[u] = pending[u]
    <3>. DEFINE P == counted \ done
                B == buffer[t] \union again
    <3>1. pending' = [pending EXCEPT ![t] = P] /\ buffer' = [buffer EXCEPT ![t] = B]
      BY <2>1
    <3>. HIDE DEF P, B
    <3>2. pending'[t] = P /\ \A u \in Tabs \ {t} : pending'[u] = pending[u]
      BY <1>0, <3>1, TabWritten
    <3>3. buffer'[t] = B /\ \A u \in Tabs \ {t} : buffer'[u] = buffer[u]
      BY <1>0, <3>1, TabWritten
    <3>4. obj'[t] = objs /\ \A u \in Tabs \ {t} : obj'[u] = obj[u]
      BY <1>0, <2>1, TabWritten
    <3>. QED
      BY <3>2, <3>3, <3>4 DEF P, B
  <2>11. Left(t)
    BY <2>2, <2>10 DEF Left
  <2>12. ASSUME NEW g \in Gifts PROVE Untouched(t, g) \/ \E f, e : \E ok \in BOOLEAN : Answered(t, g, f, e, ok)
    <3>1. g \in Objects
      BY DEF Objects
    <3>2. CASE g \notin touched
      <4>1. g \notin saves /\ g \notin again
        BY <2>8, <2>9, <3>2
      <4>2. obj'[t][g] = obj[t][g] /\ store'[g] = store[g] /\ (g \in buffer'[t] => g \in buffer[t])
        BY <2>1, <2>6, <2>10, <3>1, <3>2, <4>1
      <4>. QED
        BY <4>2 DEF Untouched
    <3>3. CASE g \in touched
      <4>. PICK e : e = the(g)
        OBVIOUS
      <4>1. e \in done /\ g \in e.objs /\ e \in counted /\ (got(e) \/ TimedOut(e))
        BY <2>3, <2>4, <3>3
      <4>2. PICK f \in pending[t] : /\ e = Counted(f, A) /\ e.seq = f.seq /\ e.key = f.key /\ e.objs = f.objs
                                    /\ e.seq > 0 => e.count = f.count
        BY <2>2, <4>1
      <4>. DEFINE ok == Ok(A, e)
      <4>3. ok \in BOOLEAN /\ ok = Ok(A, f)
        BY <2>7, <4>2 DEF Ok
      <4>4. (\E a \in A : a.seq = f.seq) \/ (f.seq > 0 => f.count = Timeout)
        BY <4>1, <4>2 DEF TimedOut
      <4>5. obj'[t][g] = After(obj[t][g], e, ok)
        BY <2>6, <2>10, <3>1, <3>3
      <4>6. store'[g] = IF Outcome(obj[t][g], e, ok) \in {"created", "deleted", "undeleted"} /\ obj'[t][g].known
                        THEN Saved(store, obj'[t][g])[g] ELSE store[g]
        <5>1. store'[g] = IF g \in saves THEN Saved(store, after(g))[g] ELSE store[g]
          BY <2>1
        <5>2. after(g) = obj'[t][g]
          BY <4>5
        <5>3. g \in saves <=> out(g) \in {"created", "deleted", "undeleted"} /\ after(g).known
          BY <2>8, <3>3
        <5>4. out(g) = Outcome(obj[t][g], e, ok)
          OBVIOUS
        <5>. HIDE DEF after, out
        <5>. QED
          BY <5>1, <5>2, <5>3, <5>4
      <4>7. g \in buffer'[t] => Outcome(obj[t][g], e, ok) = "again"
        <5>1. g \notin buffer[t]
          BY <4>1, <4>2, GiftOf
        <5>2. g \in again => out(g) = "again"
          BY <2>9
        <5>3. out(g) = Outcome(obj[t][g], e, ok)
          OBVIOUS
        <5>. HIDE DEF after, out
        <5>. QED
          BY <2>10, <5>1, <5>2, <5>3
      <4>8. ASSUME NEW d \in pending'[t], g \in d.objs PROVE FALSE
        <5>1. d \in counted /\ d \notin done
          BY <2>10, <4>8
        <5>2. PICK h \in pending[t] : d = Counted(h, A) /\ d.objs = h.objs
          BY <2>2, <5>1
        <5>3. h = f
          BY <4>1, <4>2, <4>8, <5>2, OneQuestion
        <5>. QED
          BY <4>1, <4>2, <5>1, <5>2, <5>3
      <4>. HIDE DEF ok
      <4>9. Answered(t, g, f, e, ok)
        BY <4>1, <4>2, <4>3, <4>4, <4>5, <4>6, <4>7, <4>8 DEF Answered, A
      <4>. QED
        BY <4>3, <4>9
    <3>. QED
      BY <3>2, <3>3
  <2>. QED
    BY <2>10, <2>11, <2>12
<1>. QED
  BY <1>1, <1>2

\* An object asks for an action with its next ping.
Adds(t, o, k) == o \in buffer[t] /\ Key(obj[t][o]) = k

\* The pending actions after a ping was made: those before, and those objects ask for.
KeptEntry(t, e) ==
  \E f \in pending[t] : /\ e.seq = f.seq /\ e.key = f.key /\ e.count = f.count
                        /\ \A o \in e.objs : o \in f.objs \/ Adds(t, o, e.key)
NewEntry(t, e) ==
  /\ e.count = 0 /\ (e.seq > 0 <=> Local(e.key))
  /\ e.objs # {} /\ \A o \in e.objs : Adds(t, o, e.key)

SameGift(x, y) ==
  x.known = y.known /\ x.created = y.created /\ x.del = y.del /\ x.deleted = y.deleted /\ x.at = y.at

LEMMA SendFields ==
  ASSUME WaitInv, NEW t \in Tabs, SendPing(t)
  PROVE  /\ \A e \in pending'[t] : KeptEntry(t, e) \/ NewEntry(t, e)
         /\ \A i \in ping'[t].items : \E e \in pending'[t] : i.seq = e.seq /\ i.key = e.key
         /\ buffer'[t] = {} /\ ping'[t].answers = {}
         /\ \A g \in Gifts : SameGift(obj'[t][g], obj[t][g])
         /\ \A u \in Tabs \ {t} : /\ obj'[u] = obj[u] /\ buffer'[u] = buffer[u]
                                  /\ pending'[u] = pending[u] /\ ping'[u] = ping[u]
<1>. USE DEF client, server
<1>. DEFINE
       todo    == {o \in buffer[t] : obj[t][o].verified = "none" /\ obj[t][o].seq = 0}
       objs(k) == {o \in todo : Key(obj[t][o]) = k}
       keys    == {Key(obj[t][o]) : o \in todo}
       fresh   == {k \in keys : Entry(t, k) = {}}
       ours    == {k \in fresh : Local(k)}
       theirs  == {k \in fresh : ~Local(k)}
       locals  == SetToSeq(ours)
       remotes == SetToSeq(theirs)
       last    == Max0({e.seq : e \in pending[t]})
       newLocal  == {[seq |-> last + i, key |-> locals[i], objs |-> objs(locals[i]), count |-> 0] : i \in DOMAIN locals}
       newRemote == {[seq |-> RemoteSeq(i), key |-> remotes[i], objs |-> objs(remotes[i]), count |-> 0] : i \in DOMAIN remotes}
       new     == newLocal \union newRemote
       joined  == {[e EXCEPT !.objs = e.objs \union objs(e.key)] : e \in pending[t]}
       seqOf(k) == (CHOOSE e \in new \union joined : e.key = k).seq
       after   == [o \in Objects |-> IF o \in todo THEN [obj[t][o] EXCEPT !.seq = seqOf(Key(obj[t][o]))] ELSE obj[t][o]]
       items   == {[seq |-> e.seq, key |-> e.key] : e \in {f \in joined \union new : Sent(f, new)}}
       X       == [stage |-> "request", answers |-> {}, items |-> items]
<1>0. /\ pending = [u \in Tabs |-> pending[u]] /\ buffer = [u \in Tabs |-> buffer[u]]
      /\ obj = [u \in Tabs |-> obj[u]] /\ ping = [u \in Tabs |-> ping[u]]
      /\ \A e \in pending[t] : e = [seq |-> e.seq, key |-> e.key, objs |-> e.objs, count |-> e.count]
      /\ seqLS \in Nat /\ AnswerInv
  BY DEF WaitInv, ObjectType, AnswerInv, QuestionType
<1>1. /\ obj' = [obj EXCEPT ![t] = after]
      /\ pending' = [pending EXCEPT ![t] = joined \union new]
      /\ buffer' = [buffer EXCEPT ![t] = {}]
      /\ ping' = [ping EXCEPT ![t] = X]
  BY DEF SendPing
<1>2. IsFiniteSet(ours) /\ IsFiniteSet(theirs)
  <2>1. IsFiniteSet(todo)
    <3>1. buffer[t] \subseteq Objects
      BY <1>0, TabKeeps
    <3>. QED
      BY <3>1, GiftsAssumption, FS_Subset DEF Objects
  <2>2. IsFiniteSet(keys)
    <3>. DEFINE f == [o \in todo |-> Key(obj[t][o])]
    <3>1. f \in Surjection(todo, keys)
      BY DEF Surjection
    <3>. HIDE DEF todo, keys, f
    <3>. QED
      BY <2>1, <3>1, FS_Surjection
  <2>. QED
    <3>1. ours \in SUBSET keys /\ theirs \in SUBSET keys
      OBVIOUS
    <3>. HIDE DEF ours, theirs, keys
    <3>. QED
      BY <2>2, <3>1, FS_Subset
<1>3. /\ DOMAIN locals = 1..Len(locals) /\ Len(locals) \in Nat
      /\ \A i \in DOMAIN locals : locals[i] \in ours
      /\ DOMAIN remotes = 1..Len(remotes) /\ Len(remotes) \in Nat
      /\ \A i \in DOMAIN remotes : remotes[i] \in theirs
  <2>. HIDE DEF ours, theirs
  <2>. QED
    BY <1>2, ListedAll
<1>4. \A k \in ours \union theirs : k \in keys
  OBVIOUS
<1>5. (\A k \in ours : Local(k)) /\ (\A k \in theirs : ~Local(k))
  OBVIOUS
<1>6. \A k \in keys : \E o \in objs(k) : TRUE
  OBVIOUS
<1>7. \A k : \A o \in objs(k) : Adds(t, o, k)
  BY DEF Adds
<1>8. last \in Nat
  <2>. DEFINE S == {e.seq : e \in pending[t]}
  <2>1. \A e \in pending[t] : e.seq \in Int
    BY <1>0 DEF AnswerInv, SeqsTaken, Question
  <2>2. PICK b \in Nat : \A e \in pending[t] : e.seq <= b
    BY <1>0 DEF AnswerInv, PendingBounded
  <2>3. S \subseteq Int /\ \A n \in S : n <= b
    BY <2>1, <2>2
  <2>4. Max0(S) \in Nat
    <3>. HIDE DEF S
    <3>. QED
      BY <2>3, Max0IsGreatest
  <2>. QED
    BY <2>4
<1>9. \A i \in items : \E e \in joined \union new : i.seq = e.seq /\ i.key = e.key
  <2>. HIDE DEF joined, new
  <2>. QED
    OBVIOUS
<1>10. X.items = items /\ X.answers = {}
  <2>. HIDE DEF items
  <2>. QED
    OBVIOUS
<1>11. \A o \in Objects : after[o] = obj[t][o] \/ \E n : after[o] = [obj[t][o] EXCEPT !.seq = n]
  <2>. HIDE DEF todo, seqOf
  <2>. QED
    OBVIOUS
<1>. HIDE DEF locals, remotes, last, ours, theirs, keys, objs, items, X, after
<1>12. \A e \in newLocal : NewEntry(t, e)
  <2>. TAKE e \in newLocal
  <2>1. PICK i \in DOMAIN locals : e = [seq |-> last + i, key |-> locals[i], objs |-> objs(locals[i]), count |-> 0]
    OBVIOUS
  <2>2. e.seq = last + i /\ e.key = locals[i] /\ e.objs = objs(e.key) /\ e.count = 0
    BY <2>1
  <2>3. e.seq > 0
    BY <1>3, <1>8, <2>2
  <2>4. e.key \in ours
    BY <1>3, <2>2
  <2>. QED
    BY <1>4, <1>5, <1>6, <1>7, <2>2, <2>3, <2>4 DEF NewEntry
<1>13. \A e \in newRemote : NewEntry(t, e)
  <2>. TAKE e \in newRemote
  <2>1. PICK i \in DOMAIN remotes : e = [seq |-> RemoteSeq(i), key |-> remotes[i], objs |-> objs(remotes[i]), count |-> 0]
    OBVIOUS
  <2>2. e.seq = -(seqLS + i) /\ e.key = remotes[i] /\ e.objs = objs(e.key) /\ e.count = 0
    BY <2>1 DEF RemoteSeq
  <2>3. ~(e.seq > 0)
    <3>1. i \in Nat
      BY <1>3
    <3>. QED
      BY <1>0, <2>2, <3>1
  <2>4. e.key \in theirs
    BY <1>3, <2>2
  <2>. QED
    BY <1>4, <1>5, <1>6, <1>7, <2>2, <2>3, <2>4 DEF NewEntry
<1>14. \A e \in joined : KeptEntry(t, e)
  <2>. TAKE e \in joined
  <2>1. PICK f \in pending[t] : e = [f EXCEPT !.objs = f.objs \union objs(f.key)]
    OBVIOUS
  <2>2. f = [seq |-> f.seq, key |-> f.key, objs |-> f.objs, count |-> f.count]
    BY <1>0
  <2>3. e.seq = f.seq /\ e.key = f.key /\ e.count = f.count /\ e.objs = f.objs \union objs(f.key)
    BY <2>1, <2>2
  <2>. QED
    BY <1>7, <2>3 DEF KeptEntry
<1>. HIDE DEF newLocal, newRemote, joined
<1>15. /\ pending'[t] = joined \union new /\ buffer'[t] = {} /\ ping'[t] = X /\ obj'[t] = after
       /\ \A u \in Tabs \ {t} : /\ obj'[u] = obj[u] /\ buffer'[u] = buffer[u]
                                /\ pending'[u] = pending[u] /\ ping'[u] = ping[u]
  <2>. DEFINE P == joined \union new
              B == {}
  <2>1. pending' = [pending EXCEPT ![t] = P] /\ buffer' = [buffer EXCEPT ![t] = B]
    BY <1>1
  <2>. HIDE DEF P, B
  <2>2. pending'[t] = P /\ \A u \in Tabs \ {t} : pending'[u] = pending[u]
    BY <1>0, <2>1, TabWritten
  <2>3. buffer'[t] = B /\ \A u \in Tabs \ {t} : buffer'[u] = buffer[u]
    BY <1>0, <2>1, TabWritten
  <2>4. ping'[t] = X /\ \A u \in Tabs \ {t} : ping'[u] = ping[u]
    BY <1>0, <1>1, TabWritten
  <2>5. obj'[t] = after /\ \A u \in Tabs \ {t} : obj'[u] = obj[u]
    BY <1>0, <1>1, TabWritten
  <2>. QED
    BY <2>2, <2>3, <2>4, <2>5 DEF P, B
<1>16. \A g \in Gifts : SameGift(obj'[t][g], obj[t][g])
  <2>. TAKE g \in Gifts
  <2>1. obj[t][g] \in Shape /\ g \in Objects
    BY GiftOf
  <2>2. CASE after[g] = obj[t][g]
    BY <1>15, <2>2 DEF SameGift
  <2>3. CASE \E n : after[g] = [obj[t][g] EXCEPT !.seq = n]
    <3>. PICK x : x = obj[t][g]
      OBVIOUS
    <3>1. PICK n : after[g] = [x EXCEPT !.seq = n]
      BY <2>3
    <3>2. x \in Shape
      BY <2>1
    <3>3. SameGift([x EXCEPT !.seq = n], x)
      BY <3>2 DEF SameGift, Shape
    <3>. QED
      BY <1>15, <3>1, <3>3
  <2>. QED
    BY <1>11, <2>1, <2>2, <2>3
<1>. QED
  BY <1>9, <1>10, <1>12, <1>13, <1>14, <1>15, <1>16

LEMMA ObjSet ==
  ASSUME WaitInv, NEW t \in Tabs, NEW o \in Objects, NEW v, SetObj(t, o, v)
  PROVE  /\ obj'[t][o] = v
         /\ \A u \in Tabs, h \in Objects : u # t \/ h # o => obj'[u][h] = obj[u][h]
  BY DEF WaitInv, ObjectType, SetObj

\* The tabs other than t, and the gifts of t other than g, stay as they are.
OthersStay(t, g) ==
  /\ \A h \in Gifts \ {g} : store'[h] = store[h]
  /\ \A u \in Tabs, h \in Gifts : u # t \/ h # g => obj'[u][h] = obj[u][h] /\ (h \in buffer'[u] <=> h \in buffer[u])
  /\ pending' = pending /\ ping' = ping /\ row' = row

LEMMA Enqueued ==
  ASSUME WaitInv, NEW t \in Tabs, NEW o \in Objects, buffer' = buffer \/ Enqueue(t, o)
  PROVE  \A u \in Tabs, h \in Objects : u # t \/ h # o => (h \in buffer'[u] <=> h \in buffer[u])
  BY DEF WaitInv, AnswerInv, QuestionType, Enqueue

LEMMA CreateFields ==
  ASSUME WaitInv, NEW t \in Tabs, NEW g \in Gifts, CreateGift(t, g)
  PROVE  /\ OthersStay(t, g) /\ clock' = clock
         /\ ~store[g].saved /\ ~store'[g].created /\ store'[g].del = 0 /\ ~store'[g].deleted
         /\ obj'[t][g].at = "create" /\ ~obj'[t][g].created /\ obj'[t][g].del = 0 /\ ~obj'[t][g].deleted
<1>. USE DEF client, server
<1>. DEFINE new == NewGift(g)
            x   == [new EXCEPT !.at = "create"]
<1>1. store' = Saved(store, new) /\ SetObj(t, g, x) /\ Enqueue(t, g) /\ ~store[g].saved
  BY DEF CreateGift, NewGift
<1>2. UNCHANGED <<clock, pending, ping, row>>
  BY DEF CreateGift
<1>3. g \in Objects /\ Gifts \subseteq Objects /\ store \in [Gifts -> StoreShape]
  BY DEF Objects, WaitInv, ObjectType
<1>4. /\ new \in Shape /\ new.gid = g /\ new.known
      /\ ~new.created /\ new.del = 0 /\ ~new.deleted
  BY NewGiftShape, NewGiftFields
<1>. HIDE DEF new
<1>5. x.at = "create" /\ ~x.created /\ x.del = 0 /\ ~x.deleted
  BY <1>4 DEF Shape
<1>. HIDE DEF x
<1>6. /\ obj'[t][g] = x
      /\ \A u \in Tabs, h \in Gifts : u # t \/ h # g => obj'[u][h] = obj[u][h]
  BY <1>1, <1>3, ObjSet
<1>7. \A u \in Tabs, h \in Gifts : u # t \/ h # g => (h \in buffer'[u] <=> h \in buffer[u])
  BY <1>1, <1>3, Enqueued
<1>8. ~store'[g].created /\ store'[g].del = 0 /\ ~store'[g].deleted
  BY <1>1, <1>3, <1>4, SavedFields
<1>9. \A h \in Gifts \ {g} : store'[h] = store[h]
  BY <1>1, <1>3, <1>4, SavedFields
<1>. QED
  BY <1>1, <1>2, <1>5, <1>6, <1>7, <1>8, <1>9 DEF OthersStay

LEMMA RefreshFields ==
  ASSUME WaitInv, NEW t \in Tabs, NEW g \in Gifts, RefreshGift(t, g)
  PROVE  /\ OthersStay(t, g) /\ clock' = clock /\ store' = store /\ buffer' = buffer
         /\ obj'[t][g].known = obj[t][g].known /\ obj'[t][g].at = obj[t][g].at
         /\ obj'[t][g].deleted = obj[t][g].deleted
         /\ IF obj[t][g].known THEN obj'[t][g].created = store[g].created /\ obj'[t][g].del = store[g].del
            ELSE obj'[t][g] = obj[t][g]
<1>. USE DEF client, server
<1>. DEFINE x == obj[t][g]
<1>1. SetObj(t, g, Refreshed(x)) /\ x.here /\ UNCHANGED <<store, clock, buffer, pending, ping, row>>
  BY DEF RefreshGift
<1>2. g \in Objects /\ Gifts \subseteq Objects
  BY DEF Objects
<1>3. x \in Shape /\ ObjectType /\ x.gid = g
  BY <1>1, GiftOf
<1>4. /\ obj'[t][g] = Refreshed(x)
      /\ \A u \in Tabs, h \in Gifts : u # t \/ h # g => obj'[u][h] = obj[u][h]
  BY <1>1, <1>2, ObjSet
<1>. HIDE DEF x
<1>5. /\ Refreshed(x).at = x.at
      /\ Refreshed(x).known = x.known /\ Refreshed(x).deleted = x.deleted
      /\ IF x.known THEN Refreshed(x).created = store[x.gid].created /\ Refreshed(x).del = store[x.gid].del
         ELSE Refreshed(x) = x
  BY <1>3, RefreshedShape, RefreshedFields
<1>6. OthersStay(t, g)
  BY <1>1, <1>4 DEF OthersStay
<1>7. /\ obj'[t][g].at = x.at /\ obj'[t][g].known = x.known /\ obj'[t][g].deleted = x.deleted
      /\ IF x.known THEN obj'[t][g].created = store[g].created /\ obj'[t][g].del = store[g].del
         ELSE obj'[t][g] = x
  BY <1>3, <1>4, <1>5
<1>. QED
  BY <1>1, <1>6, <1>7 DEF x

\* The gift is marked, and saved when it is known, or only refreshed.
Marks(t, g) ==
  /\ obj'[t][g].at = "delete" /\ obj'[t][g].created /\ obj'[t][g].del = clock + 1 /\ ~obj'[t][g].deleted
  /\ IF obj[t][g].known THEN store[g].created ELSE obj[t][g].created
  /\ IF obj[t][g].known
     THEN store'[g].saved /\ store'[g].created /\ store'[g].del = clock + 1 /\ ~store'[g].deleted
     ELSE store'[g] = store[g]
  /\ (obj[t][g].at = "delete" /\ buffer' = buffer) \/ obj[t][g].at = "none"
MarksBack(t, g) ==
  /\ buffer' = buffer
  /\ obj'[t][g].at = obj[t][g].at /\ obj'[t][g].del = 0 /\ obj'[t][g].deleted = obj[t][g].deleted
  /\ obj'[t][g].created = (IF obj[t][g].known THEN store[g].created ELSE obj[t][g].created)
  /\ IF obj[t][g].known THEN store'[g].saved /\ store'[g].created = store[g].created /\ store'[g].del = 0
     ELSE store'[g] = store[g]

LEMMA DeleteFields ==
  ASSUME WaitInv, NEW t \in Tabs, NEW g \in Gifts, DeleteGift(t, g)
  PROVE  /\ OthersStay(t, g) /\ clock' = clock + 1
         /\ obj'[t][g].known = obj[t][g].known
         /\ obj[t][g].known => store[g].del = 0
         /\ Marks(t, g) \/ MarksBack(t, g)
<1>. USE DEF client, server
<1>. DEFINE x == obj[t][g]
            o == Refreshed(x)
            m == [o EXCEPT !.del = clock + 1]
            d == [m EXCEPT !.at = "delete"]
<1>1. /\ x.here /\ o.del = 0 /\ clock' = clock + 1 /\ UNCHANGED <<pending, ping, row>>
      /\ \/ CanAdd(m, "delete") /\ SetObj(t, g, d) /\ store' = Saved(store, m) /\ Enqueue(t, g)
         \/ MayAdd(m, "delete") /\ m.at = "delete" /\ SetObj(t, g, m) /\ store' = Saved(store, m) /\ buffer' = buffer
         \/ SetObj(t, g, o) /\ store' = Saved(store, o) /\ buffer' = buffer
  BY DEF DeleteGift
<1>2. g \in Objects /\ Gifts \subseteq Objects /\ store \in [Gifts -> StoreShape] /\ clock \in Nat
  BY DEF Objects, WaitInv, ObjectType
<1>3. x \in Shape /\ ObjectType /\ x.gid = g
  BY <1>1, GiftOf
<1>. HIDE DEF x
<1>4. /\ o \in Shape /\ o.at = x.at /\ o.gid = g /\ o.known = x.known /\ o.deleted = x.deleted
      /\ IF x.known THEN o.created = store[g].created /\ o.del = store[g].del ELSE o = x
  BY <1>3, RefreshedShape, RefreshedFields
<1>. HIDE DEF o
<1>5. /\ m \in Shape /\ m.at = x.at /\ m.gid = g /\ m.known = x.known /\ m.deleted = x.deleted
      /\ m.created = o.created /\ m.del = clock + 1
  BY <1>2, <1>4 DEF Shape
<1>. HIDE DEF m
<1>6. /\ d.at = "delete" /\ d.known = m.known /\ d.created = m.created /\ d.del = m.del /\ d.deleted = m.deleted
  BY <1>5 DEF Shape, Actions
<1>. HIDE DEF d
<1>7. \A v : SetObj(t, g, v) =>
        obj'[t][g] = v /\ \A u \in Tabs, h \in Gifts : u # t \/ h # g => obj'[u][h] = obj[u][h]
  BY <1>2, ObjSet
<1>8. \A u \in Tabs, h \in Gifts : u # t \/ h # g => (h \in buffer'[u] <=> h \in buffer[u])
  <2>1. buffer' = buffer \/ Enqueue(t, g)
    BY <1>1
  <2>. QED
    BY <1>2, <2>1, Enqueued
<1>9. \A h \in Gifts \ {g} : Saved(store, m)[h] = store[h] /\ Saved(store, o)[h] = store[h]
  BY <1>2, <1>4, <1>5, SavedFields
<1>10. OthersStay(t, g)
  BY <1>1, <1>7, <1>8, <1>9 DEF OthersStay
<1>11. x.known => store[g].del = 0
  BY <1>1, <1>4
<1>12. /\ x.known => /\ Saved(store, m)[g].saved /\ Saved(store, m)[g].created = m.created
                     /\ Saved(store, m)[g].del = m.del /\ Saved(store, m)[g].deleted = m.deleted
       /\ ~x.known => Saved(store, m)[g] = store[g]
  BY <1>2, <1>5, SavedFields
<1>13. /\ x.known => /\ Saved(store, o)[g].saved /\ Saved(store, o)[g].created = o.created
                     /\ Saved(store, o)[g].del = o.del
       /\ ~x.known => Saved(store, o)[g] = store[g]
  BY <1>2, <1>4, SavedFields
<1>14. MayAdd(m, "delete") => m.created /\ ~m.deleted
  BY DEF MayAdd
<1>15. CASE CanAdd(m, "delete") /\ SetObj(t, g, d) /\ store' = Saved(store, m)
  <2>1. m.created /\ ~m.deleted /\ x.at = "none"
    BY <1>5, <1>14, <1>15 DEF CanAdd
  <2>2. obj'[t][g] = d
    BY <1>7, <1>15
  <2>3. obj'[t][g].known = x.known /\ obj'[t][g].at = "delete" /\ obj'[t][g].created
        /\ obj'[t][g].del = clock + 1 /\ ~obj'[t][g].deleted
    BY <1>5, <1>6, <2>1, <2>2
  <2>4. IF x.known THEN store'[g].saved /\ store'[g].created /\ store'[g].del = clock + 1 /\ ~store'[g].deleted
        ELSE store'[g] = store[g]
    BY <1>5, <1>12, <1>15, <2>1
  <2>5. IF x.known THEN store[g].created ELSE x.created
    BY <1>4, <1>5, <2>1
  <2>. QED
    BY <1>1, <1>10, <1>11, <2>1, <2>3, <2>4, <2>5 DEF Marks, x
<1>16. CASE MayAdd(m, "delete") /\ m.at = "delete" /\ SetObj(t, g, m) /\ store' = Saved(store, m) /\ buffer' = buffer
  <2>1. m.created /\ ~m.deleted /\ x.at = "delete"
    BY <1>5, <1>14, <1>16
  <2>2. obj'[t][g] = m
    BY <1>7, <1>16
  <2>3. obj'[t][g].known = x.known /\ obj'[t][g].at = "delete" /\ obj'[t][g].created
        /\ obj'[t][g].del = clock + 1 /\ ~obj'[t][g].deleted
    BY <1>5, <2>1, <2>2
  <2>4. IF x.known THEN store'[g].saved /\ store'[g].created /\ store'[g].del = clock + 1 /\ ~store'[g].deleted
        ELSE store'[g] = store[g]
    BY <1>5, <1>12, <1>16, <2>1
  <2>5. IF x.known THEN store[g].created ELSE x.created
    BY <1>4, <1>5, <2>1
  <2>. QED
    BY <1>1, <1>10, <1>11, <1>16, <2>1, <2>3, <2>4, <2>5 DEF Marks, x
<1>17. CASE SetObj(t, g, o) /\ store' = Saved(store, o) /\ buffer' = buffer
  <2>1. obj'[t][g] = o
    BY <1>7, <1>17
  <2>2. /\ obj'[t][g].known = x.known /\ obj'[t][g].at = x.at /\ obj'[t][g].del = 0
        /\ obj'[t][g].deleted = x.deleted
        /\ obj'[t][g].created = (IF x.known THEN store[g].created ELSE x.created)
    BY <1>1, <1>4, <2>1
  <2>3. IF x.known THEN store'[g].saved /\ store'[g].created = store[g].created /\ store'[g].del = 0
        ELSE store'[g] = store[g]
    BY <1>1, <1>4, <1>13, <1>17
  <2>. QED
    BY <1>1, <1>10, <1>11, <1>17, <2>2, <2>3 DEF MarksBack, x
<1>. QED
  BY <1>1, <1>15, <1>16, <1>17

\* Copies come and go without their gifts.
LEMMA CopyFields ==
  ASSUME WaitInv, NEW t \in Tabs, NEW c \in Clones,
         (\E g \in Gifts : ReceiveClone(t, c, g)) \/ UseClone(t, c) \/ GiveUpClone(t, c)
  PROVE  /\ store' = store /\ clock' = clock /\ ping' = ping /\ row' = row
         /\ \A u \in Tabs, h \in Gifts : obj'[u][h] = obj[u][h] /\ (h \in buffer'[u] <=> h \in buffer[u])
         /\ \A u \in Tabs : Left(u)
<1>. USE DEF client, server
<1>1. c \in Objects /\ Gifts \subseteq Objects /\ c \notin Gifts
  BY GiftsAssumption DEF Objects
<1>2. \E v : SetObj(t, c, v)
  BY DEF ReceiveClone, UseClone, GiveUpClone
<1>3. \A u \in Tabs, h \in Gifts : obj'[u][h] = obj[u][h]
  BY <1>1, <1>2, ObjSet
<1>4. UNCHANGED <<store, clock, ping, row>> /\ (buffer' = buffer \/ Enqueue(t, c))
  BY DEF ReceiveClone, UseClone, GiveUpClone
<1>5. \A u \in Tabs, h \in Gifts : h \in buffer'[u] <=> h \in buffer[u]
  BY <1>1, <1>4, Enqueued
<1>6. \A u \in Tabs : Left(u)
  <2>1. CASE pending' = pending
    BY <2>1 DEF Left
  <2>2. CASE GiveUpClone(t, c)
    <3>. DEFINE P == {[e EXCEPT !.objs = e.objs \ {c}] : e \in {f \in pending[t] : f.objs # {c}}}
    <3>1. pending = [u \in Tabs |-> pending[u]] /\ pending' = [pending EXCEPT ![t] = P]
      BY <2>2 DEF GiveUpClone, WaitInv, AnswerInv, QuestionType
    <3>2. \A e \in P : \E f \in pending[t] : e = [f EXCEPT !.objs = f.objs \ {c}]
      OBVIOUS
    <3>. HIDE DEF P
    <3>3. pending'[t] = P /\ \A u \in Tabs \ {t} : pending'[u] = pending[u]
      BY <3>1, TabWritten
    <3>4. \A e \in P : \E f \in pending[t] : e.seq = f.seq /\ e.key = f.key /\ e.objs \subseteq f.objs /\ e.count = f.count
      <4>. TAKE e \in P
      <4>1. PICK f \in pending[t] : e = [f EXCEPT !.objs = f.objs \ {c}]
        BY <3>2
      <4>2. f = [seq |-> f.seq, key |-> f.key, objs |-> f.objs, count |-> f.count]
        BY TabKeeps DEF WaitInv
      <4>3. e.seq = f.seq /\ e.key = f.key /\ e.objs = f.objs \ {c} /\ e.count = f.count
        BY <4>1, <4>2
      <4>. QED
        BY <4>3
    <3>. QED
      BY <3>3, <3>4 DEF Left
  <2>. QED
    BY <2>1, <2>2 DEF ReceiveClone, UseClone
<1>. QED
  BY <1>3, <1>4, <1>5, <1>6

LEMMA ReloadFields ==
  ASSUME WaitInv, NEW t \in Tabs, Reload(t)
  PROVE  /\ clock' = clock /\ row' = row
         /\ pending'[t] = {} /\ ping'[t].answers = {}
         /\ \A g \in Gifts :
              /\ store'[g].saved = store[g].saved /\ store'[g].created = store[g].created
              /\ store'[g].del = store[g].del /\ ~store'[g].deleted
              /\ \/ /\ obj'[t][g].created = store[g].created /\ obj'[t][g].del = store[g].del
                    /\ ~obj'[t][g].deleted
                    /\ obj'[t][g].at = "delete" => store[g].created /\ g \notin There /\ store[g].del # 0
                 \/ /\ ~obj'[t][g].created /\ obj'[t][g].del = 0 /\ obj'[t][g].at = "none"
         /\ \A u \in Tabs \ {t} : /\ obj'[u] = obj[u] /\ buffer'[u] = buffer[u]
                                  /\ pending'[u] = pending[u] /\ ping'[u] = ping[u]
<1>. USE DEF client, server
<1>. DEFINE again(g) == IF ~store[g].created THEN "create"
                        ELSE IF g \notin There /\ store[g].del # 0 THEN "delete" ELSE "none"
            saved == {g \in Gifts : store[g].saved}
            fresh(o) == [Loaded(o, TRUE) EXCEPT !.deleted = FALSE, !.at = again(o)]
            objs == [o \in Objects |-> IF o \in saved THEN fresh(o) ELSE NoObj]
            B == {g \in saved : again(g) # "none"}
<1>1. /\ obj' = [obj EXCEPT ![t] = objs]
      /\ store' = [g \in Gifts |-> [store[g] EXCEPT !.deleted = FALSE]]
      /\ pending' = [pending EXCEPT ![t] = {}]
      /\ buffer' = [buffer EXCEPT ![t] = B]
      /\ ping[t] = NoPing /\ UNCHANGED <<clock, ping, row>>
  BY DEF Reload
<1>2. /\ pending = [u \in Tabs |-> pending[u]] /\ buffer = [u \in Tabs |-> buffer[u]]
      /\ obj = [u \in Tabs |-> obj[u]] /\ store \in [Gifts -> StoreShape] /\ Gifts \subseteq Objects
  BY DEF WaitInv, ObjectType, AnswerInv, QuestionType, Objects
<1>3. ASSUME NEW g \in Gifts
      PROVE  /\ store'[g].saved = store[g].saved /\ store'[g].created = store[g].created
             /\ store'[g].del = store[g].del /\ ~store'[g].deleted
  <2>1. store'[g] = [store[g] EXCEPT !.deleted = FALSE] /\ store[g] \in StoreShape
    BY <1>1, <1>2
  <2>. QED
    BY <2>1 DEF StoreShape
<1>4. ASSUME NEW g \in Gifts
      PROVE  \/ /\ objs[g].created = store[g].created /\ objs[g].del = store[g].del
                /\ ~objs[g].deleted
                /\ objs[g].at = "delete" => store[g].created /\ g \notin There /\ store[g].del # 0
             \/ /\ ~objs[g].created /\ objs[g].del = 0 /\ objs[g].at = "none"
  <2>1. CASE g \in saved
    <3>. DEFINE l == Loaded(g, TRUE)
                y == [l EXCEPT !.deleted = FALSE]
    <3>1. objs[g] = [y EXCEPT !.at = again(g)]
      BY <1>2, <2>1
    <3>2. l \in Shape /\ l.created = store[g].created /\ l.del = store[g].del
      BY <1>2, LoadedShape, LoadedFields
    <3>. HIDE DEF l
    <3>3. y \in Shape /\ y.created = store[g].created /\ y.del = store[g].del /\ ~y.deleted
      BY <3>2 DEF Shape
    <3>. HIDE DEF y
    <3>4. again(g) \in {"create", "delete", "none"}
          /\ (again(g) = "delete" => store[g].created /\ g \notin There /\ store[g].del # 0)
      OBVIOUS
    <3>. HIDE DEF again, objs
    <3>. QED
      BY <3>1, <3>3, <3>4 DEF Shape, Actions
  <2>2. CASE g \notin saved
    <3>1. objs[g] = NoObj
      BY <1>2, <2>2
    <3>. HIDE DEF objs
    <3>. QED
      BY <3>1, NoObjFields
  <2>. QED
    BY <2>1, <2>2
<1>. HIDE DEF objs, B
<1>5. obj'[t] = objs /\ \A u \in Tabs \ {t} : obj'[u] = obj[u]
  BY <1>1, <1>2, TabWritten
<1>6. \A u \in Tabs \ {t} : buffer'[u] = buffer[u]
  BY <1>1, <1>2, TabWritten
<1>7. pending'[t] = {} /\ \A u \in Tabs \ {t} : pending'[u] = pending[u]
  BY <1>1, <1>2, TabWritten
<1>8. ping'[t].answers = {}
  BY <1>1 DEF NoPing
<1>. QED
  BY <1>1, <1>3, <1>4, <1>5, <1>6, <1>7, <1>8

LEMMA SyncFields ==
  ASSUME WaitInv, NEW t \in Tabs, Sync(t)
  PROVE  /\ UNCHANGED <<store, clock, row, pending, buffer, ping>>
         /\ \A u \in Tabs \ {t} : obj'[u] = obj[u]
         /\ \A g \in Gifts :
              /\ obj'[t][g].known = obj[t][g].known
              /\ \/ obj'[t][g] = obj[t][g]
                 \/ /\ obj'[t][g].created = store[g].created /\ obj'[t][g].del = store[g].del
                    /\ \/ obj'[t][g].at = obj[t][g].at /\ obj'[t][g].deleted = obj[t][g].deleted
                       \/ obj'[t][g].at = "none" /\ ~obj[t][g].here
<1>. USE DEF client, server
<1>. DEFINE new(o) == IF o \in Clones \/ ~store[o].saved THEN obj[t][o]
                      ELSE IF obj[t][o].here
                           THEN [obj[t][o] EXCEPT !.created = store[o].created, !.del = store[o].del]
                           ELSE Loaded(o, obj[t][o].known)
            objs == [o \in Objects |-> new(o)]
<1>1. obj' = [obj EXCEPT ![t] = objs] /\ UNCHANGED <<store, clock, row, pending, buffer, ping>>
  BY DEF Sync
<1>2. obj = [u \in Tabs |-> obj[u]] /\ store \in [Gifts -> StoreShape]
  BY DEF WaitInv, ObjectType
<1>3. ASSUME NEW g \in Gifts
      PROVE  /\ objs[g].known = obj[t][g].known
             /\ \/ objs[g] = obj[t][g]
                \/ /\ objs[g].created = store[g].created /\ objs[g].del = store[g].del
                   /\ \/ objs[g].at = obj[t][g].at /\ objs[g].deleted = obj[t][g].deleted
                      \/ objs[g].at = "none" /\ ~obj[t][g].here
  <2>1. g \in Objects /\ g \notin Clones /\ obj[t][g] \in Shape /\ store[g] \in StoreShape
    BY GiftOf
  <2>2. objs[g] = IF ~store[g].saved THEN obj[t][g]
                  ELSE IF obj[t][g].here THEN [obj[t][g] EXCEPT !.created = store[g].created, !.del = store[g].del]
                       ELSE Loaded(g, obj[t][g].known)
    BY <2>1
  <2>. PICK x : x = obj[t][g]
    OBVIOUS
  <2>. PICK y : y = objs[g]
    OBVIOUS
  <2>. HIDE DEF objs, new
  <2>3. x \in Shape
    BY <2>1
  <2>4. CASE ~store[g].saved
    BY <2>2, <2>4
  <2>5. CASE store[g].saved /\ x.here
    <3>. DEFINE z == [x EXCEPT !.created = store[g].created]
    <3>1. y = [z EXCEPT !.del = store[g].del]
      BY <2>2, <2>3, <2>5 DEF Shape
    <3>2. z \in Shape /\ z.known = x.known /\ z.created = store[g].created /\ z.at = x.at /\ z.deleted = x.deleted
      BY <2>1, <2>3 DEF Shape, StoreShape
    <3>. HIDE DEF z
    <3>3. y.known = x.known /\ y.created = store[g].created /\ y.del = store[g].del /\ y.at = x.at /\ y.deleted = x.deleted
      BY <2>1, <3>1, <3>2 DEF Shape, StoreShape
    <3>. QED
      BY <3>3
  <2>6. CASE store[g].saved /\ ~x.here
    <3>1. y = Loaded(g, x.known) /\ x.known \in BOOLEAN
      BY <2>2, <2>3, <2>6 DEF Shape
    <3>2. y.known = x.known /\ y.created = store[g].created /\ y.del = store[g].del /\ y.at = "none"
      BY <1>2, <3>1, LoadedShape, LoadedFields
    <3>. QED
      BY <2>6, <3>2
  <2>. QED
    BY <2>4, <2>5, <2>6
<1>. HIDE DEF objs
<1>4. obj'[t] = objs /\ \A u \in Tabs \ {t} : obj'[u] = obj[u]
  BY <1>1, <1>2, TabWritten
<1>. QED
  BY <1>1, <1>3, <1>4

----------------------------------------------------------------------------
\* Creations and timestamps.

LEMMA GiftsStay ==
  ASSUME GiftsTrue, RowsGrow, clock \in Nat, clock' \in Nat, clock <= clock',
         \A g \in Gifts : row'[g].del = row[g].del \/ row'[g].del \in 0..clock',
         \A g \in Gifts : store'[g] = store[g] \/ SavedOk(store'[g], row'[g], clock'),
         \A t \in Tabs, g \in Gifts : obj'[t][g] = obj[t][g] \/ GiftOk(obj'[t][g], row'[g], clock')
  PROVE  GiftsTrue'
<1>. SUFFICES ASSUME NEW g \in Gifts
              PROVE  /\ row'[g].del \in 0..clock' /\ SavedOk(store'[g], row'[g], clock')
                     /\ \A t \in Tabs : GiftOk(obj'[t][g], row'[g], clock')
  BY DEF GiftsTrue, SavedOk, GiftOk
<1>1. /\ row[g].del \in 0..clock /\ SavedOk(store[g], row[g], clock)
      /\ \A t \in Tabs : GiftOk(obj[t][g], row[g], clock)
  BY DEF GiftsTrue
<1>2. row[g].created => row'[g].created
  BY DEF RowsGrow
<1>3. \A d : d \in 0..clock => d \in 0..clock'
  OBVIOUS
<1>4. row'[g].del \in 0..clock'
  BY <1>1, <1>3
<1>5. SavedOk(store'[g], row'[g], clock')
  <2>1. CASE store'[g] = store[g]
    BY <1>1, <1>2, <1>3, <2>1 DEF SavedOk
  <2>. QED
    BY <2>1
<1>6. ASSUME NEW t \in Tabs PROVE GiftOk(obj'[t][g], row'[g], clock')
  <2>1. CASE obj'[t][g] = obj[t][g]
    BY <1>1, <1>2, <1>3, <2>1 DEF GiftOk
  <2>. QED
    BY <2>1
<1>. QED
  BY <1>4, <1>5, <1>6

LEMMA UserGifts ==
  ASSUME BaseInv, NEW t \in Tabs, UserNext(t)
  PROVE  GiftsTrue' /\ RowsGrow /\ clock' \in Nat /\ clock <= clock'
<1>. USE DEF client, server
<1>0. WaitInv /\ GiftsTrue /\ clock \in Nat
  BY DEF BaseInv, CloneInv, WaitInv, ObjectType
<1>1. \A g \in Gifts : /\ SavedOk(store[g], row[g], clock) /\ GiftOk(obj[t][g], row[g], clock)
  BY <1>0 DEF GiftsTrue
<1>2. ASSUME row' = row, clock' = clock \/ clock' = clock + 1,
             \A g \in Gifts : store'[g] = store[g] \/ SavedOk(store'[g], row'[g], clock'),
             \A u \in Tabs, g \in Gifts : obj'[u][g] = obj[u][g] \/ GiftOk(obj'[u][g], row'[g], clock')
      PROVE  GiftsTrue' /\ RowsGrow /\ clock' \in Nat /\ clock <= clock'
  <2>1. RowsGrow /\ clock' \in Nat /\ clock <= clock'
    BY <1>0, <1>2 DEF RowsGrow
  <2>. QED
    BY <1>0, <1>2, <2>1, GiftsStay
<1>3. ASSUME NEW g \in Gifts, OthersStay(t, g), clock' = clock \/ clock' = clock + 1,
             store'[g] = store[g] \/ SavedOk(store'[g], row[g], clock'), GiftOk(obj'[t][g], row[g], clock')
      PROVE  GiftsTrue' /\ RowsGrow /\ clock' \in Nat /\ clock <= clock'
  <2>1. row' = row
    BY <1>3 DEF OthersStay
  <2>2. \A h \in Gifts : store'[h] = store[h] \/ SavedOk(store'[h], row'[h], clock')
    BY <1>3, <2>1 DEF OthersStay
  <2>3. \A u \in Tabs, h \in Gifts : obj'[u][h] = obj[u][h] \/ GiftOk(obj'[u][h], row'[h], clock')
    BY <1>3, <2>1 DEF OthersStay
  <2>. QED
    BY <1>2, <1>3, <2>1, <2>2, <2>3
<1>4. ASSUME NEW g \in Gifts, CreateGift(t, g)
      PROVE  GiftsTrue' /\ RowsGrow /\ clock' \in Nat /\ clock <= clock'
  <2>1. /\ OthersStay(t, g) /\ clock' = clock
        /\ ~store'[g].created /\ store'[g].del = 0
        /\ obj'[t][g].at = "create" /\ ~obj'[t][g].created /\ obj'[t][g].del = 0 /\ ~obj'[t][g].deleted
    BY <1>0, <1>4, CreateFields
  <2>2. SavedOk(store'[g], row[g], clock')
    BY <1>0, <2>1 DEF SavedOk
  <2>3. GiftOk(obj'[t][g], row[g], clock')
    BY <1>0, <2>1 DEF GiftOk
  <2>. QED
    BY <1>3, <2>1, <2>2, <2>3
<1>5. ASSUME NEW g \in Gifts, RefreshGift(t, g)
      PROVE  GiftsTrue' /\ RowsGrow /\ clock' \in Nat /\ clock <= clock'
  <2>1. /\ OthersStay(t, g) /\ clock' = clock /\ store' = store
        /\ obj'[t][g].at = obj[t][g].at /\ obj'[t][g].deleted = obj[t][g].deleted
        /\ IF obj[t][g].known THEN obj'[t][g].created = store[g].created /\ obj'[t][g].del = store[g].del
           ELSE obj'[t][g] = obj[t][g]
    BY <1>0, <1>5, RefreshFields
  <2>2. GiftOk(obj'[t][g], row[g], clock')
    BY <1>1, <2>1 DEF SavedOk, GiftOk
  <2>. QED
    BY <1>3, <2>1, <2>2
<1>6. ASSUME NEW g \in Gifts, DeleteGift(t, g)
      PROVE  GiftsTrue' /\ RowsGrow /\ clock' \in Nat /\ clock <= clock'
  <2>1. OthersStay(t, g) /\ clock' = clock + 1 /\ (Marks(t, g) \/ MarksBack(t, g))
    BY <1>0, <1>6, DeleteFields
  <2>2. (store'[g] = store[g] \/ SavedOk(store'[g], row[g], clock')) /\ GiftOk(obj'[t][g], row[g], clock')
    <3>1. clock' \in 0..clock' /\ 0 \in 0..clock'
      BY <1>0, <2>1
    <3>2. CASE Marks(t, g)
      <4>1. row[g].created
        BY <1>1, <3>2 DEF Marks, SavedOk, GiftOk
      <4>2. obj'[t][g].at = "delete" /\ obj'[t][g].del = clock'
        BY <2>1, <3>2 DEF Marks
      <4>3. store'[g] = store[g] \/ (store'[g].saved /\ store'[g].del = clock')
        BY <2>1, <3>2 DEF Marks
      <4>4. GiftOk(obj'[t][g], row[g], clock')
        BY <3>1, <4>1, <4>2 DEF GiftOk
      <4>. QED
        BY <3>1, <4>1, <4>3, <4>4 DEF SavedOk
    <3>3. CASE MarksBack(t, g)
      <4>1. GiftOk(obj'[t][g], row[g], clock')
        BY <1>1, <3>1, <3>3 DEF MarksBack, SavedOk, GiftOk
      <4>2. store'[g] = store[g] \/ SavedOk(store'[g], row[g], clock')
        BY <1>1, <3>1, <3>3 DEF MarksBack, SavedOk
      <4>. QED
        BY <4>1, <4>2
    <3>. QED
      BY <2>1, <3>2, <3>3
  <2>. QED
    BY <1>3, <2>1, <2>2
<1>7. ASSUME NEW c \in Clones, (\E g \in Gifts : ReceiveClone(t, c, g)) \/ UseClone(t, c) \/ GiveUpClone(t, c)
      PROVE  GiftsTrue' /\ RowsGrow /\ clock' \in Nat /\ clock <= clock'
  <2>1. /\ store' = store /\ clock' = clock /\ row' = row
        /\ \A u \in Tabs, h \in Gifts : obj'[u][h] = obj[u][h]
    BY <1>0, <1>7, CopyFields
  <2>. QED
    BY <1>2, <2>1
<1>8. ASSUME Reload(t)
      PROVE  GiftsTrue' /\ RowsGrow /\ clock' \in Nat /\ clock <= clock'
  <2>1. /\ clock' = clock /\ row' = row
        /\ \A g \in Gifts :
             /\ store'[g].saved = store[g].saved /\ store'[g].created = store[g].created
             /\ store'[g].del = store[g].del
             /\ \/ /\ obj'[t][g].created = store[g].created /\ obj'[t][g].del = store[g].del
                   /\ ~obj'[t][g].deleted
                   /\ obj'[t][g].at = "delete" => store[g].created
                \/ /\ ~obj'[t][g].created /\ obj'[t][g].del = 0 /\ obj'[t][g].at = "none"
        /\ \A u \in Tabs \ {t} : obj'[u] = obj[u]
    BY <1>0, <1>8, ReloadFields
  <2>2. \A g \in Gifts : SavedOk(store'[g], row'[g], clock')
    BY <1>1, <2>1 DEF SavedOk
  <2>3. \A g \in Gifts : GiftOk(obj'[t][g], row'[g], clock')
    <3>. TAKE g \in Gifts
    <3>1. 0 \in 0..clock
      BY <1>0
    <3>. QED
      BY <1>1, <2>1, <3>1 DEF SavedOk, GiftOk
  <2>. QED
    BY <1>2, <2>1, <2>2, <2>3
<1>9. ASSUME Sync(t)
      PROVE  GiftsTrue' /\ RowsGrow /\ clock' \in Nat /\ clock <= clock'
  <2>1. /\ UNCHANGED <<store, clock, row>>
        /\ \A u \in Tabs \ {t} : obj'[u] = obj[u]
        /\ \A g \in Gifts :
             \/ obj'[t][g] = obj[t][g]
             \/ /\ obj'[t][g].created = store[g].created /\ obj'[t][g].del = store[g].del
                /\ \/ obj'[t][g].at = obj[t][g].at /\ obj'[t][g].deleted = obj[t][g].deleted
                   \/ obj'[t][g].at = "none"
    BY <1>0, <1>9, SyncFields
  <2>2. \A g \in Gifts : obj'[t][g] = obj[t][g] \/ GiftOk(obj'[t][g], row'[g], clock')
    <3>. TAKE g \in Gifts
    <3>. QED
      BY <1>1, <2>1 DEF SavedOk, GiftOk
  <2>. QED
    BY <1>2, <2>1, <2>2
<1>. QED
  BY <1>4, <1>5, <1>6, <1>7, <1>8, <1>9 DEF UserNext

\* What an answer does to a gift: the outcomes by their fields.
LooksAgain(t, g) ==
  IF obj[t][g].known THEN obj'[t][g].created = store[g].created /\ obj'[t][g].del = store[g].del
  ELSE obj'[t][g].created = obj[t][g].created /\ obj'[t][g].del = obj[t][g].del
Writes(t, g) ==
  IF obj[t][g].known
  THEN /\ store'[g].saved /\ store'[g].created = obj'[t][g].created
       /\ store'[g].del = obj'[t][g].del /\ store'[g].deleted = obj'[t][g].deleted
  ELSE store'[g] = store[g]
Fitting(t, g, f, action) == obj[t][g].at = action /\ f.key.action = action /\ f.key.del = obj[t][g].del

Skips(t, g) == store'[g] = store[g] /\ obj'[t][g] = obj[t][g] /\ g \notin buffer'[t]
AsksAgain(t, g) ==
  /\ store'[g] = store[g] /\ obj'[t][g].at \in {"none", obj[t][g].at}
  /\ obj'[t][g].created = obj[t][g].created /\ obj'[t][g].del = obj[t][g].del
  /\ obj'[t][g].deleted = obj[t][g].deleted
Drops(t, g) ==
  /\ store'[g] = store[g] /\ obj'[t][g].at = "none"
  /\ ~obj'[t][g].created /\ obj'[t][g].del = 0 /\ ~obj'[t][g].deleted
IsElsewhere(t, g) ==
  /\ store'[g] = store[g] /\ g \notin buffer'[t] /\ LooksAgain(t, g)
  /\ obj'[t][g].at = "create" /\ obj[t][g].at = "create" /\ obj'[t][g].deleted = obj[t][g].deleted
Creates(t, g, f, ok) ==
  /\ Fitting(t, g, f, "create") /\ ok /\ Writes(t, g) /\ g \notin buffer'[t]
  /\ obj'[t][g].at = "none" /\ obj'[t][g].created /\ obj'[t][g].deleted = obj[t][g].deleted
  /\ obj'[t][g].del = (IF obj[t][g].known THEN store[g].del ELSE obj[t][g].del)
Deletes(t, g, f, ok) ==
  /\ Fitting(t, g, f, "delete") /\ ok /\ Writes(t, g) /\ g \notin buffer'[t]
  /\ obj'[t][g].at = "delete" /\ obj'[t][g].deleted /\ LooksAgain(t, g)
Undeletes(t, g, f, ok) ==
  /\ Fitting(t, g, f, "delete") /\ ~ok /\ Writes(t, g) /\ g \notin buffer'[t]
  /\ obj'[t][g].at = "delete" /\ obj'[t][g].created = obj[t][g].created
  /\ obj'[t][g].del = 0 /\ ~obj'[t][g].deleted

LEMMA AnsweredFields ==
  ASSUME WaitInv, NEW t \in Tabs, NEW g \in Gifts, NEW f, NEW e, NEW ok \in BOOLEAN, Answered(t, g, f, e, ok)
  PROVE  /\ obj'[t][g].known = obj[t][g].known
         /\ \/ Skips(t, g) \/ AsksAgain(t, g) \/ Drops(t, g) \/ IsElsewhere(t, g)
            \/ Creates(t, g, f, ok) \/ Deletes(t, g, f, ok) \/ Undeletes(t, g, f, ok)
<1>. DEFINE x == obj[t][g]
            y == obj'[t][g]
<1>1. /\ f \in pending[t] /\ g \in f.objs /\ e.key = f.key
      /\ y = After(x, e, ok)
      /\ store'[g] = IF Outcome(x, e, ok) \in {"created", "deleted", "undeleted"} /\ y.known
                     THEN Saved(store, y)[g] ELSE store[g]
      /\ g \in buffer'[t] => Outcome(x, e, ok) = "again"
  BY DEF Answered
<1>2. /\ x \in Shape /\ ObjectType /\ x.here /\ x.gid = g /\ x.at \in {"create", "delete"} /\ x.verified = "none"
      /\ e.key.action \in Actions
  <2>1. Waiting(t, g)
    BY <1>1 DEF Waiting
  <2>. QED
    BY <1>1, <2>1, GiftOf
<1>3. y \in Shape
  BY <1>1, <1>2, AfterShape
<1>4. store \in [Gifts -> StoreShape]
  BY DEF WaitInv, ObjectType
<1>. HIDE DEF x, y
<1>5. /\ y.known = x.known
      /\ \/ y = x /\ Outcome(x, e, ok) = "skip"
         \/ /\ Outcome(x, e, ok) = "again"
            /\ y.created = x.created /\ y.del = x.del /\ y.deleted = x.deleted /\ y.at \in {"none", x.at}
         \/ /\ Outcome(x, e, ok) = "refused" /\ x.at = "create"
            /\ ~y.created /\ y.del = 0 /\ ~y.deleted /\ y.at = "none"
         \/ Outcome(x, e, ok) = "elsewhere" /\ x.at = "create" /\ y = Refreshed(x)
         \/ /\ Outcome(x, e, ok) = "created" /\ x.at = "create" /\ Key(x) = e.key /\ ok
            /\ y.gid = x.gid /\ y.at = "none"
            /\ y.created /\ y.del = Refreshed(x).del /\ y.deleted = x.deleted
         \/ /\ Outcome(x, e, ok) = "deleted" /\ x.at = "delete" /\ Key(x) = e.key /\ ok
            /\ y.gid = x.gid /\ y.at = "delete"
            /\ y.created = Refreshed(x).created /\ y.del = Refreshed(x).del /\ y.deleted
         \/ /\ Outcome(x, e, ok) = "undeleted" /\ x.at = "delete" /\ Key(x) = e.key /\ ~ok /\ ~x.deleted
            /\ y.gid = x.gid /\ y.at = "delete"
            /\ y.created = x.created /\ y.del = 0 /\ ~y.deleted
  BY <1>1, <1>2, AfterFields
<1>6. /\ Refreshed(x).at = x.at /\ Refreshed(x).deleted = x.deleted
      /\ IF x.known THEN Refreshed(x).created = store[g].created /\ Refreshed(x).del = store[g].del
         ELSE Refreshed(x) = x
  BY <1>2, RefreshedShape, RefreshedFields
<1>7. Key(x) = e.key => f.key.action = x.at /\ f.key.del = x.del
  BY <1>1 DEF Key
<1>8. /\ y.known /\ y.gid = g =>
           /\ Saved(store, y)[g].saved /\ Saved(store, y)[g].created = y.created
           /\ Saved(store, y)[g].del = y.del /\ Saved(store, y)[g].deleted = y.deleted
  BY <1>3, <1>4, SavedFields
<1>. DEFINE out == Outcome(x, e, ok)
<1>9. out \notin {"created", "deleted", "undeleted"} => store'[g] = store[g]
  BY <1>1
<1>10. out \in {"created", "deleted", "undeleted"} /\ y.gid = x.gid => Writes(t, g)
  <2>1. CASE ~x.known
    BY <1>1, <1>5, <2>1 DEF Writes, x
  <2>2. CASE x.known /\ out \in {"created", "deleted", "undeleted"} /\ y.gid = x.gid
    <3>1. store'[g] = Saved(store, y)[g] /\ y.known /\ y.gid = g
      BY <1>1, <1>2, <1>5, <2>2
    <3>2. /\ store'[g].saved /\ store'[g].created = y.created
          /\ store'[g].del = y.del /\ store'[g].deleted = y.deleted
      BY <1>8, <3>1
    <3>. QED
      BY <2>2, <3>2 DEF Writes, x, y
  <2>. QED
    BY <2>1, <2>2
<1>11. out # "again" => g \notin buffer'[t]
  BY <1>1
<1>12. CASE y = x /\ out = "skip"
  <2>1. Skips(t, g)
    BY <1>9, <1>11, <1>12 DEF Skips, x, y
  <2>. QED
    BY <1>5, <2>1 DEF x, y
<1>13. CASE /\ out = "again"
            /\ y.created = x.created /\ y.del = x.del /\ y.deleted = x.deleted /\ y.at \in {"none", x.at}
  <2>1. AsksAgain(t, g)
    BY <1>9, <1>13 DEF AsksAgain, x, y
  <2>. QED
    BY <1>5, <2>1 DEF x, y
<1>14. CASE out = "refused" /\ ~y.created /\ y.del = 0 /\ ~y.deleted /\ y.at = "none"
  <2>1. Drops(t, g)
    BY <1>9, <1>14 DEF Drops, y
  <2>. QED
    BY <1>5, <2>1 DEF x, y
<1>15. CASE out = "elsewhere" /\ x.at = "create" /\ y = Refreshed(x)
  <2>1. y.at = "create" /\ y.deleted = x.deleted
    BY <1>6, <1>15
  <2>2. LooksAgain(t, g)
    BY <1>6, <1>15 DEF LooksAgain, x, y
  <2>3. IsElsewhere(t, g)
    BY <1>9, <1>11, <1>15, <2>1, <2>2 DEF IsElsewhere, x, y
  <2>. QED
    BY <1>5, <2>3 DEF x, y
<1>16. CASE /\ out = "created" /\ x.at = "create" /\ Key(x) = e.key /\ ok
            /\ y.gid = x.gid /\ y.at = "none"
            /\ y.created /\ y.del = Refreshed(x).del /\ y.deleted = x.deleted
  <2>1. Fitting(t, g, f, "create")
    BY <1>7, <1>16 DEF Fitting, x
  <2>2. y.del = IF x.known THEN store[g].del ELSE x.del
    BY <1>6, <1>16
  <2>3. Creates(t, g, f, ok)
    BY <1>10, <1>11, <1>16, <2>1, <2>2 DEF Creates, x, y
  <2>. QED
    BY <1>5, <2>3 DEF x, y
<1>17. CASE /\ out = "deleted" /\ x.at = "delete" /\ Key(x) = e.key /\ ok
            /\ y.gid = x.gid /\ y.at = "delete"
            /\ y.created = Refreshed(x).created /\ y.del = Refreshed(x).del /\ y.deleted
  <2>1. Fitting(t, g, f, "delete")
    BY <1>7, <1>17 DEF Fitting, x
  <2>2. LooksAgain(t, g)
    BY <1>6, <1>17 DEF LooksAgain, x, y
  <2>3. Deletes(t, g, f, ok)
    BY <1>10, <1>11, <1>17, <2>1, <2>2 DEF Deletes, x, y
  <2>. QED
    BY <1>5, <2>3 DEF x, y
<1>18. CASE /\ out = "undeleted" /\ x.at = "delete" /\ Key(x) = e.key /\ ~ok
            /\ y.gid = x.gid /\ y.at = "delete"
            /\ y.created = x.created /\ y.del = 0 /\ ~y.deleted
  <2>1. Fitting(t, g, f, "delete")
    BY <1>7, <1>18 DEF Fitting, x
  <2>2. Undeletes(t, g, f, ok)
    BY <1>10, <1>11, <1>18, <2>1 DEF Undeletes, x, y
  <2>. QED
    BY <1>5, <2>2 DEF x, y
<1>. QED
  BY <1>5, <1>12, <1>13, <1>14, <1>15, <1>16, <1>17, <1>18

\* An answer that is true was given to this action.
LEMMA AnsweredVouched ==
  ASSUME CloneInv, NEW t \in Tabs, NEW g \in Gifts, NEW f, NEW e, NEW ok, Answered(t, g, f, e, ok)
  PROVE  /\ f \in pending[t] /\ g \in f.objs /\ f.key.gid = g
         /\ ok => Vouched(f.key) /\ \E a \in ping[t].answers : a.seq = f.seq /\ a.ok
<1>1. f \in pending[t] /\ g \in f.objs /\ ok = Ok(ping[t].answers, f)
  BY DEF Answered
<1>2. f.key.gid = g
  BY <1>1, GiftOf DEF CloneInv
<1>3. ok => \E a \in ping[t].answers : a.seq = f.seq /\ a.ok
  BY <1>1 DEF Ok
<1>4. f \in Question(t)
  BY <1>1 DEF Question
<1>5. ok => Vouched(f.key)
  BY <1>3, <1>4 DEF CloneInv, AnswersVouched
<1>. QED
  BY <1>1, <1>2, <1>3, <1>5

LEMMA ResponseGifts ==
  ASSUME BaseInv, NEW t \in Tabs, ReceiveResponse(t)
  PROVE  GiftsTrue'
<1>. USE DEF client, server
<1>0. WaitInv /\ CloneInv /\ GiftsTrue /\ clock \in Nat
  BY DEF BaseInv, CloneInv, WaitInv, ObjectType
<1>1. UNCHANGED <<clock, row>> /\ RowsGrow
  BY DEF ReceiveResponse, RowsGrow
<1>2. /\ \A g \in Gifts : Untouched(t, g) \/ \E f, e : \E ok \in BOOLEAN : Answered(t, g, f, e, ok)
      /\ \A u \in Tabs \ {t} : obj'[u] = obj[u]
  BY <1>0, ResponseFields
<1>3. ASSUME NEW g \in Gifts
      PROVE  /\ obj'[t][g] = obj[t][g] \/ GiftOk(obj'[t][g], row[g], clock)
             /\ store'[g] = store[g] \/ SavedOk(store'[g], row[g], clock)
  <2>0. SavedOk(store[g], row[g], clock) /\ GiftOk(obj[t][g], row[g], clock) /\ 0 \in 0..clock
    BY <1>0 DEF GiftsTrue
  <2>1. CASE Untouched(t, g)
    BY <2>1 DEF Untouched
  <2>2. ASSUME NEW f, NEW e, NEW ok \in BOOLEAN, Answered(t, g, f, e, ok)
        PROVE  /\ obj'[t][g] = obj[t][g] \/ GiftOk(obj'[t][g], row[g], clock)
               /\ store'[g] = store[g] \/ SavedOk(store'[g], row[g], clock)
    <3>1. \/ Skips(t, g) \/ AsksAgain(t, g) \/ Drops(t, g) \/ IsElsewhere(t, g)
          \/ Creates(t, g, f, ok) \/ Deletes(t, g, f, ok) \/ Undeletes(t, g, f, ok)
      BY <1>0, <2>2, AnsweredFields
    <3>2. f.key.gid = g /\ (ok => Vouched(f.key))
      BY <1>0, <2>2, AnsweredVouched
    <3>3. ok => row[g].created
      BY <3>2 DEF Vouched
    <3>4. CASE Skips(t, g)
      BY <3>4 DEF Skips
    <3>5. CASE AsksAgain(t, g)
      BY <2>0, <3>5 DEF AsksAgain, GiftOk
    <3>6. CASE Drops(t, g)
      BY <2>0, <3>6 DEF Drops, GiftOk
    <3>7. CASE IsElsewhere(t, g)
      BY <2>0, <3>7 DEF IsElsewhere, LooksAgain, GiftOk, SavedOk
    <3>8. Writes(t, g) /\ GiftOk(obj'[t][g], row[g], clock)
          => store'[g] = store[g] \/ SavedOk(store'[g], row[g], clock)
      BY DEF Writes, GiftOk, SavedOk
    <3>9. CASE Creates(t, g, f, ok)
      <4>1. GiftOk(obj'[t][g], row[g], clock)
        BY <2>0, <3>3, <3>9 DEF Creates, GiftOk, SavedOk
      <4>. QED
        BY <3>8, <3>9, <4>1 DEF Creates
    <3>10. CASE Deletes(t, g, f, ok)
      <4>1. GiftOk(obj'[t][g], row[g], clock)
        BY <2>0, <3>3, <3>10 DEF Deletes, LooksAgain, GiftOk, SavedOk
      <4>. QED
        BY <3>8, <3>10, <4>1 DEF Deletes
    <3>11. CASE Undeletes(t, g, f, ok)
      <4>1. GiftOk(obj'[t][g], row[g], clock)
        BY <2>0, <3>11 DEF Undeletes, Fitting, GiftOk, SavedOk
      <4>. QED
        BY <3>8, <3>11, <4>1 DEF Undeletes
    <3>. QED
      BY <3>1, <3>4, <3>5, <3>6, <3>7, <3>9, <3>10, <3>11
  <2>. QED
    BY <1>2, <2>1, <2>2
<1>4. \A u \in Tabs, g \in Gifts : obj'[u][g] = obj[u][g] \/ GiftOk(obj'[u][g], row'[g], clock')
  BY <1>1, <1>2, <1>3
<1>5. \A g \in Gifts : store'[g] = store[g] \/ SavedOk(store'[g], row'[g], clock')
  BY <1>1, <1>3
<1>6. \A g \in Gifts : row'[g].del = row[g].del
  BY <1>1
<1>7. clock' \in Nat /\ clock <= clock'
  BY <1>0, <1>1
<1>. QED
  BY <1>0, <1>1, <1>4, <1>5, <1>6, <1>7, GiftsStay

LEMMA PingGifts ==
  ASSUME BaseInv, NEW t \in Tabs, PingNext(t)
  PROVE  GiftsTrue' /\ RowsGrow /\ clock' = clock
<1>. USE DEF client, server
<1>0. WaitInv /\ CloneInv /\ GiftsTrue /\ clock \in Nat /\ clock <= clock
  BY DEF BaseInv, CloneInv, WaitInv, ObjectType
<1>1. CASE SendPing(t)
  <2>1. UNCHANGED <<store, clock, row>> /\ RowsGrow
    BY <1>1 DEF SendPing, RowsGrow
  <2>2. /\ \A g \in Gifts : SameGift(obj'[t][g], obj[t][g])
        /\ \A u \in Tabs \ {t} : obj'[u] = obj[u]
    BY <1>0, <1>1, SendFields
  <2>3. \A u \in Tabs, g \in Gifts : GiftOk(obj'[u][g], row'[g], clock')
    <3>. TAKE u \in Tabs, g \in Gifts
    <3>1. GiftOk(obj[u][g], row[g], clock)
      BY <1>0 DEF GiftsTrue
    <3>2. CASE u # t
      BY <2>1, <2>2, <3>1, <3>2
    <3>3. CASE u = t
      BY <2>1, <2>2, <3>1, <3>3 DEF SameGift, GiftOk
    <3>. QED
      BY <3>2, <3>3
  <2>. QED
    BY <1>0, <2>1, <2>3, GiftsStay
<1>2. CASE HandlePing(t)
  <2>1. UNCHANGED <<store, clock, obj>>
    BY <1>2 DEF HandlePing
  <2>2. /\ RowsGrow
        /\ \A g \in Gifts : \/ row'[g].del = row[g].del
                            \/ \E i \in ping[t].items : i.key.action = "delete" /\ i.key.gid = g /\ row'[g].del = i.key.del
    BY <1>0, <1>2, HandleFields
  <2>3. \A i \in ping[t].items : i.key.action = "delete" => i.key.del \in 0..clock
    BY DEF BaseInv, QuestionsTrue, QuestionOk, Question
  <2>4. \A g \in Gifts : row'[g].del = row[g].del \/ row'[g].del \in 0..clock'
    BY <2>1, <2>2, <2>3
  <2>. QED
    BY <1>0, <2>1, <2>2, <2>4, GiftsStay
<1>3. CASE FinishPing(t) \/ RejectPing(t) \/ LosePing(t)
  <2>1. UNCHANGED <<store, clock, obj, row>> /\ RowsGrow
    BY <1>3 DEF FinishPing, RejectPing, LosePing, RowsGrow
  <2>. QED
    BY <1>0, <2>1, GiftsStay
<1>4. CASE ReceiveResponse(t)
  <2>1. UNCHANGED <<clock, row>> /\ RowsGrow
    BY <1>4 DEF ReceiveResponse, RowsGrow
  <2>. QED
    BY <1>4, <2>1, ResponseGifts
<1>. QED
  BY <1>1, <1>2, <1>3, <1>4 DEF PingNext

LEMMA WireGifts ==
  ASSUME BaseInv, WireNext
  PROVE  GiftsTrue' /\ RowsGrow /\ clock' = clock
<1>. USE DEF client, server
<1>0. WaitInv /\ CloneInv /\ GiftsTrue /\ clock \in Nat /\ clock <= clock
  BY DEF BaseInv, CloneInv, WaitInv, ObjectType
<1>1. PICK m \in wire : ServerHandle(m) \/ ReceiveAnswer(m) \/ LoseMessage(m)
  BY DEF WireNext
<1>2. UNCHANGED <<store, clock, obj>>
  BY <1>1 DEF ServerHandle, ReceiveAnswer, LoseMessage
<1>3. CASE ServerHandle(m)
  <2>1. /\ RowsGrow
        /\ \A g \in Gifts : \/ row'[g].del = row[g].del
                            \/ m.key.action = "delete" /\ m.key.gid = g /\ row'[g].del = m.key.del
    BY <1>0, <1>3, ServerFields
  <2>2. m.tab \in Tabs /\ m \in Question(m.tab)
    BY <1>0, TracesAsked DEF WaitInv, Question, Traces
  <2>3. m.key.action = "delete" => m.key.del \in 0..clock
    BY <2>2 DEF BaseInv, QuestionsTrue, QuestionOk
  <2>4. \A g \in Gifts : row'[g].del = row[g].del \/ row'[g].del \in 0..clock'
    BY <1>2, <2>1, <2>3
  <2>. QED
    BY <1>0, <1>2, <2>1, <2>4, GiftsStay
<1>4. CASE ReceiveAnswer(m) \/ LoseMessage(m)
  <2>1. row' = row /\ RowsGrow
    BY <1>4 DEF ReceiveAnswer, LoseMessage, RowsGrow
  <2>. QED
    BY <1>0, <1>2, <2>1, GiftsStay
<1>. QED
  BY <1>1, <1>3, <1>4

----------------------------------------------------------------------------
\* The questions, and what waits for them.

LEMMA QuestionsStay ==
  ASSUME KeyType, QuestionsTrue, NothingNew, RowsGrow, clock \in Nat, clock' \in Nat, clock <= clock'
  PROVE  QuestionsTrue'
<1>. SUFFICES ASSUME NEW t \in Tabs, NEW p \in Question(t)'
              PROVE  /\ p.seq > 0 <=> Local(p.key)
                     /\ p.key.action = "delete" => row'[p.key.gid].created /\ p.key.del \in 0..clock'
  BY DEF QuestionsTrue, QuestionOk
<1>1. PICK q \in Question(t) : p.seq = q.seq /\ p.key = q.key
  BY DEF NothingNew
<1>. PICK k : k = q.key
  OBVIOUS
<1>2. /\ q.seq > 0 <=> Local(k)
      /\ k.action = "delete" => row[k.gid].created /\ k.del \in 0..clock
      /\ k.gid \in Gifts
  BY DEF QuestionsTrue, QuestionOk, KeyType
<1>3. k.action = "delete" => row'[k.gid].created /\ k.del \in 0..clock'
  BY <1>2 DEF RowsGrow
<1>. QED
  BY <1>1, <1>2, <1>3

LEMMA SendBase ==
  ASSUME BaseInv, NEW t \in Tabs, SendPing(t)
  PROVE  QuestionsTrue' /\ LocalsWait' /\ KindKept'
<1>. USE DEF client, server
<1>0. WaitInv /\ GiftsTrue /\ QuestionsTrue /\ LocalsWait /\ KindKept
  BY DEF BaseInv, CloneInv
<1>1. UNCHANGED <<clock, row, vg, wire>>
  BY DEF SendPing
<1>2. /\ \A e \in pending'[t] : KeptEntry(t, e) \/ NewEntry(t, e)
      /\ \A i \in ping'[t].items : \E e \in pending'[t] : i.seq = e.seq /\ i.key = e.key
      /\ \A g \in Gifts : SameGift(obj'[t][g], obj[t][g])
      /\ \A u \in Tabs \ {t} : obj'[u] = obj[u] /\ pending'[u] = pending[u] /\ ping'[u] = ping[u]
  BY <1>0, SendFields
<1>3. ASSUME NEW o, NEW k, Adds(t, o, k), k.action = "delete"
      PROVE  row[k.gid].created /\ k.del \in 0..clock
  <2>1. o \in buffer[t] /\ obj[t][o].gid = k.gid /\ obj[t][o].at = "delete" /\ obj[t][o].del = k.del
    BY <1>3 DEF Adds, Key
  <2>2. o \in Objects
    BY <1>0, <2>1 DEF WaitInv, AnswerInv, QuestionType
  <2>3. Sound(o, obj[t][o]) /\ Queued(obj[t][o])
    BY <1>0, <2>1, <2>2 DEF WaitInv, TabInv
  <2>4. o \in Gifts
    BY <2>1, <2>2, <2>3 DEF Sound, Objects
  <2>5. k.gid = o
    BY <2>1, <2>3, <2>4 DEF Sound, Queued
  <2>6. GiftOk(obj[t][o], row[o], clock)
    BY <1>0, <2>4 DEF GiftsTrue
  <2>. QED
    BY <2>1, <2>5, <2>6 DEF GiftOk
<1>4. ASSUME NEW e \in pending'[t] PROVE QuestionOk(e)
  <2>1. CASE KeptEntry(t, e)
    <3>1. PICK f \in pending[t] : e.seq = f.seq /\ e.key = f.key
      BY <2>1 DEF KeptEntry
    <3>2. QuestionOk(f)
      BY <1>0, <3>1 DEF QuestionsTrue, Question
    <3>. QED
      BY <3>1, <3>2 DEF QuestionOk
  <2>2. CASE NewEntry(t, e)
    <3>1. PICK o \in e.objs : Adds(t, o, e.key)
      BY <2>2 DEF NewEntry
    <3>2. e.key.action = "delete" => row[e.key.gid].created /\ e.key.del \in 0..clock
      BY <1>3, <3>1
    <3>. QED
      BY <2>2, <3>2 DEF QuestionOk, NewEntry
  <2>. QED
    BY <1>2, <2>1, <2>2
<1>5. QuestionsTrue'
  <2>. SUFFICES ASSUME NEW u \in Tabs, NEW q \in Question(u)'
                PROVE  QuestionOk(q)
    BY <1>1 DEF QuestionsTrue, QuestionOk
  <2>1. CASE q \in Question(u)
    BY <1>0, <2>1 DEF QuestionsTrue
  <2>2. CASE u = t /\ q \in pending'[t]
    BY <1>4, <2>2
  <2>3. CASE u = t /\ q \in ping'[t].items
    <3>1. PICK e \in pending'[t] : q.seq = e.seq /\ q.key = e.key
      BY <1>2, <2>3
    <3>2. QuestionOk(e)
      BY <1>4
    <3>. QED
      BY <3>1, <3>2 DEF QuestionOk
  <2>. QED
    BY <1>1, <1>2, <2>1, <2>2, <2>3 DEF Question, Traces
<1>6. LocalsWait'
  <2>. SUFFICES ASSUME NEW u \in Tabs, NEW e \in pending'[u], e.seq > 0
                PROVE  e.count = 0
    BY DEF LocalsWait
  <2>1. CASE u # t
    BY <1>0, <1>2, <2>1 DEF LocalsWait
  <2>2. CASE u = t /\ KeptEntry(t, e)
    BY <1>0, <2>2 DEF LocalsWait, KeptEntry
  <2>3. CASE u = t /\ NewEntry(t, e)
    BY <2>3 DEF NewEntry
  <2>. QED
    BY <1>2, <2>1, <2>2, <2>3
<1>7. KindKept'
  <2>. SUFFICES ASSUME NEW u \in Tabs, NEW g \in Gifts, NEW e \in pending'[u], g \in e.objs
                PROVE  obj'[u][g].at = e.key.action
    BY DEF KindKept
  <2>1. CASE u # t
    BY <1>0, <1>2, <2>1 DEF KindKept
  <2>2. CASE u = t
    <3>1. obj'[t][g].at = obj[t][g].at
      BY <1>2 DEF SameGift
    <3>2. \/ Adds(t, g, e.key)
          \/ \E f \in pending[t] : e.key = f.key /\ g \in f.objs
      BY <1>2, <2>2 DEF KeptEntry, NewEntry
    <3>. QED
      BY <1>0, <2>2, <3>1, <3>2 DEF KindKept, Adds, Key
  <2>. QED
    BY <2>1, <2>2
<1>. QED
  BY <1>5, <1>6, <1>7

LEMMA SameLeft ==
  ASSUME NEW t \in Tabs, pending'[t] = pending[t]
  PROVE  Left(t)
  BY DEF Left

LEMMA WaitsStay ==
  ASSUME LocalsWait, KindKept, \A u \in Tabs : Left(u),
         \A u \in Tabs, g \in Gifts : obj'[u][g].at = obj[u][g].at \/ \A e \in pending'[u] : g \notin e.objs
  PROVE  LocalsWait' /\ KindKept'
<1>1. LocalsWait'
  <2>. SUFFICES ASSUME NEW u \in Tabs, NEW e \in pending'[u], e.seq > 0
                PROVE  e.count = 0
    BY DEF LocalsWait
  <2>1. PICK f \in pending[u] : e.seq = f.seq /\ (e.seq > 0 => e.count = f.count)
    BY DEF Left
  <2>. QED
    BY <2>1 DEF LocalsWait
<1>2. KindKept'
  <2>. SUFFICES ASSUME NEW u \in Tabs, NEW g \in Gifts, NEW e \in pending'[u], g \in e.objs
                PROVE  obj'[u][g].at = e.key.action
    BY DEF KindKept
  <2>1. PICK f \in pending[u] : e.key = f.key /\ e.objs \subseteq f.objs
    BY DEF Left
  <2>2. obj'[u][g].at = obj[u][g].at
    OBVIOUS
  <2>. QED
    BY <2>1, <2>2 DEF KindKept
<1>. QED
  BY <1>1, <1>2

LEMMA UserKinds ==
  ASSUME BaseInv, NEW t \in Tabs, UserNext(t)
  PROVE  LocalsWait' /\ KindKept'
<1>0. WaitInv /\ LocalsWait /\ KindKept
  BY DEF BaseInv, CloneInv
<1>1. ASSUME NEW u \in Tabs, NEW g \in Gifts, ~obj[u][g].here \/ obj[u][g].at = "none" \/ ~store[g].saved
      PROVE  \A e \in pending[u] : g \notin e.objs
  <2>1. ~Waiting(u, g)
    BY <1>0, <1>1, GiftOf
  <2>. QED
    BY <2>1 DEF Waiting
<1>2. ASSUME NEW g \in Gifts, OthersStay(t, g), obj'[t][g].at = obj[t][g].at \/ \A e \in pending[t] : g \notin e.objs
      PROVE  LocalsWait' /\ KindKept'
  <2>1. pending' = pending /\ \A u \in Tabs, h \in Gifts : u # t \/ h # g => obj'[u][h] = obj[u][h]
    BY <1>2 DEF OthersStay
  <2>2. \A u \in Tabs : Left(u)
    BY <2>1, SameLeft
  <2>3. \A u \in Tabs, h \in Gifts : obj'[u][h].at = obj[u][h].at \/ \A e \in pending'[u] : h \notin e.objs
    BY <1>2, <2>1
  <2>. QED
    BY <1>0, <2>2, <2>3, WaitsStay
<1>3. ASSUME NEW g \in Gifts, CreateGift(t, g)
      PROVE  LocalsWait' /\ KindKept'
  <2>1. OthersStay(t, g) /\ ~store[g].saved
    BY <1>0, <1>3, CreateFields
  <2>2. \A e \in pending[t] : g \notin e.objs
    BY <1>1, <2>1
  <2>. QED
    BY <1>2, <2>1, <2>2
<1>4. ASSUME NEW g \in Gifts, RefreshGift(t, g)
      PROVE  LocalsWait' /\ KindKept'
  <2>1. OthersStay(t, g) /\ obj'[t][g].at = obj[t][g].at
    BY <1>0, <1>4, RefreshFields
  <2>. QED
    BY <1>2, <2>1
<1>5. ASSUME NEW g \in Gifts, DeleteGift(t, g)
      PROVE  LocalsWait' /\ KindKept'
  <2>1. OthersStay(t, g) /\ (Marks(t, g) \/ MarksBack(t, g))
    BY <1>0, <1>5, DeleteFields
  <2>2. obj'[t][g].at = obj[t][g].at \/ obj[t][g].at = "none"
    BY <2>1 DEF Marks, MarksBack
  <2>3. obj'[t][g].at = obj[t][g].at \/ \A e \in pending[t] : g \notin e.objs
    BY <1>1, <2>2
  <2>. QED
    BY <1>2, <2>1, <2>3
<1>6. ASSUME NEW c \in Clones, (\E g \in Gifts : ReceiveClone(t, c, g)) \/ UseClone(t, c) \/ GiveUpClone(t, c)
      PROVE  LocalsWait' /\ KindKept'
  <2>1. (\A u \in Tabs, h \in Gifts : obj'[u][h] = obj[u][h]) /\ \A u \in Tabs : Left(u)
    BY <1>0, <1>6, CopyFields
  <2>2. \A u \in Tabs, h \in Gifts : obj'[u][h].at = obj[u][h].at
    BY <2>1
  <2>. QED
    BY <1>0, <2>1, <2>2, WaitsStay
<1>7. ASSUME Reload(t)
      PROVE  LocalsWait' /\ KindKept'
  <2>1. pending'[t] = {} /\ \A u \in Tabs \ {t} : obj'[u] = obj[u] /\ pending'[u] = pending[u]
    BY <1>0, <1>7, ReloadFields
  <2>2. \A u \in Tabs : Left(u)
    BY <2>1 DEF Left
  <2>3. \A u \in Tabs, h \in Gifts : obj'[u][h].at = obj[u][h].at \/ \A e \in pending'[u] : h \notin e.objs
    BY <2>1
  <2>. QED
    BY <1>0, <2>2, <2>3, WaitsStay
<1>8. ASSUME Sync(t)
      PROVE  LocalsWait' /\ KindKept'
  <2>1. /\ pending' = pending
        /\ \A u \in Tabs \ {t} : obj'[u] = obj[u]
        /\ \A g \in Gifts : \/ obj'[t][g] = obj[t][g]
                            \/ obj'[t][g].at = obj[t][g].at
                            \/ ~obj[t][g].here
    BY <1>0, <1>8, SyncFields
  <2>2. \A u \in Tabs : Left(u)
    BY <2>1, SameLeft
  <2>3. \A u \in Tabs, h \in Gifts : obj'[u][h].at = obj[u][h].at \/ \A e \in pending'[u] : h \notin e.objs
    <3>. TAKE u \in Tabs, h \in Gifts
    <3>1. CASE u # t
      BY <2>1, <3>1
    <3>2. CASE u = t
      BY <1>1, <2>1, <3>2
    <3>. QED
      BY <3>1, <3>2
  <2>. QED
    BY <1>0, <2>2, <2>3, WaitsStay
<1>. QED
  BY <1>3, <1>4, <1>5, <1>6, <1>7, <1>8 DEF UserNext

LEMMA ResponseKinds ==
  ASSUME BaseInv, NEW t \in Tabs, ReceiveResponse(t)
  PROVE  LocalsWait' /\ KindKept'
<1>0. WaitInv /\ LocalsWait /\ KindKept
  BY DEF BaseInv, CloneInv
<1>1. /\ Left(t)
      /\ \A g \in Gifts : Untouched(t, g) \/ \E f, e : \E ok \in BOOLEAN : Answered(t, g, f, e, ok)
      /\ \A u \in Tabs \ {t} : obj'[u] = obj[u] /\ pending'[u] = pending[u]
  BY <1>0, ResponseFields
<1>2. \A u \in Tabs : Left(u)
  BY <1>1, SameLeft
<1>3. \A g \in Gifts : obj'[t][g].at = obj[t][g].at \/ \A e \in pending'[t] : g \notin e.objs
  BY <1>1 DEF Untouched, Answered
<1>4. \A u \in Tabs, g \in Gifts : obj'[u][g].at = obj[u][g].at \/ \A e \in pending'[u] : g \notin e.objs
  BY <1>1, <1>3
<1>. QED
  BY <1>0, <1>2, <1>4, WaitsStay

----------------------------------------------------------------------------
\* What holds of every gift.

LEMMA BaseInit ==
  ASSUME Init
  PROVE  BaseInv
<1>1. CloneInv
  BY CloneInit
<1>2. /\ row = [g \in Gifts |-> [created |-> g \in There, del |-> 0]]
      /\ store = [g \in Gifts |-> IF g \in There THEN [NoStore EXCEPT !.saved = TRUE, !.created = TRUE] ELSE NoStore]
      /\ obj = [t \in Tabs |-> [o \in Objects |-> IF o \in There THEN Loaded(o, TRUE) ELSE NoObj]]
      /\ vg = {} /\ wire = {} /\ clock = 0
      /\ \A t \in Tabs : pending[t] = {} /\ ping[t] = NoPing
  BY DEF Init
<1>3. \A t \in Tabs : Question(t) = {} /\ pending[t] = {}
  BY <1>2 DEF Question, Traces, NoPing
<1>4. QuestionsTrue /\ LocalsWait /\ KindKept
  BY <1>3 DEF QuestionsTrue, LocalsWait, KindKept
<1>5. ASSUME NEW g \in Gifts
      PROVE  /\ row[g].del = 0 /\ (g \in There => row[g].created)
             /\ store[g].del = 0 /\ ~store[g].deleted /\ (g \in There <=> store[g].created)
  <2>1. row[g].del = 0 /\ (g \in There => row[g].created)
    BY <1>2
  <2>2. CASE g \in There
    <3>1. store[g] = [NoStore EXCEPT !.saved = TRUE, !.created = TRUE]
      BY <1>2, <2>2
    <3>. QED
      BY <2>1, <2>2, <3>1 DEF NoStore
  <2>3. CASE g \notin There
    BY <1>2, <2>1, <2>3 DEF NoStore
  <2>. QED
    BY <2>2, <2>3
<1>6. ASSUME NEW g \in Gifts, NEW t \in Tabs PROVE GiftOk(obj[t][g], row[g], clock)
  <2>1. g \in Objects /\ store \in [Gifts -> StoreShape]
    BY <1>1 DEF Objects, CloneInv, WaitInv, ObjectType
  <2>2. CASE g \in There
    <3>1. obj[t][g] = Loaded(g, TRUE)
      BY <1>2, <2>1, <2>2
    <3>. PICK x : x = Loaded(g, TRUE)
      OBVIOUS
    <3>2. x.del = store[g].del /\ x.at = "none"
      BY <2>1, LoadedShape, LoadedFields
    <3>3. row[g].created
      BY <1>5, <2>2
    <3>4. x.del = 0 /\ clock = 0
      BY <1>2, <1>5, <3>2
    <3>5. x.del \in 0..clock
      <4>1. 0 \in 0..clock
        BY <1>2
      <4>. QED
        BY <3>4, <4>1, Zenon
    <3>6. x.at = "none" /\ "none" # "create"
      BY <3>2
    <3>7. GiftOk(x, row[g], clock)
      BY <3>3, <3>5, <3>6, Zenon DEF GiftOk
    <3>. QED
      BY <3>1, <3>7
  <2>3. CASE g \notin There
    BY <1>2, <2>1, <2>3, NoObjFields DEF GiftOk
  <2>. QED
    BY <2>2, <2>3
<1>7. GiftsTrue
  <2>. SUFFICES ASSUME NEW g \in Gifts
                PROVE  row[g].del \in 0..clock /\ SavedOk(store[g], row[g], clock)
    BY <1>6 DEF GiftsTrue
  <2>1. 0 \in 0..clock
    BY <1>2
  <2>. QED
    BY <1>5, <2>1, Zenon DEF SavedOk
<1>. QED
  BY <1>1, <1>4, <1>7 DEF BaseInv

LEMMA BaseStep ==
  ASSUME BaseInv, [Next]_vars
  PROVE  BaseInv'
<1>. USE DEF client, server
<1>0. /\ CloneInv' /\ CloneInv /\ AnswerInv /\ KeyType /\ QuestionsTrue /\ LocalsWait /\ KindKept /\ GiftsTrue
      /\ clock \in Nat
  BY CloneStep DEF BaseInv, CloneInv, WaitInv, ObjectType
<1>1. ASSUME NEW t \in Tabs, UserNext(t) PROVE BaseInv'
  <2>1. GiftsTrue' /\ RowsGrow /\ clock' \in Nat /\ clock <= clock'
    BY <1>1, UserGifts
  <2>2. NothingNew
    BY <1>0, <1>1, UserStep
  <2>3. QuestionsTrue'
    BY <1>0, <2>1, <2>2, QuestionsStay
  <2>4. LocalsWait' /\ KindKept'
    BY <1>1, UserKinds
  <2>. QED
    BY <1>0, <2>1, <2>3, <2>4 DEF BaseInv
<1>2. CASE pending' = pending /\ obj' = obj /\ NothingNew /\ GiftsTrue' /\ RowsGrow /\ clock' = clock
  <2>1. clock' \in Nat /\ clock <= clock'
    BY <1>0, <1>2
  <2>2. QuestionsTrue'
    BY <1>0, <1>2, <2>1, QuestionsStay
  <2>3. LocalsWait' /\ KindKept'
    BY <1>0, <1>2 DEF LocalsWait, KindKept
  <2>. QED
    BY <1>0, <1>2, <2>2, <2>3 DEF BaseInv
<1>3. ASSUME NEW t \in Tabs, PingNext(t) PROVE BaseInv'
  <2>1. GiftsTrue' /\ RowsGrow /\ clock' = clock
    BY <1>3, PingGifts
  <2>2. CASE SendPing(t)
    <3>1. QuestionsTrue' /\ LocalsWait' /\ KindKept'
      BY <2>2, SendBase
    <3>. QED
      BY <1>0, <2>1, <3>1 DEF BaseInv
  <2>3. CASE ~SendPing(t)
    <3>1. NothingNew
      BY <1>0, <1>3, <2>3, PingStep DEF PingNext
    <3>2. CASE ReceiveResponse(t)
      <4>1. LocalsWait' /\ KindKept'
        BY <3>2, ResponseKinds
      <4>2. clock' \in Nat /\ clock <= clock'
        BY <1>0, <2>1
      <4>3. QuestionsTrue'
        BY <1>0, <2>1, <3>1, <4>2, QuestionsStay
      <4>. QED
        BY <1>0, <2>1, <4>1, <4>3 DEF BaseInv
    <3>3. CASE HandlePing(t) \/ FinishPing(t) \/ RejectPing(t) \/ LosePing(t)
      <4>1. pending' = pending /\ obj' = obj
        BY <3>3 DEF HandlePing, FinishPing, RejectPing, LosePing
      <4>. QED
        BY <1>2, <2>1, <3>1, <4>1
    <3>. QED
      BY <1>3, <2>3, <3>2, <3>3 DEF PingNext
  <2>. QED
    BY <2>2, <2>3
<1>4. CASE WireNext
  <2>1. GiftsTrue' /\ RowsGrow /\ clock' = clock
    BY <1>4, WireGifts
  <2>2. NothingNew
    BY <1>0, <1>4, WireStep
  <2>3. pending' = pending /\ obj' = obj
    BY <1>4 DEF WireNext, ServerHandle, ReceiveAnswer, LoseMessage
  <2>. QED
    BY <1>2, <2>1, <2>2, <2>3
<1>5. CASE UNCHANGED vars
  <2>1. UNCHANGED <<store, obj, pending, ping, row, vg, wire, clock>>
    BY <1>5 DEF vars
  <2>2. NothingNew /\ RowsGrow
    BY <2>1 DEF NothingNew, RowsGrow, Question, Traces
  <2>3. GiftsTrue'
    BY <1>0, <2>1 DEF GiftsTrue
  <2>. QED
    BY <1>2, <2>1, <2>2, <2>3
<1>. QED
  BY <1>1, <1>3, <1>4, <1>5 DEF Next

\* What the localStorage says has been created is in the table of its server, for every gift:
\* created_at_server is saved only from an answer that was true, or copied from the localStorage.
THEOREM CreationsAreTrue == Spec => [](\A g \in Gifts : store[g].created => row[g].created)
<1>1. Init => BaseInv
  BY BaseInit
<1>2. BaseInv /\ [Next]_vars => BaseInv'
  BY BaseStep
<1>3. BaseInv => \A g \in Gifts : store[g].created => row[g].created
  BY DEF BaseInv, GiftsTrue, SavedOk
<1>. QED
  BY <1>1, <1>2, <1>3, PTL DEF Spec

----------------------------------------------------------------------------
\* Timestamps of deletions.

\* A tab that goes on deleting g, or starts again after a page load.
Steady(t, g) ==
  Deleting(t, g)' => Deleting(t, g) /\ DelsOf(t, g)' \subseteq DelsOf(t, g) \union {store[g].del}
Restarts(t, g) ==
  Deleting(t, g)' => g \notin There /\ store[g].del # 0 /\ DelsOf(t, g)' \subseteq {store[g].del}

SameAnswers(g) ==
  \A t \in Tabs : \A a \in ping'[t].answers, e \in Entries(t, g)' :
    a.seq = e.seq => /\ a \in ping[t].answers
                     /\ obj'[t][g].known => obj[t][g].known
                     /\ \E f \in Entries(t, g) : f.seq = e.seq /\ f.key = e.key

LEMMA FitsStay ==
  ASSUME NEW g \in Gifts, RowsGrow, store'[g].del = store[g].del, NEW d, Fits(g, d)
  PROVE  Fits(g, d)'
  BY DEF RowsGrow, Fits, Alone

LEMMA StoredStay ==
  ASSUME NEW g \in Gifts, RowsGrow, StoredFits(g), store'[g].del = store[g].del,
         store'[g].deleted /\ store[g].del # 0 => store[g].deleted
  PROVE  StoredFits(g)'
  BY DEF RowsGrow, StoredFits

LEMMA WaitingStay ==
  ASSUME NEW g \in Gifts, RowsGrow, WaitingFits(g), OneDeletes(g), store'[g].del = store[g].del,
         \A t \in Tabs : Steady(t, g) \/ Restarts(t, g)
  PROVE  WaitingFits(g)' /\ OneDeletes(g)'
<1>1. ASSUME NEW t \in Tabs, Deleting(t, g)', NEW d \in DelsOf(t, g)' PROVE Fits(g, d)
  <2>1. CASE Restarts(t, g)
    <3>1. store[g].del # 0 /\ d = store[g].del
      BY <1>1, <2>1 DEF Restarts
    <3>. QED
      BY <3>1 DEF Fits
  <2>2. CASE Steady(t, g)
    <3>1. Deleting(t, g) /\ (d \in DelsOf(t, g) \/ d = store[g].del)
      BY <1>1, <2>2 DEF Steady
    <3>2. \A c \in DelsOf(t, g) : Fits(g, c)
      BY <3>1 DEF WaitingFits
    <3>3. obj[t][g].del \in DelsOf(t, g)
      BY DEF DelsOf
    <3>4. Fits(g, store[g].del)
      BY <3>2, <3>3 DEF Fits
    <3>. QED
      BY <3>1, <3>2, <3>4
  <2>. QED
    BY <2>1, <2>2
<1>2. \A t \in Tabs : Deleting(t, g)' => \A d \in DelsOf(t, g)' : Fits(g, d)'
  BY <1>1, FitsStay
<1>3. OneDeletes(g)'
  <2>. SUFFICES ASSUME Alone(g), NEW t \in Tabs, NEW u \in Tabs, Deleting(t, g)', Deleting(u, g)'
                PROVE  t = u
    BY DEF OneDeletes, Alone
  <2>1. CASE g \in There
    <3>1. Deleting(t, g) /\ Deleting(u, g)
      BY <2>1 DEF Steady, Restarts
    <3>. QED
      BY <3>1 DEF OneDeletes
  <2>2. CASE g \notin There
    BY <2>2 DEF Alone
  <2>. QED
    BY <2>1, <2>2
<1>. QED
  BY <1>2, <1>3 DEF WaitingFits

LEMMA AnswersStay ==
  ASSUME NEW g \in Gifts, RowsGrow, AnswersFit(g), SameAnswers(g)
  PROVE  AnswersFit(g)'
<1>. SUFFICES ASSUME ~Alone(g), NEW t \in Tabs, NEW a \in ping'[t].answers, NEW e \in Entries(t, g)', a.seq = e.seq
              PROVE  IF a.ok THEN obj'[t][g].known => e.key.del # 0 ELSE row'[g].del \notin {0, e.key.del}
  BY DEF AnswersFit, Alone
<1>1. /\ a \in ping[t].answers /\ (obj'[t][g].known => obj[t][g].known)
      /\ \E f \in Entries(t, g) : f.seq = e.seq /\ f.key = e.key
  BY DEF SameAnswers
<1>2. PICK f \in Entries(t, g) : f.seq = e.seq /\ f.key = e.key
  BY <1>1
<1>3. IF a.ok THEN obj[t][g].known => f.key.del # 0 ELSE row[g].del \notin {0, f.key.del}
  BY <1>1, <1>2 DEF AnswersFit
<1>. QED
  BY <1>1, <1>2, <1>3 DEF RowsGrow

\* A step that does not change what the localStorage and the tabs say of the deletion of g.
Calm(g) ==
  /\ store'[g].del = store[g].del /\ (store'[g].deleted /\ store[g].del # 0 => store[g].deleted)
  /\ \A t \in Tabs : Steady(t, g) \/ Restarts(t, g)
  /\ SameAnswers(g)

LEMMA CalmFits ==
  ASSUME NEW g \in Gifts, RowsGrow, DeletesFit(g), Calm(g)
  PROVE  DeletesFit(g)'
<1>1. StoredFits(g)'
  BY StoredStay DEF DeletesFit, Calm
<1>2. WaitingFits(g)' /\ OneDeletes(g)'
  BY WaitingStay DEF DeletesFit, Calm
<1>3. AnswersFit(g)'
  BY AnswersStay DEF DeletesFit, Calm
<1>. QED
  BY <1>1, <1>2, <1>3 DEF DeletesFit

LEMMA SteadyTab ==
  ASSUME NEW t \in Tabs, NEW g \in Gifts, Left(t),
         obj'[t][g].known /\ obj'[t][g].at = "delete" =>
           /\ obj[t][g].known /\ obj[t][g].at = "delete" /\ obj'[t][g].del \in {obj[t][g].del, store[g].del}
           /\ g \in buffer'[t] => Waiting(t, g)
  PROVE  Steady(t, g)
<1>. SUFFICES ASSUME Deleting(t, g)'
              PROVE  Deleting(t, g) /\ DelsOf(t, g)' \subseteq DelsOf(t, g) \union {store[g].del}
  BY DEF Steady
<1>1. obj'[t][g].known /\ obj'[t][g].at = "delete" /\ Waiting(t, g)'
  BY DEF Deleting
<1>2. \A e \in pending'[t] : \E f \in pending[t] : e.key = f.key /\ e.objs \subseteq f.objs
  BY DEF Left
<1>3. Waiting(t, g)
  BY <1>1, <1>2 DEF Waiting
<1>4. \A e \in Entries(t, g)' : e.key.del \in DelsOf(t, g)
  BY <1>2 DEF Entries, DelsOf
<1>. QED
  BY <1>1, <1>3, <1>4 DEF Deleting, DelsOf

LEMMA SameTab ==
  ASSUME NEW t \in Tabs, NEW g \in Gifts, Left(t), obj'[t][g] = obj[t][g], g \in buffer'[t] => g \in buffer[t]
  PROVE  Steady(t, g)
<1>1. g \in buffer'[t] => Waiting(t, g)
  BY DEF Waiting
<1>. QED
  BY <1>1, SteadyTab

LEMMA StillAnswers ==
  ASSUME NEW g \in Gifts, \A t \in Tabs : Left(t), \A t \in Tabs : ping'[t].answers \subseteq ping[t].answers,
         \A t \in Tabs : Entries(t, g) # {} => (obj'[t][g].known => obj[t][g].known)
  PROVE  SameAnswers(g)
<1>. SUFFICES ASSUME NEW t \in Tabs, NEW a \in ping'[t].answers, NEW e \in Entries(t, g)'
              PROVE  /\ a \in ping[t].answers
                     /\ obj'[t][g].known => obj[t][g].known
                     /\ \E f \in Entries(t, g) : f.seq = e.seq /\ f.key = e.key
  BY DEF SameAnswers
<1>1. \E f \in Entries(t, g) : f.seq = e.seq /\ f.key = e.key
  BY DEF Left, Entries
<1>. QED
  BY <1>1

\* A step of one tab leaves the deletions of the other gifts alone.
LEMMA OthersCalm ==
  ASSUME NEW t \in Tabs, NEW g \in Gifts, OthersStay(t, g), NEW h \in Gifts, h # g
  PROVE  Calm(h)
<1>1. /\ store'[h] = store[h] /\ pending' = pending /\ ping' = ping
      /\ \A u \in Tabs : obj'[u][h] = obj[u][h] /\ (h \in buffer'[u] => h \in buffer[u])
  BY DEF OthersStay
<1>2. \A u \in Tabs : Left(u)
  BY <1>1, SameLeft
<1>3. \A u \in Tabs : Steady(u, h)
  BY <1>1, <1>2, SameTab
<1>4. SameAnswers(h)
  BY <1>1, <1>2, StillAnswers
<1>. QED
  BY <1>1, <1>3, <1>4 DEF Calm

\* So does a step of t that only changes what t says of g, for the other tabs.
LEMMA OneCalm ==
  ASSUME NEW t \in Tabs, NEW g \in Gifts, OthersStay(t, g), Steady(t, g), store'[g].del = store[g].del,
         store'[g].deleted /\ store[g].del # 0 => store[g].deleted,
         Entries(t, g) # {} => (obj'[t][g].known => obj[t][g].known)
  PROVE  Calm(g)
<1>1. /\ pending' = pending /\ ping' = ping
      /\ \A u \in Tabs \ {t} : obj'[u][g] = obj[u][g] /\ (g \in buffer'[u] => g \in buffer[u])
  BY DEF OthersStay
<1>2. \A u \in Tabs : Left(u)
  BY <1>1, SameLeft
<1>3. \A u \in Tabs : Steady(u, g)
  BY <1>1, <1>2, SameTab
<1>4. SameAnswers(g)
  BY <1>1, <1>2, StillAnswers
<1>. QED
  BY <1>3, <1>4 DEF Calm

\* A deletion of a gift that no one deletes yet gets a timestamp nobody has seen.
LEMMA MarkFits ==
  ASSUME BaseInv, NEW t \in Tabs, NEW g \in Gifts, DeletesFit(g), OthersStay(t, g), Marks(t, g),
         obj[t][g].known, obj'[t][g].known, store[g].del = 0
  PROVE  DeletesFit(g)'
<1>0. WaitInv /\ clock \in Nat /\ row[g].del \in 0..clock
  BY DEF BaseInv, CloneInv, WaitInv, ObjectType, GiftsTrue
<1>. DEFINE n == clock + 1
<1>1. /\ pending' = pending /\ ping' = ping /\ row' = row
      /\ \A u \in Tabs \ {t} : obj'[u][g] = obj[u][g] /\ (g \in buffer'[u] <=> g \in buffer[u])
  BY DEF OthersStay
<1>2. /\ store'[g].del = n /\ ~store'[g].deleted /\ obj'[t][g].del = n
      /\ (obj[t][g].at = "delete" /\ buffer' = buffer) \/ obj[t][g].at = "none"
  BY DEF Marks
<1>3. n # 0 /\ row[g].del # n
  BY <1>0
<1>. HIDE DEF n
<1>4. ASSUME NEW u \in Tabs, Deleting(u, g), NEW d \in DelsOf(u, g)
      PROVE  ~Alone(g) /\ row[g].del \notin {0, d}
  <2>1. Fits(g, d)
    BY <1>4 DEF DeletesFit, WaitingFits
  <2>. QED
    BY <2>1 DEF Fits
<1>5. \A u \in Tabs : Deleting(u, g) => ~Alone(g)
  BY <1>4 DEF DelsOf
<1>6. ASSUME NEW u \in Tabs \ {t}, Deleting(u, g)'
      PROVE  Deleting(u, g) /\ DelsOf(u, g)' = DelsOf(u, g)
  BY <1>1, <1>6 DEF Deleting, DelsOf, Waiting, Entries
<1>7. ASSUME NEW d \in DelsOf(t, g)'
      PROVE  d = n \/ (Deleting(t, g) /\ d \in DelsOf(t, g))
  <2>1. d = n \/ \E e \in pending[t] : g \in e.objs /\ e.key.action = "delete" /\ d = e.key.del
    BY <1>1, <1>2 DEF DelsOf, Entries
  <2>2. ASSUME NEW e \in pending[t], g \in e.objs, e.key.action = "delete", d = e.key.del
        PROVE  Deleting(t, g) /\ d \in DelsOf(t, g)
    <3>1. Waiting(t, g)
      BY <2>2 DEF Waiting
    <3>2. obj[t][g].at # "none"
      BY <1>0, <3>1, GiftOf
    <3>. QED
      BY <1>2, <2>2, <3>1, <3>2 DEF Deleting, DelsOf, Entries
  <2>. QED
    BY <2>1, <2>2
<1>8. StoredFits(g)'
  BY <1>2 DEF StoredFits
<1>9. WaitingFits(g)'
  <2>. SUFFICES ASSUME NEW u \in Tabs, Deleting(u, g)', NEW d \in DelsOf(u, g)'
                PROVE  (d = n /\ d # 0) \/ (~Alone(g) /\ row[g].del \notin {0, d, n})
    BY <1>1, <1>2 DEF WaitingFits, Fits, Alone
  <2>1. CASE u = t
    BY <1>3, <1>4, <1>7, <2>1
  <2>2. CASE u # t
    BY <1>3, <1>4, <1>6, <2>2
  <2>. QED
    BY <2>1, <2>2
<1>10. OneDeletes(g)'
  <2>. SUFFICES ASSUME Alone(g), NEW u \in Tabs, NEW w \in Tabs, Deleting(u, g)', Deleting(w, g)'
                PROVE  u = w
    BY DEF OneDeletes, Alone
  <2>1. \A v \in Tabs : Deleting(v, g)' => v = t
    BY <1>5, <1>6
  <2>. QED
    BY <2>1
<1>11. AnswersFit(g)'
  <2>1. \A u \in Tabs : Left(u)
    BY <1>1, SameLeft
  <2>2. \A u \in Tabs : obj'[u][g].known => obj[u][g].known
    BY <1>1
  <2>3. SameAnswers(g)
    BY <1>1, <2>1, <2>2, StillAnswers
  <2>4. RowsGrow
    BY <1>1 DEF RowsGrow
  <2>. QED
    BY <2>3, <2>4, AnswersStay DEF DeletesFit
<1>. QED
  BY <1>8, <1>9, <1>10, <1>11 DEF DeletesFit

LEMMA CreateFits ==
  ASSUME BaseInv, NEW t \in Tabs, NEW g \in Gifts, CreateGift(t, g)
  PROVE  Calm(g)
<1>0. WaitInv /\ SavedOk(store[g], row[g], clock)
  BY DEF BaseInv, CloneInv, GiftsTrue
<1>1. /\ OthersStay(t, g)
      /\ ~store[g].saved /\ store'[g].del = 0 /\ ~store'[g].deleted
      /\ obj'[t][g].at = "create"
  BY <1>0, CreateFields
<1>2. store[g].del = 0
  BY <1>0, <1>1 DEF SavedOk
<1>3. Steady(t, g)
  BY <1>1 DEF Steady, Deleting
<1>4. ~Waiting(t, g)
  BY <1>0, <1>1, GiftOf
<1>5. Entries(t, g) = {}
  BY <1>4 DEF Waiting, Entries
<1>. QED
  BY <1>1, <1>2, <1>3, <1>5, OneCalm

LEMMA RefreshFits ==
  ASSUME BaseInv, NEW t \in Tabs, NEW g \in Gifts, RefreshGift(t, g)
  PROVE  Calm(g)
<1>0. WaitInv
  BY DEF BaseInv, CloneInv
<1>1. /\ OthersStay(t, g) /\ store' = store /\ buffer' = buffer
      /\ obj'[t][g].known = obj[t][g].known /\ obj'[t][g].at = obj[t][g].at
      /\ obj'[t][g].del \in {obj[t][g].del, store[g].del}
  BY <1>0, RefreshFields
<1>2. Left(t)
  BY <1>1, SameLeft DEF OthersStay
<1>3. g \in buffer'[t] => Waiting(t, g)
  BY <1>1 DEF Waiting
<1>4. Steady(t, g)
  BY <1>1, <1>2, <1>3, SteadyTab
<1>. QED
  BY <1>1, <1>4, OneCalm

LEMMA DeleteFits ==
  ASSUME BaseInv, NEW t \in Tabs, NEW g \in Gifts, DeleteGift(t, g), DeletesFit(g)
  PROVE  DeletesFit(g)'
<1>0. WaitInv
  BY DEF BaseInv, CloneInv
<1>1. /\ OthersStay(t, g) /\ obj'[t][g].known = obj[t][g].known
      /\ obj[t][g].known => store[g].del = 0
      /\ Marks(t, g) \/ MarksBack(t, g)
  BY <1>0, DeleteFields
<1>2. Left(t) /\ RowsGrow
  BY <1>1, SameLeft DEF OthersStay, RowsGrow
<1>3. CASE Marks(t, g) /\ obj[t][g].known
  BY <1>1, <1>3, MarkFits
<1>4. CASE ~obj[t][g].known
  <2>1. Steady(t, g)
    BY <1>1, <1>4 DEF Steady, Deleting
  <2>2. store'[g] = store[g]
    BY <1>1, <1>4 DEF Marks, MarksBack
  <2>3. Calm(g)
    BY <1>1, <2>1, <2>2, OneCalm
  <2>. QED
    BY <1>2, <2>3, CalmFits
<1>5. CASE MarksBack(t, g) /\ obj[t][g].known
  <2>1. /\ buffer' = buffer /\ store'[g].del = 0 /\ store[g].del = 0
        /\ obj'[t][g].at = obj[t][g].at /\ obj'[t][g].del = 0
    BY <1>1, <1>5 DEF MarksBack
  <2>2. g \in buffer'[t] => Waiting(t, g)
    BY <2>1 DEF Waiting
  <2>3. obj'[t][g].del \in {obj[t][g].del, store[g].del}
    BY <2>1
  <2>4. Steady(t, g)
    BY <1>1, <1>2, <2>1, <2>2, <2>3, SteadyTab
  <2>5. Calm(g)
    BY <1>1, <2>1, <2>4, OneCalm
  <2>. QED
    BY <1>2, <2>5, CalmFits
<1>. QED
  BY <1>1, <1>3, <1>4, <1>5

LEMMA CopyFits ==
  ASSUME BaseInv, NEW t \in Tabs, NEW c \in Clones, NEW g \in Gifts,
         (\E h \in Gifts : ReceiveClone(t, c, h)) \/ UseClone(t, c) \/ GiveUpClone(t, c)
  PROVE  Calm(g)
<1>1. /\ store' = store /\ ping' = ping
      /\ \A u \in Tabs, h \in Gifts : obj'[u][h] = obj[u][h] /\ (h \in buffer'[u] <=> h \in buffer[u])
      /\ \A u \in Tabs : Left(u)
  BY CopyFields DEF BaseInv, CloneInv
<1>2. \A u \in Tabs : Steady(u, g)
  BY <1>1, SameTab
<1>3. SameAnswers(g)
  BY <1>1, StillAnswers
<1>. QED
  BY <1>1, <1>2, <1>3 DEF Calm

LEMMA ReloadFits ==
  ASSUME BaseInv, NEW t \in Tabs, NEW g \in Gifts, Reload(t)
  PROVE  Calm(g)
<1>1. /\ pending'[t] = {} /\ ping'[t].answers = {}
      /\ store'[g].del = store[g].del /\ ~store'[g].deleted
      /\ obj'[t][g].at = "delete" => /\ obj'[t][g].del = store[g].del
                                     /\ g \notin There /\ store[g].del # 0
      /\ \A u \in Tabs \ {t} : /\ obj'[u] = obj[u] /\ buffer'[u] = buffer[u]
                               /\ pending'[u] = pending[u] /\ ping'[u] = ping[u]
  BY ReloadFields DEF BaseInv, CloneInv
<1>2. Restarts(t, g)
  BY <1>1 DEF Restarts, Deleting, DelsOf, Entries
<1>3. \A u \in Tabs : Left(u)
  BY <1>1, SameLeft DEF Left
<1>4. \A u \in Tabs \ {t} : Steady(u, g)
  BY <1>1, <1>3, SameTab
<1>5. SameAnswers(g)
  <2>. SUFFICES ASSUME NEW u \in Tabs, NEW a \in ping'[u].answers, NEW e \in Entries(u, g)'
                PROVE  /\ a \in ping[u].answers
                       /\ obj'[u][g].known => obj[u][g].known
                       /\ \E f \in Entries(u, g) : f.seq = e.seq /\ f.key = e.key
    BY DEF SameAnswers
  <2>1. u # t
    BY <1>1
  <2>2. e \in Entries(u, g)
    BY <1>1, <2>1 DEF Entries
  <2>. QED
    BY <1>1, <2>1, <2>2
<1>. QED
  BY <1>1, <1>2, <1>4, <1>5 DEF Calm

LEMMA SyncFits ==
  ASSUME BaseInv, NEW t \in Tabs, NEW g \in Gifts, Sync(t)
  PROVE  Calm(g)
<1>1. /\ UNCHANGED <<store, pending, buffer, ping>>
      /\ \A u \in Tabs \ {t} : obj'[u] = obj[u]
      /\ obj'[t][g].known = obj[t][g].known
      /\ \/ obj'[t][g] = obj[t][g]
         \/ obj'[t][g].del = store[g].del /\ obj'[t][g].at \in {"none", obj[t][g].at}
  BY SyncFields DEF BaseInv, CloneInv
<1>2. \A u \in Tabs : Left(u)
  BY <1>1, SameLeft
<1>3. g \in buffer'[t] => Waiting(t, g)
  BY <1>1 DEF Waiting
<1>4. Steady(t, g)
  BY <1>1, <1>2, <1>3, SteadyTab
<1>5. \A u \in Tabs \ {t} : Steady(u, g)
  BY <1>1, <1>2, SameTab
<1>6. SameAnswers(g)
  BY <1>1, <1>2, StillAnswers
<1>. QED
  BY <1>1, <1>4, <1>5, <1>6 DEF Calm

LEMMA UserFits ==
  ASSUME BaseInv, NEW t \in Tabs, UserNext(t), NEW g \in Gifts, DeletesFit(g)
  PROVE  DeletesFit(g)'
<1>0. RowsGrow
  BY UserGifts
<1>1. Calm(g) => DeletesFit(g)'
  BY <1>0, CalmFits
<1>2. ASSUME NEW h \in Gifts, CreateGift(t, h) \/ RefreshGift(t, h) \/ DeleteGift(t, h)
      PROVE  DeletesFit(g)'
  <2>1. CASE h = g
    BY <1>1, <1>2, <2>1, CreateFits, RefreshFits, DeleteFits
  <2>2. CASE h # g
    <3>1. OthersStay(t, h)
      BY <1>2, CreateFields, RefreshFields, DeleteFields DEF BaseInv, CloneInv
    <3>. QED
      BY <1>1, <2>2, <3>1, OthersCalm
  <2>. QED
    BY <2>1, <2>2
<1>. QED
  BY <1>1, <1>2, CopyFits, ReloadFits, SyncFits DEF UserNext

LEMMA SendFits ==
  ASSUME BaseInv, NEW t \in Tabs, NEW g \in Gifts, SendPing(t)
  PROVE  Calm(g)
<1>0. store' = store
  BY DEF SendPing, client, server
<1>1. /\ \A e \in pending'[t] : KeptEntry(t, e) \/ NewEntry(t, e)
      /\ buffer'[t] = {} /\ ping'[t].answers = {}
      /\ SameGift(obj'[t][g], obj[t][g])
      /\ \A u \in Tabs \ {t} : /\ obj'[u] = obj[u] /\ buffer'[u] = buffer[u]
                               /\ pending'[u] = pending[u] /\ ping'[u] = ping[u]
  BY SendFields DEF BaseInv, CloneInv
<1>2. \A e \in pending'[t] : g \in e.objs =>
        (g \in buffer[t] /\ e.key.del = obj[t][g].del) \/ \E f \in pending[t] : e.key = f.key /\ g \in f.objs
  <2>1. \A e \in pending'[t] : g \in e.objs => Adds(t, g, e.key) \/ \E f \in pending[t] : e.key = f.key /\ g \in f.objs
    BY <1>1 DEF KeptEntry, NewEntry
  <2>2. \A k : Adds(t, g, k) => g \in buffer[t] /\ k.del = obj[t][g].del
    BY DEF Adds, Key
  <2>. QED
    BY <2>1, <2>2
<1>3. Waiting(t, g)' => Waiting(t, g)
  BY <1>1, <1>2 DEF Waiting
<1>4. \A e \in Entries(t, g)' : e.key.del \in DelsOf(t, g)
  BY <1>2 DEF Entries, DelsOf
<1>5. Steady(t, g)
  BY <1>1, <1>3, <1>4 DEF Steady, Deleting, DelsOf, SameGift
<1>6. \A u \in Tabs \ {t} : Steady(u, g)
  <2>. TAKE u \in Tabs \ {t}
  <2>1. Left(u) /\ obj'[u][g] = obj[u][g] /\ (g \in buffer'[u] => g \in buffer[u])
    BY <1>1, SameLeft
  <2>. QED
    BY <2>1, SameTab
<1>7. SameAnswers(g)
  <2>. SUFFICES ASSUME NEW u \in Tabs, NEW a \in ping'[u].answers, NEW e \in Entries(u, g)'
                PROVE  /\ a \in ping[u].answers
                       /\ obj'[u][g].known => obj[u][g].known
                       /\ \E f \in Entries(u, g) : f.seq = e.seq /\ f.key = e.key
    BY DEF SameAnswers
  <2>1. u # t
    BY <1>1
  <2>2. e \in Entries(u, g)
    BY <1>1, <2>1 DEF Entries
  <2>. QED
    BY <1>1, <2>1, <2>2
<1>. QED
  BY <1>0, <1>5, <1>6, <1>7 DEF Calm

\* A tab that waits for a gift's answer gets one.
LEMMA HandleFits ==
  ASSUME BaseInv, NEW t \in Tabs, NEW g \in Gifts, HandlePing(t), Sure(g), DeletesFit(g)
  PROVE  DeletesFit(g)'
<1>0. CloneInv /\ WaitInv /\ AnswerInv /\ QuestionsTrue /\ KindKept
  BY DEF BaseInv, CloneInv, WaitInv
<1>1. UNCHANGED <<store, obj, buffer, pending>>
  BY DEF HandlePing, client
<1>2. /\ RowsGrow
      /\ \A u \in Tabs \ {t} : ping'[u] = ping[u]
      /\ \A a \in ping'[t].answers :
           \/ \E v \in Ready(t) : a.seq = v.seq /\ a.ok = (v.ok = "true")
           \/ \E i \in ping[t].items : i.seq > 0 /\ a.seq = i.seq /\ LocalAnswer(i, a.ok)
  BY <1>0, HandleFields
<1>3. \A u \in Tabs : Steady(u, g)
  BY <1>1, SameLeft, SameTab
<1>4. StoredFits(g)'
  BY <1>1, <1>2, StoredStay DEF DeletesFit
<1>5. WaitingFits(g)' /\ OneDeletes(g)'
  BY <1>1, <1>2, <1>3, WaitingStay DEF DeletesFit
<1>6. AnswersFit(g)'
  <2>. SUFFICES ASSUME ~Alone(g), NEW u \in Tabs, NEW a \in ping'[u].answers, NEW e \in Entries(u, g), a.seq = e.seq
                PROVE  IF a.ok THEN obj[u][g].known => e.key.del # 0 ELSE row'[g].del \notin {0, e.key.del}
    BY <1>1 DEF AnswersFit, Alone, Entries
  <2>1. CASE u # t
    <3>1. a \in ping[u].answers
      BY <1>2, <2>1
    <3>2. IF a.ok THEN obj[u][g].known => e.key.del # 0 ELSE row[g].del \notin {0, e.key.del}
      BY <3>1 DEF DeletesFit, AnswersFit
    <3>. QED
      BY <1>2, <3>2 DEF RowsGrow
  <2>2. CASE u = t
    <3>1. e \in pending[t] /\ g \in e.objs /\ e.key.action = "delete" /\ e \in Question(t)
      BY <2>2 DEF Entries, Question
    <3>2. e.key.gid = g
      BY <1>0, <3>1, GiftOf
    <3>. DEFINE k == e.key
    <3>3. e.seq > 0 /\ row[g].created
      <4>1. Local(k)
        BY <3>2 DEF Local, Alone
      <4>2. QuestionOk(e)
        BY <1>0, <3>1 DEF QuestionsTrue
      <4>. QED
        BY <3>1, <3>2, <4>1, <4>2 DEF QuestionOk
    <3>4. \A v \in Ready(t) : v.seq < 0
      BY <1>0 DEF Ready, AnswerInv, SeqsTaken
    <3>5. e.seq \in Int
      BY <1>0, <3>1 DEF AnswerInv, SeqsTaken
    <3>6. PICK i \in ping[t].items : i.seq > 0 /\ a.seq = i.seq /\ LocalAnswer(i, a.ok)
      BY <1>2, <2>2, <3>3, <3>4, <3>5
    <3>7. i.key = k
      BY <1>0, <3>1, <3>6 DEF AnswerInv, OneKey, Question
    <3>8. IF a.ok THEN Accepts(k, row[g]) ELSE g \in Refusable \/ ~Accepts(k, row[g])
      BY <3>1, <3>2, <3>6, <3>7 DEF LocalAnswer
    <3>9. Accepts(k, row[g]) <=> row[g].created /\ row[g].del \in {0, k.del}
      BY <3>1 DEF Accepts
    <3>10. ASSUME a.ok, obj[t][g].known, k.del = 0 PROVE FALSE
      <4>1. row[g].del = 0
        BY <3>8, <3>9, <3>10
      <4>2. Deleting(t, g)
        BY <1>0, <3>1, <3>10 DEF Deleting, Waiting, KindKept
      <4>3. k.del \in DelsOf(t, g)
        BY <2>2 DEF DelsOf
      <4>4. Fits(g, k.del)
        BY <4>2, <4>3 DEF DeletesFit, WaitingFits
      <4>. QED
        BY <3>10, <4>1, <4>4 DEF Fits
    <3>11. ASSUME ~a.ok PROVE row'[g].del \notin {0, k.del}
      <4>1. row[g].del \notin {0, k.del}
        BY <3>3, <3>8, <3>9, <3>11 DEF Sure
      <4>. QED
        BY <1>2, <4>1 DEF RowsGrow
    <3>. QED
      BY <2>2, <3>10, <3>11
  <2>. QED
    BY <2>1, <2>2
<1>. QED
  BY <1>4, <1>5, <1>6 DEF DeletesFit

\* A step that changes no tab and tells no more.
LEMMA QuietFits ==
  ASSUME NEW g \in Gifts, UNCHANGED <<store, obj, buffer, pending>>,
         \A u \in Tabs : ping'[u].answers \subseteq ping[u].answers
  PROVE  Calm(g)
<1>1. \A u \in Tabs : Left(u)
  BY SameLeft
<1>2. \A u \in Tabs : Steady(u, g)
  BY <1>1, SameTab
<1>3. SameAnswers(g)
  BY <1>1, StillAnswers
<1>. QED
  BY <1>2, <1>3 DEF Calm

LEMMA LeaveFits ==
  ASSUME BaseInv, NEW t \in Tabs, NEW g \in Gifts, FinishPing(t) \/ RejectPing(t) \/ LosePing(t)
  PROVE  Calm(g)
<1>. USE DEF client, server
<1>1. UNCHANGED <<store, obj, buffer, pending>>
  BY DEF FinishPing, RejectPing, LosePing
<1>2. \E X : ping' = [ping EXCEPT ![t] = X] /\ X.answers \subseteq ping[t].answers
  <2>. DEFINE Y(s, S) == [stage |-> s, items |-> {}, answers |-> S]
  <2>1. \A s, S : Y(s, S).answers = S
    OBVIOUS
  <2>2. \E s, S : S \subseteq ping[t].answers /\ ping' = [ping EXCEPT ![t] = Y(s, S)]
    <3>1. CASE FinishPing(t)
      <4>1. ping' = [ping EXCEPT ![t] = Y("response", ping[t].answers)]
        BY <3>1 DEF FinishPing
      <4>. HIDE DEF Y
      <4>. QED
        BY <4>1
    <3>2. CASE RejectPing(t) \/ LosePing(t)
      <4>1. \E s : ping' = [ping EXCEPT ![t] = Y(s, {})]
        BY <3>2 DEF RejectPing, LosePing, NoPing
      <4>. HIDE DEF Y
      <4>. QED
        BY <4>1
    <3>. QED
      BY <3>1, <3>2
  <2>. HIDE DEF Y
  <2>. QED
    BY <2>1, <2>2
<1>3. PICK X : ping' = [ping EXCEPT ![t] = X] /\ X.answers \subseteq ping[t].answers
  BY <1>2
<1>4. ping'[t] = X /\ \A u \in Tabs \ {t} : ping'[u] = ping[u]
  <2>1. ping = [u \in Tabs |-> ping[u]]
    BY DEF BaseInv, CloneInv, WaitInv, AnswerInv, QuestionType
  <2>. QED
    BY <1>3, <2>1, TabWritten
<1>5. \A u \in Tabs : ping'[u].answers \subseteq ping[u].answers
  BY <1>3, <1>4
<1>. QED
  BY <1>1, <1>5, QuietFits

LEMMA WireFits ==
  ASSUME WireNext, NEW g \in Gifts
  PROVE  Calm(g)
<1>1. UNCHANGED <<store, obj, buffer, pending, ping>>
  BY DEF WireNext, ServerHandle, ReceiveAnswer, LoseMessage, client
<1>. QED
  BY <1>1, QuietFits

\* A deletion that the server has done, or has not.
LEMMA DoneFits ==
  ASSUME BaseInv, NEW t \in Tabs, NEW g \in Gifts, NEW f, NEW e, Answered(t, g, f, e, TRUE),
         obj[t][g].known, obj[t][g].at = "delete", f.key.action = "delete", DeletesFit(g)
  PROVE  store[g].del # 0 => row[g].del = store[g].del
<1>0. CloneInv
  BY DEF BaseInv
<1>1. /\ f \in pending[t] /\ g \in f.objs /\ f.key.gid = g
      /\ Vouched(f.key) /\ \E a \in ping[t].answers : a.seq = f.seq /\ a.ok
  <2>. PICK ok : ok = TRUE
    OBVIOUS
  <2>1. Answered(t, g, f, e, ok)
    OBVIOUS
  <2>2. f \in pending[t] /\ g \in f.objs /\ f.key.gid = g
    BY <1>0, <2>1, AnsweredVouched
  <2>3. ok = Ok(ping[t].answers, f)
    BY <2>1 DEF Answered
  <2>4. \E a \in ping[t].answers : a.seq = f.seq /\ a.ok
    BY <2>3 DEF Ok
  <2>5. f \in Question(t)
    BY <2>2 DEF Question
  <2>6. Vouched(f.key)
    BY <1>0, <2>4, <2>5 DEF CloneInv, AnswersVouched
  <2>. QED
    BY <2>2, <2>4, <2>6
<1>. DEFINE d == f.key.del
<1>2. d # 0 => row[g].del = d
  BY <1>1 DEF Vouched
<1>3. f \in Entries(t, g) /\ Deleting(t, g)
  BY <1>1 DEF Entries, Deleting, Waiting
<1>4. Fits(g, d)
  BY <1>3 DEF DeletesFit, WaitingFits, DelsOf
<1>5. d # 0
  <2>1. CASE Alone(g)
    BY <1>4, <2>1 DEF Fits
  <2>2. CASE ~Alone(g)
    <3>1. PICK a \in ping[t].answers : a.seq = f.seq /\ a.ok
      BY <1>1
    <3>. QED
      BY <1>3, <2>2, <3>1 DEF DeletesFit, AnswersFit
  <2>. QED
    BY <2>1, <2>2
<1>. QED
  BY <1>2, <1>4, <1>5 DEF Fits

LEMMA RefusedFits ==
  ASSUME BaseInv, NEW t \in Tabs, NEW g \in Gifts, NEW f, NEW e, Answered(t, g, f, e, FALSE), Sure(g),
         obj[t][g].known, obj[t][g].at = "delete", f.key.action = "delete", DeletesFit(g), ~Alone(g)
  PROVE  row[g].del \notin {0, store[g].del}
<1>0. CloneInv /\ WaitInv /\ QuestionsTrue /\ LocalsWait
  BY DEF BaseInv, CloneInv
<1>1. /\ f \in pending[t] /\ g \in f.objs /\ f.key.gid = g
      /\ (\E a \in ping[t].answers : a.seq = f.seq) \/ (f.seq > 0 => f.count = Timeout)
      /\ ~Ok(ping[t].answers, f)
  <2>. PICK ok : ok = FALSE
    OBVIOUS
  <2>1. Answered(t, g, f, e, ok)
    OBVIOUS
  <2>2. f \in pending[t] /\ g \in f.objs /\ f.key.gid = g
    BY <1>0, <2>1, AnsweredVouched
  <2>3. ((\E a \in ping[t].answers : a.seq = f.seq) \/ (f.seq > 0 => f.count = Timeout)) /\ ok = Ok(ping[t].answers, f)
    BY <2>1, Zenon DEF Answered
  <2>. QED
    BY <2>2, <2>3
<1>. DEFINE d == f.key.del
<1>2. f \in Entries(t, g) /\ Deleting(t, g)
  BY <1>1 DEF Entries, Deleting, Waiting
<1>3. Fits(g, d)
  BY <1>2 DEF DeletesFit, WaitingFits, DelsOf
<1>4. f.seq > 0
  <2>1. Local(f.key) /\ f \in Question(t)
    BY <1>1 DEF Local, Alone, Question
  <2>2. QuestionOk(f)
    BY <1>0, <2>1 DEF QuestionsTrue
  <2>. QED
    BY <2>1, <2>2 DEF QuestionOk
<1>5. f.count = 0
  BY <1>0, <1>1, <1>4 DEF LocalsWait
<1>6. PICK a \in ping[t].answers : a.seq = f.seq
  BY <1>1, <1>4, <1>5, BoundsAssumption
<1>7. ~a.ok
  BY <1>1, <1>6 DEF Ok
<1>8. row[g].del \notin {0, d}
  BY <1>2, <1>6, <1>7 DEF DeletesFit, AnswersFit
<1>. QED
  BY <1>3, <1>8 DEF Fits

LEMMA ResponseFits ==
  ASSUME BaseInv, NEW t \in Tabs, NEW g \in Gifts, ReceiveResponse(t), Sure(g), DeletesFit(g)
  PROVE  DeletesFit(g)'
<1>. USE DEF client, server
<1>0. CloneInv /\ WaitInv /\ GiftOk(obj[t][g], row[g], clock) /\ SavedOk(store[g], row[g], clock)
  BY DEF BaseInv, CloneInv, GiftsTrue
<1>1. row' = row /\ RowsGrow
  BY DEF ReceiveResponse, RowsGrow
<1>2. /\ Left(t)
      /\ Untouched(t, g) \/ \E f, e : \E ok \in BOOLEAN : Answered(t, g, f, e, ok)
      /\ \A u \in Tabs \ {t} : obj'[u] = obj[u] /\ buffer'[u] = buffer[u] /\ pending'[u] = pending[u]
  BY <1>0, ResponseFields
<1>3. \A u \in Tabs : Left(u)
  BY <1>2, SameLeft
<1>4. \A u \in Tabs \ {t} : Steady(u, g)
  BY <1>2, <1>3, SameTab
<1>5. \A u \in Tabs : ping'[u].answers \subseteq ping[u].answers
  <2>1. ping = [u \in Tabs |-> ping[u]] /\ ping' = [ping EXCEPT ![t] = NoPing]
    BY <1>0 DEF WaitInv, AnswerInv, QuestionType, ReceiveResponse
  <2>2. ping'[t] = NoPing /\ \A u \in Tabs \ {t} : ping'[u] = ping[u]
    BY <2>1, TabWritten
  <2>. QED
    BY <2>2 DEF NoPing
<1>6. CASE Untouched(t, g)
  <2>1. store'[g] = store[g] /\ obj'[t][g] = obj[t][g] /\ Steady(t, g)
    BY <1>2, <1>6, SameTab DEF Untouched
  <2>2. \A u \in Tabs : obj'[u][g].known => obj[u][g].known
    BY <1>2, <2>1
  <2>3. SameAnswers(g)
    BY <1>3, <1>5, <2>2, StillAnswers
  <2>4. Calm(g)
    BY <1>4, <2>1, <2>3 DEF Calm
  <2>. QED
    BY <1>1, <2>4, CalmFits
<1>7. ASSUME NEW f, NEW e, NEW ok \in BOOLEAN, Answered(t, g, f, e, ok)
      PROVE  DeletesFit(g)'
  <2>1. /\ obj'[t][g].known = obj[t][g].known
        /\ \/ Skips(t, g) \/ AsksAgain(t, g) \/ Drops(t, g) \/ IsElsewhere(t, g)
           \/ Creates(t, g, f, ok) \/ Deletes(t, g, f, ok) \/ Undeletes(t, g, f, ok)
    BY <1>0, <1>7, AnsweredFields
  <2>2. Waiting(t, g) /\ \A d \in pending'[t] : g \notin d.objs
    BY <1>7 DEF Answered, Waiting
  <2>3. \A u \in Tabs : obj'[u][g].known => obj[u][g].known
    BY <1>2, <2>1
  <2>4. SameAnswers(g)
    BY <1>3, <1>5, <2>3, StillAnswers
  <2>5. g \notin buffer'[t] => ~Deleting(t, g)'
    BY <2>2 DEF Deleting, Waiting
  <2>6. Steady(t, g)
    <3>1. CASE AsksAgain(t, g)
      BY <1>2, <2>1, <2>2, <3>1, SteadyTab DEF AsksAgain
    <3>2. CASE Drops(t, g)
      BY <3>2 DEF Drops, Steady, Deleting
    <3>3. CASE g \notin buffer'[t]
      BY <2>5, <3>3 DEF Steady
    <3>. QED
      BY <2>1, <3>1, <3>2, <3>3 DEF Skips, IsElsewhere, Creates, Deletes, Undeletes
  <2>7. CASE store'[g].del = store[g].del /\ (store'[g].deleted /\ store[g].del # 0 => store[g].deleted)
    <3>1. Calm(g)
      BY <1>4, <2>4, <2>6, <2>7 DEF Calm
    <3>. QED
      BY <1>1, <3>1, CalmFits
  <2>8. CASE Deletes(t, g, f, ok) /\ obj[t][g].known
    <3>1. ok /\ obj[t][g].at = "delete" /\ f.key.action = "delete"
          /\ store'[g].del = store[g].del
      BY <2>8 DEF Deletes, Fitting, Writes, LooksAgain
    <3>2. Answered(t, g, f, e, TRUE)
      <4>1. ok = TRUE
        BY <3>1
      <4>. QED
        BY <1>7, <4>1
    <3>3. store[g].del # 0 => row[g].del = store[g].del
      BY <2>8, <3>1, <3>2, DoneFits
    <3>4. StoredFits(g)'
      BY <1>1, <3>1, <3>3 DEF StoredFits
    <3>5. WaitingFits(g)' /\ OneDeletes(g)'
      BY <1>1, <1>4, <2>6, <3>1, WaitingStay DEF DeletesFit
    <3>6. AnswersFit(g)'
      BY <1>1, <2>4, AnswersStay DEF DeletesFit
    <3>. QED
      BY <3>4, <3>5, <3>6 DEF DeletesFit
  <2>9. CASE Undeletes(t, g, f, ok) /\ obj[t][g].known
    <3>1. ~ok /\ obj[t][g].at = "delete" /\ f.key.action = "delete"
          /\ store'[g].del = 0 /\ ~store'[g].deleted /\ g \notin buffer'[t]
      BY <2>9 DEF Undeletes, Fitting, Writes
    <3>2. Answered(t, g, f, e, FALSE)
      <4>1. ok = FALSE
        BY <3>1
      <4>. QED
        BY <1>7, <4>1
    <3>3. ~Deleting(t, g)' /\ Deleting(t, g)
      BY <2>2, <2>5, <2>9, <3>1 DEF Deleting
    <3>4. ASSUME NEW u \in Tabs, Deleting(u, g)'
          PROVE  u # t /\ Deleting(u, g) /\ DelsOf(u, g)' = DelsOf(u, g) /\ ~Alone(g)
      <4>1. u # t
        BY <3>3, <3>4
      <4>2. Deleting(u, g) /\ DelsOf(u, g)' = DelsOf(u, g)
        BY <1>2, <3>4, <4>1 DEF Deleting, DelsOf, Entries, Waiting
      <4>. QED
        BY <3>3, <4>1, <4>2 DEF DeletesFit, OneDeletes
    <3>5. ASSUME NEW u \in Tabs, Deleting(u, g)', NEW c \in DelsOf(u, g)'
          PROVE  Fits(g, c)'
      <4>1. u # t /\ Deleting(u, g) /\ c \in DelsOf(u, g) /\ ~Alone(g)
        BY <3>4, <3>5
      <4>2. row[g].del \notin {0, store[g].del}
        BY <2>9, <3>1, <3>2, <4>1, RefusedFits
      <4>3. Fits(g, c)
        BY <4>1 DEF DeletesFit, WaitingFits
      <4>4. row[g].del \notin {0, c}
        BY <4>2, <4>3 DEF Fits
      <4>. QED
        BY <1>1, <3>1, <4>1, <4>4 DEF Fits, Alone
    <3>6. StoredFits(g)' /\ WaitingFits(g)'
      BY <3>1, <3>5 DEF StoredFits, WaitingFits
    <3>7. OneDeletes(g)'
      <4>1. Alone(g)' => \A u \in Tabs : ~Deleting(u, g)'
        BY <3>4 DEF Alone
      <4>. QED
        BY <4>1 DEF OneDeletes
    <3>8. AnswersFit(g)'
      BY <1>1, <2>4, AnswersStay DEF DeletesFit
    <3>. QED
      BY <3>6, <3>7, <3>8 DEF DeletesFit
  <2>10. CASE ~obj[t][g].known
    <3>1. store'[g] = store[g]
      BY <2>1, <2>10 DEF Skips, AsksAgain, Drops, IsElsewhere, Creates, Deletes, Undeletes, Writes
    <3>. QED
      BY <2>7, <3>1
  <2>11. CASE Creates(t, g, f, ok) /\ obj[t][g].known
    <3>1. store'[g].del = store[g].del /\ store'[g].deleted = obj[t][g].deleted /\ obj[t][g].at = "create"
      BY <2>11 DEF Creates, Writes, Fitting
    <3>2. ~obj[t][g].deleted
      BY <1>0, <3>1 DEF GiftOk
    <3>. QED
      BY <2>7, <3>1, <3>2
  <2>12. CASE Skips(t, g) \/ AsksAgain(t, g) \/ Drops(t, g) \/ IsElsewhere(t, g)
    <3>1. store'[g] = store[g]
      BY <2>12 DEF Skips, AsksAgain, Drops, IsElsewhere
    <3>. QED
      BY <2>7, <3>1
  <2>. QED
    BY <2>1, <2>8, <2>9, <2>10, <2>11, <2>12
<1>. QED
  BY <1>2, <1>6, <1>7

LEMMA StoreInit ==
  ASSUME Init
  PROVE  StoreInv
<1>1. BaseInv
  BY BaseInit
<1>2. \A t \in Tabs : pending[t] = {} /\ buffer[t] = {}
  BY DEF Init
<1>3. \A t \in Tabs, g \in Gifts : ~Deleting(t, g) /\ Entries(t, g) = {}
  BY <1>2 DEF Deleting, Waiting, Entries
<1>4. \A g \in Gifts : ~store[g].deleted
  BY DEF Init, NoStore
<1>. QED
  BY <1>1, <1>3, <1>4 DEF StoreInv, DeletesFit, StoredFits, WaitingFits, OneDeletes, AnswersFit

LEMMA StoreStep ==
  ASSUME StoreInv, [Next]_vars
  PROVE  StoreInv'
<1>1. BaseInv /\ BaseInv'
  BY BaseStep DEF StoreInv
<1>2. ASSUME NEW g \in Gifts, Sure(g), DeletesFit(g) PROVE DeletesFit(g)'
  <2>1. ASSUME NEW t \in Tabs, UserNext(t) PROVE DeletesFit(g)'
    BY <1>1, <1>2, <2>1, UserFits
  <2>2. ASSUME NEW t \in Tabs, PingNext(t) PROVE DeletesFit(g)'
    <3>1. RowsGrow
      BY <1>1, <2>2, PingGifts
    <3>2. CASE HandlePing(t) \/ ReceiveResponse(t)
      BY <1>1, <1>2, <3>2, HandleFits, ResponseFits
    <3>3. CASE SendPing(t) \/ FinishPing(t) \/ RejectPing(t) \/ LosePing(t)
      <4>1. Calm(g)
        BY <1>1, <3>3, SendFits, LeaveFits
      <4>. QED
        BY <1>2, <3>1, <4>1, CalmFits
    <3>. QED
      BY <2>2, <3>2, <3>3 DEF PingNext
  <2>3. CASE WireNext
    BY <1>1, <1>2, <2>3, WireGifts, WireFits, CalmFits
  <2>4. CASE UNCHANGED vars
    <3>1. UNCHANGED <<store, obj, buffer, pending, ping, row>>
      BY <2>4 DEF vars, client, server
    <3>2. RowsGrow /\ Calm(g)
      BY <3>1, QuietFits DEF RowsGrow
    <3>. QED
      BY <1>2, <3>2, CalmFits
  <2>. QED
    BY <2>1, <2>2, <2>3, <2>4 DEF Next
<1>3. \A g \in Gifts : Sure(g)' = Sure(g)
  BY DEF Sure, Alone
<1>. QED
  BY <1>1, <1>2, <1>3 DEF StoreInv

\* What the localStorage says has been deleted at the server is, with the same timestamp: for a
\* gift whose deletion cannot be refused, and for any gift of the other server or of a user with
\* one tab.  With refusals a second tab can save its own timestamp over the one the server has.
THEOREM DeletionsAreTrue ==
  Spec => [](\A g \in Gifts : Sure(g) => (store[g].deleted /\ store[g].del # 0 => row[g].del = store[g].del))
<1>1. Init => StoreInv
  BY StoreInit
<1>2. StoreInv /\ [Next]_vars => StoreInv'
  BY StoreStep
<1>3. StoreInv => \A g \in Gifts : Sure(g) => (store[g].deleted /\ store[g].del # 0 => row[g].del = store[g].del)
  BY DEF StoreInv, DeletesFit, StoredFits
<1>. QED
  BY <1>1, <1>2, <1>3, PTL DEF Spec

\* What the localStorage says the server has confirmed is so, in any order of lost responses,
\* reloads, timeouts and given up deletions, when the actions on this server's gifts are not
\* refused or the user has one tab.
THEOREM StoreIsTrue ==
  ASSUME Refusable \subseteq There \/ \A t, u \in Tabs : t = u
  PROVE  Spec => []StoreTrue
<1>1. Init => StoreInv
  BY StoreInit
<1>2. StoreInv /\ [Next]_vars => StoreInv'
  BY StoreStep
<1>3. StoreInv => StoreTrue
  <2>1. \A g \in Gifts : Sure(g)
    BY DEF Sure, Alone
  <2>. QED
    BY <2>1 DEF StoreInv, BaseInv, GiftsTrue, SavedOk, DeletesFit, StoredFits, StoreTrue
<1>. QED
  BY <1>1, <1>2, <1>3, PTL DEF Spec

----------------------------------------------------------------------------
\* Types: the timestamps are bounded by MaxClock, and no action waits longer than Timeout.

KeysOk        == \A t \in Tabs : \A q \in Question(t) : q.key \in Keys
CopiesStamped == \A t \in Tabs, c \in Clones : obj[t][c].del \in Stamps
CountsOk      == \A t \in Tabs : \A e \in pending[t] : e.count \in Nat /\ e.count < Timeout
PingOk(p) ==
  /\ p.stage \in {"idle", "request", "read", "response", "rejected"}
  /\ p.items \subseteq [seq : Int, key : Keys]
  /\ p.answers \subseteq [seq : Int, gid : Gifts, ok : BOOLEAN]
ServersOk ==
  /\ \A g \in Gifts : row[g].created \in BOOLEAN
  /\ \A v \in vg : v.ok \in Oks
  /\ \A m \in wire : m.type \in {"request", "answer"} /\ m.ok \in Oks
  /\ blocked \in BOOLEAN

TypeInv ==
  /\ BaseInv /\ clock \in Stamps /\ oldSeq \in [Tabs -> 0..seqLS]
  /\ KeysOk /\ CopiesStamped /\ CountsOk /\ ServersOk
  /\ \A t \in Tabs : PingOk(ping[t])

LEMMA KeysStay ==
  ASSUME KeysOk, NothingNew
  PROVE  KeysOk'
  BY DEF KeysOk, NothingNew

LEMMA OldSeqStays ==
  ASSUME oldSeq \in [Tabs -> 0..seqLS], seqLS \in Nat, seqLS' \in Nat, seqLS <= seqLS', oldSeq' = oldSeq
  PROVE  oldSeq' \in [Tabs -> 0..seqLS']
<1>1. \A u \in Tabs : oldSeq[u] \in 0..seqLS'
  OBVIOUS
<1>. QED
  BY <1>1

\* A verdict does not change the timestamp of a copy.
LEMMA AfterVerify ==
  ASSUME NEW x \in Shape, x.at = "verify", NEW e, NEW ok \in BOOLEAN, e.key.action \in Actions
  PROVE  After(x, e, ok).del = x.del
<1>1. CASE Outcome(x, e, ok) = "skip"
  BY <1>1, Zenon DEF After
<1>2. CASE Outcome(x, e, ok) = "again"
  <2>. DEFINE z == Reset(x)
  <2>1. After(x, e, ok) = IF Requeues(x, e) THEN [z EXCEPT !.at = e.key.action] ELSE z
    BY <1>2 DEF After
  <2>2. z \in Shape /\ z.del = x.del
    BY ResetShape, ResetFields
  <2>. HIDE DEF z
  <2>3. [z EXCEPT !.at = e.key.action].del = z.del
    BY <2>2 DEF Shape
  <2>. QED
    BY <2>1, <2>2, <2>3
<1>3. CASE Outcome(x, e, ok) = "verified"
  BY <1>3 DEF After, Shape
<1>4. Outcome(x, e, ok) \in {"skip", "again", "verified"}
  BY DEF Outcome
<1>. QED
  BY <1>1, <1>2, <1>3, <1>4

LEMMA UserTypes ==
  ASSUME TypeInv, BaseInv', NEW t \in Tabs, UserNext(t)
  PROVE  TypeInv'
<1>. USE DEF client, server
<1>0. /\ WaitInv /\ AnswerInv /\ seqLS \in Nat /\ clock \in Nat
      /\ oldSeq \in [Tabs -> 0..seqLS] /\ KeysOk /\ CopiesStamped /\ CountsOk /\ ServersOk /\ clock \in Stamps
      /\ pending = [u \in Tabs |-> pending[u]] /\ obj = [u \in Tabs |-> obj[u]]
      /\ Gifts \subseteq Objects /\ Clones \subseteq Objects /\ (\A g \in Gifts : g \notin Clones)
  BY GiftsAssumption DEF TypeInv, BaseInv, CloneInv, WaitInv, AnswerInv, QuestionType, ObjectType, Objects
<1>1. UNCHANGED <<row, vg, wire, blocked, ping>>
  BY DEF UserNext, CreateGift, RefreshGift, DeleteGift, ReceiveClone, UseClone, GiveUpClone, Reload, Sync
<1>2. clock' \in Stamps
  <2>1. clock' = clock \/ (clock < MaxClock /\ clock' = clock + 1)
    BY DEF UserNext, CreateGift, RefreshGift, DeleteGift, ReceiveClone, UseClone, GiveUpClone, Reload, Sync
  <2>. QED
    BY <1>0, <2>1, BoundsAssumption DEF Stamps
<1>3. oldSeq' \in [Tabs -> 0..seqLS']
  <2>1. \/ (seqLS' = seqLS \/ seqLS' = seqLS + 1) /\ oldSeq' = oldSeq
        \/ seqLS' = seqLS /\ oldSeq' = [oldSeq EXCEPT ![t] = seqLS]
    BY DEF UserNext, CreateGift, RefreshGift, DeleteGift, ReceiveClone, UseClone, GiveUpClone, Reload, Sync
  <2>2. CASE (seqLS' = seqLS \/ seqLS' = seqLS + 1) /\ oldSeq' = oldSeq
    BY <1>0, <2>2, OldSeqStays
  <2>3. CASE seqLS' = seqLS /\ oldSeq' = [oldSeq EXCEPT ![t] = seqLS]
    BY <1>0, <2>3
  <2>. QED
    BY <2>1, <2>2, <2>3
<1>4. KeysOk'
  BY <1>0, UserStep, KeysStay
<1>5. 0 \in Stamps
  BY BoundsAssumption DEF Stamps
<1>6. CopiesStamped'
  <2>. SUFFICES ASSUME NEW u \in Tabs, NEW c \in Clones
                PROVE  obj'[u][c].del \in Stamps
    BY DEF CopiesStamped
  <2>0. c \in Objects /\ obj[u][c].del \in Stamps
    BY <1>0 DEF CopiesStamped
  <2>1. ASSUME NEW o \in Objects, NEW v, SetObj(t, o, v), v.del \in Stamps \/ o # c
        PROVE  obj'[u][c].del \in Stamps
    BY <1>0, <2>0, <2>1, ObjSet
  <2>2. ASSUME NEW g \in Gifts, CreateGift(t, g) \/ RefreshGift(t, g) \/ DeleteGift(t, g)
        PROVE  obj'[u][c].del \in Stamps
    <3>1. \E v : SetObj(t, g, v)
      BY <2>2 DEF CreateGift, RefreshGift, DeleteGift
    <3>2. g # c /\ g \in Objects
      BY <1>0
    <3>. QED
      BY <2>1, <3>1, <3>2
  <2>3. ASSUME NEW d \in Clones, NEW g \in Gifts, ReceiveClone(t, d, g)
        PROVE  obj'[u][c].del \in Stamps
    <3>1. PICK n \in Stamps : SetObj(t, d, NewClone(g, n))
      BY <2>3 DEF ReceiveClone, NewClone
    <3>2. NewClone(g, n).del = n
      BY DEF NewClone, NoObj
    <3>. QED
      BY <1>0, <2>1, <3>1, <3>2
  <2>4. ASSUME NEW d \in Clones, UseClone(t, d) \/ GiveUpClone(t, d)
        PROVE  obj'[u][c].del \in Stamps
    <3>1. SetObj(t, d, NoObj)
      BY <2>4 DEF UseClone, GiveUpClone
    <3>. QED
      BY <1>0, <1>5, <2>1, <3>1, NoObjFields
  <2>5. CASE Reload(t)
    <3>. DEFINE again(g) == IF ~store[g].created THEN "create"
                            ELSE IF g \notin There /\ store[g].del # 0 THEN "delete" ELSE "none"
                saved == {g \in Gifts : store[g].saved}
                fresh(o) == [Loaded(o, TRUE) EXCEPT !.deleted = FALSE, !.at = again(o)]
                objs == [o \in Objects |-> IF o \in saved THEN fresh(o) ELSE NoObj]
    <3>1. obj' = [obj EXCEPT ![t] = objs]
      BY <2>5 DEF Reload
    <3>2. objs[c] = NoObj
      BY <1>0
    <3>. HIDE DEF objs
    <3>3. obj'[t] = objs /\ \A w \in Tabs \ {t} : obj'[w] = obj[w]
      BY <1>0, <3>1, TabWritten
    <3>. QED
      BY <1>5, <2>0, <3>2, <3>3, NoObjFields
  <2>6. CASE Sync(t)
    <3>. DEFINE new(o) == IF o \in Clones \/ ~store[o].saved THEN obj[t][o]
                          ELSE IF obj[t][o].here
                               THEN [obj[t][o] EXCEPT !.created = store[o].created, !.del = store[o].del]
                               ELSE Loaded(o, obj[t][o].known)
                objs == [o \in Objects |-> new(o)]
    <3>1. obj' = [obj EXCEPT ![t] = objs]
      BY <2>6 DEF Sync
    <3>2. objs[c] = obj[t][c]
      BY <1>0
    <3>. HIDE DEF objs
    <3>3. obj'[t] = objs /\ \A w \in Tabs \ {t} : obj'[w] = obj[w]
      BY <1>0, <3>1, TabWritten
    <3>4. obj[t][c].del \in Stamps
      BY <1>0 DEF CopiesStamped
    <3>. QED
      BY <2>0, <3>2, <3>3, <3>4
  <2>. QED
    BY <2>2, <2>3, <2>4, <2>5, <2>6 DEF UserNext
<1>7. CountsOk'
  <2>1. CASE pending' = pending
    BY <1>0, <2>1 DEF CountsOk
  <2>2. CASE \E c \in Clones : GiveUpClone(t, c)
    <3>1. PICK c \in Clones : GiveUpClone(t, c)
      BY <2>2
    <3>. DEFINE P == {[e EXCEPT !.objs = e.objs \ {c}] : e \in {f \in pending[t] : f.objs # {c}}}
    <3>2. pending' = [pending EXCEPT ![t] = P]
      BY <3>1 DEF GiveUpClone
    <3>3. \A e \in P : \E f \in pending[t] : e.count = f.count
      <4>1. \A f \in pending[t] : f = [seq |-> f.seq, key |-> f.key, objs |-> f.objs, count |-> f.count]
        BY TabKeeps, <1>0
      <4>2. \A f \in pending[t] : [f EXCEPT !.objs = f.objs \ {c}].count = f.count
        BY <4>1
      <4>. QED
        BY <4>2
    <3>. HIDE DEF P
    <3>4. pending'[t] = P /\ \A u \in Tabs \ {t} : pending'[u] = pending[u]
      BY <1>0, <3>2, TabWritten
    <3>. QED
      BY <1>0, <3>3, <3>4 DEF CountsOk
  <2>3. CASE Reload(t)
    <3>1. pending'[t] = {} /\ \A u \in Tabs \ {t} : pending'[u] = pending[u]
      BY <1>0, <2>3, ReloadFields
    <3>. QED
      BY <1>0, <3>1 DEF CountsOk
  <2>. QED
    BY <2>1, <2>2, <2>3 DEF UserNext, CreateGift, RefreshGift, DeleteGift, ReceiveClone, UseClone, Sync
<1>8. ServersOk' /\ \A u \in Tabs : PingOk(ping'[u])
  BY <1>0, <1>1 DEF ServersOk, TypeInv
<1>. QED
  BY <1>2, <1>3, <1>4, <1>6, <1>7, <1>8 DEF TypeInv

\* The localStorage sequence never goes back.
LEMMA SendSeq ==
  ASSUME AnswerInv, NEW t \in Tabs, SendPing(t)
  PROVE  seqLS' \in Nat /\ seqLS <= seqLS'
<1>. DEFINE
       todo   == {o \in buffer[t] : obj[t][o].verified = "none" /\ obj[t][o].seq = 0}
       keys   == {Key(obj[t][o]) : o \in todo}
       theirs == {k \in {l \in keys : Entry(t, l) = {}} : ~Local(k)}
       remotes == SetToSeq(theirs)
<1>1. seqLS' = seqLS + Len(remotes)
  BY DEF SendPing
<1>2. IsFiniteSet(todo)
  <2>1. buffer[t] \subseteq Objects
    BY TabKeeps
  <2>. QED
    BY <2>1, GiftsAssumption, FS_Subset DEF Objects
<1>3. IsFiniteSet(keys)
  <2>. DEFINE f == [o \in todo |-> Key(obj[t][o])]
  <2>1. f \in Surjection(todo, keys)
    BY DEF Surjection
  <2>. HIDE DEF todo, keys, f
  <2>. QED
    BY <1>2, <2>1, FS_Surjection
<1>4. IsFiniteSet(theirs)
  <2>1. theirs \in SUBSET keys
    OBVIOUS
  <2>. HIDE DEF theirs, keys
  <2>. QED
    BY <1>3, <2>1, FS_Subset
<1>5. Len(remotes) \in Nat
  <2>. HIDE DEF theirs
  <2>. QED
    BY <1>4, ListedAll
<1>6. seqLS \in Nat
  BY TabKeeps
<1>. HIDE DEF remotes
<1>. QED
  BY <1>1, <1>5, <1>6

\* The request of an object that waits in the buffer.
LEMMA AskedKey ==
  ASSUME TypeInv, NEW t \in Tabs, NEW o \in buffer[t]
  PROVE  Key(obj[t][o]) \in Keys
<1>. PICK x : x = obj[t][o]
  OBVIOUS
<1>1. WaitInv /\ GiftsTrue /\ CopiesStamped /\ clock \in Stamps
  BY DEF TypeInv, BaseInv, CloneInv
<1>2. o \in Objects /\ x \in Shape /\ Queued(x) /\ Sound(o, x)
  <2>1. o \in Objects
    BY <1>1, TabKeeps DEF WaitInv
  <2>. QED
    BY <1>1, <2>1 DEF WaitInv, TabInv, ObjectType
<1>3. x.gid \in Gifts /\ x.at \in Actions
  BY <1>2 DEF Queued, Sound, Shape
<1>4. x.del \in Stamps
  <2>1. CASE o \in Gifts
    <3>1. x.del \in 0..clock
      BY <1>1, <2>1 DEF GiftsTrue, GiftOk
    <3>. QED
      BY <1>1, <3>1, BoundsAssumption DEF Stamps
  <2>2. CASE o \in Clones
    BY <1>1, <2>2 DEF CopiesStamped
  <2>. QED
    BY <1>2, <2>1, <2>2 DEF Objects
<1>. QED
  BY <1>3, <1>4 DEF Key, Keys

LEMMA SendTypes ==
  ASSUME TypeInv, BaseInv', NEW t \in Tabs, SendPing(t)
  PROVE  TypeInv'
<1>. USE DEF client, server
<1>0. /\ WaitInv /\ AnswerInv /\ seqLS \in Nat
      /\ oldSeq \in [Tabs -> 0..seqLS] /\ KeysOk /\ CopiesStamped /\ CountsOk /\ ServersOk /\ clock \in Stamps
      /\ (\A u \in Tabs : PingOk(ping[u]))
      /\ pending = [u \in Tabs |-> pending[u]] /\ obj = [u \in Tabs |-> obj[u]] /\ ping = [u \in Tabs |-> ping[u]]
      /\ Clones \subseteq Objects
  BY DEF TypeInv, BaseInv, CloneInv, WaitInv, AnswerInv, QuestionType, ObjectType, Objects
<1>1. UNCHANGED <<row, vg, wire, blocked, clock, oldSeq>>
  BY DEF SendPing
<1>2. oldSeq' \in [Tabs -> 0..seqLS']
  BY <1>0, <1>1, SendSeq, OldSeqStays
<1>3. /\ \A e \in pending'[t] : KeptEntry(t, e) \/ NewEntry(t, e)
      /\ \A i \in ping'[t].items : \E e \in pending'[t] : i.seq = e.seq /\ i.key = e.key
      /\ ping'[t].answers = {}
      /\ \A u \in Tabs \ {t} : obj'[u] = obj[u] /\ pending'[u] = pending[u] /\ ping'[u] = ping[u]
  BY <1>0, SendFields
<1>4. \A e \in pending'[t] : e.key \in Keys /\ e.count \in Nat /\ e.count < Timeout
  <2>. TAKE e \in pending'[t]
  <2>1. CASE KeptEntry(t, e)
    <3>1. PICK f \in pending[t] : e.key = f.key /\ e.count = f.count
      BY <2>1 DEF KeptEntry
    <3>2. f \in Question(t)
      BY DEF Question
    <3>. QED
      BY <1>0, <3>1, <3>2 DEF KeysOk, CountsOk
  <2>2. CASE NewEntry(t, e)
    <3>1. PICK o : Adds(t, o, e.key)
      BY <2>2 DEF NewEntry
    <3>2. o \in buffer[t] /\ Key(obj[t][o]) = e.key
      BY <3>1 DEF Adds
    <3>3. e.key \in Keys
      BY <3>2, AskedKey
    <3>. QED
      BY <2>2, <3>3, BoundsAssumption DEF NewEntry
  <2>. QED
    BY <1>3, <2>1, <2>2
<1>5. KeysOk'
  <2>. SUFFICES ASSUME NEW u \in Tabs, NEW q \in Question(u)'
                PROVE  q.key \in Keys
    BY DEF KeysOk
  <2>1. CASE q \in Question(u)
    BY <1>0, <2>1 DEF KeysOk
  <2>2. CASE u = t /\ q \in pending'[t] \union ping'[t].items
    BY <1>3, <1>4, <2>2
  <2>3. Traces(u)' = Traces(u)
    BY <1>1 DEF Traces
  <2>4. Question(u)' = pending'[u] \union ping'[u].items \union Traces(u)
    BY <2>3 DEF Question
  <2>. QED
    BY <1>3, <2>1, <2>2, <2>4 DEF Question
<1>6. CountsOk'
  <2>. SUFFICES ASSUME NEW u \in Tabs, NEW e \in pending'[u]
                PROVE  e.count \in Nat /\ e.count < Timeout
    BY DEF CountsOk
  <2>. QED
    BY <1>0, <1>3, <1>4 DEF CountsOk
<1>7. PingOk(ping'[t])
  <2>1. PICK S : ping' = [ping EXCEPT ![t] = [stage |-> "request", answers |-> {},
                   items |-> {[seq |-> e.seq, key |-> e.key] : e \in S}]]
    BY DEF SendPing
  <2>. DEFINE items == {[seq |-> e.seq, key |-> e.key] : e \in S}
              X == [stage |-> "request", answers |-> {}, items |-> items]
  <2>2. \A i \in items : i = [seq |-> i.seq, key |-> i.key]
    OBVIOUS
  <2>3. X.stage = "request" /\ X.items = items
    <3>. HIDE DEF items
    <3>. QED
      OBVIOUS
  <2>4. ping' = [ping EXCEPT ![t] = X]
    BY <2>1
  <2>. HIDE DEF X, items
  <2>5. ping'[t] = X
    BY <1>0, <2>4, TabWritten
  <2>6. \A i \in ping'[t].items : i.seq \in Int /\ i.key \in Keys
    <3>. TAKE i \in ping'[t].items
    <3>1. i \in Question(t)'
      BY DEF Question
    <3>2. i.seq \in Int
      BY <3>1 DEF BaseInv, CloneInv, WaitInv, AnswerInv, SeqsTaken
    <3>. QED
      BY <1>5, <3>1, <3>2 DEF KeysOk
  <2>7. ping'[t].items \subseteq [seq : Int, key : Keys]
    BY <2>2, <2>3, <2>5, <2>6
  <2>. QED
    BY <1>3, <2>3, <2>5, <2>7 DEF PingOk
<1>8. CopiesStamped'
  <2>. SUFFICES ASSUME NEW c \in Clones
                PROVE  obj'[t][c].del \in Stamps
    BY <1>0, <1>3 DEF CopiesStamped
  <2>1. PICK S, f : obj' = [obj EXCEPT ![t] = [o \in Objects |-> IF o \in S THEN [obj[t][o] EXCEPT !.seq = f[o]] ELSE obj[t][o]]]
    <3>. DEFINE
       todo   == {o \in buffer[t] : obj[t][o].verified = "none" /\ obj[t][o].seq = 0}
       objs(k) == {o \in todo : Key(obj[t][o]) = k}
       keys   == {Key(obj[t][o]) : o \in todo}
       fresh  == {k \in keys : Entry(t, k) = {}}
       locals == SetToSeq({k \in fresh : Local(k)})
       remotes == SetToSeq({k \in fresh : ~Local(k)})
       last   == Max0({e.seq : e \in pending[t]})
       new    == {[seq |-> last + i, key |-> locals[i], objs |-> objs(locals[i]), count |-> 0] : i \in DOMAIN locals}
                   \union {[seq |-> RemoteSeq(i), key |-> remotes[i], objs |-> objs(remotes[i]), count |-> 0] : i \in DOMAIN remotes}
       joined == {[e EXCEPT !.objs = e.objs \union objs(e.key)] : e \in pending[t]}
       seqOf(k) == (CHOOSE e \in new \union joined : e.key = k).seq
    <3>1. obj' = [obj EXCEPT ![t] = [o \in Objects |-> IF o \in todo THEN [obj[t][o] EXCEPT !.seq = seqOf(Key(obj[t][o]))] ELSE obj[t][o]]]
      BY DEF SendPing
    <3>. HIDE DEF todo, seqOf
    <3>. DEFINE f == [o \in Objects |-> seqOf(Key(obj[t][o]))]
    <3>2. obj' = [obj EXCEPT ![t] = [o \in Objects |-> IF o \in todo THEN [obj[t][o] EXCEPT !.seq = f[o]] ELSE obj[t][o]]]
      BY <3>1
    <3>. HIDE DEF f
    <3>. QED
      BY <3>2, Zenon
  <2>. DEFINE after == [o \in Objects |-> IF o \in S THEN [obj[t][o] EXCEPT !.seq = f[o]] ELSE obj[t][o]]
  <2>. PICK x : x = obj[t][c]
    OBVIOUS
  <2>2. x \in Shape /\ x.del \in Stamps /\ c \in Objects
    BY <1>0 DEF WaitInv, ObjectType, CopiesStamped
  <2>3. after[c] = x \/ after[c] = [x EXCEPT !.seq = f[c]]
    BY <2>2
  <2>4. obj' = [obj EXCEPT ![t] = after]
    BY <2>1
  <2>. HIDE DEF after
  <2>5. obj'[t] = after
    BY <1>0, <2>4, TabWritten
  <2>6. [x EXCEPT !.seq = f[c]].del = x.del
    BY <2>2 DEF Shape
  <2>. QED
    BY <2>2, <2>3, <2>5, <2>6
<1>9. ServersOk' /\ \A u \in Tabs : PingOk(ping'[u])
  BY <1>0, <1>1, <1>3, <1>7 DEF ServersOk
<1>. QED
  BY <1>0, <1>1, <1>2, <1>5, <1>6, <1>8, <1>9 DEF TypeInv

LEMMA AnswerType ==
  ASSUME NEW n \in Int, NEW g \in Gifts, NEW b \in BOOLEAN
  PROVE  [seq |-> n, gid |-> g, ok |-> b] \in [seq : Int, gid : Gifts, ok : BOOLEAN]
  OBVIOUS

LEMMA AppliedType ==
  ASSUME NEW k, NEW r, k.action \in Actions, r.created \in BOOLEAN, r = [created |-> r.created, del |-> r.del]
  PROVE  Applied(k, r).created \in BOOLEAN
<1>1. CASE k.action = "create"
  <2>1. [r EXCEPT !.created = TRUE].created = TRUE
    OBVIOUS
  <2>. QED
    BY <1>1, <2>1 DEF Applied
<1>2. CASE k.action = "verify"
  BY <1>2 DEF Applied
<1>3. CASE k.action = "delete"
  <2>1. [r EXCEPT !.del = k.del].created = r.created
    OBVIOUS
  <2>2. Applied(k, r) = [r EXCEPT !.del = k.del]
    BY <1>3 DEF Applied
  <2>. QED
    BY <2>1, <2>2
<1>. QED
  BY <1>1, <1>2, <1>3 DEF Actions

LEMMA HandleTypes ==
  ASSUME TypeInv, BaseInv', NEW t \in Tabs, HandlePing(t)
  PROVE  TypeInv'
<1>. USE DEF client, server
<1>0. /\ CloneInv /\ WaitInv /\ AnswerInv /\ seqLS \in Nat
      /\ oldSeq \in [Tabs -> 0..seqLS] /\ KeysOk /\ CopiesStamped /\ CountsOk /\ ServersOk /\ clock \in Stamps
      /\ (\A u \in Tabs : PingOk(ping[u]))
      /\ ping = [u \in Tabs |-> ping[u]]
  BY DEF TypeInv, BaseInv, CloneInv, WaitInv, AnswerInv, QuestionType, ObjectType
<1>. DEFINE local  == {i \in ping[t].items : i.seq > 0}
            asked(refused)   == local \ refused
            dels(refused, i) == {j \in asked(refused) : /\ j.seq < i.seq /\ j.key.gid = i.key.gid /\ j.key.action = "delete"
                                                        /\ Accepts(j.key, row[j.key.gid])}
            seen(refused, i) == IF dels(refused, i) = {} THEN row[i.key.gid]
                                ELSE Applied((CHOOSE j \in dels(refused, i) : TRUE).key, row[i.key.gid])
            goodOf(refused)  == {i \in asked(refused) : Accepts(i.key, seen(refused, i))}
            rows(good) == [g \in Gifts |->
              LET mine == {i \in good : i.key.gid = g /\ i.key.action # "verify"}
              IN IF mine = {} THEN row[g] ELSE Applied((CHOOSE i \in mine : TRUE).key, row[g])]
            told(good) == [stage |-> "read", items |-> ping[t].items,
              answers |-> Answers(Ready(t))
                \union {[seq |-> i.seq, gid |-> i.key.gid, ok |-> i \in good] : i \in local}]
<1>1. \E refused \in SUBSET {i \in local : i.key.gid \in Refusable} :
         row' = rows(goodOf(refused)) /\ ping' = [ping EXCEPT ![t] = told(goodOf(refused))]
  BY DEF HandlePing
<1>2. PICK refused \in SUBSET {i \in local : i.key.gid \in Refusable} :
         row' = rows(goodOf(refused)) /\ ping' = [ping EXCEPT ![t] = told(goodOf(refused))]
  BY <1>1
<1>. DEFINE good == goodOf(refused)
<1>3. row' = rows(good) /\ ping' = [ping EXCEPT ![t] = told(good)] /\ good \subseteq ping[t].items
  BY <1>2
<1>. HIDE DEF good
<1>4. UNCHANGED <<store, seqLS, clock, obj, buffer, pending, oldSeq, wire, blocked>>
  BY DEF HandlePing
<1>5. /\ RowsGrow /\ RowType' /\ ping'[t].items = ping[t].items
      /\ \A u \in Tabs \ {t} : ping'[u] = ping[u]
  BY <1>0, HandleFields
<1>6. KeysOk'
  BY <1>0, PingStep, KeysStay
<1>7. \A v \in vg' : v.ok \in Oks
  <2>1. vg' = vg \union {[tab |-> t, seq |-> i.seq, key |-> i.key, ok |-> "none"] : i \in ping[t].items \ {j \in ping[t].items : j.seq > 0}}
    BY DEF HandlePing
  <2>2. \A v \in vg' : v \in vg \/ v.ok = "none"
    BY <2>1
  <2>. QED
    BY <1>0, <2>2 DEF ServersOk, Oks
<1>8. ping'[t].stage = "read" /\ ping'[t].answers \subseteq [seq : Int, gid : Gifts, ok : BOOLEAN]
  <2>. DEFINE mine == {[seq |-> i.seq, gid |-> i.key.gid, ok |-> i \in good] : i \in local}
              theirs == Answers(Ready(t))
              X == [stage |-> "read", items |-> ping[t].items, answers |-> theirs \union mine]
  <2>2. mine \subseteq [seq : Int, gid : Gifts, ok : BOOLEAN]
    <3>1. \A i \in ping[t].items : i.seq \in Int /\ i.key.gid \in Gifts
      BY <1>0 DEF PingOk, Keys
    <3>. SUFFICES ASSUME NEW a \in mine
                  PROVE  a \in [seq : Int, gid : Gifts, ok : BOOLEAN]
      OBVIOUS
    <3>2. PICK i \in local : a = [seq |-> i.seq, gid |-> i.key.gid, ok |-> i \in good]
      OBVIOUS
    <3>3. CASE i \in good
      <4>1. a = [seq |-> i.seq, gid |-> i.key.gid, ok |-> TRUE]
        BY <3>2, <3>3
      <4>. QED
        BY <3>1, <4>1, AnswerType
    <3>4. CASE i \notin good
      <4>1. (i \in good) = FALSE
        BY <3>4
      <4>2. a = [seq |-> i.seq, gid |-> i.key.gid, ok |-> FALSE]
        BY <3>2, <4>1, Zenon
      <4>. QED
        BY <3>1, <4>2, AnswerType
    <3>. QED
      BY <3>3, <3>4
  <2>3. theirs \subseteq [seq : Int, gid : Gifts, ok : BOOLEAN]
    <3>1. \A v \in Ready(t) : v.seq \in Int /\ v.key.gid \in Gifts
      <4>1. \A v \in Ready(t) : v \in Question(t)
        BY DEF Ready, Question, Traces
      <4>. QED
        BY <1>0, <4>1 DEF KeysOk, Keys, AnswerInv, SeqsTaken
    <3>. SUFFICES ASSUME NEW a \in theirs
                  PROVE  a \in [seq : Int, gid : Gifts, ok : BOOLEAN]
      OBVIOUS
    <3>2. PICK v \in Ready(t) : a = [seq |-> v.seq, gid |-> v.key.gid, ok |-> v.ok = "true"]
      BY DEF Answers
    <3>3. PICK b \in BOOLEAN : b = (v.ok = "true")
      OBVIOUS
    <3>4. a = [seq |-> v.seq, gid |-> v.key.gid, ok |-> b]
      BY <3>2, <3>3, Zenon
    <3>. QED
      BY <3>1, <3>4, AnswerType
  <2>4. ping' = [ping EXCEPT ![t] = X]
    BY <1>3
  <2>. HIDE DEF mine, theirs
  <2>5. X.stage = "read" /\ X.answers = theirs \union mine
    OBVIOUS
  <2>. HIDE DEF X
  <2>6. ping'[t] = X
    BY <1>0, <2>4, TabWritten
  <2>. QED
    BY <2>2, <2>3, <2>5, <2>6
<1>9. \A u \in Tabs : PingOk(ping'[u])
  <2>1. PingOk(ping'[t])
    BY <1>0, <1>5, <1>8 DEF PingOk
  <2>. QED
    BY <1>0, <1>5, <2>1
<1>10. \A g \in Gifts : row'[g].created \in BOOLEAN
  <2>. TAKE g \in Gifts
  <2>. PICK r : r = row[g]
    OBVIOUS
  <2>2. row'[g] = r \/ \E i \in good : row'[g] = Applied(i.key, r)
    <3>. DEFINE mine == {i \in good : i.key.gid = g /\ i.key.action # "verify"}
    <3>1. row'[g] = IF mine = {} THEN row[g] ELSE Applied((CHOOSE i \in mine : TRUE).key, row[g])
      BY <1>3
    <3>2. CASE mine # {}
      <4>1. (CHOOSE i \in mine : TRUE) \in good
        BY <3>2
      <4>. QED
        BY <3>1, <3>2, <4>1, Zenon
    <3>. QED
      BY <3>1, <3>2
  <2>3. r.created \in BOOLEAN /\ r = [created |-> r.created, del |-> r.del]
    BY <1>0 DEF ServersOk, CloneInv, RowType
  <2>4. CASE \E i \in good : row'[g] = Applied(i.key, r)
    <3>1. PICK i \in good : row'[g] = Applied(i.key, r)
      BY <2>4
    <3>. PICK k : k = i.key
      OBVIOUS
    <3>2. k.action \in Actions
      BY <1>0, <1>3 DEF PingOk, Keys
    <3>3. Applied(k, r).created \in BOOLEAN
      BY <2>3, <3>2, AppliedType
    <3>. QED
      BY <3>1, <3>3
  <2>. QED
    BY <2>2, <2>3, <2>4
<1>11. ServersOk'
  BY <1>0, <1>4, <1>7, <1>10 DEF ServersOk
<1>12. CopiesStamped' /\ CountsOk' /\ oldSeq' \in [Tabs -> 0..seqLS']
  BY <1>0, <1>4 DEF CopiesStamped, CountsOk
<1>. QED
  BY <1>0, <1>4, <1>6, <1>9, <1>11, <1>12 DEF TypeInv

LEMMA LeaveTypes ==
  ASSUME TypeInv, BaseInv', NEW t \in Tabs, FinishPing(t) \/ RejectPing(t) \/ LosePing(t)
  PROVE  TypeInv'
<1>. USE DEF client, server
<1>0. /\ AnswerInv
      /\ oldSeq \in [Tabs -> 0..seqLS] /\ KeysOk /\ CopiesStamped /\ CountsOk /\ ServersOk /\ clock \in Stamps
      /\ (\A u \in Tabs : PingOk(ping[u]))
      /\ ping = [u \in Tabs |-> ping[u]]
  BY DEF TypeInv, BaseInv, CloneInv, WaitInv, AnswerInv, QuestionType
<1>1. UNCHANGED <<store, seqLS, clock, obj, buffer, pending, oldSeq, row, blocked>>
  BY DEF FinishPing, RejectPing, LosePing
<1>2. KeysOk'
  BY <1>0, PingStep, KeysStay
<1>3. \E p : ping' = [ping EXCEPT ![t] = p] /\ PingOk(p)
  <2>1. CASE FinishPing(t)
    <3>1. ping' = [ping EXCEPT ![t] = [stage |-> "response", items |-> {}, answers |-> ping[t].answers]]
      BY <2>1 DEF FinishPing
    <3>2. PingOk([stage |-> "response", items |-> {}, answers |-> ping[t].answers])
      BY <1>0 DEF PingOk
    <3>. QED
      BY <3>1, <3>2
  <2>2. CASE RejectPing(t)
    <3>1. ping' = [ping EXCEPT ![t] = [stage |-> "rejected", items |-> {}, answers |-> {}]]
      BY <2>2 DEF RejectPing
    <3>2. PingOk([stage |-> "rejected", items |-> {}, answers |-> {}])
      BY DEF PingOk
    <3>. QED
      BY <3>1, <3>2
  <2>3. CASE LosePing(t)
    <3>1. ping' = [ping EXCEPT ![t] = NoPing]
      BY <2>3 DEF LosePing
    <3>2. PingOk(NoPing)
      BY DEF PingOk, NoPing
    <3>. QED
      BY <3>1, <3>2
  <2>. QED
    BY <2>1, <2>2, <2>3
<1>4. \A u \in Tabs : PingOk(ping'[u])
  <2>1. PICK p : ping' = [ping EXCEPT ![t] = p] /\ PingOk(p)
    BY <1>3
  <2>2. ping'[t] = p /\ \A u \in Tabs \ {t} : ping'[u] = ping[u]
    BY <1>0, <2>1, TabWritten
  <2>. QED
    BY <1>0, <2>1, <2>2
<1>5. vg' \subseteq vg /\ \A m \in wire' : m \in wire \/ (m.type = "request" /\ m.ok = "none")
  BY DEF FinishPing, RejectPing, LosePing
<1>6. ServersOk'
  BY <1>0, <1>1, <1>5 DEF ServersOk, Oks
<1>7. CopiesStamped' /\ CountsOk' /\ oldSeq' \in [Tabs -> 0..seqLS']
  BY <1>0, <1>1 DEF CopiesStamped, CountsOk
<1>. QED
  BY <1>0, <1>1, <1>2, <1>4, <1>6, <1>7 DEF TypeInv

\* A remote action that has waited for Timeout responses is not kept.
LEMMA ResponseTypes ==
  ASSUME TypeInv, BaseInv', NEW t \in Tabs, ReceiveResponse(t)
  PROVE  TypeInv'
<1>. USE DEF client, server
<1>. DEFINE
       A        == ping[t].answers
       got(e)   == \E a \in A : a.seq = e.seq
       counted  == {Counted(e, A) : e \in pending[t]}
       done     == {e \in counted : got(e) \/ TimedOut(e)}
       entryOf(o) == {e \in done : o \in e.objs}
       the(o)   == CHOOSE e \in entryOf(o) : TRUE
       touched  == {o \in Objects : entryOf(o) # {}}
       after(o) == After(obj[t][o], the(o), Ok(A, the(o)))
       objs     == [o \in Objects |-> IF o \in touched THEN after(o) ELSE obj[t][o]]
       P        == counted \ done
<1>0. /\ WaitInv /\ AnswerInv
      /\ oldSeq \in [Tabs -> 0..seqLS] /\ KeysOk /\ CopiesStamped /\ CountsOk /\ ServersOk /\ clock \in Stamps
      /\ (\A u \in Tabs : PingOk(ping[u]))
      /\ pending = [u \in Tabs |-> pending[u]] /\ obj = [u \in Tabs |-> obj[u]] /\ ping = [u \in Tabs |-> ping[u]]
  BY DEF TypeInv, BaseInv, CloneInv, WaitInv, AnswerInv, QuestionType, ObjectType
<1>1. UNCHANGED <<seqLS, clock, oldSeq, row, vg, wire, blocked>> /\ ping' = [ping EXCEPT ![t] = NoPing]
  BY DEF ReceiveResponse
<1>2. \/ obj' = obj /\ pending' = pending
      \/ obj' = [obj EXCEPT ![t] = objs] /\ pending' = [pending EXCEPT ![t] = P]
  BY DEF ReceiveResponse
<1>3. \A o \in touched : the(o) \in counted /\ o \in the(o).objs /\ o \in Objects /\ Ok(A, the(o)) \in BOOLEAN
  BY DEF Ok
<1>4. \A e \in counted : /\ \E f \in pending[t] : e.key = f.key /\ e.objs = f.objs
                         /\ e.count \in Nat /\ e.count <= Timeout
  <2>. TAKE e \in counted
  <2>1. PICK f \in pending[t] : e = Counted(f, A)
    OBVIOUS
  <2>2. e = f \/ e = [f EXCEPT !.count = f.count + 1]
    BY <2>1 DEF Counted
  <2>3. f = [seq |-> f.seq, key |-> f.key, objs |-> f.objs, count |-> f.count]
    BY <1>0, TabKeeps
  <2>4. f.count \in Nat /\ f.count < Timeout
    BY <1>0 DEF CountsOk
  <2>5. e.key = f.key /\ e.objs = f.objs /\ (e.count = f.count \/ e.count = f.count + 1)
    BY <2>2, <2>3
  <2>. QED
    BY <2>4, <2>5, BoundsAssumption
<1>5. \A e \in P : e.count \in Nat /\ e.count < Timeout
  <2>. TAKE e \in P
  <2>1. e.count \in Nat /\ e.count <= Timeout /\ e.count # Timeout
    BY <1>4 DEF TimedOut
  <2>. QED
    BY <2>1, BoundsAssumption
<1>6. \A o \in touched : o \in Clones => after(o).del \in Stamps
  <2>. HIDE DEF counted, the, touched
  <2>. SUFFICES ASSUME NEW o \in touched, o \in Clones
                PROVE  after(o).del \in Stamps
    OBVIOUS
  <2>. PICK e : e = the(o)
    OBVIOUS
  <2>. PICK x : x = obj[t][o]
    OBVIOUS
  <2>. PICK ok : ok = Ok(A, e)
    OBVIOUS
  <2>1. e \in counted /\ o \in e.objs /\ o \in Objects /\ ok \in BOOLEAN
    BY <1>3
  <2>2. PICK f \in pending[t] : e.key = f.key /\ e.objs = f.objs
    BY <1>4, <2>1
  <2>3. EntryFits(t, f) /\ Sound(o, x) /\ x \in Shape
    BY <1>0, <2>1 DEF WaitInv, TabInv, ObjectType
  <2>4. x.at = "verify" /\ e.key.action \in Actions
    BY <2>1, <2>2, <2>3 DEF EntryFits, AsksFor, Sound
  <2>5. After(x, e, ok).del = x.del
    BY <2>1, <2>3, <2>4, AfterVerify
  <2>6. x.del \in Stamps
    BY <1>0 DEF CopiesStamped
  <2>. QED
    BY <2>5, <2>6
<1>7. CopiesStamped' /\ CountsOk'
  <2>1. CASE obj' = obj /\ pending' = pending
    BY <1>0, <2>1 DEF CopiesStamped, CountsOk
  <2>2. CASE obj' = [obj EXCEPT ![t] = objs] /\ pending' = [pending EXCEPT ![t] = P]
    <3>1. \A o \in Objects : objs[o] = obj[t][o] \/ (o \in Clones => objs[o].del \in Stamps)
      <4>. HIDE DEF touched, after
      <4>. QED
        BY <1>6
    <3>. HIDE DEF objs, P
    <3>2. obj'[t] = objs /\ \A u \in Tabs \ {t} : obj'[u] = obj[u]
      BY <1>0, <2>2, TabWritten
    <3>3. pending'[t] = P /\ \A u \in Tabs \ {t} : pending'[u] = pending[u]
      BY <1>0, <2>2, TabWritten
    <3>4. CopiesStamped'
      BY <1>0, <3>1, <3>2 DEF CopiesStamped, Objects
    <3>5. CountsOk'
      BY <1>0, <1>5, <3>3 DEF CountsOk
    <3>. QED
      BY <3>4, <3>5
  <2>. QED
    BY <1>2, <2>1, <2>2
<1>8. \A u \in Tabs : PingOk(ping'[u])
  <2>1. ping'[t] = NoPing /\ \A u \in Tabs \ {t} : ping'[u] = ping[u]
    BY <1>0, <1>1, TabWritten
  <2>2. PingOk(NoPing)
    BY DEF PingOk, NoPing
  <2>. QED
    BY <1>0, <2>1, <2>2
<1>9. KeysOk'
  BY <1>0, PingStep, KeysStay
<1>10. ServersOk' /\ oldSeq' \in [Tabs -> 0..seqLS']
  BY <1>0, <1>1 DEF ServersOk
<1>. QED
  BY <1>0, <1>1, <1>7, <1>8, <1>9, <1>10 DEF TypeInv

LEMMA WireTypes ==
  ASSUME TypeInv, BaseInv', WireNext
  PROVE  TypeInv'
<1>. USE DEF client, server
<1>0. /\ CloneInv /\ AnswerInv
      /\ oldSeq \in [Tabs -> 0..seqLS] /\ KeysOk /\ CopiesStamped /\ CountsOk /\ ServersOk /\ clock \in Stamps
      /\ (\A u \in Tabs : PingOk(ping[u]))
  BY DEF TypeInv, BaseInv, CloneInv, WaitInv
<1>1. PICK m \in wire : ServerHandle(m) \/ ReceiveAnswer(m) \/ LoseMessage(m)
  BY DEF WireNext
<1>2. UNCHANGED <<seqLS, clock, obj, pending, oldSeq, ping>>
  BY <1>1 DEF ServerHandle, ReceiveAnswer, LoseMessage
<1>3. KeysOk'
  BY <1>0, WireStep, KeysStay
<1>4. /\ m.type \in {"request", "answer"} /\ m.ok \in Oks /\ m.key \in Keys
      /\ m = [type |-> m.type, tab |-> m.tab, seq |-> m.seq, key |-> m.key, ok |-> m.ok]
  <2>1. m.tab \in Tabs /\ m \in Question(m.tab)
    BY <1>0, TracesAsked DEF Question, Traces
  <2>. QED
    BY <1>0, <2>1, TracesAsked DEF ServersOk, KeysOk
<1>5. CASE ServerHandle(m)
  <2>. PICK k : k = m.key
    OBVIOUS
  <2>. PICK r : r = row[k.gid]
    OBVIOUS
  <2>1. PICK ok \in {"true", "false", "changed"} :
          /\ row' = [row EXCEPT ![k.gid] = IF ok = "true" THEN Applied(k, r) ELSE r]
          /\ wire' = (wire \ {m}) \union {[m EXCEPT !.type = "answer", !.ok = ok]}
    BY <1>5 DEF ServerHandle
  <2>2. vg' = vg /\ blocked' = blocked
    BY <1>5 DEF ServerHandle
  <2>3. \A n \in wire' : n \in wire \/ (n.type = "answer" /\ n.ok = ok)
    <3>. DEFINE n == [m EXCEPT !.type = "answer"]
    <3>1. [m EXCEPT !.type = "answer", !.ok = ok] = [n EXCEPT !.ok = ok]
      OBVIOUS
    <3>2. n = [type |-> "answer", tab |-> m.tab, seq |-> m.seq, key |-> m.key, ok |-> m.ok]
      BY <1>4
    <3>. HIDE DEF n
    <3>3. [n EXCEPT !.ok = ok].ok = ok /\ [n EXCEPT !.ok = ok].type = "answer"
      BY <3>2
    <3>. QED
      BY <2>1, <3>1, <3>3
  <2>4. k.gid \in Gifts /\ k.action \in Actions
    BY <1>4 DEF Keys
  <2>5. r.created \in BOOLEAN /\ r = [created |-> r.created, del |-> r.del]
    BY <1>0, <2>4 DEF ServersOk, CloneInv, RowType
  <2>. PICK s : s = IF ok = "true" THEN Applied(k, r) ELSE r
    OBVIOUS
  <2>6. s.created \in BOOLEAN
    BY <2>4, <2>5, AppliedType
  <2>7. row' = [row EXCEPT ![k.gid] = s] /\ row = [g \in Gifts |-> row[g]]
    BY <1>0, <2>1 DEF CloneInv, RowType
  <2>8. \A g \in Gifts : row'[g] = s \/ row'[g] = row[g]
    BY <2>7
  <2>9. \A g \in Gifts : row'[g].created \in BOOLEAN
    BY <1>0, <2>6, <2>8 DEF ServersOk
  <2>10. \A n \in wire' : n.type \in {"request", "answer"} /\ n.ok \in Oks
    BY <1>0, <2>3 DEF ServersOk, Oks
  <2>11. ServersOk'
    BY <1>0, <2>2, <2>9, <2>10 DEF ServersOk
  <2>. QED
    BY <1>0, <1>2, <1>3, <2>11 DEF TypeInv, CopiesStamped, CountsOk
<1>6. CASE ReceiveAnswer(m) \/ LoseMessage(m)
  <2>1. row' = row /\ wire' \subseteq wire /\ blocked' \in BOOLEAN
    BY <1>0, <1>6 DEF ReceiveAnswer, LoseMessage, ServersOk
  <2>2. \A v \in vg' : v.ok \in Oks
    <3>1. CASE vg' = vg
      BY <1>0, <3>1 DEF ServersOk
    <3>2. CASE vg' = {IF v.tab = m.tab /\ v.seq = m.seq THEN [v EXCEPT !.ok = m.ok] ELSE v : v \in vg}
      <4>. TAKE v \in vg'
      <4>1. PICK w \in vg : v = IF w.tab = m.tab /\ w.seq = m.seq THEN [w EXCEPT !.ok = m.ok] ELSE w
        BY <3>2
      <4>2. w = [tab |-> w.tab, seq |-> w.seq, key |-> w.key, ok |-> w.ok]
        BY <1>0, TracesAsked
      <4>3. [w EXCEPT !.ok = m.ok].ok = m.ok
        BY <4>2
      <4>. QED
        BY <1>0, <1>4, <4>1, <4>3 DEF ServersOk
    <3>. QED
      BY <1>6, <3>1, <3>2 DEF ReceiveAnswer, LoseMessage
  <2>3. ServersOk'
    BY <1>0, <2>1, <2>2 DEF ServersOk
  <2>. QED
    BY <1>0, <1>2, <1>3, <2>3 DEF TypeInv, CopiesStamped, CountsOk
<1>. QED
  BY <1>1, <1>5, <1>6

LEMMA TypeInit ==
  ASSUME Init
  PROVE  TypeInv
<1>1. BaseInv
  BY BaseInit
<1>2. /\ row = [g \in Gifts |-> [created |-> g \in There, del |-> 0]]
      /\ obj = [t \in Tabs |-> [o \in Objects |-> IF o \in There THEN Loaded(o, TRUE) ELSE NoObj]]
      /\ vg = {} /\ wire = {} /\ blocked = FALSE /\ clock = 0 /\ seqLS = 0
      /\ oldSeq = [t \in Tabs |-> 0]
      /\ \A t \in Tabs : pending[t] = {} /\ ping[t] = NoPing
  BY DEF Init
<1>3. 0 \in Stamps
  BY BoundsAssumption DEF Stamps
<1>4. KeysOk /\ CountsOk
  <2>1. \A t \in Tabs : Question(t) = {}
    BY <1>2 DEF Question, Traces, NoPing
  <2>. QED
    BY <1>2, <2>1 DEF KeysOk, CountsOk
<1>5. CopiesStamped
  <2>. SUFFICES ASSUME NEW t \in Tabs, NEW c \in Clones
                PROVE  obj[t][c].del \in Stamps
    BY DEF CopiesStamped
  <2>1. c \in Objects /\ c \notin There
    BY GiftsAssumption DEF Objects
  <2>2. obj[t][c] = NoObj
    BY <1>2, <2>1
  <2>. QED
    BY <1>3, <2>2, NoObjFields
<1>6. \A t \in Tabs : PingOk(ping[t])
  BY <1>2 DEF PingOk, NoPing
<1>7. ServersOk
  <2>1. ASSUME NEW g \in Gifts PROVE row[g].created \in BOOLEAN
    <3>1. CASE g \in There
      <4>1. (g \in There) = TRUE
        BY <3>1
      <4>2. row[g] = [created |-> TRUE, del |-> 0]
        BY <1>2, <4>1, Zenon
      <4>. QED
        BY <4>2
    <3>2. CASE g \notin There
      <4>1. (g \in There) = FALSE
        BY <3>2
      <4>2. row[g] = [created |-> FALSE, del |-> 0]
        BY <1>2, <4>1, Zenon
      <4>. QED
        BY <4>2
    <3>. QED
      BY <3>1, <3>2
  <2>. QED
    BY <1>2, <2>1 DEF ServersOk
<1>8. oldSeq \in [Tabs -> 0..seqLS]
  BY <1>2
<1>. QED
  BY <1>1, <1>2, <1>3, <1>4, <1>5, <1>6, <1>7, <1>8 DEF TypeInv

LEMMA TypeStep ==
  ASSUME TypeInv, [Next]_vars
  PROVE  TypeInv'
<1>1. BaseInv'
  BY BaseStep DEF TypeInv
<1>2. ASSUME NEW t \in Tabs, UserNext(t) PROVE TypeInv'
  BY <1>1, <1>2, UserTypes
<1>3. ASSUME NEW t \in Tabs, PingNext(t) PROVE TypeInv'
  <2>1. CASE FinishPing(t) \/ RejectPing(t) \/ LosePing(t)
    BY <1>1, <2>1, LeaveTypes
  <2>. QED
    BY <1>1, <1>3, <2>1, SendTypes, HandleTypes, ResponseTypes DEF PingNext
<1>4. CASE WireNext
  BY <1>1, <1>4, WireTypes
<1>5. CASE UNCHANGED vars
  <2>1. UNCHANGED <<seqLS, clock, obj, pending, oldSeq, ping, row, vg, wire, blocked>>
    BY <1>5 DEF vars, client, server
  <2>2. KeysOk'
    BY <2>1 DEF TypeInv, KeysOk, Question, Traces
  <2>. QED
    BY <1>1, <2>1, <2>2 DEF TypeInv, CopiesStamped, CountsOk, ServersOk
<1>. QED
  BY <1>2, <1>3, <1>4, <1>5 DEF Next

LEMMA TypeInvTypes ==
  ASSUME TypeInv, Gifts # {}
  PROVE  TypeOK
<1>0. /\ WaitInv /\ AnswerInv /\ ObjectType /\ QuestionType /\ SeqsTaken /\ GiftsTrue /\ RowType
      /\ KeysOk /\ CopiesStamped /\ CountsOk /\ ServersOk /\ clock \in Stamps
      /\ oldSeq \in [Tabs -> 0..seqLS] /\ \A t \in Tabs : PingOk(ping[t])
  BY DEF TypeInv, BaseInv, CloneInv, WaitInv, AnswerInv
<1>1. \A d \in 0..clock : d \in Stamps
  BY <1>0, BoundsAssumption DEF Stamps
<1>2. store \in [Gifts -> [saved : BOOLEAN, created : BOOLEAN, del : Stamps, deleted : BOOLEAN]]
  <2>1. ASSUME NEW g \in Gifts PROVE store[g] \in [saved : BOOLEAN, created : BOOLEAN, del : Stamps, deleted : BOOLEAN]
    <3>. PICK z : z = store[g]
      OBVIOUS
    <3>1. z \in StoreShape /\ z.del \in Stamps
      BY <1>0, <1>1 DEF ObjectType, GiftsTrue, SavedOk
    <3>2. z \in [saved : BOOLEAN, created : BOOLEAN, del : Stamps, deleted : BOOLEAN]
      BY <3>1 DEF StoreShape
    <3>. QED
      BY <3>2
  <2>. QED
    BY <1>0, <2>1 DEF ObjectType
<1>3. obj \in [Tabs -> [Objects -> ObjType]]
  <2>1. ASSUME NEW t \in Tabs, NEW o \in Objects PROVE obj[t][o] \in ObjType
    <3>. PICK x : x = obj[t][o]
      OBVIOUS
    <3>1. x \in Shape
      BY <1>0 DEF ObjectType
    <3>2. x.del \in Stamps
      BY <1>0, <1>1 DEF GiftsTrue, GiftOk, CopiesStamped, Objects
    <3>3. NoObj.gid \in Gifts
      <4>1. (CHOOSE g \in Gifts : TRUE) \in Gifts
        OBVIOUS
      <4>. QED
        BY <4>1 DEF NoObj
    <3>4. x.gid \in Gifts
      BY <3>1, <3>3 DEF Shape
    <3>5. x \in ObjType
      BY <3>1, <3>2, <3>4 DEF Shape, ObjType
    <3>. QED
      BY <3>5
  <2>. QED
    BY <1>0, <2>1 DEF ObjectType
<1>4. ASSUME NEW t \in Tabs
      PROVE  pending[t] \subseteq [seq : Int, key : Keys, objs : SUBSET Objects, count : 0..Timeout]
  <2>. SUFFICES ASSUME NEW e \in pending[t]
                PROVE  e \in [seq : Int, key : Keys, objs : SUBSET Objects, count : 0..Timeout]
    OBVIOUS
  <2>1. e \in Question(t)
    BY DEF Question
  <2>2. e.seq \in Int /\ e.key \in Keys
    BY <1>0, <2>1 DEF SeqsTaken, KeysOk
  <2>3. e.objs \subseteq Objects
    BY <1>0 DEF WaitInv, TabInv, EntryFits
  <2>4. e.count \in 0..Timeout
    BY <1>0, BoundsAssumption DEF CountsOk
  <2>5. e = [seq |-> e.seq, key |-> e.key, objs |-> e.objs, count |-> e.count]
    BY <1>0 DEF QuestionType
  <2>. QED
    BY <2>2, <2>3, <2>4, <2>5
<1>5. row \in [Gifts -> [created : BOOLEAN, del : Stamps]]
  <2>1. ASSUME NEW g \in Gifts PROVE row[g] \in [created : BOOLEAN, del : Stamps]
    <3>. PICK r : r = row[g]
      OBVIOUS
    <3>1. r.created \in BOOLEAN /\ r.del \in Stamps /\ r = [created |-> r.created, del |-> r.del]
      BY <1>0, <1>1 DEF ServersOk, GiftsTrue, RowType
    <3>2. r \in [created : BOOLEAN, del : Stamps]
      BY <3>1
    <3>. QED
      BY <3>2
  <2>. QED
    BY <1>0, <2>1 DEF RowType
<1>6. \A v \in vg \union wire : v.tab \in Tabs /\ v.seq \in Int /\ v.key \in Keys
  <2>. TAKE v \in vg \union wire
  <2>1. v.tab \in Tabs /\ v \in Question(v.tab)
    BY <1>0 DEF SeqsTaken, Question, Traces
  <2>. QED
    BY <1>0, <2>1 DEF SeqsTaken, KeysOk
<1>7. vg \subseteq [tab : Tabs, seq : Int, key : Keys, ok : Oks]
  BY <1>0, <1>6 DEF QuestionType, ServersOk
<1>8. wire \subseteq [type : {"request", "answer"}, tab : Tabs, seq : Int, key : Keys, ok : Oks]
  BY <1>0, <1>6 DEF QuestionType, ServersOk
<1>9. seqLS \in Nat /\ buffer \in [Tabs -> SUBSET Objects] /\ blocked \in BOOLEAN
  BY <1>0 DEF QuestionType, ServersOk
<1>. QED
  BY <1>0, <1>2, <1>3, <1>4, <1>5, <1>7, <1>8, <1>9 DEF TypeOK, PingOk

\* The types of the tabs, the pings and the servers.  No deletion has a timestamp that was not
\* given out, wherever it is, and no pending action counts more than Timeout responses.  (Without
\* gifts the gift of an object that is not there is not a gift.)
THEOREM TypeCorrect == ASSUME Gifts # {} PROVE Spec => []TypeOK
<1>1. Init => TypeInv
  BY TypeInit
<1>2. TypeInv /\ [Next]_vars => TypeInv'
  BY TypeStep
<1>3. TypeInv => TypeOK
  BY TypeInvTypes
<1>. QED
  BY <1>1, <1>2, <1>3, PTL DEF Spec

=============================================================================
