----------------------- MODULE VerifyGiftsWaitProofs -----------------------
(* Proofs about what waits in the tabs, for any number of tabs, gifts and     *)
(* copies: a gift waits once, in the buffer or for one answer.                *)
EXTENDS VerifyGiftsProofs

Shape ==
  [here : BOOLEAN, gid : Gifts \union {NoObj.gid}, known : BOOLEAN, created : BOOLEAN, del : Nat,
   deleted : BOOLEAN, at : Actions \union {"none"}, seq : Int, verified : {"none", "true", "false"}]
StoreShape == [saved : BOOLEAN, created : BOOLEAN, del : Nat, deleted : BOOLEAN]

ObjectType ==
  /\ store \in [Gifts -> StoreShape]
  /\ clock \in Nat
  /\ obj \in [Tabs -> [Objects -> Shape]]

\* What holds of an object whether it waits or not.
Sound(o, x) ==
  /\ x.at = "none" => x.seq = 0
  /\ x.here \/ x.known => x.gid \in Gifts
  /\ o \in Gifts => /\ x.here => store[o].saved /\ x.gid = o
                    /\ x.verified = "none" /\ x.at # "verify"
  /\ o \in Clones => x.at \in {"none", "verify"}

\* An object that waits for the next request, and one that waits for the answer of entry e.
Queued(x) == x.here /\ x.at # "none" /\ x.seq = 0 /\ x.verified = "none"
AsksFor(x, e) == x.here /\ x.at # "none" /\ x.seq = e.seq /\ x.verified = "none" /\ x.gid = e.key.gid

EntryFits(t, e) ==
  /\ e.objs \subseteq Objects /\ e.objs # {}
  /\ e.key.action \in Actions
  /\ \A o \in e.objs : /\ o \notin buffer[t] /\ AsksFor(obj[t][o], e)
                       /\ e.key.action # "verify" => o \in Gifts

\* Equal requests share an entry.
OneEntry(P) == \A e, f \in P : e.key = f.key => e = f

TabInv(t) ==
  /\ \A o \in Objects : Sound(o, obj[t][o])
  /\ \A o \in buffer[t] : Queued(obj[t][o])
  /\ \A e \in pending[t] : EntryFits(t, e)
  /\ OneEntry(pending[t])

WaitInv == AnswerInv /\ ObjectType /\ \A t \in Tabs : TabInv(t)

----------------------------------------------------------------------------
\* What the operators on objects change.

LEMMA NoObjShape ==
  /\ NoObj \in Shape
  /\ ~NoObj.here /\ NoObj.at = "none" /\ NoObj.seq = 0 /\ NoObj.verified = "none"
  BY DEF NoObj, Shape, Actions

LEMMA ResetShape ==
  ASSUME NEW x \in Shape
  PROVE  /\ Reset(x) \in Shape
         /\ Reset(x).at = "none" /\ Reset(x).seq = 0
         /\ Reset(x).here = x.here /\ Reset(x).verified = x.verified /\ Reset(x).gid = x.gid
<1>. DEFINE y == [x EXCEPT !.at = "none"]
<1>1. Reset(x) = [y EXCEPT !.seq = 0]
  BY DEF Reset, Shape
<1>2. /\ y \in Shape /\ y.at = "none" /\ y.here = x.here /\ y.verified = x.verified /\ y.gid = x.gid
  BY DEF Shape
<1>. HIDE DEF y
<1>. QED
  BY <1>1, <1>2 DEF Shape

\* Refreshing changes created and del.
LEMMA RefreshedShape ==
  ASSUME ObjectType, NEW x \in Shape, x.known => x.gid \in Gifts
  PROVE  /\ Refreshed(x) \in Shape
         /\ Refreshed(x).at = x.at /\ Refreshed(x).seq = x.seq /\ Refreshed(x).here = x.here
         /\ Refreshed(x).verified = x.verified /\ Refreshed(x).gid = x.gid
<1>1. CASE ~x.known
  BY <1>1 DEF Refreshed
<1>2. CASE x.known
  <2>1. store[x.gid].created \in BOOLEAN /\ store[x.gid].del \in Nat
    BY <1>2 DEF ObjectType, StoreShape
  <2>. DEFINE y == [x EXCEPT !.created = store[x.gid].created]
  <2>2. Refreshed(x) = [y EXCEPT !.del = store[x.gid].del]
    BY <1>2 DEF Refreshed, Shape
  <2>3. /\ y \in Shape /\ y.at = x.at /\ y.seq = x.seq /\ y.here = x.here
        /\ y.verified = x.verified /\ y.gid = x.gid
    BY <2>1 DEF Shape
  <2>. HIDE DEF y
  <2>. QED
    BY <2>1, <2>2, <2>3 DEF Shape
<1>. QED
  BY <1>1, <1>2 DEF Shape

\* What an answer or a timeout changes.  Only a copy gets a verdict, and only for the request it
\* still has.
LEMMA AfterShape ==
  ASSUME ObjectType, NEW x \in Shape, NEW e, NEW ok \in BOOLEAN,
         x.at # "none", x.here, x.gid \in Gifts, x.verified = "none", e.key.action \in Actions
  PROVE  /\ After(x, e, ok) \in Shape
         /\ After(x, e, ok).at = "none" => After(x, e, ok).seq = 0
         /\ After(x, e, ok).at \in {"none", x.at}
         /\ After(x, e, ok).here => After(x, e, ok).gid = x.gid
         /\ After(x, e, ok).gid \in Gifts
         /\ Outcome(x, e, ok) = "again" /\ Requeues(x, e) => Queued(After(x, e, ok))
         /\ \/ After(x, e, ok).verified = "none"
            \/ /\ x.at = "verify" /\ Key(x) = e.key
               /\ After(x, e, ok).verified = (IF ok THEN "true" ELSE "false")
               /\ After(x, e, ok).gid = x.gid /\ After(x, e, ok).del = x.del
<1>. DEFINE out == Outcome(x, e, ok)
            r   == Refreshed(x)
<1>1. x.at \in Actions
  BY DEF Shape
<1>2. NoObj.gid \in Gifts
  BY DEF NoObj
<1>3. /\ r \in Shape
      /\ r.at = x.at /\ r.seq = x.seq /\ r.here = x.here /\ r.verified = x.verified /\ r.gid = x.gid
  BY RefreshedShape
<1>. HIDE DEF r
<1>4. CASE out = "skip"
  BY <1>4, Zenon DEF After
<1>5. CASE out = "again"
  <2>. DEFINE z == Reset(x)
  <2>1. x.at = e.key.action
    BY <1>1, <1>5 DEF Outcome, Actions
  <2>2. After(x, e, ok) = IF Requeues(x, e) THEN [z EXCEPT !.at = e.key.action] ELSE z
    BY <1>5 DEF After
  <2>3. /\ z \in Shape /\ z.at = "none" /\ z.seq = 0
        /\ z.here /\ z.verified = "none" /\ z.gid = x.gid
    BY ResetShape
  <2>. HIDE DEF z
  <2>4. /\ [z EXCEPT !.at = e.key.action] \in Shape
        /\ [z EXCEPT !.at = e.key.action].at = x.at
        /\ [z EXCEPT !.at = e.key.action].seq = 0
        /\ [z EXCEPT !.at = e.key.action].here /\ [z EXCEPT !.at = e.key.action].verified = "none"
        /\ [z EXCEPT !.at = e.key.action].gid = x.gid
    BY <1>1, <2>1, <2>3 DEF Shape
  <2>5. CASE Requeues(x, e)
    BY <2>2, <2>4, <2>5, <1>5 DEF Queued
  <2>6. CASE ~Requeues(x, e)
    BY <2>2, <2>3, <2>6
  <2>. QED
    BY <2>5, <2>6
<1>6. CASE out = "verified"
  <2>1. x.at = "verify" /\ Key(x) = e.key
    BY <1>1, <1>6 DEF Outcome, Actions
  <2>2. After(x, e, ok) = [x EXCEPT !.verified = IF ok THEN "true" ELSE "false"]
    BY <1>6 DEF After
  <2>. QED
    BY <1>6, <2>1, <2>2 DEF Shape
<1>7. CASE out = "refused"
  <2>1. After(x, e, ok) = [NoObj EXCEPT !.known = x.known]
    BY <1>7 DEF After
  <2>. QED
    BY <1>2, <1>7, <2>1, NoObjShape DEF Shape
<1>8. CASE out = "elsewhere"
  <2>1. After(x, e, ok) = r
    BY <1>8 DEF After, r
  <2>. QED
    BY <1>3, <1>8, <2>1
<1>9. CASE out = "created"
  <2>. DEFINE z == Reset(r)
  <2>1. After(x, e, ok) = [z EXCEPT !.created = TRUE]
    BY <1>9 DEF After, r
  <2>2. /\ z \in Shape /\ z.at = "none" /\ z.seq = 0
        /\ z.here /\ z.verified = "none" /\ z.gid = x.gid
    BY <1>3, ResetShape
  <2>. HIDE DEF z
  <2>. QED
    BY <1>9, <2>1, <2>2 DEF Shape
<1>10. CASE out = "deleted"
  <2>. DEFINE z == [r EXCEPT !.deleted = TRUE]
  <2>1. After(x, e, ok) = [z EXCEPT !.seq = 0]
    BY <1>3, <1>10 DEF After, r, Shape
  <2>2. z \in Shape /\ z.at = x.at /\ z.here /\ z.verified = "none" /\ z.gid = x.gid
    BY <1>3 DEF Shape
  <2>. HIDE DEF z
  <2>. QED
    BY <1>10, <2>1, <2>2 DEF Shape
<1>11. CASE out = "undeleted"
  <2>. DEFINE z == [x EXCEPT !.del = 0]
  <2>1. After(x, e, ok) = [z EXCEPT !.seq = 0]
    BY <1>11 DEF After, Shape
  <2>2. z \in Shape /\ z.at = x.at /\ z.here /\ z.verified = "none" /\ z.gid = x.gid
    BY DEF Shape
  <2>. HIDE DEF z
  <2>. QED
    BY <1>11, <2>1, <2>2 DEF Shape
<1>12. out \in {"skip", "again", "verified", "refused", "elsewhere", "created", "deleted", "undeleted"}
  <2>1. CASE Key(x) # e.key /\ x.at # e.key.action
    BY <2>1 DEF Outcome
  <2>2. CASE Key(x) # e.key /\ x.at = e.key.action
    BY <2>2 DEF Outcome
  <2>3. CASE Key(x) = e.key /\ x.at = "verify"
    BY <2>3 DEF Outcome
  <2>4. CASE Key(x) = e.key /\ x.at = "create"
    BY <2>4 DEF Outcome
  <2>5. CASE Key(x) = e.key /\ x.at = "delete"
    BY <2>5 DEF Outcome
  <2>. QED
    BY <1>1, <2>1, <2>2, <2>3, <2>4, <2>5 DEF Actions
<1>. QED
  BY <1>4, <1>5, <1>6, <1>7, <1>8, <1>9, <1>10, <1>11, <1>12

----------------------------------------------------------------------------
\* The steps.

\* A step of one tab: the others see that gifts stay in the localStorage.
LEMMA OtherTabs ==
  ASSUME WaitInv, AnswerInv', ObjectType', NEW t \in Tabs, TabInv(t)',
         \A u \in Tabs \ {t} : obj'[u] = obj[u] /\ buffer'[u] = buffer[u] /\ pending'[u] = pending[u],
         \A g \in Gifts : store[g].saved => store'[g].saved
  PROVE  WaitInv'
<1>1. ASSUME NEW u \in Tabs, u # t PROVE TabInv(u)'
  <2>1. TabInv(u) /\ obj'[u] = obj[u] /\ buffer'[u] = buffer[u] /\ pending'[u] = pending[u]
    BY <1>1 DEF WaitInv
  <2>2. \A o \in Objects : Sound(o, obj[u][o])'
    BY <2>1 DEF TabInv, Sound
  <2>3. \A o \in buffer'[u] : Queued(obj[u][o])'
    BY <2>1 DEF TabInv, Queued
  <2>4. \A e \in pending'[u] : EntryFits(u, e)'
    BY <2>1 DEF TabInv, EntryFits, AsksFor
  <2>5. OneEntry(pending[u])'
    BY <2>1 DEF TabInv, OneEntry
  <2>. QED
    BY <2>2, <2>3, <2>4, <2>5 DEF TabInv
<1>. QED
  BY <1>1 DEF WaitInv

\* A step that changes one object, and puts it into the buffer if it did not wait.
LEMMA OneObject ==
  ASSUME WaitInv, AnswerInv', NEW t \in Tabs, NEW o \in Objects, NEW v \in Shape,
         SetObj(t, o, v), pending' = pending,
         store' \in [Gifts -> StoreShape], clock' \in Nat,
         \A g \in Gifts : store[g].saved => store'[g].saved,
         Sound(o, v)',
         \/ buffer' = buffer /\ ~Waiting(t, o)
         \/ /\ buffer' = buffer
            /\ v.here = obj[t][o].here /\ v.at = obj[t][o].at /\ v.seq = obj[t][o].seq
            /\ v.verified = obj[t][o].verified /\ v.gid = obj[t][o].gid
         \/ Enqueue(t, o) /\ ~Waiting(t, o) /\ Queued(v)
  PROVE  WaitInv'
<1>1. obj \in [Tabs -> [Objects -> Shape]]
  BY DEF WaitInv, ObjectType
<1>2. /\ obj' \in [Tabs -> [Objects -> Shape]]
      /\ \A u \in Tabs \ {t} : obj'[u] = obj[u]
      /\ obj'[t][o] = v
      /\ \A x \in Objects \ {o} : obj'[t][x] = obj[t][x]
  BY <1>1 DEF SetObj
<1>3. ObjectType'
  BY <1>2 DEF ObjectType
<1>4. buffer \in [Tabs -> SUBSET Objects]
  BY DEF WaitInv, AnswerInv, QuestionType
<1>5. /\ \A u \in Tabs \ {t} : buffer'[u] = buffer[u]
      /\ buffer'[t] = buffer[t] \/ buffer'[t] = buffer[t] \union {o}
  BY <1>4 DEF Enqueue
<1>6. TabInv(t)
  BY DEF WaitInv
<1>7. \A x \in Objects : Sound(x, obj[t][x])'
  <2>. SUFFICES ASSUME NEW x \in Objects
                PROVE  Sound(x, obj[t][x])'
    OBVIOUS
  <2>1. CASE x = o
    BY <1>2, <2>1 DEF Sound
  <2>2. CASE x # o
    <3>1. Sound(x, obj[t][x]) /\ obj'[t][x] = obj[t][x]
      BY <1>2, <1>6, <2>2 DEF TabInv
    <3>. QED
      BY <3>1 DEF Sound
  <2>. QED
    BY <2>1, <2>2
<1>8. \A x \in buffer'[t] : Queued(obj[t][x])'
  <2>. SUFFICES ASSUME NEW x \in buffer'[t]
                PROVE  Queued(obj[t][x])'
    OBVIOUS
  <2>1. CASE x \in buffer[t] /\ x # o
    <3>1. Queued(obj[t][x]) /\ obj'[t][x] = obj[t][x]
      BY <1>2, <1>4, <1>6, <2>1 DEF TabInv
    <3>. QED
      BY <3>1 DEF Queued
  <2>2. CASE x = o
    <3>1. Queued(v)
      <4>1. CASE o \in buffer[t]
        <5>1. Queued(obj[t][o])
          BY <1>6, <4>1 DEF TabInv
        <5>. QED
          BY <4>1, <5>1 DEF Waiting, Queued
      <4>2. CASE o \notin buffer[t]
        BY <2>2, <4>2
      <4>. QED
        BY <4>1, <4>2
    <3>. QED
      BY <1>2, <2>2, <3>1 DEF Queued
  <2>. QED
    BY <1>5, <2>1, <2>2
<1>9. \A e \in pending'[t] : EntryFits(t, e)'
  <2>. SUFFICES ASSUME NEW e \in pending[t]
                PROVE  EntryFits(t, e)'
    OBVIOUS
  <2>1. EntryFits(t, e)
    BY <1>6 DEF TabInv
  <2>2. ASSUME NEW x \in e.objs PROVE x \notin buffer'[t] /\ AsksFor(obj'[t][x], e)
    <3>1. x \in Objects /\ x \notin buffer[t] /\ AsksFor(obj[t][x], e)
      BY <2>1 DEF EntryFits
    <3>2. CASE x # o
      <4>1. obj'[t][x] = obj[t][x] /\ x \notin buffer'[t]
        BY <1>2, <1>5, <3>1, <3>2
      <4>. QED
        BY <3>1, <4>1
    <3>3. CASE x = o
      <4>1. Waiting(t, o)
        BY <3>3 DEF Waiting
      <4>2. /\ buffer' = buffer
            /\ v.here = obj[t][o].here /\ v.at = obj[t][o].at /\ v.seq = obj[t][o].seq
            /\ v.verified = obj[t][o].verified /\ v.gid = obj[t][o].gid
        BY <4>1
      <4>. QED
        BY <1>2, <3>1, <3>3, <4>2 DEF AsksFor
    <3>. QED
      BY <3>2, <3>3
  <2>. QED
    BY <2>1, <2>2 DEF EntryFits, AsksFor
<1>10. OneEntry(pending[t])'
  BY <1>6 DEF TabInv, OneEntry
<1>11. TabInv(t)'
  BY <1>7, <1>8, <1>9, <1>10 DEF TabInv
<1>. QED
  BY <1>2, <1>3, <1>5, <1>11, OtherTabs

----------------------------------------------------------------------------
\* Objects as the actions make them.

LEMMA LoadedShape ==
  ASSUME store \in [Gifts -> StoreShape], NEW g \in Gifts, NEW known \in BOOLEAN
  PROVE  /\ Loaded(g, known) \in Shape
         /\ Loaded(g, known).here /\ Loaded(g, known).gid = g /\ Loaded(g, known).at = "none"
         /\ Loaded(g, known).seq = 0 /\ Loaded(g, known).verified = "none"
<1>1. store[g].created \in BOOLEAN /\ store[g].del \in Nat /\ store[g].deleted \in BOOLEAN
  BY DEF StoreShape
<1>. DEFINE a == [NoObj EXCEPT !.here = TRUE]
            b == [a EXCEPT !.gid = g]
            c == [b EXCEPT !.known = known]
            d == [c EXCEPT !.created = store[g].created]
            e == [d EXCEPT !.del = store[g].del]
<1>2. Loaded(g, known) = [e EXCEPT !.deleted = store[g].deleted]
  BY DEF Loaded
<1>3. a \in Shape /\ a.here /\ a.at = "none" /\ a.seq = 0 /\ a.verified = "none"
  BY NoObjShape DEF Shape
<1>. HIDE DEF a
<1>4. b \in Shape /\ b.here /\ b.at = "none" /\ b.seq = 0 /\ b.verified = "none" /\ b.gid = g
  BY <1>3 DEF Shape
<1>. HIDE DEF b
<1>5. c \in Shape /\ c.here /\ c.at = "none" /\ c.seq = 0 /\ c.verified = "none" /\ c.gid = g
  BY <1>4 DEF Shape
<1>. HIDE DEF c
<1>6. d \in Shape /\ d.here /\ d.at = "none" /\ d.seq = 0 /\ d.verified = "none" /\ d.gid = g
  BY <1>1, <1>5 DEF Shape
<1>. HIDE DEF d
<1>7. e \in Shape /\ e.here /\ e.at = "none" /\ e.seq = 0 /\ e.verified = "none" /\ e.gid = g
  BY <1>1, <1>6 DEF Shape
<1>. HIDE DEF e
<1>. QED
  BY <1>1, <1>2, <1>7 DEF Shape

\* A new gift, before its create is added.
NewGift(g) == [NoObj EXCEPT !.here = TRUE, !.gid = g, !.known = TRUE]

LEMMA NewGiftShape ==
  ASSUME NEW g \in Gifts
  PROVE  /\ NewGift(g) \in Shape
         /\ NewGift(g).here /\ NewGift(g).gid = g /\ NewGift(g).known /\ NewGift(g).verified = "none" /\ NewGift(g).seq = 0
<1>. DEFINE a == [NoObj EXCEPT !.here = TRUE]
            b == [a EXCEPT !.gid = g]
<1>1. NewGift(g) = [b EXCEPT !.known = TRUE]
  BY DEF NewGift
<1>2. a \in Shape /\ a.here /\ a.verified = "none" /\ a.seq = 0
  BY NoObjShape DEF Shape
<1>. HIDE DEF a
<1>3. b \in Shape /\ b.here /\ b.gid = g /\ b.verified = "none" /\ b.seq = 0
  BY <1>2 DEF Shape
<1>. HIDE DEF b
<1>. QED
  BY <1>1, <1>3 DEF Shape

\* A copy as a message brings it.
NewClone(g, d) == [NoObj EXCEPT !.here = TRUE, !.gid = g, !.created = TRUE, !.del = d, !.at = "verify"]

LEMMA NewCloneShape ==
  ASSUME NEW g \in Gifts, NEW d \in Nat
  PROVE  /\ NewClone(g, d) \in Shape
         /\ NewClone(g, d).here /\ NewClone(g, d).gid = g /\ NewClone(g, d).at = "verify"
         /\ NewClone(g, d).seq = 0 /\ NewClone(g, d).verified = "none"
<1>. DEFINE a == [NoObj EXCEPT !.here = TRUE]
            b == [a EXCEPT !.gid = g]
            c == [b EXCEPT !.created = TRUE]
            e == [c EXCEPT !.del = d]
<1>1. NewClone(g, d) = [e EXCEPT !.at = "verify"]
  BY DEF NewClone
<1>2. a \in Shape /\ a.here /\ a.verified = "none" /\ a.seq = 0
  BY NoObjShape DEF Shape
<1>. HIDE DEF a
<1>3. b \in Shape /\ b.here /\ b.gid = g /\ b.verified = "none" /\ b.seq = 0
  BY <1>2 DEF Shape
<1>. HIDE DEF b
<1>4. c \in Shape /\ c.here /\ c.gid = g /\ c.verified = "none" /\ c.seq = 0
  BY <1>3 DEF Shape
<1>. HIDE DEF c
<1>5. e \in Shape /\ e.here /\ e.gid = g /\ e.verified = "none" /\ e.seq = 0
  BY <1>4 DEF Shape
<1>. HIDE DEF e
<1>. QED
  BY <1>1, <1>5 DEF Shape, Actions

\* Saving keeps the gifts that are saved, and saves this one.
LEMMA SavedShape ==
  ASSUME NEW s \in [Gifts -> StoreShape], NEW x \in Shape, x.known => x.gid \in Gifts
  PROVE  /\ Saved(s, x) \in [Gifts -> StoreShape]
         /\ \A g \in Gifts : s[g].saved => Saved(s, x)[g].saved
         /\ x.known => Saved(s, x)[x.gid].saved
<1>1. [saved |-> TRUE, created |-> x.created, del |-> x.del, deleted |-> x.deleted] \in StoreShape
  BY DEF Shape, StoreShape
<1>. QED
  BY <1>1 DEF Saved

----------------------------------------------------------------------------
\* The user's steps.

LEMMA UserWaits ==
  ASSUME WaitInv, AnswerInv', NEW t \in Tabs, UserNext(t)
  PROVE  WaitInv'
<1>. USE DEF client, server
<1>0. /\ TabInv(t) /\ ObjectType
      /\ \A o \in Objects : obj[t][o] \in Shape /\ Sound(o, obj[t][o])
      /\ store \in [Gifts -> StoreShape] /\ clock \in Nat
      /\ Gifts \subseteq Objects /\ Clones \subseteq Objects
      /\ \A g \in Gifts : g \notin Clones
  BY GiftsAssumption DEF WaitInv, ObjectType, TabInv, Objects
<1>a. \A o \in Objects : Waiting(t, o) => obj[t][o].here /\ obj[t][o].at # "none" /\ obj[t][o].verified = "none"
  BY <1>0 DEF Waiting, TabInv, Queued, EntryFits, AsksFor
<1>1. ASSUME NEW g \in Gifts, CreateGift(t, g) PROVE WaitInv'
  <2>. DEFINE new == NewGift(g)
              v   == [new EXCEPT !.at = "create"]
  <2>1. /\ ~store[g].saved
        /\ store' = Saved(store, new) /\ SetObj(t, g, v) /\ Enqueue(t, g)
        /\ UNCHANGED <<clock, pending>>
    BY <1>1 DEF CreateGift, NewGift
  <2>2. new \in Shape /\ new.here /\ new.gid = g /\ new.known /\ new.verified = "none" /\ new.seq = 0
    BY NewGiftShape
  <2>. HIDE DEF new
  <2>3. v \in Shape /\ v.here /\ v.gid = g /\ v.at = "create" /\ v.verified = "none" /\ v.seq = 0
    BY <2>2 DEF Shape, Actions
  <2>. HIDE DEF v
  <2>4. /\ store' \in [Gifts -> StoreShape]
        /\ \A x \in Gifts : store[x].saved => store'[x].saved
        /\ store'[g].saved
    BY <1>0, <2>1, <2>2, SavedShape
  <2>5. Sound(g, v)'
    BY <1>0, <2>3, <2>4 DEF Sound
  <2>6. ~Waiting(t, g)
    <3>1. ~obj[t][g].here
      BY <1>0, <2>1 DEF Sound
    <3>. QED
      BY <1>0, <1>a, <3>1
  <2>7. Queued(v)
    BY <2>3 DEF Queued
  <2>8. g \in Objects /\ clock' \in Nat /\ pending' = pending
    BY <1>0, <2>1
  <2>. QED
    BY <2>1, <2>3, <2>4, <2>5, <2>6, <2>7, <2>8, OneObject
<1>2. ASSUME NEW g \in Gifts, RefreshGift(t, g) PROVE WaitInv'
  <2>. DEFINE x == obj[t][g]
  <2>. PICK v : v = Refreshed(x)
    OBVIOUS
  <2>1. SetObj(t, g, v) /\ UNCHANGED <<store, clock, buffer, pending>>
    BY <1>2 DEF RefreshGift
  <2>2. x \in Shape /\ Sound(g, x) /\ (x.known => x.gid \in Gifts)
    BY <1>0 DEF Sound
  <2>. HIDE DEF x
  <2>3. v \in Shape /\ v.at = x.at /\ v.seq = x.seq /\ v.here = x.here /\ v.verified = x.verified /\ v.gid = x.gid
    BY <1>0, <2>2, RefreshedShape
  <2>4. v.known = x.known
    BY <2>2 DEF Refreshed, Shape
  <2>5. Sound(g, v)'
    BY <2>1, <2>2, <2>3, <2>4 DEF Sound
  <2>. QED
    BY <1>0, <2>1, <2>3, <2>5, OneObject DEF x
<1>3. ASSUME NEW g \in Gifts, DeleteGift(t, g) PROVE WaitInv'
  <2>. DEFINE x == obj[t][g]
  <2>. PICK o : o = Refreshed(x)
    OBVIOUS
  <2>. PICK marked : marked = [o EXCEPT !.del = clock + 1]
    OBVIOUS
  <2>. PICK v : v = [marked EXCEPT !.at = "delete"]
    OBVIOUS
  <2>1. /\ x.here /\ clock' = clock + 1 /\ pending' = pending
        /\ \/ /\ CanAdd(marked, "delete")
              /\ SetObj(t, g, v) /\ store' = Saved(store, marked) /\ Enqueue(t, g)
           \/ SetObj(t, g, marked) /\ store' = Saved(store, marked) /\ buffer' = buffer
           \/ SetObj(t, g, o) /\ store' = Saved(store, o) /\ buffer' = buffer
    BY <1>3 DEF DeleteGift
  <2>2. x \in Shape /\ Sound(g, x) /\ x.gid = g /\ store[g].saved
    BY <1>0, <2>1 DEF Sound
  <2>3. o \in Shape /\ o.at = x.at /\ o.seq = x.seq /\ o.here = x.here /\ o.verified = x.verified /\ o.gid = x.gid
    BY <1>0, <2>2, RefreshedShape
  <2>4. /\ marked \in Shape /\ marked.at = x.at /\ marked.seq = x.seq /\ marked.here = x.here
        /\ marked.verified = x.verified /\ marked.gid = x.gid
    BY <1>0, <2>3 DEF Shape
  <2>5. /\ v \in Shape /\ v.at = "delete" /\ v.seq = x.seq /\ v.here = x.here
        /\ v.verified = x.verified /\ v.gid = x.gid
    BY <2>4 DEF Shape, Actions
  <2>6. /\ store' \in [Gifts -> StoreShape]
        /\ \A y \in Gifts : store[y].saved => store'[y].saved
    <3>1. o.gid \in Gifts /\ marked.gid \in Gifts
      BY <2>2, <2>3, <2>4
    <3>2. CASE store' = Saved(store, o)
      BY <1>0, <2>3, <3>1, <3>2, SavedShape
    <3>3. CASE store' = Saved(store, marked)
      BY <1>0, <2>4, <3>1, <3>3, SavedShape
    <3>. QED
      BY <2>1, <3>2, <3>3
  <2>7. Sound(g, o)' /\ Sound(g, marked)'
    BY <1>0, <2>1, <2>2, <2>3, <2>4, <2>6 DEF Sound
  <2>8. Sound(g, v)'
    BY <1>0, <2>1, <2>2, <2>5, <2>6 DEF Sound
  <2>9. g \in Objects /\ clock' \in Nat
    BY <1>0, <2>1
  <2>10. CASE CanAdd(marked, "delete") /\ SetObj(t, g, v) /\ Enqueue(t, g)
    <3>1. x.at = "none"
      BY <2>4, <2>10 DEF CanAdd
    <3>2. ~Waiting(t, g)
      BY <1>a, <2>9, <3>1 DEF x
    <3>3. Queued(v)
      BY <1>0, <2>1, <2>2, <2>5, <3>1 DEF Queued, Sound
    <3>. QED
      BY <2>1, <2>5, <2>6, <2>8, <2>9, <2>10, <3>2, <3>3, OneObject
  <2>11. CASE SetObj(t, g, marked) /\ buffer' = buffer
    BY <2>1, <2>4, <2>6, <2>7, <2>9, <2>11, OneObject DEF x
  <2>12. CASE SetObj(t, g, o) /\ buffer' = buffer
    BY <2>1, <2>3, <2>6, <2>7, <2>9, <2>12, OneObject DEF x
  <2>. QED
    BY <2>1, <2>10, <2>11, <2>12
<1>4. ASSUME NEW c \in Clones, NEW g \in Gifts, ReceiveClone(t, c, g) PROVE WaitInv'
  <2>1. PICK d \in Stamps : SetObj(t, c, NewClone(g, d))
    BY <1>4 DEF ReceiveClone, NewClone
  <2>. DEFINE v == NewClone(g, d)
  <2>2. ~obj[t][c].here /\ Enqueue(t, c) /\ UNCHANGED <<store, clock, pending>>
    BY <1>4 DEF ReceiveClone
  <2>3. v \in Shape /\ v.here /\ v.gid = g /\ v.at = "verify" /\ v.verified = "none" /\ v.seq = 0
    BY BoundsAssumption, NewCloneShape DEF Stamps
  <2>4. SetObj(t, c, v)
    BY <2>1
  <2>. HIDE DEF v
  <2>5. Sound(c, v)' /\ Queued(v)
    BY <1>0, <2>3 DEF Sound, Queued
  <2>6. ~Waiting(t, c)
    BY <1>0, <1>a, <2>2
  <2>7. /\ c \in Objects /\ clock' \in Nat /\ pending' = pending
        /\ store' \in [Gifts -> StoreShape] /\ \A x \in Gifts : store[x].saved => store'[x].saved
    BY <1>0, <2>2
  <2>. QED
    BY <2>2, <2>3, <2>4, <2>5, <2>6, <2>7, OneObject
<1>5. ASSUME NEW c \in Clones, UseClone(t, c) PROVE WaitInv'
  <2>1. obj[t][c].verified # "none" /\ SetObj(t, c, NoObj) /\ UNCHANGED <<store, clock, buffer, pending>>
    BY <1>5 DEF UseClone
  <2>2. ~Waiting(t, c)
    BY <1>0, <1>a, <2>1
  <2>3. Sound(c, NoObj)'
    <3>1. ~NoObj.known
      BY DEF NoObj
    <3>. QED
      BY <1>0, <3>1, NoObjShape DEF Sound
  <2>4. /\ c \in Objects /\ clock' \in Nat /\ pending' = pending
        /\ store' \in [Gifts -> StoreShape] /\ \A x \in Gifts : store[x].saved => store'[x].saved
    BY <1>0, <2>1
  <2>. QED
    BY <2>1, <2>2, <2>3, <2>4, NoObjShape, OneObject

<1>6. ASSUME NEW c \in Clones, GiveUpClone(t, c) PROVE WaitInv'
  <2>. DEFINE P == {[e EXCEPT !.objs = e.objs \ {c}] : e \in {f \in pending[t] : f.objs # {c}}}
  <2>1. /\ obj[t][c].seq < 0
        /\ SetObj(t, c, NoObj) /\ pending' = [pending EXCEPT ![t] = P]
        /\ UNCHANGED <<store, clock, buffer>>
    BY <1>6 DEF GiveUpClone
  <2>2. /\ obj' \in [Tabs -> [Objects -> Shape]]
        /\ \A u \in Tabs \ {t} : obj'[u] = obj[u]
        /\ obj'[t][c] = NoObj
        /\ \A x \in Objects \ {c} : obj'[t][x] = obj[t][x]
    BY <1>0, <2>1, NoObjShape DEF SetObj, ObjectType
  <2>3. pending'[t] = P /\ \A u \in Tabs \ {t} : pending'[u] = pending[u]
    <3>. DEFINE pendings == pending
    <3>1. pendings = [u \in Tabs |-> pendings[u]] /\ pending' = [pendings EXCEPT ![t] = P]
      BY <2>1 DEF WaitInv, AnswerInv, QuestionType
    <3>2. pending'[t] = P /\ \A u \in Tabs \ {t} : pending'[u] = pendings[u]
      <4>. HIDE DEF pendings, P
      <4>. QED
        BY <3>1
    <3>. QED
      BY <3>2
  <2>4. \A e \in P : \E f \in pending[t] : /\ e.seq = f.seq /\ e.key = f.key
                                           /\ e.objs = f.objs \ {c} /\ f.objs # {c}
                                           /\ e = [f EXCEPT !.objs = f.objs \ {c}]
    <3>. TAKE e \in P
    <3>1. PICK f \in pending[t] : f.objs # {c} /\ e = [f EXCEPT !.objs = f.objs \ {c}]
      OBVIOUS
    <3>2. f = [seq |-> f.seq, key |-> f.key, objs |-> f.objs, count |-> f.count]
      BY TabKeeps DEF WaitInv
    <3>3. e = [seq |-> f.seq, key |-> f.key, objs |-> f.objs \ {c}, count |-> f.count]
      BY <3>1, <3>2
    <3>. QED
      BY <3>1, <3>3
  <2>. HIDE DEF P
  <2>5. \A o \in Objects : Sound(o, obj[t][o])'
    <3>. SUFFICES ASSUME NEW o \in Objects
                  PROVE  Sound(o, obj[t][o])'
      OBVIOUS
    <3>1. CASE o = c
      <4>1. ~NoObj.known
        BY DEF NoObj
      <4>. QED
        BY <1>0, <2>2, <3>1, <4>1, NoObjShape DEF Sound
    <3>2. CASE o # c
      BY <1>0, <2>1, <2>2, <3>2 DEF Sound
    <3>. QED
      BY <3>1, <3>2
  <2>6. \A o \in buffer'[t] : Queued(obj[t][o])'
    <3>. SUFFICES ASSUME NEW o \in buffer[t]
                  PROVE  Queued(obj[t][o])'
      BY <2>1
    <3>1. Queued(obj[t][o]) /\ o \in Objects
      BY <1>0 DEF TabInv, WaitInv, AnswerInv, QuestionType
    <3>2. o # c
      BY <2>1, <3>1 DEF Queued
    <3>. QED
      BY <2>2, <3>1, <3>2 DEF Queued
  <2>7. \A e \in pending'[t] : EntryFits(t, e)'
    <3>. SUFFICES ASSUME NEW e \in P
                  PROVE  EntryFits(t, e)'
      BY <2>3
    <3>1. PICK f \in pending[t] : /\ e.seq = f.seq /\ e.key = f.key
                                  /\ e.objs = f.objs \ {c} /\ f.objs # {c}
      BY <2>4
    <3>2. EntryFits(t, f)
      BY <1>0 DEF TabInv
    <3>. QED
      BY <2>1, <2>2, <3>1, <3>2 DEF EntryFits, AsksFor
  <2>8. OneEntry(pending[t])'
    <3>. SUFFICES ASSUME NEW d \in P, NEW e \in P, d.key = e.key
                  PROVE  d = e
      BY <2>3 DEF OneEntry
    <3>1. PICK f \in pending[t] : d.key = f.key /\ d = [f EXCEPT !.objs = f.objs \ {c}]
      BY <2>4
    <3>2. PICK h \in pending[t] : e.key = h.key /\ e = [h EXCEPT !.objs = h.objs \ {c}]
      BY <2>4
    <3>3. f = h
      BY <1>0, <3>1, <3>2 DEF TabInv, OneEntry
    <3>. QED
      BY <3>1, <3>2, <3>3
  <2>9. TabInv(t)'
    BY <2>5, <2>6, <2>7, <2>8 DEF TabInv
  <2>10. ObjectType'
    BY <1>0, <2>1, <2>2 DEF ObjectType
  <2>. QED
    BY <2>1, <2>2, <2>3, <2>9, <2>10, OtherTabs
<1>7. CASE Reload(t)
  <2>. DEFINE again(g) == IF ~store[g].created THEN "create"
                          ELSE IF g \notin There /\ store[g].del # 0 THEN "delete" ELSE "none"
              saved == {g \in Gifts : store[g].saved}
              fresh(o) == [Loaded(o, TRUE) EXCEPT !.deleted = FALSE, !.at = again(o)]
              objs == [o \in Objects |-> IF o \in saved THEN fresh(o) ELSE NoObj]
  <2>1. /\ store' = [g \in Gifts |-> [store[g] EXCEPT !.deleted = FALSE]]
        /\ obj' = [obj EXCEPT ![t] = objs]
        /\ buffer' = [buffer EXCEPT ![t] = {g \in saved : again(g) # "none"}]
        /\ pending' = [pending EXCEPT ![t] = {}]
        /\ clock' = clock
    BY <1>7 DEF Reload
  <2>2. \A g \in Gifts : /\ fresh(g) \in Shape /\ fresh(g).here /\ fresh(g).gid = g
                         /\ fresh(g).seq = 0 /\ fresh(g).verified = "none" /\ fresh(g).at = again(g)
    <3>. TAKE g \in Gifts
    <3>1. PICK x : x = Loaded(g, TRUE)
      OBVIOUS
    <3>2. x \in Shape /\ x.here /\ x.gid = g /\ x.at = "none" /\ x.seq = 0 /\ x.verified = "none"
      BY <1>0, <3>1, LoadedShape
    <3>3. PICK y : y = [x EXCEPT !.deleted = FALSE]
      OBVIOUS
    <3>4. y \in Shape /\ y.here /\ y.gid = g /\ y.at = "none" /\ y.seq = 0 /\ y.verified = "none"
      BY <3>2, <3>3 DEF Shape
    <3>5. PICK z : z = [y EXCEPT !.at = again(g)]
      OBVIOUS
    <3>6. again(g) \in Actions \union {"none"}
      BY DEF Actions
    <3>. HIDE DEF again
    <3>7. z \in Shape /\ z.here /\ z.gid = g /\ z.at = again(g) /\ z.seq = 0 /\ z.verified = "none"
      BY <3>4, <3>5, <3>6 DEF Shape
    <3>8. fresh(g) = z
      BY <3>1, <3>3, <3>5
    <3>. QED
      BY <3>7, <3>8
  <2>3. \A g \in Gifts : again(g) \in {"none", "create", "delete"}
    OBVIOUS
  <2>. HIDE DEF again, fresh
  <2>4. objs \in [Objects -> Shape]
    BY <2>2, NoObjShape
  <2>5. obj' \in [Tabs -> [Objects -> Shape]] /\ obj'[t] = objs /\ \A u \in Tabs \ {t} : obj'[u] = obj[u]
    <3>. HIDE DEF objs
    <3>. QED
      BY <1>0, <2>1, <2>4 DEF ObjectType
  <2>6. /\ store' \in [Gifts -> StoreShape]
        /\ \A g \in Gifts : store'[g].saved = store[g].saved
    BY <1>0, <2>1 DEF StoreShape
  <2>7. /\ buffer'[t] = {g \in saved : again(g) # "none"} /\ pending'[t] = {}
        /\ \A u \in Tabs \ {t} : buffer'[u] = buffer[u] /\ pending'[u] = pending[u]
    <3>. DEFINE pendings == pending
                buffers  == buffer
                B == {g \in saved : again(g) # "none"}
    <3>1. /\ pendings = [u \in Tabs |-> pendings[u]] /\ pending' = [pendings EXCEPT ![t] = {}]
          /\ buffers = [u \in Tabs |-> buffers[u]] /\ buffer' = [buffers EXCEPT ![t] = B]
      BY <2>1 DEF WaitInv, AnswerInv, QuestionType
    <3>2. /\ pending'[t] = {} /\ buffer'[t] = B
          /\ \A u \in Tabs \ {t} : pending'[u] = pendings[u] /\ buffer'[u] = buffers[u]
      <4>. HIDE DEF pendings, buffers, B
      <4>. QED
        BY <3>1
    <3>. QED
      BY <3>2
  <2>8. \A o \in Objects : Sound(o, obj[t][o])'
    <3>. SUFFICES ASSUME NEW o \in Objects
                  PROVE  Sound(o, obj[t][o])'
      OBVIOUS
    <3>1. CASE o \in saved
      <4>1. obj'[t][o] = fresh(o) /\ store'[o].saved
        BY <2>5, <2>6, <3>1
      <4>. QED
        BY <1>0, <2>2, <2>3, <3>1, <4>1 DEF Sound
    <3>2. CASE o \notin saved
      <4>1. obj'[t][o] = NoObj
        BY <2>5, <3>2
      <4>2. ~NoObj.known
        BY DEF NoObj
      <4>. QED
        BY <4>1, <4>2, NoObjShape DEF Sound
    <3>. QED
      BY <3>1, <3>2
  <2>9. \A o \in buffer'[t] : Queued(obj[t][o])'
    <3>. SUFFICES ASSUME NEW o \in saved, again(o) # "none"
                  PROVE  Queued(obj[t][o])'
      BY <2>7
    <3>1. obj'[t][o] = fresh(o)
      BY <1>0, <2>5
    <3>. QED
      BY <2>2, <3>1 DEF Queued
  <2>10. TabInv(t)'
    BY <2>7, <2>8, <2>9 DEF TabInv, OneEntry
  <2>11. ObjectType'
    BY <1>0, <2>1, <2>5, <2>6 DEF ObjectType
  <2>. QED
    BY <2>5, <2>6, <2>7, <2>10, <2>11, OtherTabs
<1>8. CASE Sync(t)
  <2>. DEFINE new(o) == IF o \in Clones \/ ~store[o].saved THEN obj[t][o]
                        ELSE IF obj[t][o].here
                             THEN [obj[t][o] EXCEPT !.created = store[o].created, !.del = store[o].del]
                             ELSE Loaded(o, obj[t][o].known)
              objs == [o \in Objects |-> new(o)]
  <2>1. obj' = [obj EXCEPT ![t] = objs] /\ UNCHANGED <<store, clock, buffer, pending>>
    BY <1>8 DEF Sync
  <2>2. ASSUME NEW o \in Objects
        PROVE  /\ new(o) \in Shape /\ Sound(o, new(o))
               /\ obj[t][o].here => /\ new(o).here /\ new(o).at = obj[t][o].at /\ new(o).seq = obj[t][o].seq
                                    /\ new(o).verified = obj[t][o].verified /\ new(o).gid = obj[t][o].gid
    <3>. DEFINE x == obj[t][o]
    <3>1. x \in Shape /\ Sound(o, x)
      BY <1>0
    <3>2. CASE o \in Clones \/ ~store[o].saved
      BY <1>0, <3>2
    <3>3. CASE o \in Gifts /\ store[o].saved /\ x.here
      <4>1. store[o].created \in BOOLEAN /\ store[o].del \in Nat
        BY <1>0, <3>3 DEF StoreShape
      <4>2. new(o) = [[x EXCEPT !.created = store[o].created] EXCEPT !.del = store[o].del]
        BY <1>0, <3>1, <3>3 DEF Shape
      <4>3. PICK y : y = [x EXCEPT !.created = store[o].created]
        OBVIOUS
      <4>. HIDE DEF x
      <4>4. /\ y \in Shape /\ y.here = x.here /\ y.at = x.at /\ y.seq = x.seq
            /\ y.verified = x.verified /\ y.gid = x.gid
        BY <3>1, <4>1, <4>3 DEF Shape
      <4>5. PICK z : z = [y EXCEPT !.del = store[o].del]
        OBVIOUS
      <4>6. /\ z \in Shape /\ z.here = x.here /\ z.at = x.at /\ z.seq = x.seq
            /\ z.verified = x.verified /\ z.gid = x.gid
        BY <4>1, <4>4, <4>5 DEF Shape
      <4>7. new(o) = z
        BY <4>2, <4>3, <4>5
      <4>8. Sound(o, z)
        BY <1>0, <3>1, <3>3, <4>6 DEF Sound
      <4>. HIDE DEF new
      <4>. QED
        BY <4>6, <4>7, <4>8 DEF x
    <3>4. CASE o \in Gifts /\ store[o].saved /\ ~x.here
      <4>1. new(o) = Loaded(o, x.known)
        BY <1>0, <3>4
      <4>2. x.known \in BOOLEAN
        BY <3>1 DEF Shape
      <4>3. /\ Loaded(o, x.known) \in Shape /\ Loaded(o, x.known).here /\ Loaded(o, x.known).gid = o
            /\ Loaded(o, x.known).at = "none" /\ Loaded(o, x.known).seq = 0 /\ Loaded(o, x.known).verified = "none"
        BY <1>0, <3>4, <4>2, LoadedShape
      <4>. HIDE DEF new
      <4>. QED
        BY <1>0, <3>4, <4>1, <4>3 DEF Sound
    <3>. QED
      BY <3>2, <3>3, <3>4 DEF Objects
  <2>. HIDE DEF new
  <2>3. objs \in [Objects -> Shape]
    BY <2>2
  <2>4. /\ obj' \in [Tabs -> [Objects -> Shape]]
        /\ \A o \in Objects : obj'[t][o] = new(o)
        /\ \A u \in Tabs \ {t} : obj'[u] = obj[u]
    <3>1. obj'[t] = objs /\ obj' \in [Tabs -> [Objects -> Shape]] /\ \A u \in Tabs \ {t} : obj'[u] = obj[u]
      <4>. HIDE DEF objs
      <4>. QED
        BY <1>0, <2>1, <2>3 DEF ObjectType
    <3>. QED
      BY <3>1
  <2>5. \A o \in Objects : Sound(o, obj[t][o])'
    BY <2>1, <2>2, <2>4 DEF Sound
  <2>6. \A o \in buffer'[t] : Queued(obj[t][o])'
    <3>. SUFFICES ASSUME NEW o \in buffer[t]
                  PROVE  Queued(obj[t][o])'
      BY <2>1
    <3>1. Queued(obj[t][o]) /\ o \in Objects
      BY <1>0 DEF TabInv, WaitInv, AnswerInv, QuestionType
    <3>. QED
      BY <2>2, <2>4, <3>1 DEF Queued
  <2>7. \A e \in pending'[t] : EntryFits(t, e)'
    <3>. SUFFICES ASSUME NEW e \in pending[t]
                  PROVE  EntryFits(t, e)'
      BY <2>1
    <3>1. EntryFits(t, e)
      BY <1>0 DEF TabInv
    <3>2. ASSUME NEW o \in e.objs PROVE o \in Objects /\ o \notin buffer[t] /\ AsksFor(new(o), e)
      BY <2>2, <3>1 DEF EntryFits, AsksFor
    <3>. QED
      BY <2>1, <2>4, <3>1, <3>2 DEF EntryFits, AsksFor
  <2>8. OneEntry(pending[t])'
    BY <1>0, <2>1 DEF TabInv, OneEntry
  <2>9. TabInv(t)' /\ ObjectType'
    BY <1>0, <2>1, <2>4, <2>5, <2>6, <2>7, <2>8 DEF TabInv, ObjectType
  <2>. QED
    BY <2>1, <2>4, <2>9, OtherTabs
<1>. QED
  BY <1>1, <1>2, <1>3, <1>4, <1>5, <1>6, <1>7, <1>8 DEF UserNext

----------------------------------------------------------------------------
\* The ping.

\* A finite set as a sequence has each element once.
LEMMA ListedAll ==
  ASSUME NEW S, IsFiniteSet(S)
  PROVE  /\ Len(SetToSeq(S)) \in Nat
         /\ DOMAIN SetToSeq(S) = 1..Len(SetToSeq(S))
         /\ \A i \in DOMAIN SetToSeq(S) : SetToSeq(S)[i] \in S
         /\ \A i, j \in DOMAIN SetToSeq(S) : SetToSeq(S)[i] = SetToSeq(S)[j] => i = j
         /\ \A x \in S : \E i \in DOMAIN SetToSeq(S) : SetToSeq(S)[i] = x
<1>. DEFINE n == Cardinality(S)
            f == SetToSeq(S)
<1>1. n \in Nat /\ ExistsBijection(1..n, S)
  BY FS_CardinalityType
<1>2. \E g \in [1..n -> S] : IsInjective(g)
  BY <1>1, Zenon DEF ExistsBijection, Bijection, Injection, IsInjective
<1>3. f \in [1..n -> S] /\ IsInjective(f)
  BY <1>2 DEF SetToSeq
<1>. HIDE DEF f
<1>4. f \in Injection(1..n, S)
  BY <1>3 DEF Injection
<1>5. Cardinality(1..n) = n
  BY <1>1, FS_Interval
<1>6. f \in Surjection(1..n, S)
  BY <1>4, <1>5, FS_Injection
<1>7. \A x \in S : \E i \in 1..n : f[i] = x
  BY <1>6 DEF Surjection
<1>. HIDE DEF n
<1>8. f \in Seq(S)
  BY <1>1, <1>3
<1>9. Len(f) \in Nat /\ DOMAIN f = 1..Len(f) /\ DOMAIN f = 1..n
  BY <1>3, <1>8
<1>10. \A i \in DOMAIN f : f[i] \in S
  BY <1>3
<1>11. \A i, j \in DOMAIN f : f[i] = f[j] => i = j
  BY <1>3 DEF IsInjective
<1>. QED
  BY <1>7, <1>9, <1>10, <1>11 DEF f

\* Every object of the buffer joins the entry of its request or shares a new one.
LEMMA SendWaits ==
  ASSUME WaitInv, AnswerInv', NEW t \in Tabs, SendPing(t)
  PROVE  WaitInv'
<1>. USE DEF client, server
<1>. DEFINE
       todo    == {o \in buffer[t] : obj[t][o].verified = "none" /\ obj[t][o].seq = 0}
       objs(k) == {o \in todo : Key(obj[t][o]) = k}
       keys    == {Key(obj[t][o]) : o \in todo}
       fresh   == {k \in keys : Entry(t, k) = {}}
       ours    == {k \in fresh : Local(k)}
       theirs  == {k \in fresh : ~Local(k)}
       locals  == SetToSeq(ours)
       remotes == SetToSeq(theirs)
       last    == Max0({e.seq : e \in pending[t]})
       newLocal  == {[seq |-> last + i, key |-> locals[i], objs |-> objs(locals[i]), count |-> 0] : i \in DOMAIN locals}
       newRemote == {[seq |-> RemoteSeq(i), key |-> remotes[i], objs |-> objs(remotes[i]), count |-> 0] : i \in DOMAIN remotes}
       new     == newLocal \union newRemote
       joined  == {[e EXCEPT !.objs = e.objs \union objs(e.key)] : e \in pending[t]}
       seqOf(k) == (CHOOSE e \in new \union joined : e.key = k).seq
       after   == [o \in Objects |-> IF o \in todo THEN [obj[t][o] EXCEPT !.seq = seqOf(Key(obj[t][o]))] ELSE obj[t][o]]
<1>0. /\ TabInv(t) /\ ObjectType
      /\ \A o \in Objects : obj[t][o] \in Shape /\ Sound(o, obj[t][o])
      /\ buffer[t] \subseteq Objects
      /\ \A o \in buffer[t] : Queued(obj[t][o])
      /\ \A e \in pending[t] : EntryFits(t, e) /\ e = [seq |-> e.seq, key |-> e.key, objs |-> e.objs, count |-> e.count]
      /\ OneEntry(pending[t])
      /\ Gifts \subseteq Objects /\ \A g \in Gifts : g \notin Clones
  <2>1. TabInv(t) /\ ObjectType /\ AnswerInv
    BY DEF WaitInv
  <2>2. buffer[t] \subseteq Objects
    BY <2>1 DEF AnswerInv, QuestionType
  <2>3. \A e \in pending[t] : e = [seq |-> e.seq, key |-> e.key, objs |-> e.objs, count |-> e.count]
    BY <2>1 DEF AnswerInv, QuestionType
  <2>4. \A o \in Objects : obj[t][o] \in Shape
    BY <2>1 DEF ObjectType
  <2>5. Gifts \subseteq Objects /\ \A g \in Gifts : g \notin Clones
    BY GiftsAssumption DEF Objects
  <2>. QED
    BY <2>1, <2>2, <2>3, <2>4, <2>5 DEF TabInv
<1>1. /\ obj' = [obj EXCEPT ![t] = after]
      /\ pending' = [pending EXCEPT ![t] = joined \union new]
      /\ buffer' = [buffer EXCEPT ![t] = {}]
      /\ UNCHANGED <<store, clock>>
  BY DEF SendPing
<1>2. IsFiniteSet(ours) /\ IsFiniteSet(theirs)
  <2>1. IsFiniteSet(todo)
    BY <1>0, GiftsAssumption, FS_Subset DEF Objects
  <2>2. IsFiniteSet(keys)
    <3>. DEFINE f == [o \in todo |-> Key(obj[t][o])]
    <3>1. f \in Surjection(todo, keys)
      BY DEF Surjection
    <3>. HIDE DEF todo, keys, f
    <3>. QED
      BY <2>1, <3>1, FS_Surjection
  <2>. QED
    <3>1. ours \in SUBSET keys /\ theirs \in SUBSET keys
      OBVIOUS
    <3>. HIDE DEF ours, theirs, keys
    <3>. QED
      BY <2>2, <3>1, FS_Subset
<1>3. /\ \A i \in DOMAIN locals : locals[i] \in ours
      /\ \A i, j \in DOMAIN locals : locals[i] = locals[j] => i = j
      /\ \A k \in ours : \E i \in DOMAIN locals : locals[i] = k
      /\ \A i \in DOMAIN remotes : remotes[i] \in theirs
      /\ \A i, j \in DOMAIN remotes : remotes[i] = remotes[j] => i = j
      /\ \A k \in theirs : \E i \in DOMAIN remotes : remotes[i] = k
  <2>. HIDE DEF ours, theirs
  <2>. QED
    BY <1>2, ListedAll
<1>4. /\ \A k \in ours : k \in fresh /\ Local(k)
      /\ \A k \in theirs : k \in fresh /\ ~Local(k)
      /\ \A k \in fresh : k \in ours \/ k \in theirs
      /\ \A k \in fresh : k \in keys /\ \A e \in pending[t] : e.key # k
  BY DEF Entry
<1>5. \A k \in keys : \E o \in objs(k) : TRUE
  OBVIOUS
<1>6. \A k : \A o \in objs(k) : o \in buffer[t] /\ Key(obj[t][o]) = k
  OBVIOUS
<1>7. \A k : \A o \in objs(k) : obj[t][o].gid = k.gid /\ obj[t][o].at = k.action
  BY <1>6 DEF Key
<1>8. todo = buffer[t]
  BY <1>0 DEF Queued
<1>. HIDE DEF locals, remotes, ours, theirs, last, keys, fresh
<1>9. \A e \in new : /\ e.key \in fresh /\ e.objs = objs(e.key)
                     /\ e = [seq |-> e.seq, key |-> e.key, objs |-> e.objs, count |-> e.count]
  <2>1. ASSUME NEW e \in newLocal
        PROVE  /\ e.key \in fresh /\ e.objs = objs(e.key)
               /\ e = [seq |-> e.seq, key |-> e.key, objs |-> e.objs, count |-> e.count]
    BY <1>3, <1>4
  <2>2. ASSUME NEW e \in newRemote
        PROVE  /\ e.key \in fresh /\ e.objs = objs(e.key)
               /\ e = [seq |-> e.seq, key |-> e.key, objs |-> e.objs, count |-> e.count]
    BY <1>3, <1>4
  <2>. QED
    BY <2>1, <2>2
<1>10. \A d, e \in new : d.key = e.key => d = e
  <2>. SUFFICES ASSUME NEW d \in new, NEW e \in new, d.key = e.key
                PROVE  d = e
    OBVIOUS
  <2>1. CASE d \in newLocal /\ e \in newLocal
    <3>1. PICK i \in DOMAIN locals : d = [seq |-> last + i, key |-> locals[i], objs |-> objs(locals[i]), count |-> 0]
      BY <2>1
    <3>2. PICK j \in DOMAIN locals : e = [seq |-> last + j, key |-> locals[j], objs |-> objs(locals[j]), count |-> 0]
      BY <2>1
    <3>3. locals[i] = locals[j]
      <4>1. d.key = locals[i] /\ e.key = locals[j]
        BY <3>1, <3>2
      <4>. QED
        BY <4>1, Zenon
    <3>4. i = j
      BY <1>3, <3>3
    <3>. QED
      BY <3>1, <3>2, <3>4, Zenon
  <2>2. CASE d \in newRemote /\ e \in newRemote
    <3>1. PICK i \in DOMAIN remotes : d = [seq |-> RemoteSeq(i), key |-> remotes[i], objs |-> objs(remotes[i]), count |-> 0]
      BY <2>2
    <3>2. PICK j \in DOMAIN remotes : e = [seq |-> RemoteSeq(j), key |-> remotes[j], objs |-> objs(remotes[j]), count |-> 0]
      BY <2>2
    <3>3. remotes[i] = remotes[j]
      <4>1. d.key = remotes[i] /\ e.key = remotes[j]
        BY <3>1, <3>2
      <4>. QED
        BY <4>1, Zenon
    <3>4. i = j
      BY <1>3, <3>3
    <3>. QED
      BY <3>1, <3>2, <3>4, Zenon
  <2>3. ASSUME NEW x \in newLocal, NEW y \in newRemote, x.key = y.key PROVE FALSE
    <3>1. x.key \in ours
      BY <1>3
    <3>2. y.key \in theirs
      BY <1>3
    <3>. QED
      BY <1>4, <2>3, <3>1, <3>2
  <2>. QED
    BY <2>1, <2>2, <2>3
<1>11. \A k \in fresh : \E e \in new : e.key = k
  <2>. TAKE k \in fresh
  <2>1. CASE k \in ours
    <3>1. PICK i \in DOMAIN locals : locals[i] = k
      BY <1>3, <2>1
    <3>2. [seq |-> last + i, key |-> locals[i], objs |-> objs(locals[i]), count |-> 0] \in new
      OBVIOUS
    <3>. QED
      BY <3>1, <3>2
  <2>2. CASE k \in theirs
    <3>1. PICK i \in DOMAIN remotes : remotes[i] = k
      BY <1>3, <2>2
    <3>2. [seq |-> RemoteSeq(i), key |-> remotes[i], objs |-> objs(remotes[i]), count |-> 0] \in new
      OBVIOUS
    <3>. QED
      BY <3>1, <3>2
  <2>. QED
    BY <1>4, <2>1, <2>2
<1>. HIDE DEF new, newLocal, newRemote
<1>12. \A e \in joined : \E f \in pending[t] : /\ e.seq = f.seq /\ e.key = f.key /\ e.objs = f.objs \union objs(f.key)
                                               /\ e = [f EXCEPT !.objs = f.objs \union objs(f.key)]
  <2>. TAKE e \in joined
  <2>1. PICK f \in pending[t] : e = [f EXCEPT !.objs = f.objs \union objs(f.key)]
    OBVIOUS
  <2>2. e = [seq |-> f.seq, key |-> f.key, objs |-> f.objs \union objs(f.key), count |-> f.count]
    BY <1>0, <2>1
  <2>. QED
    BY <2>1, <2>2
<1>13. \A f \in pending[t] : \E e \in joined : e.key = f.key
  <2>. TAKE f \in pending[t]
  <2>1. [f EXCEPT !.objs = f.objs \union objs(f.key)] \in joined
    OBVIOUS
  <2>2. [f EXCEPT !.objs = f.objs \union objs(f.key)].key = f.key
    BY <1>0
  <2>. QED
    BY <2>1, <2>2
<1>. HIDE DEF joined
<1>14. \A d, e \in joined \union new : d.key = e.key => d = e
  <2>. SUFFICES ASSUME NEW d \in joined \union new, NEW e \in joined \union new, d.key = e.key
                PROVE  d = e
    OBVIOUS
  <2>1. CASE d \in joined /\ e \in joined
    <3>1. PICK f \in pending[t] : d.key = f.key /\ d = [f EXCEPT !.objs = f.objs \union objs(f.key)]
      BY <1>12, <2>1
    <3>2. PICK h \in pending[t] : e.key = h.key /\ e = [h EXCEPT !.objs = h.objs \union objs(h.key)]
      BY <1>12, <2>1
    <3>3. f = h
      BY <1>0, <3>1, <3>2 DEF OneEntry
    <3>. QED
      BY <3>1, <3>2, <3>3, Zenon
  <2>2. CASE d \in new /\ e \in new
    BY <1>10, <2>2
  <2>3. ASSUME NEW x \in joined, NEW y \in new, x.key = y.key PROVE FALSE
    <3>1. PICK f \in pending[t] : x.key = f.key
      BY <1>12
    <3>2. y.key \in fresh
      BY <1>9
    <3>. QED
      BY <1>4, <2>3, <3>1, <3>2
  <2>. QED
    BY <2>1, <2>2, <2>3
<1>15. \A e \in joined \union new : seqOf(e.key) = e.seq
  BY <1>14
<1>16. \A o \in todo : \E e \in joined \union new : e.key = Key(obj[t][o])
  <2>. TAKE o \in todo
  <2>1. Key(obj[t][o]) \in keys
    BY DEF keys
  <2>2. Key(obj[t][o]) \in fresh \/ \E f \in pending[t] : f.key = Key(obj[t][o])
    BY <2>1 DEF fresh, Entry
  <2>. QED
    BY <1>11, <1>13, <2>2
<1>17. /\ pending'[t] = joined \union new /\ buffer'[t] = {}
       /\ \A u \in Tabs \ {t} : buffer'[u] = buffer[u] /\ pending'[u] = pending[u]
  <2>. DEFINE pendings == pending
              buffers  == buffer
              P == joined \union new
  <2>1. /\ pendings = [u \in Tabs |-> pendings[u]] /\ pending' = [pendings EXCEPT ![t] = P]
        /\ buffers = [u \in Tabs |-> buffers[u]] /\ buffer' = [buffers EXCEPT ![t] = {}]
    BY <1>1 DEF WaitInv, AnswerInv, QuestionType
  <2>2. /\ pending'[t] = P /\ buffer'[t] = {}
        /\ \A u \in Tabs \ {t} : pending'[u] = pendings[u] /\ buffer'[u] = buffers[u]
    <3>. HIDE DEF pendings, buffers, P
    <3>. QED
      BY <2>1
  <2>. QED
    BY <2>2
<1>18. \A e \in joined \union new : e.seq \in Int
  BY <1>17 DEF AnswerInv, SeqsTaken, Question
<1>19. \A o \in todo : seqOf(Key(obj[t][o])) \in Int
  BY <1>15, <1>16, <1>18
<1>. HIDE DEF seqOf
<1>20. after \in [Objects -> Shape]
  <2>1. \A o \in todo : [obj[t][o] EXCEPT !.seq = seqOf(Key(obj[t][o]))] \in Shape
    <3>. TAKE o \in todo
    <3>1. obj[t][o] \in Shape
      BY <1>0
    <3>. QED
      BY <1>19, <3>1 DEF Shape
  <2>. QED
    BY <1>0, <2>1
<1>21. \A o \in Objects : /\ o \notin todo => after[o] = obj[t][o]
                          /\ o \in todo => /\ after[o].seq = seqOf(Key(obj[t][o]))
                                           /\ after[o].here = obj[t][o].here /\ after[o].at = obj[t][o].at
                                           /\ after[o].verified = obj[t][o].verified
                                           /\ after[o].gid = obj[t][o].gid /\ after[o].known = obj[t][o].known
  <2>. TAKE o \in Objects
  <2>1. obj[t][o] \in Shape
    BY <1>0
  <2>. QED
    BY <2>1 DEF Shape
<1>. HIDE DEF after
<1>22. /\ obj' \in [Tabs -> [Objects -> Shape]] /\ obj'[t] = after
       /\ \A u \in Tabs \ {t} : obj'[u] = obj[u]
  BY <1>0, <1>1, <1>20 DEF ObjectType
<1>23. \A o \in Objects : Sound(o, obj[t][o])'
  <2>. SUFFICES ASSUME NEW o \in Objects
                PROVE  Sound(o, obj[t][o])'
    OBVIOUS
  <2>1. Sound(o, obj[t][o])
    BY <1>0
  <2>2. CASE o \in todo
    <3>1. Queued(obj[t][o])
      BY <1>0, <2>2
    <3>. QED
      BY <1>1, <1>21, <1>22, <2>1, <2>2, <3>1 DEF Sound, Queued
  <2>3. CASE o \notin todo
    BY <1>1, <1>21, <1>22, <2>1, <2>3 DEF Sound
  <2>. QED
    BY <2>2, <2>3
<1>24. \A e \in pending'[t] : EntryFits(t, e)'
  <2>. SUFFICES ASSUME NEW e \in joined \union new
                PROVE  EntryFits(t, e)'
    BY <1>17
  <2>1. ASSUME NEW o \in objs(e.key)
        PROVE  /\ o \in Objects /\ AsksFor(after[o], e)
               /\ e.key.action \in Actions
               /\ e.key.action # "verify" => o \in Gifts
    <3>1. /\ o \in todo /\ o \in Objects /\ Queued(obj[t][o]) /\ Sound(o, obj[t][o])
          /\ obj[t][o] \in Shape /\ Key(obj[t][o]) = e.key
      BY <1>0, <1>6, <2>1
    <3>2. obj[t][o].gid = e.key.gid /\ obj[t][o].at = e.key.action
      BY <1>7, <2>1
    <3>3. after[o].seq = e.seq
      BY <1>15, <1>21, <3>1
    <3>4. AsksFor(after[o], e)
      BY <1>21, <3>1, <3>2, <3>3 DEF AsksFor, Queued
    <3>5. e.key.action \in Actions
      BY <3>1, <3>2 DEF Queued, Shape
    <3>6. e.key.action # "verify" => o \in Gifts
      BY <3>1, <3>2 DEF Sound, Queued, Objects
    <3>. QED
      BY <3>1, <3>4, <3>5, <3>6
  <2>2. CASE e \in new
    <3>1. e.objs = objs(e.key) /\ e.key \in keys
      BY <1>4, <1>9, <2>2
    <3>2. \E o \in objs(e.key) : TRUE
      BY <1>5, <3>1
    <3>. HIDE DEF objs
    <3>. QED
      BY <1>17, <1>22, <2>1, <3>1, <3>2 DEF EntryFits, AsksFor
  <2>3. CASE e \in joined
    <3>1. PICK f \in pending[t] : e.seq = f.seq /\ e.key = f.key /\ e.objs = f.objs \union objs(f.key)
      BY <1>12, <2>3
    <3>2. EntryFits(t, f)
      BY <1>0
    <3>3. ASSUME NEW o \in f.objs
          PROVE  /\ o \in Objects /\ AsksFor(after[o], e)
                 /\ e.key.action # "verify" => o \in Gifts
      <4>1. o \in Objects /\ o \notin buffer[t] /\ AsksFor(obj[t][o], f)
        BY <3>2 DEF EntryFits
      <4>2. after[o] = obj[t][o]
        BY <1>21, <4>1
      <4>. QED
        BY <3>1, <3>2, <4>1, <4>2 DEF AsksFor, EntryFits
    <3>4. e.key.action \in Actions /\ f.objs # {}
      BY <3>1, <3>2 DEF EntryFits
    <3>. HIDE DEF objs
    <3>. QED
      BY <1>17, <1>22, <2>1, <3>1, <3>3, <3>4 DEF EntryFits, AsksFor
  <2>. QED
    BY <2>2, <2>3
<1>25. OneEntry(pending[t])'
  BY <1>14, <1>17 DEF OneEntry
<1>26. TabInv(t)'
  BY <1>17, <1>23, <1>24, <1>25 DEF TabInv
<1>27. ObjectType'
  BY <1>0, <1>1, <1>22 DEF ObjectType
<1>. QED
  BY <1>1, <1>17, <1>22, <1>26, <1>27, OtherTabs

\* An answered or timed out entry leaves with its objects, which wait nowhere else.
LEMMA ResponseWaits ==
  ASSUME WaitInv, AnswerInv', NEW t \in Tabs, ReceiveResponse(t)
  PROVE  WaitInv'
<1>. USE DEF client, server
<1>. DEFINE
       A        == ping[t].answers
       got(e)   == \E a \in A : a.seq = e.seq
       counted  == {Counted(e, A) : e \in pending[t]}
       done     == {e \in counted : got(e) \/ TimedOut(e)}
       entryOf(o) == {e \in done : o \in e.objs}
       the(o)   == CHOOSE e \in entryOf(o) : TRUE
       touched  == {o \in Objects : entryOf(o) # {}}
       out(o)   == Outcome(obj[t][o], the(o), Ok(A, the(o)))
       after(o) == After(obj[t][o], the(o), Ok(A, the(o)))
       saves    == {o \in touched : out(o) \in {"created", "deleted", "undeleted"} /\ after(o).known}
       again    == {o \in touched : out(o) = "again" /\ Requeues(obj[t][o], the(o))}
       objs     == [o \in Objects |-> IF o \in touched THEN after(o) ELSE obj[t][o]]
<1>0. /\ TabInv(t) /\ ObjectType
      /\ \A o \in Objects : obj[t][o] \in Shape /\ Sound(o, obj[t][o])
      /\ store \in [Gifts -> StoreShape]
      /\ buffer[t] \subseteq Objects
      /\ \A o \in buffer[t] : Queued(obj[t][o])
      /\ \A e \in pending[t] : EntryFits(t, e) /\ e = [seq |-> e.seq, key |-> e.key, objs |-> e.objs, count |-> e.count]
      /\ OneEntry(pending[t])
      /\ Gifts \subseteq Objects /\ \A g \in Gifts : g \notin Clones
  <2>1. TabInv(t) /\ ObjectType /\ AnswerInv
    BY DEF WaitInv
  <2>2. buffer[t] \subseteq Objects
    BY <2>1 DEF AnswerInv, QuestionType
  <2>3. \A e \in pending[t] : e = [seq |-> e.seq, key |-> e.key, objs |-> e.objs, count |-> e.count]
    BY <2>1 DEF AnswerInv, QuestionType
  <2>4. (\A o \in Objects : obj[t][o] \in Shape) /\ store \in [Gifts -> StoreShape]
    BY <2>1 DEF ObjectType
  <2>5. Gifts \subseteq Objects /\ \A g \in Gifts : g \notin Clones
    BY GiftsAssumption DEF Objects
  <2>. QED
    BY <2>1, <2>2, <2>3, <2>4, <2>5 DEF TabInv
<1>1. UNCHANGED clock
  BY DEF ReceiveResponse
<1>2. CASE Invalid(t) # {}
  <2>1. UNCHANGED <<store, obj, buffer, pending>>
    BY <1>2 DEF ReceiveResponse
  <2>. QED
    BY <1>1, <2>1 DEF WaitInv, ObjectType, TabInv, Sound, Queued, EntryFits, AsksFor, OneEntry
<1>3. CASE Invalid(t) = {}
  <2>1. /\ pending' = [pending EXCEPT ![t] = counted \ done]
        /\ obj' = [obj EXCEPT ![t] = objs]
        /\ store' = [g \in Gifts |-> IF g \in saves THEN Saved(store, after(g))[g] ELSE store[g]]
        /\ buffer' = [buffer EXCEPT ![t] = buffer[t] \union again]
    BY <1>3 DEF ReceiveResponse
  <2>2. \A e \in counted : \E f \in pending[t] : e = Counted(f, A) /\ e.seq = f.seq /\ e.key = f.key /\ e.objs = f.objs
    <3>. TAKE e \in counted
    <3>1. PICK f \in pending[t] : e = Counted(f, A)
      OBVIOUS
    <3>2. e = f \/ e = [f EXCEPT !.count = f.count + 1]
      BY <3>1 DEF Counted
    <3>3. e = f \/ e = [seq |-> f.seq, key |-> f.key, objs |-> f.objs, count |-> f.count + 1]
      BY <1>0, <3>2
    <3>. QED
      BY <3>1, <3>3
  <2>3. \A o \in touched : the(o) \in done /\ o \in the(o).objs /\ o \in Objects
    OBVIOUS
  <2>4. done \subseteq counted
    OBVIOUS
  <2>5. \A d \in done : \A o \in d.objs : o \in Objects => o \in touched
    OBVIOUS
  <2>6. \A o \in Objects : /\ o \in touched => objs[o] = after(o)
                           /\ o \notin touched => objs[o] = obj[t][o]
    OBVIOUS
  <2>7. \A o \in touched : Ok(A, the(o)) \in BOOLEAN
    BY DEF Ok
  <2>9. \A g \in Gifts : /\ g \in saves => g \in touched /\ after(g).known
                         /\ g \in touched => g \in Objects
    OBVIOUS
  <2>10. \A o \in again : o \in touched /\ out(o) = "again" /\ Requeues(obj[t][o], the(o))
    OBVIOUS
  <2>11. again \subseteq Objects
    OBVIOUS
  <2>. HIDE DEF counted, done, entryOf, the, touched, saves, again
  <2>12. \A o \in touched : /\ obj[t][o] \in Shape /\ Sound(o, obj[t][o]) /\ o \notin buffer[t]
                            /\ AsksFor(obj[t][o], the(o)) /\ the(o).key.action \in Actions
                            /\ obj[t][o].gid \in Gifts
    <3>. TAKE o \in touched
    <3>1. the(o) \in counted /\ o \in the(o).objs /\ o \in Objects
      BY <2>3, <2>4
    <3>2. PICK f \in pending[t] : the(o).seq = f.seq /\ the(o).key = f.key /\ the(o).objs = f.objs
      BY <2>2, <3>1
    <3>3. EntryFits(t, f)
      BY <1>0
    <3>. QED
      BY <1>0, <3>1, <3>2, <3>3 DEF EntryFits, AsksFor, Sound
  <2>13. \A o \in touched :
           /\ after(o) \in Shape
           /\ after(o).at = "none" => after(o).seq = 0
           /\ after(o).at \in {"none", obj[t][o].at}
           /\ after(o).here => after(o).gid = obj[t][o].gid
           /\ after(o).gid \in Gifts
           /\ out(o) = "again" /\ Requeues(obj[t][o], the(o)) => Queued(after(o))
           /\ after(o).verified = "none" \/ obj[t][o].at = "verify"
    <3>. TAKE o \in touched
    <3>1. /\ obj[t][o] \in Shape /\ obj[t][o].at # "none" /\ obj[t][o].here /\ obj[t][o].gid \in Gifts
          /\ obj[t][o].verified = "none" /\ the(o).key.action \in Actions
      BY <2>12 DEF AsksFor
    <3>. QED
      BY <1>0, <2>7, <3>1, AfterShape
  <2>. HIDE DEF after, out
  <2>14. ASSUME NEW d \in done, NEW e \in counted \ done, NEW o \in Objects, o \in d.objs, o \in e.objs PROVE FALSE
    <3>1. PICK f \in pending[t] : d = Counted(f, A) /\ d.objs = f.objs
      BY <2>2, <2>4
    <3>2. PICK h \in pending[t] : e = Counted(h, A) /\ e.objs = h.objs
      BY <2>2
    <3>3. AsksFor(obj[t][o], f) /\ AsksFor(obj[t][o], h)
      BY <1>0, <2>14, <3>1, <3>2 DEF EntryFits
    <3>4. f.seq = h.seq /\ f \in Question(t) /\ h \in Question(t)
      BY <3>3 DEF AsksFor, Question
    <3>5. f.key = h.key
      BY <3>4 DEF WaitInv, AnswerInv, OneKey
    <3>6. f = h
      BY <1>0, <3>5 DEF OneEntry
    <3>. QED
      BY <3>1, <3>2, <3>6, Zenon
  <2>15. \A e \in counted \ done : \A o \in e.objs : o \notin touched
    <3>. SUFFICES ASSUME NEW e \in counted \ done, NEW o \in e.objs, o \in touched
                  PROVE  FALSE
      OBVIOUS
    <3>1. the(o) \in done /\ o \in the(o).objs /\ o \in Objects
      BY <2>3
    <3>. QED
      BY <2>14, <3>1
  <2>16. objs \in [Objects -> Shape]
    BY <1>0, <2>13
  <2>. HIDE DEF objs
  <2>17. /\ obj' \in [Tabs -> [Objects -> Shape]] /\ obj'[t] = objs
         /\ \A u \in Tabs \ {t} : obj'[u] = obj[u]
    BY <1>0, <2>1, <2>16 DEF ObjectType
  <2>18. /\ store' \in [Gifts -> StoreShape]
         /\ \A g \in Gifts : store[g].saved => store'[g].saved
    <3>1. \A g \in saves : g \in Gifts => /\ Saved(store, after(g)) \in [Gifts -> StoreShape]
                                          /\ store[g].saved => Saved(store, after(g))[g].saved
      <4>. SUFFICES ASSUME NEW g \in saves, g \in Gifts
                    PROVE  /\ Saved(store, after(g)) \in [Gifts -> StoreShape]
                           /\ store[g].saved => Saved(store, after(g))[g].saved
        OBVIOUS
      <4>1. after(g) \in Shape /\ after(g).gid \in Gifts
        BY <2>9, <2>13
      <4>. QED
        BY <1>0, <4>1, SavedShape
    <3>. QED
      BY <1>0, <2>1, <3>1
  <2>19. /\ pending'[t] = counted \ done /\ buffer'[t] = buffer[t] \union again
         /\ \A u \in Tabs \ {t} : buffer'[u] = buffer[u] /\ pending'[u] = pending[u]
    <3>. DEFINE pendings == pending
                buffers  == buffer
                P == counted \ done
                B == buffer[t] \union again
    <3>1. /\ pendings = [u \in Tabs |-> pendings[u]] /\ pending' = [pendings EXCEPT ![t] = P]
          /\ buffers = [u \in Tabs |-> buffers[u]] /\ buffer' = [buffers EXCEPT ![t] = B]
      BY <2>1 DEF WaitInv, AnswerInv, QuestionType
    <3>2. /\ pending'[t] = P /\ buffer'[t] = B
          /\ \A u \in Tabs \ {t} : pending'[u] = pendings[u] /\ buffer'[u] = buffers[u]
      <4>. HIDE DEF pendings, buffers, P, B
      <4>. QED
        BY <3>1
    <3>. QED
      BY <3>2
  <2>20. \A o \in Objects : Sound(o, obj[t][o])'
    <3>. SUFFICES ASSUME NEW o \in Objects
                  PROVE  Sound(o, obj[t][o])'
      OBVIOUS
    <3>1. CASE o \in touched
      <4>1. obj'[t][o] = after(o)
        BY <2>6, <2>17, <3>1
      <4>2. Sound(o, obj[t][o]) /\ obj[t][o].here
        BY <2>12, <3>1 DEF AsksFor
      <4>3. o \in Gifts => obj[t][o].gid = o /\ store'[o].saved /\ obj[t][o].at # "verify"
        BY <2>18, <4>2 DEF Sound
      <4>4. o \in Clones => obj[t][o].at \in {"none", "verify"}
        BY <4>2 DEF Sound
      <4>5. /\ after(o).at = "none" => after(o).seq = 0
            /\ after(o).at \in {"none", obj[t][o].at}
            /\ after(o).here => after(o).gid = obj[t][o].gid
            /\ after(o).gid \in Gifts
            /\ after(o).verified = "none" \/ obj[t][o].at = "verify"
        BY <2>13, <3>1
      <4>. QED
        BY <4>1, <4>3, <4>4, <4>5 DEF Sound
    <3>2. CASE o \notin touched
      <4>1. obj'[t][o] = obj[t][o] /\ Sound(o, obj[t][o])
        BY <1>0, <2>6, <2>17, <3>2
      <4>. QED
        BY <2>18, <4>1 DEF Sound
    <3>. QED
      BY <3>1, <3>2
  <2>21. \A o \in buffer'[t] : Queued(obj[t][o])'
    <3>. SUFFICES ASSUME NEW o \in buffer[t] \union again
                  PROVE  Queued(obj[t][o])'
      BY <2>19
    <3>1. CASE o \in again
      <4>1. obj'[t][o] = after(o) /\ Queued(after(o))
        BY <2>6, <2>10, <2>11, <2>13, <2>17, <3>1
      <4>. QED
        BY <4>1 DEF Queued
    <3>2. CASE o \in buffer[t]
      <4>1. o \notin touched /\ o \in Objects
        BY <1>0, <2>12, <3>2
      <4>2. obj'[t][o] = obj[t][o] /\ Queued(obj[t][o])
        BY <1>0, <2>6, <2>17, <3>2, <4>1
      <4>. QED
        BY <4>2 DEF Queued
    <3>. QED
      BY <3>1, <3>2
  <2>22. \A e \in pending'[t] : EntryFits(t, e)'
    <3>. SUFFICES ASSUME NEW e \in counted \ done
                  PROVE  EntryFits(t, e)'
      BY <2>19
    <3>1. PICK f \in pending[t] : e.seq = f.seq /\ e.key = f.key /\ e.objs = f.objs
      BY <2>2
    <3>2. EntryFits(t, f)
      BY <1>0
    <3>3. ASSUME NEW o \in e.objs
          PROVE  o \in Objects /\ o \notin buffer'[t] /\ obj'[t][o] = obj[t][o] /\ AsksFor(obj[t][o], f)
      <4>1. o \notin touched /\ o \in Objects /\ o \notin buffer[t] /\ AsksFor(obj[t][o], f)
        BY <2>15, <3>1, <3>2 DEF EntryFits
      <4>2. o \notin again
        BY <2>10, <4>1
      <4>3. obj'[t][o] = obj[t][o]
        BY <2>6, <2>17, <4>1
      <4>. QED
        BY <2>19, <4>1, <4>2, <4>3
    <3>. QED
      BY <3>1, <3>2, <3>3 DEF EntryFits, AsksFor
  <2>23. OneEntry(pending[t])'
    <3>. SUFFICES ASSUME NEW d \in counted \ done, NEW e \in counted \ done, d.key = e.key
                  PROVE  d = e
      BY <2>19 DEF OneEntry
    <3>1. PICK f \in pending[t] : d = Counted(f, A) /\ d.key = f.key
      BY <2>2
    <3>2. PICK h \in pending[t] : e = Counted(h, A) /\ e.key = h.key
      BY <2>2
    <3>3. f = h
      BY <1>0, <3>1, <3>2 DEF OneEntry
    <3>. QED
      BY <3>1, <3>2, <3>3, Zenon
  <2>24. TabInv(t)'
    BY <2>20, <2>21, <2>22, <2>23 DEF TabInv
  <2>25. ObjectType'
    BY <1>0, <1>1, <2>17, <2>18 DEF ObjectType
  <2>. QED
    BY <2>17, <2>18, <2>19, <2>24, <2>25, OtherTabs
<1>. QED
  BY <1>2, <1>3

\* The other steps leave the tabs alone.
LEMMA ServersWait ==
  ASSUME WaitInv, AnswerInv', UNCHANGED client
  PROVE  WaitInv'
  BY DEF client, WaitInv, ObjectType, TabInv, Sound, Queued, EntryFits, AsksFor, OneEntry

LEMMA WaitInit ==
  ASSUME Init
  PROVE  WaitInv
<1>1. /\ store = [g \in Gifts |-> IF g \in There THEN [NoStore EXCEPT !.saved = TRUE, !.created = TRUE] ELSE NoStore]
      /\ obj = [t \in Tabs |-> [o \in Objects |-> IF o \in There THEN Loaded(o, TRUE) ELSE NoObj]]
      /\ clock = 0
      /\ \A t \in Tabs : pending[t] = {} /\ buffer[t] = {}
  BY DEF Init
<1>2. /\ store \in [Gifts -> StoreShape]
      /\ \A g \in There : store[g].saved
  <2>1. NoStore \in StoreShape /\ [NoStore EXCEPT !.saved = TRUE] \in StoreShape
    BY DEF NoStore, StoreShape
  <2>2. PICK x : x = [NoStore EXCEPT !.saved = TRUE]
    OBVIOUS
  <2>3. x \in StoreShape /\ x.saved
    BY <2>2 DEF NoStore, StoreShape
  <2>4. [x EXCEPT !.created = TRUE] \in StoreShape /\ [x EXCEPT !.created = TRUE].saved
    BY <2>3 DEF StoreShape
  <2>5. [NoStore EXCEPT !.saved = TRUE, !.created = TRUE] = [x EXCEPT !.created = TRUE]
    BY <2>2
  <2>6. PICK y : y = [NoStore EXCEPT !.saved = TRUE, !.created = TRUE]
    OBVIOUS
  <2>7. y \in StoreShape /\ y.saved
    BY <2>4, <2>5, <2>6
  <2>8. store = [g \in Gifts |-> IF g \in There THEN y ELSE NoStore]
    BY <1>1, <2>6
  <2>. QED
    BY <2>1, <2>7, <2>8, GiftsAssumption
<1>3. \A g \in There : /\ g \in Gifts /\ g \notin Clones
                       /\ Loaded(g, TRUE) \in Shape
                       /\ Loaded(g, TRUE).here /\ Loaded(g, TRUE).gid = g /\ Loaded(g, TRUE).at = "none"
                       /\ Loaded(g, TRUE).seq = 0 /\ Loaded(g, TRUE).verified = "none"
  <2>. TAKE g \in There
  <2>1. store[g] \in StoreShape /\ g \in Gifts /\ g \notin Clones
    BY <1>2, GiftsAssumption
  <2>. QED
    BY <1>2, <2>1, LoadedShape
<1>4. obj \in [Tabs -> [Objects -> Shape]]
  BY <1>1, <1>3, NoObjShape
<1>5. \A t \in Tabs, o \in Objects : Sound(o, obj[t][o])
  <2>. TAKE t \in Tabs, o \in Objects
  <2>1. CASE o \in There
    <3>1. obj[t][o] = Loaded(o, TRUE)
      BY <1>1, <2>1
    <3>. QED
      BY <1>2, <1>3, <2>1, <3>1 DEF Sound
  <2>2. CASE o \notin There
    <3>1. obj[t][o] = NoObj /\ ~NoObj.known
      BY <1>1, <2>2 DEF NoObj
    <3>. QED
      BY <3>1, NoObjShape DEF Sound
  <2>. QED
    BY <2>1, <2>2
<1>6. \A t \in Tabs : TabInv(t)
  BY <1>1, <1>5 DEF TabInv, OneEntry
<1>. QED
  BY <1>1, <1>2, <1>4, <1>6, AnswerInit DEF WaitInv, ObjectType

LEMMA WaitStep ==
  ASSUME WaitInv, [Next]_vars
  PROVE  WaitInv'
<1>0. AnswerInv'
  BY AnswerStep DEF WaitInv
<1>1. CASE UNCHANGED client
  BY <1>0, <1>1, ServersWait
<1>2. CASE WireNext
  <2>1. UNCHANGED client
    BY <1>2 DEF WireNext, ServerHandle, ReceiveAnswer, LoseMessage
  <2>. QED
    BY <1>1, <2>1
<1>3. ASSUME NEW t \in Tabs, UserNext(t) PROVE WaitInv'
  BY <1>0, <1>3, UserWaits
<1>4. ASSUME NEW t \in Tabs, PingNext(t) PROVE WaitInv'
  <2>1. CASE SendPing(t)
    BY <1>0, <2>1, SendWaits
  <2>2. CASE ReceiveResponse(t)
    BY <1>0, <2>2, ResponseWaits
  <2>3. CASE HandlePing(t) \/ FinishPing(t) \/ RejectPing(t) \/ LosePing(t)
    <3>1. UNCHANGED client
      BY <2>3 DEF HandlePing, FinishPing, RejectPing, LosePing
    <3>. QED
      BY <1>1, <3>1
  <2>. QED
    BY <1>4, <2>1, <2>2, <2>3 DEF PingNext
<1>5. CASE UNCHANGED vars
  BY <1>1, <1>5 DEF vars
<1>. QED
  BY <1>2, <1>3, <1>4, <1>5 DEF Next

THEOREM WaitCorrect == Spec => []WaitInv
<1>1. Init => WaitInv
  BY WaitInit
<1>2. WaitInv /\ [Next]_vars => WaitInv'
  BY WaitStep
<1>. QED
  BY <1>1, <1>2, PTL DEF Spec

\* A gift waits in the buffer or in one pending action with its seq, never in both: clicks on a
\* gift that waits, answers for what has changed, page loads and copies that are given up do
\* not make verify_gifts_request ask twice.
THEOREM GiftWaitsOnce == Spec => []OneWait
<1>1. WaitInv => OneWait
  <2>. SUFFICES ASSUME WaitInv, NEW t \in Tabs
                PROVE  /\ \A o \in Objects : Waiting(t, o) => obj[t][o].at # "none"
                       /\ \A e \in pending[t] : \A o \in e.objs : o \notin buffer[t] /\ obj[t][o].seq = e.seq
                       /\ \A e, f \in pending[t] : e # f => e.seq # f.seq /\ e.key # f.key
    BY DEF OneWait
  <2>1. TabInv(t) /\ AnswerInv
    BY DEF WaitInv
  <2>2. \A o \in Objects : Waiting(t, o) => obj[t][o].at # "none"
    BY <2>1 DEF Waiting, TabInv, Queued, EntryFits, AsksFor
  <2>3. \A e \in pending[t] : \A o \in e.objs : o \notin buffer[t] /\ obj[t][o].seq = e.seq
    BY <2>1 DEF TabInv, EntryFits, AsksFor
  <2>4. \A e, f \in pending[t] : e.seq = f.seq => e.key = f.key
    BY <2>1 DEF AnswerInv, OneKey, Question
  <2>5. \A e, f \in pending[t] : e.key = f.key => e = f
    BY <2>1 DEF TabInv, OneEntry
  <2>. QED
    BY <2>2, <2>3, <2>4, <2>5
<1>. QED
  BY <1>1, WaitCorrect, PTL

============================================================================
