------------------------- MODULE VerifyGiftsProofs -------------------------
(* Proofs about the actions of a browser and their answers, for any number   *)
(* of tabs, gifts and copies, and whatever is lost, reloaded or timed out: an *)
(* answer answers the question that waits under its seq.                      *)
EXTENDS VerifyGifts, FiniteSetTheorems, WellFoundedInduction, TLAPS

\* A question waits in the tab, is on its way in a ping, has a row in verify_gifts, or is in a
\* message between the servers (with its answer or without).  The tab may have forgotten it.
Traces(t)   == {v \in vg \union wire : v.tab = t}
Question(t) == pending[t] \union ping[t].items \union Traces(t)

QuestionType ==
  /\ seqLS \in Nat
  /\ buffer \in [Tabs -> SUBSET Objects]
  /\ pending = [t \in Tabs |-> pending[t]]
  /\ ping = [t \in Tabs |-> ping[t]]
  /\ \A t \in Tabs : \A e \in pending[t] :
       e = [seq |-> e.seq, key |-> e.key, objs |-> e.objs, count |-> e.count]
  /\ \A v \in vg : v = [tab |-> v.tab, seq |-> v.seq, key |-> v.key, ok |-> v.ok]
  /\ \A m \in wire : m = [type |-> m.type, tab |-> m.tab, seq |-> m.seq, key |-> m.key, ok |-> m.ok]

\* Remote questions have taken their numbers from the localStorage, which never goes back.
SeqsTaken ==
  /\ \A t \in Tabs : \A q \in Question(t) : q.seq \in Int /\ q.seq # 0 /\ q.seq >= -seqLS
  /\ \A t \in Tabs : \A a \in ping[t].answers : a.seq \in Int /\ a.seq >= -seqLS
  /\ \A v \in vg \union wire : v.tab \in Tabs /\ v.seq < 0

\* The numbers of the waiting actions have a greatest one.
PendingBounded == \A t \in Tabs : \E b \in Nat : \A e \in pending[t] : e.seq <= b

\* A seq of a tab stands for one question, forgotten ones included.
OneKey == \A t \in Tabs : \A p, q \in Question(t) : p.seq = q.seq => p.key = q.key

AnswersKey == \A t \in Tabs : \A a \in ping[t].answers, q \in Question(t) : a.seq = q.seq => a.gid = q.key.gid

AnswerInv == QuestionType /\ SeqsTaken /\ PendingBounded /\ OneKey /\ AnswersKey

----------------------------------------------------------------------------
\* Helpers.

\* Max0 is the greatest element of a bounded set of integers, and 0 when there is none above.
LEMMA Max0IsGreatest ==
  ASSUME NEW S, S \subseteq Int, NEW b \in Nat, \A n \in S : n <= b
  PROVE  Max0(S) \in Nat /\ \A n \in S : n <= Max0(S)
<1>. DEFINE T == S \union {0}
            D == {d \in Nat : \E n \in T : d = b - n}
<1>1. T \subseteq Int /\ 0 \in T /\ \A n \in T : n <= b
  OBVIOUS
<1>2. b \in D
  <2>1. b = b - 0
    OBVIOUS
  <2>. QED
    BY <1>1, <2>1
<1>3. IsWellFoundedOn(OpToRel(<, Nat), Nat)
  BY NatLessThanWellFounded
<1>. HIDE DEF D
<1>10. D \subseteq Nat
  BY DEF D
<1>11. \E d \in D : \A y \in D : ~ (<<y, d>> \in OpToRel(<, Nat))
  BY <1>2, <1>3, <1>10, WFMin
<1>4. PICK d \in D : \A y \in D : ~ (<<y, d>> \in OpToRel(<, Nat))
  BY <1>11
<1>5. \A y \in D : ~ (y < d)
  BY <1>4, <1>10 DEF OpToRel
<1>6. PICK m \in T : d = b - m
  BY DEF D
<1>7. \A n \in T : n <= m
  <2>. TAKE n \in T
  <2>1. b - n \in Nat
    BY <1>1
  <2>2. b - n \in D
    BY <2>1 DEF D
  <2>3. ~ (b - n < b - m)
    BY <1>5, <1>6, <2>2
  <2>. QED
    BY <1>1, <2>3
<1>8. Max0(S) \in T /\ \A n \in T : n <= Max0(S)
  BY <1>7 DEF Max0
<1>. DEFINE M == Max0(S)
<1>9. M \in Int /\ 0 <= M
  <2>. HIDE DEF M, T
  <2>1. M \in T /\ \A n \in T : n <= M
    BY <1>8 DEF M
  <2>. QED
    BY <1>1, <2>1
<1>. QED
  BY <1>8, <1>9

\* A finite set as a sequence: its domain is 1..n.
LEMMA ListedOnce ==
  ASSUME NEW S, IsFiniteSet(S)
  PROVE  /\ Len(SetToSeq(S)) \in Nat
         /\ DOMAIN SetToSeq(S) = 1..Len(SetToSeq(S))
<1>1. Cardinality(S) \in Nat /\ ExistsBijection(1..Cardinality(S), S)
  BY FS_CardinalityType
<1>2. \E f \in [1..Cardinality(S) -> S] : IsInjective(f)
  BY <1>1, Zenon DEF ExistsBijection, Bijection, Injection, IsInjective
<1>3. SetToSeq(S) \in [1..Cardinality(S) -> S]
  BY <1>2 DEF SetToSeq
<1>4. SetToSeq(S) \in Seq(S)
  BY <1>1, <1>3
<1>. QED
  BY <1>4

\* What a later state keeps of the numbers, when all its questions were there before.
LEMMA FewerQuestions ==
  ASSUME AnswerInv, QuestionType', seqLS' >= seqLS,
         \A t \in Tabs : \A p \in Question(t)' : \E q \in Question(t) : p.seq = q.seq /\ p.key = q.key,
         \A t \in Tabs : \A e \in pending'[t] : \E f \in pending[t] : e.seq = f.seq,
         \A t \in Tabs : \A a \in ping'[t].answers :
           a \in ping[t].answers \/ \E q \in Question(t) : a.seq = q.seq /\ a.gid = q.key.gid,
         \A v \in vg' \union wire' : v.tab \in Tabs /\ v.seq < 0
  PROVE  AnswerInv'
<1>. USE DEF AnswerInv
<1>1. seqLS \in Nat /\ seqLS' \in Nat
  BY DEF QuestionType
<1>2. SeqsTaken'
  <2>1. \A t \in Tabs : \A p \in Question(t)' : p.seq \in Int /\ p.seq # 0 /\ p.seq >= -seqLS'
    <3>. TAKE t \in Tabs
    <3>. TAKE p \in Question(t)'
    <3>1. PICK q \in Question(t) : p.seq = q.seq
      OBVIOUS
    <3>2. q.seq \in Int /\ q.seq # 0 /\ q.seq >= -seqLS
      BY DEF SeqsTaken
    <3>. QED
      BY <1>1, <3>1, <3>2
  <2>2. \A t \in Tabs : \A a \in ping'[t].answers : a.seq \in Int /\ a.seq >= -seqLS'
    <3>. TAKE t \in Tabs
    <3>. TAKE a \in ping'[t].answers
    <3>1. a.seq \in Int /\ a.seq >= -seqLS
      <4>1. CASE a \in ping[t].answers
        BY <4>1 DEF SeqsTaken
      <4>2. ASSUME NEW q \in Question(t), a.seq = q.seq PROVE a.seq \in Int /\ a.seq >= -seqLS
        BY <4>2 DEF SeqsTaken
      <4>. QED
        BY <4>1, <4>2
    <3>. QED
      BY <1>1, <3>1
  <2>. QED
    BY <2>1, <2>2 DEF SeqsTaken
<1>3. PendingBounded'
  <2>. SUFFICES ASSUME NEW t \in Tabs
                PROVE  \E b \in Nat : \A e \in pending'[t] : e.seq <= b
    BY DEF PendingBounded
  <2>1. PICK b \in Nat : \A f \in pending[t] : f.seq <= b
    BY DEF PendingBounded
  <2>2. \A e \in pending'[t] : e.seq <= b
    BY <2>1
  <2>. QED
    BY <2>2
<1>4. OneKey'
  <2>. SUFFICES ASSUME NEW t \in Tabs, NEW p \in Question(t)', NEW q \in Question(t)', p.seq = q.seq
                PROVE  p.key = q.key
    BY DEF OneKey
  <2>1. PICK x \in Question(t) : p.seq = x.seq /\ p.key = x.key
    OBVIOUS
  <2>2. PICK y \in Question(t) : q.seq = y.seq /\ q.key = y.key
    OBVIOUS
  <2>3. OneKey /\ x.seq = y.seq
    BY <2>1, <2>2
  <2>4. x.key = y.key
    BY <2>3 DEF OneKey
  <2>. QED
    BY <2>1, <2>2, <2>4
<1>5. AnswersKey'
  <2>. SUFFICES ASSUME NEW t \in Tabs, NEW a \in ping'[t].answers, NEW q \in Question(t)', a.seq = q.seq
                PROVE  a.gid = q.key.gid
    BY DEF AnswersKey
  <2>1. PICK y \in Question(t) : q.seq = y.seq /\ q.key = y.key
    OBVIOUS
  <2>2. CASE a \in ping[t].answers
    BY <2>1, <2>2 DEF AnswersKey
  <2>3. ASSUME NEW x \in Question(t), a.seq = x.seq, a.gid = x.key.gid PROVE a.gid = q.key.gid
    <3>1. OneKey /\ x.seq = y.seq
      BY <2>1, <2>3
    <3>2. x.key = y.key
      BY <3>1 DEF OneKey
    <3>. QED
      BY <2>1, <2>3, <3>2
  <2>. QED
    BY <2>2, <2>3
<1>. QED
  BY <1>2, <1>3, <1>4, <1>5

\* A step in which one tab is left with the pending actions P and the ping X, which hold no
\* other questions than before, and answers, rows and messages only tell of those.
OldQuestions(t, P, X) ==
  /\ pending' = [pending EXCEPT ![t] = P]
  /\ ping' = [ping EXCEPT ![t] = X]
  /\ \A e \in P : /\ e = [seq |-> e.seq, key |-> e.key, objs |-> e.objs, count |-> e.count]
                  /\ \E f \in pending[t] : e.seq = f.seq /\ e.key = f.key
  /\ X.items \subseteq ping[t].items
  /\ \A a \in X.answers : a \in ping[t].answers \/ \E q \in Question(t) : a.seq = q.seq /\ a.gid = q.key.gid
  /\ \A v \in vg' : v = [tab |-> v.tab, seq |-> v.seq, key |-> v.key, ok |-> v.ok]
  /\ \A m \in wire' : m = [type |-> m.type, tab |-> m.tab, seq |-> m.seq, key |-> m.key, ok |-> m.ok]
  /\ \A v \in vg' \union wire' : /\ v.tab \in Tabs /\ v.seq < 0
                                 /\ \E q \in Question(v.tab) : v.seq = q.seq /\ v.key = q.key
  /\ seqLS' \in Nat /\ seqLS' >= seqLS
  /\ buffer' \in [Tabs -> SUBSET Objects]

\* A step that asks nothing it has not asked before.
NothingNew == \A t \in Tabs : \A p \in Question(t)' : \E q \in Question(t) : p.seq = q.seq /\ p.key = q.key

LEMMA OldQuestionsKept ==
  ASSUME AnswerInv, NEW t \in Tabs, NEW P, NEW X, OldQuestions(t, P, X)
  PROVE  AnswerInv' /\ NothingNew
<1>. USE DEF OldQuestions
<1>1. /\ pending = [u \in Tabs |-> pending[u]]
      /\ ping = [u \in Tabs |-> ping[u]]
      /\ \A u \in Tabs : \A e \in pending[u] :
           e = [seq |-> e.seq, key |-> e.key, objs |-> e.objs, count |-> e.count]
  BY DEF AnswerInv, QuestionType
<1>2. /\ pending' = [u \in Tabs |-> IF u = t THEN P ELSE pending[u]]
      /\ ping' = [u \in Tabs |-> IF u = t THEN X ELSE ping[u]]
  <2>. DEFINE pendings == pending
              pings    == ping
  <2>. HIDE DEF pendings, pings
  <2>1. /\ pendings = [u \in Tabs |-> pendings[u]]
        /\ pings = [u \in Tabs |-> pings[u]]
        /\ pending' = [pendings EXCEPT ![t] = P]
        /\ ping' = [pings EXCEPT ![t] = X]
    BY <1>1 DEF pendings, pings
  <2>2. /\ pending' = [u \in Tabs |-> IF u = t THEN P ELSE pendings[u]]
        /\ ping' = [u \in Tabs |-> IF u = t THEN X ELSE pings[u]]
    BY <2>1
  <2>. QED
    BY <2>2 DEF pendings, pings
<1>3. \A u \in Tabs : /\ pending'[u] = IF u = t THEN P ELSE pending[u]
                      /\ ping'[u] = IF u = t THEN X ELSE ping[u]
  BY <1>2
<1>4. QuestionType'
  <2>1. pending' = [u \in Tabs |-> pending'[u]] /\ ping' = [u \in Tabs |-> ping'[u]]
    BY <1>2, <1>3, Zenon
  <2>2. \A u \in Tabs : \A e \in pending'[u] :
           e = [seq |-> e.seq, key |-> e.key, objs |-> e.objs, count |-> e.count]
    BY <1>1, <1>3, Zenon
  <2>. QED
    BY <2>1, <2>2 DEF QuestionType
<1>9. \A u \in Tabs : \A e \in pending'[u] : \E f \in pending[u] : e.seq = f.seq /\ e.key = f.key
  <2>. TAKE u \in Tabs
  <2>. TAKE e \in pending'[u]
  <2>1. CASE u = t
    <3>1. e \in P
      BY <1>3, <2>1
    <3>. QED
      BY <2>1, <3>1
  <2>2. CASE u # t
    <3>1. e \in pending[u]
      BY <1>3, <2>2
    <3>. QED
      BY <3>1
  <2>. QED
    BY <2>1, <2>2
<1>5. \A u \in Tabs : \A p \in Question(u)' : \E q \in Question(u) : p.seq = q.seq /\ p.key = q.key
  <2>. TAKE u \in Tabs
  <2>. TAKE p \in Question(u)'
  <2>1. CASE p \in pending'[u]
    <3>1. \E f \in pending[u] : p.seq = f.seq /\ p.key = f.key
      BY <1>9, <2>1, Zenon
    <3>. QED
      BY <3>1, Zenon DEF Question
  <2>2. CASE p \in ping'[u].items
    <3>1. p \in ping[u].items
      BY <1>3, <2>2, Zenon
    <3>. QED
      BY <3>1, Zenon DEF Question
  <2>3. CASE p \in Traces(u)'
    BY <2>3, Zenon DEF Traces
  <2>. QED
    BY <2>1, <2>2, <2>3, Zenon DEF Question
<1>6. \A u \in Tabs : \A e \in pending'[u] : \E f \in pending[u] : e.seq = f.seq
  BY <1>9, Zenon
<1>7. \A u \in Tabs : \A a \in ping'[u].answers :
        a \in ping[u].answers \/ \E q \in Question(u) : a.seq = q.seq /\ a.gid = q.key.gid
  BY <1>3
<1>8. \A v \in vg' \union wire' : v.tab \in Tabs /\ v.seq < 0
  OBVIOUS
<1>. QED
  BY <1>4, <1>5, <1>6, <1>7, <1>8, FewerQuestions, Zenon DEF NothingNew

\* The rows and messages there are, and the tables of the tabs.
LEMMA TracesAsked ==
  ASSUME AnswerInv
  PROVE  /\ \A v \in vg \union wire : /\ v.tab \in Tabs /\ v.seq < 0
                                      /\ \E q \in Question(v.tab) : v.seq = q.seq /\ v.key = q.key
         /\ \A v \in vg : v = [tab |-> v.tab, seq |-> v.seq, key |-> v.key, ok |-> v.ok]
         /\ \A m \in wire : m = [type |-> m.type, tab |-> m.tab, seq |-> m.seq, key |-> m.key, ok |-> m.ok]
<1>1. \A v \in vg \union wire : v.tab \in Tabs /\ v.seq < 0
  BY DEF AnswerInv, SeqsTaken
<1>2. \A v \in vg \union wire : v \in Question(v.tab)
  BY DEF Question, Traces
<1>. QED
  BY <1>1, <1>2, Zenon DEF AnswerInv, QuestionType

\* A tab keeps its questions and the ping it has.
LEMMA TabKeeps ==
  ASSUME AnswerInv, NEW t \in Tabs
  PROVE  /\ pending = [pending EXCEPT ![t] = pending[t]]
         /\ ping = [ping EXCEPT ![t] = ping[t]]
         /\ \A e \in pending[t] : /\ e = [seq |-> e.seq, key |-> e.key, objs |-> e.objs, count |-> e.count]
                                  /\ \E f \in pending[t] : e.seq = f.seq /\ e.key = f.key
         /\ seqLS \in Nat
         /\ buffer \in [Tabs -> SUBSET Objects]
<1>. DEFINE pendings == pending
            pings    == ping
<1>1. /\ pendings = [u \in Tabs |-> pendings[u]]
      /\ pings = [u \in Tabs |-> pings[u]]
  BY DEF AnswerInv, QuestionType
<1>2. /\ pendings = [pendings EXCEPT ![t] = pendings[t]]
      /\ pings = [pings EXCEPT ![t] = pings[t]]
  <2>. HIDE DEF pendings, pings
  <2>. QED
    BY <1>1
<1>. QED
  BY <1>2 DEF AnswerInv, QuestionType

\* Steps that ask and answer nothing.
LEMMA NothingAsked ==
  ASSUME AnswerInv, NEW t \in Tabs, UNCHANGED <<pending, ping, vg, wire>>,
         seqLS' \in Nat, seqLS' >= seqLS, buffer' \in [Tabs -> SUBSET Objects]
  PROVE  AnswerInv' /\ NothingNew
<1>1. pending' = [pending EXCEPT ![t] = pending[t]] /\ ping' = [ping EXCEPT ![t] = ping[t]]
  BY TabKeeps
<1>2. vg' = vg /\ wire' = wire
  OBVIOUS
<1>3. OldQuestions(t, pending[t], ping[t])
  BY <1>1, <1>2, TabKeeps, TracesAsked DEF OldQuestions
<1>. QED
  BY <1>3, OldQuestionsKept

LEMMA AnswerInit ==
  ASSUME Init
  PROVE  AnswerInv
<1>. USE DEF Init
<1>1. \A t \in Tabs : Question(t) = {} /\ pending[t] = {} /\ ping[t].answers = {}
  BY DEF NoPing, Question, Traces
<1>2. QuestionType
  BY DEF QuestionType
<1>3. SeqsTaken
  BY <1>1 DEF SeqsTaken
<1>4. PendingBounded
  BY <1>1 DEF PendingBounded
<1>5. OneKey /\ AnswersKey
  BY <1>1 DEF OneKey, AnswersKey
<1>. QED
  BY <1>2, <1>3, <1>4, <1>5 DEF AnswerInv

----------------------------------------------------------------------------
\* The steps.

LEMMA UserStep ==
  ASSUME AnswerInv, NEW t \in Tabs, UserNext(t)
  PROVE  AnswerInv' /\ NothingNew
<1>. USE DEF client, server
<1>0. /\ seqLS \in Nat /\ buffer \in [Tabs -> SUBSET Objects]
      /\ \A o \in Objects : [buffer EXCEPT ![t] = buffer[t] \union {o}] \in [Tabs -> SUBSET Objects]
  <2>1. seqLS \in Nat /\ buffer \in [Tabs -> SUBSET Objects]
    BY TabKeeps
  <2>. QED
    BY <2>1
<1>1. ASSUME NEW g \in Gifts, CreateGift(t, g) PROVE AnswerInv' /\ NothingNew
  <2>1. /\ UNCHANGED <<pending, ping, vg, wire>>
        /\ seqLS' = seqLS + 1
        /\ buffer' = [buffer EXCEPT ![t] = buffer[t] \union {g}]
    BY <1>1 DEF CreateGift, Enqueue
  <2>2. seqLS' \in Nat /\ seqLS' >= seqLS /\ buffer' \in [Tabs -> SUBSET Objects]
    BY <1>0, <2>1 DEF Objects
  <2>. QED
    BY <2>1, <2>2, NothingAsked
<1>2. ASSUME NEW g \in Gifts, RefreshGift(t, g) PROVE AnswerInv' /\ NothingNew
  <2>1. UNCHANGED <<pending, ping, vg, wire, seqLS, buffer>>
    BY <1>2 DEF RefreshGift
  <2>. QED
    BY <1>0, <2>1, NothingAsked
<1>3. ASSUME NEW g \in Gifts, DeleteGift(t, g) PROVE AnswerInv' /\ NothingNew
  <2>1. /\ UNCHANGED <<pending, ping, vg, wire, seqLS>>
        /\ buffer' = [buffer EXCEPT ![t] = buffer[t] \union {g}] \/ UNCHANGED buffer
    BY <1>3 DEF DeleteGift, Enqueue
  <2>2. buffer' \in [Tabs -> SUBSET Objects]
    BY <1>0, <2>1 DEF Objects
  <2>. QED
    BY <1>0, <2>1, <2>2, NothingAsked
<1>4. ASSUME NEW c \in Clones, NEW g \in Gifts, ReceiveClone(t, c, g) PROVE AnswerInv' /\ NothingNew
  <2>1. /\ UNCHANGED <<pending, ping, vg, wire, seqLS>>
        /\ buffer' = [buffer EXCEPT ![t] = buffer[t] \union {c}]
    BY <1>4 DEF ReceiveClone, Enqueue
  <2>2. buffer' \in [Tabs -> SUBSET Objects]
    BY <1>0, <2>1 DEF Objects
  <2>. QED
    BY <1>0, <2>1, <2>2, NothingAsked
<1>5. ASSUME NEW c \in Clones, UseClone(t, c) PROVE AnswerInv' /\ NothingNew
  <2>1. UNCHANGED <<pending, ping, vg, wire, seqLS, buffer>>
    BY <1>5 DEF UseClone
  <2>. QED
    BY <1>0, <2>1, NothingAsked
<1>6. ASSUME NEW c \in Clones, GiveUpClone(t, c) PROVE AnswerInv' /\ NothingNew
  <2>. DEFINE P == {[e EXCEPT !.objs = e.objs \ {c}] : e \in {f \in pending[t] : f.objs # {c}}}
  <2>1. UNCHANGED <<ping, vg, wire, seqLS, buffer>> /\ pending' = [pending EXCEPT ![t] = P]
    BY <1>6 DEF GiveUpClone
  <2>2. ASSUME NEW e \in P
        PROVE  /\ e = [seq |-> e.seq, key |-> e.key, objs |-> e.objs, count |-> e.count]
               /\ \E f \in pending[t] : e.seq = f.seq /\ e.key = f.key
    <3>1. PICK f \in pending[t] : e = [f EXCEPT !.objs = f.objs \ {c}]
      OBVIOUS
    <3>2. f = [seq |-> f.seq, key |-> f.key, objs |-> f.objs, count |-> f.count]
      BY TabKeeps
    <3>3. e = [seq |-> f.seq, key |-> f.key, objs |-> f.objs \ {c}, count |-> f.count]
      BY <3>1, <3>2
    <3>. QED
      BY <3>3
  <2>. HIDE DEF P
  <2>3. ping' = [ping EXCEPT ![t] = ping[t]]
    BY <2>1, TabKeeps
  <2>4. seqLS' \in Nat /\ seqLS' >= seqLS /\ buffer' \in [Tabs -> SUBSET Objects]
    BY <1>0, <2>1
  <2>5. vg' = vg /\ wire' = wire
    BY <2>1
  <2>6. OldQuestions(t, P, ping[t])
    BY <2>1, <2>2, <2>3, <2>4, <2>5, TracesAsked DEF OldQuestions
  <2>. QED
    BY <2>6, OldQuestionsKept
<1>7. CASE Reload(t)
  <2>1. /\ UNCHANGED <<ping, vg, wire, seqLS>> /\ pending' = [pending EXCEPT ![t] = {}]
        /\ \E B \in SUBSET Gifts : buffer' = [buffer EXCEPT ![t] = B]
    <3>1. \E B : B \subseteq Gifts /\ buffer' = [buffer EXCEPT ![t] = B]
      BY <1>7 DEF Reload
    <3>. QED
      BY <1>7, <3>1 DEF Reload
  <2>2. seqLS' \in Nat /\ seqLS' >= seqLS /\ buffer' \in [Tabs -> SUBSET Objects]
    <3>1. PICK B \in SUBSET Gifts : buffer' = [buffer EXCEPT ![t] = B]
      BY <2>1
    <3>. QED
      BY <1>0, <2>1, <3>1 DEF Objects
  <2>3. ping' = [ping EXCEPT ![t] = ping[t]]
    BY <2>1, TabKeeps
  <2>4. vg' = vg /\ wire' = wire
    BY <2>1
  <2>5. OldQuestions(t, {}, ping[t])
    BY <2>1, <2>2, <2>3, <2>4, TracesAsked DEF OldQuestions
  <2>. QED
    BY <2>5, OldQuestionsKept
<1>8. CASE Sync(t)
  <2>1. UNCHANGED <<pending, ping, vg, wire, seqLS, buffer>>
    BY <1>8 DEF Sync
  <2>. QED
    BY <1>0, <2>1, NothingAsked
<1>. QED
  BY <1>1, <1>2, <1>3, <1>4, <1>5, <1>6, <1>7, <1>8 DEF UserNext

LEMMA PingStep ==
  ASSUME AnswerInv, NEW t \in Tabs,
         HandlePing(t) \/ FinishPing(t) \/ RejectPing(t) \/ LosePing(t) \/ ReceiveResponse(t)
  PROVE  AnswerInv' /\ NothingNew
<1>. USE DEF client, server
<1>0. /\ seqLS \in Nat /\ buffer \in [Tabs -> SUBSET Objects]
      /\ \A i \in ping[t].items : i \in Question(t) /\ i.seq \in Int /\ i.seq # 0
  <2>1. \A i \in ping[t].items : i \in Question(t)
    BY DEF Question
  <2>. QED
    BY <2>1, TabKeeps DEF AnswerInv, SeqsTaken
<1>1. CASE HandlePing(t)
  <2>. DEFINE local  == {i \in ping[t].items : i.seq > 0}
              remote == ping[t].items \ local
  <2>. DEFINE asked(refused)   == local \ refused
              dels(refused, i) == {j \in asked(refused) : /\ j.seq < i.seq /\ j.key.gid = i.key.gid /\ j.key.action = "delete"
                                                          /\ Accepts(j.key, row[j.key.gid])}
              seen(refused, i) == IF dels(refused, i) = {} THEN row[i.key.gid]
                                  ELSE Applied((CHOOSE j \in dels(refused, i) : TRUE).key, row[i.key.gid])
              goodOf(refused)  == {i \in asked(refused) : Accepts(i.key, seen(refused, i))}
  <2>1. \E refused \in SUBSET {i \in local : i.key.gid \in Refusable} :
          ping' = [ping EXCEPT ![t] = [stage |-> "read", items |-> ping[t].items,
            answers |-> Answers(Ready(t))
              \union {[seq |-> i.seq, gid |-> i.key.gid, ok |-> i \in goodOf(refused)] : i \in local}]]
    BY <1>1 DEF HandlePing
  <2>. HIDE DEF goodOf
  <2>2. PICK good : ping' = [ping EXCEPT ![t] = [stage |-> "read", items |-> ping[t].items,
            answers |-> Answers(Ready(t))
              \union {[seq |-> i.seq, gid |-> i.key.gid, ok |-> i \in good] : i \in local}]]
    BY <2>1
  <2>. DEFINE A == Answers(Ready(t))
                     \union {[seq |-> i.seq, gid |-> i.key.gid, ok |-> i \in good] : i \in local}
              X == [stage |-> "read", items |-> ping[t].items, answers |-> A]
              rows == {[tab |-> t, seq |-> i.seq, key |-> i.key, ok |-> "none"] : i \in remote}
  <2>3. /\ UNCHANGED <<pending, wire, seqLS, buffer>>
        /\ vg' = vg \union rows
    BY <1>1 DEF HandlePing
  <2>4. \A a \in A : \E q \in Question(t) : a.seq = q.seq /\ a.gid = q.key.gid
    <3>1. ASSUME NEW v \in Ready(t)
          PROVE  v \in Question(t)
      BY DEF Ready, Question, Traces
    <3>2. \A a \in Answers(Ready(t)) : \E q \in Question(t) : a.seq = q.seq /\ a.gid = q.key.gid
      BY <3>1 DEF Answers
    <3>3. \A i \in local : i \in Question(t)
      BY <1>0
    <3>. QED
      BY <3>2, <3>3
  <2>5. \A v \in rows : /\ v = [tab |-> v.tab, seq |-> v.seq, key |-> v.key, ok |-> v.ok]
                        /\ v.tab = t /\ v.seq < 0
                        /\ \E q \in Question(t) : v.seq = q.seq /\ v.key = q.key
    BY <1>0
  <2>6. X.items = ping[t].items /\ X.answers = A /\ ping' = [ping EXCEPT ![t] = X]
    BY <2>2
  <2>7. pending' = [pending EXCEPT ![t] = pending[t]]
    BY <2>3, TabKeeps
  <2>. HIDE DEF A, X, rows
  <2>8. \A v \in vg' \union wire' : /\ v.tab \in Tabs /\ v.seq < 0
                                     /\ \E q \in Question(v.tab) : v.seq = q.seq /\ v.key = q.key
    BY <2>3, <2>5, TracesAsked
  <2>9. \A v \in vg' : v = [tab |-> v.tab, seq |-> v.seq, key |-> v.key, ok |-> v.ok]
    BY <2>3, <2>5, TracesAsked
  <2>10. wire' = wire /\ seqLS' \in Nat /\ seqLS' >= seqLS /\ buffer' \in [Tabs -> SUBSET Objects]
    BY <1>0, <2>3
  <2>11. OldQuestions(t, pending[t], X)
    BY <2>4, <2>6, <2>7, <2>8, <2>9, <2>10, TabKeeps, TracesAsked DEF OldQuestions
  <2>. QED
    BY <2>11, OldQuestionsKept
<1>2. CASE FinishPing(t)
  <2>. DEFINE remote == {i \in ping[t].items : i.seq < 0}
              X == [stage |-> "response", items |-> {}, answers |-> ping[t].answers]
              asks == {[type |-> "request", tab |-> t, seq |-> i.seq, key |-> i.key, ok |-> "none"] : i \in remote}
  <2>1. /\ UNCHANGED <<pending, seqLS, buffer>>
        /\ vg' \subseteq vg /\ wire' = wire \union asks
        /\ ping' = [ping EXCEPT ![t] = X]
    BY <1>2 DEF FinishPing
  <2>2. \A m \in asks : /\ m = [type |-> m.type, tab |-> m.tab, seq |-> m.seq, key |-> m.key, ok |-> m.ok]
                        /\ m.tab = t /\ m.seq < 0
                        /\ \E q \in Question(t) : m.seq = q.seq /\ m.key = q.key
    BY <1>0
  <2>3. X.items = {} /\ X.answers = ping[t].answers
    OBVIOUS
  <2>4. pending' = [pending EXCEPT ![t] = pending[t]]
    BY <2>1, TabKeeps
  <2>. HIDE DEF X, asks
  <2>5. \A v \in vg' \union wire' : /\ v.tab \in Tabs /\ v.seq < 0
                                     /\ \E q \in Question(v.tab) : v.seq = q.seq /\ v.key = q.key
    BY <2>1, <2>2, TracesAsked
  <2>6. /\ \A v \in vg' : v = [tab |-> v.tab, seq |-> v.seq, key |-> v.key, ok |-> v.ok]
        /\ \A m \in wire' : m = [type |-> m.type, tab |-> m.tab, seq |-> m.seq, key |-> m.key, ok |-> m.ok]
    BY <2>1, <2>2, TracesAsked
  <2>7. seqLS' \in Nat /\ seqLS' >= seqLS /\ buffer' \in [Tabs -> SUBSET Objects]
    BY <1>0, <2>1
  <2>8. OldQuestions(t, pending[t], X)
    BY <2>1, <2>3, <2>4, <2>5, <2>6, <2>7, TabKeeps DEF OldQuestions
  <2>. QED
    BY <2>8, OldQuestionsKept
<1>3. CASE RejectPing(t) \/ LosePing(t)
  <2>1. /\ UNCHANGED <<pending, seqLS, buffer>> /\ vg' = vg /\ wire' = wire
        /\ \E s : ping' = [ping EXCEPT ![t] = [stage |-> s, items |-> {}, answers |-> {}]]
    BY <1>3 DEF RejectPing, LosePing, NoPing
  <2>2. PICK s : ping' = [ping EXCEPT ![t] = [stage |-> s, items |-> {}, answers |-> {}]]
    BY <2>1
  <2>3. pending' = [pending EXCEPT ![t] = pending[t]]
    BY <2>1, TabKeeps
  <2>4. seqLS' \in Nat /\ seqLS' >= seqLS /\ buffer' \in [Tabs -> SUBSET Objects]
    BY <1>0, <2>1
  <2>5. OldQuestions(t, pending[t], [stage |-> s, items |-> {}, answers |-> {}])
    BY <2>1, <2>2, <2>3, <2>4, TabKeeps, TracesAsked DEF OldQuestions
  <2>. QED
    BY <2>5, OldQuestionsKept
<1>4. CASE ReceiveResponse(t)
  <2>. DEFINE A == ping[t].answers
              counted == {Counted(e, A) : e \in pending[t]}
  <2>1. /\ UNCHANGED seqLS /\ vg' = vg /\ wire' = wire /\ ping' = [ping EXCEPT ![t] = NoPing]
    BY <1>4 DEF ReceiveResponse
  <2>2. CASE Invalid(t) # {}
    <3>1. UNCHANGED <<buffer, pending>>
      BY <1>4, <2>2 DEF ReceiveResponse
    <3>2. pending' = [pending EXCEPT ![t] = pending[t]]
      BY <3>1, TabKeeps
    <3>3. seqLS' \in Nat /\ seqLS' >= seqLS /\ buffer' \in [Tabs -> SUBSET Objects]
      BY <1>0, <2>1, <3>1
    <3>4. NoPing.items = {} /\ NoPing.answers = {}
      BY DEF NoPing
    <3>5. OldQuestions(t, pending[t], NoPing)
      BY <2>1, <3>2, <3>3, <3>4, TabKeeps, TracesAsked DEF OldQuestions
    <3>. QED
      BY <3>5, OldQuestionsKept
  <2>3. CASE Invalid(t) = {}
    <3>1. /\ \E done : pending' = [pending EXCEPT ![t] = counted \ done]
          /\ \E again \in SUBSET Objects : buffer' = [buffer EXCEPT ![t] = buffer[t] \union again]
      <4>1. \E done : pending' = [pending EXCEPT ![t] = counted \ done]
        BY <1>4, <2>3 DEF ReceiveResponse
      <4>2. \E again : again \subseteq Objects /\ buffer' = [buffer EXCEPT ![t] = buffer[t] \union again]
        BY <1>4, <2>3 DEF ReceiveResponse
      <4>. QED
        BY <4>1, <4>2
    <3>2. PICK done : pending' = [pending EXCEPT ![t] = counted \ done]
      BY <3>1
    <3>3. PICK again \in SUBSET Objects : buffer' = [buffer EXCEPT ![t] = buffer[t] \union again]
      BY <3>1
    <3>4. buffer' \in [Tabs -> SUBSET Objects]
      BY <1>0, <3>3
    <3>5. ASSUME NEW e \in counted \ done
          PROVE  /\ e = [seq |-> e.seq, key |-> e.key, objs |-> e.objs, count |-> e.count]
                 /\ \E f \in pending[t] : e.seq = f.seq /\ e.key = f.key
      <4>1. PICK f \in pending[t] : e = Counted(f, A)
        OBVIOUS
      <4>2. f = [seq |-> f.seq, key |-> f.key, objs |-> f.objs, count |-> f.count]
        BY TabKeeps
      <4>3. e = f \/ e = [f EXCEPT !.count = f.count + 1]
        BY <4>1 DEF Counted
      <4>4. e = f \/ e = [seq |-> f.seq, key |-> f.key, objs |-> f.objs, count |-> f.count + 1]
        BY <4>2, <4>3
      <4>. QED
        BY <4>2, <4>4
    <3>. HIDE DEF counted
    <3>6. OldQuestions(t, counted \ done, NoPing)
      BY <1>0, <2>1, <3>2, <3>4, <3>5, TracesAsked DEF OldQuestions, NoPing
    <3>. QED
      BY <3>6, OldQuestionsKept
  <2>. QED
    BY <2>2, <2>3
<1>. QED
  BY <1>1, <1>2, <1>3, <1>4

LEMMA WireStep ==
  ASSUME AnswerInv, WireNext
  PROVE  AnswerInv' /\ NothingNew
<1>. USE DEF client, server
<1>1. PICK m \in wire : ServerHandle(m) \/ ReceiveAnswer(m) \/ LoseMessage(m)
  BY DEF WireNext
<1>. DEFINE t == m.tab
<1>2. /\ t \in Tabs /\ m.seq < 0
      /\ m = [type |-> m.type, tab |-> m.tab, seq |-> m.seq, key |-> m.key, ok |-> m.ok]
      /\ \E q \in Question(t) : m.seq = q.seq /\ m.key = q.key
  BY TracesAsked
<1>3. UNCHANGED <<pending, ping, seqLS, buffer>>
  BY <1>1 DEF ServerHandle, ReceiveAnswer, LoseMessage
<1>4. /\ \A v \in vg' : v = [tab |-> v.tab, seq |-> v.seq, key |-> v.key, ok |-> v.ok]
      /\ \A v \in vg' : /\ v.tab \in Tabs /\ v.seq < 0
                        /\ \E q \in Question(v.tab) : v.seq = q.seq /\ v.key = q.key
  <2>1. CASE UNCHANGED vg
    BY <2>1, TracesAsked
  <2>2. CASE vg' = {IF v.tab = m.tab /\ v.seq = m.seq THEN [v EXCEPT !.ok = m.ok] ELSE v : v \in vg}
    <3>. SUFFICES ASSUME NEW v \in vg'
                  PROVE  /\ v = [tab |-> v.tab, seq |-> v.seq, key |-> v.key, ok |-> v.ok]
                         /\ v.tab \in Tabs /\ v.seq < 0
                         /\ \E q \in Question(v.tab) : v.seq = q.seq /\ v.key = q.key
      OBVIOUS
    <3>1. PICK w \in vg : v = w \/ v = [w EXCEPT !.ok = m.ok]
      BY <2>2
    <3>2. w = [tab |-> w.tab, seq |-> w.seq, key |-> w.key, ok |-> w.ok]
      BY TracesAsked
    <3>3. v = w \/ v = [tab |-> w.tab, seq |-> w.seq, key |-> w.key, ok |-> m.ok]
      BY <3>1, <3>2
    <3>4. /\ v = [tab |-> v.tab, seq |-> v.seq, key |-> v.key, ok |-> v.ok]
          /\ v.tab = w.tab /\ v.seq = w.seq /\ v.key = w.key
      BY <3>2, <3>3
    <3>. QED
      BY <3>4, TracesAsked
  <2>. QED
    BY <1>1, <2>1, <2>2 DEF ServerHandle, ReceiveAnswer, LoseMessage
<1>5. /\ \A w \in wire' : w = [type |-> w.type, tab |-> w.tab, seq |-> w.seq, key |-> w.key, ok |-> w.ok]
      /\ \A w \in wire' : /\ w.tab \in Tabs /\ w.seq < 0
                          /\ \E q \in Question(w.tab) : w.seq = q.seq /\ w.key = q.key
  <2>1. CASE wire' \subseteq wire
    BY <2>1, TracesAsked
  <2>2. CASE \E ok : wire' = (wire \ {m}) \union {[m EXCEPT !.type = "answer", !.ok = ok]}
    <3>1. PICK ok : wire' = (wire \ {m}) \union {[m EXCEPT !.type = "answer", !.ok = ok]}
      BY <2>2
    <3>2. [m EXCEPT !.type = "answer", !.ok = ok]
            = [type |-> "answer", tab |-> m.tab, seq |-> m.seq, key |-> m.key, ok |-> ok]
      <4>. DEFINE n == [m EXCEPT !.type = "answer"]
      <4>1. [m EXCEPT !.type = "answer", !.ok = ok] = [n EXCEPT !.ok = ok]
        OBVIOUS
      <4>2. n = [type |-> "answer", tab |-> m.tab, seq |-> m.seq, key |-> m.key, ok |-> m.ok]
        BY <1>2
      <4>. HIDE DEF n
      <4>3. [n EXCEPT !.ok = ok] = [type |-> "answer", tab |-> m.tab, seq |-> m.seq, key |-> m.key, ok |-> ok]
        BY <4>2
      <4>. QED
        BY <4>1, <4>3, Zenon
    <3>3. \A w \in wire' : w \in wire \/ w = [type |-> "answer", tab |-> m.tab, seq |-> m.seq, key |-> m.key, ok |-> ok]
      BY <3>1, <3>2
    <3>. QED
      BY <1>2, <3>3, TracesAsked
  <2>. QED
    BY <1>1, <2>1, <2>2 DEF ServerHandle, ReceiveAnswer, LoseMessage
<1>. HIDE DEF t
<1>6. /\ pending' = [pending EXCEPT ![t] = pending[t]] /\ ping' = [ping EXCEPT ![t] = ping[t]]
      /\ seqLS' \in Nat /\ seqLS' >= seqLS /\ buffer' \in [Tabs -> SUBSET Objects]
  BY <1>2, <1>3, TabKeeps
<1>7. OldQuestions(t, pending[t], ping[t])
  BY <1>2, <1>4, <1>5, <1>6, TabKeeps DEF OldQuestions
<1>. QED
  BY <1>2, <1>7, OldQuestionsKept

\* New local questions are numbered after the pending ones, new remote ones after all that the
\* localStorage has numbered: no question there was, forgotten or not, has one of these numbers.
LEMMA SendStep ==
  ASSUME AnswerInv, NEW t \in Tabs, SendPing(t)
  PROVE  AnswerInv'
<1>. USE DEF client, server
<1>. DEFINE
       todo    == {o \in buffer[t] : obj[t][o].verified = "none" /\ obj[t][o].seq = 0}
       objs(k) == {o \in todo : Key(obj[t][o]) = k}
       keys    == {Key(obj[t][o]) : o \in todo}
       fresh   == {k \in keys : Entry(t, k) = {}}
       locals  == SetToSeq({k \in fresh : Local(k)})
       remotes == SetToSeq({k \in fresh : ~Local(k)})
       last    == Max0({e.seq : e \in pending[t]})
       newLocal  == {[seq |-> last + i, key |-> locals[i], objs |-> objs(locals[i]), count |-> 0] : i \in DOMAIN locals}
       newRemote == {[seq |-> RemoteSeq(i), key |-> remotes[i], objs |-> objs(remotes[i]), count |-> 0] : i \in DOMAIN remotes}
       new     == newLocal \union newRemote
       joined  == {[e EXCEPT !.objs = e.objs \union objs(e.key)] : e \in pending[t]}
       items   == {[seq |-> e.seq, key |-> e.key] : e \in {f \in joined \union new : Sent(f, new)}}
<1>1. /\ ping[t] = NoPing
      /\ seqLS' = seqLS + Len(remotes)
      /\ pending' = [pending EXCEPT ![t] = joined \union new]
      /\ buffer' = [buffer EXCEPT ![t] = {}]
      /\ ping' = [ping EXCEPT ![t] = [stage |-> "request", answers |-> {}, items |-> items]]
      /\ UNCHANGED <<vg, wire>>
  BY DEF SendPing
<1>2. /\ IsFiniteSet({k \in fresh : Local(k)})
      /\ IsFiniteSet({k \in fresh : ~Local(k)})
  <2>1. IsFiniteSet(todo)
    <3>1. buffer[t] \subseteq Objects
      BY TabKeeps
    <3>. QED
      BY <3>1, GiftsAssumption, FS_Subset DEF Objects
  <2>2. IsFiniteSet(keys)
    <3>. DEFINE f == [o \in todo |-> Key(obj[t][o])]
    <3>1. f \in Surjection(todo, keys)
      BY DEF Surjection
    <3>. HIDE DEF todo, keys, f
    <3>. QED
      BY <2>1, <3>1, FS_Surjection
  <2>. QED
    <3>1. {k \in fresh : Local(k)} \in SUBSET keys /\ {k \in fresh : ~Local(k)} \in SUBSET keys
      OBVIOUS
    <3>. HIDE DEF fresh, keys
    <3>. QED
      BY <2>2, <3>1, FS_Subset
<1>3. /\ Len(locals) \in Nat /\ DOMAIN locals = 1..Len(locals)
      /\ Len(remotes) \in Nat /\ DOMAIN remotes = 1..Len(remotes)
  <2>. HIDE DEF fresh
  <2>. QED
    BY <1>2, ListedOnce
<1>4. last \in Nat /\ \A e \in pending[t] : e.seq \in Int /\ e.seq <= last
  <2>. DEFINE S == {e.seq : e \in pending[t]}
  <2>1. \A e \in pending[t] : e.seq \in Int
    BY DEF AnswerInv, SeqsTaken, Question
  <2>2. PICK b \in Nat : \A e \in pending[t] : e.seq <= b
    BY DEF AnswerInv, PendingBounded
  <2>3. S \subseteq Int /\ \A n \in S : n <= b
    BY <2>1, <2>2
  <2>4. Max0(S) \in Nat /\ \A n \in S : n <= Max0(S)
    <3>. HIDE DEF S
    <3>. QED
      BY <2>3, Max0IsGreatest
  <2>. QED
    BY <2>1, <2>4
<1>. HIDE DEF locals, remotes, last, todo, keys, fresh
<1>5. \A e \in newLocal : \E i \in 1..Len(locals) :
        e = [seq |-> last + i, key |-> locals[i], objs |-> objs(locals[i]), count |-> 0]
  BY <1>3
<1>6. \A e \in newRemote : \E i \in 1..Len(remotes) :
        e = [seq |-> -(seqLS + i), key |-> remotes[i], objs |-> objs(remotes[i]), count |-> 0]
  BY <1>3 DEF RemoteSeq
<1>. HIDE DEF newLocal, newRemote, objs
<1>7. seqLS \in Nat /\ seqLS' \in Nat /\ seqLS' = seqLS + Len(remotes)
  BY <1>1, <1>3, TabKeeps
<1>8. \A e \in new : /\ e = [seq |-> e.seq, key |-> e.key, objs |-> e.objs, count |-> e.count]
                     /\ e.seq \in Int /\ e.seq # 0 /\ e.seq >= -seqLS' /\ e.seq <= last + Len(locals)
                     /\ e.seq > last \/ e.seq < -seqLS
  <2>1. ASSUME NEW e \in newLocal
        PROVE  /\ e = [seq |-> e.seq, key |-> e.key, objs |-> e.objs, count |-> e.count]
               /\ e.seq \in Int /\ e.seq # 0 /\ e.seq >= -seqLS' /\ e.seq <= last + Len(locals)
               /\ e.seq > last
    <3>1. PICK i \in 1..Len(locals) :
            e = [seq |-> last + i, key |-> locals[i], objs |-> objs(locals[i]), count |-> 0]
      BY <1>5
    <3>2. e.seq = last + i /\ i \in Int /\ 1 <= i /\ i <= Len(locals)
      BY <1>3, <3>1
    <3>. QED
      BY <1>3, <1>4, <1>7, <3>1, <3>2
  <2>2. ASSUME NEW e \in newRemote
        PROVE  /\ e = [seq |-> e.seq, key |-> e.key, objs |-> e.objs, count |-> e.count]
               /\ e.seq \in Int /\ e.seq # 0 /\ e.seq >= -seqLS' /\ e.seq <= last + Len(locals)
               /\ e.seq < -seqLS
    <3>1. PICK i \in 1..Len(remotes) :
            e = [seq |-> -(seqLS + i), key |-> remotes[i], objs |-> objs(remotes[i]), count |-> 0]
      BY <1>6
    <3>2. e.seq = -(seqLS + i) /\ i \in Int /\ 1 <= i /\ i <= Len(remotes)
      BY <1>3, <3>1
    <3>. QED
      BY <1>3, <1>4, <1>7, <3>1, <3>2
  <2>. QED
    BY <2>1, <2>2
<1>9. \A d, e \in new : d.seq = e.seq => d.key = e.key
  <2>. SUFFICES ASSUME NEW d \in new, NEW e \in new, d.seq = e.seq
                PROVE  d.key = e.key
    OBVIOUS
  <2>1. CASE d \in newLocal /\ e \in newLocal
    <3>1. PICK i \in 1..Len(locals) : d.seq = last + i /\ d.key = locals[i]
      BY <1>5, <2>1
    <3>2. PICK j \in 1..Len(locals) : e.seq = last + j /\ e.key = locals[j]
      BY <1>5, <2>1
    <3>3. last + i = last + j
      BY <3>1, <3>2, Zenon
    <3>4. i \in Int /\ j \in Int
      BY <1>3
    <3>5. last \in Int
      BY <1>4
    <3>6. i = j
      BY <3>3, <3>4, <3>5
    <3>. QED
      BY <3>1, <3>2, <3>6
  <2>2. CASE d \in newRemote /\ e \in newRemote
    <3>1. PICK i \in 1..Len(remotes) : d.seq = -(seqLS + i) /\ d.key = remotes[i]
      BY <1>6, <2>2
    <3>2. PICK j \in 1..Len(remotes) : e.seq = -(seqLS + j) /\ e.key = remotes[j]
      BY <1>6, <2>2
    <3>3. -(seqLS + i) = -(seqLS + j)
      BY <3>1, <3>2, Zenon
    <3>4. i \in Int /\ j \in Int
      BY <1>3
    <3>5. seqLS \in Int
      BY <1>7
    <3>6. i = j
      BY <3>3, <3>4, <3>5
    <3>. QED
      BY <3>1, <3>2, <3>6
  <2>3. ASSUME NEW x \in newLocal, NEW y \in newRemote, x.seq = y.seq PROVE FALSE
    <3>1. PICK i \in 1..Len(locals) : x.seq = last + i
      BY <1>5
    <3>2. PICK j \in 1..Len(remotes) : y.seq = -(seqLS + j)
      BY <1>6
    <3>3. last + i = -(seqLS + j)
      BY <2>3, <3>1, <3>2, Zenon
    <3>4. i \in Nat /\ j \in Nat /\ j >= 1
      BY <1>3
    <3>5. last \in Nat /\ seqLS \in Nat
      BY <1>4, <1>7
    <3>. QED
      BY <3>3, <3>4, <3>5
  <2>. QED
    BY <2>1, <2>2, <2>3
<1>10. \A e \in joined : /\ e = [seq |-> e.seq, key |-> e.key, objs |-> e.objs, count |-> e.count]
                         /\ \E f \in pending[t] : e.seq = f.seq /\ e.key = f.key
  <2>. TAKE e \in joined
  <2>1. PICK f \in pending[t] : e = [f EXCEPT !.objs = f.objs \union objs(f.key)]
    OBVIOUS
  <2>2. f = [seq |-> f.seq, key |-> f.key, objs |-> f.objs, count |-> f.count]
    BY TabKeeps
  <2>3. e = [seq |-> f.seq, key |-> f.key, objs |-> f.objs \union objs(f.key), count |-> f.count]
    BY <2>1, <2>2
  <2>. QED
    BY <2>3
<1>11. \A i \in items : \E e \in joined \union new : i.seq = e.seq /\ i.key = e.key
  OBVIOUS
<1>. HIDE DEF joined, new, items

<1>12. /\ pending' = [u \in Tabs |-> pending'[u]] /\ ping' = [u \in Tabs |-> ping'[u]]
       /\ \A u \in Tabs : u # t => pending'[u] = pending[u] /\ ping'[u] = ping[u]
       /\ pending'[t] = joined \union new
       /\ ping'[t].answers = {} /\ ping'[t].items = items
       /\ ping[t].items = {}
       /\ vg' = vg /\ wire' = wire
       /\ buffer' \in [Tabs -> SUBSET Objects]
  <2>. DEFINE pendings == pending
              pings    == ping
              P == joined \union new
              X == [stage |-> "request", answers |-> {}, items |-> items]
  <2>1. /\ pendings = [u \in Tabs |-> pendings[u]]
        /\ pings = [u \in Tabs |-> pings[u]]
        /\ pending' = [pendings EXCEPT ![t] = P]
        /\ ping' = [pings EXCEPT ![t] = X]
    BY <1>1 DEF AnswerInv, QuestionType
  <2>2. X.answers = {} /\ X.items = items
    OBVIOUS
  <2>3. /\ pending' = [u \in Tabs |-> IF u = t THEN P ELSE pendings[u]]
        /\ ping' = [u \in Tabs |-> IF u = t THEN X ELSE pings[u]]
    <3>. HIDE DEF pendings, pings, P, X
    <3>. QED
      BY <2>1
  <2>4. \A u \in Tabs : /\ pending'[u] = IF u = t THEN P ELSE pendings[u]
                        /\ ping'[u] = IF u = t THEN X ELSE pings[u]
    <3>. HIDE DEF pendings, pings, P, X
    <3>. QED
      BY <2>3
  <2>5. pending' = [u \in Tabs |-> pending'[u]] /\ ping' = [u \in Tabs |-> ping'[u]]
    <3>. HIDE DEF pendings, pings, P, X
    <3>. QED
      BY <2>3, <2>4, Zenon
  <2>6. buffer' \in [Tabs -> SUBSET Objects]
    BY <1>1, TabKeeps
  <2>7. ping[t].items = {}
    BY <1>1 DEF NoPing
  <2>8. pending'[t] = P /\ ping'[t] = X
    BY <2>4
  <2>. HIDE DEF X
  <2>. QED
    BY <1>1, <2>2, <2>4, <2>5, <2>6, <2>7, <2>8
<1>13. QuestionType'
  <2>1. \A u \in Tabs : \A e \in pending'[u] :
          e = [seq |-> e.seq, key |-> e.key, objs |-> e.objs, count |-> e.count]
    <3>. SUFFICES ASSUME NEW u \in Tabs, NEW e \in pending'[u]
                  PROVE  e = [seq |-> e.seq, key |-> e.key, objs |-> e.objs, count |-> e.count]
      OBVIOUS
    <3>1. CASE u = t
      <4>1. e \in joined \/ e \in new
        BY <1>12, <3>1
      <4>. QED
        BY <1>8, <1>10, <4>1
    <3>2. CASE u # t
      BY <1>12, <3>2 DEF AnswerInv, QuestionType
    <3>. QED
      BY <3>1, <3>2
  <2>2. /\ \A v \in vg' : v = [tab |-> v.tab, seq |-> v.seq, key |-> v.key, ok |-> v.ok]
        /\ \A m \in wire' : m = [type |-> m.type, tab |-> m.tab, seq |-> m.seq, key |-> m.key, ok |-> m.ok]
    BY <1>12, TracesAsked
  <2>. QED
    BY <1>7, <1>12, <2>1, <2>2 DEF QuestionType
<1>14. \A u \in Tabs : \A p \in Question(u)' :
         \/ \E q \in Question(u) : p.seq = q.seq /\ p.key = q.key
         \/ u = t /\ \E e \in new : p.seq = e.seq /\ p.key = e.key
  <2>. SUFFICES ASSUME NEW u \in Tabs, NEW p \in Question(u)'
                PROVE  \/ \E q \in Question(u) : p.seq = q.seq /\ p.key = q.key
                       \/ u = t /\ \E e \in new : p.seq = e.seq /\ p.key = e.key
    OBVIOUS
  <2>1. CASE p \in Traces(u)'
    <3>1. p \in Traces(u)
      BY <1>12, <2>1 DEF Traces
    <3>. QED
      BY <3>1 DEF Question
  <2>2. CASE u = t /\ (p \in pending'[t] \/ p \in ping'[t].items)
    <3>1. PICK e \in joined \union new : p.seq = e.seq /\ p.key = e.key
      BY <1>11, <1>12, <2>2
    <3>2. CASE e \in joined
      <4>1. PICK f \in pending[t] : e.seq = f.seq /\ e.key = f.key
        BY <1>10, <3>2
      <4>2. f \in Question(t)
        BY DEF Question
      <4>. QED
        BY <2>2, <3>1, <4>1, <4>2
    <3>3. CASE e \in new
      BY <2>2, <3>1, <3>3
    <3>. QED
      BY <3>2, <3>3
  <2>3. CASE u # t /\ (p \in pending'[u] \/ p \in ping'[u].items)
    <3>1. p \in Question(u)
      BY <1>12, <2>3 DEF Question
    <3>. QED
      BY <3>1
  <2>. QED
    BY <2>1, <2>2, <2>3 DEF Question
<1>15. \A q \in Question(t) : q.seq \in Int /\ q.seq # 0 /\ q.seq >= -seqLS /\ q.seq <= last
  <2>. TAKE q \in Question(t)
  <2>1. q.seq \in Int /\ q.seq # 0 /\ q.seq >= -seqLS
    BY DEF AnswerInv, SeqsTaken
  <2>2. CASE q \in pending[t]
    BY <1>4, <2>1, <2>2
  <2>3. CASE q \in Traces(t)
    <3>1. q.seq < 0
      BY <2>3 DEF AnswerInv, SeqsTaken, Traces
    <3>. QED
      BY <1>4, <2>1, <3>1
  <2>. QED
    BY <1>12, <2>2, <2>3 DEF Question
<1>16. SeqsTaken'
  <2>1. \A u \in Tabs : \A p \in Question(u)' : p.seq \in Int /\ p.seq # 0 /\ p.seq >= -seqLS'
    <3>. SUFFICES ASSUME NEW u \in Tabs, NEW p \in Question(u)'
                  PROVE  p.seq \in Int /\ p.seq # 0 /\ p.seq >= -seqLS'
      OBVIOUS
    <3>1. ASSUME NEW q \in Question(u), p.seq = q.seq
          PROVE  p.seq \in Int /\ p.seq # 0 /\ p.seq >= -seqLS'
      <4>1. q.seq \in Int /\ q.seq # 0 /\ q.seq >= -seqLS
        BY DEF AnswerInv, SeqsTaken
      <4>. QED
        BY <1>3, <1>7, <3>1, <4>1
    <3>2. ASSUME NEW e \in new, p.seq = e.seq
          PROVE  p.seq \in Int /\ p.seq # 0 /\ p.seq >= -seqLS'
      BY <1>8, <3>2
    <3>. QED
      BY <1>14, <3>1, <3>2
  <2>2. \A u \in Tabs : \A a \in ping'[u].answers : a.seq \in Int /\ a.seq >= -seqLS'
    <3>. SUFFICES ASSUME NEW u \in Tabs, NEW a \in ping'[u].answers
                  PROVE  a.seq \in Int /\ a.seq >= -seqLS'
      OBVIOUS
    <3>1. u # t /\ a \in ping[u].answers
      BY <1>12
    <3>2. a.seq \in Int /\ a.seq >= -seqLS
      BY <3>1 DEF AnswerInv, SeqsTaken
    <3>. QED
      BY <1>3, <1>7, <3>2
  <2>3. \A v \in vg' \union wire' : v.tab \in Tabs /\ v.seq < 0
    BY <1>12, TracesAsked
  <2>. QED
    BY <2>1, <2>2, <2>3 DEF SeqsTaken
<1>17. PendingBounded'
  <2>. SUFFICES ASSUME NEW u \in Tabs
                PROVE  \E b \in Nat : \A e \in pending'[u] : e.seq <= b
    BY DEF PendingBounded
  <2>1. CASE u = t
    <3>. DEFINE b == last + Len(locals)
    <3>1. b \in Nat
      BY <1>3, <1>4
    <3>2. \A e \in joined : e.seq <= b
      BY <1>3, <1>4, <1>10
    <3>3. \A e \in new : e.seq <= b
      BY <1>8
    <3>. HIDE DEF b
    <3>. QED
      BY <1>12, <2>1, <3>1, <3>2, <3>3
  <2>2. CASE u # t
    BY <1>12, <2>2 DEF AnswerInv, PendingBounded
  <2>. QED
    BY <2>1, <2>2
<1>18. OneKey'
  <2>. SUFFICES ASSUME NEW u \in Tabs, NEW p \in Question(u)', NEW q \in Question(u)', p.seq = q.seq
                PROVE  p.key = q.key
    BY DEF OneKey
  <2>1. ASSUME NEW x \in Question(u), p.seq = x.seq /\ p.key = x.key,
               NEW y \in Question(u), q.seq = y.seq /\ q.key = y.key
        PROVE  p.key = q.key
    <3>1. OneKey /\ x.seq = y.seq
      BY <2>1 DEF AnswerInv
    <3>2. x.key = y.key
      BY <3>1 DEF OneKey
    <3>. QED
      BY <2>1, <3>2
  <2>2. ASSUME u = t, NEW x \in Question(t), NEW e \in new, x.seq = e.seq PROVE FALSE
    BY <1>4, <1>7, <1>8, <1>15, <2>2
  <2>3. ASSUME NEW d \in new, p.seq = d.seq /\ p.key = d.key,
               NEW e \in new, q.seq = e.seq /\ q.key = e.key
        PROVE  p.key = q.key
    BY <1>9, <2>3
  <2>4. \/ \E x \in Question(u) : p.seq = x.seq /\ p.key = x.key
        \/ u = t /\ \E d \in new : p.seq = d.seq /\ p.key = d.key
    BY <1>14
  <2>5. \/ \E x \in Question(u) : q.seq = x.seq /\ q.key = x.key
        \/ u = t /\ \E d \in new : q.seq = d.seq /\ q.key = d.key
    BY <1>14
  <2>6. CASE \E x \in Question(u) : p.seq = x.seq /\ p.key = x.key
    <3>1. PICK x \in Question(u) : p.seq = x.seq /\ p.key = x.key
      BY <2>6
    <3>2. CASE \E y \in Question(u) : q.seq = y.seq /\ q.key = y.key
      BY <2>1, <3>1, <3>2
    <3>3. CASE u = t /\ \E d \in new : q.seq = d.seq /\ q.key = d.key
      BY <2>2, <3>1, <3>3
    <3>. QED
      BY <2>5, <3>2, <3>3
  <2>7. CASE u = t /\ \E d \in new : p.seq = d.seq /\ p.key = d.key
    <3>1. PICK d \in new : p.seq = d.seq /\ p.key = d.key
      BY <2>7
    <3>2. CASE \E y \in Question(u) : q.seq = y.seq /\ q.key = y.key
      BY <2>2, <2>7, <3>1, <3>2
    <3>3. CASE u = t /\ \E e \in new : q.seq = e.seq /\ q.key = e.key
      BY <2>3, <3>1, <3>3
    <3>. QED
      BY <2>5, <3>2, <3>3
  <2>. QED
    BY <2>4, <2>6, <2>7
<1>19. AnswersKey'
  <2>. SUFFICES ASSUME NEW u \in Tabs, NEW a \in ping'[u].answers, NEW q \in Question(u)', a.seq = q.seq
                PROVE  a.gid = q.key.gid
    BY DEF AnswersKey
  <2>1. u # t /\ a \in ping[u].answers
    BY <1>12
  <2>2. PICK y \in Question(u) : q.seq = y.seq /\ q.key = y.key
    BY <1>14, <2>1
  <2>. QED
    BY <2>1, <2>2 DEF AnswerInv, AnswersKey
<1>. QED
  BY <1>13, <1>16, <1>17, <1>18, <1>19 DEF AnswerInv

LEMMA AnswerStep ==
  ASSUME AnswerInv, [Next]_vars
  PROVE  AnswerInv'
<1>1. CASE WireNext
  BY <1>1, WireStep
<1>2. ASSUME NEW t \in Tabs, UserNext(t) PROVE AnswerInv'
  BY <1>2, UserStep
<1>3. ASSUME NEW t \in Tabs, PingNext(t) PROVE AnswerInv'
  BY <1>3, PingStep, SendStep DEF PingNext
<1>4. CASE UNCHANGED vars
  BY <1>4 DEF vars, client, server, AnswerInv, QuestionType, SeqsTaken, PendingBounded, OneKey, AnswersKey,
              Question, Traces
<1>. QED
  BY <1>1, <1>2, <1>3, <1>4 DEF Next

\* An answer on its way answers the question that waits under its seq, whatever was lost,
\* rejected, timed out or forgotten before: verify_gifts_response finds the gifts of the
\* question by the seq of the answer alone.
THEOREM AnswersTheQuestion == Spec => []AnswerFits
<1>1. Init => AnswerInv
  BY AnswerInit
<1>2. AnswerInv /\ [Next]_vars => AnswerInv'
  BY AnswerStep
<1>3. AnswerInv => AnswerFits
  <2>. SUFFICES ASSUME AnswerInv, NEW t \in Tabs, NEW e \in pending[t]
                PROVE  /\ \A v \in vg \union wire : v.tab = t /\ v.seq = e.seq => v.key = e.key
                       /\ \A a \in ping[t].answers : a.seq = e.seq => a.gid = e.key.gid
    BY DEF AnswerFits
  <2>1. e \in Question(t) /\ \A v \in vg \union wire : v.tab = t => v \in Question(t)
    BY DEF Question, Traces
  <2>. QED
    BY <2>1 DEF AnswerInv, OneKey, AnswersKey
<1>. QED
  BY <1>1, <1>2, <1>3, PTL DEF Spec

============================================================================
