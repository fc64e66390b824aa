--------------------------- MODULE GiftSyncProofs ---------------------------
(* Proofs about synchronisation, for two clients with any gifts, comments,    *)
(* messages, losses and page loads: a client has one copy of each comment,    *)
(* only signed copies travel, GiftSync implements Replicas, folders and       *)
(* mailboxes hold the messages they are meant to hold, and a message is       *)
(* answered once unless a ping is lost.                                       *)
EXTENDS GiftSync, FiniteSetTheorems, TLAPS

----------------------------------------------------------------------------
\* Sequences.

\* Every place in the order of a finite set of numbers is taken.
LEMMA EveryRank ==
  ASSUME NEW S \in SUBSET Int, IsFiniteSet(S), NEW i \in 1..Cardinality(S)
  PROVE  \E n \in S : Cardinality({m \in S : m < n}) = i - 1
<1>. DEFINE below(n) == {m \in S : m < n}
            rank  == [n \in S |-> Cardinality(below(n))]
            Ranks == {rank[n] : n \in S}
            N     == Cardinality(S)
<1>1. N \in Nat
  BY FS_CardinalityType
<1>2. ASSUME NEW n \in S
      PROVE  IsFiniteSet(below(n)) /\ rank[n] \in 0..(N - 1)
  <2>1. below(n) \subseteq S /\ below(n) # S
    OBVIOUS
  <2>2. IsFiniteSet(below(n)) /\ Cardinality(below(n)) <= N /\ Cardinality(below(n)) # N
    BY <2>1, FS_Subset
  <2>3. Cardinality(below(n)) \in Nat
    BY <2>2, FS_CardinalityType
  <2>. QED
    BY <1>1, <2>2, <2>3
<1>3. ASSUME NEW n \in S, NEW k \in S, n < k
      PROVE  rank[n] # rank[k]
  <2>1. ASSUME NEW m \in below(n)
        PROVE  m \in below(k)
    BY <1>3
  <2>5. n \in below(k) /\ n \notin below(n)
    BY <1>3
  <2>2. below(n) \in SUBSET below(k) /\ below(n) # below(k)
    BY <2>1, <2>5
  <2>3. IsFiniteSet(below(k))
    BY <1>2
  <2>. HIDE DEF below
  <2>4. Cardinality(below(n)) # Cardinality(below(k))
    BY <2>2, <2>3, FS_Subset
  <2>. QED
    BY <2>4
<1>4. rank \in Bijection(S, Ranks)
  <2>1. rank \in [S -> Ranks]
    OBVIOUS
  <2>2. ASSUME NEW n \in S, NEW k \in S, rank[n] = rank[k]
        PROVE  n = k
    <3>1. n < k \/ k < n \/ n = k
      OBVIOUS
    <3>. QED
      BY <1>3, <2>2, <3>1
  <2>3. \A t \in Ranks : \E n \in S : rank[n] = t
    OBVIOUS
  <2>. HIDE DEF rank, Ranks
  <2>. QED
    BY <2>1, <2>2, <2>3 DEF Bijection, Injection, Surjection, IsInjective
<1>5. IsFiniteSet(Ranks) /\ Cardinality(Ranks) = N
  <2>. HIDE DEF Ranks, rank
  <2>1. ExistsBijection(S, Ranks)
    BY <1>4 DEF ExistsBijection
  <2>. QED
    BY <2>1, FS_Bijection
<1>6. Ranks \subseteq 0..(N - 1)
  BY <1>2
<1>7. IsFiniteSet(0..(N - 1)) /\ Cardinality(0..(N - 1)) = N
  <2>. HIDE DEF N
  <2>1. 0 \in Int /\ N - 1 \in Int /\ (IF 0 > N - 1 THEN 0 ELSE N - 1 - 0 + 1) = N
    BY <1>1
  <2>. QED
    BY <2>1, FS_Interval
<1>8. Ranks = 0..(N - 1)
  BY <1>5, <1>6, <1>7, FS_Subset
<1>9. i - 1 \in Ranks
  <2>. HIDE DEF Ranks
  <2>. QED
    BY <1>1, <1>8
<1>. QED
  BY <1>9

LEMMA SortedOnce ==
  ASSUME NEW S \in SUBSET Int, IsFiniteSet(S)
  PROVE  /\ Cardinality(S) \in Nat
         /\ Sorted(S) \in [1..Cardinality(S) -> S]
         /\ \A i, j \in 1..Cardinality(S) : i # j => Sorted(S)[i] # Sorted(S)[j]
<1>1. Cardinality(S) \in Nat
  BY FS_CardinalityType
<1>2. Sorted(S) = InOrder(S)
  BY DEF Sorted, With
<1>3. ASSUME NEW i \in 1..Cardinality(S)
      PROVE  InOrder(S)[i] \in S /\ Cardinality({m \in S : m < InOrder(S)[i]}) = i - 1
  BY EveryRank DEF InOrder
<1>4. InOrder(S) \in [1..Cardinality(S) -> S]
  BY <1>3 DEF InOrder
<1>5. ASSUME NEW i \in 1..Cardinality(S), NEW j \in 1..Cardinality(S), InOrder(S)[i] = InOrder(S)[j]
      PROVE  i = j
  <2>. DEFINE rank(n) == Cardinality({m \in S : m < n})
  <2>1. rank(InOrder(S)[i]) = i - 1 /\ rank(InOrder(S)[j]) = j - 1
    BY <1>3
  <2>2. rank(InOrder(S)[i]) = rank(InOrder(S)[j])
    BY <1>5
  <2>. HIDE DEF rank
  <2>. QED
    BY <2>1, <2>2
<1>. QED
  BY <1>1, <1>2, <1>4, <1>5

\* Part of a sequence: its elements, each from a place of its own.
LEMMA AtPart ==
  ASSUME NEW S, NEW s \in Seq(S), NEW I \in SUBSET DOMAIN s
  PROVE  /\ At(s, I) \in Seq(S)
         /\ \A i \in DOMAIN At(s, I) : \E n \in I : At(s, I)[i] = s[n]
         /\ \A i, j \in DOMAIN At(s, I) :
              i # j => \E n, m \in I : n # m /\ At(s, I)[i] = s[n] /\ At(s, I)[j] = s[m]
<1>. DEFINE at == Sorted(I)
            N  == Cardinality(I)
<1>1. DOMAIN s = 1..Len(s) /\ Len(s) \in Nat
  OBVIOUS
<1>2. IsFiniteSet(I) /\ I \in SUBSET Int
  <2>1. IsFiniteSet(DOMAIN s)
    BY <1>1, FS_Interval
  <2>. QED
    BY <1>1, <2>1, FS_Subset
<1>3. N \in Nat /\ at \in [1..N -> I] /\ \A i, j \in 1..N : i # j => at[i] # at[j]
  BY <1>2, SortedOnce
<1>4. At(s, I) = [i \in DOMAIN at |-> s[at[i]]]
  BY DEF At, With
<1>. HIDE DEF at, N
<1>5. At(s, I) = [i \in 1..N |-> s[at[i]]]
  BY <1>3, <1>4
<1>6. \A i \in 1..N : at[i] \in I /\ s[at[i]] \in S
  BY <1>3
<1>7. At(s, I) \in [1..N -> S]
  BY <1>5, <1>6
<1>8. At(s, I) \in Seq(S)
  BY <1>3, <1>7
<1>9. DOMAIN At(s, I) = 1..N
  BY <1>5
<1>. QED
  BY <1>3, <1>5, <1>6, <1>8, <1>9

LEMMA Elements ==
  ASSUME NEW S, NEW s \in Seq(S)
  PROVE  \A i \in DOMAIN s : s[i] \in S
  OBVIOUS

LEMMA SequenceOf ==
  ASSUME NEW S, NEW n \in Nat, NEW s \in [1..n -> S]
  PROVE  s \in Seq(S) /\ DOMAIN s = 1..n
  OBVIOUS

\* A list, whatever it holds.
IsList(s) == s \in Seq({s[i] : i \in DOMAIN s})

LEMMA ListOf ==
  ASSUME NEW S, NEW s \in Seq(S)
  PROVE  IsList(s)
  BY DEF IsList

LEMMA Listed ==
  ASSUME NEW n \in Nat, NEW F, F = [i \in 1..n |-> F[i]]
  PROVE  IsList(F) /\ Len(F) = n /\ DOMAIN F = 1..n
<1>. DEFINE S == {F[i] : i \in 1..n}
<1>1. F \in [1..n -> S]
  OBVIOUS
<1>2. F \in Seq(S)
  BY <1>1
<1>. QED
  BY <1>2, <1>1, ListOf

\* Each element of r is one of s or one of t.
From(r, s, t) == \A i \in DOMAIN r : (\E j \in DOMAIN s : r[i] = s[j]) \/ \E j \in DOMAIN t : r[i] = t[j]

LEMMA Concatenated ==
  ASSUME NEW s, NEW t, IsList(s), IsList(t)
  PROVE  IsList(s \o t) /\ From(s \o t, s, t)
<1>. DEFINE S == {s[i] : i \in DOMAIN s} \union {t[i] : i \in DOMAIN t}
<1>1. s \in Seq(S) /\ t \in Seq(S)
  BY DEF IsList
<1>. HIDE DEF S
<1>2. s \o t \in Seq(S)
  BY <1>1
<1>3. From(s \o t, s, t)
  BY <1>1 DEF From
<1>. QED
  BY <1>2, <1>3, ListOf

LEMMA OneMore ==
  ASSUME NEW s, NEW x, IsList(s)
  PROVE  /\ IsList(Append(s, x))
         /\ \A i \in DOMAIN Append(s, x) : Append(s, x)[i] = x \/ \E j \in DOMAIN s : Append(s, x)[i] = s[j]
<1>. DEFINE S == {s[i] : i \in DOMAIN s} \union {x}
<1>1. s \in Seq(S) /\ x \in S
  BY DEF IsList
<1>. HIDE DEF S
<1>2. Append(s, x) \in Seq(S)
  BY <1>1
<1>3. \A i \in DOMAIN Append(s, x) : Append(s, x)[i] = x \/ \E j \in DOMAIN s : Append(s, x)[i] = s[j]
  BY <1>1
<1>. QED
  BY <1>2, <1>3, ListOf

LEMMA OneLess ==
  ASSUME NEW s, IsList(s), s # <<>>
  PROVE  /\ IsList(Tail(s)) /\ 1 \in DOMAIN s /\ Head(s) = s[1]
         /\ \A i \in DOMAIN Tail(s) : \E j \in DOMAIN s : Tail(s)[i] = s[j]
<1>. DEFINE S == {s[i] : i \in DOMAIN s}
<1>1. s \in Seq(S)
  BY DEF IsList
<1>. HIDE DEF S
<1>2. Tail(s) \in Seq(S)
  BY <1>1
<1>3. \A i \in DOMAIN Tail(s) : \E j \in DOMAIN s : Tail(s)[i] = s[j]
  BY <1>1
<1>4. Len(s) # 0
  BY <1>1
<1>5. 1 \in DOMAIN s /\ Head(s) = s[1]
  BY <1>1, <1>4
<1>6. IsList(Tail(s))
  BY <1>2, ListOf
<1>. QED
  BY <1>3, <1>5, <1>6

LEMMA ShortLists ==
  /\ IsList(<<>>) /\ DOMAIN <<>> = {}
  /\ \A x : IsList(<<x>>) /\ \A i \in DOMAIN <<x>> : <<x>>[i] = x
<1>1. IsList(<<>>) /\ DOMAIN <<>> = {}
  BY DEF IsList
<1>2. ASSUME NEW x
      PROVE  IsList(<<x>>) /\ \A i \in DOMAIN <<x>> : <<x>>[i] = x
  BY DEF IsList
<1>. QED
  BY <1>1, <1>2

LEMMA ListPart ==
  ASSUME NEW s, IsList(s), NEW I \in SUBSET DOMAIN s
  PROVE  IsList(At(s, I)) /\ \A i \in DOMAIN At(s, I) : \E n \in I : At(s, I)[i] = s[n]
  BY AtPart, ListOf DEF IsList

----------------------------------------------------------------------------
\* What is right in gifts, copies and messages, when the server has signed sg.

Unique(s)    == \A i, j \in DOMAIN s : i # j => s[i].cid # s[j].cid
SignedOk(sg) == sg \in [Cids -> [v : 0..3, by : Clients \union {None}]]

GiftOk(g, x, sg) ==
  /\ x \in [here : BOOLEAN, gone : {"no", "asked", "done"}, comments : Seq(Comment)]
  /\ Unique(x.comments)
  /\ \A i \in DOMAIN x.comments : Home[x.comments[i].cid] = g /\ x.comments[i].v <= sg[x.comments[i].cid].v

CopyOk(k, sg) ==
  /\ k \in [gid : Gifts, part : 0..1, comments : Seq([cid : Cids, v : 0..3])]
  /\ Unique(k.comments)
  /\ \A i \in DOMAIN k.comments : /\ Home[k.comments[i].cid] = k.gid
                                  /\ k.comments[i].v \in 1..sg[k.comments[i].cid].v
CopiesOk(s, sg) == IsList(s) /\ \A i \in DOMAIN s : CopyOk(s[i], sg)

BodyOk(b, sg) == b = [gifts |-> b.gifts, asked |-> b.asked, ok |-> b.ok, count |-> b.count] /\ CopiesOk(b.gifts, sg)

Shaped(m)      == m = Message(m.type, m.mid, m.req, m.body)
PartOk(m, sg)  == Shaped(m) /\ m.type # "sync_gifts" /\ (m.type = "send_gifts" => BodyOk(m.body, sg))
WholeOk(m, sg) == Shaped(m) /\ m.type = "sync_gifts" /\ IsList(m.body) /\ \A i \in DOMAIN m.body : PartOk(m.body[i], sg)
ListOk(s, sg)  == IsList(s) /\ \A i \in DOMAIN s : PartOk(s[i], sg) \/ WholeOk(s[i], sg)

\* What is to be sent in one sync_gifts message.
ItemsOk(s, sg) ==
  IsList(s) /\ \A i \in DOMAIN s : s[i].type # "sync_gifts" /\ (s[i].type = "send_gifts" => BodyOk(s[i].body, sg))

\* All of it stays right when more is signed.
LEMMA StillOk ==
  ASSUME NEW sg, NEW sh, SignedOk(sg), SignedOk(sh), \A k \in Cids : sg[k].v <= sh[k].v
  PROVE  /\ \A g, x : GiftOk(g, x, sg) => GiftOk(g, x, sh)
         /\ \A s : ListOk(s, sg) => ListOk(s, sh)
<1>1. \A k \in Cids : sg[k].v \in 0..3 /\ sh[k].v \in 0..3
  BY DEF SignedOk
<1>2. ASSUME NEW g, NEW x, GiftOk(g, x, sg)
      PROVE  GiftOk(g, x, sh)
  <2>1. \A i \in DOMAIN x.comments : x.comments[i] \in Comment
    BY <1>2 DEF GiftOk
  <2>2. \A i \in DOMAIN x.comments : x.comments[i].cid \in Cids /\ x.comments[i].v \in 0..3
    BY <2>1 DEF Comment
  <2>3. \A i \in DOMAIN x.comments : x.comments[i].v <= sh[x.comments[i].cid].v
    BY <1>1, <1>2, <2>2 DEF GiftOk
  <2>. QED
    BY <1>2, <2>3 DEF GiftOk
<1>3. ASSUME NEW k, CopyOk(k, sg)
      PROVE  CopyOk(k, sh)
  <2>3. k.comments \in Seq([cid : Cids, v : 0..3])
    BY <1>3 DEF CopyOk
  <2>4. \A i \in DOMAIN k.comments : k.comments[i] \in [cid : Cids, v : 0..3]
    BY <2>3, Elements
  <2>1. \A i \in DOMAIN k.comments : k.comments[i].cid \in Cids /\ k.comments[i].v \in 0..3
    BY <2>4
  <2>2. \A i \in DOMAIN k.comments : k.comments[i].v \in 1..sh[k.comments[i].cid].v
    BY <1>1, <1>3, <2>1 DEF CopyOk
  <2>. QED
    BY <1>3, <2>2 DEF CopyOk
<1>4. ASSUME NEW m
      PROVE  (PartOk(m, sg) => PartOk(m, sh)) /\ (WholeOk(m, sg) => WholeOk(m, sh))
  <2>1. \A p : PartOk(p, sg) => PartOk(p, sh)
    BY <1>3 DEF PartOk, BodyOk, CopiesOk
  <2>. QED
    BY <2>1 DEF WholeOk
<1>5. \A s : ListOk(s, sg) => ListOk(s, sh)
  BY <1>4 DEF ListOk
<1>. QED
  BY <1>2, <1>5

LEMMA ConcatOk ==
  ASSUME NEW s, NEW t, NEW sg, ListOk(s, sg), ListOk(t, sg)
  PROVE  ListOk(s \o t, sg)
<1>. DEFINE r == s \o t
<1>1. IsList(r) /\ From(r, s, t)
  BY Concatenated DEF ListOk
<1>. HIDE DEF r
<1>2. \A i \in DOMAIN r : PartOk(r[i], sg) \/ WholeOk(r[i], sg)
  BY <1>1 DEF ListOk, From
<1>3. ListOk(r, sg)
  BY <1>1, <1>2 DEF ListOk
<1>. QED
  BY <1>3 DEF r

LEMMA AppendOk ==
  ASSUME NEW s, NEW m, NEW sg, ListOk(s, sg), PartOk(m, sg) \/ WholeOk(m, sg)
  PROVE  ListOk(Append(s, m), sg)
  BY OneMore DEF ListOk

LEMMA TailOk ==
  ASSUME NEW s, NEW sg, ListOk(s, sg), s # <<>>
  PROVE  ListOk(Tail(s), sg) /\ (PartOk(Head(s), sg) \/ WholeOk(Head(s), sg))
  BY OneLess DEF ListOk

LEMMA ShortOk ==
  ASSUME NEW sg
  PROVE  ListOk(<<>>, sg) /\ \A m : PartOk(m, sg) \/ WholeOk(m, sg) => ListOk(<<m>>, sg)
  BY ShortLists DEF ListOk

LEMMA PickedOk ==
  ASSUME NEW s, NEW sg, ListOk(s, sg), NEW I \in SUBSET DOMAIN s
  PROVE  ListOk(At(s, I), sg)
  BY ListPart DEF ListOk

LEMMA ItemsConcat ==
  ASSUME NEW s, NEW t, NEW sg, ItemsOk(s, sg), ItemsOk(t, sg)
  PROVE  ItemsOk(s \o t, sg)
<1>. DEFINE r == s \o t
<1>1. IsList(r) /\ From(r, s, t)
  BY Concatenated DEF ItemsOk
<1>. HIDE DEF r
<1>2. ItemsOk(r, sg)
  BY <1>1 DEF ItemsOk, From
<1>. QED
  BY <1>2 DEF r

LEMMA ItemOk ==
  ASSUME NEW type, NEW body, NEW sg, type \notin {"sync_gifts", "send_gifts"}
  PROVE  ItemsOk(Item(type, body), sg) /\ ItemsOk(<<>>, sg)
  BY ShortLists DEF ItemsOk, Item

LEMMA SendItemOk ==
  ASSUME NEW s, NEW sg, CopiesOk(s, sg)
  PROVE  ItemsOk(SendItem(s), sg)
<1>1. ItemsOk(<<>>, sg)
  BY ShortLists DEF ItemsOk
<1>2. BodyOk([gifts |-> s, asked |-> {}, ok |-> {}, count |-> 0], sg)
  BY DEF BodyOk
<1>3. ItemsOk(Item("send_gifts", [gifts |-> s, asked |-> {}, ok |-> {}, count |-> 0]), sg)
  <2>. DEFINE x == [type |-> "send_gifts", body |-> [gifts |-> s, asked |-> {}, ok |-> {}, count |-> 0]]
  <2>1. x.type = "send_gifts" /\ BodyOk(x.body, sg)
    BY <1>2
  <2>2. Item("send_gifts", [gifts |-> s, asked |-> {}, ok |-> {}, count |-> 0]) = <<x>>
    BY DEF Item
  <2>. HIDE DEF x
  <2>. QED
    BY <2>1, <2>2, ShortLists DEF ItemsOk
<1>. QED
  BY <1>1, <1>3 DEF SendItem

LEMMA MessageShape ==
  ASSUME NEW type, NEW m, NEW req, NEW body
  PROVE  /\ Shaped(Message(type, m, req, body))
         /\ Message(type, m, req, body).type = type /\ Message(type, m, req, body).body = body
  BY DEF Shaped, Message

LEMMA SyncOk ==
  ASSUME NEW c, NEW req, NEW items, NEW sg, ItemsOk(items, sg)
  PROVE  WholeOk(Sync(c, req, items), sg)
<1>. DEFINE F == [i \in DOMAIN items |-> Message(items[i].type, mid[c] + i, 0, items[i].body)]
<1>1. Len(items) \in Nat /\ DOMAIN items = 1..Len(items)
  BY DEF ItemsOk, IsList
<1>2. IsList(F) /\ DOMAIN F = 1..Len(items)
  <2>1. F = [i \in 1..Len(items) |-> F[i]]
    BY <1>1
  <2>. HIDE DEF F
  <2>. QED
    BY <1>1, <2>1, Listed
<1>3. ASSUME NEW i \in DOMAIN F
      PROVE  PartOk(F[i], sg)
  <2>1. F[i] = Message(items[i].type, mid[c] + i, 0, items[i].body) /\ i \in DOMAIN items
    OBVIOUS
  <2>2. Shaped(F[i]) /\ F[i].type = items[i].type /\ F[i].body = items[i].body
    BY <2>1, MessageShape
  <2>. HIDE DEF F
  <2>. QED
    BY <2>1, <2>2 DEF ItemsOk, PartOk
<1>4. Sync(c, req, items) = Message("sync_gifts", 0, req, F)
  BY DEF Sync
<1>. HIDE DEF F
<1>. QED
  BY <1>2, <1>3, <1>4, MessageShape DEF WholeOk

\* A copy of a gift has the comments that are asked for.
LEMMA CopiesFrom ==
  ASSUME NEW g \in Gifts, NEW x, NEW sg, GiftOk(g, x, sg), NEW ks
  PROVE  /\ Copies(x, ks) \in Seq([cid : Cids, v : 0..3]) /\ Unique(Copies(x, ks))
         /\ \A i \in DOMAIN Copies(x, ks) : \E j \in DOMAIN x.comments :
              /\ x.comments[j].cid = Copies(x, ks)[i].cid /\ x.comments[j].v = Copies(x, ks)[i].v
              /\ x.comments[j].cid \in ks
<1>. DEFINE s == x.comments
            I == {i \in DOMAIN s : s[i].cid \in ks}
            t == At(s, I)
            n == Len(t)
            r == Copies(x, ks)
<1>1. s \in Seq(Comment)
  BY DEF GiftOk
<1>2. /\ t \in Seq(Comment)
      /\ \A i \in DOMAIN t : \E j \in I : t[i] = s[j]
      /\ \A i, j \in DOMAIN t : i # j => \E k, l \in I : k # l /\ t[i] = s[k] /\ t[j] = s[l]
  <2>1. I \in SUBSET DOMAIN s
    OBVIOUS
  <2>. HIDE DEF s, I
  <2>. QED
    BY <1>1, <2>1, AtPart
<1>3. r = [i \in DOMAIN t |-> [cid |-> t[i].cid, v |-> t[i].v]]
  <2>. DEFINE C(u) == [i \in DOMAIN u |-> [cid |-> u[i].cid, v |-> u[i].v]]
              P(l) == Picked(x.comments, LAMBDA o : o.cid \in l)
              W(l) == With(P(l), LAMBDA u : C(u))
  <2>1. r = With(ks, LAMBDA l : W(l))
    BY DEF Copies
  <2>2. r = W(ks)
    <3>. HIDE DEF W, r
    <3>. QED  BY <2>1 DEF With
  <2>3. P(ks) = t
    BY DEF Picked, With
  <2>4. W(ks) = C(P(ks))
    <3>. HIDE DEF C, P
    <3>. QED  BY DEF With
  <2>. QED
    BY <2>2, <2>3, <2>4
<1>4. \A i, j \in I : i # j => s[i].cid # s[j].cid
  BY DEF GiftOk, Unique
<1>5. n \in Nat /\ DOMAIN t = 1..n
  BY <1>2
<1>6. \A i \in DOMAIN t : t[i].cid \in Cids /\ t[i].v \in 0..3
  <2>1. \A i \in DOMAIN t : t[i] \in Comment
    BY <1>2, Elements
  <2>. QED
    BY <2>1 DEF Comment
<1>7. \A i, j \in DOMAIN t : i # j => t[i].cid # t[j].cid
  <2>. HIDE DEF s, t, I
  <2>. QED
    BY <1>2, <1>4
<1>8. I \subseteq DOMAIN s /\ \A j \in I : s[j].cid \in ks
  OBVIOUS
<1>. HIDE DEF s, t, I, n, r
<1>9. r = [i \in 1..n |-> [cid |-> t[i].cid, v |-> t[i].v]]
  BY <1>3, <1>5
<1>10. r \in [1..n -> [cid : Cids, v : 0..3]]
  BY <1>5, <1>6, <1>9
<1>11. r \in Seq([cid : Cids, v : 0..3]) /\ DOMAIN r = 1..n
  BY <1>5, <1>10, SequenceOf
<1>12. Unique(r)
  BY <1>5, <1>7, <1>9 DEF Unique
<1>13. \A i \in DOMAIN r : \E j \in DOMAIN s : s[j].cid = r[i].cid /\ s[j].v = r[i].v /\ s[j].cid \in ks
  BY <1>2, <1>5, <1>8, <1>9
<1>. QED
  BY <1>11, <1>12, <1>13 DEF r, s

LEMMA CloneOk ==
  ASSUME NEW g \in Gifts, NEW x, NEW sg, SignedOk(sg), GiftOk(g, x, sg), NEW ks,
         \A i \in DOMAIN Copies(x, ks) : Copies(x, ks)[i].v > 0
  PROVE  CopyOk(Clone(g, x, ks), sg)
<1>. DEFINE r == Copies(x, ks)
            s == x.comments
<1>1. Clone(g, x, ks) = [gid |-> g, part |-> Part(x), comments |-> r]
  BY DEF Clone
<1>2. /\ r \in Seq([cid : Cids, v : 0..3]) /\ Unique(r)
      /\ \A i \in DOMAIN r : \E j \in DOMAIN s : s[j].cid = r[i].cid /\ s[j].v = r[i].v
  <2>1. r \in Seq([cid : Cids, v : 0..3])
    BY CopiesFrom
  <2>2. Unique(r)
    BY CopiesFrom
  <2>3. \A i \in DOMAIN r : \E j \in DOMAIN s : s[j].cid = r[i].cid /\ s[j].v = r[i].v
    <3>1. \A i \in DOMAIN r : \E j \in DOMAIN s : s[j].cid = r[i].cid /\ s[j].v = r[i].v /\ s[j].cid \in ks
      BY CopiesFrom
    <3>. HIDE DEF r, s
    <3>. QED
      BY <3>1
  <2>. QED
    BY <2>1, <2>2, <2>3
<1>3. \A i \in DOMAIN r : r[i].cid \in Cids /\ r[i].v \in 1..3
  <2>1. \A i \in DOMAIN r : r[i] \in [cid : Cids, v : 0..3]
    BY <1>2, Elements
  <2>. QED
    BY <2>1
<1>4. \A j \in DOMAIN s : Home[s[j].cid] = g /\ s[j].v <= sg[s[j].cid].v
  BY DEF GiftOk
<1>5. \A k \in Cids : sg[k].v \in 0..3
  BY DEF SignedOk
<1>6. Part(x) \in 0..1
  BY DEF Part
<1>. HIDE DEF r, s
<1>7. \A i \in DOMAIN r : Home[r[i].cid] = g /\ r[i].v \in 1..sg[r[i].cid].v
  BY <1>2, <1>3, <1>4, <1>5
<1>. QED
  BY <1>1, <1>2, <1>6, <1>7 DEF CopyOk

----------------------------------------------------------------------------
\* The inductive invariant.

BoxOk(b, sg) ==
  /\ b = [inbox |-> b.inbox, read |-> b.read, outbox |-> b.outbox, sending |-> b.sending, sent |-> b.sent,
          closed |-> b.closed, sendG |-> b.sendG, sendC |-> b.sendC, askC |-> b.askC]
  /\ ListOk(b.inbox, sg) /\ ListOk(b.read, sg) /\ ListOk(b.outbox, sg) /\ ListOk(b.sending, sg)
  /\ \A i \in DOMAIN b.read : b.read[i].type = "send_gifts"

\* gs has comment k, at least in version n; the version that an answer of the server gives it is signed.
Holds(gs, k, n) ==
  k \in Cids /\ \E i \in DOMAIN gs[Home[k]].comments :
                  gs[Home[k]].comments[i].cid = k /\ gs[Home[k]].comments[i].v >= n
Awaits(gs, k, sg) ==
  k \in Cids /\ \E i \in DOMAIN gs[Home[k]].comments :
                  /\ gs[Home[k]].comments[i].cid = k
                  /\ sg[k].v > gs[Home[k]].comments[i].v

\* The gifts, the mailbox, the ping and the messages on the server of one client.
GiftsOk(gs, sg)   == gs = [g \in Gifts |-> gs[g]] /\ \A g \in Gifts : GiftOk(g, gs[g], sg)
SendOk(gs, b)     == \A k \in b.sendC : Holds(gs, k, 1)
PingOk(gs, b, p, sg) ==
  /\ p = [stage |-> p.stage, mail |-> p.mail, own |-> p.own, gone |-> p.gone]
  /\ ListOk(p.mail, sg)
  /\ p.stage # "idle" => b.inbox = <<>> /\ \A a \in p.own : Awaits(gs, a.cid, sg)
ClientOk(gs, b, p, sg) == GiftsOk(gs, sg) /\ BoxOk(b, sg) /\ SendOk(gs, b) /\ PingOk(gs, b, p, sg)

IInv ==
  /\ SignedOk(signed)
  /\ gift = [c \in Clients |-> gift[c]] /\ box = [c \in Clients |-> box[c]]
  /\ ping = [c \in Clients |-> ping[c]] /\ store = [c \in Clients |-> store[c]]
  /\ \A c \in Clients : ClientOk(gift[c], box[c], ping[c], signed) /\ ListOk(store[c], signed)

\* The server signs more and more.
Signs == SignedOk(signed') /\ \A k \in Cids : signed[k].v <= signed'[k].v

LEMMA ClientStill ==
  ASSUME NEW gs, NEW b, NEW p, NEW sg, NEW sh, SignedOk(sg), SignedOk(sh),
         \A k \in Cids : sg[k].v <= sh[k].v, ClientOk(gs, b, p, sg)
  PROVE  ClientOk(gs, b, p, sh)
<1>1. /\ \A g, x : GiftOk(g, x, sg) => GiftOk(g, x, sh)
      /\ \A s : ListOk(s, sg) => ListOk(s, sh)
  BY StillOk
<1>2. \A k : Awaits(gs, k, sg) => Awaits(gs, k, sh)
  <2>. SUFFICES ASSUME NEW k \in Cids, Awaits(gs, k, sg)
                PROVE  Awaits(gs, k, sh)
    BY DEF Awaits
  <2>1. sg[k].v \in 0..3 /\ sh[k].v \in 0..3 /\ sg[k].v <= sh[k].v
    BY DEF SignedOk
  <2>. DEFINE s == gs[Home[k]].comments
  <2>2. PICK i \in DOMAIN s : s[i].cid = k /\ sg[k].v > s[i].v
    BY DEF Awaits
  <2>3. s \in Seq(Comment)
    BY IdsAssumption DEF ClientOk, GiftsOk, GiftOk
  <2>. HIDE DEF s
  <2>4. s[i].v \in 0..3
    BY <2>2, <2>3, Elements DEF Comment
  <2>5. sh[k].v > s[i].v
    BY <2>1, <2>2, <2>4
  <2>. QED
    BY <2>2, <2>5 DEF Awaits, s
<1>. QED
  BY <1>1, <1>2 DEF ClientOk, GiftsOk, BoxOk, PingOk

\* A step of c.
LEMMA Frame ==
  ASSUME IInv, NEW c \in Clients, Signs,
         gift' = [gift EXCEPT ![c] = gift'[c]], box' = [box EXCEPT ![c] = box'[c]],
         ping' = [ping EXCEPT ![c] = ping'[c]], store' = [d \in Clients |-> store'[d]],
         \A d \in Clients : ListOk(store'[d], signed'),
         ClientOk(gift'[c], box'[c], ping'[c], signed')
  PROVE  IInv'
<1>1. SignedOk(signed)
  BY DEF IInv
<1>2. gift' = [d \in Clients |-> gift'[d]] /\ box' = [d \in Clients |-> box'[d]] /\ ping' = [d \in Clients |-> ping'[d]]
  BY DEF IInv
<1>3. ASSUME NEW d \in Clients
      PROVE  ClientOk(gift'[d], box'[d], ping'[d], signed')
  <2>1. CASE d # c
    <3>1. gift'[d] = gift[d] /\ box'[d] = box[d] /\ ping'[d] = ping[d]
      BY <2>1 DEF IInv
    <3>2. ClientOk(gift[d], box[d], ping[d], signed)
      BY DEF IInv
    <3>3. ClientOk(gift[d], box[d], ping[d], signed')
      BY <1>1, <3>2, ClientStill DEF Signs
    <3>. QED
      BY <3>1, <3>3
  <2>. QED
    BY <2>1
<1>. QED
  BY <1>2, <1>3 DEF IInv, Signs

----------------------------------------------------------------------------
\* Handling a message.

LEMMA BoxWith ==
  ASSUME NEW b, NEW s, NEW sg, BoxOk(b, sg), ListOk(s, sg), NEW d,
         d = [b EXCEPT !.inbox = s] \/ d = [b EXCEPT !.outbox = s]
  PROVE  BoxOk(d, sg) /\ d.sendC = b.sendC
  BY DEF BoxOk

LEMMA RestOk ==
  ASSUME IInv, NEW c \in Clients, box[c].inbox # <<>>
  PROVE  /\ BoxOk(Rest(c), signed) /\ Rest(c).sendC = box[c].sendC
         /\ PartOk(Head(box[c].inbox), signed) \/ WholeOk(Head(box[c].inbox), signed)
<1>1. BoxOk(box[c], signed)
  BY DEF IInv, ClientOk
<1>2. /\ ListOk(Tail(box[c].inbox), signed)
      /\ PartOk(Head(box[c].inbox), signed) \/ WholeOk(Head(box[c].inbox), signed)
  BY <1>1, TailOk DEF BoxOk
<1>. DEFINE s == Tail(box[c].inbox)
<1>3. Rest(c) = [box[c] EXCEPT !.inbox = s] /\ ListOk(s, signed)
  BY <1>2 DEF Rest
<1>. HIDE DEF s
<1>4. BoxOk(Rest(c), signed) /\ Rest(c).sendC = box[c].sendC
  BY <1>1, <1>3, BoxWith
<1>. QED
  BY <1>2, <1>4

LEMMA PostOk ==
  ASSUME NEW b, NEW m, BoxOk(b, signed), PartOk(m, signed) \/ WholeOk(m, signed)
  PROVE  BoxOk(Post(b, m), signed) /\ Post(b, m).sendC = b.sendC
<1>1. ListOk(Append(b.outbox, m), signed)
  BY AppendOk DEF BoxOk
<1>. DEFINE s == Append(b.outbox, m)
<1>2. Post(b, m) = [b EXCEPT !.outbox = s] /\ ListOk(s, signed)
  BY <1>1 DEF Post
<1>. HIDE DEF s
<1>. QED
  BY <1>1, <1>2, BoxWith

LEMMA MovedOk ==
  ASSUME NEW b, NEW m, NEW types, BoxOk(b, signed)
  PROVE  BoxOk(Moved(b, m, types), signed) /\ Moved(b, m, types).sendC = b.sendC
<1>. DEFINE in == IF \E o \in Range(b.sent) : IsRequest(o, m, types) THEN b.sent ELSE b.outbox
            rest == Picked(in, LAMBDA o : ~IsRequest(o, m, types))
            closed == b.closed \union ({o.req : o \in {o \in Range(in) : IsRequest(o, m, types)}} \ {0})
            I == {i \in DOMAIN b.outbox : ~IsRequest(b.outbox[i], m, types)}
<1>1. Moved(b, m, types) = IF in = b.sent THEN [b EXCEPT !.sent = rest, !.closed = closed]
                                          ELSE [b EXCEPT !.outbox = rest, !.closed = closed]
  BY DEF Moved
<1>2. in = b.outbox => rest = At(b.outbox, I)
  BY DEF Picked, With
<1>3. ListOk(At(b.outbox, I), signed)
  <2>1. I \in SUBSET DOMAIN b.outbox
    OBVIOUS
  <2>. HIDE DEF I
  <2>. QED
    BY <2>1, PickedOk DEF BoxOk
<1>4. in # b.sent => in = b.outbox
  OBVIOUS
<1>. HIDE DEF in, rest, closed, I
<1>. QED
  BY <1>1, <1>2, <1>3, <1>4 DEF BoxOk

\* A step that files and answers a message and leaves the gifts alone.
LEMMA Filing ==
  ASSUME IInv, NEW c \in Clients, box[c].inbox # <<>>, NEW b, BoxOk(b, signed), b.sendC = box[c].sendC,
         NEW n, NEW f, Moves(c, b, n, f), gift' = gift
  PROVE  IInv' /\ signed' = signed
<1>1. box' = [box EXCEPT ![c] = b] /\ ping' = ping /\ store' = store /\ signed' = signed
  BY DEF Moves
<1>2. ClientOk(gift[c], box[c], ping[c], signed) /\ SignedOk(signed) /\ \A d \in Clients : ListOk(store[d], signed)
  BY DEF IInv
<1>3. ClientOk(gift[c], b, ping[c], signed)
  BY <1>2 DEF ClientOk, SendOk, PingOk
<1>4. box'[c] = b /\ box' = [box EXCEPT ![c] = box'[c]]
  BY <1>1 DEF IInv
<1>5. gift' = [gift EXCEPT ![c] = gift'[c]] /\ ping' = [ping EXCEPT ![c] = ping'[c]]
  BY <1>1 DEF IInv
<1>6. store' = [d \in Clients |-> store'[d]]
  BY <1>1 DEF IInv
<1>7. Signs
  <2>1. \A k \in Cids : signed[k].v \in 0..3
    BY <1>2 DEF SignedOk
  <2>. QED
    BY <1>1, <1>2, <2>1 DEF Signs
<1>8. /\ \A d \in Clients : ListOk(store'[d], signed')
      /\ ClientOk(gift'[c], box'[c], ping'[c], signed')
  BY <1>1, <1>2, <1>3, <1>4
<1>. QED
  BY <1>1, <1>4, <1>5, <1>6, <1>7, <1>8, Frame

LEMMA AnswerOk ==
  ASSUME IInv, NEW c \in Clients, box[c].inbox # <<>>, NEW b, BoxOk(b, signed), b.sendC = box[c].sendC,
         NEW m, NEW items, ItemsOk(items, signed), Answer(c, b, m, items), gift' = gift
  PROVE  IInv' /\ signed' = signed
<1>1. WholeOk(Sync(c, m.mid, items), signed)
  BY SyncOk
<1>2. BoxOk(Post(b, Sync(c, m.mid, items)), signed) /\ Post(b, Sync(c, m.mid, items)).sendC = b.sendC
  BY <1>1, PostOk
<1>3. Moves(c, Post(b, Sync(c, m.mid, items)), Len(items), FALSE)
  BY DEF Answer, Handled
<1>. QED
  BY <1>2, <1>3, Filing

LEMMA ReplyOk ==
  ASSUME IInv, NEW c \in Clients, box[c].inbox # <<>>, NEW b, BoxOk(b, signed), b.sendC = box[c].sendC,
         NEW type, type \notin {"sync_gifts", "send_gifts"}, NEW i, NEW req, NEW body, NEW n, NEW f,
         Moves(c, Post(b, Message(type, i, req, body)), n, f), gift' = gift
  PROVE  IInv' /\ signed' = signed
<1>. DEFINE m == Message(type, i, req, body)
<1>1. PartOk(m, signed)
  BY MessageShape DEF PartOk
<1>. HIDE DEF m
<1>2. BoxOk(Post(b, m), signed) /\ Post(b, m).sendC = b.sendC
  BY <1>1, PostOk
<1>3. Moves(c, Post(b, m), n, f)
  BY DEF m
<1>. QED
  BY <1>2, <1>3, Filing

LEMMA SomeGifts ==
  ASSUME NEW S \in SUBSET Gifts
  PROVE  /\ IsFiniteSet(S) /\ Cardinality(S) \in Nat /\ Sorted(S) \in [1..Cardinality(S) -> S]
<1>1. Gifts \subseteq Nat /\ IsFiniteSet(Gifts)
  BY IdsAssumption
<1>2. IsFiniteSet(S)
  BY <1>1, FS_Subset
<1>3. S \in SUBSET Int
  BY <1>1
<1>. QED
  BY <1>2, <1>3, SortedOnce

\* One copy for each gift of S, with comments ks[g].
LEMMA ClonesOk ==
  ASSUME NEW gs, NEW sg, SignedOk(sg), GiftsOk(gs, sg), NEW S \in SUBSET Gifts, NEW ks, NEW F,
         F = [i \in 1..Cardinality(S) |-> Clone(Sorted(S)[i], gs[Sorted(S)[i]], ks[Sorted(S)[i]])]
  PROVE  /\ Fits(F) => CopiesOk(F, sg)
         /\ (\A g \in S : \A i \in DOMAIN gs[g].comments :
               gs[g].comments[i].cid \in ks[g] => gs[g].comments[i].v > 0) => Fits(F)
<1>. DEFINE N == Cardinality(S)
            at == Sorted(S)
<1>2. N \in Nat /\ at \in [1..N -> S]
  BY SomeGifts
<1>. HIDE DEF N, at
<1>3. F = [i \in 1..N |-> Clone(at[i], gs[at[i]], ks[at[i]])]
  BY DEF N, at
<1>4. IsList(F) /\ DOMAIN F = 1..N
  <2>1. F = [i \in 1..N |-> F[i]]
    BY <1>3
  <2>. QED
    BY <1>2, <2>1, Listed
<1>5. \A i \in 1..N : at[i] \in S /\ at[i] \in Gifts /\ GiftOk(at[i], gs[at[i]], sg)
  BY <1>2 DEF GiftsOk
<1>6. \A i \in 1..N : F[i] = Clone(at[i], gs[at[i]], ks[at[i]]) /\ F[i].comments = Copies(gs[at[i]], ks[at[i]])
  <2>1. \A i \in 1..N : F[i] = Clone(at[i], gs[at[i]], ks[at[i]])
    BY <1>3
  <2>2. \A g, x, cs : Clone(g, x, cs).comments = Copies(x, cs)
    BY DEF Clone
  <2>. QED
    BY <2>1, <2>2
<1>7. ASSUME Fits(F)
      PROVE  CopiesOk(F, sg)
  <2>1. ASSUME NEW i \in 1..N
        PROVE  CopyOk(F[i], sg)
    <3>1. \A n \in Range(F[i].comments) : n.v > 0
      BY <1>4, <1>7 DEF Fits
    <3>2. \A j \in DOMAIN F[i].comments : F[i].comments[j].v > 0
      BY <3>1 DEF Range
    <3>. QED
      BY <1>5, <1>6, <3>2, CloneOk
  <2>. QED
    BY <1>4, <2>1 DEF CopiesOk
<1>8. ASSUME \A g \in S : \A i \in DOMAIN gs[g].comments : gs[g].comments[i].cid \in ks[g] => gs[g].comments[i].v > 0
      PROVE  Fits(F)
  <2>1. ASSUME NEW i \in 1..N, NEW j \in DOMAIN F[i].comments
        PROVE  F[i].comments[j].v > 0
    <3>. DEFINE r == Copies(gs[at[i]], ks[at[i]])
    <3>1. \A l \in DOMAIN r : \E m \in DOMAIN gs[at[i]].comments :
            gs[at[i]].comments[m].v = r[l].v /\ gs[at[i]].comments[m].cid \in ks[at[i]]
      BY <1>5, CopiesFrom
    <3>2. F[i].comments = r
      BY <1>6
    <3>. HIDE DEF r
    <3>. QED
      BY <1>5, <1>8, <3>1, <3>2
  <2>. QED
    BY <1>4, <2>1 DEF Fits, Range
<1>. QED
  BY <1>7, <1>8

LEMMA WholeCopies ==
  ASSUME IInv, NEW c \in Clients, NEW S \in SUBSET Gifts
  PROVE  /\ Fits(Whole(c, S)) => CopiesOk(Whole(c, S), signed)
         /\ S \subseteq Known(c) => Fits(Whole(c, S))
<1>. DEFINE ks == [g \in S |-> Cids]
            F == Whole(c, S)
<1>1. SignedOk(signed) /\ GiftsOk(gift[c], signed)
  BY DEF IInv, ClientOk
<1>2. \A i \in 1..Cardinality(S) : Sorted(S)[i] \in S
  BY SomeGifts
<1>3. F = [i \in 1..Cardinality(S) |-> Clone(Sorted(S)[i], gift[c][Sorted(S)[i]], ks[Sorted(S)[i]])]
  BY <1>2 DEF Whole
<1>4. ASSUME S \subseteq Known(c)
      PROVE  \A g \in S : \A i \in DOMAIN gift[c][g].comments : gift[c][g].comments[i].v > 0
  BY <1>4 DEF Known, Sum, Cs, Range
<1>. HIDE DEF F, ks
<1>5. /\ Fits(F) => CopiesOk(F, signed)
      /\ S \subseteq Known(c) => Fits(F)
  BY <1>1, <1>3, <1>4, ClonesOk
<1>. QED
  BY <1>5 DEF F

LEMMA UsersStep ==
  ASSUME IInv, NEW c \in Clients, HandleUsers(c) \/ RefuseUsers(c)
  PROVE  IInv' /\ UNCHANGED <<gift, signed>>
<1>. DEFINE m == Head(box[c].inbox)
<1>1. box[c].inbox # <<>> /\ gift' = gift
  BY DEF HandleUsers, RefuseUsers, Handles
<1>2. BoxOk(Rest(c), signed) /\ Rest(c).sendC = box[c].sendC
  BY <1>1, RestOk
<1>3. \/ Moves(c, Rest(c), 0, FALSE)
      \/ Moves(c, Post(Rest(c), Message("gifts_sha256", mid[c] + 1, m.mid, [g \in Known(c) |-> Sum(gift[c][g])])), 1, FALSE)
      \/ Moves(c, Post(Rest(c), Message("error", mid[c] + 1, m.mid, <<>>)), 1, TRUE)
  BY DEF HandleUsers, RefuseUsers, Handled, Error
<1>4. CASE Moves(c, Rest(c), 0, FALSE)
  BY <1>1, <1>2, <1>4, Filing
<1>5. CASE Moves(c, Post(Rest(c), Message("gifts_sha256", mid[c] + 1, m.mid, [g \in Known(c) |-> Sum(gift[c][g])])), 1, FALSE)
  <2>1. "gifts_sha256" \notin {"sync_gifts", "send_gifts"}
    OBVIOUS
  <2>. QED
    BY <1>1, <1>2, <1>5, <2>1, ReplyOk
<1>6. CASE Moves(c, Post(Rest(c), Message("error", mid[c] + 1, m.mid, <<>>)), 1, TRUE)
  <2>1. "error" \notin {"sync_gifts", "send_gifts"}
    OBVIOUS
  <2>. QED
    BY <1>1, <1>2, <1>6, <2>1, ReplyOk
<1>. QED
  BY <1>1, <1>3, <1>4, <1>5, <1>6

LEMMA ErrorOk ==
  ASSUME IInv, NEW c \in Clients, box[c].inbox # <<>>, NEW m, Error(c, Rest(c), m), gift' = gift
  PROVE  IInv' /\ signed' = signed
<1>1. BoxOk(Rest(c), signed) /\ Rest(c).sendC = box[c].sendC
  BY RestOk
<1>2. Moves(c, Post(Rest(c), Message("error", mid[c] + 1, m.mid, <<>>)), 1, TRUE)
  BY DEF Error
<1>3. "error" \notin {"sync_gifts", "send_gifts"}
  OBVIOUS
<1>. QED
  BY <1>1, <1>2, <1>3, ReplyOk

LEMMA GiftsStep ==
  ASSUME IInv, NEW c \in Clients, HandleGifts(c)
  PROVE  IInv' /\ UNCHANGED <<gift, signed>>
<1>. DEFINE m      == Head(box[c].inbox)
            theirs == DOMAIN m.body
            differ == {g \in Known(c) \intersect theirs : Sum(gift[c][g]) # m.body[g]}
            check  == [g \in differ |-> [sum |-> Sum(gift[c][g]), list |-> None]]
            whole  == SendItem(Whole(c, Known(c) \ theirs))
            ask    == IF theirs \subseteq Known(c) THEN <<>> ELSE Item("request_gifts", theirs \ Known(c))
            checks == IF differ = {} THEN <<>> ELSE Item("check_gifts", check)
            items  == whole \o ask \o checks
            b      == Moved(Rest(c), m, {"users_sha256"})
<1>1. box[c].inbox # <<>> /\ gift' = gift
  BY DEF HandleGifts, Handles
<1>2. BoxOk(Rest(c), signed) /\ Rest(c).sendC = box[c].sendC
  BY <1>1, RestOk
<1>3. BoxOk(b, signed) /\ b.sendC = box[c].sendC
  BY <1>2, MovedOk
<1>4. Handled(c, Rest(c), 0) \/ Handled(c, b, 0) \/ Answer(c, b, m, items)
  BY DEF HandleGifts
<1>5. ItemsOk(items, signed)
  <2>1. Known(c) \ theirs \in SUBSET Gifts /\ Known(c) \ theirs \subseteq Known(c)
    BY DEF Known, Here
  <2>2. ItemsOk(whole, signed)
    <3>. DEFINE S == Known(c) \ theirs
    <3>. HIDE DEF S
    <3>1. CopiesOk(Whole(c, S), signed)
      BY <2>1, WholeCopies DEF S
    <3>2. ItemsOk(SendItem(Whole(c, S)), signed)
      BY <3>1, SendItemOk
    <3>. QED
      BY <3>2 DEF S
  <2>3. ItemsOk(ask, signed) /\ ItemsOk(checks, signed)
    BY ItemOk
  <2>. HIDE DEF whole, ask, checks
  <2>4. ItemsOk(whole \o ask, signed)
    BY <2>2, <2>3, ItemsConcat
  <2>. DEFINE two == whole \o ask
  <2>5. items = two \o checks /\ ItemsOk(two, signed)
    BY <2>4
  <2>. HIDE DEF two
  <2>6. ItemsOk(two \o checks, signed)
    BY <2>3, <2>5, ItemsConcat
  <2>. QED
    BY <2>5, <2>6
<1>. HIDE DEF items, b, m
<1>6. CASE Handled(c, Rest(c), 0)
  BY <1>1, <1>2, <1>6, Filing DEF Handled
<1>7. CASE Handled(c, b, 0)
  BY <1>1, <1>3, <1>7, Filing DEF Handled
<1>8. CASE Answer(c, b, m, items)
  BY <1>1, <1>3, <1>5, <1>8, AnswerOk
<1>. QED
  BY <1>1, <1>4, <1>6, <1>7, <1>8

LEMMA SyncStep ==
  ASSUME IInv, NEW c \in Clients, HandleSync(c)
  PROVE  IInv' /\ UNCHANGED <<gift, signed>>
<1>. DEFINE m == Head(box[c].inbox)
            b == IF m.req = 0 THEN Rest(c) ELSE Moved(Rest(c), m, Answerable)
<1>1. box[c].inbox # <<>> /\ m.type = "sync_gifts" /\ gift' = gift
  BY DEF HandleSync, Handles
<1>2. BoxOk(Rest(c), signed) /\ Rest(c).sendC = box[c].sendC /\ (PartOk(m, signed) \/ WholeOk(m, signed))
  BY <1>1, RestOk
<1>3. BoxOk(b, signed) /\ b.sendC = box[c].sendC
  BY <1>2, MovedOk
<1>4. ListOk(m.body, signed)
  BY <1>1, <1>2 DEF PartOk, WholeOk, ListOk
<1>5. Handled(c, Rest(c), 0) \/ Handled(c, [b EXCEPT !.inbox = b.inbox \o m.body], 0)
  BY DEF HandleSync
<1>. HIDE DEF b, m
<1>. DEFINE s == b.inbox \o m.body
<1>6. ListOk(s, signed)
  BY <1>3, <1>4, ConcatOk DEF BoxOk
<1>. HIDE DEF s
<1>. DEFINE d == [b EXCEPT !.inbox = s]
<1>7. d = [b EXCEPT !.inbox = s]
  OBVIOUS
<1>8. Handled(c, Rest(c), 0) \/ Handled(c, d, 0)
  BY <1>5 DEF s
<1>. HIDE DEF d
<1>9. BoxOk(d, signed) /\ d.sendC = box[c].sendC
  BY <1>3, <1>6, <1>7, BoxWith
<1>. QED
  BY <1>1, <1>2, <1>8, <1>9, Filing DEF Handled

LEMMA ErrorStep ==
  ASSUME IInv, NEW c \in Clients, HandleError(c)
  PROVE  IInv' /\ UNCHANGED <<gift, signed>>
<1>. DEFINE m     == Head(box[c].inbox)
            types == Answerable \union {"users_sha256"}
<1>1. box[c].inbox # <<>> /\ gift' = gift
  BY DEF HandleError, Handles
<1>2. BoxOk(Rest(c), signed) /\ Rest(c).sendC = box[c].sendC
  BY <1>1, RestOk
<1>3. BoxOk(Moved(Rest(c), m, types), signed) /\ Moved(Rest(c), m, types).sendC = box[c].sendC
  BY <1>2, MovedOk
<1>4. Handled(c, Rest(c), 0) \/ Handled(c, Moved(Rest(c), m, types), 0)
  BY DEF HandleError
<1>. QED
  BY <1>1, <1>2, <1>3, <1>4, Filing DEF Handled

LEMMA AnswerGiftsOk ==
  ASSUME IInv, NEW c \in Clients, box[c].inbox # <<>>, NEW m, NEW clones, gift' = gift,
         Fits(clones) => CopiesOk(clones, signed), AnswerGifts(c, m, clones)
  PROVE  IInv' /\ signed' = signed
<1>1. BoxOk(Rest(c), signed)
  BY RestOk
<1>2. CASE Fits(clones) /\ Answer(c, Rest(c), m, SendItem(clones))
  <2>1. ItemsOk(SendItem(clones), signed)
    BY <1>2, SendItemOk
  <2>. QED
    BY <1>2, <2>1, RestOk, AnswerOk
<1>3. CASE Error(c, Rest(c), m)
  BY <1>3, ErrorOk
<1>. QED
  BY <1>2, <1>3 DEF AnswerGifts

LEMMA RequestGiftsStep ==
  ASSUME IInv, NEW c \in Clients, HandleRequestGifts(c)
  PROVE  IInv' /\ UNCHANGED <<gift, signed>>
<1>. DEFINE m == Head(box[c].inbox)
            S == m.body \intersect Here(c)
<1>1. box[c].inbox # <<>> /\ gift' = gift /\ AnswerGifts(c, m, Whole(c, S))
  BY DEF HandleRequestGifts, Handles
<1>2. S \in SUBSET Gifts
  BY DEF Here
<1>. HIDE DEF m, S
<1>3. Fits(Whole(c, S)) => CopiesOk(Whole(c, S), signed)
  BY <1>2, WholeCopies
<1>. QED
  BY <1>1, <1>3, AnswerGiftsOk

LEMMA RequestCommentsStep ==
  ASSUME IInv, NEW c \in Clients, HandleRequestComments(c)
  PROVE  IInv' /\ UNCHANGED <<gift, signed>>
<1>. DEFINE m == Head(box[c].inbox)
            found(g) == {o.cid : o \in {o \in Cs(gift[c][g]) : o.v > 0 /\ o.cid \in m.body}}
            S  == {g \in Here(c) : found(g) # {}}
            ks == [g \in Gifts |-> found(g)]
            clones == [i \in 1..Cardinality(S) |-> Clone(Sorted(S)[i], gift[c][Sorted(S)[i]], found(Sorted(S)[i]))]
<1>1. box[c].inbox # <<>> /\ gift' = gift /\ AnswerGifts(c, m, clones)
  BY DEF HandleRequestComments, Handles
<1>2. S \in SUBSET Gifts
  BY DEF Here
<1>3. SignedOk(signed) /\ GiftsOk(gift[c], signed)
  BY DEF IInv, ClientOk
<1>4. \A g \in Gifts : ks[g] = found(g)
  OBVIOUS
<1>. HIDE DEF S, ks, found
<1>5. clones = [i \in 1..Cardinality(S) |-> Clone(Sorted(S)[i], gift[c][Sorted(S)[i]], ks[Sorted(S)[i]])]
  <2>1. \A i \in 1..Cardinality(S) : Sorted(S)[i] \in Gifts
    BY <1>2, SomeGifts
  <2>. QED
    BY <1>4, <2>1
<1>. HIDE DEF clones, m
<1>6. Fits(clones) => CopiesOk(clones, signed)
  BY <1>2, <1>3, <1>5, ClonesOk
<1>. QED
  BY <1>1, <1>6, AnswerGiftsOk

LEMMA CheckStep ==
  ASSUME IInv, NEW c \in Clients, HandleCheck(c)
  PROVE  IInv' /\ UNCHANGED <<gift, signed>>
<1>. DEFINE m == Head(box[c].inbox)
            x(g) == gift[c][g]
            samePart(g) == Sum(x(g)) # None /\ Part(x(g)) = m.body[g].sum.part
            sameComments(g) == Sum(x(g)) # None /\ Sum(x(g)).comments = m.body[g].sum.comments
            gs == {g \in DOMAIN m.body \intersect Here(c) : ~samePart(g) \/ ~sameComments(g)}
            differ == {g \in gs : ~sameComments(g)}
            lists == [g \in differ |-> [sum |-> Sum(x(g)), list |-> [k \in Held(x(g)) |-> The(x(g), k).h]]]
            news(g) == IF g \in differ
                       THEN {k \in Held(x(g)) : k \notin DOMAIN m.body[g].list \/ m.body[g].list[k] # The(x(g), k).h}
                       ELSE {}
            S == {g \in gs : ~samePart(g) \/ news(g) # {}}
            clones == [i \in 1..Cardinality(S) |-> Clone(Sorted(S)[i], x(Sorted(S)[i]), news(Sorted(S)[i]))]
            ask == UNION {DOMAIN m.body[g].list \ Held(x(g)) : g \in differ}
            asks == IF ask = {} THEN <<>> ELSE Item("request_comments", ask)
            ks == [g \in Gifts |-> news(g)]
<1>1. box[c].inbox # <<>> /\ gift' = gift
  BY DEF HandleCheck, Handles
<1>2. \/ Error(c, Rest(c), m)
      \/ Answer(c, Rest(c), m, Item("check_gifts", lists))
      \/ Fits(clones) /\ Answer(c, Rest(c), m, SendItem(clones) \o asks)
  BY DEF HandleCheck
<1>3. S \in SUBSET Gifts
  BY DEF Here
<1>4. SignedOk(signed) /\ GiftsOk(gift[c], signed)
  BY DEF IInv, ClientOk
<1>5. \A g \in Gifts : ks[g] = news(g)
  OBVIOUS
<1>. HIDE DEF lists, ask
<1>6. ItemsOk(Item("check_gifts", lists), signed) /\ ItemsOk(asks, signed)
  <2>1. "check_gifts" \notin {"sync_gifts", "send_gifts"} /\ "request_comments" \notin {"sync_gifts", "send_gifts"}
    OBVIOUS
  <2>2. ItemsOk(Item("check_gifts", lists), signed)
    BY <2>1, ItemOk
  <2>3. ItemsOk(Item("request_comments", ask), signed) /\ ItemsOk(<<>>, signed)
    BY <2>1, ItemOk
  <2>. QED
    BY <2>2, <2>3
<1>. HIDE DEF S, ks, news, asks, m
<1>7. clones = [i \in 1..Cardinality(S) |-> Clone(Sorted(S)[i], gift[c][Sorted(S)[i]], ks[Sorted(S)[i]])]
  <2>1. \A i \in 1..Cardinality(S) : Sorted(S)[i] \in Gifts
    BY <1>3, SomeGifts
  <2>. QED
    BY <1>5, <2>1
<1>. HIDE DEF clones
<1>8. Fits(clones) => CopiesOk(clones, signed)
  BY <1>3, <1>4, <1>7, ClonesOk
<1>9. Fits(clones) => ItemsOk(SendItem(clones) \o asks, signed)
  BY <1>6, <1>8, SendItemOk, ItemsConcat
<1>10. BoxOk(Rest(c), signed) /\ Rest(c).sendC = box[c].sendC
  BY <1>1, RestOk
<1>11. CASE Error(c, Rest(c), m)
  BY <1>1, <1>11, ErrorOk
<1>12. CASE Answer(c, Rest(c), m, Item("check_gifts", lists))
  BY <1>1, <1>6, <1>10, <1>12, AnswerOk
<1>13. CASE Fits(clones) /\ Answer(c, Rest(c), m, SendItem(clones) \o asks)
  BY <1>1, <1>9, <1>10, <1>13, AnswerOk
<1>. QED
  BY <1>1, <1>2, <1>11, <1>12, <1>13

----------------------------------------------------------------------------
\* Merging copies.

\* Comments of s are in t at the same places, not in an older version.
Onward(s, t) == \A i \in DOMAIN s : i \in DOMAIN t /\ t[i].cid = s[i].cid /\ s[i].v <= t[i].v

LEMMA OnwardHolds ==
  ASSUME NEW gs, NEW hs, NEW sg, GiftsOk(gs, sg), GiftsOk(hs, sg),
         \A g \in Gifts : Onward(gs[g].comments, hs[g].comments),
         NEW k, NEW n \in Nat, Holds(gs, k, n)
  PROVE  Holds(hs, k, n)
<1>1. k \in Cids /\ Home[k] \in Gifts
  BY IdsAssumption DEF Holds
<1>. DEFINE s == gs[Home[k]].comments
            t == hs[Home[k]].comments
<1>2. Onward(s, t) /\ s \in Seq(Comment) /\ t \in Seq(Comment)
  BY <1>1 DEF GiftsOk, GiftOk
<1>3. \E i \in DOMAIN s : s[i].cid = k /\ s[i].v >= n
  BY DEF Holds
<1>4. Holds(hs, k, n) <=> \E i \in DOMAIN t : t[i].cid = k /\ t[i].v >= n
  BY <1>1 DEF Holds
<1>5. (\A i \in DOMAIN s : s[i] \in Comment) /\ \A i \in DOMAIN t : t[i] \in Comment
  BY <1>2, Elements
<1>6. (\A i \in DOMAIN s : s[i].v \in 0..3) /\ \A i \in DOMAIN t : t[i].v \in 0..3
  BY <1>5 DEF Comment
<1>. HIDE DEF s, t
<1>. QED
  BY <1>2, <1>3, <1>4, <1>6 DEF Onward

LEMMA Places ==
  ASSUME NEW S, NEW a \in Seq(S), NEW b \in Seq(S), NEW r, r = a \o b
  PROVE  /\ r \in Seq(S)
         /\ \A i \in DOMAIN a : i \in DOMAIN r /\ r[i] = a[i]
         /\ \A i \in DOMAIN r : \/ i \in DOMAIN a /\ r[i] = a[i]
                                \/ i - Len(a) \in DOMAIN b /\ r[i] = b[i - Len(a)]
<1>1. DOMAIN a = 1..Len(a) /\ DOMAIN b = 1..Len(b) /\ Len(a) \in Nat /\ Len(b) \in Nat
  OBVIOUS
<1>2. r \in Seq(S) /\ Len(r) = Len(a) + Len(b) /\ DOMAIN r = 1..Len(r)
  OBVIOUS
<1>3. \A i \in DOMAIN a : i \in DOMAIN r /\ r[i] = a[i]
  BY <1>1
<1>4. ASSUME NEW i \in DOMAIN r, i \notin DOMAIN a
      PROVE  i - Len(a) \in DOMAIN b /\ r[i] = b[i - Len(a)]
  <2>1. i \in Int /\ i > Len(a) /\ i <= Len(a) + Len(b)
    BY <1>1, <1>2, <1>4
  <2>. QED
    BY <1>1, <2>1
<1>. QED
  BY <1>2, <1>3, <1>4

LEMMA MergedOk ==
  ASSUME NEW g \in Gifts, NEW x, NEW sg, SignedOk(sg), GiftOk(g, x, sg), NEW k, CopyOk(k, sg), k.gid = g, NEW s
  PROVE  GiftOk(g, Merged(x, k, s), sg) /\ Onward(x.comments, Merged(x, k, s).comments)
<1>. DEFINE I   == {i \in DOMAIN k.comments : k.comments[i].cid \in s.ok \ Held(x)}
            new == At(k.comments, I)
            old == x.comments
            a   == [i \in DOMAIN old |-> Updated(old[i], Newer(old[i], k, s))]
            b   == [i \in DOMAIN new |-> New(new[i].cid, 1)]
            r   == a \o b
            y   == Merged(x, k, s)
            NewComment == [cid : Cids, v : 0..3]
<1>1. /\ x = [here |-> x.here, gone |-> x.gone, comments |-> old] /\ x.gone \in {"no", "asked", "done"}
      /\ old \in Seq(Comment) /\ Unique(old)
      /\ \A i \in DOMAIN old : Home[old[i].cid] = g /\ old[i].v <= sg[old[i].cid].v
  BY DEF GiftOk
<1>2. /\ k.comments \in Seq(NewComment) /\ Unique(k.comments)
      /\ \A i \in DOMAIN k.comments : Home[k.comments[i].cid] = g /\ k.comments[i].v \in 1..sg[k.comments[i].cid].v
  BY DEF CopyOk
<1>3. y = [x EXCEPT !.here = TRUE, !.comments = r]
  BY DEF Merged, Picked, With
<1>4. y = [here |-> TRUE, gone |-> x.gone, comments |-> r]
  <2>. HIDE DEF y, r, old
  <2>. QED
    BY <1>1, <1>3
<1>5. \A i \in DOMAIN old : old[i].cid \in Cids /\ old[i].v \in 0..3 /\ old[i] \in Comment
  <2>1. \A i \in DOMAIN old : old[i] \in Comment
    BY <1>1, Elements
  <2>. QED
    BY <2>1 DEF Comment
<1>6. \A i \in DOMAIN k.comments : k.comments[i].cid \in Cids /\ k.comments[i].v \in 0..3
  <2>1. \A i \in DOMAIN k.comments : k.comments[i] \in NewComment
    BY <1>2, Elements
  <2>. QED
    BY <2>1
<1>7. \A n \in Cids : sg[n].v \in 0..3
  BY DEF SignedOk
<1>8. ASSUME NEW i \in DOMAIN old
      PROVE  /\ a[i] \in Comment /\ a[i].cid = old[i].cid
             /\ old[i].v <= a[i].v /\ a[i].v <= sg[old[i].cid].v
  <2>. DEFINE o == old[i]
              N == Newer(o, k, s)
  <2>1. a[i] = Updated(o, N) /\ o \in Comment /\ o.cid \in Cids /\ o.v \in 0..3 /\ o.v <= sg[o.cid].v
    BY <1>1, <1>5
  <2>2. \A n \in N : n.v \in 0..3 /\ n.v > o.v /\ n.v <= sg[o.cid].v
    BY <1>2, <1>6, <1>7 DEF Newer, Range
  <2>5. \A n \in N : o.act = "no"
    BY DEF Newer
  <2>. HIDE DEF o, N, a
  <2>3. CASE N = {}
    <3>1. a[i] = o
      BY <2>1, <2>3 DEF Updated
    <3>. QED
      BY <2>1, <3>1 DEF o
  <2>4. CASE N # {}
    <3>. DEFINE n == CHOOSE n \in N : TRUE
    <3>1. n \in N
      BY <2>4
    <3>2. a[i] = [o EXCEPT !.v = n.v]
      BY <2>1, <2>4 DEF Updated
    <3>. HIDE DEF n
    <3>3. n.v \in 0..3 /\ n.v > o.v /\ n.v <= sg[o.cid].v /\ o.act = "no"
      BY <2>2, <2>5, <3>1
    <3>. QED
      BY <2>1, <3>2, <3>3 DEF Comment, o
  <2>. QED
    BY <2>3, <2>4
<1>9. /\ new \in Seq(NewComment)
      /\ \A i \in DOMAIN new : \E n \in I : new[i] = k.comments[n]
      /\ \A i, j \in DOMAIN new : i # j => \E n, l \in I : n # l /\ new[i] = k.comments[n] /\ new[j] = k.comments[l]
  <2>. DEFINE c == k.comments
  <2>1. I \in SUBSET DOMAIN c /\ c \in Seq(NewComment)
    BY <1>2
  <2>. HIDE DEF I, NewComment, c
  <2>2. /\ At(c, I) \in Seq(NewComment)
        /\ \A i \in DOMAIN At(c, I) : \E n \in I : At(c, I)[i] = c[n]
        /\ \A i, j \in DOMAIN At(c, I) : i # j => \E n, l \in I : n # l /\ At(c, I)[i] = c[n] /\ At(c, I)[j] = c[l]
    BY <2>1, AtPart
  <2>. QED
    BY <2>2 DEF c
<1>10. \A n \in I : n \in DOMAIN k.comments /\ k.comments[n].cid \notin Held(x)
  OBVIOUS
<1>11. \A i \in DOMAIN old : old[i].cid \in Held(x)
  BY DEF Held, Cs, Range
<1>12. (\A n \in Cids : New(n, 1) \in Comment) /\ \A n : New(n, 1).cid = n /\ New(n, 1).v = 1
  BY DEF New, Comment
<1>13. Len(new) \in Nat /\ DOMAIN new = 1..Len(new) /\ Len(old) \in Nat /\ DOMAIN old = 1..Len(old)
  <2>. HIDE DEF new, old, NewComment
  <2>. QED
    BY <1>1, <1>9
<1>14. a = [i \in 1..Len(old) |-> a[i]] /\ b = [i \in 1..Len(new) |-> b[i]]
  <2>. HIDE DEF new, old
  <2>. QED
    BY <1>13
<1>15. \A i \in DOMAIN new : b[i] = New(new[i].cid, 1)
  OBVIOUS
<1>. HIDE DEF new, old, a, b, I, r, y, NewComment
<1>16. ASSUME NEW i \in DOMAIN new
       PROVE  /\ b[i] \in Comment /\ b[i].cid = new[i].cid /\ b[i].v = 1 /\ Home[b[i].cid] = g
              /\ 1 <= sg[b[i].cid].v /\ b[i].cid \notin Held(x)
  <2>1. PICK n \in I : new[i] = k.comments[n]
    BY <1>9
  <2>. QED
    BY <1>2, <1>6, <1>7, <1>10, <1>12, <1>15, <2>1
<1>17. \A i, j \in DOMAIN new : i # j => b[i].cid # b[j].cid
  BY <1>2, <1>9, <1>10, <1>16 DEF Unique
<1>18. a \in [1..Len(old) -> Comment] /\ b \in [1..Len(new) -> Comment]
  BY <1>8, <1>13, <1>14, <1>16
<1>19. a \in Seq(Comment) /\ DOMAIN a = DOMAIN old /\ b \in Seq(Comment) /\ DOMAIN b = DOMAIN new
  BY <1>13, <1>18, SequenceOf
<1>20. /\ r \in Seq(Comment)
       /\ \A i \in DOMAIN a : i \in DOMAIN r /\ r[i] = a[i]
       /\ \A i \in DOMAIN r : \/ i \in DOMAIN a /\ r[i] = a[i]
                              \/ i - Len(a) \in DOMAIN b /\ r[i] = b[i - Len(a)]
  BY <1>19, Places DEF r
<1>21. Onward(old, r)
  BY <1>8, <1>19, <1>20 DEF Onward
<1>22. \A i \in DOMAIN r : Home[r[i].cid] = g /\ r[i].v <= sg[r[i].cid].v
  <2>1. \A i \in DOMAIN a : Home[a[i].cid] = g /\ a[i].v <= sg[a[i].cid].v
    BY <1>1, <1>8, <1>19
  <2>2. \A i \in DOMAIN b : Home[b[i].cid] = g /\ b[i].v <= sg[b[i].cid].v
    BY <1>16, <1>19
  <2>. QED
    BY <1>20, <2>1, <2>2
<1>23. Unique(r)
  <2>. SUFFICES ASSUME NEW i \in DOMAIN r, NEW j \in DOMAIN r, i # j, r[i].cid = r[j].cid
                PROVE  FALSE
    BY DEF Unique
  <2>1. i \in Int /\ j \in Int /\ Len(a) \in Int
    BY <1>19, <1>20
  <2>2. CASE i \in DOMAIN a /\ r[i] = a[i] /\ j \in DOMAIN a /\ r[j] = a[j]
    BY <1>1, <1>8, <1>19, <2>2 DEF Unique
  <2>3. CASE /\ i - Len(a) \in DOMAIN b /\ r[i] = b[i - Len(a)]
             /\ j - Len(a) \in DOMAIN b /\ r[j] = b[j - Len(a)]
    BY <1>17, <1>19, <2>1, <2>3
  <2>4. \A n \in DOMAIN a, l \in DOMAIN b : a[n].cid # b[l].cid
    BY <1>8, <1>11, <1>16, <1>19
  <2>. QED
    BY <1>20, <2>2, <2>3, <2>4
<1>. QED
  BY <1>1, <1>4, <1>20, <1>21, <1>22, <1>23 DEF GiftOk, old, y

\* A step that files and answers a message and merges copies.
LEMMA Merging ==
  ASSUME IInv, NEW c \in Clients, box[c].inbox # <<>>, NEW b, BoxOk(b, signed), b.sendC = box[c].sendC,
         NEW n, NEW f, Moves(c, b, n, f), gift' = [gift EXCEPT ![c] = gift'[c]], GiftsOk(gift'[c], signed),
         \A g \in Gifts : Onward(gift[c][g].comments, gift'[c][g].comments)
  PROVE  IInv' /\ signed' = signed
<1>1. box' = [box EXCEPT ![c] = b] /\ ping' = ping /\ store' = store /\ signed' = signed
  BY DEF Moves
<1>2. ClientOk(gift[c], box[c], ping[c], signed) /\ SignedOk(signed) /\ \A d \in Clients : ListOk(store[d], signed)
  BY DEF IInv
<1>3. ClientOk(gift'[c], b, ping[c], signed)
  <2>1. PingOk(gift'[c], b, ping[c], signed)
    BY <1>2 DEF ClientOk, PingOk
  <2>2. SendOk(gift'[c], b)
    BY <1>2, OnwardHolds DEF ClientOk, SendOk
  <2>. QED
    BY <2>1, <2>2 DEF ClientOk
<1>4. box'[c] = b /\ box' = [box EXCEPT ![c] = box'[c]]
  BY <1>1 DEF IInv
<1>5. ping' = [ping EXCEPT ![c] = ping'[c]] /\ store' = [d \in Clients |-> store'[d]]
  BY <1>1 DEF IInv
<1>6. Signs
  <2>1. \A k \in Cids : signed[k].v \in 0..3
    BY <1>2 DEF SignedOk
  <2>. QED
    BY <1>1, <1>2, <2>1 DEF Signs
<1>7. /\ \A d \in Clients : ListOk(store'[d], signed')
      /\ ClientOk(gift'[c], box'[c], ping'[c], signed')
  BY <1>1, <1>2, <1>3, <1>4
<1>. QED
  BY <1>1, <1>4, <1>5, <1>6, <1>7, Frame

LEMMA Same ==
  ASSUME NEW gs, NEW sg, GiftsOk(gs, sg), NEW g \in Gifts
  PROVE  /\ Onward(gs[g].comments, gs[g].comments)
         /\ \A i \in DOMAIN gs[g].comments : The(gs[g], gs[g].comments[i].cid) = gs[g].comments[i]
         /\ \A k \in Held(gs[g]) : \E i \in DOMAIN gs[g].comments : gs[g].comments[i].cid = k
<1>. DEFINE s == gs[g].comments
<1>1. s \in Seq(Comment) /\ Unique(s)
  BY DEF GiftsOk, GiftOk
<1>2. \A i \in DOMAIN s : s[i].v \in 0..3
  <2>1. \A i \in DOMAIN s : s[i] \in Comment
    BY <1>1, Elements
  <2>. QED
    BY <2>1 DEF Comment
<1>3. \A k : The(gs[g], k) = CHOOSE o \in Range(s) : o.cid = k
  BY DEF The, Cs
<1>4. \A k \in Held(gs[g]) : \E i \in DOMAIN s : s[i].cid = k
  BY DEF Held, Cs, Range
<1>. HIDE DEF s
<1>5. Onward(s, s)
  BY <1>2 DEF Onward
<1>6. ASSUME NEW i \in DOMAIN s
      PROVE  The(gs[g], s[i].cid) = s[i]
  <2>1. s[i] \in Range(s)
    BY DEF Range
  <2>2. \A o \in Range(s) : o.cid = s[i].cid => o = s[i]
    BY <1>1 DEF Range, Unique
  <2>. QED
    BY <1>3, <2>1, <2>2
<1>. QED
  BY <1>4, <1>5, <1>6 DEF s

LEMMA SendStep ==
  ASSUME IInv, NEW c \in Clients, HandleSend(c)
  PROVE  /\ IInv' /\ signed' = signed /\ gift' = [gift EXCEPT ![c] = gift'[c]]
         /\ \A g \in Gifts : Onward(gift[c][g].comments, gift'[c][g].comments)
<1>. DEFINE m     == Head(box[c].inbox)
            s     == [m.body EXCEPT !.count = IF @ > Patience THEN @ ELSE @ + 1]
            x(k)  == gift[c][k.gid]
            fails == {i \in DOMAIN s.gifts : Reached(s, s.gifts[i], x(s.gifts[i])) = "fails"}
            done  == {s.gifts[i] : i \in {i \in DOMAIN s.gifts : \A j \in fails : i < j}}
            wait  == \E k \in done : Waits(s, k, x(k))
            merge == {k \in done : Reached(s, k, x(k)) = "comments" /\ (x(k).here \/ ~Waits(s, k, x(k)))}
            back  == {k \in merge : Older(x(k), k, s) # {}}
            old(g)   == UNION {Older(x(k), k, s) : k \in {k \in back : k.gid = g}}
            clone(g) == Clone(g, gift'[c][g], old(g))
            gs    == {k.gid : k \in back}
            asked == s.asked \union UNION {Asks(s, k, x(k)) : k \in done}
            waiting == [m EXCEPT !.body = [s EXCEPT !.asked = asked]]
            late  == \E k \in done : Reached(s, k, x(k)) = "late"
            lateComments == \E k \in merge : \E n \in Fresh(x(k), k) : n.cid \notin s.ok
            clones == [i \in 1..Cardinality(gs) |-> clone(Sorted(gs)[i])]
            items == SendItem(clones)
            the(g) == CHOOSE k \in merge : k.gid = g
            to(g) == IF \E k \in merge : k.gid = g THEN Merged(gift[c][g], the(g), s) ELSE gift[c][g]
            ks    == [g \in Gifts |-> old(g)]
<1>1. box[c].inbox # <<>> /\ m.type = "send_gifts"
  BY DEF HandleSend, Handles
<1>2. gift' = [gift EXCEPT ![c] = [g \in Gifts |-> to(g)]]
  BY DEF HandleSend
<1>3. \/ Error(c, Rest(c), m)
      \/ Handled(c, [Rest(c) EXCEPT !.read = Append(@, waiting)], 0)
      \/ Moves(c, Rest(c), Len(items), late \/ lateComments)
      \/ Moves(c, Post(Rest(c), Sync(c, m.mid, items)), Len(items), late \/ lateComments)
  BY DEF HandleSend
<1>4. BoxOk(Rest(c), signed) /\ Rest(c).sendC = box[c].sendC /\ PartOk(m, signed)
  <2>1. BoxOk(Rest(c), signed) /\ Rest(c).sendC = box[c].sendC /\ (PartOk(m, signed) \/ WholeOk(m, signed))
    BY <1>1, RestOk
  <2>. QED
    BY <1>1, <2>1 DEF WholeOk
<1>5. SignedOk(signed) /\ GiftsOk(gift[c], signed) /\ gift = [d \in Clients |-> gift[d]]
  BY DEF IInv, ClientOk
<1>6. /\ m = Message("send_gifts", m.mid, m.req, m.body)
      /\ m.body = [gifts |-> m.body.gifts, asked |-> m.body.asked, ok |-> m.body.ok, count |-> m.body.count]
      /\ CopiesOk(m.body.gifts, signed)
  BY <1>1, <1>4 DEF PartOk, Shaped, BodyOk
<1>7. /\ s.gifts = m.body.gifts
      /\ s = [gifts |-> s.gifts, asked |-> s.asked, ok |-> s.ok, count |-> s.count]
  <2>. HIDE DEF m
  <2>. QED
    BY <1>6
<1>8. \A k \in merge : CopyOk(k, signed) /\ k.gid \in Gifts
  <2>1. \A k \in done : CopyOk(k, signed)
    <3>. HIDE DEF s, m, fails
    <3>. QED
      BY <1>6, <1>7 DEF CopiesOk
  <2>. QED
    BY <2>1 DEF CopyOk
<1>9. PartOk(waiting, signed) /\ waiting.type = "send_gifts"
  <2>. DEFINE body == [s EXCEPT !.asked = asked]
  <2>1. waiting = [m EXCEPT !.body = body]
    OBVIOUS
  <2>. HIDE DEF s, asked, m, waiting
  <2>2. body = [gifts |-> s.gifts, asked |-> asked, ok |-> s.ok, count |-> s.count]
    BY <1>7
  <2>3. BodyOk(body, signed)
    BY <1>6, <1>7, <2>2 DEF BodyOk
  <2>. HIDE DEF body
  <2>4. waiting = Message("send_gifts", m.mid, m.req, body)
    BY <1>6, <2>1 DEF Message
  <2>. QED
    BY <2>3, <2>4, MessageShape DEF PartOk
<1>10. \A g \in Gifts : ks[g] = old(g)
  OBVIOUS
<1>. HIDE DEF m, s, fails, done, wait, merge, waiting, late, lateComments, to
<1>11. gift' = [gift EXCEPT ![c] = gift'[c]] /\ \A g \in Gifts : gift'[c][g] = to(g)
  BY <1>2, <1>5
<1>12. \A g \in Gifts : /\ GiftOk(g, gift'[c][g], signed)
                        /\ Onward(gift[c][g].comments, gift'[c][g].comments)
  <2>. SUFFICES ASSUME NEW g \in Gifts
                PROVE  GiftOk(g, to(g), signed) /\ Onward(gift[c][g].comments, to(g).comments)
    BY <1>11
  <2>1. GiftOk(g, gift[c][g], signed) /\ Onward(gift[c][g].comments, gift[c][g].comments)
    BY <1>5, Same DEF GiftsOk
  <2>2. CASE \E k \in merge : k.gid = g
    <3>1. the(g) \in merge /\ the(g).gid = g
      BY <2>2
    <3>2. to(g) = Merged(gift[c][g], the(g), s)
      BY <2>2 DEF to
    <3>. HIDE DEF the
    <3>. QED
      BY <1>5, <1>8, <2>1, <3>1, <3>2, MergedOk
  <2>3. CASE ~\E k \in merge : k.gid = g
    BY <2>1, <2>3 DEF to
  <2>. QED
    BY <2>2, <2>3
<1>13. GiftsOk(gift'[c], signed)
  BY <1>2, <1>5, <1>12 DEF GiftsOk
<1>14. gs \in SUBSET Gifts
  BY <1>8
<1>15. ASSUME NEW g \in gs, NEW i \in DOMAIN gift'[c][g].comments, gift'[c][g].comments[i].cid \in old(g)
       PROVE  gift'[c][g].comments[i].v > 0
  <2>1. g \in Gifts
    BY <1>14
  <2>2. PICK k \in merge : k.gid = g /\ gift'[c][g].comments[i].cid \in Older(gift[c][g], k, s)
    BY <1>15
  <2>. DEFINE a == gift[c][g].comments
              t == gift'[c][g].comments
              cid == t[i].cid
  <2>3. PICK n \in Range(k.comments) : n.cid = cid /\ cid \in Held(gift[c][g]) /\ The(gift[c][g], cid).v > n.v
    BY <2>2 DEF Older
  <2>4. n.v \in Int /\ n.v > 0
    <3>1. \A j \in DOMAIN k.comments : k.comments[j] \in [cid : Cids, v : 0..3] /\ k.comments[j].v \in 1..signed[k.comments[j].cid].v
      BY <1>8, Elements DEF CopyOk
    <3>. QED
      BY <2>3, <3>1 DEF Range
  <2>5. PICK j \in DOMAIN a : a[j].cid = cid /\ The(gift[c][g], cid) = a[j]
    BY <1>5, <2>1, <2>3, Same
  <2>6. j \in DOMAIN t /\ t[j].cid = cid /\ a[j].v <= t[j].v
    BY <1>12, <2>1, <2>5 DEF Onward
  <2>7. i = j
    BY <1>12, <2>1, <2>6 DEF GiftOk, Unique
  <2>8. a[j] \in Comment /\ t[j] \in Comment
    <3>1. a \in Seq(Comment) /\ t \in Seq(Comment)
      BY <1>5, <1>12, <2>1 DEF GiftsOk, GiftOk
    <3>. HIDE DEF a, t
    <3>. QED
      BY <2>5, <2>6, <3>1, Elements
  <2>9. a[j].v \in 0..3 /\ t[j].v \in 0..3
    BY <2>8 DEF Comment
  <2>. QED
    BY <2>3, <2>4, <2>5, <2>6, <2>7, <2>9
<1>16. clones = [i \in 1..Cardinality(gs) |-> Clone(Sorted(gs)[i], gift'[c][Sorted(gs)[i]], ks[Sorted(gs)[i]])]
  <2>. HIDE DEF gs, ks, old
  <2>1. \A i \in 1..Cardinality(gs) : Sorted(gs)[i] \in Gifts
    BY <1>14, SomeGifts
  <2>. QED
    BY <1>10, <2>1
<1>. HIDE DEF gs, ks, old, clones
<1>17. CopiesOk(clones, signed)
  <2>1. \A g \in gs : \A i \in DOMAIN gift'[c][g].comments : gift'[c][g].comments[i].cid \in ks[g] => gift'[c][g].comments[i].v > 0
    BY <1>10, <1>14, <1>15
  <2>. QED
    BY <1>5, <1>13, <1>14, <1>16, <2>1, ClonesOk
<1>18. WholeOk(Sync(c, m.mid, items), signed)
  BY <1>17, SendItemOk, SyncOk
<1>. HIDE DEF items
<1>19. CASE Error(c, Rest(c), m)
  <2>. DEFINE e == Message("error", mid[c] + 1, m.mid, <<>>)
  <2>1. PartOk(e, signed)
    BY MessageShape DEF PartOk
  <2>. HIDE DEF e
  <2>2. BoxOk(Post(Rest(c), e), signed) /\ Post(Rest(c), e).sendC = box[c].sendC
    BY <1>4, <2>1, PostOk
  <2>3. Moves(c, Post(Rest(c), e), 1, TRUE)
    BY <1>19 DEF Error, e
  <2>. QED
    BY <1>1, <1>11, <1>12, <1>13, <2>2, <2>3, Merging
<1>20. CASE Handled(c, [Rest(c) EXCEPT !.read = Append(@, waiting)], 0)
  <2>. DEFINE rest == Rest(c)
              l    == Append(rest.read, waiting)
              b    == [rest EXCEPT !.read = l]
  <2>1. IsList(rest.read) /\ \A i \in DOMAIN rest.read : rest.read[i].type = "send_gifts"
    BY <1>4 DEF BoxOk, ListOk
  <2>2. ListOk(l, signed) /\ \A i \in DOMAIN l : l[i].type = "send_gifts"
    <3>1. ListOk(l, signed)
      BY <1>4, <1>9, AppendOk DEF BoxOk
    <3>2. \A i \in DOMAIN l : l[i] = waiting \/ \E j \in DOMAIN rest.read : l[i] = rest.read[j]
      BY <2>1, OneMore
    <3>. HIDE DEF l, rest
    <3>3. \A i \in DOMAIN l : l[i].type = "send_gifts"
      BY <1>9, <2>1, <3>2
    <3>. QED
      BY <3>1, <3>3
  <2>3. Moves(c, b, 0, FALSE) /\ b = [rest EXCEPT !.read = l]
    BY <1>20 DEF Handled
  <2>4. BoxOk(rest, signed) /\ rest.sendC = box[c].sendC
    BY <1>4
  <2>. HIDE DEF rest, l, b
  <2>5. BoxOk(b, signed) /\ b.sendC = box[c].sendC
    BY <2>2, <2>3, <2>4 DEF BoxOk
  <2>. QED
    BY <1>1, <1>11, <1>12, <1>13, <2>3, <2>5, Merging
<1>21. CASE Moves(c, Rest(c), Len(items), late \/ lateComments)
  BY <1>1, <1>4, <1>11, <1>12, <1>13, <1>21, Merging
<1>22. CASE Moves(c, Post(Rest(c), Sync(c, m.mid, items)), Len(items), late \/ lateComments)
  <2>. DEFINE w == Sync(c, m.mid, items)
  <2>1. WholeOk(w, signed)
    BY <1>18
  <2>. HIDE DEF w
  <2>2. BoxOk(Post(Rest(c), w), signed) /\ Post(Rest(c), w).sendC = box[c].sendC
    BY <1>4, <2>1, PostOk
  <2>3. Moves(c, Post(Rest(c), w), Len(items), late \/ lateComments)
    BY <1>22 DEF w
  <2>. QED
    BY <1>1, <1>11, <1>12, <1>13, <2>2, <2>3, Merging
<1>. QED
  BY <1>3, <1>11, <1>12, <1>19, <1>20, <1>21, <1>22

LEMMA HandleStep ==
  ASSUME IInv, NEW c \in Clients, Handle(c)
  PROVE  /\ IInv' /\ signed' = signed /\ gift' = [gift EXCEPT ![c] = gift'[c]]
         /\ \A g \in Gifts : Onward(gift[c][g].comments, gift'[c][g].comments)
<1>1. CASE HandleSend(c)
  BY <1>1, SendStep
<1>2. CASE gift' = gift /\ IInv' /\ signed' = signed
  <2>1. GiftsOk(gift[c], signed) /\ gift = [d \in Clients |-> gift[d]]
    BY DEF IInv, ClientOk
  <2>2. \A g \in Gifts : Onward(gift[c][g].comments, gift[c][g].comments)
    BY <2>1, Same
  <2>. QED
    BY <1>2, <2>1, <2>2
<1>3. HandleUsers(c) \/ RefuseUsers(c) => gift' = gift /\ IInv' /\ signed' = signed
  BY UsersStep
<1>4. HandleGifts(c) \/ HandleSync(c) \/ HandleError(c) => gift' = gift /\ IInv' /\ signed' = signed
  BY GiftsStep, SyncStep, ErrorStep
<1>5. HandleRequestGifts(c) \/ HandleRequestComments(c) \/ HandleCheck(c) => gift' = gift /\ IInv' /\ signed' = signed
  BY RequestGiftsStep, RequestCommentsStep, CheckStep
<1>. QED
  BY <1>1, <1>2, <1>3, <1>4, <1>5 DEF Handle

----------------------------------------------------------------------------
\* Users and page loads.

\* Comments of s are in t at the same places, in the same version.
Steady(s, t) == \A i \in DOMAIN s : i \in DOMAIN t /\ t[i].cid = s[i].cid /\ t[i].v = s[i].v

LEMMA SteadyOnward ==
  ASSUME NEW gs, NEW hs, NEW sg, GiftsOk(gs, sg), \A g \in Gifts : Steady(gs[g].comments, hs[g].comments)
  PROVE  /\ \A g \in Gifts : Onward(gs[g].comments, hs[g].comments)
         /\ \A k : Awaits(gs, k, sg) => Awaits(hs, k, sg)
<1>1. ASSUME NEW g \in Gifts
      PROVE  Onward(gs[g].comments, hs[g].comments)
  BY <1>1, Same DEF Steady, Onward
<1>2. ASSUME NEW k, Awaits(gs, k, sg)
      PROVE  Awaits(hs, k, sg)
  <2>1. k \in Cids /\ Home[k] \in Gifts
    BY <1>2, IdsAssumption DEF Awaits
  <2>. DEFINE s == gs[Home[k]].comments
              t == hs[Home[k]].comments
  <2>2. Steady(s, t)
    BY <2>1
  <2>3. \E i \in DOMAIN s : s[i].cid = k /\ sg[k].v > s[i].v
    BY <1>2 DEF Awaits
  <2>4. Awaits(hs, k, sg) <=> \E i \in DOMAIN t : t[i].cid = k /\ sg[k].v > t[i].v
    BY <2>1 DEF Awaits
  <2>. HIDE DEF s, t
  <2>. QED
    BY <2>2, <2>3, <2>4 DEF Steady
<1>. QED
  BY <1>1, <1>2

\* A step of c that changes its gifts only.
LEMMA Editing ==
  ASSUME IInv, NEW c \in Clients, UNCHANGED <<box, ping, store, signed>>, gift' = [gift EXCEPT ![c] = gift'[c]],
         GiftsOk(gift'[c], signed), \A g \in Gifts : Steady(gift[c][g].comments, gift'[c][g].comments)
  PROVE  /\ IInv' /\ \A g \in Gifts : Onward(gift[c][g].comments, gift'[c][g].comments)
<1>1. ClientOk(gift[c], box[c], ping[c], signed) /\ SignedOk(signed) /\ \A d \in Clients : ListOk(store[d], signed)
  BY DEF IInv
<1>2. /\ \A g \in Gifts : Onward(gift[c][g].comments, gift'[c][g].comments)
      /\ \A k : Awaits(gift[c], k, signed) => Awaits(gift'[c], k, signed)
  BY <1>1, SteadyOnward DEF ClientOk
<1>3. ClientOk(gift'[c], box[c], ping[c], signed)
  <2>1. PingOk(gift'[c], box[c], ping[c], signed)
    BY <1>1, <1>2 DEF ClientOk, PingOk
  <2>2. SendOk(gift'[c], box[c])
    BY <1>1, <1>2, OnwardHolds DEF ClientOk, SendOk
  <2>. QED
    BY <1>1, <2>1, <2>2 DEF ClientOk
<1>4. box' = [box EXCEPT ![c] = box'[c]] /\ ping' = [ping EXCEPT ![c] = ping'[c]] /\ store' = [d \in Clients |-> store'[d]]
  BY DEF IInv
<1>5. Signs
  <2>1. \A k \in Cids : signed[k].v \in 0..3
    BY <1>1 DEF SignedOk
  <2>. QED
    BY <1>1, <2>1 DEF Signs
<1>6. /\ \A d \in Clients : ListOk(store'[d], signed')
      /\ ClientOk(gift'[c], box'[c], ping'[c], signed')
  BY <1>1, <1>3
<1>. QED
  BY <1>2, <1>4, <1>5, <1>6, Frame

\* Comments that are changed one by one.
Changed(x, y, F, gone, sg) ==
  /\ y = [x EXCEPT !.comments = F, !.gone = gone] /\ gone \in {"no", "asked", "done"}
  /\ F = [i \in DOMAIN x.comments |-> F[i]]
  /\ \A i \in DOMAIN x.comments : F[i] \in Comment /\ F[i].cid = x.comments[i].cid /\ F[i].v <= sg[F[i].cid].v

LEMMA MapOk ==
  ASSUME NEW g, NEW x, NEW sg, GiftOk(g, x, sg), NEW F, NEW gone, NEW y, Changed(x, y, F, gone, sg)
  PROVE  GiftOk(g, y, sg) /\ y.comments = F /\ y.gone = gone
<1>. DEFINE s == x.comments
<1>1. /\ x = [here |-> x.here, gone |-> x.gone, comments |-> s] /\ x.here \in BOOLEAN
      /\ s \in Seq(Comment) /\ Unique(s)
      /\ \A i \in DOMAIN s : Home[s[i].cid] = g
  BY DEF GiftOk
<1>2. F = [i \in DOMAIN s |-> F[i]]
  BY DEF Changed
<1>3. \A i \in DOMAIN s : F[i] \in Comment /\ F[i].cid = s[i].cid /\ F[i].v <= sg[F[i].cid].v
  BY DEF Changed
<1>. HIDE DEF s
<1>4. F \in Seq(Comment) /\ DOMAIN F = DOMAIN s
  <2>1. DOMAIN s = 1..Len(s) /\ Len(s) \in Nat
    BY <1>1
  <2>2. F \in [1..Len(s) -> Comment]
    BY <1>2, <1>3, <2>1
  <2>. QED
    BY <2>1, <2>2, SequenceOf
<1>5. y = [here |-> x.here, gone |-> gone, comments |-> F] /\ gone \in {"no", "asked", "done"}
  BY <1>1 DEF Changed
<1>6. Unique(F)
  BY <1>1, <1>3, <1>4 DEF Unique
<1>7. \A i \in DOMAIN F : Home[F[i].cid] = g /\ F[i].v <= sg[F[i].cid].v
  BY <1>1, <1>3, <1>4
<1>. QED
  BY <1>1, <1>4, <1>5, <1>6, <1>7 DEF GiftOk

LEMMA EditOne ==
  ASSUME IInv, NEW c \in Clients, NEW h \in Gifts, NEW y, UNCHANGED <<box, ping, store, signed>>,
         gift' = [gift EXCEPT ![c] = [gift[c] EXCEPT ![h] = y]],
         GiftOk(h, y, signed), Steady(gift[c][h].comments, y.comments)
  PROVE  /\ IInv' /\ gift' = [gift EXCEPT ![c] = gift'[c]]
         /\ \A g \in Gifts : Onward(gift[c][g].comments, gift'[c][g].comments)
<1>1. GiftsOk(gift[c], signed) /\ gift = [d \in Clients |-> gift[d]]
  BY DEF IInv, ClientOk
<1>2. gift' = [gift EXCEPT ![c] = gift'[c]] /\ gift'[c] = [gift[c] EXCEPT ![h] = y]
  BY <1>1
<1>3. ASSUME NEW g \in Gifts
      PROVE  GiftOk(g, gift'[c][g], signed) /\ Steady(gift[c][g].comments, gift'[c][g].comments)
  <2>1. CASE g = h
    <3>1. gift'[c][g] = y
      BY <1>1, <1>2, <2>1 DEF GiftsOk
    <3>. QED
      BY <2>1, <3>1
  <2>2. CASE g # h
    <3>1. gift'[c][g] = gift[c][g]
      BY <1>1, <1>2, <2>2 DEF GiftsOk
    <3>. QED
      BY <1>1, <3>1 DEF GiftsOk, Steady
  <2>. QED
    BY <2>1, <2>2
<1>4. GiftsOk(gift'[c], signed)
  BY <1>1, <1>2, <1>3 DEF GiftsOk
<1>. QED
  BY <1>2, <1>3, <1>4, Editing

LEMMA CreateStep ==
  ASSUME IInv, NEW c \in Clients, NEW k \in Cids, Create(c, k)
  PROVE  /\ IInv' /\ signed' = signed /\ gift' = [gift EXCEPT ![c] = gift'[c]]
         /\ \A g \in Gifts : Onward(gift[c][g].comments, gift'[c][g].comments)
<1>. DEFINE h == Home[k]
            x == gift[c][h]
            n == New(k, 0)
            t == Append(x.comments, n)
            y == [x EXCEPT !.comments = t]
<1>1. /\ gift' = [gift EXCEPT ![c] = [gift[c] EXCEPT ![h] = y]] /\ k \notin Held(x)
      /\ UNCHANGED <<box, ping, store, signed>>
  BY DEF Create
<1>2. h \in Gifts
  BY IdsAssumption
<1>3. GiftsOk(gift[c], signed) /\ gift = [d \in Clients |-> gift[d]] /\ SignedOk(signed)
  BY DEF IInv, ClientOk
<1>5. GiftOk(h, x, signed)
  BY <1>2, <1>3 DEF GiftsOk
<1>6. n \in Comment /\ n.cid = k /\ n.v = 0 /\ Home[n.cid] = h /\ 0 <= signed[k].v
  <2>1. signed[k].v \in 0..3
    BY <1>3 DEF SignedOk
  <2>. QED
    BY <2>1 DEF New, Comment
<1>7. \A i \in DOMAIN x.comments : x.comments[i].cid # k
  BY <1>1 DEF Held, Cs, Range
<1>8. GiftOk(h, y, signed) /\ Steady(x.comments, y.comments)
  <2>. DEFINE s == x.comments
  <2>1. x = [here |-> x.here, gone |-> x.gone, comments |-> s] /\ s \in Seq(Comment) /\ Unique(s)
    BY <1>5 DEF GiftOk
  <2>2. \A i \in DOMAIN s : Home[s[i].cid] = h /\ s[i].v <= signed[s[i].cid].v
    BY <1>5 DEF GiftOk
  <2>3. \A i \in DOMAIN s : s[i].cid # k
    BY <1>7
  <2>4. x.here \in BOOLEAN /\ x.gone \in {"no", "asked", "done"}
    BY <1>5 DEF GiftOk
  <2>5. t = Append(s, n)
    OBVIOUS
  <2>. HIDE DEF s, x, h, n, t
  <2>6. t \in Seq(Comment) /\ Len(s) \in Nat /\ DOMAIN s = 1..Len(s) /\ DOMAIN t = 1..(Len(s) + 1)
    BY <1>6, <2>1, <2>5
  <2>7. t[Len(s) + 1] = n /\ \A i \in DOMAIN s : i \in DOMAIN t /\ t[i] = s[i]
    BY <1>6, <2>1, <2>5
  <2>8. \A i \in DOMAIN t : i \in DOMAIN s \/ i = Len(s) + 1
    BY <2>6
  <2>9. Unique(t)
    BY <1>6, <2>1, <2>3, <2>7, <2>8 DEF Unique
  <2>10. \A i \in DOMAIN t : Home[t[i].cid] = h /\ t[i].v <= signed[t[i].cid].v
    BY <1>6, <2>2, <2>7, <2>8
  <2>11. y = [here |-> x.here, gone |-> x.gone, comments |-> t]
    BY <2>1
  <2>12. Steady(s, t)
    BY <2>7 DEF Steady
  <2>13. Steady(s, y.comments)
    BY <2>11, <2>12
  <2>. QED
    BY <2>4, <2>6, <2>9, <2>10, <2>11, <2>13 DEF GiftOk, s
<1>. HIDE DEF y, h
<1>. QED
  BY <1>1, <1>2, <1>8, EditOne

LEMMA ActStep ==
  ASSUME IInv, NEW c \in Clients, NEW k \in Cids, NEW action \in {"decide", "accept"}, Act(c, k, action)
  PROVE  /\ IInv' /\ signed' = signed /\ gift' = [gift EXCEPT ![c] = gift'[c]]
         /\ \A g \in Gifts : Onward(gift[c][g].comments, gift'[c][g].comments)
<1>. DEFINE h == Home[k]
            x == gift[c][h]
            s == x.comments
            F == [i \in DOMAIN s |-> IF s[i].cid = k THEN [s[i] EXCEPT !.act = action] ELSE s[i]]
            y == [x EXCEPT !.comments = F]
<1>1. gift' = [gift EXCEPT ![c] = [gift[c] EXCEPT ![h] = y]] /\ UNCHANGED <<box, ping, store, signed>>
  BY DEF Act
<1>2. h \in Gifts
  BY IdsAssumption
<1>3. GiftOk(h, x, signed)
  BY <1>2 DEF IInv, ClientOk, GiftsOk
<1>4. \A i \in DOMAIN s : s[i] \in Comment /\ s[i].v <= signed[s[i].cid].v
  <2>1. s \in Seq(Comment)
    BY <1>3 DEF GiftOk
  <2>2. \A i \in DOMAIN s : s[i] \in Comment
    BY <2>1, Elements
  <2>. QED
    BY <1>3, <2>2 DEF GiftOk
<1>5. \A i \in DOMAIN s : /\ F[i] \in Comment /\ F[i].cid = s[i].cid /\ F[i].v = s[i].v
                          /\ F[i].v <= signed[F[i].cid].v
  <2>1. \A i \in DOMAIN s : s[i].cid = k => s[i].v \in 1..2
    <3>1. k \in Held(x) /\ The(x, k).v \in 1..2
      BY DEF Act
    <3>2. PICK j \in DOMAIN s : s[j] = The(x, k) /\ s[j].cid = k
      BY <3>1 DEF Held, The, Cs, Range
    <3>3. \A i \in DOMAIN s : s[i].cid = k => i = j
      BY <1>3, <3>2 DEF GiftOk, Unique
    <3>. QED
      BY <3>1, <3>2, <3>3
  <2>. HIDE DEF s
  <2>2. ASSUME NEW i \in DOMAIN s
        PROVE  F[i] = s[i] \/ (s[i].cid = k /\ F[i] = [s[i] EXCEPT !.act = action])
    OBVIOUS
  <2>3. ASSUME NEW o \in Comment, o.v \in 1..2
        PROVE  /\ [o EXCEPT !.act = action] \in Comment
               /\ [o EXCEPT !.act = action].cid = o.cid /\ [o EXCEPT !.act = action].v = o.v
    BY <2>3 DEF Comment
  <2>. QED
    BY <1>4, <2>1, <2>2, <2>3
<1>6. F = [i \in DOMAIN s |-> F[i]]
  OBVIOUS
<1>7. y = [x EXCEPT !.comments = F, !.gone = x.gone] /\ x.gone \in {"no", "asked", "done"}
  <2>1. x = [here |-> x.here, gone |-> x.gone, comments |-> s] /\ x.gone \in {"no", "asked", "done"}
    BY <1>3 DEF GiftOk
  <2>. HIDE DEF x, s, F
  <2>. QED
    BY <2>1
<1>. HIDE DEF F, y, x, h
<1>10. Changed(x, y, F, x.gone, signed)
  BY <1>5, <1>6, <1>7 DEF Changed
<1>8. GiftOk(h, y, signed) /\ y.comments = F
  BY <1>3, <1>10, MapOk
<1>9. Steady(x.comments, y.comments)
  BY <1>5, <1>6, <1>8 DEF Steady
<1>. QED
  BY <1>1, <1>2, <1>8, <1>9, EditOne DEF x

LEMMA DeleteStep ==
  ASSUME IInv, NEW c \in Clients, NEW g \in Gifts, Delete(c, g)
  PROVE  /\ IInv' /\ signed' = signed /\ gift' = [gift EXCEPT ![c] = gift'[c]]
         /\ \A n \in Gifts : Onward(gift[c][n].comments, gift'[c][n].comments)
<1>. DEFINE x == gift[c][g]
            y == [x EXCEPT !.gone = "asked"]
<1>1. gift' = [gift EXCEPT ![c] = [gift[c] EXCEPT ![g] = y]] /\ UNCHANGED <<box, ping, store, signed>>
  BY DEF Delete
<1>2. GiftOk(g, x, signed)
  BY DEF IInv, ClientOk, GiftsOk
<1>3. y = [here |-> x.here, gone |-> "asked", comments |-> x.comments]
  <2>1. x = [here |-> x.here, gone |-> x.gone, comments |-> x.comments]
    BY <1>2 DEF GiftOk
  <2>. HIDE DEF x
  <2>. QED
    BY <2>1
<1>. HIDE DEF x, y
<1>4. GiftOk(g, y, signed) /\ Steady(x.comments, y.comments)
  BY <1>2, <1>3 DEF GiftOk, Steady
<1>. QED
  BY <1>1, <1>4, EditOne DEF x

LEMMA NewPageOk ==
  ASSUME NEW sg, NEW gs
  PROVE  BoxOk(EmptyBox, sg) /\ SendOk(gs, EmptyBox) /\ \A b : PingOk(gs, b, NoPing, sg)
  BY ShortOk, ShortLists DEF BoxOk, SendOk, PingOk, EmptyBox, NoPing

LEMMA ReloadStep ==
  ASSUME IInv, NEW c \in Clients, Reload(c)
  PROVE  /\ IInv' /\ signed' = signed /\ gift' = [gift EXCEPT ![c] = gift'[c]]
         /\ \A g \in Gifts : Onward(gift[c][g].comments, gift'[c][g].comments)
<1>. DEFINE gone(g) == IF gift[c][g].gone = "no" THEN "no" ELSE "asked"
            F(g) == [i \in DOMAIN gift[c][g].comments |-> Loaded(gift[c][g].comments[i])]
            to(g) == [gift[c][g] EXCEPT !.comments = F(g), !.gone = gone(g)]
<1>1. /\ box' = [box EXCEPT ![c] = EmptyBox] /\ ping' = [ping EXCEPT ![c] = NoPing]
      /\ store' = store /\ signed' = signed
  BY DEF Reload
<1>10. gift' = [gift EXCEPT ![c] = [g \in Gifts |-> to(g)]]
  <2>1. gift' = [gift EXCEPT ![c] = [g \in Gifts |-> Reloaded(gift[c][g])]]
    BY DEF Reload
  <2>2. ASSUME NEW g \in Gifts
        PROVE  Reloaded(gift[c][g]) = to(g)
    <3>. DEFINE x == gift[c][g]
    <3>1. x = [here |-> x.here, gone |-> x.gone, comments |-> x.comments]
      BY DEF IInv, ClientOk, GiftsOk, GiftOk
    <3>. QED
      BY <3>1 DEF Reloaded
  <2>. HIDE DEF to
  <2>. QED
    BY <2>1, <2>2
<1>2. ClientOk(gift[c], box[c], ping[c], signed) /\ SignedOk(signed) /\ \A d \in Clients : ListOk(store[d], signed)
  BY DEF IInv
<1>3. /\ gift = [d \in Clients |-> gift[d]] /\ box = [d \in Clients |-> box[d]]
      /\ ping = [d \in Clients |-> ping[d]] /\ store = [d \in Clients |-> store[d]]
  BY DEF IInv
<1>. HIDE DEF to
<1>4. /\ gift'[c] = [g \in Gifts |-> to(g)] /\ gift' = [gift EXCEPT ![c] = gift'[c]]
      /\ box'[c] = EmptyBox /\ box' = [box EXCEPT ![c] = box'[c]]
      /\ ping'[c] = NoPing /\ ping' = [ping EXCEPT ![c] = ping'[c]]
      /\ store' = [d \in Clients |-> store'[d]]
  BY <1>1, <1>3, <1>10
<1>5. ASSUME NEW g \in Gifts
      PROVE  GiftOk(g, to(g), signed) /\ Steady(gift[c][g].comments, to(g).comments)
  <2>. DEFINE x == gift[c][g]
              s == x.comments
              G == [i \in DOMAIN s |-> Loaded(s[i])]
              n == gone(g)
  <2>1. GiftOk(g, x, signed)
    BY <1>2 DEF ClientOk, GiftsOk
  <2>2. \A i \in DOMAIN s : s[i] \in Comment /\ s[i].v <= signed[s[i].cid].v
    <3>1. s \in Seq(Comment)
      BY <2>1 DEF GiftOk
    <3>2. \A i \in DOMAIN s : s[i] \in Comment
      BY <3>1, Elements
    <3>. QED
      BY <2>1, <3>2 DEF GiftOk
  <2>3. \A i \in DOMAIN s : /\ G[i] \in Comment /\ G[i].cid = s[i].cid /\ G[i].v = s[i].v
                            /\ G[i].v <= signed[G[i].cid].v
    <3>. HIDE DEF s
    <3>. QED
      BY <2>2 DEF Loaded, Comment
  <2>4. G = [i \in DOMAIN s |-> G[i]] /\ n \in {"no", "asked", "done"}
    OBVIOUS
  <2>5. to(g) = [x EXCEPT !.comments = G, !.gone = n]
    BY DEF to
  <2>. DEFINE y == to(g)
  <2>6. y = [x EXCEPT !.comments = G, !.gone = n]
    BY <2>5
  <2>. HIDE DEF G, n, x, y
  <2>9. Changed(x, y, G, n, signed)
    BY <2>3, <2>4, <2>6 DEF Changed
  <2>7. GiftOk(g, y, signed) /\ y.comments = G
    BY <2>1, <2>9, MapOk
  <2>8. Steady(x.comments, y.comments)
    BY <2>3, <2>4, <2>7 DEF Steady
  <2>. QED
    BY <2>7, <2>8 DEF x, y
<1>6. /\ GiftsOk(gift'[c], signed)
      /\ \A g \in Gifts : Steady(gift[c][g].comments, gift'[c][g].comments)
  BY <1>4, <1>5 DEF GiftsOk
<1>7. \A g \in Gifts : Onward(gift[c][g].comments, gift'[c][g].comments)
  BY <1>2, <1>6, SteadyOnward DEF ClientOk
<1>8. ClientOk(gift'[c], box'[c], ping'[c], signed)
  BY <1>4, <1>6, NewPageOk DEF ClientOk
<1>9. Signs
  <2>1. \A k \in Cids : signed[k].v \in 0..3
    BY <1>2 DEF SignedOk
  <2>. QED
    BY <1>1, <1>2, <2>1 DEF Signs
<1>. QED
  BY <1>1, <1>2, <1>4, <1>7, <1>8, <1>9, Frame

----------------------------------------------------------------------------
\* Pings.

\* A step of c that leaves the gifts and the server alone.
LEMMA Mailing ==
  ASSUME IInv, NEW c \in Clients, gift' = gift, signed' = signed, store' = store, NEW b, NEW p,
         box' = [box EXCEPT ![c] = b], ping' = [ping EXCEPT ![c] = p],
         BoxOk(b, signed), b.sendC \subseteq box[c].sendC, PingOk(gift[c], b, p, signed)
  PROVE  IInv'
<1>1. ClientOk(gift[c], box[c], ping[c], signed) /\ SignedOk(signed) /\ \A d \in Clients : ListOk(store[d], signed)
  BY DEF IInv
<1>2. box'[c] = b /\ ping'[c] = p /\ box' = [box EXCEPT ![c] = box'[c]] /\ ping' = [ping EXCEPT ![c] = ping'[c]]
  BY DEF IInv
<1>3. gift' = [gift EXCEPT ![c] = gift'[c]] /\ store' = [d \in Clients |-> store'[d]]
  BY DEF IInv
<1>4. Signs
  <2>1. \A k \in Cids : signed[k].v \in 0..3
    BY <1>1 DEF SignedOk
  <2>. QED
    BY <1>1, <2>1 DEF Signs
<1>5. ClientOk(gift'[c], box'[c], ping'[c], signed')
  BY <1>1, <1>2 DEF ClientOk, SendOk
<1>. QED
  BY <1>1, <1>2, <1>3, <1>4, <1>5, Frame

LEMMA RelabelOk ==
  ASSUME NEW s, NEW sg, ListOk(s, sg), NEW F, F = [i \in DOMAIN s |-> F[i]],
         \A i \in DOMAIN s : F[i] = s[i] \/ (s[i].type = "users_sha256" /\ \E b : F[i] = [s[i] EXCEPT !.body = b])
  PROVE  ListOk(F, sg)
<1>1. DOMAIN s = 1..Len(s) /\ Len(s) \in Nat
  BY DEF ListOk, IsList
<1>2. IsList(F) /\ DOMAIN F = DOMAIN s
  BY <1>1, Listed
<1>3. ASSUME NEW i \in DOMAIN s, s[i].type = "users_sha256", NEW b, F[i] = [s[i] EXCEPT !.body = b]
      PROVE  PartOk(F[i], sg)
  <2>1. Shaped(s[i])
    BY DEF ListOk, PartOk, WholeOk
  <2>2. F[i] = Message("users_sha256", s[i].mid, s[i].req, b)
    BY <1>3, <2>1 DEF Shaped, Message
  <2>. QED
    BY <2>2, MessageShape DEF PartOk
<1>4. \A i \in DOMAIN s : PartOk(F[i], sg) \/ WholeOk(F[i], sg)
  BY <1>3 DEF ListOk
<1>. QED
  BY <1>2, <1>4 DEF ListOk

LEMMA PushedOk ==
  ASSUME IInv, NEW c \in Clients
  PROVE  ItemsOk(Pushed(c), signed)
<1>. DEFINE x(g)   == gift[c][g]
            gs     == {g \in Here(c) : g \in box[c].sendG \/ Held(x(g)) \intersect box[c].sendC # {}}
            clones == [i \in 1..Cardinality(gs) |-> Clone(Sorted(gs)[i], x(Sorted(gs)[i]), box[c].sendC)]
            cids   == box[c].askC \intersect UNION {Held(x(g)) : g \in Here(c)}
            asks   == IF cids = {} THEN <<>> ELSE Item("request_comments", cids)
            ks     == [g \in Gifts |-> box[c].sendC]
<1>1. Pushed(c) = SendItem(clones) \o asks
  BY DEF Pushed
<1>2. gs \in SUBSET Gifts
  BY DEF Here
<1>3. SignedOk(signed) /\ GiftsOk(gift[c], signed) /\ SendOk(gift[c], box[c])
  BY DEF IInv, ClientOk
<1>. HIDE DEF gs, cids
<1>4. clones = [i \in 1..Cardinality(gs) |-> Clone(Sorted(gs)[i], gift[c][Sorted(gs)[i]], ks[Sorted(gs)[i]])]
  <2>1. \A i \in 1..Cardinality(gs) : Sorted(gs)[i] \in Gifts
    BY <1>2, SomeGifts
  <2>. QED
    BY <2>1
<1>5. ASSUME NEW g \in Gifts, NEW i \in DOMAIN gift[c][g].comments, gift[c][g].comments[i].cid \in box[c].sendC
      PROVE  gift[c][g].comments[i].v > 0
  <2>. DEFINE s == gift[c][g].comments
  <2>1. GiftOk(g, gift[c][g], signed)
    BY <1>3 DEF GiftsOk
  <2>2. Holds(gift[c], s[i].cid, 1) /\ Home[s[i].cid] = g
    BY <1>3, <1>5, <2>1 DEF SendOk, GiftOk
  <2>3. PICK j \in DOMAIN s : s[j].cid = s[i].cid /\ s[j].v >= 1
    BY <2>2 DEF Holds
  <2>4. i = j
    BY <2>1, <2>3 DEF GiftOk, Unique
  <2>5. s[i].v \in 0..3
    <3>1. s \in Seq(Comment)
      BY <2>1 DEF GiftOk
    <3>2. s[i] \in Comment
      BY <3>1, Elements
    <3>. QED
      BY <3>2 DEF Comment
  <2>. QED
    BY <2>3, <2>4, <2>5
<1>6. \A g \in gs : \A i \in DOMAIN gift[c][g].comments : gift[c][g].comments[i].cid \in ks[g] => gift[c][g].comments[i].v > 0
  BY <1>2, <1>5
<1>. HIDE DEF clones, ks
<1>7. CopiesOk(clones, signed)
  BY <1>2, <1>3, <1>4, <1>6, ClonesOk
<1>8. ItemsOk(SendItem(clones), signed)
  BY <1>7, SendItemOk
<1>9. ItemsOk(asks, signed)
  <2>1. "request_comments" \notin {"sync_gifts", "send_gifts"}
    OBVIOUS
  <2>. QED
    BY <2>1, ItemOk
<1>. QED
  BY <1>1, <1>8, <1>9, ItemsConcat

LEMMA OutOk ==
  ASSUME IInv, NEW c \in Clients
  PROVE  ListOk(Out(c), signed) /\ ListOk(Wire(c), signed) /\ ListOk(Sending(c), signed)
<1>. DEFINE push == IF Pushed(c) = <<>> THEN <<>> ELSE <<Sync(c, 0, Pushed(c))>>
            L == box[c].outbox \o push
            I == {i \in DOMAIN L : L[i].type # "users_sha256" \/ ~L[i].body}
<1>1. ListOk(push, signed)
  <2>1. WholeOk(Sync(c, 0, Pushed(c)), signed)
    BY PushedOk, SyncOk
  <2>. QED
    BY <2>1, ShortOk
<1>2. ListOk(box[c].outbox, signed)
  BY DEF IInv, ClientOk, BoxOk
<1>. HIDE DEF push
<1>3. ListOk(L, signed)
  BY <1>1, <1>2, ConcatOk
<1>4. Out(c) = IF contact[c] < 2 THEN <<>> ELSE At(L, I)
  <2>1. Out(c) = IF contact[c] < 2 THEN <<>> ELSE Picked(L, LAMBDA m : m.type # "users_sha256" \/ ~m.body)
    BY DEF Out, push
  <2>. HIDE DEF L
  <2>2. Picked(L, LAMBDA m : m.type # "users_sha256" \/ ~m.body) = At(L, I)
    BY DEF Picked, With
  <2>. QED
    BY <2>1, <2>2
<1>5. I \in SUBSET DOMAIN L
  OBVIOUS
<1>. HIDE DEF L, I
<1>6. ListOk(Out(c), signed)
  BY <1>3, <1>4, <1>5, PickedOk, ShortOk
<1>. DEFINE s == Out(c)
<1>7. ListOk(Wire(c), signed)
  <2>. DEFINE F == Wire(c)
  <2>1. F = [i \in DOMAIN s |-> IF s[i].type = "users_sha256" THEN [s[i] EXCEPT !.body = Sums(c)] ELSE s[i]]
    BY DEF Wire
  <2>. HIDE DEF s, F
  <2>2. /\ F = [i \in DOMAIN s |-> F[i]]
        /\ \A i \in DOMAIN s : F[i] = s[i] \/ (s[i].type = "users_sha256" /\ \E b : F[i] = [s[i] EXCEPT !.body = b])
    BY <2>1
  <2>3. ListOk(s, signed)
    BY <1>6 DEF s
  <2>4. ListOk(F, signed)
    BY <2>2, <2>3, RelabelOk
  <2>. QED
    BY <2>4 DEF F
<1>8. ListOk(Sending(c), signed)
  <2>. DEFINE F == Sending(c)
  <2>1. F = [i \in DOMAIN s |-> IF s[i].type = "users_sha256" THEN [s[i] EXCEPT !.body = TRUE] ELSE s[i]]
    BY DEF Sending
  <2>. HIDE DEF s, F
  <2>2. /\ F = [i \in DOMAIN s |-> F[i]]
        /\ \A i \in DOMAIN s : F[i] = s[i] \/ (s[i].type = "users_sha256" /\ \E b : F[i] = [s[i] EXCEPT !.body = b])
    BY <2>1
  <2>3. ListOk(s, signed)
    BY <1>6 DEF s
  <2>4. ListOk(F, signed)
    BY <2>2, <2>3, RelabelOk
  <2>. QED
    BY <2>4 DEF F
<1>. QED
  BY <1>6, <1>7, <1>8

LEMMA BuiltOk ==
  ASSUME IInv, NEW c \in Clients
  PROVE  /\ BoxOk(Built(c), signed) /\ Built(c).inbox = box[c].inbox
         /\ Built(c).sendC \subseteq box[c].sendC /\ Built(c).read = box[c].read
<1>1. BoxOk(box[c], signed)
  BY DEF IInv, ClientOk
<1>2. ListOk(Sending(c), signed) /\ ListOk(<<>>, signed)
  BY OutOk, ShortOk
<1>. QED
  BY <1>1, <1>2 DEF Built, BoxOk

LEMMA AgainOk ==
  ASSUME NEW b, NEW sg, BoxOk(b, sg)
  PROVE  BoxOk(Again(b), sg) /\ Again(b).sendC = b.sendC /\ Again(b).inbox = b.inbox
<1>. DEFINE s == b.outbox \o b.sending
<1>1. ListOk(s, sg) /\ ListOk(<<>>, sg)
  BY ConcatOk, ShortOk DEF BoxOk
<1>2. Again(b) = [b EXCEPT !.outbox = s, !.sending = <<>>]
  BY DEF Again
<1>. HIDE DEF s
<1>. QED
  BY <1>1, <1>2 DEF BoxOk

LEMMA SentOk ==
  ASSUME NEW b, NEW sg, BoxOk(b, sg)
  PROVE  /\ BoxOk(Sent(b), sg) /\ Sent(b).sendC = b.sendC /\ Sent(b).inbox = b.inbox
         /\ Sent(b).read = b.read /\ Sent(b).outbox = b.outbox
<1>1. ListOk(<<>>, sg)
  BY ShortOk
<1>2. PICK s : Sent(b) = [b EXCEPT !.sent = s, !.sending = <<>>]
  BY DEF Sent
<1>. QED
  BY <1>1, <1>2 DEF BoxOk

LEMMA FailSteps ==
  ASSUME IInv, NEW c \in Clients, Lost(c) \/ Fail(c) \/ Early(c)
  PROVE  IInv' /\ UNCHANGED <<gift, signed>>
<1>1. BoxOk(box[c], signed) /\ PingOk(gift[c], box[c], ping[c], signed) /\ ping = [d \in Clients |-> ping[d]]
  BY DEF IInv, ClientOk
<1>2. CASE Lost(c)
  <2>1. BoxOk(Again(Built(c)), signed) /\ Again(Built(c)).sendC \subseteq box[c].sendC
    BY BuiltOk, AgainOk
  <2>2. PingOk(gift[c], Again(Built(c)), ping[c], signed)
    BY <1>1, <1>2 DEF Lost, PingOk
  <2>3. /\ box' = [box EXCEPT ![c] = Again(Built(c))] /\ ping' = [ping EXCEPT ![c] = ping[c]]
        /\ gift' = gift /\ signed' = signed /\ store' = store
    BY <1>1, <1>2 DEF Lost
  <2>. QED
    BY <2>1, <2>2, <2>3, Mailing
<1>3. CASE Fail(c)
  <2>1. BoxOk(Again(box[c]), signed) /\ Again(box[c]).sendC \subseteq box[c].sendC
    BY <1>1, AgainOk
  <2>2. PingOk(gift[c], Again(box[c]), NoPing, signed)
    BY NewPageOk
  <2>3. /\ box' = [box EXCEPT ![c] = Again(box[c])] /\ ping' = [ping EXCEPT ![c] = NoPing]
        /\ gift' = gift /\ signed' = signed /\ store' = store
    BY <1>3 DEF Fail
  <2>. QED
    BY <2>1, <2>2, <2>3, Mailing
<1>4. CASE Early(c)
  <2>. DEFINE b == Sent(Built(c))
              s == b.inbox \o box[c].read
              d == [b EXCEPT !.inbox = s, !.read = <<>>]
  <2>1. BoxOk(b, signed) /\ b.sendC \subseteq box[c].sendC
    BY BuiltOk, SentOk
  <2>2. ListOk(s, signed) /\ ListOk(<<>>, signed)
    BY <1>1, <2>1, ConcatOk, ShortOk DEF BoxOk
  <2>3. /\ box' = [box EXCEPT ![c] = d] /\ ping' = [ping EXCEPT ![c] = ping[c]]
        /\ gift' = gift /\ signed' = signed /\ store' = store
    BY <1>1, <1>4 DEF Early
  <2>4. d = [b EXCEPT !.inbox = s, !.read = <<>>]
    OBVIOUS
  <2>. HIDE DEF b, s, d
  <2>5. BoxOk(d, signed) /\ d.sendC \subseteq box[c].sendC
    BY <2>1, <2>2, <2>4, ShortLists DEF BoxOk
  <2>6. PingOk(gift[c], d, ping[c], signed)
    BY <1>1, <1>4 DEF Early, PingOk
  <2>. QED
    BY <2>3, <2>5, <2>6, Mailing
<1>. QED
  BY <1>2, <1>3, <1>4 DEF Lost, Fail, Early

\* A comment that a client has an action for, and its place.
LEMMA OwnPlace ==
  ASSUME IInv, NEW c \in Clients, NEW o \in Own(c)
  PROVE  /\ o.cid \in Cids /\ Home[o.cid] \in Gifts /\ o.v \in 0..2 /\ o.v <= signed[o.cid].v
         /\ \E i \in DOMAIN gift[c][Home[o.cid]].comments : gift[c][Home[o.cid]].comments[i] = o
<1>1. PICK g \in Gifts : o \in Cs(gift[c][g])
  BY DEF Own
<1>. DEFINE s == gift[c][g].comments
<1>2. GiftOk(g, gift[c][g], signed)
  BY DEF IInv, ClientOk, GiftsOk
<1>3. PICK i \in DOMAIN s : s[i] = o
  BY <1>1 DEF Cs, Range
<1>4. o \in Comment
  <2>1. s \in Seq(Comment)
    BY <1>2 DEF GiftOk
  <2>. HIDE DEF s
  <2>. QED
    BY <1>3, <2>1, Elements
<1>5. Home[o.cid] = g /\ o.v <= signed[o.cid].v
  BY <1>2, <1>3 DEF GiftOk
<1>6. o.v = 0 \/ o.act # "no"
  BY DEF Own
<1>7. o.cid \in Cids /\ o.v \in 0..2
  BY <1>4, <1>6 DEF Comment
<1>. QED
  BY <1>3, <1>5, <1>7

LEMMA SignedStep ==
  ASSUME IInv, NEW c \in Clients
  PROVE  /\ SignedOk(Signed(c)) /\ \A k \in Cids : signed[k].v <= Signed(c)[k].v
         /\ \A o \in Own(c) : Awaits(gift[c], o.cid, Signed(c))
<1>1. \A k \in Cids : signed[k] \in [v : 0..3, by : Clients \union {None}]
  BY DEF IInv, SignedOk
<1>2. ASSUME NEW k \in Cids
      PROVE  /\ Signed(c)[k] \in [v : 0..3, by : Clients \union {None}] /\ signed[k].v <= Signed(c)[k].v
             /\ \A o \in Own(c) : o.cid = k => Signed(c)[k].v > o.v
  <2>1. signed[k].v \in 0..3
    BY <1>1
  <2>2. \A o \in Own(c) : o.cid = k => o.v \in 0..2 /\ o.v <= signed[k].v
    BY OwnPlace
  <2>3. CASE \E o \in Own(c) : o.cid = k /\ signed[k].v = o.v
    <3>1. Signed(c)[k] = [v |-> signed[k].v + 1, by |-> c] /\ signed[k].v \in 0..2
      BY <2>3, OwnPlace DEF Signed
    <3>. QED
      BY <2>1, <2>2, <3>1
  <2>4. CASE ~\E o \in Own(c) : o.cid = k /\ signed[k].v = o.v
    <3>1. Signed(c)[k] = signed[k]
      BY <2>4 DEF Signed
    <3>. QED
      BY <1>1, <2>1, <2>2, <2>4, <3>1
  <2>. QED
    BY <2>3, <2>4
<1>3. Signed(c) = [k \in Cids |-> Signed(c)[k]]
  BY DEF Signed
<1>4. SignedOk(Signed(c))
  BY <1>2, <1>3 DEF SignedOk
<1>5. \A o \in Own(c) : Awaits(gift[c], o.cid, Signed(c))
  BY <1>2, OwnPlace DEF Awaits
<1>. QED
  BY <1>2, <1>4, <1>5

\* What is signed before an exception.
LEMMA StoredStep ==
  ASSUME IInv, NEW c \in Clients, NEW ks
  PROVE  SignedOk(Stored(c, ks)) /\ \A k \in Cids : signed[k].v <= Stored(c, ks)[k].v
<1>. DEFINE sg == Stored(c, ks)
            more == Signed(c)
<1>1. SignedOk(signed) /\ SignedOk(more) /\ \A k \in Cids : signed[k].v <= more[k].v
  BY SignedStep DEF IInv
<1>2. sg = [k \in Cids |-> IF k \in ks THEN more[k] ELSE signed[k]]
  BY DEF Stored
<1>. HIDE DEF sg, more
<1>3. \A k \in Cids : (sg[k] = more[k] \/ sg[k] = signed[k]) /\ signed[k].v \in 0..3
  BY <1>1, <1>2 DEF SignedOk
<1>4. SignedOk(sg)
  BY <1>1, <1>2 DEF SignedOk
<1>5. \A k \in Cids : signed[k].v <= sg[k].v
  BY <1>1, <1>3
<1>. QED
  BY <1>4, <1>5 DEF sg

\* A ping p leaves c, and the server signs what is in it.
LEMMA PingLeaves ==
  ASSUME IInv, NEW c \in Clients, Signs, gift' = gift, box' = [box EXCEPT ![c] = Built(c)],
         BoxOk(Built(c), signed), Built(c).sendC \subseteq box[c].sendC,
         NEW p, ping' = [ping EXCEPT ![c] = p], PingOk(gift[c], Built(c), p, signed'),
         store' = [d \in Clients |-> store'[d]], \A d \in Clients : ListOk(store'[d], signed')
  PROVE  IInv'
<1>1. /\ ClientOk(gift[c], box[c], ping[c], signed) /\ SignedOk(signed)
      /\ gift = [d \in Clients |-> gift[d]] /\ box = [d \in Clients |-> box[d]]
      /\ ping = [d \in Clients |-> ping[d]]
  BY DEF IInv
<1>2. ClientOk(gift[c], box[c], ping[c], signed')
  BY <1>1, ClientStill DEF Signs
<1>3. BoxOk(Built(c), signed')
  <2>1. \A s : ListOk(s, signed) => ListOk(s, signed')
    BY <1>1, StillOk DEF Signs
  <2>. QED
    BY <2>1 DEF BoxOk
<1>4. /\ box'[c] = Built(c) /\ box' = [box EXCEPT ![c] = box'[c]]
      /\ ping'[c] = p /\ ping' = [ping EXCEPT ![c] = ping'[c]]
      /\ gift'[c] = gift[c] /\ gift' = [gift EXCEPT ![c] = gift'[c]]
  BY <1>1
<1>5. ClientOk(gift'[c], box'[c], ping'[c], signed')
  BY <1>2, <1>3, <1>4 DEF ClientOk, SendOk
<1>. QED
  BY <1>4, <1>5, Frame

LEMMA PingStep ==
  ASSUME IInv, NEW c \in Clients, Ping(c)
  PROVE  IInv' /\ gift' = gift /\ Signs
<1>1. /\ gift' = gift /\ box' = [box EXCEPT ![c] = Built(c)] /\ box[c].inbox = <<>>
  BY DEF Ping, Calm
<1>2. /\ SignedOk(signed) /\ (\A d \in Clients : ListOk(store[d], signed)) /\ store = [d \in Clients |-> store[d]]
  BY DEF IInv
<1>3. /\ BoxOk(Built(c), signed) /\ Built(c).inbox = <<>> /\ Built(c).sendC \subseteq box[c].sendC
  BY <1>1, BuiltOk
<1>4. CASE Raises(c)
  <2>. DEFINE gone == Gone(c)
              p == [NoPing EXCEPT !.stage = "failed", !.gone = gone]
  <2>1. ping' = [ping EXCEPT ![c] = p] /\ store' = store /\ \E ks \in SUBSET Cids : signed' = Stored(c, ks)
    BY <1>4 DEF Ping
  <2>2. Signs
    BY <2>1, StoredStep DEF Signs
  <2>. HIDE DEF gone
  <2>. DEFINE none == NoPing
  <2>3. none = [stage |-> "idle", mail |-> <<>>, own |-> {}, gone |-> {}]
    BY DEF NoPing
  <2>9. p = [none EXCEPT !.stage = "failed", !.gone = gone]
    OBVIOUS
  <2>. HIDE DEF p, none
  <2>8. p = [stage |-> "failed", mail |-> <<>>, own |-> {}, gone |-> gone]
    BY <2>3, <2>9
  <2>4. PingOk(gift[c], Built(c), p, signed')
    <3>1. ListOk(<<>>, signed')
      BY ShortOk
    <3>. QED
      BY <1>3, <2>8, <3>1 DEF PingOk
  <2>5. store' = [d \in Clients |-> store'[d]] /\ \A d \in Clients : ListOk(store'[d], signed')
    <3>1. \A s : ListOk(s, signed) => ListOk(s, signed')
      BY <1>2, <2>2, StillOk DEF Signs
    <3>. QED
      BY <1>2, <2>1, <3>1
  <2>. QED
    BY <1>1, <1>3, <2>1, <2>2, <2>4, <2>5, PingLeaves
<1>5. CASE ~Raises(c)
  <2>. DEFINE own == {[cid |-> o.cid, ok |-> Signed(c)[o.cid].by = c] : o \in Own(c)}
              p == [stage |-> "sent", mail |-> store[c], own |-> own, gone |-> Gone(c)]
              w == Wire(c)
  <2>1. /\ ping' = [ping EXCEPT ![c] = p] /\ signed' = Signed(c)
        /\ store' = [store EXCEPT ![c] = <<>>, ![Peer(c)] = @ \o w]
    BY <1>5 DEF Ping
  <2>2. Signs
    BY <2>1, SignedStep DEF Signs
  <2>3. ListOk(w, signed')
    BY <1>2, <2>2, OutOk, StillOk DEF Signs
  <2>4. \A d \in Clients : ListOk(store[d], signed')
    BY <1>2, <2>2, StillOk DEF Signs
  <2>5. \A a \in own : Awaits(gift[c], a.cid, signed')
    BY <2>1, SignedStep
  <2>6. PingOk(gift[c], Built(c), p, signed')
    <3>. HIDE DEF own
    <3>. QED
      BY <1>3, <2>4, <2>5 DEF PingOk
  <2>. HIDE DEF w, p
  <2>7. \A d \in Clients : \/ store'[d] = <<>> \/ store'[d] = store[d]
                           \/ store'[d] = store[d] \o w \/ store'[d] = <<>> \o w
    BY <1>2, <2>1
  <2>8. \A d \in Clients : ListOk(store'[d], signed')
    <3>1. ListOk(<<>>, signed') /\ ListOk(<<>> \o w, signed')
      BY <2>3, ShortOk, ConcatOk
    <3>2. \A d \in Clients : ListOk(store[d] \o w, signed')
      BY <2>3, <2>4, ConcatOk
    <3>. QED
      BY <2>4, <2>7, <3>1, <3>2
  <2>9. store' = [d \in Clients |-> store'[d]]
    BY <1>2, <2>1
  <2>. QED
    BY <1>1, <1>3, <2>1, <2>2, <2>6, <2>8, <2>9, PingLeaves
<1>. QED
  BY <1>4, <1>5

LEMMA VerifiedOk ==
  ASSUME NEW m, NEW sg, PartOk(m, sg) \/ WholeOk(m, sg), m.type = "send_gifts", NEW answers
  PROVE  PartOk(Verified(m, answers), sg)
<1>. DEFINE b  == m.body
            ok == b.ok \union (b.asked \intersect answers)
            a  == [b EXCEPT !.ok = ok]
<1>1. m = Message("send_gifts", m.mid, m.req, b) /\ BodyOk(b, sg)
  BY DEF PartOk, WholeOk, Shaped
<1>2. m = [type |-> "send_gifts", mid |-> m.mid, req |-> m.req, body |-> b]
  BY <1>1 DEF Message
<1>3. Verified(m, answers) = [m EXCEPT !.body = a]
  BY DEF Verified
<1>. HIDE DEF b, ok, a
<1>4. Verified(m, answers) = Message("send_gifts", m.mid, m.req, a)
  BY <1>2, <1>3 DEF Message
<1>5. BodyOk(a, sg)
  <2>1. a = [gifts |-> b.gifts, asked |-> b.asked, ok |-> ok, count |-> b.count]
    BY <1>1 DEF BodyOk, a
  <2>. QED
    BY <1>1, <2>1 DEF BodyOk
<1>. QED
  BY <1>4, <1>5, MessageShape DEF PartOk

\* An answer of the server.
LEMMA AnsweredOk ==
  ASSUME IInv, NEW c \in Clients, ping[c].stage # "idle", NEW g \in Gifts
  PROVE  LET y == Answered(gift[c][g], g, ping[c])
         IN  /\ GiftOk(g, y, signed) /\ Onward(gift[c][g].comments, y.comments)
             /\ \A i \in DOMAIN gift[c][g].comments : y.comments[i] = Settled(gift[c][g].comments[i], ping[c].own)
<1>. DEFINE x == gift[c][g]
            p == ping[c]
            s == x.comments
            own == p.own
            F == [i \in DOMAIN s |-> Settled(s[i], own)]
            gone == IF g \in p.gone THEN "done" ELSE x.gone
            y == Answered(x, g, p)
<1>1. GiftOk(g, x, signed) /\ SignedOk(signed) /\ \A a \in own : Awaits(gift[c], a.cid, signed)
  BY DEF IInv, ClientOk, GiftsOk, PingOk
<1>2. \A i \in DOMAIN s : s[i] \in Comment /\ Home[s[i].cid] = g /\ s[i].v <= signed[s[i].cid].v
  <2>1. s \in Seq(Comment)
    BY <1>1 DEF GiftOk
  <2>2. \A i \in DOMAIN s : s[i] \in Comment
    BY <2>1, Elements
  <2>. QED
    BY <1>1, <2>2 DEF GiftOk
<1>3. ASSUME NEW i \in DOMAIN s
      PROVE  /\ Settled(s[i], own) \in Comment /\ Settled(s[i], own).cid = s[i].cid
             /\ s[i].v <= Settled(s[i], own).v /\ Settled(s[i], own).v <= signed[s[i].cid].v
  <2>. DEFINE o == s[i]
  <2>1. o \in Comment /\ o.cid \in Cids /\ o.v \in 0..3 /\ o.v <= signed[o.cid].v /\ signed[o.cid].v \in 0..3
    BY <1>1, <1>2 DEF Comment, SignedOk
  <2>2. ASSUME NEW a \in own, a.cid = o.cid
        PROVE  signed[o.cid].v >= o.v + 1
    <3>1. Awaits(gift[c], o.cid, signed) /\ Home[o.cid] = g
      BY <1>1, <1>2, <2>2
    <3>2. PICK j \in DOMAIN s : s[j].cid = o.cid /\ signed[o.cid].v > s[j].v
      BY <3>1 DEF Awaits
    <3>3. i = j
      BY <1>1, <3>2 DEF GiftOk, Unique
    <3>. QED
      BY <2>1, <3>2, <3>3
  <2>. HIDE DEF own, o
  <2>3. CASE Settled(o, own) = o
    BY <2>1, <2>3 DEF o
  <2>4. CASE Settled(o, own) # o
    <3>1. \E a \in own : a.cid = o.cid
      BY <2>4 DEF Settled
    <3>2. signed[o.cid].v >= o.v + 1
      BY <2>2, <3>1
    <3>3. Settled(o, own) = [o EXCEPT !.v = o.v + 1, !.act = "no"] \/ Settled(o, own) = [o EXCEPT !.act = "no"]
      BY <2>4 DEF Settled
    <3>4. o = [cid |-> o.cid, v |-> o.v, h |-> o.h, act |-> o.act] /\ o.h \in 0..3
      BY <2>1 DEF Comment
    <3>5. CASE Settled(o, own) = [o EXCEPT !.v = o.v + 1, !.act = "no"]
      <4>1. o.v + 1 \in 0..3
        BY <2>1, <3>2
      <4>. DEFINE n == o.v + 1
      <4>2. Settled(o, own) = [o EXCEPT !.v = n, !.act = "no"]
        BY <3>5
      <4>. HIDE DEF n
      <4>3. Settled(o, own) = [cid |-> o.cid, v |-> n, h |-> o.h, act |-> "no"]
        BY <3>4, <4>2
      <4>4. n \in 0..3 /\ o.v <= n /\ n <= signed[o.cid].v
        BY <2>1, <3>2, <4>1 DEF n
      <4>. QED
        BY <2>1, <3>4, <4>3, <4>4 DEF Comment, o
    <3>6. CASE Settled(o, own) = [o EXCEPT !.act = "no"]
      <4>1. Settled(o, own) = [cid |-> o.cid, v |-> o.v, h |-> o.h, act |-> "no"]
        BY <3>4, <3>6
      <4>. QED
        BY <2>1, <3>4, <4>1 DEF Comment, o
    <3>. QED
      BY <3>3, <3>5, <3>6
  <2>. QED
    BY <2>3, <2>4
<1>4. gone \in {"no", "asked", "done"}
  BY <1>1 DEF GiftOk
<1>5. y = [x EXCEPT !.comments = F, !.gone = gone]
  <2>1. x = [here |-> x.here, gone |-> x.gone, comments |-> s]
    BY <1>1 DEF GiftOk
  <2>. HIDE DEF x, p
  <2>. QED
    BY <2>1 DEF Answered
<1>6. F = [i \in DOMAIN s |-> F[i]] /\ \A i \in DOMAIN s : F[i] = Settled(s[i], own)
  OBVIOUS
<1>. HIDE DEF F, gone, own, y
<1>7. Changed(x, y, F, gone, signed)
  BY <1>3, <1>4, <1>5, <1>6 DEF Changed
<1>. HIDE DEF x
<1>8. GiftOk(g, y, signed) /\ y.comments = F
  BY <1>1, <1>7, MapOk
<1>9. Onward(s, F)
  BY <1>3, <1>6 DEF Onward
<1>. QED
  BY <1>6, <1>8, <1>9 DEF x, y, own

LEMMA ResponseStep ==
  ASSUME IInv, NEW c \in Clients, Response(c)
  PROVE  /\ IInv' /\ signed' = signed /\ gift' = [gift EXCEPT ![c] = gift'[c]]
         /\ \A g \in Gifts : Onward(gift[c][g].comments, gift'[c][g].comments)
<1>. DEFINE p == ping[c]
            b == box[c]
            settled == {a \in p.own : \E o \in Own(c) : o.cid = a.cid /\ o.act # "accept"}
            hello == IF contact[c] = 0 THEN <<Message("users_sha256", mid[c] + 1, 0, FALSE)>> ELSE <<>>
            answers(prompt) == IF ~prompt THEN {} ELSE IF p.stage = "failed" THEN Gifts ELSE Gifts \union Cids
            read(prompt) == [i \in DOMAIN b.read |-> Verified(b.read[i], answers(prompt))]
            out == b.outbox \o hello
            in(prompt) == (IF contact[c] = 0 THEN <<>> ELSE p.mail) \o read(prompt)
            sendG == b.sendG \union p.gone
            sendC == b.sendC \union {a.cid : a \in {a \in settled : a.ok}}
            askC == b.askC \union {a.cid : a \in {a \in settled : ~a.ok}}
            d(prompt) == [Sent(b) EXCEPT !.outbox = @ \o hello,
                                !.inbox = (IF contact[c] = 0 THEN <<>> ELSE p.mail) \o read(prompt), !.read = <<>>,
                                !.sendG = @ \union p.gone,
                                !.sendC = @ \union {a.cid : a \in {a \in settled : a.ok}},
                                !.askC = @ \union {a.cid : a \in {a \in settled : ~a.ok}}]
            to(g) == Answered(gift[c][g], g, p)
<1>1. /\ ping[c].stage # "idle" /\ ping' = [ping EXCEPT ![c] = NoPing] /\ store' = store /\ signed' = signed
      /\ \E prompt \in BOOLEAN : /\ gift' = [gift EXCEPT ![c] = [g \in Gifts |-> to(g)]]
                                 /\ box' = [box EXCEPT ![c] = d(prompt)]
  BY DEF Response
<1>2. /\ ClientOk(gift[c], box[c], ping[c], signed) /\ SignedOk(signed) /\ \A n \in Clients : ListOk(store[n], signed)
      /\ gift = [n \in Clients |-> gift[n]] /\ box = [n \in Clients |-> box[n]]
      /\ ping = [n \in Clients |-> ping[n]] /\ store = [n \in Clients |-> store[n]]
  BY DEF IInv
<1>3. PICK prompt \in BOOLEAN : /\ gift' = [gift EXCEPT ![c] = [g \in Gifts |-> to(g)]]
                                /\ box' = [box EXCEPT ![c] = d(prompt)]
  BY <1>1
<1>4. ListOk(read(prompt), signed)
  <2>. DEFINE r == read(prompt)
              s == b.read
              a == answers(prompt)
  <2>1. ListOk(s, signed) /\ \A i \in DOMAIN s : s[i].type = "send_gifts"
    BY <1>2 DEF ClientOk, BoxOk
  <2>2. r = [i \in DOMAIN s |-> Verified(s[i], a)]
    OBVIOUS
  <2>. HIDE DEF r, s, a
  <2>3. DOMAIN s = 1..Len(s) /\ Len(s) \in Nat
    BY <2>1 DEF ListOk, IsList
  <2>4. IsList(r) /\ DOMAIN r = DOMAIN s
    <3>1. r = [i \in 1..Len(s) |-> r[i]]
      BY <2>2, <2>3
    <3>. QED
      BY <2>3, <3>1, Listed
  <2>5. \A i \in DOMAIN r : PartOk(r[i], signed)
    BY <2>1, <2>2, <2>4, VerifiedOk DEF ListOk
  <2>6. ListOk(r, signed)
    BY <2>4, <2>5 DEF ListOk
  <2>. QED
    BY <2>6 DEF r
<1>5. ListOk(in(prompt), signed) /\ ListOk(out, signed) /\ ListOk(<<>>, signed)
  <2>1. ListOk(hello, signed)
    <3>. DEFINE body == FALSE
                m == Message("users_sha256", mid[c] + 1, 0, body)
    <3>. HIDE DEF body
    <3>1. PartOk(m, signed)
      BY MessageShape DEF PartOk
    <3>. HIDE DEF m
    <3>2. ListOk(<<m>>, signed) /\ ListOk(<<>>, signed)
      BY <3>1, ShortOk
    <3>. QED
      BY <3>2 DEF m, body
  <2>2. ListOk(b.outbox, signed) /\ ListOk(p.mail, signed) /\ ListOk(<<>>, signed)
    BY <1>2, ShortOk DEF ClientOk, BoxOk, PingOk
  <2>. DEFINE r == read(prompt)
              l == IF contact[c] = 0 THEN <<>> ELSE p.mail
  <2>3. ListOk(r, signed) /\ ListOk(l, signed)
    BY <1>4, <2>2
  <2>. HIDE DEF hello, r, l
  <2>4. ListOk(b.outbox \o hello, signed) /\ ListOk(l \o r, signed)
    BY <2>1, <2>2, <2>3, ConcatOk
  <2>. QED
    BY <2>2, <2>4 DEF l, r
<1>6. ASSUME NEW g \in Gifts
      PROVE  /\ GiftOk(g, to(g), signed) /\ Onward(gift[c][g].comments, to(g).comments)
             /\ \A i \in DOMAIN gift[c][g].comments : to(g).comments[i] = Settled(gift[c][g].comments[i], p.own)
  BY <1>1, AnsweredOk
<1>. DEFINE e == d(prompt)
            i == in(prompt)
<1>7. /\ BoxOk(Sent(b), signed) /\ Sent(b).outbox = b.outbox /\ Sent(b).sendC = b.sendC
  BY <1>2, SentOk DEF ClientOk
<1>. DEFINE f == [Sent(b) EXCEPT !.outbox = out, !.inbox = i, !.read = <<>>, !.sendG = Sent(b).sendG \union p.gone, !.sendC = sendC,
                                 !.askC = Sent(b).askC \union {a.cid : a \in {a \in settled : ~a.ok}}]
<1>8. e = f
  <2>. DEFINE sb == Sent(b)
              n == {a.cid : a \in {a \in settled : a.ok}}
              q == {a.cid : a \in {a \in settled : ~a.ok}}
              l == IF contact[c] = 0 THEN <<>> ELSE p.mail
              r == read(prompt)
              got == p.gone
  <2>1. /\ sb = [inbox |-> sb.inbox, read |-> sb.read, outbox |-> sb.outbox, sending |-> sb.sending, sent |-> sb.sent,
                 closed |-> sb.closed, sendG |-> sb.sendG, sendC |-> sb.sendC, askC |-> sb.askC]
        /\ sb.outbox = b.outbox /\ sb.sendC = b.sendC
    BY <1>7 DEF BoxOk
  <2>2. e = [sb EXCEPT !.outbox = @ \o hello, !.inbox = l \o r, !.read = <<>>, !.sendG = @ \union got,
                       !.sendC = @ \union n, !.askC = @ \union q]
    OBVIOUS
  <2>3. f = [sb EXCEPT !.outbox = b.outbox \o hello, !.inbox = l \o r, !.read = <<>>, !.sendG = sb.sendG \union got,
                       !.sendC = b.sendC \union n, !.askC = sb.askC \union q]
    OBVIOUS
  <2>. HIDE DEF sb, n, q, l, r, got, e, f, hello, b
  <2>. QED
    BY <2>1, <2>2, <2>3
<1>9. BoxOk(e, signed) /\ e.sendC = sendC
  <2>. DEFINE sb == Sent(b)
              u == Sent(b).sendG \union p.gone
              q == Sent(b).askC \union {a.cid : a \in {a \in settled : ~a.ok}}
  <2>1. f = [sb EXCEPT !.outbox = out, !.inbox = i, !.read = <<>>, !.sendG = u, !.sendC = sendC, !.askC = q]
    OBVIOUS
  <2>2. BoxOk(sb, signed) /\ ListOk(out, signed) /\ ListOk(i, signed) /\ ListOk(<<>>, signed)
    BY <1>5, <1>7
  <2>. HIDE DEF sb, u, q, f, e, out, i, sendC
  <2>3. BoxOk(f, signed) /\ f.sendC = sendC
    BY <2>1, <2>2, ShortLists DEF BoxOk
  <2>. QED
    BY <1>8, <2>3
<1>10. ASSUME NEW k \in sendC
       PROVE  Holds(gift'[c], k, 1)
  <2>1. GiftsOk(gift'[c], signed) /\ \A g \in Gifts : Onward(gift[c][g].comments, gift'[c][g].comments)
    BY <1>2, <1>3, <1>6 DEF GiftsOk
  <2>2. CASE k \in b.sendC
    BY <1>2, <2>1, <2>2, OnwardHolds DEF ClientOk, SendOk
  <2>3. CASE k \notin b.sendC
    <3>1. PICK a \in p.own : a.cid = k /\ \E o \in Own(c) : o.cid = k /\ o.act # "accept"
      BY <2>3
    <3>2. PICK o \in Own(c) : o.cid = k /\ o.act # "accept"
      BY <3>1
    <3>. DEFINE h == Home[k]
                x == gift[c][h]
    <3>3. k \in Cids /\ h \in Gifts /\ o.v \in 0..2
      BY <3>2, OwnPlace
    <3>4. PICK j \in DOMAIN x.comments : x.comments[j] = o
      BY <3>2, OwnPlace
    <3>5. j \in DOMAIN to(h).comments /\ to(h).comments[j] = Settled(o, p.own) /\ to(h).comments[j].cid = k
      <4>1. Onward(x.comments, to(h).comments) /\ \A n \in DOMAIN x.comments : to(h).comments[n] = Settled(x.comments[n], p.own)
        BY <1>6, <3>3
      <4>. HIDE DEF x, to, h, p
      <4>. QED
        BY <3>2, <3>4, <4>1 DEF Onward
    <3>6. Settled(o, p.own).v >= 1
      <4>. DEFINE own == p.own
      <4>1. o.cid \in {n.cid : n \in own}
        BY <3>1, <3>2
      <4>2. o \in Comment
        <5>1. x.comments \in Seq(Comment)
          BY <1>2, <3>3 DEF ClientOk, GiftsOk, GiftOk
        <5>. DEFINE s == x.comments
        <5>. HIDE DEF s
        <5>2. \A n \in DOMAIN s : s[n] \in Comment
          BY <5>1, Elements DEF s
        <5>. QED
          BY <3>4, <5>2 DEF s
      <4>. HIDE DEF own
      <4>3. Settled(o, own).v >= 1
        <5>1. /\ o.v = 0 \/ [cid |-> o.cid, ok |-> TRUE] \in own => Settled(o, own) = [o EXCEPT !.v = o.v + 1, !.act = "no"]
              /\ ~(o.v = 0 \/ [cid |-> o.cid, ok |-> TRUE] \in own) => Settled(o, own) = [o EXCEPT !.act = "no"]
          BY <3>2, <4>1 DEF Settled
        <5>2. o = [cid |-> o.cid, v |-> o.v, h |-> o.h, act |-> o.act]
          BY <4>2 DEF Comment
        <5>3. Settled(o, own).v = o.v + 1 \/ (o.v # 0 /\ Settled(o, own).v = o.v)
          BY <5>1, <5>2
        <5>. QED
          BY <3>3, <5>3
      <4>. QED
        BY <4>3 DEF own
    <3>7. gift'[c][h] = to(h)
      BY <1>2, <1>3, <3>3
    <3>. HIDE DEF to, p
    <3>. QED
      BY <3>3, <3>5, <3>6, <3>7 DEF Holds
  <2>. QED
    BY <2>2, <2>3
<1>. HIDE DEF e, to, sendC
<1>11. /\ gift'[c] = [g \in Gifts |-> to(g)] /\ gift' = [gift EXCEPT ![c] = gift'[c]]
       /\ box'[c] = e /\ box' = [box EXCEPT ![c] = box'[c]]
       /\ ping'[c] = NoPing /\ ping' = [ping EXCEPT ![c] = ping'[c]]
       /\ store' = [n \in Clients |-> store'[n]]
  BY <1>1, <1>2, <1>3 DEF e
<1>12. GiftsOk(gift'[c], signed) /\ \A g \in Gifts : Onward(gift[c][g].comments, gift'[c][g].comments)
  BY <1>6, <1>11 DEF GiftsOk
<1>13. ClientOk(gift'[c], box'[c], ping'[c], signed)
  BY <1>9, <1>10, <1>11, <1>12, NewPageOk DEF ClientOk, SendOk
<1>14. Signs
  <2>1. \A k \in Cids : signed[k].v \in 0..3
    BY <1>2 DEF SignedOk
  <2>. QED
    BY <1>1, <1>2, <2>1 DEF Signs
<1>. QED
  BY <1>1, <1>2, <1>11, <1>12, <1>13, <1>14, Frame

----------------------------------------------------------------------------
\* The invariant.

LEMMA Highest ==
  ASSUME NEW S \in SUBSET (0..3), 0 \in S
  PROVE  Max(S) \in 0..3 /\ \A n \in S : n <= Max(S)
<1>. DEFINE top == IF 3 \in S THEN 3 ELSE IF 2 \in S THEN 2 ELSE IF 1 \in S THEN 1 ELSE 0
<1>1. top \in S /\ \A n \in S : top >= n
  OBVIOUS
<1>2. Max(S) \in S /\ \A n \in S : Max(S) >= n
  BY <1>1 DEF Max
<1>. QED
  BY <1>2

\* What a client starts with.
LEMMA StartOk ==
  ASSUME Init, NEW c \in Clients, NEW g \in Gifts
  PROVE  LET x == gift[c][g]
         IN  /\ x \in [here : BOOLEAN, gone : {"no", "asked", "done"}, comments : Seq(Comment)] /\ Unique(x.comments)
             /\ \A i \in DOMAIN x.comments : Home[x.comments[i].cid] = g
<1>. DEFINE x == gift[c][g]
            st == Start[c][g]
            F == [i \in DOMAIN st |-> Loaded(New(st[i].cid, st[i].v))]
            Entry == [cid : {k \in Cids : Home[k] = g}, v : 1..3]
<1>1. x = IF st = None THEN Nothing ELSE [Nothing EXCEPT !.here = TRUE, !.comments = F]
  BY DEF Init
<1>2. CASE st = None
  <2>1. x = [here |-> FALSE, gone |-> "no", comments |-> <<>>]
    BY <1>1, <1>2 DEF Nothing
  <2>. QED
    BY <2>1 DEF Unique
<1>3. CASE st # None
  <2>1. st \in Seq(Entry) /\ \A i, j \in DOMAIN st : i # j => st[i].cid # st[j].cid
    BY <1>3, StartAssumption
  <2>2. x = [here |-> TRUE, gone |-> "no", comments |-> F]
    BY <1>1, <1>3 DEF Nothing
  <2>. HIDE DEF st
  <2>3. /\ \A i \in DOMAIN st : st[i] \in Entry
        /\ DOMAIN st = 1..Len(st) /\ Len(st) \in Nat
    <3>. HIDE DEF Entry
    <3>. QED
      BY <2>1, Elements
  <2>4. \A i \in DOMAIN st : st[i].cid \in Cids /\ Home[st[i].cid] = g /\ st[i].v \in 1..3
    BY <2>3
  <2>5. \A i \in DOMAIN st : F[i] \in Comment /\ F[i].cid = st[i].cid
    BY <2>4 DEF Loaded, New, Comment
  <2>6. F \in [1..Len(st) -> Comment]
    BY <2>3, <2>5
  <2>7. F \in Seq(Comment) /\ DOMAIN F = DOMAIN st
    BY <2>3, <2>6, SequenceOf
  <2>8. Unique(F) /\ \A i \in DOMAIN F : Home[F[i].cid] = g
    BY <2>1, <2>4, <2>5, <2>7 DEF Unique
  <2>. HIDE DEF F, x
  <2>9. x.comments = F /\ x \in [here : BOOLEAN, gone : {"no", "asked", "done"}, comments : Seq(Comment)]
    BY <2>2, <2>7
  <2>. QED
    BY <2>8, <2>9 DEF x
<1>. QED
  BY <1>2, <1>3

LEMMA InitIInv ==
  ASSUME Init
  PROVE  IInv
<1>1. signed = [k \in Cids |-> [by |-> None, v |-> Max({0} \union Versions(k))]]
  BY DEF Init
<1>2. ASSUME NEW c \in Clients, NEW g \in Gifts
      PROVE  \A i \in DOMAIN gift[c][g].comments :
               /\ gift[c][g].comments[i] \in Comment
               /\ gift[c][g].comments[i].v \in Versions(gift[c][g].comments[i].cid)
  <2>. DEFINE s == gift[c][g].comments
  <2>1. s \in Seq(Comment)
    BY StartOk
  <2>2. ASSUME NEW i \in DOMAIN s
        PROVE  s[i].v \in Versions(s[i].cid)
    <3>. DEFINE All == UNION {Range(gift[d][h].comments) : d \in Clients, h \in Gifts}
    <3>1. s[i] \in Range(gift[c][g].comments)
      BY DEF Range
    <3>2. s[i] \in All
      BY <3>1
    <3>3. Versions(s[i].cid) = {n.v : n \in {n \in All : n.cid = s[i].cid}}
      BY DEF Versions
    <3>. HIDE DEF All, s
    <3>. QED
      BY <3>2, <3>3
  <2>. HIDE DEF s
  <2>3. \A i \in DOMAIN s : s[i] \in Comment
    BY <2>1, Elements
  <2>. QED
    BY <2>2, <2>3 DEF s
<1>3. ASSUME NEW k \in Cids
      PROVE  Versions(k) \in SUBSET (0..3)
  <2>1. ASSUME NEW v \in Versions(k)
        PROVE  v \in 0..3
    <3>1. PICK c \in Clients, g \in Gifts : \E n \in Range(gift[c][g].comments) : v = n.v
      BY DEF Versions
    <3>2. PICK i \in DOMAIN gift[c][g].comments : v = gift[c][g].comments[i].v
      BY <3>1 DEF Range
    <3>. QED
      BY <1>2, <3>2 DEF Comment
  <2>. QED
    BY <2>1
<1>4. ASSUME NEW k \in Cids
      PROVE  signed[k].by = None /\ signed[k].v \in 0..3 /\ \A n \in Versions(k) : n <= signed[k].v
  <2>. DEFINE S == {0} \union Versions(k)
  <2>1. S \in SUBSET (0..3) /\ 0 \in S /\ \A n \in Versions(k) : n \in S
    BY <1>3
  <2>2. signed[k] = [by |-> None, v |-> Max(S)]
    BY <1>1
  <2>. HIDE DEF S
  <2>. DEFINE m == Max(S)
  <2>3. m \in 0..3 /\ (\A n \in S : n <= m) /\ signed[k] = [by |-> None, v |-> m]
    BY <2>1, <2>2, Highest
  <2>. HIDE DEF m
  <2>4. signed[k].by = None /\ signed[k].v = m
    BY <2>3
  <2>5. \A n \in Versions(k) : n <= m
    BY <2>1, <2>3
  <2>. QED
    BY <2>3, <2>4, <2>5
<1>5. SignedOk(signed)
  <2>. DEFINE m(k) == Max({0} \union Versions(k))
  <2>. HIDE DEF m
  <2>1. signed = [k \in Cids |-> [by |-> None, v |-> m(k)]]
    BY <1>1 DEF m
  <2>2. \A k \in Cids : m(k) \in 0..3
    BY <1>4, <2>1
  <2>. QED
    BY <2>1, <2>2 DEF SignedOk
<1>6. ASSUME NEW c \in Clients
      PROVE  GiftsOk(gift[c], signed)
  <2>1. gift[c] = [g \in Gifts |-> gift[c][g]]
    BY DEF Init
  <2>2. ASSUME NEW g \in Gifts
        PROVE  GiftOk(g, gift[c][g], signed)
    <3>. DEFINE s == gift[c][g].comments
    <3>1. \A i \in DOMAIN s : s[i].v <= signed[s[i].cid].v
      BY <1>2, <1>4 DEF Comment
    <3>. QED
      BY <3>1, StartOk DEF GiftOk
  <2>. QED
    BY <2>1, <2>2 DEF GiftsOk
<1>7. /\ box = [c \in Clients |-> EmptyBox] /\ ping = [c \in Clients |-> NoPing] /\ store = [c \in Clients |-> <<>>]
      /\ gift = [c \in Clients |-> gift[c]]
  BY DEF Init
<1>8. \A c \in Clients : ClientOk(gift[c], box[c], ping[c], signed) /\ ListOk(store[c], signed)
  BY <1>6, <1>7, NewPageOk, ShortOk DEF ClientOk
<1>. QED
  BY <1>5, <1>7, <1>8 DEF IInv

\* The gifts of one client move on, or the server signs.
Moves1(c) == gift' = [gift EXCEPT ![c] = gift'[c]] /\ \A g \in Gifts : Onward(gift[c][g].comments, gift'[c][g].comments)

LEMMA NextIInv ==
  ASSUME IInv, Next
  PROVE  IInv' /\ ((gift' = gift /\ Signs) \/ \E c \in Clients : Moves1(c) /\ signed' = signed)
<1>1. PICK c \in Clients : \/ Ping(c) \/ Response(c) \/ Handle(c)
                           \/ Lost(c) \/ Fail(c) \/ Early(c) \/ Reload(c) \/ User(c)
  BY DEF Next
<1>2. CASE Ping(c)
  BY <1>2, PingStep
<1>3. CASE Response(c) \/ Handle(c) \/ Reload(c)
  BY <1>3, ResponseStep, HandleStep, ReloadStep DEF Moves1
<1>4. CASE Lost(c) \/ Fail(c) \/ Early(c)
  <2>1. IInv' /\ gift' = gift /\ signed' = signed
    BY <1>4, FailSteps
  <2>2. SignedOk(signed) /\ \A k \in Cids : signed[k].v <= signed[k].v
    BY DEF IInv, SignedOk
  <2>. QED
    BY <2>1, <2>2 DEF Signs
<1>5. CASE User(c)
  <2>1. CASE \E k \in Cids : Create(c, k)
    BY <2>1, CreateStep DEF Moves1
  <2>2. CASE \E k \in Cids : \E action \in {"decide", "accept"} : Act(c, k, action)
    BY <2>2, ActStep DEF Moves1
  <2>3. CASE \E g \in Gifts : Delete(c, g)
    BY <2>3, DeleteStep DEF Moves1
  <2>. QED
    BY <1>5, <2>1, <2>2, <2>3 DEF User
<1>. QED
  BY <1>1, <1>2, <1>3, <1>4, <1>5

LEMMA StutterIInv ==
  ASSUME IInv, UNCHANGED vars
  PROVE  IInv'
  BY DEF IInv, vars

LEMMA Invariant == Spec => []IInv
<1>1. Init => IInv
  BY InitIInv
<1>2. IInv /\ [Next]_vars => IInv'
  BY NextIInv, StutterIInv
<1>. QED
  BY <1>1, <1>2, PTL DEF Spec

----------------------------------------------------------------------------
\* However copies of a gift are sent, resent and answered, and whatever is lost or loaded again, a
\* client has one copy of each comment, in the gift it was created for: insert and merge in
\* receive_message_send_gifts.
THEOREM ClientsHaveOneCopy == Spec => []OneCopy
<1>1. ASSUME IInv
      PROVE  OneCopy
  <2>. SUFFICES ASSUME NEW c \in Clients, NEW g \in Gifts
                PROVE  LET s == gift[c][g].comments
                       IN  \A i, j \in DOMAIN s : Home[s[i].cid] = g /\ (i # j => s[i].cid # s[j].cid)
    BY DEF OneCopy
  <2>1. GiftOk(g, gift[c][g], signed)
    BY <1>1 DEF IInv, ClientOk, GiftsOk
  <2>. QED
    BY <2>1 DEF GiftOk, Unique
<1>. QED
  BY <1>1, Invariant, PTL

LEMMA OnlySignedOk ==
  ASSUME NEW m, PartOk(m, signed)
  PROVE  OnlySigned(m)
<1>. SUFFICES ASSUME m.type = "send_gifts", NEW k \in Range(m.body.gifts), NEW n \in Range(k.comments)
              PROVE  n.v \in 1..signed[n.cid].v
  BY DEF OnlySigned
<1>1. CopiesOk(m.body.gifts, signed)
  BY DEF PartOk, BodyOk
<1>2. CopyOk(k, signed)
  BY <1>1 DEF CopiesOk, Range
<1>. QED
  BY <1>2 DEF CopyOk, Range

\* Every copy in a message, wherever it waits or travels, is of a version that the server has signed,
\* and none is of a comment that is not created: make_comment_clone and the checks before an answer.
THEOREM OnlySignedCopiesTravel == Spec => []CopiesSigned
<1>1. ASSUME IInv
      PROVE  CopiesSigned
  <2>. SUFFICES ASSUME NEW c \in Clients, NEW i \in DOMAIN Traffic(c)
                PROVE  LET m == Traffic(c)[i]
                       IN  IF m.type = "sync_gifts" THEN \A j \in DOMAIN m.body : OnlySigned(m.body[j]) ELSE OnlySigned(m)
    BY DEF CopiesSigned
  <2>. DEFINE m == Traffic(c)[i]
  <2>1. /\ ListOk(store[c], signed) /\ ListOk(ping[c].mail, signed)
        /\ ListOk(box[c].inbox, signed) /\ ListOk(box[c].read, signed)
        /\ ListOk(box[c].outbox, signed) /\ ListOk(box[c].sending, signed)
    BY <1>1 DEF IInv, ClientOk, BoxOk, PingOk
  <2>2. ListOk(Traffic(c), signed)
    <3>. DEFINE l1 == store[c] \o ping[c].mail
                l2 == l1 \o box[c].inbox
                l3 == l2 \o box[c].read
                l4 == l3 \o box[c].outbox
                l5 == l4 \o box[c].sending
    <3>1. Traffic(c) = l5
      BY DEF Traffic
    <3>2. ListOk(l1, signed)
      BY <2>1, ConcatOk
    <3>. HIDE DEF l1
    <3>3. ListOk(l2, signed)
      BY <2>1, <3>2, ConcatOk
    <3>. HIDE DEF l2
    <3>4. ListOk(l3, signed)
      BY <2>1, <3>3, ConcatOk
    <3>. HIDE DEF l3
    <3>5. ListOk(l4, signed)
      BY <2>1, <3>4, ConcatOk
    <3>. HIDE DEF l4
    <3>6. ListOk(l5, signed)
      BY <2>1, <3>5, ConcatOk
    <3>. QED
      BY <3>1, <3>6
  <2>3. PartOk(m, signed) \/ WholeOk(m, signed)
    BY <2>2 DEF ListOk
  <2>. HIDE DEF m
  <2>4. IF m.type = "sync_gifts" THEN \A j \in DOMAIN m.body : OnlySigned(m.body[j]) ELSE OnlySigned(m)
    <3>1. CASE PartOk(m, signed)
      BY <3>1, OnlySignedOk DEF PartOk
    <3>2. CASE WholeOk(m, signed)
      BY <3>2, OnlySignedOk DEF WholeOk
    <3>. QED
      BY <2>3, <3>1, <3>2
  <2>. QED
    BY <2>4 DEF m
<1>. QED
  BY <1>1, Invariant, PTL

----------------------------------------------------------------------------
\* GiftSync implements Replicas.

Copy(x, k) == IF k \in Held(x) THEN The(x, k).v ELSE 0

LEMMA CopyBounds ==
  ASSUME NEW gs, NEW sg, SignedOk(sg), GiftsOk(gs, sg), NEW k \in Cids
  PROVE  /\ Home[k] \in Gifts /\ sg[k].v \in 0..3
         /\ Copy(gs[Home[k]], k) \in 0..3 /\ Copy(gs[Home[k]], k) <= sg[k].v
         /\ \A i \in DOMAIN gs[Home[k]].comments :
              gs[Home[k]].comments[i].cid = k => Copy(gs[Home[k]], k) = gs[Home[k]].comments[i].v
<1>. DEFINE x == gs[Home[k]]
            s == x.comments
<1>1. Home[k] \in Gifts
  BY IdsAssumption
<1>2. sg[k].v \in 0..3
  BY DEF SignedOk
<1>3. GiftOk(Home[k], x, sg)
  BY <1>1 DEF GiftsOk
<1>4. \A i \in DOMAIN s : s[i] \in Comment /\ s[i].v <= sg[s[i].cid].v
  <2>1. s \in Seq(Comment)
    BY <1>3 DEF GiftOk
  <2>2. \A i \in DOMAIN s : s[i] \in Comment
    BY <2>1, Elements
  <2>. QED
    BY <1>3, <2>2 DEF GiftOk
<1>5. /\ \A i \in DOMAIN s : The(x, s[i].cid) = s[i]
      /\ \A n \in Held(x) : \E i \in DOMAIN s : s[i].cid = n
  BY <1>1, Same
<1>6. \A i \in DOMAIN s : s[i].cid \in Held(x)
  BY DEF Held, Cs, Range
<1>. HIDE DEF x, s
<1>7. \A i \in DOMAIN s : s[i].cid = k => Copy(x, k) = s[i].v
  BY <1>5, <1>6 DEF Copy
<1>8. Copy(x, k) \in 0..3 /\ Copy(x, k) <= sg[k].v
  <2>1. CASE k \in Held(x)
    <3>1. PICK i \in DOMAIN s : s[i].cid = k
      BY <1>5, <2>1
    <3>. QED
      BY <1>4, <1>7, <3>1 DEF Comment
  <2>2. CASE k \notin Held(x)
    BY <1>2, <2>2 DEF Copy
  <2>. QED
    BY <2>1, <2>2
<1>. QED
  BY <1>1, <1>2, <1>7, <1>8 DEF x, s

LEMMA CopyMoves ==
  ASSUME IInv, IInv', NEW c \in Clients, NEW k \in Cids,
         \A g \in Gifts : Onward(gift[c][g].comments, gift'[c][g].comments)
  PROVE  Copy(gift[c][Home[k]], k) <= Copy(gift'[c][Home[k]], k)
<1>. DEFINE x == gift[c][Home[k]]
            y == gift'[c][Home[k]]
<1>1. /\ Copy(x, k) \in 0..3 /\ Home[k] \in Gifts
      /\ \A i \in DOMAIN x.comments : x.comments[i].cid = k => Copy(x, k) = x.comments[i].v
  <2>1. SignedOk(signed) /\ GiftsOk(gift[c], signed)
    BY DEF IInv, ClientOk
  <2>. QED
    BY <2>1, CopyBounds
<1>2. /\ Copy(y, k) \in 0..3
      /\ \A i \in DOMAIN y.comments : y.comments[i].cid = k => Copy(y, k) = y.comments[i].v
  <2>1. SignedOk(signed') /\ GiftsOk(gift'[c], signed')
    BY DEF IInv, ClientOk
  <2>. QED
    BY <2>1, CopyBounds
<1>3. Onward(x.comments, y.comments)
  BY <1>1
<1>4. CASE k \in Held(x)
  <2>1. PICK i \in DOMAIN x.comments : x.comments[i].cid = k
    BY <1>4 DEF Held, Cs, Range
  <2>. HIDE DEF x, y
  <2>2. Copy(x, k) <= Copy(y, k)
    BY <1>1, <1>2, <1>3, <2>1 DEF Onward
  <2>. QED
    BY <2>2 DEF x, y
<1>5. CASE k \notin Held(x)
  <2>1. Copy(x, k) = 0
    BY <1>5 DEF Copy
  <2>. HIDE DEF x, y
  <2>2. Copy(x, k) <= Copy(y, k)
    BY <1>2, <2>1
  <2>. QED
    BY <2>2 DEF x, y
<1>. QED
  BY <1>4, <1>5

\* GiftSync implements Replicas: whatever messages are lost, sent twice or late, a copy of a comment
\* only moves forward, and no client has a version that the server has not signed.
THEOREM SyncReplicates == Spec => Replicated
<1>. DEFINE sv == [k \in Cids |-> signed[k].v]
            cv == [c \in Clients |-> [k \in Cids |-> IF k \in Held(gift[c][Home[k]]) THEN The(gift[c][Home[k]], k).v ELSE 0]]
<1>1. cv = [c \in Clients |-> [k \in Cids |-> Copy(gift[c][Home[k]], k)]]
  BY DEF Copy
<1>2. cv' = [c \in Clients |-> [k \in Cids |-> Copy(gift'[c][Home[k]], k)]]
  BY DEF Copy
<1>3. ASSUME IInv
      PROVE  /\ sv \in [Cids -> 0..3] /\ cv \in [Clients -> [Cids -> 0..3]]
             /\ \A c \in Clients, k \in Cids : cv[c][k] <= sv[k]
  <2>1. \A c \in Clients, k \in Cids : Copy(gift[c][Home[k]], k) \in 0..3 /\ Copy(gift[c][Home[k]], k) <= signed[k].v
    BY <1>3, CopyBounds DEF IInv, ClientOk
  <2>2. \A k \in Cids : signed[k].v \in 0..3
    BY <1>3 DEF IInv, SignedOk
  <2>. HIDE DEF cv
  <2>. QED
    BY <1>1, <2>1, <2>2
<1>4. ASSUME IInv'
      PROVE  /\ sv' \in [Cids -> 0..3] /\ cv' \in [Clients -> [Cids -> 0..3]]
             /\ \A c \in Clients, k \in Cids : cv'[c][k] <= sv'[k]
  <2>1. \A c \in Clients, k \in Cids : Copy(gift'[c][Home[k]], k) \in 0..3 /\ Copy(gift'[c][Home[k]], k) <= signed'[k].v
    <3>1. SignedOk(signed') /\ \A c \in Clients : GiftsOk(gift'[c], signed')
      BY <1>4 DEF IInv, ClientOk
    <3>. QED
      BY <3>1, CopyBounds
  <2>2. \A k \in Cids : signed'[k].v \in 0..3
    BY <1>4 DEF IInv, SignedOk
  <2>3. sv' = [k \in Cids |-> signed'[k].v]
    OBVIOUS
  <2>. HIDE DEF cv, sv
  <2>. QED
    BY <1>2, <2>1, <2>2, <2>3
<1>5. Init => R!Init
  <2>. SUFFICES ASSUME Init
                PROVE  R!Init
    OBVIOUS
  <2>1. /\ sv \in [Cids -> 0..3] /\ cv \in [Clients -> [Cids -> 0..3]]
        /\ \A c \in Clients, k \in Cids : cv[c][k] <= sv[k]
    BY <1>3, InitIInv
  <2>. QED
    BY <2>1 DEF R!Init, R!Versions, R!Within
<1>6. IInv /\ [Next]_vars => [R!Next]_<<sv, cv>>
  <2>. SUFFICES ASSUME IInv, [Next]_vars
                PROVE  [R!Next]_<<sv, cv>>
    OBVIOUS
  <2>1. CASE UNCHANGED vars
    <3>1. gift' = gift /\ signed' = signed
      BY <2>1 DEF vars
    <3>. QED
      BY <1>1, <1>2, <3>1
  <2>2. CASE Next
    <3>1. IInv' /\ ((gift' = gift /\ Signs) \/ \E c \in Clients : Moves1(c) /\ signed' = signed)
      BY <2>2, NextIInv
    <3>2. CASE gift' = gift /\ Signs
      <4>1. cv' = cv
        BY <1>1, <1>2, <3>2
      <4>2. \A k \in Cids : sv[k] <= sv'[k]
        BY <3>2 DEF Signs
      <4>3. sv' \in [Cids -> 0..3]
        BY <1>4, <3>1
      <4>. QED
        BY <4>1, <4>2, <4>3 DEF R!Next, R!Sign, R!Versions
    <3>3. ASSUME NEW c \in Clients, Moves1(c), signed' = signed
          PROVE  [R!Next]_<<sv, cv>>
      <4>1. sv' = sv
        BY <3>3
      <4>2. \A k \in Cids : cv[c][k] <= cv'[c][k]
        <5>1. \A k \in Cids : Copy(gift[c][Home[k]], k) <= Copy(gift'[c][Home[k]], k)
          BY <3>1, <3>3, CopyMoves DEF Moves1
        <5>. HIDE DEF cv
        <5>. QED
          BY <1>1, <1>2, <5>1
      <4>3. \A k \in Cids : cv'[c][k] <= sv[k]
        BY <1>4, <3>1, <4>1
      <4>4. \A d \in Clients \ {c} : cv'[d] = cv[d]
        <5>1. \A d \in Clients \ {c} : gift'[d] = gift[d]
          BY <3>3 DEF Moves1, IInv
        <5>. HIDE DEF cv
        <5>. QED
          BY <1>1, <1>2, <5>1
      <4>5. cv' \in [Clients -> [Cids -> 0..3]]
        BY <1>4, <3>1
      <4>. QED
        BY <4>1, <4>2, <4>3, <4>4, <4>5 DEF R!Next, R!Learn, R!Versions
    <3>. QED
      BY <3>1, <3>2, <3>3
  <2>. QED
    BY <2>1, <2>2
<1>. QED
  BY <1>5, <1>6, Invariant, PTL DEF Spec, Replicated, R!Spec


----------------------------------------------------------------------------
\* Types of messages.  N is the last mid of the client that sent them.

Counted(m)       == m.type = "send_gifts" => m.body.count \in 0..Patience + 1
PartTyped(m, N)  == m.type \in Types \ {"sync_gifts"} /\ m.mid \in 1..N /\ Counted(m)
WholeTyped(m, N) == m.type = "sync_gifts" /\ m.mid = 0 /\ \A i \in DOMAIN m.body : PartTyped(m.body[i], N)
ListTyped(s, N)  == \A i \in DOMAIN s : PartTyped(s[i], N) \/ WholeTyped(s[i], N)

\* A mailbox; M is the last mid of the other client.
BoxTyped(b, N, M) ==
  /\ ListTyped(b.outbox, N) /\ ListTyped(b.sending, N)
  /\ ListTyped(b.inbox, M) /\ ListTyped(b.read, M) /\ \A i \in DOMAIN b.read : b.read[i].body.count >= 1
  /\ IsList(b.sent) /\ \A i \in DOMAIN b.sent : b.sent[i].type \in Types
  /\ b.askC \subseteq Cids

HereIn(gs) == {g \in Gifts : gs[g].here}
PingTyped(gs, b, p, M) ==
  /\ ListTyped(p.mail, M) /\ p.stage \in {"idle", "sent", "failed"}
  /\ p.stage = "idle" => p = NoPing /\ b.sending = <<>>
  /\ p.stage # "idle" => p.gone \subseteq HereIn(gs)
ClientTyped(gs, k, b, p, N, M) ==
  /\ k = 0 => b = EmptyBox
  /\ BoxTyped(b, N, M) /\ PingTyped(gs, b, p, M)
  /\ b.sendG \subseteq HereIn(gs) /\ \A g \in Gifts : ~gs[g].here => gs[g] = Nothing

Counters == faults \in Nat /\ mid \in [Clients -> Nat] /\ contact \in [Clients -> 0..2]
TInv ==
  /\ Counters
  /\ \A c \in Clients : /\ ClientTyped(gift[c], contact[c], box[c], ping[c], mid[c], mid[Peer(c)])
                        /\ ListTyped(store[c], mid[Peer(c)])

\* There are two clients.
LEMMA PeerOf ==
  ASSUME NEW c \in Clients
  PROVE  /\ Peer(c) \in Clients /\ Peer(c) # c /\ Peer(Peer(c)) = c
         /\ \A d \in Clients : d = c \/ d = Peer(c)
<1>1. IsFiniteSet(Clients \ {c}) /\ Cardinality(Clients \ {c}) = 1
  BY ClientsAssumption, FS_RemoveElement
<1>2. PICK d : Clients \ {c} = {d}
  BY <1>1, FS_Singleton
<1>3. Clients = {c, d} /\ c # d
  BY <1>2
<1>. QED
  BY <1>3 DEF Peer

LEMMA TypedLater ==
  ASSUME NEW N \in Nat, NEW M \in Nat, N <= M
  PROVE  \A s : ListTyped(s, N) => ListTyped(s, M)
<1>1. \A m : PartTyped(m, N) => PartTyped(m, M)
  BY DEF PartTyped
<1>. QED
  BY <1>1 DEF WholeTyped, ListTyped

LEMMA ConcatTyped ==
  ASSUME NEW s, NEW t, IsList(s), IsList(t), NEW N, ListTyped(s, N), ListTyped(t, N), NEW r, r = s \o t
  PROVE  ListTyped(r, N) /\ IsList(r)
<1>1. IsList(r) /\ From(r, s, t)
  BY Concatenated
<1>. QED
  BY <1>1 DEF ListTyped, From

LEMMA AppendTyped ==
  ASSUME NEW s, NEW m, IsList(s), NEW N, ListTyped(s, N), PartTyped(m, N) \/ WholeTyped(m, N), NEW r, r = Append(s, m)
  PROVE  ListTyped(r, N) /\ IsList(r)
<1>1. IsList(r) /\ \A i \in DOMAIN r : r[i] = m \/ \E j \in DOMAIN s : r[i] = s[j]
  BY OneMore
<1>. QED
  BY <1>1 DEF ListTyped

LEMMA TailTyped ==
  ASSUME NEW s, IsList(s), s # <<>>, NEW N, ListTyped(s, N)
  PROVE  ListTyped(Tail(s), N) /\ IsList(Tail(s)) /\ (PartTyped(Head(s), N) \/ WholeTyped(Head(s), N))
  BY OneLess DEF ListTyped

LEMMA PartsTyped ==
  ASSUME NEW s, IsList(s), NEW N, ListTyped(s, N), NEW I \in SUBSET DOMAIN s
  PROVE  ListTyped(At(s, I), N) /\ IsList(At(s, I))
  BY ListPart DEF ListTyped

\* A step of c.
LEMMA TypedFrame ==
  ASSUME TInv, NEW c \in Clients, Counters', mid[c] <= mid'[c], NEW gs,
         gift' = [gift EXCEPT ![c] = gs], gift = [d \in Clients |-> gift[d]],
         \A d \in Clients \ {c} : box'[d] = box[d] /\ ping'[d] = ping[d] /\ mid'[d] = mid[d] /\ contact'[d] = contact[d],
         \A d \in Clients : ListTyped(store'[d], mid'[Peer(d)]),
         ClientTyped(gs, contact'[c], box'[c], ping'[c], mid'[c], mid[Peer(c)])
  PROVE  TInv'
<1>1. \A d \in Clients : mid[d] \in Nat /\ mid'[d] \in Nat
  BY DEF TInv, Counters
<1>2. mid'[Peer(c)] = mid[Peer(c)]
  BY PeerOf
<1>3. ASSUME NEW d \in Clients
      PROVE  ClientTyped(gift'[d], contact'[d], box'[d], ping'[d], mid'[d], mid'[Peer(d)])
  <2>1. CASE d = c
    BY <1>2, <2>1
  <2>2. CASE d # c
    <3>1. Peer(d) = c /\ gift'[d] = gift[d]
      BY <2>2, PeerOf
    <3>2. ClientTyped(gift[d], contact[d], box[d], ping[d], mid[d], mid[c])
      BY <3>1 DEF TInv
    <3>3. \A s : ListTyped(s, mid[c]) => ListTyped(s, mid'[c])
      BY <1>1, TypedLater
    <3>4. ClientTyped(gift[d], contact[d], box[d], ping[d], mid[d], mid'[c])
      BY <3>2, <3>3 DEF ClientTyped, BoxTyped, PingTyped
    <3>. QED
      BY <2>2, <3>1, <3>4
  <2>. QED
    BY <2>1, <2>2
<1>. QED
  BY <1>3 DEF TInv

----------------------------------------------------------------------------
\* What is posted when a message is handled.

\* The mids that a message makes known, and those of a list.
MidsOf(m)     == IF m.type = "sync_gifts" THEN {m.body[i].mid : i \in DOMAIN m.body} ELSE {m.mid}
PartsApart(m) == m.type = "sync_gifts" => \A i, j \in DOMAIN m.body : i # j => m.body[i].mid # m.body[j].mid

\* A message of a client whose last mid was N, with n new ones.
Newly(m, N, n) ==
  (PartTyped(m, N + n) \/ WholeTyped(m, N + n)) /\ PartsApart(m) /\ \A k \in MidsOf(m) : k \in (N + 1)..(N + n)

\* The mailbox b after a message of the inbox was handled.
Filed(c, b, n) ==
  LET m == Head(box[c].inbox)
  IN  \E b0 :
        /\ b0 = Rest(c) \/ \E types : b0 = Moved(Rest(c), m, types)
        /\ \/ b = b0
           \/ m.type # "sync_gifts" /\ \E w : Newly(w, mid[c], n) /\ w.req = m.mid /\ b = Post(b0, w)
           \/ m.type = "sync_gifts" /\ b = [b0 EXCEPT !.inbox = @ \o m.body]
           \/ /\ m.type = "send_gifts" /\ b0 = Rest(c)
              /\ \E body : /\ body.count \in 1..Patience + 1
                           /\ b = [b0 EXCEPT !.read = Append(@, [m EXCEPT !.body = body])]

\* What is sent in one sync_gifts message has the types of its parts.
ItemsTyped(s) ==
  IsList(s) /\ \A i \in DOMAIN s : s[i].type \in Types \ {"sync_gifts"} /\ (s[i].type = "send_gifts" => s[i].body.count = 0)

LEMMA ItemsTypedConcat ==
  ASSUME NEW s, NEW t, ItemsTyped(s), ItemsTyped(t)
  PROVE  ItemsTyped(s \o t)
<1>. DEFINE r == s \o t
<1>1. IsList(r) /\ From(r, s, t)
  BY Concatenated DEF ItemsTyped
<1>. HIDE DEF r
<1>2. ItemsTyped(r)
  BY <1>1 DEF ItemsTyped, From
<1>. QED
  BY <1>2 DEF r

LEMMA ItemTyped ==
  ASSUME NEW type, NEW body, type \in Types \ {"sync_gifts", "send_gifts"}
  PROVE  ItemsTyped(Item(type, body))
<1>. DEFINE x == [type |-> type, body |-> body]
<1>1. x.type = type /\ Item(type, body) = <<x>>
  BY DEF Item
<1>. HIDE DEF x
<1>. QED
  BY <1>1, ShortLists DEF ItemsTyped

LEMMA NothingTyped == ItemsTyped(<<>>)
  BY ShortLists DEF ItemsTyped

LEMMA SendItemTyped ==
  ASSUME NEW s
  PROVE  ItemsTyped(SendItem(s))
<1>. DEFINE x == [type |-> "send_gifts", body |-> [gifts |-> s, asked |-> {}, ok |-> {}, count |-> 0]]
<1>1. x.type = "send_gifts" /\ x.body.count = 0
  OBVIOUS
<1>2. SendItem(s) = IF s = <<>> THEN <<>> ELSE <<x>>
  BY DEF SendItem, Item
<1>3. "send_gifts" \in Types \ {"sync_gifts"}
  BY DEF Types, Answerable
<1>. HIDE DEF x
<1>. QED
  BY <1>1, <1>2, <1>3, NothingTyped, ShortLists DEF ItemsTyped

LEMMA PushedTyped ==
  ASSUME NEW c \in Clients
  PROVE  ItemsTyped(Pushed(c))
<1>. DEFINE x(g)   == gift[c][g]
            gs     == {g \in Here(c) : g \in box[c].sendG \/ Held(x(g)) \intersect box[c].sendC # {}}
            clones == [i \in 1..Cardinality(gs) |-> Clone(Sorted(gs)[i], x(Sorted(gs)[i]), box[c].sendC)]
            cids   == box[c].askC \intersect UNION {Held(x(g)) : g \in Here(c)}
            asks   == IF cids = {} THEN <<>> ELSE Item("request_comments", cids)
<1>1. Pushed(c) = SendItem(clones) \o asks
  BY DEF Pushed
<1>. HIDE DEF clones, cids
<1>2. ItemsTyped(asks)
  <2>1. "request_comments" \in Types \ {"sync_gifts", "send_gifts"}
    BY DEF Types, Answerable
  <2>. QED
    BY <2>1, ItemTyped, NothingTyped
<1>. HIDE DEF asks
<1>. QED
  BY <1>1, <1>2, SendItemTyped, ItemsTypedConcat

LEMMA SyncTyped ==
  ASSUME Counters, NEW c \in Clients, NEW req, NEW items, ItemsTyped(items)
  PROVE  /\ Newly(Sync(c, req, items), mid[c], Len(items)) /\ Sync(c, req, items).req = req
         /\ Sync(c, req, items).type = "sync_gifts" /\ Len(items) \in Nat
<1>. DEFINE F == [i \in DOMAIN items |-> Message(items[i].type, mid[c] + i, 0, items[i].body)]
            N == mid[c]
            n == Len(items)
<1>1. n \in Nat /\ DOMAIN items = 1..n /\ N \in Nat /\ Patience \in Nat
  BY BoundsAssumption DEF ItemsTyped, IsList, Counters
<1>2. DOMAIN F = 1..n
  BY <1>1
<1>3. ASSUME NEW i \in DOMAIN F
      PROVE  PartTyped(F[i], N + n) /\ F[i].mid = N + i
  <2>1. F[i] = Message(items[i].type, N + i, 0, items[i].body) /\ i \in DOMAIN items
    OBVIOUS
  <2>2. F[i].mid = N + i /\ F[i].type = items[i].type /\ F[i].body = items[i].body
    BY <2>1 DEF Message
  <2>3. N + i \in 1..(N + n)
    BY <1>1, <2>1
  <2>4. items[i].type \in Types \ {"sync_gifts"} /\ (items[i].type = "send_gifts" => items[i].body.count = 0)
    BY <2>1 DEF ItemsTyped
  <2>. HIDE DEF F, N, n
  <2>. QED
    BY <1>1, <2>2, <2>3, <2>4 DEF PartTyped, Counted
<1>4. Sync(c, req, items) = Message("sync_gifts", 0, req, F)
  BY DEF Sync
<1>5. /\ Sync(c, req, items).type = "sync_gifts" /\ Sync(c, req, items).mid = 0
      /\ Sync(c, req, items).req = req /\ Sync(c, req, items).body = F
  BY <1>4 DEF Message
<1>. DEFINE w == Sync(c, req, items)
<1>. HIDE DEF F, N, n, w
<1>6. \A k \in MidsOf(w) : k \in (N + 1)..(N + n)
  <2>1. w.type = "sync_gifts" /\ w.body = F
    BY <1>5 DEF w
  <2>2. \A i \in 1..n : N + i \in (N + 1)..(N + n)
    BY <1>1
  <2>. QED
    BY <1>2, <1>3, <2>1, <2>2 DEF MidsOf
<1>7. PartsApart(w)
  <2>1. \A i, j \in 1..n : i # j => N + i # N + j
    BY <1>1
  <2>2. w.body = F
    BY <1>5 DEF w
  <2>. QED
    BY <1>2, <1>3, <2>1, <2>2 DEF PartsApart
<1>8. WholeTyped(w, N + n)
  BY <1>3, <1>5 DEF WholeTyped, w
<1>9. Newly(w, N, n)
  BY <1>6, <1>7, <1>8 DEF Newly
<1>. QED
  BY <1>1, <1>5, <1>9 DEF w, N, n

LEMMA MessageTyped ==
  ASSUME NEW N \in Nat, NEW type \in Types \ {"sync_gifts", "send_gifts"}, NEW req, NEW body,
         NEW w, w = Message(type, N + 1, req, body)
  PROVE  Newly(w, N, 1) /\ w.req = req /\ w.type = type
<1>1. w.type = type /\ w.mid = N + 1 /\ w.req = req
  BY DEF Message
<1>2. PartTyped(w, N + 1)
  BY <1>1 DEF PartTyped, Counted
<1>3. MidsOf(w) = {N + 1} /\ PartsApart(w) /\ N + 1 \in (N + 1)..(N + 1)
  BY <1>1 DEF MidsOf, PartsApart
<1>. QED
  BY <1>1, <1>2, <1>3 DEF Newly

\* The kinds of answers, to a message m.
LEMMA AnswerFiled ==
  ASSUME Counters, NEW c \in Clients, NEW m, m = Head(box[c].inbox), m.type # "sync_gifts", NEW b,
         b = Rest(c) \/ \E types : b = Moved(Rest(c), m, types), NEW items, ItemsTyped(items)
  PROVE  Filed(c, Post(b, Sync(c, m.mid, items)), Len(items)) /\ Len(items) \in Nat
<1>. DEFINE w == Sync(c, m.mid, items)
            r == m.mid
<1>1. Newly(w, mid[c], Len(items)) /\ w.req = r /\ Len(items) \in Nat
  <2>. HIDE DEF r
  <2>1. Newly(Sync(c, r, items), mid[c], Len(items)) /\ Sync(c, r, items).req = r /\ Len(items) \in Nat
    BY SyncTyped
  <2>. QED
    BY <2>1 DEF r
<1>. HIDE DEF w
<1>2. Filed(c, Post(b, w), Len(items))
  BY <1>1 DEF Filed
<1>. QED
  BY <1>1, <1>2 DEF w

LEMMA ReplyFiled ==
  ASSUME Counters, NEW c \in Clients, NEW m, m = Head(box[c].inbox), m.type # "sync_gifts",
         NEW type \in Types \ {"sync_gifts", "send_gifts"}, NEW body
  PROVE  Filed(c, Post(Rest(c), Message(type, mid[c] + 1, m.mid, body)), 1)
<1>1. mid[c] \in Nat
  BY DEF Counters
<1>. DEFINE w == Message(type, mid[c] + 1, m.mid, body)
<1>. HIDE DEF w
<1>2. Newly(w, mid[c], 1) /\ w.req = m.mid
  BY <1>1, MessageTyped DEF w
<1>3. Filed(c, Post(Rest(c), w), 1)
  BY <1>2 DEF Filed
<1>. QED
  BY <1>3 DEF w

LEMMA MovedFiled ==
  ASSUME NEW c \in Clients, NEW b, b = Rest(c) \/ \E types : b = Moved(Rest(c), Head(box[c].inbox), types)
  PROVE  Filed(c, b, 0)
  BY DEF Filed

\* Every handler files a message.
Files(c) ==
  box[c].inbox # <<>> /\ \E b : \E n \in Nat : \E f : Moves(c, b, n, f) /\ Filed(c, b, n)

LEMMA AnswerFiles ==
  ASSUME Counters, NEW c \in Clients, box[c].inbox # <<>>, NEW m, m = Head(box[c].inbox), m.type # "sync_gifts", NEW b,
         b = Rest(c) \/ \E types : b = Moved(Rest(c), m, types), NEW items, ItemsTyped(items), Answer(c, b, m, items)
  PROVE  Files(c)
<1>1. Filed(c, Post(b, Sync(c, m.mid, items)), Len(items)) /\ Len(items) \in Nat
  BY AnswerFiled
<1>2. Moves(c, Post(b, Sync(c, m.mid, items)), Len(items), FALSE)
  BY DEF Answer, Handled
<1>. QED
  BY <1>1, <1>2 DEF Files

LEMMA ErrorFiles ==
  ASSUME Counters, NEW c \in Clients, box[c].inbox # <<>>, NEW m, m = Head(box[c].inbox), m.type # "sync_gifts",
         Error(c, Rest(c), m)
  PROVE  Files(c)
<1>1. "error" \in Types \ {"sync_gifts", "send_gifts"}
  BY DEF Types, Answerable
<1>2. Filed(c, Post(Rest(c), Message("error", mid[c] + 1, m.mid, <<>>)), 1)
  BY <1>1, ReplyFiled
<1>3. Moves(c, Post(Rest(c), Message("error", mid[c] + 1, m.mid, <<>>)), 1, TRUE)
  BY DEF Error
<1>. QED
  BY <1>2, <1>3 DEF Files

LEMMA MovedFiles ==
  ASSUME NEW c \in Clients, box[c].inbox # <<>>, NEW b, Handled(c, b, 0),
         b = Rest(c) \/ \E types : b = Moved(Rest(c), Head(box[c].inbox), types)
  PROVE  Files(c)
<1>1. Filed(c, b, 0) /\ Moves(c, b, 0, FALSE)
  BY MovedFiled DEF Handled
<1>. QED
  BY <1>1 DEF Files

LEMMA UsersFiles ==
  ASSUME Counters, NEW c \in Clients, HandleUsers(c) \/ RefuseUsers(c)
  PROVE  Files(c)
<1>. DEFINE m == Head(box[c].inbox)
            sums == [g \in Known(c) |-> Sum(gift[c][g])]
<1>1. box[c].inbox # <<>> /\ m.type # "sync_gifts"
  BY DEF HandleUsers, RefuseUsers, Handles
<1>2. \/ Handled(c, Rest(c), 0)
      \/ Handled(c, Post(Rest(c), Message("gifts_sha256", mid[c] + 1, m.mid, sums)), 1)
      \/ Error(c, Rest(c), m)
  BY DEF HandleUsers, RefuseUsers
<1>3. CASE Handled(c, Rest(c), 0)
  BY <1>1, <1>3, MovedFiles
<1>4. CASE Handled(c, Post(Rest(c), Message("gifts_sha256", mid[c] + 1, m.mid, sums)), 1)
  <2>. HIDE DEF sums
  <2>1. "gifts_sha256" \in Types \ {"sync_gifts", "send_gifts"}
    BY DEF Types, Answerable
  <2>2. Filed(c, Post(Rest(c), Message("gifts_sha256", mid[c] + 1, m.mid, sums)), 1)
    BY <1>1, <2>1, ReplyFiled
  <2>. QED
    BY <1>1, <1>4, <2>2 DEF Files, Handled
<1>5. CASE Error(c, Rest(c), m)
  BY <1>1, <1>5, ErrorFiles
<1>. QED
  BY <1>2, <1>3, <1>4, <1>5

LEMMA GiftsFiles ==
  ASSUME Counters, NEW c \in Clients, HandleGifts(c)
  PROVE  Files(c)
<1>. DEFINE m      == Head(box[c].inbox)
            theirs == DOMAIN m.body
            differ == {g \in Known(c) \intersect theirs : Sum(gift[c][g]) # m.body[g]}
            check  == [g \in differ |-> [sum |-> Sum(gift[c][g]), list |-> None]]
            whole  == SendItem(Whole(c, Known(c) \ theirs))
            ask    == IF theirs \subseteq Known(c) THEN <<>> ELSE Item("request_gifts", theirs \ Known(c))
            checks == IF differ = {} THEN <<>> ELSE Item("check_gifts", check)
            items  == whole \o ask \o checks
            b      == Moved(Rest(c), m, {"users_sha256"})
<1>1. box[c].inbox # <<>> /\ m.type # "sync_gifts"
  BY DEF HandleGifts, Handles
<1>2. Handled(c, Rest(c), 0) \/ Handled(c, b, 0) \/ Answer(c, b, m, items)
  BY DEF HandleGifts
<1>3. ItemsTyped(items)
  <2>1. ItemsTyped(whole)
    <3>. DEFINE w == Whole(c, Known(c) \ theirs)
    <3>. HIDE DEF w
    <3>. QED
      BY SendItemTyped DEF w
  <2>2. "request_gifts" \in Types \ {"sync_gifts", "send_gifts"} /\ "check_gifts" \in Types \ {"sync_gifts", "send_gifts"}
    BY DEF Types, Answerable
  <2>3. ItemsTyped(ask) /\ ItemsTyped(checks)
    <3>. HIDE DEF theirs, differ, check
    <3>1. ItemsTyped(Item("request_gifts", theirs \ Known(c))) /\ ItemsTyped(Item("check_gifts", check))
      BY <2>2, ItemTyped
    <3>. QED
      BY <3>1, NothingTyped
  <2>. HIDE DEF whole, ask, checks
  <2>. DEFINE two == whole \o ask
  <2>4. ItemsTyped(two) /\ items = two \o checks
    BY <2>1, <2>3, ItemsTypedConcat
  <2>. HIDE DEF two
  <2>. QED
    BY <2>3, <2>4, ItemsTypedConcat
<1>4. b = Rest(c) \/ \E types : b = Moved(Rest(c), m, types)
  OBVIOUS
<1>5. m = Head(box[c].inbox)
  OBVIOUS
<1>. HIDE DEF items, b, m
<1>6. CASE Handled(c, Rest(c), 0)
  BY <1>1, <1>6, MovedFiles
<1>7. CASE Handled(c, b, 0)
  BY <1>1, <1>4, <1>5, <1>7, MovedFiles
<1>8. CASE Answer(c, b, m, items)
  BY <1>1, <1>3, <1>4, <1>5, <1>8, AnswerFiles
<1>. QED
  BY <1>2, <1>6, <1>7, <1>8

LEMMA SyncFiles ==
  ASSUME NEW c \in Clients, HandleSync(c)
  PROVE  Files(c)
<1>. DEFINE m == Head(box[c].inbox)
            b == IF m.req = 0 THEN Rest(c) ELSE Moved(Rest(c), m, Answerable)
            d == [b EXCEPT !.inbox = @ \o m.body]
<1>1. box[c].inbox # <<>> /\ m.type = "sync_gifts"
  BY DEF HandleSync, Handles
<1>2. Handled(c, Rest(c), 0) \/ Handled(c, d, 0)
  BY DEF HandleSync
<1>3. Filed(c, d, 0)
  <2>1. b = Rest(c) \/ \E types : b = Moved(Rest(c), m, types)
    OBVIOUS
  <2>. HIDE DEF b
  <2>. QED
    BY <1>1, <2>1 DEF Filed
<1>4. CASE Handled(c, Rest(c), 0)
  BY <1>1, <1>4, MovedFiles
<1>5. CASE Handled(c, d, 0)
  <2>. HIDE DEF d, m
  <2>. QED
    BY <1>1, <1>3, <1>5 DEF Files, Handled
<1>. QED
  BY <1>2, <1>4, <1>5

LEMMA ErrorMessageFiles ==
  ASSUME NEW c \in Clients, HandleError(c)
  PROVE  Files(c)
<1>. DEFINE m     == Head(box[c].inbox)
            types == Answerable \union {"users_sha256"}
<1>1. box[c].inbox # <<>>
  BY DEF HandleError, Handles
<1>2. Handled(c, Rest(c), 0) \/ Handled(c, Moved(Rest(c), m, types), 0)
  BY DEF HandleError
<1>. QED
  BY <1>1, <1>2, MovedFiles

LEMMA AnswerGiftsFiles ==
  ASSUME Counters, NEW c \in Clients, box[c].inbox # <<>>, NEW m, m = Head(box[c].inbox), m.type # "sync_gifts",
         NEW clones, AnswerGifts(c, m, clones)
  PROVE  Files(c)
<1>1. ItemsTyped(SendItem(clones))
  BY SendItemTyped
<1>2. CASE Answer(c, Rest(c), m, SendItem(clones))
  BY <1>1, <1>2, AnswerFiles
<1>3. CASE Error(c, Rest(c), m)
  BY <1>3, ErrorFiles
<1>. QED
  BY <1>2, <1>3 DEF AnswerGifts

LEMMA RequestsFiles ==
  ASSUME Counters, NEW c \in Clients, HandleRequestGifts(c) \/ HandleRequestComments(c)
  PROVE  Files(c)
<1>. DEFINE m == Head(box[c].inbox)
            found(g) == {o.cid : o \in {o \in Cs(gift[c][g]) : o.v > 0 /\ o.cid \in m.body}}
            gs == {g \in Here(c) : found(g) # {}}
            clones == [i \in 1..Cardinality(gs) |-> Clone(Sorted(gs)[i], gift[c][Sorted(gs)[i]], found(Sorted(gs)[i]))]
            whole == Whole(c, m.body \intersect Here(c))
<1>1. box[c].inbox # <<>> /\ m.type # "sync_gifts" /\ m = Head(box[c].inbox)
  BY DEF HandleRequestGifts, HandleRequestComments, Handles
<1>2. AnswerGifts(c, m, whole) \/ AnswerGifts(c, m, clones)
  BY DEF HandleRequestGifts, HandleRequestComments
<1>. HIDE DEF m, whole, clones
<1>. QED
  BY <1>1, <1>2, AnswerGiftsFiles

LEMMA CheckFiles ==
  ASSUME Counters, NEW c \in Clients, HandleCheck(c)
  PROVE  Files(c)
<1>. DEFINE m == Head(box[c].inbox)
            x(g) == gift[c][g]
            samePart(g) == Sum(x(g)) # None /\ Part(x(g)) = m.body[g].sum.part
            sameComments(g) == Sum(x(g)) # None /\ Sum(x(g)).comments = m.body[g].sum.comments
            gs == {g \in DOMAIN m.body \intersect Here(c) : ~samePart(g) \/ ~sameComments(g)}
            differ == {g \in gs : ~sameComments(g)}
            lists == [g \in differ |-> [sum |-> Sum(x(g)), list |-> [k \in Held(x(g)) |-> The(x(g), k).h]]]
            news(g) == IF g \in differ
                       THEN {k \in Held(x(g)) : k \notin DOMAIN m.body[g].list \/ m.body[g].list[k] # The(x(g), k).h}
                       ELSE {}
            S == {g \in gs : ~samePart(g) \/ news(g) # {}}
            clones == [i \in 1..Cardinality(S) |-> Clone(Sorted(S)[i], x(Sorted(S)[i]), news(Sorted(S)[i]))]
            ask == UNION {DOMAIN m.body[g].list \ Held(x(g)) : g \in differ}
            asks == IF ask = {} THEN <<>> ELSE Item("request_comments", ask)
<1>1. box[c].inbox # <<>> /\ m.type # "sync_gifts" /\ m = Head(box[c].inbox)
  BY DEF HandleCheck, Handles
<1>2. \/ Error(c, Rest(c), m)
      \/ Answer(c, Rest(c), m, Item("check_gifts", lists))
      \/ Answer(c, Rest(c), m, SendItem(clones) \o asks)
  BY DEF HandleCheck
<1>. HIDE DEF lists, ask, clones, m
<1>3. ItemsTyped(Item("check_gifts", lists)) /\ ItemsTyped(asks)
  <2>1. "check_gifts" \in Types \ {"sync_gifts", "send_gifts"} /\ "request_comments" \in Types \ {"sync_gifts", "send_gifts"}
    BY DEF Types, Answerable
  <2>2. ItemsTyped(Item("check_gifts", lists)) /\ ItemsTyped(Item("request_comments", ask))
    BY <2>1, ItemTyped
  <2>. QED
    BY <2>2, NothingTyped
<1>. HIDE DEF asks
<1>4. ItemsTyped(SendItem(clones) \o asks)
  BY <1>3, SendItemTyped, ItemsTypedConcat
<1>5. CASE Error(c, Rest(c), m)
  BY <1>1, <1>5, ErrorFiles
<1>6. CASE Answer(c, Rest(c), m, Item("check_gifts", lists))
  BY <1>1, <1>3, <1>6, AnswerFiles
<1>7. CASE Answer(c, Rest(c), m, SendItem(clones) \o asks)
  BY <1>1, <1>4, <1>7, AnswerFiles
<1>. QED
  BY <1>2, <1>5, <1>6, <1>7

LEMMA SendFiles ==
  ASSUME Counters, NEW c \in Clients, HandleSend(c), IInv, TInv
  PROVE  Files(c)
<1>. DEFINE m     == Head(box[c].inbox)
            s     == [m.body EXCEPT !.count = IF @ > Patience THEN @ ELSE @ + 1]
            x(k)  == gift[c][k.gid]
            fails == {i \in DOMAIN s.gifts : Reached(s, s.gifts[i], x(s.gifts[i])) = "fails"}
            done  == {s.gifts[i] : i \in {i \in DOMAIN s.gifts : \A j \in fails : i < j}}
            wait  == \E k \in done : Waits(s, k, x(k))
            merge == {k \in done : Reached(s, k, x(k)) = "comments" /\ (x(k).here \/ ~Waits(s, k, x(k)))}
            back  == {k \in merge : Older(x(k), k, s) # {}}
            clone(g) == Clone(g, gift'[c][g], UNION {Older(x(k), k, s) : k \in {k \in back : k.gid = g}})
            gs    == {k.gid : k \in back}
            asked == s.asked \union UNION {Asks(s, k, x(k)) : k \in done}
            body  == [s EXCEPT !.asked = asked]
            late  == \E k \in done : Reached(s, k, x(k)) = "late"
            lateComments == \E k \in merge : \E n \in Fresh(x(k), k) : n.cid \notin s.ok
            clones == [i \in 1..Cardinality(gs) |-> clone(Sorted(gs)[i])]
            items == SendItem(clones)
<1>1. box[c].inbox # <<>> /\ m.type = "send_gifts" /\ m = Head(box[c].inbox)
  BY DEF HandleSend, Handles
<1>2. \/ Error(c, Rest(c), m)
      \/ Handled(c, [Rest(c) EXCEPT !.read = Append(@, [m EXCEPT !.body = body])], 0)
      \/ Moves(c, Rest(c), Len(items), late \/ lateComments)
      \/ Moves(c, Post(Rest(c), Sync(c, m.mid, items)), Len(items), late \/ lateComments)
  BY DEF HandleSend
<1>3. body.count \in 1..Patience + 1
  <2>1. BoxOk(box[c], signed) /\ BoxTyped(box[c], mid[c], mid[Peer(c)])
    BY DEF IInv, ClientOk, TInv, ClientTyped
  <2>2. PartOk(m, signed) \/ WholeOk(m, signed)
    BY <1>1, RestOk
  <2>3. PartTyped(m, mid[Peer(c)]) \/ WholeTyped(m, mid[Peer(c)])
    BY <1>1, <2>1, TailTyped DEF BoxOk, ListOk, BoxTyped
  <2>4. /\ m.body = [gifts |-> m.body.gifts, asked |-> m.body.asked, ok |-> m.body.ok, count |-> m.body.count]
        /\ m.body.count \in 0..Patience + 1
    BY <1>1, <2>2, <2>3 DEF PartOk, WholeOk, BodyOk, PartTyped, WholeTyped, Counted
  <2>5. Patience \in Nat
    BY BoundsAssumption
  <2>. DEFINE n == IF m.body.count > Patience THEN m.body.count ELSE m.body.count + 1
  <2>6. n \in 1..Patience + 1
    BY <2>4, <2>5
  <2>7. s = [m.body EXCEPT !.count = n]
    OBVIOUS
  <2>. HIDE DEF m, n, asked, s
  <2>8. s = [gifts |-> m.body.gifts, asked |-> m.body.asked, ok |-> m.body.ok, count |-> n]
    BY <2>4, <2>7
  <2>9. body.count = n
    BY <2>8
  <2>. QED
    BY <2>6, <2>9
<1>. HIDE DEF m, body, clones, late, lateComments
<1>. DEFINE its == SendItem(clones)
<1>4. ItemsTyped(items) /\ Len(items) \in Nat
  <2>1. items = its /\ ItemsTyped(its)
    BY SendItemTyped
  <2>. HIDE DEF items, its
  <2>2. Len(items) \in Nat
    BY <2>1 DEF ItemsTyped, IsList
  <2>. QED
    BY <2>1, <2>2
<1>. HIDE DEF items, its
<1>5. CASE Error(c, Rest(c), m)
  BY <1>1, <1>5, ErrorFiles
<1>6. CASE Handled(c, [Rest(c) EXCEPT !.read = Append(@, [m EXCEPT !.body = body])], 0)
  <2>. DEFINE b == [Rest(c) EXCEPT !.read = Append(@, [m EXCEPT !.body = body])]
  <2>1. Filed(c, b, 0)
    BY <1>1, <1>3 DEF Filed
  <2>. HIDE DEF b
  <2>2. Moves(c, b, 0, FALSE)
    BY <1>6 DEF Handled, b
  <2>. QED
    BY <1>1, <2>1, <2>2 DEF Files
<1>7. CASE Moves(c, Rest(c), Len(items), late \/ lateComments)
  <2>1. Filed(c, Rest(c), Len(items))
    BY DEF Filed
  <2>. QED
    BY <1>1, <1>4, <1>7, <2>1 DEF Files
<1>8. CASE Moves(c, Post(Rest(c), Sync(c, m.mid, items)), Len(items), late \/ lateComments)
  <2>. DEFINE b == Post(Rest(c), Sync(c, m.mid, items))
  <2>1. Filed(c, b, Len(items))
    BY <1>1, <1>4, AnswerFiled
  <2>. HIDE DEF b
  <2>2. Moves(c, b, Len(items), late \/ lateComments)
    BY <1>8 DEF b
  <2>. QED
    BY <1>1, <1>4, <2>1, <2>2 DEF Files
<1>. QED
  BY <1>2, <1>5, <1>6, <1>7, <1>8

LEMMA HandleFiles ==
  ASSUME IInv, TInv, NEW c \in Clients, Handle(c)
  PROVE  Files(c)
<1>1. Counters
  BY DEF TInv
<1>2. HandleUsers(c) \/ RefuseUsers(c) => Files(c)
  BY <1>1, UsersFiles
<1>3. HandleGifts(c) \/ HandleSync(c) \/ HandleError(c) => Files(c)
  BY <1>1, GiftsFiles, SyncFiles, ErrorMessageFiles
<1>4. HandleRequestGifts(c) \/ HandleRequestComments(c) \/ HandleCheck(c) => Files(c)
  BY <1>1, RequestsFiles, CheckFiles
<1>5. HandleSend(c) => Files(c)
  BY <1>1, SendFiles
<1>. QED
  BY <1>2, <1>3, <1>4, <1>5 DEF Handle

----------------------------------------------------------------------------
\* The types after a message was handled.

\* What move_previous_message leaves in a list, and what it closes.
Left(s, m, types)   == {i \in DOMAIN s : ~IsRequest(s[i], m, types)}
Closes(s, m, types) == {o.req : o \in {o \in Range(s) : IsRequest(o, m, types)}} \ {0}

LEMMA MovedIs ==
  ASSUME NEW b, NEW m, NEW types
  PROVE  \/ Moved(b, m, types) = [b EXCEPT !.sent = At(b.sent, Left(b.sent, m, types)),
                                           !.closed = b.closed \union Closes(b.sent, m, types)]
         \/ Moved(b, m, types) = [b EXCEPT !.outbox = At(b.outbox, Left(b.outbox, m, types)),
                                           !.closed = b.closed \union Closes(b.outbox, m, types)]
<1>. DEFINE in == IF \E o \in Range(b.sent) : IsRequest(o, m, types) THEN b.sent ELSE b.outbox
            rest == Picked(in, LAMBDA o : ~IsRequest(o, m, types))
            closed == b.closed \union ({o.req : o \in {o \in Range(in) : IsRequest(o, m, types)}} \ {0})
<1>1. Moved(b, m, types) = IF in = b.sent THEN [b EXCEPT !.sent = rest, !.closed = closed]
                                          ELSE [b EXCEPT !.outbox = rest, !.closed = closed]
  BY DEF Moved
<1>2. rest = At(in, Left(in, m, types)) /\ closed = b.closed \union Closes(in, m, types)
  <2>. HIDE DEF in
  <2>. QED
    BY DEF Picked, With, Left, Closes
<1>3. in = b.sent \/ in = b.outbox
  OBVIOUS
<1>. HIDE DEF in, rest, closed
<1>. QED
  BY <1>1, <1>2, <1>3

\* A mailbox that differs in what is filed only.
Beside(b, d) == b.sending = d.sending /\ b.sendG = d.sendG /\ b.sendC = d.sendC /\ b.askC = d.askC

LEMMA MovedTyped ==
  ASSUME NEW b, BoxOk(b, signed), NEW N, NEW M, BoxTyped(b, N, M), NEW m, NEW types, NEW d, d = Moved(b, m, types)
  PROVE  BoxTyped(d, N, M) /\ Beside(d, b) /\ d.inbox = b.inbox /\ d.read = b.read
<1>1. IsList(b.sent) /\ IsList(b.outbox)
  BY DEF BoxOk, BoxTyped, ListOk
<1>. DEFINE s == At(b.sent, Left(b.sent, m, types))
            r == At(b.outbox, Left(b.outbox, m, types))
            cs == b.closed \union Closes(b.sent, m, types)
            cr == b.closed \union Closes(b.outbox, m, types)
<1>2. d = [b EXCEPT !.sent = s, !.closed = cs] \/ d = [b EXCEPT !.outbox = r, !.closed = cr]
  BY MovedIs
<1>3. IsList(s) /\ \A i \in DOMAIN s : s[i].type \in Types
  <2>1. Left(b.sent, m, types) \in SUBSET DOMAIN b.sent
    BY DEF Left
  <2>2. IsList(s) /\ \A i \in DOMAIN s : \E n \in DOMAIN b.sent : s[i] = b.sent[n]
    BY <1>1, <2>1, ListPart
  <2>. HIDE DEF s
  <2>. QED
    BY <2>2 DEF BoxTyped
<1>4. ListTyped(r, N)
  <2>1. Left(b.outbox, m, types) \in SUBSET DOMAIN b.outbox
    BY DEF Left
  <2>. QED
    BY <1>1, <2>1, PartsTyped DEF BoxTyped
<1>. HIDE DEF s, r, cs, cr
<1>5. CASE d = [b EXCEPT !.sent = s, !.closed = cs]
  <2>1. d = [inbox |-> b.inbox, read |-> b.read, outbox |-> b.outbox, sending |-> b.sending, sent |-> s,
             closed |-> cs, sendG |-> b.sendG, sendC |-> b.sendC, askC |-> b.askC]
    BY <1>5 DEF BoxOk
  <2>. QED
    BY <1>3, <2>1 DEF BoxTyped, Beside
<1>6. CASE d = [b EXCEPT !.outbox = r, !.closed = cr]
  <2>1. d = [inbox |-> b.inbox, read |-> b.read, outbox |-> r, sending |-> b.sending, sent |-> b.sent,
             closed |-> cr, sendG |-> b.sendG, sendC |-> b.sendC, askC |-> b.askC]
    BY <1>6 DEF BoxOk
  <2>. QED
    BY <1>4, <2>1 DEF BoxTyped, Beside
<1>. QED
  BY <1>2, <1>5, <1>6

LEMMA RestTyped ==
  ASSUME IInv, TInv, NEW c \in Clients, box[c].inbox # <<>>
  PROVE  /\ BoxTyped(Rest(c), mid[c], mid[Peer(c)]) /\ Beside(Rest(c), box[c]) /\ BoxOk(Rest(c), signed)
         /\ LET m == Head(box[c].inbox)
            IN  (PartOk(m, signed) /\ PartTyped(m, mid[Peer(c)])) \/ (WholeOk(m, signed) /\ WholeTyped(m, mid[Peer(c)]))
<1>1. BoxTyped(box[c], mid[c], mid[Peer(c)]) /\ BoxOk(box[c], signed) /\ BoxOk(Rest(c), signed)
  BY RestOk DEF TInv, ClientTyped, IInv, ClientOk
<1>. DEFINE s == Tail(box[c].inbox)
            m == Head(box[c].inbox)
<1>2. ListTyped(s, mid[Peer(c)]) /\ (PartTyped(m, mid[Peer(c)]) \/ WholeTyped(m, mid[Peer(c)]))
  BY <1>1, TailTyped DEF BoxOk, ListOk, BoxTyped
<1>3. PartOk(m, signed) \/ WholeOk(m, signed)
  BY RestOk
<1>4. Rest(c) = [box[c] EXCEPT !.inbox = s]
  BY DEF Rest
<1>. HIDE DEF s, m
<1>5. BoxTyped(Rest(c), mid[c], mid[Peer(c)]) /\ Beside(Rest(c), box[c])
  BY <1>1, <1>2, <1>4 DEF BoxOk, BoxTyped, Beside
<1>6. (PartOk(m, signed) /\ PartTyped(m, mid[Peer(c)])) \/ (WholeOk(m, signed) /\ WholeTyped(m, mid[Peer(c)]))
  BY <1>2, <1>3 DEF PartOk, WholeOk, PartTyped, WholeTyped
<1>. QED
  BY <1>1, <1>5, <1>6 DEF m

\* A mailbox with other messages filed.
LEMMA BoxTypedWith ==
  ASSUME NEW b, NEW N \in Nat, NEW M \in Nat, NEW n \in Nat, BoxOk(b, signed), BoxTyped(b, N, M), NEW d, NEW s,
         \/ d = [b EXCEPT !.outbox = s] /\ ListTyped(s, N + n)
         \/ d = [b EXCEPT !.inbox = s] /\ ListTyped(s, M)
         \/ d = [b EXCEPT !.read = s] /\ ListTyped(s, M) /\ \A i \in DOMAIN s : s[i].body.count >= 1
  PROVE  BoxTyped(d, N + n, M) /\ Beside(d, b)
<1>1. \A t : ListTyped(t, N) => ListTyped(t, N + n)
  <2>1. N <= N + n /\ N + n \in Nat
    OBVIOUS
  <2>. QED
    BY <2>1, TypedLater
<1>. QED
  BY <1>1 DEF BoxOk, BoxTyped, Beside

LEMMA FiledTyped ==
  ASSUME IInv, TInv, NEW c \in Clients, box[c].inbox # <<>>, NEW n \in Nat, NEW b, Filed(c, b, n)
  PROVE  BoxTyped(b, mid[c] + n, mid[Peer(c)]) /\ Beside(b, box[c])
<1>. DEFINE m == Head(box[c].inbox)
            N == mid[c]
            M == mid[Peer(c)]
<1>1. N \in Nat /\ M \in Nat
  BY PeerOf DEF TInv, Counters
<1>2. PICK b0 : /\ b0 = Rest(c) \/ \E types : b0 = Moved(Rest(c), m, types)
                /\ \/ b = b0
                   \/ m.type # "sync_gifts" /\ \E w : Newly(w, N, n) /\ w.req = m.mid /\ b = Post(b0, w)
                   \/ m.type = "sync_gifts" /\ b = [b0 EXCEPT !.inbox = @ \o m.body]
                   \/ /\ m.type = "send_gifts" /\ b0 = Rest(c)
                      /\ \E body : /\ body.count \in 1..Patience + 1
                                   /\ b = [b0 EXCEPT !.read = Append(@, [m EXCEPT !.body = body])]
  BY DEF Filed
<1>3. /\ BoxTyped(Rest(c), N, M) /\ Beside(Rest(c), box[c]) /\ BoxOk(Rest(c), signed)
      /\ (PartOk(m, signed) /\ PartTyped(m, M)) \/ (WholeOk(m, signed) /\ WholeTyped(m, M))
  BY RestTyped
<1>. HIDE DEF m, N, M
<1>4. BoxTyped(b0, N, M) /\ Beside(b0, box[c]) /\ BoxOk(b0, signed)
  <2>1. CASE b0 = Rest(c)
    BY <1>3, <2>1
  <2>2. ASSUME NEW types, b0 = Moved(Rest(c), m, types)
        PROVE  BoxTyped(b0, N, M) /\ Beside(b0, box[c]) /\ BoxOk(b0, signed)
    <3>1. BoxTyped(b0, N, M) /\ Beside(b0, Rest(c))
      BY <1>3, <2>2, MovedTyped
    <3>2. BoxOk(b0, signed)
      BY <1>3, <2>2, MovedOk
    <3>. QED
      BY <1>3, <3>1, <3>2 DEF Beside
  <2>. QED
    BY <1>2, <2>1, <2>2
<1>5. IsList(b0.outbox) /\ IsList(b0.inbox) /\ IsList(b0.read)
  BY <1>4 DEF BoxOk, ListOk
<1>6. ASSUME b = b0
      PROVE  BoxTyped(b, N + n, M) /\ Beside(b, box[c])
  <2>. DEFINE s == b0.outbox
  <2>1. ListTyped(s, N + n) /\ b = [b0 EXCEPT !.outbox = s]
    <3>1. N <= N + n /\ N + n \in Nat
      BY <1>1
    <3>2. \A t : ListTyped(t, N) => ListTyped(t, N + n)
      BY <1>1, <3>1, TypedLater
    <3>. QED
      BY <1>4, <1>6, <3>2 DEF BoxTyped, BoxOk
  <2>. HIDE DEF s
  <2>2. BoxTyped(b, N + n, M)
    BY <1>1, <1>4, <2>1, BoxTypedWith
  <2>. QED
    BY <1>4, <1>6, <2>2
<1>7. ASSUME NEW w, Newly(w, N, n), b = Post(b0, w)
      PROVE  BoxTyped(b, N + n, M) /\ Beside(b, box[c])
  <2>. DEFINE s == Append(b0.outbox, w)
  <2>1. ListTyped(s, N + n) /\ b = [b0 EXCEPT !.outbox = s]
    <3>1. N <= N + n /\ N + n \in Nat
      BY <1>1
    <3>2. ListTyped(b0.outbox, N + n)
      BY <1>1, <1>4, <3>1, TypedLater DEF BoxTyped
    <3>3. PartTyped(w, N + n) \/ WholeTyped(w, N + n)
      BY <1>7 DEF Newly
    <3>4. b = [b0 EXCEPT !.outbox = s]
      BY <1>7 DEF Post
    <3>. QED
      BY <1>5, <3>2, <3>3, <3>4, AppendTyped
  <2>. HIDE DEF s
  <2>2. BoxTyped(b, N + n, M) /\ Beside(b, b0)
    BY <1>1, <1>4, <2>1, BoxTypedWith
  <2>. QED
    BY <1>4, <2>2 DEF Beside
<1>8. ASSUME m.type = "sync_gifts", b = [b0 EXCEPT !.inbox = @ \o m.body]
      PROVE  BoxTyped(b, N + n, M) /\ Beside(b, box[c])
  <2>. DEFINE s == b0.inbox \o m.body
  <2>1. IsList(m.body) /\ ListTyped(m.body, M)
    BY <1>3, <1>8 DEF WholeOk, PartOk, WholeTyped, ListTyped
  <2>2. ListTyped(s, M) /\ b = [b0 EXCEPT !.inbox = s]
    BY <1>4, <1>5, <1>8, <2>1, ConcatTyped DEF BoxTyped
  <2>. HIDE DEF s
  <2>3. BoxTyped(b, N + n, M) /\ Beside(b, b0)
    BY <1>1, <1>4, <2>2, BoxTypedWith
  <2>. QED
    BY <1>4, <2>3 DEF Beside
<1>9. ASSUME m.type = "send_gifts", NEW body, body.count \in 1..Patience + 1,
             b = [b0 EXCEPT !.read = Append(@, [m EXCEPT !.body = body])]
      PROVE  BoxTyped(b, N + n, M) /\ Beside(b, box[c])
  <2>. DEFINE w == [m EXCEPT !.body = body]
              s == Append(b0.read, w)
  <2>1. Patience \in Nat
    BY BoundsAssumption
  <2>2. PartTyped(m, M) /\ Shaped(m)
    BY <1>3, <1>9 DEF WholeTyped, PartOk
  <2>3. w = Message(m.type, m.mid, m.req, body)
    BY <2>2 DEF Shaped, Message
  <2>4. b = [b0 EXCEPT !.read = s]
    BY <1>9
  <2>. HIDE DEF w
  <2>5. w.type = m.type /\ w.mid = m.mid /\ w.body = body
    BY <2>3 DEF Message
  <2>6. PartTyped(w, M)
    BY <1>9, <2>1, <2>2, <2>5 DEF PartTyped, Counted
  <2>7. ListTyped(s, M)
    BY <1>4, <1>5, <2>6, AppendTyped DEF BoxTyped
  <2>8. \A i \in DOMAIN s : s[i].body.count >= 1
    <3>1. \A i \in DOMAIN s : s[i] = w \/ \E j \in DOMAIN b0.read : s[i] = b0.read[j]
      BY <1>5, OneMore
    <3>2. \A j \in DOMAIN b0.read : b0.read[j].body.count >= 1
      BY <1>4 DEF BoxTyped
    <3>3. w.body.count >= 1
      BY <1>9, <2>1, <2>5
    <3>. HIDE DEF s
    <3>. QED
      BY <3>1, <3>2, <3>3
  <2>. HIDE DEF s
  <2>9. BoxTyped(b, N + n, M) /\ Beside(b, b0)
    BY <1>1, <1>4, <2>4, <2>7, <2>8, BoxTypedWith
  <2>. QED
    BY <1>4, <2>9 DEF Beside
<1>10. BoxTyped(b, N + n, M) /\ Beside(b, box[c])
  BY <1>2, <1>4, <1>6, <1>7, <1>8, <1>9
<1>. QED
  BY <1>10 DEF N, M

\* The gifts a step leaves: those that were there are there, and there is nothing of the others.
Stays(gs, ns) == HereIn(gs) \subseteq HereIn(ns) /\ \A g \in Gifts : ~ns[g].here => ns[g] = Nothing

LEMMA HandleGiftsStay ==
  ASSUME IInv, TInv, NEW c \in Clients, Handle(c)
  PROVE  \E gs : gift' = [gift EXCEPT ![c] = gs] /\ Stays(gift[c], gs)
<1>1. \A g \in Gifts : ~gift[c][g].here => gift[c][g] = Nothing
  BY DEF TInv, ClientTyped
<1>2. gift' = gift \/ HandleSend(c)
  BY DEF Handle, HandleUsers, RefuseUsers, HandleGifts, HandleSync, HandleError, HandleRequestGifts,
         HandleRequestComments, HandleCheck
<1>3. CASE gift' = gift
  <2>1. gift' = [gift EXCEPT ![c] = gift[c]]
    BY <1>3 DEF IInv
  <2>2. Stays(gift[c], gift[c])
    BY <1>1 DEF Stays
  <2>. QED
    BY <2>1, <2>2
<1>4. CASE HandleSend(c)
  <2>1. PICK T, K, s : gift' = [gift EXCEPT ![c] = [g \in Gifts |-> IF g \in T THEN Merged(gift[c][g], K[g], s) ELSE gift[c][g]]]
    <3>. DEFINE m == Head(box[c].inbox)
                s == [m.body EXCEPT !.count = IF @ > Patience THEN @ ELSE @ + 1]
                x(k) == gift[c][k.gid]
                fails == {i \in DOMAIN s.gifts : Reached(s, s.gifts[i], x(s.gifts[i])) = "fails"}
                done == {s.gifts[i] : i \in {i \in DOMAIN s.gifts : \A j \in fails : i < j}}
                merge == {k \in done : Reached(s, k, x(k)) = "comments" /\ (x(k).here \/ ~Waits(s, k, x(k)))}
                T == {g \in Gifts : \E k \in merge : k.gid = g}
                K == [g \in Gifts |-> CHOOSE k \in merge : k.gid = g]
    <3>1. gift' = [gift EXCEPT ![c] = [g \in Gifts |->
             IF \E k \in merge : k.gid = g THEN Merged(gift[c][g], CHOOSE k \in merge : k.gid = g, s) ELSE gift[c][g]]]
      BY <1>4 DEF HandleSend, IInv
    <3>. HIDE DEF merge, s
    <3>2. [g \in Gifts |-> IF \E k \in merge : k.gid = g THEN Merged(gift[c][g], CHOOSE k \in merge : k.gid = g, s) ELSE gift[c][g]]
          = [g \in Gifts |-> IF g \in T THEN Merged(gift[c][g], K[g], s) ELSE gift[c][g]]
      OBVIOUS
    <3>3. gift' = [gift EXCEPT ![c] = [g \in Gifts |-> IF g \in T THEN Merged(gift[c][g], K[g], s) ELSE gift[c][g]]]
      BY <3>1, <3>2
    <3>. HIDE DEF T, K
    <3>. QED
      BY <3>3
  <2>. DEFINE gs == [g \in Gifts |-> IF g \in T THEN Merged(gift[c][g], K[g], s) ELSE gift[c][g]]
  <2>2. ASSUME NEW g \in Gifts
        PROVE  Merged(gift[c][g], K[g], s).here = TRUE
    <3>1. GiftOk(g, gift[c][g], signed)
      BY DEF IInv, ClientOk, GiftsOk
    <3>2. gift[c][g] \in [here : BOOLEAN, gone : {"no", "asked", "done"}, comments : Seq(Comment)]
      BY <3>1 DEF GiftOk
    <3>. QED
      BY <3>2 DEF Merged
  <2>3. Stays(gift[c], gs)
    BY <1>1, <2>2 DEF Stays, HereIn
  <2>. QED
    BY <2>1, <2>3
<1>. QED
  BY <1>2, <1>3, <1>4

LEMMA HandleTyped ==
  ASSUME IInv, TInv, NEW c \in Clients, Handle(c)
  PROVE  TInv'
<1>0. PICK b : \E n \in Nat : \E f : box[c].inbox # <<>> /\ Moves(c, b, n, f) /\ Filed(c, b, n)
  BY HandleFiles DEF Files
<1>m. PICK n \in Nat : \E f : box[c].inbox # <<>> /\ Moves(c, b, n, f) /\ Filed(c, b, n)
  BY <1>0
<1>1. PICK f : box[c].inbox # <<>> /\ Moves(c, b, n, f) /\ Filed(c, b, n)
  BY <1>m
<1>2. PICK gs : gift' = [gift EXCEPT ![c] = gs] /\ Stays(gift[c], gs)
  BY HandleGiftsStay
<1>3. BoxTyped(b, mid[c] + n, mid[Peer(c)]) /\ Beside(b, box[c])
  BY <1>1, FiledTyped
<1>4. /\ box' = [box EXCEPT ![c] = b] /\ mid' = [mid EXCEPT ![c] = @ + n]
      /\ contact' = contact /\ ping' = ping /\ store' = store /\ faults' = faults
  BY <1>1 DEF Moves
<1>5. /\ mid \in [Clients -> Nat] /\ contact \in [Clients -> 0..2] /\ faults \in Nat
      /\ gift = [d \in Clients |-> gift[d]] /\ box = [d \in Clients |-> box[d]]
  BY DEF TInv, Counters, IInv
<1>6. mid'[c] = mid[c] + n /\ mid[c] <= mid'[c] /\ box'[c] = b /\ mid' \in [Clients -> Nat]
  BY <1>4, <1>5
<1>7. Counters'
  BY <1>4, <1>5, <1>6 DEF Counters
<1>8. \A d \in Clients \ {c} : box'[d] = box[d] /\ ping'[d] = ping[d] /\ mid'[d] = mid[d] /\ contact'[d] = contact[d]
  BY <1>4, <1>5
<1>9. \A d \in Clients : ListTyped(store'[d], mid'[Peer(d)])
  <2>. SUFFICES ASSUME NEW d \in Clients
                PROVE  ListTyped(store[d], mid'[Peer(d)])
    BY <1>4
  <2>1. ListTyped(store[d], mid[Peer(d)]) /\ Peer(d) \in Clients
    BY PeerOf DEF TInv
  <2>2. mid[Peer(d)] \in Nat /\ mid'[Peer(d)] \in Nat /\ mid[Peer(d)] <= mid'[Peer(d)]
    BY <1>4, <1>5, <2>1
  <2>. QED
    BY <2>1, <2>2, TypedLater
<1>10. ClientTyped(gs, contact'[c], box'[c], ping'[c], mid'[c], mid[Peer(c)])
  <2>1. ClientTyped(gift[c], contact[c], box[c], ping[c], mid[c], mid[Peer(c)])
    BY DEF TInv
  <2>2. contact[c] # 0
    BY <1>1, <2>1 DEF ClientTyped, EmptyBox
  <2>3. PingTyped(gs, b, ping[c], mid[Peer(c)]) /\ b.sendG \subseteq HereIn(gs)
    BY <1>2, <1>3, <2>1 DEF ClientTyped, PingTyped, Stays, Beside
  <2>. QED
    BY <1>2, <1>3, <1>4, <1>6, <2>2, <2>3 DEF ClientTyped, Stays
<1>. QED
  BY <1>2, <1>5, <1>6, <1>7, <1>8, <1>9, <1>10, TypedFrame

----------------------------------------------------------------------------
\* Messages that are sent.

\* Numbers: induction, from the least one that a set has not.
LEMMA Least ==
  ASSUME NEW S \in SUBSET Nat, S # {}
  PROVE  \E n \in S : \A m \in S : n <= m
<1>1. IsWellFoundedOn(OpToRel(<, Nat), Nat)
  BY NatLessThanWellFounded
<1>2. \E n \in S : \A m \in S : ~ (<<m, n>> \in OpToRel(<, Nat))
  BY <1>1, WFMin
<1>3. PICK n \in S : \A m \in S : ~ (<<m, n>> \in OpToRel(<, Nat))
  BY <1>2
<1>4. \A m \in S : ~ (m < n)
  BY <1>3 DEF OpToRel
<1>. QED
  BY <1>4

\* Induction: a set with 0 and all successors of its members is Nat.
LEMMA FromZero ==
  ASSUME NEW S \in SUBSET Nat, 0 \in S, \A n \in S : n + 1 \in S
  PROVE  Nat \subseteq S
<1>. SUFFICES ASSUME Nat \ S # {} PROVE FALSE
  OBVIOUS
<1>1. PICK n \in Nat \ S : \A m \in Nat \ S : n <= m
  BY Least
<1>2. n - 1 \in S
  BY <1>1
<1>. QED
  BY <1>1, <1>2

\* The sent folder after each of the messages.
Keeping(kept, b) ==
  /\ Sent(b) = [b EXCEPT !.sent = kept[Len(b.sending)], !.sending = <<>>] /\ kept[0] = b.sent
  /\ \A n \in 1..Len(b.sending) : kept[n] = Keep(kept[n - 1], b.sending[n])

LEMMA SentChain ==
  ASSUME NEW b, IsList(b.sending)
  PROVE  \E kept : Keeping(kept, b)
<1>. DEFINE Is(f, n) == f = [i \in 0..n |-> IF i = 0 THEN b.sent ELSE Keep(f[i - 1], b.sending[i])]
            S == {n \in Nat : \E f : Is(f, n)}
            N == Len(b.sending)
<1>0. N \in Nat
  BY DEF IsList
<1>1. 0 \in S
  <2>. DEFINE f == [i \in 0..0 |-> b.sent]
  <2>1. Is(f, 0)
    OBVIOUS
  <2>. QED
    BY <2>1
<1>2. ASSUME NEW n \in S
      PROVE  n + 1 \in S
  <2>1. PICK f : Is(f, n)
    OBVIOUS
  <2>. DEFINE g == [i \in 0..(n + 1) |-> IF i = n + 1 THEN Keep(f[n], b.sending[i]) ELSE f[i]]
  <2>2. ASSUME NEW i \in 0..(n + 1)
        PROVE  g[i] = IF i = 0 THEN b.sent ELSE Keep(g[i - 1], b.sending[i])
    <3>1. CASE i = n + 1
      <4>1. g[i - 1] = f[n]
        BY <3>1
      <4>. QED
        BY <3>1, <4>1
    <3>2. CASE i # n + 1
      <4>1. i \in 0..n /\ (i # 0 => g[i - 1] = f[i - 1])
        BY <3>2
      <4>. QED
        BY <2>1, <3>2, <4>1
    <3>. QED
      BY <3>1, <3>2
  <2>3. Is(g, n + 1)
    BY <2>2
  <2>. HIDE DEF Is
  <2>4. \E h : Is(h, n + 1)
    BY <2>3
  <2>. QED
    BY <2>4
<1>3. \E f : Is(f, N)
  <2>1. S \in SUBSET Nat
    OBVIOUS
  <2>2. N \in S
    <3>. HIDE DEF S
    <3>. QED  BY <1>0, <1>1, <1>2, <2>1, FromZero
  <2>. HIDE DEF Is
  <2>. QED
    BY <2>2
<1>. DEFINE kept == CHOOSE f : Is(f, N)
<1>4. Is(kept, N)
  <2>. HIDE DEF Is
  <2>. QED  BY <1>3
<1>5. Sent(b) = [b EXCEPT !.sent = kept[N], !.sending = <<>>]
  BY DEF Sent
<1>. HIDE DEF kept
<1>6. kept[0] = b.sent /\ \A n \in 1..N : kept[n] = Keep(kept[n - 1], b.sending[n])
  BY <1>0, <1>4
<1>7. Keeping(kept, b)
  BY <1>5, <1>6 DEF Keeping
<1>. QED
  BY <1>7

\* What is kept of a message.
Brief(m) ==
  IF m.type = "sync_gifts"
  THEN [i \in DOMAIN m.body |-> [type |-> m.body[i].type, mid |-> m.body[i].mid, req |-> 0]]
  ELSE <<[type |-> m.type, mid |-> m.mid, req |-> m.req]>>

LEMMA KeepIs ==
  ASSUME NEW s, IsList(s), NEW m, m.type = "sync_gifts" => IsList(m.body)
  PROVE  /\ IsList(Brief(m)) /\ IsList(Keep(s, m)) /\ IsList(s \o Brief(m))
         /\ Keep(s, m) = s \o Brief(m) \/ (s \o Brief(m) # <<>> /\ Keep(s, m) = Tail(s \o Brief(m)))
<1>. DEFINE t == s \o Brief(m)
<1>1. IsList(Brief(m))
  <2>1. CASE m.type = "sync_gifts"
    <3>1. DOMAIN m.body = 1..Len(m.body) /\ Len(m.body) \in Nat
      BY <2>1 DEF IsList
    <3>. DEFINE F == [i \in DOMAIN m.body |-> [type |-> m.body[i].type, mid |-> m.body[i].mid, req |-> 0]]
    <3>2. F = [i \in 1..Len(m.body) |-> F[i]]
      BY <3>1
    <3>3. Brief(m) = F
      BY <2>1 DEF Brief
    <3>. HIDE DEF F
    <3>4. IsList(F)
      BY <3>1, <3>2, Listed
    <3>. QED
      BY <3>3, <3>4
  <2>2. CASE m.type # "sync_gifts"
    <3>. DEFINE w == [type |-> m.type, mid |-> m.mid, req |-> m.req]
    <3>1. Brief(m) = <<w>>
      BY <2>2 DEF Brief
    <3>. HIDE DEF w
    <3>. QED
      BY <3>1, ShortLists
  <2>. QED
    BY <2>1, <2>2
<1>2. IsList(t)
  BY <1>1, Concatenated
<1>3. Keep(s, m) = IF Len(t) > Kept THEN Tail(t) ELSE t
  BY DEF Keep, Brief
<1>. HIDE DEF t
<1>4. Len(t) > Kept => t # <<>>
  BY BoundsAssumption
<1>5. Keep(s, m) = t \/ (t # <<>> /\ Keep(s, m) = Tail(t))
  BY <1>3, <1>4
<1>6. IsList(Keep(s, m))
  BY <1>2, <1>5, OneLess
<1>. QED
  BY <1>1, <1>2, <1>5, <1>6 DEF t

TypesIn(s) == IsList(s) /\ \A i \in DOMAIN s : s[i].type \in Types

LEMMA KeepTyped ==
  ASSUME NEW s, TypesIn(s), NEW m, NEW N, PartTyped(m, N) \/ WholeTyped(m, N), m.type = "sync_gifts" => IsList(m.body)
  PROVE  TypesIn(Keep(s, m))
<1>. DEFINE f == Brief(m)
            t == s \o Brief(m)
            u == Keep(s, m)
<1>1. IsList(f) /\ IsList(u) /\ IsList(t) /\ (u = t \/ (t # <<>> /\ u = Tail(t)))
  BY KeepIs DEF TypesIn
<1>2. \A i \in DOMAIN f : f[i].type \in Types
  <2>1. CASE m.type = "sync_gifts"
    <3>1. f = [i \in DOMAIN m.body |-> [type |-> m.body[i].type, mid |-> m.body[i].mid, req |-> 0]]
      BY <2>1 DEF Brief
    <3>2. \A i \in DOMAIN m.body : m.body[i].type \in Types
      BY <2>1 DEF PartTyped, WholeTyped
    <3>. HIDE DEF f
    <3>. QED
      BY <3>1, <3>2
  <2>2. CASE m.type # "sync_gifts"
    <3>. DEFINE w == [type |-> m.type, mid |-> m.mid, req |-> m.req]
    <3>1. f = <<w>> /\ w.type \in Types
      BY <2>2 DEF Brief, PartTyped, WholeTyped
    <3>. HIDE DEF w, f
    <3>. QED
      BY <3>1, ShortLists
  <2>. QED
    BY <2>1, <2>2
<1>3. From(t, s, f)
  BY <1>1, Concatenated DEF TypesIn
<1>. HIDE DEF f, t, u
<1>4. \A i \in DOMAIN t : t[i].type \in Types
  BY <1>2, <1>3 DEF From, TypesIn
<1>5. \A i \in DOMAIN u : u[i].type \in Types
  BY <1>1, <1>4, OneLess
<1>. QED
  BY <1>1, <1>5 DEF TypesIn, u

LEMMA SentTyped ==
  ASSUME NEW b, BoxOk(b, signed), NEW N, NEW M, BoxTyped(b, N, M), NEW d, d = Sent(b)
  PROVE  /\ BoxTyped(d, N, M) /\ BoxOk(d, signed)
         /\ d.sendG = b.sendG /\ d.askC = b.askC /\ d.sending = <<>>
<1>1. IsList(b.sending) /\ ListTyped(b.sending, N) /\ ListOk(b.sending, signed)
  BY DEF BoxOk, ListOk, BoxTyped
<1>2. PICK kept : Keeping(kept, b)
  BY <1>1, SentChain
<1>. DEFINE L == Len(b.sending)
            S == {n \in Nat : n <= L => TypesIn(kept[n])}
<1>3. L \in Nat /\ DOMAIN b.sending = 1..L
  BY <1>1 DEF IsList
<1>4. 0 \in S
  BY <1>2 DEF Keeping, BoxTyped, TypesIn
<1>5. ASSUME NEW n \in S
      PROVE  n + 1 \in S
  <2>. SUFFICES ASSUME n + 1 <= L
                PROVE  TypesIn(kept[n + 1])
    OBVIOUS
  <2>1. n \in Nat /\ n + 1 \in 1..L /\ (n + 1) - 1 = n /\ TypesIn(kept[n])
    BY <1>3
  <2>2. kept[n + 1] = Keep(kept[n], b.sending[n + 1])
    BY <1>2, <2>1 DEF Keeping
  <2>. DEFINE m == b.sending[n + 1]
  <2>3. (PartTyped(m, N) \/ WholeTyped(m, N)) /\ (PartOk(m, signed) \/ WholeOk(m, signed))
    BY <1>1, <1>3, <2>1 DEF ListTyped, ListOk
  <2>. HIDE DEF m
  <2>4. m.type = "sync_gifts" => IsList(m.body)
    BY <2>3 DEF PartOk, WholeOk
  <2>. QED
    BY <2>1, <2>2, <2>3, <2>4, KeepTyped DEF m
<1>6. TypesIn(kept[L])
  <2>1. S \in SUBSET Nat
    OBVIOUS
  <2>2. L \in S
    <3>. HIDE DEF S
    <3>. QED  BY <1>3, <1>4, <1>5, <2>1, FromZero
  <2>. QED
    BY <1>3, <2>2
<1>. DEFINE s == kept[L]
<1>7. d = [b EXCEPT !.sent = s, !.sending = <<>>]
  BY <1>2 DEF Keeping
<1>. HIDE DEF s, L
<1>8. ListTyped(<<>>, N)
  BY ShortLists DEF ListTyped
<1>9. BoxTyped(d, N, M) /\ d.sendG = b.sendG /\ d.askC = b.askC /\ d.sending = <<>>
  <2>1. d = [inbox |-> b.inbox, read |-> b.read, outbox |-> b.outbox, sending |-> <<>>, sent |-> s,
             closed |-> b.closed, sendG |-> b.sendG, sendC |-> b.sendC, askC |-> b.askC]
    BY <1>7 DEF BoxOk
  <2>2. TypesIn(s)
    BY <1>6 DEF s
  <2>. QED
    BY <1>8, <2>1, <2>2 DEF BoxTyped, TypesIn
<1>. QED
  BY <1>9, SentOk

\* What is sent: messages of the outbox, and a push.
Increment(c) == IF contact[c] < 2 THEN 0 ELSE Len(Pushed(c))
IsPush(push, c) ==
  push = <<>> \/ \E w : push = <<w>> /\ Newly(w, mid[c], Increment(c)) /\ w.req = 0 /\ w.type = "sync_gifts"
SentOf(c, push, I) ==
  /\ IsPush(push, c) /\ IsList(push) /\ I \in SUBSET DOMAIN (box[c].outbox \o push)
  /\ Out(c) = At(box[c].outbox \o push, I)

LEMMA OutIs ==
  ASSUME IInv, Counters, NEW c \in Clients
  PROVE  /\ Increment(c) \in Nat
         /\ mid' = Used(c) => mid' = [mid EXCEPT ![c] = mid[c] + Increment(c)]
         /\ IF contact[c] < 2 THEN Out(c) = <<>> ELSE \E push, I : SentOf(c, push, I)
<1>1. Increment(c) \in Nat
  BY SyncTyped, PushedTyped DEF Increment
<1>2. mid' = Used(c) => mid' = [mid EXCEPT ![c] = mid[c] + Increment(c)]
  BY DEF Used, Increment, Counters
<1>3. CASE contact[c] < 2
  BY <1>1, <1>2, <1>3 DEF Out
<1>4. CASE ~(contact[c] < 2)
  <2>. DEFINE w == Sync(c, 0, Pushed(c))
              push == IF Pushed(c) = <<>> THEN <<>> ELSE <<w>>
              L == box[c].outbox \o push
              I == {i \in DOMAIN L : L[i].type # "users_sha256" \/ ~L[i].body}
  <2>1. Newly(w, mid[c], Increment(c)) /\ w.req = 0 /\ w.type = "sync_gifts"
    <3>. DEFINE r == 0
    <3>. HIDE DEF r
    <3>1. /\ Newly(Sync(c, r, Pushed(c)), mid[c], Len(Pushed(c))) /\ Sync(c, r, Pushed(c)).req = r
          /\ Sync(c, r, Pushed(c)).type = "sync_gifts"
      BY SyncTyped, PushedTyped
    <3>. QED
      BY <1>4, <3>1 DEF Increment, r
  <2>2. Out(c) = Picked(L, LAMBDA m : m.type # "users_sha256" \/ ~m.body)
    BY <1>4 DEF Out
  <2>3. Picked(L, LAMBDA m : m.type # "users_sha256" \/ ~m.body) = At(L, I)
    <3>. HIDE DEF L
    <3>. QED
      BY DEF Picked, With
  <2>4. I \in SUBSET DOMAIN L
    <3>. HIDE DEF L
    <3>. QED
      OBVIOUS
  <2>. HIDE DEF I, w
  <2>5. IsPush(push, c) /\ IsList(push)
    BY <2>1, ShortLists DEF IsPush
  <2>. HIDE DEF push
  <2>6. SentOf(c, push, I)
    BY <2>2, <2>3, <2>4, <2>5 DEF SentOf
  <2>. QED
    BY <1>1, <1>2, <1>4, <2>6
<1>. QED
  BY <1>3, <1>4

\* A list with other bodies of users_sha256 messages.
Alike(r, s) ==
  /\ DOMAIN r = DOMAIN s
  /\ \A i \in DOMAIN s : r[i] = s[i] \/ (s[i].type = "users_sha256" /\ r[i].type = "users_sha256" /\ r[i].mid = s[i].mid
                                           /\ r[i].req = s[i].req)

LEMMA Relabelled ==
  ASSUME IInv, NEW c \in Clients
  PROVE  Alike(Wire(c), Out(c)) /\ Alike(Sending(c), Out(c)) /\ IsList(Wire(c)) /\ IsList(Sending(c)) /\ IsList(Out(c))
<1>. DEFINE s == Out(c)
<1>1. ListOk(s, signed) /\ IsList(Wire(c)) /\ IsList(Sending(c))
  BY OutOk DEF ListOk
<1>2. /\ Wire(c) = [i \in DOMAIN s |-> IF s[i].type = "users_sha256" THEN [s[i] EXCEPT !.body = Sums(c)] ELSE s[i]]
      /\ Sending(c) = [i \in DOMAIN s |-> IF s[i].type = "users_sha256" THEN [s[i] EXCEPT !.body = TRUE] ELSE s[i]]
  BY DEF Wire, Sending
<1>. HIDE DEF s
<1>3. ASSUME NEW i \in DOMAIN s, NEW b, NEW r, r = [s[i] EXCEPT !.body = b]
      PROVE  r.type = s[i].type /\ r.mid = s[i].mid /\ r.req = s[i].req
  <2>1. Shaped(s[i])
    BY <1>1 DEF ListOk, PartOk, WholeOk
  <2>2. s[i] = [type |-> s[i].type, mid |-> s[i].mid, req |-> s[i].req, body |-> s[i].body]
    BY <2>1 DEF Shaped, Message
  <2>. QED
    BY <1>3, <2>2
<1>4. ASSUME NEW b, NEW F, F = [i \in DOMAIN s |-> IF s[i].type = "users_sha256" THEN [s[i] EXCEPT !.body = b] ELSE s[i]]
      PROVE  Alike(F, s)
  BY <1>3, <1>4 DEF Alike
<1>5. Alike(Wire(c), s) /\ Alike(Sending(c), s)
  BY <1>2, <1>4
<1>6. IsList(s)
  BY <1>1 DEF ListOk
<1>. QED
  BY <1>1, <1>5, <1>6 DEF s

LEMMA AlikeTyped ==
  ASSUME NEW s, NEW N, ListTyped(s, N), NEW r, Alike(r, s)
  PROVE  ListTyped(r, N)
<1>1. ASSUME NEW i \in DOMAIN r
      PROVE  PartTyped(r[i], N) \/ WholeTyped(r[i], N)
  <2>1. i \in DOMAIN s /\ (PartTyped(s[i], N) \/ WholeTyped(s[i], N))
    BY <1>1 DEF Alike, ListTyped
  <2>2. CASE r[i] = s[i]
    BY <2>1, <2>2
  <2>3. CASE s[i].type = "users_sha256" /\ r[i].type = "users_sha256" /\ r[i].mid = s[i].mid
    BY <2>1, <2>3 DEF PartTyped, WholeTyped, Counted
  <2>. QED
    BY <2>1, <2>2, <2>3 DEF Alike
<1>. QED
  BY <1>1 DEF ListTyped

LEMMA OutTyped ==
  ASSUME IInv, TInv, NEW c \in Clients
  PROVE  LET N == mid[c] + Increment(c)
         IN  ListTyped(Out(c), N) /\ ListTyped(Wire(c), N) /\ ListTyped(Sending(c), N)
<1>. DEFINE N == mid[c] + Increment(c)
<1>0. Counters
  BY DEF TInv
<1>1. Counters /\ mid[c] \in Nat /\ Increment(c) \in Nat
  BY <1>0, OutIs DEF Counters
<1>2. N \in Nat /\ mid[c] <= N
  BY <1>1
<1>3. IsList(box[c].outbox) /\ ListTyped(box[c].outbox, N)
  <2>1. ListTyped(box[c].outbox, mid[c]) /\ IsList(box[c].outbox)
    BY DEF TInv, ClientTyped, BoxTyped, IInv, ClientOk, BoxOk, ListOk
  <2>. HIDE DEF N
  <2>. QED
    BY <1>1, <1>2, <2>1, TypedLater
<1>4. ListTyped(<<>>, N)
  BY ShortLists DEF ListTyped
<1>5. ListTyped(Out(c), N)
  <2>1. CASE contact[c] < 2
    BY <1>1, <1>4, <2>1, OutIs
  <2>2. CASE ~(contact[c] < 2)
    <3>1. PICK push, I : SentOf(c, push, I)
      BY <1>1, <2>2, OutIs
    <3>2. ListTyped(push, N)
      <4>1. CASE push = <<>>
        BY <1>4, <4>1
      <4>2. ASSUME NEW w, push = <<w>>, Newly(w, mid[c], Increment(c))
            PROVE  ListTyped(push, N)
        BY <4>2, ShortLists DEF ListTyped, Newly
      <4>. QED
        BY <3>1, <4>1, <4>2 DEF SentOf, IsPush
    <3>. DEFINE L == box[c].outbox \o push
    <3>. HIDE DEF N
    <3>3. ListTyped(L, N) /\ IsList(L)
      BY <1>3, <3>1, <3>2, ConcatTyped DEF SentOf
    <3>4. I \in SUBSET DOMAIN L /\ Out(c) = At(L, I)
      BY <3>1 DEF SentOf
    <3>. HIDE DEF L
    <3>. QED
      BY <3>3, <3>4, PartsTyped
  <2>. QED
    BY <2>1, <2>2
<1>. HIDE DEF N
<1>6. ListTyped(Wire(c), N) /\ ListTyped(Sending(c), N)
  BY <1>5, Relabelled, AlikeTyped
<1>. QED
  BY <1>5, <1>6 DEF N

LEMMA BuiltTyped ==
  ASSUME IInv, TInv, NEW c \in Clients
  PROVE  LET b == Built(c)
         IN  /\ BoxTyped(b, mid[c] + Increment(c), mid[Peer(c)]) /\ b.sendG \subseteq box[c].sendG
             /\ contact[c] = 0 => b = EmptyBox
<1>. DEFINE N == mid[c] + Increment(c)
            M == mid[Peer(c)]
            b == Built(c)
<1>0. Counters
  BY DEF TInv
<1>1. Counters /\ mid[c] \in Nat /\ Increment(c) \in Nat
  BY <1>0, OutIs DEF Counters
<1>2. N \in Nat /\ mid[c] <= N
  BY <1>1
<1>3. BoxOk(box[c], signed) /\ BoxTyped(box[c], mid[c], M) /\ (contact[c] = 0 => box[c] = EmptyBox)
  BY DEF TInv, ClientTyped, IInv, ClientOk
<1>4. ListTyped(Sending(c), N) /\ ListTyped(<<>>, N)
  BY OutTyped, ShortLists DEF ListTyped
<1>5. \A s : ListTyped(s, mid[c]) => ListTyped(s, N)
  BY <1>1, <1>2, TypedLater
<1>. HIDE DEF N, M
<1>6. CASE contact[c] < 2
  <2>1. b = box[c]
    BY <1>6 DEF Built
  <2>2. BoxTyped(b, N, M)
    BY <1>3, <1>5, <2>1 DEF BoxTyped
  <2>. QED
    BY <1>3, <2>1, <2>2 DEF N, M
<1>7. CASE ~(contact[c] < 2)
  <2>1. b = [box[c] EXCEPT !.sending = Sending(c), !.outbox = <<>>, !.sendG = {}, !.sendC = {}, !.askC = {}]
    BY <1>7 DEF Built
  <2>2. b = [inbox |-> box[c].inbox, read |-> box[c].read, outbox |-> <<>>, sending |-> Sending(c), sent |-> box[c].sent,
             closed |-> box[c].closed, sendG |-> {}, sendC |-> {}, askC |-> {}]
    BY <1>3, <2>1 DEF BoxOk
  <2>3. BoxTyped(b, N, M) /\ b.sendG = {}
    BY <1>3, <1>4, <2>2 DEF BoxTyped
  <2>4. contact[c] # 0
    BY <1>7
  <2>. QED
    BY <2>3, <2>4 DEF N, M
<1>. QED
  BY <1>6, <1>7

LEMMA AgainTyped ==
  ASSUME NEW b, BoxOk(b, signed), NEW N, NEW M, BoxTyped(b, N, M)
  PROVE  BoxTyped(Again(b), N, M) /\ Again(b).sendG = b.sendG /\ Again(b).sending = <<>>
<1>. DEFINE s == b.outbox \o b.sending
<1>1. ListTyped(s, N) /\ ListTyped(<<>>, N)
  BY ConcatTyped, ShortLists DEF BoxOk, ListOk, BoxTyped, ListTyped
<1>2. Again(b) = [b EXCEPT !.outbox = s, !.sending = <<>>]
  BY DEF Again
<1>. HIDE DEF s
<1>3. Again(b) = [inbox |-> b.inbox, read |-> b.read, outbox |-> s, sending |-> <<>>, sent |-> b.sent,
                  closed |-> b.closed, sendG |-> b.sendG, sendC |-> b.sendC, askC |-> b.askC]
  BY <1>2 DEF BoxOk
<1>. QED
  BY <1>1, <1>3 DEF BoxTyped

\* An empty mailbox, again or sent, is empty.
LEMMA EmptyStays ==
  Again(EmptyBox) = EmptyBox /\ Sent(EmptyBox) = EmptyBox
<1>1. <<>> \o <<>> = <<>> /\ Len(<<>>) = 0
  OBVIOUS
<1>2. Again(EmptyBox) = EmptyBox
  <2>. DEFINE b == EmptyBox
              s == b.outbox \o b.sending
  <2>1. s = <<>>
    BY <1>1 DEF EmptyBox
  <2>2. Again(b) = [b EXCEPT !.outbox = s, !.sending = <<>>]
    BY DEF Again
  <2>. HIDE DEF s
  <2>. QED
    BY <2>1, <2>2 DEF EmptyBox
<1>3. Sent(EmptyBox) = EmptyBox
  <2>1. IsList(EmptyBox.sending)
    BY ShortLists DEF EmptyBox
  <2>2. PICK kept : Keeping(kept, EmptyBox)
    BY <2>1, SentChain
  <2>3. EmptyBox.sending = <<>> /\ EmptyBox.sent = <<>>
    BY DEF EmptyBox
  <2>4. Sent(EmptyBox) = [EmptyBox EXCEPT !.sent = <<>>, !.sending = <<>>]
    BY <1>1, <2>2, <2>3 DEF Keeping
  <2>. QED
    BY <2>4 DEF EmptyBox
<1>. QED
  BY <1>2, <1>3

----------------------------------------------------------------------------
\* The types after the other steps.

\* A step of c that leaves the gifts alone.
LEMMA MailTyped ==
  ASSUME IInv, TInv, NEW c \in Clients, gift' = gift, faults' \in Nat, NEW n \in Nat,
         mid' = [mid EXCEPT ![c] = mid[c] + n], NEW b, NEW p,
         box' = [box EXCEPT ![c] = b], ping' = [ping EXCEPT ![c] = p], contact' = contact,
         \A d \in Clients : ListTyped(store'[d], mid'[Peer(d)]),
         BoxTyped(b, mid[c] + n, mid[Peer(c)]), PingTyped(gift[c], b, p, mid[Peer(c)]),
         contact[c] = 0 => b = EmptyBox, b.sendG \subseteq box[c].sendG
  PROVE  TInv'
<1>1. /\ mid \in [Clients -> Nat] /\ contact \in [Clients -> 0..2] /\ gift = [d \in Clients |-> gift[d]]
      /\ box = [d \in Clients |-> box[d]] /\ ping = [d \in Clients |-> ping[d]]
  BY DEF TInv, Counters, IInv
<1>2. mid'[c] = mid[c] + n /\ mid' \in [Clients -> Nat] /\ mid[c] <= mid'[c]
  BY <1>1
<1>3. Counters'
  BY <1>1, <1>2 DEF Counters
<1>4. gift' = [gift EXCEPT ![c] = gift[c]]
  BY <1>1
<1>5. \A d \in Clients \ {c} : box'[d] = box[d] /\ ping'[d] = ping[d] /\ mid'[d] = mid[d] /\ contact'[d] = contact[d]
  BY <1>1
<1>6. box'[c] = b /\ ping'[c] = p
  BY <1>1
<1>7. ClientTyped(gift[c], contact[c], box[c], ping[c], mid[c], mid[Peer(c)])
  BY DEF TInv
<1>8. ClientTyped(gift[c], contact'[c], box'[c], ping'[c], mid'[c], mid[Peer(c)])
  BY <1>2, <1>6, <1>7 DEF ClientTyped
<1>. QED
  BY <1>1, <1>2, <1>3, <1>4, <1>5, <1>8, TypedFrame

\* Messages on the server are typed still when a client has used more mids.
LEMMA StoreTyped ==
  ASSUME TInv, NEW c \in Clients, NEW n \in Nat, mid' = [mid EXCEPT ![c] = mid[c] + n]
  PROVE  \A d \in Clients : ListTyped(store[d], mid'[Peer(d)])
<1>. SUFFICES ASSUME NEW d \in Clients
              PROVE  ListTyped(store[d], mid'[Peer(d)])
  OBVIOUS
<1>1. ListTyped(store[d], mid[Peer(d)]) /\ Peer(d) \in Clients /\ mid \in [Clients -> Nat]
  BY PeerOf DEF TInv, Counters
<1>2. mid[Peer(d)] \in Nat /\ mid'[Peer(d)] \in Nat /\ mid[Peer(d)] <= mid'[Peer(d)]
  BY <1>1
<1>. QED
  BY <1>1, <1>2, TypedLater

LEMMA NoPingTyped ==
  ASSUME NEW gs, NEW b, NEW M, b.sending = <<>>
  PROVE  PingTyped(gs, b, NoPing, M)
  BY ShortLists DEF PingTyped, NoPing, ListTyped

LEMMA FailTyped ==
  ASSUME IInv, TInv, NEW c \in Clients, Lost(c) \/ Fail(c) \/ Early(c)
  PROVE  TInv'
<1>0. Counters
  BY DEF TInv
<1>1. /\ BoxOk(box[c], signed) /\ ClientTyped(gift[c], contact[c], box[c], ping[c], mid[c], mid[Peer(c)])
      /\ ping = [d \in Clients |-> ping[d]] /\ faults \in Nat /\ mid \in [Clients -> Nat]
  BY <1>0 DEF TInv, Counters, IInv, ClientOk
<1>2. Increment(c) \in Nat /\ (mid' = Used(c) => mid' = [mid EXCEPT ![c] = mid[c] + Increment(c)])
  BY <1>0, OutIs
<1>. DEFINE B == Built(c)
            N == mid[c] + Increment(c)
            M == mid[Peer(c)]
<1>3. BoxTyped(B, N, M) /\ B.sendG \subseteq box[c].sendG /\ (contact[c] = 0 => B = EmptyBox) /\ BoxOk(B, signed)
  BY BuiltTyped, BuiltOk
<1>4. CASE Lost(c)
  <2>. DEFINE b == Again(B)
  <2>1. /\ box' = [box EXCEPT ![c] = b] /\ ping' = [ping EXCEPT ![c] = NoPing] /\ gift' = gift /\ store' = store
        /\ contact' = contact /\ faults' \in Nat /\ mid' = [mid EXCEPT ![c] = mid[c] + Increment(c)]
    <3>1. ping[c].stage = "idle"
      BY <1>4 DEF Lost
    <3>2. ping[c] = NoPing
      BY <1>1, <3>1 DEF ClientTyped, PingTyped
    <3>. QED
      BY <1>1, <1>2, <1>4, <3>2 DEF Lost
  <2>. HIDE DEF B, N, M
  <2>2. BoxTyped(b, N, M) /\ b.sendG = B.sendG /\ b.sending = <<>> /\ (contact[c] = 0 => b = EmptyBox)
    BY <1>3, AgainTyped, EmptyStays
  <2>. HIDE DEF b
  <2>3. PingTyped(gift[c], b, NoPing, M)
    BY <2>2, NoPingTyped
  <2>4. \A d \in Clients : ListTyped(store'[d], mid'[Peer(d)])
    BY <1>2, <2>1, StoreTyped
  <2>. QED
    BY <1>2, <1>3, <2>1, <2>2, <2>3, <2>4, MailTyped DEF N, M
<1>5. CASE Fail(c)
  <2>. DEFINE b == Again(box[c])
              n == 0
  <2>1. /\ box' = [box EXCEPT ![c] = b] /\ ping' = [ping EXCEPT ![c] = NoPing] /\ gift' = gift /\ store' = store
        /\ contact' = contact /\ faults' \in Nat /\ mid' = [mid EXCEPT ![c] = mid[c] + n] /\ mid[c] + n = mid[c]
    BY <1>1, <1>5 DEF Fail
  <2>2. BoxTyped(b, mid[c], M) /\ b.sendG = box[c].sendG /\ b.sending = <<>> /\ (contact[c] = 0 => b = EmptyBox)
    <3>. HIDE DEF M
    <3>1. BoxTyped(box[c], mid[c], M)
      BY <1>1 DEF ClientTyped, M
    <3>2. contact[c] = 0 => box[c] = EmptyBox
      BY <1>1 DEF ClientTyped
    <3>3. BoxTyped(b, mid[c], M) /\ b.sendG = box[c].sendG /\ b.sending = <<>>
      BY <1>1, <3>1, AgainTyped
    <3>. QED
      BY <3>2, <3>3, EmptyStays
  <2>5. n \in Nat
    OBVIOUS
  <2>. HIDE DEF b, n, M
  <2>3. PingTyped(gift[c], b, NoPing, M)
    BY <2>2, NoPingTyped
  <2>4. \A d \in Clients : ListTyped(store'[d], mid'[Peer(d)])
    BY <2>1, <2>5, StoreTyped
  <2>. QED
    BY <2>1, <2>2, <2>3, <2>4, <2>5, MailTyped DEF M
<1>6. CASE Early(c)
  <2>. DEFINE sb == Sent(B)
              s == sb.inbox \o box[c].read
              b == [sb EXCEPT !.inbox = s, !.read = <<>>]
  <2>1. /\ box' = [box EXCEPT ![c] = b] /\ ping' = [ping EXCEPT ![c] = NoPing] /\ gift' = gift /\ store' = store
        /\ contact' = contact /\ faults' \in Nat /\ mid' = [mid EXCEPT ![c] = mid[c] + Increment(c)]
    <3>1. ping[c].stage = "idle"
      BY <1>6 DEF Early
    <3>2. ping[c] = NoPing
      BY <1>1, <3>1 DEF ClientTyped, PingTyped
    <3>. QED
      BY <1>1, <1>2, <1>6, <3>2 DEF Early
  <2>2. BoxTyped(sb, N, M) /\ BoxOk(sb, signed) /\ (contact[c] = 0 => sb = EmptyBox)
        /\ sb.sendG = B.sendG /\ sb.sending = <<>>
    <3>1. sb = Sent(B)
      OBVIOUS
    <3>. HIDE DEF B, N, M, sb
    <3>2. /\ BoxTyped(sb, N, M) /\ BoxOk(sb, signed)
          /\ sb.sendG = B.sendG /\ sb.sending = <<>>
      BY <1>3, <3>1, SentTyped
    <3>3. contact[c] = 0 => sb = EmptyBox
      BY <1>3, <3>1, EmptyStays
    <3>. QED
      BY <3>2, <3>3
  <2>4. ListTyped(s, M) /\ ListTyped(<<>>, M)
    <3>1. IsList(sb.inbox) /\ IsList(box[c].read) /\ ListTyped(sb.inbox, M) /\ ListTyped(box[c].read, M)
      BY <1>1, <2>2 DEF BoxOk, ListOk, BoxTyped, ClientTyped
    <3>. HIDE DEF sb, M
    <3>. QED
      BY <3>1, ConcatTyped, ShortLists DEF ListTyped
  <2>5. contact[c] = 0 => s = <<>>
    <3>1. ASSUME contact[c] = 0
          PROVE  s = <<>>
      <4>1. sb = EmptyBox /\ box[c] = EmptyBox
        BY <1>1, <2>2, <3>1 DEF ClientTyped
      <4>2. sb.inbox = <<>> /\ box[c].read = <<>>
        BY <4>1 DEF EmptyBox
      <4>. HIDE DEF sb
      <4>. QED
        BY <4>2
    <3>. QED
      BY <3>1
  <2>6. b = [sb EXCEPT !.inbox = s, !.read = <<>>]
    OBVIOUS
  <2>. HIDE DEF B, N, M, sb, s, b
  <2>7. b = [inbox |-> s, read |-> <<>>, outbox |-> sb.outbox, sending |-> sb.sending, sent |-> sb.sent,
             closed |-> sb.closed, sendG |-> sb.sendG, sendC |-> sb.sendC, askC |-> sb.askC]
    BY <2>2, <2>6 DEF BoxOk
  <2>8. BoxTyped(b, N, M) /\ b.sendG = B.sendG /\ b.sending = <<>>
    BY <2>2, <2>4, <2>7, ShortLists DEF BoxTyped
  <2>9. contact[c] = 0 => b = EmptyBox
    <3>1. ASSUME contact[c] = 0
          PROVE  b = EmptyBox
      <4>1. sb = EmptyBox /\ s = <<>>
        BY <2>2, <2>5, <3>1
      <4>2. /\ sb.outbox = <<>> /\ sb.sending = <<>> /\ sb.sent = <<>>
            /\ sb.closed = {} /\ sb.sendG = {} /\ sb.sendC = {} /\ sb.askC = {}
        BY <4>1 DEF EmptyBox
      <4>3. b = [inbox |-> <<>>, read |-> <<>>, outbox |-> <<>>, sending |-> <<>>, sent |-> <<>>,
                 closed |-> {}, sendG |-> {}, sendC |-> {}, askC |-> {}]
        BY <2>7, <4>1, <4>2
      <4>. QED
        BY <4>3 DEF EmptyBox
    <3>. QED
      BY <3>1
  <2>10. PingTyped(gift[c], b, NoPing, M)
    BY <2>8, NoPingTyped
  <2>11. \A d \in Clients : ListTyped(store'[d], mid'[Peer(d)])
    BY <1>2, <2>1, StoreTyped
  <2>. QED
    BY <1>2, <1>3, <2>1, <2>8, <2>9, <2>10, <2>11, MailTyped DEF N, M
<1>. QED
  BY <1>4, <1>5, <1>6

LEMMA PingTypes ==
  ASSUME IInv, TInv, NEW c \in Clients, Ping(c)
  PROVE  TInv'
<1>0. Counters
  BY DEF TInv
<1>1. /\ BoxOk(box[c], signed) /\ ClientTyped(gift[c], contact[c], box[c], ping[c], mid[c], mid[Peer(c)])
      /\ ping = [d \in Clients |-> ping[d]] /\ store = [d \in Clients |-> store[d]] /\ faults \in Nat /\ mid \in [Clients -> Nat]
  BY <1>0 DEF TInv, Counters, IInv, ClientOk
<1>2. Increment(c) \in Nat /\ mid' = [mid EXCEPT ![c] = mid[c] + Increment(c)]
  BY <1>0, OutIs DEF Ping
<1>. DEFINE b == Built(c)
            N == mid[c] + Increment(c)
            M == mid[Peer(c)]
<1>3. BoxTyped(b, N, M) /\ b.sendG \subseteq box[c].sendG /\ (contact[c] = 0 => b = EmptyBox)
  BY BuiltTyped
<1>4. box' = [box EXCEPT ![c] = b] /\ gift' = gift /\ contact' = contact /\ faults' \in Nat /\ ping[c].stage = "idle"
  BY <1>1 DEF Ping
<1>5. ping[c] = NoPing
  BY <1>1, <1>4 DEF ClientTyped, PingTyped
<1>. HIDE DEF b, N, M
<1>6. \E p : ping' = [ping EXCEPT ![c] = p] /\ PingTyped(gift[c], b, p, M)
  <2>1. CASE Raises(c)
    <3>. DEFINE gone == Gone(c)
                p == [NoPing EXCEPT !.stage = "failed", !.gone = gone]
    <3>1. ping' = [ping EXCEPT ![c] = p]
      BY <2>1 DEF Ping
    <3>2. gone \subseteq HereIn(gift[c])
      BY DEF Gone, Here, HereIn
    <3>. HIDE DEF gone
    <3>3. p.stage = "failed" /\ p.mail = <<>> /\ p.gone = gone
      BY DEF NoPing
    <3>. HIDE DEF p
    <3>4. PingTyped(gift[c], b, p, M)
      BY <3>2, <3>3, ShortLists DEF PingTyped, ListTyped
    <3>. QED
      BY <3>1, <3>4
  <2>2. CASE ~Raises(c)
    <3>. DEFINE p == [stage |-> "sent", mail |-> store[c],
                      own |-> {[cid |-> o.cid, ok |-> Signed(c)[o.cid].by = c] : o \in Own(c)},
                      gone |-> Gone(c)]
    <3>1. ping' = [ping EXCEPT ![c] = p]
      BY <2>2 DEF Ping
    <3>2. p.stage = "sent" /\ p.mail = store[c] /\ p.gone \subseteq HereIn(gift[c])
      BY DEF Gone, Here, HereIn
    <3>. HIDE DEF p
    <3>3. PingTyped(gift[c], b, p, M)
      BY <3>2 DEF PingTyped, TInv, M
    <3>. QED
      BY <3>1, <3>3
  <2>. QED
    BY <2>1, <2>2
<1>7. \A d \in Clients : ListTyped(store[d], mid'[Peer(d)])
  BY <1>2, StoreTyped
<1>8. \A d \in Clients : ListTyped(store'[d], mid'[Peer(d)])
  <2>1. CASE Raises(c)
    <3>1. store' = store
      BY <2>1 DEF Ping
    <3>. QED
      BY <1>7, <3>1
  <2>2. CASE ~Raises(c)
    <3>. DEFINE d == Peer(c)
                w == store[d] \o Wire(c)
    <3>1. store' = [store EXCEPT ![c] = <<>>, ![d] = w]
      BY <2>2 DEF Ping
    <3>2. d \in Clients /\ d # c /\ Peer(d) = c /\ \A e \in Clients : e = c \/ e = d
      BY PeerOf
    <3>3. mid'[c] = N
      BY <1>1, <1>2 DEF N
    <3>4. ListTyped(w, N)
      <4>1. IsList(store[d]) /\ IsList(Wire(c))
        BY <3>2, Relabelled DEF IInv, ListOk
      <4>2. ListTyped(store[d], N) /\ ListTyped(Wire(c), N)
        BY <1>7, <3>2, <3>3, OutTyped DEF N
      <4>. QED
        BY <4>1, <4>2, ConcatTyped
    <3>. HIDE DEF d, w
    <3>5. store'[c] = <<>> /\ store'[d] = w
      BY <1>1, <3>1, <3>2
    <3>6. ListTyped(<<>>, mid'[Peer(c)])
      BY ShortLists DEF ListTyped
    <3>. QED
      BY <3>2, <3>3, <3>4, <3>5, <3>6
  <2>. QED
    BY <2>1, <2>2
<1>. QED
  BY <1>2, <1>3, <1>4, <1>6, <1>8, MailTyped DEF N, M

\* What the client has after a response.
Greeting(c) == IF contact[c] = 0 THEN <<Message("users_sha256", mid[c] + 1, 0, FALSE)>> ELSE <<>>
ReadAgain(r, s) ==
  /\ IsList(r) /\ DOMAIN r = DOMAIN s
  /\ \A i \in DOMAIN s : /\ r[i].type = s[i].type /\ r[i].mid = s[i].mid /\ r[i].req = s[i].req
                         /\ r[i].body.count = s[i].body.count
Received(c, e, r) ==
  /\ ReadAgain(r, box[c].read)
  /\ e.inbox = (IF contact[c] = 0 THEN <<>> ELSE ping[c].mail) \o r /\ e.read = <<>>
  /\ e.outbox = box[c].outbox \o Greeting(c) /\ e.sending = <<>> /\ e.sent = Sent(box[c]).sent
  /\ e.closed = Sent(box[c]).closed
  /\ e.sendG = box[c].sendG \union ping[c].gone /\ e.askC \subseteq box[c].askC \union {o.cid : o \in Own(c)}

LEMMA VerifiedSame ==
  ASSUME NEW m, PartOk(m, signed) \/ WholeOk(m, signed), m.type = "send_gifts", NEW answers, NEW r, r = Verified(m, answers)
  PROVE  r.type = m.type /\ r.mid = m.mid /\ r.req = m.req /\ r.body.count = m.body.count
<1>. DEFINE b  == m.body
            ok == b.ok \union (b.asked \intersect answers)
            a  == [b EXCEPT !.ok = ok]
<1>1. m = Message("send_gifts", m.mid, m.req, b) /\ BodyOk(b, signed)
  BY DEF PartOk, WholeOk, Shaped
<1>2. m = [type |-> "send_gifts", mid |-> m.mid, req |-> m.req, body |-> b]
  BY <1>1 DEF Message
<1>3. r = [m EXCEPT !.body = a]
  BY DEF Verified
<1>4. a.count = b.count
  <2>1. b = [gifts |-> b.gifts, asked |-> b.asked, ok |-> b.ok, count |-> b.count]
    BY <1>1 DEF BodyOk
  <2>. HIDE DEF b, ok
  <2>. QED
    BY <2>1
<1>. HIDE DEF b, ok, a
<1>. QED
  BY <1>2, <1>3, <1>4 DEF b

LEMMA ReadAgainIs ==
  ASSUME NEW s, ListOk(s, signed), \A i \in DOMAIN s : s[i].type = "send_gifts", NEW answers,
         NEW r, r = [i \in DOMAIN s |-> Verified(s[i], answers)]
  PROVE  ReadAgain(r, s)
<1>1. DOMAIN s = 1..Len(s) /\ Len(s) \in Nat
  BY DEF ListOk, IsList
<1>2. IsList(r) /\ DOMAIN r = DOMAIN s
  <2>1. r = [i \in 1..Len(s) |-> r[i]]
    BY <1>1
  <2>. QED
    BY <1>1, <2>1, Listed
<1>3. ASSUME NEW i \in DOMAIN s
      PROVE  r[i].type = s[i].type /\ r[i].mid = s[i].mid /\ r[i].req = s[i].req /\ r[i].body.count = s[i].body.count
  <2>1. r[i] = Verified(s[i], answers) /\ (PartOk(s[i], signed) \/ WholeOk(s[i], signed)) /\ s[i].type = "send_gifts"
    BY <1>3 DEF ListOk
  <2>. DEFINE m == s[i]
              v == r[i]
  <2>2. v = Verified(m, answers) /\ (PartOk(m, signed) \/ WholeOk(m, signed)) /\ m.type = "send_gifts"
    BY <2>1
  <2>. HIDE DEF m, v
  <2>3. v.type = m.type /\ v.mid = m.mid /\ v.req = m.req /\ v.body.count = m.body.count
    BY <2>2, VerifiedSame
  <2>. QED
    BY <2>3 DEF m, v
<1>. QED
  BY <1>2, <1>3 DEF ReadAgain

LEMMA ResponseIs ==
  ASSUME IInv, TInv, NEW c \in Clients, Response(c)
  PROVE  /\ \E e, r : box' = [box EXCEPT ![c] = e] /\ Received(c, e, r)
         /\ ping[c].stage # "idle" /\ ping' = [ping EXCEPT ![c] = NoPing] /\ store' = store
         /\ mid' = [mid EXCEPT ![c] = mid[c] + Len(Greeting(c))] /\ faults' \in {faults, faults + 1}
         /\ contact' = [contact EXCEPT ![c] = IF contact[c] < 2 THEN contact[c] + 1 ELSE 2]
         /\ gift' = [gift EXCEPT ![c] = [g \in Gifts |-> Answered(gift[c][g], g, ping[c])]]
<1>. DEFINE p == ping[c]
            b == box[c]
            settled == {a \in p.own : \E o \in Own(c) : o.cid = a.cid /\ o.act # "accept"}
            hello == Greeting(c)
            answers(prompt) == IF ~prompt THEN {} ELSE IF p.stage = "failed" THEN Gifts ELSE Gifts \union Cids
            read(prompt) == [i \in DOMAIN b.read |-> Verified(b.read[i], answers(prompt))]
            d(prompt) == [Sent(b) EXCEPT !.outbox = @ \o hello,
                                !.inbox = (IF contact[c] = 0 THEN <<>> ELSE p.mail) \o read(prompt), !.read = <<>>,
                                !.sendG = @ \union p.gone,
                                !.sendC = @ \union {a.cid : a \in {a \in settled : a.ok}},
                                !.askC = @ \union {a.cid : a \in {a \in settled : ~a.ok}}]
<1>1. /\ ping[c].stage # "idle" /\ ping' = [ping EXCEPT ![c] = NoPing] /\ store' = store
      /\ mid' = [mid EXCEPT ![c] = mid[c] + Len(Greeting(c))] /\ faults' \in {faults, faults + 1}
      /\ contact' = [contact EXCEPT ![c] = IF contact[c] < 2 THEN contact[c] + 1 ELSE 2]
      /\ gift' = [gift EXCEPT ![c] = [g \in Gifts |-> Answered(gift[c][g], g, ping[c])]]
  BY DEF Response, TInv, Counters, Greeting
<1>2. PICK prompt \in BOOLEAN : box' = [box EXCEPT ![c] = d(prompt)]
  BY DEF Response, Greeting
<1>3. BoxOk(b, signed) /\ BoxTyped(b, mid[c], mid[Peer(c)])
  BY DEF IInv, ClientOk, TInv, ClientTyped
<1>. DEFINE sb == Sent(b)
            n == {a.cid : a \in {a \in settled : a.ok}}
            q == {a.cid : a \in {a \in settled : ~a.ok}}
            l == IF contact[c] = 0 THEN <<>> ELSE p.mail
            r == read(prompt)
            got == p.gone
            e == d(prompt)
<1>4. /\ BoxOk(sb, signed) /\ sb.outbox = b.outbox /\ sb.sendG = b.sendG /\ sb.askC = b.askC /\ sb.sending = <<>>
      /\ sb = Sent(b)
  <2>1. sb = Sent(b)
    OBVIOUS
  <2>. HIDE DEF sb, b
  <2>2. BoxOk(sb, signed) /\ sb.outbox = b.outbox
    BY <1>3, <2>1, SentOk
  <2>3. sb.sendG = b.sendG /\ sb.askC = b.askC /\ sb.sending = <<>>
    BY <1>3, <2>1, SentTyped
  <2>. QED
    BY <2>1, <2>2, <2>3
<1>5. ReadAgain(r, b.read)
  <2>. DEFINE s == b.read
              as == answers(prompt)
  <2>1. ListOk(s, signed) /\ (\A i \in DOMAIN s : s[i].type = "send_gifts") /\ r = [i \in DOMAIN s |-> Verified(s[i], as)]
    BY <1>3 DEF BoxOk
  <2>. HIDE DEF s, r, as
  <2>2. ReadAgain(r, s)
    BY <2>1, ReadAgainIs
  <2>. QED
    BY <2>2 DEF s
<1>6. q \subseteq {o.cid : o \in Own(c)}
  OBVIOUS
<1>7. e = [sb EXCEPT !.outbox = @ \o hello, !.inbox = l \o r, !.read = <<>>, !.sendG = @ \union got,
                     !.sendC = @ \union n, !.askC = @ \union q]
  OBVIOUS
<1>8. box' = [box EXCEPT ![c] = e] /\ l = (IF contact[c] = 0 THEN <<>> ELSE ping[c].mail) /\ got = ping[c].gone /\ b = box[c]
      /\ hello = Greeting(c)
  BY <1>2
<1>. HIDE DEF p, b, settled, hello, answers, read, d, sb, n, q, l, r, got, e
<1>9. e = [inbox |-> l \o r, read |-> <<>>, outbox |-> sb.outbox \o hello, sending |-> sb.sending, sent |-> sb.sent,
           closed |-> sb.closed, sendG |-> sb.sendG \union got, sendC |-> sb.sendC \union n, askC |-> sb.askC \union q]
  BY <1>4, <1>7 DEF BoxOk
<1>10. /\ e.inbox = l \o r /\ e.read = <<>> /\ e.outbox = sb.outbox \o hello /\ e.sending = sb.sending /\ e.sent = sb.sent
       /\ e.closed = sb.closed /\ e.sendG = sb.sendG \union got /\ e.askC = sb.askC \union q
  BY <1>9
<1>11. e.askC \subseteq b.askC \union {o.cid : o \in Own(c)}
  BY <1>4, <1>6, <1>10
<1>12. Received(c, e, r)
  BY <1>4, <1>5, <1>8, <1>10, <1>11 DEF Received
<1>. QED
  BY <1>1, <1>8, <1>12

LEMMA GreetingTyped ==
  ASSUME Counters, NEW c \in Clients
  PROVE  /\ Len(Greeting(c)) \in 0..1 /\ IsList(Greeting(c)) /\ ListTyped(Greeting(c), mid[c] + Len(Greeting(c)))
         /\ \A i \in DOMAIN Greeting(c) : Newly(Greeting(c)[i], mid[c], 1) /\ Greeting(c)[i].req = 0
         /\ Greeting(c) = <<>> \/ (DOMAIN Greeting(c) = {1} /\ Len(Greeting(c)) = 1)
<1>. DEFINE body == FALSE
            w == Message("users_sha256", mid[c] + 1, 0, body)
<1>. HIDE DEF body
<1>1. Newly(w, mid[c], 1) /\ w.req = 0
  <2>1. mid[c] \in Nat /\ "users_sha256" \in Types \ {"sync_gifts", "send_gifts"}
    BY DEF Counters, Types, Answerable
  <2>2. w = Message("users_sha256", mid[c] + 1, 0, body)
    OBVIOUS
  <2>. HIDE DEF w
  <2>3. Newly(w, mid[c], 1)
    BY <2>1, <2>2, MessageTyped
  <2>. QED
    BY <2>2, <2>3 DEF Message
<1>2. Greeting(c) = IF contact[c] = 0 THEN <<w>> ELSE <<>>
  BY DEF Greeting, body
<1>. HIDE DEF w
<1>3. IsList(<<w>>) /\ Len(<<w>>) = 1 /\ DOMAIN <<w>> = {1} /\ <<w>>[1] = w
  BY ShortLists
<1>4. ListTyped(<<w>>, mid[c] + 1)
  BY <1>1, <1>3 DEF ListTyped, Newly
<1>5. ListTyped(<<>>, mid[c] + 0) /\ IsList(<<>>) /\ Len(<<>>) = 0 /\ DOMAIN <<>> = {}
  BY ShortLists DEF ListTyped
<1>. QED
  BY <1>1, <1>2, <1>3, <1>4, <1>5

LEMMA ResponseTyped ==
  ASSUME IInv, TInv, NEW c \in Clients, Response(c)
  PROVE  TInv'
<1>0. Counters
  BY DEF TInv
<1>. DEFINE b == box[c]
            n == Len(Greeting(c))
            N == mid[c] + n
            M == mid[Peer(c)]
            gs == [g \in Gifts |-> Answered(gift[c][g], g, ping[c])]
<1>1. /\ \E e, r : box' = [box EXCEPT ![c] = e] /\ Received(c, e, r)
      /\ ping[c].stage # "idle" /\ ping' = [ping EXCEPT ![c] = NoPing] /\ store' = store
      /\ mid' = [mid EXCEPT ![c] = mid[c] + n] /\ faults' \in {faults, faults + 1}
      /\ contact' = [contact EXCEPT ![c] = IF contact[c] < 2 THEN contact[c] + 1 ELSE 2]
      /\ gift' = [gift EXCEPT ![c] = gs]
  BY ResponseIs
<1>2. PICK e, r : box' = [box EXCEPT ![c] = e] /\ Received(c, e, r)
  BY <1>1
<1>3. /\ n \in 0..1 /\ IsList(Greeting(c)) /\ ListTyped(Greeting(c), N)
      /\ mid[c] \in Nat /\ M \in Nat /\ faults \in Nat /\ contact \in [Clients -> 0..2] /\ mid \in [Clients -> Nat]
  BY <1>0, PeerOf, GreetingTyped DEF Counters
<1>4. /\ BoxOk(b, signed) /\ ClientTyped(gift[c], contact[c], b, ping[c], mid[c], M)
      /\ gift = [d \in Clients |-> gift[d]] /\ box = [d \in Clients |-> box[d]] /\ ping = [d \in Clients |-> ping[d]]
      /\ PingOk(gift[c], b, ping[c], signed)
  BY DEF TInv, IInv, ClientOk
<1>5. N \in Nat /\ mid[c] <= N /\ mid' \in [Clients -> Nat] /\ mid'[c] = N
  BY <1>1, <1>3
<1>6. faults' \in Nat /\ contact' \in [Clients -> 0..2] /\ contact'[c] # 0
  <2>1. contact[c] \in 0..2
    BY <1>3
  <2>. QED
    BY <1>1, <1>3, <2>1
<1>7. Counters'
  BY <1>5, <1>6 DEF Counters
<1>8. \A g \in Gifts : gs[g].here = gift[c][g].here /\ (~gs[g].here => gs[g] = Nothing)
  <2>. SUFFICES ASSUME NEW g \in Gifts
                PROVE  LET x == gift[c][g]
                           y == Answered(x, g, ping[c])
                       IN  y.here = x.here /\ (~y.here => y = Nothing)
    OBVIOUS
  <2>. DEFINE x == gift[c][g]
              s == x.comments
              own == ping[c].own
              F == [i \in DOMAIN s |-> Settled(s[i], own)]
              gone == IF g \in ping[c].gone THEN "done" ELSE x.gone
              y == Answered(x, g, ping[c])
  <2>1. x = [here |-> x.here, gone |-> x.gone, comments |-> s]
    BY DEF IInv, ClientOk, GiftsOk, GiftOk
  <2>2. y = [x EXCEPT !.comments = F, !.gone = gone]
    <3>. HIDE DEF x
    <3>. QED
      BY <2>1 DEF Answered
  <2>3. ~x.here => x = Nothing /\ gone = x.gone
    BY <1>1, <1>4 DEF ClientTyped, PingTyped, HereIn
  <2>4. ~x.here => s = <<>> /\ F = <<>>
    <3>1. ASSUME ~x.here
          PROVE  s = <<>>
      BY <2>3, <3>1 DEF Nothing
    <3>. HIDE DEF x, s, own
    <3>2. s = <<>> => F = <<>>
      OBVIOUS
    <3>. QED
      BY <3>1, <3>2 DEF s
  <2>. HIDE DEF F, gone, y, s, x
  <2>5. y = [here |-> x.here, gone |-> gone, comments |-> F]
    BY <2>1, <2>2
  <2>6. y.here = x.here
    BY <2>5
  <2>7. ASSUME ~y.here
        PROVE  y = Nothing
    <3>1. F = s /\ gone = x.gone /\ x = Nothing
      BY <2>3, <2>4, <2>6, <2>7
    <3>2. y = [here |-> x.here, gone |-> x.gone, comments |-> s]
      BY <2>5, <3>1
    <3>. QED
      BY <2>1, <3>1, <3>2
  <2>. QED
    BY <2>6, <2>7 DEF y, x
<1>. DEFINE l == IF contact[c] = 0 THEN <<>> ELSE ping[c].mail
<1>9. ListTyped(r, M) /\ IsList(r)
  <2>1. ListTyped(b.read, M) /\ ReadAgain(r, b.read)
    BY <1>2, <1>4 DEF ClientTyped, BoxTyped, Received
  <2>2. ListOk(b.read, signed) /\ \A i \in DOMAIN b.read : b.read[i].type = "send_gifts"
    BY <1>4 DEF BoxOk
  <2>. HIDE DEF b, M
  <2>3. ASSUME NEW i \in DOMAIN r
        PROVE  PartTyped(r[i], M)
    <3>1. /\ i \in DOMAIN b.read /\ (PartTyped(b.read[i], M) \/ WholeTyped(b.read[i], M)) /\ b.read[i].type = "send_gifts"
          /\ r[i].type = b.read[i].type /\ r[i].mid = b.read[i].mid /\ r[i].body.count = b.read[i].body.count
      BY <2>1, <2>2, <2>3 DEF ReadAgain, ListTyped
    <3>. QED
      BY <3>1 DEF PartTyped, WholeTyped, Counted
  <2>. QED
    BY <2>1, <2>3 DEF ListTyped, ReadAgain
<1>10. ListTyped(l, M) /\ IsList(l)
  <2>1. ListTyped(ping[c].mail, M) /\ IsList(ping[c].mail)
    BY <1>4 DEF ClientTyped, PingTyped, PingOk, ListOk
  <2>2. ListTyped(<<>>, M) /\ IsList(<<>>)
    BY ShortLists DEF ListTyped
  <2>. HIDE DEF M
  <2>. QED
    BY <2>1, <2>2
<1>11. e.inbox = l \o r /\ e.outbox = b.outbox \o Greeting(c)
  BY <1>2 DEF Received
<1>12. /\ e.read = <<>> /\ e.sending = <<>> /\ e.sent = Sent(b).sent
       /\ e.sendG = b.sendG \union ping[c].gone /\ e.askC \subseteq b.askC \union {o.cid : o \in Own(c)}
  BY <1>2 DEF Received
<1>. HIDE DEF b, l, N, M, n, gs
<1>13. ListTyped(e.inbox, M)
  BY <1>9, <1>10, <1>11, ConcatTyped
<1>14. ListTyped(e.outbox, N)
  <2>1. ListTyped(b.outbox, mid[c]) /\ IsList(b.outbox)
    BY <1>4 DEF ClientTyped, BoxTyped, BoxOk, ListOk
  <2>2. ListTyped(b.outbox, N)
    BY <1>3, <1>5, <2>1, TypedLater
  <2>. QED
    BY <1>3, <1>11, <2>1, <2>2, ConcatTyped
<1>15. IsList(e.sent) /\ \A i \in DOMAIN e.sent : e.sent[i].type \in Types
  <2>. DEFINE d == Sent(b)
  <2>1. BoxTyped(b, mid[c], M) /\ d = Sent(b)
    BY <1>4 DEF ClientTyped
  <2>. HIDE DEF d
  <2>2. BoxTyped(d, mid[c], M)
    BY <1>4, <2>1, SentTyped
  <2>. QED
    BY <1>12, <2>1, <2>2 DEF BoxTyped
<1>16. e.askC \subseteq Cids
  <2>1. \A o \in Own(c) : o.cid \in Cids
    BY OwnPlace
  <2>2. b.askC \subseteq Cids
    BY <1>4 DEF ClientTyped, BoxTyped
  <2>. QED
    BY <1>12, <2>1, <2>2
<1>17. ListTyped(<<>>, N) /\ ListTyped(<<>>, M) /\ DOMAIN <<>> = {}
  BY ShortLists DEF ListTyped
<1>18. BoxTyped(e, N, M)
  BY <1>12, <1>13, <1>14, <1>15, <1>16, <1>17 DEF BoxTyped
<1>19. e.sendG \subseteq HereIn(gs) /\ \A g \in Gifts : ~gs[g].here => gs[g] = Nothing
  <2>1. HereIn(gs) = HereIn(gift[c])
    BY <1>8 DEF HereIn
  <2>2. b.sendG \subseteq HereIn(gift[c]) /\ ping[c].gone \subseteq HereIn(gift[c])
    BY <1>1, <1>4 DEF ClientTyped, PingTyped
  <2>. QED
    BY <1>8, <1>12, <2>1, <2>2
<1>20. PingTyped(gs, e, NoPing, M)
  BY <1>12, NoPingTyped
<1>21. box'[c] = e /\ ping'[c] = NoPing
  BY <1>1, <1>2, <1>4
<1>22. ClientTyped(gs, contact'[c], box'[c], ping'[c], mid'[c], M)
  BY <1>5, <1>6, <1>18, <1>19, <1>20, <1>21 DEF ClientTyped
<1>23. \A d \in Clients \ {c} : box'[d] = box[d] /\ ping'[d] = ping[d] /\ mid'[d] = mid[d] /\ contact'[d] = contact[d]
  BY <1>1, <1>2, <1>3, <1>4
<1>24. \A d \in Clients : ListTyped(store'[d], mid'[Peer(d)])
  <2>1. n \in Nat
    BY <1>3
  <2>. QED
    BY <1>1, <2>1, StoreTyped
<1>. QED
  BY <1>1, <1>4, <1>5, <1>7, <1>22, <1>23, <1>24, TypedFrame DEF M

LEMMA ReloadTyped ==
  ASSUME IInv, TInv, NEW c \in Clients, Reload(c)
  PROVE  TInv'
<1>. DEFINE gs == [g \in Gifts |-> Reloaded(gift[c][g])]
            M == mid[Peer(c)]
<1>0. Counters
  BY DEF TInv
<1>1. /\ gift' = [gift EXCEPT ![c] = gs] /\ contact' = [contact EXCEPT ![c] = 0] /\ box' = [box EXCEPT ![c] = EmptyBox]
      /\ ping' = [ping EXCEPT ![c] = NoPing] /\ mid' = mid /\ store' = store /\ faults' = faults
  BY DEF Reload
<1>2. /\ mid \in [Clients -> Nat] /\ contact \in [Clients -> 0..2] /\ faults \in Nat
      /\ gift = [d \in Clients |-> gift[d]] /\ box = [d \in Clients |-> box[d]] /\ ping = [d \in Clients |-> ping[d]]
      /\ \A d \in Clients : ListTyped(store[d], mid[Peer(d)])
      /\ \A g \in Gifts : ~gift[c][g].here => gift[c][g] = Nothing
  BY <1>0 DEF Counters, IInv, TInv, ClientTyped
<1>3. Counters' /\ mid'[c] = mid[c] /\ mid[c] <= mid'[c]
  BY <1>1, <1>2 DEF Counters
<1>4. \A g \in Gifts : ~gs[g].here => gs[g] = Nothing
  <2>. SUFFICES ASSUME NEW g \in Gifts, ~Reloaded(gift[c][g]).here
                PROVE  Reloaded(gift[c][g]) = Nothing
    OBVIOUS
  <2>. DEFINE x == gift[c][g]
              s == x.comments
              F == [i \in DOMAIN s |-> Loaded(s[i])]
              gone == IF x.gone = "no" THEN "no" ELSE "asked"
              y == Reloaded(x)
  <2>1. x = [here |-> x.here, gone |-> x.gone, comments |-> s]
    BY DEF IInv, ClientOk, GiftsOk, GiftOk
  <2>2. y = [x EXCEPT !.comments = F, !.gone = gone]
    <3>. HIDE DEF x
    <3>. QED
      BY <2>1 DEF Reloaded
  <2>3. y = [here |-> x.here, gone |-> gone, comments |-> F]
    <3>. HIDE DEF F, gone, y, s, x
    <3>. QED
      BY <2>1, <2>2
  <2>4. x = Nothing
    <3>1. y.here = x.here
      BY <2>3
    <3>. QED
      BY <1>2, <3>1
  <2>5. s = <<>> /\ gone = "no" /\ x.gone = "no"
    BY <2>4 DEF Nothing
  <2>6. F = s
    <3>. HIDE DEF s
    <3>. QED
      BY <2>5
  <2>. HIDE DEF F, gone, y, s, x
  <2>7. y = [here |-> x.here, gone |-> x.gone, comments |-> s]
    BY <2>3, <2>5, <2>6
  <2>. QED
    BY <2>1, <2>4, <2>7 DEF y, x
<1>5. BoxTyped(EmptyBox, mid[c], M) /\ EmptyBox.sendG = {} /\ EmptyBox.sending = <<>>
  BY ShortLists DEF BoxTyped, EmptyBox, ListTyped
<1>. HIDE DEF gs, M
<1>6. PingTyped(gs, EmptyBox, NoPing, M)
  BY <1>5, NoPingTyped
<1>7. contact'[c] = 0 /\ box'[c] = EmptyBox /\ ping'[c] = NoPing
  BY <1>1, <1>2
<1>8. ClientTyped(gs, contact'[c], box'[c], ping'[c], mid'[c], M)
  BY <1>3, <1>4, <1>5, <1>6, <1>7 DEF ClientTyped
<1>9. \A d \in Clients \ {c} : box'[d] = box[d] /\ ping'[d] = ping[d] /\ mid'[d] = mid[d] /\ contact'[d] = contact[d]
  BY <1>1, <1>2
<1>. QED
  BY <1>1, <1>2, <1>3, <1>8, <1>9, TypedFrame DEF M

LEMMA EditTyped ==
  ASSUME IInv, TInv, NEW c \in Clients, NEW h \in Gifts, NEW y, gift[c][h].here, y.here,
         UNCHANGED <<box, ping, store, mid, contact, faults>>, gift' = [gift EXCEPT ![c] = [gift[c] EXCEPT ![h] = y]]
  PROVE  TInv'
<1>. DEFINE gs == [gift[c] EXCEPT ![h] = y]
<1>1. Counters /\ ClientTyped(gift[c], contact[c], box[c], ping[c], mid[c], mid[Peer(c)])
  BY DEF TInv
<1>2. GiftsOk(gift[c], signed) /\ gift = [d \in Clients |-> gift[d]]
  BY DEF IInv, ClientOk
<1>3. gift[c] = [g \in Gifts |-> gift[c][g]]
  BY <1>2 DEF GiftsOk
<1>4. HereIn(gs) = HereIn(gift[c]) /\ \A g \in Gifts : ~gs[g].here => gs[g] = Nothing
  <2>1. \A g \in Gifts : gs[g] = IF g = h THEN y ELSE gift[c][g]
    BY <1>3
  <2>. HIDE DEF gs
  <2>. QED
    BY <1>1, <2>1 DEF HereIn, ClientTyped
<1>. HIDE DEF gs
<1>5. ClientTyped(gs, contact[c], box[c], ping[c], mid[c], mid[Peer(c)])
  BY <1>1, <1>4 DEF ClientTyped, PingTyped
<1>6. Counters' /\ mid[c] <= mid'[c]
  BY <1>1 DEF Counters
<1>7. \A d \in Clients : ListTyped(store'[d], mid'[Peer(d)])
  BY DEF TInv
<1>8. gift' = [gift EXCEPT ![c] = gs]
  BY DEF gs
<1>9. ClientTyped(gs, contact'[c], box'[c], ping'[c], mid'[c], mid[Peer(c)])
  BY <1>5
<1>10. \A d \in Clients \ {c} : box'[d] = box[d] /\ ping'[d] = ping[d] /\ mid'[d] = mid[d] /\ contact'[d] = contact[d]
  OBVIOUS
<1>. QED
  BY <1>2, <1>6, <1>7, <1>8, <1>9, <1>10, TypedFrame

LEMMA UserTyped ==
  ASSUME IInv, TInv, NEW c \in Clients, User(c)
  PROVE  TInv'
<1>1. \A g \in Gifts : gift[c][g] \in [here : BOOLEAN, gone : {"no", "asked", "done"}, comments : Seq(Comment)]
  BY DEF IInv, ClientOk, GiftsOk, GiftOk
<1>2. ASSUME NEW k \in Cids, Create(c, k)
      PROVE  TInv'
  <2>. DEFINE h == Home[k]
              x == gift[c][h]
              y == [x EXCEPT !.comments = Append(@, New(k, 0))]
  <2>1. h \in Gifts
    BY IdsAssumption
  <2>2. /\ gift' = [gift EXCEPT ![c] = [gift[c] EXCEPT ![h] = y]] /\ x.here
        /\ UNCHANGED <<box, ping, store, mid, contact, faults>>
    BY <1>2 DEF Create
  <2>3. y.here
    BY <1>1, <2>1, <2>2
  <2>. HIDE DEF y, h
  <2>. QED
    BY <2>1, <2>2, <2>3, EditTyped
<1>3. ASSUME NEW k \in Cids, NEW action \in {"decide", "accept"}, Act(c, k, action)
      PROVE  TInv'
  <2>. DEFINE h == Home[k]
              x == gift[c][h]
              y == [x EXCEPT !.comments = [i \in DOMAIN @ |-> IF @[i].cid = k THEN [@[i] EXCEPT !.act = action] ELSE @[i]]]
  <2>1. h \in Gifts
    BY IdsAssumption
  <2>2. /\ gift' = [gift EXCEPT ![c] = [gift[c] EXCEPT ![h] = y]] /\ k \in Held(x)
        /\ UNCHANGED <<box, ping, store, mid, contact, faults>>
    BY <1>3 DEF Act
  <2>3. x.here
    <3>1. ~x.here => x = Nothing
      BY <2>1 DEF TInv, ClientTyped
    <3>2. x = Nothing => x.comments = <<>>
      BY DEF Nothing
    <3>. DEFINE s == x.comments
    <3>3. k \in {o.cid : o \in Range(s)}
      BY <2>2 DEF Held, Cs
    <3>4. s # <<>>
      <4>. HIDE DEF s
      <4>. QED
        BY <3>3, ShortLists DEF Range
    <3>. QED
      BY <1>1, <2>1, <3>1, <3>2, <3>4
  <2>4. y.here
    BY <1>1, <2>1, <2>3
  <2>. HIDE DEF y, h
  <2>. QED
    BY <2>1, <2>2, <2>3, <2>4, EditTyped
<1>4. ASSUME NEW g \in Gifts, Delete(c, g)
      PROVE  TInv'
  <2>. DEFINE x == gift[c][g]
              y == [x EXCEPT !.gone = "asked"]
  <2>1. /\ gift' = [gift EXCEPT ![c] = [gift[c] EXCEPT ![g] = y]] /\ x.here
        /\ UNCHANGED <<box, ping, store, mid, contact, faults>>
    BY <1>4 DEF Delete
  <2>2. y.here
    BY <1>1, <2>1
  <2>. HIDE DEF y
  <2>. QED
    BY <2>1, <2>2, EditTyped
<1>. QED
  BY <1>2, <1>3, <1>4 DEF User

LEMMA InitTyped ==
  ASSUME Init
  PROVE  TInv
<1>1. /\ contact = [c \in Clients |-> 0] /\ box = [c \in Clients |-> EmptyBox] /\ mid = [c \in Clients |-> 0]
      /\ ping = [c \in Clients |-> NoPing] /\ store = [c \in Clients |-> <<>>] /\ faults = 0
  BY DEF Init
<1>2. Counters
  BY <1>1 DEF Counters
<1>3. \A N : ListTyped(<<>>, N)
  BY ShortLists DEF ListTyped
<1>4. ASSUME NEW c \in Clients, NEW M
      PROVE  ClientTyped(gift[c], 0, EmptyBox, NoPing, 0, M)
  <2>1. BoxTyped(EmptyBox, 0, M) /\ EmptyBox.sendG = {} /\ EmptyBox.sending = <<>>
    BY ShortLists DEF BoxTyped, EmptyBox, ListTyped
  <2>2. PingTyped(gift[c], EmptyBox, NoPing, M)
    BY <2>1, NoPingTyped
  <2>3. \A g \in Gifts : ~gift[c][g].here => gift[c][g] = Nothing
    <3>. SUFFICES ASSUME NEW g \in Gifts, ~gift[c][g].here
                  PROVE  gift[c][g] = Nothing
      OBVIOUS
    <3>. DEFINE s == [i \in DOMAIN Start[c][g] |-> Loaded(New(Start[c][g][i].cid, Start[c][g][i].v))]
    <3>1. gift[c][g] = IF Start[c][g] = None THEN Nothing ELSE [Nothing EXCEPT !.here = TRUE, !.comments = s]
      BY DEF Init
    <3>. HIDE DEF s
    <3>2. [Nothing EXCEPT !.here = TRUE, !.comments = s].here = TRUE
      BY DEF Nothing
    <3>. QED
      BY <3>1, <3>2
  <2>. QED
    BY <2>1, <2>2, <2>3 DEF ClientTyped
<1>5. ASSUME NEW c \in Clients
      PROVE  /\ ClientTyped(gift[c], contact[c], box[c], ping[c], mid[c], mid[Peer(c)])
             /\ ListTyped(store[c], mid[Peer(c)])
  <2>1. contact[c] = 0 /\ box[c] = EmptyBox /\ mid[c] = 0 /\ ping[c] = NoPing /\ store[c] = <<>>
    BY <1>1
  <2>. QED
    BY <1>3, <1>4, <2>1
<1>. QED
  BY <1>2, <1>5 DEF TInv

LEMMA NextTyped ==
  ASSUME IInv, TInv, Next
  PROVE  TInv'
<1>1. PICK c \in Clients : \/ Ping(c) \/ Response(c) \/ Handle(c)
                           \/ Lost(c) \/ Fail(c) \/ Early(c) \/ Reload(c) \/ User(c)
  BY DEF Next
<1>2. Ping(c) \/ Response(c) \/ Handle(c) => TInv'
  BY PingTypes, ResponseTyped, HandleTyped
<1>3. Lost(c) \/ Fail(c) \/ Early(c) => TInv'
  BY FailTyped
<1>4. Reload(c) \/ User(c) => TInv'
  BY ReloadTyped, UserTyped
<1>. QED
  BY <1>1, <1>2, <1>3, <1>4

LEMMA StutterTyped ==
  ASSUME TInv, UNCHANGED vars
  PROVE  TInv'
  BY DEF TInv, Counters, vars

LEMMA TypedInvariant == Spec => []TInv
<1>1. Init => TInv
  BY InitTyped
<1>2. IInv /\ TInv /\ [Next]_vars => TInv'
  BY NextTyped, StutterTyped
<1>. QED
  BY <1>1, <1>2, Invariant, PTL DEF Spec

\* The types of the gifts array, of the server's records and of the messages in every folder, on their
\* way and on the server: a message has a type that its reader knows and a mid its writer has used, a
\* mailbox that is not known is empty, and a message waits at most Patience + 1 passes
\* (receive_message_send_gifts).
THEOREM MailIsTyped == Spec => []TypeOK
<1>1. ASSUME IInv, TInv
      PROVE  TypeOK
  <2>1. ASSUME NEW c \in Clients, NEW g \in Gifts
        PROVE  /\ gift[c][g].here \in BOOLEAN /\ gift[c][g].gone \in {"no", "asked", "done"}
               /\ Cs(gift[c][g]) \subseteq Comment /\ (~gift[c][g].here => gift[c][g] = Nothing)
    <3>1. GiftOk(g, gift[c][g], signed)
      BY <1>1 DEF IInv, ClientOk, GiftsOk
    <3>. DEFINE s == gift[c][g].comments
    <3>2. s \in Seq(Comment)
      BY <3>1 DEF GiftOk
    <3>3. \A i \in DOMAIN s : s[i] \in Comment
      <4>. HIDE DEF s
      <4>. QED
        BY <3>2, Elements
    <3>4. Cs(gift[c][g]) \subseteq Comment
      BY <3>3 DEF Cs, Range
    <3>5. ~gift[c][g].here => gift[c][g] = Nothing
      BY <1>1 DEF TInv, ClientTyped
    <3>. QED
      BY <3>1, <3>4, <3>5 DEF GiftOk
  <2>2. \A k \in Cids : signed[k].v \in 0..3 /\ signed[k].by \in Clients \union {None}
    BY <1>1 DEF IInv, SignedOk
  <2>3. contact \in [Clients -> 0..2]
    BY <1>1 DEF TInv, Counters
  <2>4. ASSUME NEW c \in Clients
        PROVE  /\ contact[c] = 0 => box[c] = EmptyBox
               /\ ping[c].stage \in {"idle", "sent", "failed"}
               /\ ping[c].stage = "idle" => ping[c] = NoPing /\ box[c].sending = <<>>
               /\ LET s == store[c] \o ping[c].mail \o box[c].inbox \o box[c].outbox \o box[c].sending
                  IN  \A i \in DOMAIN s : s[i].type \in Types /\ s[i].mid \in 0..mid[c] + mid[Peer(c)]
               /\ \A o \in Range(box[c].sent) : o.type \in Types
               /\ box[c].sendG \subseteq Here(c) /\ box[c].sendC \union box[c].askC \subseteq Cids
               /\ \A m \in Range(box[c].read) : m.type = "send_gifts" /\ m.body.count \in 1..Patience + 1
    <3>. DEFINE b == box[c]
                p == ping[c]
                N == mid[c] + mid[Peer(c)]
    <3>1. /\ ClientTyped(gift[c], contact[c], b, p, mid[c], mid[Peer(c)]) /\ ListTyped(store[c], mid[Peer(c)])
          /\ BoxOk(b, signed) /\ ListOk(store[c], signed) /\ ListOk(p.mail, signed) /\ SendOk(gift[c], b)
      BY <1>1 DEF TInv, IInv, ClientOk, PingOk
    <3>2. mid[c] \in Nat /\ mid[Peer(c)] \in Nat /\ N \in Nat /\ mid[c] <= N /\ mid[Peer(c)] <= N
      <4>1. mid \in [Clients -> Nat] /\ Peer(c) \in Clients
        BY <1>1, PeerOf DEF TInv, Counters
      <4>. QED
        BY <4>1
    <3>3. \A t : ListTyped(t, mid[c]) \/ ListTyped(t, mid[Peer(c)]) => ListTyped(t, N)
      <4>. HIDE DEF N
      <4>. QED
        BY <3>2, TypedLater
    <3>4. BoxTyped(b, mid[c], mid[Peer(c)]) /\ PingTyped(gift[c], b, p, mid[Peer(c)]) /\ b.sendG \subseteq HereIn(gift[c])
      BY <3>1 DEF ClientTyped
    <3>. DEFINE s1 == store[c] \o p.mail
                s2 == s1 \o b.inbox
                s3 == s2 \o b.outbox
                s  == s3 \o b.sending
    <3>5. \A i \in DOMAIN s : s[i].type \in Types /\ s[i].mid \in 0..N
      <4>1. /\ IsList(store[c]) /\ IsList(p.mail) /\ IsList(b.inbox) /\ IsList(b.outbox) /\ IsList(b.sending)
        BY <3>1 DEF BoxOk, ListOk
      <4>2. /\ ListTyped(store[c], N) /\ ListTyped(p.mail, N) /\ ListTyped(b.inbox, N)
            /\ ListTyped(b.outbox, N) /\ ListTyped(b.sending, N)
        BY <3>1, <3>3, <3>4 DEF BoxTyped, PingTyped
      <4>. HIDE DEF b, p, N
      <4>3. ListTyped(s1, N) /\ IsList(s1)
        BY <4>1, <4>2, ConcatTyped
      <4>. HIDE DEF s1
      <4>4. ListTyped(s2, N) /\ IsList(s2)
        BY <4>1, <4>2, <4>3, ConcatTyped
      <4>. HIDE DEF s2
      <4>5. ListTyped(s3, N) /\ IsList(s3)
        BY <4>1, <4>2, <4>4, ConcatTyped
      <4>. HIDE DEF s3
      <4>6. ListTyped(s, N)
        BY <4>1, <4>2, <4>5, ConcatTyped
      <4>. HIDE DEF s
      <4>7. N \in Nat /\ "sync_gifts" \in Types
        BY <3>2 DEF Types
      <4>. QED
        BY <4>6, <4>7 DEF ListTyped, PartTyped, WholeTyped
    <3>6. \A o \in Range(b.sent) : o.type \in Types
      BY <3>4 DEF BoxTyped, Range
    <3>7. \A m \in Range(b.read) : m.type = "send_gifts" /\ m.body.count \in 1..Patience + 1
      <4>. SUFFICES ASSUME NEW i \in DOMAIN b.read
                    PROVE  b.read[i].type = "send_gifts" /\ b.read[i].body.count \in 1..Patience + 1
        BY DEF Range
      <4>1. b.read[i].type = "send_gifts" /\ b.read[i].body.count >= 1
        BY <3>1, <3>4 DEF BoxOk, BoxTyped
      <4>2. b.read[i].body.count \in 0..Patience + 1
        BY <3>4, <4>1 DEF BoxTyped, ListTyped, PartTyped, WholeTyped, Counted
      <4>. HIDE DEF b
      <4>. QED
        BY <4>1, <4>2, BoundsAssumption
    <3>8. b.sendG \subseteq Here(c)
      BY <3>4 DEF HereIn, Here
    <3>9. b.sendC \union b.askC \subseteq Cids
      BY <3>1, <3>4 DEF SendOk, Holds, BoxTyped
    <3>10. contact[c] = 0 => b = EmptyBox
      BY <3>1 DEF ClientTyped
    <3>11. p.stage \in {"idle", "sent", "failed"} /\ (p.stage = "idle" => p = NoPing /\ b.sending = <<>>)
      BY <3>4 DEF PingTyped
    <3>. QED
      BY <3>5, <3>6, <3>7, <3>8, <3>9, <3>10, <3>11
  <2>. QED
    BY <2>1, <2>2, <2>3, <2>4 DEF TypeOK
<1>. QED
  BY <1>1, Invariant, TypedInvariant, PTL

----------------------------------------------------------------------------
\* Numbers that are in one place only: mids of questions on their way, and the requests that answers
\* name.

\* The numbers a message stands for, and those of a list.
KeysOf(tag, m) == IF tag = "mids" THEN MidsOf(m) ELSE {m.req} \ {0}
KeysIn(tag, s) == UNION {KeysOf(tag, s[i]) : i \in DOMAIN s}

\* No number occurs twice.
Single(tag, m) == tag = "mids" => PartsApart(m)
Apart(tag, s) ==
  /\ IsList(s) /\ \A i \in DOMAIN s : Single(tag, s[i])
  /\ \A i, j \in DOMAIN s : i # j => KeysOf(tag, s[i]) \intersect KeysOf(tag, s[j]) = {}

\* The places where messages are, on their way from one client to the other.
Stops == {"outbox", "sending", "store", "mail", "inbox", "read"}
Spread(tag, F, gone) ==
  /\ \A x \in Stops : Apart(tag, F[x]) /\ KeysIn(tag, F[x]) \intersect gone = {}
  /\ \A x, y \in Stops : x # y => KeysIn(tag, F[x]) \intersect KeysIn(tag, F[y]) = {}

\* From the mailbox w, ping p and messages s on the server to the ping q and mailbox b of the reader.
\* What is in sending has been stored when the ping has arrived.
Flow(w, p, s, q, b) ==
  [x \in Stops |-> IF x = "outbox" THEN w.outbox
                    ELSE IF x = "sending" THEN IF p.stage = "sent" THEN <<>> ELSE w.sending
                    ELSE IF x = "store" THEN s
                    ELSE IF x = "mail" THEN q.mail
                    ELSE IF x = "inbox" THEN b.inbox ELSE b.read]

\* The answers in the mailbox b; what it has answered.
Given(b) ==
  [x \in Stops |-> IF x = "outbox" THEN b.outbox ELSE IF x = "sending" THEN b.sending
                    ELSE IF x = "store" THEN b.sent ELSE <<>>]
Done(b) == b.closed \union KeysIn("reqs", b.outbox) \union KeysIn("reqs", b.sending) \union KeysIn("reqs", b.sent)

\* N is the last mid of the writer.
FlowOk(w, p, s, q, b, N) == Spread("mids", Flow(w, p, s, q, b), Done(b)) /\ Done(b) \subseteq 0..N
GivenOk(b)               == Spread("reqs", Given(b), b.closed)
OInv ==
  faults = 0 => \A c \in Clients :
    GivenOk(box[c]) /\ FlowOk(box[Peer(c)], ping[Peer(c)], store[c], ping[c], box[c], mid[Peer(c)])

LEMMA ConcatApart ==
  ASSUME NEW tag, NEW s, NEW t, Apart(tag, s), Apart(tag, t), KeysIn(tag, s) \intersect KeysIn(tag, t) = {},
         NEW r, r = s \o t
  PROVE  Apart(tag, r) /\ KeysIn(tag, r) \subseteq KeysIn(tag, s) \union KeysIn(tag, t)
<1>. DEFINE S == {s[i] : i \in DOMAIN s} \union {t[i] : i \in DOMAIN t}
            n == Len(s)
<1>1. s \in Seq(S) /\ t \in Seq(S)
  BY DEF Apart, IsList
<1>2. IsList(r)
  BY Concatenated DEF Apart
<1>. HIDE DEF S
<1>3. /\ DOMAIN s = 1..n /\ n \in Nat
      /\ \A i \in DOMAIN r : /\ i \in Nat
                             /\ (i \in DOMAIN s /\ r[i] = s[i]) \/ (i > n /\ i - n \in DOMAIN t /\ r[i] = t[i - n])
  BY <1>1
<1>. HIDE DEF n
<1>4. ASSUME NEW i \in DOMAIN r
      PROVE  Single(tag, r[i]) /\ KeysOf(tag, r[i]) \subseteq KeysIn(tag, s) \union KeysIn(tag, t)
  BY <1>3 DEF Apart, KeysIn
<1>5. ASSUME NEW i \in DOMAIN r, NEW j \in DOMAIN r, i # j
      PROVE  KeysOf(tag, r[i]) \intersect KeysOf(tag, r[j]) = {}
  <2>1. CASE i \in DOMAIN s /\ r[i] = s[i] /\ j \in DOMAIN s /\ r[j] = s[j]
    BY <1>5, <2>1 DEF Apart
  <2>2. CASE i > n /\ i - n \in DOMAIN t /\ r[i] = t[i - n] /\ j > n /\ j - n \in DOMAIN t /\ r[j] = t[j - n]
    <3>1. i - n # j - n
      BY <1>3, <1>5
    <3>. QED
      BY <2>2, <3>1 DEF Apart
  <2>3. CASE i \in DOMAIN s /\ r[i] = s[i] /\ j - n \in DOMAIN t /\ r[j] = t[j - n]
    BY <2>3 DEF KeysIn
  <2>4. CASE j \in DOMAIN s /\ r[j] = s[j] /\ i - n \in DOMAIN t /\ r[i] = t[i - n]
    BY <2>4 DEF KeysIn
  <2>. QED
    BY <1>3, <2>1, <2>2, <2>3, <2>4
<1>6. Apart(tag, r)
  BY <1>2, <1>4, <1>5 DEF Apart
<1>7. KeysIn(tag, r) \subseteq KeysIn(tag, s) \union KeysIn(tag, t)
  <2>. DEFINE K == KeysIn(tag, s) \union KeysIn(tag, t)
  <2>1. \A i \in DOMAIN r : KeysOf(tag, r[i]) \subseteq K
    BY <1>4
  <2>. HIDE DEF K
  <2>2. KeysIn(tag, r) \subseteq K
    BY <2>1 DEF KeysIn
  <2>. QED
    BY <2>2 DEF K
<1>. QED
  BY <1>6, <1>7

LEMMA OneApart ==
  ASSUME NEW tag, NEW m, Single(tag, m)
  PROVE  Apart(tag, <<m>>) /\ KeysIn(tag, <<m>>) = KeysOf(tag, m)
<1>1. IsList(<<m>>) /\ DOMAIN <<m>> = {1} /\ <<m>>[1] = m
  BY ShortLists
<1>. QED
  BY <1>1 DEF Apart, KeysIn

LEMMA NoneApart ==
  ASSUME NEW tag
  PROVE  Apart(tag, <<>>) /\ KeysIn(tag, <<>>) = {}
  BY ShortLists DEF Apart, KeysIn

LEMMA AppendApart ==
  ASSUME NEW tag, NEW s, Apart(tag, s), NEW m, Single(tag, m), KeysOf(tag, m) \intersect KeysIn(tag, s) = {},
         NEW r, r = Append(s, m)
  PROVE  Apart(tag, r) /\ KeysIn(tag, r) \subseteq KeysIn(tag, s) \union KeysOf(tag, m)
<1>. DEFINE S == {s[i] : i \in DOMAIN s} \union {m}
<1>1. s \in Seq(S) /\ m \in S
  BY DEF Apart, IsList
<1>. HIDE DEF S
<1>2. Append(s, m) = s \o <<m>>
  BY <1>1
<1>3. Apart(tag, <<m>>) /\ KeysIn(tag, <<m>>) = KeysOf(tag, m)
  BY OneApart
<1>. DEFINE t == <<m>>
<1>4. /\ r = s \o t /\ Apart(tag, t) /\ KeysIn(tag, t) = KeysOf(tag, m)
      /\ KeysIn(tag, s) \intersect KeysIn(tag, t) = {}
  BY <1>2, <1>3
<1>. HIDE DEF t
<1>. QED
  BY <1>4, ConcatApart

LEMMA TailApart ==
  ASSUME NEW tag, NEW s, Apart(tag, s), s # <<>>, NEW r, r = Tail(s)
  PROVE  /\ Apart(tag, r) /\ KeysIn(tag, r) \subseteq KeysIn(tag, s) /\ KeysOf(tag, Head(s)) \subseteq KeysIn(tag, s)
         /\ KeysIn(tag, r) \intersect KeysOf(tag, Head(s)) = {} /\ Single(tag, Head(s))
<1>. DEFINE S == {s[i] : i \in DOMAIN s}
<1>1. s \in Seq(S)
  BY DEF Apart, IsList
<1>2. IsList(r) /\ 1 \in DOMAIN s /\ Head(s) = s[1]
  BY OneLess DEF Apart
<1>. HIDE DEF S
<1>3. \A i \in DOMAIN r : i \in Nat /\ i + 1 \in DOMAIN s /\ i + 1 # 1 /\ r[i] = s[i + 1]
  BY <1>1
<1>4. ASSUME NEW i \in DOMAIN r
      PROVE  /\ Single(tag, r[i]) /\ KeysOf(tag, r[i]) \subseteq KeysIn(tag, s)
             /\ KeysOf(tag, r[i]) \intersect KeysOf(tag, Head(s)) = {}
  BY <1>2, <1>3 DEF Apart, KeysIn
<1>5. ASSUME NEW i \in DOMAIN r, NEW j \in DOMAIN r, i # j
      PROVE  KeysOf(tag, r[i]) \intersect KeysOf(tag, r[j]) = {}
  <2>1. i + 1 # j + 1 /\ i + 1 \in DOMAIN s /\ j + 1 \in DOMAIN s /\ r[i] = s[i + 1] /\ r[j] = s[j + 1]
    BY <1>3, <1>5
  <2>. QED
    BY <2>1 DEF Apart
<1>6. KeysOf(tag, Head(s)) \subseteq KeysIn(tag, s) /\ Single(tag, Head(s))
  BY <1>2 DEF Apart, KeysIn
<1>. QED
  BY <1>2, <1>4, <1>5, <1>6 DEF Apart, KeysIn

\* Part of a list.  What is not part of it has other numbers.
LEMMA PartApart ==
  ASSUME NEW tag, NEW s, Apart(tag, s), NEW I \in SUBSET DOMAIN s, NEW r, r = At(s, I)
  PROVE  /\ Apart(tag, r) /\ KeysIn(tag, r) \subseteq KeysIn(tag, s)
         /\ \A n \in DOMAIN s \ I : KeysIn(tag, r) \intersect KeysOf(tag, s[n]) = {}
<1>. DEFINE S == {s[i] : i \in DOMAIN s}
<1>1. s \in Seq(S)
  BY DEF Apart, IsList
<1>. HIDE DEF S
<1>2. /\ \A i \in DOMAIN r : \E n \in I : r[i] = s[n]
      /\ \A i, j \in DOMAIN r : i # j => \E n, m \in I : n # m /\ r[i] = s[n] /\ r[j] = s[m]
  BY <1>1, AtPart
<1>3. IsList(r)
  BY ListPart DEF Apart
<1>4. ASSUME NEW i \in DOMAIN r
      PROVE  /\ Single(tag, r[i]) /\ KeysOf(tag, r[i]) \subseteq KeysIn(tag, s)
             /\ \A n \in DOMAIN s \ I : KeysOf(tag, r[i]) \intersect KeysOf(tag, s[n]) = {}
  <2>1. PICK n \in I : r[i] = s[n]
    BY <1>2
  <2>2. n \in DOMAIN s
    OBVIOUS
  <2>. QED
    BY <2>1, <2>2 DEF Apart, KeysIn
<1>5. ASSUME NEW i \in DOMAIN r, NEW j \in DOMAIN r, i # j
      PROVE  KeysOf(tag, r[i]) \intersect KeysOf(tag, r[j]) = {}
  <2>1. PICK n \in I, m \in I : n # m /\ r[i] = s[n] /\ r[j] = s[m]
    BY <1>2, <1>5
  <2>. QED
    BY <2>1 DEF Apart
<1>. QED
  BY <1>3, <1>4, <1>5 DEF Apart, KeysIn

\* A list of other messages with the same numbers.
LEMMA SameApart ==
  ASSUME NEW tag, NEW s, Apart(tag, s), NEW r, IsList(r), DOMAIN r = DOMAIN s,
         \A i \in DOMAIN s : KeysOf(tag, r[i]) = KeysOf(tag, s[i]) /\ Single(tag, r[i])
  PROVE  Apart(tag, r) /\ KeysIn(tag, r) = KeysIn(tag, s)
  BY DEF Apart, KeysIn

LEMMA AlikeApart ==
  ASSUME NEW tag, NEW s, Apart(tag, s), NEW r, IsList(r), Alike(r, s)
  PROVE  Apart(tag, r) /\ KeysIn(tag, r) = KeysIn(tag, s)
<1>1. ASSUME NEW i \in DOMAIN s
      PROVE  KeysOf(tag, r[i]) = KeysOf(tag, s[i]) /\ Single(tag, r[i])
  <2>. DEFINE m == s[i]
              n == r[i]
  <2>1. Single(tag, m)
    BY DEF Apart
  <2>2. n = m \/ (m.type = "users_sha256" /\ n.type = "users_sha256" /\ n.mid = m.mid /\ n.req = m.req)
    BY DEF Alike
  <2>. HIDE DEF m, n
  <2>3. KeysOf(tag, n) = KeysOf(tag, m) /\ Single(tag, n)
    BY <2>1, <2>2 DEF KeysOf, Single, MidsOf, PartsApart
  <2>. QED
    BY <2>3 DEF m, n
<1>. QED
  BY <1>1, SameApart DEF Alike

LEMMA AgainApart ==
  ASSUME NEW tag, NEW s, Apart(tag, s), NEW r, ReadAgain(r, s), \A i \in DOMAIN s : s[i].type = "send_gifts"
  PROVE  Apart(tag, r) /\ KeysIn(tag, r) = KeysIn(tag, s)
<1>1. ASSUME NEW i \in DOMAIN s
      PROVE  KeysOf(tag, r[i]) = KeysOf(tag, s[i]) /\ Single(tag, r[i])
  <2>. DEFINE m == s[i]
              n == r[i]
  <2>1. n.type = m.type /\ n.mid = m.mid /\ n.req = m.req /\ m.type = "send_gifts"
    BY DEF ReadAgain
  <2>. HIDE DEF m, n
  <2>2. KeysOf(tag, n) = KeysOf(tag, m) /\ Single(tag, n)
    BY <2>1 DEF KeysOf, Single, MidsOf, PartsApart
  <2>. QED
    BY <2>2 DEF m, n
<1>. QED
  BY <1>1, SameApart DEF ReadAgain

\* The parts of a sync_gifts message have its numbers.
LEMMA PartsInOrder ==
  ASSUME NEW m, WholeOk(m, signed), PartsApart(m), NEW s, s = m.body
  PROVE  Apart("mids", s) /\ KeysIn("mids", s) = MidsOf(m)
<1>1. IsList(s) /\ m.type = "sync_gifts" /\ \A i \in DOMAIN s : s[i].type # "sync_gifts"
  BY DEF WholeOk, PartOk
<1>2. \A i \in DOMAIN s : KeysOf("mids", s[i]) = {s[i].mid} /\ Single("mids", s[i])
  BY <1>1 DEF KeysOf, MidsOf, Single, PartsApart
<1>3. \A i, j \in DOMAIN s : i # j => s[i].mid # s[j].mid
  BY <1>1 DEF PartsApart
<1>4. MidsOf(m) = {s[i].mid : i \in DOMAIN s}
  BY <1>1 DEF MidsOf
<1>5. Apart("mids", s)
  BY <1>1, <1>2, <1>3 DEF Apart
<1>6. KeysIn("mids", s) = MidsOf(m)
  <2>1. KeysIn("mids", s) = UNION {{s[i].mid} : i \in DOMAIN s}
    BY <1>2 DEF KeysIn
  <2>. QED
    BY <1>4, <2>1
<1>. QED
  BY <1>5, <1>6

\* Numbers are not above the last one.
LEMMA MidsTyped ==
  ASSUME NEW s, NEW N \in Nat, ListTyped(s, N)
  PROVE  KeysIn("mids", s) \subseteq 1..N
<1>1. ASSUME NEW i \in DOMAIN s
      PROVE  KeysOf("mids", s[i]) \subseteq 1..N
  <2>1. PartTyped(s[i], N) \/ WholeTyped(s[i], N)
    BY DEF ListTyped
  <2>. DEFINE m == s[i]
  <2>. HIDE DEF m
  <2>2. ASSUME PartTyped(m, N) \/ WholeTyped(m, N)
        PROVE  MidsOf(m) \subseteq 1..N
    BY <2>2 DEF PartTyped, WholeTyped, MidsOf
  <2>. QED
    BY <2>1, <2>2 DEF KeysOf, m
<1>. QED
  BY <1>1 DEF KeysIn

\* What messages_sent keeps of a message has its request at most.
LEMMA KeepApart ==
  ASSUME NEW s, Apart("reqs", s), NEW m, m.type = "sync_gifts" => IsList(m.body),
         KeysOf("reqs", m) \intersect KeysIn("reqs", s) = {}
  PROVE  Apart("reqs", Keep(s, m)) /\ KeysIn("reqs", Keep(s, m)) \subseteq KeysIn("reqs", s) \union KeysOf("reqs", m)
<1>. DEFINE f == Brief(m)
            t == s \o f
            u == Keep(s, m)
<1>1. IsList(f) /\ (u = t \/ (t # <<>> /\ u = Tail(t)))
  BY KeepIs DEF Apart
<1>2. Apart("reqs", f) /\ KeysIn("reqs", f) \subseteq KeysOf("reqs", m)
  <2>1. CASE m.type = "sync_gifts"
    <3>1. f = [i \in DOMAIN m.body |-> [type |-> m.body[i].type, mid |-> m.body[i].mid, req |-> 0]]
      BY <2>1 DEF Brief
    <3>. HIDE DEF f
    <3>2. \A i \in DOMAIN f : f[i].req = 0
      BY <3>1
    <3>3. \A i \in DOMAIN f : KeysOf("reqs", f[i]) = {} /\ Single("reqs", f[i])
      BY <3>2 DEF KeysOf, Single
    <3>. QED
      BY <1>1, <3>3 DEF Apart, KeysIn
  <2>2. CASE m.type # "sync_gifts"
    <3>. DEFINE w == [type |-> m.type, mid |-> m.mid, req |-> m.req]
    <3>1. f = <<w>> /\ w.req = m.req
      BY <2>2 DEF Brief
    <3>. HIDE DEF w, f
    <3>2. KeysOf("reqs", w) = KeysOf("reqs", m) /\ Single("reqs", w)
      BY <3>1 DEF KeysOf, Single
    <3>. QED
      BY <3>1, <3>2, OneApart
  <2>. QED
    BY <2>1, <2>2
<1>. HIDE DEF f, u
<1>3. KeysIn("reqs", s) \intersect KeysIn("reqs", f) = {}
  BY <1>2
<1>4. t = s \o f
  OBVIOUS
<1>. HIDE DEF t
<1>5. Apart("reqs", t) /\ KeysIn("reqs", t) \subseteq KeysIn("reqs", s) \union KeysIn("reqs", f)
  BY <1>2, <1>3, <1>4, ConcatApart
<1>6. t # <<>> => Apart("reqs", Tail(t)) /\ KeysIn("reqs", Tail(t)) \subseteq KeysIn("reqs", t)
  BY <1>5, TailApart
<1>7. Apart("reqs", u) /\ KeysIn("reqs", u) \subseteq KeysIn("reqs", t)
  BY <1>1, <1>5, <1>6
<1>. QED
  BY <1>2, <1>5, <1>7 DEF u

LEMMA SentApart ==
  ASSUME NEW b, BoxOk(b, signed), GivenOk(b), NEW s, s = Sent(b).sent
  PROVE  Apart("reqs", s) /\ KeysIn("reqs", s) \subseteq KeysIn("reqs", b.sending) \union KeysIn("reqs", b.sent)
<1>1. IsList(b.sending) /\ ListOk(b.sending, signed)
  BY DEF BoxOk, ListOk
<1>2. /\ Apart("reqs", b.sending) /\ Apart("reqs", b.sent)
      /\ KeysIn("reqs", b.sending) \intersect KeysIn("reqs", b.sent) = {}
  <2>1. Given(b)["sending"] = b.sending /\ Given(b)["store"] = b.sent /\ "sending" \in Stops /\ "store" \in Stops
    BY DEF Given, Stops
  <2>. QED
    BY <2>1 DEF GivenOk, Spread
<1>3. PICK kept : Keeping(kept, b)
  BY <1>1, SentChain
<1>. DEFINE L == Len(b.sending)
            Before(n) == KeysIn("reqs", b.sent) \union UNION {KeysOf("reqs", b.sending[i]) : i \in 1..n}
            S == {n \in Nat : n <= L => Apart("reqs", kept[n]) /\ KeysIn("reqs", kept[n]) \subseteq Before(n)}
<1>4. L \in Nat /\ DOMAIN b.sending = 1..L
  BY <1>1 DEF IsList
<1>5. 0 \in S
  BY <1>2, <1>3 DEF Keeping
<1>6. ASSUME NEW n \in S
      PROVE  n + 1 \in S
  <2>. SUFFICES ASSUME n + 1 <= L
                PROVE  Apart("reqs", kept[n + 1]) /\ KeysIn("reqs", kept[n + 1]) \subseteq Before(n + 1)
    OBVIOUS
  <2>1. /\ n \in Nat /\ n + 1 \in 1..L /\ (n + 1) - 1 = n
        /\ Apart("reqs", kept[n]) /\ KeysIn("reqs", kept[n]) \subseteq Before(n)
    BY <1>4
  <2>2. kept[n + 1] = Keep(kept[n], b.sending[n + 1])
    BY <1>3, <2>1 DEF Keeping
  <2>. DEFINE m == b.sending[n + 1]
  <2>3. PartOk(m, signed) \/ WholeOk(m, signed)
    BY <1>1, <1>4, <2>1 DEF ListOk
  <2>4. KeysOf("reqs", m) \intersect Before(n) = {}
    <3>1. \A i \in 1..n : i \in DOMAIN b.sending /\ n + 1 \in DOMAIN b.sending /\ i # n + 1
      BY <1>4, <2>1
    <3>2. \A i \in 1..n : KeysOf("reqs", b.sending[i]) \intersect KeysOf("reqs", m) = {}
      BY <1>2, <3>1 DEF Apart
    <3>3. KeysOf("reqs", m) \subseteq KeysIn("reqs", b.sending)
      BY <1>4, <2>1 DEF KeysIn
    <3>. HIDE DEF m
    <3>. QED
      BY <1>2, <3>2, <3>3
  <2>5. Before(n) \union KeysOf("reqs", m) \subseteq Before(n + 1)
    <3>1. \A i \in 1..n : i \in 1..(n + 1)
      BY <2>1
    <3>2. n + 1 \in 1..(n + 1)
      BY <2>1
    <3>. QED
      BY <3>1, <3>2
  <2>. HIDE DEF m, Before
  <2>6. m.type = "sync_gifts" => IsList(m.body)
    BY <2>3 DEF PartOk, WholeOk
  <2>7. KeysOf("reqs", m) \intersect KeysIn("reqs", kept[n]) = {}
    BY <2>1, <2>4
  <2>8. Apart("reqs", Keep(kept[n], m)) /\ KeysIn("reqs", Keep(kept[n], m)) \subseteq KeysIn("reqs", kept[n]) \union KeysOf("reqs", m)
    BY <2>1, <2>6, <2>7, KeepApart
  <2>. QED
    BY <2>1, <2>2, <2>5, <2>8 DEF m
<1>7. Apart("reqs", kept[L]) /\ KeysIn("reqs", kept[L]) \subseteq Before(L)
  <2>1. S \in SUBSET Nat
    OBVIOUS
  <2>2. L \in S
    <3>. HIDE DEF S
    <3>. QED  BY <1>4, <1>5, <1>6, <2>1, FromZero
  <2>. QED
    BY <1>4, <2>2
<1>8. s = kept[L]
  <2>. DEFINE k == kept[L]
  <2>1. Sent(b) = [b EXCEPT !.sent = k, !.sending = <<>>]
    BY <1>3 DEF Keeping
  <2>. HIDE DEF k
  <2>2. Sent(b) = [inbox |-> b.inbox, read |-> b.read, outbox |-> b.outbox, sending |-> <<>>, sent |-> k,
                   closed |-> b.closed, sendG |-> b.sendG, sendC |-> b.sendC, askC |-> b.askC]
    BY <2>1 DEF BoxOk
  <2>. QED
    BY <2>2 DEF k
<1>9. Before(L) = KeysIn("reqs", b.sent) \union KeysIn("reqs", b.sending)
  BY <1>4 DEF KeysIn
<1>. QED
  BY <1>7, <1>8, <1>9

----------------------------------------------------------------------------
\* Moving messages about.

\* Nothing new comes to the places x and y, except numbers that are nowhere else.
LEMMA Shift ==
  ASSUME NEW tag, NEW F, NEW G, NEW gone, NEW past, NEW fresh, Spread(tag, F, gone),
         NEW x \in Stops, NEW y \in Stops, \A z \in Stops \ {x, y} : G[z] = F[z],
         Apart(tag, G[x]), Apart(tag, G[y]), x # y => KeysIn(tag, G[x]) \intersect KeysIn(tag, G[y]) = {},
         KeysIn(tag, G[x]) \subseteq KeysIn(tag, F[x]) \union KeysIn(tag, F[y]) \union fresh,
         KeysIn(tag, G[y]) \subseteq KeysIn(tag, F[x]) \union KeysIn(tag, F[y]) \union fresh,
         past \subseteq gone \union KeysIn(tag, F[x]) \union KeysIn(tag, F[y]),
         past \intersect (KeysIn(tag, G[x]) \union KeysIn(tag, G[y])) = {},
         \A z \in Stops \ {x, y} : fresh \intersect KeysIn(tag, F[z]) = {}
  PROVE  Spread(tag, G, past)
<1>1. ASSUME NEW z \in Stops
      PROVE  Apart(tag, G[z]) /\ KeysIn(tag, G[z]) \intersect past = {}
  <2>1. CASE z \in {x, y}
    BY <2>1
  <2>2. CASE z \notin {x, y}
    BY <2>2 DEF Spread
  <2>. QED
    BY <2>1, <2>2
<1>2. ASSUME NEW z \in Stops \ {x, y}
      PROVE  KeysIn(tag, G[x]) \intersect KeysIn(tag, G[z]) = {} /\ KeysIn(tag, G[y]) \intersect KeysIn(tag, G[z]) = {}
  <2>1. KeysIn(tag, F[x]) \intersect KeysIn(tag, F[z]) = {} /\ KeysIn(tag, F[y]) \intersect KeysIn(tag, F[z]) = {}
    BY <1>2 DEF Spread
  <2>. QED
    BY <1>2, <2>1
<1>3. ASSUME NEW z \in Stops, NEW w \in Stops, z # w
      PROVE  KeysIn(tag, G[z]) \intersect KeysIn(tag, G[w]) = {}
  <2>1. CASE z \notin {x, y} /\ w \notin {x, y}
    BY <1>3, <2>1 DEF Spread
  <2>2. CASE z \in {x, y} /\ w \notin {x, y}
    BY <1>2, <2>2
  <2>3. CASE z \notin {x, y} /\ w \in {x, y}
    BY <1>2, <2>3
  <2>4. CASE z \in {x, y} /\ w \in {x, y}
    BY <1>3, <2>4
  <2>. QED
    BY <2>1, <2>2, <2>3, <2>4
<1>. QED
  BY <1>1, <1>3 DEF Spread

\* The same or nothing in each place.
LEMMA Fewer ==
  ASSUME NEW tag, NEW F, NEW G, NEW gone, NEW past, Spread(tag, F, gone),
         \A z \in Stops : G[z] = F[z] \/ G[z] = <<>>, past \subseteq gone
  PROVE  Spread(tag, G, past)
<1>1. \A z \in Stops : Apart(tag, G[z]) /\ KeysIn(tag, G[z]) \subseteq KeysIn(tag, F[z])
  BY NoneApart DEF Spread
<1>2. \A z \in Stops : KeysIn(tag, G[z]) \intersect past = {}
  BY <1>1 DEF Spread
<1>3. ASSUME NEW z \in Stops, NEW w \in Stops, z # w
      PROVE  KeysIn(tag, G[z]) \intersect KeysIn(tag, G[w]) = {}
  <2>1. KeysIn(tag, F[z]) \intersect KeysIn(tag, F[w]) = {}
    BY <1>3 DEF Spread
  <2>. QED
    BY <1>1, <2>1
<1>. QED
  BY <1>1, <1>2, <1>3 DEF Spread

LEMMA FlowAt ==
  ASSUME NEW w, NEW p, NEW s, NEW q, NEW b, NEW F, F = Flow(w, p, s, q, b)
  PROVE  /\ F["outbox"] = w.outbox /\ F["sending"] = (IF p.stage = "sent" THEN <<>> ELSE w.sending) /\ F["store"] = s
         /\ F["mail"] = q.mail /\ F["inbox"] = b.inbox /\ F["read"] = b.read
  BY DEF Flow, Stops

LEMMA GivenAt ==
  ASSUME NEW b, NEW F, F = Given(b)
  PROVE  /\ F["outbox"] = b.outbox /\ F["sending"] = b.sending /\ F["store"] = b.sent
         /\ F["mail"] = <<>> /\ F["inbox"] = <<>> /\ F["read"] = <<>>
  BY DEF Given, Stops

\* The two directions of client c: what it reads, and what it writes.
Reads(c, s, q, b) == FlowOk(box[Peer(c)], ping[Peer(c)], s, q, b, mid[Peer(c)])
Writes(c, w, p, s) == Spread("mids", Flow(w, p, s, ping[Peer(c)], box[Peer(c)]), Done(box[Peer(c)]))

LEMMA OnceNow ==
  ASSUME OInv, faults = 0, NEW c \in Clients
  PROVE  /\ GivenOk(box[c]) /\ Reads(c, store[c], ping[c], box[c]) /\ Writes(c, box[c], ping[c], store[Peer(c)])
         /\ Done(box[Peer(c)]) \subseteq 0..mid[c]
  BY PeerOf DEF OInv, Reads, Writes, FlowOk

\* A step of c.
LEMMA OnceFrame ==
  ASSUME OInv, faults' = 0 => faults = 0, NEW c \in Clients, mid \in [Clients -> Nat], mid' \in [Clients -> Nat], mid[c] <= mid'[c],
         \A e \in Clients \ {c} : box'[e] = box[e] /\ ping'[e] = ping[e] /\ mid'[e] = mid[e],
         faults' = 0 => /\ GivenOk(box'[c]) /\ Reads(c, store'[c], ping'[c], box'[c])
                        /\ Writes(c, box'[c], ping'[c], store'[Peer(c)])
  PROVE  OInv'
<1>. SUFFICES ASSUME faults' = 0, NEW e \in Clients
              PROVE  /\ GivenOk(box'[e])
                     /\ FlowOk(box'[Peer(e)], ping'[Peer(e)], store'[e], ping'[e], box'[e], mid'[Peer(e)])
  BY DEF OInv
<1>. DEFINE d == Peer(c)
<1>1. d \in Clients /\ d # c /\ Peer(d) = c /\ (e = c \/ e = d)
  BY PeerOf
<1>2. box'[d] = box[d] /\ ping'[d] = ping[d] /\ mid'[d] = mid[d]
  BY <1>1
<1>3. CASE e = c
  BY <1>2, <1>3 DEF Reads
<1>4. CASE e = d
  <2>1. GivenOk(box[d]) /\ Done(box[d]) \subseteq 0..mid[c]
    BY <1>1, OnceNow DEF OInv
  <2>2. Done(box[d]) \subseteq 0..mid'[c]
    <3>1. mid[c] \in Nat /\ mid'[c] \in Nat
      OBVIOUS
    <3>2. 0..mid[c] \subseteq 0..mid'[c]
      BY <3>1
    <3>. QED
      BY <2>1, <3>2
  <2>. QED
    BY <1>1, <1>2, <1>4, <2>1, <2>2 DEF Writes, FlowOk
<1>. QED
  BY <1>1, <1>3, <1>4

LEMMA OnceSame ==
  ASSUME OInv, UNCHANGED <<box, ping, store, mid, faults>>
  PROVE  OInv'
  BY DEF OInv

\* What an empty mailbox has answered.
LEMMA NothingDone ==
  ASSUME NEW b, b.closed = {}, b.outbox = <<>>, b.sending = <<>>, b.sent = <<>>
  PROVE  Done(b) = {}
  BY NoneApart DEF Done

LEMMA ReloadOnce ==
  ASSUME IInv, TInv, OInv, NEW c \in Clients, Reload(c)
  PROVE  OInv'
<1>1. /\ box' = [box EXCEPT ![c] = EmptyBox] /\ ping' = [ping EXCEPT ![c] = NoPing]
      /\ mid' = mid /\ store' = store /\ faults' = faults
  BY DEF Reload
<1>2. /\ mid \in [Clients -> Nat] /\ box = [d \in Clients |-> box[d]] /\ ping = [d \in Clients |-> ping[d]]
  BY DEF Counters, IInv, TInv
<1>3. box'[c] = EmptyBox /\ ping'[c] = NoPing
  BY <1>1, <1>2
<1>4. ASSUME faults = 0
      PROVE  GivenOk(EmptyBox) /\ Reads(c, store[c], NoPing, EmptyBox) /\ Writes(c, EmptyBox, NoPing, store[Peer(c)])
  <2>. DEFINE b == EmptyBox
              p == NoPing
              v == box[Peer(c)]
              q == ping[Peer(c)]
  <2>1. /\ b.outbox = <<>> /\ b.sending = <<>> /\ b.sent = <<>> /\ b.closed = {} /\ b.inbox = <<>> /\ b.read = <<>>
        /\ p.mail = <<>> /\ p.stage = "idle"
    BY DEF EmptyBox, NoPing
  <2>2. GivenOk(box[c]) /\ Reads(c, store[c], ping[c], box[c]) /\ Writes(c, box[c], ping[c], store[Peer(c)])
    BY <1>4, OnceNow
  <2>. HIDE DEF b, p
  <2>3. Done(b) = {}
    BY <2>1, NothingDone
  <2>4. GivenOk(b)
    <3>. DEFINE F == Given(box[c])
                G == Given(b)
    <3>1. \A z \in Stops : G[z] = <<>>
      BY <2>1, GivenAt DEF Stops
    <3>2. Spread("reqs", F, box[c].closed) /\ b.closed \subseteq box[c].closed
      BY <2>1, <2>2 DEF GivenOk
    <3>. HIDE DEF F, G
    <3>3. Spread("reqs", G, b.closed)
      BY <3>1, <3>2, Fewer
    <3>. QED
      BY <3>3 DEF GivenOk, G
  <2>5. Reads(c, store[c], p, b)
    <3>. DEFINE F == Flow(v, q, store[c], ping[c], box[c])
                G == Flow(v, q, store[c], p, b)
    <3>1. \A z \in Stops : G[z] = F[z] \/ G[z] = <<>>
      <4>. HIDE DEF v, q
      <4>. QED
        BY <2>1, FlowAt DEF Stops
    <3>2. Spread("mids", F, Done(box[c])) /\ Done(b) \subseteq Done(box[c]) /\ Done(b) \subseteq 0..mid[Peer(c)]
      BY <2>2, <2>3 DEF Reads, FlowOk
    <3>. HIDE DEF F, G
    <3>3. Spread("mids", G, Done(b))
      BY <3>1, <3>2, Fewer
    <3>. QED
      BY <3>2, <3>3 DEF Reads, FlowOk, G
  <2>6. Writes(c, b, p, store[Peer(c)])
    <3>. DEFINE s == store[Peer(c)]
                F == Flow(box[c], ping[c], s, q, v)
                G == Flow(b, p, s, q, v)
    <3>1. \A z \in Stops : G[z] = F[z] \/ G[z] = <<>>
      <4>. HIDE DEF v, q, s
      <4>. QED
        BY <2>1, FlowAt DEF Stops
    <3>2. Spread("mids", F, Done(v))
      BY <2>2 DEF Writes
    <3>. HIDE DEF F, G
    <3>3. Spread("mids", G, Done(v))
      BY <3>1, <3>2, Fewer
    <3>. QED
      BY <3>3 DEF Writes, G
  <2>. QED
    BY <2>4, <2>5, <2>6 DEF b, p
<1>5. \A e \in Clients \ {c} : box'[e] = box[e] /\ ping'[e] = ping[e] /\ mid'[e] = mid[e]
  BY <1>1, <1>2
<1>6. mid' \in [Clients -> Nat] /\ mid[c] <= mid'[c] /\ (faults' = 0 => faults = 0)
  BY <1>1, <1>2
<1>7. faults' = 0 => /\ GivenOk(box'[c]) /\ Reads(c, store'[c], ping'[c], box'[c])
                     /\ Writes(c, box'[c], ping'[c], store'[Peer(c)])
  BY <1>1, <1>3, <1>4
<1>. QED
  BY <1>2, <1>5, <1>6, <1>7, OnceFrame

\* Messages go from one list of answers to another one, and nothing else changes.
LEMMA GivenMoves ==
  ASSUME NEW b, NEW d, GivenOk(b), d.sent = b.sent, d.closed = b.closed,
         Apart("reqs", d.outbox), Apart("reqs", d.sending), KeysIn("reqs", d.outbox) \intersect KeysIn("reqs", d.sending) = {},
         KeysIn("reqs", d.outbox) \union KeysIn("reqs", d.sending) \subseteq KeysIn("reqs", b.outbox) \union KeysIn("reqs", b.sending)
  PROVE  GivenOk(d) /\ Done(d) \subseteq Done(b)
<1>. DEFINE F == Given(b)
            G == Given(d)
            gone == b.closed
            past == d.closed
            fresh == {}
            x == "outbox"
            y == "sending"
            tag == "reqs"
<1>1. /\ F[x] = b.outbox /\ F[y] = b.sending /\ G[x] = d.outbox /\ G[y] = d.sending
      /\ \A z \in Stops \ {x, y} : G[z] = F[z]
  BY GivenAt DEF Stops
<1>2. Spread(tag, F, gone) /\ x \in Stops /\ y \in Stops /\ x # y /\ past = gone /\ fresh = {}
  BY DEF GivenOk, Stops
<1>3. /\ Apart(tag, d.outbox) /\ Apart(tag, d.sending) /\ KeysIn(tag, d.outbox) \intersect KeysIn(tag, d.sending) = {}
      /\ KeysIn(tag, d.outbox) \union KeysIn(tag, d.sending) \subseteq KeysIn(tag, b.outbox) \union KeysIn(tag, b.sending)
  OBVIOUS
<1>. HIDE DEF F, G, gone, past, fresh, x, y, tag
<1>4. KeysIn(tag, F[x]) \intersect gone = {} /\ KeysIn(tag, F[y]) \intersect gone = {}
  BY <1>2 DEF Spread
<1>5. /\ Apart(tag, G[x]) /\ Apart(tag, G[y]) /\ KeysIn(tag, G[x]) \intersect KeysIn(tag, G[y]) = {}
      /\ KeysIn(tag, G[x]) \subseteq KeysIn(tag, F[x]) \union KeysIn(tag, F[y]) \union fresh
      /\ KeysIn(tag, G[y]) \subseteq KeysIn(tag, F[x]) \union KeysIn(tag, F[y]) \union fresh
      /\ past \subseteq gone \union KeysIn(tag, F[x]) \union KeysIn(tag, F[y])
      /\ past \intersect (KeysIn(tag, G[x]) \union KeysIn(tag, G[y])) = {}
      /\ \A z \in Stops \ {x, y} : fresh \intersect KeysIn(tag, F[z]) = {}
  BY <1>1, <1>2, <1>3, <1>4
<1>6. Spread(tag, G, past)
  <2>1. Spread(tag, F, gone) /\ x \in Stops /\ y \in Stops /\ \A z \in Stops \ {x, y} : G[z] = F[z]
    BY <1>1, <1>2
  <2>. QED
    BY <1>5, <2>1, Shift
<1>7. Done(d) \subseteq Done(b)
  BY DEF Done
<1>. QED
  BY <1>6, <1>7 DEF GivenOk, G, past, tag

\* The numbers that c uses up in a ping.
Rising(tag, c) == IF tag = "mids" THEN (mid[c] + 1)..(mid[c] + Increment(c)) ELSE {}

LEMMA OutApart ==
  ASSUME IInv, Counters, NEW c \in Clients, NEW tag, Apart(tag, box[c].outbox),
         KeysIn(tag, box[c].outbox) \intersect Rising(tag, c) = {}
  PROVE  /\ Apart(tag, Out(c)) /\ KeysIn(tag, Out(c)) \subseteq KeysIn(tag, box[c].outbox) \union Rising(tag, c)
         /\ Apart(tag, Wire(c)) /\ KeysIn(tag, Wire(c)) = KeysIn(tag, Out(c))
         /\ Apart(tag, Sending(c)) /\ KeysIn(tag, Sending(c)) = KeysIn(tag, Out(c))
<1>. DEFINE o == box[c].outbox
<1>1. Apart(tag, Out(c)) /\ KeysIn(tag, Out(c)) \subseteq KeysIn(tag, o) \union Rising(tag, c)
  <2>1. CASE contact[c] < 2
    <3>1. Out(c) = <<>>
      BY <2>1, OutIs
    <3>. QED
      BY <3>1, NoneApart
  <2>2. CASE ~(contact[c] < 2)
    <3>1. PICK push, I : SentOf(c, push, I)
      BY <2>2, OutIs
    <3>2. Apart(tag, push) /\ KeysIn(tag, push) \subseteq Rising(tag, c)
      <4>1. CASE push = <<>>
        BY <4>1, NoneApart
      <4>2. CASE push # <<>>
        <5>1. PICK w : push = <<w>> /\ Newly(w, mid[c], Increment(c)) /\ w.req = 0
          BY <3>1, <4>2 DEF SentOf, IsPush
        <5>2. Single(tag, w) /\ KeysOf(tag, w) \subseteq Rising(tag, c)
          BY <5>1 DEF Single, KeysOf, Rising, Newly
        <5>3. Apart(tag, <<w>>) /\ KeysIn(tag, <<w>>) = KeysOf(tag, w)
          BY <5>2, OneApart
        <5>. QED
          BY <5>1, <5>2, <5>3
      <4>. QED
        BY <4>1, <4>2
    <3>. DEFINE L == o \o push
    <3>3. L = o \o push /\ KeysIn(tag, o) \intersect KeysIn(tag, push) = {} /\ Apart(tag, o)
      BY <3>2
    <3>4. I \in SUBSET DOMAIN L /\ Out(c) = At(L, I)
      BY <3>1 DEF SentOf
    <3>. HIDE DEF L, o
    <3>5. Apart(tag, L) /\ KeysIn(tag, L) \subseteq KeysIn(tag, o) \union KeysIn(tag, push)
      BY <3>2, <3>3, ConcatApart
    <3>. DEFINE r == At(L, I)
    <3>6. r = At(L, I)
      OBVIOUS
    <3>. HIDE DEF r
    <3>7. Apart(tag, r) /\ KeysIn(tag, r) \subseteq KeysIn(tag, L)
      BY <3>4, <3>5, <3>6, PartApart
    <3>. QED
      BY <3>2, <3>4, <3>5, <3>6, <3>7
  <2>. QED
    BY <2>1, <2>2
<1>2. Alike(Wire(c), Out(c)) /\ Alike(Sending(c), Out(c)) /\ IsList(Wire(c)) /\ IsList(Sending(c))
  BY Relabelled
<1>. QED
  BY <1>1, <1>2, AlikeApart

\* What a ping leaves in the outbox and what it takes.
LEMMA BuiltApart ==
  ASSUME IInv, TInv, NEW c \in Clients, box[c].sending = <<>>, NEW tag, Apart(tag, box[c].outbox),
         KeysIn(tag, box[c].outbox) \intersect Rising(tag, c) = {}, NEW s \in {Built(c).sending, Wire(c)}
  PROVE  /\ Apart(tag, Built(c).outbox) /\ Apart(tag, s)
         /\ KeysIn(tag, Built(c).outbox) \subseteq KeysIn(tag, box[c].outbox)
         /\ KeysIn(tag, s) \subseteq KeysIn(tag, box[c].outbox) \union Rising(tag, c)
         /\ KeysIn(tag, Built(c).outbox) \intersect KeysIn(tag, s) = {}
<1>0. Counters
  BY DEF TInv
<1>1. /\ Apart(tag, Out(c)) /\ KeysIn(tag, Out(c)) \subseteq KeysIn(tag, box[c].outbox) \union Rising(tag, c)
      /\ Apart(tag, Wire(c)) /\ KeysIn(tag, Wire(c)) = KeysIn(tag, Out(c))
      /\ Apart(tag, Sending(c)) /\ KeysIn(tag, Sending(c)) = KeysIn(tag, Out(c))
  BY <1>0, OutApart
<1>2. Apart(tag, <<>>) /\ KeysIn(tag, <<>>) = {}
  BY NoneApart
<1>3. CASE contact[c] < 2
  <2>1. Built(c) = box[c] /\ Out(c) = <<>>
    BY <1>0, <1>3, OutIs DEF Built
  <2>. QED
    BY <1>1, <1>2, <2>1
<1>4. CASE ~(contact[c] < 2)
  <2>1. BoxOk(box[c], signed)
    BY DEF IInv, ClientOk
  <2>2. Built(c) = [box[c] EXCEPT !.sending = Sending(c), !.outbox = <<>>, !.sendG = {}, !.sendC = {}, !.askC = {}]
    BY <1>4 DEF Built
  <2>3. Built(c).outbox = <<>> /\ Built(c).sending = Sending(c)
    BY <2>1, <2>2 DEF BoxOk
  <2>. QED
    BY <1>1, <1>2, <2>3
<1>. QED
  BY <1>3, <1>4

LEMMA BuiltKeeps ==
  ASSUME IInv, NEW c \in Clients
  PROVE  /\ Built(c).sent = box[c].sent /\ Built(c).closed = box[c].closed
         /\ Built(c).inbox = box[c].inbox /\ Built(c).read = box[c].read
<1>1. BoxOk(box[c], signed)
  BY DEF IInv, ClientOk
<1>. QED
  BY <1>1 DEF Built, BoxOk

\* Numbers not yet used are nowhere.
LEMMA Unused ==
  ASSUME TInv, NEW c \in Clients, NEW n, n \in Nat, NEW F,
         F = Flow(box[c], ping[c], store[Peer(c)], ping[Peer(c)], box[Peer(c)])
  PROVE  \A z \in Stops : KeysIn("mids", F[z]) \intersect (mid[c] + 1)..(mid[c] + n) = {}
<1>. DEFINE d == Peer(c)
            N == mid[c]
<1>1. d \in Clients /\ Peer(d) = c /\ N \in Nat
  BY PeerOf DEF TInv, Counters
<1>2. /\ ListTyped(box[c].outbox, N) /\ ListTyped(box[c].sending, N) /\ ListTyped(store[d], N)
      /\ ListTyped(ping[d].mail, N) /\ ListTyped(box[d].inbox, N) /\ ListTyped(box[d].read, N)
  BY <1>1 DEF TInv, ClientTyped, BoxTyped, PingTyped
<1>3. ListTyped(<<>>, N)
  BY ShortLists DEF ListTyped
<1>. DEFINE w == box[c]
            p == ping[c]
            s == store[d]
            q == ping[d]
            b == box[d]
<1>4. F = Flow(w, p, s, q, b)
  OBVIOUS
<1>. HIDE DEF d, N, w, p, s, q, b
<1>5. \A z \in Stops : ListTyped(F[z], N)
  BY <1>2, <1>3, <1>4, FlowAt DEF Stops, w, p, s, q, b
<1>6. \A z \in Stops : KeysIn("mids", F[z]) \subseteq 1..N
  BY <1>1, <1>5, MidsTyped
<1>7. (1..N) \intersect (N + 1)..(N + n) = {}
  BY <1>1
<1>. QED
  BY <1>6, <1>7 DEF N

LEMMA FailOnce ==
  ASSUME TInv, NEW c \in Clients, Lost(c) \/ Fail(c) \/ Early(c)
  PROVE  OInv'
<1>1. faults \in Nat
  BY DEF TInv, Counters
<1>2. faults' = faults + 1
  BY DEF Lost, Fail, Early
<1>3. faults' # 0
  BY <1>1, <1>2
<1>. QED
  BY <1>3 DEF OInv

\* What is sent reaches the server, or stays in sending when the server fails.
LEMMA PingWrites ==
  ASSUME IInv, TInv, OInv, NEW c \in Clients, faults = 0, box[c].sending = <<>>, NEW p,
         NEW t, NEW y \in {"sending", "store"},
         (y = "sending" /\ p.stage # "sent" /\ t = store[Peer(c)]) \/ (y = "store" /\ p.stage = "sent" /\ t = store[Peer(c)] \o Wire(c))
  PROVE  Writes(c, Built(c), p, t)
<1>. DEFINE w == box[c]
            b == Built(c)
            v == box[Peer(c)]
            q == ping[Peer(c)]
            s == store[Peer(c)]
            F == Flow(w, ping[c], s, q, v)
            G == Flow(b, p, t, q, v)
            x == "outbox"
            fresh == Rising("mids", c)
            gone == Done(v)
            sent == IF y = "sending" THEN b.sending ELSE Wire(c)
<1>1. Writes(c, w, ping[c], s) /\ gone \subseteq 0..mid[c]
  BY OnceNow
<1>2. Spread("mids", F, gone) /\ F = Flow(w, ping[c], s, q, v) /\ G = Flow(b, p, t, q, v)
  BY <1>1 DEF Writes
<1>3. \A z \in Stops : KeysIn("mids", F[z]) \intersect fresh = {}
  <2>. DEFINE n == Increment(c)
  <2>1. n \in Nat /\ fresh = (mid[c] + 1)..(mid[c] + n)
    BY OutIs DEF TInv, Rising
  <2>. HIDE DEF F, n, fresh
  <2>2. F = Flow(box[c], ping[c], store[Peer(c)], ping[Peer(c)], box[Peer(c)])
    BY DEF F
  <2>. QED
    BY <2>1, <2>2, Unused
<1>4. gone \intersect fresh = {}
  <2>1. mid[c] \in Nat /\ Increment(c) \in Nat
    BY OutIs DEF TInv, Counters
  <2>2. (0..mid[c]) \intersect (mid[c] + 1)..(mid[c] + Increment(c)) = {}
    BY <2>1
  <2>. HIDE DEF gone
  <2>. QED
    BY <1>1, <2>2 DEF Rising
<1>5. x \in Stops /\ y \in Stops /\ x # y
  BY DEF Stops
<1>6. sent \in {b.sending, Wire(c)} /\ w.sending = <<>>
  OBVIOUS
<1>. HIDE DEF F, G, fresh, gone, w, b, v, q, s, sent
<1>7. /\ F["outbox"] = w.outbox /\ F["sending"] = <<>> /\ F["store"] = s
      /\ F["mail"] = q.mail /\ F["inbox"] = v.inbox /\ F["read"] = v.read
  BY <1>2, <1>6, FlowAt
<1>8. /\ G["outbox"] = b.outbox /\ G["sending"] = (IF p.stage = "sent" THEN <<>> ELSE b.sending) /\ G["store"] = t
      /\ G["mail"] = q.mail /\ G["inbox"] = v.inbox /\ G["read"] = v.read
  BY <1>2, FlowAt
<1>9. /\ G[x] = b.outbox /\ G[y] = (IF y = "sending" THEN sent ELSE F[y] \o sent) /\ F[x] = w.outbox /\ (y = "sending" => F[y] = <<>>)
      /\ \A z \in Stops \ {x, y} : G[z] = F[z]
  BY <1>7, <1>8 DEF Stops, s, sent
<1>. HIDE DEF x
<1>10. /\ Apart("mids", F[x]) /\ Apart("mids", F[y]) /\ KeysIn("mids", F[x]) \intersect KeysIn("mids", F[y]) = {}
       /\ KeysIn("mids", F[x]) \intersect gone = {} /\ KeysIn("mids", F[y]) \intersect gone = {}
       /\ KeysIn("mids", F[x]) \intersect fresh = {} /\ KeysIn("mids", F[y]) \intersect fresh = {}
  BY <1>2, <1>3, <1>5 DEF Spread
<1>11. /\ Apart("mids", b.outbox) /\ Apart("mids", sent)
       /\ KeysIn("mids", b.outbox) \subseteq KeysIn("mids", w.outbox)
       /\ KeysIn("mids", sent) \subseteq KeysIn("mids", w.outbox) \union fresh
       /\ KeysIn("mids", b.outbox) \intersect KeysIn("mids", sent) = {}
  BY <1>6, <1>9, <1>10, BuiltApart DEF w, b, fresh
<1>12. KeysIn("mids", F[y]) \intersect KeysIn("mids", sent) = {}
  BY <1>9, <1>10, <1>11
<1>13. Apart("mids", G[y]) /\ KeysIn("mids", G[y]) \subseteq KeysIn("mids", F[y]) \union KeysIn("mids", sent)
  <2>1. CASE y = "sending"
    BY <1>9, <1>11, <2>1
  <2>2. CASE y # "sending"
    <3>1. G[y] = F[y] \o sent
      BY <1>9, <2>2
    <3>. QED
      BY <1>10, <1>11, <1>12, <3>1, ConcatApart
  <2>. QED
    BY <2>1, <2>2
<1>14. /\ Apart("mids", G[x]) /\ KeysIn("mids", G[x]) \intersect KeysIn("mids", G[y]) = {}
       /\ KeysIn("mids", G[x]) \subseteq KeysIn("mids", F[x]) \union KeysIn("mids", F[y]) \union fresh
       /\ KeysIn("mids", G[y]) \subseteq KeysIn("mids", F[x]) \union KeysIn("mids", F[y]) \union fresh
       /\ gone \subseteq gone \union KeysIn("mids", F[x]) \union KeysIn("mids", F[y])
       /\ gone \intersect (KeysIn("mids", G[x]) \union KeysIn("mids", G[y])) = {}
       /\ \A z \in Stops \ {x, y} : fresh \intersect KeysIn("mids", F[z]) = {}
  BY <1>3, <1>4, <1>9, <1>10, <1>11, <1>13
<1>15. Spread("mids", G, gone)
  <2>1. Spread("mids", F, gone) /\ x \in Stops /\ y \in Stops /\ \A z \in Stops \ {x, y} : G[z] = F[z]
    BY <1>2, <1>5, <1>9
  <2>2. Apart("mids", G[y])
    BY <1>13
  <2>. QED
    BY <1>14, <2>1, <2>2, Shift
<1>. QED
  BY <1>15 DEF Writes, G, gone, v, q, b

LEMMA PingGiven ==
  ASSUME IInv, TInv, OInv, NEW c \in Clients, faults = 0, box[c].sending = <<>>, NEW b, b = Built(c)
  PROVE  GivenOk(b) /\ Done(b) \subseteq Done(box[c])
<1>. DEFINE w == box[c]
            F == Given(w)
            fresh == Rising("reqs", c)
            t == b.sending
<1>1. GivenOk(w)
  BY OnceNow
<1>2. F["outbox"] = w.outbox /\ F["sending"] = w.sending /\ "outbox" \in Stops /\ "sending" \in Stops
  BY GivenAt DEF Stops
<1>3. Apart("reqs", w.outbox)
  BY <1>1, <1>2 DEF GivenOk, Spread
<1>4. fresh = {} /\ t \in {b.sending, Wire(c)}
  BY DEF Rising
<1>5. b.sent = w.sent /\ b.closed = w.closed
  BY BuiltKeeps
<1>. HIDE DEF F, fresh, t
<1>6. /\ Apart("reqs", b.outbox) /\ Apart("reqs", t)
      /\ KeysIn("reqs", b.outbox) \subseteq KeysIn("reqs", w.outbox)
      /\ KeysIn("reqs", t) \subseteq KeysIn("reqs", w.outbox) \union fresh
      /\ KeysIn("reqs", b.outbox) \intersect KeysIn("reqs", t) = {}
  BY <1>3, <1>4, BuiltApart DEF fresh
<1>. HIDE DEF w
<1>. QED
  BY <1>1, <1>4, <1>5, <1>6, GivenMoves DEF t, w

\* The ping takes the messages that wait for the client.
LEMMA PingReads ==
  ASSUME IInv, TInv, OInv, NEW c \in Clients, faults = 0, ping[c] = NoPing, box[c].sending = <<>>, NEW p, NEW t,
         (t = store[c] /\ p.mail = <<>>) \/ (t = <<>> /\ p.mail = store[c])
  PROVE  Reads(c, t, p, Built(c))
<1>. DEFINE w == box[c]
            b == Built(c)
            v == box[Peer(c)]
            q == ping[Peer(c)]
            F == Flow(v, q, store[c], ping[c], w)
            G == Flow(v, q, t, p, b)
            x == "store"
            y == "mail"
            fresh == {}
            gone == Done(w)
            past == Done(b)
<1>1. Reads(c, store[c], ping[c], w)
  BY OnceNow
<1>2. Spread("mids", F, gone) /\ gone \subseteq 0..mid[Peer(c)] /\ F = Flow(v, q, store[c], ping[c], w) /\ G = Flow(v, q, t, p, b)
  BY <1>1 DEF Reads, FlowOk
<1>3. past \subseteq gone
  BY PingGiven
<1>4. b.inbox = w.inbox /\ b.read = w.read /\ ping[c].mail = <<>>
  BY BuiltKeeps DEF NoPing
<1>5. x \in Stops /\ y \in Stops /\ x # y
  BY DEF Stops
<1>. HIDE DEF F, G, w, b, v, q, gone, past
<1>6. /\ F["outbox"] = v.outbox /\ F["sending"] = (IF q.stage = "sent" THEN <<>> ELSE v.sending) /\ F["store"] = store[c]
      /\ F["mail"] = <<>> /\ F["inbox"] = w.inbox /\ F["read"] = w.read
  BY <1>2, <1>4, FlowAt
<1>7. /\ G["outbox"] = v.outbox /\ G["sending"] = (IF q.stage = "sent" THEN <<>> ELSE v.sending) /\ G["store"] = t
      /\ G["mail"] = p.mail /\ G["inbox"] = b.inbox /\ G["read"] = b.read
  BY <1>2, FlowAt
<1>8. /\ \A z \in Stops \ {x, y} : G[z] = F[z]
      /\ F[y] = <<>>
      /\ (G[x] = F[x] /\ G[y] = F[y]) \/ (G[x] = <<>> /\ G[y] = F[x])
  BY <1>4, <1>6, <1>7 DEF Stops
<1>. HIDE DEF x, y
<1>9. Apart("mids", <<>>) /\ KeysIn("mids", <<>>) = {}
  BY NoneApart
<1>10. /\ Apart("mids", F[x]) /\ Apart("mids", F[y]) /\ KeysIn("mids", F[x]) \intersect KeysIn("mids", F[y]) = {}
       /\ KeysIn("mids", F[x]) \intersect gone = {} /\ KeysIn("mids", F[y]) \intersect gone = {}
  BY <1>2, <1>5 DEF Spread
<1>11. /\ Apart("mids", G[x]) /\ Apart("mids", G[y]) /\ KeysIn("mids", G[x]) \intersect KeysIn("mids", G[y]) = {}
       /\ KeysIn("mids", G[x]) \subseteq KeysIn("mids", F[x]) \union KeysIn("mids", F[y]) \union fresh
       /\ KeysIn("mids", G[y]) \subseteq KeysIn("mids", F[x]) \union KeysIn("mids", F[y]) \union fresh
       /\ past \subseteq gone \union KeysIn("mids", F[x]) \union KeysIn("mids", F[y])
       /\ past \intersect (KeysIn("mids", G[x]) \union KeysIn("mids", G[y])) = {}
       /\ \A z \in Stops \ {x, y} : fresh \intersect KeysIn("mids", F[z]) = {}
  BY <1>3, <1>8, <1>9, <1>10
<1>. HIDE DEF fresh
<1>12. Spread("mids", G, past)
  <2>1. Spread("mids", F, gone) /\ x \in Stops /\ y \in Stops /\ \A z \in Stops \ {x, y} : G[z] = F[z]
    BY <1>2, <1>5, <1>8
  <2>. QED
    BY <1>11, <2>1, Shift
<1>. QED
  BY <1>2, <1>3, <1>12 DEF Reads, FlowOk, G, v, q, past, b, gone

LEMMA PingOnce ==
  ASSUME IInv, TInv, OInv, NEW c \in Clients, Ping(c)
  PROVE  OInv'
<1>1. /\ mid \in [Clients -> Nat] /\ box = [d \in Clients |-> box[d]] /\ ping = [d \in Clients |-> ping[d]]
      /\ store = [d \in Clients |-> store[d]] /\ Counters
  BY DEF TInv, Counters, IInv
<1>2. Increment(c) \in Nat /\ mid' = [mid EXCEPT ![c] = mid[c] + Increment(c)]
  BY <1>1, OutIs DEF Ping
<1>3. box' = [box EXCEPT ![c] = Built(c)] /\ faults' = faults /\ ping[c] = NoPing /\ box[c].sending = <<>>
  BY DEF Ping, TInv, ClientTyped, PingTyped
<1>. DEFINE b == Built(c)
            d == Peer(c)
            own == {[cid |-> o.cid, ok |-> Signed(c)[o.cid].by = c] : o \in Own(c)}
            gone == Gone(c)
            p == IF Raises(c) THEN [NoPing EXCEPT !.stage = "failed", !.gone = gone]
                 ELSE [stage |-> "sent", mail |-> store[c], own |-> own, gone |-> gone]
            y == IF Raises(c) THEN "sending" ELSE "store"
<1>4. ping' = [ping EXCEPT ![c] = p] /\ box'[c] = b /\ ping'[c] = p
  <2>1. CASE Raises(c)
    <3>1. ping' = [ping EXCEPT ![c] = p]
      BY <2>1 DEF Ping
    <3>. HIDE DEF p, b
    <3>. QED
      BY <1>1, <1>3, <3>1 DEF b
  <2>2. CASE ~Raises(c)
    <3>1. ping' = [ping EXCEPT ![c] = p]
      BY <2>2 DEF Ping
    <3>. HIDE DEF p, b
    <3>. QED
      BY <1>1, <1>3, <3>1 DEF b
  <2>. QED
    BY <2>1, <2>2
<1>5. /\ d \in Clients /\ d # c
      /\ Raises(c) => store' = store
      /\ ~Raises(c) => store'[c] = <<>> /\ store'[d] = store[d] \o Wire(c)
  <2>1. d \in Clients /\ d # c
    BY PeerOf
  <2>. DEFINE t == store[d] \o Wire(c)
  <2>2. ~Raises(c) => store' = [store EXCEPT ![c] = <<>>, ![d] = t]
    BY DEF Ping
  <2>3. Raises(c) => store' = store
    BY DEF Ping
  <2>. HIDE DEF d, t
  <2>4. ~Raises(c) => store'[c] = <<>> /\ store'[d] = t
    BY <1>1, <2>1, <2>2
  <2>. QED
    BY <2>1, <2>3, <2>4 DEF t
<1>6. /\ (Raises(c) /\ y = "sending" /\ p.stage = "failed" /\ p.mail = <<>>) \/ (~Raises(c) /\ y = "store" /\ p.stage = "sent" /\ p.mail = store[c])
      /\ y \in {"sending", "store"}
  <2>. HIDE DEF own, gone
  <2>. DEFINE f == [NoPing EXCEPT !.stage = "failed", !.gone = gone]
  <2>1. f.stage = "failed" /\ f.mail = <<>>
    BY DEF NoPing
  <2>. QED
    BY <2>1
<1>. HIDE DEF b, d, p, y
<1>7. ASSUME faults = 0
      PROVE  GivenOk(b) /\ Reads(c, store'[c], p, b) /\ Writes(c, b, p, store'[d])
  <2>1. GivenOk(b)
    BY <1>3, <1>7, PingGiven DEF b
  <2>. DEFINE t == store'[c]
              u == store'[d]
  <2>2. (t = store[c] /\ p.mail = <<>>) \/ (t = <<>> /\ p.mail = store[c])
    BY <1>5, <1>6
  <2>3. (y = "sending" /\ p.stage # "sent" /\ u = store[d]) \/ (y = "store" /\ p.stage = "sent" /\ u = store[d] \o Wire(c))
    BY <1>5, <1>6
  <2>. HIDE DEF t, u
  <2>4. Reads(c, t, p, b)
    BY <1>3, <1>7, <2>2, PingReads DEF b
  <2>5. Writes(c, b, p, u)
    BY <1>3, <1>6, <1>7, <2>3, PingWrites DEF b, d
  <2>. QED
    BY <2>1, <2>4, <2>5 DEF t, u
<1>8. \A e \in Clients \ {c} : box'[e] = box[e] /\ ping'[e] = ping[e] /\ mid'[e] = mid[e]
  BY <1>1, <1>2, <1>3, <1>4
<1>9. mid' \in [Clients -> Nat] /\ mid[c] <= mid'[c]
  BY <1>1, <1>2
<1>10. faults' = 0 => /\ GivenOk(box'[c]) /\ Reads(c, store'[c], ping'[c], box'[c])
                      /\ Writes(c, box'[c], ping'[c], store'[Peer(c)])
  BY <1>3, <1>4, <1>7 DEF d
<1>. QED
  BY <1>1, <1>3, <1>8, <1>9, <1>10, OnceFrame

LEMMA HelloApart ==
  ASSUME Counters, NEW c \in Clients, NEW tag, NEW h, h = Greeting(c)
  PROVE  Apart(tag, h) /\ KeysIn(tag, h) \subseteq IF tag = "mids" THEN (mid[c] + 1)..(mid[c] + 1) ELSE {}
<1>1. /\ IsList(h) /\ \A i \in DOMAIN h : Newly(h[i], mid[c], 1) /\ h[i].req = 0
      /\ \A i, j \in DOMAIN h : i = j
  <2>1. /\ IsList(Greeting(c)) /\ \A i \in DOMAIN Greeting(c) : Newly(Greeting(c)[i], mid[c], 1) /\ Greeting(c)[i].req = 0
        /\ Greeting(c) = <<>> \/ DOMAIN Greeting(c) = {1}
    BY GreetingTyped
  <2>2. h = <<>> => DOMAIN h = {}
    BY ShortLists
  <2>. QED
    BY <2>1, <2>2
<1>2. ASSUME NEW i \in DOMAIN h
      PROVE  Single(tag, h[i]) /\ KeysOf(tag, h[i]) \subseteq IF tag = "mids" THEN (mid[c] + 1)..(mid[c] + 1) ELSE {}
  <2>. DEFINE m == h[i]
  <2>1. Newly(m, mid[c], 1) /\ m.req = 0
    BY <1>1
  <2>. HIDE DEF m
  <2>2. Single(tag, m) /\ KeysOf(tag, m) \subseteq IF tag = "mids" THEN (mid[c] + 1)..(mid[c] + 1) ELSE {}
    BY <2>1 DEF Newly, Single, KeysOf
  <2>. QED
    BY <2>2 DEF m
<1>3. Apart(tag, h)
  BY <1>1, <1>2 DEF Apart
<1>. DEFINE K == IF tag = "mids" THEN (mid[c] + 1)..(mid[c] + 1) ELSE {}
<1>4. \A i \in DOMAIN h : KeysOf(tag, h[i]) \subseteq K
  BY <1>2
<1>. HIDE DEF K
<1>5. KeysIn(tag, h) \subseteq K
  BY <1>4 DEF KeysIn
<1>. QED
  BY <1>3, <1>5 DEF K

\* What is sent before a response is in the sent folder after it.
LEMMA ResponseGiven ==
  ASSUME IInv, TInv, OInv, NEW c \in Clients, faults = 0, NEW e, NEW r, Received(c, e, r)
  PROVE  GivenOk(e) /\ Done(e) \subseteq Done(box[c])
<1>. DEFINE w == box[c]
            h == Greeting(c)
            s == Sent(w).sent
            F == Given(w)
            G == Given(e)
            H == [z \in Stops |-> IF z = "outbox" THEN e.outbox ELSE F[z]]
            gone == w.closed
            fresh == {}
            x == "sending"
            y == "store"
            u == "outbox"
<1>1. GivenOk(w) /\ BoxOk(w, signed) /\ Counters
  BY OnceNow DEF IInv, ClientOk, TInv
<1>2. h = Greeting(c) /\ e.outbox = w.outbox \o h /\ e.sending = <<>> /\ e.sent = s /\ s = Sent(w).sent
  BY DEF Received
<1>3. e.closed = gone
  <2>1. Sent(w).closed = w.closed
    <3>. DEFINE sb == Sent(w)
    <3>1. PICK t : sb = [w EXCEPT !.sent = t, !.sending = <<>>]
      BY DEF Sent
    <3>. HIDE DEF sb, w
    <3>2. sb = [inbox |-> w.inbox, read |-> w.read, outbox |-> w.outbox, sending |-> <<>>, sent |-> t,
                closed |-> w.closed, sendG |-> w.sendG, sendC |-> w.sendC, askC |-> w.askC]
      BY <1>1, <3>1 DEF BoxOk
    <3>3. sb.closed = w.closed
      BY <3>2
    <3>. QED
      BY <3>3 DEF sb
  <2>. QED
    BY <2>1 DEF Received
<1>4. Spread("reqs", F, gone) /\ F = Given(w) /\ G = Given(e)
  BY <1>1 DEF GivenOk
<1>. HIDE DEF w, h, s, F, G
<1>5. /\ F["outbox"] = w.outbox /\ F["sending"] = w.sending /\ F["store"] = w.sent
      /\ F["mail"] = <<>> /\ F["inbox"] = <<>> /\ F["read"] = <<>>
  BY <1>4, GivenAt
<1>6. /\ G["outbox"] = e.outbox /\ G["sending"] = <<>> /\ G["store"] = s
      /\ G["mail"] = <<>> /\ G["inbox"] = <<>> /\ G["read"] = <<>>
  BY <1>2, <1>4, GivenAt
<1>7. /\ H[u] = e.outbox /\ H[x] = w.sending /\ H[y] = w.sent /\ F[u] = w.outbox /\ G[x] = <<>> /\ G[y] = s
      /\ \A z \in Stops \ {u, u} : H[z] = F[z]
      /\ \A z \in Stops \ {x, y} : G[z] = H[z]
  BY <1>5, <1>6 DEF Stops
<1>8. x \in Stops /\ y \in Stops /\ u \in Stops /\ x # y
  BY DEF Stops
<1>9. Apart("reqs", s) /\ KeysIn("reqs", s) \subseteq KeysIn("reqs", w.sending) \union KeysIn("reqs", w.sent)
  BY <1>1, <1>2, SentApart
<1>10. Apart("reqs", h) /\ KeysIn("reqs", h) = {}
  <2>. DEFINE tag == "reqs"
  <2>1. tag = "reqs"
    OBVIOUS
  <2>. HIDE DEF tag
  <2>2. Apart(tag, h) /\ KeysIn(tag, h) \subseteq IF tag = "mids" THEN (mid[c] + 1)..(mid[c] + 1) ELSE {}
    BY <1>1, <1>2, HelloApart
  <2>. QED
    BY <2>1, <2>2
<1>. HIDE DEF x, y, u, H, gone
<1>11. /\ Apart("reqs", F[u]) /\ KeysIn("reqs", F[u]) \intersect gone = {}
  BY <1>4, <1>8 DEF Spread
<1>12. Apart("reqs", H[u]) /\ KeysIn("reqs", H[u]) \subseteq KeysIn("reqs", F[u])
  <2>1. KeysIn("reqs", w.outbox) \intersect KeysIn("reqs", h) = {}
    BY <1>10
  <2>2. Apart("reqs", e.outbox) /\ KeysIn("reqs", e.outbox) \subseteq KeysIn("reqs", w.outbox) \union KeysIn("reqs", h)
    BY <1>2, <1>7, <1>10, <1>11, <2>1, ConcatApart
  <2>. QED
    BY <1>7, <1>10, <2>2
<1>13. Spread("reqs", H, gone)
  <2>1. /\ KeysIn("reqs", H[u]) \subseteq KeysIn("reqs", F[u]) \union KeysIn("reqs", F[u]) \union fresh
        /\ gone \subseteq gone \union KeysIn("reqs", F[u]) \union KeysIn("reqs", F[u])
        /\ gone \intersect (KeysIn("reqs", H[u]) \union KeysIn("reqs", H[u])) = {}
        /\ \A z \in Stops \ {u, u} : fresh \intersect KeysIn("reqs", F[z]) = {}
    BY <1>11, <1>12
  <2>2. Spread("reqs", F, gone) /\ (\A z \in Stops \ {u, u} : H[z] = F[z]) /\ Apart("reqs", H[u]) /\ u \in Stops
    BY <1>4, <1>7, <1>8, <1>12
  <2>. HIDE DEF fresh
  <2>. QED
    BY <2>1, <2>2, Shift
<1>14. /\ KeysIn("reqs", H[x]) \intersect gone = {} /\ KeysIn("reqs", H[y]) \intersect gone = {}
  BY <1>8, <1>13 DEF Spread
<1>15. Spread("reqs", G, gone)
  <2>0. Apart("reqs", <<>>) /\ KeysIn("reqs", <<>>) = {}
    BY NoneApart
  <2>1. /\ KeysIn("reqs", G[x]) \subseteq KeysIn("reqs", H[x]) \union KeysIn("reqs", H[y]) \union fresh
        /\ KeysIn("reqs", G[y]) \subseteq KeysIn("reqs", H[x]) \union KeysIn("reqs", H[y]) \union fresh
        /\ gone \subseteq gone \union KeysIn("reqs", H[x]) \union KeysIn("reqs", H[y])
        /\ gone \intersect (KeysIn("reqs", G[x]) \union KeysIn("reqs", G[y])) = {}
        /\ KeysIn("reqs", G[x]) \intersect KeysIn("reqs", G[y]) = {}
        /\ \A z \in Stops \ {x, y} : fresh \intersect KeysIn("reqs", H[z]) = {}
        /\ Apart("reqs", G[x]) /\ Apart("reqs", G[y])
    BY <1>7, <1>9, <1>14, <2>0
  <2>2. /\ Spread("reqs", H, gone) /\ x \in Stops /\ y \in Stops
        /\ \A z \in Stops \ {x, y} : G[z] = H[z]
    BY <1>7, <1>8, <1>13
  <2>. HIDE DEF fresh
  <2>. QED
    BY <2>1, <2>2, Shift
<1>16. Done(e) \subseteq Done(w)
  <2>1. KeysIn("reqs", <<>>) = {}
    BY NoneApart
  <2>2. KeysIn("reqs", e.outbox) \subseteq KeysIn("reqs", w.outbox)
    BY <1>7, <1>12
  <2>. QED
    BY <1>2, <1>3, <1>9, <2>1, <2>2 DEF Done, gone
<1>. QED
  BY <1>3, <1>15, <1>16 DEF GivenOk, G, w

\* The messages of the response and those that waited are in the inbox after it.
LEMMA ResponseReads ==
  ASSUME IInv, TInv, OInv, NEW c \in Clients, faults = 0, ping[c].stage # "idle", NEW e, NEW r, Received(c, e, r),
         NEW p, p.mail = <<>>
  PROVE  Reads(c, store[c], p, e)
<1>. DEFINE w == box[c]
            v == box[Peer(c)]
            q == ping[Peer(c)]
            l == IF contact[c] = 0 THEN <<>> ELSE ping[c].mail
            F == Flow(v, q, store[c], ping[c], w)
            G == Flow(v, q, store[c], p, e)
            H == [z \in Stops |-> IF z = "mail" THEN <<>> ELSE IF z = "inbox" THEN l ELSE F[z]]
            x == "mail"
            y == "inbox"
            u == "read"
            fresh == {}
            gone == Done(w)
            past == Done(e)
<1>1. Reads(c, store[c], ping[c], w)
  BY OnceNow
<1>2. Spread("mids", F, gone) /\ gone \subseteq 0..mid[Peer(c)] /\ F = Flow(v, q, store[c], ping[c], w) /\ G = Flow(v, q, store[c], p, e)
  BY <1>1 DEF Reads, FlowOk
<1>3. past \subseteq gone
  BY ResponseGiven
<1>4. w.inbox = <<>> /\ \A i \in DOMAIN w.read : w.read[i].type = "send_gifts"
  BY DEF IInv, ClientOk, BoxOk, PingOk
<1>5. ReadAgain(r, w.read) /\ e.inbox = l \o r /\ e.read = <<>> /\ (l = <<>> \/ l = ping[c].mail)
  BY DEF Received
<1>6. x \in Stops /\ y \in Stops /\ u \in Stops /\ x # y /\ y # u
  BY DEF Stops
<1>. HIDE DEF F, G, w, v, q, l, gone, past
<1>7. /\ F["outbox"] = v.outbox /\ F["sending"] = (IF q.stage = "sent" THEN <<>> ELSE v.sending) /\ F["store"] = store[c]
      /\ F["mail"] = ping[c].mail /\ F["inbox"] = <<>> /\ F["read"] = w.read
  BY <1>2, <1>4, FlowAt
<1>8. /\ G["outbox"] = v.outbox /\ G["sending"] = (IF q.stage = "sent" THEN <<>> ELSE v.sending) /\ G["store"] = store[c]
      /\ G["mail"] = <<>> /\ G["inbox"] = l \o r /\ G["read"] = <<>>
  BY <1>2, <1>5, FlowAt
<1>9. /\ H[x] = <<>> /\ H[y] = l /\ H[u] = w.read /\ G[y] = l \o r /\ G[u] = <<>> /\ F[y] = <<>> /\ F[x] = ping[c].mail /\ F[u] = w.read
      /\ \A z \in Stops \ {x, y} : H[z] = F[z]
      /\ \A z \in Stops \ {y, u} : G[z] = H[z]
  BY <1>7, <1>8 DEF Stops
<1>. HIDE DEF x, y, u, H
<1>10. Apart("mids", <<>>) /\ KeysIn("mids", <<>>) = {}
  BY NoneApart
<1>11. /\ Apart("mids", F[x]) /\ Apart("mids", F[u]) /\ KeysIn("mids", F[x]) \intersect gone = {}
  BY <1>2, <1>6 DEF Spread
<1>12. Apart("mids", l) /\ KeysIn("mids", l) \subseteq KeysIn("mids", F[x])
  BY <1>5, <1>9, <1>10, <1>11
<1>13. Spread("mids", H, gone)
  <2>1. /\ KeysIn("mids", H[x]) \subseteq KeysIn("mids", F[x]) \union KeysIn("mids", F[y]) \union fresh
        /\ KeysIn("mids", H[y]) \subseteq KeysIn("mids", F[x]) \union KeysIn("mids", F[y]) \union fresh
        /\ gone \subseteq gone \union KeysIn("mids", F[x]) \union KeysIn("mids", F[y])
        /\ gone \intersect (KeysIn("mids", H[x]) \union KeysIn("mids", H[y])) = {}
        /\ KeysIn("mids", H[x]) \intersect KeysIn("mids", H[y]) = {}
        /\ \A z \in Stops \ {x, y} : fresh \intersect KeysIn("mids", F[z]) = {}
        /\ Apart("mids", H[x]) /\ Apart("mids", H[y])
    BY <1>9, <1>10, <1>11, <1>12
  <2>2. /\ Spread("mids", F, gone) /\ x \in Stops /\ y \in Stops
        /\ \A z \in Stops \ {x, y} : H[z] = F[z]
    BY <1>2, <1>6, <1>9
  <2>. HIDE DEF fresh
  <2>. QED
    BY <2>1, <2>2, Shift
<1>14. /\ Apart("mids", H[y]) /\ Apart("mids", H[u]) /\ KeysIn("mids", H[y]) \intersect KeysIn("mids", H[u]) = {}
       /\ KeysIn("mids", H[y]) \intersect gone = {} /\ KeysIn("mids", H[u]) \intersect gone = {}
  BY <1>6, <1>13 DEF Spread
<1>15. Apart("mids", r) /\ KeysIn("mids", r) = KeysIn("mids", H[u])
  <2>. DEFINE s == w.read
  <2>1. Apart("mids", s) /\ ReadAgain(r, s) /\ \A i \in DOMAIN s : s[i].type = "send_gifts"
    BY <1>4, <1>5, <1>9, <1>11
  <2>. HIDE DEF s
  <2>2. Apart("mids", r) /\ KeysIn("mids", r) = KeysIn("mids", s)
    BY <2>1, AgainApart
  <2>. QED
    BY <1>9, <2>2 DEF s
<1>16. Apart("mids", G[y]) /\ KeysIn("mids", G[y]) \subseteq KeysIn("mids", H[y]) \union KeysIn("mids", H[u])
  <2>. DEFINE s == G[y]
  <2>1. s = l \o r /\ Apart("mids", l) /\ Apart("mids", r) /\ KeysIn("mids", l) \intersect KeysIn("mids", r) = {}
    BY <1>9, <1>12, <1>14, <1>15
  <2>. HIDE DEF s
  <2>2. Apart("mids", s) /\ KeysIn("mids", s) \subseteq KeysIn("mids", l) \union KeysIn("mids", r)
    BY <2>1, ConcatApart
  <2>. QED
    BY <1>9, <1>15, <2>2 DEF s
<1>17. Spread("mids", G, past)
  <2>1. /\ KeysIn("mids", G[y]) \subseteq KeysIn("mids", H[y]) \union KeysIn("mids", H[u]) \union fresh
        /\ KeysIn("mids", G[u]) \subseteq KeysIn("mids", H[y]) \union KeysIn("mids", H[u]) \union fresh
        /\ past \subseteq gone \union KeysIn("mids", H[y]) \union KeysIn("mids", H[u])
        /\ past \intersect (KeysIn("mids", G[y]) \union KeysIn("mids", G[u])) = {}
        /\ KeysIn("mids", G[y]) \intersect KeysIn("mids", G[u]) = {}
        /\ \A z \in Stops \ {y, u} : fresh \intersect KeysIn("mids", H[z]) = {}
        /\ Apart("mids", G[y]) /\ Apart("mids", G[u])
    BY <1>3, <1>9, <1>10, <1>14, <1>16
  <2>2. /\ Spread("mids", H, gone) /\ y \in Stops /\ u \in Stops
        /\ \A z \in Stops \ {y, u} : G[z] = H[z]
    BY <1>6, <1>9, <1>13
  <2>. HIDE DEF fresh
  <2>. QED
    BY <2>1, <2>2, Shift
<1>. QED
  BY <1>2, <1>3, <1>17 DEF Reads, FlowOk, G, v, q, past, gone

\* What c adds to its outbox has mids that are nowhere else; what it was sending may be dropped.
LEMMA OutboxWrites ==
  ASSUME IInv, TInv, OInv, NEW c \in Clients, faults = 0, NEW n, n \in Nat, NEW b, NEW p,
         (IF p.stage = "sent" THEN <<>> ELSE b.sending) \in {<<>>, IF ping[c].stage = "sent" THEN <<>> ELSE box[c].sending},
         Apart("mids", b.outbox),
         KeysIn("mids", b.outbox) \subseteq KeysIn("mids", box[c].outbox) \union (mid[c] + 1)..(mid[c] + n)
  PROVE  Writes(c, b, p, store[Peer(c)])
<1>. DEFINE w == box[c]
            v == box[Peer(c)]
            q == ping[Peer(c)]
            s == store[Peer(c)]
            F == Flow(w, ping[c], s, q, v)
            G == Flow(b, p, s, q, v)
            u == "outbox"
            k == IF p.stage = "sent" THEN <<>> ELSE b.sending
            H == [z \in Stops |-> IF z = "sending" THEN k ELSE F[z]]
            fresh == (mid[c] + 1)..(mid[c] + n)
            gone == Done(v)
<1>1. Writes(c, w, ping[c], s) /\ gone \subseteq 0..mid[c]
  BY OnceNow
<1>2. Spread("mids", F, gone) /\ F = Flow(w, ping[c], s, q, v) /\ G = Flow(b, p, s, q, v)
  BY <1>1 DEF Writes
<1>3. \A z \in Stops : KeysIn("mids", F[z]) \intersect fresh = {}
  <2>. HIDE DEF F
  <2>1. F = Flow(box[c], ping[c], store[Peer(c)], ping[Peer(c)], box[Peer(c)])
    BY DEF F
  <2>. QED
    BY <2>1, Unused
<1>4. gone \intersect fresh = {}
  <2>1. mid[c] \in Nat
    BY DEF TInv, Counters
  <2>2. (0..mid[c]) \intersect fresh = {}
    BY <2>1
  <2>. HIDE DEF gone, fresh
  <2>. QED
    BY <1>1, <2>2
<1>5. u \in Stops /\ k \in {<<>>, IF ping[c].stage = "sent" THEN <<>> ELSE w.sending}
  BY DEF Stops
<1>6. KeysIn("mids", b.outbox) \subseteq KeysIn("mids", w.outbox) \union fresh
  OBVIOUS
<1>. HIDE DEF F, G, fresh, gone, w, v, q, s
<1>7. /\ F["outbox"] = w.outbox /\ F["sending"] = (IF ping[c].stage = "sent" THEN <<>> ELSE w.sending) /\ F["store"] = s
      /\ F["mail"] = q.mail /\ F["inbox"] = v.inbox /\ F["read"] = v.read
  BY <1>2, FlowAt
<1>8. /\ G["outbox"] = b.outbox /\ G["sending"] = k /\ G["store"] = s
      /\ G["mail"] = q.mail /\ G["inbox"] = v.inbox /\ G["read"] = v.read
  BY <1>2, FlowAt
<1>. HIDE DEF k
<1>9. /\ G[u] = b.outbox /\ H[u] = w.outbox /\ \A z \in Stops \ {u, u} : G[z] = H[z]
      /\ \A z \in Stops : H[z] = F[z] \/ H[z] = <<>>
  BY <1>5, <1>7, <1>8 DEF Stops
<1>. HIDE DEF u, H
<1>10. Spread("mids", H, gone)
  BY <1>2, <1>9, Fewer
<1>11. KeysIn("mids", H[u]) \intersect gone = {} /\ \A z \in Stops : KeysIn("mids", H[z]) \intersect fresh = {}
  <2>1. \A z \in Stops : KeysIn("mids", H[z]) \intersect fresh = {}
    BY <1>3, <1>9, NoneApart
  <2>. QED
    BY <1>5, <1>10, <2>1 DEF Spread
<1>12. /\ KeysIn("mids", G[u]) \subseteq KeysIn("mids", H[u]) \union KeysIn("mids", H[u]) \union fresh
       /\ gone \subseteq gone \union KeysIn("mids", H[u]) \union KeysIn("mids", H[u])
       /\ gone \intersect (KeysIn("mids", G[u]) \union KeysIn("mids", G[u])) = {}
       /\ \A z \in Stops \ {u, u} : fresh \intersect KeysIn("mids", H[z]) = {}
       /\ Apart("mids", G[u])
  BY <1>4, <1>6, <1>9, <1>11
<1>13. Spread("mids", G, gone)
  <2>1. Spread("mids", H, gone) /\ u \in Stops /\ \A z \in Stops \ {u, u} : G[z] = H[z]
    BY <1>5, <1>9, <1>10
  <2>. QED
    BY <1>12, <2>1, Shift
<1>. QED
  BY <1>13 DEF Writes, G, gone, v, q, s

\* The mids in the outbox of c are each in one message, and are none of those that come next.
LEMMA OutboxApart ==
  ASSUME TInv, OInv, NEW c \in Clients, faults = 0, NEW n, n \in Nat
  PROVE  /\ Apart("mids", box[c].outbox) /\ KeysIn("mids", box[c].outbox) \intersect (mid[c] + 1)..(mid[c] + n) = {}
         /\ Apart("reqs", box[c].outbox)
<1>. DEFINE w == box[c]
            F == Flow(box[c], ping[c], store[Peer(c)], ping[Peer(c)], box[Peer(c)])
            G == Given(w)
<1>1. Writes(c, box[c], ping[c], store[Peer(c)]) /\ GivenOk(w)
  BY OnceNow
<1>2. F["outbox"] = box[c].outbox /\ "outbox" \in Stops /\ G["outbox"] = w.outbox
  <2>1. F["outbox"] = box[c].outbox /\ "outbox" \in Stops
    BY DEF Flow, Stops
  <2>2. G["outbox"] = w.outbox
    BY GivenAt
  <2>. QED
    BY <2>1, <2>2
<1>3. Spread("mids", F, Done(box[Peer(c)])) /\ Spread("reqs", G, w.closed)
  BY <1>1 DEF Writes, GivenOk
<1>4. F = Flow(box[c], ping[c], store[Peer(c)], ping[Peer(c)], box[Peer(c)])
  OBVIOUS
<1>. HIDE DEF F, G
<1>5. \A z \in Stops : KeysIn("mids", F[z]) \intersect (mid[c] + 1)..(mid[c] + n) = {}
  BY <1>4, Unused
<1>6. Apart("mids", F["outbox"]) /\ Apart("reqs", G["outbox"])
  BY <1>2, <1>3 DEF Spread
<1>. QED
  BY <1>2, <1>5, <1>6

LEMMA ResponseOnce ==
  ASSUME IInv, TInv, OInv, NEW c \in Clients, Response(c)
  PROVE  OInv'
<1>1. /\ mid \in [Clients -> Nat] /\ box = [d \in Clients |-> box[d]] /\ ping = [d \in Clients |-> ping[d]]
      /\ Counters /\ faults \in Nat
  BY DEF TInv, Counters, IInv
<1>. DEFINE h == Greeting(c)
            n == Len(Greeting(c))
            w == box[c]
            p == NoPing
<1>2. /\ \E e, r : box' = [box EXCEPT ![c] = e] /\ Received(c, e, r)
      /\ ping[c].stage # "idle" /\ ping' = [ping EXCEPT ![c] = p] /\ store' = store
      /\ mid' = [mid EXCEPT ![c] = mid[c] + n] /\ faults' \in {faults, faults + 1}
  BY ResponseIs
<1>3. PICK e, r : box' = [box EXCEPT ![c] = e] /\ Received(c, e, r)
  BY <1>2
<1>4. n \in Nat /\ p.mail = <<>> /\ p.stage = "idle"
  <2>1. n \in 0..1
    BY <1>1, GreetingTyped
  <2>. QED
    BY <2>1 DEF NoPing
<1>5. box'[c] = e /\ ping'[c] = p
  BY <1>1, <1>2, <1>3
<1>6. e.outbox = w.outbox \o h /\ e.sending = <<>> /\ h = Greeting(c)
  BY <1>3 DEF Received
<1>. HIDE DEF h, n, w, p
<1>7. ASSUME faults = 0
      PROVE  GivenOk(e) /\ Reads(c, store[c], p, e) /\ Writes(c, e, p, store[Peer(c)])
  <2>1. GivenOk(e)
    BY <1>3, <1>7, ResponseGiven
  <2>2. Reads(c, store[c], p, e)
    BY <1>2, <1>3, <1>4, <1>7, ResponseReads
  <2>. DEFINE one == 1
              fresh == (mid[c] + 1)..(mid[c] + one)
              tag == "mids"
  <2>3. one \in Nat
    OBVIOUS
  <2>4. Apart(tag, h) /\ KeysIn(tag, h) \subseteq fresh
    <3>. HIDE DEF tag
    <3>1. Apart(tag, h) /\ KeysIn(tag, h) \subseteq IF tag = "mids" THEN (mid[c] + 1)..(mid[c] + 1) ELSE {}
      BY <1>1, <1>6, HelloApart
    <3>. QED
      BY <3>1 DEF tag
  <2>. HIDE DEF one
  <2>5. Apart(tag, w.outbox) /\ KeysIn(tag, w.outbox) \intersect fresh = {}
    BY <1>7, <2>3, OutboxApart DEF w
  <2>. HIDE DEF fresh
  <2>6. KeysIn(tag, w.outbox) \intersect KeysIn(tag, h) = {}
    BY <2>4, <2>5
  <2>7. Apart(tag, e.outbox) /\ KeysIn(tag, e.outbox) \subseteq KeysIn(tag, w.outbox) \union KeysIn(tag, h)
    BY <1>6, <2>4, <2>5, <2>6, ConcatApart
  <2>8. KeysIn(tag, e.outbox) \subseteq KeysIn(tag, box[c].outbox) \union fresh
    BY <2>4, <2>7 DEF w
  <2>9. (IF p.stage = "sent" THEN <<>> ELSE e.sending) \in {<<>>, IF ping[c].stage = "sent" THEN <<>> ELSE box[c].sending}
    BY <1>4, <1>6
  <2>10. Writes(c, e, p, store[Peer(c)])
    <3>1. /\ Apart("mids", e.outbox)
          /\ KeysIn("mids", e.outbox) \subseteq KeysIn("mids", box[c].outbox) \union (mid[c] + 1)..(mid[c] + one)
      BY <2>7, <2>8 DEF fresh
    <3>. HIDE DEF tag
    <3>. QED
      BY <1>7, <2>3, <2>9, <3>1, OutboxWrites
  <2>. QED
    BY <2>1, <2>2, <2>10
<1>8. \A d \in Clients \ {c} : box'[d] = box[d] /\ ping'[d] = ping[d] /\ mid'[d] = mid[d]
  BY <1>1, <1>2, <1>3
<1>9. mid' \in [Clients -> Nat] /\ mid[c] <= mid'[c]
  BY <1>1, <1>2, <1>4
<1>10. faults' = 0 => faults = 0
  BY <1>1, <1>2
<1>11. faults' = 0 => /\ GivenOk(box'[c]) /\ Reads(c, store'[c], ping'[c], box'[c])
                      /\ Writes(c, box'[c], ping'[c], store'[Peer(c)])
  BY <1>2, <1>5, <1>7, <1>10
<1>. QED
  BY <1>1, <1>8, <1>9, <1>10, <1>11, OnceFrame

\* The mailbox b of c without the message m, which is not filed yet.
Taken(c, m, b) ==
  /\ GivenOk(b) /\ BoxOk(b, signed) /\ b.sending = box[c].sending
  /\ Spread("mids", Flow(box[Peer(c)], ping[Peer(c)], store[c], ping[c], b), Done(b) \union MidsOf(m))
  /\ Done(b) \union MidsOf(m) \subseteq 0..mid[Peer(c)] /\ Done(b) \intersect MidsOf(m) = {} /\ PartsApart(m)
  /\ Apart("mids", b.outbox) /\ KeysIn("mids", b.outbox) \subseteq KeysIn("mids", box[c].outbox)

LEMMA RestTaken ==
  ASSUME IInv, TInv, OInv, NEW c \in Clients, faults = 0, box[c].inbox # <<>>, NEW m, m = Head(box[c].inbox),
         NEW b, b = Rest(c)
  PROVE  Taken(c, m, b)
<1>. DEFINE w == box[c]
            v == box[Peer(c)]
            q == ping[Peer(c)]
            M == mid[Peer(c)]
            F == Flow(v, q, store[c], ping[c], w)
            G == Flow(v, q, store[c], ping[c], b)
            u == "inbox"
            s == w.inbox
            t == Tail(s)
            gone == Done(w)
            past == Done(w) \union MidsOf(m)
            fresh == {}
<1>1. GivenOk(w) /\ Reads(c, store[c], ping[c], w) /\ BoxOk(w, signed) /\ BoxOk(b, signed)
  BY OnceNow, RestOk DEF IInv, ClientOk
<1>2. /\ b.inbox = t /\ b.outbox = w.outbox /\ b.sending = w.sending /\ b.sent = w.sent /\ b.read = w.read /\ b.closed = w.closed
  <2>1. b = [w EXCEPT !.inbox = t]
    BY DEF Rest
  <2>. HIDE DEF w, t
  <2>2. b = [inbox |-> t, read |-> w.read, outbox |-> w.outbox, sending |-> w.sending, sent |-> w.sent,
             closed |-> w.closed, sendG |-> w.sendG, sendC |-> w.sendC, askC |-> w.askC]
    BY <1>1, <2>1 DEF BoxOk
  <2>. QED
    BY <2>2
<1>3. Spread("mids", F, gone) /\ gone \subseteq 0..M /\ F = Flow(v, q, store[c], ping[c], w) /\ G = Flow(v, q, store[c], ping[c], b)
  BY <1>1 DEF Reads, FlowOk
<1>4. (PartOk(m, signed) /\ PartTyped(m, M)) \/ (WholeOk(m, signed) /\ WholeTyped(m, M))
  BY RestTyped
<1>5. s # <<>> /\ t = Tail(s) /\ m = Head(s) /\ u \in Stops /\ M \in Nat
  BY PeerOf DEF Stops, TInv, Counters
<1>6. MidsOf(m) \subseteq 0..M
  <2>. HIDE DEF M
  <2>1. MidsOf(m) \subseteq 1..M
    <3>1. ASSUME PartTyped(m, M)
          PROVE  MidsOf(m) \subseteq 1..M
      BY <3>1 DEF MidsOf, PartTyped
    <3>2. ASSUME WholeTyped(m, M)
          PROVE  MidsOf(m) \subseteq 1..M
      BY <3>2 DEF MidsOf, PartTyped, WholeTyped
    <3>. QED
      BY <1>4, <3>1, <3>2
  <2>. QED
    BY <1>5, <2>1
<1>7. Apart("mids", w.outbox)
  <2>. DEFINE n == 0
  <2>1. n \in Nat
    OBVIOUS
  <2>. HIDE DEF n
  <2>. QED
    BY <2>1, OutboxApart
<1>. HIDE DEF F, G, gone
<1>8. Done(b) = gone
  BY <1>2 DEF Done, gone
<1>9. GivenOk(b)
  <2>1. Given(b) = Given(w)
    BY <1>2 DEF Given
  <2>. QED
    BY <1>1, <1>2, <2>1 DEF GivenOk
<1>. HIDE DEF w, v, q, s, t
<1>10. /\ F["outbox"] = v.outbox /\ F["sending"] = (IF q.stage = "sent" THEN <<>> ELSE v.sending) /\ F["store"] = store[c]
       /\ F["mail"] = ping[c].mail /\ F["inbox"] = w.inbox /\ F["read"] = w.read
  BY <1>3, FlowAt
<1>11. /\ G["outbox"] = v.outbox /\ G["sending"] = (IF q.stage = "sent" THEN <<>> ELSE v.sending) /\ G["store"] = store[c]
       /\ G["mail"] = ping[c].mail /\ G["inbox"] = t /\ G["read"] = w.read
  BY <1>2, <1>3, FlowAt
<1>12. F[u] = s /\ G[u] = t /\ \A z \in Stops \ {u, u} : G[z] = F[z]
  BY <1>10, <1>11 DEF Stops, s
<1>. HIDE DEF u
<1>13. Apart("mids", s) /\ KeysIn("mids", s) \intersect gone = {}
  BY <1>3, <1>5, <1>12 DEF Spread
<1>14. /\ Apart("mids", t) /\ KeysIn("mids", t) \subseteq KeysIn("mids", s) /\ KeysOf("mids", m) \subseteq KeysIn("mids", s)
       /\ KeysIn("mids", t) \intersect KeysOf("mids", m) = {} /\ Single("mids", m)
  BY <1>5, <1>13, TailApart
<1>15. KeysOf("mids", m) = MidsOf(m) /\ PartsApart(m)
  BY <1>14 DEF KeysOf, Single
<1>16. /\ KeysIn("mids", G[u]) \subseteq KeysIn("mids", F[u]) \union KeysIn("mids", F[u]) \union fresh
       /\ past \subseteq gone \union KeysIn("mids", F[u]) \union KeysIn("mids", F[u])
       /\ past \intersect (KeysIn("mids", G[u]) \union KeysIn("mids", G[u])) = {}
       /\ \A z \in Stops \ {u, u} : fresh \intersect KeysIn("mids", F[z]) = {}
       /\ Apart("mids", G[u])
  BY <1>12, <1>13, <1>14, <1>15 DEF gone
<1>17. Spread("mids", G, past)
  <2>1. Spread("mids", F, gone) /\ u \in Stops /\ \A z \in Stops \ {u, u} : G[z] = F[z]
    BY <1>3, <1>5, <1>12
  <2>. HIDE DEF past, fresh
  <2>. QED
    BY <1>16, <2>1, Shift
<1>18. past = Done(b) \union MidsOf(m) /\ past \subseteq 0..M /\ Done(b) \intersect MidsOf(m) = {}
  BY <1>3, <1>6, <1>8, <1>13, <1>14, <1>15 DEF gone
<1>. QED
  BY <1>1, <1>2, <1>7, <1>9, <1>15, <1>17, <1>18 DEF Taken, G, v, q, w

\* What an answer closes is not in the list any more.
LEMMA ClosesApart ==
  ASSUME NEW s, Apart("reqs", s), NEW m, NEW types, NEW r, r = At(s, Left(s, m, types))
  PROVE  /\ Apart("reqs", r) /\ KeysIn("reqs", r) \subseteq KeysIn("reqs", s)
         /\ Closes(s, m, types) \subseteq KeysIn("reqs", s) /\ Closes(s, m, types) \intersect KeysIn("reqs", r) = {}
<1>. DEFINE I == Left(s, m, types)
<1>1. I \in SUBSET DOMAIN s /\ r = At(s, I) /\ \A n \in DOMAIN s : IsRequest(s[n], m, types) => n \in DOMAIN s \ I
  BY DEF Left
<1>. HIDE DEF I
<1>2. /\ Apart("reqs", r) /\ KeysIn("reqs", r) \subseteq KeysIn("reqs", s)
      /\ \A n \in DOMAIN s \ I : KeysIn("reqs", r) \intersect KeysOf("reqs", s[n]) = {}
  BY <1>1, PartApart
<1>3. ASSUME NEW k \in Closes(s, m, types)
      PROVE  k \in KeysIn("reqs", s) /\ k \notin KeysIn("reqs", r)
  <2>1. PICK n \in DOMAIN s : IsRequest(s[n], m, types) /\ k = s[n].req /\ k # 0
    BY DEF Closes, Range
  <2>2. k \in KeysOf("reqs", s[n])
    BY <2>1 DEF KeysOf
  <2>3. KeysIn("reqs", r) \intersect KeysOf("reqs", s[n]) = {}
    BY <1>1, <1>2, <2>1
  <2>. QED
    BY <2>2, <2>3 DEF KeysIn
<1>. QED
  BY <1>2, <1>3

\* A message of a list of answers is moved to the closed ones.
LEMMA GivenCloses ==
  ASSUME NEW b, GivenOk(b), NEW d, NEW m, NEW types, NEW y \in {"outbox", "store"}, d.sending = b.sending,
         \/ /\ y = "store" /\ d.outbox = b.outbox /\ d.sent = At(b.sent, Left(b.sent, m, types))
            /\ d.closed = b.closed \union Closes(b.sent, m, types)
         \/ /\ y = "outbox" /\ d.sent = b.sent /\ d.outbox = At(b.outbox, Left(b.outbox, m, types))
            /\ d.closed = b.closed \union Closes(b.outbox, m, types)
  PROVE  GivenOk(d) /\ Done(d) \subseteq Done(b)
<1>. DEFINE F == Given(b)
            G == Given(d)
            s == F[y]
            r == G[y]
            gone == b.closed
            past == d.closed
            fresh == {}
<1>1. Spread("reqs", F, gone) /\ F = Given(b) /\ G = Given(d)
  BY DEF GivenOk
<1>. HIDE DEF F, G
<1>2. /\ F["outbox"] = b.outbox /\ F["sending"] = b.sending /\ F["store"] = b.sent
      /\ F["mail"] = <<>> /\ F["inbox"] = <<>> /\ F["read"] = <<>>
  BY <1>1, GivenAt
<1>3. /\ G["outbox"] = d.outbox /\ G["sending"] = d.sending /\ G["store"] = d.sent
      /\ G["mail"] = <<>> /\ G["inbox"] = <<>> /\ G["read"] = <<>>
  BY <1>1, GivenAt
<1>4. r = At(s, Left(s, m, types)) /\ past = gone \union Closes(s, m, types) /\ \A z \in Stops \ {y, y} : G[z] = F[z]
  BY <1>2, <1>3 DEF Stops
<1>5. y \in Stops /\ Apart("reqs", s) /\ KeysIn("reqs", s) \intersect gone = {}
  BY <1>1 DEF Spread, Stops
<1>6. G[y] = r /\ F[y] = s
  OBVIOUS
<1>. HIDE DEF s, r, gone, past
<1>7. /\ Apart("reqs", r) /\ KeysIn("reqs", r) \subseteq KeysIn("reqs", s)
      /\ Closes(s, m, types) \subseteq KeysIn("reqs", s) /\ Closes(s, m, types) \intersect KeysIn("reqs", r) = {}
  BY <1>4, <1>5, ClosesApart
<1>8. /\ KeysIn("reqs", G[y]) \subseteq KeysIn("reqs", F[y]) \union KeysIn("reqs", F[y]) \union fresh
      /\ past \subseteq gone \union KeysIn("reqs", F[y]) \union KeysIn("reqs", F[y])
      /\ past \intersect (KeysIn("reqs", G[y]) \union KeysIn("reqs", G[y])) = {}
      /\ \A z \in Stops \ {y, y} : fresh \intersect KeysIn("reqs", F[z]) = {}
      /\ Apart("reqs", G[y])
  BY <1>4, <1>5, <1>6, <1>7
<1>9. Spread("reqs", G, past)
  <2>1. Spread("reqs", F, gone) /\ y \in Stops /\ \A z \in Stops \ {y, y} : G[z] = F[z]
    BY <1>1, <1>4, <1>5
  <2>. HIDE DEF fresh
  <2>. QED
    BY <1>8, <2>1, Shift
<1>10. Done(d) \subseteq Done(b)
  <2>1. KeysIn("reqs", r) \subseteq KeysIn("reqs", s) /\ past \subseteq gone \union KeysIn("reqs", s)
    BY <1>4, <1>7
  <2>2. CASE y = "store"
    <3>1. d.outbox = b.outbox /\ s = b.sent /\ r = d.sent
      BY <1>2, <1>3, <1>6, <2>2
    <3>. QED
      BY <2>1, <3>1 DEF Done, past, gone
  <2>3. CASE y = "outbox"
    <3>1. d.sent = b.sent /\ s = b.outbox /\ r = d.outbox
      BY <1>2, <1>3, <1>6, <2>3
    <3>. QED
      BY <2>1, <3>1 DEF Done, past, gone
  <2>. QED
    BY <2>2, <2>3
<1>. QED
  BY <1>1, <1>9, <1>10 DEF GivenOk, past

LEMMA MovedTaken ==
  ASSUME NEW c \in Clients, NEW m, NEW b, Taken(c, m, b), NEW types, NEW d, d = Moved(b, m, types)
  PROVE  Taken(c, m, d)
<1>. DEFINE s == At(b.sent, Left(b.sent, m, types))
            r == At(b.outbox, Left(b.outbox, m, types))
            cs == b.closed \union Closes(b.sent, m, types)
            cr == b.closed \union Closes(b.outbox, m, types)
<1>1. BoxOk(b, signed) /\ GivenOk(b) /\ Apart("mids", b.outbox)
  BY DEF Taken
<1>2. BoxOk(d, signed)
  BY <1>1, MovedOk
<1>3. d = [b EXCEPT !.sent = s, !.closed = cs] \/ d = [b EXCEPT !.outbox = r, !.closed = cr]
  BY MovedIs
<1>4. Apart("mids", r) /\ KeysIn("mids", r) \subseteq KeysIn("mids", b.outbox)
  <2>. DEFINE I == Left(b.outbox, m, types)
              o == b.outbox
  <2>1. I \in SUBSET DOMAIN o /\ r = At(o, I) /\ Apart("mids", o)
    BY <1>1 DEF Left
  <2>. HIDE DEF I, o, r
  <2>2. Apart("mids", r) /\ KeysIn("mids", r) \subseteq KeysIn("mids", o)
    BY <2>1, PartApart
  <2>. QED
    BY <2>2 DEF o
<1>5. /\ d.inbox = b.inbox /\ d.read = b.read /\ d.sending = b.sending
      /\ \/ d.outbox = b.outbox /\ d.sent = s /\ d.closed = cs
         \/ d.sent = b.sent /\ d.outbox = r /\ d.closed = cr
  <2>. HIDE DEF s, r, cs, cr
  <2>1. ASSUME d = [b EXCEPT !.sent = s, !.closed = cs]
        PROVE  /\ d.inbox = b.inbox /\ d.read = b.read /\ d.sending = b.sending
               /\ d.outbox = b.outbox /\ d.sent = s /\ d.closed = cs
    <3>1. d = [inbox |-> b.inbox, read |-> b.read, outbox |-> b.outbox, sending |-> b.sending, sent |-> s,
               closed |-> cs, sendG |-> b.sendG, sendC |-> b.sendC, askC |-> b.askC]
      BY <1>1, <2>1 DEF BoxOk
    <3>. QED
      BY <3>1
  <2>2. ASSUME d = [b EXCEPT !.outbox = r, !.closed = cr]
        PROVE  /\ d.inbox = b.inbox /\ d.read = b.read /\ d.sending = b.sending
               /\ d.sent = b.sent /\ d.outbox = r /\ d.closed = cr
    <3>1. d = [inbox |-> b.inbox, read |-> b.read, outbox |-> r, sending |-> b.sending, sent |-> b.sent,
               closed |-> cr, sendG |-> b.sendG, sendC |-> b.sendC, askC |-> b.askC]
      BY <1>1, <2>2 DEF BoxOk
    <3>. QED
      BY <3>1
  <2>. QED
    BY <1>3, <2>1, <2>2
<1>. DEFINE y == IF d.sent = b.sent /\ d.outbox = r /\ d.closed = cr THEN "outbox" ELSE "store"
<1>6. GivenOk(d) /\ Done(d) \subseteq Done(b)
  <2>1. /\ y \in {"outbox", "store"}
        /\ \/ y = "store" /\ d.outbox = b.outbox /\ d.sent = s /\ d.closed = cs
           \/ y = "outbox" /\ d.sent = b.sent /\ d.outbox = r /\ d.closed = cr
    BY <1>5
  <2>. HIDE DEF y
  <2>. QED
    BY <1>1, <1>5, <2>1, GivenCloses
<1>7. Apart("mids", d.outbox) /\ KeysIn("mids", d.outbox) \subseteq KeysIn("mids", b.outbox)
  BY <1>1, <1>4, <1>5
<1>. HIDE DEF s, r, cs, cr, y
<1>. DEFINE F == Flow(box[Peer(c)], ping[Peer(c)], store[c], ping[c], b)
            G == Flow(box[Peer(c)], ping[Peer(c)], store[c], ping[c], d)
            gone == Done(b) \union MidsOf(m)
            past == Done(d) \union MidsOf(m)
<1>8. G = F
  BY <1>5 DEF Flow
<1>9. Spread("mids", F, gone) /\ past \subseteq gone
  BY <1>6 DEF Taken
<1>10. Spread("mids", G, past)
  <2>1. \A z \in Stops : G[z] = F[z] \/ G[z] = <<>>
    BY <1>8
  <2>. HIDE DEF F, G, gone, past
  <2>. QED
    BY <1>9, <2>1, Fewer
<1>. QED
  BY <1>2, <1>5, <1>6, <1>7, <1>9, <1>10 DEF Taken

\* The mailbox b of c with the message filed, after n mids were used.
Settles(c, b, n) ==
  /\ GivenOk(b) /\ Reads(c, store[c], ping[c], b) /\ b.sending = box[c].sending /\ Apart("mids", b.outbox)
  /\ KeysIn("mids", b.outbox) \subseteq KeysIn("mids", box[c].outbox) \union (mid[c] + 1)..(mid[c] + n)

\* The message is not needed any more.
LEMMA DropSettles ==
  ASSUME NEW c \in Clients, NEW m, NEW b, Taken(c, m, b), NEW n \in Nat
  PROVE  Settles(c, b, n)
<1>. DEFINE F == Flow(box[Peer(c)], ping[Peer(c)], store[c], ping[c], b)
            gone == Done(b) \union MidsOf(m)
            past == Done(b)
<1>1. Spread("mids", F, gone) /\ past \subseteq gone /\ (\A z \in Stops : F[z] = F[z] \/ F[z] = <<>>)
  BY DEF Taken
<1>2. Spread("mids", F, past)
  <2>. HIDE DEF F, gone, past
  <2>. QED
    BY <1>1, Fewer
<1>3. Reads(c, store[c], ping[c], b)
  BY <1>2 DEF Taken, Reads, FlowOk
<1>. QED
  BY <1>3 DEF Taken, Settles

\* The message is answered.
LEMMA PostSettles ==
  ASSUME TInv, OInv, NEW c \in Clients, faults = 0, NEW m, m.type # "sync_gifts", NEW b, Taken(c, m, b), NEW n \in Nat,
         NEW w, Newly(w, mid[c], n), w.req = m.mid, NEW d, d = Post(b, w)
  PROVE  Settles(c, d, n)
<1>. DEFINE o == Append(b.outbox, w)
            k == MidsOf(m)
<1>1. /\ d.inbox = b.inbox /\ d.read = b.read /\ d.outbox = o /\ d.sending = b.sending /\ d.sent = b.sent /\ d.closed = b.closed
      /\ o = Append(b.outbox, w)
  <2>1. BoxOk(b, signed) /\ d = [b EXCEPT !.outbox = o]
    BY DEF Taken, Post
  <2>. HIDE DEF o
  <2>2. d = [inbox |-> b.inbox, read |-> b.read, outbox |-> o, sending |-> b.sending, sent |-> b.sent,
             closed |-> b.closed, sendG |-> b.sendG, sendC |-> b.sendC, askC |-> b.askC]
    BY <2>1 DEF BoxOk
  <2>. QED
    BY <2>2 DEF o
<1>2. KeysOf("reqs", w) \subseteq k /\ Single("reqs", w)
  BY DEF KeysOf, MidsOf, Single
<1>3. /\ GivenOk(b) /\ Apart("mids", b.outbox) /\ KeysIn("mids", b.outbox) \subseteq KeysIn("mids", box[c].outbox)
      /\ Done(b) \intersect k = {} /\ b.sending = box[c].sending
  BY DEF Taken
<1>. HIDE DEF o, k
<1>4. GivenOk(d) /\ Done(d) \subseteq Done(b) \union k
  <2>. DEFINE F == Given(b)
              G == Given(d)
              gone == b.closed
              u == "outbox"
  <2>1. Spread("reqs", F, gone) /\ F = Given(b) /\ G = Given(d)
    BY <1>3 DEF GivenOk
  <2>. HIDE DEF F, G
  <2>2. /\ F["outbox"] = b.outbox /\ F["sending"] = b.sending /\ F["store"] = b.sent
        /\ F["mail"] = <<>> /\ F["inbox"] = <<>> /\ F["read"] = <<>>
    BY <2>1, GivenAt
  <2>3. /\ G["outbox"] = o /\ G["sending"] = b.sending /\ G["store"] = b.sent
        /\ G["mail"] = <<>> /\ G["inbox"] = <<>> /\ G["read"] = <<>>
    BY <1>1, <2>1, GivenAt
  <2>4. u \in Stops /\ F[u] = b.outbox /\ G[u] = o /\ \A z \in Stops \ {u, u} : G[z] = F[z]
    BY <2>2, <2>3 DEF Stops
  <2>5. \A z \in Stops : KeysIn("reqs", F[z]) \subseteq Done(b)
    <3>1. KeysIn("reqs", <<>>) = {}
      BY NoneApart
    <3>. QED
      BY <2>2, <3>1 DEF Stops, Done
  <2>6. gone \subseteq Done(b)
    BY DEF Done
  <2>. HIDE DEF u, gone
  <2>7. Apart("reqs", F[u]) /\ KeysIn("reqs", F[u]) \intersect gone = {} /\ KeysIn("reqs", F[u]) \subseteq Done(b)
    BY <2>1, <2>4, <2>5 DEF Spread
  <2>8. KeysOf("reqs", w) \intersect KeysIn("reqs", b.outbox) = {} /\ Apart("reqs", b.outbox)
    BY <1>2, <1>3, <2>4, <2>7
  <2>9. Apart("reqs", o) /\ KeysIn("reqs", o) \subseteq KeysIn("reqs", b.outbox) \union KeysOf("reqs", w)
    BY <1>1, <1>2, <2>8, AppendApart
  <2>10. /\ KeysIn("reqs", G[u]) \subseteq KeysIn("reqs", F[u]) \union KeysIn("reqs", F[u]) \union k
         /\ gone \subseteq gone \union KeysIn("reqs", F[u]) \union KeysIn("reqs", F[u])
         /\ gone \intersect (KeysIn("reqs", G[u]) \union KeysIn("reqs", G[u])) = {}
         /\ \A z \in Stops \ {u, u} : k \intersect KeysIn("reqs", F[z]) = {}
         /\ Apart("reqs", G[u])
    BY <1>2, <1>3, <2>4, <2>5, <2>6, <2>7, <2>9
  <2>11. Spread("reqs", G, gone)
    <3>1. Spread("reqs", F, gone) /\ u \in Stops /\ \A z \in Stops \ {u, u} : G[z] = F[z]
      BY <2>1, <2>4
    <3>. QED
      BY <2>10, <3>1, Shift
  <2>12. Done(d) \subseteq Done(b) \union k
    BY <1>1, <1>2, <2>9 DEF Done
  <2>. QED
    BY <1>1, <2>11, <2>12 DEF GivenOk, G, gone
<1>5. Reads(c, store[c], ping[c], d)
  <2>. DEFINE F == Flow(box[Peer(c)], ping[Peer(c)], store[c], ping[c], b)
              G == Flow(box[Peer(c)], ping[Peer(c)], store[c], ping[c], d)
              gone == Done(b) \union k
              past == Done(d)
  <2>1. Spread("mids", F, gone) /\ past \subseteq gone /\ gone \subseteq 0..mid[Peer(c)]
    BY <1>4 DEF Taken, k
  <2>2. \A z \in Stops : G[z] = F[z] \/ G[z] = <<>>
    BY <1>1 DEF Flow
  <2>. HIDE DEF F, G, gone, past
  <2>3. Spread("mids", G, past)
    BY <2>1, <2>2, Fewer
  <2>. QED
    BY <2>1, <2>3 DEF Reads, FlowOk, G, past
<1>6. /\ Apart("mids", d.outbox)
      /\ KeysIn("mids", d.outbox) \subseteq KeysIn("mids", box[c].outbox) \union (mid[c] + 1)..(mid[c] + n)
  <2>. DEFINE fresh == (mid[c] + 1)..(mid[c] + n)
  <2>1. KeysIn("mids", box[c].outbox) \intersect fresh = {}
    BY OutboxApart
  <2>2. Single("mids", w) /\ KeysOf("mids", w) \subseteq fresh
    BY DEF Newly, Single, KeysOf
  <2>. HIDE DEF fresh
  <2>3. KeysOf("mids", w) \intersect KeysIn("mids", b.outbox) = {}
    BY <1>3, <2>1, <2>2
  <2>4. Apart("mids", o) /\ KeysIn("mids", o) \subseteq KeysIn("mids", b.outbox) \union KeysOf("mids", w)
    BY <1>1, <1>3, <2>2, <2>3, AppendApart
  <2>5. Apart("mids", o) /\ KeysIn("mids", o) \subseteq KeysIn("mids", box[c].outbox) \union fresh
    BY <1>3, <2>2, <2>4
  <2>. QED
    BY <1>1, <2>5 DEF fresh
<1>. QED
  BY <1>1, <1>3, <1>4, <1>5, <1>6 DEF Settles

\* The mids of the message go to another folder of what c reads.
LEMMA KeepSettles ==
  ASSUME NEW c \in Clients, NEW m, NEW b, Taken(c, m, b), NEW n \in Nat, NEW d, NEW s, NEW y \in {"inbox", "read"},
         d.outbox = b.outbox, d.sending = b.sending, d.sent = b.sent, d.closed = b.closed,
         \/ y = "inbox" /\ d.inbox = s /\ d.read = b.read /\ KeysIn("mids", s) \subseteq KeysIn("mids", b.inbox) \union MidsOf(m)
         \/ y = "read" /\ d.read = s /\ d.inbox = b.inbox /\ KeysIn("mids", s) \subseteq KeysIn("mids", b.read) \union MidsOf(m),
         Apart("mids", s)
  PROVE  Settles(c, d, n)
<1>. DEFINE v == box[Peer(c)]
            q == ping[Peer(c)]
            F == Flow(v, q, store[c], ping[c], b)
            G == Flow(v, q, store[c], ping[c], d)
            k == MidsOf(m)
            past == Done(b)
            gone == past \union k
<1>1. /\ Spread("mids", F, gone) /\ gone \subseteq 0..mid[Peer(c)] /\ F = Flow(v, q, store[c], ping[c], b)
      /\ G = Flow(v, q, store[c], ping[c], d) /\ past \intersect k = {}
  BY DEF Taken
<1>2. Done(d) = past /\ Given(d) = Given(b)
  BY DEF Done, Given
<1>. HIDE DEF F, G, v, q, k, past
<1>3. /\ F["outbox"] = v.outbox /\ F["sending"] = (IF q.stage = "sent" THEN <<>> ELSE v.sending) /\ F["store"] = store[c]
      /\ F["mail"] = ping[c].mail /\ F["inbox"] = b.inbox /\ F["read"] = b.read
  BY <1>1, FlowAt
<1>4. /\ G["outbox"] = v.outbox /\ G["sending"] = (IF q.stage = "sent" THEN <<>> ELSE v.sending) /\ G["store"] = store[c]
      /\ G["mail"] = ping[c].mail /\ G["inbox"] = d.inbox /\ G["read"] = d.read
  BY <1>1, FlowAt
<1>5. y \in Stops /\ G[y] = s /\ \A z \in Stops \ {y, y} : G[z] = F[z]
  BY <1>3, <1>4 DEF Stops
<1>6. KeysIn("mids", G[y]) \subseteq KeysIn("mids", F[y]) \union k
  BY <1>3, <1>5 DEF k
<1>7. \A z \in Stops : KeysIn("mids", F[z]) \intersect gone = {}
  BY <1>1 DEF Spread
<1>8. /\ KeysIn("mids", G[y]) \subseteq KeysIn("mids", F[y]) \union KeysIn("mids", F[y]) \union k
      /\ past \subseteq gone \union KeysIn("mids", F[y]) \union KeysIn("mids", F[y])
      /\ past \intersect (KeysIn("mids", G[y]) \union KeysIn("mids", G[y])) = {}
      /\ \A z \in Stops \ {y, y} : k \intersect KeysIn("mids", F[z]) = {}
      /\ Apart("mids", G[y])
  BY <1>1, <1>5, <1>6, <1>7
<1>9. Spread("mids", G, past)
  <2>1. Spread("mids", F, gone) /\ y \in Stops /\ \A z \in Stops \ {y, y} : G[z] = F[z]
    BY <1>1, <1>5
  <2>. HIDE DEF gone
  <2>. QED
    BY <1>8, <2>1, Shift
<1>10. Reads(c, store[c], ping[c], d)
  BY <1>1, <1>2, <1>9 DEF Reads, FlowOk, G, v, q
<1>11. GivenOk(d)
  BY <1>2 DEF Taken, GivenOk
<1>. QED
  BY <1>10, <1>11 DEF Taken, Settles

\* The parts of a message go to the end of the inbox.
LEMMA PartsSettle ==
  ASSUME NEW c \in Clients, NEW m, WholeOk(m, signed), NEW b, Taken(c, m, b), NEW n \in Nat,
         NEW d, d = [b EXCEPT !.inbox = @ \o m.body]
  PROVE  Settles(c, d, n)
<1>. DEFINE s == b.inbox \o m.body
            t == m.body
            y == "inbox"
<1>1. /\ d.inbox = s /\ d.read = b.read /\ d.outbox = b.outbox /\ d.sending = b.sending /\ d.sent = b.sent /\ d.closed = b.closed
  <2>1. BoxOk(b, signed) /\ d = [b EXCEPT !.inbox = s]
    BY DEF Taken
  <2>. HIDE DEF s
  <2>2. d = [inbox |-> s, read |-> b.read, outbox |-> b.outbox, sending |-> b.sending, sent |-> b.sent,
             closed |-> b.closed, sendG |-> b.sendG, sendC |-> b.sendC, askC |-> b.askC]
    BY <2>1 DEF BoxOk
  <2>. QED
    BY <2>2
<1>2. Apart("mids", b.inbox) /\ KeysIn("mids", b.inbox) \intersect MidsOf(m) = {} /\ PartsApart(m)
  <2>. DEFINE F == Flow(box[Peer(c)], ping[Peer(c)], store[c], ping[c], b)
              u == "inbox"
  <2>1. F[u] = b.inbox /\ u \in Stops
    BY DEF Flow, Stops
  <2>2. Spread("mids", F, Done(b) \union MidsOf(m)) /\ PartsApart(m)
    BY DEF Taken
  <2>. HIDE DEF F, u
  <2>3. Apart("mids", F[u]) /\ KeysIn("mids", F[u]) \intersect (Done(b) \union MidsOf(m)) = {}
    BY <2>1, <2>2 DEF Spread
  <2>. QED
    BY <2>1, <2>2, <2>3
<1>3. t = m.body /\ s = b.inbox \o t /\ y \in {"inbox", "read"} /\ y = "inbox"
  OBVIOUS
<1>. HIDE DEF s, t, y
<1>4. Apart("mids", t) /\ KeysIn("mids", t) = MidsOf(m)
  BY <1>2, <1>3, PartsInOrder
<1>5. KeysIn("mids", b.inbox) \intersect KeysIn("mids", t) = {}
  BY <1>2, <1>4
<1>6. Apart("mids", s) /\ KeysIn("mids", s) \subseteq KeysIn("mids", b.inbox) \union KeysIn("mids", t)
  BY <1>2, <1>3, <1>4, <1>5, ConcatApart
<1>7. KeysIn("mids", s) \subseteq KeysIn("mids", b.inbox) \union MidsOf(m)
  BY <1>4, <1>6
<1>. QED
  BY <1>1, <1>3, <1>6, <1>7, KeepSettles

\* The message waits.
LEMMA WaitSettles ==
  ASSUME NEW c \in Clients, NEW m, Shaped(m), m.type = "send_gifts", NEW b, Taken(c, m, b), NEW n \in Nat, NEW body,
         NEW d, d = [b EXCEPT !.read = Append(@, [m EXCEPT !.body = body])]
  PROVE  Settles(c, d, n)
<1>. DEFINE w == [m EXCEPT !.body = body]
            s == Append(b.read, w)
            y == "read"
<1>1. /\ d.inbox = b.inbox /\ d.read = s /\ d.outbox = b.outbox /\ d.sending = b.sending /\ d.sent = b.sent /\ d.closed = b.closed
  <2>1. BoxOk(b, signed) /\ d = [b EXCEPT !.read = s]
    BY DEF Taken
  <2>. HIDE DEF s
  <2>2. d = [inbox |-> b.inbox, read |-> s, outbox |-> b.outbox, sending |-> b.sending, sent |-> b.sent,
             closed |-> b.closed, sendG |-> b.sendG, sendC |-> b.sendC, askC |-> b.askC]
    BY <2>1 DEF BoxOk
  <2>. QED
    BY <2>2
<1>2. Apart("mids", b.read) /\ KeysIn("mids", b.read) \intersect MidsOf(m) = {}
  <2>. DEFINE F == Flow(box[Peer(c)], ping[Peer(c)], store[c], ping[c], b)
              u == "read"
  <2>1. F[u] = b.read /\ u \in Stops
    BY DEF Flow, Stops
  <2>2. Spread("mids", F, Done(b) \union MidsOf(m))
    BY DEF Taken
  <2>. HIDE DEF F, u
  <2>3. Apart("mids", F[u]) /\ KeysIn("mids", F[u]) \intersect (Done(b) \union MidsOf(m)) = {}
    BY <2>1, <2>2 DEF Spread
  <2>. QED
    BY <2>1, <2>3
<1>3. w = Message(m.type, m.mid, m.req, body)
  BY DEF Shaped, Message
<1>4. s = Append(b.read, w) /\ y \in {"inbox", "read"} /\ y = "read"
  OBVIOUS
<1>. HIDE DEF s, y, w
<1>5. w.type = m.type /\ w.mid = m.mid
  BY <1>3 DEF Message
<1>6. KeysOf("mids", w) = MidsOf(m) /\ Single("mids", w)
  BY <1>5 DEF KeysOf, MidsOf, Single, PartsApart
<1>7. Apart("mids", s) /\ KeysIn("mids", s) \subseteq KeysIn("mids", b.read) \union KeysOf("mids", w)
  <2>1. KeysOf("mids", w) \intersect KeysIn("mids", b.read) = {}
    BY <1>2, <1>6
  <2>. QED
    BY <1>2, <1>4, <1>6, <2>1, AppendApart
<1>8. KeysIn("mids", s) \subseteq KeysIn("mids", b.read) \union MidsOf(m)
  BY <1>6, <1>7
<1>. QED
  BY <1>1, <1>4, <1>7, <1>8, KeepSettles

LEMMA FiledSettles ==
  ASSUME IInv, TInv, OInv, NEW c \in Clients, faults = 0, box[c].inbox # <<>>, NEW n \in Nat, NEW b, Filed(c, b, n)
  PROVE  Settles(c, b, n)
<1>. DEFINE m == Head(box[c].inbox)
            N == mid[c]
<1>1. PICK b0 : /\ b0 = Rest(c) \/ \E types : b0 = Moved(Rest(c), m, types)
                /\ \/ b = b0
                   \/ m.type # "sync_gifts" /\ \E w : Newly(w, N, n) /\ w.req = m.mid /\ b = Post(b0, w)
                   \/ m.type = "sync_gifts" /\ b = [b0 EXCEPT !.inbox = @ \o m.body]
                   \/ /\ m.type = "send_gifts" /\ b0 = Rest(c)
                      /\ \E body : /\ body.count \in 1..Patience + 1
                                   /\ b = [b0 EXCEPT !.read = Append(@, [m EXCEPT !.body = body])]
  BY DEF Filed
<1>2. PartOk(m, signed) \/ WholeOk(m, signed)
  BY RestOk
<1>3. m = Head(box[c].inbox)
  OBVIOUS
<1>. DEFINE r == Rest(c)
<1>4. r = Rest(c) /\ (b0 = r \/ \E types : b0 = Moved(r, m, types))
  BY <1>1
<1>. HIDE DEF m, r
<1>5. Taken(c, m, r)
  BY <1>3, <1>4, RestTaken
<1>6. Taken(c, m, b0)
  BY <1>4, <1>5, MovedTaken
<1>7. ASSUME b = b0
      PROVE  Settles(c, b, n)
  BY <1>6, <1>7, DropSettles
<1>8. ASSUME m.type # "sync_gifts", NEW w, Newly(w, N, n), w.req = m.mid, b = Post(b0, w)
      PROVE  Settles(c, b, n)
  BY <1>6, <1>8, PostSettles
<1>9. ASSUME m.type = "sync_gifts", b = [b0 EXCEPT !.inbox = @ \o m.body]
      PROVE  Settles(c, b, n)
  <2>1. WholeOk(m, signed)
    BY <1>2, <1>9 DEF PartOk
  <2>. QED
    BY <1>6, <1>9, <2>1, PartsSettle
<1>10. ASSUME m.type = "send_gifts", NEW body, b = [b0 EXCEPT !.read = Append(@, [m EXCEPT !.body = body])]
       PROVE  Settles(c, b, n)
  <2>1. Shaped(m)
    BY <1>2 DEF PartOk, WholeOk
  <2>. QED
    BY <1>6, <1>10, <2>1, WaitSettles
<1>. QED
  BY <1>1, <1>7, <1>8, <1>9, <1>10

LEMMA HandleOnce ==
  ASSUME IInv, TInv, OInv, NEW c \in Clients, Handle(c)
  PROVE  OInv'
<1>0. PICK b : \E n \in Nat : \E f : box[c].inbox # <<>> /\ Moves(c, b, n, f) /\ Filed(c, b, n)
  BY HandleFiles DEF Files
<1>m. PICK n \in Nat : \E f : box[c].inbox # <<>> /\ Moves(c, b, n, f) /\ Filed(c, b, n)
  BY <1>0
<1>1. PICK f : box[c].inbox # <<>> /\ Moves(c, b, n, f) /\ Filed(c, b, n)
  BY <1>m
<1>2. /\ mid \in [Clients -> Nat] /\ box = [d \in Clients |-> box[d]] /\ ping = [d \in Clients |-> ping[d]]
  BY DEF TInv, Counters, IInv
<1>3. /\ box' = [box EXCEPT ![c] = b] /\ mid' = [mid EXCEPT ![c] = mid[c] + n] /\ ping' = ping /\ store' = store /\ faults' = faults
  BY <1>1, <1>2 DEF Moves
<1>4. box'[c] = b
  BY <1>2, <1>3
<1>5. ASSUME faults = 0
      PROVE  GivenOk(b) /\ Reads(c, store[c], ping[c], b) /\ Writes(c, b, ping[c], store[Peer(c)])
  <2>1. Settles(c, b, n)
    BY <1>1, <1>5, FiledSettles
  <2>2. n \in Nat /\ Apart("mids", b.outbox)
        /\ KeysIn("mids", b.outbox) \subseteq KeysIn("mids", box[c].outbox) \union (mid[c] + 1)..(mid[c] + n)
    BY <2>1 DEF Settles
  <2>. DEFINE p == ping[c]
  <2>3. (IF p.stage = "sent" THEN <<>> ELSE b.sending) \in {<<>>, IF ping[c].stage = "sent" THEN <<>> ELSE box[c].sending}
    BY <2>1 DEF Settles
  <2>. HIDE DEF p
  <2>4. Writes(c, b, p, store[Peer(c)])
    BY <1>5, <2>2, <2>3, OutboxWrites
  <2>. QED
    BY <2>1, <2>4 DEF Settles, p
<1>6. \A e \in Clients \ {c} : box'[e] = box[e] /\ ping'[e] = ping[e] /\ mid'[e] = mid[e]
  BY <1>2, <1>3
<1>7. mid' \in [Clients -> Nat] /\ mid[c] <= mid'[c]
  BY <1>2, <1>3
<1>8. faults' = 0 => /\ GivenOk(box'[c]) /\ Reads(c, store'[c], ping'[c], box'[c])
                     /\ Writes(c, box'[c], ping'[c], store'[Peer(c)])
  BY <1>3, <1>4, <1>5
<1>. QED
  BY <1>2, <1>3, <1>6, <1>7, <1>8, OnceFrame

LEMMA InitOnce ==
  ASSUME Init
  PROVE  OInv
<1>1. /\ box = [c \in Clients |-> EmptyBox] /\ mid = [c \in Clients |-> 0]
      /\ ping = [c \in Clients |-> NoPing] /\ store = [c \in Clients |-> <<>>]
  BY DEF Init
<1>. DEFINE b == EmptyBox
            p == NoPing
            F == Flow(b, p, <<>>, p, b)
            G == Given(b)
<1>2. /\ b.outbox = <<>> /\ b.sending = <<>> /\ b.sent = <<>> /\ b.closed = {} /\ b.inbox = <<>> /\ b.read = <<>>
      /\ p.mail = <<>>
  BY DEF EmptyBox, NoPing
<1>. HIDE DEF b, p
<1>3. Done(b) = {}
  BY <1>2, NothingDone
<1>4. (\A z \in Stops : F[z] = <<>>) /\ (\A z \in Stops : G[z] = <<>>)
  BY <1>2 DEF Flow, Given
<1>. HIDE DEF F, G
<1>5. \A tag : Apart(tag, <<>>) /\ KeysIn(tag, <<>>) = {}
  BY NoneApart
<1>6. Spread("mids", F, {}) /\ Spread("reqs", G, {})
  BY <1>4, <1>5 DEF Spread
<1>7. ASSUME NEW c \in Clients
      PROVE  GivenOk(box[c]) /\ FlowOk(box[Peer(c)], ping[Peer(c)], store[c], ping[c], box[c], mid[Peer(c)])
  <2>1. box[c] = b /\ box[Peer(c)] = b /\ ping[c] = p /\ ping[Peer(c)] = p /\ store[c] = <<>>
    BY <1>1, PeerOf DEF b, p
  <2>. QED
    BY <1>2, <1>3, <1>6, <2>1 DEF GivenOk, FlowOk, F, G
<1>. QED
  BY <1>7 DEF OInv

LEMMA NextOnce ==
  ASSUME IInv, TInv, OInv, Next
  PROVE  OInv'
<1>1. PICK c \in Clients : \/ Ping(c) \/ Response(c) \/ Handle(c)
                           \/ Lost(c) \/ Fail(c) \/ Early(c) \/ Reload(c) \/ User(c)
  BY DEF Next
<1>2. Ping(c) \/ Response(c) \/ Handle(c) => OInv'
  BY PingOnce, ResponseOnce, HandleOnce
<1>3. Lost(c) \/ Fail(c) \/ Early(c) \/ Reload(c) => OInv'
  BY FailOnce, ReloadOnce
<1>4. User(c) => OInv'
  <2>1. User(c) => UNCHANGED <<box, ping, store, mid, faults>>
    BY DEF User, Create, Act, Delete
  <2>. QED
    BY <2>1, OnceSame
<1>. QED
  BY <1>1, <1>2, <1>3, <1>4

LEMMA OnceInvariant == Spec => []OInv
<1>1. Init => OInv
  BY InitOnce
<1>2. IInv /\ TInv /\ OInv /\ [Next]_vars => OInv'
  BY NextOnce, OnceSame DEF vars
<1>. QED
  BY <1>1, <1>2, Invariant, TypedInvariant, PTL DEF Spec

LEMMA ThreeApart ==
  ASSUME NEW tag, NEW x, NEW y, NEW z, Apart(tag, x), Apart(tag, y), Apart(tag, z),
         KeysIn(tag, x) \intersect KeysIn(tag, y) = {}, KeysIn(tag, x) \intersect KeysIn(tag, z) = {},
         KeysIn(tag, y) \intersect KeysIn(tag, z) = {}, NEW s, s = x \o y \o z
  PROVE  Apart(tag, s) /\ KeysIn(tag, s) \subseteq KeysIn(tag, x) \union KeysIn(tag, y) \union KeysIn(tag, z)
<1>. DEFINE t == x \o y
<1>1. t = x \o y /\ s = t \o z
  OBVIOUS
<1>. HIDE DEF t
<1>2. Apart(tag, t) /\ KeysIn(tag, t) \subseteq KeysIn(tag, x) \union KeysIn(tag, y)
  BY <1>1, ConcatApart
<1>3. KeysIn(tag, t) \intersect KeysIn(tag, z) = {}
  BY <1>2
<1>4. Apart(tag, s) /\ KeysIn(tag, s) \subseteq KeysIn(tag, t) \union KeysIn(tag, z)
  BY <1>1, <1>2, <1>3, ConcatApart
<1>. QED
  BY <1>2, <1>4

LEMMA GivenApart ==
  ASSUME NEW b, GivenOk(b), NEW s, s = b.outbox \o b.sending \o b.sent
  PROVE  Apart("reqs", s) /\ KeysIn("reqs", s) \intersect b.closed = {}
<1>. DEFINE F == Given(b)
            gone == b.closed
            x == b.outbox
            y == b.sending
            z == b.sent
<1>1. Spread("reqs", F, gone) /\ F = Given(b)
  BY DEF GivenOk
<1>. HIDE DEF F
<1>2. F["outbox"] = x /\ F["sending"] = y /\ F["store"] = z /\ s = x \o y \o z
  BY <1>1, GivenAt
<1>. HIDE DEF gone, x, y, z
<1>3. /\ Apart("reqs", x) /\ Apart("reqs", y) /\ Apart("reqs", z)
      /\ KeysIn("reqs", x) \intersect KeysIn("reqs", y) = {} /\ KeysIn("reqs", x) \intersect KeysIn("reqs", z) = {}
      /\ KeysIn("reqs", y) \intersect KeysIn("reqs", z) = {}
      /\ KeysIn("reqs", x) \intersect gone = {} /\ KeysIn("reqs", y) \intersect gone = {}
      /\ KeysIn("reqs", z) \intersect gone = {}
  BY <1>1, <1>2 DEF Spread, Stops
<1>4. Apart("reqs", s) /\ KeysIn("reqs", s) \subseteq KeysIn("reqs", x) \union KeysIn("reqs", y) \union KeysIn("reqs", z)
  BY <1>2, <1>3, ThreeApart
<1>5. KeysIn("reqs", s) \intersect gone = {}
  BY <1>3, <1>4
<1>. QED
  BY <1>4, <1>5 DEF gone

\* As long as no ping or response was lost, refused or late, a message of the other client has at most one answer
\* among those that wait, are being sent and were sent, and none once it is closed: messages_not_sent,
\* move_previous_message and the checks for doublets of the receive_message functions.
THEOREM RepliesAreApart == Spec => []AnsweredOnce
<1>1. ASSUME OInv
      PROVE  AnsweredOnce
  <2>. SUFFICES ASSUME faults = 0, NEW c \in Clients, NEW s, s = Replies(c), NEW i \in DOMAIN s, NEW j \in DOMAIN s, s[i].req # 0
                PROVE  s[i].req \notin box[c].closed /\ (i # j => s[i].req # s[j].req)
    BY DEF AnsweredOnce
  <2>. DEFINE b == box[c]
  <2>1. GivenOk(b) /\ s = b.outbox \o b.sending \o b.sent
    BY <1>1 DEF OInv, Replies
  <2>. HIDE DEF b
  <2>2. Apart("reqs", s) /\ KeysIn("reqs", s) \intersect b.closed = {}
    BY <2>1, GivenApart
  <2>3. s[i].req \in KeysOf("reqs", s[i]) /\ KeysOf("reqs", s[j]) = {s[j].req} \ {0}
    BY DEF KeysOf
  <2>4. s[i].req \in KeysIn("reqs", s)
    BY <2>3 DEF KeysIn
  <2>5. i # j => s[i].req # s[j].req
    <3>1. i # j => KeysOf("reqs", s[i]) \intersect KeysOf("reqs", s[j]) = {}
      BY <2>2 DEF Apart
    <3>. QED
      BY <2>3, <3>1
  <2>. QED
    BY <2>2, <2>4, <2>5 DEF b
<1>. QED
  BY <1>1, OnceInvariant, PTL
=============================================================================
