------------------------- MODULE CompareUsersProofs -------------------------
(* Proofs about the comparison of users, for any two servers that both may    *)
(* ping, any users, profiles, batches and losses.                             *)
EXTENDS CompareUsers, FiniteSetTheorems, TLAPS

----------------------------------------------------------------------------
\* Numbers.

LEMMA Least ==
  ASSUME NEW S \in SUBSET Nat, S # {}
  PROVE  \E n \in S : \A m \in S : n <= m
<1>1. IsWellFoundedOn(OpToRel(<, Nat), Nat)
  BY NatLessThanWellFounded
<1>2. \E n \in S : \A m \in S : ~ (<<m, n>> \in OpToRel(<, Nat))
  BY <1>1, WFMin
<1>3. PICK n \in S : \A m \in S : ~ (<<m, n>> \in OpToRel(<, Nat))
  BY <1>2
<1>4. \A m \in S : ~ (m < n)
  BY <1>3 DEF OpToRel
<1>. QED
  BY <1>4

\* Induction: a set with 0 and all successors of its members is Nat.
LEMMA FromZero ==
  ASSUME NEW S \in SUBSET Nat, 0 \in S, \A n \in S : n + 1 \in S
  PROVE  Nat \subseteq S
<1>. SUFFICES ASSUME Nat \ S # {} PROVE FALSE
  OBVIOUS
<1>1. PICK n \in Nat \ S : \A m \in Nat \ S : n <= m
  BY Least
<1>2. n - 1 \in S
  BY <1>1
<1>. QED
  BY <1>1, <1>2

\* If every member had a greater one, the next member would be an injection that misses the
\* least member.
LEMMA Greatest ==
  ASSUME NEW S \in SUBSET Nat, IsFiniteSet(S), S # {}
  PROVE  Max(S) \in S /\ \A n \in S : n <= Max(S)
<1>1. \E n \in S : \A m \in S : n >= m
  <2>. SUFFICES ASSUME \A n \in S : \E m \in S : m > n PROVE FALSE
    OBVIOUS
  <2>1. PICK l \in S : \A m \in S : l <= m
    BY Least
  <2>2. ASSUME NEW n \in S
        PROVE  \E m \in S : m > n /\ \A k \in S : k > n => m <= k
    <3>. DEFINE above == {m \in S : m > n}
    <3>1. above \in SUBSET Nat /\ above # {}
      OBVIOUS
    <3>2. \E m \in above : \A k \in above : m <= k
      <4>. HIDE DEF above
      <4>. QED  BY <3>1, Least
    <3>. QED
      BY <3>2
  <2>. DEFINE f == [n \in S |-> CHOOSE m \in S : m > n /\ \A k \in S : k > n => m <= k]
  <2>3. ASSUME NEW n \in S
        PROVE  f[n] \in S /\ f[n] > n /\ \A k \in S : k > n => f[n] <= k
    BY <2>2
  <2>. HIDE DEF f
  <2>4. ASSUME NEW n \in S, NEW k \in S, f[n] = f[k]
        PROVE  n = k
    <3>1. n \in Nat /\ k \in Nat /\ f[n] \in Nat
      BY <2>3
    <3>2. ~ (n < k)
      BY <2>3, <2>4, <3>1
    <3>3. ~ (k < n)
      BY <2>3, <2>4, <3>1
    <3>. QED
      BY <3>1, <3>2, <3>3
  <2>5. ASSUME NEW n \in S
        PROVE  f[n] \in S \ {l}
    BY <2>1, <2>3
  <2>6. f \in Injection(S, S \ {l})
    BY <2>4, <2>5 DEF f, Injection, IsInjective
  <2>7. IsFiniteSet(S \ {l}) /\ Cardinality(S \ {l}) = Cardinality(S) - 1 /\ Cardinality(S) \in Nat
    BY FS_RemoveElement, FS_CardinalityType
  <2>. QED
    BY <2>6, <2>7, FS_Injection
<1>. QED
  BY <1>1 DEF Max

----------------------------------------------------------------------------
\* The values that a server, a message and a ping are made of, up to the time lim.

Sig == [who : Persons, info : Nat]
User(lim)  == [id : Nat, info : Nat, at : 0..lim, pending : BOOLEAN]
Match(lim) == [verified : BOOLEAN, pseudo : Nat, remote : Nat, remoteAt : 0..lim, sent : BOOLEAN]
Request    == [id : Int \ {0}, sig : SUBSET Sig, who : SUBSET Persons]
Item       == [id : Int \ {0}, sig : SUBSET Sig]
Word(lim)  == [sig : SUBSET Sig, pseudo : Nat, at : 0..lim]
Message(lim) == [type : {"users"}, users : SUBSET Item] \union [type : {"online", "sha256"}, users : SUBSET Word(lim)]
Db(lim) ==
  [user : [Persons -> User(lim)], match : [Persons -> Match(lim)], checked : Nat, changed : Nat,
   requests : SUBSET Request, next : Nat, mail : Seq(Message(lim)), tabs : SUBSET Persons, stuck : BOOLEAN]

\* An account has its own id, and only accounts have signatures.  Questions are about accounts.
Accounts(d) ==
  /\ \A x, y \in Persons : d.user[x].id = d.user[y].id /\ d.user[x].id # 0 => x = y
  /\ \A x \in Persons : d.user[x].id = 0 => d.user[x].at = 0
RequestsOk(d) ==
  \A r \in d.requests : /\ r.id > 0 => \E x \in Persons : r.who = {x} /\ Has(d, x)
                        /\ r.id < 0 => r.who = {}
DbOk(d, lim) == d \in Db(lim) /\ Accounts(d) /\ RequestsOk(d)
AskedOk(d, asked) == asked \subseteq [id : Nat \ {0}, who : Persons] /\ \A q \in asked : Has(d, q.who)

\* When something happened at the time now, a user has that time.
Dated(d, now) == DbOk(d, now) /\ (d \in Db(now - 1) \/ \E x \in Persons : d.user[x].at = now)

\* The same users, with the times they had.
SameTimes(d, e) == \A x \in Persons : e.user[x].at = d.user[x].at /\ e.user[x].id = d.user[x].id

LEMMA LaterDb ==
  ASSUME NEW lim \in Nat, NEW now \in Nat, lim <= now, NEW d \in Db(lim)
  PROVE  d \in Db(now)
<1>1. User(lim) \subseteq User(now) /\ Match(lim) \subseteq Match(now)
  BY DEF User, Match
<1>2. Message(lim) \subseteq Message(now)
  BY DEF Message, Word
<1>3. Seq(Message(lim)) \subseteq Seq(Message(now))
  BY <1>2
<1>. HIDE DEF User, Match, Message
<1>. QED
  BY <1>1, <1>3 DEF Db

LEMMA SignatureOk ==
  ASSUME NEW lim \in Nat, NEW d \in Db(lim), NEW x \in Persons
  PROVE  Signature(d, x) \in SUBSET Sig
BY DEF Signature, Db, User, Sig

LEMMA DescribedOk ==
  ASSUME NEW lim \in Nat, NEW d \in Db(lim), NEW x \in Persons
  PROVE  Described(d, x) \in Word(lim)
BY SignatureOk DEF Described, Db, User, Match, Word

LEMMA KeepsOk ==
  ASSUME NEW lim \in Nat, NEW d, DbOk(d, lim), NEW e \in Db(lim), SameTimes(d, e), e.requests \subseteq d.requests
  PROVE  DbOk(e, lim)
<1>1. Accounts(e)
  BY DEF DbOk, Accounts, SameTimes
<1>2. RequestsOk(e)
  BY DEF DbOk, RequestsOk, SameTimes, Has
<1>. QED
  BY <1>1, <1>2 DEF DbOk

LEMMA MailedOk ==
  ASSUME NEW lim \in Nat, NEW d, DbOk(d, lim), NEW type, NEW users, [type |-> type, users |-> users] \in Message(lim)
  PROVE  DbOk(Mailed(d, type, users), lim) /\ SameTimes(d, Mailed(d, type, users))
<1>. DEFINE m == [type |-> type, users |-> users]
<1>1. m \in Message(lim) /\ d \in Db(lim)
  BY DEF DbOk
<1>. HIDE DEF m
<1>2. Append(d.mail, m) \in Seq(Message(lim))
  BY <1>1 DEF Db
<1>3. Mailed(d, type, users) = [d EXCEPT !.mail = Append(@, m)]
  BY DEF Mailed, m
<1>4. [d EXCEPT !.mail = Append(@, m)] \in Db(lim)
  BY <1>1, <1>2 DEF Db
<1>5. [d EXCEPT !.mail = Append(@, m)].requests = d.requests /\ SameTimes(d, [d EXCEPT !.mail = Append(@, m)])
  BY <1>1 DEF Db, SameTimes
<1>. QED
  BY <1>3, <1>4, <1>5, KeepsOk

\* A server that changes only what is noted about matches, tabs and profiles to download.
LEMMA MarkedOk ==
  ASSUME NEW lim \in Nat, NEW d, DbOk(d, lim), NEW e, e.match \in [Persons -> Match(lim)],
         e.user \in [Persons -> User(lim)], SameTimes(d, e), e.tabs \in SUBSET Persons, e.stuck \in BOOLEAN,
         e = [d EXCEPT !.match = e.match, !.user = e.user, !.tabs = e.tabs, !.stuck = e.stuck]
  PROVE  DbOk(e, lim) /\ SameTimes(d, e)
<1>. d \in Db(lim)
  BY DEF DbOk
<1>1. e \in Db(lim)
  BY DEF Db
<1>2. e.requests = d.requests
  BY DEF Db
<1>. QED
  BY <1>1, <1>2, KeepsOk

----------------------------------------------------------------------------
\* What is done with a database keeps it in order.

LEMMA ToldOk ==
  ASSUME NEW lim \in Nat, NEW d, DbOk(d, lim), NEW X \in SUBSET Persons
  PROVE  DbOk(Told(d, X), lim) /\ SameTimes(d, Told(d, X))
<1>. d \in Db(lim)
  BY DEF DbOk
<1>1. CASE X = {}
  BY <1>1 DEF Told, SameTimes
<1>2. CASE X # {}
  <2>. DEFINE users == {Described(d, x) : x \in X}
              e     == Mailed(d, "sha256", users)
              match == [x \in Persons |-> IF x \in X THEN [d.match[x] EXCEPT !.sent = TRUE] ELSE d.match[x]]
  <2>1. [type |-> "sha256", users |-> users] \in Message(lim)
    BY DescribedOk DEF Message
  <2>2. DbOk(e, lim) /\ SameTimes(d, e)
    <3>. HIDE DEF users
    <3>. QED  BY <2>1, MailedOk
  <2>3. e.match = d.match
    BY DEF Mailed, Db
  <2>4. match \in [Persons -> Match(lim)]
    BY DEF Db, Match
  <2>5. Told(d, X) = [e EXCEPT !.match = match]
    BY <1>2, <2>3 DEF Told
  <2>. HIDE DEF e, match
  <2>. DEFINE f == Told(d, X)
  <2>6. f.match = match /\ f.user = e.user /\ f.tabs = e.tabs /\ f.stuck = e.stuck /\ f = [e EXCEPT !.match = f.match]
    BY <2>2, <2>5 DEF DbOk, Db
  <2>. HIDE DEF f
  <2>7. e.user \in [Persons -> User(lim)] /\ e.tabs \in SUBSET Persons /\ e.stuck \in BOOLEAN
    BY <2>2 DEF DbOk, Db
  <2>9. f = [e EXCEPT !.match = f.match, !.user = f.user, !.tabs = f.tabs, !.stuck = f.stuck] /\ SameTimes(e, f)
    BY <2>2, <2>6 DEF DbOk, Db, SameTimes
  <2>8. DbOk(f, lim) /\ SameTimes(e, f)
    BY <2>2, <2>4, <2>6, <2>7, <2>9, MarkedOk
  <2>. QED
    BY <2>2, <2>8 DEF SameTimes, f
<1>. QED
  BY <1>1, <1>2

LEMMA WithOnlineOk ==
  ASSUME NEW lim \in Nat, NEW d, DbOk(d, lim)
  PROVE  DbOk(WithOnline(d), lim) /\ SameTimes(d, WithOnline(d))
<1>1. OnlineUsers(d) \in SUBSET Word(lim)
  BY DescribedOk, PersonsAssumption DEF OnlineUsers, DbOk
<1>2. [type |-> "online", users |-> OnlineUsers(d)] \in Message(lim)
  BY <1>1 DEF Message
<1>. QED
  BY <1>2, MailedOk DEF WithOnline, SameTimes

LEMMA ReceiveOnlineOk ==
  ASSUME NEW lim \in Nat, NEW d, DbOk(d, lim), NEW users
  PROVE  DbOk(ReceiveOnline(d, users), lim) /\ SameTimes(d, ReceiveOnline(d, users))
<1>. d \in Db(lim)
  BY DEF DbOk
<1>. DEFINE valid == UNION {BySignature(d, g) : g \in users}
            user  == [y \in Persons |-> IF y \in valid THEN [d.user[y] EXCEPT !.pending = FALSE] ELSE d.user[y]]
            stuck == \E g \in users : BySignature(d, g) = {} /\ ByPseudo(d, g) # {}
<1>1. valid \in SUBSET Persons
  BY DEF BySignature, Matches
<1>2. user \in [Persons -> User(lim)] /\ \A x \in Persons : user[x].id = d.user[x].id /\ user[x].at = d.user[x].at
  <2>. HIDE DEF valid
  <2>. QED  BY DEF Db, User
<1>3. stuck \in BOOLEAN
  OBVIOUS
<1>. DEFINE e == ReceiveOnline(d, users)
<1>4. e = [d EXCEPT !.tabs = valid, !.user = user, !.stuck = stuck]
  BY DEF ReceiveOnline
<1>. HIDE DEF valid, user, stuck, e
<1>5. e.match = d.match /\ e.user = user /\ e.tabs = valid /\ e.stuck = stuck
  BY <1>4 DEF Db
<1>6. e = [d EXCEPT !.match = e.match, !.user = e.user, !.tabs = e.tabs, !.stuck = e.stuck]
  BY <1>4, <1>5 DEF Db
<1>7. SameTimes(d, e) /\ d.match \in [Persons -> Match(lim)]
  BY <1>2, <1>5 DEF SameTimes, Db
<1>8. DbOk(e, lim)
  BY <1>1, <1>2, <1>3, <1>5, <1>6, <1>7, MarkedOk
<1>. QED
  BY <1>7, <1>8 DEF e

LEMMA ReceiveSha256Ok ==
  ASSUME NEW lim \in Nat, NEW d, DbOk(d, lim), NEW users \in SUBSET Word(lim)
  PROVE  DbOk(ReceiveSha256(d, users), lim) /\ SameTimes(d, ReceiveSha256(d, users))
<1>. d \in Db(lim)
  BY DEF DbOk
<1>. DEFINE valid == UNION {BySignature(d, g) : g \in users}
            match == [x \in Persons |-> IF Newer(d, users, x) = {} THEN d.match[x]
                        ELSE [d.match[x] EXCEPT !.remoteAt = Max({g.at : g \in Newer(d, users, x)})]]
            user  == [x \in Persons |-> IF Newer(d, users, x) # {} THEN [d.user[x] EXCEPT !.pending = TRUE]
                        ELSE IF x \in valid THEN [d.user[x] EXCEPT !.pending = FALSE] ELSE d.user[x]]
            stuck == \E x \in valid : \A g \in users : g.pseudo # d.match[x].pseudo
            e     == ReceiveSha256(d, users)
<1>1. ASSUME NEW x \in Persons, Newer(d, users, x) # {}
      PROVE  Max({g.at : g \in Newer(d, users, x)}) \in 0..lim
  <2>. DEFINE ats == {g.at : g \in Newer(d, users, x)}
  <2>1. ats \in SUBSET (0..lim) /\ ats # {}
    BY <1>1 DEF Newer, Word
  <2>2. IsFiniteSet(0..lim)
    BY FS_Interval
  <2>. HIDE DEF ats
  <2>4. ats \in SUBSET Nat
    BY <2>1
  <2>3. IsFiniteSet(ats)
    BY <2>1, <2>2, FS_Subset
  <2>. QED
    BY <2>1, <2>3, <2>4, Greatest DEF ats
<1>2. match \in [Persons -> Match(lim)]
  BY <1>1 DEF Db, Match
<1>3. user \in [Persons -> User(lim)] /\ \A x \in Persons : user[x].id = d.user[x].id /\ user[x].at = d.user[x].at
  <2>. HIDE DEF valid
  <2>. QED  BY DEF Db, User
<1>4. e = [d EXCEPT !.match = match, !.user = user, !.stuck = stuck]
  BY DEF ReceiveSha256
<1>5. stuck \in BOOLEAN
  OBVIOUS
<1>. HIDE DEF valid, match, user, stuck, e
<1>6. e.match = match /\ e.user = user /\ e.tabs = d.tabs /\ e.stuck = stuck /\ d.tabs \in SUBSET Persons
  BY <1>4 DEF Db
<1>7. e = [d EXCEPT !.match = e.match, !.user = e.user, !.tabs = e.tabs, !.stuck = e.stuck]
  BY <1>4, <1>6 DEF Db
<1>8. SameTimes(d, e)
  BY <1>3, <1>6 DEF SameTimes
<1>9. DbOk(e, lim)
  BY <1>2, <1>3, <1>5, <1>6, <1>7, <1>8, MarkedOk
<1>. QED
  BY <1>8, <1>9 DEF e

----------------------------------------------------------------------------
\* The users message.

\* Only users with an account are asked about.
LEMMA AskedHas ==
  ASSUME NEW lim \in Nat, NEW d, DbOk(d, lim)
  PROVE  /\ Asked(d) \in SUBSET Persons
         /\ \A x \in Asked(d) : d.user[x].id \in Nat \ {0}
<1>1. d \in Db(lim) /\ d.checked \in Nat /\ d.changed \in Nat
  BY DEF DbOk, Db
<1>2. \A x \in Persons : d.user[x].id \in Nat /\ d.user[x].at \in Nat
  BY <1>1 DEF Db, User
<1>3. \A x \in NewUsers(d) : x \in Persons /\ d.user[x].id \in Nat \ {0}
  BY <1>1, <1>2 DEF NewUsers
<1>4. \A x \in ChangedUsers(d) : x \in Persons /\ d.user[x].id \in Nat \ {0}
  BY <1>1, <1>2 DEF ChangedUsers, DbOk, Accounts
<1>. QED
  BY <1>3, <1>4 DEF Asked

\* Users who are asked about for the first time get different ids that were not used before.
LEMMA FreshIds ==
  ASSUME NEW lim \in Nat, NEW d, DbOk(d, lim)
  PROVE  /\ Fresh(d) \in SUBSET Persons
         /\ d.next \in Nat /\ Cardinality(Fresh(d)) \in Nat
         /\ \A x \in Fresh(d) : PseudoId(d, x) \in (d.next + 1)..(d.next + Cardinality(Fresh(d)))
         /\ \A x, y \in Fresh(d) : PseudoId(d, x) = PseudoId(d, y) => x = y
         /\ \A x \in Asked(d) \ Fresh(d) : PseudoId(d, x) = d.match[x].pseudo /\ d.match[x].pseudo \in Nat \ {0}
<1>. d \in Db(lim)
  BY DEF DbOk
<1>. DEFINE F == Fresh(d)
            below(x) == {y \in F : d.user[y].id <= d.user[x].id}
<1>1. F \in SUBSET Asked(d) /\ F \in SUBSET Persons /\ IsFiniteSet(F)
  <2>1. F \in SUBSET Asked(d) /\ F \in SUBSET Persons
    BY AskedHas DEF Fresh
  <2>. QED
    BY <2>1, FS_Subset, PersonsAssumption
<1>2. \A x \in F : d.user[x].id \in Nat \ {0}
  BY <1>1, AskedHas
<1>3. ASSUME NEW x \in F
      PROVE  IsFiniteSet(below(x)) /\ Cardinality(below(x)) \in 1..Cardinality(F)
  <2>1. below(x) \in SUBSET F /\ x \in below(x)
    BY <1>2
  <2>. HIDE DEF below, F
  <2>2. IsFiniteSet(below(x)) /\ Cardinality(below(x)) <= Cardinality(F)
    BY <1>1, <2>1, FS_Subset
  <2>3. Cardinality(below(x)) \in Nat /\ Cardinality(F) \in Nat /\ Cardinality(below(x)) # 0
    BY <1>1, <2>1, <2>2, FS_CardinalityType, FS_EmptySet
  <2>. QED
    BY <2>2, <2>3
<1>4. ASSUME NEW x \in F, NEW y \in F, d.user[x].id < d.user[y].id
      PROVE  Cardinality(below(x)) # Cardinality(below(y))
  <2>1. below(x) \in SUBSET below(y) /\ y \in below(y) /\ y \notin below(x)
    BY <1>2, <1>4
  <2>2. below(x) # below(y)
    BY <2>1
  <2>3. IsFiniteSet(below(y))
    BY <1>3
  <2>. HIDE DEF below
  <2>. QED
    BY <2>1, <2>2, <2>3, FS_Subset
<1>5. ASSUME NEW x \in F, NEW y \in F, x # y
      PROVE  Cardinality(below(x)) # Cardinality(below(y))
  <2>1. d.user[x].id # d.user[y].id
    BY <1>1, <1>2, <1>5 DEF DbOk, Accounts
  <2>. QED
    BY <1>2, <1>4, <2>1
<1>6. d.next \in Nat /\ Cardinality(F) \in Nat
  BY <1>1, FS_CardinalityType DEF Db
<1>7. \A x \in F : PseudoId(d, x) = d.next + Cardinality(below(x))
  BY DEF PseudoId
<1>8. \A x \in Asked(d) \ F : PseudoId(d, x) = d.match[x].pseudo /\ d.match[x].pseudo \in Nat \ {0}
  <2>1. \A x \in Asked(d) : x \in Persons
    BY AskedHas
  <2>. QED
    BY <2>1 DEF PseudoId, Fresh, Db, Match
<1>. HIDE DEF F, below
<1>9. \A x \in F : PseudoId(d, x) \in (d.next + 1)..(d.next + Cardinality(F))
  BY <1>3, <1>6, <1>7
<1>10. \A x, y \in F : PseudoId(d, x) = PseudoId(d, y) => x = y
  BY <1>3, <1>5, <1>6, <1>7
<1>. QED
  BY <1>1, <1>6, <1>8, <1>9, <1>10 DEF F

LEMMA QuestionsOk ==
  ASSUME NEW lim \in Nat, NEW d, DbOk(d, lim)
  PROVE  AskedOk(d, Questions(d))
<1>1. \A x \in Asked(d) : x \in Persons /\ Has(d, x)
  BY AskedHas DEF Has
<1>2. \A x \in Asked(d) : PseudoId(d, x) \in Nat \ {0}
  BY FreshIds
<1>. QED
  BY <1>1, <1>2 DEF AskedOk, Questions

LEMMA MaxOk ==
  ASSUME NEW n \in Nat, NEW f \in [Persons -> Nat], NEW A \in SUBSET {f[x] : x \in Persons}
  PROVE  Max({n} \union A) \in Nat /\ Max({n} \union A) >= n /\ \A m \in A : Max({n} \union A) >= m
<1>. DEFINE B == {f[x] : x \in Persons}
            S == {n} \union A
<1>1. IsFiniteSet(B)
  <2>1. f \in Surjection(Persons, B)
    BY DEF Surjection
  <2>. HIDE DEF B
  <2>. QED  BY <2>1, FS_Surjection, PersonsAssumption
<1>2. IsFiniteSet(A)
  BY <1>1, FS_Subset
<1>3. IsFiniteSet(S)
  BY <1>2, FS_AddElement
<1>4. S \in SUBSET Nat /\ n \in S
  OBVIOUS
<1>5. Max(S) \in S /\ \A m \in S : m <= Max(S)
  <2>. HIDE DEF S
  <2>. QED  BY <1>3, <1>4, Greatest
<1>. QED
  BY <1>4, <1>5

LEMMA AfterQuestionsOk ==
  ASSUME NEW lim \in Nat, NEW d, DbOk(d, lim)
  PROVE  /\ DbOk(AfterQuestions(d), lim) /\ SameTimes(d, AfterQuestions(d))
         /\ AfterQuestions(d).next = d.next + Cardinality(Fresh(d))
         /\ AfterQuestions(d).match = d.match /\ AfterQuestions(d).user = d.user /\ AfterQuestions(d).mail = d.mail
         /\ AfterQuestions(d).requests = d.requests /\ AfterQuestions(d).stuck = d.stuck
<1>. d \in Db(lim)
  BY DEF DbOk
<1>. DEFINE f == [x \in Persons |-> d.user[x].at]
            A == {d.user[x].at : x \in ChangedUsers(d)}
            m == Max({d.changed} \union A)
            n == d.next + Cardinality(Fresh(d))
            e == AfterQuestions(d)
<1>1. m \in Nat
  <2>1. f \in [Persons -> Nat] /\ d.changed \in Nat
    BY DEF Db, User
  <2>2. \A x \in ChangedUsers(d) : x \in Persons
    BY DEF ChangedUsers
  <2>3. A \in SUBSET {f[x] : x \in Persons}
    BY <2>2
  <2>. HIDE DEF f, A
  <2>. QED  BY <2>1, <2>3, MaxOk
<1>2. n \in Nat
  BY FreshIds
<1>3. e = [d EXCEPT !.next = n, !.changed = m]
  BY DEF AfterQuestions
<1>. HIDE DEF n, m
<1>4. [d EXCEPT !.next = n, !.changed = m] \in Db(lim)
  BY <1>1, <1>2 DEF Db
<1>. HIDE DEF e
<1>5. /\ e.next = n /\ e.match = d.match /\ e.user = d.user /\ e.mail = d.mail
      /\ e.requests = d.requests /\ e.stuck = d.stuck /\ e \in Db(lim)
  BY <1>3, <1>4 DEF Db
<1>6. SameTimes(d, e)
  BY <1>5 DEF SameTimes
<1>7. DbOk(e, lim)
  BY <1>5, <1>6, KeepsOk
<1>. QED
  BY <1>5, <1>6, <1>7 DEF e, n

\* Whose signature it is that a server finds.
LEMMA MatchIsSame ==
  ASSUME NEW d, NEW sig, NEW x \in Matches(d, sig)
  PROVE  x \in Persons /\ sig = {[who |-> x, info |-> d.user[x].info]}
BY DEF Matches, Signature

LEMMA NotedOk ==
  ASSUME NEW lim \in Nat, NEW d, DbOk(d, lim), NEW asked, \A u \in asked : u.id \in Nat \ {0}
  PROVE  /\ DbOk(Noted(d, asked), lim) /\ SameTimes(d, Noted(d, asked))
         /\ Noted(d, asked) = [d EXCEPT !.match = Noted(d, asked).match]
         /\ \A x \in Persons :
              /\ Noted(d, asked).match[x] = [d.match[x] EXCEPT !.remote = Noted(d, asked).match[x].remote]
              /\ \/ Noted(d, asked).match[x].remote = d.match[x].remote /\ \A u \in asked : x \notin Matches(d, u.sig)
                 \/ \E u \in asked : x \in Matches(d, u.sig) /\ Noted(d, asked).match[x].remote = u.id
<1>. d \in Db(lim)
  BY DEF DbOk
<1>. DEFINE ids(x) == {u.id : u \in {v \in asked : x \in Matches(d, v.sig)}}
            match == [x \in Persons |-> IF ids(x) = {} THEN d.match[x]
                                         ELSE [d.match[x] EXCEPT !.remote = CHOOSE i \in ids(x) : TRUE]]
            e     == Noted(d, asked)
<1>1. ASSUME NEW x \in Persons, ids(x) # {}
      PROVE  \E u \in asked : x \in Matches(d, u.sig) /\ (CHOOSE i \in ids(x) : TRUE) = u.id
  <2>1. (CHOOSE i \in ids(x) : TRUE) \in ids(x)
    BY <1>1
  <2>. QED
    BY <2>1
<1>2. match \in [Persons -> Match(lim)]
  <2>. HIDE DEF ids
  <2>. QED  BY <1>1 DEF Db, Match
<1>3. e = [d EXCEPT !.match = match]
  BY DEF Noted
<1>4. \A x \in Persons :
        /\ match[x] = [d.match[x] EXCEPT !.remote = match[x].remote]
        /\ \/ match[x].remote = d.match[x].remote /\ \A u \in asked : x \notin Matches(d, u.sig)
           \/ \E u \in asked : x \in Matches(d, u.sig) /\ match[x].remote = u.id
  <2>. TAKE x \in Persons
  <2>1. CASE ids(x) = {}
    <3>1. match[x] = d.match[x]
      BY <2>1
    <3>2. match[x] = [d.match[x] EXCEPT !.remote = match[x].remote]
      BY <3>1 DEF Db, Match
    <3>3. \A u \in asked : x \notin Matches(d, u.sig)
      BY <2>1
    <3>. QED
      BY <3>1, <3>2, <3>3
  <2>2. CASE ids(x) # {}
    <3>1. match[x].remote = CHOOSE i \in ids(x) : TRUE
      <4>. HIDE DEF ids
      <4>. QED  BY <2>2 DEF Db, Match
    <3>2. match[x] = [d.match[x] EXCEPT !.remote = match[x].remote]
      <4>. HIDE DEF ids
      <4>. QED  BY <2>2, <3>1 DEF Db, Match
    <3>. QED
      BY <1>1, <2>2, <3>1, <3>2
  <2>. QED
    BY <2>1, <2>2
<1>. HIDE DEF match, e
<1>5. /\ e.match = match /\ e.user = d.user /\ e.tabs = d.tabs /\ e.stuck = d.stuck
      /\ d.tabs \in SUBSET Persons /\ d.user \in [Persons -> User(lim)] /\ d.stuck \in BOOLEAN
  BY <1>3 DEF Db
<1>6. e = [d EXCEPT !.match = e.match, !.user = e.user, !.tabs = e.tabs, !.stuck = e.stuck] /\ e = [d EXCEPT !.match = e.match]
  BY <1>3, <1>5 DEF Db
<1>7. SameTimes(d, e)
  BY <1>5 DEF SameTimes
<1>8. DbOk(e, lim)
  BY <1>2, <1>5, <1>6, <1>7, MarkedOk
<1>. QED
  BY <1>4, <1>5, <1>6, <1>7, <1>8 DEF e

\* An answer that is right makes the user a verified one, under the id that was asked with.
Verifies(d, match, questions, answers) ==
  \A x \in Persons :
    \/ match[x] = d.match[x]
    \/ \E q \in questions : /\ q.who = x /\ Confirmed(d, q, answers) /\ ~OldMatch(d, q)
                            /\ match[x] = [d.match[x] EXCEPT !.verified = TRUE, !.pseudo = q.id]
SameRest(d, e) ==
  /\ \A x \in Persons : e.user[x].id = d.user[x].id /\ e.user[x].info = d.user[x].info
  /\ e.next = d.next /\ e.mail = d.mail /\ e.requests = d.requests /\ e.stuck = d.stuck

LEMMA ComparedOk ==
  ASSUME NEW now \in Nat \ {0}, NEW d, Dated(d, now), NEW questions, AskedOk(d, questions), NEW answers,
         NEW e, e = Compared(d, questions, answers, now)
  PROVE  Dated(e, now) /\ SameRest(d, e) /\ Verifies(d, e.match, questions, answers)
<1>. d \in Db(now) /\ DbOk(d, now)
  BY DEF Dated, DbOk
<1>. DEFINE asked == {q \in questions : \E u \in answers : u.id = q.id}
            done  == {q \in asked : Confirmed(d, q, answers) /\ ~OldMatch(d, q)}
            hit(x) == {q \in done : q.who = x}
            match == [x \in Persons |-> IF hit(x) = {} THEN d.match[x]
                        ELSE [d.match[x] EXCEPT !.verified = TRUE, !.pseudo = (CHOOSE q \in hit(x) : TRUE).id]]
            user  == [x \in Persons |-> IF hit(x) = {} THEN d.user[x] ELSE [d.user[x] EXCEPT !.at = now, !.pending = FALSE]]
            ids   == {d.user[q.who].id : q \in asked}
            checked == Max({d.checked} \union ids)
<1>1. ASSUME NEW x \in Persons, hit(x) # {}
      PROVE  \E q \in questions : /\ (CHOOSE r \in hit(x) : TRUE) = q /\ q.id \in Nat \ {0} /\ q.who = x
                                  /\ Confirmed(d, q, answers) /\ ~OldMatch(d, q) /\ Has(d, x)
  <2>1. (CHOOSE r \in hit(x) : TRUE) \in hit(x)
    BY <1>1
  <2>. QED
    BY <2>1 DEF AskedOk
<1>2. checked \in Nat
  <2>. DEFINE f == [x \in Persons |-> d.user[x].id]
  <2>1. f \in [Persons -> Nat] /\ d.checked \in Nat
    BY DEF Db, User
  <2>2. \A q \in asked : q.who \in Persons
    BY DEF AskedOk
  <2>3. ids \in SUBSET {f[x] : x \in Persons}
    BY <2>2
  <2>. HIDE DEF f, ids
  <2>. QED  BY <2>1, <2>3, MaxOk
<1>3. e = [d EXCEPT !.match = match, !.user = user, !.checked = checked]
  BY DEF Compared
<1>. HIDE DEF hit, checked
<1>4. match \in [Persons -> Match(now)]
  <2>1. ASSUME NEW x \in Persons PROVE match[x] \in Match(now)
    <3>1. d.match[x] \in Match(now)
      BY DEF Db
    <3>2. hit(x) # {} => (CHOOSE q \in hit(x) : TRUE).id \in Nat
      BY <1>1
    <3>. QED
      BY <3>1, <3>2 DEF Match
  <2>. QED
    BY <2>1
<1>5. user \in [Persons -> User(now)]
  <2>1. ASSUME NEW x \in Persons PROVE user[x] \in User(now)
    <3>1. d.user[x] \in User(now) /\ now \in 0..now
      BY DEF Db
    <3>. QED
      BY <3>1 DEF User
  <2>. QED
    BY <2>1
<1>6. \A x \in Persons : user[x].id = d.user[x].id /\ user[x].info = d.user[x].info
  BY DEF Db, User
<1>7. \A x \in Persons :
        \/ match[x] = d.match[x]
        \/ \E q \in questions : /\ q.who = x /\ Confirmed(d, q, answers) /\ ~OldMatch(d, q)
                                /\ match[x] = [d.match[x] EXCEPT !.verified = TRUE, !.pseudo = q.id]
  BY <1>1
<1>8. ASSUME NEW x \in Persons
      PROVE  user[x].at = d.user[x].at \/ (user[x].at = now /\ user[x].id # 0)
  <2>1. CASE hit(x) = {}
    BY <2>1
  <2>2. CASE hit(x) # {}
    <3>1. d.user[x].id > 0
      BY <1>1, <2>2 DEF Has
    <3>. QED
      BY <2>2, <3>1 DEF Db, User
  <2>. QED
    BY <2>1, <2>2
<1>9. (\A x \in Persons : hit(x) = {}) => match = d.match /\ user = d.user
  BY DEF Db
<1>10. \A x \in Persons : hit(x) # {} => user[x].at = now
  BY DEF Db, User
<1>. HIDE DEF match, user
<1>11. /\ e.match = match /\ e.user = user /\ e.checked = checked /\ e.next = d.next /\ e.mail = d.mail
       /\ e.requests = d.requests /\ e.stuck = d.stuck /\ e \in Db(now)
  BY <1>2, <1>3, <1>4, <1>5 DEF Db
<1>13. Accounts(e)
  BY <1>6, <1>8, <1>11 DEF Accounts, DbOk
<1>14. RequestsOk(e)
  BY <1>6, <1>11 DEF RequestsOk, DbOk, Has
<1>15. e \in Db(now - 1) \/ \E x \in Persons : e.user[x].at = now
  <2>1. CASE \E x \in Persons : d.user[x].at = now
    BY <1>8, <1>11, <2>1
  <2>2. CASE \E x \in Persons : hit(x) # {}
    BY <1>10, <1>11, <2>2
  <2>3. CASE d \in Db(now - 1) /\ \A x \in Persons : hit(x) = {}
    <3>1. e = [d EXCEPT !.checked = checked]
      BY <1>3, <1>9, <2>3 DEF Db
    <3>. QED
      BY <1>2, <2>3, <3>1 DEF Db
  <2>. QED
    BY <2>1, <2>2, <2>3 DEF Dated
<1>16. Dated(e, now)
  BY <1>11, <1>13, <1>14, <1>15 DEF Dated, DbOk
<1>17. SameRest(d, e)
  BY <1>6, <1>11 DEF SameRest
<1>18. Verifies(d, e.match, questions, answers)
  BY <1>7, <1>11 DEF Verifies
<1>. QED
  BY <1>16, <1>17, <1>18

LEMMA DatedOk ==
  ASSUME NEW now \in Nat \ {0}, NEW d, Dated(d, now), NEW e, DbOk(e, now), SameTimes(d, e),
         DbOk(d, now - 1) => e \in Db(now - 1)
  PROVE  Dated(e, now)
BY DEF Dated, DbOk, SameTimes

LEMMA AnsweredOk ==
  ASSUME NEW d, NEW asked \in SUBSET Item, NEW sign \in {1, -1}
  PROVE  Answered(d, asked, sign) \in SUBSET Item
BY DEF Answered, Item

\* What is noted of the other server's questions does not change what is asked.
LEMMA SameQuestions ==
  ASSUME NEW d, NEW e, e.user = d.user, e.checked = d.checked, e.changed = d.changed, e.next = d.next,
         \A x \in Persons : e.match[x].pseudo = d.match[x].pseudo
  PROVE  Asked(e) = Asked(d) /\ Fresh(e) = Fresh(d)
<1>1. NewUsers(e) = NewUsers(d)
  BY DEF NewUsers
<1>2. ChangedUsers(e) = ChangedUsers(d)
  BY <1>1 DEF ChangedUsers
<1>3. \A x \in Asked(d) : x \in Persons
  BY DEF Asked, NewUsers, ChangedUsers
<1>. QED
  BY <1>1, <1>2, <1>3 DEF Asked, Fresh

Waiting(d) == {[id |-> -r.id, sig |-> r.sig] : r \in {q \in d.requests : q.id < 0}}

LEMMA UsersRequestOk ==
  ASSUME NEW lim \in Nat, NEW d, DbOk(d, lim), NEW r, r = UsersRequest(d)
  PROVE  /\ DbOk(r.d, lim) /\ SameTimes(d, r.d) /\ AskedOk(r.d, r.asked) /\ r.users \in SUBSET Item
         /\ r.asked = Questions(d)
         /\ r.users = Answered(d, Waiting(d), -1) \union {[id |-> q.id, sig |-> Signature(d, q.who)] : q \in Questions(d)}
         /\ r.d.match = Noted(d, Waiting(d)).match /\ r.d.requests = {q \in d.requests : q.id > 0}
         /\ r.d.mail = d.mail /\ r.d.stuck = d.stuck
         /\ r.d.next = d.next + Cardinality(Fresh(d))
         /\ \A u \in Waiting(d) : u \in Item /\ u.id > 0
<1>. d \in Db(lim)
  BY DEF DbOk
<1>. DEFINE waiting == Waiting(d)
            e == Noted(d, waiting)
            f == AfterQuestions(e)
            g == [f EXCEPT !.requests = {q \in f.requests : q.id > 0}]
            asks == {[id |-> q.id, sig |-> Signature(d, q.who)] : q \in Questions(d)}
<1>1. \A u \in waiting : u \in Item /\ u.id \in Nat \ {0}
  BY DEF Db, Request, Item, Waiting
<1>2. /\ DbOk(e, lim) /\ SameTimes(d, e) /\ e = [d EXCEPT !.match = e.match]
      /\ \A x \in Persons : e.match[x] = [d.match[x] EXCEPT !.remote = e.match[x].remote]
  <2>. HIDE DEF waiting
  <2>. QED  BY <1>1, NotedOk
<1>. HIDE DEF e
<1>3. /\ DbOk(f, lim) /\ SameTimes(e, f) /\ f.match = e.match /\ f.mail = e.mail /\ f.requests = e.requests
      /\ f.stuck = e.stuck /\ f.next = e.next + Cardinality(Fresh(e))
  BY <1>2, AfterQuestionsOk
<1>4. /\ e.requests = d.requests /\ e.mail = d.mail /\ e.stuck = d.stuck /\ e.next = d.next
      /\ e.user = d.user /\ e.checked = d.checked /\ e.changed = d.changed
  BY <1>2 DEF Db
<1>5. \A x \in Persons : e.match[x].pseudo = d.match[x].pseudo
  BY <1>2 DEF Db, Match
<1>6. Fresh(e) = Fresh(d)
  BY <1>4, <1>5, SameQuestions
<1>. HIDE DEF f
<1>7. g \in Db(lim) /\ g.requests = {q \in d.requests : q.id > 0} /\ g.match = f.match /\ g.mail = f.mail /\ g.stuck = f.stuck
      /\ g.next = f.next /\ g.user = f.user
  BY <1>3, <1>4 DEF DbOk, Db
<1>8. SameTimes(f, g) /\ g.requests \subseteq f.requests
  BY <1>3, <1>4, <1>7 DEF SameTimes
<1>9. DbOk(g, lim)
  BY <1>3, <1>7, <1>8, KeepsOk
<1>10. SameTimes(d, g)
  BY <1>2, <1>3, <1>8 DEF SameTimes
<1>11. AskedOk(d, Questions(d))
  BY QuestionsOk
<1>12. AskedOk(g, Questions(d))
  BY <1>10, <1>11 DEF AskedOk, SameTimes, Has
<1>13. asks \in SUBSET Item
  BY <1>11, SignatureOk DEF AskedOk, Item
<1>14. Answered(d, waiting, -1) \in SUBSET Item
  <2>. HIDE DEF waiting
  <2>. QED  BY <1>1, AnsweredOk
<1>15. r = [d |-> g, asked |-> Questions(d), users |-> Answered(d, waiting, -1) \union asks]
  BY DEF UsersRequest, g, f, e, Waiting
<1>. HIDE DEF g, asks
<1>16. r.d = g /\ r.asked = Questions(d) /\ r.users = Answered(d, waiting, -1) \union asks
  BY <1>15
<1>17. r.users \in SUBSET Item
  BY <1>13, <1>14, <1>16
<1>18. r.d.match = Noted(d, Waiting(d)).match
  BY <1>3, <1>7, <1>16 DEF e
<1>19. r.d.next = d.next + Cardinality(Fresh(d))
  BY <1>3, <1>4, <1>6, <1>7, <1>16
<1>. QED
  BY <1>1, <1>3, <1>4, <1>7, <1>9, <1>10, <1>12, <1>16, <1>17, <1>18, <1>19 DEF asks

AnswersIn(users) == {u \in users : u.id > 0}
Keeps(d, e, users) ==
  \A r \in e.requests : r \in d.requests \/ \E u \in users : u.id < 0 /\ r = [id |-> u.id, sig |-> u.sig, who |-> {}]

LEMMA ReceiveUsersResponseOk ==
  ASSUME NEW now \in Nat \ {0}, NEW d, Dated(d, now), NEW asked, AskedOk(d, asked), NEW users \in SUBSET Item,
         NEW e, e = ReceiveUsersResponse(d, users, asked, now)
  PROVE  /\ Dated(e, now)
         /\ \A x \in Persons : e.user[x].id = d.user[x].id /\ e.user[x].info = d.user[x].info
         /\ e.next = d.next /\ e.mail = d.mail /\ e.stuck = d.stuck
         /\ Verifies(d, e.match, asked, AnswersIn(users)) /\ Keeps(d, e, users)
<1>. DEFINE answers == AnswersIn(users)
            theirs  == {u \in users : u.id < 0}
            buffered(u) == {r \in d.requests : r.id = u.id}
            f == Compared(d, asked, answers, now)
            kept == {r \in f.requests : \A u \in theirs : r.id = u.id => r.sig = u.sig}
            new == {[id |-> u.id, sig |-> u.sig, who |-> {}] : u \in {v \in theirs : buffered(v) = {}}}
            reqs == kept \union new
<1>1. Dated(f, now) /\ SameRest(d, f) /\ Verifies(d, f.match, asked, answers)
  <2>1. f = Compared(d, asked, answers, now)
    OBVIOUS
  <2>. HIDE DEF answers, f
  <2>. QED  BY <2>1, ComparedOk
<1>2. e = [f EXCEPT !.requests = reqs]
  BY DEF ReceiveUsersResponse, AnswersIn
<1>3. \A r \in new : r \in Request /\ r.id < 0 /\ r.who = {}
                     /\ \E u \in users : u.id < 0 /\ r = [id |-> u.id, sig |-> u.sig, who |-> {}]
  BY DEF Request, Item
<1>. HIDE DEF f, new, theirs
<1>4. \A r \in kept : r \in d.requests /\ r \in Request
  BY <1>1 DEF Dated, DbOk, Db, SameRest
<1>. HIDE DEF kept
<1>5. reqs \in SUBSET Request
  BY <1>3, <1>4
<1>6. \A r \in reqs : r \in d.requests \/ (r.id < 0 /\ r.who = {})
  BY <1>3, <1>4
<1>7. \A r \in reqs : r \in d.requests \/ \E u \in users : u.id < 0 /\ r = [id |-> u.id, sig |-> u.sig, who |-> {}]
  BY <1>3, <1>4
<1>. HIDE DEF reqs
<1>8. /\ e.user = f.user /\ e.match = f.match /\ e.next = f.next /\ e.mail = f.mail /\ e.stuck = f.stuck
      /\ e.requests = reqs /\ e \in Db(now) /\ (f \in Db(now - 1) => e \in Db(now - 1))
  BY <1>1, <1>2, <1>5 DEF Dated, DbOk, Db
<1>9. RequestsOk(e)
  <2>. SUFFICES ASSUME NEW r \in e.requests
                PROVE  /\ r.id > 0 => \E x \in Persons : r.who = {x} /\ Has(e, x)
                       /\ r.id < 0 => r.who = {}
    BY DEF RequestsOk
  <2>1. CASE r \in d.requests
    BY <1>1, <1>8, <2>1 DEF Dated, DbOk, RequestsOk, Has, SameRest
  <2>2. CASE r.id < 0 /\ r.who = {}
    BY <1>5, <1>8, <2>2 DEF Request
  <2>. QED
    BY <1>6, <1>8, <2>1, <2>2
<1>10. Accounts(e)
  BY <1>1, <1>8 DEF Dated, DbOk, Accounts, SameRest
<1>11. Dated(e, now)
  BY <1>1, <1>8, <1>9, <1>10 DEF Dated, DbOk
<1>12. Verifies(d, e.match, asked, answers)
  <2>. HIDE DEF answers
  <2>1. e.match = f.match
    BY <1>8
  <2>. QED
    BY <1>1, <2>1
<1>13. Keeps(d, e, users)
  BY <1>7, <1>8 DEF Keeps
<1>. QED
  BY <1>1, <1>8, <1>11, <1>12, <1>13 DEF SameRest

\* The questions go out with the answers, and are kept for the answers to come.
KeptQuestions(d) == {[id |-> q.id, sig |-> {}, who |-> {q.who}] : q \in Questions(d)}
PutQuestions(d)  == {[id |-> -q.id, sig |-> Signature(d, q.who)] : q \in Questions(d)}
Reply(d, theirs) == [type |-> "users", users |-> Answered(d, theirs, 1) \union PutQuestions(d)]

LEMMA RepliedOk ==
  ASSUME NEW lim \in Nat, NEW d, DbOk(d, lim), NEW theirs \in SUBSET Item, NEW e, e = Replied(d, theirs)
  PROVE  /\ DbOk(e, lim) /\ SameTimes(d, e)
         /\ e.match = d.match /\ e.stuck = d.stuck /\ e.next = d.next + Cardinality(Fresh(d))
         /\ e.requests = KeptQuestions(d) /\ e.mail = Append(d.mail, Reply(d, theirs))
<1>. d \in Db(lim)
  BY DEF DbOk
<1>. DEFINE f == AfterQuestions(d)
            reqs == KeptQuestions(d)
            g == [f EXCEPT !.requests = reqs]
            asks == PutQuestions(d)
            users == Answered(d, theirs, 1) \union asks
            m == Reply(d, theirs)
<1>1. AskedOk(d, Questions(d))
  BY QuestionsOk
<1>2. /\ DbOk(f, lim) /\ SameTimes(d, f) /\ f.match = d.match /\ f.mail = d.mail /\ f.stuck = d.stuck
      /\ f.next = d.next + Cardinality(Fresh(d))
  BY AfterQuestionsOk
<1>3. reqs \in SUBSET Request
  BY <1>1 DEF AskedOk, Request, KeptQuestions
<1>4. \A r \in reqs : r.id > 0 /\ \E x \in Persons : r.who = {x} /\ Has(d, x)
  BY <1>1 DEF AskedOk, KeptQuestions
<1>5. asks \in SUBSET Item
  BY <1>1, SignatureOk DEF AskedOk, Item, PutQuestions
<1>6. Answered(d, theirs, 1) \in SUBSET Item
  BY AnsweredOk
<1>7. m \in Message(lim)
  <2>. HIDE DEF asks
  <2>1. users \in SUBSET Item
    BY <1>5, <1>6
  <2>. QED  BY <2>1 DEF Message, Reply, asks
<1>8. e = Mailed(g, "users", users)
  BY DEF Replied, KeptQuestions, PutQuestions
<1>. HIDE DEF f, reqs, users
<1>9. /\ g \in Db(lim) /\ g.requests = reqs /\ g.match = f.match /\ g.mail = f.mail /\ g.stuck = f.stuck
      /\ g.next = f.next /\ g.user = f.user
  BY <1>2, <1>3 DEF DbOk, Db
<1>. HIDE DEF g
<1>10. SameTimes(d, g)
  BY <1>2, <1>9 DEF SameTimes
<1>11. RequestsOk(g)
  <2>. SUFFICES ASSUME NEW r \in reqs
                PROVE  /\ r.id > 0 => \E x \in Persons : r.who = {x} /\ Has(g, x)
                       /\ r.id < 0 => r.who = {}
    BY <1>9 DEF RequestsOk
  <2>1. r.id > 0 /\ r.id \in Int
    BY <1>3, <1>4 DEF Request
  <2>2. \E x \in Persons : r.who = {x} /\ Has(g, x)
    BY <1>4, <1>10 DEF SameTimes, Has
  <2>. QED
    BY <2>1, <2>2
<1>12. Accounts(g)
  BY <1>10 DEF Accounts, SameTimes, DbOk
<1>13. DbOk(g, lim)
  BY <1>9, <1>11, <1>12 DEF DbOk
<1>14. DbOk(e, lim) /\ SameTimes(g, e)
  <2>1. [type |-> "users", users |-> users] \in Message(lim)
    BY <1>7 DEF Reply, users
  <2>. QED
    BY <1>8, <1>13, <2>1, MailedOk
<1>15. /\ e.match = g.match /\ e.stuck = g.stuck /\ e.next = g.next /\ e.requests = g.requests
       /\ e.mail = Append(g.mail, m)
  BY <1>8, <1>9 DEF Mailed, Db, Reply, users
<1>16. SameTimes(d, e)
  BY <1>10, <1>14 DEF SameTimes
<1>. QED
  BY <1>2, <1>9, <1>14, <1>15, <1>16 DEF reqs

LEMMA ReceiveUsersRequestOk ==
  ASSUME NEW now \in Nat \ {0}, NEW d, Dated(d, now), NEW users \in SUBSET Item,
         NEW e, e = ReceiveUsersRequest(d, users, now)
  PROVE  Dated(e, now) /\ \A x \in Persons : e.user[x].id = d.user[x].id
<1>. DEFINE theirs  == {u \in users : u.id > 0}
            answers == {[id |-> -u.id, sig |-> u.sig] : u \in users \ theirs}
            mine    == {[id |-> r.id, who |-> CHOOSE x \in r.who : TRUE] : r \in {q \in d.requests : q.id > 0}}
            f == Noted(d, theirs)
            g == Compared(f, mine, answers, now)
<1>1. AskedOk(d, mine)
  <2>. SUFFICES ASSUME NEW r \in d.requests, r.id > 0
                PROVE  r.id \in Nat \ {0} /\ (CHOOSE x \in r.who : TRUE) \in Persons /\ Has(d, CHOOSE x \in r.who : TRUE)
    BY DEF AskedOk
  <2>1. PICK x \in Persons : r.who = {x} /\ Has(d, x)
    BY DEF Dated, DbOk, RequestsOk
  <2>2. (CHOOSE y \in r.who : TRUE) = x
    BY <2>1
  <2>3. r.id \in Nat \ {0}
    BY DEF Dated, DbOk, Db, Request
  <2>. QED
    BY <2>1, <2>2, <2>3
<1>2. theirs \in SUBSET Item /\ \A u \in theirs : u.id \in Nat \ {0}
  BY DEF Item
<1>. HIDE DEF theirs
<1>3. DbOk(f, now) /\ SameTimes(d, f) /\ f = [d EXCEPT !.match = f.match]
  BY <1>2, NotedOk DEF Dated
<1>4. d \in Db(now - 1) => f \in Db(now - 1)
  <2>. SUFFICES ASSUME d \in Db(now - 1) PROVE f \in Db(now - 1)
    OBVIOUS
  <2>1. DbOk(d, now - 1)
    BY DEF Dated, DbOk
  <2>. QED
    BY <1>2, <2>1, NotedOk DEF DbOk
<1>5. Dated(f, now)
  <2>. HIDE DEF f
  <2>. QED  BY <1>3, <1>4, DatedOk DEF DbOk
<1>6. AskedOk(f, mine)
  <2>. HIDE DEF f, mine
  <2>. QED  BY <1>1, <1>3 DEF AskedOk, SameTimes, Has
<1>7. Dated(g, now) /\ SameRest(f, g)
  <2>1. g = Compared(f, mine, answers, now)
    OBVIOUS
  <2>. HIDE DEF g, f, mine, answers
  <2>. QED  BY <1>5, <1>6, <2>1, ComparedOk
<1>8. e = Replied(g, theirs)
  BY DEF ReceiveUsersRequest, With, theirs
<1>. HIDE DEF g, f
<1>9. DbOk(e, now) /\ SameTimes(g, e)
  BY <1>2, <1>7, <1>8, RepliedOk DEF Dated
<1>10. DbOk(g, now - 1) => e \in Db(now - 1)
  BY <1>2, <1>8, RepliedOk DEF DbOk
<1>11. Dated(e, now)
  BY <1>7, <1>9, <1>10, DatedOk
<1>. QED
  BY <1>3, <1>7, <1>9, <1>11 DEF SameTimes, SameRest

----------------------------------------------------------------------------
\* The messages of a ping, one after the other.

Answering(read, d, msgs, now) ==
  /\ ReadRequests(d, msgs, now) = read[Len(msgs)] /\ read[0] = d
  /\ \A i \in 1..Len(msgs) : read[i] = ReceiveRequest(read[i - 1], msgs[i], now)

LEMMA RequestChain ==
  ASSUME NEW d, NEW msgs, Len(msgs) \in Nat, NEW now
  PROVE  \E read : Answering(read, d, msgs, now)
<1>. DEFINE Step(e, i) == With(e, LAMBDA f : ReceiveRequest(f, msgs[i], now))
            Is(f, n) == f = [i \in 0..n |-> IF i = 0 THEN d ELSE Step(f[i - 1], i)]
            S == {n \in Nat : \E f : Is(f, n)}
            N == Len(msgs)
<1>1. 0 \in S
  <2>. DEFINE f == [i \in 0..0 |-> d]
  <2>1. Is(f, 0)
    <3>. HIDE DEF Step
    <3>. QED  OBVIOUS
  <2>. QED
    BY <2>1
<1>2. ASSUME NEW n \in S
      PROVE  n + 1 \in S
  <2>1. PICK f : Is(f, n)
    OBVIOUS
  <2>. DEFINE g == [i \in 0..(n + 1) |-> IF i = n + 1 THEN Step(f[n], i) ELSE f[i]]
  <2>. HIDE DEF Step
  <2>2. ASSUME NEW i \in 0..(n + 1)
        PROVE  g[i] = IF i = 0 THEN d ELSE Step(g[i - 1], i)
    <3>1. CASE i = n + 1
      <4>1. g[i - 1] = f[n]
        BY <3>1
      <4>. QED
        BY <3>1, <4>1
    <3>2. CASE i # n + 1
      <4>1. i \in 0..n /\ (i # 0 => g[i - 1] = f[i - 1])
        BY <3>2
      <4>. QED
        BY <2>1, <3>2, <4>1
    <3>. QED
      BY <3>1, <3>2
  <2>3. Is(g, n + 1)
    BY <2>2
  <2>. HIDE DEF Is
  <2>4. \E h : Is(h, n + 1)
    BY <2>3
  <2>. QED
    BY <2>4
<1>3. \E f : Is(f, N)
  <2>. HIDE DEF Is
  <2>. QED  BY <1>1, <1>2, FromZero
<1>. DEFINE read == CHOOSE f : Is(f, N)
<1>4. Is(read, N)
  <2>. HIDE DEF Is
  <2>. QED  BY <1>3
<1>5. ReadRequests(d, msgs, now) = read[N]
  BY DEF ReadRequests
<1>6. read[0] = d /\ \A i \in 1..N : read[i] = Step(read[i - 1], i)
  <2>. HIDE DEF read, Step
  <2>. QED  BY <1>4
<1>7. \A i \in 1..N : Step(read[i - 1], i) = ReceiveRequest(read[i - 1], msgs[i], now)
  <2>. HIDE DEF read
  <2>. QED  BY DEF With
<1>. HIDE DEF read, Step
<1>. QED
  BY <1>5, <1>6, <1>7 DEF Answering

Reading(read, d, msgs, asked, now) ==
  /\ ReadResponses(d, msgs, asked, now) = read[Len(msgs)] /\ read[0] = d
  /\ \A i \in 1..Len(msgs) : read[i] = ReceiveResponse(read[i - 1], msgs[i], asked, now)

LEMMA ResponseChain ==
  ASSUME NEW d, NEW msgs, Len(msgs) \in Nat, NEW asked, NEW now
  PROVE  \E read : Reading(read, d, msgs, asked, now)
<1>. DEFINE Step(e, i) == With(e, LAMBDA f : ReceiveResponse(f, msgs[i], asked, now))
            Is(f, n) == f = [i \in 0..n |-> IF i = 0 THEN d ELSE Step(f[i - 1], i)]
            S == {n \in Nat : \E f : Is(f, n)}
            N == Len(msgs)
<1>1. 0 \in S
  <2>. DEFINE f == [i \in 0..0 |-> d]
  <2>1. Is(f, 0)
    <3>. HIDE DEF Step
    <3>. QED  OBVIOUS
  <2>. QED
    BY <2>1
<1>2. ASSUME NEW n \in S
      PROVE  n + 1 \in S
  <2>1. PICK f : Is(f, n)
    OBVIOUS
  <2>. DEFINE g == [i \in 0..(n + 1) |-> IF i = n + 1 THEN Step(f[n], i) ELSE f[i]]
  <2>. HIDE DEF Step
  <2>2. ASSUME NEW i \in 0..(n + 1)
        PROVE  g[i] = IF i = 0 THEN d ELSE Step(g[i - 1], i)
    <3>1. CASE i = n + 1
      <4>1. g[i - 1] = f[n]
        BY <3>1
      <4>. QED
        BY <3>1, <4>1
    <3>2. CASE i # n + 1
      <4>1. i \in 0..n /\ (i # 0 => g[i - 1] = f[i - 1])
        BY <3>2
      <4>. QED
        BY <2>1, <3>2, <4>1
    <3>. QED
      BY <3>1, <3>2
  <2>3. Is(g, n + 1)
    BY <2>2
  <2>. HIDE DEF Is
  <2>4. \E h : Is(h, n + 1)
    BY <2>3
  <2>. QED
    BY <2>4
<1>3. \E f : Is(f, N)
  <2>. HIDE DEF Is
  <2>. QED  BY <1>1, <1>2, FromZero
<1>. DEFINE read == CHOOSE f : Is(f, N)
<1>4. Is(read, N)
  <2>. HIDE DEF Is
  <2>. QED  BY <1>3
<1>5. ReadResponses(d, msgs, asked, now) = read[N]
  BY DEF ReadResponses
<1>6. read[0] = d /\ \A i \in 1..N : read[i] = Step(read[i - 1], i)
  <2>. HIDE DEF read, Step
  <2>. QED  BY <1>4
<1>7. \A i \in 1..N : Step(read[i - 1], i) = ReceiveResponse(read[i - 1], msgs[i], asked, now)
  <2>. HIDE DEF read
  <2>. QED  BY DEF With
<1>. HIDE DEF read, Step
<1>. QED
  BY <1>5, <1>6, <1>7 DEF Reading

SameIds(d, e) == \A x \in Persons : e.user[x].id = d.user[x].id

LEMMA Kinds ==
  ASSUME NEW lim \in Nat, NEW m \in Message(lim)
  PROVE  /\ m.type = "users" => m.users \in SUBSET Item
         /\ m.type # "users" => m.users \in SUBSET Word(lim) /\ m.type \in {"online", "sha256"}
BY DEF Message

\* Messages that say something of profiles.
LEMMA WordsOk ==
  ASSUME NEW now \in Nat \ {0}, NEW d, Dated(d, now), NEW users \in SUBSET Word(now - 1)
  PROVE  /\ Dated(ReceiveOnline(d, users), now) /\ SameIds(d, ReceiveOnline(d, users))
         /\ Dated(ReceiveSha256(d, users), now) /\ SameIds(d, ReceiveSha256(d, users))
<1>1. users \in SUBSET Word(now)
  BY DEF Word
<1>2. DbOk(d, now) /\ (d \in Db(now - 1) => DbOk(d, now - 1))
  BY DEF Dated, DbOk
<1>3. /\ DbOk(ReceiveOnline(d, users), now) /\ SameTimes(d, ReceiveOnline(d, users))
      /\ d \in Db(now - 1) => DbOk(ReceiveOnline(d, users), now - 1)
  BY <1>2, ReceiveOnlineOk
<1>4. /\ DbOk(ReceiveSha256(d, users), now) /\ SameTimes(d, ReceiveSha256(d, users))
      /\ d \in Db(now - 1) => DbOk(ReceiveSha256(d, users), now - 1)
  BY <1>1, <1>2, ReceiveSha256Ok
<1>. QED
  BY <1>3, <1>4, DatedOk DEF SameTimes, SameIds, DbOk

LEMMA WithOnlineDated ==
  ASSUME NEW now \in Nat \ {0}, NEW d, Dated(d, now)
  PROVE  Dated(WithOnline(d), now) /\ SameIds(d, WithOnline(d))
<1>1. DbOk(d, now) /\ (d \in Db(now - 1) => DbOk(d, now - 1))
  BY DEF Dated, DbOk
<1>2. /\ DbOk(WithOnline(d), now) /\ SameTimes(d, WithOnline(d))
      /\ d \in Db(now - 1) => DbOk(WithOnline(d), now - 1)
  BY <1>1, WithOnlineOk
<1>. QED
  BY <1>2, DatedOk DEF SameTimes, SameIds, DbOk

LEMMA ToldDated ==
  ASSUME NEW now \in Nat \ {0}, NEW d, Dated(d, now), NEW X \in SUBSET Persons
  PROVE  Dated(Told(d, X), now) /\ SameIds(d, Told(d, X))
<1>1. DbOk(d, now) /\ (d \in Db(now - 1) => DbOk(d, now - 1))
  BY DEF Dated, DbOk
<1>2. /\ DbOk(Told(d, X), now) /\ SameTimes(d, Told(d, X))
      /\ d \in Db(now - 1) => DbOk(Told(d, X), now - 1)
  BY <1>1, ToldOk
<1>. QED
  BY <1>2, DatedOk DEF SameTimes, SameIds, DbOk

LEMMA ReceiveRequestOk ==
  ASSUME NEW now \in Nat \ {0}, NEW d, Dated(d, now), NEW m \in Message(now - 1), NEW e, e = ReceiveRequest(d, m, now)
  PROVE  Dated(e, now) /\ SameIds(d, e)
<1>1. CASE d.stuck
  BY <1>1 DEF ReceiveRequest, SameIds
<1>2. CASE ~d.stuck /\ m.type = "users"
  <2>1. m.users \in SUBSET Item /\ e = ReceiveUsersRequest(d, m.users, now)
    BY <1>2, Kinds DEF ReceiveRequest
  <2>. QED
    BY <2>1, ReceiveUsersRequestOk DEF SameIds
<1>3. CASE ~d.stuck /\ m.type = "online"
  <2>1. m.users \in SUBSET Word(now - 1) /\ "online" # "users"
    BY <1>3, Kinds
  <2>2. e = WithOnline(ReceiveOnline(d, m.users))
    BY <1>3 DEF ReceiveRequest
  <2>. QED
    BY <2>1, <2>2, WordsOk, WithOnlineDated DEF SameIds
<1>4. CASE ~d.stuck /\ m.type = "sha256"
  <2>1. m.users \in SUBSET Word(now - 1)
    BY <1>4, Kinds
  <2>2. e = ReceiveSha256(d, m.users)
    BY <1>4 DEF ReceiveRequest
  <2>. QED
    BY <2>1, <2>2, WordsOk
<1>. QED
  BY <1>1, <1>2, <1>3, <1>4, Kinds

LEMMA ReceiveResponseOk ==
  ASSUME NEW now \in Nat \ {0}, NEW d, Dated(d, now), NEW m \in Message(now - 1),
         NEW asked, AskedOk(d, asked), NEW e, e = ReceiveResponse(d, m, asked, now)
  PROVE  Dated(e, now) /\ SameIds(d, e)
<1>1. CASE d.stuck
  BY <1>1 DEF ReceiveResponse, SameIds
<1>2. CASE ~d.stuck /\ m.type = "users"
  <2>1. m.users \in SUBSET Item /\ e = ReceiveUsersResponse(d, m.users, asked, now)
    BY <1>2, Kinds DEF ReceiveResponse
  <2>. QED
    BY <2>1, ReceiveUsersResponseOk DEF SameIds
<1>3. CASE ~d.stuck /\ m.type = "online"
  <2>1. m.users \in SUBSET Word(now - 1)
    BY <1>3, Kinds
  <2>2. e = ReceiveOnline(d, m.users)
    BY <1>3 DEF ReceiveResponse
  <2>. QED
    BY <2>1, <2>2, WordsOk
<1>4. CASE ~d.stuck /\ m.type = "sha256"
  <2>1. m.users \in SUBSET Word(now - 1)
    BY <1>4, Kinds
  <2>2. e = ReceiveSha256(d, m.users)
    BY <1>4 DEF ReceiveResponse
  <2>. QED
    BY <2>1, <2>2, WordsOk
<1>. QED
  BY <1>1, <1>2, <1>3, <1>4, Kinds

\* Messages that are read and answered leave a server in order.
LEMMA ServedOk ==
  ASSUME NEW now \in Nat \ {0}, NEW d, Dated(d, now), NEW msgs \in Seq(Message(now - 1)), NEW again,
         NEW e, e = Served(d, msgs, again, now)
  PROVE  Dated(e, now) /\ SameIds(d, e)
<1>. DEFINE N == Len(msgs)
<1>0. N \in Nat /\ \A i \in 1..N : msgs[i] \in Message(now - 1)
  OBVIOUS
<1>9. \E read : Answering(read, d, msgs, now)
  BY <1>0, RequestChain
<1>1. PICK read : /\ ReadRequests(d, msgs, now) = read[N] /\ read[0] = d
                  /\ \A i \in 1..N : read[i] = ReceiveRequest(read[i - 1], msgs[i], now)
  BY <1>9 DEF Answering
<1>. DEFINE S == {n \in Nat : n <= N => Dated(read[n], now) /\ SameIds(d, read[n])}
<1>2. 0 \in S
  BY <1>1 DEF SameIds
<1>3. ASSUME NEW n \in S
      PROVE  n + 1 \in S
  <2>. SUFFICES ASSUME n + 1 <= N PROVE Dated(read[n + 1], now) /\ SameIds(d, read[n + 1])
    OBVIOUS
  <2>1. n + 1 \in 1..N /\ Dated(read[n], now) /\ SameIds(d, read[n])
    BY <1>0
  <2>2. read[n + 1] = ReceiveRequest(read[n], msgs[n + 1], now) /\ msgs[n + 1] \in Message(now - 1)
    BY <1>0, <1>1, <2>1
  <2>. QED
    BY <2>1, <2>2, ReceiveRequestOk DEF SameIds
<1>. DEFINE f == read[N]
            t == Told(f, ToTell(f, again))
            u == UsersToo(t, msgs, now)
<1>4. Dated(f, now) /\ SameIds(d, f)
  <2>2. S \in SUBSET Nat
    OBVIOUS
  <2>. HIDE DEF S
  <2>1. N \in S
    BY <1>0, <1>2, <1>3, <2>2, FromZero
  <2>. QED
    BY <1>0, <2>1 DEF S
<1>5. e = IF f.stuck THEN f ELSE OnlineToo(u, msgs)
  BY <1>1 DEF Served, With
<1>. HIDE DEF f
<1>6. Dated(t, now) /\ SameIds(f, t)
  BY <1>4, ToldDated DEF ToTell
<1>. HIDE DEF t
<1>7. Dated(u, now) /\ SameIds(t, u)
  <2>1. {} \in SUBSET Item
    OBVIOUS
  <2>. QED
    BY <1>6, <2>1, ReceiveUsersRequestOk DEF UsersToo, SameIds
<1>. HIDE DEF u
<1>8. Dated(OnlineToo(u, msgs), now) /\ SameIds(u, OnlineToo(u, msgs))
  BY <1>7, WithOnlineDated DEF OnlineToo, SameIds
<1>. QED
  BY <1>4, <1>5, <1>6, <1>7, <1>8 DEF SameIds

LEMMA ReadOk ==
  ASSUME NEW now \in Nat \ {0}, NEW d, Dated(d, now), NEW msgs \in Seq(Message(now - 1)), NEW again,
         NEW asked, AskedOk(d, asked), NEW e, e = Read(d, msgs, asked, again, now)
  PROVE  Dated(e, now) /\ SameIds(d, e)
<1>. DEFINE N == Len(msgs)
<1>0. N \in Nat /\ \A i \in 1..N : msgs[i] \in Message(now - 1)
  OBVIOUS
<1>9. \E read : Reading(read, d, msgs, asked, now)
  BY <1>0, ResponseChain
<1>1. PICK read : /\ ReadResponses(d, msgs, asked, now) = read[N] /\ read[0] = d
                  /\ \A i \in 1..N : read[i] = ReceiveResponse(read[i - 1], msgs[i], asked, now)
  BY <1>9 DEF Reading
<1>. DEFINE S == {n \in Nat : n <= N => Dated(read[n], now) /\ SameIds(d, read[n])}
<1>2. 0 \in S
  BY <1>1 DEF SameIds
<1>3. ASSUME NEW n \in S
      PROVE  n + 1 \in S
  <2>. SUFFICES ASSUME n + 1 <= N PROVE Dated(read[n + 1], now) /\ SameIds(d, read[n + 1])
    OBVIOUS
  <2>1. n + 1 \in 1..N /\ Dated(read[n], now) /\ SameIds(d, read[n])
    BY <1>0
  <2>2. read[n + 1] = ReceiveResponse(read[n], msgs[n + 1], asked, now) /\ msgs[n + 1] \in Message(now - 1)
    BY <1>0, <1>1, <2>1
  <2>3. AskedOk(read[n], asked)
    BY <2>1 DEF AskedOk, SameIds, Has
  <2>. QED
    BY <2>1, <2>2, <2>3, ReceiveResponseOk DEF SameIds
<1>. DEFINE f == read[N]
<1>4. Dated(f, now) /\ SameIds(d, f)
  <2>2. S \in SUBSET Nat
    OBVIOUS
  <2>. HIDE DEF S
  <2>1. N \in S
    BY <1>0, <1>2, <1>3, <2>2, FromZero
  <2>. QED
    BY <1>0, <2>1 DEF S
<1>5. e = IF f.stuck THEN f ELSE Told(f, ToTell(f, again))
  BY <1>1 DEF Read, With
<1>. HIDE DEF f
<1>. QED
  BY <1>4, <1>5, ToldDated DEF ToTell, SameIds

----------------------------------------------------------------------------
\* Type correctness.

PingAt(lim) ==
  [stage : {"idle", "request", "response"}, msgs : Seq(Message(lim)), asked : SUBSET [id : Nat \ {0}, who : Persons]]
PingOk(d, p, lim) == p \in PingAt(lim) /\ AskedOk(d, p.asked)

\* Everything is in order at the present time.  The questions of a ping are about accounts.
TypeInv ==
  /\ profile \in [Persons -> Nat] /\ clock \in Nat /\ losses \in 0..MaxLosses /\ missed \in SUBSET Persons
  /\ db = [s \in Servers |-> db[s]] /\ ping = [s \in Servers |-> ping[s]]
  /\ \A s \in Servers : DbOk(db[s], clock) /\ PingOk(db[s], ping[s], clock)

LEMMA TwoServers ==
  ASSUME NEW s \in Servers
  PROVE  \E o \in Servers : o # s /\ Servers = {s, o}
<1>1. IsFiniteSet(Servers \ {s}) /\ Cardinality(Servers \ {s}) = 1
  BY ServersAssumption, FS_RemoveElement
<1>2. PICK o : Servers \ {s} = {o}
  BY <1>1, FS_Singleton
<1>. QED
  BY <1>2

LEMMA OtherOk ==
  ASSUME NEW s \in Servers
  PROVE  /\ Other(s) \in Servers /\ Other(s) # s /\ \A t \in Servers : t = s \/ t = Other(s)
         /\ Other(Other(s)) = s
<1>1. PICK o \in Servers : o # s /\ Servers = {s, o}
  BY TwoServers
<1>2. Other(s) = o /\ Other(o) = s
  BY <1>1 DEF Other
<1>. QED
  BY <1>1, <1>2

LEMMA LaterDbOk ==
  ASSUME NEW lim \in Nat, NEW now \in Nat, lim <= now, NEW d, DbOk(d, lim)
  PROVE  DbOk(d, now)
BY LaterDb DEF DbOk

LEMMA LaterPing ==
  ASSUME NEW lim \in Nat, NEW now \in Nat, lim <= now, NEW p \in PingAt(lim)
  PROVE  p \in PingAt(now)
<1>1. Message(lim) \subseteq Message(now)
  BY DEF Message, Word
<1>2. Seq(Message(lim)) \subseteq Seq(Message(now))
  BY <1>1
<1>. HIDE DEF Message
<1>. QED
  BY <1>2 DEF PingAt

\* A step that changes one server and one ping.
LEMMA StepOk ==
  ASSUME TypeInv, NEW s \in Servers, NEW d, NEW now \in Nat, clock <= now, DbOk(d, now),
         \A x \in Persons : Has(db[s], x) => Has(d, x), db' = [db EXCEPT ![s] = d],
         NEW t \in Servers, NEW p \in PingAt(now), AskedOk(db[t], p.asked) \/ AskedOk(db'[t], p.asked),
         ping' = [ping EXCEPT ![t] = p],
         profile' \in [Persons -> Nat], clock' = now, losses' \in 0..MaxLosses, missed' \in SUBSET Persons
  PROVE  TypeInv'
<1>1. db' = [u \in Servers |-> db'[u]] /\ ping' = [u \in Servers |-> ping'[u]]
  BY DEF TypeInv
<1>2. ASSUME NEW u \in Servers
      PROVE  DbOk(db'[u], now) /\ \A x \in Persons : Has(db[u], x) => Has(db'[u], x)
  <2>1. CASE u = s
    <3>1. db'[u] = d
      BY <2>1 DEF TypeInv
    <3>. QED
      BY <2>1, <3>1
  <2>2. CASE u # s
    <3>1. db'[u] = db[u] /\ DbOk(db[u], clock)
      BY <2>2 DEF TypeInv
    <3>. QED
      BY <3>1, LaterDbOk DEF TypeInv
  <2>. QED
    BY <2>1, <2>2
<1>3. ASSUME NEW u \in Servers
      PROVE  PingOk(db'[u], ping'[u], now)
  <2>1. CASE u = t
    <3>1. ping'[u] = p
      BY <2>1 DEF TypeInv
    <3>2. AskedOk(db'[u], p.asked)
      BY <1>2, <2>1 DEF AskedOk
    <3>. QED
      BY <3>1, <3>2 DEF PingOk
  <2>2. CASE u # t
    <3>1. ping'[u] = ping[u] /\ PingOk(db[u], ping[u], clock)
      BY <2>2 DEF TypeInv
    <3>2. AskedOk(db'[u], ping[u].asked)
      BY <1>2, <3>1 DEF AskedOk, PingOk
    <3>. QED
      BY <3>1, <3>2, LaterPing DEF PingOk, TypeInv
  <2>. QED
    BY <2>1, <2>2
<1>. QED
  BY <1>1, <1>2, <1>3 DEF TypeInv

LEMMA InitOk ==
  Init => TypeInv
<1>. SUFFICES ASSUME Init PROVE TypeInv
  OBVIOUS
<1>. DEFINE id(s, x) == CHOOSE i \in DOMAIN Early[s] : Early[s][i] = x
            user(s)  == [x \in Persons |-> IF x \in Range(Early[s]) THEN [NoUser EXCEPT !.id = id(s, x)] ELSE NoUser]
            match    == [x \in Persons |-> NoMatch]
            d(s)     == [user |-> user(s), match |-> match, checked |-> 0, changed |-> 0, requests |-> {}, next |-> 0,
                         mail |-> <<>>, tabs |-> {}, stuck |-> FALSE]
            p        == [stage |-> "idle", msgs |-> <<>>, asked |-> {}]
<1>1. ASSUME NEW s \in Servers
      PROVE  /\ \A x \in Persons : x \in Range(Early[s]) => id(s, x) \in Nat \ {0} /\ Early[s][id(s, x)] = x
             /\ user(s) \in [Persons -> User(0)]
             /\ \A x, y \in Persons : user(s)[x].id = user(s)[y].id /\ user(s)[x].id # 0 => x = y
             /\ \A x \in Persons : user(s)[x].at = 0
  <2>1. ASSUME NEW x \in Persons, x \in Range(Early[s])
        PROVE  id(s, x) \in Nat \ {0} /\ Early[s][id(s, x)] = x
    <3>1. Early[s] \in Seq(Persons)
      BY PersonsAssumption
    <3>2. \E i \in DOMAIN Early[s] : Early[s][i] = x
      BY <2>1 DEF Range
    <3>3. id(s, x) \in DOMAIN Early[s] /\ Early[s][id(s, x)] = x
      BY <3>2
    <3>. HIDE DEF id
    <3>4. DOMAIN Early[s] = 1..Len(Early[s])
      BY <3>1
    <3>. QED
      BY <3>1, <3>3, <3>4
  <2>. HIDE DEF id
  <2>2. \A x \in Persons : user(s)[x] = IF x \in Range(Early[s]) THEN [NoUser EXCEPT !.id = id(s, x)] ELSE NoUser
    OBVIOUS
  <2>4. user(s) = [x \in Persons |-> user(s)[x]]
    OBVIOUS
  <2>. HIDE DEF user
  <2>3. ASSUME NEW x \in Persons
        PROVE  /\ user(s)[x] \in User(0) /\ user(s)[x].at = 0
               /\ user(s)[x].id # 0 => x \in Range(Early[s]) /\ user(s)[x].id = id(s, x)
    <3>0. 0 \in 0..0
      OBVIOUS
    <3>1. CASE x \in Range(Early[s])
      <4>1. user(s)[x] = [id |-> id(s, x), info |-> 0, at |-> 0, pending |-> FALSE]
        BY <2>2, <3>1 DEF NoUser
      <4>2. id(s, x) \in Nat
        BY <2>1, <3>1
      <4>. QED
        BY <3>0, <3>1, <4>1, <4>2 DEF User
    <3>2. CASE x \notin Range(Early[s])
      <4>1. user(s)[x] = [id |-> 0, info |-> 0, at |-> 0, pending |-> FALSE]
        BY <2>2, <3>2 DEF NoUser
      <4>. QED
        BY <3>0, <4>1 DEF User
    <3>. QED
      BY <3>1, <3>2
  <2>5. user(s) \in [Persons -> User(0)]
    BY <2>3, <2>4
  <2>6. \A x, y \in Persons : user(s)[x].id = user(s)[y].id /\ user(s)[x].id # 0 => x = y
    <3>. SUFFICES ASSUME NEW x \in Persons, NEW y \in Persons, user(s)[x].id = user(s)[y].id, user(s)[x].id # 0
                  PROVE  x = y
      OBVIOUS
    <3>1. Early[s][id(s, x)] = x /\ Early[s][id(s, y)] = y /\ id(s, x) = id(s, y)
      BY <2>1, <2>3
    <3>. QED
      BY <3>1
  <2>. QED
    BY <2>1, <2>3, <2>5, <2>6
<1>2. match \in [Persons -> Match(0)]
  BY DEF NoMatch, Match
<1>3. db = [s \in Servers |-> d(s)]
  BY DEF Init
<1>. HIDE DEF user, match
<1>4. ASSUME NEW s \in Servers
      PROVE  DbOk(d(s), 0)
  <2>. DEFINE e == d(s)
  <2>1. e.user = user(s) /\ e.requests = {}
    OBVIOUS
  <2>2. <<>> \in Seq(Message(0))
    OBVIOUS
  <2>3. e \in Db(0)
    BY <1>1, <1>2, <2>2 DEF Db
  <2>. HIDE DEF e
  <2>4. Accounts(e)
    BY <1>1, <2>1 DEF Accounts
  <2>5. RequestsOk(e)
    BY <2>1 DEF RequestsOk
  <2>6. DbOk(e, 0)
    BY <2>3, <2>4, <2>5 DEF DbOk
  <2>. QED
    BY <2>6 DEF e
<1>. HIDE DEF d
<1>5. p \in PingAt(0) /\ \A s \in Servers : AskedOk(db[s], p.asked)
  <2>1. <<>> \in Seq(Message(0))
    OBVIOUS
  <2>. QED
    BY <2>1 DEF PingAt, AskedOk
<1>6. ping = [s \in Servers |-> p]
  BY DEF Init
<1>. HIDE DEF p
<1>7. \A s \in Servers : DbOk(db[s], 0) /\ PingOk(db[s], ping[s], 0)
  BY <1>3, <1>4, <1>5, <1>6 DEF PingOk
<1>8. db = [s \in Servers |-> db[s]] /\ ping = [s \in Servers |-> ping[s]]
  BY <1>3, <1>6
<1>9. profile \in [Persons -> Nat] /\ clock = 0 /\ losses = 0 /\ losses \in 0..MaxLosses /\ missed = {}
  BY BoundsAssumption DEF Init
<1>. QED
  BY <1>7, <1>8, <1>9 DEF TypeInv

\* The last message out of the box.
LEMMA EmptiedOk ==
  ASSUME NEW lim \in Nat, NEW d, DbOk(d, lim)
  PROVE  DbOk([d EXCEPT !.mail = <<>>], lim) /\ SameTimes(d, [d EXCEPT !.mail = <<>>])
<1>. DEFINE e == [d EXCEPT !.mail = <<>>]
<1>1. <<>> \in Seq(Message(lim))
  OBVIOUS
<1>2. e \in Db(lim) /\ e.user = d.user /\ e.requests = d.requests
  BY <1>1 DEF DbOk, Db
<1>. HIDE DEF e
<1>3. SameTimes(d, e)
  BY <1>2 DEF SameTimes
<1>4. DbOk(e, lim)
  BY <1>2, <1>3, KeepsOk
<1>. QED
  BY <1>3, <1>4 DEF e

SentDb(d)   == LET r == UsersRequest(d) IN WithOnline(IF r.users = {} THEN r.d ELSE Mailed(r.d, "users", r.users))

LEMMA SentOk ==
  ASSUME NEW lim \in Nat, NEW d, DbOk(d, lim)
  PROVE  DbOk(SentDb(d), lim) /\ SameTimes(d, SentDb(d)) /\ AskedOk(SentDb(d), UsersRequest(d).asked)
<1>. DEFINE r == UsersRequest(d)
            e == IF r.users = {} THEN r.d ELSE Mailed(r.d, "users", r.users)
<1>1. DbOk(r.d, lim) /\ SameTimes(d, r.d) /\ AskedOk(r.d, r.asked) /\ r.users \in SUBSET Item
  <2>1. r = UsersRequest(d)
    OBVIOUS
  <2>. HIDE DEF r
  <2>. QED  BY <2>1, UsersRequestOk
<1>. HIDE DEF r
<1>2. DbOk(e, lim) /\ SameTimes(r.d, e)
  <2>1. [type |-> "users", users |-> r.users] \in Message(lim)
    BY <1>1 DEF Message
  <2>. QED
    BY <1>1, <2>1, MailedOk DEF SameTimes
<1>. HIDE DEF e
<1>3. DbOk(WithOnline(e), lim) /\ SameTimes(e, WithOnline(e))
  BY <1>2, WithOnlineOk
<1>4. SentDb(d) = WithOnline(e)
  BY DEF SentDb, e, r
<1>5. SameTimes(d, SentDb(d))
  BY <1>1, <1>2, <1>3, <1>4 DEF SameTimes
<1>6. AskedOk(SentDb(d), r.asked)
  BY <1>1, <1>2, <1>3, <1>4 DEF AskedOk, SameTimes, Has
<1>. QED
  BY <1>3, <1>4, <1>5, <1>6 DEF r

LEMMA SendPingOk ==
  ASSUME TypeInv, NEW s \in Servers, SendPing(s)
  PROVE  TypeInv'
<1>. DEFINE d == SentDb(db[s])
            e == [d EXCEPT !.mail = <<>>]
            p == [stage |-> "request", msgs |-> d.mail, asked |-> UsersRequest(db[s]).asked]
<1>1. ping' = [ping EXCEPT ![s] = p] /\ db' = [db EXCEPT ![s] = e]
  BY DEF SendPing, SentDb
<1>2. DbOk(d, clock) /\ SameTimes(db[s], d) /\ AskedOk(d, UsersRequest(db[s]).asked)
  BY SentOk DEF TypeInv
<1>. HIDE DEF d
<1>3. DbOk(e, clock) /\ SameTimes(d, e)
  BY <1>2, EmptiedOk DEF TypeInv
<1>4. p \in PingAt(clock) /\ p.asked = UsersRequest(db[s]).asked
  BY <1>2 DEF PingAt, DbOk, Db, AskedOk
<1>. HIDE DEF e, p
<1>5. AskedOk(e, p.asked)
  BY <1>2, <1>3, <1>4 DEF AskedOk, SameTimes, Has
<1>6. db'[s] = e
  BY <1>1 DEF TypeInv
<1>7. \A x \in Persons : Has(db[s], x) => Has(e, x)
  BY <1>2, <1>3 DEF SameTimes, Has
<1>8. clock \in Nat /\ clock <= clock /\ clock' = clock
      /\ profile' \in [Persons -> Nat] /\ losses' \in 0..MaxLosses /\ missed' \in SUBSET Persons
  BY DEF SendPing, TypeInv
<1>9. AskedOk(db'[s], p.asked)
  BY <1>5, <1>6
<1>. QED
  BY <1>1, <1>3, <1>4, <1>7, <1>8, <1>9, StepOk

\* The clock ticks when somebody gets the new time, and no time is later than the clock.
LEMMA TickOk ==
  ASSUME TypeInv, NEW s \in Servers, NEW d, Dated(d, clock + 1), NEW e, DbOk(e, clock + 1), e.user = d.user,
         d \in Db(clock) => DbOk(e, clock), db' = [db EXCEPT ![s] = e], Ticked
  PROVE  clock' \in Nat /\ clock <= clock' /\ clock' <= clock + 1 /\ DbOk(e, clock')
<1>. clock \in Nat
  BY DEF TypeInv
<1>1. CASE \E t \in Servers, x \in Persons : db'[t].user[x].at > clock
  BY <1>1 DEF Ticked
<1>2. CASE ~ \E t \in Servers, x \in Persons : db'[t].user[x].at > clock
  <2>1. db'[s].user = d.user
    BY DEF TypeInv
  <2>2. \A x \in Persons : d.user[x].at # clock + 1
    BY <1>2, <2>1
  <2>3. clock + 1 - 1 = clock
    OBVIOUS
  <2>4. d \in Db(clock)
    BY <2>2, <2>3 DEF Dated
  <2>. QED
    BY <1>2, <2>4 DEF Ticked
<1>. QED
  BY <1>1, <1>2

LEMMA NowDated ==
  ASSUME TypeInv, NEW s \in Servers, NEW now, now = clock + 1
  PROVE  Dated(db[s], now) /\ ping[s].msgs \in Seq(Message(now - 1)) /\ now \in Nat \ {0}
<1>1. clock \in Nat /\ clock + 1 - 1 = clock /\ DbOk(db[s], clock)
  BY DEF TypeInv
<1>2. DbOk(db[s], clock + 1)
  BY <1>1, LaterDbOk
<1>3. ping[s].msgs \in Seq(Message(clock))
  BY DEF TypeInv, PingOk, PingAt
<1>. QED
  BY <1>1, <1>2, <1>3 DEF Dated, DbOk

LEMMA HandlePingOk ==
  ASSUME TypeInv, NEW s \in Servers, HandlePing(s)
  PROVE  TypeInv'
<1>. DEFINE o == Other(s)
<1>0. o \in Servers
  BY OtherOk
<1>. HIDE DEF o
<1>1. PICK again : \E d \in {Served(db[o], ping[s].msgs, again, clock + 1)} :
         /\ db' = [db EXCEPT ![o] = IF d.stuck THEN d ELSE [d EXCEPT !.mail = <<>>]]
         /\ ping' = [ping EXCEPT ![s].stage = "response", ![s].msgs = IF d.stuck THEN <<>> ELSE d.mail]
  BY DEF HandlePing, o
<1>. DEFINE d == Served(db[o], ping[s].msgs, again, clock + 1)
            e == IF d.stuck THEN d ELSE [d EXCEPT !.mail = <<>>]
            p == [ping[s] EXCEPT !.stage = "response", !.msgs = IF d.stuck THEN <<>> ELSE d.mail]
<1>2. db' = [db EXCEPT ![o] = e] /\ ping' = [ping EXCEPT ![s] = p]
  BY <1>1 DEF TypeInv
<1>3. Dated(d, clock + 1) /\ SameIds(db[o], d)
  <2>. DEFINE now == clock + 1
  <2>1. d = Served(db[o], ping[s].msgs, again, now) /\ now = clock + 1
    OBVIOUS
  <2>. HIDE DEF d, now
  <2>2. Dated(db[o], now) /\ ping[s].msgs \in Seq(Message(now - 1)) /\ now \in Nat \ {0}
    BY <1>0, <2>1, NowDated
  <2>3. Dated(d, now) /\ SameIds(db[o], d)
    BY <2>1, <2>2, ServedOk
  <2>. QED  BY <2>1, <2>3
<1>. HIDE DEF d
<1>4. clock \in Nat /\ DbOk(d, clock + 1)
  BY <1>3 DEF TypeInv, Dated
<1>5. DbOk(e, clock + 1) /\ e.user = d.user /\ (d \in Db(clock) => DbOk(e, clock))
  <2>1. CASE d.stuck
    BY <1>4, <2>1 DEF DbOk
  <2>2. CASE ~d.stuck
    <3>1. e.user = d.user
      BY <1>4, <2>2 DEF DbOk, Db
    <3>. QED
      BY <1>4, <2>2, <3>1, EmptiedOk DEF DbOk
  <2>. QED
    BY <2>1, <2>2
<1>6. Ticked
  BY DEF HandlePing
<1>. HIDE DEF e
<1>7. clock' \in Nat /\ clock <= clock' /\ clock' <= clock + 1 /\ DbOk(e, clock')
  BY <1>0, <1>2, <1>3, <1>5, <1>6, TickOk
<1>8. DbOk(d, clock')
  <2>1. clock' = clock + 1 \/ clock' = clock
    BY <1>4, <1>7
  <2>2. e.user = d.user
    BY <1>5
  <2>3. CASE clock' = clock + 1
    BY <1>4, <2>3
  <2>4. CASE clock' = clock
    <3>1. \A x \in Persons : e.user[x].at \in 0..clock
      BY <1>7, <2>4 DEF DbOk, Db, User
    <3>2. \A x \in Persons : d.user[x].at # clock + 1
      BY <1>4, <2>2, <3>1
    <3>3. d \in Db(clock + 1 - 1) /\ clock + 1 - 1 = clock
      BY <1>3, <1>4, <3>2 DEF Dated
    <3>. QED
      BY <1>4, <2>4, <3>3 DEF DbOk
  <2>. QED
    BY <2>1, <2>3, <2>4
<1>9. p \in PingAt(clock') /\ p.asked = ping[s].asked
  <2>1. ping[s] \in PingAt(clock)
    BY DEF TypeInv, PingOk
  <2>2. d.mail \in Seq(Message(clock')) /\ <<>> \in Seq(Message(clock'))
    BY <1>8 DEF DbOk, Db
  <2>. QED
    BY <2>1, <2>2 DEF PingAt
<1>10. \A x \in Persons : Has(db[o], x) => Has(e, x)
  BY <1>3, <1>5 DEF SameIds, Has
<1>11. AskedOk(db[s], p.asked)
  BY <1>9 DEF TypeInv, PingOk
<1>12. profile' \in [Persons -> Nat] /\ losses' \in 0..MaxLosses /\ missed' \in SUBSET Persons
  BY DEF HandlePing, TypeInv
<1>. HIDE DEF p
<1>. QED
  BY <1>0, <1>2, <1>7, <1>9, <1>10, <1>11, <1>12, StepOk

Idle == [stage |-> "idle", msgs |-> <<>>, asked |-> {}]

LEMMA IdleOk ==
  ASSUME NEW lim \in Nat, NEW d
  PROVE  Idle \in PingAt(lim) /\ AskedOk(d, Idle.asked)
<1>1. <<>> \in Seq(Message(lim))
  OBVIOUS
<1>. QED
  BY <1>1 DEF Idle, PingAt, AskedOk

LEMMA ReceivePingOk ==
  ASSUME TypeInv, NEW s \in Servers, ReceivePing(s)
  PROVE  TypeInv'
<1>1. PICK again : db' = [db EXCEPT ![s] = Read(db[s], ping[s].msgs, ping[s].asked, again, clock + 1)]
  BY DEF ReceivePing
<1>. DEFINE d == Read(db[s], ping[s].msgs, ping[s].asked, again, clock + 1)
<1>2. db' = [db EXCEPT ![s] = d] /\ ping' = [ping EXCEPT ![s] = Idle]
  BY <1>1 DEF ReceivePing, Idle
<1>3. Dated(d, clock + 1) /\ SameIds(db[s], d)
  <2>. DEFINE now == clock + 1
  <2>1. d = Read(db[s], ping[s].msgs, ping[s].asked, again, now) /\ now = clock + 1
    OBVIOUS
  <2>2. AskedOk(db[s], ping[s].asked)
    BY DEF TypeInv, PingOk
  <2>. HIDE DEF d, now
  <2>3. Dated(db[s], now) /\ ping[s].msgs \in Seq(Message(now - 1)) /\ now \in Nat \ {0}
    BY <2>1, NowDated
  <2>4. Dated(d, now) /\ SameIds(db[s], d)
    BY <2>1, <2>2, <2>3, ReadOk
  <2>. QED  BY <2>1, <2>4
<1>. HIDE DEF d
<1>4. DbOk(d, clock + 1) /\ (d \in Db(clock) => DbOk(d, clock))
  BY <1>3 DEF Dated, DbOk
<1>5. Ticked
  BY DEF ReceivePing
<1>6. clock' \in Nat /\ clock <= clock' /\ DbOk(d, clock')
  BY <1>2, <1>3, <1>4, <1>5, TickOk
<1>7. \A x \in Persons : Has(db[s], x) => Has(d, x)
  BY <1>3 DEF SameIds, Has
<1>8. profile' \in [Persons -> Nat] /\ losses' \in 0..MaxLosses /\ missed' \in SUBSET Persons
  BY DEF ReceivePing, TypeInv
<1>9. Idle \in PingAt(clock') /\ AskedOk(db[s], Idle.asked)
  BY <1>6, IdleOk
<1>. QED
  BY <1>2, <1>6, <1>7, <1>8, <1>9, StepOk

LEMMA LosePingOk ==
  ASSUME TypeInv, NEW s \in Servers, LosePing(s)
  PROVE  TypeInv'
<1>1. ping' = [ping EXCEPT ![s] = Idle] /\ UNCHANGED <<db, profile, clock, missed>>
  BY DEF LosePing, Idle
<1>2. db' = [db EXCEPT ![s] = db[s]]
  BY <1>1 DEF TypeInv
<1>3. losses' \in 0..MaxLosses
  BY BoundsAssumption DEF LosePing, TypeInv
<1>4. clock \in Nat /\ clock <= clock /\ DbOk(db[s], clock)
  BY DEF TypeInv
<1>5. Idle \in PingAt(clock) /\ AskedOk(db[s], Idle.asked)
  BY <1>4, IdleOk
<1>6. profile' \in [Persons -> Nat] /\ clock' = clock /\ missed' \in SUBSET Persons
  BY <1>1 DEF TypeInv
<1>. QED
  BY <1>1, <1>2, <1>3, <1>4, <1>5, <1>6, StepOk

\* A user gets an account, or what is known of the profile of a user changes.
LEMMA UserOk ==
  ASSUME TypeInv, NEW s \in Servers, NEW d, NEW now \in Nat, clock <= now, DbOk(d, now),
         \A x \in Persons : Has(db[s], x) => Has(d, x), db' = [db EXCEPT ![s] = d],
         clock' = now, missed' \in SUBSET Persons, UNCHANGED <<ping, profile, losses>>
  PROVE  TypeInv'
<1>1. ping' = [ping EXCEPT ![s] = ping[s]]
  BY DEF TypeInv
<1>2. ping[s] \in PingAt(now) /\ AskedOk(db[s], ping[s].asked)
  BY LaterPing DEF TypeInv, PingOk
<1>3. profile' \in [Persons -> Nat] /\ losses' \in 0..MaxLosses
  BY DEF TypeInv
<1>. QED
  BY <1>1, <1>2, <1>3, StepOk

LEMMA SignUpOk ==
  ASSUME TypeInv, NEW s \in Servers, NEW x \in Persons, SignUp(s, x)
  PROVE  TypeInv'
<1>. DEFINE d  == db[s]
            id == Max({d.user[y].id : y \in Persons})
            u  == [NoUser EXCEPT !.id = 1 + id, !.info = profile[x]]
            e  == [d EXCEPT !.user[x] = u]
<1>1. d \in Db(clock) /\ DbOk(d, clock) /\ clock \in Nat /\ profile[x] \in Nat
  BY DEF TypeInv, DbOk
<1>2. db' = [db EXCEPT ![s] = e]
  <2>2. db' = [db EXCEPT ![s].user[x] = u]
    BY DEF SignUp
  <2>. HIDE DEF u
  <2>. QED
    BY <2>2 DEF TypeInv
<1>3. id \in Nat /\ \A y \in Persons : d.user[y].id <= id
  <2>. DEFINE f == [y \in Persons |-> d.user[y].id]
              A == {f[y] : y \in Persons}
  <2>1. f \in [Persons -> Nat] /\ f[x] \in Nat /\ A \in SUBSET A
    BY <1>1 DEF Db, User
  <2>2. Max({f[x]} \union A) \in Nat /\ \A m \in A : Max({f[x]} \union A) >= m
    <3>. HIDE DEF f, d
    <3>. QED  BY <2>1, MaxOk
  <2>3. {f[x]} \union A = {d.user[y].id : y \in Persons}
    OBVIOUS
  <2>4. \A y \in Persons : d.user[y].id \in A
    OBVIOUS
  <2>. HIDE DEF f, A
  <2>. QED
    BY <2>2, <2>3, <2>4
<1>. HIDE DEF d, id
<1>4. u \in User(clock) /\ u.id = 1 + id /\ u.at = 0
  <2>. HIDE DEF d, id
  <2>1. NoUser \in User(clock) /\ NoUser.at = 0
    BY <1>1 DEF User, NoUser
  <2>2. 1 + id \in Nat /\ profile[x] \in Nat
    BY <1>1, <1>3
  <2>. QED
    BY <2>1, <2>2 DEF User
<1>. HIDE DEF u
<1>5. e \in Db(clock) /\ e.user = [d.user EXCEPT ![x] = u] /\ e.requests = d.requests
  BY <1>1, <1>4 DEF Db
<1>. HIDE DEF e
<1>6. d.user \in [Persons -> User(clock)] /\ u.id = 1 + id /\ u.at = 0
  BY <1>1, <1>4 DEF Db
<1>7. \A y \in Persons : e.user[y] = IF y = x THEN u ELSE d.user[y]
  BY <1>5, <1>6
<1>8. ~ Has(d, x) /\ d.user[x].id = 0
  BY <1>1 DEF SignUp, Has, Db, User, d
<1>9. Accounts(e)
  <2>1. \A y \in Persons : d.user[y].id \in Nat
    BY <1>6 DEF User
  <2>2. \A y, z \in Persons : e.user[y].id = e.user[z].id /\ e.user[y].id # 0 => y = z
    BY <1>1, <1>3, <1>6, <1>7, <2>1 DEF DbOk, Accounts
  <2>3. \A y \in Persons : e.user[y].id = 0 => e.user[y].at = 0
    BY <1>1, <1>6, <1>7 DEF DbOk, Accounts
  <2>. QED
    BY <2>2, <2>3 DEF Accounts
<1>10. \A y \in Persons : Has(d, y) => Has(e, y)
  BY <1>7, <1>8 DEF Has
<1>11. RequestsOk(e)
  BY <1>1, <1>5, <1>10 DEF DbOk, RequestsOk
<1>12. DbOk(e, clock)
  BY <1>5, <1>9, <1>11 DEF DbOk
<1>13. clock <= clock /\ clock' = clock /\ UNCHANGED <<ping, profile, losses>> /\ missed' \in SUBSET Persons
  BY <1>1 DEF SignUp, TypeInv
<1>14. \A y \in Persons : Has(db[s], y) => Has(e, y)
  BY <1>10 DEF d
<1>. QED
  BY <1>1, <1>2, <1>12, <1>13, <1>14, UserOk

\* What a server knows of the profile of a user with an account.
LEMMA ProfileOk ==
  ASSUME NEW lim \in Nat, NEW now \in Nat, lim <= now, NEW d, DbOk(d, lim), NEW x \in Persons, NEW u \in User(now),
         u.id = d.user[x].id, u.at = d.user[x].at \/ Has(d, x)
  PROVE  DbOk([d EXCEPT !.user[x] = u], now) /\ SameIds(d, [d EXCEPT !.user[x] = u])
<1>. DEFINE e == [d EXCEPT !.user[x] = u]
<1>1. DbOk(d, now) /\ d \in Db(now)
  BY LaterDbOk DEF DbOk
<1>2. e \in Db(now) /\ e.user = [d.user EXCEPT ![x] = u] /\ e.requests = d.requests
  BY <1>1 DEF Db
<1>. HIDE DEF e
<1>3. \A y \in Persons : e.user[y] = IF y = x THEN u ELSE d.user[y]
  BY <1>1, <1>2 DEF Db
<1>4. SameIds(d, e)
  BY <1>3 DEF SameIds
<1>5. Accounts(e)
  BY <1>1, <1>3 DEF Accounts, Has, DbOk
<1>6. RequestsOk(e)
  BY <1>1, <1>2, <1>4 DEF RequestsOk, Has, SameIds, DbOk
<1>. QED
  BY <1>2, <1>4, <1>5, <1>6 DEF DbOk, e

\* A profile that is downloaded has the time after the last one.
Downloaded(s, x) ==
  [db[s] EXCEPT !.user[x].info = profile[x], !.user[x].at = clock + 1, !.user[x].pending = FALSE]

DownloadedUser(s, x) ==
  [[[db[s].user[x] EXCEPT !.info = profile[x]] EXCEPT !.at = clock + 1] EXCEPT !.pending = FALSE]

LEMMA DownloadedIs ==
  ASSUME TypeInv, NEW s \in Servers, NEW x \in Persons
  PROVE  Downloaded(s, x) = [db[s] EXCEPT !.user[x] = DownloadedUser(s, x)]
<1>. DEFINE now == clock + 1
            c == db[s]
            u == DownloadedUser(s, x)
            c1 == [c EXCEPT !.user[x].info = profile[x]]
            c2 == [c1 EXCEPT !.user[x].at = now]
            c3 == [c2 EXCEPT !.user[x].pending = FALSE]
            u1 == [c.user[x] EXCEPT !.info = profile[x]]
            u2 == [u1 EXCEPT !.at = now]
            u3 == [u2 EXCEPT !.pending = FALSE]
<1>1. c.user[x] \in User(clock) /\ c \in Db(clock)
  BY DEF TypeInv, DbOk, Db
<1>2. c1 = [c EXCEPT !.user = [c.user EXCEPT ![x] = u1]] /\ c2 = [c1 EXCEPT !.user = [c1.user EXCEPT ![x] = [c1.user[x] EXCEPT !.at = now]]]
      /\ c3 = [c2 EXCEPT !.user = [c2.user EXCEPT ![x] = [c2.user[x] EXCEPT !.pending = FALSE]]]
  OBVIOUS
<1>. HIDE DEF c, u1, u2, u3, c1, c2, c3, u
<1>3. c1.user = [c.user EXCEPT ![x] = u1] /\ c1.user[x] = u1
  BY <1>1, <1>2 DEF Db
<1>4. c2 = [c EXCEPT !.user = [c.user EXCEPT ![x] = u2]] /\ c2.user = [c.user EXCEPT ![x] = u2] /\ c2.user[x] = u2
  BY <1>1, <1>2, <1>3 DEF Db, u2
<1>5. c3 = [c EXCEPT !.user = [c.user EXCEPT ![x] = u3]]
  BY <1>1, <1>2, <1>4 DEF Db, u3
<1>. QED
  BY <1>5 DEF c1, c2, c3, u3, u2, u1, u, Downloaded, DownloadedUser, c, now

LEMMA DownloadedOk ==
  ASSUME TypeInv, NEW s \in Servers, NEW x \in Persons, Has(db[s], x)
  PROVE  DbOk(Downloaded(s, x), clock + 1) /\ SameIds(db[s], Downloaded(s, x))
<1>. DEFINE now == clock + 1
            c == db[s]
            u == [[[c.user[x] EXCEPT !.info = profile[x]] EXCEPT !.at = now] EXCEPT !.pending = FALSE]
            d == [c EXCEPT !.user[x] = u]
<1>1. clock \in Nat /\ now \in Nat /\ clock <= now /\ DbOk(c, clock) /\ Has(c, x)
  BY DEF TypeInv
<1>2. u \in User(now) /\ u.id = c.user[x].id
  <2>1. c.user[x] \in User(now) /\ profile[x] \in Nat /\ now \in 0..now
    <3>1. DbOk(c, now)
      <4>. HIDE DEF c, now
      <4>. QED  BY <1>1, LaterDbOk
    <3>2. profile[x] \in Nat
      BY DEF TypeInv
    <3>. HIDE DEF c, now
    <3>. QED
      BY <1>1, <3>1, <3>2 DEF DbOk, Db
  <2>. HIDE DEF c, now
  <2>. QED
    BY <2>1 DEF User
<1>3. Downloaded(s, x) = d
  BY DownloadedIs DEF DownloadedUser
<1>4. DbOk(d, now) /\ SameIds(c, d)
  <2>. HIDE DEF u, c
  <2>. QED  BY <1>1, <1>2, ProfileOk
<1>. HIDE DEF d
<1>. QED
  BY <1>3, <1>4 DEF c, now

LEMMA DownloadOk ==
  ASSUME TypeInv, NEW s \in Servers, NEW x \in Persons, Download(s, x)
  PROVE  TypeInv'
<1>. DEFINE now == clock + 1
            d == Downloaded(s, x)
            e == IF Verified(d, x) THEN Told(d, {x}) ELSE d
<1>1. clock \in Nat /\ now \in Nat /\ clock <= now /\ Has(db[s], x)
  BY DEF TypeInv, Download
<1>2. DbOk(d, now) /\ SameIds(db[s], d)
  BY <1>1, DownloadedOk
<1>3. db' = [db EXCEPT ![s] = e]
  BY DEF Download, Downloaded
<1>. HIDE DEF d
<1>4. DbOk(e, now) /\ SameIds(d, e)
  BY <1>1, <1>2, ToldOk DEF SameIds, SameTimes
<1>. HIDE DEF e
<1>5. \A y \in Persons : Has(db[s], y) => Has(e, y)
  BY <1>2, <1>4 DEF SameIds, Has
<1>6. clock' = now /\ UNCHANGED <<ping, profile, losses>> /\ missed' \in SUBSET Persons
  BY DEF Download, TypeInv
<1>. HIDE DEF now
<1>. QED
  BY <1>1, <1>3, <1>4, <1>5, <1>6, UserOk

LEMMA LogInOk ==
  ASSUME TypeInv, NEW s \in Servers, NEW x \in Persons, LogIn(s, x)
  PROVE  TypeInv'
<1>. DEFINE u == [db[s].user[x] EXCEPT !.info = profile[x]]
            d == [db[s] EXCEPT !.user[x] = u]
<1>1. clock \in Nat /\ clock <= clock /\ DbOk(db[s], clock)
  BY DEF TypeInv
<1>2. u \in User(clock) /\ u.id = db[s].user[x].id /\ u.at = db[s].user[x].at
  <2>1. db[s].user[x] \in User(clock) /\ profile[x] \in Nat
    BY <1>1 DEF TypeInv, DbOk, Db
  <2>. QED
    BY <2>1 DEF User
<1>3. db' = [db EXCEPT ![s] = d]
  BY <1>1 DEF LogIn, TypeInv
<1>. HIDE DEF u
<1>4. DbOk(d, clock) /\ SameIds(db[s], d)
  BY <1>1, <1>2, ProfileOk
<1>. HIDE DEF d
<1>5. \A y \in Persons : Has(db[s], y) => Has(d, y)
  BY <1>4 DEF SameIds, Has
<1>6. clock' = clock /\ UNCHANGED <<ping, profile, losses>> /\ missed' \in SUBSET Persons
  BY DEF LogIn, TypeInv
<1>. QED
  BY <1>1, <1>3, <1>4, <1>5, <1>6, UserOk

LEMMA GiveUpOk ==
  ASSUME TypeInv, NEW s \in Servers, NEW x \in Persons, GiveUp(s, x)
  PROVE  TypeInv'
<1>. DEFINE u == [db[s].user[x] EXCEPT !.pending = FALSE]
            d == [db[s] EXCEPT !.user[x] = u]
<1>1. clock \in Nat /\ clock <= clock /\ DbOk(db[s], clock)
  BY DEF TypeInv
<1>2. u \in User(clock) /\ u.id = db[s].user[x].id /\ u.at = db[s].user[x].at
  <2>1. db[s].user[x] \in User(clock) /\ profile[x] \in Nat
    BY <1>1 DEF TypeInv, DbOk, Db
  <2>. QED
    BY <2>1 DEF User
<1>3. db' = [db EXCEPT ![s] = d]
  BY <1>1 DEF GiveUp, TypeInv
<1>. HIDE DEF u
<1>4. DbOk(d, clock) /\ SameIds(db[s], d)
  BY <1>1, <1>2, ProfileOk
<1>. HIDE DEF d
<1>5. \A y \in Persons : Has(db[s], y) => Has(d, y)
  BY <1>4 DEF SameIds, Has
<1>6. clock' = clock /\ UNCHANGED <<ping, profile, losses>> /\ missed' \in SUBSET Persons
  BY DEF GiveUp, TypeInv
<1>. QED
  BY <1>1, <1>3, <1>4, <1>5, <1>6, UserOk

LEMMA ChangeProfileOk ==
  ASSUME TypeInv, NEW x \in Persons, ChangeProfile(x)
  PROVE  TypeInv'
<1>1. profile' \in [Persons -> Nat]
  BY DEF ChangeProfile, TypeInv
<1>. QED
  BY <1>1 DEF ChangeProfile, TypeInv

LEMMA TypeInvHolds ==
  Spec => []TypeInv
<1>1. TypeInv /\ [Next]_vars => TypeInv'
  <2>. SUFFICES ASSUME TypeInv, [Next]_vars PROVE TypeInv'
    OBVIOUS
  <2>1. ASSUME NEW s \in Servers, PingNext(s)
        PROVE  TypeInv'
    BY <2>1, SendPingOk, HandlePingOk, ReceivePingOk, LosePingOk DEF PingNext
  <2>2. ASSUME NEW s \in Servers, NEW x \in Persons, UserNext(s, x)
        PROVE  TypeInv'
    BY <2>2, SignUpOk, DownloadOk, LogInOk, GiveUpOk DEF UserNext
  <2>3. ASSUME NEW x \in Persons, ChangeProfile(x)
        PROVE  TypeInv'
    BY <2>3, ChangeProfileOk
  <2>4. CASE UNCHANGED vars
    BY <2>4 DEF TypeInv, vars
  <2>. QED
    BY <2>1, <2>2, <2>3, <2>4 DEF Next
<1>. QED
  BY <1>1, InitOk, PTL DEF Spec

LEMMA InvTyped ==
  TypeInv => TypeOK
<1>. SUFFICES ASSUME TypeInv PROVE TypeOK
  OBVIOUS
<1>1. ASSUME NEW m \in Message(clock)
      PROVE  m.users \subseteq MessageUsers(m)
  <2>. clock \in Nat
    BY DEF TypeInv
  <2>1. CASE m.type = "users"
    <3>1. m.users \in SUBSET Item
      BY <2>1, Kinds
    <3>. QED
      BY <2>1, <3>1 DEF MessageUsers, Item, Sig
  <2>2. CASE m.type # "users"
    <3>1. m.users \in SUBSET Word(clock) /\ m.type \in {"online", "sha256"}
      BY <2>2, Kinds
    <3>2. MessageUsers(m) = [sig : SUBSET [who : Persons, info : Nat], pseudo : Nat, at : Nat]
      BY <2>2, <3>1 DEF MessageUsers
    <3>. QED
      BY <3>1, <3>2 DEF Word, Sig
  <2>. QED
    BY <2>1, <2>2
<1>2. ASSUME NEW s \in Servers
      PROVE  /\ ping[s].stage \in {"idle", "request", "response"}
             /\ ping[s].asked \subseteq [id : Nat \ {0}, who : Persons]
             /\ ping[s].msgs \in Seq(Message(clock)) /\ db[s].mail \in Seq(Message(clock))
             /\ db[s].user \in [Persons -> User(clock)] /\ db[s].match \in [Persons -> Match(clock)]
             /\ db[s].tabs \subseteq Persons /\ db[s].stuck \in BOOLEAN
  BY DEF TypeInv, PingOk, PingAt, DbOk, Db
<1>3. ASSUME NEW s \in Servers
      PROVE  \A m \in Range(ping[s].msgs) \union Range(db[s].mail) : m.users \subseteq MessageUsers(m)
  <2>. HIDE DEF Message
  <2>1. \A m \in Range(ping[s].msgs) : m \in Message(clock)
    BY <1>2 DEF Range
  <2>2. \A m \in Range(db[s].mail) : m \in Message(clock)
    BY <1>2 DEF Range
  <2>. QED
    BY <1>1, <2>1, <2>2
<1>4. ASSUME NEW s \in Servers, NEW r \in db[s].requests
      PROVE  r.id # 0 /\ Cardinality(r.who) = IF r.id > 0 THEN 1 ELSE 0
  <2>1. r \in Request /\ RequestsOk(db[s])
    BY DEF TypeInv, DbOk, Db
  <2>2. r.id \in Int \ {0}
    BY <2>1 DEF Request
  <2>3. CASE r.id > 0
    <3>1. PICK x : r.who = {x}
      BY <2>1, <2>3 DEF RequestsOk
    <3>. QED
      BY <2>2, <2>3, <3>1, FS_Singleton
  <2>4. CASE r.id < 0
    <3>1. r.who = {}
      BY <2>1, <2>4 DEF RequestsOk
    <3>. QED
      BY <2>2, <2>4, <3>1, FS_EmptySet
  <2>. QED
    BY <2>2, <2>3, <2>4
<1>5. \A s \in Servers : /\ db[s].user \in [Persons -> [id : Nat, info : Nat, at : 0..clock, pending : BOOLEAN]]
                         /\ db[s].match \in [Persons -> [verified : BOOLEAN, pseudo : Nat, remote : Nat,
                                                         remoteAt : 0..clock, sent : BOOLEAN]]
  BY <1>2 DEF User, Match
<1>6. profile \in [Persons -> Nat] /\ clock \in Nat /\ losses \in 0..MaxLosses /\ missed \subseteq Persons
  BY DEF TypeInv
<1>. QED
  BY <1>2, <1>3, <1>4, <1>5, <1>6 DEF TypeOK

\* Whatever the servers tell each other, everything they note is of its kind, no time is later
\* than the last change, and only the server that asked knows about whom it asked, for any
\* servers, users and messages (server_users, server_user_requests).
THEOREM TypeCorrect ==
  Spec => []TypeOK
BY TypeInvHolds, InvTyped, PTL

----------------------------------------------------------------------------
\* Pseudo user ids.  A server is given a book: the person it meant by each id that it has used.

Says(b, i, x) == i \in DOMAIN b /\ b[i] = x
Book(b, n)    == b = [i \in 1..n |-> b[i]]
Extends(b, c) == \A i \in DOMAIN b : i \in DOMAIN c /\ c[i] = b[i]

\* What a server has in its tables, when b is its book and c the one of the other server.
MatchSays(match, b, c) ==
  \A x \in Persons : /\ match[x].pseudo # 0 => Says(b, match[x].pseudo, x)
                     /\ match[x].remote # 0 => Says(c, match[x].remote, x)
RequestsSay(requests, b, c) ==
  \A r \in requests : /\ r.id > 0 => \A x \in r.who : Says(b, r.id, x)
                      /\ r.id < 0 => \A w \in r.sig : Says(c, -r.id, w.who)
BookOk(d, b, c) == Book(b, d.next) /\ MatchSays(d.match, b, c) /\ RequestsSay(d.requests, b, c)

\* Questions in a ping and in a response of the server with the book b.
PutBy(users, b)     == \A u \in users : u.id > 0 => \A w \in u.sig : Says(b, u.id, w.who)
ReplyBy(users, b)   == \A u \in users : u.id < 0 => \A w \in u.sig : Says(b, -u.id, w.who)
RequestsBy(msgs, b) == \A i \in DOMAIN msgs : msgs[i].type = "users" => PutBy(msgs[i].users, b)
RepliesBy(msgs, b)  == \A i \in DOMAIN msgs : msgs[i].type = "users" => ReplyBy(msgs[i].users, b)
NoUsersIn(msgs)     == \A i \in DOMAIN msgs : msgs[i].type # "users"
AskedBy(asked, b)   == \A q \in asked : Says(b, q.id, q.who)

\* What has to do with pseudo ids stays, and no users message is mailed.
SameUsersIn(m, n)   == \A i \in DOMAIN n : n[i].type = "users" => i \in DOMAIN m /\ m[i] = n[i]
SameMatch(match, other) ==
  \A x \in Persons : other[x].pseudo = match[x].pseudo /\ other[x].remote = match[x].remote
Frame(d, e) ==
  e.next = d.next /\ e.requests = d.requests /\ SameMatch(d.match, e.match) /\ SameUsersIn(d.mail, e.mail)

LEMMA FrameChain ==
  ASSUME NEW c, NEW d, NEW e, Frame(c, d), Frame(d, e)
  PROVE  Frame(c, e)
<1>1. SameMatch(c.match, e.match)
  BY DEF Frame, SameMatch
<1>2. SameUsersIn(c.mail, e.mail)
  BY DEF Frame, SameUsersIn
<1>. QED
  BY <1>1, <1>2 DEF Frame

LEMMA FrameBook ==
  ASSUME NEW d, NEW e, Frame(d, e), NEW b, NEW c, BookOk(d, b, c)
  PROVE  BookOk(e, b, c) /\ (RepliesBy(d.mail, b) => RepliesBy(e.mail, b)) /\ (NoUsersIn(d.mail) => NoUsersIn(e.mail))
<1>1. MatchSays(e.match, b, c)
  BY DEF BookOk, Frame, MatchSays, SameMatch
<1>2. BookOk(e, b, c)
  BY <1>1 DEF BookOk, Frame
<1>3. RepliesBy(d.mail, b) => RepliesBy(e.mail, b)
  BY DEF Frame, SameUsersIn, RepliesBy
<1>4. NoUsersIn(d.mail) => NoUsersIn(e.mail)
  BY DEF Frame, SameUsersIn, NoUsersIn
<1>. QED
  BY <1>2, <1>3, <1>4

LEMMA MailedFrame ==
  ASSUME NEW lim, NEW d \in Db(lim), NEW type, type # "users", NEW users
  PROVE  Frame(d, Mailed(d, type, users)) /\ Mailed(d, type, users).stuck = d.stuck
         /\ Mailed(d, type, users).match = d.match
<1>. DEFINE m == [type |-> type, users |-> users]
            e == Mailed(d, type, users)
<1>1. e = [d EXCEPT !.mail = Append(@, m)]
  BY DEF Mailed
<1>2. e.next = d.next /\ e.requests = d.requests /\ e.match = d.match /\ e.stuck = d.stuck /\ e.mail = Append(d.mail, m)
  BY <1>1 DEF Db
<1>3. d.mail \in Seq(Message(lim)) /\ m.type # "users"
  BY DEF Db
<1>. HIDE DEF e, m, Message
<1>4. SameUsersIn(d.mail, Append(d.mail, m))
  BY <1>3 DEF SameUsersIn
<1>5. Frame(d, e)
  BY <1>2, <1>4 DEF Frame, SameMatch
<1>. QED
  BY <1>2, <1>5 DEF e

LEMMA WithOnlineFrame ==
  ASSUME NEW lim, NEW d \in Db(lim)
  PROVE  Frame(d, WithOnline(d)) /\ WithOnline(d).stuck = d.stuck
<1>1. CASE OnlineUsers(d) = {}
  BY <1>1 DEF WithOnline, Frame, SameMatch, SameUsersIn
<1>2. CASE OnlineUsers(d) # {}
  <2>1. WithOnline(d) = Mailed(d, "online", OnlineUsers(d)) /\ "online" # "users"
    BY <1>2 DEF WithOnline
  <2>. QED
    BY <2>1, MailedFrame
<1>. QED
  BY <1>1, <1>2

LEMMA ToldFrame ==
  ASSUME NEW lim, NEW d \in Db(lim), NEW X
  PROVE  Frame(d, Told(d, X)) /\ Told(d, X).stuck = d.stuck
<1>1. CASE X = {}
  BY <1>1 DEF Told, Frame, SameMatch, SameUsersIn
<1>2. CASE X # {}
  <2>. DEFINE users == {Described(d, x) : x \in X}
              e     == Mailed(d, "sha256", users)
              match == [x \in Persons |-> IF x \in X THEN [e.match[x] EXCEPT !.sent = TRUE] ELSE e.match[x]]
              f     == Told(d, X)
  <2>1. f = [e EXCEPT !.match = match]
    BY <1>2 DEF Told
  <2>2. Frame(d, e) /\ e.stuck = d.stuck /\ e.match = d.match
    <3>1. "sha256" # "users"
      OBVIOUS
    <3>. HIDE DEF users
    <3>. QED  BY <3>1, MailedFrame
  <2>3. \A x \in Persons : match[x].pseudo = e.match[x].pseudo /\ match[x].remote = e.match[x].remote
    BY <2>2 DEF Db, Match
  <2>4. f.match = match /\ f.next = e.next /\ f.requests = e.requests /\ f.stuck = e.stuck /\ f.mail = e.mail
    <3>1. e = [d EXCEPT !.mail = Append(@, [type |-> "sha256", users |-> users])]
      BY DEF Mailed
    <3>. HIDE DEF users, match, f
    <3>2. DOMAIN e = DOMAIN d
      BY <3>1 DEF Db
    <3>. HIDE DEF e
    <3>. QED  BY <2>1, <3>2 DEF Db
  <2>. HIDE DEF e, f, match
  <2>5. Frame(e, f)
    BY <2>3, <2>4 DEF Frame, SameMatch, SameUsersIn
  <2>6. Frame(d, f)
    BY <2>2, <2>5, FrameChain
  <2>. QED
    BY <2>2, <2>4, <2>6 DEF f
<1>. QED
  BY <1>1, <1>2

LEMMA WordsFrame ==
  ASSUME NEW lim, NEW d \in Db(lim), NEW users
  PROVE  Frame(d, ReceiveOnline(d, users)) /\ Frame(d, ReceiveSha256(d, users))
<1>. DEFINE e == ReceiveOnline(d, users)
            f == ReceiveSha256(d, users)
            match == [x \in Persons |-> IF Newer(d, users, x) = {} THEN d.match[x]
                        ELSE [d.match[x] EXCEPT !.remoteAt = Max({g.at : g \in Newer(d, users, x)})]]
<1>1. e.next = d.next /\ e.requests = d.requests /\ e.match = d.match /\ e.mail = d.mail
  BY DEF ReceiveOnline, Db
<1>2. f.next = d.next /\ f.requests = d.requests /\ f.mail = d.mail
  BY DEF ReceiveSha256, Db
<1>3. f.match = match
  BY DEF ReceiveSha256, Db
<1>4. \A x \in Persons : match[x].pseudo = d.match[x].pseudo /\ match[x].remote = d.match[x].remote
  BY DEF Db, Match
<1>. HIDE DEF e, f, match
<1>5. Frame(d, e) /\ Frame(d, f)
  BY <1>1, <1>2, <1>3, <1>4 DEF Frame, SameMatch, SameUsersIn
<1>. QED
  BY <1>5 DEF e, f

LEMMA LaterBook ==
  ASSUME NEW b, NEW b2, Extends(b, b2)
  PROVE  /\ \A i, x : Says(b, i, x) => Says(b2, i, x)
         /\ \A asked : AskedBy(asked, b) => AskedBy(asked, b2)
         /\ \A users : (PutBy(users, b) => PutBy(users, b2)) /\ (ReplyBy(users, b) => ReplyBy(users, b2))
         /\ \A msgs : (RequestsBy(msgs, b) => RequestsBy(msgs, b2)) /\ (RepliesBy(msgs, b) => RepliesBy(msgs, b2))
<1>1. \A i, x : Says(b, i, x) => Says(b2, i, x)
  BY DEF Extends, Says
<1>2. \A users : (PutBy(users, b) => PutBy(users, b2)) /\ (ReplyBy(users, b) => ReplyBy(users, b2))
  BY <1>1 DEF PutBy, ReplyBy
<1>3. \A msgs : (RequestsBy(msgs, b) => RequestsBy(msgs, b2)) /\ (RepliesBy(msgs, b) => RepliesBy(msgs, b2))
  BY <1>2 DEF RequestsBy, RepliesBy
<1>. QED
  BY <1>1, <1>2, <1>3 DEF AskedBy

LEMMA LaterBooks ==
  ASSUME NEW d, NEW b, NEW c, BookOk(d, b, c), NEW c2, Extends(c, c2)
  PROVE  BookOk(d, b, c2)
<1>1. \A i, x : Says(c, i, x) => Says(c2, i, x)
  BY LaterBook
<1>. QED
  BY <1>1 DEF BookOk, MatchSays, RequestsSay

\* Questions go into the book: those about a matched user are there already.
LEMMA NewBook ==
  ASSUME NEW lim \in Nat, NEW d, DbOk(d, lim), NEW b, NEW c, BookOk(d, b, c)
  PROVE  \E b2 : Book(b2, d.next + Cardinality(Fresh(d))) /\ Extends(b, b2) /\ AskedBy(Questions(d), b2)
<1>. DEFINE n  == d.next + Cardinality(Fresh(d))
            b2 == [i \in 1..n |-> IF i <= d.next THEN b[i] ELSE CHOOSE x \in Fresh(d) : PseudoId(d, x) = i]
<1>1. /\ Fresh(d) \in SUBSET Persons /\ d.next \in Nat /\ n \in Nat /\ d.next <= n
      /\ \A x \in Fresh(d) : PseudoId(d, x) \in (d.next + 1)..n
      /\ \A x, y \in Fresh(d) : PseudoId(d, x) = PseudoId(d, y) => x = y
      /\ \A x \in Asked(d) \ Fresh(d) : PseudoId(d, x) = d.match[x].pseudo /\ d.match[x].pseudo \in Nat \ {0}
  BY FreshIds
<1>2. b = [i \in 1..d.next |-> b[i]] /\ MatchSays(d.match, b, c)
  BY DEF BookOk, Book
<1>. HIDE DEF n
<1>3. Book(b2, n)
  BY DEF Book
<1>4. Extends(b, b2)
  BY <1>1, <1>2 DEF Extends
<1>5. ASSUME NEW x \in Asked(d)
      PROVE  Says(b2, PseudoId(d, x), x)
  <2>1. CASE x \in Fresh(d)
    <3>1. PseudoId(d, x) \in 1..n /\ ~ (PseudoId(d, x) <= d.next)
      BY <1>1, <2>1
    <3>2. (CHOOSE y \in Fresh(d) : PseudoId(d, y) = PseudoId(d, x)) = x
      BY <1>1, <2>1
    <3>. QED
      BY <3>1, <3>2 DEF Says
  <2>2. CASE x \notin Fresh(d)
    <3>1. x \in Persons
      BY AskedHas
    <3>2. PseudoId(d, x) = d.match[x].pseudo /\ d.match[x].pseudo # 0
      BY <1>1, <2>2
    <3>3. Says(b, PseudoId(d, x), x)
      BY <1>2, <3>1, <3>2 DEF MatchSays
    <3>. HIDE DEF b2
    <3>. QED
      BY <1>4, <3>3, LaterBook
  <2>. QED
    BY <2>1, <2>2
<1>. HIDE DEF b2
<1>6. AskedBy(Questions(d), b2)
  BY <1>5 DEF AskedBy, Questions
<1>. QED
  BY <1>3, <1>4, <1>6 DEF n

\* A signature that is found is the one of the user it was asked about.
LEMMA NotedBook ==
  ASSUME NEW lim \in Nat, NEW d, DbOk(d, lim), NEW b, NEW c, BookOk(d, b, c),
         NEW asked, \A u \in asked : u.id \in Nat \ {0}, PutBy(asked, c)
  PROVE  MatchSays(Noted(d, asked).match, b, c)
<1>. DEFINE e == Noted(d, asked)
<1>1. \A x \in Persons :
        /\ e.match[x] = [d.match[x] EXCEPT !.remote = e.match[x].remote]
        /\ \/ e.match[x].remote = d.match[x].remote
           \/ \E u \in asked : x \in Matches(d, u.sig) /\ e.match[x].remote = u.id
  BY NotedOk
<1>. HIDE DEF e
<1>2. ASSUME NEW x \in Persons
      PROVE  /\ e.match[x].pseudo # 0 => Says(b, e.match[x].pseudo, x)
             /\ e.match[x].remote # 0 => Says(c, e.match[x].remote, x)
  <2>1. /\ d.match[x].pseudo # 0 => Says(b, d.match[x].pseudo, x)
        /\ d.match[x].remote # 0 => Says(c, d.match[x].remote, x)
        /\ d.match[x] \in Match(lim)
    BY DEF BookOk, MatchSays, DbOk, Db
  <2>2. e.match[x].pseudo = d.match[x].pseudo
    BY <1>1, <2>1 DEF Match
  <2>3. ASSUME NEW u \in asked, x \in Matches(d, u.sig)
        PROVE  Says(c, u.id, x)
    <3>1. u.sig = {[who |-> x, info |-> d.user[x].info]}
      BY <2>3, MatchIsSame
    <3>2. [who |-> x, info |-> d.user[x].info] \in u.sig /\ u.id > 0
      BY <3>1
    <3>. QED
      BY <3>2 DEF PutBy
  <2>. QED
    BY <1>1, <2>1, <2>2, <2>3
<1>. QED
  BY <1>2 DEF MatchSays, e

LEMMA VerifiedBook ==
  ASSUME NEW lim, NEW d \in Db(lim), NEW b, NEW c, MatchSays(d.match, b, c),
         NEW questions, AskedBy(questions, b), NEW answers, NEW match, Verifies(d, match, questions, answers)
  PROVE  MatchSays(match, b, c)
<1>. SUFFICES ASSUME NEW x \in Persons
              PROVE  /\ match[x].pseudo # 0 => Says(b, match[x].pseudo, x)
                     /\ match[x].remote # 0 => Says(c, match[x].remote, x)
  BY DEF MatchSays
<1>1. /\ d.match[x].pseudo # 0 => Says(b, d.match[x].pseudo, x)
      /\ d.match[x].remote # 0 => Says(c, d.match[x].remote, x)
      /\ d.match[x] \in Match(lim)
  BY DEF MatchSays, Db
<1>2. CASE match[x] = d.match[x]
  BY <1>1, <1>2
<1>3. ASSUME NEW q \in questions, q.who = x, match[x] = [d.match[x] EXCEPT !.verified = TRUE, !.pseudo = q.id]
      PROVE  /\ match[x].pseudo # 0 => Says(b, match[x].pseudo, x)
             /\ match[x].remote # 0 => Says(c, match[x].remote, x)
  <2>1. match[x].pseudo = q.id /\ match[x].remote = d.match[x].remote
    BY <1>1, <1>3 DEF Match
  <2>. QED
    BY <1>1, <1>3, <2>1 DEF AskedBy
<1>. QED
  BY <1>2, <1>3 DEF Verifies

\* The questions and answers of a response.
LEMMA ResponseBook ==
  ASSUME NEW now \in Nat \ {0}, NEW d, Dated(d, now), NEW b, NEW c, BookOk(d, b, c), NEW asked, AskedOk(d, asked),
         AskedBy(asked, b), NEW users \in SUBSET Item, ReplyBy(users, c), NEW e, e = ReceiveUsersResponse(d, users, asked, now)
  PROVE  BookOk(e, b, c) /\ e.mail = d.mail
<1>1. /\ e.next = d.next /\ e.mail = d.mail
      /\ Verifies(d, e.match, asked, AnswersIn(users)) /\ Keeps(d, e, users)
  BY ReceiveUsersResponseOk
<1>2. MatchSays(e.match, b, c)
  <2>1. d \in Db(now) /\ MatchSays(d.match, b, c)
    BY DEF Dated, DbOk, BookOk
  <2>. QED
    BY <1>1, <2>1, VerifiedBook
<1>3. RequestsSay(e.requests, b, c)
  <2>. SUFFICES ASSUME NEW r \in e.requests
                PROVE  /\ r.id > 0 => \A x \in r.who : Says(b, r.id, x)
                       /\ r.id < 0 => \A w \in r.sig : Says(c, -r.id, w.who)
    BY DEF RequestsSay
  <2>1. CASE r \in d.requests
    BY <2>1 DEF BookOk, RequestsSay
  <2>2. ASSUME NEW u \in users, u.id < 0, r = [id |-> u.id, sig |-> u.sig, who |-> {}]
        PROVE  /\ r.id > 0 => \A x \in r.who : Says(b, r.id, x)
               /\ r.id < 0 => \A w \in r.sig : Says(c, -r.id, w.who)
    BY <2>2 DEF ReplyBy
  <2>. QED
    BY <1>1, <2>1, <2>2 DEF Keeps
<1>. QED
  BY <1>1, <1>2, <1>3 DEF BookOk

\* Answers have the signs of the questions, so that nobody takes an answer for a question.
LEMMA RepliedBook ==
  ASSUME NEW lim \in Nat, NEW d, DbOk(d, lim), NEW b, NEW c, BookOk(d, b, c), RepliesBy(d.mail, b),
         NEW theirs \in SUBSET Item, \A u \in theirs : u.id > 0, NEW e, e = Replied(d, theirs)
  PROVE  \E b2 : Extends(b, b2) /\ BookOk(e, b2, c) /\ RepliesBy(e.mail, b2)
<1>1. /\ e.match = d.match /\ e.next = d.next + Cardinality(Fresh(d))
      /\ e.requests = KeptQuestions(d) /\ e.mail = Append(d.mail, Reply(d, theirs))
  BY RepliedOk
<1>2. PICK b2 : Book(b2, d.next + Cardinality(Fresh(d))) /\ Extends(b, b2) /\ AskedBy(Questions(d), b2)
  BY NewBook
<1>3. MatchSays(e.match, b2, c)
  <2>1. \A i, x : Says(b, i, x) => Says(b2, i, x)
    BY <1>2, LaterBook
  <2>. QED
    BY <1>1, <2>1 DEF BookOk, MatchSays
<1>4. \A q \in Questions(d) : q.id \in Nat \ {0}
  BY QuestionsOk DEF AskedOk
<1>5. RequestsSay(e.requests, b2, c)
  BY <1>1, <1>2, <1>4 DEF RequestsSay, KeptQuestions, AskedBy
<1>6. ReplyBy(Reply(d, theirs).users, b2)
  <2>. SUFFICES ASSUME NEW u \in Reply(d, theirs).users, u.id < 0, NEW w \in u.sig
                PROVE  Says(b2, -u.id, w.who)
    BY DEF ReplyBy
  <2>1. u \notin Answered(d, theirs, 1)
    BY DEF Answered, Item
  <2>2. PICK q \in Questions(d) : u = [id |-> -q.id, sig |-> Signature(d, q.who)]
    BY <2>1 DEF Reply, PutQuestions
  <2>3. w.who = q.who /\ -u.id = q.id
    BY <1>4, <2>2 DEF Signature
  <2>. QED
    BY <1>2, <2>3 DEF AskedBy
<1>7. RepliesBy(e.mail, b2)
  <2>. DEFINE m == Reply(d, theirs)
  <2>1. RepliesBy(d.mail, b2) /\ d.mail \in Seq(Message(lim))
    BY <1>2, LaterBook DEF DbOk, Db
  <2>2. ReplyBy(m.users, b2) /\ e.mail = Append(d.mail, m)
    BY <1>1, <1>6
  <2>. HIDE DEF m, Message
  <2>. QED
    BY <2>1, <2>2 DEF RepliesBy
<1>. QED
  BY <1>1, <1>2, <1>3, <1>5, <1>7 DEF BookOk

\* A server that answers messages: unless it is stuck its mail has only replies.
Serving(d, b, c) == BookOk(d, b, c) /\ (d.stuck \/ RepliesBy(d.mail, b))
ServingLater(e, b, c) == \E b2 : Extends(b, b2) /\ Serving(e, b2, c)

LEMMA ExtendsOk ==
  /\ \A b : Extends(b, b)
  /\ \A b, b2, b3 : Extends(b, b2) /\ Extends(b2, b3) => Extends(b, b3)
BY DEF Extends

LEMMA UsersRequestBook ==
  ASSUME NEW now \in Nat \ {0}, NEW d, Dated(d, now), NEW b, NEW c, BookOk(d, b, c), RepliesBy(d.mail, b),
         NEW users \in SUBSET Item, PutBy(users, c), NEW e, e = ReceiveUsersRequest(d, users, now)
  PROVE  ServingLater(e, b, c)
<1>. DEFINE theirs  == {u \in users : u.id > 0}
            answers == {[id |-> -u.id, sig |-> u.sig] : u \in users \ theirs}
            mine    == {[id |-> r.id, who |-> CHOOSE x \in r.who : TRUE] : r \in {q \in d.requests : q.id > 0}}
            f == Noted(d, theirs)
            g == Compared(f, mine, answers, now)
<1>1. AskedOk(d, mine) /\ AskedBy(mine, b)
  <2>. SUFFICES ASSUME NEW r \in d.requests, r.id > 0
                PROVE  /\ r.id \in Nat \ {0} /\ (CHOOSE x \in r.who : TRUE) \in Persons /\ Has(d, CHOOSE x \in r.who : TRUE)
                       /\ Says(b, r.id, CHOOSE x \in r.who : TRUE)
    BY DEF AskedOk, AskedBy
  <2>1. PICK x \in Persons : r.who = {x} /\ Has(d, x)
    BY DEF Dated, DbOk, RequestsOk
  <2>2. (CHOOSE y \in r.who : TRUE) = x
    BY <2>1
  <2>3. r.id \in Nat \ {0}
    BY DEF Dated, DbOk, Db, Request
  <2>4. Says(b, r.id, x)
    BY <2>1 DEF BookOk, RequestsSay
  <2>. QED
    BY <2>1, <2>2, <2>3, <2>4
<1>2. theirs \in SUBSET Item /\ (\A u \in theirs : u.id \in Nat \ {0}) /\ PutBy(theirs, c)
  BY DEF Item, PutBy
<1>. HIDE DEF theirs
<1>14. DbOk(d, now) /\ d \in Db(now)
  BY DEF Dated, DbOk
<1>3. DbOk(f, now) /\ SameTimes(d, f) /\ f = [d EXCEPT !.match = f.match]
  BY <1>2, <1>14, NotedOk
<1>15. MatchSays(f.match, b, c)
  BY <1>2, <1>14, NotedBook
<1>4. d \in Db(now - 1) => f \in Db(now - 1)
  <2>. SUFFICES ASSUME d \in Db(now - 1) PROVE f \in Db(now - 1)
    OBVIOUS
  <2>1. DbOk(d, now - 1)
    BY DEF Dated, DbOk
  <2>. QED
    BY <1>2, <2>1, NotedOk DEF DbOk
<1>. HIDE DEF f
<1>5. Dated(f, now)
  BY <1>3, <1>4, DatedOk DEF DbOk
<1>6. f.next = d.next /\ f.requests = d.requests /\ f.mail = d.mail
  BY <1>3, <1>14 DEF Db
<1>7. BookOk(f, b, c)
  BY <1>15, <1>6 DEF BookOk
<1>8. AskedOk(f, mine)
  <2>. HIDE DEF mine
  <2>. QED  BY <1>1, <1>3 DEF AskedOk, SameTimes, Has
<1>9. Dated(g, now) /\ SameRest(f, g) /\ Verifies(f, g.match, mine, answers)
  <2>1. g = Compared(f, mine, answers, now)
    OBVIOUS
  <2>. HIDE DEF g, mine, answers
  <2>. QED  BY <1>5, <1>8, <2>1, ComparedOk
<1>10. e = Replied(g, theirs)
  BY DEF ReceiveUsersRequest, With, theirs, f
<1>. HIDE DEF g, mine, answers
<1>11. MatchSays(g.match, b, c)
  <2>1. f \in Db(now) /\ MatchSays(f.match, b, c)
    BY <1>3, <1>7 DEF DbOk, BookOk
  <2>. QED
    BY <1>1, <1>9, <2>1, VerifiedBook
<1>12. BookOk(g, b, c) /\ g.mail = d.mail
  BY <1>6, <1>7, <1>9, <1>11 DEF BookOk, SameRest
<1>13. DbOk(g, now) /\ \A u \in theirs : u.id > 0
  BY <1>2, <1>9 DEF Dated
<1>16. \E b2 : Extends(b, b2) /\ BookOk(e, b2, c) /\ RepliesBy(e.mail, b2)
  BY <1>2, <1>10, <1>12, <1>13, RepliedBook
<1>. QED
  BY <1>16 DEF ServingLater, Serving

LEMMA FrameServing ==
  ASSUME NEW d, NEW e, Frame(d, e), NEW b, NEW c, Serving(d, b, c), ~d.stuck
  PROVE  Serving(e, b, c) /\ ServingLater(e, b, c)
BY FrameBook, ExtendsOk DEF Serving, ServingLater

LEMMA RequestBook ==
  ASSUME NEW now \in Nat \ {0}, NEW d, Dated(d, now), NEW b, NEW c, Serving(d, b, c),
         NEW m \in Message(now - 1), m.type = "users" => PutBy(m.users, c), NEW e, e = ReceiveRequest(d, m, now)
  PROVE  ServingLater(e, b, c)
<1>. d \in Db(now)
  BY DEF Dated, DbOk
<1>1. CASE d.stuck
  BY <1>1, ExtendsOk DEF ReceiveRequest, ServingLater
<1>2. CASE ~d.stuck /\ m.type = "users"
  <2>1. m.users \in SUBSET Item /\ e = ReceiveUsersRequest(d, m.users, now)
    BY <1>2, Kinds DEF ReceiveRequest
  <2>2. BookOk(d, b, c) /\ RepliesBy(d.mail, b)
    BY <1>2 DEF Serving
  <2>. QED
    BY <1>2, <2>1, <2>2, UsersRequestBook
<1>3. CASE ~d.stuck /\ m.type = "online"
  <2>. DEFINE f == ReceiveOnline(d, m.users)
  <2>1. e = WithOnline(f)
    BY <1>3 DEF ReceiveRequest
  <2>2. m.users \in SUBSET Word(now - 1) /\ "online" # "users"
    BY <1>3, Kinds
  <2>3. Dated(f, now)
    BY <2>2, WordsOk
  <2>4. Frame(d, f)
    BY WordsFrame
  <2>. HIDE DEF f
  <2>5. f \in Db(now)
    BY <2>3 DEF Dated, DbOk
  <2>6. Frame(f, e)
    BY <2>1, <2>5, WithOnlineFrame
  <2>7. Frame(d, e)
    BY <2>4, <2>6, FrameChain
  <2>. QED
    BY <1>3, <2>7, FrameServing
<1>4. CASE ~d.stuck /\ m.type = "sha256"
  <2>1. e = ReceiveSha256(d, m.users)
    BY <1>4 DEF ReceiveRequest
  <2>2. Frame(d, e)
    BY <2>1, WordsFrame
  <2>. QED
    BY <1>4, <2>2, FrameServing
<1>. QED
  BY <1>1, <1>2, <1>3, <1>4, Kinds

LEMMA ResponseMessageBook ==
  ASSUME NEW now \in Nat \ {0}, NEW d, Dated(d, now), NEW b, NEW c, BookOk(d, b, c), NEW asked, AskedOk(d, asked),
         AskedBy(asked, b), NEW m \in Message(now - 1), m.type = "users" => ReplyBy(m.users, c),
         NEW e, e = ReceiveResponse(d, m, asked, now)
  PROVE  BookOk(e, b, c) /\ SameUsersIn(d.mail, e.mail)
<1>. d \in Db(now)
  BY DEF Dated, DbOk
<1>1. CASE d.stuck
  BY <1>1 DEF ReceiveResponse, SameUsersIn
<1>2. CASE ~d.stuck /\ m.type = "users"
  <2>1. m.users \in SUBSET Item /\ e = ReceiveUsersResponse(d, m.users, asked, now)
    BY <1>2, Kinds DEF ReceiveResponse
  <2>2. BookOk(e, b, c) /\ e.mail = d.mail
    BY <1>2, <2>1, ResponseBook
  <2>. QED
    BY <1>2, <2>2 DEF SameUsersIn
<1>3. CASE ~d.stuck /\ m.type # "users"
  <2>1. e = ReceiveOnline(d, m.users) \/ e = ReceiveSha256(d, m.users)
    BY <1>3, Kinds DEF ReceiveResponse
  <2>2. Frame(d, e)
    BY <2>1, WordsFrame
  <2>3. BookOk(e, b, c) /\ SameUsersIn(d.mail, e.mail)
    BY <2>2, FrameBook DEF Frame
  <2>. QED
    BY <1>3, <2>3
<1>. QED
  BY <1>1, <1>2, <1>3

LEMMA ServedBook ==
  ASSUME NEW now \in Nat \ {0}, NEW d, Dated(d, now), NEW msgs \in Seq(Message(now - 1)), NEW again,
         NEW b, NEW c, Serving(d, b, c), RequestsBy(msgs, c), NEW e, e = Served(d, msgs, again, now)
  PROVE  ServingLater(e, b, c)
<1>. DEFINE N == Len(msgs)
<1>0. N \in Nat /\ \A i \in 1..N : msgs[i] \in Message(now - 1) /\ (msgs[i].type = "users" => PutBy(msgs[i].users, c))
  BY DEF RequestsBy
<1>9. \E read : Answering(read, d, msgs, now)
  BY <1>0, RequestChain
<1>1. PICK read : /\ ReadRequests(d, msgs, now) = read[N] /\ read[0] = d
                  /\ \A i \in 1..N : read[i] = ReceiveRequest(read[i - 1], msgs[i], now)
  BY <1>9 DEF Answering
<1>. DEFINE S == {n \in Nat : n <= N => Dated(read[n], now) /\ ServingLater(read[n], b, c)}
<1>2. 0 \in S
  BY <1>1, ExtendsOk DEF ServingLater
<1>3. ASSUME NEW n \in S
      PROVE  n + 1 \in S
  <2>. SUFFICES ASSUME n + 1 <= N
                PROVE  Dated(read[n + 1], now) /\ ServingLater(read[n + 1], b, c)
    OBVIOUS
  <2>1. n + 1 \in 1..N /\ Dated(read[n], now) /\ ServingLater(read[n], b, c)
    BY <1>0
  <2>2. /\ read[n + 1] = ReceiveRequest(read[n], msgs[n + 1], now) /\ msgs[n + 1] \in Message(now - 1)
        /\ msgs[n + 1].type = "users" => PutBy(msgs[n + 1].users, c)
    BY <1>0, <1>1, <2>1
  <2>3. PICK b2 : Extends(b, b2) /\ Serving(read[n], b2, c)
    BY <2>1 DEF ServingLater
  <2>. HIDE DEF S
  <2>4. ServingLater(read[n + 1], b2, c)
    BY <2>1, <2>2, <2>3, RequestBook
  <2>5. ServingLater(read[n + 1], b, c)
    BY <2>3, <2>4, ExtendsOk DEF ServingLater
  <2>6. Dated(read[n + 1], now)
    BY <2>1, <2>2, ReceiveRequestOk
  <2>. QED
    BY <2>5, <2>6
<1>. DEFINE f == read[N]
            t == Told(f, ToTell(f, again))
            u == UsersToo(t, msgs, now)
<1>4. Dated(f, now) /\ ServingLater(f, b, c)
  <2>2. S \in SUBSET Nat
    OBVIOUS
  <2>. HIDE DEF S
  <2>1. N \in S
    BY <1>0, <1>2, <1>3, <2>2, FromZero
  <2>. QED
    BY <1>0, <2>1 DEF S
<1>5. e = IF f.stuck THEN f ELSE OnlineToo(u, msgs)
  BY <1>1 DEF Served, With
<1>. HIDE DEF f
<1>6. CASE f.stuck
  BY <1>4, <1>5, <1>6
<1>7. CASE ~f.stuck
  <2>1. PICK b2 : Extends(b, b2) /\ BookOk(f, b2, c) /\ RepliesBy(f.mail, b2)
    BY <1>4, <1>7 DEF ServingLater, Serving
  <2>2. Dated(t, now) /\ Frame(f, t)
    <3>1. f \in Db(now) /\ ToTell(f, again) \in SUBSET Persons
      BY <1>4 DEF Dated, DbOk, ToTell
    <3>2. Frame(f, t)
      BY <3>1, ToldFrame
    <3>. QED
      BY <1>4, <3>1, <3>2, ToldDated
  <2>. HIDE DEF t
  <2>3. BookOk(t, b2, c) /\ RepliesBy(t.mail, b2)
    BY <2>1, <2>2, FrameBook
  <2>4. Dated(u, now) /\ ServingLater(u, b2, c)
    <3>1. CASE Came(msgs, "users")
      BY <2>2, <2>3, <3>1, ExtendsOk DEF UsersToo, ServingLater, Serving
    <3>2. CASE ~Came(msgs, "users")
      <4>1. u = ReceiveUsersRequest(t, {}, now) /\ {} \in SUBSET Item /\ PutBy({}, c)
        BY <3>2 DEF UsersToo, PutBy
      <4>. HIDE DEF u
      <4>. QED
        BY <2>2, <2>3, <4>1, ReceiveUsersRequestOk, UsersRequestBook
    <3>. QED
      BY <3>1, <3>2
  <2>. HIDE DEF u
  <2>5. PICK b3 : Extends(b2, b3) /\ Serving(u, b3, c)
    BY <2>4 DEF ServingLater
  <2>6. Frame(u, e) /\ e.stuck = u.stuck
    <3>1. CASE Came(msgs, "online")
      BY <1>5, <1>7, <3>1 DEF OnlineToo, Frame, SameMatch, SameUsersIn
    <3>2. CASE ~Came(msgs, "online")
      <4>1. e = WithOnline(u)
        BY <1>5, <1>7, <3>2 DEF OnlineToo
      <4>2. u \in Db(now)
        BY <2>4 DEF Dated, DbOk
      <4>. QED
        BY <4>1, <4>2, WithOnlineFrame
    <3>. QED
      BY <3>1, <3>2
  <2>7. Serving(e, b3, c)
    BY <2>5, <2>6, FrameBook DEF Serving
  <2>8. Extends(b, b3)
    BY <2>1, <2>5, ExtendsOk
  <2>. QED
    BY <1>4, <1>7, <2>7, <2>8 DEF ServingLater
<1>. QED
  BY <1>6, <1>7

LEMMA ReadBook ==
  ASSUME NEW now \in Nat \ {0}, NEW d, Dated(d, now), NEW msgs \in Seq(Message(now - 1)), NEW again,
         NEW asked, AskedOk(d, asked), NEW b, NEW c, BookOk(d, b, c), AskedBy(asked, b), RepliesBy(msgs, c),
         NEW e, e = Read(d, msgs, asked, again, now)
  PROVE  BookOk(e, b, c) /\ SameUsersIn(d.mail, e.mail)
<1>. DEFINE N == Len(msgs)
<1>0. N \in Nat /\ \A i \in 1..N : msgs[i] \in Message(now - 1) /\ (msgs[i].type = "users" => ReplyBy(msgs[i].users, c))
  BY DEF RepliesBy
<1>9. \E read : Reading(read, d, msgs, asked, now)
  BY <1>0, ResponseChain
<1>1. PICK read : /\ ReadResponses(d, msgs, asked, now) = read[N] /\ read[0] = d
                  /\ \A i \in 1..N : read[i] = ReceiveResponse(read[i - 1], msgs[i], asked, now)
  BY <1>9 DEF Reading
<1>. DEFINE Fine(f) == /\ Dated(f, now) /\ SameIds(d, f) /\ BookOk(f, b, c) /\ SameUsersIn(d.mail, f.mail)
            S == {n \in Nat : n <= N => Fine(read[n])}
<1>2. 0 \in S
  BY <1>1 DEF SameIds, SameUsersIn
<1>3. ASSUME NEW n \in S
      PROVE  n + 1 \in S
  <2>. SUFFICES ASSUME n + 1 <= N PROVE Fine(read[n + 1])
    OBVIOUS
  <2>1. n + 1 \in 1..N /\ Fine(read[n])
    BY <1>0
  <2>2. /\ read[n + 1] = ReceiveResponse(read[n], msgs[n + 1], asked, now) /\ msgs[n + 1] \in Message(now - 1)
        /\ msgs[n + 1].type = "users" => ReplyBy(msgs[n + 1].users, c)
    BY <1>0, <1>1, <2>1
  <2>3. AskedOk(read[n], asked)
    BY <2>1 DEF AskedOk, SameIds, Has
  <2>. HIDE DEF S
  <2>4. Dated(read[n + 1], now) /\ SameIds(read[n], read[n + 1])
    BY <2>1, <2>2, <2>3, ReceiveResponseOk
  <2>5. BookOk(read[n + 1], b, c) /\ SameUsersIn(read[n].mail, read[n + 1].mail)
    BY <2>1, <2>2, <2>3, ResponseMessageBook
  <2>6. SameIds(d, read[n + 1]) /\ SameUsersIn(d.mail, read[n + 1].mail)
    BY <2>1, <2>4, <2>5 DEF SameIds, SameUsersIn
  <2>. QED
    BY <2>1, <2>4, <2>5, <2>6
<1>. DEFINE f == read[N]
<1>4. Fine(f)
  <2>2. S \in SUBSET Nat
    OBVIOUS
  <2>. HIDE DEF S
  <2>1. N \in S
    BY <1>0, <1>2, <1>3, <2>2, FromZero
  <2>. QED
    BY <1>0, <2>1 DEF S
<1>5. e = IF f.stuck THEN f ELSE Told(f, ToTell(f, again))
  BY <1>1 DEF Read, With
<1>. HIDE DEF f
<1>6. CASE f.stuck
  BY <1>4, <1>5, <1>6
<1>7. CASE ~f.stuck
  <2>1. f \in Db(now)
    BY <1>4 DEF Dated, DbOk
  <2>2. Frame(f, e)
    BY <1>5, <1>7, <2>1, ToldFrame
  <2>3. BookOk(e, b, c)
    BY <1>4, <2>2, FrameBook
  <2>4. SameUsersIn(d.mail, e.mail)
    BY <1>4, <2>2 DEF Frame, SameUsersIn
  <2>. QED
    BY <1>4, <1>7, <2>3, <2>4
<1>. QED
  BY <1>6, <1>7

\* The answers and questions of a ping.
LEMMA SentBook ==
  ASSUME NEW lim \in Nat, NEW d, DbOk(d, lim), NEW b, NEW c, BookOk(d, b, c), NoUsersIn(d.mail)
  PROVE  \E b2 : /\ Extends(b, b2) /\ BookOk(SentDb(d), b2, c)
                 /\ AskedBy(UsersRequest(d).asked, b2) /\ RequestsBy(SentDb(d).mail, b2)
<1>. DEFINE r == UsersRequest(d)
            e == IF r.users = {} THEN r.d ELSE Mailed(r.d, "users", r.users)
            asks == {[id |-> q.id, sig |-> Signature(d, q.who)] : q \in Questions(d)}
<1>1. /\ DbOk(r.d, lim) /\ r.asked = Questions(d) /\ r.users \in SUBSET Item
      /\ r.users = Answered(d, Waiting(d), -1) \union asks
      /\ r.d.match = Noted(d, Waiting(d)).match /\ r.d.requests = {q \in d.requests : q.id > 0}
      /\ r.d.mail = d.mail /\ r.d.next = d.next + Cardinality(Fresh(d)) /\ r.d.stuck = d.stuck
      /\ \A u \in Waiting(d) : u \in Item /\ u.id > 0
  <2>1. r = UsersRequest(d)
    OBVIOUS
  <2>. HIDE DEF r
  <2>. QED  BY <2>1, UsersRequestOk
<1>. HIDE DEF r
<1>2. PICK b2 : Book(b2, d.next + Cardinality(Fresh(d))) /\ Extends(b, b2) /\ AskedBy(Questions(d), b2)
  BY NewBook
<1>3. MatchSays(r.d.match, b, c)
  <2>1. \A u \in Waiting(d) : u.id \in Nat \ {0}
    BY <1>1 DEF Item
  <2>2. PutBy(Waiting(d), c)
    BY DEF PutBy, Waiting, BookOk, RequestsSay, DbOk, Db, Request
  <2>. QED
    BY <1>1, <2>1, <2>2, NotedBook
<1>4. RequestsSay(r.d.requests, b, c)
  BY <1>1 DEF BookOk, RequestsSay
<1>5. BookOk(r.d, b2, c)
  <2>1. \A i, x : Says(b, i, x) => Says(b2, i, x)
    BY <1>2, LaterBook
  <2>. QED
    BY <1>1, <1>2, <1>3, <1>4, <2>1 DEF BookOk, MatchSays, RequestsSay
<1>6. PutBy(r.users, b2)
  <2>. SUFFICES ASSUME NEW u \in r.users, u.id > 0, NEW w \in u.sig
                PROVE  Says(b2, u.id, w.who)
    BY DEF PutBy
  <2>1. u \notin Answered(d, Waiting(d), -1)
    BY <1>1 DEF Answered, Item
  <2>2. PICK q \in Questions(d) : u = [id |-> q.id, sig |-> Signature(d, q.who)]
    BY <1>1, <2>1
  <2>. QED
    BY <1>2, <2>2 DEF AskedBy, Signature
<1>7. RequestsBy(e.mail, b2) /\ BookOk(e, b2, c) /\ e \in Db(lim)
  <2>1. r.d \in Db(lim) /\ NoUsersIn(r.d.mail)
    BY <1>1 DEF DbOk
  <2>2. CASE r.users = {}
    BY <1>5, <2>1, <2>2 DEF RequestsBy, NoUsersIn
  <2>3. CASE r.users # {}
    <3>. DEFINE m == [type |-> "users", users |-> r.users]
    <3>1. e = Mailed(r.d, "users", r.users) /\ m \in Message(lim)
      BY <1>1, <2>3 DEF Message
    <3>2. DbOk(e, lim)
      BY <1>1, <3>1, MailedOk
    <3>3. e = [r.d EXCEPT !.mail = Append(@, m)]
      BY <3>1 DEF Mailed
    <3>4. m.type = "users" /\ m.users = r.users /\ r.d.mail \in Seq(Message(lim))
      BY <2>1 DEF Db
    <3>. HIDE DEF e, m, Message
    <3>5. e.mail = Append(r.d.mail, m) /\ e.next = r.d.next /\ e.match = r.d.match /\ e.requests = r.d.requests
      BY <2>1, <3>3 DEF Db
    <3>6. RequestsBy(e.mail, b2)
      BY <1>6, <2>1, <3>4, <3>5 DEF RequestsBy, NoUsersIn
    <3>. QED
      BY <1>5, <3>2, <3>5, <3>6 DEF BookOk, DbOk
  <2>. QED
    BY <2>2, <2>3
<1>. HIDE DEF e
<1>8. SentDb(d) = WithOnline(e)
  BY DEF SentDb, e, r
<1>9. Frame(e, SentDb(d))
  BY <1>7, <1>8, WithOnlineFrame
<1>10. BookOk(SentDb(d), b2, c) /\ RequestsBy(SentDb(d).mail, b2)
  BY <1>7, <1>9, FrameBook DEF Frame, SameUsersIn, RequestsBy
<1>. QED
  BY <1>1, <1>2, <1>10 DEF r

\* Accounts and profiles have nothing to do with pseudo ids.
LEMMA UserStep ==
  ASSUME TypeInv, NEW s \in Servers, NEW x \in Persons, UserNext(s, x)
  PROVE  ping' = ping /\ \E d : db' = [db EXCEPT ![s] = d] /\ Frame(db[s], d) /\ d.stuck = db[s].stuck
<1>0. db[s] \in Db(clock) /\ clock \in Nat
  BY DEF TypeInv, DbOk
<1>1. ASSUME NEW u
      PROVE  /\ Frame(db[s], [db[s] EXCEPT !.user = u]) /\ [db[s] EXCEPT !.user = u].stuck = db[s].stuck
             /\ [db[s] EXCEPT !.user = u].mail = db[s].mail /\ [db[s] EXCEPT !.user = u].match = db[s].match
  <2>. DEFINE d == [db[s] EXCEPT !.user = u]
  <2>1. d.next = db[s].next /\ d.requests = db[s].requests /\ d.match = db[s].match /\ d.mail = db[s].mail /\ d.stuck = db[s].stuck
    BY <1>0 DEF Db
  <2>. HIDE DEF d
  <2>2. Frame(db[s], d)
    BY <2>1 DEF Frame, SameMatch, SameUsersIn
  <2>. QED
    BY <2>1, <2>2 DEF d
<1>2. CASE SignUp(s, x) \/ LogIn(s, x) \/ GiveUp(s, x)
  <2>1. ping' = ping /\ \E u : db' = [db EXCEPT ![s] = [db[s] EXCEPT !.user = u]]
    <3>1. CASE SignUp(s, x)
      BY <3>1 DEF SignUp
    <3>2. CASE LogIn(s, x)
      BY <3>2 DEF LogIn
    <3>3. CASE GiveUp(s, x)
      BY <3>3 DEF GiveUp
    <3>. QED
      BY <1>2, <3>1, <3>2, <3>3
  <2>. QED
    BY <1>1, <2>1
<1>3. CASE Download(s, x)
  <2>. DEFINE d == [db[s] EXCEPT !.user[x].info = profile[x], !.user[x].at = clock + 1, !.user[x].pending = FALSE]
              e == IF Verified(d, x) THEN Told(d, {x}) ELSE d
  <2>1. ping' = ping /\ db' = [db EXCEPT ![s] = e]
    BY <1>3 DEF Download
  <2>2. PICK u : d = [db[s] EXCEPT !.user = u]
    OBVIOUS
  <2>. HIDE DEF d
  <2>3. Frame(db[s], d) /\ d.stuck = db[s].stuck
    BY <1>1, <2>2
  <2>4. Frame(d, e) /\ e.stuck = d.stuck
    <3>1. CASE Verified(d, x)
      <4>1. d \in Db(clock + 1)
        BY <1>3, DownloadedOk DEF DbOk, d, Download, Downloaded
      <4>. QED
        BY <3>1, <4>1, ToldFrame
    <3>2. CASE ~Verified(d, x)
      BY <3>2 DEF Frame, SameMatch, SameUsersIn
    <3>. QED
      BY <3>1, <3>2
  <2>5. Frame(db[s], e)
    BY <2>3, <2>4, FrameChain
  <2>. QED
    BY <2>1, <2>3, <2>4, <2>5
<1>. QED
  BY <1>2, <1>3 DEF UserNext

\* A server that is stuck stays stuck.
LEMMA SentStuck ==
  ASSUME NEW lim \in Nat, NEW d, DbOk(d, lim)
  PROVE  [SentDb(d) EXCEPT !.mail = <<>>].stuck = d.stuck
<1>. DEFINE r == UsersRequest(d)
            f == IF r.users = {} THEN r.d ELSE Mailed(r.d, "users", r.users)
<1>1. r.d.stuck = d.stuck /\ DbOk(r.d, lim) /\ r.users \in SUBSET Item
  <2>1. r = UsersRequest(d)
    OBVIOUS
  <2>. HIDE DEF r
  <2>. QED  BY <2>1, UsersRequestOk
<1>2. SentDb(d) = WithOnline(f)
  BY DEF SentDb
<1>. HIDE DEF r
<1>3. DbOk(f, lim) /\ f.stuck = r.d.stuck
  <2>1. [type |-> "users", users |-> r.users] \in Message(lim)
    BY <1>1 DEF Message
  <2>2. DbOk(Mailed(r.d, "users", r.users), lim)
    BY <1>1, <2>1, MailedOk
  <2>3. Mailed(r.d, "users", r.users).stuck = r.d.stuck
    BY <1>1 DEF Mailed, DbOk, Db
  <2>. QED
    BY <1>1, <2>2, <2>3
<1>. HIDE DEF f
<1>4. SentDb(d).stuck = d.stuck
  BY <1>1, <1>2, <1>3, WithOnlineFrame DEF DbOk
<1>5. SentDb(d) \in Db(lim)
  BY SentOk DEF DbOk
<1>. QED
  BY <1>4, <1>5 DEF Db

LEMMA ServedStuck ==
  ASSUME NEW d, d.stuck, NEW msgs, Len(msgs) \in Nat, NEW again, NEW now
  PROVE  Served(d, msgs, again, now) = d
<1>. DEFINE N == Len(msgs)
<1>1. \E read : Answering(read, d, msgs, now)
  BY RequestChain
<1>2. PICK read : /\ ReadRequests(d, msgs, now) = read[N] /\ read[0] = d
                  /\ \A i \in 1..N : read[i] = ReceiveRequest(read[i - 1], msgs[i], now)
  BY <1>1 DEF Answering
<1>. DEFINE S == {n \in Nat : n <= N => read[n] = d}
<1>3. S \in SUBSET Nat /\ 0 \in S
  BY <1>2
<1>4. ASSUME NEW n \in S
      PROVE  n + 1 \in S
  BY <1>2 DEF ReceiveRequest
<1>5. N \in S
  <2>. HIDE DEF S
  <2>. QED  BY <1>3, <1>4, FromZero
<1>6. ReadRequests(d, msgs, now) = d
  BY <1>2, <1>5
<1>. QED
  BY <1>6 DEF Served, With

LEMMA ReadStuck ==
  ASSUME NEW d, d.stuck, NEW msgs, Len(msgs) \in Nat, NEW asked, NEW again, NEW now
  PROVE  Read(d, msgs, asked, again, now) = d
<1>. DEFINE N == Len(msgs)
<1>1. \E read : Reading(read, d, msgs, asked, now)
  BY ResponseChain
<1>2. PICK read : /\ ReadResponses(d, msgs, asked, now) = read[N] /\ read[0] = d
                  /\ \A i \in 1..N : read[i] = ReceiveResponse(read[i - 1], msgs[i], asked, now)
  BY <1>1 DEF Reading
<1>. DEFINE S == {n \in Nat : n <= N => read[n] = d}
<1>3. S \in SUBSET Nat /\ 0 \in S
  BY <1>2
<1>4. ASSUME NEW n \in S
      PROVE  n + 1 \in S
  BY <1>2 DEF ReceiveResponse
<1>5. N \in S
  <2>. HIDE DEF S
  <2>. QED  BY <1>3, <1>4, FromZero
<1>6. ReadResponses(d, msgs, asked, now) = d
  BY <1>2, <1>5
<1>. QED
  BY <1>6 DEF Read, With

LEMMA StuckStays ==
  ASSUME TypeInv, [Next]_vars, NEW s \in Servers, db[s].stuck
  PROVE  db'[s].stuck
<1>1. ASSUME NEW t \in Servers, NEW d, db' = [db EXCEPT ![t] = d], t = s => d.stuck
      PROVE  db'[s].stuck
  BY <1>1 DEF TypeInv
<1>2. \A t \in Servers : Len(ping[t].msgs) \in Nat
  BY DEF TypeInv, PingOk, PingAt
<1>3. ASSUME NEW t \in Servers, SendPing(t)
      PROVE  db'[s].stuck
  <2>. DEFINE d == [SentDb(db[t]) EXCEPT !.mail = <<>>]
  <2>1. db' = [db EXCEPT ![t] = d]
    BY <1>3 DEF SendPing, SentDb
  <2>2. d.stuck = db[t].stuck
    BY SentStuck DEF TypeInv
  <2>. HIDE DEF d
  <2>. QED
    BY <1>1, <2>1, <2>2
<1>4. ASSUME NEW t \in Servers, HandlePing(t)
      PROVE  db'[s].stuck
  <2>. DEFINE o == Other(t)
  <2>1. PICK again, d : /\ d = Served(db[o], ping[t].msgs, again, clock + 1)
                        /\ db' = [db EXCEPT ![o] = IF d.stuck THEN d ELSE [d EXCEPT !.mail = <<>>]]
    BY <1>4 DEF HandlePing
  <2>2. o \in Servers
    BY OtherOk
  <2>3. o = s => d = db[o] /\ d.stuck
    BY <1>2, <2>1, ServedStuck
  <2>. HIDE DEF o
  <2>. QED
    BY <1>1, <2>1, <2>2, <2>3
<1>5. ASSUME NEW t \in Servers, ReceivePing(t)
      PROVE  db'[s].stuck
  <2>1. PICK again, d : /\ d = Read(db[t], ping[t].msgs, ping[t].asked, again, clock + 1)
                        /\ db' = [db EXCEPT ![t] = d]
    BY <1>5 DEF ReceivePing
  <2>2. t = s => d = db[t]
    BY <1>2, <2>1, ReadStuck
  <2>. QED
    BY <1>1, <2>1, <2>2
<1>6. ASSUME NEW t \in Servers, NEW x \in Persons, UserNext(t, x)
      PROVE  db'[s].stuck
  <2>1. PICK d : db' = [db EXCEPT ![t] = d] /\ d.stuck = db[t].stuck
    BY <1>6, UserStep
  <2>. QED
    BY <1>1, <2>1
<1>7. CASE db' = db
  BY <1>7
<1>. QED
  BY <1>3, <1>4, <1>5, <1>6, <1>7 DEF Next, PingNext, LosePing, ChangeProfile, vars

----------------------------------------------------------------------------
\* The books of two servers, and their pings.

PingSays(p, b, c) ==
  /\ AskedBy(p.asked, b)
  /\ p.stage = "request" => RequestsBy(p.msgs, b)
  /\ p.stage = "response" => RepliesBy(p.msgs, c)
BooksOk(book) ==
  /\ book = [s \in Servers |-> book[s]]
  /\ \A s \in Servers : BookOk(db[s], book[s], book[Other(s)]) /\ PingSays(ping[s], book[s], book[Other(s)])

\* A users message that is left in the mail of a server that pings would go out as a request.
Boxes ==
  \A s \in Servers : /\ ping[s].stage # "idle" => s \in Pingers
                     /\ ~db[s].stuck \/ s \in Pingers => NoUsersIn(db[s].mail)
OnePinger == \A s, t \in Pingers : s = t
Sound == NotStuck \/ OnePinger
BooksInv == Sound => Boxes /\ \E book : BooksOk(book)

\* One server writes in its book.
LEMMA StepBooks ==
  ASSUME TypeInv, NEW book, BooksOk(book), NEW s \in Servers, NEW d, NEW b, Extends(book[s], b),
         BookOk(d, b, book[Other(s)]), db' = [db EXCEPT ![s] = d],
         NEW t \in Servers, NEW p, ping' = [ping EXCEPT ![t] = p],
         PingSays(p, [book EXCEPT ![s] = b][t], [book EXCEPT ![s] = b][Other(t)])
  PROVE  \E new : BooksOk(new)'
<1>. DEFINE new == [book EXCEPT ![s] = b]
<1>1. new = [u \in Servers |-> new[u]] /\ \A u \in Servers : new[u] = IF u = s THEN b ELSE book[u]
  BY DEF BooksOk
<1>. HIDE DEF new
<1>2. \A u \in Servers : Extends(book[u], new[u])
  BY <1>1, ExtendsOk
<1>3. ASSUME NEW u \in Servers
      PROVE  BookOk(db'[u], new[u], new[Other(u)])
  <2>. Other(u) \in Servers /\ Other(u) # u
    BY OtherOk
  <2>1. CASE u = s
    <3>1. db'[u] = d /\ new[u] = b /\ new[Other(u)] = book[Other(s)]
      BY <1>1, <2>1 DEF TypeInv
    <3>. QED
      BY <3>1
  <2>2. CASE u # s
    <3>1. db'[u] = db[u] /\ new[u] = book[u] /\ Extends(book[Other(u)], new[Other(u)])
      BY <1>1, <1>2, <2>2 DEF TypeInv
    <3>. QED
      BY <3>1, LaterBooks DEF BooksOk
  <2>. QED
    BY <2>1, <2>2
<1>4. ASSUME NEW u \in Servers
      PROVE  PingSays(ping'[u], new[u], new[Other(u)])
  <2>. Other(u) \in Servers
    BY OtherOk
  <2>1. CASE u = t
    <3>1. ping'[u] = p
      BY <2>1 DEF TypeInv
    <3>. QED
      BY <2>1, <3>1 DEF new
  <2>2. CASE u # t
    <3>1. ping'[u] = ping[u] /\ PingSays(ping[u], book[u], book[Other(u)])
      BY <2>2 DEF TypeInv, BooksOk
    <3>2. AskedBy(ping[u].asked, book[u]) => AskedBy(ping[u].asked, new[u])
      BY <1>2, LaterBook
    <3>3. RequestsBy(ping[u].msgs, book[u]) => RequestsBy(ping[u].msgs, new[u])
      BY <1>2, LaterBook
    <3>4. RepliesBy(ping[u].msgs, book[Other(u)]) => RepliesBy(ping[u].msgs, new[Other(u)])
      BY <1>2, LaterBook
    <3>. QED
      BY <3>1, <3>2, <3>3, <3>4 DEF PingSays
  <2>. QED
    BY <2>1, <2>2
<1>5. BooksOk(new)'
  BY <1>1, <1>3, <1>4 DEF BooksOk, Other
<1>. QED
  BY <1>5

\* A step of a server that does not use its book.
LEMMA SameBooks ==
  ASSUME TypeInv, NEW book, BooksOk(book), NEW s \in Servers, NEW d, BookOk(d, book[s], book[Other(s)]),
         db' = [db EXCEPT ![s] = d], NEW t \in Servers, NEW p, ping' = [ping EXCEPT ![t] = p],
         PingSays(p, book[t], book[Other(t)])
  PROVE  \E new : BooksOk(new)'
<1>. DEFINE b == book[s]
<1>1. [book EXCEPT ![s] = b] = book
  BY DEF BooksOk
<1>2. Extends(book[s], b) /\ BookOk(d, b, book[Other(s)])
  BY ExtendsOk
<1>3. PingSays(p, [book EXCEPT ![s] = b][t], [book EXCEPT ![s] = b][Other(t)])
  BY <1>1
<1>. HIDE DEF b
<1>. QED
  BY <1>2, <1>3, StepBooks

\* ... and keeps its ping.
LEMMA UserBooks ==
  ASSUME TypeInv, NEW book, BooksOk(book), Boxes, NEW s \in Servers, NEW d, Frame(db[s], d), d.stuck = db[s].stuck,
         db' = [db EXCEPT ![s] = d], ping' = ping
  PROVE  (\E new : BooksOk(new)') /\ Boxes'
<1>1. ping' = [ping EXCEPT ![s] = ping[s]] /\ PingSays(ping[s], book[s], book[Other(s)])
  BY DEF TypeInv, BooksOk
<1>2. BookOk(db[s], book[s], book[Other(s)])
  BY DEF BooksOk
<1>3. BookOk(d, book[s], book[Other(s)]) /\ (NoUsersIn(db[s].mail) => NoUsersIn(d.mail))
  BY <1>2, FrameBook
<1>4. \A t \in Servers : db'[t] = IF t = s THEN d ELSE db[t]
  BY DEF TypeInv
<1>5. Boxes'
  BY <1>3, <1>4 DEF Boxes
<1>. QED
  BY <1>1, <1>3, <1>5, SameBooks

LEMMA BooksInit ==
  Init => BooksInv
<1>. SUFFICES ASSUME Init PROVE BooksInv
  OBVIOUS
<1>. DEFINE book == [s \in Servers |-> [i \in 1..0 |-> 0]]
<1>1. ASSUME NEW s \in Servers
      PROVE  /\ db[s].mail = <<>> /\ db[s].requests = {} /\ db[s].next = 0
             /\ db[s].match = [x \in Persons |-> NoMatch]
             /\ ping[s].stage = "idle" /\ ping[s].asked = {}
  BY DEF Init
<1>2. Boxes
  BY <1>1 DEF Boxes, NoUsersIn
<1>3. ASSUME NEW s \in Servers, NEW c
      PROVE  BookOk(db[s], book[s], c) /\ PingSays(ping[s], book[s], c)
  <2>1. Book(book[s], db[s].next)
    BY <1>1 DEF Book
  <2>2. MatchSays(db[s].match, book[s], c)
    BY <1>1 DEF MatchSays, NoMatch
  <2>3. RequestsSay(db[s].requests, book[s], c)
    BY <1>1 DEF RequestsSay
  <2>4. PingSays(ping[s], book[s], c)
    BY <1>1 DEF PingSays, AskedBy
  <2>. QED
    BY <2>1, <2>2, <2>3, <2>4 DEF BookOk
<1>4. BooksOk(book)
  <2>1. book = [s \in Servers |-> book[s]]
    OBVIOUS
  <2>. HIDE DEF book
  <2>. QED  BY <1>3, <2>1 DEF BooksOk
<1>. QED
  BY <1>2, <1>4 DEF BooksInv

LEMMA SendPingBooks ==
  ASSUME TypeInv, NEW book, BooksOk(book), Boxes, NEW s \in Servers, SendPing(s)
  PROVE  (\E new : BooksOk(new)') /\ Boxes'
<1>. DEFINE d == SentDb(db[s])
            e == [d EXCEPT !.mail = <<>>]
            p == [stage |-> "request", msgs |-> d.mail, asked |-> UsersRequest(db[s]).asked]
            c == book[Other(s)]
<1>1. ping' = [ping EXCEPT ![s] = p] /\ db' = [db EXCEPT ![s] = e] /\ s \in Pingers
  BY DEF SendPing, SentDb
<1>2. DbOk(db[s], clock) /\ clock \in Nat /\ NoUsersIn(db[s].mail) /\ BookOk(db[s], book[s], c)
  BY <1>1 DEF TypeInv, Boxes, BooksOk
<1>3. PICK b : /\ Extends(book[s], b) /\ BookOk(d, b, c)
               /\ AskedBy(UsersRequest(db[s]).asked, b) /\ RequestsBy(d.mail, b)
  BY <1>2, SentBook
<1>4. d \in Db(clock)
  BY <1>2, SentOk DEF DbOk
<1>. HIDE DEF d
<1>5. e.match = d.match /\ e.next = d.next /\ e.requests = d.requests /\ e.mail = <<>>
  BY <1>4 DEF Db
<1>6. p.asked = UsersRequest(db[s]).asked /\ p.stage = "request" /\ p.msgs = d.mail
  OBVIOUS
<1>. HIDE DEF e, p
<1>7. BookOk(e, b, c)
  BY <1>3, <1>5 DEF BookOk
<1>8. PingSays(p, [book EXCEPT ![s] = b][s], [book EXCEPT ![s] = b][Other(s)])
  <2>1. [book EXCEPT ![s] = b][s] = b
    BY DEF BooksOk
  <2>. QED
    BY <1>3, <1>6, <2>1 DEF PingSays
<1>9. \E new : BooksOk(new)'
  BY <1>1, <1>3, <1>7, <1>8, StepBooks
<1>10. \A t \in Servers : db'[t] = (IF t = s THEN e ELSE db[t]) /\ ping'[t] = IF t = s THEN p ELSE ping[t]
  BY <1>1 DEF TypeInv
<1>11. Boxes'
  BY <1>1, <1>5, <1>10 DEF Boxes, NoUsersIn
<1>. QED
  BY <1>9, <1>11

\* A server that gets stuck keeps its reply in the mail, so only one of them may ping then.
LEMMA HandlePingBooks ==
  ASSUME TypeInv, NEW book, BooksOk(book), Boxes, NEW s \in Servers, HandlePing(s)
  PROVE  /\ \E new : BooksOk(new)'
         /\ OnePinger \/ ~db'[Other(s)].stuck => Boxes'
<1>. DEFINE o == Other(s)
            b == book[o]
            c == book[s]
<1>0. o \in Servers /\ o # s /\ Other(o) = s
  BY OtherOk
<1>1. PICK again : \E d \in {Served(db[o], ping[s].msgs, again, clock + 1)} :
         /\ db' = [db EXCEPT ![o] = IF d.stuck THEN d ELSE [d EXCEPT !.mail = <<>>]]
         /\ ping' = [ping EXCEPT ![s].stage = "response", ![s].msgs = IF d.stuck THEN <<>> ELSE d.mail]
  BY DEF HandlePing
<1>. DEFINE d == Served(db[o], ping[s].msgs, again, clock + 1)
            e == IF d.stuck THEN d ELSE [d EXCEPT !.mail = <<>>]
            p == [ping[s] EXCEPT !.stage = "response", !.msgs = IF d.stuck THEN <<>> ELSE d.mail]
<1>2. db' = [db EXCEPT ![o] = e] /\ ping' = [ping EXCEPT ![s] = p]
  BY <1>1 DEF TypeInv
<1>3. ping[s].stage = "request" /\ s \in Pingers
  BY DEF HandlePing, Boxes
<1>. HIDE DEF o
<1>4. Serving(db[o], b, c) /\ RequestsBy(ping[s].msgs, c) /\ AskedBy(ping[s].asked, c)
  <2>1. BookOk(db[o], b, c) /\ PingSays(ping[s], c, b)
    BY <1>0 DEF BooksOk, o
  <2>2. db[o].stuck \/ RepliesBy(db[o].mail, b)
    BY <1>0 DEF Boxes, NoUsersIn, RepliesBy
  <2>. QED
    BY <1>3, <2>1, <2>2 DEF Serving, PingSays
<1>5. Dated(d, clock + 1) /\ ServingLater(d, b, c)
  <2>. DEFINE now == clock + 1
  <2>1. d = Served(db[o], ping[s].msgs, again, now) /\ now = clock + 1
    OBVIOUS
  <2>. HIDE DEF d, now, b, c
  <2>2. Dated(db[o], now) /\ ping[s].msgs \in Seq(Message(now - 1)) /\ now \in Nat \ {0}
    BY <1>0, <2>1, NowDated
  <2>3. Dated(d, now)
    BY <2>1, <2>2, ServedOk
  <2>4. ServingLater(d, b, c)
    BY <1>4, <2>1, <2>2, ServedBook
  <2>. QED  BY <2>1, <2>3, <2>4
<1>. HIDE DEF d
<1>6. PICK b2 : Extends(b, b2) /\ BookOk(d, b2, c) /\ (d.stuck \/ RepliesBy(d.mail, b2))
  BY <1>5 DEF ServingLater, Serving
<1>7. d \in Db(clock + 1)
  BY <1>5 DEF Dated, DbOk
<1>8. /\ e.match = d.match /\ e.next = d.next /\ e.requests = d.requests /\ e.stuck = d.stuck
      /\ ~d.stuck => e.mail = <<>>
  BY <1>7 DEF Db
<1>. HIDE DEF e
<1>9. BookOk(e, b2, c)
  BY <1>6, <1>8 DEF BookOk
<1>10. p.asked = ping[s].asked /\ p.stage = "response" /\ p.msgs = IF d.stuck THEN <<>> ELSE d.mail
  <2>1. ping[s] \in PingAt(clock)
    BY DEF TypeInv, PingOk
  <2>. QED
    BY <2>1 DEF PingAt
<1>. HIDE DEF p
<1>11. PingSays(p, [book EXCEPT ![o] = b2][s], [book EXCEPT ![o] = b2][Other(s)])
  <2>1. [book EXCEPT ![o] = b2][s] = c /\ [book EXCEPT ![o] = b2][o] = b2
    BY <1>0 DEF BooksOk
  <2>2. RepliesBy(<<>>, b2)
    BY DEF RepliesBy
  <2>. QED
    BY <1>4, <1>6, <1>10, <2>1, <2>2 DEF PingSays, o
<1>12. \E new : BooksOk(new)'
  BY <1>0, <1>2, <1>6, <1>9, <1>11, StepBooks
<1>13. \A t \in Servers : db'[t] = (IF t = o THEN e ELSE db[t]) /\ ping'[t] = IF t = s THEN p ELSE ping[t]
  BY <1>2 DEF TypeInv
<1>14. ASSUME OnePinger \/ ~db'[o].stuck
       PROVE  Boxes'
  <2>1. ~e.stuck => NoUsersIn(e.mail)
    BY <1>8 DEF NoUsersIn
  <2>2. e.stuck => o \notin Pingers
    BY <1>0, <1>3, <1>13, <1>14 DEF OnePinger
  <2>. QED
    BY <1>3, <1>13, <2>1, <2>2 DEF Boxes
<1>. QED
  BY <1>12, <1>14 DEF o

LEMMA ReceivePingBooks ==
  ASSUME TypeInv, NEW book, BooksOk(book), Boxes, NEW s \in Servers, ReceivePing(s)
  PROVE  (\E new : BooksOk(new)') /\ Boxes'
<1>1. PICK again : db' = [db EXCEPT ![s] = Read(db[s], ping[s].msgs, ping[s].asked, again, clock + 1)]
  BY DEF ReceivePing
<1>. DEFINE d == Read(db[s], ping[s].msgs, ping[s].asked, again, clock + 1)
            b == book[s]
            c == book[Other(s)]
<1>2. db' = [db EXCEPT ![s] = d] /\ ping' = [ping EXCEPT ![s] = Idle] /\ ping[s].stage = "response"
  BY <1>1 DEF ReceivePing, Idle
<1>3. BookOk(db[s], b, c) /\ AskedBy(ping[s].asked, b) /\ RepliesBy(ping[s].msgs, c)
  BY <1>2 DEF BooksOk, PingSays
<1>4. BookOk(d, b, c) /\ SameUsersIn(db[s].mail, d.mail)
  <2>. DEFINE now == clock + 1
  <2>1. d = Read(db[s], ping[s].msgs, ping[s].asked, again, now) /\ now = clock + 1
    OBVIOUS
  <2>2. AskedOk(db[s], ping[s].asked)
    BY DEF TypeInv, PingOk
  <2>. HIDE DEF d, now, b, c
  <2>3. Dated(db[s], now) /\ ping[s].msgs \in Seq(Message(now - 1)) /\ now \in Nat \ {0}
    BY <2>1, NowDated
  <2>. QED
    BY <1>3, <2>1, <2>2, <2>3, ReadBook
<1>. HIDE DEF d
<1>5. PingSays(Idle, b, c)
  BY DEF PingSays, Idle, AskedBy
<1>6. \E new : BooksOk(new)'
  BY <1>2, <1>4, <1>5, SameBooks
<1>7. \A t \in Servers : db'[t] = (IF t = s THEN d ELSE db[t]) /\ ping'[t] = IF t = s THEN Idle ELSE ping[t]
  BY <1>2 DEF TypeInv
<1>8. Boxes'
  <2>1. NoUsersIn(db[s].mail) => NoUsersIn(d.mail)
    BY <1>4 DEF NoUsersIn, SameUsersIn
  <2>2. db[s].stuck => d.stuck
    BY <1>7, StuckStays DEF Next, PingNext
  <2>. QED
    BY <1>7, <2>1, <2>2 DEF Boxes, Idle
<1>. QED
  BY <1>6, <1>8

LEMMA LosePingBooks ==
  ASSUME TypeInv, NEW book, BooksOk(book), Boxes, NEW s \in Servers, LosePing(s)
  PROVE  (\E new : BooksOk(new)') /\ Boxes' /\ db' = db
<1>1. ping' = [ping EXCEPT ![s] = Idle] /\ db' = db
  BY DEF LosePing, Idle
<1>2. db' = [db EXCEPT ![s] = db[s]] /\ BookOk(db[s], book[s], book[Other(s)])
  BY <1>1 DEF TypeInv, BooksOk
<1>3. PingSays(Idle, book[s], book[Other(s)])
  BY DEF PingSays, Idle, AskedBy
<1>4. \E new : BooksOk(new)'
  BY <1>1, <1>2, <1>3, SameBooks
<1>5. \A t \in Servers : ping'[t] = IF t = s THEN Idle ELSE ping[t]
  BY <1>1 DEF TypeInv
<1>. QED
  BY <1>1, <1>4, <1>5 DEF Boxes, Idle

LEMMA BooksStep ==
  ASSUME TypeInv, BooksInv, [Next]_vars
  PROVE  BooksInv'
<1>. SUFFICES ASSUME Sound' PROVE Boxes' /\ \E new : BooksOk(new)'
  BY DEF BooksInv
<1>1. Sound
  BY StuckStays DEF Sound, NotStuck, OnePinger
<1>2. PICK book : BooksOk(book)
  BY <1>1 DEF BooksInv
<1>3. Boxes
  BY <1>1 DEF BooksInv
<1>4. \A t \in Servers : OnePinger \/ ~db'[t].stuck
  BY DEF Sound, NotStuck, OnePinger
<1>5. ASSUME NEW s \in Servers, PingNext(s)
      PROVE  Boxes' /\ \E new : BooksOk(new)'
  <2>1. CASE SendPing(s)
    BY <1>2, <1>3, <2>1, SendPingBooks
  <2>2. CASE HandlePing(s)
    <3>1. Other(s) \in Servers
      BY OtherOk
    <3>. QED
      BY <1>2, <1>3, <1>4, <2>2, <3>1, HandlePingBooks
  <2>3. CASE ReceivePing(s)
    BY <1>2, <1>3, <2>3, ReceivePingBooks
  <2>4. CASE LosePing(s)
    BY <1>2, <1>3, <2>4, LosePingBooks
  <2>. QED
    BY <1>5, <2>1, <2>2, <2>3, <2>4 DEF PingNext
<1>6. ASSUME NEW s \in Servers, NEW x \in Persons, UserNext(s, x)
      PROVE  Boxes' /\ \E new : BooksOk(new)'
  <2>1. PICK d : db' = [db EXCEPT ![s] = d] /\ Frame(db[s], d) /\ d.stuck = db[s].stuck /\ ping' = ping
    BY <1>6, UserStep
  <2>. QED
    BY <1>2, <1>3, <2>1, UserBooks
<1>7. CASE db' = db /\ ping' = ping
  BY <1>2, <1>3, <1>7 DEF Boxes, BooksOk, Other
<1>. QED
  BY <1>5, <1>6, <1>7 DEF Next, ChangeProfile, vars

LEMMA BooksHold ==
  Spec => [](TypeInv /\ BooksInv)
<1>1. Init => BooksInv
  BY BooksInit
<1>2. TypeInv /\ BooksInv /\ [Next]_vars => BooksInv'
  BY BooksStep
<1>. QED
  BY <1>1, <1>2, TypeInvHolds, PTL DEF Spec

\* One id in one book is one person.
LEMMA BooksPerson ==
  ASSUME TypeInv, BooksInv, Sound
  PROVE  SamePerson
<1>. SUFFICES ASSUME NEW s \in Servers, NEW x \in Persons, NEW y \in Persons,
                     db[s].match[x].pseudo # 0, db[s].match[x].pseudo = db[Other(s)].match[y].remote
              PROVE  x = y
  BY DEF SamePerson
<1>1. PICK book : BooksOk(book)
  BY DEF BooksInv
<1>2. Other(s) \in Servers /\ Other(Other(s)) = s
  BY OtherOk
<1>3. BookOk(db[s], book[s], book[Other(s)]) /\ BookOk(db[Other(s)], book[Other(s)], book[s])
  BY <1>1, <1>2 DEF BooksOk
<1>4. Says(book[s], db[s].match[x].pseudo, x)
  BY <1>3 DEF BookOk, MatchSays
<1>5. Says(book[s], db[Other(s)].match[y].remote, y)
  BY <1>3 DEF BookOk, MatchSays
<1>. QED
  BY <1>4, <1>5 DEF Says

\* A pseudo user id means the same person on both servers, whatever gets lost and whoever asks,
\* when one of the servers pings the other (server_users, Sequence.next_pseudo_user_id).
THEOREM IdsMeanOnePerson ==
  ASSUME \A s, t \in Pingers : s = t
  PROVE  Spec => []SamePerson
<1>1. OnePinger
  BY DEF OnePinger
<1>2. TypeInv /\ BooksInv => SamePerson
  BY <1>1, BooksPerson DEF Sound
<1>. QED
  BY <1>2, BooksHold, PTL

\* The same when both of them ping, as long as no server is stuck with a message that raises an
\* exception: its reply would then go out with its next ping, where answers are questions
\* (Message.receive_messages, create_compare_users_message).
THEOREM IdsMeanOnePersonUnlessStuck ==
  Spec => [](NotStuck => SamePerson)
<1>1. TypeInv /\ BooksInv => (NotStuck => SamePerson)
  BY BooksPerson DEF Sound
<1>. QED
  BY <1>1, BooksHold, PTL

----------------------------------------------------------------------------
\* One server pings the other: what the two know of each other.  Here d has the tables of one
\* of them and e those of the other; from the ping on d is the server that pings.

Who(sig) == {w.who : w \in sig}

\* A verified user has been compared, under the pseudo id that is kept, and the other server
\* has noted that id.
Settled(d)   == \A x \in Persons : Verified(d, x) => d.match[x].pseudo # 0 /\ Has(d, x) /\ d.user[x].id <= d.checked
Agrees(d, e) == \A x \in Persons : Verified(d, x) => e.match[x].remote = d.match[x].pseudo

\* A user is asked about under one id, a verified one under the id that is kept.
OneId(d, asked) ==
  \A q \in asked : /\ Verified(d, q.who) => q.id = d.match[q.who].pseudo
                   /\ \A r \in asked : r.who = q.who => r.id = q.id
Kept(requests) == {[id |-> r.id, who |-> CHOOSE x \in r.who : TRUE] : r \in {q \in requests : q.id > 0}}

\* What is noted for one user is not the id of another one.
Apart(d, e)          == \A x, y \in Persons : d.match[x].pseudo # 0 /\ d.match[x].pseudo = e.match[y].remote => x = y
AskedApart(asked, e) == \A q \in asked, y \in Persons : q.id = e.match[y].remote => q.who = y

\* The signatures in a ping: a question was put, an answer is noted.
RequestFits(users, d, asked) ==
  \A u \in users, x \in Persons :
    x \in Who(u.sig) => /\ u.id > 0 => [id |-> u.id, who |-> x] \in asked
                        /\ u.id < 0 => d.match[x].remote = -u.id
\* ... and in a response.  The questions that wait are the last ones of the other server.
ResponseFits(users, e) ==
  \A u \in users, x \in Persons :
    x \in Who(u.sig) => /\ u.id > 0 => e.match[x].remote = u.id
                        /\ u.id < 0 => [id |-> -u.id, who |-> x] \in Kept(e.requests)
WaitingFits(d, e) ==
  \A r \in d.requests, x \in Persons : r.id < 0 /\ x \in Who(r.sig) => [id |-> -r.id, who |-> x] \in Kept(e.requests)
NoneWaits(d) == \A r \in d.requests : r.id > 0

\* Users who are online keep their profiles.
Quiet    == \A x \in Online : MaxInfo[x] = 0
Still(d) == Quiet => \A x \in Online : d.user[x].info = 0
Calm(d)  == Quiet => ~d.stuck /\ \A x \in Online : d.user[x].info = 0

\* What is said of profiles has the id that is noted (Current); to the other server that is the
\* user it knows by this id (Fits), if it has read the questions and answers before.
Current(d, g) == \A x \in Persons : x \in Who(g.sig) => g.pseudo = d.match[x].remote
Fits(e, g)    == \A x, y \in Persons : x \in Who(g.sig) /\ Verified(e, y) => (e.match[y].pseudo = g.pseudo <=> y = x)
Names(m)      == Quiet /\ m.type = "online" => \A g \in m.users : \E x \in Online : g.sig = {[who |-> x, info |-> 0]}
MailFits(d) ==
  \A i \in DOMAIN d.mail : d.mail[i].type # "users" => Names(d.mail[i]) /\ \A g \in d.mail[i].users : Current(d, g)
UsersBefore(msgs, i) == \E j \in DOMAIN msgs : j < i /\ msgs[j].type = "users"
WordsFit(msgs, d, e) ==
  \A i \in DOMAIN msgs : msgs[i].type # "users" =>
    Names(msgs[i]) /\ \A g \in msgs[i].users : IF UsersBefore(msgs, i) THEN Current(d, g) ELSE Fits(e, g)
OneUsers(msgs) == \A i, j \in DOMAIN msgs : msgs[i].type = "users" /\ msgs[j].type = "users" => i = j

Tables(d, e) ==
  /\ Settled(d) /\ Settled(e) /\ Agrees(d, e) /\ Agrees(e, d)
  /\ OneId(e, Kept(e.requests)) /\ WaitingFits(d, e)
Asks(p, d, e) ==
  /\ \A i \in DOMAIN p.msgs : p.msgs[i].type = "users" => RequestFits(p.msgs[i].users, d, p.asked)
  /\ WordsFit(p.msgs, d, e) /\ OneUsers(p.msgs)
Responds(p, d, e) ==
  /\ \A i \in DOMAIN p.msgs : p.msgs[i].type = "users" => ResponseFits(p.msgs[i].users, e)
  /\ WordsFit(p.msgs, e, d)
Travels(p, d, e) ==
  /\ OneId(d, p.asked) /\ (p.stage # "idle" => NoneWaits(d))
  /\ (p.stage = "request" => Asks(p, d, e)) /\ (p.stage = "response" => Responds(p, d, e))
Link(d, e, p) == Tables(d, e) /\ Travels(p, d, e) /\ MailFits(d) /\ (e.stuck \/ MailFits(e)) /\ Calm(d) /\ Calm(e)

----------------------------------------------------------------------------
\* What does not compare users leaves all that as it is, and says what is noted.

Steady(d, e) ==
  /\ Frame(d, e) /\ e.checked = d.checked
  /\ \A x \in Persons : e.match[x].verified = d.match[x].verified /\ (Has(d, x) => e.user[x].id = d.user[x].id)
SameInfo(d, e) == \A x \in Persons : e.user[x].info = d.user[x].info
MailGrows(d, e) ==
  \/ e.mail = d.mail
  \/ \E m : /\ e.mail = Append(d.mail, m) /\ m.type # "users"
            /\ (Still(d) => Names(m)) /\ \A g \in m.users : Current(e, g)
Said(d, e) == Steady(d, e) /\ SameInfo(d, e) /\ MailGrows(d, e)

LEMMA SteadyChain ==
  ASSUME NEW c, NEW d, NEW e, Steady(c, d), Steady(d, e)
  PROVE  Steady(c, e)
<1>1. Frame(c, e)
  BY FrameChain DEF Steady
<1>. QED
  BY <1>1 DEF Steady, Has

LEMMA SaidAfter ==
  ASSUME NEW c, NEW d, NEW e, Steady(c, d), SameInfo(c, d), d.mail = c.mail, Said(d, e)
  PROVE  Said(c, e)
<1>1. Steady(c, e)
  BY SteadyChain DEF Said
<1>2. SameInfo(c, e)
  BY DEF Said, SameInfo
<1>3. Still(c) => Still(d)
  BY PersonsAssumption DEF Still, SameInfo
<1>4. MailGrows(c, e)
  BY <1>3 DEF Said, MailGrows
<1>. QED
  BY <1>1, <1>2, <1>4 DEF Said

LEMMA SteadyHolds ==
  ASSUME NEW d, NEW e, Steady(d, e)
  PROVE  /\ Settled(d) => Settled(e)
         /\ \A f : (Agrees(d, f) => Agrees(e, f)) /\ (Agrees(f, d) => Agrees(f, e))
         /\ \A f : (Apart(d, f) => Apart(e, f)) /\ (Apart(f, d) => Apart(f, e))
         /\ \A asked : AskedApart(asked, d) => AskedApart(asked, e)
         /\ Kept(e.requests) = Kept(d.requests)
         /\ \A g : (Current(d, g) => Current(e, g)) /\ (Fits(d, g) => Fits(e, g))
<1>. /\ \A x \in Persons : /\ e.match[x].pseudo = d.match[x].pseudo /\ e.match[x].remote = d.match[x].remote
                           /\ e.match[x].verified = d.match[x].verified /\ (Has(d, x) => e.user[x].id = d.user[x].id)
     /\ e.requests = d.requests /\ e.checked = d.checked
  BY DEF Steady, Frame, SameMatch
<1>1. Settled(d) => Settled(e)
  BY DEF Settled, Verified, Has
<1>2. \A f : (Agrees(d, f) => Agrees(e, f)) /\ (Agrees(f, d) => Agrees(f, e))
  BY DEF Agrees, Verified
<1>3. \A f : (Apart(d, f) => Apart(e, f)) /\ (Apart(f, d) => Apart(f, e))
  BY DEF Apart
<1>4. \A asked : AskedApart(asked, d) => AskedApart(asked, e)
  BY DEF AskedApart
<1>5. \A g : (Current(d, g) => Current(e, g)) /\ (Fits(d, g) => Fits(e, g))
  BY DEF Current, Fits, Verified
<1>. QED
  BY <1>1, <1>2, <1>3, <1>4, <1>5

\* The same with conditions on people that are asked about.
LEMMA SteadyMessages ==
  ASSUME NEW d, NEW e, Steady(d, e)
  PROVE  /\ \A asked : (\A q \in asked : q.who \in Persons) /\ OneId(d, asked) => OneId(e, asked)
         /\ \A users, asked : RequestFits(users, d, asked) => RequestFits(users, e, asked)
         /\ \A users : ResponseFits(users, d) => ResponseFits(users, e)
         /\ \A f : (WaitingFits(d, f) => WaitingFits(e, f)) /\ (WaitingFits(f, d) => WaitingFits(f, e))
         /\ NoneWaits(d) => NoneWaits(e)
<1>. /\ \A x \in Persons : /\ e.match[x].pseudo = d.match[x].pseudo /\ e.match[x].remote = d.match[x].remote
                           /\ e.match[x].verified = d.match[x].verified
     /\ e.requests = d.requests
  BY DEF Steady, Frame, SameMatch
<1>1. \A asked : (\A q \in asked : q.who \in Persons) /\ OneId(d, asked) => OneId(e, asked)
  BY DEF OneId, Verified
<1>2. \A users, asked : RequestFits(users, d, asked) => RequestFits(users, e, asked)
  BY DEF RequestFits
<1>3. \A users : ResponseFits(users, d) => ResponseFits(users, e)
  BY DEF ResponseFits
<1>4. \A f : (WaitingFits(d, f) => WaitingFits(e, f)) /\ (WaitingFits(f, d) => WaitingFits(f, e))
  BY DEF WaitingFits
<1>5. NoneWaits(d) => NoneWaits(e)
  BY DEF NoneWaits
<1>. QED
  BY <1>1, <1>2, <1>3, <1>4, <1>5

\* The mail goes on saying what is noted.
LEMMA MailStillFits ==
  ASSUME NEW d, NEW e, Steady(d, e), MailGrows(d, e), Still(d), MailFits(d), NEW lim, d.mail \in Seq(Message(lim))
  PROVE  MailFits(e)
<1>1. \A g : Current(d, g) => Current(e, g)
  BY SteadyHolds
<1>2. CASE e.mail = d.mail
  BY <1>1, <1>2 DEF MailFits
<1>3. ASSUME NEW m, e.mail = Append(d.mail, m), Names(m), \A g \in m.users : Current(e, g)
      PROVE  MailFits(e)
  <2>. HIDE DEF Message
  <2>1. \A i \in DOMAIN e.mail : e.mail[i] = m \/ (i \in DOMAIN d.mail /\ e.mail[i] = d.mail[i])
    BY <1>3
  <2>. QED
    BY <1>1, <1>3, <2>1 DEF MailFits
<1>. QED
  BY <1>2, <1>3 DEF MailGrows

LEMMA MailedSaid ==
  ASSUME NEW lim, NEW d \in Db(lim), NEW type, type # "users", NEW users,
         Still(d) => Names([type |-> type, users |-> users]), \A g \in users : Current(d, g)
  PROVE  Said(d, Mailed(d, type, users))
<1>. DEFINE m == [type |-> type, users |-> users]
            e == Mailed(d, type, users)
<1>1. Frame(d, e)
  BY MailedFrame
<1>2. e.user = d.user /\ e.match = d.match /\ e.checked = d.checked /\ e.mail = Append(d.mail, m)
  BY DEF Mailed, Db
<1>3. m.type # "users" /\ m.users = users
  OBVIOUS
<1>. HIDE DEF e, m
<1>4. Steady(d, e)
  BY <1>1, <1>2 DEF Steady
<1>5. \A g \in m.users : Current(e, g)
  BY <1>2, <1>3 DEF Current
<1>6. MailGrows(d, e)
  BY <1>2, <1>3, <1>5 DEF MailGrows, m
<1>7. SameInfo(d, e)
  BY <1>2 DEF SameInfo
<1>. QED
  BY <1>4, <1>6, <1>7 DEF Said, e

LEMMA DescribedCurrent ==
  ASSUME NEW d, NEW x \in Persons
  PROVE  Current(d, Described(d, x)) /\ Described(d, x).sig = {[who |-> x, info |-> d.user[x].info]}
BY DEF Current, Described, Signature, Who

LEMMA NothingSaid ==
  ASSUME NEW d
  PROVE  Said(d, d) /\ Steady(d, d) /\ SameInfo(d, d)
BY DEF Said, Steady, SameInfo, MailGrows, Frame, SameMatch, SameUsersIn

LEMMA WithOnlineSaid ==
  ASSUME NEW lim, NEW d \in Db(lim)
  PROVE  Said(d, WithOnline(d))
<1>1. CASE OnlineUsers(d) = {}
  BY <1>1, NothingSaid DEF WithOnline
<1>2. CASE OnlineUsers(d) # {}
  <2>. DEFINE users == OnlineUsers(d)
  <2>1. \A g \in users : \E x \in Online : g = Described(d, x)
    BY DEF OnlineUsers
  <2>2. \A g \in users : \E x \in Online : x \in Persons /\ Current(d, g) /\ g.sig = {[who |-> x, info |-> d.user[x].info]}
    BY <2>1, DescribedCurrent, PersonsAssumption
  <2>. HIDE DEF users
  <2>3. Still(d) => Names([type |-> "online", users |-> users])
    BY <2>2 DEF Still, Names
  <2>4. "online" # "users" /\ \A g \in users : Current(d, g)
    BY <2>2
  <2>5. Said(d, Mailed(d, "online", users))
    BY <2>3, <2>4, MailedSaid
  <2>. QED
    BY <1>2, <2>5 DEF WithOnline, users
<1>. QED
  BY <1>1, <1>2

LEMMA ToldSaid ==
  ASSUME NEW lim, NEW d \in Db(lim), NEW X \in SUBSET Persons
  PROVE  Said(d, Told(d, X)) /\ Told(d, X).user = d.user
<1>1. CASE X = {}
  BY <1>1, NothingSaid DEF Told
<1>2. CASE X # {}
  <2>. DEFINE users == {Described(d, x) : x \in X}
              m     == [type |-> "sha256", users |-> users]
              e     == Mailed(d, "sha256", users)
              match == [x \in Persons |-> IF x \in X THEN [e.match[x] EXCEPT !.sent = TRUE] ELSE e.match[x]]
              f     == Told(d, X)
  <2>1. f = [e EXCEPT !.match = match]
    BY <1>2 DEF Told
  <2>2. e = [d EXCEPT !.mail = Append(@, m)] /\ m.type # "users" /\ m.users = users
    BY DEF Mailed
  <2>3. \A g \in users : Current(d, g)
    BY DescribedCurrent
  <2>4. e.match = d.match
    BY DEF Mailed, Db
  <2>5. \A x \in Persons : match[x].verified = d.match[x].verified /\ match[x].remote = d.match[x].remote
    BY <2>4 DEF Db, Match
  <2>6. Names(m)
    BY DEF Names
  <2>. HIDE DEF users, match, m, e
  <2>7. f.match = match /\ f.checked = d.checked /\ f.user = d.user /\ f.mail = Append(d.mail, m)
    BY <2>1, <2>2 DEF Db
  <2>. HIDE DEF f
  <2>8. Frame(d, f)
    BY ToldFrame DEF f
  <2>9. Steady(d, f)
    BY <2>5, <2>7, <2>8 DEF Steady
  <2>10. \A g \in m.users : Current(f, g)
    BY <2>2, <2>3, <2>5, <2>7 DEF Current
  <2>11. MailGrows(d, f)
    BY <2>2, <2>6, <2>7, <2>10 DEF MailGrows
  <2>12. SameInfo(d, f)
    BY <2>7 DEF SameInfo
  <2>. QED
    BY <2>7, <2>9, <2>11, <2>12 DEF Said, f
<1>. QED
  BY <1>1, <1>2

LEMMA WordsSteady ==
  ASSUME NEW lim, NEW d \in Db(lim), NEW users
  PROVE  /\ Steady(d, ReceiveOnline(d, users)) /\ SameInfo(d, ReceiveOnline(d, users)) /\ ReceiveOnline(d, users).mail = d.mail
         /\ Steady(d, ReceiveSha256(d, users)) /\ SameInfo(d, ReceiveSha256(d, users)) /\ ReceiveSha256(d, users).mail = d.mail
<1>. DEFINE e == ReceiveOnline(d, users)
            f == ReceiveSha256(d, users)
            valid == UNION {BySignature(d, g) : g \in users}
            match == [x \in Persons |-> IF Newer(d, users, x) = {} THEN d.match[x]
                        ELSE [d.match[x] EXCEPT !.remoteAt = Max({g.at : g \in Newer(d, users, x)})]]
            user1 == [y \in Persons |-> IF y \in valid THEN [d.user[y] EXCEPT !.pending = FALSE] ELSE d.user[y]]
            user2 == [x \in Persons |-> IF Newer(d, users, x) # {} THEN [d.user[x] EXCEPT !.pending = TRUE]
                        ELSE IF x \in valid THEN [d.user[x] EXCEPT !.pending = FALSE] ELSE d.user[x]]
<1>0. Frame(d, e) /\ Frame(d, f)
  BY WordsFrame
<1>1. e.match = d.match /\ e.mail = d.mail /\ e.checked = d.checked /\ e.user = user1
  BY DEF ReceiveOnline, Db
<1>2. f.match = match /\ f.mail = d.mail /\ f.checked = d.checked /\ f.user = user2
  BY DEF ReceiveSha256, Db
<1>. HIDE DEF valid
<1>3. \A x \in Persons : match[x].verified = d.match[x].verified
  BY DEF Db, Match
<1>4. \A x \in Persons : user1[x].id = d.user[x].id /\ user1[x].info = d.user[x].info
  BY DEF Db, User
<1>5. \A x \in Persons : user2[x].id = d.user[x].id /\ user2[x].info = d.user[x].info
  BY DEF Db, User
<1>. HIDE DEF e, f, match, user1, user2
<1>6. Steady(d, e) /\ SameInfo(d, e)
  BY <1>0, <1>1, <1>4 DEF Steady, SameInfo
<1>7. Steady(d, f) /\ SameInfo(d, f)
  BY <1>0, <1>2, <1>3, <1>5 DEF Steady, SameInfo
<1>. QED
  BY <1>1, <1>2, <1>6, <1>7 DEF e, f

\* What is said under the id that is noted fits.
LEMMA CurrentFits ==
  ASSUME NEW d, NEW e, Settled(e), Agrees(e, d), Apart(e, d), NEW g, Current(d, g)
  PROVE  Fits(e, g)
<1>. SUFFICES ASSUME NEW x \in Persons, NEW y \in Persons, x \in Who(g.sig), Verified(e, y)
              PROVE  e.match[y].pseudo = g.pseudo <=> y = x
  BY DEF Fits
<1>1. g.pseudo = d.match[x].remote
  BY DEF Current
<1>2. e.match[y].pseudo # 0 /\ d.match[y].remote = e.match[y].pseudo
  BY DEF Settled, Agrees
<1>. QED
  BY <1>1, <1>2 DEF Apart

\* A message that fits raises no exception as long as users who are online keep their profiles.
LEMMA WordsCalm ==
  ASSUME NEW lim, NEW d \in Db(lim), Settled(d), Calm(d), NEW m, Names(m), \A g \in m.users : Fits(d, g)
  PROVE  /\ m.type = "online" => Calm(ReceiveOnline(d, m.users))
         /\ Calm(ReceiveSha256(d, m.users))
<1>. DEFINE users == m.users
            e == ReceiveOnline(d, users)
            f == ReceiveSha256(d, users)
            valid == UNION {BySignature(d, g) : g \in users}
<1>. SUFFICES ASSUME Quiet
              PROVE  /\ m.type = "online" => ~e.stuck /\ \A x \in Online : e.user[x].info = 0
                     /\ ~f.stuck /\ \A x \in Online : f.user[x].info = 0
  BY DEF Calm
<1>1. \A x \in Online : e.user[x].info = 0 /\ f.user[x].info = 0
  BY WordsSteady, PersonsAssumption DEF SameInfo, Calm
<1>2. e.stuck <=> \E g \in users : BySignature(d, g) = {} /\ ByPseudo(d, g) # {}
  BY DEF ReceiveOnline, Db
<1>3. f.stuck <=> \E x \in valid : \A g \in users : g.pseudo # d.match[x].pseudo
  BY DEF ReceiveSha256, Db
<1>4. ASSUME m.type = "online", NEW g \in users, NEW y \in ByPseudo(d, g)
      PROVE  BySignature(d, g) # {}
  <2>1. PICK x \in Online : g.sig = {[who |-> x, info |-> 0]}
    BY <1>4 DEF Names
  <2>2. x \in Persons /\ x \in Who(g.sig)
    BY <2>1, PersonsAssumption DEF Who
  <2>3. y \in Persons /\ Verified(d, y) /\ d.match[y].pseudo = g.pseudo
    BY <1>4 DEF ByPseudo
  <2>4. y = x
    BY <2>2, <2>3 DEF Fits
  <2>5. Has(d, x) /\ d.user[x].info = 0
    BY <2>1, <2>3, <2>4 DEF Settled, Calm
  <2>6. x \in BySignature(d, g)
    BY <2>1, <2>2, <2>3, <2>4, <2>5 DEF BySignature, Matches, Signature
  <2>. QED
    BY <2>6
<1>5. ASSUME NEW g \in users, NEW x \in BySignature(d, g)
      PROVE  g.pseudo = d.match[x].pseudo
  <2>1. x \in Persons /\ g.sig = {[who |-> x, info |-> d.user[x].info]} /\ Verified(d, x)
    BY <1>5, MatchIsSame DEF BySignature
  <2>2. x \in Who(g.sig)
    BY <2>1 DEF Who
  <2>. QED
    BY <2>1, <2>2 DEF Fits
<1>6. ~f.stuck
  BY <1>3, <1>5
<1>7. m.type = "online" => ~e.stuck
  BY <1>2, <1>4
<1>. QED
  BY <1>1, <1>6, <1>7

----------------------------------------------------------------------------
\* What the comparison of users does to it.

LEMMA KeptOk ==
  ASSUME NEW lim \in Nat, NEW d, DbOk(d, lim)
  PROVE  /\ AskedOk(d, Kept(d.requests))
         /\ \A q \in Kept(d.requests) : \E r \in d.requests : r.id > 0 /\ r.id = q.id /\ r.who = {q.who}
<1>1. ASSUME NEW q \in Kept(d.requests)
      PROVE  /\ q \in [id : Nat \ {0}, who : Persons] /\ Has(d, q.who)
             /\ \E r \in d.requests : r.id > 0 /\ r.id = q.id /\ r.who = {q.who}
  <2>1. PICK r \in d.requests : r.id > 0 /\ q = [id |-> r.id, who |-> CHOOSE x \in r.who : TRUE]
    BY DEF Kept
  <2>2. PICK x \in Persons : r.who = {x} /\ Has(d, x)
    BY <2>1 DEF DbOk, RequestsOk
  <2>3. (CHOOSE y \in r.who : TRUE) = x
    BY <2>2
  <2>4. r.id \in Nat \ {0}
    BY <2>1 DEF DbOk, Db, Request
  <2>5. q = [id |-> r.id, who |-> x]
    BY <2>1, <2>3
  <2>. QED
    BY <2>1, <2>2, <2>4, <2>5
<1>. QED
  BY <1>1 DEF AskedOk

LEMMA KeptAgain ==
  ASSUME NEW lim \in Nat, NEW d, DbOk(d, lim)
  PROVE  Kept(KeptQuestions(d)) = Questions(d)
<1>1. \A q \in Questions(d) : q.id > 0 /\ q = [id |-> q.id, who |-> q.who]
  <2>1. \A q \in Questions(d) : q.id \in Nat \ {0}
    BY QuestionsOk DEF AskedOk
  <2>2. \A q \in Questions(d) : q = [id |-> q.id, who |-> q.who]
    BY DEF Questions
  <2>. QED
    BY <2>1, <2>2
<1>2. ASSUME NEW q \in Questions(d)
      PROVE  \E r \in KeptQuestions(d) : r.id > 0 /\ q = [id |-> r.id, who |-> CHOOSE x \in r.who : TRUE]
  <2>. DEFINE r == [id |-> q.id, sig |-> {}, who |-> {q.who}]
  <2>1. r \in KeptQuestions(d) /\ r.id = q.id /\ r.who = {q.who}
    BY DEF KeptQuestions
  <2>2. (CHOOSE x \in r.who : TRUE) = q.who
    BY <2>1
  <2>. HIDE DEF r
  <2>. QED
    BY <1>1, <2>1, <2>2
<1>3. ASSUME NEW r \in KeptQuestions(d)
      PROVE  [id |-> r.id, who |-> CHOOSE x \in r.who : TRUE] \in Questions(d)
  <2>1. PICK q \in Questions(d) : r = [id |-> q.id, sig |-> {}, who |-> {q.who}]
    BY DEF KeptQuestions
  <2>2. (CHOOSE x \in r.who : TRUE) = q.who /\ r.id = q.id
    BY <2>1
  <2>. QED
    BY <1>1, <2>2
<1>. QED
  BY <1>2, <1>3 DEF Kept

\* A verified user was compared before, so that it is asked about under the same id.
LEMMA QuestionsOneId ==
  ASSUME NEW lim \in Nat, NEW d, DbOk(d, lim), Settled(d)
  PROVE  OneId(d, Questions(d))
<1>1. \A q \in Questions(d) : q.who \in Asked(d) /\ q.id = PseudoId(d, q.who)
  BY DEF Questions
<1>2. ASSUME NEW x \in Asked(d), Verified(d, x)
      PROVE  PseudoId(d, x) = d.match[x].pseudo
  <2>1. x \in Persons /\ d.user[x].id \in Nat /\ d.checked \in Nat
    BY AskedHas DEF DbOk, Db
  <2>2. d.user[x].id <= d.checked /\ d.match[x].pseudo # 0
    BY <1>2, <2>1 DEF Settled
  <2>3. x \notin NewUsers(d)
    BY <2>1, <2>2 DEF NewUsers
  <2>4. x \notin Fresh(d)
    BY <2>2, <2>3 DEF Fresh
  <2>. QED
    BY <2>4 DEF PseudoId
<1>. QED
  BY <1>1, <1>2 DEF OneId

\* A signature that is found is noted under the id that the other server has for the user.
AllPut(asked, questions) == \A u \in asked, x \in Persons : x \in Who(u.sig) => [id |-> u.id, who |-> x] \in questions
NotedFits(d, asked, f) ==
  /\ \A u \in asked, x \in Persons : x \in Who(u.sig) /\ Matches(d, u.sig) # {} => f.match[x].remote = u.id
  /\ \A x \in Persons : f.match[x].verified = d.match[x].verified /\ f.match[x].pseudo = d.match[x].pseudo

LEMMA NotedAgrees ==
  ASSUME NEW lim \in Nat, NEW d, DbOk(d, lim), NEW e, Agrees(e, d), NEW asked, \A u \in asked : u.id \in Nat \ {0},
         NEW questions, OneId(e, questions), AllPut(asked, questions), NEW f, f = Noted(d, asked)
  PROVE  Agrees(e, f) /\ NotedFits(d, asked, f)
<1>1. \A x \in Persons :
        /\ f.match[x] = [d.match[x] EXCEPT !.remote = f.match[x].remote]
        /\ \/ f.match[x].remote = d.match[x].remote /\ \A u \in asked : x \notin Matches(d, u.sig)
           \/ \E u \in asked : x \in Matches(d, u.sig) /\ f.match[x].remote = u.id
  BY NotedOk
<1>2. ASSUME NEW u \in asked, NEW x \in Persons, x \in Matches(d, u.sig)
      PROVE  [id |-> u.id, who |-> x] \in questions
  <2>1. u.sig = {[who |-> x, info |-> d.user[x].info]}
    BY <1>2, MatchIsSame
  <2>2. x \in Who(u.sig)
    BY <2>1 DEF Who
  <2>. QED
    BY <2>2 DEF AllPut
<1>3. ASSUME NEW x \in Persons, Verified(e, x)
      PROVE  f.match[x].remote = e.match[x].pseudo
  <2>1. ASSUME NEW u \in asked, x \in Matches(d, u.sig)
        PROVE  u.id = e.match[x].pseudo
    <3>1. [id |-> u.id, who |-> x] \in questions
      BY <1>2, <2>1
    <3>. QED
      BY <1>3, <3>1 DEF OneId
  <2>. QED
    BY <1>1, <1>3, <2>1 DEF Agrees
<1>4. ASSUME NEW u \in asked, NEW x \in Persons, x \in Who(u.sig), Matches(d, u.sig) # {}
      PROVE  f.match[x].remote = u.id
  <2>1. PICK y : y \in Matches(d, u.sig)
    BY <1>4
  <2>2. x = y
    BY <1>4, <2>1, MatchIsSame DEF Who
  <2>3. PICK v \in asked : x \in Matches(d, v.sig) /\ f.match[x].remote = v.id
    BY <1>1, <2>1, <2>2
  <2>4. [id |-> u.id, who |-> x] \in questions /\ [id |-> v.id, who |-> x] \in questions
    BY <1>2, <2>1, <2>2, <2>3
  <2>5. u.id = v.id
    BY <2>4 DEF OneId
  <2>. QED
    BY <2>3, <2>5
<1>5. \A x \in Persons : d.match[x] \in Match(lim)
  BY DEF DbOk, Db
<1>6. \A x \in Persons : f.match[x].verified = d.match[x].verified /\ f.match[x].pseudo = d.match[x].pseudo
  BY <1>1, <1>5 DEF Match
<1>7. Agrees(e, f)
  BY <1>3 DEF Agrees
<1>. QED
  BY <1>4, <1>6, <1>7 DEF NotedFits

\* Users who are verified by answers are compared.
LEMMA ComparedChecked ==
  ASSUME NEW now \in Nat \ {0}, NEW d, DbOk(d, now), NEW questions, AskedOk(d, questions), NEW answers,
         NEW e, e = Compared(d, questions, answers, now)
  PROVE  /\ e.checked >= d.checked /\ e.checked \in Nat
         /\ \A q \in questions : Confirmed(d, q, answers) => d.user[q.who].id <= e.checked
<1>. DEFINE asked == {q \in questions : \E u \in answers : u.id = q.id}
            ids   == {d.user[q.who].id : q \in asked}
            checked == Max({d.checked} \union ids)
            f == [x \in Persons |-> d.user[x].id]
<1>1. f \in [Persons -> Nat] /\ d.checked \in Nat
  BY DEF DbOk, Db, User
<1>2. \A q \in asked : q.who \in Persons
  BY DEF AskedOk
<1>3. ids \in SUBSET {f[x] : x \in Persons}
  BY <1>2
<1>4. checked \in Nat /\ checked >= d.checked /\ \A m \in ids : checked >= m
  <2>. HIDE DEF f, ids
  <2>. QED  BY <1>1, <1>3, MaxOk
<1>5. e.checked = checked
  BY DEF Compared, DbOk, Db
<1>. HIDE DEF checked
<1>6. ASSUME NEW q \in questions, Confirmed(d, q, answers)
      PROVE  d.user[q.who].id <= checked
  <2>1. d.user[q.who].id \in ids /\ d.user[q.who].id \in Nat
    BY <1>1, <1>2, <1>6 DEF Confirmed
  <2>. QED
    BY <1>4, <2>1
<1>. QED
  BY <1>4, <1>5, <1>6

LEMMA ComparedAgrees ==
  ASSUME NEW now \in Nat \ {0}, NEW d, Dated(d, now), NEW e, Settled(d), Agrees(d, e), Agrees(e, d), Apart(d, e),
         NEW questions, AskedOk(d, questions), AskedApart(questions, e), NEW answers,
         \A u \in answers, x \in Persons : x \in Who(u.sig) => e.match[x].remote = u.id,
         NEW f, f = Compared(d, questions, answers, now)
  PROVE  /\ Settled(f) /\ Agrees(f, e) /\ Agrees(e, f) /\ Apart(f, e)
         /\ \A x \in Persons : f.match[x].remote = d.match[x].remote
<1>1. Dated(f, now) /\ SameRest(d, f) /\ Verifies(d, f.match, questions, answers)
  BY ComparedOk
<1>2. DbOk(d, now) /\ DbOk(f, now)
  BY <1>1 DEF Dated
<1>3. /\ f.checked >= d.checked /\ f.checked \in Nat
      /\ \A q \in questions : Confirmed(d, q, answers) => d.user[q.who].id <= f.checked
  BY <1>2, ComparedChecked
<1>4. \A x \in Persons : d.match[x] \in Match(now) /\ d.user[x].id \in Nat /\ d.checked \in Nat
  BY <1>2 DEF DbOk, Db, User
<1>5. \A x \in Persons : f.user[x].id = d.user[x].id
  BY <1>1 DEF SameRest
<1>6. ASSUME NEW x \in Persons
      PROVE  \/ f.match[x] = d.match[x]
             \/ /\ f.match[x].remote = d.match[x].remote /\ f.match[x].pseudo = e.match[x].remote
                /\ f.match[x].pseudo \in Nat \ {0} /\ Has(f, x) /\ f.user[x].id <= f.checked
                /\ \A y \in Persons : f.match[x].pseudo = e.match[y].remote => x = y
  <2>1. ASSUME NEW q \in questions, q.who = x, Confirmed(d, q, answers),
               f.match[x] = [d.match[x] EXCEPT !.verified = TRUE, !.pseudo = q.id]
        PROVE  /\ f.match[x].remote = d.match[x].remote /\ f.match[x].pseudo = e.match[x].remote
               /\ f.match[x].pseudo \in Nat \ {0} /\ Has(f, x) /\ f.user[x].id <= f.checked
               /\ \A y \in Persons : f.match[x].pseudo = e.match[y].remote => x = y
    <3>1. f.match[x].pseudo = q.id /\ f.match[x].remote = d.match[x].remote
      BY <1>4, <2>1 DEF Match
    <3>2. q.id \in Nat \ {0} /\ Has(f, x)
      BY <1>5, <2>1 DEF AskedOk, Has
    <3>3. PICK u \in answers : u.id = q.id /\ u.sig = Signature(d, x)
      BY <2>1 DEF Confirmed
    <3>7. x \in Who(u.sig)
      BY <3>3 DEF Signature, Who
    <3>4. e.match[x].remote = q.id
      BY <3>3, <3>7
    <3>5. f.user[x].id <= f.checked
      BY <1>3, <1>5, <2>1
    <3>6. \A y \in Persons : q.id = e.match[y].remote => x = y
      BY <2>1 DEF AskedApart
    <3>. QED
      BY <3>1, <3>2, <3>4, <3>5, <3>6
  <2>. QED
    BY <1>1, <2>1 DEF Verifies
<1>7. \A x \in Persons : f.match[x].remote = d.match[x].remote
  BY <1>6
<1>8. Settled(f)
  BY <1>3, <1>4, <1>5, <1>6 DEF Settled, Verified, Has
<1>9. Agrees(f, e)
  BY <1>6 DEF Agrees, Verified
<1>10. Agrees(e, f)
  BY <1>7 DEF Agrees
<1>11. Apart(f, e)
  BY <1>6 DEF Apart
<1>. QED
  BY <1>7, <1>8, <1>9, <1>10, <1>11

LEMMA AfterRest ==
  ASSUME NEW lim \in Nat, NEW d, DbOk(d, lim)
  PROVE  /\ AfterQuestions(d).checked = d.checked /\ AfterQuestions(d).user = d.user
         /\ \A theirs : Replied(d, theirs).checked = d.checked /\ Replied(d, theirs).user = d.user
         /\ UsersRequest(d).d.checked = d.checked /\ UsersRequest(d).d.user = d.user
<1>1. ASSUME NEW f, DbOk(f, lim)
      PROVE  AfterQuestions(f).checked = f.checked /\ AfterQuestions(f).user = f.user /\ AfterQuestions(f) \in Db(lim)
  <2>1. AfterQuestions(f).checked = f.checked
    BY <1>1 DEF AfterQuestions, DbOk, Db
  <2>. QED
    BY <1>1, <2>1, AfterQuestionsOk DEF DbOk
<1>2. ASSUME NEW theirs
      PROVE  Replied(d, theirs).checked = d.checked /\ Replied(d, theirs).user = d.user
  <2>. DEFINE f == AfterQuestions(d)
  <2>1. f.checked = d.checked /\ f.user = d.user /\ f \in Db(lim)
    BY <1>1
  <2>2. \A g, m : [f EXCEPT !.requests = g, !.mail = m].checked = f.checked /\ [f EXCEPT !.requests = g, !.mail = m].user = f.user
    BY <2>1 DEF Db
  <2>3. \E g, m : Replied(d, theirs) = [[f EXCEPT !.requests = g] EXCEPT !.mail = m]
    BY DEF Replied, Mailed
  <2>. HIDE DEF f
  <2>4. \A g, m : [[f EXCEPT !.requests = g] EXCEPT !.mail = m].checked = f.checked /\ [[f EXCEPT !.requests = g] EXCEPT !.mail = m].user = f.user
    BY <2>1 DEF Db
  <2>. QED
    BY <2>1, <2>3, <2>4
<1>3. UsersRequest(d).d.checked = d.checked /\ UsersRequest(d).d.user = d.user
  <2>. DEFINE e == Noted(d, Waiting(d))
              f == AfterQuestions(e)
  <2>1. \A u \in Waiting(d) : u.id \in Nat \ {0}
    BY DEF DbOk, Db, Request, Waiting
  <2>2. DbOk(e, lim) /\ e = [d EXCEPT !.match = e.match]
    BY <2>1, NotedOk
  <2>. HIDE DEF e
  <2>3. e.checked = d.checked /\ e.user = d.user
    BY <2>2 DEF DbOk, Db
  <2>4. f.checked = e.checked /\ f.user = e.user /\ f \in Db(lim)
    BY <1>1, <2>2
  <2>. HIDE DEF f
  <2>5. \E g : UsersRequest(d).d = [f EXCEPT !.requests = g]
    BY DEF UsersRequest, f, e, Waiting
  <2>6. \A g : [f EXCEPT !.requests = g].checked = f.checked /\ [f EXCEPT !.requests = g].user = f.user
    BY <2>4 DEF Db
  <2>. QED
    BY <2>3, <2>4, <2>5, <2>6
<1>. QED
  BY <1>1, <1>2, <1>3

\* The same tables for what is known of verified users.
LEMMA SameKnowledge ==
  ASSUME NEW d, NEW f, NEW e, f.checked = d.checked, \A x \in Persons : f.user[x].id = d.user[x].id,
         \A x \in Persons : f.match[x].verified = d.match[x].verified /\ f.match[x].pseudo = d.match[x].pseudo
  PROVE  /\ Settled(d) => Settled(f)
         /\ Agrees(d, e) => Agrees(f, e)
         /\ Apart(d, e) => Apart(f, e)
<1>1. Settled(d) => Settled(f)
  BY DEF Settled, Verified, Has
<1>2. Agrees(d, e) => Agrees(f, e)
  BY DEF Agrees, Verified
<1>3. Apart(d, e) => Apart(f, e)
  BY DEF Apart
<1>. QED
  BY <1>1, <1>2, <1>3

\* The questions of a ping, and the answers to those that waited.
LEMMA SentLinks ==
  ASSUME NEW lim \in Nat, NEW d, DbOk(d, lim), NEW e, Settled(d), Agrees(d, e), Agrees(e, d),
         OneId(e, Kept(e.requests)), WaitingFits(d, e), NEW r, r = UsersRequest(d)
  PROVE  /\ Settled(r.d) /\ Agrees(r.d, e) /\ Agrees(e, r.d) /\ NoneWaits(r.d)
         /\ OneId(r.d, r.asked) /\ RequestFits(r.users, r.d, r.asked) /\ SameInfo(d, r.d)
<1>. DEFINE f == Noted(d, Waiting(d))
            asks == {[id |-> q.id, sig |-> Signature(d, q.who)] : q \in Questions(d)}
<1>1. /\ r.asked = Questions(d) /\ r.users = Answered(d, Waiting(d), -1) \union asks
      /\ r.d.match = f.match /\ r.d.requests = {q \in d.requests : q.id > 0}
      /\ \A u \in Waiting(d) : u \in Item /\ u.id > 0
      /\ r.d.checked = d.checked /\ r.d.user = d.user
  BY UsersRequestOk, AfterRest
<1>2. ASSUME NEW u \in Waiting(d), NEW x \in Persons, x \in Who(u.sig)
      PROVE  [id |-> u.id, who |-> x] \in Kept(e.requests)
  <2>1. PICK q \in d.requests : q.id < 0 /\ u = [id |-> -q.id, sig |-> q.sig]
    BY DEF Waiting
  <2>2. u.id = -q.id /\ u.sig = q.sig
    BY <2>1
  <2>3. x \in Who(q.sig)
    BY <1>2, <2>2
  <2>4. [id |-> -q.id, who |-> x] \in Kept(e.requests)
    BY <2>1, <2>3 DEF WaitingFits
  <2>. QED
    BY <2>2, <2>4
<1>3. \A u \in Waiting(d) : u.id \in Nat \ {0}
  BY <1>1 DEF Item
<1>4. /\ Agrees(e, f)
      /\ \A u \in Waiting(d), x \in Persons : x \in Who(u.sig) /\ Matches(d, u.sig) # {} => f.match[x].remote = u.id
      /\ \A x \in Persons : f.match[x].verified = d.match[x].verified /\ f.match[x].pseudo = d.match[x].pseudo
  <2>1. AllPut(Waiting(d), Kept(e.requests))
    BY <1>2 DEF AllPut
  <2>. QED
    BY <1>3, <2>1, NotedAgrees DEF NotedFits
<1>. HIDE DEF f, asks
<1>5. Settled(r.d) /\ Agrees(r.d, e)
  <2>1. \A x \in Persons : r.d.match[x].verified = d.match[x].verified /\ r.d.match[x].pseudo = d.match[x].pseudo
    BY <1>1, <1>4
  <2>2. r.d.checked = d.checked /\ \A x \in Persons : r.d.user[x].id = d.user[x].id
    BY <1>1
  <2>. QED
    BY <2>1, <2>2, SameKnowledge
<1>6. Agrees(e, r.d)
  BY <1>1, <1>4 DEF Agrees
<1>7. NoneWaits(r.d)
  BY <1>1 DEF NoneWaits
<1>8. OneId(r.d, r.asked)
  <2>1. OneId(d, Questions(d)) /\ \A q \in Questions(d) : q.who \in Persons
    BY QuestionsOneId, QuestionsOk DEF AskedOk
  <2>. QED
    BY <1>1, <1>4, <2>1 DEF OneId, Verified
<1>9. ASSUME NEW u \in asks, NEW x \in Persons, x \in Who(u.sig)
      PROVE  u.id > 0 /\ [id |-> u.id, who |-> x] \in Questions(d)
  <2>1. PICK q \in Questions(d) : u = [id |-> q.id, sig |-> Signature(d, q.who)]
    BY DEF asks
  <2>2. u.id = q.id /\ u.sig = Signature(d, q.who) /\ q.id \in Nat \ {0} /\ q = [id |-> q.id, who |-> q.who]
    BY <2>1, QuestionsOk DEF AskedOk, Questions
  <2>3. x = q.who
    BY <1>9, <2>2 DEF Signature, Who
  <2>. QED
    BY <2>2, <2>3
<1>10. ASSUME NEW u \in Answered(d, Waiting(d), -1), NEW x \in Persons, x \in Who(u.sig)
       PROVE  u.id < 0 /\ f.match[x].remote = -u.id
  <2>1. PICK v \in Waiting(d) : u = [id |-> (-1) * v.id, sig |-> IF Matches(d, v.sig) = {} THEN {} ELSE v.sig]
    BY DEF Answered
  <2>2. Matches(d, v.sig) # {} /\ u.sig = v.sig
    BY <1>10, <2>1 DEF Who
  <2>3. f.match[x].remote = v.id
    BY <1>4, <1>10, <2>2
  <2>4. v.id \in Nat \ {0} /\ u.id = (-1) * v.id
    BY <1>3, <2>1
  <2>. QED
    BY <2>3, <2>4
<1>11. RequestFits(r.users, r.d, r.asked)
  <2>. SUFFICES ASSUME NEW u \in r.users, NEW x \in Persons, x \in Who(u.sig)
                PROVE  /\ u.id > 0 => [id |-> u.id, who |-> x] \in r.asked
                       /\ u.id < 0 => r.d.match[x].remote = -u.id
    BY DEF RequestFits
  <2>1. u \in asks => u.id \in Int
    BY QuestionsOk DEF asks, AskedOk
  <2>2. u \in Answered(d, Waiting(d), -1) => u.id \in Int
    BY <1>3 DEF Answered
  <2>. QED
    BY <1>1, <1>9, <1>10, <2>1, <2>2
<1>12. SameInfo(d, r.d)
  BY <1>1 DEF SameInfo
<1>. QED
  BY <1>5, <1>6, <1>7, <1>8, <1>11, <1>12

\* The questions and answers of a response.
LEMMA ResponseLinks ==
  ASSUME NEW now \in Nat \ {0}, NEW d, Dated(d, now), NEW e, Settled(d), Agrees(d, e), Agrees(e, d), Apart(d, e),
         NEW asked, AskedOk(d, asked), AskedApart(asked, e), NEW users \in SUBSET Item, ResponseFits(users, e),
         WaitingFits(d, e), NEW f, f = ReceiveUsersResponse(d, users, asked, now)
  PROVE  /\ Settled(f) /\ Agrees(f, e) /\ Agrees(e, f) /\ Apart(f, e) /\ WaitingFits(f, e) /\ SameInfo(d, f)
         /\ \A x \in Persons : f.match[x].remote = d.match[x].remote
<1>. DEFINE g == Compared(d, asked, AnswersIn(users), now)
<1>1. \A u \in AnswersIn(users), x \in Persons : x \in Who(u.sig) => e.match[x].remote = u.id
  BY DEF AnswersIn, ResponseFits
<1>2. g = Compared(d, asked, AnswersIn(users), now)
  OBVIOUS
<1>. HIDE DEF g
<1>3. /\ Settled(g) /\ Agrees(g, e) /\ Agrees(e, g) /\ Apart(g, e)
      /\ \A x \in Persons : g.match[x].remote = d.match[x].remote
  BY <1>1, <1>2, ComparedAgrees
<1>4. Dated(g, now)
  BY <1>2, ComparedOk
<1>5. f.match = g.match /\ f.user = g.user /\ f.checked = g.checked
  <2>1. \E reqs : f = [g EXCEPT !.requests = reqs]
    BY <1>2 DEF ReceiveUsersResponse, AnswersIn
  <2>. QED
    BY <1>4, <2>1 DEF Dated, DbOk, Db
<1>6. Settled(f) /\ Agrees(f, e) /\ Apart(f, e)
  <2>1. \A x \in Persons : f.match[x].verified = g.match[x].verified /\ f.match[x].pseudo = g.match[x].pseudo
    BY <1>5
  <2>2. f.checked = g.checked /\ \A x \in Persons : f.user[x].id = g.user[x].id
    BY <1>5
  <2>. QED
    BY <1>3, <2>1, <2>2, SameKnowledge
<1>7. Agrees(e, f)
  BY <1>3, <1>5 DEF Agrees
<1>8. Keeps(d, f, users) /\ SameInfo(d, f)
  BY ReceiveUsersResponseOk DEF SameInfo
<1>9. WaitingFits(f, e)
  <2>. SUFFICES ASSUME NEW r \in f.requests, NEW x \in Persons, r.id < 0, x \in Who(r.sig)
                PROVE  [id |-> -r.id, who |-> x] \in Kept(e.requests)
    BY DEF WaitingFits
  <2>1. CASE r \in d.requests
    BY <2>1 DEF WaitingFits
  <2>2. ASSUME NEW u \in users, u.id < 0, r = [id |-> u.id, sig |-> u.sig, who |-> {}]
        PROVE  [id |-> -r.id, who |-> x] \in Kept(e.requests)
    <3>1. r.id = u.id /\ r.sig = u.sig
      BY <2>2
    <3>2. x \in Who(u.sig)
      BY <3>1
    <3>. QED
      BY <2>2, <3>1, <3>2 DEF ResponseFits
  <2>. QED
    BY <1>8, <2>1, <2>2 DEF Keeps
<1>. QED
  BY <1>3, <1>5, <1>6, <1>7, <1>8, <1>9

\* The pinged server answers, and puts its own questions.
Replies(d, f) == \E m : f.mail = Append(d.mail, m) /\ m.type = "users" /\ ResponseFits(m.users, f)

LEMMA ReplyLinks ==
  ASSUME NEW now \in Nat \ {0}, NEW d, Dated(d, now), NEW e, Settled(d), Agrees(d, e), Agrees(e, d), Apart(d, e),
         AskedApart(Kept(d.requests), e), NEW users \in SUBSET Item, NEW asked, OneId(e, asked), RequestFits(users, e, asked),
         NEW f, f = ReceiveUsersRequest(d, users, now)
  PROVE  /\ Settled(f) /\ Agrees(f, e) /\ Agrees(e, f) /\ Apart(f, e) /\ OneId(f, Kept(f.requests))
         /\ SameInfo(d, f) /\ f.stuck = d.stuck /\ Replies(d, f)
<1>. DEFINE theirs  == {u \in users : u.id > 0}
            answers == {[id |-> -u.id, sig |-> u.sig] : u \in users \ theirs}
            mine    == Kept(d.requests)
            h == Noted(d, theirs)
            k == Compared(h, mine, answers, now)
<1>0. DbOk(d, now) /\ d \in Db(now)
  BY DEF Dated, DbOk
<1>1. theirs \in SUBSET Item /\ (\A u \in theirs : u.id \in Nat \ {0})
  BY DEF Item
<1>2. AllPut(theirs, asked)
  BY DEF RequestFits, AllPut
<1>3. ASSUME NEW u \in answers, NEW x \in Persons, x \in Who(u.sig)
      PROVE  e.match[x].remote = u.id
  <2>1. PICK v \in users \ theirs : u = [id |-> -v.id, sig |-> v.sig]
    OBVIOUS
  <2>2. u.id = -v.id /\ u.sig = v.sig
    BY <2>1
  <2>3. x \in Who(v.sig) /\ v.id < 0
    BY <1>3, <2>1, <2>2 DEF Item
  <2>. QED
    BY <2>1, <2>2, <2>3 DEF RequestFits
<1>. HIDE DEF theirs
<1>4. /\ DbOk(h, now) /\ SameTimes(d, h) /\ h = [d EXCEPT !.match = h.match]
  BY <1>0, <1>1, NotedOk
<1>5. /\ Agrees(e, h)
      /\ \A u \in theirs, x \in Persons : x \in Who(u.sig) /\ Matches(d, u.sig) # {} => h.match[x].remote = u.id
      /\ \A x \in Persons : h.match[x].verified = d.match[x].verified /\ h.match[x].pseudo = d.match[x].pseudo
  <2>1. h = Noted(d, theirs)
    OBVIOUS
  <2>. HIDE DEF h
  <2>2. Agrees(e, h) /\ NotedFits(d, theirs, h)
    BY <1>0, <1>1, <1>2, <2>1, NotedAgrees
  <2>. QED
    BY <2>2 DEF NotedFits
<1>6. d \in Db(now - 1) => h \in Db(now - 1)
  <2>. SUFFICES ASSUME d \in Db(now - 1) PROVE h \in Db(now - 1)
    OBVIOUS
  <2>1. DbOk(d, now - 1)
    BY DEF Dated, DbOk
  <2>. QED
    BY <1>1, <2>1, NotedOk DEF DbOk
<1>7. k = Compared(h, mine, answers, now) /\ f = Replied(k, theirs)
  BY DEF ReceiveUsersRequest, With, theirs, Kept
<1>. HIDE DEF h, k, answers, mine
<1>8. Dated(h, now)
  BY <1>4, <1>6, DatedOk DEF DbOk
<1>9. h.user = d.user /\ h.checked = d.checked /\ h.requests = d.requests /\ h.mail = d.mail /\ h.stuck = d.stuck
  BY <1>0, <1>4 DEF Db
<1>10. Settled(h) /\ Agrees(h, e) /\ Apart(h, e)
  <2>1. h.checked = d.checked /\ \A x \in Persons : h.user[x].id = d.user[x].id
    BY <1>9
  <2>. QED
    BY <1>5, <2>1, SameKnowledge
<1>11. AskedOk(h, mine) /\ AskedApart(mine, e)
  <2>1. AskedOk(d, mine)
    BY <1>0, KeptOk DEF mine
  <2>. QED
    BY <1>9, <2>1 DEF AskedOk, Has, mine
<1>12. /\ Settled(k) /\ Agrees(k, e) /\ Agrees(e, k) /\ Apart(k, e)
       /\ \A x \in Persons : k.match[x].remote = h.match[x].remote
  BY <1>3, <1>5, <1>7, <1>8, <1>10, <1>11, ComparedAgrees
<1>13. Dated(k, now) /\ SameRest(h, k)
  BY <1>7, <1>8, <1>11, ComparedOk
<1>14. DbOk(k, now)
  BY <1>13 DEF Dated
<1>15. /\ f.match = k.match /\ f.stuck = k.stuck /\ f.requests = KeptQuestions(k)
       /\ f.mail = Append(k.mail, Reply(k, theirs)) /\ f.checked = k.checked /\ f.user = k.user
  BY <1>1, <1>7, <1>14, RepliedOk, AfterRest
<1>16. Settled(f) /\ Agrees(f, e) /\ Apart(f, e)
  <2>1. \A x \in Persons : f.match[x].verified = k.match[x].verified /\ f.match[x].pseudo = k.match[x].pseudo
    BY <1>15
  <2>2. f.checked = k.checked /\ \A x \in Persons : f.user[x].id = k.user[x].id
    BY <1>15
  <2>. QED
    BY <1>12, <2>1, <2>2, SameKnowledge
<1>17. Agrees(e, f)
  BY <1>12, <1>15 DEF Agrees
<1>18. Kept(f.requests) = Questions(k)
  BY <1>14, <1>15, KeptAgain
<1>19. OneId(f, Kept(f.requests))
  <2>1. OneId(k, Questions(k))
    BY <1>12, <1>14, QuestionsOneId
  <2>. QED
    BY <1>15, <1>18, <2>1 DEF OneId, Verified
<1>20. \A x \in Persons : k.user[x].id = d.user[x].id /\ k.user[x].info = d.user[x].info
  BY <1>9, <1>13 DEF SameRest
<1>21. SameInfo(d, f) /\ f.stuck = d.stuck
  BY <1>9, <1>13, <1>15, <1>20 DEF SameInfo, SameRest
<1>22. ASSUME NEW u \in Answered(k, theirs, 1), NEW x \in Persons, x \in Who(u.sig)
       PROVE  u.id > 0 /\ f.match[x].remote = u.id
  <2>1. PICK v \in theirs : u = [id |-> 1 * v.id, sig |-> IF Matches(k, v.sig) = {} THEN {} ELSE v.sig]
    BY DEF Answered
  <2>2. Matches(k, v.sig) # {} /\ u.sig = v.sig /\ u.id = 1 * v.id
    BY <1>22, <2>1 DEF Who
  <2>3. Matches(d, v.sig) # {}
    BY <1>20, <2>2 DEF Matches, Has, Signature
  <2>4. h.match[x].remote = v.id
    BY <1>5, <1>22, <2>2, <2>3
  <2>5. v.id \in Nat \ {0}
    BY <1>1
  <2>. QED
    BY <1>12, <1>15, <2>2, <2>4, <2>5
<1>23. ASSUME NEW u \in PutQuestions(k), NEW x \in Persons, x \in Who(u.sig)
       PROVE  u.id < 0 /\ [id |-> -u.id, who |-> x] \in Kept(f.requests)
  <2>1. PICK q \in Questions(k) : u = [id |-> -q.id, sig |-> Signature(k, q.who)]
    BY DEF PutQuestions
  <2>2. u.id = -q.id /\ u.sig = Signature(k, q.who) /\ q.id \in Nat \ {0} /\ q = [id |-> q.id, who |-> q.who]
    BY <1>14, <2>1, QuestionsOk DEF AskedOk, Questions
  <2>3. x = q.who
    BY <1>23, <2>2 DEF Signature, Who
  <2>4. -u.id = q.id
    BY <2>2
  <2>. QED
    BY <1>18, <2>2, <2>3, <2>4
<1>24. ResponseFits(Reply(k, theirs).users, f)
  <2>. SUFFICES ASSUME NEW u \in Reply(k, theirs).users, NEW x \in Persons, x \in Who(u.sig)
                PROVE  /\ u.id > 0 => f.match[x].remote = u.id
                       /\ u.id < 0 => [id |-> -u.id, who |-> x] \in Kept(f.requests)
    BY DEF ResponseFits
  <2>1. u \in Answered(k, theirs, 1) \/ u \in PutQuestions(k)
    BY DEF Reply
  <2>2. u \in Answered(k, theirs, 1) => u.id \in Int
    BY <1>1 DEF Answered
  <2>3. u \in PutQuestions(k) => u.id \in Int
    BY <1>14, QuestionsOk DEF PutQuestions, AskedOk
  <2>. QED
    BY <1>22, <1>23, <2>1, <2>2, <2>3
<1>25. Replies(d, f)
  <2>1. f.mail = Append(d.mail, Reply(k, theirs))
    BY <1>9, <1>13, <1>15 DEF SameRest
  <2>2. Reply(k, theirs).type = "users"
    BY DEF Reply
  <2>. QED
    BY <1>24, <2>1, <2>2 DEF Replies
<1>. QED
  BY <1>16, <1>17, <1>19, <1>21, <1>25

----------------------------------------------------------------------------
\* The pinged server: f are its tables while it reads a ping of d, before and after it has handled the
\* users message.

Knows(d, f) == Settled(f) /\ Agrees(d, f) /\ Agrees(f, d) /\ Apart(f, d) /\ OneId(f, Kept(f.requests))
Before(d, f) ==
  AskedApart(Kept(f.requests), d) /\ Apart(d, f) /\ (f.stuck \/ (MailFits(f) /\ NoUsersIn(f.mail)))
HasUsers(msgs) == \E i \in DOMAIN msgs : msgs[i].type = "users"
RepliesFit(msgs, f, d) ==
  HasUsers(msgs) /\ WordsFit(msgs, f, d) /\ \A i \in DOMAIN msgs : msgs[i].type = "users" => ResponseFits(msgs[i].users, f)
Handled(d, f) == f.stuck \/ RepliesFit(f.mail, f, d)

LEMMA CalmStill ==
  ASSUME NEW d, NEW e, SameInfo(d, e)
  PROVE  Calm(d) /\ (e.stuck = d.stuck \/ ~e.stuck) => Calm(e) /\ Still(d)
BY PersonsAssumption DEF Calm, Still, SameInfo

\* Another word, after the users message if there is one.
LEMMA RepliesStillFit ==
  ASSUME NEW lim, NEW f \in Db(lim), NEW h, Said(f, h), Still(f), NEW d, RepliesFit(f.mail, f, d)
  PROVE  RepliesFit(h.mail, h, d)
<1>. Steady(f, h)
  BY DEF Said
<1>1. (\A g : Current(f, g) => Current(h, g)) /\ (\A users : ResponseFits(users, f) => ResponseFits(users, h))
  BY SteadyHolds, SteadyMessages
<1>2. RepliesFit(f.mail, h, d)
  BY <1>1 DEF RepliesFit, WordsFit
<1>3. ASSUME NEW m, h.mail = Append(f.mail, m), m.type # "users", Names(m), \A g \in m.users : Current(h, g)
      PROVE  RepliesFit(h.mail, h, d)
  <2>. DEFINE old == f.mail
              new == h.mail
  <2>1. old \in Seq(Message(lim)) /\ new = Append(old, m)
    BY <1>3 DEF Db
  <2>. HIDE DEF Message, old, new
  <2>2. /\ \A i \in DOMAIN old : i \in DOMAIN new /\ new[i] = old[i]
        /\ \A i \in DOMAIN new : (i \in DOMAIN old /\ i <= Len(old)) \/ (i = Len(old) + 1 /\ new[i] = m)
        /\ DOMAIN old = 1..Len(old) /\ Len(old) \in Nat
    BY <2>1
  <2>3. HasUsers(new)
    BY <1>2, <2>2 DEF RepliesFit, HasUsers, old
  <2>4. \A i \in DOMAIN new : new[i].type = "users" => ResponseFits(new[i].users, h)
    BY <1>2, <1>3, <2>2 DEF RepliesFit, old
  <2>5. ASSUME NEW i \in DOMAIN new, new[i].type # "users"
        PROVE  Names(new[i]) /\ \A g \in new[i].users : IF UsersBefore(new, i) THEN Current(h, g) ELSE Fits(d, g)
    <3>1. CASE i \in DOMAIN old /\ i <= Len(old)
      <4>1. UsersBefore(new, i) <=> UsersBefore(old, i)
        BY <2>2, <3>1 DEF UsersBefore
      <4>2. new[i] = old[i]
        BY <2>2, <3>1
      <4>. QED
        BY <1>2, <2>5, <3>1, <4>1, <4>2 DEF RepliesFit, WordsFit, old
    <3>2. CASE i = Len(old) + 1 /\ new[i] = m
      <4>1. UsersBefore(new, i)
        BY <1>2, <2>2, <3>2 DEF UsersBefore, RepliesFit, HasUsers, old
      <4>. QED
        BY <1>3, <3>2, <4>1
    <3>. QED
      BY <2>2, <3>1, <3>2
  <2>6. WordsFit(new, h, d)
    BY <2>5 DEF WordsFit
  <2>. QED
    BY <2>3, <2>4, <2>6 DEF RepliesFit, new
<1>. QED
  BY <1>2, <1>3 DEF Said, MailGrows

LEMMA SaidServed ==
  ASSUME NEW lim \in Nat, NEW f, DbOk(f, lim), NEW h, Said(f, h), Still(f), h.stuck = f.stuck \/ ~f.stuck, NEW d
  PROVE  /\ Knows(d, f) => Knows(d, h)
         /\ Before(d, f) => Before(d, h)
         /\ Handled(d, f) => Handled(d, h)
<1>. Steady(f, h) /\ MailGrows(f, h) /\ f \in Db(lim)
  BY DEF Said, DbOk
<1>1. Kept(h.requests) = Kept(f.requests)
  BY SteadyHolds
<1>2. ASSUME Knows(d, f)
      PROVE  Knows(d, h)
  <2>1. Settled(h) /\ Agrees(d, h) /\ Agrees(h, d) /\ Apart(h, d)
    BY <1>2, SteadyHolds DEF Knows
  <2>2. \A q \in Kept(f.requests) : q.who \in Persons
    BY KeptOk DEF AskedOk
  <2>3. OneId(h, Kept(h.requests))
    BY <1>1, <1>2, <2>2, SteadyMessages DEF Knows
  <2>. QED
    BY <2>1, <2>3 DEF Knows
<1>3. ASSUME Before(d, f)
      PROVE  Before(d, h)
  <2>1. AskedApart(Kept(h.requests), d) /\ Apart(d, h)
    BY <1>1, <1>3, SteadyHolds DEF Before
  <2>2. CASE ~f.stuck
    <3>2. MailFits(f) /\ NoUsersIn(f.mail) /\ f.mail \in Seq(Message(lim))
      BY <1>3, <2>2 DEF Before, Db
    <3>3. MailFits(h)
      BY <3>2, MailStillFits
    <3>4. NoUsersIn(h.mail)
      BY <3>2 DEF Steady, Frame, SameUsersIn, NoUsersIn
    <3>. QED
      BY <2>1, <3>3, <3>4 DEF Before
  <2>. QED
    BY <2>1, <2>2 DEF Before
<1>4. ASSUME Handled(d, f)
      PROVE  Handled(d, h)
  BY <1>4, RepliesStillFit DEF Handled
<1>. QED
  BY <1>2, <1>3, <1>4

\* The users message, or none.
LEMMA ServedUsers ==
  ASSUME NEW now \in Nat \ {0}, NEW f, Dated(f, now), ~f.stuck, NEW d, Settled(d), Knows(d, f), Before(d, f), Calm(f),
         NEW users \in SUBSET Item, NEW asked, OneId(d, asked), RequestFits(users, d, asked),
         NEW h, h = ReceiveUsersRequest(f, users, now)
  PROVE  Knows(d, h) /\ Handled(d, h) /\ Calm(h)
<1>1. /\ Settled(h) /\ Agrees(h, d) /\ Agrees(d, h) /\ Apart(h, d) /\ OneId(h, Kept(h.requests))
      /\ SameInfo(f, h) /\ h.stuck = f.stuck /\ Replies(f, h)
  BY ReplyLinks DEF Knows, Before
<1>2. PICK m : h.mail = Append(f.mail, m) /\ m.type = "users" /\ ResponseFits(m.users, h)
  BY <1>1 DEF Replies
<1>. DEFINE old == f.mail
            new == h.mail
<1>3. old \in Seq(Message(now)) /\ new = Append(old, m)
  BY <1>2 DEF Dated, DbOk, Db
<1>4. NoUsersIn(old) /\ \A i \in DOMAIN old : Names(old[i]) /\ \A g \in old[i].users : Current(f, g)
  BY DEF Before, MailFits, NoUsersIn
<1>. HIDE DEF Message, old, new
<1>5. /\ \A i \in DOMAIN new : (i \in DOMAIN old /\ i <= Len(old) /\ new[i] = old[i]) \/ (i = Len(old) + 1 /\ new[i] = m)
      /\ Len(old) + 1 \in DOMAIN new /\ new[Len(old) + 1] = m /\ Len(old) \in Nat
  BY <1>3
<1>6. \A i \in DOMAIN new : new[i].type = "users" => ResponseFits(new[i].users, h)
  BY <1>2, <1>4, <1>5 DEF NoUsersIn
<1>7. ASSUME NEW i \in DOMAIN new, new[i].type # "users"
      PROVE  Names(new[i]) /\ \A g \in new[i].users : IF UsersBefore(new, i) THEN Current(h, g) ELSE Fits(d, g)
  <2>1. i \in DOMAIN old /\ i <= Len(old) /\ new[i] = old[i]
    BY <1>2, <1>5, <1>7
  <2>2. ~UsersBefore(new, i)
    BY <1>4, <1>5, <2>1 DEF UsersBefore, NoUsersIn
  <2>3. \A g : Current(f, g) => Fits(d, g)
    BY CurrentFits DEF Knows, Before
  <2>. QED
    BY <1>4, <2>1, <2>2, <2>3
<1>8. HasUsers(new)
  BY <1>2, <1>5 DEF HasUsers
<1>9. Handled(d, h)
  BY <1>6, <1>7, <1>8 DEF Handled, RepliesFit, WordsFit, new
<1>10. Calm(h)
  BY <1>1, CalmStill
<1>. QED
  BY <1>1, <1>9, <1>10 DEF Knows

\* A message about profiles that fits is taken in; answered with what is noted.
LEMMA ServedWord ==
  ASSUME NEW now \in Nat \ {0}, NEW f, Dated(f, now), NEW d, Settled(f), Calm(f),
         NEW m \in Message(now - 1), m.type # "users", Names(m), \A g \in m.users : Fits(f, g),
         NEW h, h = ReceiveRequest(f, m, now)
  PROVE  /\ Calm(h) /\ Steady(f, h) /\ (f.stuck => h = f)
         /\ Knows(d, f) => Knows(d, h)
         /\ Before(d, f) => Before(d, h)
         /\ Handled(d, f) => Handled(d, h)
<1>. DbOk(f, now) /\ f \in Db(now)
  BY DEF Dated, DbOk
<1>1. CASE f.stuck
  BY <1>1, NothingSaid DEF ReceiveRequest
<1>2. CASE ~f.stuck
  <2>1. Said(f, h) /\ Calm(h)
    <3>1. CASE m.type = "online"
      <4>. DEFINE g == ReceiveOnline(f, m.users)
      <4>1. h = WithOnline(g)
        BY <1>2, <3>1 DEF ReceiveRequest
      <4>2. Steady(f, g) /\ SameInfo(f, g) /\ g.mail = f.mail
        BY WordsSteady
      <4>3. Calm(g)
        BY <3>1, WordsCalm
      <4>4. m.users \in SUBSET Word(now - 1)
        BY Kinds
      <4>5. g \in Db(now)
        BY <4>4, WordsOk DEF Dated, DbOk
      <4>. HIDE DEF g
      <4>6. Said(g, h) /\ h.stuck = g.stuck
        BY <4>1, <4>5, WithOnlineSaid, WithOnlineFrame
      <4>7. Said(f, h)
        BY <4>2, <4>6, SaidAfter
      <4>8. Calm(h)
        BY <4>3, <4>6, CalmStill DEF Said
      <4>. QED
        BY <4>7, <4>8
    <3>2. CASE m.type = "sha256"
      <4>1. h = ReceiveSha256(f, m.users)
        BY <1>2, <3>2 DEF ReceiveRequest
      <4>2. Steady(f, h) /\ SameInfo(f, h) /\ h.mail = f.mail
        BY <4>1, WordsSteady
      <4>3. Calm(h)
        BY <4>1, WordsCalm
      <4>. QED
        BY <4>2, <4>3 DEF Said, MailGrows
    <3>. QED
      BY <3>1, <3>2, Kinds
  <2>2. Still(f)
    BY DEF Calm, Still
  <2>. QED
    BY <1>2, <2>1, <2>2, SaidServed DEF Said
<1>. QED
  BY <1>1, <1>2

\* What is left after the messages of a ping.
LEMMA ServedLinks ==
  ASSUME NEW now \in Nat \ {0}, NEW e, Dated(e, now), NEW d, Settled(d), Knows(d, e), Before(d, e), Calm(e),
         NEW p, p.msgs \in Seq(Message(now - 1)), OneId(d, p.asked), Asks(p, d, e), NEW again,
         NEW h, h = Served(e, p.msgs, again, now)
  PROVE  Knows(d, h) /\ Handled(d, h) /\ Calm(h)
<1>. DEFINE msgs == p.msgs
            N == Len(msgs)
            Came1(n) == \E j \in 1..n : msgs[j].type = "users"
            Fine(n, f) == /\ Dated(f, now) /\ Knows(d, f) /\ Calm(f)
                          /\ IF Came1(n) THEN Handled(d, f) ELSE Before(d, f) /\ Steady(e, f)
<1>0. N \in Nat /\ (\A i \in 1..N : msgs[i] \in Message(now - 1)) /\ DOMAIN msgs = 1..N
  OBVIOUS
<1>9. \E read : Answering(read, e, msgs, now)
  BY <1>0, RequestChain
<1>1. PICK read : /\ ReadRequests(e, msgs, now) = read[N] /\ read[0] = e
                  /\ \A i \in 1..N : read[i] = ReceiveRequest(read[i - 1], msgs[i], now)
  BY <1>9 DEF Answering
<1>. DEFINE S == {n \in Nat : n <= N => Fine(n, read[n])}
<1>. HIDE DEF msgs
<1>2. 0 \in S
  BY <1>1, NothingSaid
<1>3. ASSUME NEW n \in S
      PROVE  n + 1 \in S
  <2>. SUFFICES ASSUME n + 1 <= N PROVE Fine(n + 1, read[n + 1])
    OBVIOUS
  <2>. DEFINE f == read[n]
              g == read[n + 1]
              m == msgs[n + 1]
  <2>1. n + 1 \in 1..N /\ n \in Nat /\ Fine(n, f)
    BY <1>0
  <2>2. g = ReceiveRequest(f, m, now) /\ m \in Message(now - 1)
    BY <1>0, <1>1, <2>1
  <2>. HIDE DEF S, f, g, m, N
  <2>3. Dated(g, now)
    BY <2>1, <2>2, ReceiveRequestOk
  <2>4. \A j : j \in 1..(n + 1) <=> j \in 1..n \/ j = n + 1
    BY <2>1
  <2>5. CASE m.type = "users"
    <3>1. ~Came1(n)
      <4>. SUFFICES ASSUME NEW j \in 1..n, msgs[j].type = "users" PROVE FALSE
        OBVIOUS
      <4>1. j \in DOMAIN msgs /\ n + 1 \in DOMAIN msgs /\ j # n + 1
        BY <1>0, <2>1 DEF N
      <4>. QED
        BY <2>5, <4>1 DEF Asks, OneUsers, msgs, m
    <3>2. Before(d, f) /\ Knows(d, f) /\ Calm(f) /\ Dated(f, now)
      BY <2>1, <3>1
    <3>3. Came1(n + 1)
      BY <2>1, <2>5 DEF m
    <3>4. m.users \in SUBSET Item
      BY <2>2, <2>5, Kinds
    <3>5. RequestFits(m.users, d, p.asked)
      BY <1>0, <2>1, <2>5 DEF Asks, msgs, m, N
    <3>6. Knows(d, g) /\ Handled(d, g) /\ Calm(g)
      <4>1. CASE f.stuck
        BY <2>2, <3>2, <4>1 DEF ReceiveRequest, Handled
      <4>2. CASE ~f.stuck
        <5>1. g = ReceiveUsersRequest(f, m.users, now)
          BY <2>2, <2>5, <4>2 DEF ReceiveRequest
        <5>. QED
          BY <3>2, <3>4, <3>5, <4>2, <5>1, ServedUsers
      <4>. QED
        BY <4>1, <4>2
    <3>. QED
      BY <2>3, <3>3, <3>6 DEF g
  <2>6. CASE m.type # "users"
    <3>1. Came1(n + 1) <=> Came1(n)
      BY <2>4, <2>6 DEF m
    <3>2. /\ Names(m)
          /\ \A w \in m.users : IF UsersBefore(msgs, n + 1) THEN Current(d, w) ELSE Fits(e, w)
      BY <1>0, <2>1, <2>6 DEF Asks, WordsFit, msgs, m, N
    <3>3. UsersBefore(msgs, n + 1) <=> Came1(n)
      BY <1>0, <2>1 DEF UsersBefore, N
    <3>4. Settled(f) /\ Agrees(f, d) /\ Apart(f, d) /\ Calm(f) /\ Dated(f, now) /\ Knows(d, f)
      BY <2>1 DEF Knows
    <3>5. \A w \in m.users : Fits(f, w)
      <4>1. CASE Came1(n)
        BY <3>2, <3>3, <3>4, <4>1, CurrentFits
      <4>2. CASE ~Came1(n)
        <5>1. Steady(e, f)
          BY <2>1, <4>2
        <5>. QED
          BY <3>2, <3>3, <4>2, <5>1, SteadyHolds
      <4>. QED
        BY <4>1, <4>2
    <3>6. /\ Calm(g) /\ Steady(f, g) /\ Knows(d, g)
          /\ (Before(d, f) => Before(d, g)) /\ (Handled(d, f) => Handled(d, g))
      BY <2>2, <2>6, <3>2, <3>4, <3>5, ServedWord
    <3>7. ~Came1(n) => Steady(e, g)
      BY <2>1, <3>6, SteadyChain
    <3>. QED
      BY <2>1, <2>3, <3>1, <3>6, <3>7 DEF g
  <2>. QED
    BY <2>5, <2>6 DEF g
<1>. DEFINE f == read[N]
            t == Told(f, ToTell(f, again))
            u == UsersToo(t, msgs, now)
<1>4. Fine(N, f)
  <2>2. S \in SUBSET Nat
    OBVIOUS
  <2>. HIDE DEF S
  <2>1. N \in S
    BY <1>0, <1>2, <1>3, <2>2, FromZero
  <2>. QED
    BY <1>0, <2>1 DEF S
<1>5. h = IF f.stuck THEN f ELSE OnlineToo(u, msgs)
  BY <1>1 DEF Served, With, msgs
<1>. HIDE DEF f, S
<1>6. CASE f.stuck
  BY <1>4, <1>5, <1>6 DEF Handled
<1>7. CASE ~f.stuck
  <2>1. Said(f, t) /\ t.stuck = f.stuck /\ Dated(t, now) /\ Still(f) /\ Calm(t)
    <3>1. f \in Db(now) /\ ToTell(f, again) \in SUBSET Persons
      BY <1>4 DEF Dated, DbOk, ToTell
    <3>2. Said(f, t) /\ t.stuck = f.stuck
      BY <3>1, ToldSaid, ToldFrame
    <3>3. Dated(t, now)
      BY <1>4, <3>1, ToldDated
    <3>. QED
      BY <1>4, <3>2, <3>3, CalmStill DEF Said
  <2>. HIDE DEF t
  <2>2. Knows(d, t) /\ (IF Came1(N) THEN Handled(d, t) ELSE Before(d, t))
    BY <1>4, <1>7, <2>1, SaidServed DEF Dated
  <2>3. Came(msgs, "users") <=> Came1(N)
    BY <1>0 DEF Came
  <2>4. Dated(u, now) /\ Knows(d, u) /\ Handled(d, u) /\ Calm(u)
    <3>1. CASE Came1(N)
      BY <2>1, <2>2, <2>3, <3>1 DEF UsersToo
    <3>2. CASE ~Came1(N)
      <4>1. u = ReceiveUsersRequest(t, {}, now)
        BY <2>3, <3>2 DEF UsersToo
      <4>2. {} \in SUBSET Item /\ RequestFits({}, d, p.asked)
        BY DEF RequestFits
      <4>3. Before(d, t)
        BY <2>2, <3>2
      <4>. HIDE DEF u
      <4>4. Dated(u, now)
        BY <2>1, <4>1, <4>2, ReceiveUsersRequestOk
      <4>5. Knows(d, u) /\ Handled(d, u) /\ Calm(u)
        BY <1>7, <2>1, <2>2, <4>1, <4>2, <4>3, ServedUsers
      <4>. QED
        BY <4>4, <4>5
    <3>. QED
      BY <3>1, <3>2
  <2>. HIDE DEF u
  <2>5. CASE Came(msgs, "online")
    BY <1>5, <1>7, <2>4, <2>5 DEF OnlineToo
  <2>6. CASE ~Came(msgs, "online")
    <3>1. h = WithOnline(u) /\ u \in Db(now) /\ DbOk(u, now)
      BY <1>5, <1>7, <2>4, <2>6 DEF OnlineToo, Dated, DbOk
    <3>2. Said(u, h) /\ h.stuck = u.stuck
      BY <3>1, WithOnlineSaid, WithOnlineFrame
    <3>3. Calm(h) /\ Still(u)
      BY <2>4, <3>2, CalmStill DEF Said
    <3>4. Knows(d, h) /\ Handled(d, h)
      BY <2>4, <3>1, <3>2, <3>3, SaidServed
    <3>. QED
      BY <3>3, <3>4
  <2>. QED
    BY <2>5, <2>6
<1>. QED
  BY <1>6, <1>7

----------------------------------------------------------------------------
\* The server that pings: d are its tables while it reads the response of e.

Meets(d, e) == Settled(d) /\ Agrees(d, e) /\ Agrees(e, d) /\ Apart(d, e) /\ WaitingFits(d, e) /\ MailFits(d)

LEMMA SteadyMeets ==
  ASSUME NEW lim, NEW d \in Db(lim), NEW f, Steady(d, f), MailGrows(d, f), Still(d), NEW e, Meets(d, e)
  PROVE  Meets(f, e)
<1>1. Settled(f) /\ Agrees(f, e) /\ Agrees(e, f) /\ Apart(f, e)
  BY SteadyHolds DEF Meets
<1>2. WaitingFits(f, e)
  BY SteadyMessages DEF Meets
<1>3. MailFits(f)
  <2>1. d.mail \in Seq(Message(lim)) /\ MailFits(d)
    BY DEF Db, Meets
  <2>. QED
    BY <2>1, MailStillFits
<1>. QED
  BY <1>1, <1>2, <1>3 DEF Meets

LEMMA ReadWord ==
  ASSUME NEW now \in Nat \ {0}, NEW d, Dated(d, now), NEW e, Meets(d, e), Calm(d), NEW asked,
         NEW m \in Message(now - 1), m.type # "users", Names(m), \A g \in m.users : Fits(d, g),
         NEW h, h = ReceiveResponse(d, m, asked, now)
  PROVE  Meets(h, e) /\ Calm(h) /\ Steady(d, h)
<1>. d \in Db(now) /\ Settled(d)
  BY DEF Dated, DbOk, Meets
<1>1. CASE d.stuck
  BY <1>1, NothingSaid DEF ReceiveResponse
<1>2. CASE ~d.stuck
  <2>1. Steady(d, h) /\ h.mail = d.mail /\ Calm(h)
    <3>1. CASE m.type = "online"
      <4>1. h = ReceiveOnline(d, m.users)
        BY <1>2, <3>1 DEF ReceiveResponse
      <4>. QED
        BY <3>1, <4>1, WordsSteady, WordsCalm
    <3>2. CASE m.type = "sha256"
      <4>1. h = ReceiveSha256(d, m.users)
        BY <1>2, <3>2 DEF ReceiveResponse
      <4>. QED
        BY <4>1, WordsSteady, WordsCalm
    <3>. QED
      BY <3>1, <3>2, Kinds
  <2>2. Still(d) /\ MailGrows(d, h)
    BY <2>1 DEF Calm, Still, MailGrows
  <2>. QED
    BY <2>1, <2>2, SteadyMeets
<1>. QED
  BY <1>1, <1>2

LEMMA ReadUsers ==
  ASSUME NEW now \in Nat \ {0}, NEW d, Dated(d, now), NEW e, Meets(d, e), Calm(d), NEW asked, AskedOk(d, asked),
         AskedApart(asked, e), NEW users \in SUBSET Item, ResponseFits(users, e),
         NEW h, h = ReceiveUsersResponse(d, users, asked, now)
  PROVE  Meets(h, e) /\ Calm(h)
<1>1. /\ Settled(h) /\ Agrees(h, e) /\ Agrees(e, h) /\ Apart(h, e) /\ WaitingFits(h, e) /\ SameInfo(d, h)
      /\ \A x \in Persons : h.match[x].remote = d.match[x].remote
  BY ResponseLinks DEF Meets
<1>2. h.mail = d.mail /\ h.stuck = d.stuck
  BY ReceiveUsersResponseOk
<1>3. \A g : Current(d, g) => Current(h, g)
  BY <1>1 DEF Current
<1>4. MailFits(h)
  BY <1>2, <1>3 DEF Meets, MailFits
<1>5. Calm(h)
  BY <1>1, <1>2, CalmStill
<1>. QED
  BY <1>1, <1>4, <1>5 DEF Meets

\* What is left after the messages of a response.
LEMMA ReadLinks ==
  ASSUME NEW now \in Nat \ {0}, NEW d, Dated(d, now), NEW e, Meets(d, e), Calm(d),
         NEW p, p.msgs \in Seq(Message(now - 1)), AskedOk(d, p.asked), AskedApart(p.asked, e), Responds(p, d, e), NEW again,
         NEW h, h = Read(d, p.msgs, p.asked, again, now)
  PROVE  Meets(h, e) /\ Calm(h)
<1>. DEFINE msgs == p.msgs
            asked == p.asked
            N == Len(msgs)
            Came1(n) == \E j \in 1..n : msgs[j].type = "users"
            Fine(n, f) == /\ Dated(f, now) /\ SameIds(d, f) /\ Meets(f, e) /\ Calm(f)
                          /\ ~Came1(n) => Steady(d, f)
<1>0. N \in Nat /\ (\A i \in 1..N : msgs[i] \in Message(now - 1)) /\ DOMAIN msgs = 1..N
  OBVIOUS
<1>9. \E read : Reading(read, d, msgs, asked, now)
  BY <1>0, ResponseChain
<1>1. PICK read : /\ ReadResponses(d, msgs, asked, now) = read[N] /\ read[0] = d
                  /\ \A i \in 1..N : read[i] = ReceiveResponse(read[i - 1], msgs[i], asked, now)
  BY <1>9 DEF Reading
<1>. DEFINE S == {n \in Nat : n <= N => Fine(n, read[n])}
<1>. HIDE DEF msgs, asked
<1>2. 0 \in S
  BY <1>1, NothingSaid DEF SameIds
<1>3. ASSUME NEW n \in S
      PROVE  n + 1 \in S
  <2>. SUFFICES ASSUME n + 1 <= N PROVE Fine(n + 1, read[n + 1])
    OBVIOUS
  <2>. DEFINE f == read[n]
              g == read[n + 1]
              m == msgs[n + 1]
  <2>1. n + 1 \in 1..N /\ n \in Nat /\ Fine(n, f)
    BY <1>0
  <2>2. g = ReceiveResponse(f, m, asked, now) /\ m \in Message(now - 1)
    BY <1>0, <1>1, <2>1
  <2>. HIDE DEF S, f, g, m, N
  <2>3. Dated(g, now) /\ SameIds(d, g) /\ AskedOk(f, asked)
    <3>1. AskedOk(f, asked)
      BY <2>1 DEF AskedOk, SameIds, Has, asked
    <3>2. Dated(g, now) /\ SameIds(f, g)
      BY <2>1, <2>2, <3>1, ReceiveResponseOk
    <3>. QED
      BY <2>1, <3>1, <3>2 DEF SameIds
  <2>4. \A j : j \in 1..(n + 1) <=> j \in 1..n \/ j = n + 1
    BY <2>1
  <2>5. CASE m.type = "users"
    <3>1. Came1(n + 1)
      BY <2>1, <2>5 DEF m
    <3>2. m.users \in SUBSET Item
      BY <2>2, <2>5, Kinds
    <3>3. ResponseFits(m.users, e)
      BY <1>0, <2>1, <2>5 DEF Responds, msgs, m, N
    <3>4. Meets(g, e) /\ Calm(g)
      <4>1. CASE f.stuck
        BY <2>1, <2>2, <4>1 DEF ReceiveResponse
      <4>2. CASE ~f.stuck
        <5>1. g = ReceiveUsersResponse(f, m.users, asked, now)
          BY <2>2, <2>5, <4>2 DEF ReceiveResponse
        <5>2. AskedApart(asked, e)
          BY DEF asked
        <5>. QED
          BY <2>1, <2>3, <3>2, <3>3, <5>1, <5>2, ReadUsers
      <4>. QED
        BY <4>1, <4>2
    <3>. QED
      BY <2>3, <3>1, <3>4 DEF g
  <2>6. CASE m.type # "users"
    <3>1. Came1(n + 1) <=> Came1(n)
      BY <2>4, <2>6 DEF m
    <3>2. /\ Names(m)
          /\ \A w \in m.users : IF UsersBefore(msgs, n + 1) THEN Current(e, w) ELSE Fits(d, w)
      BY <1>0, <2>1, <2>6 DEF Responds, WordsFit, msgs, m, N
    <3>3. UsersBefore(msgs, n + 1) <=> Came1(n)
      BY <1>0, <2>1 DEF UsersBefore, N
    <3>4. Dated(f, now) /\ Meets(f, e) /\ Calm(f)
      BY <2>1
    <3>5. \A w \in m.users : Fits(f, w)
      <4>1. CASE Came1(n)
        BY <3>2, <3>3, <3>4, <4>1, CurrentFits DEF Meets
      <4>2. CASE ~Came1(n)
        <5>1. Steady(d, f)
          BY <2>1, <4>2
        <5>. QED
          BY <3>2, <3>3, <4>2, <5>1, SteadyHolds
      <4>. QED
        BY <4>1, <4>2
    <3>6. Meets(g, e) /\ Calm(g) /\ Steady(f, g)
      BY <2>2, <2>6, <3>2, <3>4, <3>5, ReadWord
    <3>7. ~Came1(n) => Steady(d, g)
      BY <2>1, <3>6, SteadyChain
    <3>. QED
      BY <2>3, <3>1, <3>6, <3>7 DEF g
  <2>. QED
    BY <2>5, <2>6 DEF g
<1>. DEFINE f == read[N]
<1>4. Fine(N, f)
  <2>2. S \in SUBSET Nat
    OBVIOUS
  <2>. HIDE DEF S
  <2>1. N \in S
    BY <1>0, <1>2, <1>3, <2>2, FromZero
  <2>. QED
    BY <1>0, <2>1 DEF S
<1>5. h = IF f.stuck THEN f ELSE Told(f, ToTell(f, again))
  BY <1>1 DEF Read, With, msgs, asked
<1>. HIDE DEF f, S
<1>6. CASE f.stuck
  BY <1>4, <1>5, <1>6
<1>7. CASE ~f.stuck
  <2>1. f \in Db(now) /\ ToTell(f, again) \in SUBSET Persons /\ h = Told(f, ToTell(f, again))
    BY <1>4, <1>5, <1>7 DEF Dated, DbOk, ToTell
  <2>2. Said(f, h) /\ h.stuck = f.stuck
    BY <2>1, ToldSaid, ToldFrame
  <2>3. Calm(h) /\ Still(f)
    BY <1>4, <2>2, CalmStill DEF Said
  <2>4. Meets(h, e)
    BY <1>4, <2>1, <2>2, <2>3, SteadyMeets DEF Said
  <2>. QED
    BY <2>3, <2>4
<1>. QED
  BY <1>6, <1>7

----------------------------------------------------------------------------
\* What a server sends.

\* One more message: words that have the id that is noted, and fit as well.
LEMMA WordsAppend ==
  ASSUME NEW M, NEW msgs \in Seq(M), NEW d, NEW e, WordsFit(msgs, d, e), NEW m,
         m.type # "users" => Names(m) /\ \A g \in m.users : Current(d, g) /\ Fits(e, g)
  PROVE  WordsFit(Append(msgs, m), d, e)
<1>. DEFINE new == Append(msgs, m)
<1>1. /\ \A i \in DOMAIN new : (i \in DOMAIN msgs /\ new[i] = msgs[i] /\ i <= Len(msgs)) \/ (i = Len(msgs) + 1 /\ new[i] = m)
      /\ \A i \in DOMAIN msgs : i \in DOMAIN new /\ new[i] = msgs[i]
      /\ Len(msgs) \in Nat
  OBVIOUS
<1>. HIDE DEF new
<1>2. ASSUME NEW i \in DOMAIN new, new[i].type # "users"
      PROVE  Names(new[i]) /\ \A g \in new[i].users : IF UsersBefore(new, i) THEN Current(d, g) ELSE Fits(e, g)
  <2>1. CASE i \in DOMAIN msgs /\ new[i] = msgs[i] /\ i <= Len(msgs)
    <3>1. UsersBefore(new, i) <=> UsersBefore(msgs, i)
      BY <1>1, <2>1 DEF UsersBefore
    <3>. QED
      BY <1>2, <2>1, <3>1 DEF WordsFit
  <2>2. CASE i = Len(msgs) + 1 /\ new[i] = m
    BY <1>2, <2>2
  <2>. QED
    BY <1>1, <2>1, <2>2
<1>. QED
  BY <1>2 DEF WordsFit, new

Puts(msgs, asked, d, e) ==
  /\ \A i \in DOMAIN msgs : msgs[i].type = "users" => RequestFits(msgs[i].users, d, asked)
  /\ WordsFit(msgs, d, e) /\ OneUsers(msgs)

LEMMA PutsAppend ==
  ASSUME NEW M, NEW msgs \in Seq(M), NEW asked, NEW d, NEW e, Puts(msgs, asked, d, e), NEW m,
         m.type # "users" => Names(m) /\ \A g \in m.users : Current(d, g) /\ Fits(e, g),
         m.type = "users" => NoUsersIn(msgs) /\ RequestFits(m.users, d, asked)
  PROVE  Puts(Append(msgs, m), asked, d, e)
<1>. DEFINE new == Append(msgs, m)
<1>1. \A i \in DOMAIN new : (i \in DOMAIN msgs /\ new[i] = msgs[i]) \/ (i = Len(msgs) + 1 /\ new[i] = m)
  OBVIOUS
<1>2. WordsFit(new, d, e)
  BY WordsAppend DEF Puts
<1>. HIDE DEF new
<1>3. OneUsers(new)
  BY <1>1 DEF Puts, OneUsers, NoUsersIn
<1>4. \A i \in DOMAIN new : new[i].type = "users" => RequestFits(new[i].users, d, asked)
  BY <1>1 DEF Puts
<1>. QED
  BY <1>2, <1>3, <1>4 DEF Puts, new

\* A ping, with the messages that waited.
LEMMA SentPuts ==
  ASSUME NEW lim \in Nat, NEW d, DbOk(d, lim), NEW e, Settled(d), Settled(e), Agrees(d, e), Agrees(e, d), Apart(e, d),
         OneId(e, Kept(e.requests)), WaitingFits(d, e), MailFits(d), NoUsersIn(d.mail), Calm(d),
         NEW h, h = SentDb(d), Apart(e, h), NEW asked, asked = UsersRequest(d).asked
  PROVE  /\ Settled(h) /\ Agrees(h, e) /\ Agrees(e, h) /\ NoneWaits(h) /\ OneId(h, asked) /\ Calm(h)
         /\ Puts(h.mail, asked, h, e)
<1>. DEFINE r == UsersRequest(d)
            k == IF r.users = {} THEN r.d ELSE Mailed(r.d, "users", r.users)
            m == [type |-> "users", users |-> r.users]
<1>1. DbOk(r.d, lim) /\ r.users \in SUBSET Item /\ r.d.mail = d.mail /\ r.d.stuck = d.stuck /\ AskedOk(d, asked)
  <2>1. r = UsersRequest(d)
    OBVIOUS
  <2>. HIDE DEF r
  <2>2. r.asked = Questions(d) /\ r.asked = asked
    BY <2>1, UsersRequestOk
  <2>. QED  BY <2>1, <2>2, UsersRequestOk, QuestionsOk
<1>2. /\ Settled(r.d) /\ Agrees(r.d, e) /\ Agrees(e, r.d) /\ NoneWaits(r.d)
      /\ OneId(r.d, asked) /\ RequestFits(r.users, r.d, asked) /\ SameInfo(d, r.d)
  <2>1. r = UsersRequest(d) /\ r.asked = asked
    OBVIOUS
  <2>. HIDE DEF r
  <2>. QED  BY <2>1, SentLinks
<1>3. h = WithOnline(k)
  BY DEF SentDb
<1>. HIDE DEF r
<1>4. /\ k \in Db(lim) /\ k.stuck = r.d.stuck /\ k.match = r.d.match /\ k.user = r.d.user
      /\ k.checked = r.d.checked /\ k.requests = r.d.requests
      /\ k.mail = d.mail \/ k.mail = Append(d.mail, m)
  <2>1. CASE r.users = {}
    BY <1>1, <2>1 DEF DbOk
  <2>2. CASE r.users # {}
    <3>1. m \in Message(lim)
      BY <1>1 DEF Message
    <3>2. DbOk(k, lim)
      BY <1>1, <2>2, <3>1, MailedOk
    <3>3. k = [r.d EXCEPT !.mail = Append(@, m)]
      BY <2>2 DEF Mailed
    <3>4. r.d \in Db(lim)
      BY <1>1 DEF DbOk
    <3>. HIDE DEF k, m
    <3>5. /\ k.mail = Append(d.mail, m) /\ k.stuck = r.d.stuck /\ k.match = r.d.match /\ k.user = r.d.user
          /\ k.checked = r.d.checked /\ k.requests = r.d.requests
      BY <1>1, <3>3, <3>4 DEF Db
    <3>. QED
      BY <3>2, <3>5 DEF DbOk
  <2>. QED
    BY <2>1, <2>2
<1>5. m.type = "users" /\ m.users = r.users
  OBVIOUS
<1>. HIDE DEF k, m
<1>6. /\ Settled(k) /\ Agrees(k, e) /\ Agrees(e, k) /\ NoneWaits(k)
      /\ OneId(k, asked) /\ RequestFits(m.users, k, asked) /\ SameInfo(d, k)
  <2>1. Settled(k) /\ Agrees(k, e)
    BY <1>2, <1>4, SameKnowledge
  <2>2. Agrees(e, k) /\ NoneWaits(k) /\ SameInfo(d, k)
    BY <1>2, <1>4 DEF Agrees, NoneWaits, SameInfo
  <2>3. OneId(k, asked) /\ RequestFits(m.users, k, asked)
    BY <1>2, <1>4, <1>5 DEF OneId, Verified, RequestFits
  <2>. QED
    BY <2>1, <2>2, <2>3
<1>7. Said(k, h) /\ h.stuck = k.stuck
  BY <1>3, <1>4, WithOnlineSaid, WithOnlineFrame
<1>8. Steady(k, h) /\ MailGrows(k, h) /\ SameInfo(k, h)
  BY <1>7 DEF Said
<1>9. Calm(k) /\ Still(k) /\ Calm(h)
  <2>1. Calm(k)
    BY <1>1, <1>4, <1>6, CalmStill
  <2>. QED
    BY <1>7, <1>8, <2>1, CalmStill
<1>10. Settled(h) /\ Agrees(h, e) /\ Agrees(e, h)
  BY <1>6, <1>8, SteadyHolds
<1>11. NoneWaits(h) /\ OneId(h, asked) /\ RequestFits(m.users, h, asked)
  <2>1. \A q \in asked : q.who \in Persons
    BY <1>1 DEF AskedOk
  <2>. QED
    BY <1>6, <1>8, <2>1, SteadyMessages
<1>12. Puts(d.mail, asked, h, e)
  <2>1. \A g : Current(d, g) => Fits(e, g)
    BY CurrentFits
  <2>. QED
    BY <2>1 DEF Puts, NoUsersIn, WordsFit, OneUsers, UsersBefore, MailFits
<1>13. Puts(k.mail, asked, h, e) /\ k.mail \in Seq(Message(lim))
  <2>1. d.mail \in Seq(Message(lim)) /\ k.mail \in Seq(Message(lim))
    BY <1>4 DEF DbOk, Db
  <2>2. Puts(Append(d.mail, m), asked, h, e)
    BY <1>5, <1>11, <1>12, <2>1, PutsAppend
  <2>. QED
    BY <1>4, <1>12, <2>1, <2>2
<1>14. Puts(h.mail, asked, h, e)
  <2>1. CASE h.mail = k.mail
    BY <1>13, <2>1
  <2>2. ASSUME NEW w, h.mail = Append(k.mail, w), w.type # "users", Names(w), \A g \in w.users : Current(h, g)
        PROVE  Puts(h.mail, asked, h, e)
    <3>1. \A g \in w.users : Current(h, g) /\ Fits(e, g)
      BY <1>10, <2>2, CurrentFits
    <3>. QED
      BY <1>13, <2>2, <3>1, PutsAppend
  <2>. QED
    BY <1>8, <1>9, <2>1, <2>2 DEF MailGrows
<1>. QED
  BY <1>9, <1>10, <1>11, <1>14

----------------------------------------------------------------------------
\* Server s pings and the other one does not.

Linked(s)  == Link(db[s], db[Other(s)], ping[s])
Profiled   == Quiet => \A x \in Online : profile[x] = 0
ByBooks(d, e, p) == /\ Apart(d, e) /\ Apart(e, d) /\ AskedApart(p.asked, e) /\ AskedApart(Kept(e.requests), d)

\* What follows from the books.
LEMMA ApartOk ==
  ASSUME TypeInv, NEW book, BooksOk(book), NEW s \in Servers
  PROVE  ByBooks(db[s], db[Other(s)], ping[s])
<1>. DEFINE d == db[s]
            e == db[Other(s)]
            b == book[s]
            c == book[Other(s)]
<1>0. Other(s) \in Servers /\ Other(Other(s)) = s
  BY OtherOk
<1>1. BookOk(d, b, c) /\ BookOk(e, c, b) /\ AskedBy(ping[s].asked, b)
  BY <1>0 DEF BooksOk, PingSays
<1>2. AskedOk(d, ping[s].asked) /\ DbOk(e, clock) /\ clock \in Nat
  BY <1>0 DEF TypeInv, PingOk
<1>. HIDE DEF d, e, b, c
<1>3. Apart(d, e) /\ Apart(e, d)
  BY <1>1 DEF Apart, BookOk, MatchSays, Says
<1>4. AskedApart(ping[s].asked, e)
  <2>1. \A q \in ping[s].asked : q.id # 0 /\ Says(b, q.id, q.who)
    BY <1>1, <1>2 DEF AskedOk, AskedBy
  <2>. QED
    BY <1>1, <2>1 DEF AskedApart, BookOk, MatchSays, Says
<1>5. AskedApart(Kept(e.requests), d)
  <2>1. \A q \in Kept(e.requests) : q.id # 0 /\ Says(c, q.id, q.who)
    <3>1. ASSUME NEW q \in Kept(e.requests)
          PROVE  q.id # 0 /\ Says(c, q.id, q.who)
      <4>1. PICK r \in e.requests : r.id > 0 /\ r.id = q.id /\ r.who = {q.who}
        BY <1>2, KeptOk
      <4>2. r.id \in Int /\ q.who \in r.who
        BY <1>2, <4>1 DEF DbOk, Db, Request
      <4>. QED
        BY <1>1, <4>1, <4>2 DEF BookOk, RequestsSay
    <3>. QED
      BY <3>1
  <2>. QED
    BY <1>1, <2>1 DEF AskedApart, BookOk, MatchSays, Says
<1>. QED
  BY <1>3, <1>4, <1>5 DEF ByBooks, d, e

\* Mail that is handed over.
LEMMA EmptiedLinks ==
  ASSUME NEW lim, NEW d \in Db(lim), NEW e, e = [d EXCEPT !.mail = <<>>]
  PROVE  /\ Steady(d, e) /\ SameInfo(d, e) /\ e.stuck = d.stuck /\ MailFits(e) /\ e.mail = <<>>
         /\ e.match = d.match /\ e.requests = d.requests
<1>1. /\ e.mail = <<>> /\ e.user = d.user /\ e.match = d.match /\ e.requests = d.requests /\ e.next = d.next
      /\ e.checked = d.checked /\ e.stuck = d.stuck
  BY DEF Db
<1>2. Steady(d, e) /\ SameInfo(d, e)
  BY <1>1 DEF Steady, SameInfo, Frame, SameMatch, SameUsersIn
<1>3. MailFits(e)
  BY <1>1 DEF MailFits
<1>. QED
  BY <1>1, <1>2, <1>3

\* The link after a ping has been sent, handled, received or lost.
LEMMA LinkSend ==
  ASSUME NEW lim \in Nat, NEW d, DbOk(d, lim), NEW e, DbOk(e, lim), NEW p, Link(d, e, p), ByBooks(d, e, p), NoUsersIn(d.mail),
         NEW h, h = [SentDb(d) EXCEPT !.mail = <<>>], Apart(e, h),
         NEW q, q.stage = "request", q.msgs = SentDb(d).mail, q.asked = UsersRequest(d).asked
  PROVE  Link(h, e, q)
<1>. DEFINE k == SentDb(d)
<1>1. k \in Db(lim) /\ h = [k EXCEPT !.mail = <<>>]
  BY SentOk DEF DbOk
<1>2. k = SentDb(d) /\ AskedOk(k, q.asked)
  BY SentOk
<1>. HIDE DEF k
<1>3. /\ Steady(k, h) /\ SameInfo(k, h) /\ h.stuck = k.stuck /\ MailFits(h) /\ h.match = k.match /\ h.requests = k.requests
  BY <1>1, EmptiedLinks
<1>4. Apart(e, k)
  BY <1>3 DEF Apart
<1>5. /\ Settled(k) /\ Agrees(k, e) /\ Agrees(e, k) /\ NoneWaits(k) /\ OneId(k, q.asked) /\ Calm(k)
      /\ Puts(k.mail, q.asked, k, e)
  BY <1>2, <1>4, SentPuts DEF Link, Tables, ByBooks
<1>6. Settled(h) /\ Agrees(h, e) /\ Agrees(e, h)
  BY <1>3, <1>5, SteadyHolds
<1>7. NoneWaits(h) /\ OneId(h, q.asked)
  <2>1. \A u \in q.asked : u.who \in Persons
    BY <1>2 DEF AskedOk
  <2>. QED
    BY <1>3, <1>5, <2>1, SteadyMessages
<1>8. Asks(q, h, e)
  BY <1>2, <1>3, <1>5 DEF Asks, Puts, RequestFits, WordsFit, Current
<1>9. Calm(h)
  BY <1>3, <1>5, CalmStill
<1>10. WaitingFits(h, e)
  <2>1. \A r \in h.requests : ~(r.id < 0)
    <3>1. \A r \in h.requests : r.id \in Int
      BY <1>1, <1>3 DEF Db, Request
    <3>. QED
      BY <1>7, <3>1 DEF NoneWaits
  <2>. QED
    BY <2>1 DEF WaitingFits
<1>11. Tables(h, e)
  BY <1>6, <1>10 DEF Link, Tables
<1>12. Travels(q, h, e)
  BY <1>7, <1>8 DEF Travels
<1>. QED
  BY <1>3, <1>9, <1>11, <1>12 DEF Link

LEMMA LinkHandle ==
  ASSUME NEW now \in Nat \ {0}, NEW e, Dated(e, now), NEW lim \in Nat, NEW d, DbOk(d, lim), NEW p, Link(d, e, p), ByBooks(d, e, p),
         p.stage = "request", p.msgs \in Seq(Message(now - 1)), e.stuck \/ NoUsersIn(e.mail), NEW again,
         NEW h, h = Served(e, p.msgs, again, now), NEW k, k = IF h.stuck THEN h ELSE [h EXCEPT !.mail = <<>>],
         NEW q, q.stage = "response", q.msgs = IF h.stuck THEN <<>> ELSE h.mail, q.asked = p.asked
  PROVE  Link(d, k, q)
<1>1. Settled(d) /\ OneId(d, p.asked) /\ Asks(p, d, e) /\ Calm(e) /\ NoneWaits(d)
  BY DEF Link, Tables, Travels
<1>2. Knows(d, e) /\ Before(d, e)
  BY DEF Link, Tables, Knows, Before, ByBooks
<1>3. Knows(d, h) /\ Handled(d, h) /\ Calm(h)
  BY <1>1, <1>2, ServedLinks
<1>4. h \in Db(now) /\ DbOk(h, now)
  BY ServedOk DEF Dated, DbOk
<1>5. /\ Steady(h, k) /\ SameInfo(h, k) /\ k.stuck = h.stuck /\ k.match = h.match /\ k.requests = h.requests
      /\ k.stuck \/ MailFits(k)
  <2>1. CASE h.stuck
    BY <2>1, NothingSaid
  <2>2. CASE ~h.stuck
    BY <1>4, <2>2, EmptiedLinks
  <2>. QED
    BY <2>1, <2>2
<1>6. Settled(k) /\ Agrees(d, k) /\ Agrees(k, d) /\ Kept(k.requests) = Kept(h.requests)
  BY <1>3, <1>5, SteadyHolds DEF Knows
<1>7. OneId(k, Kept(k.requests))
  BY <1>3, <1>5, <1>6 DEF Knows, OneId, Verified
<1>8. WaitingFits(d, k)
  <2>1. \A r \in d.requests : r.id \in Int
    BY DEF DbOk, Db, Request
  <2>. QED
    BY <1>1, <2>1 DEF WaitingFits, NoneWaits
<1>9. Responds(q, d, k)
  <2>1. CASE h.stuck
    BY <2>1 DEF Responds, WordsFit
  <2>2. CASE ~h.stuck
    BY <1>3, <1>5, <1>6, <2>2 DEF Handled, RepliesFit, Responds, ResponseFits, WordsFit, Current
  <2>. QED
    BY <2>1, <2>2
<1>10. Calm(k)
  BY <1>3, <1>5, CalmStill
<1>11. Tables(d, k)
  BY <1>1, <1>6, <1>7, <1>8 DEF Tables
<1>12. Travels(q, d, k)
  BY <1>1, <1>9 DEF Travels
<1>. QED
  BY <1>5, <1>10, <1>11, <1>12 DEF Link

LEMMA LinkIdle ==
  ASSUME NEW d, NEW e, NEW p, Link(d, e, p), NEW h, Meets(h, e), Calm(h)
  PROVE  Link(h, e, Idle)
<1>1. Tables(h, e)
  BY DEF Link, Tables, Meets
<1>2. Travels(Idle, h, e)
  BY DEF Travels, Idle, OneId
<1>. QED
  BY <1>1, <1>2 DEF Link, Meets

LEMMA LinkReceive ==
  ASSUME NEW now \in Nat \ {0}, NEW d, Dated(d, now), NEW e, NEW p, Link(d, e, p), ByBooks(d, e, p), AskedOk(d, p.asked),
         p.stage = "response", p.msgs \in Seq(Message(now - 1)), NEW again, NEW h, h = Read(d, p.msgs, p.asked, again, now)
  PROVE  Link(h, e, Idle)
<1>1. Meets(d, e) /\ Calm(d) /\ Responds(p, d, e) /\ AskedApart(p.asked, e)
  BY DEF Link, Tables, Travels, Meets, ByBooks
<1>2. Meets(h, e) /\ Calm(h)
  BY <1>1, ReadLinks
<1>. QED
  BY <1>2, LinkIdle

LEMMA LinkLose ==
  ASSUME NEW d, NEW e, NEW p, Link(d, e, p), ByBooks(d, e, p)
  PROVE  Link(d, e, Idle)
<1>1. Meets(d, e) /\ Calm(d)
  BY DEF Link, Tables, Meets, ByBooks
<1>. QED
  BY <1>1, LinkIdle

\* The users: what becomes of accounts and profiles.
UserSaid(d, e) == Steady(d, e) /\ MailGrows(d, e) /\ e.stuck = d.stuck /\ (Still(d) => Still(e))

LEMMA UserSet ==
  ASSUME TypeInv, Profiled, NEW s \in Servers, NEW x \in Persons, NEW v,
         Has(db[s], x) => v.id = db[s].user[x].id, v.info = db[s].user[x].info \/ v.info = profile[x],
         NEW e, e = [db[s] EXCEPT !.user[x] = v]
  PROVE  UserSaid(db[s], e) /\ e.mail = db[s].mail
<1>. DEFINE d == db[s]
<1>1. d \in Db(clock) /\ e = [d EXCEPT !.user[x] = v]
  BY DEF TypeInv, DbOk
<1>. HIDE DEF d
<1>2. /\ e.user = [d.user EXCEPT ![x] = v] /\ e.match = d.match /\ e.requests = d.requests /\ e.next = d.next
      /\ e.checked = d.checked /\ e.stuck = d.stuck /\ e.mail = d.mail
  BY <1>1 DEF Db
<1>3. \A y \in Persons : e.user[y] = IF y = x THEN v ELSE d.user[y]
  BY <1>1, <1>2 DEF Db
<1>4. Steady(d, e)
  BY <1>2, <1>3 DEF Steady, Frame, SameMatch, SameUsersIn, d
<1>5. Still(d) => Still(e)
  BY <1>3, PersonsAssumption DEF Still, Profiled, d
<1>6. MailGrows(d, e)
  BY <1>2 DEF MailGrows
<1>. QED
  BY <1>2, <1>4, <1>5, <1>6 DEF UserSaid, d

LEMMA UserSteps ==
  ASSUME TypeInv, Profiled, NEW s \in Servers, NEW x \in Persons, UserNext(s, x)
  PROVE  ping' = ping /\ \E e : db' = [db EXCEPT ![s] = e] /\ UserSaid(db[s], e)
<1>. DEFINE d == db[s]
<1>0. d \in Db(clock) /\ d.user[x] \in User(clock) /\ clock \in Nat
  BY DEF TypeInv, DbOk, Db
<1>1. CASE SignUp(s, x)
  <2>. DEFINE v == [NoUser EXCEPT !.id = 1 + Max({db[s].user[y].id : y \in Persons}), !.info = profile[x]]
              e == [db[s] EXCEPT !.user[x] = v]
  <2>1. db' = [db EXCEPT ![s] = e] /\ ping' = ping
    BY <1>1 DEF SignUp, TypeInv
  <2>2. v.info = profile[x] /\ ~Has(db[s], x)
    BY <1>1 DEF NoUser, SignUp
  <2>3. e = [db[s] EXCEPT !.user[x] = v]
    OBVIOUS
  <2>. HIDE DEF v, e
  <2>. QED
    BY <2>1, <2>2, <2>3, UserSet
<1>2. CASE LogIn(s, x)
  <2>. DEFINE v == [db[s].user[x] EXCEPT !.info = profile[x]]
              e == [db[s] EXCEPT !.user[x] = v]
  <2>1. db' = [db EXCEPT ![s] = e] /\ ping' = ping
    BY <1>2 DEF LogIn, TypeInv
  <2>2. v.info = profile[x] /\ v.id = db[s].user[x].id
    BY <1>0 DEF User
  <2>3. e = [db[s] EXCEPT !.user[x] = v]
    OBVIOUS
  <2>. HIDE DEF v, e
  <2>. QED
    BY <2>1, <2>2, <2>3, UserSet
<1>3. CASE GiveUp(s, x)
  <2>. DEFINE v == [db[s].user[x] EXCEPT !.pending = FALSE]
              e == [db[s] EXCEPT !.user[x] = v]
  <2>1. db' = [db EXCEPT ![s] = e] /\ ping' = ping
    BY <1>3 DEF GiveUp, TypeInv
  <2>2. v.info = db[s].user[x].info /\ v.id = db[s].user[x].id
    BY <1>0 DEF User
  <2>3. e = [db[s] EXCEPT !.user[x] = v]
    OBVIOUS
  <2>. HIDE DEF v, e
  <2>. QED
    BY <2>1, <2>2, <2>3, UserSet
<1>4. CASE Download(s, x)
  <2>. DEFINE f == Downloaded(s, x)
              e == IF Verified(f, x) THEN Told(f, {x}) ELSE f
              v == DownloadedUser(s, x)
  <2>1. ping' = ping /\ db' = [db EXCEPT ![s] = e] /\ Has(db[s], x)
    BY <1>4 DEF Download, Downloaded
  <2>2. v.info = profile[x] /\ v.id = db[s].user[x].id
    BY <1>0 DEF User, DownloadedUser
  <2>3. f = [db[s] EXCEPT !.user[x] = v] /\ f \in Db(clock + 1)
    BY <2>1, DownloadedIs, DownloadedOk DEF DbOk
  <2>. HIDE DEF v, f
  <2>4. UserSaid(d, f) /\ f.mail = d.mail
    BY <2>2, <2>3, UserSet
  <2>5. Said(f, e) /\ e.stuck = f.stuck
    <3>1. CASE Verified(f, x)
      BY <2>3, <3>1, ToldSaid, ToldFrame
    <3>2. CASE ~Verified(f, x)
      BY <3>2, NothingSaid
    <3>. QED
      BY <3>1, <3>2
  <2>. HIDE DEF e, d
  <2>6. Steady(d, e)
    BY <2>4, <2>5, SteadyChain DEF UserSaid, Said
  <2>7. MailGrows(d, e)
    BY <2>4, <2>5 DEF UserSaid, Said, MailGrows
  <2>8. Still(d) => Still(e)
    BY <2>4, <2>5, PersonsAssumption DEF UserSaid, Said, SameInfo, Still
  <2>9. UserSaid(d, e)
    BY <2>4, <2>5, <2>6, <2>7, <2>8 DEF UserSaid
  <2>. QED
    BY <2>1, <2>9 DEF d
<1>. QED
  BY <1>1, <1>2, <1>3, <1>4 DEF UserNext

LEMMA LinkUser ==
  ASSUME NEW lim \in Nat, NEW d, DbOk(d, lim), NEW e, DbOk(e, lim), NEW p, AskedOk(d, p.asked), Link(d, e, p), NEW f
  PROVE  /\ UserSaid(d, f) => Link(f, e, p)
         /\ UserSaid(e, f) => Link(d, f, p)
<1>0. /\ \A q \in p.asked : q.who \in Persons
      /\ \A q \in Kept(e.requests) : q.who \in Persons
      /\ d.mail \in Seq(Message(lim)) /\ e.mail \in Seq(Message(lim))
  BY KeptOk DEF AskedOk, DbOk, Db
<1>1. Still(d) /\ Still(e) /\ \A g : Calm(g) <=> Still(g) /\ (Quiet => ~g.stuck)
  BY DEF Link, Calm, Still
<1>2. ASSUME UserSaid(d, f)
      PROVE  Link(f, e, p)
  <2>1. Steady(d, f) /\ MailGrows(d, f) /\ f.stuck = d.stuck /\ Still(f)
    BY <1>1, <1>2 DEF UserSaid
  <2>2. MailFits(f) /\ Calm(f)
    BY <1>0, <1>1, <2>1, MailStillFits DEF Link
  <2>3. Tables(f, e)
    BY <2>1, SteadyHolds, SteadyMessages DEF Link, Tables
  <2>4. OneId(f, p.asked) /\ (p.stage # "idle" => NoneWaits(f))
    BY <1>0, <2>1, SteadyMessages DEF Link, Travels
  <2>5. p.stage = "request" => Asks(p, f, e)
    <3>1. /\ \A users, asked : RequestFits(users, d, asked) => RequestFits(users, f, asked)
          /\ \A g : Current(d, g) => Current(f, g)
      BY <2>1, SteadyHolds, SteadyMessages
    <3>. QED
      BY <3>1 DEF Link, Travels, Asks, WordsFit
  <2>6. p.stage = "response" => Responds(p, f, e)
    <3>1. \A g : Fits(d, g) => Fits(f, g)
      BY <2>1, SteadyHolds
    <3>. QED
      BY <3>1 DEF Link, Travels, Responds, WordsFit
  <2>. QED
    BY <2>2, <2>3, <2>4, <2>5, <2>6 DEF Link, Travels
<1>3. ASSUME UserSaid(e, f)
      PROVE  Link(d, f, p)
  <2>1. Steady(e, f) /\ MailGrows(e, f) /\ f.stuck = e.stuck /\ Still(f)
    BY <1>1, <1>3 DEF UserSaid
  <2>2. (f.stuck \/ MailFits(f)) /\ Calm(f)
    <3>1. MailFits(e) => MailFits(f)
      BY <1>0, <1>1, <2>1, MailStillFits
    <3>. QED
      BY <1>1, <2>1, <3>1 DEF Link
  <2>3. Tables(d, f)
    <3>1. Settled(f) /\ Agrees(d, f) /\ Agrees(f, d) /\ Kept(f.requests) = Kept(e.requests)
      BY <2>1, SteadyHolds DEF Link, Tables
    <3>2. OneId(f, Kept(f.requests)) /\ WaitingFits(d, f)
      BY <1>0, <2>1, <3>1, SteadyMessages DEF Link, Tables
    <3>. QED
      BY <3>1, <3>2 DEF Link, Tables
  <2>4. p.stage = "request" => Asks(p, d, f)
    <3>1. \A g : Fits(e, g) => Fits(f, g)
      BY <2>1, SteadyHolds
    <3>. QED
      BY <3>1 DEF Link, Travels, Asks, WordsFit
  <2>5. p.stage = "response" => Responds(p, d, f)
    <3>1. /\ \A users : ResponseFits(users, e) => ResponseFits(users, f)
          /\ \A g : Current(e, g) => Current(f, g)
      BY <2>1, SteadyHolds, SteadyMessages
    <3>. QED
      BY <3>1 DEF Link, Travels, Responds, WordsFit
  <2>. QED
    BY <2>2, <2>3, <2>4, <2>5 DEF Link, Travels
<1>. QED
  BY <1>2, <1>3

Distinct == \A s \in Servers : ByBooks(db[s], db[Other(s)], ping[s])
Grounds  == TypeInv /\ Boxes /\ Distinct
LinkInv  == Profiled /\ \A s \in Servers : Other(s) \notin Pingers => Linked(s)

LEMMA SendPingLinked ==
  ASSUME Grounds, Distinct', NEW s \in Servers, Linked(s), SendPing(s)
  PROVE  Linked(s)'
<1>. DEFINE o == Other(s)
            d == SentDb(db[s])
            h == [d EXCEPT !.mail = <<>>]
            q == [stage |-> "request", msgs |-> d.mail, asked |-> UsersRequest(db[s]).asked]
<1>0. o \in Servers /\ o # s
  BY OtherOk
<1>1. ping' = [ping EXCEPT ![s] = q] /\ db' = [db EXCEPT ![s] = h] /\ s \in Pingers
  BY DEF SendPing, SentDb
<1>2. db'[s] = h /\ db'[o] = db[o] /\ ping'[s] = q
  BY <1>0, <1>1 DEF Grounds, TypeInv
<1>3. /\ clock \in Nat /\ DbOk(db[s], clock) /\ DbOk(db[o], clock) /\ NoUsersIn(db[s].mail)
      /\ Link(db[s], db[o], ping[s]) /\ ByBooks(db[s], db[o], ping[s])
  BY <1>0, <1>1 DEF Grounds, TypeInv, Boxes, Distinct, Linked
<1>4. Apart(db[o], h)
  <2>1. ByBooks(db'[s], db'[o], ping'[s])
    BY DEF Distinct, Other
  <2>. QED
    BY <1>2, <2>1 DEF ByBooks
<1>5. h = [SentDb(db[s]) EXCEPT !.mail = <<>>] /\ q.stage = "request" /\ q.msgs = SentDb(db[s]).mail
      /\ q.asked = UsersRequest(db[s]).asked
  OBVIOUS
<1>. HIDE DEF o, d, h, q
<1>6. Link(h, db[o], q)
  BY <1>3, <1>4, <1>5, LinkSend
<1>7. Link(db'[s], db'[o], ping'[s])
  BY <1>2, <1>6
<1>. QED
  BY <1>7 DEF Linked, Other, o

LEMMA HandlePingLinked ==
  ASSUME Grounds, NEW s \in Servers, Linked(s), HandlePing(s)
  PROVE  Linked(s)'
<1>. DEFINE o == Other(s)
<1>0. o \in Servers /\ o # s
  BY OtherOk
<1>1. PICK again : \E d \in {Served(db[o], ping[s].msgs, again, clock + 1)} :
         /\ db' = [db EXCEPT ![o] = IF d.stuck THEN d ELSE [d EXCEPT !.mail = <<>>]]
         /\ ping' = [ping EXCEPT ![s].stage = "response", ![s].msgs = IF d.stuck THEN <<>> ELSE d.mail]
  BY DEF HandlePing
<1>. DEFINE now == clock + 1
            h == Served(db[o], ping[s].msgs, again, now)
            k == IF h.stuck THEN h ELSE [h EXCEPT !.mail = <<>>]
            q == [ping[s] EXCEPT !.stage = "response", !.msgs = IF h.stuck THEN <<>> ELSE h.mail]
<1>2. db' = [db EXCEPT ![o] = k] /\ ping' = [ping EXCEPT ![s] = q]
  BY <1>1 DEF Grounds, TypeInv
<1>3. db'[s] = db[s] /\ db'[o] = k /\ ping'[s] = q
  BY <1>0, <1>2 DEF Grounds, TypeInv
<1>4. ping[s] \in PingAt(clock)
  BY DEF Grounds, TypeInv, PingOk
<1>5. q.stage = "response" /\ q.msgs = (IF h.stuck THEN <<>> ELSE h.mail) /\ q.asked = ping[s].asked
  BY <1>4 DEF PingAt
<1>6. h = Served(db[o], ping[s].msgs, again, now) /\ now = clock + 1 /\ k = IF h.stuck THEN h ELSE [h EXCEPT !.mail = <<>>]
  OBVIOUS
<1>. HIDE DEF o, now, h, k, q
<1>7. Dated(db[o], now) /\ ping[s].msgs \in Seq(Message(now - 1)) /\ now \in Nat \ {0}
  BY <1>0, <1>6, NowDated DEF Grounds
<1>8. /\ clock \in Nat /\ DbOk(db[s], clock) /\ ping[s].stage = "request" /\ (db[o].stuck \/ NoUsersIn(db[o].mail))
      /\ Link(db[s], db[o], ping[s]) /\ ByBooks(db[s], db[o], ping[s])
  BY <1>0 DEF Grounds, TypeInv, Boxes, Distinct, Linked, HandlePing, o
<1>9. Link(db[s], k, q)
  BY <1>5, <1>6, <1>7, <1>8, LinkHandle
<1>10. Link(db'[s], db'[o], ping'[s])
  BY <1>3, <1>9
<1>. QED
  BY <1>10 DEF Linked, Other, o

LEMMA ReceivePingLinked ==
  ASSUME Grounds, NEW s \in Servers, Linked(s), ReceivePing(s)
  PROVE  Linked(s)'
<1>. DEFINE o == Other(s)
            now == clock + 1
<1>0. o \in Servers /\ o # s
  BY OtherOk
<1>1. PICK again : db' = [db EXCEPT ![s] = Read(db[s], ping[s].msgs, ping[s].asked, again, now)]
  BY DEF ReceivePing
<1>. DEFINE h == Read(db[s], ping[s].msgs, ping[s].asked, again, now)
<1>2. db'[s] = h /\ db'[o] = db[o] /\ ping'[s] = Idle
  BY <1>0, <1>1 DEF Grounds, TypeInv, ReceivePing, Idle
<1>3. h = Read(db[s], ping[s].msgs, ping[s].asked, again, now) /\ now = clock + 1
  OBVIOUS
<1>. HIDE DEF o, now, h
<1>4. Dated(db[s], now) /\ ping[s].msgs \in Seq(Message(now - 1)) /\ now \in Nat \ {0}
  BY <1>3, NowDated DEF Grounds
<1>5. /\ AskedOk(db[s], ping[s].asked) /\ ping[s].stage = "response"
      /\ Link(db[s], db[o], ping[s]) /\ ByBooks(db[s], db[o], ping[s])
  BY DEF Grounds, TypeInv, PingOk, Distinct, Linked, ReceivePing, o
<1>6. Link(h, db[o], Idle)
  BY <1>3, <1>4, <1>5, LinkReceive
<1>7. Link(db'[s], db'[o], ping'[s])
  BY <1>2, <1>6
<1>. QED
  BY <1>7 DEF Linked, Other, o

LEMMA LosePingLinked ==
  ASSUME Grounds, NEW s \in Servers, Linked(s), LosePing(s)
  PROVE  Linked(s)'
<1>1. db' = db /\ ping'[s] = Idle
  BY DEF Grounds, TypeInv, LosePing, Idle
<1>2. Link(db[s], db[Other(s)], Idle)
  BY LinkLose DEF Grounds, Distinct, Linked
<1>. QED
  BY <1>1, <1>2 DEF Linked, Other

LEMMA UserLinked ==
  ASSUME Grounds, Profiled, NEW s \in Servers, Linked(s), NEW t \in Servers, NEW x \in Persons, UserNext(t, x)
  PROVE  Linked(s)'
<1>. DEFINE o == Other(s)
<1>0. o \in Servers /\ o # s /\ (t = s \/ t = o)
  BY OtherOk
<1>1. PICK f : ping' = ping /\ db' = [db EXCEPT ![t] = f] /\ UserSaid(db[t], f)
  BY UserSteps DEF Grounds
<1>2. \A u \in Servers : db'[u] = IF u = t THEN f ELSE db[u]
  BY <1>1 DEF Grounds, TypeInv
<1>3. /\ clock \in Nat /\ DbOk(db[s], clock) /\ DbOk(db[o], clock) /\ AskedOk(db[s], ping[s].asked)
      /\ Link(db[s], db[o], ping[s])
  BY <1>0 DEF Grounds, TypeInv, PingOk, Linked
<1>. HIDE DEF o
<1>4. (t = s => Link(f, db[o], ping[s])) /\ (t = o => Link(db[s], f, ping[s]))
  BY <1>1, <1>3, LinkUser
<1>5. Link(db'[s], db'[o], ping'[s])
  BY <1>0, <1>1, <1>2, <1>4
<1>. QED
  BY <1>5 DEF Linked, Other, o

LEMMA ProfiledStep ==
  ASSUME TypeInv, Profiled, [Next]_vars
  PROVE  Profiled'
<1>1. ASSUME NEW x \in Persons, ChangeProfile(x)
      PROVE  Profiled'
  <2>1. profile[x] \in Nat /\ MaxInfo[x] \in Nat /\ profile \in [Persons -> Nat]
    BY BoundsAssumption DEF TypeInv
  <2>2. profile' = [profile EXCEPT ![x] = profile[x] + 1] /\ profile[x] < MaxInfo[x]
    BY <1>1 DEF ChangeProfile
  <2>3. Quiet => x \notin Online
    BY <2>1, <2>2 DEF Quiet
  <2>. QED
    BY <2>1, <2>2, <2>3, PersonsAssumption DEF Profiled, Quiet
<1>2. CASE UNCHANGED profile
  BY <1>2 DEF Profiled, Quiet
<1>3. ASSUME NEW s \in Servers, PingNext(s)
      PROVE  UNCHANGED profile
  BY <1>3 DEF PingNext, SendPing, HandlePing, ReceivePing, LosePing
<1>4. ASSUME NEW s \in Servers, NEW x \in Persons, UserNext(s, x)
      PROVE  UNCHANGED profile
  BY <1>4 DEF UserNext, SignUp, Download, LogIn, GiveUp
<1>. QED
  BY <1>1, <1>2, <1>3, <1>4 DEF Next, vars

LEMMA LinkStep ==
  ASSUME Grounds, Distinct', LinkInv, [Next]_vars
  PROVE  LinkInv'
<1>1. Profiled /\ Profiled'
  BY ProfiledStep DEF LinkInv, Grounds
<1>2. ASSUME NEW s \in Servers, Other(s) \notin Pingers
      PROVE  Linked(s)'
  <2>1. Linked(s)
    BY <1>2 DEF LinkInv
  <2>2. ASSUME NEW t \in Servers, PingNext(t)
        PROVE  Linked(s)'
    <3>1. t = s
      <4>1. t = s \/ t = Other(s)
        BY OtherOk
      <4>2. PingNext(t) => t \in Pingers
        BY DEF Grounds, Boxes, PingNext, SendPing, HandlePing, ReceivePing, LosePing
      <4>. QED
        BY <1>2, <2>2, <4>1, <4>2
    <3>2. SendPing(s) \/ HandlePing(s) \/ ReceivePing(s) \/ LosePing(s)
      BY <2>2, <3>1 DEF PingNext
    <3>. QED
      BY <2>1, <3>2, SendPingLinked, HandlePingLinked, ReceivePingLinked, LosePingLinked
  <2>3. ASSUME NEW t \in Servers, NEW x \in Persons, UserNext(t, x)
        PROVE  Linked(s)'
    BY <1>1, <2>1, <2>3, UserLinked
  <2>4. CASE db' = db /\ ping' = ping
    BY <2>1, <2>4 DEF Linked, Other
  <2>. QED
    BY <2>2, <2>3, <2>4 DEF Next, ChangeProfile, vars
<1>. QED
  BY <1>1, <1>2 DEF LinkInv, Other

LEMMA LinkInit ==
  Init => LinkInv
<1>. SUFFICES ASSUME Init PROVE LinkInv
  OBVIOUS
<1>1. Profiled
  BY PersonsAssumption DEF Init, Profiled
<1>2. ASSUME NEW s \in Servers
      PROVE  /\ db[s].mail = <<>> /\ db[s].requests = {} /\ ~db[s].stuck
             /\ \A x \in Persons : db[s].match[x] = NoMatch /\ db[s].user[x].info = 0
             /\ ping[s].stage = "idle" /\ ping[s].asked = {}
  BY DEF Init, NoUser
<1>3. ASSUME NEW s \in Servers
      PROVE  Linked(s)
  <2>. DEFINE d == db[s]
              e == db[Other(s)]
              p == ping[s]
  <2>1. /\ \A x \in Persons : ~Verified(d, x) /\ ~Verified(e, x) /\ d.user[x].info = 0 /\ e.user[x].info = 0
        /\ d.mail = <<>> /\ e.mail = <<>> /\ d.requests = {} /\ e.requests = {} /\ ~d.stuck /\ ~e.stuck
        /\ p.stage = "idle" /\ p.asked = {}
    BY <1>2, OtherOk DEF Verified, NoMatch
  <2>. HIDE DEF d, e, p
  <2>2. Tables(d, e)
    BY <2>1 DEF Tables, Settled, Agrees, OneId, Kept, WaitingFits
  <2>3. Travels(p, d, e)
    BY <2>1 DEF Travels, OneId
  <2>4. MailFits(d) /\ MailFits(e) /\ Calm(d) /\ Calm(e)
    BY <2>1, PersonsAssumption DEF MailFits, Calm
  <2>. QED
    BY <2>2, <2>3, <2>4 DEF Linked, Link, d, e, p
<1>. QED
  BY <1>1, <1>3 DEF LinkInv

LEMMA LinkHolds ==
  ASSUME \A s, t \in Pingers : s = t
  PROVE  Spec => []LinkInv
<1>1. TypeInv /\ BooksInv => Grounds
  BY ApartOk DEF Grounds, Distinct, BooksInv, Sound, OnePinger
<1>2. LinkInv /\ Grounds /\ Grounds' /\ [Next]_vars => LinkInv'
  BY LinkStep DEF Grounds
<1>. QED
  BY <1>1, <1>2, LinkInit, BooksHold, PTL DEF Spec

\* One of the servers does not ping.
LEMMA LinkedPair ==
  ASSUME LinkInv, \A s, t \in Pingers : s = t, NEW s \in Servers
  PROVE  Linked(s) \/ \E o \in Servers : o = Other(s) /\ Other(o) = s /\ Linked(o)
BY OtherOk DEF LinkInv

\* The pseudo id under which a server has verified a user is the one the other server has noted,
\* whatever gets lost, when one of the servers pings the other (server_users, the users messages
\* of create_compare_users_message and receive_compare_users_message).
THEOREM VerifiedIsNoted ==
  ASSUME \A s, t \in Pingers : s = t
  PROVE  Spec => []PseudoAgrees
<1>1. LinkInv => PseudoAgrees
  <2>. SUFFICES ASSUME LinkInv, NEW s \in Servers PROVE Agrees(db[s], db[Other(s)])
    BY DEF PseudoAgrees, Agrees
  <2>. QED
    BY LinkedPair DEF Linked, Link, Tables
<1>. QED
  BY <1>1, LinkHolds, PTL

\* No message raises an exception, which would leave it in the mailbox with all that come after
\* it, as long as users who are online keep their profiles and one of the servers pings the other
\* (receive_sha256_changed_message, receive_online_users_message, Message.receive_messages).
THEOREM NothingRaises ==
  ASSUME \A s, t \in Pingers : s = t, \A x \in Online : MaxInfo[x] = 0
  PROVE  Spec => []NotStuck
<1>1. LinkInv => NotStuck
  <2>. SUFFICES ASSUME LinkInv, NEW s \in Servers PROVE Calm(db[s])
    BY DEF NotStuck, Calm, Quiet
  <2>. QED
    BY LinkedPair DEF Linked, Link
<1>. QED
  BY <1>1, LinkHolds, PTL
=============================================================================
