------------------------ MODULE CommentActionsProofs ------------------------
(* Proofs about the comments table.  For any number of workers: its types, the *)
(* sha256 signature that is written once, the users every signature names and  *)
(* who decides.  For one worker: the table implements GiftRecord, and what was *)
(* granted holds.                                                              *)
EXTENDS CommentActions, TLAPS

LEMMA ItemsAreItem == Items \subseteq Item
<1> SUFFICES ASSUME NEW b \in Batches, NEW n \in DOMAIN b PROVE b[n] \in Item
  BY DEF Items
<1>1. b \in Seq(Item)
  BY BatchesAssumption
<1> QED BY <1>1

LEMMA BatchOfItems ==
  ASSUME NEW b \in Batches
  PROVE  b \in Seq(Items) \ {<<>>}
<1>1. b \in Seq(Item) /\ b # <<>>
  BY BatchesAssumption
<1>2. b \in [1..Len(b) -> Item] /\ Len(b) \in Nat
  BY <1>1
<1>3. \A n \in 1..Len(b) : b[n] \in Items
  BY <1>2 DEF Items
<1>4. b \in [1..Len(b) -> Items]
  BY <1>2, <1>3
<1> QED BY <1>1, <1>2, <1>4

LEMMA CurrentIsItem ==
  ASSUME TypeOK, NEW w \in Workers, Busy(w)
  PROVE  /\ Current(w) \in Items
         /\ Current(w) \in Item
         /\ Current(w).cid \in Comments
         /\ Seen(w) \in Rows
         /\ Tail(batch[w]) \in Seq(Items)
<1>1. batch[w] \in Seq(Items) \ {<<>>}
  BY DEF TypeOK, Busy
<1>2. Current(w) \in Items /\ Tail(batch[w]) \in Seq(Items)
  BY <1>1 DEF Current
<1>3. Current(w) \in Item
  BY <1>2, ItemsAreItem
<1>4. Current(w).cid \in Comments
  BY <1>3 DEF Item
<1>5. Seen(w) \in Rows
  BY <1>4 DEF TypeOK, Seen
<1> QED BY <1>2, <1>3, <1>4, <1>5

\* What the answer of an item does to the bookkeeping of requests keeps its types.
LEMMA AnswerTypes ==
  ASSUME TypeOK, NEW w \in Workers, Busy(w), NEW q \in SUBSET Items, NEW a \in SUBSET Items,
         Answer(w, a, q) \/ Abort(w),
         row' \in [Comments -> Rows], seen' \in [Workers -> [Comments -> Rows]]
  PROVE  TypeOK'
<1>1. CASE Answer(w, a, q)
  <2>1. batch' \in [Workers -> (Seq(Items) \ {<<>>}) \union {Idle}]
    BY <1>1, CurrentIsItem DEF Answer, TypeOK
  <2>2. answers' \in [Workers -> SUBSET Items] /\ questions' \in [Workers -> SUBSET Items]
    BY <1>1 DEF Answer, TypeOK
  <2>3. granted' \subseteq Items
    BY <1>1 DEF Answer, TypeOK
  <2>4. asked' \in [Items -> Asked]
    BY <1>1 DEF Answer, TypeOK, Asked
  <2> QED BY <2>1, <2>2, <2>3, <2>4 DEF TypeOK
<1>2. CASE Abort(w)
  BY <1>2 DEF Abort, TypeOK
<1> QED BY <1>1, <1>2

\* The two uses of it: a positive answer, or the end of the request by an exception.
LEMMA GrantTypes ==
  ASSUME TypeOK, NEW w \in Workers, Busy(w), Grant(w) \/ Abort(w),
         row' \in [Comments -> Rows], seen' \in [Workers -> [Comments -> Rows]]
  PROVE  TypeOK'
<1>1. {Current(w)} \in SUBSET Items /\ {} \in SUBSET Items
  BY CurrentIsItem
<1>2. Answer(w, {Current(w)}, {}) \/ Abort(w)
  BY DEF Grant
<1> QED BY <1>1, <1>2, AnswerTypes

\* Writing one column of one row keeps the table a table, and the other columns and rows.
LEMMA WriteTypes ==
  ASSUME NEW t \in [Comments -> Rows], NEW c \in Comments, NEW d \in Columns, NEW s \in Signatures
  PROVE  Write(t, c, d, s) \in [Comments -> Rows]
BY DEF Rows, Write

LEMMA WriteKeeps ==
  ASSUME NEW t \in [Comments -> Rows], NEW c \in Comments, NEW d \in Columns, NEW s
  PROVE  \A e \in Comments : \A f \in Columns :
           Write(t, c, d, s)[e][f] = IF e = c /\ f = d THEN s ELSE t[e][f]
BY DEF Rows, Write

\* The actions that write sign with a signature of the client.
LEMMA Signed ==
  ASSUME TypeOK, NEW w \in Workers, Busy(w), WellFormed(Current(w))
  PROVE  /\ Signature(Current(w), Current(w).sha256) \in Signatures
         /\ Decides(Current(w)) => Signature(Current(w), Current(w).sha256_action) \in Signatures
         /\ Current(w).action = "delete" => Signature(Current(w), Current(w).sha256_deleted) \in Signatures
BY CurrentIsItem DEF Item, Sha, WellFormed, Named, Signature, Signatures

LEMMA UpdateTypes ==
  ASSUME TypeOK, NEW w \in Workers, Busy(w), NEW d \in Columns, NEW s \in Signatures, Update(w, d, s)
  PROVE  row' \in [Comments -> Rows] /\ seen' \in [Workers -> [Comments -> Rows]]
<1>1. row' \in [Comments -> Rows]
  BY CurrentIsItem, WriteTypes DEF Update, TypeOK
<1>2. seen[w] \in [Comments -> Rows]
  BY DEF TypeOK
<1>3. Write(seen[w], Current(w).cid, d, s) \in [Comments -> Rows]
  BY <1>2, CurrentIsItem, WriteTypes
<1> QED BY <1>1, <1>3 DEF Update, TypeOK

\* The tables and the requests keep their types.
THEOREM TypeCorrect == Spec => []TypeOK
<1>1. Init => TypeOK
  BY DEF Init, TypeOK, NoRow, Rows, Asked
<1>2. TypeOK /\ [Next]_vars => TypeOK'
  <2> SUFFICES ASSUME TypeOK, [Next]_vars PROVE TypeOK'
    OBVIOUS
  <2>1. CASE UNCHANGED vars
    BY <2>1 DEF vars, TypeOK
  <2>2. ASSUME NEW w \in Workers, Read(w) PROVE TypeOK'
    <3>1. PICK b \in Batches : Begin(w, b) /\ UNCHANGED asked
      BY <2>2 DEF Read
    <3>2. b \in Seq(Items) \ {<<>>}
      BY BatchOfItems
    <3> QED BY <3>1, <3>2 DEF Begin, TypeOK
  <2>3. ASSUME NEW w \in Workers, ReceiveGiftAnswer(w) PROVE TypeOK'
    <3>0. PICK i \in Items : \E answer \in Directions(i.gift) \union {"false"} :
            Begin(w, <<i>>) /\ asked' = [asked EXCEPT ![i] = answer]
      BY <2>3 DEF ReceiveGiftAnswer
    <3>1. PICK answer \in Directions(i.gift) \union {"false"} :
            Begin(w, <<i>>) /\ asked' = [asked EXCEPT ![i] = answer]
      BY <3>0
    <3>2. answer \in Asked
      BY DEF Directions, Asked
    <3>3. <<i>> \in Seq(Items) \ {<<>>}
      OBVIOUS
    <3>4. asked' \in [Items -> Asked]
      BY <3>1, <3>2 DEF TypeOK
    <3>5. batch' \in [Workers -> (Seq(Items) \ {<<>>}) \union {Idle}]
      BY <3>1, <3>3 DEF Begin, TypeOK
    <3> QED BY <3>1, <3>4, <3>5 DEF Begin, TypeOK
  <2>4. ASSUME NEW w \in Workers, Create(w) PROVE TypeOK'
    <3>1. Busy(w) /\ WellFormed(Current(w)) /\ Grant(w) /\ UNCHANGED seen
      BY <2>4 DEF Create, Valid1, Valid, Authorized, Complete
    <3>2. row' \in [Comments -> Rows]
      BY <2>4, <3>1, CurrentIsItem, Signed, WriteTypes DEF Create, TypeOK, Columns
    <3>3. seen' \in [Workers -> [Comments -> Rows]]
      BY <3>1 DEF TypeOK
    <3> QED BY <3>1, <3>2, <3>3, GrantTypes
  <2>5. ASSUME NEW w \in Workers, Decide(w) \/ Delete(w) PROVE TypeOK'
    <3>1. /\ Busy(w) /\ WellFormed(Current(w))
          /\ Grant(w) \/ Abort(w)
      BY <2>5 DEF Decide, Delete, Valid1, Valid, Authorized, Complete
    <3>2. PICK d \in Columns, s \in Signatures : Update(w, d, s)
      <4>1. CASE Decide(w)
        BY <3>1, <4>1, Signed DEF Decide, Valid1, Decides, Columns
      <4>2. CASE Delete(w)
        BY <3>1, <4>2, Signed DEF Delete, Valid1, Columns
      <4> QED BY <2>5, <4>1, <4>2
    <3>3. row' \in [Comments -> Rows] /\ seen' \in [Workers -> [Comments -> Rows]]
      BY <3>1, <3>2, UpdateTypes
    <3> QED BY <3>1, <3>3, GrantTypes
  <2>6. ASSUME NEW w \in Workers, Verify(w) \/ Ask(w) \/ Raise(w) \/ Refuse(w) PROVE TypeOK'
    <3>1. Busy(w) /\ row' = row /\ seen' = seen
      BY <2>6 DEF Verify, Valid1, Ask, Raise, Refuse
    <3>2. row' \in [Comments -> Rows] /\ seen' \in [Workers -> [Comments -> Rows]]
      BY <3>1 DEF TypeOK
    <3>3. CASE Verify(w) \/ Raise(w)
      BY <3>1, <3>2, <3>3, GrantTypes DEF Verify, Raise
    <3>4. CASE Ask(w)
      <4>1. {Current(w)} \in SUBSET Items /\ {} \in SUBSET Items
        BY <3>1, CurrentIsItem
      <4> QED BY <3>1, <3>2, <3>4, <4>1, AnswerTypes DEF Ask
    <3>5. CASE Refuse(w)
      <4>1. {} \in SUBSET Items
        OBVIOUS
      <4> QED BY <3>1, <3>2, <3>5, <4>1, AnswerTypes DEF Refuse
    <3> QED BY <2>6, <3>3, <3>4, <3>5
  <2> QED BY <2>1, <2>2, <2>3, <2>4, <2>5, <2>6 DEF Next
<1> QED BY <1>1, <1>2, PTL DEF Spec

----------------------------------------------------------------------------
\* The steps by what they do to the tables: they sign a comment that was not there, sign a
\* decision or a deletion of a comment that was seen, or leave both or the table alone.
SignsNew(w) ==
  /\ Busy(w) /\ ~Exists(row[Current(w).cid]) /\ Current(w) \in Item /\ seen' = seen
  /\ row' = Write(row, Current(w).cid, "sha256", Signature(Current(w), Current(w).sha256))
SignsAlso(w) ==
  /\ Busy(w) /\ Current(w) \in Item /\ Exists(Seen(w)) /\ Seen(w)["sha256"].users = Current(w).users
  /\ \E d \in {"sha256_action", "sha256_deleted"}, s \in Signatures :
       s.users = Current(w).users /\ Update(w, d, s)

LEMMA SignsAlsoCase ==
  ASSUME TypeOK, NEW w \in Workers, Decide(w) \/ Delete(w)
  PROVE  SignsAlso(w)
<1>1. /\ Busy(w) /\ Current(w) \in Item
      /\ Current(w).action \in {"cancel", "accept", "reject", "delete"}
      /\ WellFormed(Current(w)) /\ Matches(Current(w), Seen(w))
  BY CurrentIsItem DEF Decide, Delete, Valid1, Valid, Authorized, Complete
<1>2. Exists(Seen(w)) /\ Seen(w)["sha256"] = Signature(Current(w), Current(w).sha256)
  BY <1>1 DEF Matches
<1>3. Seen(w)["sha256"].users = Current(w).users
  BY <1>2 DEF Signature
<1>4. PICK d \in {"sha256_action", "sha256_deleted"}, s \in Signatures :
        s.users = Current(w).users /\ Update(w, d, s)
  <2>1. CASE Decide(w)
    <3>1. Signature(Current(w), Current(w).sha256_action) \in Signatures
      BY <1>1, <2>1, Signed DEF Decide, Valid1, Decides
    <3>2. Update(w, "sha256_action", Signature(Current(w), Current(w).sha256_action))
      BY <2>1 DEF Decide
    <3> QED BY <3>1, <3>2 DEF Signature
  <2>2. CASE Delete(w)
    <3>1. Signature(Current(w), Current(w).sha256_deleted) \in Signatures
      BY <1>1, <2>2, Signed DEF Delete, Valid1
    <3>2. Update(w, "sha256_deleted", Signature(Current(w), Current(w).sha256_deleted))
      BY <2>2 DEF Delete
    <3> QED BY <3>1, <3>2 DEF Signature
  <2> QED BY <2>1, <2>2
<1> QED BY <1>1, <1>2, <1>3, <1>4 DEF SignsAlso

LEMMA StepCases ==
  ASSUME TypeOK, [Next]_vars
  PROVE  \/ \E w \in Workers : SignsNew(w) \/ SignsAlso(w)
         \/ row' = row /\ \E w \in Workers : seen' = [seen EXCEPT ![w] = row]
         \/ row' = row /\ seen' = seen
<1>1. CASE UNCHANGED vars
  BY <1>1 DEF vars
<1>2. ASSUME NEW w \in Workers, Read(w) \/ ReceiveGiftAnswer(w)
      PROVE  row' = row /\ seen' = [seen EXCEPT ![w] = row]
  BY <1>2 DEF Read, ReceiveGiftAnswer, Begin
<1>3. ASSUME NEW w \in Workers, Create(w) PROVE SignsNew(w)
  BY <1>3, CurrentIsItem DEF Create, Valid1, SignsNew
<1>4. ASSUME NEW w \in Workers, Decide(w) \/ Delete(w) PROVE SignsAlso(w)
  BY <1>4, SignsAlsoCase
<1>5. ASSUME NEW w \in Workers, Verify(w) \/ Ask(w) \/ Raise(w) \/ Refuse(w)
      PROVE  row' = row /\ seen' = seen
  BY <1>5 DEF Verify, Ask, Raise, Refuse
<1> QED BY <1>1, <1>2, <1>3, <1>4, <1>5 DEF Next

\* What a step does to the columns of the table.
LEMMA ColumnStep ==
  ASSUME TypeOK, NEW w \in Workers, NEW c \in Comments, NEW d \in Columns,
         SignsNew(w) \/ SignsAlso(w), row'[c][d] # row[c][d]
  PROVE  /\ c = Current(w).cid
         /\ \/ SignsNew(w) /\ d = "sha256" /\ ~Exists(row[c])
            \/ SignsAlso(w) /\ d # "sha256" /\ row'[c][d].users = Current(w).users
<1>1. row \in [Comments -> Rows] /\ Busy(w) /\ Current(w).cid \in Comments
  BY CurrentIsItem DEF TypeOK, SignsNew, SignsAlso
<1>2. CASE SignsNew(w)
  BY <1>1, <1>2, WriteKeeps DEF SignsNew, Columns
<1>3. CASE SignsAlso(w)
  <2>1. PICK e \in {"sha256_action", "sha256_deleted"}, s \in Signatures :
          s.users = Current(w).users /\ Update(w, e, s)
    BY <1>3 DEF SignsAlso
  <2>2. row' = Write(row, Current(w).cid, e, s)
    BY <2>1 DEF Update
  <2>3. row'[c][d] = IF c = Current(w).cid /\ d = e THEN s ELSE row[c][d]
    BY <1>1, <2>2, WriteKeeps DEF Columns
  <2> QED BY <1>3, <2>1, <2>3
<1> QED BY <1>2, <1>3

LEMMA Sha256Step ==
  ASSUME TypeOK, [Next]_vars, NEW c \in Comments, Exists(row[c])
  PROVE  row'[c]["sha256"] = row[c]["sha256"]
BY StepCases, ColumnStep DEF Columns

\* comment.rb:1255: the sha256 signature of a comment is written once, for any number of
\* workers, because the cid is unique in the table.
THEOREM Sha256IsReadonly == Spec => Sha256Readonly
<1>1. TypeOK /\ [Next]_vars =>
        [\A c \in Comments : Exists(row[c]) => row'[c]["sha256"] = row[c]["sha256"]]_vars
  BY Sha256Step
<1> QED BY <1>1, TypeCorrect, PTL DEF Spec, Sha256Readonly

----------------------------------------------------------------------------
\* What a worker remembers of a sha256 signature is what the table holds, however old the
\* worker's copy is.
SeenInv ==
  \A w \in Workers, c \in Comments :
    Exists(seen[w][c]) => row[c]["sha256"] = seen[w][c]["sha256"]

THEOREM SeenCorrect == Spec => []SeenInv
<1>1. Init => SeenInv
  BY DEF Init, SeenInv, NoRow, Exists, Named, Columns
<1>2. TypeOK /\ SeenInv /\ [Next]_vars => SeenInv'
  <2> SUFFICES ASSUME TypeOK, SeenInv, [Next]_vars,
                      NEW w \in Workers, NEW c \in Comments, Exists(seen[w][c])'
               PROVE  row'[c]["sha256"] = seen'[w][c]["sha256"]
    BY DEF SeenInv
  <2>1. ASSUME seen'[w][c]["sha256"] = seen[w][c]["sha256"]
        PROVE  row'[c]["sha256"] = seen'[w][c]["sha256"]
    <3>1. row[c]["sha256"] = seen[w][c]["sha256"] /\ Exists(row[c])
      BY <2>1 DEF SeenInv, Exists, Named
    <3> QED BY <2>1, <3>1, Sha256Step
  <2>2. CASE seen' = seen
    BY <2>1, <2>2
  <2>3. ASSUME NEW v \in Workers, row' = row, seen' = [seen EXCEPT ![v] = row]
        PROVE  row'[c]["sha256"] = seen'[w][c]["sha256"]
    <3>1. CASE v = w
      BY <2>3, <3>1 DEF TypeOK
    <3>2. CASE v # w
      BY <2>1, <2>3, <3>2 DEF TypeOK
    <3> QED BY <3>1, <3>2
  <2>4. ASSUME NEW v \in Workers, SignsAlso(v) PROVE row'[c]["sha256"] = seen'[w][c]["sha256"]
    <3>1. PICK d \in {"sha256_action", "sha256_deleted"}, s \in Signatures : Update(v, d, s)
      BY <2>4 DEF SignsAlso
    <3>2. seen[v] \in [Comments -> Rows] /\ Current(v).cid \in Comments
      BY <2>4, CurrentIsItem DEF SignsAlso, TypeOK
    <3>3. seen'[w][c]["sha256"] = seen[w][c]["sha256"]
      BY <3>1, <3>2, WriteKeeps DEF Update, TypeOK, Columns
    <3> QED BY <2>1, <3>3
  <2> QED BY <2>2, <2>3, <2>4, StepCases DEF SignsNew
<1> QED BY <1>1, <1>2, TypeCorrect, PTL DEF Spec

\* A decision and a deletion are signed for the users that created the comment, for any number
\* of workers: the copy in memory may be old, but its sha256 signature is the one stored.
THEOREM CreatorIsKept == Spec => []CreatorKept
<1>1. Init => CreatorKept
  BY DEF Init, CreatorKept, NoRow, Named, Columns
<1>2. TypeOK /\ SeenInv /\ CreatorKept /\ [Next]_vars => CreatorKept'
  <2> SUFFICES ASSUME TypeOK, SeenInv, CreatorKept, [Next]_vars,
                      NEW c \in Comments, NEW d \in {"sha256_action", "sha256_deleted"},
                      Named(row'[c][d])
               PROVE  Exists(row'[c]) /\ row'[c][d].users = row'[c]["sha256"].users
    BY DEF CreatorKept, Exists, Named
  <2>1. CASE row'[c][d] = row[c][d]
    <3>1. Exists(row[c]) /\ row[c][d].users = row[c]["sha256"].users
      BY <2>1 DEF CreatorKept
    <3>2. row'[c]["sha256"] = row[c]["sha256"]
      BY <3>1, Sha256Step
    <3> QED BY <2>1, <3>1, <3>2 DEF Exists
  <2>2. CASE row'[c][d] # row[c][d]
    <3>1. PICK w \in Workers : SignsNew(w) \/ SignsAlso(w)
      BY <2>2, StepCases
    <3>2. c = Current(w).cid /\ SignsAlso(w) /\ row'[c][d].users = Current(w).users
      BY <2>2, <3>1, ColumnStep DEF Columns
    <3>3. Exists(Seen(w)) /\ Seen(w)["sha256"].users = Current(w).users /\ Seen(w) = seen[w][c]
      BY <3>2 DEF SignsAlso, Seen
    <3>4. row[c]["sha256"] = seen[w][c]["sha256"] /\ Exists(row[c])
      BY <3>3 DEF SeenInv, Exists
    <3>5. row'[c]["sha256"] = row[c]["sha256"]
      BY <3>4, Sha256Step
    <3> QED BY <3>2, <3>3, <3>4, <3>5 DEF Exists
  <2> QED BY <2>1, <2>2
<1> QED BY <1>1, <1>2, TypeCorrect, SeenCorrect, PTL DEF Spec

----------------------------------------------------------------------------
\* With one worker nobody writes between the query and the checks: the worker's copy of a
\* row is the row, or the comment was created by this very request.
FreshInv ==
  \A w \in Workers, c \in Comments : Busy(w) => seen[w][c] = row[c] \/ seen[w][c] = NoRow

LEMMA SeenIsRow ==
  ASSUME FreshInv, NEW w \in Workers, Busy(w), Exists(Seen(w)), Current(w).cid \in Comments
  PROVE  Seen(w) = row[Current(w).cid]
BY DEF FreshInv, Seen, Exists, Named, NoRow, Columns

\* A comment without sha256 signature has no signature at all.
LEMMA NoRowThere ==
  ASSUME TypeOK, CreatorKept, NEW c \in Comments, ~Exists(row[c])
  PROVE  row[c] = NoRow
<1>1. row[c]["sha256_action"] = NoSignature /\ row[c]["sha256_deleted"] = NoSignature
  BY DEF CreatorKept, Named
<1> QED BY <1>1 DEF TypeOK, Exists, Named, Rows, NoRow, Columns

\* A decision is written once, before a deletion; a repeated one changes nothing.
LEMMA DecideStep ==
  ASSUME TypeOK, FreshInv, NEW w \in Workers, Decide(w),
         NEW c, c = Current(w).cid, NEW s, s = Signature(Current(w), Current(w).sha256_action)
  PROVE  /\ s \in Signatures /\ Exists(row[c]) /\ row[c]["sha256"] = Signature(Current(w), Current(w).sha256)
         /\ \/ row' = row /\ row[c]["sha256_action"] = s
            \/ /\ row' = Write(row, c, "sha256_action", s)
               /\ ~Named(row[c]["sha256_action"]) /\ ~Named(row[c]["sha256_deleted"])
<1>1. /\ Busy(w) /\ Current(w).action \in {"cancel", "accept", "reject"}
      /\ WellFormed(Current(w)) /\ Matches(Current(w), Seen(w)) /\ ActionOk(Current(w), Seen(w))
  BY DEF Decide, Valid1, Valid, Authorized, Complete
<1>2. Decides(Current(w)) /\ Named(Current(w).sha256_action)
  BY <1>1 DEF Decides, WellFormed
<1>3. s \in Signatures /\ c \in Comments
  BY <1>1, <1>2, Signed, CurrentIsItem
<1>4. Exists(Seen(w)) /\ Seen(w)["sha256"] = Signature(Current(w), Current(w).sha256)
  BY <1>1 DEF Matches
<1>5. Seen(w) = row[c]
  BY <1>1, <1>3, <1>4, SeenIsRow
<1>6. \/ row[c]["sha256_action"] = s
      \/ ~Named(row[c]["sha256_action"]) /\ ~Named(row[c]["sha256_deleted"])
  BY <1>1, <1>2, <1>5 DEF ActionOk
<1>7. s # NoSignature
  BY <1>3, NoSignatureAssumption
<1> QED BY <1>3, <1>4, <1>5, <1>6, <1>7 DEF Decide, Update, Named

\* A deletion is written to a comment that is there.
LEMMA DeleteStep ==
  ASSUME TypeOK, FreshInv, NEW w \in Workers, Delete(w),
         NEW c, c = Current(w).cid, NEW s, s = Signature(Current(w), Current(w).sha256_deleted)
  PROVE  /\ s \in Signatures /\ Exists(row[c]) /\ row[c]["sha256"] = Signature(Current(w), Current(w).sha256)
         /\ Named(Current(w).sha256_action) =>
              row[c]["sha256_action"] = Signature(Current(w), Current(w).sha256_action)
         /\ \/ row' = row /\ row[c]["sha256_deleted"] = s
            \/ row' = Write(row, c, "sha256_deleted", s)
<1>1. /\ Busy(w) /\ Current(w).action = "delete"
      /\ WellFormed(Current(w)) /\ Matches(Current(w), Seen(w)) /\ ActionOk(Current(w), Seen(w))
  BY DEF Delete, Valid1, Valid, Authorized, Complete
<1>2. s \in Signatures /\ c \in Comments
  BY <1>1, Signed, CurrentIsItem
<1>3. Exists(Seen(w)) /\ Seen(w)["sha256"] = Signature(Current(w), Current(w).sha256)
  BY <1>1 DEF Matches
<1>4. Seen(w) = row[c]
  BY <1>1, <1>2, <1>3, SeenIsRow
<1>5. Named(Current(w).sha256_action) =>
        row[c]["sha256_action"] = Signature(Current(w), Current(w).sha256_action)
  BY <1>1, <1>4 DEF ActionOk, Decides
<1> QED BY <1>2, <1>3, <1>4, <1>5 DEF Delete, Update

\* A new comment has an empty row.
LEMMA CreateStep ==
  ASSUME TypeOK, CreatorKept, NEW w \in Workers, SignsNew(w),
         NEW c, c = Current(w).cid, NEW s, s = Signature(Current(w), Current(w).sha256)
  PROVE  /\ s \in Signatures /\ c \in Comments /\ row[c] = NoRow
         /\ row' = Write(row, c, "sha256", s)
<1>1. Busy(w) /\ ~Exists(row[c]) /\ Current(w) \in Item
  BY DEF SignsNew
<1>2. s \in Signatures
  BY <1>1 DEF Signature, Signatures, Item
<1> QED BY <1>1, <1>2, CurrentIsItem, NoRowThere DEF SignsNew

\* Every step that changes what is shown of the table signs one column that was empty.
LEMMA OneWorkerStep ==
  ASSUME TypeOK, CreatorKept, FreshInv, [Next]_vars
  PROVE  Record!Next \/ Shown' = Shown
<1> USE DEF Record!Columns, Record!NoRow
<1>1. CASE row' = row
  BY <1>1 DEF Shown
<1>2. ASSUME NEW w \in Workers, SignsNew(w) PROVE Record!Next
  <2> DEFINE c == Current(w).cid
             s == Signature(Current(w), Current(w).sha256)
  <2>1. s \in Signatures /\ c \in Comments /\ row[c] = NoRow /\ row' = Write(row, c, "sha256", s)
    BY <1>2, CreateStep
  <2>2. \A e \in Comments : \A f \in Columns :
          row'[e][f] = IF e = c /\ f = "sha256" THEN s ELSE row[e][f]
    BY <2>1, WriteKeeps DEF TypeOK, Columns
  <2>3. Shown' = [Shown EXCEPT ![c]["sha256"] = s]
    BY <2>1, <2>2 DEF Shown, Columns, NoRow, Named
  <2>4. Shown[c] = Record!NoRow
    BY <2>1 DEF Shown, NoRow, Columns, Named
  <2> QED BY <2>1, <2>3, <2>4 DEF Record!Next, Record!Create, Record!Sign
<1>3. ASSUME NEW w \in Workers, Decide(w) PROVE Record!Next \/ Shown' = Shown
  <2> DEFINE c == Current(w).cid
             s == Signature(Current(w), Current(w).sha256_action)
  <2>1. c \in Comments
    BY <1>3, CurrentIsItem DEF Decide, Valid1
  <2>2. /\ s \in Signatures /\ Exists(row[c])
        /\ \/ row' = row
           \/ /\ row' = Write(row, c, "sha256_action", s)
              /\ ~Named(row[c]["sha256_action"]) /\ ~Named(row[c]["sha256_deleted"])
    BY <1>3, DecideStep
  <2>3. CASE row' = Write(row, c, "sha256_action", s)
             /\ ~Named(row[c]["sha256_action"]) /\ ~Named(row[c]["sha256_deleted"])
    <3>1. \A e \in Comments : \A f \in Columns :
            row'[e][f] = IF e = c /\ f = "sha256_action" THEN s ELSE row[e][f]
      BY <2>1, <2>3, WriteKeeps DEF TypeOK, Columns
    <3>2. Shown' = [Shown EXCEPT ![c]["sha256_accepted"] = s]
      BY <2>1, <3>1 DEF Shown, Columns, Named
    <3>3. /\ Shown[c]["sha256"] # NoSignature
          /\ Shown[c]["sha256_accepted"] = NoSignature
          /\ Shown[c]["sha256_deleted"] = NoSignature
      BY <2>1, <2>2, <2>3 DEF Shown, Named, Exists
    <3>4. Record!Accept(c, s)
      BY <3>2, <3>3 DEF Record!Accept, Record!Sign
    <3> QED BY <2>1, <2>2, <3>4 DEF Record!Next
  <2> QED BY <1>1, <2>2, <2>3
<1>4. ASSUME NEW w \in Workers, Delete(w) PROVE Record!Next \/ Shown' = Shown
  <2> DEFINE c == Current(w).cid
             s == Signature(Current(w), Current(w).sha256_deleted)
  <2>1. c \in Comments
    BY <1>4, CurrentIsItem DEF Delete, Valid1
  <2>2. s \in Signatures /\ Exists(row[c]) /\ (row' = row \/ row' = Write(row, c, "sha256_deleted", s))
    BY <1>4, DeleteStep
  <2>3. CASE row' = Write(row, c, "sha256_deleted", s)
    <3>1. \A e \in Comments : \A f \in Columns :
            row'[e][f] = IF e = c /\ f = "sha256_deleted" THEN s ELSE row[e][f]
      BY <2>1, <2>3, WriteKeeps DEF TypeOK, Columns
    <3>2. row[c]["sha256"] \in Signatures
      BY <2>1, <2>2 DEF TypeOK, Rows, Columns, Exists, Named
    <3>3. s # NoSignature
      BY <2>2, NoSignatureAssumption
    <3>4. Shown' = [Shown EXCEPT ![c]["sha256_deleted"] = row[c]["sha256"]]
      BY <2>1, <3>1, <3>3 DEF Shown, Columns, Named
    <3>5. CASE Named(row[c]["sha256_deleted"])
      BY <2>1, <3>1, <3>3, <3>5 DEF Shown, Columns, Named
    <3>6. CASE ~Named(row[c]["sha256_deleted"])
      BY <2>1, <2>2, <3>2, <3>4, <3>6 DEF Record!Next, Record!Delete, Record!Sign, Shown, Named, Exists
    <3> QED BY <3>5, <3>6
  <2> QED BY <1>1, <2>2, <2>3
<1> QED BY <1>1, <1>2, <1>3, <1>4, CurrentIsItem
        DEF Next, vars, Read, ReceiveGiftAnswer, Begin, Verify, Ask, Raise, Refuse, Create, Valid1, SignsNew

LEMMA FreshStep ==
  ASSUME \A v, w \in Workers : v = w,
         TypeOK, CreatorKept, FreshInv, [Next]_vars
  PROVE  FreshInv'
<1> SUFFICES ASSUME NEW w \in Workers, NEW c \in Comments, Busy(w)'
             PROVE  seen'[w][c] = row'[c] \/ seen'[w][c] = NoRow
  BY DEF FreshInv
<1>1. CASE UNCHANGED vars
  BY <1>1 DEF vars, FreshInv, Busy
<1>2. CASE Read(w) \/ ReceiveGiftAnswer(w)
  BY <1>2 DEF Read, ReceiveGiftAnswer, Begin, TypeOK
<1>3. CASE SignsNew(w)
  <2> DEFINE e == Current(w).cid
             s == Signature(Current(w), Current(w).sha256)
  <2>1. e \in Comments /\ row[e] = NoRow /\ row' = Write(row, e, "sha256", s) /\ seen' = seen /\ Busy(w)
    BY <1>3, CreateStep DEF SignsNew
  <2>2. CASE c = e
    BY <2>1, <2>2 DEF FreshInv
  <2>3. CASE c # e
    <3>1. row'[c] = row[c]
      BY <2>1, <2>3 DEF Write, TypeOK
    <3> QED BY <2>1, <3>1 DEF FreshInv
  <2> QED BY <2>2, <2>3
<1>4. CASE SignsAlso(w)
  <2>1. PICK d \in {"sha256_action", "sha256_deleted"}, s \in Signatures : Update(w, d, s)
    BY <1>4 DEF SignsAlso
  <2>2. /\ Busy(w) /\ Current(w).cid \in Comments /\ Seen(w) = row[Current(w).cid]
        /\ row \in [Comments -> Rows] /\ seen[w] \in [Comments -> Rows]
    BY <1>4, CurrentIsItem, SeenIsRow DEF SignsAlso, TypeOK
  <2>3. seen'[w] = Write(seen[w], Current(w).cid, d, s)
    BY <2>1 DEF Update, TypeOK
  <2>4. CASE c # Current(w).cid
    <3>1. row'[c] = row[c] /\ seen'[w][c] = seen[w][c]
      BY <2>1, <2>2, <2>3, <2>4 DEF Update, Write
    <3> QED BY <2>2, <3>1 DEF FreshInv
  <2>5. CASE c = Current(w).cid /\ row' = Write(row, c, d, s)
    BY <2>2, <2>3, <2>5 DEF Write, Seen
  <2>6. CASE c = Current(w).cid /\ row' = row /\ Seen(w)[d] = s
    <3>1. seen'[w][c] = [seen[w][c] EXCEPT ![d] = seen[w][c][d]]
      BY <2>2, <2>3, <2>6 DEF Write, Seen
    <3>2. seen'[w][c] = seen[w][c]
      BY <2>2, <2>6, <3>1 DEF Rows
    <3> QED BY <2>2, <2>6, <3>2 DEF Seen
  <2> QED BY <2>1, <2>4, <2>5, <2>6 DEF Update
<1>5. CASE Verify(w) \/ Ask(w) \/ Raise(w) \/ Refuse(w)
  BY <1>5 DEF Verify, Valid1, Ask, Raise, Refuse, FreshInv
<1>6. ASSUME Create(w) PROVE SignsNew(w)
  BY <1>6, CurrentIsItem DEF Create, Valid1, SignsNew
<1>7. ASSUME Decide(w) \/ Delete(w) PROVE SignsAlso(w)
  BY <1>7, SignsAlsoCase
<1> QED BY <1>1, <1>2, <1>3, <1>4, <1>5, <1>6, <1>7 DEF Next

FreshState == TypeOK /\ SeenInv /\ CreatorKept /\ FreshInv

LEMMA FreshCorrect ==
  ASSUME \A v, w \in Workers : v = w
  PROVE  Spec => []FreshState
<1>1. Init => FreshInv
  BY DEF Init, FreshInv
<1>2. TypeOK /\ CreatorKept /\ FreshInv /\ [Next]_vars => FreshInv'
  BY FreshStep
<1> QED BY <1>1, <1>2, TypeCorrect, SeenCorrect, CreatorIsKept, PTL DEF Spec, FreshState

\* One worker at a time: a comment is signed once, decided once and not after its deletion.
THEOREM OneWorkerImplementsRecord ==
  ASSUME \A v, w \in Workers : v = w
  PROVE  Spec => RecordSpec
<1>1. Init => Record!Init
  BY DEF Init, Record!Init, Record!NoRow, Record!Columns, NoRow, Columns, Shown, Named
<1>2. FreshState /\ [Next]_vars => [Record!Next]_Shown
  BY OneWorkerStep DEF FreshState
<1> QED BY <1>1, <1>2, FreshCorrect, PTL DEF Spec, RecordSpec, Record!Spec

----------------------------------------------------------------------------
\* An item that was answered with true, or will be when its request ends, agrees with its row.
Holds(i, r) ==
  /\ r["sha256"] = Signature(i, i.sha256)
  /\ Named(i.sha256_action) => r["sha256_action"] = Signature(i, i.sha256_action)
  /\ Named(i.sha256_deleted) => Named(r["sha256_deleted"])
  /\ Decides(i) => Named(i.sha256_action)

Answered == granted \union UNION {answers[w] : w \in Workers}

GrantInv == \A i \in Answered : Holds(i, row[i.cid])

\* What is signed stays, for one worker.
LEMMA KeptStep ==
  ASSUME FreshState, [Next]_vars, NEW c \in Comments
  PROVE  /\ Exists(row[c]) => row'[c]["sha256"] = row[c]["sha256"]
         /\ Named(row[c]["sha256_action"]) => row'[c]["sha256_action"] = row[c]["sha256_action"]
         /\ Named(row[c]["sha256_deleted"]) => Named(row'[c]["sha256_deleted"])
<1> USE DEF FreshState
<1>1. CASE row' = row
  BY <1>1
<1>2. ASSUME NEW w \in Workers, NEW e \in Comments, NEW d \in Columns, NEW s \in Signatures,
             row' = Write(row, e, d, s), d = "sha256_deleted" \/ ~Named(row[e][d])
      PROVE  /\ Exists(row[c]) => row'[c]["sha256"] = row[c]["sha256"]
             /\ Named(row[c]["sha256_action"]) => row'[c]["sha256_action"] = row[c]["sha256_action"]
             /\ Named(row[c]["sha256_deleted"]) => Named(row'[c]["sha256_deleted"])
  <2>1. \A f \in Columns : row'[c][f] = IF c = e /\ f = d THEN s ELSE row[c][f]
    BY <1>2, WriteKeeps DEF TypeOK
  <2>2. s # NoSignature
    BY NoSignatureAssumption
  <2> QED BY <1>2, <2>1, <2>2 DEF Columns, Exists, Named
<1>3. ASSUME NEW w \in Workers, Create(w)
      PROVE  \E e \in Comments, d \in Columns, s \in Signatures :
               row' = Write(row, e, d, s) /\ ~Named(row[e][d])
  <2>1. SignsNew(w)
    BY <1>3, CurrentIsItem DEF Create, Valid1, SignsNew
  <2> QED BY <2>1, CreateStep DEF NoRow, Columns, Named
<1>4. ASSUME NEW w \in Workers, Decide(w), row' # row
      PROVE  \E e \in Comments, d \in Columns, s \in Signatures :
               row' = Write(row, e, d, s) /\ ~Named(row[e][d])
  BY <1>4, DecideStep, CurrentIsItem DEF Columns, Decide, Valid1
<1>5. ASSUME NEW w \in Workers, Delete(w), row' # row
      PROVE  \E e \in Comments, s \in Signatures : row' = Write(row, e, "sha256_deleted", s)
  BY <1>5, DeleteStep, CurrentIsItem DEF Delete, Valid1
<1>6. "sha256_deleted" \in Columns
  BY DEF Columns
<1> QED BY <1>1, <1>2, <1>3, <1>4, <1>5, <1>6
        DEF Next, vars, Read, ReceiveGiftAnswer, Begin, Verify, Ask, Raise, Refuse

LEMMA HoldsKept ==
  ASSUME FreshState, [Next]_vars, NEW i \in Items, Holds(i, row[i.cid])
  PROVE  Holds(i, row'[i.cid])
<1>1. i \in Item /\ i.cid \in Comments
  BY ItemsAreItem DEF Item
<1>2. /\ Named(Signature(i, i.sha256))
      /\ Named(i.sha256_action) => Named(Signature(i, i.sha256_action))
  BY <1>1, NoSignatureAssumption DEF Named, Signature, Signatures, Item, Sha
<1>3. Exists(row[i.cid])
  BY <1>2 DEF Holds, Exists
<1>4. row'[i.cid]["sha256"] = row[i.cid]["sha256"]
  BY <1>1, <1>3, KeptStep
<1>5. Named(i.sha256_action) => row'[i.cid]["sha256_action"] = row[i.cid]["sha256_action"]
  BY <1>1, <1>2, KeptStep DEF Holds
<1>6. Named(i.sha256_deleted) => Named(row'[i.cid]["sha256_deleted"])
  BY <1>1, KeptStep DEF Holds
<1> QED BY <1>4, <1>5, <1>6 DEF Holds

\* Every action that answers with true makes its item agree with its row.
LEMMA GrantStep ==
  ASSUME FreshState, [Next]_vars, NEW w \in Workers,
         Create(w) \/ Verify(w) \/ Decide(w) \/ (Delete(w) /\ Grant(w))
  PROVE  Current(w) \in Items /\ Holds(Current(w), row'[Current(w).cid])
<1> USE DEF FreshState
<1> DEFINE i == Current(w)
           c == Current(w).cid
<1>1. Busy(w) /\ WellFormed(i) /\ Matches(i, Seen(w)) /\ ActionOk(i, Seen(w))
  BY DEF Create, Verify, Decide, Delete, Valid1, Valid, Authorized, Complete
<1>2. i \in Items /\ i \in Item /\ c \in Comments
  BY <1>1, CurrentIsItem
<1>3. CASE Create(w)
  <2>1. i.action = "create" /\ SignsNew(w)
    BY <1>2, <1>3 DEF Create, Valid1, SignsNew
  <2>2. ~Named(i.sha256_action) /\ ~Named(i.sha256_deleted) /\ ~Decides(i)
    BY <1>1, <2>1 DEF WellFormed, Decides
  <2>3. row'[c]["sha256"] = Signature(i, i.sha256)
    BY <1>2, <2>1, CreateStep, WriteKeeps DEF TypeOK, Columns
  <2> QED BY <1>2, <2>2, <2>3 DEF Holds
<1>4. CASE Verify(w)
  <2>1. i.action = "verify" /\ row' = row /\ DeletedMatches(i, Seen(w)) /\ ~Decides(i)
    BY <1>4 DEF Verify, Valid1, Decides
  <2>2. Exists(Seen(w)) /\ Seen(w)["sha256"] = Signature(i, i.sha256)
    BY <1>1, <2>1 DEF Matches
  <2>3. Seen(w) = row[c]
    BY <1>1, <1>2, <2>2, SeenIsRow
  <2>4. Named(i.sha256_action) => row[c]["sha256_action"] = Signature(i, i.sha256_action)
    BY <1>1, <2>1, <2>3 DEF ActionOk
  <2>5. Named(i.sha256_deleted) => Named(row[c]["sha256_deleted"])
    <3>1. ASSUME Named(i.sha256_deleted) PROVE Signature(i, i.sha256_deleted) # NoSignature
      BY <1>2, <3>1, NoSignatureAssumption DEF Named, Signature, Signatures, Item, Sha
    <3> QED BY <2>1, <2>3, <3>1 DEF DeletedMatches, Named
  <2> QED BY <1>2, <2>1, <2>2, <2>3, <2>4, <2>5 DEF Holds
<1>5. CASE Decide(w)
  <2>1. Decides(i) /\ Named(i.sha256_action) /\ ~Named(i.sha256_deleted)
    BY <1>1, <1>5 DEF Decide, Valid1, Decides, WellFormed
  <2>2. /\ row[c]["sha256"] = Signature(i, i.sha256) /\ Exists(row[c])
        /\ \/ row' = row /\ row[c]["sha256_action"] = Signature(i, i.sha256_action)
           \/ row' = Write(row, c, "sha256_action", Signature(i, i.sha256_action))
    BY <1>5, DecideStep
  <2>3. row'[c]["sha256_action"] = Signature(i, i.sha256_action)
    BY <1>2, <2>2, WriteKeeps DEF TypeOK, Columns
  <2>4. row'[c]["sha256"] = Signature(i, i.sha256)
    BY <1>2, <2>2, KeptStep
  <2> QED BY <1>2, <2>1, <2>3, <2>4 DEF Holds
<1>6. CASE Delete(w)
  <2>1. i.action = "delete" /\ ~Decides(i) /\ Named(i.sha256_deleted)
    BY <1>1, <1>6 DEF Delete, Valid1, Decides, WellFormed
  <2>2. /\ Signature(i, i.sha256_deleted) \in Signatures
        /\ row[c]["sha256"] = Signature(i, i.sha256) /\ Exists(row[c])
        /\ Named(i.sha256_action) => row[c]["sha256_action"] = Signature(i, i.sha256_action)
        /\ \/ row' = row /\ row[c]["sha256_deleted"] = Signature(i, i.sha256_deleted)
           \/ row' = Write(row, c, "sha256_deleted", Signature(i, i.sha256_deleted))
    BY <1>6, DeleteStep
  <2>3. \A f \in Columns :
          row'[c][f] = IF f = "sha256_deleted" THEN Signature(i, i.sha256_deleted) ELSE row[c][f]
    BY <1>2, <2>2, WriteKeeps DEF TypeOK, Columns
  <2>4. Named(row'[c]["sha256_deleted"])
    BY <2>2, <2>3, NoSignatureAssumption DEF Named, Columns
  <2> QED BY <1>2, <2>1, <2>2, <2>3, <2>4 DEF Holds, Columns
<1> QED BY <1>3, <1>4, <1>5, <1>6

\* Where the items come from that are answered with true, or will be.
LEMMA AnsweredFrom ==
  ASSUME TypeOK, NEW w \in Workers, NEW a, NEW q, Answer(w, a, q) \/ Abort(w),
         NEW i \in Answered'
  PROVE  i \in Answered \union a
<1>1. \/ i \in granted'
      \/ \E v \in Workers : i \in answers'[v]
  BY DEF Answered
<1>2. granted' \subseteq granted \union answers[w] \union a
  BY DEF Answer, Abort
<1>3. \A v \in Workers : answers'[v] \subseteq answers[v] \union a
  BY DEF Answer, Abort, TypeOK
<1> QED BY <1>1, <1>2, <1>3 DEF Answered

LEMMA GrantInvStep ==
  ASSUME FreshState, GrantInv, [Next]_vars
  PROVE  GrantInv'
<1> USE DEF FreshState
<1> SUFFICES ASSUME NEW i \in Answered' PROVE Holds(i, row'[i.cid])
  BY DEF GrantInv, Holds, Named, Decides, Signature
<1>1. ASSUME i \in Answered PROVE Holds(i, row'[i.cid])
  <2>1. i \in Items
    BY <1>1 DEF TypeOK, Answered
  <2> QED BY <1>1, <2>1, HoldsKept DEF GrantInv
<1>2. ASSUME NEW w \in Workers, NEW q, Answer(w, {}, q) \/ Abort(w) PROVE i \in Answered
  BY <1>2, AnsweredFrom
<1>3. ASSUME NEW w \in Workers, Grant(w),
             Create(w) \/ Verify(w) \/ Decide(w) \/ (Delete(w) /\ Grant(w))
      PROVE  Holds(i, row'[i.cid])
  <2>1. i \in Answered \union {Current(w)}
    BY <1>3, AnsweredFrom DEF Grant
  <2> QED BY <1>1, <1>3, <2>1, GrantStep
<1>4. CASE UNCHANGED vars
  BY <1>1, <1>4 DEF vars, Answered
<1>5. ASSUME NEW w \in Workers, Read(w) \/ ReceiveGiftAnswer(w) PROVE i \in Answered
  BY <1>5 DEF Answered, Read, ReceiveGiftAnswer, Begin
<1>6. ASSUME NEW w \in Workers, Create(w) \/ Verify(w) \/ Decide(w) PROVE Holds(i, row'[i.cid])
  BY <1>3, <1>6 DEF Create, Verify, Decide
<1>7. ASSUME NEW w \in Workers, Delete(w) PROVE Holds(i, row'[i.cid])
  <2>1. Grant(w) \/ Abort(w)
    BY <1>7 DEF Delete
  <2> QED BY <1>1, <1>2, <1>3, <1>7, <2>1
<1>8. ASSUME NEW w \in Workers, Ask(w) \/ Raise(w) \/ Refuse(w) PROVE i \in Answered
  BY <1>2, <1>8 DEF Ask, Raise, Refuse
<1> QED BY <1>1, <1>4, <1>5, <1>6, <1>7, <1>8 DEF Next

LEMMA GrantCorrect ==
  ASSUME \A v, w \in Workers : v = w
  PROVE  Spec => []GrantInv
<1>1. Init => GrantInv
  BY DEF Init, GrantInv, Answered
<1>2. FreshState /\ GrantInv /\ [Next]_vars => GrantInv'
  BY GrantInvStep
<1> QED BY <1>1, <1>2, FreshCorrect, PTL DEF Spec

\* What one worker has answered with true is in the table and stays there.
THEOREM GrantedStays ==
  ASSUME \A v, w \in Workers : v = w
  PROVE  Spec => []GrantedHolds
<1>1. GrantInv => GrantedHolds
  BY DEF GrantInv, Answered, GrantedHolds, Holds
<1> QED BY <1>1, GrantCorrect, PTL

\* comment.rb:1169 holds for one worker: of decisions that cross each other one is granted.
THEOREM DecidedOnce ==
  ASSUME \A v, w \in Workers : v = w
  PROVE  Spec => []OneDecision
<1>1. GrantInv => OneDecision
  <2> SUFFICES ASSUME GrantInv, NEW i \in granted, NEW j \in granted,
                      Decides(i), Decides(j), i.cid = j.cid
               PROVE  i.sha256_action = j.sha256_action
    BY DEF OneDecision
  <2>1. /\ row[i.cid]["sha256_action"] = Signature(i, i.sha256_action)
        /\ row[i.cid]["sha256_action"] = Signature(j, j.sha256_action)
    BY DEF GrantInv, Answered, Holds
  <2> QED BY <2>1 DEF Signature
<1> QED BY <1>1, GrantCorrect, PTL

----------------------------------------------------------------------------
\* For any number of workers: what the gift's server has answered is true, and an item that is
\* answered with true has been checked against it.
AskedInv == \A i \in Items : asked[i] \in {"giver", "receiver"} => asked[i] \in Directions(i.gift)

Rightful(i, r) ==
  /\ i.action = "cancel" => r["sha256"] = Signature(i, i.sha256) /\ Logged(i) # {}
  /\ OnGift(i) =>
       /\ i.gift # NoGift
       /\ \E d \in Directions(i.gift) : Creators(i.gift, d) \intersect i.logins # {}

RightfulInv == \A i \in Answered : Rightful(i, row[i.cid])

LEMMA AskedStep ==
  ASSUME TypeOK, AskedInv, [Next]_vars
  PROVE  AskedInv'
<1> SUFFICES ASSUME NEW i \in Items, asked'[i] \in {"giver", "receiver"}
             PROVE  asked'[i] \in Directions(i.gift)
  BY DEF AskedInv, Directions, Creators
<1>1. CASE asked'[i] = asked[i]
  BY <1>1 DEF AskedInv
<1>2. ASSUME NEW w \in Workers, NEW a, NEW q, Answer(w, a, q) \/ Abort(w) PROVE asked'[i] = asked[i]
  BY <1>2 DEF Answer, Abort
<1>3. ASSUME NEW w \in Workers, ReceiveGiftAnswer(w) PROVE asked'[i] \in Directions(i.gift)
  <2>1. PICK j \in Items : \E answer \in Directions(j.gift) \union {"false"} :
          asked' = [asked EXCEPT ![j] = answer]
    BY <1>3 DEF ReceiveGiftAnswer
  <2>2. PICK answer \in Directions(j.gift) \union {"false"} : asked' = [asked EXCEPT ![j] = answer]
    BY <2>1
  <2>3. CASE i = j
    BY <2>2, <2>3 DEF TypeOK
  <2>4. CASE i # j
    BY <1>1, <2>2, <2>4 DEF TypeOK
  <2> QED BY <2>3, <2>4
<1> QED BY <1>1, <1>2, <1>3
        DEF Next, vars, Read, Create, Verify, Decide, Delete, Ask, Raise, Refuse, Grant

LEMMA DecideRightful ==
  ASSUME TypeOK, SeenInv, AskedInv, [Next]_vars, NEW w \in Workers, Decide(w)
  PROVE  Rightful(Current(w), row'[Current(w).cid])
<1> DEFINE i == Current(w)
           c == Current(w).cid
<1>1. /\ Busy(w) /\ i.action \in {"cancel", "accept", "reject"}
      /\ Authorized(i) /\ MayAct(i) /\ GiftFormed(i) /\ Matches(i, Seen(w))
  BY DEF Decide, Valid1, Valid, Authorized, Complete
<1>2. i \in Items /\ c \in Comments
  BY <1>1, CurrentIsItem
<1>3. row'[c]["sha256"] = Signature(i, i.sha256)
  <2>1. Exists(Seen(w)) /\ Seen(w)["sha256"] = Signature(i, i.sha256)
    BY <1>1 DEF Matches
  <2>2. row[c]["sha256"] = Signature(i, i.sha256) /\ Exists(row[c])
    BY <1>2, <2>1 DEF SeenInv, Seen, Exists
  <2> QED BY <1>2, <2>2, Sha256Step
<1>4. i.action = "cancel" => Logged(i) # {}
  BY <1>1 DEF MayAct
<1>5. ASSUME OnGift(i) PROVE \E d \in Directions(i.gift) : Creators(i.gift, d) \intersect i.logins # {}
  <2>1. IF Elsewhere(i) THEN AnswerAllows(i) ELSE GiftAllows(i)
    BY <1>1, <1>5 DEF Authorized, NeedsGift
  <2>2. CASE AnswerAllows(i)
    BY <1>2, <1>5, <2>2 DEF AnswerAllows, AskedInv
  <2>3. CASE GiftAllows(i)
    BY <1>5, <2>3 DEF GiftAllows
  <2> QED BY <2>1, <2>2, <2>3
<1>6. OnGift(i) => i.gift # NoGift
  BY <1>1 DEF GiftFormed, NeedsGift
<1> QED BY <1>3, <1>4, <1>5, <1>6 DEF Rightful

LEMMA RightfulStep ==
  ASSUME TypeOK, SeenInv, AskedInv, RightfulInv, [Next]_vars
  PROVE  RightfulInv'
<1> SUFFICES ASSUME NEW i \in Answered' PROVE Rightful(i, row'[i.cid])
  BY DEF RightfulInv, Rightful, OnGift, Logged, Directions, Creators, Signature
<1>1. ASSUME i \in Answered PROVE Rightful(i, row'[i.cid])
  <2>1. i \in Item /\ i.cid \in Comments
    BY <1>1, ItemsAreItem DEF TypeOK, Answered, Item
  <2>2. Rightful(i, row[i.cid])
    BY <1>1 DEF RightfulInv
  <2>3. Named(Signature(i, i.sha256))
    BY <2>1, NoSignatureAssumption DEF Named, Signature, Signatures, Item
  <2>4. row[i.cid]["sha256"] = Signature(i, i.sha256) => row'[i.cid]["sha256"] = row[i.cid]["sha256"]
    BY <2>1, <2>3, Sha256Step DEF Exists
  <2> QED BY <2>2, <2>4 DEF Rightful
<1>2. ASSUME NEW w \in Workers, NEW q, Answer(w, {}, q) \/ Abort(w) PROVE i \in Answered
  BY <1>2, AnsweredFrom
<1>3. ASSUME NEW w \in Workers, Grant(w), Rightful(Current(w), row'[Current(w).cid])
      PROVE  Rightful(i, row'[i.cid])
  <2>1. i \in Answered \union {Current(w)}
    BY <1>3, AnsweredFrom DEF Grant
  <2> QED BY <1>1, <1>3, <2>1
<1>4. CASE UNCHANGED vars
  BY <1>1, <1>4 DEF vars, Answered
<1>5. ASSUME NEW w \in Workers, Read(w) \/ ReceiveGiftAnswer(w) PROVE i \in Answered
  BY <1>5 DEF Answered, Read, ReceiveGiftAnswer, Begin
<1>6. ASSUME NEW w \in Workers, Create(w) \/ Verify(w) \/ Delete(w)
      PROVE  Rightful(Current(w), row'[Current(w).cid])
  BY <1>6 DEF Create, Verify, Delete, Valid1, Rightful, OnGift
<1>7. ASSUME NEW w \in Workers, Create(w) \/ Verify(w) \/ Decide(w) \/ Delete(w) PROVE Grant(w) \/ Abort(w)
  BY <1>7 DEF Create, Verify, Decide, Delete
<1>8. ASSUME NEW w \in Workers, Ask(w) \/ Raise(w) \/ Refuse(w) PROVE i \in Answered
  BY <1>2, <1>8 DEF Ask, Raise, Refuse
<1> QED BY <1>1, <1>2, <1>3, <1>4, <1>5, <1>6, <1>7, <1>8, DecideRightful DEF Next

\* A proposal is cancelled by one of its creators, and accepted or rejected by a creator of the
\* gift as the gift's server has signed it, for any number of workers and wherever the gift is.
THEOREM DecidedByCreator == Spec => []CreatorDecides
<1>1. Init => AskedInv /\ RightfulInv
  BY DEF Init, AskedInv, RightfulInv, Answered
<1>2. TypeOK /\ SeenInv /\ AskedInv /\ RightfulInv /\ [Next]_vars => AskedInv' /\ RightfulInv'
  BY AskedStep, RightfulStep
<1>3. TypeOK /\ RightfulInv => CreatorDecides
  <2> SUFFICES ASSUME TypeOK, RightfulInv, NEW i \in granted
               PROVE  /\ i.action = "cancel" => row[i.cid]["sha256"].users \intersect i.logins # {}
                      /\ OnGift(i) =>
                           /\ Named(GiftSignature[i.gift.gid])
                           /\ GiftSignature[i.gift.gid].users \intersect i.logins # {}
    BY DEF CreatorDecides
  <2>1. Rightful(i, row[i.cid])
    BY DEF RightfulInv, Answered
  <2>2. i.action = "cancel" => row[i.cid]["sha256"].users \intersect i.logins # {}
    BY <2>1 DEF Rightful, Signature, Logged
  <2>3. ASSUME OnGift(i)
        PROVE  Named(GiftSignature[i.gift.gid]) /\ GiftSignature[i.gift.gid].users \intersect i.logins # {}
    <3>1. PICK d \in Directions(i.gift) : Creators(i.gift, d) \intersect i.logins # {}
      BY <2>1, <2>3 DEF Rightful
    <3>2. i.gift \in GiftHash
      BY <2>1, <2>3, ItemsAreItem DEF TypeOK, Item, Rightful
    <3>3. GiftSignature[i.gift.gid].users = Creators(i.gift, d)
      BY <3>1 DEF Directions
    <3>4. GiftSignature[i.gift.gid] \in GiftSignatures
      BY <3>1, <3>2 DEF Directions, Creators, GiftHash, GiftSignatures
    <3> QED BY <3>1, <3>3, <3>4, NoSignatureAssumption DEF Named
  <2> QED BY <2>2, <2>3
<1> QED BY <1>1, <1>2, <1>3, TypeCorrect, SeenCorrect, PTL DEF Spec
============================================================================
