------------------------- MODULE GiftActionsProofs -------------------------
(* Proofs about the gifts table.  For any number of workers: the sha256      *)
(* signature is written once and the other signatures name the same creator.  *)
(* For one worker: the table implements GiftRecord, granted actions stay in   *)
(* it, and a deletion names the users of the deal.                            *)
EXTENDS GiftActions, TLAPS

\* A handled item is an item, and what is left of the batch is a batch.
LEMMA CurrentIsItem ==
  ASSUME TypeOK, NEW w \in Workers, Busy(w)
  PROVE  /\ batch[w] \in Seq(Item) \ {<<>>}
         /\ Current(w) \in Item
         /\ Current(w).gid \in Gifts
         /\ Seen(w) \in Rows
         /\ Answer(w) => batch' \in [Workers -> (Seq(Item) \ {<<>>}) \union {Idle}]
<1>1. batch[w] \in Seq(Item) \ {<<>>}
  BY DEF TypeOK, Busy
<1>2. Current(w) \in Item
  BY <1>1 DEF Current
<1>3. Current(w).gid \in Gifts
  BY <1>2 DEF Item
<1>4. Seen(w) \in Rows
  BY <1>3 DEF TypeOK, Seen
<1>5. Tail(batch[w]) \in Seq(Item)
  BY <1>1
<1>6. Answer(w) => batch' \in [Workers -> (Seq(Item) \ {<<>>}) \union {Idle}]
  BY <1>5 DEF TypeOK, Answer
<1> QED BY <1>1, <1>2, <1>3, <1>4, <1>6

\* The signatures the server calculates are signatures.
LEMMA SignaturesOfItem ==
  ASSUME NEW i \in Item, NEW r \in Rows
  PROVE  /\ Sha256(i, r) \in Signatures
         /\ i.sha256_accepted # NoSignature => Extended(i, r, i.sha256_accepted) \in Signatures
         /\ i.sha256_deleted # NoSignature => Extended(i, r, i.sha256_deleted) \in Signatures
<1>1. GiverSha(i) \in Signatures /\ ReceiverSha(i) \in Signatures
  BY DEF GiverSha, ReceiverSha, Signatures, Item
<1>2. Direction(i, r) \in {"giver", "receiver"}
  BY DEF Direction
<1>3. \A s \in ClientSha : Extended(i, r, s) \in Signatures
  BY <1>2 DEF Extended, Signatures, Item
<1>4. i.sha256_accepted \in ClientSha \union {NoSignature} /\ i.sha256_deleted \in ClientSha \union {NoSignature}
  BY DEF Item, Sha
<1> QED BY <1>1, <1>3, <1>4 DEF Sha256

\* Writing one column of one row keeps the table a table.
LEMMA TableUpdate ==
  ASSUME NEW t \in [Gifts -> Rows], NEW g \in Gifts, NEW c \in Columns, NEW s \in Signatures
  PROVE  Write(t, g, c, s) \in [Gifts -> Rows]
BY DEF Rows, Write

\* A save changes one column of one row or nothing.
LEMMA SaveCases ==
  ASSUME NEW w, NEW c, NEW s, Save(w, c, s)
  PROVE  row' = row \/ row' = Write(row, Current(w).gid, c, s)
BY DEF Save

THEOREM TypeCorrect == Spec => []TypeOK
<1>1. Init => TypeOK
  BY DEF Init, TypeOK, NoRow, Rows
<1>2. TypeOK /\ [Next]_vars => TypeOK'
  <2> SUFFICES ASSUME TypeOK, [Next]_vars PROVE TypeOK'
    OBVIOUS
  <2>1. CASE UNCHANGED vars
    BY <2>1 DEF vars, TypeOK
  <2>2. ASSUME NEW w \in Workers, Read(w) PROVE TypeOK'
    BY <2>2, BatchesAssumption DEF Read, TypeOK
  <2>3. ASSUME NEW w \in Workers, Create(w) PROVE TypeOK'
    <3>1. Sha256(Current(w), Seen(w)) \in Signatures
      BY <2>3, CurrentIsItem, SignaturesOfItem DEF Create, Valid1
    <3>2. row' \in [Gifts -> Rows]
      BY <2>3, <3>1, CurrentIsItem, TableUpdate, SaveCases DEF Create, Valid1, TypeOK, Columns
    <3> QED BY <2>3, <3>2, CurrentIsItem DEF Create, Valid1, Grant, TypeOK
  <2>4. ASSUME NEW w \in Workers, CreateConflict(w) PROVE TypeOK'
    BY <2>4 DEF CreateConflict, TypeOK
  <2>5. ASSUME NEW w \in Workers, Verify(w) PROVE TypeOK'
    BY <2>5, CurrentIsItem DEF Verify, Valid1, Grant, TypeOK
  <2>6. ASSUME NEW w \in Workers, NEW c \in Columns, NEW s \in Signatures,
               Busy(w), Update(w, c, s), Grant(w)
        PROVE  TypeOK'
    <3>1. row' \in [Gifts -> Rows]
      BY <2>6, CurrentIsItem, TableUpdate, SaveCases DEF Update, TypeOK
    <3>2. seen' \in [Workers -> [Gifts -> Rows]]
      <4>1. seen[w] \in [Gifts -> Rows]
        BY DEF TypeOK
      <4>2. Write(seen[w], Current(w).gid, c, s) \in [Gifts -> Rows]
        BY <2>6, <4>1, CurrentIsItem, TableUpdate
      <4> QED BY <2>6, <4>2 DEF Update, TypeOK
    <3> QED BY <2>6, <3>1, <3>2, CurrentIsItem DEF Grant, TypeOK
  <2>7. ASSUME NEW w \in Workers, Accept(w) PROVE TypeOK'
    <3>1. Busy(w) /\ Current(w).sha256_accepted # NoSignature
      BY <2>7 DEF Accept, Valid1, Valid, WellFormed, Named
    <3>2. Extended(Current(w), Seen(w), Current(w).sha256_accepted) \in Signatures
      BY <3>1, CurrentIsItem, SignaturesOfItem
    <3> QED BY <2>6, <2>7, <3>1, <3>2 DEF Accept, Columns
  <2>8. ASSUME NEW w \in Workers, Delete(w) PROVE TypeOK'
    <3>1. Busy(w) /\ Current(w).sha256_deleted # NoSignature
      BY <2>8 DEF Delete, Valid1, Valid, WellFormed, Named
    <3>2. Extended(Current(w), Seen(w), Current(w).sha256_deleted) \in Signatures
      BY <3>1, CurrentIsItem, SignaturesOfItem
    <3> QED BY <2>6, <2>8, <3>1, <3>2 DEF Delete, Columns
  <2>9. ASSUME NEW w \in Workers, Reject(w) PROVE TypeOK'
    BY <2>9, CurrentIsItem DEF Reject, TypeOK
  <2> QED BY <2>1, <2>2, <2>3, <2>4, <2>5, <2>7, <2>8, <2>9 DEF Next
<1> QED BY <1>1, <1>2, PTL DEF Spec

----------------------------------------------------------------------------
\* What a worker remembers of a sha256 signature is what the table holds: the signature is
\* never changed once it is there, however old the worker's copy is.
SeenInv ==
  \A w \in Workers, g \in Gifts :
    Exists(seen[w][g]) => row[g]["sha256"] = seen[w][g]["sha256"]

\* A write to another column leaves the sha256 signatures alone.
LEMMA WriteKeeps ==
  ASSUME NEW t \in [Gifts -> Rows], NEW g \in Gifts, NEW c \in Columns, NEW s
  PROVE  /\ \A h \in Gifts : \A d \in Columns :
              Write(t, g, c, s)[h][d] = IF h = g /\ d = c THEN s ELSE t[h][d]
         /\ \A h \in Gifts : h # g => Write(t, g, c, s)[h] = t[h]
BY DEF Rows, Write

\* A create that passes the checks writes the signature that is already there, if there is one.
LEMMA CreateSame ==
  ASSUME TypeOK, SeenInv, NEW w \in Workers, Create(w),
         Exists(row[Current(w).gid])
  PROVE  Sha256(Current(w), Seen(w)) = row[Current(w).gid]["sha256"]
<1>1. Exists(Seen(w))
  BY DEF Create
<1>2. row[Current(w).gid]["sha256"] = Seen(w)["sha256"]
  BY <1>1, CurrentIsItem DEF SeenInv, Seen, Create, Valid1
<1>3. GiverMatch(Current(w), Seen(w)) \/ ReceiverMatch(Current(w), Seen(w))
  BY DEF Create, Valid1, Valid
<1>4. CASE ReceiverMatch(Current(w), Seen(w))
  BY <1>1, <1>2, <1>4 DEF ReceiverMatch, Sha256, Direction
<1>5. CASE ~ReceiverMatch(Current(w), Seen(w))
  BY <1>1, <1>2, <1>3, <1>5 DEF GiverMatch, Sha256, Direction
<1> QED BY <1>4, <1>5

\* Every step keeps a stored sha256 signature.
LEMMA Sha256Step ==
  ASSUME TypeOK, SeenInv, [Next]_vars, NEW g \in Gifts, Exists(row[g])
  PROVE  row'[g]["sha256"] = row[g]["sha256"]
<1>1. CASE row' = row
  BY <1>1
<1>2. ASSUME NEW w \in Workers, Create(w) PROVE row'[g]["sha256"] = row[g]["sha256"]
  <2>1. Busy(w) /\ Current(w).gid \in Gifts /\ row \in [Gifts -> Rows]
    BY <1>2, CurrentIsItem DEF Create, Valid1, TypeOK
  <2>2. row' = row \/ row' = Write(row, Current(w).gid, "sha256", Sha256(Current(w), Seen(w)))
    BY <1>2, SaveCases DEF Create
  <2>3. CASE Current(w).gid = g
    <3>1. Sha256(Current(w), Seen(w)) = row[g]["sha256"]
      BY <1>2, <2>3, CreateSame
    <3> QED BY <2>1, <2>2, <2>3, <3>1, WriteKeeps DEF Columns
  <2>4. CASE Current(w).gid # g
    BY <2>1, <2>2, <2>4, WriteKeeps DEF Columns
  <2> QED BY <2>3, <2>4
<1>3. ASSUME NEW w \in Workers, NEW c \in {"sha256_accepted", "sha256_deleted"}, NEW s,
             Busy(w), Update(w, c, s)
      PROVE  row'[g]["sha256"] = row[g]["sha256"]
  BY <1>3, CurrentIsItem, WriteKeeps, SaveCases DEF Update, TypeOK, Columns
<1>4. ASSUME NEW w \in Workers, Accept(w) \/ Delete(w) PROVE row'[g]["sha256"] = row[g]["sha256"]
  BY <1>3, <1>4 DEF Accept, Delete, Valid1
<1> QED BY <1>1, <1>2, <1>4 DEF Next, vars, Read, CreateConflict, Verify, Reject

THEOREM SeenCorrect == Spec => []SeenInv
<1>1. Init => SeenInv
  BY DEF Init, SeenInv, NoRow, Exists, Columns
<1>2. TypeOK /\ SeenInv /\ [Next]_vars => SeenInv'
  <2> SUFFICES ASSUME TypeOK, SeenInv, [Next]_vars,
                      NEW w \in Workers, NEW g \in Gifts, Exists(seen[w][g])'
               PROVE  row'[g]["sha256"] = seen'[w][g]["sha256"]
    BY DEF SeenInv
  <2> DEFINE Kept == Exists(seen[w][g]) /\ seen'[w][g]["sha256"] = seen[w][g]["sha256"]
  <2>1. ASSUME Kept PROVE row'[g]["sha256"] = seen'[w][g]["sha256"]
    <3>1. row[g]["sha256"] = seen[w][g]["sha256"] /\ Exists(row[g])
      BY <2>1 DEF SeenInv, Exists
    <3> QED BY <2>1, <3>1, Sha256Step
  <2>2. CASE seen' = seen
    BY <2>1, <2>2 DEF Exists
  <2>3. ASSUME NEW v \in Workers, Read(v) PROVE row'[g]["sha256"] = seen'[w][g]["sha256"]
    <3>1. CASE v = w
      BY <2>3, <3>1 DEF Read, TypeOK
    <3>2. CASE v # w
      BY <2>1, <2>3, <3>2 DEF Read, TypeOK, Exists
    <3> QED BY <3>1, <3>2
  <2>4. ASSUME NEW v \in Workers, NEW c \in {"sha256_accepted", "sha256_deleted"}, NEW s,
               Busy(v), Update(v, c, s)
        PROVE  row'[g]["sha256"] = seen'[w][g]["sha256"]
    <3>1. seen[v] \in [Gifts -> Rows]
      BY DEF TypeOK
    <3>2. seen'[w][g]["sha256"] = seen[w][g]["sha256"]
      BY <2>4, <3>1, CurrentIsItem, WriteKeeps DEF Update, TypeOK, Columns
    <3> QED BY <2>1, <3>2 DEF Exists
  <2>5. ASSUME NEW v \in Workers, Accept(v) \/ Delete(v)
        PROVE  row'[g]["sha256"] = seen'[w][g]["sha256"]
    BY <2>4, <2>5 DEF Accept, Delete, Valid1
  <2> QED BY <2>2, <2>3, <2>5 DEF Next, vars, Create, CreateConflict, Verify, Reject
<1> QED BY <1>1, <1>2, TypeCorrect, PTL DEF Spec

\* gift.rb:22: the sha256 signature is readonly, for any number of workers.
THEOREM Sha256IsReadonly == Spec => Sha256Readonly
<1>1. TypeOK /\ SeenInv /\ [Next]_vars =>
        [\A g \in Gifts : Exists(row[g]) => row'[g]["sha256"] = row[g]["sha256"]]_vars
  BY Sha256Step
<1> QED BY <1>1, TypeCorrect, SeenCorrect, PTL DEF Spec, Sha256Readonly

----------------------------------------------------------------------------
\* A signature that passes the checks of an accept or a delete names the creator the row
\* seen names.
LEMMA ExtendedSameCreator ==
  ASSUME NEW i \in Item, NEW r \in Rows, NEW s, Exists(r), i.action # "create", Valid(i, r)
  PROVE  SameCreator(r["sha256"], Extended(i, r, s))
<1>1. CASE ReceiverMatch(i, r)
  BY <1>1 DEF ReceiverMatch, ReceiverSha, Extended, Direction, SameCreator
<1>2. CASE ~ReceiverMatch(i, r)
  <2>1. r["sha256"] = GiverSha(i)
    BY <1>2 DEF Valid, GiverMatch
  <2> QED BY <1>2, <2>1 DEF GiverSha, Extended, Direction, SameCreator
<1> QED BY <1>1, <1>2

THEOREM CreatorIsKept == Spec => []CreatorKept
<1>1. Init => CreatorKept
  BY DEF Init, CreatorKept, NoRow, Columns
<1>2. TypeOK /\ SeenInv /\ CreatorKept /\ [Next]_vars => CreatorKept'
  <2> SUFFICES ASSUME TypeOK, SeenInv, CreatorKept, [Next]_vars,
                      NEW g \in Gifts, NEW c \in {"sha256_accepted", "sha256_deleted"},
                      row'[g][c] # NoSignature
               PROVE  Exists(row'[g]) /\ SameCreator(row'[g]["sha256"], row'[g][c])
    BY DEF CreatorKept, Exists
  <2>1. ASSUME row'[g][c] = row[g][c]
        PROVE  Exists(row'[g]) /\ SameCreator(row'[g]["sha256"], row'[g][c])
    <3>1. Exists(row[g]) /\ SameCreator(row[g]["sha256"], row[g][c])
      BY <2>1 DEF CreatorKept
    <3>2. row'[g]["sha256"] = row[g]["sha256"]
      BY <3>1, Sha256Step
    <3> QED BY <2>1, <3>1, <3>2 DEF Exists
  <2>2. CASE row' = row
    BY <2>1, <2>2
  <2>3. ASSUME NEW w \in Workers, Create(w) PROVE row'[g][c] = row[g][c]
    <3>1. Busy(w) /\ Current(w).gid \in Gifts /\ row \in [Gifts -> Rows]
      BY <2>3, CurrentIsItem DEF Create, Valid1, TypeOK
    <3> QED BY <2>3, <3>1, WriteKeeps, SaveCases DEF Create, Columns
  <2>4. ASSUME NEW w \in Workers, NEW d \in {"sha256_accepted", "sha256_deleted"}, NEW s,
               Busy(w), Valid(Current(w), Seen(w)), Current(w).action # "create",
               Update(w, d, Extended(Current(w), Seen(w), s))
        PROVE  Exists(row'[g]) /\ SameCreator(row'[g]["sha256"], row'[g][c])
    <3> DEFINE h == Current(w).gid
    <3>1. h \in Gifts /\ row \in [Gifts -> Rows] /\ Current(w) \in Item /\ Seen(w) \in Rows
      BY <2>4, CurrentIsItem DEF TypeOK
    <3>2. CASE h = g /\ c = d
      <4>1. Exists(Seen(w))
        BY <2>4 DEF Valid
      <4>2. row[g]["sha256"] = Seen(w)["sha256"]
        BY <3>1, <3>2, <4>1 DEF SeenInv, Seen
      <4>3. SameCreator(Seen(w)["sha256"], Extended(Current(w), Seen(w), s))
        BY <2>4, <3>1, <4>1, ExtendedSameCreator
      <4>4. CASE row' # row
        <5>1. row'[g][c] = Extended(Current(w), Seen(w), s) /\ row'[g]["sha256"] = row[g]["sha256"]
          BY <2>4, <3>1, <3>2, <4>4, WriteKeeps, SaveCases DEF Update, Columns
        <5> QED BY <4>1, <4>2, <4>3, <5>1 DEF Exists
      <4> QED BY <2>2, <4>4
    <3>3. CASE ~(h = g /\ c = d)
      <4>1. row'[g][c] = row[g][c]
        BY <2>4, <3>1, <3>3, WriteKeeps, SaveCases DEF Update, Columns
      <4> QED BY <4>1, <2>1
    <3> QED BY <3>2, <3>3
  <2>5. ASSUME NEW w \in Workers, Accept(w) \/ Delete(w)
        PROVE  Exists(row'[g]) /\ SameCreator(row'[g]["sha256"], row'[g][c])
    BY <2>4, <2>5 DEF Accept, Delete, Valid1
  <2> QED BY <2>1, <2>2, <2>3, <2>5 DEF Next, vars, Read, CreateConflict, Verify, Reject
<1> QED BY <1>1, <1>2, TypeCorrect, SeenCorrect, PTL DEF Spec

----------------------------------------------------------------------------
\* With one worker nobody writes between the query and the checks: the worker's copy of a
\* row is the row, or the gift was created by this very request.
FreshInv ==
  \A w \in Workers, g \in Gifts : Busy(w) => seen[w][g] = row[g] \/ seen[w][g] = NoRow

\* Writing a value that is already there changes nothing.
LEMMA WriteSame ==
  ASSUME NEW t \in [Gifts -> Rows], NEW g \in Gifts, NEW c \in Columns
  PROVE  Write(t, g, c, t[g][c]) = t
BY DEF Rows, Write

\* A gift without sha256 signature has no signature at all.
LEMMA NoRowThere ==
  ASSUME TypeOK, CreatorKept, NEW g \in Gifts, ~Exists(row[g])
  PROVE  row[g] = NoRow
<1>1. row[g]["sha256_accepted"] = NoSignature /\ row[g]["sha256_deleted"] = NoSignature
  BY DEF CreatorKept
<1> QED BY <1>1 DEF TypeOK, Exists, Rows, NoRow, Columns

\* Every step that changes the table signs one column that was empty.
LEMMA OneWorkerStep ==
  ASSUME TypeOK, SeenInv, CreatorKept, FreshInv, Next
  PROVE  Record!Next \/ row' = row
<1> SUFFICES ASSUME row' # row PROVE Record!Next
  OBVIOUS
<1> USE DEF Record!Columns, Record!NoRow, Columns, NoRow
<1>1. ASSUME NEW w \in Workers, Create(w) PROVE Record!Next
  <2> DEFINE g == Current(w).gid
             s == Sha256(Current(w), Seen(w))
  <2>1. g \in Gifts /\ row \in [Gifts -> Rows] /\ s \in Signatures
    BY <1>1, CurrentIsItem, SignaturesOfItem DEF Create, Valid1, TypeOK
  <2>2. row' = Write(row, g, "sha256", s)
    BY <1>1, SaveCases DEF Create
  <2>3. ~Exists(row[g])
    <3>1. CASE Exists(row[g])
      <4>1. s = row[g]["sha256"]
        BY <1>1, <3>1, CreateSame
      <4> QED BY <2>1, <2>2, <4>1, WriteSame
    <3> QED BY <3>1
  <2>4. row[g] = NoRow
    BY <2>1, <2>3, NoRowThere DEF TypeOK
  <2>5. Record!Create(g, s)
    BY <2>2, <2>4 DEF Record!Create, Record!Sign, Write
  <2> QED BY <2>1, <2>5 DEF Record!Next
<1>2. ASSUME NEW w \in Workers, Accept(w) PROVE Record!Next
  <2> DEFINE g == Current(w).gid
             s == Extended(Current(w), Seen(w), Current(w).sha256_accepted)
  <2>1. /\ Busy(w) /\ Current(w).action = "accept" /\ Valid(Current(w), Seen(w))
        /\ row' = Write(row, g, "sha256_accepted", s)
    BY <1>2, SaveCases DEF Accept, Valid1, Update
  <2>2. Current(w).sha256_accepted # NoSignature /\ Exists(Seen(w)) /\ AcceptedOk(Current(w), Seen(w))
    BY <2>1 DEF Valid, WellFormed, Named
  <2>3. g \in Gifts /\ row \in [Gifts -> Rows] /\ s \in Signatures
    BY <2>1, <2>2, CurrentIsItem, SignaturesOfItem DEF TypeOK
  <2>4. Seen(w) = row[g]
    BY <2>1, <2>2, <2>3 DEF FreshInv, Seen, Exists
  <2>5. row[g]["sha256_accepted"] # s
    BY <2>1, <2>3, WriteSame
  <2>6. Record!Accept(g, s)
    BY <2>1, <2>2, <2>4, <2>5 DEF AcceptedOk, Named, Record!Accept, Record!Sign, Write, Exists
  <2> QED BY <2>3, <2>6 DEF Record!Next
<1>3. ASSUME NEW w \in Workers, Delete(w) PROVE Record!Next
  <2> DEFINE g == Current(w).gid
             s == Extended(Current(w), Seen(w), Current(w).sha256_deleted)
  <2>1. /\ Busy(w) /\ Current(w).action = "delete" /\ Valid(Current(w), Seen(w))
        /\ row' = Write(row, g, "sha256_deleted", s)
    BY <1>3, SaveCases DEF Delete, Valid1, Update
  <2>2. Current(w).sha256_deleted # NoSignature /\ Exists(Seen(w)) /\ DeletedOk(Current(w), Seen(w))
    BY <2>1 DEF Valid, WellFormed, Named
  <2>3. g \in Gifts /\ row \in [Gifts -> Rows] /\ s \in Signatures
    BY <2>1, <2>2, CurrentIsItem, SignaturesOfItem DEF TypeOK
  <2>4. Seen(w) = row[g]
    BY <2>1, <2>2, <2>3 DEF FreshInv, Seen, Exists
  <2>5. row[g]["sha256_deleted"] # s
    BY <2>1, <2>3, WriteSame
  <2>6. Record!Delete(g, s)
    BY <2>1, <2>2, <2>4, <2>5 DEF DeletedOk, Named, Record!Delete, Record!Sign, Write, Exists
  <2> QED BY <2>3, <2>6 DEF Record!Next
<1> QED BY <1>1, <1>2, <1>3 DEF Next, Read, CreateConflict, Verify, Reject

\* What one worker writes it has also in memory, except for a gift it has just created.
LEMMA FreshStep ==
  ASSUME \A v, w \in Workers : v = w,
         TypeOK, SeenInv, CreatorKept, FreshInv, [Next]_vars
  PROVE  FreshInv'
<1> SUFFICES ASSUME NEW w \in Workers, NEW g \in Gifts, Busy(w)'
             PROVE  seen'[w][g] = row'[g] \/ seen'[w][g] = NoRow
  BY DEF FreshInv
<1>1. CASE UNCHANGED vars
  BY <1>1 DEF vars, FreshInv, Busy
<1>2. CASE Read(w)
  BY <1>2 DEF Read, TypeOK
<1>3. CASE Create(w)
  <2>1. Busy(w) /\ Current(w).gid \in Gifts /\ row \in [Gifts -> Rows]
    BY <1>3, CurrentIsItem DEF Create, Valid1, TypeOK
  <2>2. /\ seen'[w][g] = seen[w][g]
        /\ row' = row \/ row' = Write(row, Current(w).gid, "sha256", Sha256(Current(w), Seen(w)))
    BY <1>3, SaveCases DEF Create
  <2>3. CASE Exists(row[Current(w).gid])
    <3>1. row' = row
      BY <1>3, <2>1, <2>2, <2>3, CreateSame, WriteSame DEF Columns
    <3> QED BY <2>1, <2>2, <3>1 DEF FreshInv
  <2>4. CASE ~Exists(row[Current(w).gid]) /\ Current(w).gid = g
    <3>1. row[g] = NoRow
      BY <2>1, <2>4, NoRowThere
    <3>2. seen[w][g] = NoRow
      BY <2>1, <3>1 DEF FreshInv
    <3> QED BY <2>2, <3>2
  <2>5. CASE Current(w).gid # g
    BY <2>1, <2>2, <2>5, WriteKeeps DEF FreshInv, Columns
  <2> QED BY <2>3, <2>4, <2>5
<1>4. CASE Verify(w) \/ Reject(w)
  BY <1>4 DEF Verify, Valid1, Reject, FreshInv
<1>5. CASE CreateConflict(w)
  BY <1>5 DEF CreateConflict, Busy, TypeOK
<1>6. ASSUME NEW c \in Columns, NEW s, Busy(w), Exists(Seen(w)), Update(w, c, s)
      PROVE  seen'[w][g] = row'[g] \/ seen'[w][g] = NoRow
  <2>1. Current(w).gid \in Gifts /\ row \in [Gifts -> Rows] /\ seen[w] \in [Gifts -> Rows]
    BY <1>6, CurrentIsItem DEF TypeOK
  <2>2. seen'[w] = Write(seen[w], Current(w).gid, c, s)
    BY <1>6 DEF Update, TypeOK
  <2>3. CASE Seen(w)[c] = s
    <3>1. row' = row
      BY <1>6, <2>3 DEF Update, Save
    <3>2. seen'[w] = seen[w]
      BY <1>6, <2>1, <2>2, <2>3, WriteSame DEF Seen
    <3> QED BY <1>6, <3>1, <3>2 DEF FreshInv
  <2>4. CASE Seen(w)[c] # s /\ Current(w).gid = g
    <3>1. seen[w][g] = row[g]
      BY <1>6, <2>4 DEF FreshInv, Seen, Exists, NoRow, Columns
    <3>2. row' = Write(row, Current(w).gid, c, s)
      BY <1>6, <2>4 DEF Update, Save
    <3> QED BY <2>1, <2>2, <2>4, <3>1, <3>2 DEF Write
  <2>5. CASE Current(w).gid # g
    <3>1. row'[g] = row[g] /\ seen'[w][g] = seen[w][g]
      BY <1>6, <2>1, <2>2, <2>5, WriteKeeps, SaveCases DEF Update
    <3> QED BY <1>6, <3>1 DEF FreshInv
  <2> QED BY <2>3, <2>4, <2>5
<1>7. CASE Accept(w) \/ Delete(w)
  BY <1>6, <1>7 DEF Accept, Delete, Valid1, Valid, Columns
<1> QED BY <1>1, <1>2, <1>3, <1>4, <1>5, <1>7 DEF Next

\* One worker at a time: the gifts table keeps the promise of gift.rb:17-26.
THEOREM OneWorkerImplementsRecord ==
  ASSUME \A v, w \in Workers : v = w
  PROVE  Spec => RecordSpec
<1>1. Init => Record!Init /\ FreshInv
  BY DEF Init, FreshInv, Record!Init, Record!NoRow, Record!Columns, NoRow, Columns
<1>2. TypeOK /\ SeenInv /\ CreatorKept /\ FreshInv /\ [Next]_vars => FreshInv'
  BY FreshStep
<1>3. TypeOK /\ SeenInv /\ CreatorKept /\ FreshInv /\ [Next]_vars => [Record!Next]_row
  BY OneWorkerStep DEF vars
<1> QED BY <1>1, <1>2, <1>3, TypeCorrect, SeenCorrect, CreatorIsKept, PTL DEF Spec, RecordSpec, Record!Spec

----------------------------------------------------------------------------
\* All that is known of one worker.
FreshState == TypeOK /\ SeenInv /\ CreatorKept /\ FreshInv

LEMMA FreshCorrect ==
  ASSUME \A v, w \in Workers : v = w
  PROVE  Spec => []FreshState
<1>1. Init => FreshInv
  BY DEF Init, FreshInv
<1>2. TypeOK /\ SeenInv /\ CreatorKept /\ FreshInv /\ [Next]_vars => FreshInv'
  BY FreshStep
<1> QED BY <1>1, <1>2, TypeCorrect, SeenCorrect, CreatorIsKept, PTL DEF Spec, FreshState

\* What is signed stays, in every column.
LEMMA KeptStep ==
  ASSUME FreshState, [Next]_vars, NEW g \in Gifts, NEW c \in Columns, row[g][c] # NoSignature
  PROVE  row'[g][c] = row[g][c]
<1> USE DEF FreshState
<1>1. CASE row' = row
  BY <1>1
<1>2. ASSUME NEW h \in Gifts, NEW d \in Columns, NEW s \in Signatures,
             row' = Write(row, h, d, s), row[h][d] = NoSignature
      PROVE  row'[g][c] = row[g][c]
  BY <1>2, WriteKeeps DEF TypeOK
<1>3. CASE Next /\ row' # row
  <2>1. Record!Next
    BY <1>3, OneWorkerStep
  <2>2. PICK h \in Gifts, s \in Signatures : Record!Create(h, s) \/ Record!Accept(h, s) \/ Record!Delete(h, s)
    BY <2>1 DEF Record!Next
  <2>3. CASE Record!Create(h, s)
    <3>1. row[h]["sha256"] = NoSignature /\ row' = Write(row, h, "sha256", s)
      BY <2>3 DEF Record!Create, Record!NoRow, Record!Columns, Record!Sign, Write
    <3> QED BY <3>1, <1>2 DEF Columns
  <2>4. CASE Record!Accept(h, s)
    <3>1. row[h]["sha256_accepted"] = NoSignature /\ row' = Write(row, h, "sha256_accepted", s)
      BY <2>4 DEF Record!Accept, Record!Sign, Write
    <3> QED BY <3>1, <1>2 DEF Columns
  <2>5. CASE Record!Delete(h, s)
    <3>1. row[h]["sha256_deleted"] = NoSignature /\ row' = Write(row, h, "sha256_deleted", s)
      BY <2>5 DEF Record!Delete, Record!Sign, Write
    <3> QED BY <3>1, <1>2 DEF Columns
  <2> QED BY <2>2, <2>3, <2>4, <2>5
<1> QED BY <1>1, <1>3 DEF vars

LEMMA HoldsKept ==
  ASSUME FreshState, [Next]_vars, NEW i \in Item, Holds(i, row[i.gid])
  PROVE  Holds(i, row'[i.gid])
<1>1. i.gid \in Gifts /\ i.action \in Actions
  BY DEF Item
<1>2. GiverSha(i) \in Signatures /\ ReceiverSha(i) \in Signatures
  BY DEF GiverSha, ReceiverSha, Signatures, Item
<1>3. row[i.gid]["sha256"] # NoSignature
  BY <1>1, <1>2, NoSignatureAssumption DEF Holds, Actions
<1>4. row'[i.gid]["sha256"] = row[i.gid]["sha256"]
  BY <1>1, <1>3, KeptStep DEF Columns
<1>5. i.action = "accept" => row'[i.gid]["sha256_accepted"] = row[i.gid]["sha256_accepted"]
  BY <1>1, KeptStep DEF Holds, Columns
<1>6. i.action = "delete" => row'[i.gid]["sha256_deleted"] = row[i.gid]["sha256_deleted"]
  BY <1>1, KeptStep DEF Holds, Columns
<1> QED BY <1>4, <1>5, <1>6 DEF Holds

\* The row that was seen is the row, for an item about a gift that was seen.
LEMMA SeenIsRow ==
  ASSUME FreshState, NEW w \in Workers, Busy(w), Exists(Seen(w))
  PROVE  Seen(w) = row[Current(w).gid]
BY CurrentIsItem DEF FreshState, FreshInv, Seen, Exists, NoRow, Columns

\* A save leaves in the table what it was called with.
LEMMA SaveStep ==
  ASSUME FreshState, NEW w \in Workers, Busy(w), Exists(Seen(w)), NEW c \in Columns, NEW s \in Signatures, Save(w, c, s)
  PROVE  row'[Current(w).gid][c] = s
<1>1. row \in [Gifts -> Rows] /\ Current(w).gid \in Gifts
  BY CurrentIsItem DEF FreshState, TypeOK
<1>2. CASE Seen(w)[c] = s
  BY <1>2, SeenIsRow DEF Save
<1>3. CASE Seen(w)[c] # s
  BY <1>1, <1>3, WriteKeeps DEF Save
<1> QED BY <1>2, <1>3

\* Every action that answers with true makes its item agree with its row.
LEMMA GrantStep ==
  ASSUME FreshState, [Next]_vars, NEW w \in Workers,
         Create(w) \/ Verify(w) \/ Accept(w) \/ Delete(w)
  PROVE  Current(w) \in Item /\ Holds(Current(w), row'[Current(w).gid])
<1> USE DEF FreshState
<1> DEFINE i == Current(w)
           g == Current(w).gid
<1>1. Busy(w) /\ Valid(i, Seen(w))
  BY DEF Create, Verify, Accept, Delete, Valid1
<1>2. i \in Item /\ g \in Gifts /\ Seen(w) \in Rows /\ row \in [Gifts -> Rows]
  BY <1>1, CurrentIsItem DEF TypeOK
<1>3. Sha256(i, Seen(w)) \in {GiverSha(i), ReceiverSha(i)}
  BY DEF Sha256
<1>4. CASE Create(w)
  <2>1. i.action = "create" /\ Save(w, "sha256", Sha256(i, Seen(w)))
    BY <1>4 DEF Create, Valid1
  <2>2. Sha256(i, Seen(w)) \in Signatures
    BY <1>2, SignaturesOfItem
  <2>3. CASE Exists(Seen(w))
    <3>1. row'[g]["sha256"] = Sha256(i, Seen(w))
      BY <1>1, <2>1, <2>2, <2>3, SaveStep DEF Columns
    <3> QED BY <1>2, <1>3, <2>1, <3>1 DEF Holds
  <2>4. CASE ~Exists(Seen(w))
    <3>1. Seen(w)["sha256"] # Sha256(i, Seen(w))
      BY <2>2, <2>4, NoSignatureAssumption DEF Exists
    <3>2. row'[g]["sha256"] = Sha256(i, Seen(w))
      BY <1>2, <2>1, <3>1, WriteKeeps DEF Save, Columns
    <3> QED BY <1>2, <1>3, <2>1, <3>2 DEF Holds
  <2> QED BY <2>3, <2>4
<1>5. ASSUME i.action # "create"
      PROVE  Exists(Seen(w)) /\ row'[g]["sha256"] \in {GiverSha(i), ReceiverSha(i)}
  <2>1. Exists(Seen(w)) /\ Seen(w)["sha256"] \in {GiverSha(i), ReceiverSha(i)}
    BY <1>1, <1>5 DEF Valid, GiverMatch, ReceiverMatch
  <2>2. row[g]["sha256"] = Seen(w)["sha256"]
    BY <1>1, <2>1, SeenIsRow
  <2>3. Exists(row[g])
    BY <2>1, <2>2 DEF Exists
  <2> QED BY <1>2, <2>1, <2>2, <2>3, Sha256Step
<1>6. CASE Verify(w)
  <2>1. i.action = "verify"
    BY <1>6 DEF Verify, Valid1
  <2> QED BY <1>2, <1>5, <2>1 DEF Holds
<1>7. CASE Accept(w)
  <2> DEFINE s == Extended(i, Seen(w), i.sha256_accepted)
  <2>1. i.action = "accept" /\ Save(w, "sha256_accepted", s) /\ i.sha256_accepted # NoSignature
    BY <1>1, <1>7 DEF Accept, Valid1, Update, Valid, WellFormed, Named
  <2>2. s \in Signatures /\ s.sha = i.sha256_accepted
    BY <1>2, <2>1, SignaturesOfItem DEF Extended
  <2>3. row'[g]["sha256_accepted"] = s
    BY <1>1, <1>5, <2>1, <2>2, SaveStep DEF Columns
  <2>4. s # NoSignature
    BY <2>2, NoSignatureAssumption
  <2> QED BY <1>2, <1>5, <2>1, <2>2, <2>3, <2>4 DEF Holds
<1>8. CASE Delete(w)
  <2> DEFINE s == Extended(i, Seen(w), i.sha256_deleted)
  <2>1. i.action = "delete" /\ Save(w, "sha256_deleted", s) /\ i.sha256_deleted # NoSignature
    BY <1>1, <1>8 DEF Delete, Valid1, Update, Valid, WellFormed, Named
  <2>2. s \in Signatures /\ s.sha = i.sha256_deleted
    BY <1>2, <2>1, SignaturesOfItem DEF Extended
  <2>3. row'[g]["sha256_deleted"] = s
    BY <1>1, <1>5, <2>1, <2>2, SaveStep DEF Columns
  <2>4. s # NoSignature
    BY <2>2, NoSignatureAssumption
  <2> QED BY <1>2, <1>5, <2>1, <2>2, <2>3, <2>4 DEF Holds
<1> QED BY <1>4, <1>6, <1>7, <1>8

\* gift.rb 778-790: with one worker, what was answered with true is in the table and stays there.
THEOREM GrantedStays ==
  ASSUME \A v, w \in Workers : v = w
  PROVE  Spec => []GrantedHolds
<1>1. Init => GrantedHolds
  BY DEF Init, GrantedHolds
<1>2. FreshState /\ GrantedHolds /\ [Next]_vars => GrantedHolds'
  <2> SUFFICES ASSUME FreshState, GrantedHolds, [Next]_vars, NEW i \in granted'
               PROVE  Holds(i, row'[i.gid])
    BY DEF GrantedHolds
  <2>1. CASE i \in granted
    BY <2>1, HoldsKept DEF GrantedHolds, FreshState, TypeOK
  <2>2. CASE i \notin granted
    <3>1. PICK w \in Workers : (Create(w) \/ Verify(w) \/ Accept(w) \/ Delete(w)) /\ i = Current(w)
      BY <2>2 DEF Next, vars, Read, Create, CreateConflict, Verify, Accept, Delete, Reject, Grant
    <3> QED BY <3>1, GrantStep
  <2> QED BY <2>1, <2>2
<1> QED BY <1>1, <1>2, FreshCorrect, PTL DEF Spec

\* gift.rb 726 and 752: with one worker, the deletion of a gift with a closed deal names the deal's users,
\* because it must repeat the signature of the deal, and no deal is closed after the deletion.
THEOREM DealIsNamed ==
  ASSUME \A v, w \in Workers : v = w
  PROVE  Spec => []DeletedDeal
<1>1. Init => DeletedDeal
  BY DEF Init, DeletedDeal, NoRow, Columns
<1>2. FreshState /\ DeletedDeal /\ [Next]_vars => DeletedDeal'
  <2> SUFFICES ASSUME FreshState, DeletedDeal, [Next]_vars, NEW g \in Gifts,
                      row'[g]["sha256_accepted"] # NoSignature, row'[g]["sha256_deleted"] # NoSignature
               PROVE  /\ row'[g]["sha256_deleted"].givers = row'[g]["sha256_accepted"].givers
                      /\ row'[g]["sha256_deleted"].receivers = row'[g]["sha256_accepted"].receivers
    BY DEF DeletedDeal
  <2> USE DEF FreshState
  <2> DEFINE Goal == /\ row'[g]["sha256_deleted"].givers = row'[g]["sha256_accepted"].givers
                     /\ row'[g]["sha256_deleted"].receivers = row'[g]["sha256_accepted"].receivers
  <2>1. CASE row'[g]["sha256_accepted"] = row[g]["sha256_accepted"] /\ row'[g]["sha256_deleted"] = row[g]["sha256_deleted"]
    BY <2>1 DEF DeletedDeal
  <2>2. ASSUME NEW w \in Workers, Create(w) PROVE Goal
    <3>1. Busy(w) /\ Current(w).gid \in Gifts /\ row \in [Gifts -> Rows]
      BY <2>2, CurrentIsItem DEF Create, Valid1, TypeOK
    <3> QED BY <2>1, <2>2, <3>1, WriteKeeps, SaveCases DEF Create, Columns
  <2>3. ASSUME NEW w \in Workers, NEW c \in {"sha256_accepted", "sha256_deleted"}, Accept(w) \/ Delete(w),
               Busy(w), Valid(Current(w), Seen(w)), Current(w).gid # g,
               NEW s, Update(w, c, s)
        PROVE  Goal
    <3>1. Current(w).gid \in Gifts /\ row \in [Gifts -> Rows]
      BY <2>3, CurrentIsItem DEF TypeOK
    <3>2. row'[g] = row[g]
      BY <2>3, <3>1, WriteKeeps, SaveCases DEF Update, Columns
    <3> QED BY <2>1, <3>2
  <2>4. ASSUME NEW w \in Workers, Accept(w), Current(w).gid = g PROVE Goal
    <3>1. /\ Busy(w) /\ Exists(Seen(w)) /\ AcceptedOk(Current(w), Seen(w))
          /\ Named(Current(w).sha256_accepted) /\ Current(w).action = "accept"
      BY <2>4 DEF Accept, Valid1, Valid, WellFormed
    <3>2. row[g]["sha256_deleted"] = NoSignature
      BY <2>4, <3>1, SeenIsRow DEF AcceptedOk
    <3>3. g \in Gifts /\ row \in [Gifts -> Rows]
      BY DEF TypeOK
    <3>4. row'[g]["sha256_deleted"] = row[g]["sha256_deleted"]
      BY <2>4, <3>3, WriteKeeps, SaveCases DEF Accept, Update, Columns
    <3> QED BY <3>2, <3>4
  <2>5. ASSUME NEW w \in Workers, Delete(w), Current(w).gid = g PROVE Goal
    <3> DEFINE i == Current(w)
    <3>1. /\ Busy(w) /\ Exists(Seen(w)) /\ AcceptedOk(i, Seen(w)) /\ DeletedOk(i, Seen(w))
          /\ Named(i.sha256_deleted) /\ i.action = "delete"
          /\ Save(w, "sha256_deleted", Extended(i, Seen(w), i.sha256_deleted))
      BY <2>5 DEF Delete, Valid1, Valid, WellFormed, Update
    <3>2. /\ i \in Item /\ Seen(w) \in Rows /\ row \in [Gifts -> Rows] /\ Seen(w) = row[g]
      BY <2>5, <3>1, CurrentIsItem, SeenIsRow DEF TypeOK
    <3>3. row'[g]["sha256_deleted"] = Extended(i, Seen(w), i.sha256_deleted)
      BY <2>5, <3>1, <3>2, SaveStep, SignaturesOfItem DEF Columns, Named
    <3>4. row'[g]["sha256_accepted"] = row[g]["sha256_accepted"]
      BY <2>5, <3>1, <3>2, WriteKeeps, SaveCases DEF Columns
    <3>5. row[g]["sha256_accepted"] = Extended(i, Seen(w), i.sha256_accepted)
      BY <3>1, <3>2, <3>4 DEF AcceptedOk, DeletedOk, Named
    <3> QED BY <3>3, <3>4, <3>5 DEF Extended
  <2>6. ASSUME NEW w \in Workers, Accept(w) \/ Delete(w) PROVE Goal
    BY <2>3, <2>4, <2>5, <2>6 DEF Accept, Delete, Valid1
  <2>7. CASE row' = row
    BY <2>1, <2>7
  <2> QED BY <2>2, <2>6, <2>7 DEF Next, vars, Read, CreateConflict, Verify, Reject
<1> QED BY <1>1, <1>2, FreshCorrect, PTL DEF Spec
============================================================================
