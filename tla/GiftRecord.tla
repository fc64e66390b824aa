---------------------------- MODULE GiftRecord ----------------------------
(* What the gifts table of a Gofreerev server promises, whatever requests   *)
(* arrive: src/app/models/gift.rb:17-26 calls the three signature columns    *)
(* "readonly".  A gift gets its sha256 signature when it is created, its     *)
(* sha256_accepted signature when the deal is closed and its sha256_deleted  *)
(* signature when it is deleted.  Each is written once, and a deleted gift   *)
(* is not accepted any more.  The comments table promises the same of a      *)
(* comment, the decision about it and its deletion (CommentActions).         *)

CONSTANTS
  Gifts,          \* gift ids (gid)
  Signatures,     \* server signatures
  NoSignature     \* the null of the three columns

VARIABLE row      \* row[g]: the signatures stored for gift g

Columns == {"sha256", "sha256_accepted", "sha256_deleted"}

NoRow == [c \in Columns |-> NoSignature]

Init == row = [g \in Gifts |-> NoRow]

Sign(g, column, s) == row' = [row EXCEPT ![g][column] = s]

Create(g, s) ==
  /\ row[g] = NoRow
  /\ Sign(g, "sha256", s)

Accept(g, s) ==
  /\ row[g]["sha256"] # NoSignature
  /\ row[g]["sha256_accepted"] = NoSignature
  /\ row[g]["sha256_deleted"] = NoSignature
  /\ Sign(g, "sha256_accepted", s)

Delete(g, s) ==
  /\ row[g]["sha256"] # NoSignature
  /\ row[g]["sha256_deleted"] = NoSignature
  /\ Sign(g, "sha256_deleted", s)

Next == \E g \in Gifts, s \in Signatures : Create(g, s) \/ Accept(g, s) \/ Delete(g, s)

Spec == Init /\ [][Next]_row
============================================================================
