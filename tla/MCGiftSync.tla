----------------------------- MODULE MCGiftSync -----------------------------
(* Model values for GiftSync.  In the first instance the gift is new and the *)
(* other client has never seen it; in the second one two clients have been   *)
(* offline: a decision, a comment of one of them, a comment both have.       *)
EXTENDS GiftSync

CONSTANTS c1, c2, k1, k2, k3

MCHome   == [k \in Cids |-> 1]
Of(k, v) == [cid |-> k, v |-> v]
MCNew    == c1 :> (1 :> <<>>) @@ c2 :> (1 :> None)
MCApart  == c1 :> (1 :> <<Of(k1, 2), Of(k2, 1)>>) @@ c2 :> (1 :> <<Of(k1, 1), Of(k2, 1), Of(k3, 1)>>)
=============================================================================
