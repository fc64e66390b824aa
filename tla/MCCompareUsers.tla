--------------------------- MODULE MCCompareUsers ---------------------------
(* Two servers that start with one user in common, known to them under       *)
(* different ids; the other user is on one of them and may come to the other. *)
EXTENDS CompareUsers, TLC

CONSTANTS a, b, ann, bob

MCEarly   == a :> <<ann>> @@ b :> <<bob, ann>>
MCMaxInfo == [p \in Persons |-> IF p = ann THEN 1 ELSE 0]
=============================================================================
