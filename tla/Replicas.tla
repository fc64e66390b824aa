------------------------------ MODULE Replicas ------------------------------
(* What synchronisation between clients promises: the copies of a comment    *)
(* that clients hold only move forward, and no client holds a version that   *)
(* the server has not signed.  Version 1 is a created comment, version 2 a   *)
(* decided or deleted one, version 3 one deleted after it was decided, 0     *)
(* none.                                                                     *)
EXTENDS Integers

CONSTANTS Clients, Cids

VARIABLES
  signed,         \* signed[k]: the version of comment k the server has signed
  copy            \* copy[c][k]: the version client c holds

Versions == 0..3

Within(s, r) == \A c \in Clients, k \in Cids : r[c][k] <= s[k]

Init ==
  /\ signed \in [Cids -> Versions]
  /\ copy \in [Clients -> [Cids -> Versions]]
  /\ Within(signed, copy)

Sign ==
  /\ signed' \in [Cids -> Versions]
  /\ \A k \in Cids : signed[k] <= signed'[k]
  /\ UNCHANGED copy

Learn(c) ==
  /\ copy' \in [Clients -> [Cids -> Versions]]
  /\ \A k \in Cids : copy[c][k] <= copy'[c][k] /\ copy'[c][k] <= signed[k]
  /\ \A d \in Clients \ {c} : copy'[d] = copy[d]
  /\ UNCHANGED signed

Next == Sign \/ \E c \in Clients : Learn(c)

Spec == Init /\ [][Next]_<<signed, copy>>
=============================================================================
