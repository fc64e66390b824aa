--------------------------- MODULE MCVerifyGifts ---------------------------
(* A gift of this server and one of another server.                         *)
EXTENDS VerifyGifts

\* Tabs of the same browser, and copies of a gift, are alike.
Symmetry == Permutations(Tabs) \union Permutations(Clones)
============================================================================
