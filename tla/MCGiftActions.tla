--------------------------- MODULE MCGiftActions ---------------------------
(* One gift, its giver, a friend who receives it and a stranger.            *)
EXTENDS GiftActions

CONSTANTS g1, giver, receiver, stranger, a, b

MCFriendsOf == [u \in Users |-> IF u = stranger THEN {stranger} ELSE {giver, receiver}]

Base == [gid |-> g1, action |-> "create", login |-> giver, sha256 |-> a,
         sha256_accepted |-> NoSignature, sha256_deleted |-> NoSignature,
         givers |-> {giver}, receivers |-> {}]

\* The gift created from two devices of the giver, and the same gid with other content.
Creates  == {Base, [Base EXCEPT !.sha256 = b],
             [Base EXCEPT !.givers = {}, !.receivers = {receiver}, !.login = receiver]}
Deals    == {[Base EXCEPT !.action = "accept", !.sha256_accepted = s, !.receivers = {receiver}] : s \in {a, b}}
\* Deleted before or after the deal, by the giver or the receiver.
Deletes  == {[Base EXCEPT !.action = "delete", !.sha256_deleted = s] : s \in {a, b}}
              \union {[d EXCEPT !.action = "delete", !.sha256_deleted = a, !.login = receiver] : d \in Deals}
Verifies == {[Base EXCEPT !.action = "verify", !.login = u] : u \in {receiver, stranger}}
              \union {[d EXCEPT !.action = "verify"] : d \in Deals}
Wrong    == {[Base EXCEPT !.receivers = {receiver}],
             [Base EXCEPT !.action = "verify", !.givers = {stranger}]}

Items == Creates \union Deals \union Deletes \union Verifies \union Wrong

\* Requests of one item, and a few of two: created twice, created and deleted, two deals.
MCBatches ==
  {<<i>> : i \in Items}
    \union {<<Base, Base>>} \union {<<Base, d>> : d \in Deletes}
    \union {<<x, y>> : x \in Deals, y \in Deals \union Deletes}
============================================================================
