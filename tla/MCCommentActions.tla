-------------------------- MODULE MCCommentActions --------------------------
(* One proposal by author, on a gift of owner here or on another server.     *)
(* far is a user this server does not know.                                  *)
EXTENDS CommentActions

CONSTANTS c1, author, owner, other, far, here, elsewhere, a, b

MCGiftSignature ==
  [g \in {here, elsewhere} |->
     [sha |-> a, direction |-> IF g = here THEN "giver" ELSE "receiver", users |-> {owner}]]

GiftHere      == [gid |-> here, sha256 |-> a, givers |-> {owner}, receivers |-> {}]
GiftElsewhere == [gid |-> elsewhere, sha256 |-> a, givers |-> {}, receivers |-> {owner}]

New == [seq |-> 1, cid |-> c1, action |-> "create", logins |-> {author}, users |-> {author}, actors |-> {},
        sha256 |-> a, sha256_action |-> NoSignature, sha256_deleted |-> NoSignature, gift |-> NoGift]

\* Created by the author, again with other content, and by somebody else.
NewOther == [New EXCEPT !.sha256 = b]
Creates  == {New, NewOther, [New EXCEPT !.logins = {other}]}

Decision(action, user, sha, gift) ==
  [New EXCEPT !.seq = 2, !.action = action, !.logins = {user}, !.actors = {user}, !.sha256_action = sha, !.gift = gift]
Cancel     == Decision("cancel", author, a, NoGift)
Accept     == Decision("accept", owner, b, GiftHere)
AcceptFar  == Decision("accept", owner, b, GiftElsewhere)
RejectFar  == Decision("reject", owner, a, [GiftElsewhere EXCEPT !.receivers = {owner, far}])
\* Somebody else decides, a negative seq, the proposal or the gift of other users.
WrongDecisions ==
  {Decision("cancel", other, a, NoGift), [AcceptFar EXCEPT !.seq = -2], [Accept EXCEPT !.users = {other}],
   Decision("reject", other, a, [GiftElsewhere EXCEPT !.receivers = {other}])}

Deletion(user, sha, gift) ==
  [New EXCEPT !.seq = IF sha = a THEN 3 ELSE 4, !.action = "delete", !.logins = {user},
              !.sha256_deleted = sha, !.gift = gift]
After(i, decision) == [i EXCEPT !.sha256_action = decision.sha256_action, !.actors = decision.actors]
DeleteA == Deletion(author, a, NoGift)
DeleteB == Deletion(author, b, NoGift)
Deletes == {DeleteA, DeleteB, After(DeleteA, Cancel), Deletion(owner, a, GiftHere),
            Deletion(author, NoSignature, NoGift), Deletion(other, a, GiftHere)}

Check    == [New EXCEPT !.seq = 5, !.action = "verify", !.logins = {owner}]
Verifies == {Check, After(Check, Accept), [Check EXCEPT !.sha256_deleted = a]}

\* Requests that may cross: each actor sends its own.
MCCrossing ==
  {<<i>> : i \in {New, NewOther, Cancel, Accept, AcceptFar, DeleteA, After(DeleteA, Cancel),
                   Deletion(author, NoSignature, NoGift)} \union WrongDecisions}
    \union {<<New, Cancel>>, <<AcceptFar, NewOther>>}

MCBatches ==
  {<<i>> : i \in Creates \union {Cancel, Accept, AcceptFar, RejectFar} \union WrongDecisions \union Deletes \union Verifies}
    \union {<<New, Cancel>>, <<Cancel, DeleteA>>, <<AcceptFar, Deletion(other, a, GiftHere)>>,
            <<DeleteA, DeleteB>>, <<Accept, Check>>}
============================================================================
