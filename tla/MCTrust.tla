------------------------------ MODULE MCTrust ------------------------------
(* A small instance of Trust.  Sam sends an invite for mirror space on a    *)
(* Mac mini, which is offered with it, offers a catcher there, and sends an *)
(* invite for that, into a group.  Riley and Alex may redeem them.  In the  *)
(* scene asking, Riley may also ask for things one by one; in the scene     *)
(* takeover the table has room for both invites to be redeemed and both to  *)
(* be taken over.                                                           *)
EXTENDS Trust, TLC

CONSTANTS sam, riley, alex, mini, mirror, catcher, first, second

MCOwnerOf == [o \in Offerings |-> sam]
MCHostOf == [o \in Offerings |-> mini]
MCRelationOf == [o \in Offerings |-> IF o = catcher THEN "catcher_peer" ELSE "mirror_peer"]
MCOfferingOf == [i \in Invites |-> IF i = second THEN catcher ELSE mirror]

VARIABLE scene

\* What either scene leaves room for.
Rows == IF scene = "takeover" THEN 10 ELSE 6

StoryInit ==
    /\ Init
    /\ scene \in {"asking", "takeover"}

Asking ==
    /\ scene = "asking"
    /\ \/ CreateFriendRequest(riley, sam)
       \/ \E accept \in BOOLEAN : DecideFriendRequest(riley, sam, accept)
       \/ CreateAccessRequest(riley, mirror)
       \/ \E grant \in BOOLEAN : DecideAccessRequest(riley, mirror, grant)

StoryNext ==
    /\ \/ Asking
       \/ PublishOffering(catcher)
       \/ \E i \in Invites : ExpireInvite(i)
       \/ RevokeTool
       \/ OfferAndInvite(first) \/ CreateInvite(second)
       \/ \E u \in Users, i \in Invites : RedeemInvite(u, i) \/ RedeemInviteAgain(u, i)
       \/ \E u \in Users : ProposeMirror(u)
       \/ \E u \in Users, allow \in BOOLEAN : DecideMirrorConsent(u, allow)
    /\ Len(tuples') <= Rows
    /\ UNCHANGED scene

StorySpec == StoryInit /\ [][StoryNext]_<<vars, scene>>
=============================================================================
