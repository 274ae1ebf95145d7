------------------------------- MODULE Trust -------------------------------
(***************************************************************************)
(* The trust framework of the Casper service: friendship, offerings,       *)
(* access requests, invites and the grants they lead to                    *)
(* (casper_service/trust.py and the handlers of main.py around it).        *)
(*                                                                         *)
(* Every relation is a row of one table, relation_tuples.  A row is only   *)
(* ever inserted or revoked; the table is a sequence here and a row's id   *)
(* is its index.  Every function of trust.py runs inside one database      *)
(* transaction of its caller, and is one action.  Quotas, tiers, names and *)
(* times are abstracted: no decision of this layer reads a time except     *)
(* "has this invite expired", which is the field expired below.            *)
(***************************************************************************)
EXTENDS Naturals, Sequences, FiniteSets

CONSTANTS
    Users,          \* people with an account
    Hosts,          \* machines
    Offerings,      \* ids of offerings that may be published
    Invites,        \* ids of invites that may be created
    OwnerOf,        \* the person an offering belongs to
    HostOf,         \* the machine it offers space on (paired by its owner)
    RelationOf,     \* the grant it leads to, RELATION_BY_KIND[kind]
    OfferingOf,     \* the offering an invite is for
    GroupInvites,   \* the invites that also welcome into the owner's group
    NoOne,          \* used_by_user_id IS NULL, and the owner of a non-grant
    NoInvite,       \* a row no invite created
    MaxTuples       \* bound: rows the table may hold

GrantRelations == {"backup_peer", "mirror_peer", "catcher_peer"}

ASSUME TrustAssumption ==
    /\ OwnerOf \in [Offerings -> Users]
    /\ HostOf \in [Offerings -> Hosts]
    /\ RelationOf \in [Offerings -> GrantRelations]
    /\ OfferingOf \in [Invites -> Offerings]
    /\ GroupInvites \subseteq Invites
    /\ NoOne \notin Users
    /\ NoInvite \notin Invites
    /\ MaxTuples \in Nat

VARIABLES
    tuples,         \* relation_tuples, in id order
    friendRequests, \* friend_requests still pending, as <<from, to>>
    offering,       \* state of each offering
    accessRequest,  \* status of the latest access request per offering, person
    invite,         \* row of each invite
    consenting,     \* people with a mirror folder awaiting their consent
    told            \* what the last reply or notification claimed, if anything

vars == <<tuples, friendRequests, offering, accessRequest, invite, consenting, told>>

PersonRow == [subject: Users, relation: {"friend", "member"}, object: Users,
              owner: {NoOne}, invite: Invites \union {NoInvite}, revoked: BOOLEAN]

HostRow == [subject: Users, relation: GrantRelations, object: Hosts,
            owner: Users, invite: Invites \union {NoInvite}, revoked: BOOLEAN]

Row == PersonRow \union HostRow

InviteRow == [created: BOOLEAN, usedBy: Users \union {NoOne},
              expired: BOOLEAN, completed: BOOLEAN, cancelled: BOOLEAN]

Claim == [what: {"redeemed", "granted"}, user: Users, offering: Offerings]

TypeOK ==
    /\ tuples \in Seq(Row)
    /\ friendRequests \in SUBSET (Users \X Users)
    /\ offering \in [Offerings -> {"none", "open", "withdrawn"}]
    /\ accessRequest \in [Offerings -> [Users -> {"none", "pending", "granted", "declined"}]]
    /\ invite \in [Invites -> InviteRow]
    /\ consenting \in SUBSET Users
    /\ told \in SUBSET Claim

----------------------------------------------------------------------------
(* Reading and changing the table *)

FriendRow(a, b, tag) ==
    [subject |-> a, relation |-> "friend", object |-> b, owner |-> NoOne,
     invite |-> tag, revoked |-> FALSE]

GrantRow(u, o, tag) ==
    [subject |-> u, relation |-> RelationOf[o], object |-> HostOf[o],
     owner |-> OwnerOf[o], invite |-> tag, revoked |-> FALSE]

\* A group is named by the person who runs it.
MemberRow(u, w, tag) ==
    [subject |-> u, relation |-> "member", object |-> w, owner |-> NoOne,
     invite |-> tag, revoked |-> FALSE]

IsFriendship(row, a, b) ==
    row.relation = "friend" /\ row.subject = a /\ row.object = b

IsGrant(row) == row.relation \in GrantRelations

FriendsIn(table, a, b) ==
    \E n \in DOMAIN table : ~table[n].revoked /\ IsFriendship(table[n], a, b)

\* are_friends looks at one direction only.
AreFriends(a, b) == FriendsIn(tuples, a, b)

\* active_grant(grantee, host, owner, relation) is not None
GrantIn(table, u, o) ==
    \E n \in DOMAIN table :
        /\ ~table[n].revoked
        /\ table[n].relation = RelationOf[o]
        /\ table[n].subject = u
        /\ table[n].object = HostOf[o]
        /\ table[n].owner = OwnerOf[o]

MemberIn(table, u, w) ==
    \E n \in DOMAIN table :
        /\ ~table[n].revoked
        /\ table[n].relation = "member"
        /\ table[n].subject = u
        /\ table[n].object = w

\* UPDATE relation_tuples SET revoked_at = now WHERE id IN ids
Revoke(ids) ==
    [n \in DOMAIN tuples |->
        IF n \in ids THEN [tuples[n] EXCEPT !.revoked = TRUE] ELSE tuples[n]]

Init ==
    /\ tuples = <<>>
    /\ friendRequests = {}
    /\ offering = [o \in Offerings |-> "none"]
    /\ accessRequest = [o \in Offerings |-> [u \in Users |-> "none"]]
    /\ invite = [i \in Invites |->
            [created |-> FALSE, usedBy |-> NoOne, expired |-> FALSE,
             completed |-> FALSE, cancelled |-> FALSE]]
    /\ consenting = {}
    /\ told = {}

----------------------------------------------------------------------------
(* Friends *)

CreateFriendRequest(from, to) ==
    /\ from # to
    /\ ~AreFriends(from, to)
    /\ <<from, to>> \notin friendRequests
    /\ <<to, from>> \notin friendRequests
    /\ friendRequests' = friendRequests \union {<<from, to>>}
    /\ told' = {}
    /\ UNCHANGED <<tuples, offering, accessRequest, invite, consenting>>

\* Accepting inserts both directions, whether or not they are friends by now.
DecideFriendRequest(from, to, accept) ==
    /\ <<from, to>> \in friendRequests
    /\ friendRequests' = friendRequests \ {<<from, to>>}
    /\ IF accept
       THEN /\ Len(tuples) + 2 <= MaxTuples
            /\ tuples' = tuples \o <<FriendRow(from, to, NoInvite), FriendRow(to, from, NoInvite)>>
       ELSE UNCHANGED tuples
    /\ told' = {}
    /\ UNCHANGED <<offering, accessRequest, invite, consenting>>

RowsBetween_OneWay(a, b) ==
    {n \in DOMAIN tuples :
        /\ ~tuples[n].revoked
        /\ \/ IsFriendship(tuples[n], a, b) \/ IsFriendship(tuples[n], b, a)
           \/ IsGrant(tuples[n]) /\ tuples[n].subject = a /\ tuples[n].owner = b}

RowsBetween_KeepsMembership(a, b) ==
    {n \in DOMAIN tuples :
        /\ ~tuples[n].revoked
        /\ \/ IsFriendship(tuples[n], a, b) \/ IsFriendship(tuples[n], b, a)
           \/ IsGrant(tuples[n])
              /\ <<tuples[n].subject, tuples[n].owner>> \in {<<a, b>>, <<b, a>>}}

\* The rows between two people: friendship, membership of each other's
\* group, and every active grant either way round.
RowsBetween(a, b) ==
    {n \in DOMAIN tuples :
        /\ ~tuples[n].revoked
        /\ \/ IsFriendship(tuples[n], a, b) \/ IsFriendship(tuples[n], b, a)
           \/ tuples[n].relation = "member"
              /\ <<tuples[n].subject, tuples[n].object>> \in {<<a, b>>, <<b, a>>}
           \/ IsGrant(tuples[n])
              /\ <<tuples[n].subject, tuples[n].owner>> \in {<<a, b>>, <<b, a>>}}

RemoveFriend(u, other) ==
    /\ AreFriends(u, other)
    /\ tuples' = Revoke(RowsBetween(u, other))
    /\ told' = {}
    /\ UNCHANGED <<friendRequests, offering, accessRequest, invite, consenting>>

----------------------------------------------------------------------------
(* Offerings, access requests, grants *)

PublishOffering(o) ==
    /\ offering[o] = "none"
    /\ offering' = [offering EXCEPT ![o] = "open"]
    /\ told' = {}
    /\ UNCHANGED <<tuples, friendRequests, accessRequest, invite, consenting>>

WithdrawOffering(o) ==
    /\ offering[o] = "open"
    /\ offering' = [offering EXCEPT ![o] = "withdrawn"]
    /\ told' = {}
    /\ UNCHANGED <<tuples, friendRequests, accessRequest, invite, consenting>>

CreateAccessRequest(u, o) ==
    /\ offering[o] = "open"
    /\ OwnerOf[o] # u
    /\ AreFriends(u, OwnerOf[o])
    /\ ~GrantIn(tuples, u, o)
    /\ accessRequest[o][u] # "pending"
    /\ accessRequest' = [accessRequest EXCEPT ![o][u] = "pending"]
    /\ told' = {}
    /\ UNCHANGED <<tuples, friendRequests, offering, invite, consenting>>

\* The tuple is written only if they are still friends; the request is
\* marked granted, and the requester told so, either way.
DecideAccessRequest(u, o, grant) ==
    /\ accessRequest[o][u] = "pending"
    /\ accessRequest' = [accessRequest EXCEPT ![o][u] = IF grant THEN "granted" ELSE "declined"]
    /\ IF grant /\ AreFriends(u, OwnerOf[o])
       THEN /\ Len(tuples) < MaxTuples
            /\ tuples' = Append(tuples, GrantRow(u, o, NoInvite))
       ELSE UNCHANGED tuples
    /\ told' = IF grant THEN {[what |-> "granted", user |-> u, offering |-> o]} ELSE {}
    /\ UNCHANGED <<friendRequests, offering, invite, consenting>>

\* Either side may end an active grant.
RevokeGrant(n) ==
    /\ n \in DOMAIN tuples
    /\ IsGrant(tuples[n]) /\ ~tuples[n].revoked
    /\ tuples' = Revoke({n})
    /\ told' = {}
    /\ UNCHANGED <<friendRequests, offering, accessRequest, invite, consenting>>

----------------------------------------------------------------------------
(* Invites *)

CreateInvite(i) ==
    /\ ~invite[i].created
    /\ offering[OfferingOf[i]] = "open"
    /\ invite' = [invite EXCEPT ![i].created = TRUE]
    /\ told' = {}
    /\ UNCHANGED <<tuples, friendRequests, offering, accessRequest, consenting>>

\* The agent's create_invite, when there is nothing of the owner's to invite
\* to on that machine: mirror space is offered there in the same transaction.
OfferAndInvite(i) ==
    LET o == OfferingOf[i] IN
    /\ ~invite[i].created
    /\ offering[o] = "none" /\ RelationOf[o] = "mirror_peer"
    /\ \A other \in Offerings :
        OwnerOf[other] = OwnerOf[o] /\ HostOf[other] = HostOf[o] => offering[other] # "open"
    /\ offering' = [offering EXCEPT ![o] = "open"]
    /\ invite' = [invite EXCEPT ![i].created = TRUE]
    /\ told' = {}
    /\ UNCHANGED <<tuples, friendRequests, accessRequest, consenting>>

\* Seven days pass.
ExpireInvite(i) ==
    /\ invite[i].created /\ ~invite[i].expired
    /\ invite' = [invite EXCEPT ![i].expired = TRUE]
    /\ told' = {}
    /\ UNCHANGED <<tuples, friendRequests, offering, accessRequest, consenting>>

Usable_Completed(i) ==
    /\ invite[i].created
    /\ ~invite[i].cancelled
    /\ offering[OfferingOf[i]] # "withdrawn"
    /\ invite[i].usedBy = NoOne => ~invite[i].expired

\* find_invite does not refuse it: once accepted, an invite outlives its expiry.
Usable(i) ==
    /\ invite[i].created
    /\ ~invite[i].cancelled
    /\ offering[OfferingOf[i]] # "withdrawn"
    /\ ~invite[i].completed
    /\ invite[i].usedBy = NoOne => ~invite[i].expired

ReleasedRows_SubjectOnly(i) ==
    {n \in DOMAIN tuples :
        /\ invite[i].usedBy # NoOne
        /\ ~tuples[n].revoked
        /\ tuples[n].invite = i
        /\ tuples[n].subject = invite[i].usedBy}

ReleasedRows_GrantsOnly(i) ==
    {n \in DOMAIN tuples :
        /\ invite[i].usedBy # NoOne
        /\ ~tuples[n].revoked
        /\ tuples[n].invite = i
        /\ tuples[n].subject = invite[i].usedBy
        /\ IsGrant(tuples[n])}

\* What release_invite undoes: the rows the invite made for its earlier acceptor.
ReleasedRows(i) ==
    {n \in DOMAIN tuples :
        /\ invite[i].usedBy # NoOne
        /\ ~tuples[n].revoked
        /\ tuples[n].invite = i
        /\ \/ tuples[n].subject = invite[i].usedBy
           \/ tuples[n].relation = "friend" /\ tuples[n].object = invite[i].usedBy}

AcceptedRows_OnlyNewFriends(u, i, table) ==
    LET w == OwnerOf[OfferingOf[i]] IN
    (IF FriendsIn(table, u, w) THEN <<>>
     ELSE <<FriendRow(u, w, i), FriendRow(w, u, i), GrantRow(u, OfferingOf[i], i)>>)
    \o (IF i \in GroupInvites /\ ~MemberIn(table, u, w) THEN <<MemberRow(u, w, i)>> ELSE <<>>)

\* Friendship if there is none, the grant, and membership if there is none.
AcceptedRows(u, i, table) ==
    LET w == OwnerOf[OfferingOf[i]] IN
    (IF FriendsIn(table, u, w) THEN <<>> ELSE <<FriendRow(u, w, i), FriendRow(w, u, i)>>)
    \o <<GrantRow(u, OfferingOf[i], i)>>
    \o (IF i \in GroupInvites /\ ~MemberIn(table, u, w) THEN <<MemberRow(u, w, i)>> ELSE <<>>)

\* A first acceptance, or one that replaces an earlier unfinished start.  If
\* the person already holds such a grant the whole transaction is rolled back.
RedeemInvite(u, i) ==
    LET kept == Revoke(ReleasedRows(i))
        added == AcceptedRows(u, i, kept)
    IN  /\ Usable(i)
        /\ OwnerOf[OfferingOf[i]] # u
        /\ invite[i].usedBy # u
        /\ ~GrantIn(kept, u, OfferingOf[i])
        /\ Len(tuples) + Len(added) <= MaxTuples
        /\ tuples' = kept \o added
        /\ invite' = [invite EXCEPT ![i].usedBy = u]
        /\ told' = {[what |-> "redeemed", user |-> u, offering |-> OfferingOf[i]]}
        /\ UNCHANGED <<friendRequests, offering, accessRequest, consenting>>

\* The same person again: nothing is written, and the reply is "Done" again.
RedeemInviteAgain(u, i) ==
    /\ Usable(i)
    /\ invite[i].usedBy = u
    /\ told' = {[what |-> "redeemed", user |-> u, offering |-> OfferingOf[i]]}
    /\ UNCHANGED <<tuples, friendRequests, offering, accessRequest, invite, consenting>>

CancelInvite(i) ==
    /\ invite[i].created /\ ~invite[i].completed /\ ~invite[i].cancelled
    /\ invite' = [invite EXCEPT ![i].cancelled = TRUE]
    /\ told' = {}
    /\ UNCHANGED <<tuples, friendRequests, offering, accessRequest, consenting>>

----------------------------------------------------------------------------
(* The two places where mirroring touches this layer *)

\* A folder is proposed to mirror space the person holds at that moment.
ProposeMirror(u) ==
    /\ u \notin consenting
    /\ \E n \in DOMAIN tuples :
        ~tuples[n].revoked /\ tuples[n].relation = "mirror_peer" /\ tuples[n].subject = u
    /\ consenting' = consenting \union {u}
    /\ told' = {}
    /\ UNCHANGED <<tuples, friendRequests, offering, accessRequest, invite>>

\* Consent makes the folder active and completes every invite of the person.
DecideMirrorConsent(u, allow) ==
    /\ u \in consenting
    /\ consenting' = consenting \ {u}
    /\ invite' = [i \in Invites |->
            IF allow /\ invite[i].usedBy = u THEN [invite[i] EXCEPT !.completed = TRUE] ELSE invite[i]]
    /\ told' = {}
    /\ UNCHANGED <<tuples, friendRequests, offering, accessRequest>>

\* What the agent's revoke tool ends; the endpoints end the same.
RevokeTool ==
    \/ \E n \in 1 .. MaxTuples : RevokeGrant(n)
    \/ \E i \in Invites : CancelInvite(i)
    \/ \E o \in Offerings : WithdrawOffering(o)
    \/ \E a, b \in Users : RemoveFriend(a, b)

Next ==
    \/ \E a, b \in Users : CreateFriendRequest(a, b)
    \/ \E a, b \in Users, accept \in BOOLEAN : DecideFriendRequest(a, b, accept)
    \/ \E o \in Offerings : PublishOffering(o)
    \/ \E u \in Users, o \in Offerings : CreateAccessRequest(u, o)
    \/ \E u \in Users, o \in Offerings, grant \in BOOLEAN : DecideAccessRequest(u, o, grant)
    \/ \E i \in Invites : CreateInvite(i) \/ OfferAndInvite(i) \/ ExpireInvite(i)
    \/ RevokeTool
    \/ \E u \in Users, i \in Invites : RedeemInvite(u, i) \/ RedeemInviteAgain(u, i)
    \/ \E u \in Users : ProposeMirror(u)
    \/ \E u \in Users, allow \in BOOLEAN : DecideMirrorConsent(u, allow)

Spec == Init /\ [][Next]_vars

----------------------------------------------------------------------------
(* Safety *)

\* Friendship is mutual: are_friends(a, b) reads one direction only, so every
\* path that ends a friendship (remove_friend, release_invite) must revoke
\* both rows, whichever request or invite made them and however often.
FriendshipSymmetric ==
    \A a, b \in Users : AreFriends(a, b) => AreFriends(b, a)

\* An invite is single-use: whatever it created that still stands belongs to
\* the person who accepted it last; an abandoned account keeps none of it.
InviteRowsBelongToAcceptor ==
    \A n \in DOMAIN tuples :
        ~tuples[n].revoked /\ tuples[n].invite # NoInvite =>
            LET acceptor == invite[tuples[n].invite].usedBy IN
            \/ tuples[n].subject = acceptor
            \/ tuples[n].relation = "friend" /\ tuples[n].object = acceptor

\* A grant can outlive the friendship it rests on in one way only: another
\* invite had made the friendship, and someone else took that invite over.
GrantOutlivesOnlyReleasedFriendship ==
    \A n \in DOMAIN tuples :
        ~tuples[n].revoked /\ IsGrant(tuples[n]) =>
            \/ AreFriends(tuples[n].subject, tuples[n].owner)
            \/ \E m \in DOMAIN tuples :
                /\ tuples[m].revoked
                /\ IsFriendship(tuples[m], tuples[n].subject, tuples[n].owner)
                /\ tuples[m].invite \notin {NoInvite, tuples[n].invite}

\* Rows that stand between two people: grants either way round, membership.
StandsBetween(row, a, b) ==
    /\ ~row.revoked
    /\ \/ IsGrant(row) /\ <<row.subject, row.owner>> \in {<<a, b>>, <<b, a>>}
       \/ row.relation = "member" /\ <<row.subject, row.object>> \in {<<a, b>>, <<b, a>>}

\* When a friendship ends because one of the two ends it (no invite changes
\* hands), no grant and no group membership is left between them.
UnfriendingEndsEverything ==
    [][\A a, b \in Users :
        AreFriends(a, b) /\ ~AreFriends(a, b)' /\ UNCHANGED invite =>
            \A n \in DOMAIN tuples' : ~StandsBetween(tuples'[n], a, b)]_vars

\* Accepting an invite afresh undoes only what that invite made for its
\* earlier acceptor, and never once their mirror runs: no row made another
\* way, and no row of a completed invite, is revoked by it.
TakeoverUndoesOnlyUnfinishedStart ==
    [][invite' # invite =>
        \A n \in DOMAIN tuples :
            ~tuples[n].revoked /\ tuples'[n].revoked =>
                /\ tuples[n].invite # NoInvite
                /\ ~invite[tuples[n].invite].completed
                /\ invite'[tuples[n].invite].usedBy # invite[tuples[n].invite].usedBy]_vars

Same(row, other) ==
    /\ row.relation = other.relation /\ row.subject = other.subject
    /\ row.object = other.object /\ row.owner = other.owner

\* Whoever is told that they have the space ("Done", or the notification of
\* a decided request) has its grant, with two exceptions that the code makes:
\* a request decided after the friendship ended, and an unfinished invite
\* redeemed again after what it gave was revoked.
ToldTrue ==
    \A claim \in told :
        \/ GrantIn(tuples, claim.user, claim.offering)
        \/ claim.what = "granted" /\ ~AreFriends(claim.user, OwnerOf[claim.offering])
        \/ /\ claim.what = "redeemed"
           /\ \E n \in DOMAIN tuples :
                /\ IsGrant(tuples[n]) /\ tuples[n].revoked
                /\ tuples[n].subject = claim.user /\ tuples[n].invite # NoInvite
                /\ OfferingOf[tuples[n].invite] = claim.offering

\* Nobody has a space twice by accepting invites ("You already have mirror
\* space there"), only by a request made before the grant and decided after it.
NoSpaceTwice ==
    \A m, n \in DOMAIN tuples :
        /\ m < n /\ ~tuples[m].revoked /\ ~tuples[n].revoked
        /\ IsGrant(tuples[m]) /\ Same(tuples[m], tuples[n])
        => tuples[n].invite = NoInvite

\* A reply and the table agree, and a space is given once.
SpaceAsTold == ToldTrue /\ NoSpaceTwice
=============================================================================
