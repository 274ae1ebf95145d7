---------------------------- MODULE TrustProofs ----------------------------
(***************************************************************************)
(* Theorems about Trust, for any people, machines, offerings and invites.  *)
(***************************************************************************)
EXTENDS Trust, SequenceTheorems, TLAPS

\* Every active friend row has its mirror image, made by the same invite (or
\* by none).  FriendshipSymmetric alone is not inductive: release_invite
\* revokes by tag, and must find both rows of a pair under the same tag.
MirroredFriendship ==
    \A n \in DOMAIN tuples :
        ~tuples[n].revoked /\ tuples[n].relation = "friend" =>
            \E m \in DOMAIN tuples :
                /\ ~tuples[m].revoked
                /\ IsFriendship(tuples[m], tuples[n].object, tuples[n].subject)
                /\ tuples[m].invite = tuples[n].invite

TrustInv ==
    /\ TypeOK
    /\ MirroredFriendship
    /\ InviteRowsBelongToAcceptor
    /\ GrantOutlivesOnlyReleasedFriendship

Tags == Invites \union {NoInvite}

----------------------------------------------------------------------------
(* Lemmas about rows and tables *)

LEMMA FriendRowType ==
    ASSUME NEW a \in Users, NEW b \in Users, NEW tag \in Tags
    PROVE  FriendRow(a, b, tag) \in Row
BY DEF FriendRow, Row, PersonRow, Tags

LEMMA GrantRowType ==
    ASSUME NEW u \in Users, NEW o \in Offerings, NEW tag \in Tags
    PROVE  GrantRow(u, o, tag) \in Row
BY TrustAssumption DEF GrantRow, Row, HostRow, Tags

LEMMA MemberRowType ==
    ASSUME NEW u \in Users, NEW w \in Users, NEW tag \in Tags
    PROVE  MemberRow(u, w, tag) \in Row
BY DEF MemberRow, Row, PersonRow, Tags

\* Revoking keeps every row in its place and changes nothing but revoked.
LEMMA RevokeRow ==
    ASSUME NEW r \in Row
    PROVE  /\ [r EXCEPT !.revoked = TRUE] \in Row
           /\ [r EXCEPT !.revoked = TRUE].revoked
           /\ [r EXCEPT !.revoked = TRUE].relation = r.relation
           /\ [r EXCEPT !.revoked = TRUE].subject = r.subject
           /\ [r EXCEPT !.revoked = TRUE].object = r.object
           /\ [r EXCEPT !.revoked = TRUE].owner = r.owner
           /\ [r EXCEPT !.revoked = TRUE].invite = r.invite
<1>1. CASE r \in PersonRow
  BY <1>1 DEF Row, PersonRow
<1>2. CASE r \in HostRow
  BY <1>2 DEF Row, HostRow
<1>3. QED BY <1>1, <1>2 DEF Row

LEMMA RevokeTable ==
    ASSUME tuples \in Seq(Row), NEW ids
    PROVE  /\ Revoke(ids) \in Seq(Row)
           /\ Len(Revoke(ids)) = Len(tuples)
           /\ DOMAIN Revoke(ids) = DOMAIN tuples
           /\ \A n \in DOMAIN tuples :
                /\ n \notin ids => Revoke(ids)[n] = tuples[n]
                /\ n \in ids => Revoke(ids)[n].revoked
                /\ Revoke(ids)[n].relation = tuples[n].relation
                /\ Revoke(ids)[n].subject = tuples[n].subject
                /\ Revoke(ids)[n].object = tuples[n].object
                /\ Revoke(ids)[n].owner = tuples[n].owner
                /\ Revoke(ids)[n].invite = tuples[n].invite
<1>1. \A n \in 1 .. Len(tuples) : tuples[n] \in Row
  OBVIOUS
<1>2. DOMAIN tuples = 1 .. Len(tuples) /\ Len(tuples) \in Nat
  OBVIOUS
<1>3. \A n \in 1 .. Len(tuples) : Revoke(ids)[n] \in Row
  BY <1>1, <1>2, RevokeRow DEF Revoke
<1>4. Revoke(ids) = [n \in 1 .. Len(tuples) |-> Revoke(ids)[n]]
  BY <1>2 DEF Revoke
<1>5. Revoke(ids) \in [1 .. Len(tuples) -> Row]
  BY <1>3, <1>4
<1>6. Revoke(ids) \in Seq(Row) /\ Len(Revoke(ids)) = Len(tuples)
  BY <1>2, <1>5, SeqDef, LenProperties
<1>7. QED BY <1>1, <1>2, <1>6, RevokeRow DEF Revoke

\* Appending keeps the rows there were and adds exactly the new ones.
LEMMA AppendTable ==
    ASSUME NEW table \in Seq(Row), NEW added \in Seq(Row)
    PROVE  /\ table \o added \in Seq(Row)
           /\ \A n \in DOMAIN table :
                n \in DOMAIN (table \o added) /\ (table \o added)[n] = table[n]
           /\ \A k \in DOMAIN added :
                \E n \in DOMAIN (table \o added) : (table \o added)[n] = added[k]
           /\ \A n \in DOMAIN (table \o added) :
                \/ n \in DOMAIN table
                \/ \E k \in DOMAIN added : (table \o added)[n] = added[k]
<1>1. /\ table \o added \in Seq(Row)
      /\ Len(table \o added) = Len(table) + Len(added)
      /\ Len(table) \in Nat /\ Len(added) \in Nat
      /\ DOMAIN table = 1 .. Len(table) /\ DOMAIN added = 1 .. Len(added)
      /\ DOMAIN (table \o added) = 1 .. Len(table) + Len(added)
  BY ConcatProperties, LenProperties
<1>2. \A n \in 1 .. Len(table) + Len(added) :
        (table \o added)[n] = IF n <= Len(table) THEN table[n] ELSE added[n - Len(table)]
  BY ConcatProperties
<1>3. \A n \in DOMAIN table :
        n \in DOMAIN (table \o added) /\ (table \o added)[n] = table[n]
  BY <1>1, <1>2
<1>4. ASSUME NEW k \in DOMAIN added
      PROVE  \E n \in DOMAIN (table \o added) : (table \o added)[n] = added[k]
  <2>1. Len(table) + k \in 1 .. Len(table) + Len(added)
    BY <1>1, <1>4
  <2>2. (table \o added)[Len(table) + k] = added[k]
    BY <1>1, <1>2, <1>4, <2>1
  <2>3. QED BY <1>1, <2>1, <2>2
<1>5. ASSUME NEW n \in DOMAIN (table \o added), n \notin DOMAIN table
      PROVE  \E k \in DOMAIN added : (table \o added)[n] = added[k]
  <2>1. n - Len(table) \in DOMAIN added
    BY <1>1, <1>5
  <2>2. QED BY <1>1, <1>2, <1>5, <2>1
<1>6. QED BY <1>1, <1>3, <1>4, <1>5

----------------------------------------------------------------------------
(* What accepting an invite adds *)

RowsOf(table) == {table[n] : n \in DOMAIN table}

LEMMA RowsOfConcat ==
    ASSUME NEW s \in Seq(Row), NEW t \in Seq(Row)
    PROVE  s \o t \in Seq(Row) /\ RowsOf(s \o t) = RowsOf(s) \union RowsOf(t)
<1>1. s \o t \in Seq(Row)
  BY AppendTable
<1>2. RowsOf(s \o t) \subseteq RowsOf(s) \union RowsOf(t)
  BY AppendTable DEF RowsOf
<1>3. ASSUME NEW r \in RowsOf(s) \union RowsOf(t)
      PROVE  r \in RowsOf(s \o t)
  <2>1. CASE r \in RowsOf(s)
    BY <2>1, AppendTable DEF RowsOf
  <2>2. CASE r \in RowsOf(t)
    <3>1. PICK k \in DOMAIN t : r = t[k]
      BY <2>2 DEF RowsOf
    <3>2. PICK n \in DOMAIN (s \o t) : (s \o t)[n] = t[k]
      BY AppendTable
    <3>3. QED BY <3>1, <3>2 DEF RowsOf
  <2>3. QED BY <1>3, <2>1, <2>2
<1>4. QED BY <1>1, <1>2, <1>3

LEMMA RowsOfFew ==
    ASSUME NEW a \in Row, NEW b \in Row
    PROVE  /\ <<>> \in Seq(Row) /\ RowsOf(<<>>) = {}
           /\ <<a>> \in Seq(Row) /\ RowsOf(<<a>>) = {a}
           /\ <<a, b>> \in Seq(Row) /\ RowsOf(<<a, b>>) = {a, b}
<1>1. <<>> \in Seq(Row) /\ RowsOf(<<>>) = {}
  BY DEF RowsOf
<1>2. <<a>> \in Seq(Row) /\ RowsOf(<<a>>) = {a}
  BY DEF RowsOf
<1>3. <<a, b>> \in Seq(Row) /\ DOMAIN <<a, b>> = {1, 2}
  OBVIOUS
<1>4. RowsOf(<<a, b>>) = {a, b}
  BY <1>3 DEF RowsOf
<1>5. QED BY <1>1, <1>2, <1>3, <1>4

LEMMA AcceptedRowsProperties ==
    ASSUME NEW u \in Users, NEW i \in Invites, NEW table
    PROVE  LET w == OwnerOf[OfferingOf[i]]
               fr == FriendRow(u, w, i)
               rf == FriendRow(w, u, i)
               g == GrantRow(u, OfferingOf[i], i)
               added == AcceptedRows(u, i, table)
           IN  /\ added \in Seq(Row)
               /\ RowsOf(added) \subseteq {fr, rf, g, MemberRow(u, w, i)}
               /\ fr \in RowsOf(added) <=> rf \in RowsOf(added)
               /\ ~FriendsIn(table, u, w) => fr \in RowsOf(added)
<1> DEFINE w == OwnerOf[OfferingOf[i]]
           fr == FriendRow(u, w, i)
           rf == FriendRow(w, u, i)
           g == GrantRow(u, OfferingOf[i], i)
           mr == MemberRow(u, w, i)
           pair == IF FriendsIn(table, u, w) THEN <<>> ELSE <<fr, rf>>
           welcome == IF i \in GroupInvites /\ ~MemberIn(table, u, w) THEN <<mr>> ELSE <<>>
           added == (pair \o <<g>>) \o welcome
<1>1. AcceptedRows(u, i, table) = added
  BY DEF AcceptedRows
<1>2. OfferingOf[i] \in Offerings /\ w \in Users /\ i \in Tags
  BY TrustAssumption DEF Tags
<1>3. fr \in Row /\ rf \in Row /\ g \in Row /\ mr \in Row
  BY <1>2, FriendRowType, GrantRowType, MemberRowType
<1>4. g # fr /\ g # rf /\ mr # fr /\ mr # rf
  BY <1>2, TrustAssumption DEF FriendRow, GrantRow, MemberRow, GrantRelations
<1> HIDE DEF w, fr, rf, g, mr
<1>5. pair \in Seq(Row) /\ RowsOf(pair) = IF FriendsIn(table, u, w) THEN {} ELSE {fr, rf}
  BY <1>3, RowsOfFew
<1>6. welcome \in Seq(Row) /\ RowsOf(welcome) \subseteq {mr}
  BY <1>3, RowsOfFew
<1>7. <<g>> \in Seq(Row) /\ RowsOf(<<g>>) = {g}
  BY <1>3, RowsOfFew
<1> HIDE DEF pair, welcome
<1>8. added \in Seq(Row) /\ RowsOf(added) = RowsOf(pair) \union {g} \union RowsOf(welcome)
  <2>1. pair \o <<g>> \in Seq(Row) /\ RowsOf(pair \o <<g>>) = RowsOf(pair) \union {g}
    BY <1>5, <1>7, RowsOfConcat
  <2>2. QED BY <2>1, <1>6, RowsOfConcat
<1> HIDE DEF added
<1>9. /\ added \in Seq(Row)
      /\ RowsOf(added) \subseteq {fr, rf, g, mr}
      /\ fr \in RowsOf(added) <=> rf \in RowsOf(added)
      /\ ~FriendsIn(table, u, w) => fr \in RowsOf(added)
  BY <1>4, <1>5, <1>6, <1>8
<1>10. QED BY <1>1, <1>9 DEF w, fr, rf, g, mr

----------------------------------------------------------------------------
(* The invariants, as facts about a set of rows *)

Mirrored(R) ==
    \A r \in R : ~r.revoked /\ r.relation = "friend" =>
        \E q \in R : /\ ~q.revoked
                     /\ IsFriendship(q, r.object, r.subject)
                     /\ q.invite = r.invite

Owned(R, inv) ==
    \A r \in R : ~r.revoked /\ r.invite # NoInvite =>
        \/ r.subject = inv[r.invite].usedBy
        \/ r.relation = "friend" /\ r.object = inv[r.invite].usedBy

Accounted(R) ==
    \A r \in R : ~r.revoked /\ IsGrant(r) =>
        \/ \E q \in R : ~q.revoked /\ IsFriendship(q, r.subject, r.owner)
        \/ \E q \in R : /\ q.revoked
                        /\ IsFriendship(q, r.subject, r.owner)
                        /\ q.invite \notin {NoInvite, r.invite}

Rows == RowsOf(tuples)

LEMMA InvAsRows ==
    /\ MirroredFriendship <=> Mirrored(Rows)
    /\ InviteRowsBelongToAcceptor <=> Owned(Rows, invite)
    /\ GrantOutlivesOnlyReleasedFriendship <=> Accounted(Rows)
<1>1. MirroredFriendship <=> Mirrored(Rows)
  BY DEF MirroredFriendship, Mirrored, Rows, RowsOf
<1>2. InviteRowsBelongToAcceptor <=> Owned(Rows, invite)
  BY DEF InviteRowsBelongToAcceptor, Owned, Rows, RowsOf
<1>3. GrantOutlivesOnlyReleasedFriendship <=> Accounted(Rows)
  BY DEF GrantOutlivesOnlyReleasedFriendship, Accounted, Rows, RowsOf, AreFriends, FriendsIn
<1>4. QED BY <1>1, <1>2, <1>3

\* The same of the next state.
LEMMA InvAsRowsNext ==
    /\ MirroredFriendship' <=> Mirrored(Rows')
    /\ InviteRowsBelongToAcceptor' <=> Owned(Rows', invite')
    /\ GrantOutlivesOnlyReleasedFriendship' <=> Accounted(Rows')
<1>1. MirroredFriendship' <=> Mirrored(Rows')
  BY DEF MirroredFriendship, Mirrored, Rows, RowsOf
<1>2. InviteRowsBelongToAcceptor' <=> Owned(Rows', invite')
  BY DEF InviteRowsBelongToAcceptor, Owned, Rows, RowsOf
<1>3. GrantOutlivesOnlyReleasedFriendship' <=> Accounted(Rows')
  BY DEF GrantOutlivesOnlyReleasedFriendship, Accounted, Rows, RowsOf, AreFriends, FriendsIn
<1>4. QED BY <1>1, <1>2, <1>3

\* What stands after a revocation stood before it and was spared; what was
\* revoked is still there, revoked.
LEMMA RowsOfRevoke ==
    ASSUME tuples \in Seq(Row), NEW ids
    PROVE  LET after == RowsOf(Revoke(ids)) IN
           /\ \A r \in after : ~r.revoked =>
                \E n \in DOMAIN tuples : n \notin ids /\ r = tuples[n]
           /\ \A n \in DOMAIN tuples : n \notin ids => tuples[n] \in after
           /\ \A n \in DOMAIN tuples : n \in ids \/ tuples[n].revoked =>
                \E r \in after : /\ r.revoked
                                 /\ r.relation = tuples[n].relation
                                 /\ r.subject = tuples[n].subject
                                 /\ r.object = tuples[n].object
                                 /\ r.invite = tuples[n].invite
<1>1. \A r \in RowsOf(Revoke(ids)) : ~r.revoked =>
        \E n \in DOMAIN tuples : n \notin ids /\ r = tuples[n]
  BY RevokeTable DEF RowsOf
<1>2. \A n \in DOMAIN tuples : n \notin ids => tuples[n] \in RowsOf(Revoke(ids))
  BY RevokeTable DEF RowsOf
<1>3. ASSUME NEW n \in DOMAIN tuples, n \in ids \/ tuples[n].revoked
      PROVE  \E r \in RowsOf(Revoke(ids)) :
                /\ r.revoked
                /\ r.relation = tuples[n].relation
                /\ r.subject = tuples[n].subject
                /\ r.object = tuples[n].object
                /\ r.invite = tuples[n].invite
  <2>1. Revoke(ids)[n] \in RowsOf(Revoke(ids))
    BY <1>3, RevokeTable DEF RowsOf
  <2>2. Revoke(ids)[n].revoked
    BY <1>3, RevokeTable
  <2>3. QED BY <1>3, <2>1, <2>2, RevokeTable
<1>4. QED BY <1>1, <1>2, <1>3

\* Revoking the two rows of a friendship together keeps friendship mutual.
LEMMA MirroredRevoke ==
    ASSUME tuples \in Seq(Row), Mirrored(Rows), NEW ids,
           \A m, n \in DOMAIN tuples :
             /\ ~tuples[m].revoked /\ ~tuples[n].revoked /\ tuples[n].relation = "friend"
             /\ IsFriendship(tuples[m], tuples[n].object, tuples[n].subject)
             /\ tuples[m].invite = tuples[n].invite
             /\ m \in ids
             => n \in ids
    PROVE  Mirrored(RowsOf(Revoke(ids)))
<1> SUFFICES ASSUME NEW r \in RowsOf(Revoke(ids)), ~r.revoked, r.relation = "friend"
             PROVE  \E q \in RowsOf(Revoke(ids)) :
                        /\ ~q.revoked
                        /\ IsFriendship(q, r.object, r.subject)
                        /\ q.invite = r.invite
  BY DEF Mirrored
<1>1. PICK n \in DOMAIN tuples : n \notin ids /\ r = tuples[n]
  BY RowsOfRevoke
<1>2. PICK m \in DOMAIN tuples :
        /\ ~tuples[m].revoked
        /\ IsFriendship(tuples[m], r.object, r.subject)
        /\ tuples[m].invite = r.invite
  BY <1>1 DEF Mirrored, Rows, RowsOf
<1>3. m \notin ids
  BY <1>1, <1>2
<1>4. tuples[m] \in RowsOf(Revoke(ids))
  BY <1>3, RowsOfRevoke
<1>5. QED BY <1>2, <1>4

LEMMA OwnedRevoke ==
    ASSUME tuples \in Seq(Row), NEW inv, Owned(Rows, inv), NEW ids
    PROVE  Owned(RowsOf(Revoke(ids)), inv)
<1> SUFFICES ASSUME NEW r \in RowsOf(Revoke(ids)), ~r.revoked, r.invite # NoInvite
             PROVE  \/ r.subject = inv[r.invite].usedBy
                    \/ r.relation = "friend" /\ r.object = inv[r.invite].usedBy
  BY DEF Owned
<1>1. r \in Rows
  BY RowsOfRevoke DEF Rows, RowsOf
<1>2. QED BY <1>1 DEF Owned

\* A grant is spared while its friendship is revoked only when the friendship
\* is another invite's.
LEMMA AccountedRevoke ==
    ASSUME tuples \in Seq(Row), Accounted(Rows), NEW ids,
           \A m, n \in DOMAIN tuples :
             /\ ~tuples[m].revoked /\ ~tuples[n].revoked /\ IsGrant(tuples[n])
             /\ IsFriendship(tuples[m], tuples[n].subject, tuples[n].owner)
             /\ m \in ids /\ n \notin ids
             => tuples[m].invite \notin {NoInvite, tuples[n].invite}
    PROVE  Accounted(RowsOf(Revoke(ids)))
<1> DEFINE after == RowsOf(Revoke(ids))
<1> SUFFICES ASSUME NEW r \in after, ~r.revoked, IsGrant(r)
             PROVE  \/ \E q \in after : ~q.revoked /\ IsFriendship(q, r.subject, r.owner)
                    \/ \E q \in after : /\ q.revoked
                                        /\ IsFriendship(q, r.subject, r.owner)
                                        /\ q.invite \notin {NoInvite, r.invite}
  BY DEF Accounted
<1>1. PICK n \in DOMAIN tuples : n \notin ids /\ r = tuples[n]
  BY RowsOfRevoke
<1>2. PICK m \in DOMAIN tuples :
        /\ IsFriendship(tuples[m], r.subject, r.owner)
        /\ tuples[m].revoked => tuples[m].invite \notin {NoInvite, r.invite}
  BY <1>1 DEF Accounted, Rows, RowsOf
<1>3. CASE ~tuples[m].revoked /\ m \notin ids
  BY <1>2, <1>3, RowsOfRevoke
<1>4. CASE tuples[m].revoked \/ m \in ids
  <2>1. PICK q \in after :
            /\ q.revoked
            /\ q.relation = tuples[m].relation
            /\ q.subject = tuples[m].subject
            /\ q.object = tuples[m].object
            /\ q.invite = tuples[m].invite
    BY <1>4, RowsOfRevoke
  <2>2. tuples[m].invite \notin {NoInvite, r.invite}
    BY <1>1, <1>2, <1>4
  <2>3. IsFriendship(q, r.subject, r.owner)
    BY <1>2, <2>1 DEF IsFriendship
  <2>4. QED BY <2>1, <2>2, <2>3
<1>5. QED BY <1>3, <1>4

----------------------------------------------------------------------------
(* Type correctness *)

\* What each table-changing action leaves in the table.
LEMMA TableAfterAccept ==
    ASSUME TypeOK, NEW u \in Users, NEW i \in Invites, RedeemInvite(u, i)
    PROVE  /\ Revoke(ReleasedRows(i)) \in Seq(Row)
           /\ tuples' \in Seq(Row)
           /\ RowsOf(tuples') = RowsOf(Revoke(ReleasedRows(i)))
                    \union RowsOf(AcceptedRows(u, i, Revoke(ReleasedRows(i))))
<1> DEFINE kept == Revoke(ReleasedRows(i))
<1>1. kept \in Seq(Row)
  BY RevokeTable DEF TypeOK
<1>2. AcceptedRows(u, i, kept) \in Seq(Row)
  BY AcceptedRowsProperties
<1>3. tuples' = kept \o AcceptedRows(u, i, kept)
  BY DEF RedeemInvite
<1> HIDE DEF kept
<1>4. /\ kept \o AcceptedRows(u, i, kept) \in Seq(Row)
      /\ RowsOf(kept \o AcceptedRows(u, i, kept)) = RowsOf(kept) \union RowsOf(AcceptedRows(u, i, kept))
  BY <1>1, <1>2, RowsOfConcat
<1>5. QED BY <1>1, <1>3, <1>4 DEF kept

LEMMA TableAfterFriendship ==
    ASSUME TypeOK, NEW a \in Users, NEW b \in Users, DecideFriendRequest(a, b, TRUE)
    PROVE  /\ tuples' \in Seq(Row)
           /\ RowsOf(tuples') = Rows \union {FriendRow(a, b, NoInvite), FriendRow(b, a, NoInvite)}
<1> DEFINE fr == FriendRow(a, b, NoInvite)
           rf == FriendRow(b, a, NoInvite)
<1>1. fr \in Row /\ rf \in Row
  BY FriendRowType DEF Tags
<1>2. tuples' = tuples \o <<fr, rf>>
  BY DEF DecideFriendRequest
<1> HIDE DEF fr, rf
<1>3. <<fr, rf>> \in Seq(Row) /\ RowsOf(<<fr, rf>>) = {fr, rf}
  BY <1>1, RowsOfFew
<1>4. tuples \in Seq(Row)
  BY DEF TypeOK
<1>5. QED BY <1>2, <1>3, <1>4, RowsOfConcat DEF Rows, fr, rf

LEMMA TableAfterGrant ==
    ASSUME TypeOK, NEW u \in Users, NEW o \in Offerings,
           tuples' = Append(tuples, GrantRow(u, o, NoInvite))
    PROVE  /\ tuples' \in Seq(Row)
           /\ RowsOf(tuples') = Rows \union {GrantRow(u, o, NoInvite)}
<1> DEFINE g == GrantRow(u, o, NoInvite)
<1>1. g \in Row
  BY GrantRowType DEF Tags
<1>2. tuples \in Seq(Row)
  BY DEF TypeOK
<1> HIDE DEF g
<1>3. Append(tuples, g) = tuples \o <<g>>
  BY <1>1, <1>2, AppendIsConcat
<1>4. <<g>> \in Seq(Row) /\ RowsOf(<<g>>) = {g}
  BY <1>1, RowsOfFew
<1>5. QED BY <1>2, <1>3, <1>4, RowsOfConcat DEF Rows, g

LEMMA InitType == Init => TypeOK
<1> SUFFICES ASSUME Init PROVE TypeOK
  OBVIOUS
<1>1. tuples \in Seq(Row) /\ told \in SUBSET Claim /\ friendRequests \in SUBSET (Users \X Users)
  BY DEF Init
<1>2. QED BY <1>1 DEF Init, TypeOK, InviteRow

LEMMA NextType == TypeOK /\ [Next]_vars => TypeOK'
<1> SUFFICES ASSUME TypeOK, [Next]_vars PROVE TypeOK'
  OBVIOUS
<1>1. ASSUME NEW a \in Users, NEW b \in Users, CreateFriendRequest(a, b) PROVE TypeOK'
  BY <1>1 DEF TypeOK, CreateFriendRequest
<1>2. ASSUME NEW a \in Users, NEW b \in Users, NEW accept \in BOOLEAN,
             DecideFriendRequest(a, b, accept)
      PROVE  TypeOK'
  <2>1. tuples' \in Seq(Row)
    <3>1. CASE accept
      BY <1>2, <3>1, TableAfterFriendship
    <3>2. CASE ~accept
      BY <1>2, <3>2 DEF DecideFriendRequest, TypeOK
    <3>3. QED BY <3>1, <3>2
  <2>2. QED BY <1>2, <2>1 DEF TypeOK, DecideFriendRequest
<1>3. ASSUME NEW a \in Users, NEW b \in Users, RemoveFriend(a, b) PROVE TypeOK'
  <2>1. tuples' \in Seq(Row)
    BY <1>3, RevokeTable DEF TypeOK, RemoveFriend
  <2>2. QED BY <1>3, <2>1 DEF TypeOK, RemoveFriend
<1>4. ASSUME NEW o \in Offerings, PublishOffering(o) \/ WithdrawOffering(o) PROVE TypeOK'
  BY <1>4 DEF TypeOK, PublishOffering, WithdrawOffering
<1>5. ASSUME NEW u \in Users, NEW o \in Offerings, CreateAccessRequest(u, o) PROVE TypeOK'
  BY <1>5 DEF TypeOK, CreateAccessRequest
<1>6. ASSUME NEW u \in Users, NEW o \in Offerings, NEW grant \in BOOLEAN,
             DecideAccessRequest(u, o, grant)
      PROVE  TypeOK'
  <2>1. tuples' \in Seq(Row)
    BY <1>6, TableAfterGrant DEF TypeOK, DecideAccessRequest
  <2>2. told' \in SUBSET Claim
    BY <1>6 DEF DecideAccessRequest, Claim
  <2>3. accessRequest' \in [Offerings -> [Users -> {"none", "pending", "granted", "declined"}]]
    BY <1>6 DEF TypeOK, DecideAccessRequest
  <2>4. QED BY <1>6, <2>1, <2>2, <2>3 DEF TypeOK, DecideAccessRequest
<1>7. ASSUME NEW n \in 1 .. MaxTuples, RevokeGrant(n) PROVE TypeOK'
  <2>1. tuples' \in Seq(Row)
    BY <1>7, RevokeTable DEF TypeOK, RevokeGrant
  <2>2. QED BY <1>7, <2>1 DEF TypeOK, RevokeGrant
<1>8. ASSUME NEW i \in Invites, CreateInvite(i) \/ OfferAndInvite(i) \/ ExpireInvite(i) \/ CancelInvite(i) PROVE TypeOK'
  <2>1. invite' \in [Invites -> InviteRow]
    <3>0. invite \in [Invites -> InviteRow]
      BY DEF TypeOK
    <3>1. CASE CreateInvite(i)
      BY <3>0, <3>1 DEF CreateInvite, InviteRow
    <3>2. CASE ExpireInvite(i)
      BY <3>0, <3>2 DEF ExpireInvite, InviteRow
    <3>3. CASE CancelInvite(i)
      BY <3>0, <3>3 DEF CancelInvite, InviteRow
    <3>4. CASE OfferAndInvite(i)
      BY <3>0, <3>4 DEF OfferAndInvite, InviteRow
    <3>5. QED BY <1>8, <3>1, <3>2, <3>3, <3>4
  <2>2. QED BY <1>8, <2>1 DEF TypeOK, CreateInvite, OfferAndInvite, ExpireInvite, CancelInvite
<1>9. ASSUME NEW u \in Users, NEW i \in Invites, RedeemInvite(u, i) PROVE TypeOK'
  <2>1. tuples' \in Seq(Row)
    BY <1>9, TableAfterAccept
  <2>2. told' \in SUBSET Claim
    BY <1>9, TrustAssumption DEF RedeemInvite, Claim
  <2>3. invite' \in [Invites -> InviteRow]
    BY <1>9 DEF TypeOK, RedeemInvite, InviteRow
  <2>4. QED BY <1>9, <2>1, <2>2, <2>3 DEF TypeOK, RedeemInvite
<1>10. ASSUME NEW u \in Users, NEW i \in Invites, RedeemInviteAgain(u, i) PROVE TypeOK'
  <2>1. told' \in SUBSET Claim
    BY <1>10, TrustAssumption DEF RedeemInviteAgain, Claim
  <2>2. QED BY <1>10, <2>1 DEF TypeOK, RedeemInviteAgain
<1>11. ASSUME NEW u \in Users, ProposeMirror(u) PROVE TypeOK'
  BY <1>11 DEF TypeOK, ProposeMirror
<1>12. ASSUME NEW u \in Users, NEW allow \in BOOLEAN, DecideMirrorConsent(u, allow) PROVE TypeOK'
  <2>1. \A i \in Invites : [invite[i] EXCEPT !.completed = TRUE] \in InviteRow
    BY DEF TypeOK, InviteRow
  <2>2. invite' \in [Invites -> InviteRow]
    BY <1>12, <2>1 DEF TypeOK, DecideMirrorConsent
  <2>3. QED BY <1>12, <2>2 DEF TypeOK, DecideMirrorConsent
<1>13. CASE UNCHANGED vars
  BY <1>13 DEF TypeOK, vars
<1>14. QED
  BY <1>1, <1>2, <1>3, <1>4, <1>5, <1>6, <1>7, <1>8, <1>9, <1>10, <1>11, <1>12, <1>13 DEF Next, RevokeTool

\* Every variable keeps its type: in particular every grant row names an owner,
\* which grants_on_host_for_daemon and remove_friend select by.
THEOREM TypeCorrect == Spec => []TypeOK
<1>1. QED BY InitType, NextType, PTL DEF Spec

----------------------------------------------------------------------------
(* The safety invariant *)

LEMMA InitTrustInv == Init => TrustInv
<1> SUFFICES ASSUME Init PROVE TrustInv
  OBVIOUS
<1>1. tuples = <<>>
  BY DEF Init
<1>2. MirroredFriendship /\ InviteRowsBelongToAcceptor /\ GrantOutlivesOnlyReleasedFriendship
  BY <1>1 DEF MirroredFriendship, InviteRowsBelongToAcceptor, GrantOutlivesOnlyReleasedFriendship
<1>3. QED BY <1>2, InitType DEF TrustInv

\* The step that matters: taking an invite over releases exactly the rows it
\* made, and what it makes again belongs to the new acceptor.
LEMMA RedeemKeepsInv ==
    ASSUME TrustInv, NEW u \in Users, NEW i \in Invites, RedeemInvite(u, i)
    PROVE  Mirrored(Rows') /\ Owned(Rows', invite') /\ Accounted(Rows')
<1> DEFINE ids == ReleasedRows(i)
           kept == RowsOf(Revoke(ids))
           w == OwnerOf[OfferingOf[i]]
           fr == FriendRow(u, w, i)
           rf == FriendRow(w, u, i)
           g == GrantRow(u, OfferingOf[i], i)
           mr == MemberRow(u, w, i)
           added == RowsOf(AcceptedRows(u, i, Revoke(ids)))
<1>1. tuples \in Seq(Row) /\ Mirrored(Rows) /\ Owned(Rows, invite) /\ Accounted(Rows)
  BY InvAsRows DEF TrustInv, TypeOK
<1>2. Rows' = kept \union added
  BY TableAfterAccept DEF TrustInv, Rows
<1>3. /\ added \subseteq {fr, rf, g, mr}
      /\ fr \in added <=> rf \in added
      /\ ~FriendsIn(Revoke(ids), u, w) => fr \in added
  BY AcceptedRowsProperties
<1>4. w \in Users /\ u \in Users /\ u # NoOne /\ w # NoOne /\ i # NoInvite
  BY TrustAssumption
<1>5. \A n \in DOMAIN tuples : tuples[n] \in Row /\ tuples[n] \in Rows
  BY <1>1 DEF Rows, RowsOf
\* Every active row the invite made is released.
<1>6. \A n \in DOMAIN tuples : ~tuples[n].revoked /\ tuples[n].invite = i => n \in ids
  <2> SUFFICES ASSUME NEW n \in DOMAIN tuples, ~tuples[n].revoked, tuples[n].invite = i
               PROVE  n \in ids
    OBVIOUS
  <2>1. \/ tuples[n].subject = invite[i].usedBy
        \/ tuples[n].relation = "friend" /\ tuples[n].object = invite[i].usedBy
    BY <1>1, <1>4, <1>5 DEF Owned
  <2>2. tuples[n].subject \in Users /\ (tuples[n].relation = "friend" => tuples[n].object \in Users)
    BY <1>5 DEF Row, PersonRow, HostRow, GrantRelations
  <2>3. invite[i].usedBy # NoOne
    BY <2>1, <2>2, TrustAssumption
  <2>4. QED BY <2>1, <2>3 DEF ReleasedRows
<1>7. Mirrored(kept)
  <2>1. \A m, n \in DOMAIN tuples :
          /\ ~tuples[m].revoked /\ ~tuples[n].revoked /\ tuples[n].relation = "friend"
          /\ IsFriendship(tuples[m], tuples[n].object, tuples[n].subject)
          /\ tuples[m].invite = tuples[n].invite
          /\ m \in ids
          => n \in ids
    BY <1>6 DEF ReleasedRows
  <2>2. QED BY <1>1, <2>1, MirroredRevoke
<1>8. Accounted(kept)
  <2>1. \A m, n \in DOMAIN tuples :
          /\ ~tuples[m].revoked /\ ~tuples[n].revoked /\ IsGrant(tuples[n])
          /\ IsFriendship(tuples[m], tuples[n].subject, tuples[n].owner)
          /\ m \in ids /\ n \notin ids
          => tuples[m].invite \notin {NoInvite, tuples[n].invite}
    BY <1>4, <1>6 DEF ReleasedRows
  <2>2. QED BY <1>1, <2>1, AccountedRevoke
<1>9. \A r \in kept : ~r.revoked => r \in Rows /\ r.invite # i
  BY <1>1, <1>6, RowsOfRevoke DEF Rows, RowsOf
<1>10. Owned(kept, invite')
  <2>1. \A j \in Invites : j # i => invite'[j].usedBy = invite[j].usedBy
    BY DEF RedeemInvite, TrustInv, TypeOK
  <2>2. \A r \in Rows : r.invite \in Invites \union {NoInvite}
    BY <1>5 DEF Rows, RowsOf, Row, PersonRow, HostRow
  <2>3. QED BY <1>1, <1>9, <2>1, <2>2 DEF Owned
<1>11. invite'[i].usedBy = u
  BY DEF RedeemInvite, TrustInv, TypeOK, InviteRow
<1>12. Mirrored(Rows')
  <2>1. IsFriendship(fr, u, w) /\ IsFriendship(rf, w, u) /\ ~fr.revoked /\ ~rf.revoked
        /\ fr.invite = rf.invite /\ g.relation # "friend" /\ mr.relation # "friend"
        /\ fr.subject = u /\ fr.object = w /\ rf.subject = w /\ rf.object = u
    BY TrustAssumption DEF FriendRow, GrantRow, MemberRow, IsFriendship, GrantRelations
  <2> HIDE DEF fr, rf, g, mr, added, kept
  <2>2. QED BY <1>2, <1>3, <1>7, <2>1 DEF Mirrored
<1>13. Owned(Rows', invite')
  <2>1. /\ fr.subject = u /\ fr.invite = i
        /\ rf.relation = "friend" /\ rf.object = u /\ rf.invite = i
        /\ g.subject = u /\ g.invite = i /\ mr.subject = u /\ mr.invite = i
    BY DEF FriendRow, GrantRow, MemberRow
  <2> HIDE DEF fr, rf, g, mr, added, kept
  <2>2. QED BY <1>2, <1>3, <1>10, <1>11, <2>1 DEF Owned
<1>14. Accounted(Rows')
  <2>1. \E q \in Rows' : ~q.revoked /\ IsFriendship(q, u, w)
    <3>1. CASE FriendsIn(Revoke(ids), u, w)
      BY <1>2, <3>1 DEF FriendsIn, RowsOf
    <3>2. CASE ~FriendsIn(Revoke(ids), u, w)
      BY <1>2, <1>3, <3>2 DEF FriendRow, IsFriendship
    <3>3. QED BY <3>1, <3>2
  <2>2. g.subject = u /\ g.owner = w /\ ~IsGrant(fr) /\ ~IsGrant(rf) /\ ~IsGrant(mr)
    BY DEF GrantRow, FriendRow, MemberRow, IsGrant, GrantRelations
  <2> HIDE DEF fr, rf, g, mr, added, kept, w
  <2>3. QED BY <1>2, <1>3, <1>8, <2>1, <2>2 DEF Accounted
<1>15. QED BY <1>12, <1>13, <1>14

\* A revocation that leaves invites alone keeps the invariant when it spares
\* neither half of a friendship alone nor a grant under it.
LEMMA RevokeKeepsInv ==
    ASSUME TrustInv, NEW ids, tuples' = Revoke(ids), UNCHANGED invite,
           \A m, n \in DOMAIN tuples :
             /\ ~tuples[m].revoked /\ ~tuples[n].revoked /\ tuples[n].relation = "friend"
             /\ IsFriendship(tuples[m], tuples[n].object, tuples[n].subject)
             /\ m \in ids
             => n \in ids,
           \A m, n \in DOMAIN tuples :
             /\ ~tuples[m].revoked /\ ~tuples[n].revoked /\ IsGrant(tuples[n])
             /\ IsFriendship(tuples[m], tuples[n].subject, tuples[n].owner)
             /\ m \in ids
             => n \in ids
    PROVE  Mirrored(Rows') /\ Owned(Rows', invite') /\ Accounted(Rows')
<1>1. tuples \in Seq(Row) /\ Mirrored(Rows) /\ Owned(Rows, invite) /\ Accounted(Rows)
  BY InvAsRows DEF TrustInv, TypeOK
<1>2. Rows' = RowsOf(Revoke(ids))
  BY DEF Rows
<1>3. Mirrored(RowsOf(Revoke(ids)))
  BY <1>1, MirroredRevoke
<1>4. Owned(RowsOf(Revoke(ids)), invite)
  BY <1>1, OwnedRevoke
<1>5. Accounted(RowsOf(Revoke(ids)))
  BY <1>1, AccountedRevoke
<1>6. QED BY <1>2, <1>3, <1>4, <1>5

LEMMA NextTrustInv == TrustInv /\ [Next]_vars => TrustInv'
<1> SUFFICES ASSUME TrustInv, [Next]_vars PROVE TrustInv'
  OBVIOUS
<1> DEFINE Goal == Mirrored(Rows') /\ Owned(Rows', invite') /\ Accounted(Rows')
<1>1. /\ tuples \in Seq(Row) /\ invite \in [Invites -> InviteRow]
      /\ Mirrored(Rows) /\ Owned(Rows, invite) /\ Accounted(Rows)
  BY InvAsRows DEF TrustInv, TypeOK
<1>2. \A r \in Rows : r \in Row
  BY <1>1 DEF Rows, RowsOf
\* Steps that touch no row and hand no invite over.
<1>3. ASSUME UNCHANGED tuples, \A i \in Invites : invite'[i].usedBy = invite[i].usedBy
      PROVE  Goal
  <2>1. Rows' = Rows
    BY <1>3 DEF Rows
  <2>2. \A r \in Rows : r.invite # NoInvite => r.invite \in Invites
    BY <1>2 DEF Row, PersonRow, HostRow
  <2>3. Owned(Rows, invite')
    BY <1>1, <1>3, <2>2 DEF Owned
  <2>4. QED BY <1>1, <2>1, <2>3
<1>4. ASSUME NEW a \in Users, NEW b \in Users, CreateFriendRequest(a, b) PROVE Goal
  BY <1>3, <1>4 DEF CreateFriendRequest
<1>5. ASSUME NEW a \in Users, NEW b \in Users, DecideFriendRequest(a, b, TRUE) PROVE Goal
  <2> DEFINE fr == FriendRow(a, b, NoInvite)
             rf == FriendRow(b, a, NoInvite)
  <2>1. Rows' = Rows \union {fr, rf} /\ UNCHANGED invite
    BY <1>5, TableAfterFriendship DEF TrustInv, Rows, DecideFriendRequest
  <2>2. /\ fr.subject = a /\ fr.object = b /\ rf.subject = b /\ rf.object = a
        /\ ~fr.revoked /\ ~rf.revoked /\ fr.invite = NoInvite /\ rf.invite = NoInvite
        /\ IsFriendship(fr, a, b) /\ IsFriendship(rf, b, a) /\ ~IsGrant(fr) /\ ~IsGrant(rf)
    BY DEF FriendRow, IsFriendship, IsGrant, GrantRelations
  <2> HIDE DEF fr, rf
  <2>3. Mirrored(Rows')
    BY <1>1, <2>1, <2>2 DEF Mirrored
  <2>4. Owned(Rows', invite')
    BY <1>1, <2>1, <2>2 DEF Owned
  <2>5. Accounted(Rows')
    BY <1>1, <2>1, <2>2 DEF Accounted
  <2>6. QED BY <2>3, <2>4, <2>5
<1>6. ASSUME NEW a \in Users, NEW b \in Users, DecideFriendRequest(a, b, FALSE) PROVE Goal
  BY <1>3, <1>6 DEF DecideFriendRequest
<1>7. ASSUME NEW a \in Users, NEW b \in Users, RemoveFriend(a, b) PROVE Goal
  <2> DEFINE ids == RowsBetween(a, b)
  <2>1. tuples' = Revoke(ids) /\ UNCHANGED invite
    BY <1>7 DEF RemoveFriend
  <2>2. \A m, n \in DOMAIN tuples :
          /\ ~tuples[m].revoked /\ ~tuples[n].revoked /\ tuples[n].relation = "friend"
          /\ IsFriendship(tuples[m], tuples[n].object, tuples[n].subject)
          /\ m \in ids
          => n \in ids
    BY DEF RowsBetween, IsFriendship, IsGrant, GrantRelations
  <2>3. \A m, n \in DOMAIN tuples :
          /\ ~tuples[m].revoked /\ ~tuples[n].revoked /\ IsGrant(tuples[n])
          /\ IsFriendship(tuples[m], tuples[n].subject, tuples[n].owner)
          /\ m \in ids
          => n \in ids
    BY DEF RowsBetween, IsFriendship, IsGrant, GrantRelations
  <2> HIDE DEF ids
  <2>4. QED BY <2>1, <2>2, <2>3, RevokeKeepsInv
<1>8. ASSUME NEW u \in Users, NEW o \in Offerings, CreateAccessRequest(u, o) PROVE Goal
  BY <1>3, <1>8 DEF CreateAccessRequest
<1>9. ASSUME NEW u \in Users, NEW o \in Offerings, NEW grant \in BOOLEAN,
             DecideAccessRequest(u, o, grant)
      PROVE  Goal
  <2>1. CASE grant /\ AreFriends(u, OwnerOf[o])
    <3> DEFINE g == GrantRow(u, o, NoInvite)
    <3>1. Rows' = Rows \union {g} /\ UNCHANGED invite
      BY <1>9, <2>1, TableAfterGrant DEF TrustInv, Rows, DecideAccessRequest
    <3>2. g.invite = NoInvite /\ g.relation # "friend" /\ g.subject = u /\ g.owner = OwnerOf[o]
      BY TrustAssumption DEF GrantRow, GrantRelations
    <3> HIDE DEF g
    <3>3. \E q \in Rows : ~q.revoked /\ IsFriendship(q, u, OwnerOf[o])
      BY <2>1 DEF AreFriends, FriendsIn, Rows, RowsOf
    <3>4. Mirrored(Rows')
      BY <1>1, <3>1, <3>2 DEF Mirrored
    <3>5. Owned(Rows', invite')
      BY <1>1, <3>1, <3>2 DEF Owned
    <3>6. Accounted(Rows')
      BY <1>1, <3>1, <3>2, <3>3 DEF Accounted
    <3>7. QED BY <3>4, <3>5, <3>6
  <2>2. CASE ~(grant /\ AreFriends(u, OwnerOf[o]))
    BY <1>3, <1>9, <2>2 DEF DecideAccessRequest
  <2>3. QED BY <2>1, <2>2
<1>10. ASSUME NEW n \in 1 .. MaxTuples, RevokeGrant(n) PROVE Goal
  <2>1. tuples' = Revoke({n}) /\ UNCHANGED invite /\ IsGrant(tuples[n])
    BY <1>10 DEF RevokeGrant
  <2>2. QED BY <2>1, RevokeKeepsInv DEF IsFriendship, IsGrant, GrantRelations
<1>11. ASSUME NEW o \in Offerings, PublishOffering(o) \/ WithdrawOffering(o) PROVE Goal
  BY <1>3, <1>11 DEF PublishOffering, WithdrawOffering
<1>12. ASSUME NEW i \in Invites, CreateInvite(i) \/ OfferAndInvite(i) \/ ExpireInvite(i) \/ CancelInvite(i) PROVE Goal
  <2>1. UNCHANGED tuples
    BY <1>12 DEF CreateInvite, OfferAndInvite, ExpireInvite, CancelInvite
  <2>2. \A j \in Invites : invite'[j].usedBy = invite[j].usedBy
    <3>1. CASE CreateInvite(i)
      BY <1>1, <3>1 DEF CreateInvite, InviteRow
    <3>2. CASE ExpireInvite(i)
      BY <1>1, <3>2 DEF ExpireInvite, InviteRow
    <3>3. CASE CancelInvite(i)
      BY <1>1, <3>3 DEF CancelInvite, InviteRow
    <3>4. CASE OfferAndInvite(i)
      BY <1>1, <3>4 DEF OfferAndInvite, InviteRow
    <3>5. QED BY <1>12, <3>1, <3>2, <3>3, <3>4
  <2>3. QED BY <1>3, <2>1, <2>2
<1>13. ASSUME NEW u \in Users, NEW i \in Invites, RedeemInvite(u, i) PROVE Goal
  BY <1>13, RedeemKeepsInv
<1>14. ASSUME NEW u \in Users, NEW i \in Invites, RedeemInviteAgain(u, i) PROVE Goal
  BY <1>3, <1>14 DEF RedeemInviteAgain
<1>15. ASSUME NEW u \in Users, ProposeMirror(u) PROVE Goal
  BY <1>3, <1>15 DEF ProposeMirror
<1>16. ASSUME NEW u \in Users, NEW allow \in BOOLEAN, DecideMirrorConsent(u, allow) PROVE Goal
  <2>1. \A j \in Invites : invite'[j].usedBy = invite[j].usedBy
    BY <1>1, <1>16 DEF DecideMirrorConsent, InviteRow
  <2>2. QED BY <1>3, <1>16, <2>1 DEF DecideMirrorConsent
<1>17. ASSUME UNCHANGED vars PROVE Goal
  BY <1>3, <1>17 DEF vars
<1>22. ASSUME NEW a \in Users, NEW b \in Users, NEW accept \in BOOLEAN,
              DecideFriendRequest(a, b, accept)
       PROVE  Goal
  <2>1. CASE accept = TRUE
    BY <1>5, <1>22, <2>1
  <2>2. CASE accept = FALSE
    BY <1>6, <1>22, <2>2
  <2>3. QED BY <2>1, <2>2
<1> HIDE DEF Goal
<1>18. Goal
  BY <1>4, <1>22, <1>7, <1>8, <1>9, <1>10, <1>11, <1>12, <1>13, <1>14, <1>15, <1>16, <1>17
  DEF Next, RevokeTool
<1>19. MirroredFriendship' /\ InviteRowsBelongToAcceptor' /\ GrantOutlivesOnlyReleasedFriendship'
  <2>1. /\ MirroredFriendship' <=> Mirrored(Rows')
        /\ InviteRowsBelongToAcceptor' <=> Owned(Rows', invite')
        /\ GrantOutlivesOnlyReleasedFriendship' <=> Accounted(Rows')
    BY InvAsRowsNext
  <2>2. QED BY <1>18, <2>1 DEF Goal
<1>20. TypeOK'
  BY NextType DEF TrustInv
<1>21. QED BY <1>19, <1>20 DEF TrustInv

LEMMA TrustInvariant == Spec => []TrustInv
<1>1. QED BY InitTrustInv, NextTrustInv, PTL DEF Spec

\* Friendship is mutual in every reachable state, however requests, removals
\* and invites that change hands interleave.
THEOREM FriendshipIsMutual == Spec => []FriendshipSymmetric
<1>1. TrustInv => FriendshipSymmetric
  BY DEF TrustInv, MirroredFriendship, FriendshipSymmetric, AreFriends, FriendsIn, IsFriendship
<1>2. QED BY <1>1, TrustInvariant, PTL

\* What an invite made stands only for the person who accepted it last.
THEOREM InviteIsSingleUse == Spec => []InviteRowsBelongToAcceptor
<1>1. TrustInv => InviteRowsBelongToAcceptor
  BY DEF TrustInv
<1>2. QED BY <1>1, TrustInvariant, PTL

\* The take-over of an invite is the only way a grant outlives its friendship.
THEOREM StrayGrantsAreReleasedFriendships == Spec => []GrantOutlivesOnlyReleasedFriendship
<1>1. TrustInv => GrantOutlivesOnlyReleasedFriendship
  BY DEF TrustInv
<1>2. QED BY <1>1, TrustInvariant, PTL

----------------------------------------------------------------------------
(* What one step may do to the table *)

\* The table is left alone, or grows by rows no invite made, or two people's
\* rows or one grant are revoked with every invite left alone, or an invite
\* is accepted afresh.
LEMMA TableSteps ==
    ASSUME TypeOK, [Next]_vars
    PROVE  \/ UNCHANGED tuples
           \/ /\ UNCHANGED invite
              /\ \E added \in Seq(Row) :
                    /\ tuples' = tuples \o added
                    /\ \A k \in DOMAIN added : added[k].invite = NoInvite
           \/ /\ UNCHANGED invite
              /\ \E a, b \in Users : RemoveFriend(a, b)
           \/ /\ UNCHANGED invite
              /\ \E n \in DOMAIN tuples : RevokeGrant(n)
           \/ \E u \in Users, i \in Invites : RedeemInvite(u, i)
<1> DEFINE Grown == /\ UNCHANGED invite
                    /\ \E added \in Seq(Row) :
                        /\ tuples' = tuples \o added
                        /\ \A k \in DOMAIN added : added[k].invite = NoInvite
           Removed == UNCHANGED invite /\ \E a, b \in Users : RemoveFriend(a, b)
           Ended == UNCHANGED invite /\ \E n \in DOMAIN tuples : RevokeGrant(n)
           Accepted == \E u \in Users, i \in Invites : RedeemInvite(u, i)
           Outcome == UNCHANGED tuples \/ Grown \/ Removed \/ Ended \/ Accepted
<1>1. ASSUME NEW a \in Users, NEW b \in Users, NEW accept \in BOOLEAN,
             DecideFriendRequest(a, b, accept)
      PROVE  Outcome
  <2> DEFINE fr == FriendRow(a, b, NoInvite)
             rf == FriendRow(b, a, NoInvite)
  <2>1. CASE accept
    <3>1. fr \in Row /\ rf \in Row /\ fr.invite = NoInvite /\ rf.invite = NoInvite
      BY FriendRowType DEF Tags, FriendRow
    <3>2. tuples' = tuples \o <<fr, rf>> /\ UNCHANGED invite
      BY <1>1, <2>1 DEF DecideFriendRequest
    <3> HIDE DEF fr, rf
    <3>3. <<fr, rf>> \in Seq(Row) /\ \A k \in DOMAIN <<fr, rf>> : <<fr, rf>>[k].invite = NoInvite
      BY <3>1
    <3>4. QED BY <3>2, <3>3
  <2>2. CASE ~accept
    BY <1>1, <2>2 DEF DecideFriendRequest
  <2>3. QED BY <2>1, <2>2
<1>2. ASSUME NEW u \in Users, NEW o \in Offerings, NEW grant \in BOOLEAN,
             DecideAccessRequest(u, o, grant)
      PROVE  Outcome
  <2> DEFINE g == GrantRow(u, o, NoInvite)
  <2>1. CASE grant /\ AreFriends(u, OwnerOf[o])
    <3>1. g \in Row /\ g.invite = NoInvite
      BY GrantRowType DEF Tags, GrantRow
    <3>2. tuples' = Append(tuples, g) /\ UNCHANGED invite /\ tuples \in Seq(Row)
      BY <1>2, <2>1 DEF DecideAccessRequest, TypeOK
    <3> HIDE DEF g
    <3>3. tuples' = tuples \o <<g>>
      BY <3>1, <3>2, AppendIsConcat
    <3>4. <<g>> \in Seq(Row) /\ \A k \in DOMAIN <<g>> : <<g>>[k].invite = NoInvite
      BY <3>1
    <3>5. QED BY <3>2, <3>3, <3>4
  <2>2. CASE ~(grant /\ AreFriends(u, OwnerOf[o]))
    BY <1>2, <2>2 DEF DecideAccessRequest
  <2>3. QED BY <2>1, <2>2
<1>3. ASSUME NEW a \in Users, NEW b \in Users, RemoveFriend(a, b) PROVE Outcome
  BY <1>3 DEF RemoveFriend
<1>4. ASSUME NEW n \in 1 .. MaxTuples, RevokeGrant(n) PROVE Outcome
  BY <1>4 DEF RevokeGrant
<1>5. ASSUME NEW a \in Users, NEW b \in Users, CreateFriendRequest(a, b) PROVE Outcome
  BY <1>5 DEF CreateFriendRequest
<1>6. ASSUME NEW o \in Offerings, PublishOffering(o) \/ WithdrawOffering(o) PROVE Outcome
  BY <1>6 DEF PublishOffering, WithdrawOffering
<1>7. ASSUME NEW u \in Users, NEW o \in Offerings, CreateAccessRequest(u, o) PROVE Outcome
  BY <1>7 DEF CreateAccessRequest
<1>8. ASSUME NEW i \in Invites, CreateInvite(i) \/ OfferAndInvite(i) \/ ExpireInvite(i) \/ CancelInvite(i)
      PROVE  Outcome
  BY <1>8 DEF CreateInvite, OfferAndInvite, ExpireInvite, CancelInvite
<1>9. ASSUME NEW u \in Users, NEW i \in Invites, RedeemInviteAgain(u, i) PROVE Outcome
  BY <1>9 DEF RedeemInviteAgain
<1>10. ASSUME NEW u \in Users, ProposeMirror(u) PROVE Outcome
  BY <1>10 DEF ProposeMirror
<1>11. ASSUME NEW u \in Users, NEW allow \in BOOLEAN, DecideMirrorConsent(u, allow) PROVE Outcome
  BY <1>11 DEF DecideMirrorConsent
<1>12. ASSUME NEW u \in Users, NEW i \in Invites, RedeemInvite(u, i) PROVE Outcome
  BY <1>12
<1>13. ASSUME UNCHANGED vars PROVE Outcome
  BY <1>13 DEF vars
<1> HIDE DEF Outcome
<1>14. Outcome
  BY <1>1, <1>2, <1>3, <1>4, <1>5, <1>6, <1>7, <1>8, <1>9, <1>10, <1>11, <1>12, <1>13
  DEF Next, RevokeTool
<1>15. QED BY <1>14 DEF Outcome

\* The rows there were keep their places when an invite is accepted, and only
\* the released ones are revoked.
LEMMA RowsKeptByAccept ==
    ASSUME TypeOK, NEW u \in Users, NEW i \in Invites, RedeemInvite(u, i)
    PROVE  \A n \in DOMAIN tuples :
                /\ n \in DOMAIN tuples'
                /\ tuples'[n] = Revoke(ReleasedRows(i))[n]
                /\ n \notin ReleasedRows(i) => tuples'[n] = tuples[n]
<1> DEFINE kept == Revoke(ReleasedRows(i))
<1>1. /\ kept \in Seq(Row) /\ DOMAIN kept = DOMAIN tuples
      /\ \A n \in DOMAIN tuples : n \notin ReleasedRows(i) => kept[n] = tuples[n]
  BY RevokeTable DEF TypeOK
<1>2. AcceptedRows(u, i, kept) \in Seq(Row)
  BY AcceptedRowsProperties
<1>3. tuples' = kept \o AcceptedRows(u, i, kept)
  BY DEF RedeemInvite
<1> HIDE DEF kept
<1>4. \A n \in DOMAIN tuples : n \in DOMAIN tuples' /\ tuples'[n] = kept[n]
  BY <1>1, <1>2, <1>3, AppendTable
<1>5. QED BY <1>1, <1>4 DEF kept

\* Accepting an invite afresh revokes nothing but what that invite made for
\* the person it is taken from, and no invite that is completed is taken.
THEOREM TakeoverIsContained == Spec => TakeoverUndoesOnlyUnfinishedStart
<1> DEFINE Contained ==
        invite' # invite =>
            \A n \in DOMAIN tuples :
                ~tuples[n].revoked /\ tuples'[n].revoked =>
                    /\ tuples[n].invite # NoInvite
                    /\ ~invite[tuples[n].invite].completed
                    /\ invite'[tuples[n].invite].usedBy # invite[tuples[n].invite].usedBy
<1>1. TypeOK /\ [Next]_vars => [Contained]_vars
  <2> SUFFICES ASSUME TypeOK, [Next]_vars, invite' # invite,
                      NEW n \in DOMAIN tuples, ~tuples[n].revoked, tuples'[n].revoked
               PROVE  /\ tuples[n].invite # NoInvite
                      /\ ~invite[tuples[n].invite].completed
                      /\ invite'[tuples[n].invite].usedBy # invite[tuples[n].invite].usedBy
    OBVIOUS
  <2>1. PICK u \in Users, i \in Invites : RedeemInvite(u, i)
    BY TableSteps
  <2>2. n \in ReleasedRows(i)
    BY <2>1, RowsKeptByAccept
  <2>3. tuples[n].invite = i
    BY <2>2 DEF ReleasedRows
  <2>4. ~invite[i].completed /\ invite[i].usedBy # u
    BY <2>1 DEF RedeemInvite, Usable
  <2>5. invite'[i].usedBy = u
    BY <2>1 DEF RedeemInvite, TypeOK, InviteRow
  <2>6. QED BY <2>3, <2>4, <2>5, TrustAssumption
<1>2. QED BY <1>1, TypeCorrect, PTL DEF Spec, TakeoverUndoesOnlyUnfinishedStart

\* Ending a friendship leaves no active row of the other kinds between the two.
LEMMA NothingStandsAfterRemoval ==
    ASSUME TypeOK, NEW a \in Users, NEW b \in Users, RemoveFriend(a, b),
           NEW n \in DOMAIN tuples'
    PROVE  ~StandsBetween(tuples'[n], a, b) /\ ~StandsBetween(tuples'[n], b, a)
<1> DEFINE ids == RowsBetween(a, b)
<1>1. tuples' = Revoke(ids)
  BY DEF RemoveFriend
<1>2. /\ n \in DOMAIN tuples
      /\ n \notin ids => tuples'[n] = tuples[n]
      /\ n \in ids => tuples'[n].revoked
  BY <1>1, RevokeTable DEF TypeOK
<1>3. CASE n \in ids
  BY <1>2, <1>3 DEF StandsBetween
<1>4. CASE n \notin ids
  BY <1>2, <1>4 DEF StandsBetween, RowsBetween
<1>5. QED BY <1>3, <1>4

\* Whoever ends a friendship ends with it every grant and every membership
\* between the two, either way round.
THEOREM UnfriendingIsComplete == Spec => UnfriendingEndsEverything
<1> DEFINE Complete ==
        \A a, b \in Users :
            AreFriends(a, b) /\ ~AreFriends(a, b)' /\ UNCHANGED invite =>
                \A n \in DOMAIN tuples' : ~StandsBetween(tuples'[n], a, b)
<1>1. TypeOK /\ [Next]_vars => [Complete]_vars
  <2> SUFFICES ASSUME TypeOK, [Next]_vars, NEW a \in Users, NEW b \in Users,
                      AreFriends(a, b), ~AreFriends(a, b)', UNCHANGED invite,
                      NEW n \in DOMAIN tuples'
               PROVE  ~StandsBetween(tuples'[n], a, b)
    BY DEF Complete
  <2>1. PICK m \in DOMAIN tuples : ~tuples[m].revoked /\ IsFriendship(tuples[m], a, b)
    BY DEF AreFriends, FriendsIn
  <2>2. ~(m \in DOMAIN tuples' /\ tuples'[m] = tuples[m])
    BY <2>1 DEF AreFriends, FriendsIn
  <2>3. ~UNCHANGED tuples
    BY <2>2
  <2>4. ASSUME NEW added \in Seq(Row), tuples' = tuples \o added PROVE FALSE
    BY <2>2, <2>4, AppendTable DEF TypeOK
  <2>5. ASSUME NEW k \in DOMAIN tuples, RevokeGrant(k) PROVE FALSE
    <3>1. tuples' = Revoke({k}) /\ IsGrant(tuples[k])
      BY <2>5 DEF RevokeGrant
    <3>2. m # k
      BY <2>1, <3>1 DEF IsFriendship, IsGrant, GrantRelations
    <3>3. QED BY <2>2, <3>1, <3>2, RevokeTable DEF TypeOK
  <2>6. ASSUME NEW u \in Users, NEW i \in Invites, RedeemInvite(u, i) PROVE FALSE
    BY <2>6 DEF RedeemInvite, TypeOK, InviteRow
  <2>7. PICK u \in Users, other \in Users : RemoveFriend(u, other)
    BY <2>3, <2>4, <2>5, <2>6, TableSteps
  <2>8. m \in RowsBetween(u, other)
    <3>1. tuples' = Revoke(RowsBetween(u, other))
      BY <2>7 DEF RemoveFriend
    <3>2. QED BY <2>2, <3>1, RevokeTable DEF TypeOK
  <2>9. <<a, b>> \in {<<u, other>>, <<other, u>>}
    BY <2>1, <2>8 DEF RowsBetween, IsFriendship, IsGrant, GrantRelations
  <2>10. QED BY <2>7, <2>9, NothingStandsAfterRemoval
<1>2. QED BY <1>1, TypeCorrect, PTL DEF Spec, UnfriendingEndsEverything

----------------------------------------------------------------------------
(* What people are told about their space *)

\* Whoever holds an invite was given its grant: rows are never deleted, so
\* the row is there even after the grant has been revoked.
StartsLeaveARow ==
    \A i \in Invites : invite[i].usedBy # NoOne =>
        \E n \in DOMAIN tuples :
            /\ tuples[n].invite = i
            /\ tuples[n].subject = invite[i].usedBy
            /\ tuples[n].relation = RelationOf[OfferingOf[i]]
            /\ tuples[n].object = HostOf[OfferingOf[i]]
            /\ tuples[n].owner = OwnerOf[OfferingOf[i]]

SpaceInv == TypeOK /\ StartsLeaveARow /\ ToldTrue /\ NoSpaceTwice

AtMostOneGrant(rows) ==
    \A j, k \in DOMAIN rows : IsGrant(rows[j]) /\ IsGrant(rows[k]) => j = k

NoGrant(rows) == \A k \in DOMAIN rows : ~IsGrant(rows[k])

\* A row of s \o t is a row of s in its place, or one of t moved by Len(s).
LEMMA ConcatIndices ==
    ASSUME NEW s \in Seq(Row), NEW t \in Seq(Row)
    PROVE  /\ s \o t \in Seq(Row)
           /\ Len(s) \in Nat /\ DOMAIN s = 1 .. Len(s)
           /\ Len(t) \in Nat /\ DOMAIN t = 1 .. Len(t)
           /\ DOMAIN (s \o t) = 1 .. Len(s) + Len(t)
           /\ \A n \in DOMAIN (s \o t) :
                \/ n \in DOMAIN s /\ (s \o t)[n] = s[n]
                \/ n - Len(s) \in DOMAIN t /\ (s \o t)[n] = t[n - Len(s)]
<1>1. /\ s \o t \in Seq(Row) /\ Len(s \o t) = Len(s) + Len(t)
      /\ Len(s) \in Nat /\ Len(t) \in Nat
      /\ DOMAIN s = 1 .. Len(s) /\ DOMAIN t = 1 .. Len(t)
      /\ DOMAIN (s \o t) = 1 .. Len(s) + Len(t)
  BY ConcatProperties, LenProperties
<1>2. ASSUME NEW n \in 1 .. Len(s) + Len(t)
      PROVE  \/ n \in DOMAIN s /\ (s \o t)[n] = s[n]
             \/ n - Len(s) \in DOMAIN t /\ (s \o t)[n] = t[n - Len(s)]
  <2>1. (s \o t)[n] = IF n <= Len(s) THEN s[n] ELSE t[n - Len(s)]
    BY ConcatProperties
  <2>2. QED BY <1>1, <2>1
<1>3. QED BY <1>1, <1>2

LEMMA GrantsOfConcat ==
    ASSUME NEW s \in Seq(Row), NEW t \in Seq(Row),
           AtMostOneGrant(s), AtMostOneGrant(t), NoGrant(s) \/ NoGrant(t)
    PROVE  AtMostOneGrant(s \o t)
<1> SUFFICES ASSUME NEW j \in DOMAIN (s \o t), NEW k \in DOMAIN (s \o t),
                    IsGrant((s \o t)[j]), IsGrant((s \o t)[k])
             PROVE  j = k
  BY DEF AtMostOneGrant
<1>1. /\ Len(s) \in Nat /\ DOMAIN (s \o t) \subseteq Nat
      /\ \A n \in DOMAIN (s \o t) :
            \/ n \in DOMAIN s /\ (s \o t)[n] = s[n]
            \/ n - Len(s) \in DOMAIN t /\ (s \o t)[n] = t[n - Len(s)]
  BY ConcatIndices
<1>2. CASE NoGrant(s)
  <2>1. j - Len(s) = k - Len(s)
    BY <1>1, <1>2 DEF NoGrant, AtMostOneGrant
  <2>2. QED BY <1>1, <2>1
<1>3. CASE NoGrant(t)
  BY <1>1, <1>3 DEF NoGrant, AtMostOneGrant
<1>4. QED BY <1>2, <1>3

\* Accepting an invite adds its grant, and no second one.
LEMMA AcceptedGrant ==
    ASSUME NEW u \in Users, NEW i \in Invites, NEW table
    PROVE  LET added == AcceptedRows(u, i, table) IN
           /\ added \in Seq(Row)
           /\ GrantRow(u, OfferingOf[i], i) \in RowsOf(added)
           /\ AtMostOneGrant(added)
<1> DEFINE w == OwnerOf[OfferingOf[i]]
           fr == FriendRow(u, w, i)
           rf == FriendRow(w, u, i)
           g == GrantRow(u, OfferingOf[i], i)
           mr == MemberRow(u, w, i)
           pair == IF FriendsIn(table, u, w) THEN <<>> ELSE <<fr, rf>>
           welcome == IF i \in GroupInvites /\ ~MemberIn(table, u, w) THEN <<mr>> ELSE <<>>
<1>1. AcceptedRows(u, i, table) = (pair \o <<g>>) \o welcome
  BY DEF AcceptedRows
<1>2. OfferingOf[i] \in Offerings /\ w \in Users /\ i \in Tags
  BY TrustAssumption DEF Tags
<1>3. fr \in Row /\ rf \in Row /\ g \in Row /\ mr \in Row
  BY <1>2, FriendRowType, GrantRowType, MemberRowType
<1>4. ~IsGrant(fr) /\ ~IsGrant(rf) /\ ~IsGrant(mr)
  BY DEF FriendRow, MemberRow, IsGrant, GrantRelations
<1> HIDE DEF w, fr, rf, g, mr
<1>5. pair \in Seq(Row) /\ NoGrant(pair)
  BY <1>3, <1>4 DEF NoGrant
<1>6. welcome \in Seq(Row) /\ NoGrant(welcome)
  BY <1>3, <1>4 DEF NoGrant
<1>7. <<g>> \in Seq(Row) /\ AtMostOneGrant(<<g>>) /\ RowsOf(<<g>>) = {g}
  <2>1. <<g>> \in Seq(Row) /\ RowsOf(<<g>>) = {g}
    BY <1>3, RowsOfFew
  <2>2. \A j, k \in DOMAIN <<g>> : j = k
    OBVIOUS
  <2>3. QED BY <2>1, <2>2 DEF AtMostOneGrant
<1> HIDE DEF pair, welcome
<1>8. ASSUME NEW s, NoGrant(s) PROVE AtMostOneGrant(s)
  BY <1>8 DEF NoGrant, AtMostOneGrant
<1>9. /\ pair \o <<g>> \in Seq(Row)
      /\ AtMostOneGrant(pair \o <<g>>)
      /\ g \in RowsOf(pair \o <<g>>)
  <2>1. AtMostOneGrant(pair)
    BY <1>5, <1>8
  <2>2. AtMostOneGrant(pair \o <<g>>)
    BY <1>5, <1>7, <2>1, GrantsOfConcat
  <2>3. QED BY <1>5, <1>7, <2>2, RowsOfConcat
<1>10. /\ (pair \o <<g>>) \o welcome \in Seq(Row)
       /\ AtMostOneGrant((pair \o <<g>>) \o welcome)
       /\ g \in RowsOf((pair \o <<g>>) \o welcome)
  <2>1. AtMostOneGrant(welcome)
    BY <1>6, <1>8
  <2>2. AtMostOneGrant((pair \o <<g>>) \o welcome)
    BY <1>6, <1>9, <2>1, GrantsOfConcat
  <2>3. QED BY <1>6, <1>9, <2>2, RowsOfConcat
<1>11. QED BY <1>1, <1>10 DEF g

\* Revoking rows does not make two of anything.
LEMMA RevokeKeepsNoSpaceTwice ==
    ASSUME TypeOK, NoSpaceTwice, NEW ids, NEW m \in DOMAIN Revoke(ids), NEW n \in DOMAIN Revoke(ids),
           m < n, ~Revoke(ids)[m].revoked, ~Revoke(ids)[n].revoked,
           IsGrant(Revoke(ids)[m]), Same(Revoke(ids)[m], Revoke(ids)[n])
    PROVE  Revoke(ids)[n].invite = NoInvite
<1>1. m \in DOMAIN tuples /\ n \in DOMAIN tuples
  BY RevokeTable DEF TypeOK
<1>2. Revoke(ids)[m] = tuples[m] /\ Revoke(ids)[n] = tuples[n]
  BY <1>1, RevokeTable DEF TypeOK
<1>3. QED BY <1>1, <1>2 DEF NoSpaceTwice

\* A table that grows keeps NoSpaceTwice when what is added has no grant of an
\* invite that the table, or another added row, has already.
LEMMA GrownKeepsNoSpaceTwice ==
    ASSUME NEW table \in Seq(Row), NEW added \in Seq(Row), tuples' = table \o added,
           \A m, n \in DOMAIN table :
             /\ m < n /\ ~table[m].revoked /\ ~table[n].revoked
             /\ IsGrant(table[m]) /\ Same(table[m], table[n])
             => table[n].invite = NoInvite,
           \A k \in DOMAIN added :
             \/ added[k].invite = NoInvite
             \/ ~IsGrant(added[k])
             \/ /\ \A j \in DOMAIN added : IsGrant(added[j]) => j = k
                /\ \A m \in DOMAIN table : ~table[m].revoked => ~Same(table[m], added[k])
    PROVE  NoSpaceTwice'
<1>1. /\ Len(table) \in Nat /\ DOMAIN table = 1 .. Len(table)
      /\ DOMAIN tuples' \subseteq Nat
      /\ \A n \in DOMAIN tuples' :
            \/ n \in DOMAIN table /\ tuples'[n] = table[n]
            \/ n - Len(table) \in DOMAIN added /\ tuples'[n] = added[n - Len(table)]
  BY ConcatIndices
<1>2. DOMAIN added \subseteq Nat \ {0}
  BY ConcatIndices
<1> SUFFICES ASSUME NEW m \in DOMAIN tuples', NEW n \in DOMAIN tuples', m < n,
                    ~tuples'[m].revoked, ~tuples'[n].revoked,
                    IsGrant(tuples'[m]), Same(tuples'[m], tuples'[n])
             PROVE  tuples'[n].invite = NoInvite
  BY DEF NoSpaceTwice
<1>3. CASE n \in DOMAIN table /\ tuples'[n] = table[n]
  <2>1. m \in DOMAIN table /\ tuples'[m] = table[m]
    BY <1>1, <1>2, <1>3
  <2>2. QED BY <1>3, <2>1
<1>4. CASE n - Len(table) \in DOMAIN added /\ tuples'[n] = added[n - Len(table)]
  <2> DEFINE k == n - Len(table)
  <2>1. IsGrant(added[k])
    BY <1>4 DEF Same, IsGrant
  <2>2. CASE m \in DOMAIN table /\ tuples'[m] = table[m]
    BY <1>4, <2>1, <2>2
  <2>3. CASE m - Len(table) \in DOMAIN added /\ tuples'[m] = added[m - Len(table)]
    <3>1. m - Len(table) # k
      BY <1>1
    <3>2. QED BY <1>4, <2>1, <2>3, <3>1
  <2>4. QED BY <1>1, <2>2, <2>3
<1>5. QED BY <1>1, <1>3, <1>4

LEMMA NextNoSpaceTwice == TypeOK /\ NoSpaceTwice /\ [Next]_vars => NoSpaceTwice'
<1> SUFFICES ASSUME TypeOK, NoSpaceTwice, [Next]_vars PROVE NoSpaceTwice'
  OBVIOUS
<1>1. CASE UNCHANGED tuples
  BY <1>1 DEF NoSpaceTwice
<1>2. ASSUME NEW added \in Seq(Row), tuples' = tuples \o added,
             \A k \in DOMAIN added : added[k].invite = NoInvite
      PROVE  NoSpaceTwice'
  BY <1>2, GrownKeepsNoSpaceTwice DEF TypeOK, NoSpaceTwice
<1>3. ASSUME NEW ids, tuples' = Revoke(ids) PROVE NoSpaceTwice'
  BY <1>3, RevokeKeepsNoSpaceTwice DEF NoSpaceTwice
<1>4. ASSUME NEW u \in Users, NEW i \in Invites, RedeemInvite(u, i) PROVE NoSpaceTwice'
  <2> DEFINE kept == Revoke(ReleasedRows(i))
             o == OfferingOf[i]
             g == GrantRow(u, o, i)
             added == AcceptedRows(u, i, kept)
  <2>1. kept \in Seq(Row) /\ tuples' = kept \o added /\ ~GrantIn(kept, u, o)
    BY <1>4, RevokeTable DEF RedeemInvite, TypeOK
  <2>2. added \in Seq(Row) /\ AtMostOneGrant(added)
    BY AcceptedGrant
  <2>3. \A k \in DOMAIN added : IsGrant(added[k]) => added[k] = g
    <3>1. RowsOf(added) \subseteq {FriendRow(u, OwnerOf[o], i), FriendRow(OwnerOf[o], u, i),
                                   g, MemberRow(u, OwnerOf[o], i)}
      BY AcceptedRowsProperties
    <3>2. /\ ~IsGrant(FriendRow(u, OwnerOf[o], i)) /\ ~IsGrant(FriendRow(OwnerOf[o], u, i))
          /\ ~IsGrant(MemberRow(u, OwnerOf[o], i))
      BY DEF FriendRow, MemberRow, IsGrant, GrantRelations
    <3> HIDE DEF added, g
    <3>3. QED BY <3>1, <3>2 DEF RowsOf
  <2>4. \A m \in DOMAIN kept : ~kept[m].revoked => ~Same(kept[m], g)
    BY <2>1 DEF GrantIn, Same, GrantRow
  <2>5. \A m, n \in DOMAIN kept :
          /\ m < n /\ ~kept[m].revoked /\ ~kept[n].revoked
          /\ IsGrant(kept[m]) /\ Same(kept[m], kept[n])
          => kept[n].invite = NoInvite
    BY RevokeKeepsNoSpaceTwice
  <2>6. \A k \in DOMAIN added :
          \/ ~IsGrant(added[k])
          \/ /\ \A j \in DOMAIN added : IsGrant(added[j]) => j = k
             /\ \A m \in DOMAIN kept : ~kept[m].revoked => ~Same(kept[m], added[k])
    BY <2>2, <2>3, <2>4 DEF AtMostOneGrant
  <2> HIDE DEF kept, added
  <2>7. QED BY <2>1, <2>2, <2>5, <2>6, GrownKeepsNoSpaceTwice
<1>5. ASSUME NEW a \in Users, NEW b \in Users, RemoveFriend(a, b) PROVE NoSpaceTwice'
  BY <1>3, <1>5 DEF RemoveFriend
<1>6. ASSUME NEW n \in DOMAIN tuples, RevokeGrant(n) PROVE NoSpaceTwice'
  BY <1>3, <1>6 DEF RevokeGrant
<1>7. QED BY <1>1, <1>2, <1>4, <1>5, <1>6, TableSteps

\* No step takes a row of the table away or changes who it is about.
LEMMA RowsAreForever ==
    ASSUME TypeOK, [Next]_vars, NEW n \in DOMAIN tuples
    PROVE  /\ n \in DOMAIN tuples'
           /\ tuples'[n].invite = tuples[n].invite
           /\ tuples'[n].subject = tuples[n].subject
           /\ tuples'[n].relation = tuples[n].relation
           /\ tuples'[n].object = tuples[n].object
           /\ tuples'[n].owner = tuples[n].owner
<1> DEFINE Kept == /\ n \in DOMAIN tuples'
                   /\ tuples'[n].invite = tuples[n].invite
                   /\ tuples'[n].subject = tuples[n].subject
                   /\ tuples'[n].relation = tuples[n].relation
                   /\ tuples'[n].object = tuples[n].object
                   /\ tuples'[n].owner = tuples[n].owner
<1>1. ASSUME UNCHANGED tuples PROVE Kept
  BY <1>1
<1>2. ASSUME NEW added \in Seq(Row), tuples' = tuples \o added PROVE Kept
  BY <1>2, AppendTable DEF TypeOK
<1>3. ASSUME NEW ids, tuples' = Revoke(ids) PROVE Kept
  BY <1>3, RevokeTable DEF TypeOK
<1>4. ASSUME NEW u \in Users, NEW i \in Invites, RedeemInvite(u, i) PROVE Kept
  BY <1>4, RowsKeptByAccept, RevokeTable DEF TypeOK
<1>5. ASSUME NEW a \in Users, NEW b \in Users, RemoveFriend(a, b) PROVE Kept
  BY <1>3, <1>5 DEF RemoveFriend
<1>6. ASSUME NEW k \in DOMAIN tuples, RevokeGrant(k) PROVE Kept
  BY <1>3, <1>6 DEF RevokeGrant
<1> HIDE DEF Kept
<1>7. Kept
  BY <1>1, <1>2, <1>4, <1>5, <1>6, TableSteps
<1>8. QED BY <1>7 DEF Kept

\* Who holds an invite changes only when it is accepted afresh.
LEMMA HolderSteps ==
    ASSUME TypeOK, [Next]_vars, NEW i \in Invites,
           \A u \in Users : ~RedeemInvite(u, i)
    PROVE  invite'[i].usedBy = invite[i].usedBy
<1> DEFINE HeldAsBefore == invite'[i].usedBy = invite[i].usedBy
<1>1. invite \in [Invites -> InviteRow]
  BY DEF TypeOK
<1>2. ASSUME UNCHANGED invite PROVE HeldAsBefore
  BY <1>2
<1>3. ASSUME NEW j \in Invites, CreateInvite(j) \/ OfferAndInvite(j) \/ ExpireInvite(j) \/ CancelInvite(j)
      PROVE  HeldAsBefore
  <2>1. CASE CreateInvite(j)
    BY <1>1, <2>1 DEF CreateInvite, InviteRow
  <2>2. CASE OfferAndInvite(j)
    BY <1>1, <2>2 DEF OfferAndInvite, InviteRow
  <2>3. CASE ExpireInvite(j)
    BY <1>1, <2>3 DEF ExpireInvite, InviteRow
  <2>4. CASE CancelInvite(j)
    BY <1>1, <2>4 DEF CancelInvite, InviteRow
  <2>5. QED BY <1>3, <2>1, <2>2, <2>3, <2>4
<1>4. ASSUME NEW u \in Users, NEW j \in Invites, RedeemInvite(u, j) PROVE HeldAsBefore
  <2>1. j # i
    BY <1>4
  <2>2. QED BY <1>1, <1>4, <2>1 DEF RedeemInvite
<1>5. ASSUME NEW u \in Users, NEW allow \in BOOLEAN, DecideMirrorConsent(u, allow) PROVE HeldAsBefore
  BY <1>1, <1>5 DEF DecideMirrorConsent, InviteRow
<1>6. ASSUME NEW a \in Users, NEW b \in Users, CreateFriendRequest(a, b) PROVE UNCHANGED invite
  BY <1>6 DEF CreateFriendRequest
<1>7. ASSUME NEW a \in Users, NEW b \in Users, NEW accept \in BOOLEAN, DecideFriendRequest(a, b, accept)
      PROVE  UNCHANGED invite
  BY <1>7 DEF DecideFriendRequest
<1>8. ASSUME NEW o \in Offerings, PublishOffering(o) \/ WithdrawOffering(o) PROVE UNCHANGED invite
  BY <1>8 DEF PublishOffering, WithdrawOffering
<1>9. ASSUME NEW u \in Users, NEW o \in Offerings, CreateAccessRequest(u, o) PROVE UNCHANGED invite
  BY <1>9 DEF CreateAccessRequest
<1>10. ASSUME NEW u \in Users, NEW o \in Offerings, NEW grant \in BOOLEAN, DecideAccessRequest(u, o, grant)
       PROVE  UNCHANGED invite
  BY <1>10 DEF DecideAccessRequest
<1>11. ASSUME NEW a \in Users, NEW b \in Users, RemoveFriend(a, b) PROVE UNCHANGED invite
  BY <1>11 DEF RemoveFriend
<1>12. ASSUME NEW n \in 1 .. MaxTuples, RevokeGrant(n) PROVE UNCHANGED invite
  BY <1>12 DEF RevokeGrant
<1>13. ASSUME NEW u \in Users, NEW j \in Invites, RedeemInviteAgain(u, j) PROVE UNCHANGED invite
  BY <1>13 DEF RedeemInviteAgain
<1>14. ASSUME NEW u \in Users, ProposeMirror(u) PROVE UNCHANGED invite
  BY <1>14 DEF ProposeMirror
<1>15. ASSUME UNCHANGED vars PROVE UNCHANGED invite
  BY <1>15 DEF vars
<1> HIDE DEF HeldAsBefore
<1>16. HeldAsBefore
  BY <1>2, <1>3, <1>4, <1>5, <1>6, <1>7, <1>8, <1>9, <1>10, <1>11, <1>12, <1>13, <1>14, <1>15
  DEF Next, RevokeTool
<1>17. QED BY <1>16 DEF HeldAsBefore

\* An acceptance puts its grant in the table, active.
LEMMA AcceptGrants ==
    ASSUME TypeOK, NEW u \in Users, NEW i \in Invites, RedeemInvite(u, i)
    PROVE  \E n \in DOMAIN tuples' : tuples'[n] = GrantRow(u, OfferingOf[i], i)
<1>1. GrantRow(u, OfferingOf[i], i) \in RowsOf(AcceptedRows(u, i, Revoke(ReleasedRows(i))))
  BY AcceptedGrant
<1>2. GrantRow(u, OfferingOf[i], i) \in RowsOf(tuples')
  BY <1>1, TableAfterAccept
<1>3. QED BY <1>2 DEF RowsOf

LEMMA NextStartsLeaveARow == TypeOK /\ StartsLeaveARow /\ [Next]_vars => StartsLeaveARow'
<1> SUFFICES ASSUME TypeOK, StartsLeaveARow, [Next]_vars,
                    NEW i \in Invites, invite'[i].usedBy # NoOne
             PROVE  \E n \in DOMAIN tuples' :
                        /\ tuples'[n].invite = i
                        /\ tuples'[n].subject = invite'[i].usedBy
                        /\ tuples'[n].relation = RelationOf[OfferingOf[i]]
                        /\ tuples'[n].object = HostOf[OfferingOf[i]]
                        /\ tuples'[n].owner = OwnerOf[OfferingOf[i]]
  BY DEF StartsLeaveARow
<1>1. ASSUME NEW u \in Users, RedeemInvite(u, i)
      PROVE  \E n \in DOMAIN tuples' :
                /\ tuples'[n].invite = i
                /\ tuples'[n].subject = invite'[i].usedBy
                /\ tuples'[n].relation = RelationOf[OfferingOf[i]]
                /\ tuples'[n].object = HostOf[OfferingOf[i]]
                /\ tuples'[n].owner = OwnerOf[OfferingOf[i]]
  <2>1. invite'[i].usedBy = u
    BY <1>1 DEF RedeemInvite, TypeOK, InviteRow
  <2>2. PICK n \in DOMAIN tuples' : tuples'[n] = GrantRow(u, OfferingOf[i], i)
    BY <1>1, AcceptGrants
  <2>3. QED BY <2>1, <2>2 DEF GrantRow
<1>2. CASE \A u \in Users : ~RedeemInvite(u, i)
  <2>1. invite'[i].usedBy = invite[i].usedBy
    BY <1>2, HolderSteps
  <2>2. PICK n \in DOMAIN tuples :
            /\ tuples[n].invite = i
            /\ tuples[n].subject = invite[i].usedBy
            /\ tuples[n].relation = RelationOf[OfferingOf[i]]
            /\ tuples[n].object = HostOf[OfferingOf[i]]
            /\ tuples[n].owner = OwnerOf[OfferingOf[i]]
    BY <2>1 DEF StartsLeaveARow
  <2>3. QED BY <2>1, <2>2, RowsAreForever
<1>3. QED BY <1>1, <1>2

LEMMA NextToldTrue == TypeOK /\ StartsLeaveARow /\ ToldTrue /\ [Next]_vars => ToldTrue'
<1> SUFFICES ASSUME TypeOK, StartsLeaveARow, ToldTrue, [Next]_vars PROVE ToldTrue'
  OBVIOUS
<1>1. ASSUME told' = {} PROVE ToldTrue'
  BY <1>1 DEF ToldTrue
<1>2. ASSUME NEW u \in Users, NEW o \in Offerings, NEW grant \in BOOLEAN, DecideAccessRequest(u, o, grant)
      PROVE  ToldTrue'
  <2> DEFINE claim == [what |-> "granted", user |-> u, offering |-> o]
  <2>1. CASE ~grant
    BY <1>1, <1>2, <2>1 DEF DecideAccessRequest
  <2>2. CASE grant /\ AreFriends(u, OwnerOf[o])
    <3>1. GrantRow(u, o, NoInvite) \in RowsOf(tuples') /\ told' = {claim}
      BY <1>2, <2>2, TableAfterGrant DEF DecideAccessRequest
    <3>2. GrantIn(tuples', u, o)
      BY <3>1 DEF RowsOf, GrantRow, GrantIn
    <3>3. QED BY <3>1, <3>2 DEF ToldTrue
  <2>3. CASE grant /\ ~AreFriends(u, OwnerOf[o])
    <3>1. UNCHANGED tuples /\ told' = {claim}
      BY <1>2, <2>3 DEF DecideAccessRequest
    <3>2. ~AreFriends(u, OwnerOf[o])'
      BY <2>3, <3>1 DEF AreFriends, FriendsIn
    <3>3. QED BY <3>1, <3>2 DEF ToldTrue
  <2>4. QED BY <2>1, <2>2, <2>3
<1>3. ASSUME NEW u \in Users, NEW i \in Invites, RedeemInvite(u, i) PROVE ToldTrue'
  <2> DEFINE claim == [what |-> "redeemed", user |-> u, offering |-> OfferingOf[i]]
  <2>1. told' = {claim}
    BY <1>3 DEF RedeemInvite
  <2>2. GrantIn(tuples', u, OfferingOf[i])
    BY <1>3, AcceptGrants DEF GrantRow, GrantIn
  <2>3. QED BY <2>1, <2>2 DEF ToldTrue
<1>4. ASSUME NEW u \in Users, NEW i \in Invites, RedeemInviteAgain(u, i) PROVE ToldTrue'
  <2> DEFINE claim == [what |-> "redeemed", user |-> u, offering |-> OfferingOf[i]]
  <2>1. told' = {claim} /\ UNCHANGED tuples /\ invite[i].usedBy = u
    BY <1>4 DEF RedeemInviteAgain
  <2>2. PICK n \in DOMAIN tuples :
            /\ tuples[n].invite = i
            /\ tuples[n].subject = u
            /\ tuples[n].relation = RelationOf[OfferingOf[i]]
            /\ tuples[n].object = HostOf[OfferingOf[i]]
            /\ tuples[n].owner = OwnerOf[OfferingOf[i]]
    BY <2>1, TrustAssumption DEF StartsLeaveARow
  <2>3. CASE ~tuples[n].revoked
    <3>1. GrantIn(tuples', u, OfferingOf[i])
      BY <2>1, <2>2, <2>3 DEF GrantIn
    <3>2. QED BY <2>1, <3>1 DEF ToldTrue
  <2>4. CASE tuples[n].revoked
    <3>1. IsGrant(tuples[n]) /\ i # NoInvite
      BY <2>2, TrustAssumption DEF IsGrant
    <3>2. QED BY <2>1, <2>2, <2>4, <3>1 DEF ToldTrue
  <2>5. QED BY <2>3, <2>4
<1>5. ASSUME UNCHANGED vars PROVE ToldTrue'
  BY <1>5 DEF vars, ToldTrue, AreFriends
<1>6. ASSUME NEW a \in Users, NEW b \in Users, CreateFriendRequest(a, b) PROVE told' = {}
  BY <1>6 DEF CreateFriendRequest
<1>7. ASSUME NEW a \in Users, NEW b \in Users, NEW accept \in BOOLEAN, DecideFriendRequest(a, b, accept)
      PROVE  told' = {}
  BY <1>7 DEF DecideFriendRequest
<1>8. ASSUME NEW o \in Offerings, PublishOffering(o) \/ WithdrawOffering(o) PROVE told' = {}
  BY <1>8 DEF PublishOffering, WithdrawOffering
<1>9. ASSUME NEW u \in Users, NEW o \in Offerings, CreateAccessRequest(u, o) PROVE told' = {}
  BY <1>9 DEF CreateAccessRequest
<1>10. ASSUME NEW i \in Invites, CreateInvite(i) \/ OfferAndInvite(i) \/ ExpireInvite(i) \/ CancelInvite(i)
       PROVE  told' = {}
  BY <1>10 DEF CreateInvite, OfferAndInvite, ExpireInvite, CancelInvite
<1>11. ASSUME NEW a \in Users, NEW b \in Users, RemoveFriend(a, b) PROVE told' = {}
  BY <1>11 DEF RemoveFriend
<1>12. ASSUME NEW n \in 1 .. MaxTuples, RevokeGrant(n) PROVE told' = {}
  BY <1>12 DEF RevokeGrant
<1>13. ASSUME NEW u \in Users, ProposeMirror(u) PROVE told' = {}
  BY <1>13 DEF ProposeMirror
<1>14. ASSUME NEW u \in Users, NEW allow \in BOOLEAN, DecideMirrorConsent(u, allow) PROVE told' = {}
  BY <1>14 DEF DecideMirrorConsent
<1>15. QED
  BY <1>1, <1>2, <1>3, <1>4, <1>5, <1>6, <1>7, <1>8, <1>9, <1>10, <1>11, <1>12, <1>13, <1>14
  DEF Next, RevokeTool

LEMMA SpaceInvariant == Spec => []SpaceInv
<1>1. Init => SpaceInv
  BY InitType DEF Init, SpaceInv, StartsLeaveARow, ToldTrue, NoSpaceTwice
<1>2. SpaceInv /\ [Next]_vars => SpaceInv'
  BY NextType, NextStartsLeaveARow, NextToldTrue, NextNoSpaceTwice DEF SpaceInv
<1>3. QED BY <1>1, <1>2, PTL DEF Spec

\* Whoever is told that they have the space has it, or one of the two
\* exceptions holds; and no acceptance of an invite gives the same space twice.
THEOREM SpaceIsAsTold == Spec => []SpaceAsTold
<1>1. SpaceInv => SpaceAsTold
  BY DEF SpaceInv, SpaceAsTold
<1>2. QED BY <1>1, SpaceInvariant, PTL
=============================================================================
