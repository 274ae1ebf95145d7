--------------------------- MODULE PairingProofs ---------------------------
(***************************************************************************)
(* What of Pairing holds for any accounts, any number of pairings and of   *)
(* requests and goroutines under way.                                      *)
(*                                                                         *)
(* The invariant that carries it: wherever a credential is kept or on its  *)
(* way under an account's name, the service gave it to that account; and a *)
(* report that was refused, like a sign-out under way, names a credential  *)
(* whose pairing has ended, for ever, because credentials are never reused.*)
(***************************************************************************)
EXTENDS Pairing, SequenceTheorems, TLAPS

Given(c, u) == c \in DOMAIN owner /\ owner[c] = u
Ended(c, u) == Given(c, u) /\ pairing[u] # c

AllGiven(held) == \A u \in Users : held[u] # 0 => Given(held[u], u)

\* The same after a step, of what a step may not prime twice.
GivenAfter(c, u) == c \in DOMAIN owner' /\ owner'[c] = u
EndedAfter(c, u) == GivenAfter(c, u) /\ pairing'[u] # c
AllGivenAfter(held) == \A u \in Users : held[u] # 0 => GivenAfter(held[u], u)

\* The name the daemon keeps a credential under is the account of its token.
CodeAgrees == code.at = "approved" => code.user \in Users /\ code.name = code.user
ExchangesAgree ==
    \A x \in exchanges : x.name = x.user /\ (x.cred # 0 => Given(x.cred, x.user))

KeptGiven == AllGiven(pairing) /\ AllGiven(ident) /\ AllGiven(disk) /\ AllGiven(resuming)
SnapshotsGiven ==
    /\ \A a \in adding : AllGiven(a.snapshot)
    /\ \A l \in leaving : AllGiven(l.snapshot) /\ Given(l.cred, l.user)
    /\ \A rest \in dropping : AllGiven(rest)

ReportsGiven ==
    \A r \in reports : Given(r.cred, r.user) /\ (r.at = "refused" => Ended(r.cred, r.user))
SignoutsEnded == \A s \in signouts : Ended(s.cred, s.user)

Inv ==
    /\ TypeOK
    /\ CodeAgrees /\ ExchangesAgree
    /\ KeptGiven /\ SnapshotsGiven
    /\ ReportsGiven /\ SignoutsEnded

----------------------------------------------------------------------------
(* Types *)

LEMMA OwnerFits ==
    ASSUME TypeOK
    PROVE  /\ Len(owner) \in Nat /\ DOMAIN owner = 1 .. Len(owner)
           /\ DOMAIN owner \subseteq Creds /\ 0 \notin Creds
           /\ \A c \in DOMAIN owner : owner[c] \in Users
<1>1. MaxCreds \in Nat /\ Creds = 1 .. MaxCreds
  BY PairingAssumption DEF Creds
<1>2. owner \in Seq(Users) /\ Len(owner) <= MaxCreds
  BY DEF TypeOK
<1> QED BY <1>1, <1>2

\* A pairing numbers its credential on, and gives it to the account alone.
LEMMA PairedGrows ==
    ASSUME TypeOK, NEW u \in Users, Paired(u)
    PROVE  /\ owner' \in Seq(Users) /\ Len(owner') = Len(owner) + 1 /\ Len(owner') <= MaxCreds
           /\ \A c \in DOMAIN owner : c \in DOMAIN owner' /\ owner'[c] = owner[c]
           /\ Len(owner') \in DOMAIN owner' /\ owner'[Len(owner')] = u
           /\ Len(owner') \notin DOMAIN owner
           /\ Len(owner') \in Creds
           /\ pairing' = [pairing EXCEPT ![u] = Len(owner')]
<1>1. owner \in Seq(Users) /\ Len(owner) < MaxCreds /\ owner' = Append(owner, u)
  BY DEF TypeOK, Paired
<1>2. MaxCreds \in Nat /\ Creds = 1 .. MaxCreds
  BY PairingAssumption DEF Creds
<1>3. /\ owner' \in Seq(Users) /\ Len(owner') = Len(owner) + 1
      /\ \A c \in 1 .. Len(owner) : owner'[c] = owner[c]
      /\ owner'[Len(owner) + 1] = u
  BY <1>1, AppendProperties
<1> QED BY <1>1, <1>2, <1>3 DEF Paired

LEMMA InitTyped == Init => TypeOK
<1> SUFFICES ASSUME Init PROVE TypeOK
  OBVIOUS
<1>1. owner \in Seq(Users) /\ Len(owner) <= MaxCreds
  BY PairingAssumption DEF Init
<1>2. NoneHeld \in Held /\ 0 \in 0 .. MaxStops
  BY PairingAssumption DEF NoneHeld, Held
<1>3. code \in [at : {"none", "open", "approved"}, user : Users \union {Nobody}, name : Users \union {Nobody}]
  BY DEF Init, OpenCode, NoCode
<1> QED BY <1>1, <1>2, <1>3 DEF Init, TypeOK

LEMMA AddIdentityTyped ==
    ASSUME TypeOK, NEW u \in Users, NEW c \in Creds, NEW from \in {"pair", "resume"},
           AddIdentity(u, c, from)
    PROVE  /\ code' = NoCode /\ ident' \in Held /\ adding' \subseteq Add
           /\ NoCode \in [at : {"none", "open", "approved"}, user : Users \union {Nobody}, name : Users \union {Nobody}]
<1>1. ident' = [ident EXCEPT ![u] = c] /\ ident' \in Held
  BY DEF AddIdentity, TypeOK, Held
<1>2. [user |-> u, cred |-> c, old |-> ident[u], snapshot |-> ident', from |-> from, at |-> "saving"] \in Add
  BY <1>1 DEF TypeOK, Held, Add
<1> QED BY <1>1, <1>2 DEF AddIdentity, TypeOK, NoCode

LEMMA LeaveIdentityTyped ==
    ASSUME TypeOK, NEW u \in Users, NEW c \in Creds, LeaveIdentity(u, c)
    PROVE  ident' \in Held /\ leaving' \subseteq Leave
<1>1. ident' \in Held
  BY DEF LeaveIdentity, TypeOK, Held
<1>2. [user |-> u, cred |-> c, snapshot |-> ident', at |-> "saving"] \in Leave
  BY <1>1 DEF Leave
<1> QED BY <1>1, <1>2 DEF LeaveIdentity, TypeOK

LEMMA AnnounceTyped ==
    ASSUME TypeOK, NEW kind \in {"up", "down"}, NEW held \in Held, Announce(kind, held)
    PROVE  reports' \subseteq Report
<1>1. PICK S \in SUBSET {u \in Users : held[u] # 0} :
        reports' = reports \union {[user |-> u, cred |-> held[u], kind |-> kind, at |-> "sent"] : u \in S}
  BY DEF Announce
<1>2. \A u \in S : held[u] \in Creds
  BY DEF Held
<1>3. \A u \in S : [user |-> u, cred |-> held[u], kind |-> kind, at |-> "sent"] \in Report
  BY <1>2 DEF Report
<1> QED BY <1>1, <1>3 DEF TypeOK

LEMMA CodeTyped ==
    ASSUME TypeOK, CodeAgrees,
           \/ \E u \in Users : Approve(u) \/ OpenLink(u)
           \/ Expire \/ CollectToken \/ ServiceRestart
           \/ \E x \in exchanges : LoseExchange(x)
    PROVE  TypeOK'
<1> USE DEF TypeOK, serviceVars, daemonVars
<1>1. ASSUME NEW u \in Users, Approve(u) PROVE TypeOK'
  BY <1>1 DEF Approve
<1>2. ASSUME NEW u \in Users, OpenLink(u) PROVE TypeOK'
  <2>1. exchanges' \subseteq Exchange
    BY <1>2 DEF OpenLink, Exchange
  <2> QED BY <1>2, <2>1 DEF OpenLink
<1>3. CASE Expire
  BY <1>3 DEF Expire, NoCode
<1>4. CASE CollectToken
  <2>1. exchanges' \subseteq Exchange
    BY <1>4 DEF CollectToken, CodeAgrees, Exchange
  <2> QED BY <1>4, <2>1 DEF CollectToken, NoCode
<1>5. CASE ServiceRestart
  <2>1. reports' \subseteq Report /\ exchanges' \subseteq Exchange /\ signouts' \subseteq SignOut
    BY <1>5 DEF ServiceRestart
  <2> QED BY <1>5, <2>1 DEF ServiceRestart, NoCode
<1>6. ASSUME NEW x \in exchanges, LoseExchange(x) PROVE TypeOK'
  BY <1>6 DEF LoseExchange
<1> QED BY <1>1, <1>2, <1>3, <1>4, <1>5, <1>6

LEMMA PairingTyped ==
    ASSUME TypeOK,
           \/ \E x \in exchanges : PairHost(x)
           \/ \E u \in Users : EndPairing(u) \/ SignOutAll(u)
           \/ \E s \in signouts : PopLive(s) \/ Shutdown(s)
    PROVE  TypeOK'
<1>1. ASSUME NEW x \in exchanges, PairHost(x) PROVE TypeOK'
  <2>0. x \in Exchange
    BY DEF TypeOK
  <2>1. x.user \in Users /\ Paired(x.user)
    BY <1>1, <2>0 DEF PairHost, Exchange
  <2>2. owner' \in Seq(Users) /\ Len(owner') <= MaxCreds /\ Len(owner') \in Creds /\ pairing' \in Held
    BY <2>1, PairedGrows DEF TypeOK, Held
  <2>3. [x EXCEPT !.cred = Len(owner')] \in Exchange
    BY <2>0, <2>2 DEF Exchange
  <2>4. exchanges' \subseteq Exchange
    BY <1>1, <2>3 DEF PairHost, TypeOK
  <2> QED BY <1>1, <2>2, <2>4 DEF PairHost, TypeOK, daemonVars
<1>2. ASSUME NEW u \in Users, EndPairing(u) PROVE TypeOK'
  <2>1. pairing' \in Held
    BY <1>2 DEF EndPairing, Unpaired, TypeOK, Held
  <2> QED BY <1>2, <2>1 DEF EndPairing, TypeOK, daemonVars
<1>3. ASSUME NEW u \in Users, SignOutAll(u) PROVE TypeOK'
  <2>1. pairing[u] \in Creds /\ pairing' \in Held
    BY <1>3 DEF SignOutAll, Unpaired, TypeOK, Held
  <2>2. signouts' \subseteq SignOut
    BY <1>3, <2>1 DEF SignOutAll, TypeOK, SignOut
  <2> QED BY <1>3, <2>1, <2>2 DEF SignOutAll, TypeOK, daemonVars
<1>4. ASSUME NEW s \in signouts, PopLive(s) PROVE TypeOK'
  <2>0. s \in SignOut
    BY DEF TypeOK
  <2>1. [s EXCEPT !.at = "popped"] \in SignOut
    BY <2>0 DEF SignOut
  <2>2. signouts' \subseteq SignOut
    BY <1>4, <2>1 DEF PopLive, TypeOK
  <2> QED BY <1>4, <2>2 DEF PopLive, TypeOK, daemonVars
<1>5. ASSUME NEW s \in signouts, Shutdown(s) PROVE TypeOK'
  <2>0. s.user \in Users /\ s.cred \in Creds
    BY DEF TypeOK, SignOut
  <2>1. ident' \in Held /\ leaving' \subseteq Leave
    BY <1>5, <2>0, LeaveIdentityTyped DEF Shutdown, TypeOK
  <2>2. signouts' \subseteq SignOut
    BY <1>5 DEF Shutdown, TypeOK
  <2> QED BY <1>5, <2>1, <2>2 DEF Shutdown, TypeOK
<1> QED BY <1>1, <1>2, <1>3, <1>4, <1>5

LEMMA ReportTyped ==
    ASSUME TypeOK,
           \/ \E r \in reports : Handling(r)
           \/ \E u \in Users : Heartbeat(u)
    PROVE  TypeOK'
<1>1. ASSUME NEW r \in reports, Resolve(r) PROVE TypeOK'
  <2>0. r \in Report
    BY DEF TypeOK
  <2>1. \A at \in {"known", "refused"} : [r EXCEPT !.at = at] \in Report
    BY <2>0 DEF Report
  <2>2. reports' \subseteq Report
    BY <1>1, <2>1 DEF Resolve, TypeOK
  <2> QED BY <1>1, <2>2 DEF Resolve, TypeOK, serviceVars, daemonVars
<1>2. ASSUME NEW r \in reports, Apply(r) PROVE TypeOK'
  <2>1. r.kind \in {"up", "down"}
    BY DEF TypeOK, Report
  <2>2. reports' \subseteq Report
    BY <1>2 DEF Apply, TypeOK
  <2> QED BY <1>2, <2>1, <2>2 DEF Apply, TypeOK, daemonVars
<1>3. ASSUME NEW r \in reports, HearRefusal(r) PROVE TypeOK'
  <2>0. r.user \in Users
    BY DEF TypeOK, Report
  <2>1. ident' \in Held /\ leaving' \subseteq Leave
    <3>1. CASE r.kind = "up" /\ ident[r.user] # 0
      <4>1. ident[r.user] \in Creds
        BY <2>0, <3>1 DEF TypeOK, Held
      <4> QED BY <1>3, <2>0, <3>1, <4>1, LeaveIdentityTyped DEF HearRefusal
    <3>2. CASE ~(r.kind = "up" /\ ident[r.user] # 0)
      BY <1>3, <3>2 DEF HearRefusal, TypeOK
    <3> QED BY <3>1, <3>2
  <2>2. reports' \subseteq Report
    BY <1>3 DEF HearRefusal, TypeOK
  <2> QED BY <1>3, <2>1, <2>2 DEF HearRefusal, TypeOK, serviceVars
<1>4. ASSUME NEW u \in Users, Heartbeat(u) PROVE TypeOK'
  <2>1. ident[u] \in Creds
    BY <1>4 DEF Heartbeat, TypeOK, Held
  <2>2. reports' \subseteq Report
    BY <1>4, <2>1 DEF Heartbeat, TypeOK, Report
  <2> QED BY <1>4, <2>2 DEF Heartbeat, TypeOK, serviceVars, daemonVars
<1> QED BY <1>1, <1>2, <1>3, <1>4 DEF Handling

LEMMA IdentityTyped ==
    ASSUME TypeOK,
           \/ \E x \in exchanges : TakeCredential(x)
           \/ \E a \in adding : Adding(a)
           \/ \E l \in leaving : Leaving(l)
    PROVE  TypeOK'
<1>1. ASSUME NEW x \in exchanges, TakeCredential(x) PROVE TypeOK'
  <2>1. x.name \in Users /\ x.cred \in Creds
    BY <1>1 DEF TakeCredential, TypeOK, Exchange
  <2>2. /\ code' = NoCode /\ ident' \in Held /\ adding' \subseteq Add
        /\ NoCode \in [at : {"none", "open", "approved"}, user : Users \union {Nobody}, name : Users \union {Nobody}]
    BY <1>1, <2>1, AddIdentityTyped DEF TakeCredential
  <2>3. exchanges' \subseteq Exchange
    BY <1>1 DEF TakeCredential, TypeOK
  <2> QED BY <1>1, <2>2, <2>3 DEF TakeCredential, TypeOK
<1>2. ASSUME NEW a \in adding, SaveAdd(a) PROVE TypeOK'
  <2>1. a \in Add /\ a.cred \in Creds /\ a.snapshot \in Held
    BY DEF TypeOK, Add
  <2>2. [a EXCEPT !.at = "enabling"] \in Add
    BY <2>1 DEF Add
  <2>3. adding' \subseteq Add /\ served' \subseteq Creds /\ disk' \in Held
    BY <1>2, <2>1, <2>2 DEF SaveAdd, TypeOK
  <2> QED BY <1>2, <2>3 DEF SaveAdd, TypeOK, serviceVars
<1>3. ASSUME NEW a \in adding, FinishAdd(a) PROVE TypeOK'
  <2>2. enabled' \in BOOLEAN /\ tunnel' \in BOOLEAN
    BY <1>3 DEF FinishAdd, TypeOK
  <2>3. reports' \subseteq Report
    BY <1>3, AnnounceTyped DEF FinishAdd, TypeOK
  <2>4. adding' \subseteq Add
    BY <1>3 DEF FinishAdd, TypeOK
  <2> QED BY <1>3, <2>2, <2>3, <2>4 DEF FinishAdd, TypeOK, serviceVars
<1>4. ASSUME NEW l \in leaving, SaveLeave(l) \/ FinishLeave(l) PROVE TypeOK'
  <2>0. l \in Leave
    BY DEF TypeOK
  <2>1. [l EXCEPT !.at = "finishing"] \in Leave /\ [l EXCEPT !.at = "stopping"] \in Leave /\ l.snapshot \in Held
    BY <2>0 DEF Leave
  <2>2. CASE SaveLeave(l)
    <3>1. leaving' \subseteq Leave /\ disk' \in Held
      BY <2>1, <2>2 DEF SaveLeave, TypeOK
    <3> QED BY <2>2, <3>1 DEF SaveLeave, TypeOK, serviceVars
  <2>3. CASE FinishLeave(l)
    <3>1. leaving' \subseteq Leave /\ served' \subseteq Creds
      BY <2>1, <2>3 DEF FinishLeave, TypeOK
    <3> QED BY <2>3, <3>1 DEF FinishLeave, TypeOK, serviceVars
  <2> QED BY <1>4, <2>2, <2>3
<1>5. ASSUME NEW l \in leaving, StopTunnel(l) PROVE TypeOK'
  <2>1. l.user \in Users /\ l.cred \in Creds
    BY DEF TypeOK, Leave
  <2>2. [NoneHeld EXCEPT ![l.user] = l.cred] \in Held
    BY <2>1 DEF NoneHeld, Held
  <2>3. reports' \subseteq Report
    BY <1>5, <2>2, AnnounceTyped DEF StopTunnel
  <2>4. leaving' \subseteq Leave /\ tunnel' \in BOOLEAN
    BY <1>5 DEF StopTunnel, TypeOK
  <2> QED BY <1>5, <2>3, <2>4 DEF StopTunnel, TypeOK, serviceVars
<1> QED BY <1>1, <1>2, <1>3, <1>4, <1>5 DEF Adding, Leaving

LEMMA DaemonTyped ==
    ASSUME TypeOK,
           \/ Toggle \/ Quit \/ Start \/ \E u \in Users : Resume(u)
           \/ \E rest \in dropping : SaveDrop(rest)
    PROVE  TypeOK'
<1>1. CASE Toggle
  <2>1. enabled' \in BOOLEAN /\ tunnel' \in BOOLEAN /\ stops' \in 0 .. MaxStops
    BY <1>1, PairingAssumption DEF Toggle, TypeOK
  <2>2. reports' \subseteq Report
    BY <1>1, AnnounceTyped DEF Toggle, TypeOK
  <2> QED BY <1>1, <2>1, <2>2 DEF Toggle, TypeOK, serviceVars
<1>2. CASE Quit
  <2>1. stops' \in 0 .. MaxStops
    BY <1>2, PairingAssumption DEF Quit, TypeOK
  <2>4. running' \in BOOLEAN /\ tunnel' \in BOOLEAN
    BY <1>2 DEF Quit
  <2>2. NoneHeld \in Held /\ code' \in [at : {"none", "open", "approved"}, user : Users \union {Nobody}, name : Users \union {Nobody}]
    BY <1>2 DEF Quit, NoneHeld, Held, NoCode
  <2>3. /\ ident' \in Held /\ resuming' \in Held
        /\ reports' \subseteq Report /\ exchanges' \subseteq Exchange
        /\ served' \subseteq Creds /\ adding' \subseteq Add /\ leaving' \subseteq Leave
    BY <1>2, <2>2 DEF Quit, TypeOK
  <2> QED BY <1>2, <2>1, <2>2, <2>3, <2>4 DEF Quit, TypeOK
<1>3. CASE Start
  <2>1. code' \in [at : {"none", "open", "approved"}, user : Users \union {Nobody}, name : Users \union {Nobody}]
    BY <1>3 DEF Start, OpenCode, NoCode
  <2>2. running' \in BOOLEAN
    BY <1>3 DEF Start
  <2> QED BY <1>3, <2>1, <2>2 DEF Start, TypeOK
<1>4. ASSUME NEW u \in Users, Resume(u) PROVE TypeOK'
  <2>1. resuming[u] \in Creds /\ resuming' \in Held
    BY <1>4 DEF Resume, TypeOK, Held
  <2>2. CASE AddIdentity(u, resuming[u], "resume") /\ UNCHANGED dropping
    <3>1. /\ code' = NoCode /\ ident' \in Held /\ adding' \subseteq Add
          /\ NoCode \in [at : {"none", "open", "approved"}, user : Users \union {Nobody}, name : Users \union {Nobody}]
      BY <2>1, <2>2, AddIdentityTyped
    <3> QED BY <1>4, <2>1, <2>2, <3>1 DEF Resume, TypeOK
  <2>3. CASE dropping' = {[disk EXCEPT ![u] = 0]} /\ UNCHANGED <<code, ident, adding>>
    <3>1. dropping' \subseteq Held
      BY <2>3 DEF TypeOK, Held
    <3> QED BY <1>4, <2>1, <2>3, <3>1 DEF Resume, TypeOK
  <2> QED BY <1>4, <2>2, <2>3 DEF Resume
<1>5. ASSUME NEW rest \in dropping, SaveDrop(rest) PROVE TypeOK'
  <2>1. disk' \in Held /\ dropping' \subseteq Held
    BY <1>5 DEF SaveDrop, TypeOK
  <2> QED BY <1>5, <2>1 DEF SaveDrop, TypeOK, serviceVars
<1> QED BY <1>1, <1>2, <1>3, <1>4, <1>5

LEMMA NextTyped == TypeOK /\ CodeAgrees /\ [Next]_vars => TypeOK'
<1> SUFFICES ASSUME TypeOK, CodeAgrees, [Next]_vars PROVE TypeOK'
  OBVIOUS
<1>1. CASE UNCHANGED vars
  BY <1>1 DEF vars, serviceVars, daemonVars, TypeOK
<1>2. CASE ServiceNext
  BY <1>2, CodeTyped, PairingTyped, ReportTyped DEF ServiceNext
<1>3. CASE DaemonNext
  BY <1>3, CodeTyped, ReportTyped, IdentityTyped, DaemonTyped DEF DaemonNext
<1> QED BY <1>1, <1>2, <1>3 DEF Next

----------------------------------------------------------------------------
(* What is given stays given, what has ended stays ended *)

LEMMA Numbered ==
    ASSUME TypeOK, [Next]_vars
    PROVE  \/ UNCHANGED owner /\ \A u \in Users : pairing'[u] \in {pairing[u], 0}
           \/ /\ \A c \in DOMAIN owner : c \in DOMAIN owner' /\ owner'[c] = owner[c]
              /\ Len(owner') \notin DOMAIN owner
              /\ \A u \in Users : pairing'[u] \in {pairing[u], Len(owner')}
<1>0. \A u \in Users : pairing'[u] \in {pairing[u], 0} \/ ~UNCHANGED pairing
  OBVIOUS
<1>1. ASSUME NEW x \in exchanges, PairHost(x)
      PROVE  /\ \A c \in DOMAIN owner : c \in DOMAIN owner' /\ owner'[c] = owner[c]
             /\ Len(owner') \notin DOMAIN owner
             /\ \A u \in Users : pairing'[u] \in {pairing[u], Len(owner')}
  <2>1. x.user \in Users /\ Paired(x.user)
    BY <1>1 DEF PairHost, TypeOK, Exchange
  <2>2. pairing \in [Users -> Creds \union {0}]
    BY DEF TypeOK, Held
  <2> QED BY <2>1, <2>2, PairedGrows
<1>2. ASSUME NEW u \in Users, Unpaired(u), UNCHANGED owner
      PROVE  UNCHANGED owner /\ \A v \in Users : pairing'[v] \in {pairing[v], 0}
  BY <1>2 DEF Unpaired, TypeOK, Held
<1>3. CASE UNCHANGED <<owner, pairing>>
  BY <1>3
<1>4. CASE ServiceNext
  BY <1>1, <1>2, <1>3, <1>4 DEF ServiceNext, Handling, Approve, EndPairing, SignOutAll, LoseExchange, PopLive,
     Shutdown, Resolve, Apply, HearRefusal, Expire, ServiceRestart, serviceVars
<1>5. CASE DaemonNext
  BY <1>3, <1>5 DEF DaemonNext, CollectToken, Toggle, Quit, Start, OpenLink, Heartbeat, Resume, TakeCredential,
     Adding, SaveAdd, FinishAdd, Leaving, SaveLeave, FinishLeave, StopTunnel, SaveDrop, serviceVars
<1>6. CASE UNCHANGED vars
  BY <1>3, <1>6 DEF vars, serviceVars
<1> QED BY <1>4, <1>5, <1>6 DEF Next

LEMMA GivenStays ==
    ASSUME TypeOK, [Next]_vars
    PROVE  /\ \A c, u : Given(c, u) => GivenAfter(c, u)
           /\ \A c, u : u \in Users /\ Ended(c, u) => EndedAfter(c, u)
<1>1. 0 \notin DOMAIN owner
  BY OwnerFits
<1>2. \A c, u : Given(c, u) => GivenAfter(c, u)
  BY Numbered DEF Given, GivenAfter
<1>3. \A c, u : u \in Users /\ Ended(c, u) => EndedAfter(c, u)
  BY <1>1, <1>2, Numbered DEF Given, Ended, EndedAfter, GivenAfter
<1> QED BY <1>2, <1>3

LEMMA AllGivenStays ==
    ASSUME TypeOK, [Next]_vars, NEW held, AllGiven(held)
    PROVE  AllGivenAfter(held)
BY GivenStays DEF AllGiven, AllGivenAfter

LEMMA InitInv == Init => Inv
<1> SUFFICES ASSUME Init PROVE Inv
  OBVIOUS
<1>1. \A u \in Users : NoneHeld[u] = 0
  BY DEF NoneHeld
<1>2. CodeAgrees /\ ExchangesAgree /\ ReportsGiven /\ SignoutsEnded /\ SnapshotsGiven
  BY DEF Init, OpenCode, NoCode, CodeAgrees, ExchangesAgree, ReportsGiven, SignoutsEnded, SnapshotsGiven
<1> QED BY <1>1, <1>2, InitTyped DEF Init, Inv, KeptGiven, AllGiven

----------------------------------------------------------------------------
(* The daemon's name for a credential is the service's *)

LEMMA CodeStep == CodeAgrees /\ [Next]_vars => CodeAgrees'
<1> SUFFICES ASSUME CodeAgrees, [Next]_vars PROVE CodeAgrees'
  OBVIOUS
<1> USE DEF NoCode, OpenCode, serviceVars, daemonVars
<1>1. UNCHANGED code => CodeAgrees'
  BY DEF CodeAgrees
<1>2. code' \in {NoCode, OpenCode} => CodeAgrees'
  BY DEF CodeAgrees
<1>3. ASSUME NEW u \in Users, Approve(u) PROVE CodeAgrees'
  BY <1>3 DEF Approve, CodeAgrees
<1>4. CASE ServiceNext
  BY <1>1, <1>2, <1>3, <1>4 DEF ServiceNext, Handling, Approve, EndPairing, SignOutAll, PairHost, LoseExchange, PopLive,
     Shutdown, Resolve, Apply, HearRefusal, Expire, ServiceRestart
<1>5. CASE DaemonNext
  BY <1>1, <1>2, <1>5 DEF DaemonNext, CollectToken, Toggle, Quit, Start, OpenLink, Heartbeat, Resume, TakeCredential,
     Adding, SaveAdd, FinishAdd, Leaving, SaveLeave, FinishLeave, StopTunnel, SaveDrop, AddIdentity
<1>6. CASE UNCHANGED vars
  BY <1>1, <1>6 DEF vars
<1> QED BY <1>4, <1>5, <1>6 DEF Next

LEMMA ExchangeStep == Inv /\ [Next]_vars => ExchangesAgree'
<1> SUFFICES ASSUME Inv, [Next]_vars PROVE ExchangesAgree'
  OBVIOUS
<1>0. TypeOK /\ CodeAgrees /\ ExchangesAgree /\ \A c, u : Given(c, u) => GivenAfter(c, u)
  BY GivenStays DEF Inv
<1>1. exchanges' \subseteq exchanges => ExchangesAgree'
  BY <1>0 DEF ExchangesAgree, Given, GivenAfter
<1>2. ASSUME NEW x \in exchanges, PairHost(x) PROVE ExchangesAgree'
  <2>1. x.user \in Users /\ Paired(x.user)
    BY <1>0, <1>2 DEF PairHost, TypeOK, Exchange
  <2>2. GivenAfter(Len(owner'), x.user)
    BY <1>0, <2>1, PairedGrows DEF GivenAfter
  <2>3. exchanges' = (exchanges \ {x}) \union {[x EXCEPT !.cred = Len(owner')]}
    BY <1>2 DEF PairHost
  <2>4. [x EXCEPT !.cred = Len(owner')].name = x.name /\ [x EXCEPT !.cred = Len(owner')].user = x.user
    BY <1>0 DEF TypeOK, Exchange
  <2>5. [x EXCEPT !.cred = Len(owner')].cred = Len(owner')
    BY <1>0 DEF TypeOK, Exchange
  <2> QED BY <1>0, <2>2, <2>3, <2>4, <2>5 DEF ExchangesAgree, Given, GivenAfter
<1>3. CASE CollectToken
  BY <1>0, <1>3 DEF CollectToken, CodeAgrees, ExchangesAgree, Given, GivenAfter
<1>4. ASSUME NEW u \in Users, OpenLink(u) PROVE ExchangesAgree'
  BY <1>4 DEF OpenLink, ExchangesAgree
<1>5. CASE ServiceNext
  BY <1>1, <1>2, <1>5 DEF ServiceNext, Handling, Approve, EndPairing, SignOutAll, LoseExchange, PopLive,
     Shutdown, Resolve, Apply, HearRefusal, Expire, ServiceRestart
<1>6. CASE DaemonNext
  BY <1>1, <1>3, <1>4, <1>6 DEF DaemonNext, Toggle, Quit, Start, Heartbeat, Resume, TakeCredential,
     Adding, SaveAdd, FinishAdd, Leaving, SaveLeave, FinishLeave, StopTunnel, SaveDrop
<1>7. CASE UNCHANGED vars
  BY <1>1, <1>7 DEF vars
<1> QED BY <1>5, <1>6, <1>7 DEF Next

LEMMA PairingStep == Inv /\ [Next]_vars => AllGivenAfter(pairing')
<1> SUFFICES ASSUME Inv, [Next]_vars PROVE AllGivenAfter(pairing')
  OBVIOUS
<1>0. TypeOK /\ AllGiven(pairing) /\ \A c, u : Given(c, u) => GivenAfter(c, u)
  BY GivenStays DEF Inv, KeptGiven
<1>1. (\A u \in Users : pairing'[u] \in {pairing[u], 0}) => AllGivenAfter(pairing')
  BY <1>0 DEF AllGiven, AllGivenAfter
<1>2. ASSUME NEW x \in exchanges, PairHost(x) PROVE AllGivenAfter(pairing')
  <2>1. x.user \in Users /\ Paired(x.user)
    BY <1>0, <1>2 DEF PairHost, TypeOK, Exchange
  <2>2. GivenAfter(Len(owner'), x.user) /\ pairing' = [pairing EXCEPT ![x.user] = Len(owner')]
    BY <1>0, <2>1, PairedGrows DEF GivenAfter
  <2> QED BY <1>0, <2>1, <2>2 DEF AllGiven, AllGivenAfter, TypeOK, Held
<1>3. ASSUME NEW u \in Users, Unpaired(u) PROVE \A v \in Users : pairing'[v] \in {pairing[v], 0}
  BY <1>0, <1>3 DEF Unpaired, TypeOK, Held
<1>4. CASE ServiceNext
  BY <1>1, <1>2, <1>3, <1>4 DEF ServiceNext, Handling, Approve, EndPairing, SignOutAll, LoseExchange, PopLive,
     Shutdown, Resolve, Apply, HearRefusal, Expire, ServiceRestart, serviceVars
<1>5. CASE DaemonNext
  BY <1>1, <1>5 DEF DaemonNext, CollectToken, Toggle, Quit, Start, OpenLink, Heartbeat, Resume, TakeCredential,
     Adding, SaveAdd, FinishAdd, Leaving, SaveLeave, FinishLeave, StopTunnel, SaveDrop, serviceVars
<1>6. CASE UNCHANGED vars
  BY <1>1, <1>6 DEF vars, serviceVars
<1> QED BY <1>4, <1>5, <1>6 DEF Next

\* A credential taken under an account's name, and an account signed out.
LEMMA AddGiven ==
    ASSUME Inv, [Next]_vars, NEW u \in Users, NEW c, NEW from, Given(c, u), AddIdentity(u, c, from)
    PROVE  AllGivenAfter(ident') /\ \A a \in adding' : AllGivenAfter(a.snapshot)
<1>0. TypeOK /\ AllGiven(ident) /\ \A d, v : Given(d, v) => GivenAfter(d, v)
  BY GivenStays DEF Inv, KeptGiven
<1>1. ident' = [ident EXCEPT ![u] = c]
  BY DEF AddIdentity
<1>2. AllGivenAfter(ident')
  BY <1>0, <1>1 DEF AllGiven, AllGivenAfter, TypeOK, Held
<1>3. \A a \in adding : AllGivenAfter(a.snapshot)
  BY <1>0 DEF Inv, SnapshotsGiven, AllGiven, AllGivenAfter
<1>4. adding' = adding \union
        {[user |-> u, cred |-> c, old |-> ident[u], snapshot |-> ident', from |-> from, at |-> "saving"]}
  BY DEF AddIdentity
<1>5. \A a \in adding' : a \in adding \/ a.snapshot = ident'
  BY <1>4
<1> QED BY <1>2, <1>3, <1>5

LEMMA LeaveGiven ==
    ASSUME Inv, [Next]_vars, NEW u \in Users, NEW c, Given(c, u), LeaveIdentity(u, c)
    PROVE  AllGivenAfter(ident') /\ \A l \in leaving' : AllGivenAfter(l.snapshot) /\ GivenAfter(l.cred, l.user)
<1>0. TypeOK /\ AllGiven(ident) /\ \A d, v : Given(d, v) => GivenAfter(d, v)
  BY GivenStays DEF Inv, KeptGiven
<1>1. ident' = [ident EXCEPT ![u] = 0]
  BY DEF LeaveIdentity
<1>2. AllGivenAfter(ident')
  BY <1>0, <1>1 DEF AllGiven, AllGivenAfter, TypeOK, Held
<1>3. \A l \in leaving : AllGivenAfter(l.snapshot) /\ GivenAfter(l.cred, l.user)
  BY <1>0 DEF Inv, SnapshotsGiven, AllGiven, AllGivenAfter
<1>4. leaving' = leaving \union {[user |-> u, cred |-> c, snapshot |-> ident', at |-> "saving"]}
  BY DEF LeaveIdentity
<1>5. \A l \in leaving' : l \in leaving \/ (l.snapshot = ident' /\ l.cred = c /\ l.user = u)
  BY <1>4
<1> QED BY <1>0, <1>2, <1>3, <1>5

\* What the daemon keeps in memory and on disk, and is about to save.
KeptByDaemon == AllGiven(ident) /\ AllGiven(disk) /\ AllGiven(resuming) /\ SnapshotsGiven

LEMMA SameKept ==
    ASSUME Inv, [Next]_vars
    PROVE  /\ UNCHANGED ident => AllGivenAfter(ident')
           /\ UNCHANGED disk => AllGivenAfter(disk')
           /\ UNCHANGED resuming => AllGivenAfter(resuming')
           /\ adding' \subseteq adding => \A a \in adding' : AllGivenAfter(a.snapshot)
           /\ leaving' \subseteq leaving =>
                \A l \in leaving' : AllGivenAfter(l.snapshot) /\ GivenAfter(l.cred, l.user)
           /\ dropping' \subseteq dropping => \A rest \in dropping' : AllGivenAfter(rest)
<1>0. TypeOK /\ \A d, v : Given(d, v) => GivenAfter(d, v)
  BY GivenStays DEF Inv
<1> QED BY <1>0 DEF Inv, KeptGiven, SnapshotsGiven, AllGiven, AllGivenAfter

LEMMA SameDaemon ==
    ASSUME Inv, [Next]_vars, UNCHANGED <<ident, disk, resuming, dropping, adding, leaving>>
    PROVE  KeptByDaemon'
BY SameKept DEF KeptByDaemon, SnapshotsGiven, AllGiven, AllGivenAfter, Given, GivenAfter

\* The actions that touch any of it.
LEMMA KeptStep == Inv /\ [Next]_vars => KeptByDaemon'
<1> SUFFICES ASSUME Inv, [Next]_vars PROVE KeptByDaemon'
  OBVIOUS
<1> DEFINE AddsKept == \A a \in adding' : AllGivenAfter(a.snapshot)
           LeavesKept == \A l \in leaving' : AllGivenAfter(l.snapshot) /\ GivenAfter(l.cred, l.user)
           DropsKept == \A rest \in dropping' : AllGivenAfter(rest)
<1>0. TypeOK /\ KeptGiven /\ SnapshotsGiven /\ ExchangesAgree /\ ReportsGiven /\ SignoutsEnded
  BY DEF Inv
<1>1. ASSUME AllGivenAfter(ident'), AllGivenAfter(disk'), AllGivenAfter(resuming'), AddsKept, LeavesKept,
             DropsKept
      PROVE  KeptByDaemon'
  BY <1>1 DEF KeptByDaemon, SnapshotsGiven, AllGiven, AllGivenAfter, Given, GivenAfter
<1>2. ASSUME NEW x \in exchanges, TakeCredential(x) PROVE KeptByDaemon'
  <2>1. x.name \in Users /\ Given(x.cred, x.name)
    BY <1>0, <1>2 DEF TakeCredential, TypeOK, Exchange, ExchangesAgree
  <2>2. AllGivenAfter(ident') /\ AddsKept
    BY <1>2, <2>1, AddGiven DEF TakeCredential
  <2>3. UNCHANGED <<disk, resuming, dropping, leaving>>
    BY <1>2 DEF TakeCredential
  <2> QED BY <1>1, <2>2, <2>3, SameKept
<1>3. ASSUME NEW a \in adding, Adding(a) PROVE KeptByDaemon'
  <2>1. a \in Add /\ AllGivenAfter(a.snapshot)
    BY <1>0, AllGivenStays DEF TypeOK, SnapshotsGiven
  <2>2. UNCHANGED <<ident, resuming, dropping, leaving>> /\ disk' \in {disk, a.snapshot}
    BY <1>3 DEF Adding, SaveAdd, FinishAdd
  <2>3. \A b \in adding' : b \in adding \/ b.snapshot = a.snapshot
    <3>1. [a EXCEPT !.at = "enabling"].snapshot = a.snapshot
      BY <2>1 DEF Add
    <3> QED BY <1>3, <3>1 DEF Adding, SaveAdd, FinishAdd
  <2>4. AddsKept
    BY <1>0, <2>1, <2>3, AllGivenStays DEF SnapshotsGiven
  <2>5. AllGivenAfter(disk')
    BY <2>1, <2>2, SameKept
  <2> QED BY <1>1, <2>2, <2>4, <2>5, SameKept
<1>4. ASSUME NEW l \in leaving, SaveLeave(l) \/ FinishLeave(l) PROVE KeptByDaemon'
  <2>1. l \in Leave /\ AllGiven(l.snapshot) /\ Given(l.cred, l.user)
    BY <1>0 DEF TypeOK, SnapshotsGiven
  <2>2. AllGivenAfter(l.snapshot) /\ GivenAfter(l.cred, l.user)
    BY <1>0, <2>1, AllGivenStays, GivenStays
  <2>3. UNCHANGED <<ident, resuming, dropping, adding>> /\ disk' \in {disk, l.snapshot}
    BY <1>4 DEF SaveLeave, FinishLeave
  <2>4. \A k \in leaving' : k \in leaving \/ (k.snapshot = l.snapshot /\ k.cred = l.cred /\ k.user = l.user)
    <3>1. \A at \in {"finishing", "stopping"} :
            LET k == [l EXCEPT !.at = at]
            IN  k.snapshot = l.snapshot /\ k.cred = l.cred /\ k.user = l.user
      BY <2>1 DEF Leave
    <3> QED BY <1>4, <3>1 DEF SaveLeave, FinishLeave
  <2>5. \A k \in leaving : AllGivenAfter(k.snapshot) /\ GivenAfter(k.cred, k.user)
    BY <1>0, AllGivenStays, GivenStays DEF SnapshotsGiven
  <2>6. LeavesKept
    BY <2>2, <2>4, <2>5
  <2>7. AllGivenAfter(disk')
    BY <2>2, <2>3, SameKept
  <2> QED BY <1>1, <2>3, <2>6, <2>7, SameKept
<1>5. ASSUME NEW l \in leaving, StopTunnel(l) PROVE KeptByDaemon'
  <2>1. UNCHANGED <<ident, disk, resuming, dropping, adding>> /\ leaving' \subseteq leaving
    BY <1>5 DEF StopTunnel
  <2> QED BY <1>1, <2>1, SameKept
<1>6. ASSUME NEW s \in signouts, Shutdown(s) PROVE KeptByDaemon'
  <2>1. s.user \in Users /\ Given(s.cred, s.user)
    BY <1>0 DEF TypeOK, SignOut, SignoutsEnded, Ended
  <2>2. AllGivenAfter(ident') /\ LeavesKept
    BY <1>6, <2>1, LeaveGiven, SameKept DEF Shutdown
  <2>3. UNCHANGED <<disk, resuming, dropping, adding>>
    BY <1>6 DEF Shutdown
  <2> QED BY <1>1, <2>2, <2>3, SameKept
<1>7. ASSUME NEW r \in reports, HearRefusal(r) PROVE KeptByDaemon'
  <2>1. r.user \in Users
    BY <1>0 DEF TypeOK, Report
  <2>2. ident[r.user] # 0 => Given(ident[r.user], r.user)
    BY <1>0, <2>1 DEF KeptGiven, AllGiven
  <2>3. AllGivenAfter(ident') /\ LeavesKept
    <3>1. CASE r.kind = "up" /\ ident[r.user] # 0
      BY <1>7, <2>1, <2>2, <3>1, LeaveGiven DEF HearRefusal
    <3>2. CASE ~(r.kind = "up" /\ ident[r.user] # 0)
      BY <1>7, <3>2, SameKept DEF HearRefusal
    <3> QED BY <3>1, <3>2
  <2>4. UNCHANGED <<disk, resuming, dropping, adding>>
    BY <1>7 DEF HearRefusal
  <2> QED BY <1>1, <2>3, <2>4, SameKept
<1>8. CASE Quit
  <2>1. AllGivenAfter(NoneHeld)
    BY DEF NoneHeld, AllGivenAfter
  <2>2. /\ ident' = NoneHeld /\ resuming' = NoneHeld
        /\ UNCHANGED disk /\ adding' = {} /\ leaving' = {} /\ dropping' = {}
    BY <1>8 DEF Quit
  <2> QED BY <1>1, <2>1, <2>2, SameKept
<1>9. CASE Start
  <2>1. UNCHANGED <<ident, disk, dropping, adding, leaving>> /\ resuming' = disk
    BY <1>9 DEF Start
  <2> QED BY <1>1, <2>1, SameKept
<1>10. ASSUME NEW u \in Users, Resume(u) PROVE KeptByDaemon'
  <2>1. Given(resuming[u], u)
    BY <1>0, <1>10 DEF Resume, KeptGiven, AllGiven
  <2>2. AllGivenAfter(resuming') /\ UNCHANGED <<disk, leaving>>
    <3>1. AllGivenAfter(resuming)
      BY <1>0, AllGivenStays DEF KeptGiven
    <3> QED BY <1>0, <1>10, <3>1 DEF Resume, AllGivenAfter, TypeOK, Held
  <2>3. CASE AddIdentity(u, resuming[u], "resume") /\ UNCHANGED dropping
    <3>1. AllGivenAfter(ident') /\ AddsKept
      BY <2>1, <2>3, AddGiven
    <3> QED BY <1>1, <2>2, <2>3, <3>1, SameKept
  <2>4. CASE dropping' = {[disk EXCEPT ![u] = 0]} /\ UNCHANGED <<code, ident, adding>>
    <3>1. AllGivenAfter(disk)
      BY <1>0, AllGivenStays DEF KeptGiven
    <3>2. AllGivenAfter([disk EXCEPT ![u] = 0])
      BY <1>0, <3>1 DEF AllGivenAfter, TypeOK, Held
    <3>3. DropsKept
      BY <2>4, <3>2
    <3> QED BY <1>1, <2>2, <2>4, <3>3, SameKept
  <2> QED BY <1>10, <2>3, <2>4 DEF Resume
<1>14. ASSUME NEW rest \in dropping, SaveDrop(rest) PROVE KeptByDaemon'
  <2>1. AllGivenAfter(disk')
    BY <1>0, <1>14, AllGivenStays DEF SaveDrop, SnapshotsGiven
  <2>2. UNCHANGED <<ident, resuming, adding, leaving>> /\ dropping' \subseteq dropping
    BY <1>14 DEF SaveDrop
  <2> QED BY <1>1, <2>1, <2>2, SameKept
<1>11. CASE ServiceNext
  BY <1>6, <1>7, <1>11, SameDaemon DEF ServiceNext, Handling, Approve, EndPairing, SignOutAll, PairHost,
     LoseExchange, PopLive, Resolve, Apply, Expire, ServiceRestart, daemonVars
<1>12. CASE DaemonNext
  BY <1>2, <1>3, <1>4, <1>5, <1>8, <1>9, <1>10, <1>12, <1>14, SameDaemon
     DEF DaemonNext, Leaving, CollectToken, Toggle, OpenLink, Heartbeat, daemonVars
<1>13. CASE UNCHANGED vars
  BY <1>13, SameDaemon DEF vars, daemonVars
<1> QED BY <1>11, <1>12, <1>13 DEF Next

----------------------------------------------------------------------------
(* Whoever is refused, or about to be signed out, has ended *)

LEMMA AnnounceGiven ==
    ASSUME Inv, [Next]_vars, NEW kind, NEW held, AllGiven(held), Announce(kind, held)
    PROVE  ReportsGiven'
<1>0. /\ \A c, u : Given(c, u) => GivenAfter(c, u)
      /\ \A c, u : u \in Users /\ Ended(c, u) => EndedAfter(c, u)
  BY GivenStays DEF Inv
<1>1. PICK S \in SUBSET {u \in Users : held[u] # 0} :
        reports' = reports \union {[user |-> u, cred |-> held[u], kind |-> kind, at |-> "sent"] : u \in S}
  BY DEF Announce
<1>2. \A r \in reports : GivenAfter(r.cred, r.user) /\ (r.at = "refused" => EndedAfter(r.cred, r.user))
  BY <1>0 DEF Inv, ReportsGiven, TypeOK, Report
<1>3. \A r \in reports' : r \in reports \/ (GivenAfter(r.cred, r.user) /\ r.at = "sent")
  BY <1>0, <1>1 DEF AllGiven
<1> QED BY <1>2, <1>3 DEF ReportsGiven, Given, GivenAfter, Ended, EndedAfter

LEMMA FewerReports ==
    ASSUME Inv, [Next]_vars,
           \A r \in reports' : r \in reports \/
                (Given(r.cred, r.user) /\ (r.at = "refused" => r.user \in Users /\ Ended(r.cred, r.user)))
    PROVE  ReportsGiven'
<1>0. /\ \A c, u : Given(c, u) => GivenAfter(c, u)
      /\ \A c, u : u \in Users /\ Ended(c, u) => EndedAfter(c, u)
  BY GivenStays DEF Inv
<1>1. \A r \in reports : GivenAfter(r.cred, r.user) /\ (r.at = "refused" => EndedAfter(r.cred, r.user))
  BY <1>0 DEF Inv, ReportsGiven, TypeOK, Report
<1>2. \A r \in reports' : GivenAfter(r.cred, r.user) /\ (r.at = "refused" => EndedAfter(r.cred, r.user))
  BY <1>0, <1>1
<1> QED BY <1>2 DEF ReportsGiven, Given, GivenAfter, Ended, EndedAfter

LEMMA ReportStep == Inv /\ [Next]_vars => ReportsGiven'
<1> SUFFICES ASSUME Inv, [Next]_vars PROVE ReportsGiven'
  OBVIOUS
<1>0. TypeOK /\ KeptGiven /\ SnapshotsGiven /\ ReportsGiven
  BY DEF Inv
<1>1. reports' \subseteq reports => ReportsGiven'
  BY FewerReports
<1>2. ASSUME NEW r \in reports, Resolve(r) PROVE ReportsGiven'
  <2>0. r \in Report /\ Given(r.cred, r.user)
    BY <1>0 DEF TypeOK, ReportsGiven
  <2>1. PICK at \in {"known", "refused"} :
            /\ reports' = (reports \ {r}) \union {[r EXCEPT !.at = at]}
            /\ at = "refused" => pairing[r.user] # r.cred
    BY <1>2 DEF Resolve
  <2>2. LET q == [r EXCEPT !.at = at]
        IN  q.user = r.user /\ q.cred = r.cred /\ q.at = at /\ r.user \in Users
    BY <2>0 DEF Report
  <2>3. \A q \in reports' : q \in reports \/
            (Given(q.cred, q.user) /\ (q.at = "refused" => q.user \in Users /\ Ended(q.cred, q.user)))
    BY <2>0, <2>1, <2>2 DEF Ended
  <2> QED BY <2>3, FewerReports
<1>3. ASSUME NEW u \in Users, Heartbeat(u) PROVE ReportsGiven'
  <2>1. Given(ident[u], u)
    BY <1>0, <1>3 DEF Heartbeat, KeptGiven, AllGiven
  <2>2. \A q \in reports' : q \in reports \/ (Given(q.cred, q.user) /\ q.at = "sent")
    BY <1>3, <2>1 DEF Heartbeat
  <2> QED BY <2>2, FewerReports
<1>4. ASSUME NEW a \in adding, FinishAdd(a) PROVE ReportsGiven'
  BY <1>0, <1>4, AnnounceGiven DEF FinishAdd, KeptGiven
<1>5. ASSUME NEW l \in leaving, StopTunnel(l) PROVE ReportsGiven'
  <2>1. l.user \in Users /\ Given(l.cred, l.user)
    BY <1>0 DEF TypeOK, Leave, SnapshotsGiven
  <2>2. AllGiven([NoneHeld EXCEPT ![l.user] = l.cred])
    BY <2>1 DEF AllGiven, NoneHeld
  <2> QED BY <1>5, <2>2, AnnounceGiven DEF StopTunnel
<1>6. CASE Toggle
  BY <1>0, <1>6, AnnounceGiven DEF Toggle, KeptGiven
<1>7. ASSUME NEW r \in reports, Apply(r) \/ HearRefusal(r) PROVE ReportsGiven'
  BY <1>1, <1>7 DEF Apply, HearRefusal
<1>8. CASE ServiceNext
  BY <1>1, <1>2, <1>7, <1>8 DEF ServiceNext, Handling, Approve, EndPairing, SignOutAll, PairHost, LoseExchange,
     PopLive, Shutdown, Expire, ServiceRestart
<1>9. CASE DaemonNext
  BY <1>1, <1>3, <1>4, <1>5, <1>6, <1>9 DEF DaemonNext, CollectToken, Quit, Start, OpenLink, Resume,
     TakeCredential, Adding, SaveAdd, Leaving, SaveLeave, FinishLeave, SaveDrop
<1>10. CASE UNCHANGED vars
  BY <1>1, <1>10 DEF vars
<1> QED BY <1>8, <1>9, <1>10 DEF Next

LEMMA SignoutStep == Inv /\ [Next]_vars => SignoutsEnded'
<1> SUFFICES ASSUME Inv, [Next]_vars PROVE SignoutsEnded'
  OBVIOUS
<1>0. /\ TypeOK /\ KeptGiven /\ SignoutsEnded
      /\ \A c, u : Given(c, u) => GivenAfter(c, u)
      /\ \A c, u : u \in Users /\ Ended(c, u) => EndedAfter(c, u)
  BY GivenStays DEF Inv
<1>1. \A s \in signouts : EndedAfter(s.cred, s.user)
  BY <1>0 DEF TypeOK, SignOut, SignoutsEnded
<1>2. ASSUME \A s \in signouts' : s \in signouts \/ EndedAfter(s.cred, s.user) PROVE SignoutsEnded'
  BY <1>1, <1>2 DEF SignoutsEnded, Ended, EndedAfter, Given, GivenAfter
<1>3. ASSUME NEW u \in Users, SignOutAll(u) PROVE SignoutsEnded'
  <2>1. pairing[u] # 0 /\ Given(pairing[u], u) /\ pairing'[u] = 0
    BY <1>0, <1>3 DEF SignOutAll, Unpaired, KeptGiven, AllGiven, TypeOK, Held
  <2>2. EndedAfter(pairing[u], u)
    BY <1>0, <2>1 DEF EndedAfter
  <2>3. \A s \in signouts' : s \in signouts \/ EndedAfter(s.cred, s.user)
    BY <1>3, <2>2 DEF SignOutAll
  <2> QED BY <1>2, <2>3
<1>4. ASSUME NEW s \in signouts, PopLive(s) PROVE SignoutsEnded'
  <2>1. s \in SignOut
    BY <1>0 DEF TypeOK
  <2>2. LET q == [s EXCEPT !.at = "popped"] IN q.cred = s.cred /\ q.user = s.user
    BY <2>1 DEF SignOut
  <2>3. \A q \in signouts' : q \in signouts \/ EndedAfter(q.cred, q.user)
    BY <1>1, <1>4, <2>2 DEF PopLive
  <2> QED BY <1>2, <2>3
<1>5. signouts' \subseteq signouts => SignoutsEnded'
  BY <1>2
<1>6. CASE ServiceNext
  BY <1>3, <1>4, <1>5, <1>6 DEF ServiceNext, Handling, Approve, EndPairing, PairHost, LoseExchange, Shutdown,
     Resolve, Apply, HearRefusal, Expire, ServiceRestart, serviceVars
<1>7. CASE DaemonNext
  BY <1>5, <1>7 DEF DaemonNext, CollectToken, Toggle, Quit, Start, OpenLink, Heartbeat, Resume, TakeCredential,
     Adding, SaveAdd, FinishAdd, Leaving, SaveLeave, FinishLeave, StopTunnel, SaveDrop, serviceVars
<1>8. CASE UNCHANGED vars
  BY <1>5, <1>8 DEF vars, serviceVars
<1> QED BY <1>6, <1>7, <1>8 DEF Next

----------------------------------------------------------------------------
(* The theorems *)

LEMMA NextInv == Inv /\ [Next]_vars => Inv'
<1> SUFFICES ASSUME Inv, [Next]_vars PROVE Inv'
  OBVIOUS
<1>1. TypeOK' /\ CodeAgrees'
  BY NextTyped, CodeStep DEF Inv
<1>2. KeptGiven' /\ SnapshotsGiven'
  BY PairingStep, KeptStep DEF KeptByDaemon, KeptGiven, AllGiven, AllGivenAfter, Given, GivenAfter
<1> QED BY <1>1, <1>2, ExchangeStep, ReportStep, SignoutStep DEF Inv

\* Codes, pairings, reports, identities and sign-outs under way keep their
\* shape.
THEOREM TypeCorrect == Spec => []TypeOK
<1>1. Inv => TypeOK
  BY DEF Inv
<1> QED BY <1>1, InitInv, NextInv, PTL DEF Spec

\* The daemon never keeps, in memory or in a saved session, a credential
\* under the name of an account other than the one it was given to
\* (pairing_approve, addOrReplaceIdentity).
THEOREM IdentitiesAreOwners == Spec => []IdentityIsOwners
<1>1. Inv => IdentityIsOwners
  BY DEF Inv, KeptGiven, AllGiven, Given, IdentityIsOwners
<1> QED BY <1>1, InitInv, NextInv, PTL DEF Spec

\* A running daemon signs an account out only when a pairing of that account
\* has ended, whatever is lost, overtaken or restarted (reportPresence,
\* signout_all_hosts).
THEOREM StandingPairingStays == Spec => NeverEndedNeverOut
<1> DEFINE Justified == \A u \in Users :
        ident[u] # 0 /\ ident'[u] = 0 /\ running' =>
            \E c \in DOMAIN owner : owner[c] = u /\ pairing[u] # c
<1>1. ASSUME Inv, [Next]_vars PROVE [Justified]_vars
  <2>0. TypeOK /\ ReportsGiven /\ SignoutsEnded /\ ExchangesAgree
    BY <1>1 DEF Inv
  <2>1. ASSUME NEW v \in Users, NEW c, Ended(c, v), ident' = [ident EXCEPT ![v] = 0] PROVE Justified
    BY <2>0, <2>1 DEF Ended, Given, TypeOK, Held
  <2>2. ASSUME NEW v \in Users, NEW c \in Creds, ident' = [ident EXCEPT ![v] = c] PROVE Justified
    BY <2>0, <2>2, OwnerFits DEF TypeOK, Held
  <2>3. UNCHANGED ident => Justified
    OBVIOUS
  <2>4. ASSUME NEW s \in signouts, Shutdown(s) PROVE Justified
    <3>1. s.user \in Users /\ Ended(s.cred, s.user)
      BY <2>0 DEF TypeOK, SignOut, SignoutsEnded
    <3> QED BY <2>1, <2>3, <2>4, <3>1 DEF Shutdown, LeaveIdentity
  <2>5. ASSUME NEW r \in reports, HearRefusal(r) PROVE Justified
    <3>1. r.user \in Users /\ Ended(r.cred, r.user)
      BY <2>0, <2>5 DEF HearRefusal, TypeOK, Report, ReportsGiven
    <3> QED BY <2>1, <2>3, <2>5, <3>1 DEF HearRefusal, LeaveIdentity
  <2>6. ASSUME NEW x \in exchanges, TakeCredential(x) PROVE Justified
    <3>1. x.name \in Users /\ x.cred \in Creds
      BY <2>0, <2>6 DEF TakeCredential, TypeOK, Exchange
    <3> QED BY <2>2, <2>6, <3>1 DEF TakeCredential, AddIdentity
  <2>7. ASSUME NEW u \in Users, Resume(u) PROVE Justified
    <3>1. resuming[u] \in Creds
      BY <2>0, <2>7 DEF Resume, TypeOK, Held
    <3> QED BY <2>2, <2>3, <2>7, <3>1 DEF Resume, AddIdentity
  <2>8. CASE Quit
    BY <2>8 DEF Quit
  <2>9. CASE ServiceNext
    BY <2>3, <2>4, <2>5, <2>9 DEF ServiceNext, Handling, Approve, EndPairing, SignOutAll, PairHost,
       LoseExchange, PopLive, Resolve, Apply, Expire, ServiceRestart, daemonVars
  <2>10. CASE DaemonNext
    BY <2>3, <2>6, <2>7, <2>8, <2>10 DEF DaemonNext, CollectToken, Toggle, Start, OpenLink, Heartbeat,
       Adding, SaveAdd, FinishAdd, Leaving, SaveLeave, FinishLeave, StopTunnel, SaveDrop, daemonVars
  <2>11. CASE UNCHANGED vars
    BY <2>11
  <2> QED BY <1>1, <2>9, <2>10, <2>11 DEF Next
<1> QED BY <1>1, InitInv, NextInv, PTL DEF Spec, NeverEndedNeverOut
=============================================================================
