------------------------------ MODULE Pairing ------------------------------
(***************************************************************************)
(* Pairing of one machine with the accounts of several people: the         *)
(* service's pairings, presence and sign-out (casper_service/main.py), the *)
(* daemon's identities (agent/cmd/casper/daemon.go), and the requests      *)
(* between them, which are handled in steps, overtake each other and get   *)
(* lost.                                                                   *)
(*                                                                         *)
(* Every pairing gives a new credential (a device token with a command     *)
(* key), numbered from 1; 0 is none.  A bootstrap token that has become    *)
(* stale (a new login, five minutes) and a request that is lost look the   *)
(* same to the daemon: LoseExchange is either.  A presence report that is  *)
(* lost is one that was never sent.                                        *)
(***************************************************************************)
EXTENDS Naturals, Sequences, FiniteSets

CONSTANTS
    Users,          \* accounts
    Nobody,         \* no account
    MaxCreds,       \* pairings in all
    MaxReports,     \* presence reports and clears under way at a time
    MaxTasks,       \* goroutines of the daemon between two critical sections
    MaxStops        \* times somebody quits the daemon or uses the toggle

ASSUME PairingAssumption ==
    Nobody \notin Users /\ MaxCreds \in Nat /\ MaxReports \in Nat /\ MaxTasks \in Nat
    /\ MaxStops \in Nat

VARIABLES
    code,           \* the pairing code the daemon polls, if any: the account
                    \* its token is for and the name given with it
    owner,          \* the account each credential was given to
    pairing,        \* host_pairings: the credential of each account
    live,           \* _live: where the machine is reached, in memory
    signouts,       \* signout-all requests being served
    exchanges,      \* /hosts/pair calls of the daemon
    reports,        \* presence reports and clears under way
    running,        \* the daemon runs
    ident,          \* its identities
    served,         \* command keys its server accepts
    disk,           \* its saved sessions
    resuming,       \* saved sessions a start has still to look at
    dropping,       \* what a start is about to save without a session it drops
    adding,         \* addOrReplaceIdentity calls past the identities map
    leaving,        \* sign-outs past the identities map
    enabled,        \* the toggle
    tunnel,         \* the tunnel is up
    stops           \* counts what MaxStops bounds

serviceVars == <<code, owner, pairing, live, signouts>>
daemonVars == <<running, ident, served, disk, resuming, dropping, adding, leaving, enabled, tunnel, stops>>
vars == <<serviceVars, exchanges, reports, daemonVars>>

Creds == 1 .. MaxCreds
Held == [Users -> Creds \union {0}]
NoneHeld == [u \in Users |-> 0]

NoCode == [at |-> "none", user |-> Nobody, name |-> Nobody]
OpenCode == [NoCode EXCEPT !.at = "open"]

\* The daemon goes by the name, the service by the token.
Exchange == [user : Users, name : Users, cred : Creds \union {0}]
Report == [user : Users, cred : Creds, kind : {"up", "down"}, at : {"sent", "known", "refused"}]
SignOut == [user : Users, cred : Creds, at : {"unpaired", "popped"}]
Add == [user : Users, cred : Creds, old : Creds \union {0}, snapshot : Held, from : {"pair", "resume"},
        at : {"saving", "enabling"}]
Leave == [user : Users, cred : Creds, snapshot : Held, at : {"saving", "finishing", "stopping"}]

TypeOK ==
    /\ code \in [at : {"none", "open", "approved"}, user : Users \union {Nobody}, name : Users \union {Nobody}]
    /\ owner \in Seq(Users) /\ Len(owner) <= MaxCreds
    /\ pairing \in Held /\ ident \in Held /\ disk \in Held /\ resuming \in Held
    /\ live \in {"unknown", "up", "down"}
    /\ signouts \subseteq SignOut
    /\ exchanges \subseteq Exchange
    /\ reports \subseteq Report
    /\ running \in BOOLEAN /\ enabled \in BOOLEAN /\ tunnel \in BOOLEAN
    /\ served \subseteq Creds
    /\ dropping \subseteq Held
    /\ adding \subseteq Add
    /\ leaving \subseteq Leave
    /\ stops \in 0 .. MaxStops

\* The first launch, with the sign-in page opened.
Init ==
    /\ code = OpenCode
    /\ owner = <<>>
    /\ pairing = NoneHeld /\ ident = NoneHeld /\ disk = NoneHeld /\ resuming = NoneHeld
    /\ live = "unknown"
    /\ signouts = {} /\ exchanges = {} /\ reports = {}
    /\ running = TRUE /\ enabled = TRUE /\ tunnel = FALSE
    /\ served = {} /\ dropping = {}
    /\ adding = {} /\ leaving = {}
    /\ stops = 0

----------------------------------------------------------------------------
(* The service: accounts and codes *)

\* pairing_approve: the code gets the token and the name together.
Approve_TokenOnly(u) ==
    /\ code.at # "none"
    /\ code' = [at |-> "approved", user |-> u, name |-> IF code.at = "open" THEN u ELSE code.name]
    /\ UNCHANGED <<owner, pairing, live, signouts, exchanges, reports, daemonVars>>

Approve(u) ==
    /\ code.at # "none"
    /\ code' = [at |-> "approved", user |-> u, name |-> u]
    /\ UNCHANGED <<owner, pairing, live, signouts, exchanges, reports, daemonVars>>

\* _prune_pairing, and a restart of the service, which keeps nothing that is
\* in memory or being served.
Expire ==
    /\ code' = NoCode /\ code # NoCode
    /\ UNCHANGED <<owner, pairing, live, signouts, exchanges, reports, daemonVars>>

ServiceRestart ==
    /\ code' = NoCode /\ live' = "unknown" /\ signouts' = {}
    /\ reports' = {r \in reports : r.at = "sent"}
    /\ exchanges' = {}
    /\ UNCHANGED <<owner, pairing, daemonVars>>

\* _pair_host: a fresh credential in the account's row, whatever was there.
Paired(u) ==
    /\ Len(owner) < MaxCreds
    /\ owner' = Append(owner, u)
    /\ pairing' = [pairing EXCEPT ![u] = Len(owner')]

PairHost(x) ==
    /\ x \in exchanges /\ x.cred = 0
    /\ Paired(x.user)
    /\ exchanges' = (exchanges \ {x}) \union {[x EXCEPT !.cred = Len(owner')]}
    /\ UNCHANGED <<code, live, signouts, reports, daemonVars>>

\* Neither unpair_host nor forget_host touches _live.
Unpaired(u) == pairing[u] # 0 /\ pairing' = [pairing EXCEPT ![u] = 0]

EndPairing(u) ==
    /\ Unpaired(u)
    /\ UNCHANGED <<code, owner, live, signouts, exchanges, reports, daemonVars>>

\* signout_all_hosts: the rows, then _live, then a request to the machine.
SignOutAll(u) ==
    /\ Unpaired(u)
    /\ signouts' = signouts \union {[user |-> u, cred |-> pairing[u], at |-> "unpaired"]}
    /\ UNCHANGED <<code, owner, live, exchanges, reports, daemonVars>>

PopLive(s) ==
    /\ s \in signouts /\ s.at = "unpaired"
    /\ signouts' = (signouts \ {s}) \union
                   (IF live = "up" THEN {[s EXCEPT !.at = "popped"]} ELSE {})
    /\ live' = "unknown"
    /\ UNCHANGED <<code, owner, pairing, exchanges, reports, daemonVars>>

\* list_hosts: whether the account sees the machine connected.
ShownTo(u) == pairing[u] # 0 /\ live = "up"

\* _connected_host_configs: the command keys the service calls the machine
\* with on behalf of an account, and whether a call as that account
\* (_host_config) is answered.
Keys(u) == IF live = "up" THEN {pairing[u]} \ {0} ELSE {}
Reached(u) == running /\ tunnel /\ Keys(u) \intersect served # {}

\* _resolve_attached, then, in a step of its own, the assignment to _live.
Resolve_InMemory(r) ==
    /\ r \in reports /\ r.at = "sent"
    /\ reports' = (reports \ {r}) \union
        {[r EXCEPT !.at = IF pairing[r.user] = r.cred /\ live # "unknown" THEN "known" ELSE "refused"]}
    /\ UNCHANGED <<serviceVars, exchanges, daemonVars>>

Resolve(r) ==
    /\ r \in reports /\ r.at = "sent"
    /\ reports' = (reports \ {r}) \union
        {[r EXCEPT !.at = IF pairing[r.user] = r.cred THEN "known" ELSE "refused"]}
    /\ UNCHANGED <<serviceVars, exchanges, daemonVars>>

Apply(r) ==
    /\ r \in reports /\ r.at = "known"
    /\ live' = r.kind
    /\ reports' = reports \ {r}
    /\ UNCHANGED <<code, owner, pairing, signouts, exchanges, daemonVars>>

----------------------------------------------------------------------------
(* The daemon: pairing *)

\* pairing_status hands the token out and forgets the code.
CollectToken ==
    /\ code.at = "approved"
    /\ code' = NoCode
    /\ exchanges' = exchanges \union {[user |-> code.user, name |-> code.name, cred |-> 0]}
    /\ UNCHANGED <<owner, pairing, live, signouts, reports, daemonVars>>

\* A casper:// link with the session's token.
OpenLink(u) ==
    /\ running /\ exchanges = {}
    /\ exchanges' = {[user |-> u, name |-> u, cred |-> 0]}
    /\ UNCHANGED <<serviceVars, reports, daemonVars>>

\* The request is refused or lost, or its answer is lost.
LoseExchange(x) ==
    /\ x \in exchanges
    /\ exchanges' = exchanges \ {x}
    /\ UNCHANGED <<serviceVars, reports, daemonVars>>

RoomForTask == Cardinality(adding) + Cardinality(leaving) < MaxTasks

\* addOrReplaceIdentity, up to the end of its critical section.  Once it has
\* an identity the daemon polls no code.
AddIdentity(u, c, from) ==
    /\ RoomForTask
    /\ code' = NoCode
    /\ ident' = [ident EXCEPT ![u] = c]
    /\ adding' = adding \union
        {[user |-> u, cred |-> c, old |-> ident[u], snapshot |-> ident', from |-> from,
          at |-> "saving"]}

TakeCredential(x) ==
    /\ running /\ x \in exchanges /\ x.cred # 0
    /\ AddIdentity(x.name, x.cred, "pair")
    /\ exchanges' = exchanges \ {x}
    /\ UNCHANGED <<owner, pairing, live, signouts, reports, running, served, disk, resuming, dropping,
                   leaving, enabled, tunnel, stops>>

\* Some of the reports of a kind get through.
Announce(kind, held) ==
    \E S \in SUBSET {u \in Users : held[u] # 0} :
        LET sent == {[user |-> u, cred |-> held[u], kind |-> kind, at |-> "sent"] : u \in S}
        IN  /\ Cardinality(reports \union sent) <= MaxReports
            /\ reports' = reports \union sent

\* The rest of it: the keys the server accepts, and SaveSessions.
SaveAdd(a) ==
    /\ a \in adding /\ a.at = "saving"
    /\ adding' = (adding \ {a}) \union {[a EXCEPT !.at = "enabling"]}
    /\ served' = (served \ {a.old}) \union {a.cred}
    /\ disk' = a.snapshot
    /\ UNCHANGED <<serviceVars, exchanges, reports, running, ident, resuming, dropping, leaving, enabled, tunnel, stops>>

\* Then setEnabled: a pairing turns the machine on.  (tunnel.Start refuses
\* only an empty domain or routing key, which no installation has.)
FinishAdd(a) ==
    /\ a \in adding /\ a.at = "enabling"
    /\ adding' = adding \ {a}
    /\ enabled' = (enabled \/ a.from = "pair")
    /\ tunnel' = enabled'
    /\ Announce(IF enabled' THEN "up" ELSE "down", ident)
    /\ UNCHANGED <<serviceVars, exchanges, running, ident, served, disk, resuming, dropping, leaving, stops>>

----------------------------------------------------------------------------
(* The daemon: sign-out, presence, start *)

\* removeIdentity and removeSessionFromDisk, up to the end of the critical
\* section.
LeaveIdentity(u, c) ==
    /\ RoomForTask
    /\ ident' = [ident EXCEPT ![u] = 0]
    /\ leaving' = leaving \union {[user |-> u, cred |-> c, snapshot |-> ident', at |-> "saving"]}

\* The request of signout_all_hosts, or its loss.
Shutdown(s) ==
    /\ s \in signouts /\ s.at = "popped"
    /\ signouts' = signouts \ {s}
    /\ \/ running /\ tunnel /\ s.cred \in served /\ LeaveIdentity(s.user, s.cred)
       \/ UNCHANGED <<ident, leaving>>
    /\ UNCHANGED <<code, owner, pairing, live, exchanges, reports,
                   running, served, disk, resuming, dropping, adding, enabled, tunnel, stops>>

SaveLeave(l) ==
    /\ l \in leaving /\ l.at = "saving"
    /\ leaving' = (leaving \ {l}) \union {[l EXCEPT !.at = "finishing"]}
    /\ disk' = l.snapshot
    /\ UNCHANGED <<serviceVars, exchanges, reports, running, ident, served, resuming, dropping, adding, enabled, tunnel, stops>>

\* finishSignOut: the key goes, and the last one to leave stops the tunnel ...
FinishLeave(l) ==
    /\ l \in leaving /\ l.at = "finishing"
    /\ leaving' = (leaving \ {l}) \union (IF ident = NoneHeld THEN {[l EXCEPT !.at = "stopping"]} ELSE {})
    /\ served' = served \ {l.cred}
    /\ UNCHANGED <<serviceVars, exchanges, reports, running, ident, disk, resuming, dropping, adding, enabled, tunnel, stops>>

\* ... having counted before.
StopTunnel(l) ==
    /\ l \in leaving /\ l.at = "stopping"
    /\ leaving' = leaving \ {l}
    /\ tunnel' = FALSE
    /\ Announce("down", [NoneHeld EXCEPT ![l.user] = l.cred])
    /\ UNCHANGED <<serviceVars, exchanges, running, ident, served, disk, resuming, dropping, adding, enabled, stops>>

\* presenceHeartbeat; the tunnel's URL is empty while it is down.
Heartbeat_Paired(u) ==
    /\ running /\ enabled /\ tunnel /\ ident[u] # 0 /\ live # "unknown"
    /\ Cardinality(reports) < MaxReports
    /\ reports' = reports \union {[user |-> u, cred |-> ident[u], kind |-> "up", at |-> "sent"]}
    /\ UNCHANGED <<serviceVars, exchanges, daemonVars>>

Heartbeat(u) ==
    /\ running /\ enabled /\ tunnel /\ ident[u] # 0
    /\ Cardinality(reports) < MaxReports
    /\ reports' = reports \union {[user |-> u, cred |-> ident[u], kind |-> "up", at |-> "sent"]}
    /\ UNCHANGED <<serviceVars, exchanges, daemonVars>>

\* reportPresence on a 401, which names the account and not the credential;
\* a refused clear is not looked at.
HearRefusal_Ignored(r) ==
    /\ r \in reports /\ r.at = "refused"
    /\ reports' = reports \ {r}
    /\ UNCHANGED <<serviceVars, exchanges, daemonVars>>

HearRefusal(r) ==
    /\ r \in reports /\ r.at = "refused"
    /\ reports' = reports \ {r}
    /\ IF r.kind = "up" /\ ident[r.user] # 0
       THEN LeaveIdentity(r.user, ident[r.user])
       ELSE UNCHANGED <<ident, leaving>>
    /\ UNCHANGED <<serviceVars, exchanges, running, served, disk, resuming, dropping, adding, enabled, tunnel, stops>>

\* setEnabled from the menu.
Toggle ==
    /\ running /\ stops < MaxStops /\ stops' = stops + 1
    /\ enabled' = ~enabled
    /\ tunnel' = enabled'
    /\ Announce(IF enabled' THEN "up" ELSE "down", ident)
    /\ UNCHANGED <<serviceVars, exchanges, running, ident, served, disk, resuming, dropping, adding, leaving>>

Quit ==
    /\ running /\ stops < MaxStops /\ stops' = stops + 1
    /\ running' = FALSE
    /\ ident' = NoneHeld /\ resuming' = NoneHeld /\ dropping' = {}
    /\ served' = {} /\ adding' = {} /\ leaving' = {}
    /\ tunnel' = FALSE
    /\ exchanges' = {} /\ code' = NoCode
    /\ reports' = {r \in reports : r.at # "refused"}
    /\ UNCHANGED <<owner, pairing, live, signouts, disk, enabled>>

Start ==
    /\ ~running
    /\ running' = TRUE
    /\ resuming' = disk
    /\ code' = IF disk = NoneHeld THEN OpenCode ELSE NoCode
    /\ UNCHANGED <<owner, pairing, live, signouts, exchanges, reports, ident, served, disk, dropping, adding, leaving,
                   enabled, tunnel, stops>>

\* verify_host's answer on a saved session, if the daemon gets one.
Invalid(u) == pairing[u] # resuming[u]

\* A saved session is verified and resumed, or dropped when it is invalid;
\* one that cannot be verified ("offline?") counts as valid.
Resume(u) ==
    /\ running /\ resuming[u] # 0 /\ dropping = {}
    /\ resuming' = [resuming EXCEPT ![u] = 0]
    /\ \/ AddIdentity(u, resuming[u], "resume") /\ UNCHANGED dropping
       \/ /\ Invalid(u)
          /\ dropping' = {[disk EXCEPT ![u] = 0]}
          /\ UNCHANGED <<code, ident, adding>>
    /\ UNCHANGED <<owner, pairing, live, signouts, exchanges, reports, running, served, disk, leaving,
                   enabled, tunnel, stops>>

\* dropUnresumedSession saves what it loaded before.
SaveDrop(rest) ==
    /\ rest \in dropping /\ dropping' = {}
    /\ disk' = rest
    /\ UNCHANGED <<serviceVars, exchanges, reports, running, ident, served, resuming, adding, leaving, enabled, tunnel, stops>>

----------------------------------------------------------------------------
Handling(r) == Resolve(r) \/ Apply(r) \/ HearRefusal(r)
Adding(a) == SaveAdd(a) \/ FinishAdd(a)
Leaving(l) == SaveLeave(l) \/ FinishLeave(l) \/ StopTunnel(l)

ServiceNext ==
    \/ \E u \in Users : Approve(u) \/ EndPairing(u) \/ SignOutAll(u)
    \/ \E x \in exchanges : PairHost(x) \/ LoseExchange(x)
    \/ \E s \in signouts : PopLive(s) \/ Shutdown(s)
    \/ \E r \in reports : Handling(r)
    \/ Expire \/ ServiceRestart

DaemonNext ==
    \/ CollectToken \/ Toggle \/ Quit \/ Start
    \/ \E u \in Users : OpenLink(u) \/ Heartbeat(u) \/ Resume(u)
    \/ \E x \in exchanges : TakeCredential(x)
    \/ \E rest \in dropping : SaveDrop(rest)
    \/ \E a \in adding : Adding(a)
    \/ \E l \in leaving : Leaving(l)

Next == ServiceNext \/ DaemonNext

\* A goroutine and a request under way get on.  Every identity has its
\* heartbeat each minute, whatever the others do, and a service that restarts
\* does not do so in the middle of every report.
Fairness ==
    /\ \A u \in Users : SF_vars(Heartbeat(u))
    /\ SF_vars(\E r \in reports : Apply(r))
    /\ SF_vars(\E r \in reports : HearRefusal(r))
    /\ WF_vars(\E r \in reports : Resolve(r))
    /\ WF_vars(\E a \in adding : Adding(a))
    /\ WF_vars(\E l \in leaving : Leaving(l))

Spec == Init /\ [][Next]_vars /\ Fairness

----------------------------------------------------------------------------
(* Properties *)

\* Whoever's name the daemon keeps a credential under, now or in its saved
\* sessions, is the account the service gave it to: two people may approve
\* the same code one after the other (pairing_approve), and a restart may
\* resume what an overtaken write left on disk.
IdentityIsOwners ==
    \A u \in Users :
        /\ ident[u] # 0 => owner[ident[u]] = u
        /\ disk[u] # 0 => owner[disk[u]] = u

\* While the daemon runs, an account whose first pairing still stands is
\* never signed out, whatever restarts, reports overtaking each other and
\* other people's sign-outs come between (main.py, "Host pairing (persisted)
\* + live reachability (in-memory)").
NeverEndedNeverOut ==
    [][\A u \in Users :
        ident[u] # 0 /\ ident'[u] = 0 /\ running' =>
            \E c \in DOMAIN owner : owner[c] = u /\ pairing[u] # c]_vars

\* A machine that stays on, with its tunnel up and an account paired, is
\* shown connected again and again, and the service reaches it for that
\* account: presenceHeartbeat undoes a restart of the service, the clear of
\* an earlier sign-out that comes late and another account's
\* signout_all_hosts, and no overtaken sign-out takes the new key with it.
OnMacShows ==
    \A u \in Users :
        <>[](running /\ enabled /\ tunnel /\ ident[u] # 0 /\ ident[u] = pairing[u]) => []<>(ShownTo(u) /\ Reached(u))

\* An identity whose pairing was ended while the machine could not be told
\* does not stay: a heartbeat finds out.
DeadIdentityGoes ==
    \A u \in Users :
        (ident[u] # 0 /\ ident[u] # pairing[u]) ~>
            (ident[u] = 0 \/ ident[u] = pairing[u] \/ ~(running /\ enabled /\ tunnel))
=============================================================================
