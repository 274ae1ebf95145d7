---------------------------- MODULE MCPeerStore ----------------------------
(* Small instances of PeerStore: Riley's backups on Sam's machine.         *)
(*                                                                         *)
(* The run peer has three scenes.  Grace: two requests at a time on one    *)
(* backup, while its grant is given and revoked.  Quota: two requests at a *)
(* time on two backups that do not both fit, while the clock stands still. *)
(* Again: one request at a time, and space is given again to somebody who  *)
(* was revoked.                                                            *)
EXTENDS PeerStore, TLC

CONSTANTS riley, b1, b2, h1, h2

MCOwnerOf == [b \in Backups |-> riley]
MCSizeOf == [b \in Backups |-> 2]
Alike == Permutations({h1, h2}) \union Permutations({b1, b2})

Scene ==
    [grace |-> [kinds |-> {"write", "refresh"}, tier |-> "allow", rows |-> 1, time |-> 3],
     quota |-> [kinds |-> {"authorize", "write", "read", "delete"}, tier |-> "ask", rows |-> 1, time |-> 0],
     again |-> [kinds |-> {"write", "delete", "refresh"}, tier |-> "allow", rows |-> 2, time |-> 4]]

VARIABLES
    scene,          \* which of them it is
    cast            \* the handlers and backups that take part

StoryInit ==
    /\ Init
    /\ scene \in DOMAIN Scene
    /\ \E h \in Handlers, b \in Backups :
        cast = CASE scene = "grace" -> [handlers |-> Handlers, backups |-> {b}]
                 [] scene = "quota" -> [handlers |-> Handlers, backups |-> Backups]
                 [] scene = "again" -> [handlers |-> {h}, backups |-> {b}]

Gives(u) ==
    /\ Len(grants) < Scene[scene].rows
    /\ GiveGrant(u, Scene[scene].tier)

Ticks == now < Scene[scene].time /\ Tick

Begins(h, o) ==
    /\ o.kind \in Scene[scene].kinds
    /\ o.kind # "refresh" => o.backup \in cast.backups
    /\ Begin(h, o)

StoryNext ==
    /\ \/ \E u \in Grantees : Gives(u)
       \/ \E n \in 1 .. MaxRows : RevokeGrant(n)
       \/ Ticks
       \/ \E h \in cast.handlers :
           \/ \E o \in Op : Begins(h, o)
           \/ Fetch(h) \/ FetchFails(h) \/ KeepList(h)
           \/ Reply(h) \/ RefuseWrite(h) \/ AcceptWrite(h) \/ WriteFiles(h)
           \/ Mark(h)
           \/ WriteCutShort(h) \/ Delete(h) \/ Purge(h)
       \/ Restart
    /\ UNCHANGED <<scene, cast>>

StorySpec == StoryInit /\ [][StoryNext]_<<vars, scene, cast>>
=============================================================================
